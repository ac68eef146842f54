-------------------------- MODULE JanusDemodProofs --------------------------
(***************************************************************************)
(* JanusDemod for every size of execution, threshold, block and error: the *)
(* thread keeps up with the blocks, loses at most one execution to each    *)
(* failed block, and stops after one more execution at most.               *)
(*                                                                         *)
(* KeepsUp is not inductive: it speaks of a sleeping thread only.  What is *)
(* kept by every step is Account, which puts the count of samples between  *)
(* what the stream holds and that less what failed blocks took off it, and *)
(* Settled, which says that the thread decides to sleep, and stays asleep, *)
(* only on a small count.  For EarlyExecutions, Rounds counts the thread's *)
(* round in progress as early while the count is negative.                 *)
(***************************************************************************)
EXTENDS JanusDemod, TLAPS

Account ==
    /\ taken + demod_data_available <= written
    /\ written <= taken + demod_data_available + lost
    /\ taken <= written
Settled == pc \in {"block", "asleep"} => demod_data_available < JANUS_RED_SIZE
LastRound ==
    /\ active => late = 0
    /\ late = 0 \/ (late = 1 /\ pc \in {"execute", "push", "loop", "ended"})
Rounds ==
    /\ early <= failures + late
    /\ demod_data_available < 0 => early < failures + late
    /\ pc = "execute" /\ demod_data_available < JANUS_RED_SIZE => early < failures + late
IInv == TypeOK /\ Account /\ Settled /\ LastRound /\ Rounds

\* One block: counted, and notified when it could fill an execution.
LEMMA BlockStep == ASSUME IInv, NEW n \in Block, Demodulate(n) PROVE IInv'
<1> n \in Nat BY SizeAssumption
<1> USE SizeAssumption DEF blocks, executions
<1>1. TypeOK' BY DEF IInv, TypeOK, Demodulate, Notified
<1>2. Account' BY DEF IInv, TypeOK, Account, Demodulate
<1>3. Settled' BY DEF IInv, TypeOK, Settled, Demodulate, MutexFree, Notified
<1>4. LastRound' BY DEF IInv, TypeOK, LastRound, Demodulate, MutexFree, Notified
<1>5. Rounds' BY DEF IInv, TypeOK, Rounds, Demodulate, MutexFree, Notified
<1>6. QED BY <1>1, <1>2, <1>3, <1>4, <1>5 DEF IInv

\* A failed block: it lowers the count and allows for one early execution.
LEMMA FailedBlockStep ==
    ASSUME IInv, NEW e \in Errno, DemodulateFailed(e) PROVE IInv'
<1> e \in Nat \ {0} BY SizeAssumption
<1> USE SizeAssumption DEF blocks, executions
<1>1. TypeOK' BY DEF IInv, TypeOK, DemodulateFailed, Notified
<1>2. Account' BY DEF IInv, TypeOK, Account, DemodulateFailed
<1>3. Settled' BY DEF IInv, TypeOK, Settled, DemodulateFailed, MutexFree, Notified
<1>4. LastRound' BY DEF IInv, TypeOK, LastRound, DemodulateFailed, MutexFree, Notified
<1>5. Rounds' BY DEF IInv, TypeOK, Rounds, DemodulateFailed, MutexFree, Notified
<1>6. QED BY <1>1, <1>2, <1>3, <1>4, <1>5 DEF IInv

\* The thread's own steps.
LEMMA ThreadStep == ASSUME IInv, Demodulator \/ SpuriousWake PROVE IInv'
<1> USE SizeAssumption DEF blocks, executions
<1>1. CASE Loop BY <1>1 DEF IInv, TypeOK, Account, Settled, LastRound, Rounds, Loop
<1>2. CASE WaitCheck
  <2>1. TypeOK' BY <1>2 DEF IInv, TypeOK, WaitCheck
  <2>2. Account' BY <1>2 DEF IInv, TypeOK, Account, WaitCheck
  <2>3. Settled' BY <1>2 DEF IInv, TypeOK, Settled, WaitCheck, Ready
  <2>4. LastRound' BY <1>2 DEF IInv, TypeOK, LastRound, WaitCheck, Ready
  <2>5. Rounds' BY <1>2 DEF IInv, TypeOK, Rounds, WaitCheck, Ready
  <2>6. QED BY <2>1, <2>2, <2>3, <2>4, <2>5 DEF IInv
<1>3. CASE Sleep BY <1>3 DEF IInv, TypeOK, Account, Settled, LastRound, Rounds, Sleep
<1>4. CASE ExecuteFails
  BY <1>4 DEF IInv, TypeOK, Account, Settled, LastRound, Rounds, ExecuteFails
<1>5. CASE Execute
  <2>1. /\ Share \in Nat /\ Share <= JANUS_RED_SIZE /\ Share <= written - taken
        /\ Share < JANUS_RED_SIZE => Share = written - taken
    BY DEF IInv, TypeOK, Account, Share
  <2>2. TypeOK' BY <1>5, <2>1 DEF IInv, TypeOK, Execute
  <2>3. Account' BY <1>5, <2>1 DEF IInv, TypeOK, Account, Execute
  <2>4. Settled' /\ LastRound' BY <1>5 DEF IInv, TypeOK, Settled, LastRound, Execute
  <2>5. Rounds' BY <1>5, <2>1 DEF IInv, TypeOK, Account, Rounds, Execute
  <2>6. QED BY <2>2, <2>3, <2>4, <2>5 DEF IInv
<1>6. CASE PushRxChunk
  BY <1>6 DEF IInv, TypeOK, Account, Settled, LastRound, Rounds, PushRxChunk
<1>7. CASE SpuriousWake
  BY <1>7 DEF IInv, TypeOK, Account, Settled, LastRound, Rounds, SpuriousWake
<1>8. QED BY <1>1, <1>2, <1>3, <1>4, <1>5, <1>6, <1>7 DEF Demodulator

\* The destructor's steps.
LEMMA StopStep == ASSUME IInv, Stop \/ Destructor PROVE IInv'
<1> USE DEF blocks, executions
<1>1. CASE Stop BY <1>1 DEF IInv, TypeOK, Account, Settled, LastRound, Rounds, Stop
<1>2. CASE StopNotify
  BY <1>2 DEF IInv, TypeOK, Account, Settled, LastRound, Rounds, StopNotify, Notified
<1>3. CASE Join BY <1>3 DEF IInv, TypeOK, Account, Settled, LastRound, Rounds, Join
<1>4. QED BY <1>1, <1>2, <1>3 DEF Destructor

\* The strengthened invariant holds in every reachable state.
THEOREM Invariance == Spec => []IInv
<1>1. Init => IInv
  BY SizeAssumption DEF Init, IInv, TypeOK, Account, Settled, LastRound, Rounds
<1>2. IInv /\ [Next]_vars => IInv'
  <2> SUFFICES ASSUME IInv, [Next]_vars PROVE IInv' OBVIOUS
  <2>1. CASE UNCHANGED vars
    BY <2>1 DEF IInv, TypeOK, Account, Settled, LastRound, Rounds, vars, blocks,
       executions
  <2>2. CASE Next BY <2>2, BlockStep, FailedBlockStep, ThreadStep, StopStep DEF Next
  <2>3. QED BY <2>1, <2>2
<1>3. QED BY <1>1, <1>2, PTL DEF Spec

\* The wrapper's variables keep their types: without a failed block the count
\* never becomes negative, whatever block sizes the sound card returns.
THEOREM TypeCorrect == Spec => []TypeOK
<1>1. IInv => TypeOK BY DEF IInv
<1>2. QED BY <1>1, Invariance, PTL

\* The demodulator never sleeps on an execution's worth of untaken samples.
THEOREM KeepsUpCorrect == Spec => []KeepsUp
<1>1. IInv => KeepsUp
  BY SizeAssumption DEF IInv, TypeOK, Account, Settled, KeepsUp
<1>2. QED BY <1>1, Invariance, PTL

\* Each failed block, and the stop, costs at most one early execution.
THEOREM EarlyCorrect == Spec => []EarlyExecutions
<1>1. IInv => EarlyExecutions BY DEF IInv, Rounds, EarlyExecutions
<1>2. QED BY <1>1, Invariance, PTL

\* After the destructor's store at most one more execution begins.
THEOREM OneLateCorrect == Spec => []OneLateExecution
<1>1. IInv => OneLateExecution BY DEF IInv, LastRound, OneLateExecution
<1>2. QED BY <1>1, Invariance, PTL
=============================================================================
