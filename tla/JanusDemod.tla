----------------------------- MODULE JanusDemod -----------------------------
(***************************************************************************)
(* The demodulator thread of janus_wrap/janus-wrapper.cpp: rxSamples()     *)
(* hands blocks of samples to demodulate(), performDemodulation() waits    *)
(* for them on cv_demod and runs the JANUS receiver on JANUS_RED_SIZE of   *)
(* them at a time, ~JanusWrapper() stops and joins the thread.             *)
(*                                                                         *)
(* The critical section of demodulate() is one step.  The demodulator owns *)
(* mutex_demod between steps at "block" (after the predicate, before the   *)
(* sleep) and at "execute" (inside janus_simple_rx_execute).  The JANUS    *)
(* library is outside: an execution fails, finds nothing or ends a packet, *)
(* and its stream takes no block of an impossible size.                    *)
(***************************************************************************)
EXTENDS Integers

CONSTANTS JANUS_RED_SIZE,  \* samples taken by one execution of the receiver
          NotifyAt,        \* the literal 10 of demodulate()
          Block,           \* sizes of the blocks that receive() returns
          Errno,           \* its error numbers, as positive numbers
          MaxWritten,      \* bound on the samples written
          MaxFailures      \* bound on the blocks that failed

ASSUME SizeAssumption ==
    /\ JANUS_RED_SIZE \in Nat \ {0} /\ NotifyAt \in 1..JANUS_RED_SIZE
    /\ Block \subseteq Nat /\ Errno \subseteq Nat \ {0}
    /\ MaxWritten \in Nat /\ MaxFailures \in Nat

VARIABLES active,               \* std::atomic<bool> active
          demod_data_available, \* the count of samples not taken, an int
          pc,                   \* where performDemodulation() stands
          dtor,                 \* where ~JanusWrapper() stands
          written,              \* history: samples written by demodulate()
          taken,                \* history: samples taken by executions
          late,                 \* history: executions begun after the stop
          failures,             \* history: blocks that failed
          lost,                 \* history: what they took off the count
          early                 \* history: executions on less than a share

blocks == <<written, failures, lost>>
executions == <<taken, early, late>>
vars == <<active, demod_data_available, pc, dtor, blocks, executions>>

MutexFree == pc \notin {"block", "execute"}

\* After janusSetup().
Init ==
    /\ active = TRUE
    /\ demod_data_available = 0
    /\ pc = "loop"
    /\ dtor = "none"
    /\ written = 0 /\ failures = 0 /\ lost = 0
    /\ taken = 0 /\ early = 0 /\ late = 0

Notified == IF pc = "asleep" THEN "woken" ELSE pc

-----------------------------------------------------------------------------
\* Mutant: the size of the block alone decides about the notification.
DemodulateByBlock(n) ==
    /\ dtor = "none" /\ MutexFree
    /\ written + n <= MaxWritten
    /\ written' = written + n
    /\ demod_data_available' = demod_data_available + n
    /\ pc' = IF n >= JANUS_RED_SIZE THEN Notified ELSE pc
    /\ UNCHANGED <<active, dtor, failures, lost, executions>>

\* demodulate(): write, count and notify in one critical section.  No block
\* comes once the destructor runs: main() has joined rxSamples() before.
Demodulate(n) ==
    /\ dtor = "none" /\ MutexFree
    /\ written + n <= MaxWritten
    /\ written' = written + n
    /\ demod_data_available' = demod_data_available + n
    /\ pc' = IF demod_data_available + n >= NotifyAt THEN Notified ELSE pc
    /\ UNCHANGED <<active, dtor, failures, lost, executions>>

\* The block of a failed receive(): its size is 2^64 - e, so the sum wraps around
\* to e less than it was.  A negative count is not 10 or more.
DemodulateFailed(e) ==
    /\ dtor = "none" /\ MutexFree
    /\ failures < MaxFailures
    /\ failures' = failures + 1 /\ lost' = lost + e
    /\ demod_data_available' = demod_data_available - e
    /\ pc' = IF demod_data_available - e >= NotifyAt THEN Notified ELSE pc
    /\ UNCHANGED <<active, dtor, written, executions>>

-----------------------------------------------------------------------------
(* performDemodulation()                                                     *)

\* Mutant: the thread is not stopped by the flag.
LoopForever ==
    /\ pc = "loop"
    /\ pc' = "enter"
    /\ UNCHANGED <<active, demod_data_available, dtor, blocks, executions>>

\* while(active.load())
Loop ==
    /\ pc = "loop"
    /\ pc' = IF active THEN "enter" ELSE "ended"
    /\ UNCHANGED <<active, demod_data_available, dtor, blocks, executions>>

\* The lock and the predicate of cv_demod.wait, first or after a wakeup.  The
\* count is compared as an unsigned number: a negative one is a large one.
Ready == demod_data_available \notin 0..(JANUS_RED_SIZE - 1) \/ ~active
WaitCheck ==
    /\ pc \in {"enter", "woken"}
    /\ pc' = IF Ready THEN "execute" ELSE "block"
    /\ late' = IF Ready /\ ~active THEN late + 1 ELSE late
    /\ UNCHANGED <<active, demod_data_available, dtor, blocks, taken, early>>

Sleep ==
    /\ pc = "block"
    /\ pc' = "asleep"
    /\ UNCHANGED <<active, demod_data_available, dtor, blocks, executions>>

SpuriousWake ==
    /\ pc = "asleep"
    /\ pc' = "woken"
    /\ UNCHANGED <<active, demod_data_available, dtor, blocks, executions>>

\* The receiver fails (an overrun): nothing is counted as taken.
ExecuteFails ==
    /\ pc = "execute"
    /\ pc' = "loop"
    /\ UNCHANGED <<active, demod_data_available, dtor, blocks, executions>>

\* The samples that are in the stream, as far as one execution takes them.
Share == IF written - taken < JANUS_RED_SIZE THEN written - taken ELSE JANUS_RED_SIZE

\* Mutant: the count is not clamped at zero.
ExecuteUnclamped ==
    /\ pc = "execute"
    /\ demod_data_available' = demod_data_available - JANUS_RED_SIZE
    /\ taken' = taken + Share
    /\ early' = IF Share < JANUS_RED_SIZE THEN early + 1 ELSE early
    /\ pc' \in {"loop", "push"}
    /\ UNCHANGED <<active, dtor, blocks, late>>

\* The receiver has taken its share: the count falls, never below zero.  With
\* a valid packet the thread goes on, without the mutex, to push it.
Execute ==
    /\ pc = "execute"
    /\ demod_data_available' = IF demod_data_available < JANUS_RED_SIZE THEN 0
                               ELSE demod_data_available - JANUS_RED_SIZE
    /\ taken' = taken + Share
    /\ early' = IF Share < JANUS_RED_SIZE THEN early + 1 ELSE early
    /\ pc' \in {"loop", "push"}
    /\ UNCHANGED <<active, dtor, blocks, late>>

\* pushRxChunk(): ConcQueue says what happens inside, it does not block.
PushRxChunk ==
    /\ pc = "push"
    /\ pc' = "loop"
    /\ UNCHANGED <<active, demod_data_available, dtor, blocks, executions>>

-----------------------------------------------------------------------------
(* ~JanusWrapper()                                                           *)

\* active = false, without the mutex ...
Stop ==
    /\ dtor = "none"
    /\ active' = FALSE
    /\ dtor' = "notify"
    /\ UNCHANGED <<demod_data_available, pc, blocks, executions>>

\* Mutant: the destructor does not notify.
StopSilently ==
    /\ dtor = "notify"
    /\ dtor' = "join"
    /\ UNCHANGED <<active, demod_data_available, pc, blocks, executions>>

\* ... cv_demod.notify_one() ...
StopNotify ==
    /\ dtor = "notify"
    /\ dtor' = "join"
    /\ pc' = Notified
    /\ UNCHANGED <<active, demod_data_available, blocks, executions>>

\* ... and join().
Join ==
    /\ dtor = "join" /\ pc = "ended"
    /\ dtor' = "done"
    /\ UNCHANGED <<active, demod_data_available, pc, blocks, executions>>

Demodulator == Loop \/ WaitCheck \/ Sleep \/ ExecuteFails \/ Execute \/ PushRxChunk
Destructor  == StopNotify \/ Join

Next ==
    \/ \E n \in Block : Demodulate(n)
    \/ \E e \in Errno : DemodulateFailed(e)
    \/ Demodulator \/ SpuriousWake
    \/ Stop \/ Destructor

Spec == Init /\ [][Next]_vars

\* The operating system runs the thread and the destructor once it has begun.
FairSpec == Spec /\ WF_vars(Demodulator) /\ WF_vars(Destructor)

-----------------------------------------------------------------------------
\* Type invariant of the wrapper's reception side: nothing but a failed block
\* makes the count negative.
TypeOK ==
    /\ active \in BOOLEAN
    /\ demod_data_available \in Int /\ 0 <= demod_data_available + lost
    /\ pc \in {"loop", "enter", "block", "asleep", "woken", "execute", "push", "ended"}
    /\ dtor \in {"none", "notify", "join", "done"}
    /\ written \in Nat /\ failures \in Nat /\ lost \in Nat
    /\ taken \in Nat /\ early \in Nat /\ late \in Nat

\* The demodulator keeps up: when it sleeps, less than one execution's worth of
\* what has been written is still untaken, whatever block sizes arrive in
\* whatever order and however the executions in between ended.  What failed
\* blocks took off the count, at most, comes on top.
KeepsUp == pc = "asleep" => written < taken + JANUS_RED_SIZE + lost

\* A negative count passes for plenty of samples, but each failed block, like the
\* stop, costs at most one execution that has less than its share to take.
EarlyExecutions == early <= failures + late

\* Once the destructor has cleared the flag, at most one more execution begins,
\* so at most one more packet is pushed to the queue.
OneLateExecution == late <= 1

\* If the demodulator sleeps when the destructor is about to notify it, the
\* destructor returns.
SleeperJoined == (dtor = "notify" /\ pc = "asleep") ~> dtor = "done"
=============================================================================
