----------------------- MODULE JanusExecutableProofs -----------------------
(***************************************************************************)
(* Proofs about JanusExecutable, for any number of packets, clients and    *)
(* descriptors: the program's steps are steps of its queue and of its      *)
(* socket, so what is proved of those holds in the program; and packets    *)
(* reach the user in order, none twice.                                    *)
(***************************************************************************)
EXTENDS JanusExecutable, FiniteSetTheorems, SequenceTheorems, TLAPS

\* The queue and the socket with the theorems about them.
QP == INSTANCE ConcQueueWakeups WITH
    Thread <- {demod, main, handler},
    Uses <- [t \in {demod, main, handler} |->
               IF t = demod THEN {"push"} ELSE IF t = main THEN {"wPop"} ELSE {"forceExit"}],
    pc <- qpc, call <- qcall, result <- qresult
SP == INSTANCE TcpStreamProofs WITH
    Thread <- {listener, main},
    Uses <- [t \in {listener, main} |-> IF t = main THEN {"tx", "quit"} ELSE {"rx"}],
    pc <- spc, call <- scall, result <- sresult

-----------------------------------------------------------------------------
(* The program's steps are steps of the queue or leave it alone.             *)

LEMMA QueueSteps == [Next]_vars => [Q!Next]_Q!vars
<1> SUFFICES ASSUME [Next]_vars PROVE Q!Next \/ UNCHANGED queueVars
  BY DEF queueVars, Q!vars
<1>1. ASSUME NEW t \in {demod, main, handler},
             Q!Step(t) \/ Q!SpuriousWake(t)
      PROVE  Q!Next
  BY <1>1 DEF Q!Next
<1>2. Q!Call(main, "wPop") \/ Q!Call(demod, "push") \/ Q!Call(handler, "forceExit") => Q!Next
  BY ConstantAssumption DEF Q!Next
<1>3. CASE TxLoop
  BY <1>3 DEF TxLoop, Listen, Received, Transmitted, SocketStep, CallSocket, Local, ownVars
<1>4. CASE Main
  <2>1. CASE Pop \/ QueueStep(main)
    BY <1>1, <1>2, <2>1 DEF Pop, CallQueue, QueueStep
  <2>2. CASE Popped \/ Sent \/ Quit \/ Exit \/ SocketStep(main)
    BY <2>2 DEF Popped, Sent, Quit, Exit, SocketStep, CallSocket, Local
  <2>3. QED
    BY <1>4, <2>1, <2>2 DEF Main
<1>5. CASE Handler \/ QueueStep(demod) \/ Decode \/ SpuriousWake
  BY <1>1, <1>2, <1>5 DEF Handler, ForceExit, CallQueue, QueueStep, Decode, SpuriousWake
<1>6. CASE SamplerEnds \/ Signal \/ ClientStep
  BY <1>6 DEF SamplerEnds, Local, Signal, ClientStep
<1>7. CASE UNCHANGED vars
  BY <1>7 DEF vars
<1>8. QED
  BY <1>3, <1>4, <1>5, <1>6, <1>7 DEF Next

\* The program uses its queue as ConcQueue says: it implements it.
THEOREM ImplementsQueue == Spec => Q!Spec
<1>1. Init => Q!Init
  BY DEF Init
<1>2. QED
  BY <1>1, QueueSteps, PTL DEF Spec, Q!Spec

-----------------------------------------------------------------------------
(* The same of the socket.                                                   *)

LEMMA SocketSteps == [Next]_vars => [S!Next]_S!vars
<1> SUFFICES ASSUME [Next]_vars PROVE S!Next \/ UNCHANGED socketVars
  BY DEF socketVars, S!vars, S!threadVars, S!kernelVars
<1>1. ASSUME NEW t \in {listener, main}, S!Step(t) PROVE S!Next
  BY <1>1 DEF S!Next
<1>2. S!Call(main, "tx") \/ S!Call(main, "quit") \/ S!Call(listener, "rx") => S!Next
  BY ConstantAssumption DEF S!Next
<1>3. CASE TxLoop
  BY <1>1, <1>2, <1>3
     DEF TxLoop, Listen, Received, Transmitted, SocketStep, CallSocket, Local
<1>4. CASE Main
  <2>1. CASE Popped \/ Quit \/ SocketStep(main)
    BY <1>1, <1>2, <2>1 DEF Popped, Quit, SocketStep, CallSocket, Local
  <2>2. CASE Pop \/ Sent \/ Exit \/ QueueStep(main)
    BY <2>2 DEF Pop, CallQueue, Sent, Exit, QueueStep, Local
  <2>3. QED
    BY <1>4, <2>1, <2>2 DEF Main
<1>5. CASE Handler \/ QueueStep(demod) \/ Decode \/ SpuriousWake
  BY <1>5 DEF Handler, ForceExit, CallQueue, QueueStep, Decode, SpuriousWake
<1>6. CASE ClientStep
  BY <1>6 DEF ClientStep, S!Next
<1>7. CASE SamplerEnds \/ Signal
  BY <1>7 DEF SamplerEnds, Local, Signal
<1>8. CASE UNCHANGED vars
  BY <1>8 DEF vars
<1>9. QED
  BY <1>3, <1>4, <1>5, <1>6, <1>7, <1>8 DEF Next

\* The program uses its socket as TcpStream says: it implements it.
THEOREM ImplementsSocket == Spec => S!Spec
<1>1. Init => S!Init
  BY DEF Init
<1>2. QED
  BY <1>1, SocketSteps, PTL DEF Spec, S!Spec

-----------------------------------------------------------------------------
(* The instances Q and S are those with the theorems, QP and SP.             *)

LEMMA QueueAssumption == QP!ConstantAssumption
<1>1. IsFiniteSet({demod, main, handler})
  <2>1. IsFiniteSet(({demod} \cup {main}) \cup {handler})
    BY FS_Singleton, FS_AddElement
  <2>2. ({demod} \cup {main}) \cup {handler} = {demod, main, handler}
    OBVIOUS
  <2>3. QED
    BY <2>1, <2>2
<1>2. QP!IsFiniteSet({demod, main, handler})
  BY <1>1 DEF IsFiniteSet, QP!IsFiniteSet
<1>3. QED
  BY <1>2, ConstantAssumption DEF QP!ConstantAssumption, QP!Operation, QP!Removes, QP!Peeks

LEMMA SocketAssumption == SP!ConstantAssumption
  BY ConstantAssumption DEF SP!ConstantAssumption, SP!Operation

LEMMA SameStep == \A t \in {demod, main, handler} : Q!Step(t) <=> QP!Step(t)
  BY DEF Q!Step, QP!Step, Q!PushInsert, QP!PushInsert, Q!PushStore, QP!PushStore,
     Q!ExitStore, QP!ExitStore, Q!NotifyOne, QP!NotifyOne, Q!NotifyAll, QP!NotifyAll,
     Q!Clear, QP!Clear, Q!Try, QP!Try, Q!WaitCheck, QP!WaitCheck,
     Q!ExpiredCheck, QP!ExpiredCheck, Q!Take, QP!Take, Q!Block, QP!Block,
     Q!GoTo, QP!GoTo, Q!Return, QP!Return, Q!Inspect, QP!Inspect, Q!Ready, QP!Ready,
     Q!cv_q, QP!cv_q, Q!Removes, QP!Removes, Q!Peeks, QP!Peeks, Q!Waits, QP!Waits,
     Q!Timed, QP!Timed, Q!Untimed, QP!Untimed

LEMMA SameCall ==
    \A t \in {demod, main, handler} : \A o \in {"push", "wPop", "forceExit"} :
        Q!Call(t, o) <=> QP!Call(t, o)
<1>1. \A s : Q!Cardinality(s) = QP!Cardinality(s)
  BY DEF Q!Cardinality, QP!Cardinality
<1>2. QED
  BY <1>1 DEF Q!Call, QP!Call, Q!GoTo, QP!GoTo, Q!PushesBegun, QP!PushesBegun

LEMMA SameQueue == Q!Spec <=> QP!Spec
<1>1. Q!Init <=> QP!Init
  BY DEF Q!Init, QP!Init
<1>2. [Q!Next]_Q!vars <=> [QP!Next]_QP!vars
  <2>1. ASSUME NEW t \in {demod, main, handler},
               NEW o \in [r \in {demod, main, handler} |->
                            IF r = demod THEN {"push"}
                            ELSE IF r = main THEN {"wPop"} ELSE {"forceExit"}][t]
        PROVE  Q!Call(t, o) <=> QP!Call(t, o)
    <3>1. o \in {"push", "wPop", "forceExit"}
      OBVIOUS
    <3>2. QED
      BY <3>1, SameCall
  <2>2. \A t \in {demod, main, handler} :
           (Q!SpuriousWake(t) <=> QP!SpuriousWake(t)) /\ (Q!Timeout(t) <=> QP!Timeout(t))
    BY DEF Q!SpuriousWake, QP!SpuriousWake, Q!Timeout, QP!Timeout, Q!GoTo, QP!GoTo,
       Q!Timed, QP!Timed
  <2>3. Q!Next <=> QP!Next
    BY <2>1, <2>2, SameStep DEF Q!Next, QP!Next
  <2>4. QED
    BY <2>3 DEF Q!vars, QP!vars
<1>3. QED
  BY <1>1, <1>2, PTL DEF Q!Spec, QP!Spec

LEMMA SameSocketStep == \A t \in {listener, main} : S!Step(t) <=> SP!Step(t)
<1> SUFFICES ASSUME NEW t \in {listener, main} PROVE S!Step(t) <=> SP!Step(t)
  OBVIOUS
<1> USE DEF S!GoTo, SP!GoTo, S!Return, SP!Return, S!kernelVars, SP!kernelVars,
        S!None, SP!None, S!Fd, SP!Fd, S!Ended, SP!Ended, S!CloseData, SP!CloseData
<1>1. (S!Test(t) <=> SP!Test(t)) /\ (S!Lock(t) <=> SP!Lock(t))
      /\ (S!AcceptOk(t) <=> SP!AcceptOk(t)) /\ (S!AcceptFail(t) <=> SP!AcceptFail(t))
  BY DEF S!Test, SP!Test, S!Lock, SP!Lock, S!AcceptOk, SP!AcceptOk,
     S!AcceptFail, SP!AcceptFail, S!FreeFds, SP!FreeFds
<1>2. (S!Store(t) <=> SP!Store(t)) /\ (S!Retest(t) <=> SP!Retest(t))
      /\ (S!Begin(t) <=> SP!Begin(t))
  BY DEF S!Store, SP!Store, S!Retest, SP!Retest, S!Begin, SP!Begin
<1>3. (S!RecvOk(t) <=> SP!RecvOk(t)) /\ (S!RecvEnd(t) <=> SP!RecvEnd(t))
      /\ (S!SendOk(t) <=> SP!SendOk(t)) /\ (S!SendFail(t) <=> SP!SendFail(t))
  BY DEF S!RecvOk, SP!RecvOk, S!RecvEnd, SP!RecvEnd, S!SendOk, SP!SendOk,
     S!SendFail, SP!SendFail
<1>4. (S!Close(t) <=> SP!Close(t)) /\ (S!Reset(t) <=> SP!Reset(t))
  BY DEF S!Close, SP!Close, S!Reset, SP!Reset
<1>5. (S!QuitList(t) <=> SP!QuitList(t)) /\ (S!QuitData(t) <=> SP!QuitData(t))
      /\ (S!QuitClose(t) <=> SP!QuitClose(t)) /\ (S!QuitReset(t) <=> SP!QuitReset(t))
  BY DEF S!QuitList, SP!QuitList, S!QuitData, SP!QuitData,
     S!QuitClose, SP!QuitClose, S!QuitReset, SP!QuitReset
<1>6. QED
  BY <1>1, <1>2, <1>3, <1>4, <1>5 DEF S!Step, SP!Step

LEMMA SameSocket == S!Spec <=> SP!Spec
<1>1. S!Init <=> SP!Init
  BY DEF S!Init, SP!Init, S!None, SP!None, S!Fd, SP!Fd
<1>2. [S!Next]_S!vars <=> [SP!Next]_SP!vars
  BY SameSocketStep
     DEF S!Next, SP!Next, S!Call, SP!Call, S!GoTo, SP!GoTo, S!Connect, SP!Connect,
         S!ClientSend, SP!ClientSend, S!ClientClose, SP!ClientClose,
         S!ClientVars, SP!ClientVars, S!vars, SP!vars,
         S!threadVars, SP!threadVars, S!kernelVars, SP!kernelVars
<1>3. QED
  BY <1>1, <1>2, PTL DEF S!Spec, SP!Spec

-----------------------------------------------------------------------------
(* What is proved of the components holds in the program.                    *)

\* Whatever the threads of the program interleave, each decoded packet leaves the
\* queue once and in order, and main() never sleeps for good beside a packet.
THEOREM QueueInProgram == Spec => [](Q!Fifo /\ Q!NoSleeperWithData)
<1>1. QP!NoPeekingWaits
  BY ConstantAssumption DEF QP!NoPeekingWaits
<1>2. QP!Spec => []QP!Fifo
  BY QueueAssumption, QP!FifoCorrect
<1>3. QP!Spec => []QP!NoSleeperWithData
  BY <1>1, QueueAssumption, QP!NoLostData
<1>4. QP!Fifo /\ QP!NoSleeperWithData => Q!Fifo /\ Q!NoSleeperWithData
  BY DEF QP!Fifo, Q!Fifo, QP!NoSleeperWithData, Q!NoSleeperWithData, QP!AtRest, Q!AtRest,
     QP!cv_q, Q!cv_q
<1>5. QED
  BY <1>2, <1>3, <1>4, ImplementsQueue, SameQueue, PTL

\* Whatever clients come and go, main() and txLoop() never put a connection in
\* the place of the one in service.
THEOREM SocketInProgram == Spec => S!NeverReplaced
<1>1. SP!Spec => SP!NeverReplaced
  BY SocketAssumption, SP!NeverReplacedCorrect
<1>2. [data_sck # SP!None /\ data_sck' # SP!None => data_sck' = data_sck]_SP!vars
        => [data_sck # S!None /\ data_sck' # S!None => data_sck' = data_sck]_S!vars
  BY DEF SP!vars, S!vars, SP!None, S!None, SP!threadVars, S!threadVars,
     SP!kernelVars, S!kernelVars
<1>3. QED
  BY <1>1, <1>2, ImplementsSocket, SameSocket, PTL DEF SP!NeverReplaced, S!NeverReplaced

\* Until main() has a packet for the user, txLoop() has the stream for itself, and it
\* is served as OneUserServer says: it takes the users in the order in which they
\* connected, one at a time and nobody twice, sends a whole chunk to the one in
\* service, and has nobody in service after a call that failed, until the next.
THEOREM ServedInProgram == Spec => SP!ServesOneUser
<1>1. SP!Spec => SP!ServesOneUser
  BY SocketAssumption, SP!ServesOneUserCorrect
<1>2. QED
  BY <1>1, ImplementsSocket, SameSocket, PTL

-----------------------------------------------------------------------------
(* Packets reach the user in order.                                          *)

\* main() has taken a packet out of the queue and not yet handed it to the user.
InHand ==
    \/ loc[main] = "tx"
    \/ loc[main] = "wPop" /\ qpc[main] = "idle" /\ qresult[main] = "true"

\* What main() has in hand came after all it delivered.
OwnInv ==
    /\ loc[main] # "wPop" => qpc[main] = "idle"
    /\ loc[main] = "wPop" => qcall[main] = "wPop"
    /\ delivered \in Seq(Nat)
    /\ \A i \in 1..Len(delivered) : delivered[i] \in 1..Len(removed)
    /\ InHand => /\ element[main] \in 1..Len(removed)
                 /\ \A i \in 1..Len(delivered) : delivered[i] < element[main]
    /\ DeliveredInOrder

Types ==
    /\ exit_tx_rx \in BOOLEAN
    /\ loc \in [Program -> {"loop", "rx", "transmit", "wPop", "tx", "quit", "signal", "ended"}]

Inv == QP!IInv /\ QP!Calls /\ Types /\ OwnInv

\* A step of the queue, of whatever thread, keeps main()'s packet the latest.
LEMMA QueueStepKeeps ==
    ASSUME Inv, NEW t \in {demod, main, handler}, Q!Step(t), UNCHANGED ownVars
    PROVE  OwnInv'
<1>1. QP!Step(t)
  BY SameStep
<1>2. Len(removed) \in Nat /\ Len(removed') \in Nat /\ Len(removed) <= Len(removed')
  BY <1>1, QueueAssumption, QP!HeadIsNext, QP!RemoverReports DEF Inv
<1>3. qcall' = qcall
  BY DEF Q!Step, Q!PushInsert, Q!PushStore, Q!ExitStore, Q!NotifyOne, Q!NotifyAll,
     Q!Clear, Q!Try, Q!WaitCheck, Q!ExpiredCheck, Q!Take, Q!Block
<1>4. \A i \in 1..Len(delivered) : delivered[i] \in 1..Len(removed')
  BY <1>2 DEF Inv, OwnInv
<1>5. UNCHANGED <<loc, delivered>> /\ DeliveredInOrder'
  BY DEF ownVars, Inv, OwnInv, DeliveredInOrder
<1>6. CASE t = main
  <2>1. qpc[main] # "idle"
    BY <1>6 DEF Q!Step, Q!PushInsert, Q!PushStore, Q!ExitStore, Q!NotifyOne, Q!NotifyAll,
       Q!Clear, Q!Try, Q!WaitCheck, Q!ExpiredCheck, Q!Take, Q!Block
  <2>2. loc[main] = "wPop" /\ qcall[main] = "wPop"
    BY <2>1 DEF Inv, OwnInv
  <2>3. qresult'[main] = "true" =>
          Len(removed') = Len(removed) + 1 /\ element'[main] = Len(removed')
    BY <1>1, <1>6, <2>2, QueueAssumption, QP!RemoverReports DEF Inv, QP!Removes
  <2>4. InHand' => /\ element'[main] \in 1..Len(removed')
                   /\ \A i \in 1..Len(delivered) : delivered[i] < element'[main]
    BY <1>2, <1>5, <2>2, <2>3 DEF InHand, Inv, OwnInv
  <2>5. QED
    BY <1>3, <1>4, <1>5, <2>2, <2>4 DEF OwnInv, Inv
<1>7. CASE t # main
  <2>1. /\ element'[main] = element[main] /\ qresult'[main] = qresult[main]
        /\ qpc'[main] = "idle" <=> qpc[main] = "idle"
    BY <1>1, <1>7, QueueAssumption, QP!OthersUntouched DEF Inv
  <2>2. InHand' <=> InHand
    BY <1>5, <2>1 DEF InHand
  <2>3. InHand => element[main] \in 1..Len(removed')
    BY <1>2 DEF Inv, OwnInv
  <2>4. QED
    BY <1>3, <1>4, <1>5, <2>1, <2>2, <2>3 DEF OwnInv, Inv
<1>8. QED
  BY <1>6, <1>7

\* The other threads' own code does not touch what main() has.
LEMMA OthersKeep ==
    ASSUME Inv, UNCHANGED <<queueVars, delivered>>, loc'[main] = loc[main]
    PROVE  OwnInv'
  BY DEF Inv, OwnInv, InHand, DeliveredInOrder, queueVars

\* A packet that main() has sent is the last of those delivered.
LEMMA SentKeeps ==
    ASSUME Inv, Sent
    PROVE  OwnInv'
<1> USE ConstantAssumption DEF Program
<1>1. loc[main] = "tx" /\ loc' = [loc EXCEPT ![main] = "loop"] /\ UNCHANGED queueVars
  BY DEF Sent, Local, GoTo
<1>2. loc'[main] = "loop" /\ ~InHand' /\ InHand
  BY <1>1 DEF Inv, Types, InHand
<1>3. element[main] \in Nat /\ element[main] \in 1..Len(removed) /\ Len(removed) \in Nat
  BY <1>2, QueueAssumption, QP!HeadIsNext DEF Inv, OwnInv
<1>4. CASE delivered' = delivered
  BY <1>1, <1>2, <1>4 DEF Inv, OwnInv, DeliveredInOrder, queueVars, InHand
<1>5. CASE delivered' = Append(delivered, element[main])
  <2>1. /\ delivered' \in Seq(Nat) /\ Len(delivered') = Len(delivered) + 1
        /\ Len(delivered) \in Nat
        /\ \A i \in 1..Len(delivered) : delivered'[i] = delivered[i]
        /\ delivered'[Len(delivered) + 1] = element[main]
    <3>1. delivered \in Seq(Nat) /\ Len(delivered) \in Nat
      BY DEF Inv, OwnInv
    <3>2. element[main] \in Nat
      BY <1>3
    <3> DEFINE more == Append(delivered, element[main])
    <3>3. /\ more \in Seq(Nat) /\ Len(more) = Len(delivered) + 1
          /\ \A i \in 1..Len(delivered) : more[i] = delivered[i]
          /\ more[Len(delivered) + 1] = element[main]
      BY <3>1, <3>2, AppendProperties
    <3>4. QED
      <4> HIDE DEF more
      <4>1. delivered' = more
        BY <1>5 DEF more
      <4>2. QED
        BY <3>1, <3>3, <4>1
  <2>2. \A i \in 1..Len(delivered') : delivered'[i] \in 1..Len(removed')
    <3> SUFFICES ASSUME NEW i \in 1..Len(delivered') PROVE delivered'[i] \in 1..Len(removed)
      BY <1>1 DEF queueVars
    <3>1. CASE i \in 1..Len(delivered)
      BY <2>1, <3>1 DEF Inv, OwnInv
    <3>2. CASE i = Len(delivered) + 1
      BY <1>3, <2>1, <3>2
    <3>3. QED
      BY <2>1, <3>1, <3>2
  <2>3. DeliveredInOrder'
    <3> SUFFICES ASSUME NEW i \in 1..Len(delivered'), NEW j \in 1..Len(delivered'), i < j
                 PROVE  delivered'[i] < delivered'[j]
      BY DEF DeliveredInOrder
    <3>1. i \in 1..Len(delivered)
      BY <2>1
    <3>2. CASE j \in 1..Len(delivered)
      BY <2>1, <3>1, <3>2 DEF Inv, OwnInv, DeliveredInOrder
    <3>3. CASE j = Len(delivered) + 1
      <4>1. delivered[i] < element[main]
        BY <1>2, <3>1 DEF Inv, OwnInv
      <4>2. QED
        BY <2>1, <3>1, <3>3, <4>1
    <3>4. QED
      BY <2>1, <3>2, <3>3
  <2>4. QED
    BY <1>1, <1>2, <2>1, <2>2, <2>3 DEF Inv, OwnInv, queueVars
<1>6. QED
  BY <1>4, <1>5 DEF Sent

\* A step of main()'s own code, a call it makes included.
LEMMA MainKeeps ==
    ASSUME Inv, Pop \/ Popped \/ Quit \/ Exit
    PROVE  OwnInv'
<1> USE ConstantAssumption DEF Program, GoTo
<1>1. CASE Pop
  <2>1. loc[main] = "loop" /\ loc' = [loc EXCEPT ![main] = "wPop"] /\ Q!Call(main, "wPop")
        /\ delivered' = delivered
    BY <1>1 DEF Pop, CallQueue
  <2>2. qcall' = [qcall EXCEPT ![main] = "wPop"] /\ qpc' = [qpc EXCEPT ![main] = "enter"]
        /\ removed' = removed
    BY <2>1 DEF Q!Call, Q!GoTo
  <2>3. main \in DOMAIN qpc /\ main \in DOMAIN qcall
    BY DEF Inv, QP!IInv, QP!TypeOK
  <2>4. loc'[main] = "wPop" /\ qcall'[main] = "wPop" /\ qpc'[main] = "enter"
    BY <2>1, <2>2, <2>3 DEF Inv, Types
  <2>5. QED
    BY <2>1, <2>2, <2>4 DEF Inv, OwnInv, InHand, DeliveredInOrder
<1>2. CASE Popped \/ Quit \/ Exit
  <2>1. UNCHANGED <<queueVars, delivered>>
    BY <1>2 DEF Popped, Quit, Exit, CallSocket, Local
  <2>2. qpc[main] = "idle"
    BY <1>2 DEF Popped, Quit, Exit, CallSocket, Local, Inv, OwnInv, Types
  <2>3. \/ loc'[main] = "tx" /\ InHand
        \/ loc'[main] \notin {"tx", "wPop"}
    BY <1>2, <2>2 DEF Popped, Quit, Exit, CallSocket, Local, InHand, Inv, Types
  <2>4. QED
    BY <2>1, <2>2, <2>3 DEF Inv, OwnInv, InHand, DeliveredInOrder, queueVars
<1>3. QED
  BY <1>1, <1>2

\* Every step of the program keeps the places of its threads in their types ...
LEMMA TypesKept == Types /\ [Next]_vars => Types'
<1> SUFFICES ASSUME Types, [Next]_vars PROVE Types'
  OBVIOUS
<1> USE DEF Types, GoTo
<1>1. CASE TxLoop
  BY <1>1 DEF TxLoop, Listen, Received, Transmitted, SocketStep, CallSocket, Local, ownVars
<1>2. CASE Main
  BY <1>2 DEF Main, Pop, Popped, Sent, Quit, Exit, QueueStep, SocketStep, CallSocket,
     CallQueue, Local, ownVars
<1>3. CASE Handler \/ Signal \/ SamplerEnds
  BY <1>3 DEF Handler, ForceExit, QueueStep, CallQueue, Signal, SamplerEnds, Local, ownVars
<1>4. CASE QueueStep(demod) \/ Decode \/ SpuriousWake \/ ClientStep
  BY <1>4 DEF QueueStep, Decode, SpuriousWake, ClientStep, ownVars
<1>5. CASE UNCHANGED vars
  BY <1>5 DEF vars, ownVars
<1>6. QED
  BY <1>1, <1>2, <1>3, <1>4, <1>5 DEF Next

\* ... and what main() has in hand after all it delivered.
LEMMA OwnKept == Inv /\ [Next]_vars => OwnInv'
<1> SUFFICES ASSUME Inv, [Next]_vars PROVE OwnInv'
  OBVIOUS
<1> USE ConstantAssumption DEF Program, GoTo
<1>1. CASE TxLoop
  <2>1. UNCHANGED <<queueVars, delivered>> /\ loc'[main] = loc[main]
    BY <1>1 DEF TxLoop, Listen, Received, Transmitted, SocketStep, CallSocket, Local,
       ownVars, Inv, Types
  <2>2. QED
    BY <2>1, OthersKeep
<1>2. CASE SocketStep(main) \/ SamplerEnds \/ Signal \/ ClientStep
  <2>1. UNCHANGED <<queueVars, delivered>> /\ loc'[main] = loc[main]
    BY <1>2 DEF SocketStep, SamplerEnds, Local, Signal, ClientStep, ownVars, Inv, Types
  <2>2. QED
    BY <2>1, OthersKeep
<1>3. ASSUME NEW t \in {demod, main, handler}, QueueStep(t) PROVE OwnInv'
  BY <1>3, QueueStepKeeps DEF QueueStep
<1>4. CASE Decode \/ ForceExit
  <2>1. ASSUME NEW t \in {demod, handler}, NEW o, Q!Call(t, o)
        PROVE  UNCHANGED <<qpc[main], qcall[main], qresult[main], element[main], removed>>
    BY <2>1 DEF Q!Call, Q!GoTo, Inv, QP!IInv, QP!TypeOK
  <2>2. UNCHANGED <<qpc[main], qcall[main], qresult[main], element[main], removed>>
    BY <1>4, <2>1 DEF Decode, ForceExit, CallQueue
  <2>3. loc'[main] = loc[main] /\ delivered' = delivered
    BY <1>4 DEF Decode, ForceExit, CallQueue, ownVars, Inv, Types
  <2>4. QED
    BY <2>2, <2>3 DEF Inv, OwnInv, InHand, DeliveredInOrder
<1>5. CASE SpuriousWake
  <2>1. qpc[main] = "asleep" /\ qpc'[main] = "woken"
        /\ UNCHANGED <<qcall, qresult, element, removed, loc, delivered>>
    BY <1>5 DEF SpuriousWake, Q!SpuriousWake, Q!GoTo, ownVars, Inv, QP!IInv, QP!TypeOK
  <2>2. QED
    BY <2>1 DEF Inv, OwnInv, InHand, DeliveredInOrder
<1>6. CASE UNCHANGED vars
  BY <1>6, OthersKeep DEF vars, ownVars
<1>7. QED
  BY <1>1, <1>2, <1>3, <1>4, <1>5, <1>6, MainKeeps, SentKeeps DEF Next, Main, Handler

\* The inductive invariant of the program, with that of its queue.
THEOREM Invariance == Spec => []Inv
<1>1. Init => Types /\ OwnInv
  <2>1. Init => Types
    BY DEF Init, Types
  <2>2. Init => OwnInv
    <3> SUFFICES ASSUME Init PROVE OwnInv
      OBVIOUS
    <3>1. delivered = <<>> /\ Len(delivered) = 0 /\ delivered \in Seq(Nat)
      BY EmptySeq DEF Init
    <3>2. loc[main] = "loop" /\ qpc[main] = "idle"
      BY DEF Init, Program, Q!Init
    <3>3. QED
      BY <3>1, <3>2 DEF OwnInv, InHand, DeliveredInOrder
  <2>3. QED
    BY <2>1, <2>2
<1>2. QP!Spec => []QP!IInv
  BY QueueAssumption, QP!Invariance
<1>3. QP!Spec => []QP!Calls
  BY QueueAssumption, QP!CallsInvariance
<1>4. QP!IInv /\ QP!Calls /\ Types /\ OwnInv /\ [Next]_vars => (Types /\ OwnInv)'
  BY TypesKept, OwnKept DEF Inv
<1>5. QED
  BY <1>1, <1>2, <1>3, <1>4, ImplementsQueue, SameQueue, PTL DEF Spec, Inv

\* Packets reach the user in the order in which they were decoded and none
\* twice, whatever clients connect, fail and reconnect and whatever is stopped.
THEOREM DeliveredInOrderCorrect == Spec => []DeliveredInOrder
<1>1. Inv => DeliveredInOrder
  BY DEF Inv, OwnInv
<1>2. QED
  BY <1>1, Invariance, PTL

\* The program's variables keep their types; what is delivered was decoded, and
\* no more than MaxPush packets are.
THEOREM TypeCorrect == Spec => []TypeOK
<1>1. QP!Spec => [](QP!PushesBegun <= MaxPush /\ inserted <= MaxPush)
  BY QueueAssumption, QP!PushesBounded
<1>2. Inv /\ inserted <= MaxPush => TypeOK
  <2> SUFFICES ASSUME Inv, inserted <= MaxPush PROVE TypeOK
    OBVIOUS
  <2>1. Len(removed) \in Nat /\ Len(removed) <= inserted /\ inserted \in Nat
    BY QueueAssumption, QP!HeadIsNext DEF Inv, QP!IInv, QP!TypeOK
  <2>2. \A i \in 1..Len(delivered) : delivered[i] \in 1..MaxPush
    BY <2>1, ConstantAssumption DEF Inv, OwnInv
  <2>3. delivered \in Seq(1..MaxPush)
    <3>1. delivered \in [1..Len(delivered) -> 1..MaxPush] /\ Len(delivered) \in Nat
      BY <2>2, LenProperties DEF Inv, OwnInv
    <3>2. QED
      BY <3>1, SeqDef
  <2>4. QED
    BY <2>3 DEF Inv, Types, TypeOK
<1>3. QED
  BY <1>1, <1>2, Invariance, ImplementsQueue, SameQueue, PTL
=============================================================================
