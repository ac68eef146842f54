--------------------------- MODULE TcpStreamProofs ---------------------------
(***************************************************************************)
(* Proofs about TcpStream, for any number of threads, whatever they call,  *)
(* any number of clients and descriptors, and any size of chunk.           *)
(* First what holds of a shared stream, then what its only user can rely   *)
(* on, and last that it is served as OneUserServer says.                   *)
(***************************************************************************)
EXTENDS TcpStream, SequenceTheorems, TLAPS

\* A call that has not failed and not finished has bytes left to send.
Unfinished == {"test", "lock", "accept", "store", "retest", "begin", "again", "send"}
BytesLeft == \A t \in Thread : pc[t] \in Unfinished => Len(sent[t]) < ChunkSize

\* The thread inside acceptTCP() owns the mutex, and the stream is unconnected.
AcceptorAlone ==
    \A t \in Thread : pc[t] \in {"accept", "store"} =>
        mutex_sock = t /\ data_sck = None

\* The inductive invariant behind NeverReplaced.
IInv == TypeOK /\ BytesLeft /\ AcceptorAlone

-----------------------------------------------------------------------------
\* The initial states satisfy the inductive invariant.
LEMMA InitOK == Init => IInv
<1> SUFFICES ASSUME Init PROVE IInv
  OBVIOUS
<1>1. <<>> \in Seq(Client) /\ Len(<<>>) = 0
  BY EmptySeq
<1>2. QED
  BY <1>1, ConstantAssumption
     DEF Init, IInv, TypeOK, BytesLeft, AcceptorAlone, Location, None, Unfinished

\* Every step of a thread keeps the variables in their types.
LEMMA StepTyped ==
    ASSUME IInv, NEW t \in Thread, Step(t)
    PROVE  TypeOK'
<1> USE ConstantAssumption
    DEF TypeOK, Location, GoTo, Return, threadVars, kernelVars
<1>1. TypeOK
  BY DEF IInv
<1>2. CASE Test(t) \/ Lock(t) \/ AcceptFail(t) \/ Store(t)
  <2>1. CASE Test(t)
    BY <1>1, <2>1 DEF Test
  <2>2. CASE Lock(t)
    BY <1>1, <2>2 DEF Lock
  <2>3. CASE AcceptFail(t)
    BY <1>1, <2>3 DEF AcceptFail
  <2>4. CASE Store(t)
    BY <1>1, <2>4 DEF Store
  <2>5. QED
    BY <1>2, <2>1, <2>2, <2>3, <2>4
<1>3. CASE AcceptOk(t)
  <2>1. PICK d \in FreeFds : /\ table' = [table EXCEPT ![d] = Head(backlog)]
                             /\ fd' = [fd EXCEPT ![t] = d]
    BY <1>3 DEF AcceptOk
  <2>2. d \in Fd
    BY DEF FreeFds
  <2>3. Head(backlog) \in Client /\ backlog' \in Seq(Client)
    BY <1>1, <1>3, HeadTailProperties DEF AcceptOk
  <2>4. QED
    BY <1>1, <1>3, <2>1, <2>2, <2>3 DEF AcceptOk
<1>4. CASE Retest(t)
  <2>1. CASE data_sck = None
    BY <1>1, <1>4, <2>1 DEF Retest
  <2>2. CASE data_sck # None
    <3>1. /\ fd' = [fd EXCEPT ![t] = data_sck]
          /\ pc' = [pc EXCEPT ![t] = "begin"]
          /\ UNCHANGED <<list_sck, data_sck, mutex_sock, call, conn, sent, result, kernelVars>>
      BY <1>4, <2>2 DEF Retest
    <3>2. QED
      BY <1>1, <3>1
  <2>3. QED
    BY <2>1, <2>2
<1>5. CASE Begin(t)
  <2>1. PICK d \in {data_sck, fd[t]} :
           IF d # None /\ table[d] # NoClient
           THEN /\ conn' = [conn EXCEPT ![t] = table[d]]
                /\ GoTo(t, IF call[t] = "tx" THEN "send" ELSE "recv")
           ELSE /\ conn' = [conn EXCEPT ![t] = NoClient]
                /\ GoTo(t, "close")
    BY <1>5 DEF Begin
  <2>2. d \in Fd \cup {None}
    BY <1>1, <2>1
  <2>3. CASE d # None /\ table[d] # NoClient
    <3>1. table[d] \in Client
      BY <1>1, <2>2, <2>3
    <3>2. conn' = [conn EXCEPT ![t] = table[d]]
      BY <2>1, <2>3
    <3>3. pc' = [pc EXCEPT ![t] = "recv"] \/ pc' = [pc EXCEPT ![t] = "send"]
      BY <2>1, <2>3
    <3>4. QED
      BY <1>1, <1>5, <3>1, <3>2, <3>3 DEF Begin
  <2>4. CASE ~(d # None /\ table[d] # NoClient)
    BY <1>1, <1>5, <2>1, <2>4 DEF Begin
  <2>5. QED
    BY <2>3, <2>4
<1>6. CASE RecvOk(t)
  BY <1>1, <1>6 DEF RecvOk
<1>7. CASE RecvEnd(t) \/ SendFail(t) \/ Reset(t) \/ QuitReset(t)
  BY <1>1, <1>7 DEF RecvEnd, SendFail, Reset, QuitReset
<1>8. CASE SendOk(t)
  <2>1. Append(sent[t], conn[t]) \in Seq(Client)
        /\ Len(Append(sent[t], conn[t])) = Len(sent[t]) + 1
    BY <1>1, <1>8, AppendProperties DEF SendOk
  <2>2. Len(sent[t]) < ChunkSize /\ Len(sent[t]) \in Nat
    BY <1>1, <1>8, LenProperties DEF SendOk, IInv, BytesLeft, Unfinished
  <2>3. sent' = [sent EXCEPT ![t] = Append(sent[t], conn[t])]
    BY <1>8 DEF SendOk
  <2>4. sent' \in [Thread -> Seq(Client)]
        /\ \A u \in Thread : Len(sent'[u]) <= ChunkSize
    BY <1>1, <2>1, <2>2, <2>3
  <2>5. /\ pc' \in [Thread -> Location]
        /\ \A u \in Thread : pc'[u] \in {"recv", "send"} => pc[u] \in {"recv", "send"}
        /\ result' \in [Thread -> {"none", "true", "false"}]
    BY <1>1, <1>8 DEF SendOk
  <2>6. QED
    BY <1>1, <1>8, <2>4, <2>5 DEF SendOk
<1>9. CASE Close(t) \/ QuitClose(t)
  <2>1. table' \in [Fd -> Client \cup {NoClient}]
    BY <1>1, <1>9 DEF Close, QuitClose, CloseData
  <2>2. pc' = [pc EXCEPT ![t] = "reset"] \/ pc' = [pc EXCEPT ![t] = "quitReset"]
    BY <1>9 DEF Close, QuitClose
  <2>3. UNCHANGED <<list_sck, data_sck, mutex_sock, call, fd, conn, sent, result,
                    backlog, peer, inbox, shut>>
    BY <1>9 DEF Close, QuitClose
  <2>4. QED
    BY <1>1, <2>1, <2>2, <2>3
<1>10. CASE QuitList(t)
  BY <1>1, <1>10, EmptySeq DEF QuitList
<1>11. CASE QuitData(t)
  <2>1. CASE data_sck = None
    BY <1>1, <1>11, <2>1 DEF QuitData
  <2>2. CASE data_sck # None
    <3>1. shut' = [c \in Client |-> shut[c] \/ c = table[data_sck]]
      BY <1>11, <2>2 DEF QuitData
    <3>2. shut' \in [Client -> BOOLEAN]
      <4> HIDE DEF TypeOK
      <4>1. \A c \in Client : (shut[c] \/ c = table[data_sck]) \in BOOLEAN
        OBVIOUS
      <4>2. QED
        BY <3>1, <4>1, Zenon
    <3>3. QED
      BY <1>1, <1>11, <2>2, <3>2 DEF QuitData
  <2>3. QED
    BY <2>1, <2>2
<1>12. QED
  BY <1>2, <1>3, <1>4, <1>5, <1>6, <1>7, <1>8, <1>9, <1>10, <1>11 DEF Step

\* A step of t moves only t, and it stays short of the end of its chunk as long
\* as it is not done with it.
LEMMA StepBytesLeft ==
    ASSUME IInv, NEW t \in Thread, Step(t)
    PROVE  BytesLeft'
<1> USE DEF GoTo, Return
<1>1. BytesLeft /\ pc \in [Thread -> Location] /\ sent \in [Thread -> Seq(Client)]
  BY DEF IInv, TypeOK
<1>2. CASE sent' = sent /\ pc[t] \in Unfinished
  <2>1. \A u \in Thread : u # t => pc'[u] = pc[u]
    BY <1>1, <1>2 DEF Step, Test, Lock, AcceptOk, AcceptFail, Store, Retest, Begin,
       RecvOk, RecvEnd, SendOk, SendFail, Close, Reset, QuitList, QuitData,
       QuitClose, QuitReset, Location
  <2>2. QED
    BY <1>1, <1>2, <2>1 DEF BytesLeft
<1>3. CASE SendOk(t)
  <2>1. Len(sent'[t]) = Len(sent[t]) + 1 /\ \A u \in Thread : u # t => sent'[u] = sent[u]
    BY <1>1, <1>3, AppendProperties DEF SendOk, IInv, TypeOK
  <2>2. /\ \A u \in Thread : u # t => pc'[u] = pc[u]
        /\ pc'[t] \in Unfinished => Len(sent[t]) + 1 < ChunkSize
    BY <1>1, <1>3 DEF SendOk, Unfinished
  <2>3. QED
    BY <1>1, <2>1, <2>2 DEF BytesLeft
<1>4. CASE /\ sent' = sent /\ pc[t] \notin Unfinished
           /\ RecvOk(t) \/ RecvEnd(t) \/ Close(t) \/ Reset(t) \/ QuitList(t)
              \/ QuitData(t) \/ QuitClose(t) \/ QuitReset(t)
  <2>1. \A u \in Thread : pc'[u] \in Unfinished => pc[u] \in Unfinished
    BY <1>1, <1>4 DEF RecvOk, RecvEnd, Close, Reset, QuitList, QuitData, QuitClose,
       QuitReset, Unfinished, Location
  <2>2. QED
    BY <1>1, <1>4, <2>1 DEF BytesLeft
<1>5. SendOk(t) \/ sent' = sent
  BY DEF Step, Test, Lock, AcceptOk, AcceptFail, Store, Retest, Begin, RecvOk, RecvEnd,
     SendFail, Close, Reset, QuitList, QuitData, QuitClose, QuitReset
<1>6. pc[t] \in Unfinished \/ RecvOk(t) \/ RecvEnd(t) \/ Close(t) \/ Reset(t)
      \/ QuitList(t) \/ QuitData(t) \/ QuitClose(t) \/ QuitReset(t)
  BY DEF Step, Test, Lock, AcceptOk, AcceptFail, Store, Retest, Begin, SendOk, SendFail,
     Unfinished
<1>7. QED
  BY <1>2, <1>3, <1>4, <1>5, <1>6

\* The mutex of acceptConnection() keeps a second thread out of acceptTCP(), and
\* nobody else gives data_sck a descriptor.
LEMMA StepAcceptorAlone ==
    ASSUME IInv, NEW t \in Thread, Step(t)
    PROVE  AcceptorAlone'
<1> USE ConstantAssumption DEF GoTo, Return
<1>1. AcceptorAlone /\ pc \in [Thread -> Location]
  BY DEF IInv, TypeOK
<1>2. CASE Lock(t)
  BY <1>1, <1>2 DEF Lock, AcceptorAlone
<1>3. CASE AcceptOk(t) \/ AcceptFail(t) \/ Store(t)
  BY <1>1, <1>3 DEF AcceptOk, AcceptFail, Store, AcceptorAlone
<1>4. CASE Test(t) \/ Retest(t) \/ Begin(t) \/ RecvOk(t) \/ RecvEnd(t) \/ SendOk(t)
           \/ SendFail(t) \/ Close(t) \/ QuitList(t) \/ QuitData(t) \/ QuitClose(t)
  <2>1. data_sck' = data_sck /\ mutex_sock' = mutex_sock
    BY <1>4 DEF Test, Retest, Begin, RecvOk, RecvEnd, SendOk, SendFail, Close,
       QuitList, QuitData, QuitClose
  <2>2. \A u \in Thread : pc'[u] \in {"accept", "store"} => pc[u] \in {"accept", "store"}
    BY <1>1, <1>4 DEF Test, Retest, Begin, RecvOk, RecvEnd, SendOk, SendFail, Close,
       QuitList, QuitData, QuitClose
  <2>3. QED
    BY <1>1, <2>1, <2>2 DEF AcceptorAlone
<1>5. CASE Reset(t) \/ QuitReset(t)
  BY <1>1, <1>5 DEF Reset, QuitReset, AcceptorAlone
<1>6. QED
  BY <1>2, <1>3, <1>4, <1>5 DEF Step

\* The inductive invariant holds initially and every step keeps it.
THEOREM Invariance == Spec => []IInv
<1>1. IInv /\ [Next]_vars => IInv'
  <2> SUFFICES ASSUME IInv, [Next]_vars PROVE IInv'
    OBVIOUS
  <2> USE ConstantAssumption DEF IInv, TypeOK, BytesLeft, AcceptorAlone, Location
  <2>1. ASSUME NEW t \in Thread, NEW o \in Uses[t], Call(t, o)
        PROVE  IInv'
    <3>1. o \in Operation
      OBVIOUS
    <3>2. <<>> \in Seq(Client) /\ Len(<<>>) = 0
      BY EmptySeq
    <3>3. QED
      BY <2>1, <3>1, <3>2 DEF Call, GoTo, kernelVars, Unfinished
  <2>2. ASSUME NEW t \in Thread, Step(t)
        PROVE  IInv'
    BY <2>2, StepTyped, StepBytesLeft, StepAcceptorAlone
  <2>3. ASSUME NEW c \in Client, Connect(c)
        PROVE  IInv'
    <3>1. backlog' \in Seq(Client)
      BY <2>3, AppendProperties DEF Connect
    <3>2. QED
      BY <2>3, <3>1 DEF Connect, ClientVars, threadVars
  <2>4. ASSUME NEW c \in Client, ClientSend(c) \/ ClientClose(c)
        PROVE  IInv'
    <3>1. CASE ClientSend(c)
      BY <2>4, <3>1 DEF ClientSend, ClientVars, threadVars
    <3>2. CASE ClientClose(c)
      BY <2>4, <3>2 DEF ClientClose, ClientVars, threadVars
    <3>3. QED
      BY <2>4, <3>1, <3>2
  <2>5. CASE UNCHANGED vars
    BY <2>5 DEF vars, threadVars, kernelVars
  <2>6. QED
    BY <2>1, <2>2, <2>3, <2>4, <2>5 DEF Next
<1>2. QED
  BY <1>1, InitOK, PTL DEF Spec

\* The variables of the stream and the kernel keep their types, and the send
\* loop never goes past the end of the chunk.
THEOREM TypeCorrect == Spec => []TypeOK
<1>1. IInv => TypeOK
  BY DEF IInv
<1>2. QED
  BY <1>1, Invariance, PTL

\* Whatever threads find the stream unconnected together, a connection in
\* service is never replaced by another one.
THEOREM NeverReplacedCorrect == Spec => NeverReplaced
<1>1. IInv /\ [Next]_vars =>
        [data_sck # None /\ data_sck' # None => data_sck' = data_sck]_vars
  <2> SUFFICES ASSUME IInv, Next, data_sck # None, data_sck' # None
               PROVE  data_sck' = data_sck
    BY DEF vars
  <2>1. ASSUME NEW t \in Thread, NEW o \in Uses[t], Call(t, o)
        PROVE  data_sck' = data_sck
    BY <2>1 DEF Call
  <2>2. ASSUME NEW t \in Thread, Step(t)
        PROVE  data_sck' = data_sck
    <3>1. ~Store(t)
      BY DEF Store, IInv, AcceptorAlone
    <3>2. ~Reset(t) /\ ~QuitReset(t)
      BY DEF Reset, QuitReset
    <3>3. QED
      BY <2>2, <3>1, <3>2
         DEF Step, Test, Lock, AcceptOk, AcceptFail, Retest, Begin, RecvOk, RecvEnd,
             SendOk, SendFail, Close, QuitList, QuitData, QuitClose
  <2>3. ASSUME NEW c \in Client, Connect(c) \/ ClientSend(c) \/ ClientClose(c)
        PROVE  data_sck' = data_sck
    BY <2>3 DEF Connect, ClientSend, ClientClose, ClientVars
  <2>4. QED
    BY <2>1, <2>2, <2>3 DEF Next
<1>2. QED
  BY <1>1, Invariance, PTL DEF Spec, NeverReplaced

-----------------------------------------------------------------------------
(* One thread alone on the stream                                            *)

\* Where a thread stands fits the call it runs, and a running call has no result.
CallFits ==
    \A t \in Thread :
        /\ call[t] = "none" => pc[t] = "idle"
        /\ pc[t] # "idle" => result[t] = "none"
        /\ pc[t] \in {"quitList", "quitData", "quitClose", "quitReset"} => call[t] = "quit"
        /\ pc[t] = "recv" => call[t] # "tx"

\* What the only user t of the stream can rely on: no descriptor is open but the
\* one in data_sck, which stays the one its call began with ...
OneDescriptor(t) ==
    /\ \A d \in Fd : table[d] # NoClient => d = data_sck \/ (pc[t] = "store" /\ fd[t] = d)
    /\ pc[t] \in {"reset", "quitReset"} => \A d \in Fd : table[d] = NoClient
    /\ pc[t] = "begin" => fd[t] = data_sck
    /\ pc[t] \in {"send", "again"} => data_sck # None /\ table[data_sck] = conn[t]

\* ... and the bytes of its chunk went to that descriptor's connection.
OneReceiver(t) ==
    /\ pc[t] \in {"test", "lock", "accept", "store", "retest", "begin"} => sent[t] = <<>>
    /\ pc[t] \in {"send", "again"} => \A i \in 1..Len(sent[t]) : sent[t][i] = conn[t]
    /\ call[t] = "tx" /\ result[t] = "true" =>
         /\ Len(sent[t]) = ChunkSize
         /\ \A i \in 1..ChunkSize : sent[t][i] = sent[t][1]

SoloInv == CallFits /\ \A t \in Thread : Solo(t) => OneDescriptor(t) /\ OneReceiver(t)

\* At first nothing is open and nothing sent.
LEMMA SoloInit == Init => SoloInv
<1> SUFFICES ASSUME Init PROVE SoloInv
  OBVIOUS
<1>1. CallFits
  BY DEF Init, CallFits
<1>2. ASSUME NEW t \in Thread PROVE OneDescriptor(t) /\ OneReceiver(t)
  BY DEF Init, OneDescriptor, OneReceiver
<1>3. QED
  BY <1>1, <1>2 DEF SoloInv

\* A step within a call keeps the place fitting the call.
LEMMA StepFits ==
    ASSUME TypeOK, CallFits, NEW t \in Thread, Step(t)
    PROVE  CallFits' /\ call' = call
<1> USE DEF TypeOK, CallFits, GoTo, Return
<1>1. CASE Test(t) \/ Lock(t) \/ AcceptOk(t) \/ AcceptFail(t) \/ Store(t)
  BY <1>1 DEF Test, Lock, AcceptOk, AcceptFail, Store
<1>2. CASE Retest(t) \/ Begin(t)
  BY <1>2 DEF Retest, Begin
<1>3. CASE RecvOk(t) \/ RecvEnd(t) \/ SendOk(t) \/ SendFail(t)
  BY <1>3 DEF RecvOk, RecvEnd, SendOk, SendFail
<1>4. CASE Close(t) \/ Reset(t)
  BY <1>4 DEF Close, Reset
<1>5. CASE QuitList(t) \/ QuitData(t) \/ QuitClose(t) \/ QuitReset(t)
  BY <1>5 DEF QuitList, QuitData, QuitClose, QuitReset
<1>6. QED
  BY <1>1, <1>2, <1>3, <1>4, <1>5 DEF Step

\* Alone, a thread accepts only with every descriptor closed, and forgets data_sck
\* only after it has closed it.
LEMMA StepOneDescriptor ==
    ASSUME IInv, NEW t \in Thread, OneDescriptor(t), Step(t)
    PROVE  OneDescriptor(t)'
<1> USE ConstantAssumption DEF IInv, TypeOK, OneDescriptor, GoTo, Return
<1>1. CASE Test(t) \/ Retest(t)
  BY <1>1 DEF Test, Retest, kernelVars
<1>2. CASE Lock(t) \/ AcceptFail(t)
  BY <1>2 DEF Lock, AcceptFail, kernelVars
<1>3. CASE AcceptOk(t)
  <2>1. data_sck = None /\ \A d \in Fd : d # None
    BY <1>3 DEF AcceptOk, AcceptorAlone, Fd, None
  <2>2. PICK d \in FreeFds : /\ table' = [table EXCEPT ![d] = Head(backlog)]
                             /\ fd' = [fd EXCEPT ![t] = d]
    BY <1>3 DEF AcceptOk
  <2>3. QED
    BY <1>3, <2>1, <2>2 DEF AcceptOk, FreeFds
<1>4. CASE Store(t)
  <2>1. data_sck = None /\ \A d \in Fd : d # None
    BY <1>4 DEF Store, AcceptorAlone, Fd, None
  <2>2. QED
    BY <1>4, <2>1 DEF Store, kernelVars
<1>5. CASE Begin(t)
  <2>1. PICK d \in {data_sck} \cup (IF pc[t] = "begin" THEN {fd[t]} ELSE {}) :
           IF d # None /\ table[d] # NoClient
           THEN /\ conn' = [conn EXCEPT ![t] = table[d]]
                /\ GoTo(t, IF call[t] = "tx" THEN "send" ELSE "recv")
           ELSE /\ conn' = [conn EXCEPT ![t] = NoClient]
                /\ GoTo(t, "close")
    BY <1>5 DEF Begin
  <2>2. d = data_sck
    BY <2>1
  <2>3. CASE d # None /\ table[d] # NoClient
    <3>1. conn'[t] = table[data_sck] /\ pc'[t] \in {"send", "recv"}
      BY <2>1, <2>2, <2>3
    <3>2. QED
      BY <1>5, <2>2, <2>3, <3>1 DEF Begin, kernelVars
  <2>4. CASE ~(d # None /\ table[d] # NoClient)
    BY <1>5, <2>1, <2>4 DEF Begin, kernelVars
  <2>5. QED
    BY <2>3, <2>4
<1>6. CASE RecvOk(t) \/ RecvEnd(t) \/ SendOk(t) \/ SendFail(t)
  BY <1>6 DEF RecvOk, RecvEnd, SendOk, SendFail, kernelVars
<1>7. CASE Close(t) \/ QuitClose(t)
  <2>1. table' = [d \in Fd |-> IF d = data_sck THEN NoClient ELSE table[d]]
        /\ pc'[t] \in {"reset", "quitReset"} /\ pc[t] \in {"close", "quitClose"}
    BY <1>7 DEF Close, QuitClose, CloseData
  <2>2. \A d \in Fd : table'[d] = NoClient
    BY <2>1
  <2>3. QED
    BY <2>1, <2>2
<1>8. CASE Reset(t) \/ QuitReset(t)
  BY <1>8 DEF Reset, QuitReset, kernelVars
<1>9. CASE QuitList(t) \/ QuitData(t)
  BY <1>9 DEF QuitList, QuitData
<1>10. QED
  BY <1>1, <1>2, <1>3, <1>4, <1>5, <1>6, <1>7, <1>8, <1>9 DEF Step

\* Alone, every part of a chunk goes where the first one went.
LEMMA StepOneReceiver ==
    ASSUME IInv, CallFits, NEW t \in Thread, OneDescriptor(t), OneReceiver(t), Step(t)
    PROVE  OneReceiver(t)'
<1> USE ConstantAssumption DEF IInv, TypeOK, CallFits, OneReceiver, GoTo, Return
<1>1. CASE Test(t) \/ Lock(t) \/ AcceptOk(t) \/ AcceptFail(t) \/ Store(t)
  BY <1>1 DEF Test, Lock, AcceptOk, AcceptFail, Store
<1>2. CASE Retest(t)
  BY <1>2 DEF Retest
<1>3. CASE Begin(t)
  <2>1. sent' = sent /\ result' = result /\ call' = call /\ result[t] = "none"
    BY <1>3 DEF Begin
  <2>2. PICK d \in {data_sck} \cup (IF pc[t] = "begin" THEN {fd[t]} ELSE {}) :
           IF d # None /\ table[d] # NoClient
           THEN /\ conn' = [conn EXCEPT ![t] = table[d]]
                /\ GoTo(t, IF call[t] = "tx" THEN "send" ELSE "recv")
           ELSE /\ conn' = [conn EXCEPT ![t] = NoClient]
                /\ GoTo(t, "close")
    BY <1>3 DEF Begin
  <2>3. d = data_sck
    BY <2>2 DEF OneDescriptor
  <2>4. CASE d # None /\ table[d] # NoClient
    <3>1. conn'[t] = table[data_sck] /\ pc'[t] \in {"send", "recv"}
      BY <2>2, <2>3, <2>4
    <3>2. \A i \in 1..Len(sent[t]) : sent[t][i] = conn'[t]
      <4>1. CASE pc[t] = "begin"
        <5>1. sent[t] = <<>> /\ Len(<<>>) = 0
          BY <4>1, EmptySeq
        <5>2. QED
          BY <5>1
      <4>2. CASE pc[t] = "again"
        BY <3>1, <4>2 DEF OneDescriptor
      <4>3. QED
        BY <1>3, <4>1, <4>2 DEF Begin
    <3>3. QED
      BY <2>1, <3>1, <3>2
  <2>5. CASE ~(d # None /\ table[d] # NoClient)
    BY <2>1, <2>2, <2>5
  <2>6. QED
    BY <2>4, <2>5
<1>4. CASE RecvOk(t) \/ RecvEnd(t) \/ SendFail(t)
  BY <1>4 DEF RecvOk, RecvEnd, SendFail
<1>5. CASE SendOk(t)
  <2> DEFINE s == Append(sent[t], conn[t])
  <2>1. /\ Len(s) = Len(sent[t]) + 1 /\ Len(sent[t]) \in Nat
        /\ \A i \in 1..Len(s) : s[i] = conn[t]
    BY <1>5, AppendProperties, LenProperties DEF SendOk
  <2>2. sent'[t] = s /\ conn' = conn /\ call' = call
    BY <1>5 DEF SendOk
  <2>3. Len(sent[t]) < ChunkSize
    BY <1>5 DEF SendOk, BytesLeft, Unfinished
  <2>4. CASE Len(sent[t]) + 1 < ChunkSize
    BY <1>5, <2>1, <2>2, <2>4 DEF SendOk
  <2>5. CASE Len(sent[t]) + 1 = ChunkSize
    <3>1. Len(s) = ChunkSize /\ 1 \in 1..Len(s)
      BY <2>1, <2>5
    <3>2. \A i \in 1..ChunkSize : s[i] = s[1]
      BY <2>1, <3>1
    <3>3. pc'[t] = "idle"
      BY <1>5, <2>5 DEF SendOk
    <3> HIDE DEF s
    <3>4. QED
      BY <2>2, <3>1, <3>2, <3>3
  <2>6. QED
    BY <2>1, <2>3, <2>4, <2>5
<1>6. CASE Close(t) \/ Reset(t)
  BY <1>6 DEF Close, Reset
<1>7. CASE QuitList(t) \/ QuitData(t) \/ QuitClose(t) \/ QuitReset(t)
  BY <1>7 DEF QuitList, QuitData, QuitClose, QuitReset
<1>8. QED
  BY <1>1, <1>2, <1>3, <1>4, <1>5, <1>6, <1>7 DEF Step

\* As long as one thread alone has used the stream, the two hold of it.
THEOREM SoloInvariance == Spec => []SoloInv
<1>1. IInv /\ SoloInv /\ [Next]_vars => SoloInv'
  <2> SUFFICES ASSUME IInv, SoloInv, [Next]_vars PROVE SoloInv'
    OBVIOUS
  <2>1. ASSUME NEW v \in Thread, NEW o \in Uses[v], Call(v, o) PROVE SoloInv'
    <3>1. o \in Operation
      BY ConstantAssumption
    <3>2. CallFits'
      BY <2>1, <3>1 DEF Call, GoTo, SoloInv, CallFits, Operation, IInv, TypeOK
    <3>3. ASSUME NEW t \in Thread, Solo(t)' PROVE OneDescriptor(t)' /\ OneReceiver(t)'
      <4>1. v = t
        BY <2>1, <3>1, <3>3 DEF Call, Solo, Operation, IInv, TypeOK
      <4>2. OneDescriptor(t)
        BY <2>1, <3>3, <4>1 DEF Call, Solo, SoloInv, IInv, TypeOK
      <4>3. /\ pc'[t] \in {"test", "quitList"} /\ sent'[t] = <<>> /\ result'[t] = "none"
            /\ pc[t] = "idle" /\ UNCHANGED <<data_sck, table>>
        BY <2>1, <4>1 DEF Call, GoTo, IInv, TypeOK, kernelVars
      <4>4. QED
        BY <4>2, <4>3 DEF OneDescriptor, OneReceiver
    <3>4. QED
      BY <3>2, <3>3 DEF SoloInv
  <2>2. ASSUME NEW v \in Thread, Step(v) PROVE SoloInv'
    <3>1. CallFits' /\ call' = call
      BY <2>2, StepFits DEF IInv, SoloInv
    <3>2. ASSUME NEW t \in Thread, Solo(t)' PROVE OneDescriptor(t)' /\ OneReceiver(t)'
      <4>1. Solo(t)
        BY <3>1, <3>2 DEF Solo
      <4>2. pc[v] # "idle"
        BY <2>2 DEF Step, Test, Lock, AcceptOk, AcceptFail, Store, Retest, Begin, RecvOk,
           RecvEnd, SendOk, SendFail, Close, Reset, QuitList, QuitData, QuitClose, QuitReset
      <4>3. v = t
        BY <4>1, <4>2 DEF Solo, SoloInv, CallFits
      <4>4. QED
        BY <2>2, <4>1, <4>3, StepOneDescriptor, StepOneReceiver DEF SoloInv
    <3>3. QED
      BY <3>1, <3>2 DEF SoloInv
  <2>3. ASSUME NEW c \in Client, Connect(c) \/ ClientSend(c) \/ ClientClose(c)
        PROVE  SoloInv'
    <3>1. UNCHANGED <<data_sck, threadVars, table>>
      BY <2>3 DEF Connect, ClientSend, ClientClose, ClientVars
    <3>2. QED
      BY <3>1 DEF SoloInv, CallFits, Solo, OneDescriptor, OneReceiver, threadVars
  <2>4. CASE UNCHANGED vars
    BY <2>4 DEF vars, threadVars, kernelVars, SoloInv, CallFits, Solo, OneDescriptor,
       OneReceiver
  <2>5. QED
    BY <2>1, <2>2, <2>3, <2>4 DEF Next
<1>2. QED
  BY <1>1, SoloInit, Invariance, PTL DEF Spec

\* A single user of the stream leaves no connection open and unreachable, through
\* failures, reconnections and quit().
THEOREM NoLeakAloneCorrect == Spec => []NoLeakAlone
<1>1. SoloInv => NoLeakAlone
  BY DEF SoloInv, Solo, OneDescriptor, NoLeakAlone, Alone, NoLeak
<1>2. QED
  BY <1>1, SoloInvariance, PTL

\* A chunk that tx() reports as sent went to one client, for a single user.
THEOREM WholeChunkAloneCorrect == Spec => []WholeChunkAlone
<1>1. SoloInv => WholeChunkAlone
  BY DEF SoloInv, Solo, OneReceiver, WholeChunkAlone, Alone, WholeChunk
<1>2. QED
  BY <1>1, SoloInvariance, PTL

-----------------------------------------------------------------------------
(* The only user of the stream is served as OneUserServer says               *)

\* While t alone uses the stream, every step is a step of t or of a client.
LEMMA SoloSteps ==
    ASSUME TypeOK, CallFits, NEW t \in Thread, Solo(t)', [Next]_vars
    PROVE  /\ Solo(t)
           /\ \/ \E o \in Uses[t] : Call(t, o)
              \/ Step(t)
              \/ \E c \in Client : Connect(c) \/ ClientSend(c) \/ ClientClose(c)
              \/ UNCHANGED vars
<1>1. ASSUME NEW v \in Thread, NEW o \in Uses[v], Call(v, o)
      PROVE  v = t /\ Solo(t)
  <2>1. o # "none"
    BY ConstantAssumption DEF Operation
  <2>2. QED
    BY <1>1, <2>1 DEF Call, Solo, TypeOK
<1>2. ASSUME NEW v \in Thread, Step(v)
      PROVE  v = t /\ Solo(t)
  <2>1. Solo(t)
    BY <1>2, StepFits DEF Solo
  <2>2. pc[v] # "idle"
    BY <1>2 DEF Step, Test, Lock, AcceptOk, AcceptFail, Store, Retest, Begin, RecvOk,
       RecvEnd, SendOk, SendFail, Close, Reset, QuitList, QuitData, QuitClose, QuitReset
  <2>3. QED
    BY <2>1, <2>2 DEF Solo, CallFits
<1>3. ASSUME NEW c \in Client, Connect(c) \/ ClientSend(c) \/ ClientClose(c)
      PROVE  Solo(t)
  BY <1>3 DEF Connect, ClientSend, ClientClose, ClientVars, threadVars, Solo
<1>4. CASE UNCHANGED vars
  BY <1>4 DEF vars, threadVars, Solo
<1>5. QED
  BY <1>1, <1>2, <1>3, <1>4 DEF Next

\* The operation fits the place, and a call that has returned has a result ...
KindOfCall(t) ==
    /\ pc[t] = "idle" /\ call[t] # "none" => result[t] # "none"
    /\ pc[t] = "recv" => call[t] = "rx"
    /\ pc[t] \in {"send", "again"} => call[t] = "tx"
    /\ pc[t] \notin {"idle", "quitList", "quitData", "quitClose", "quitReset"} =>
         call[t] \in {"rx", "tx"}

\* ... a descriptor in data_sck is open until the call that gives it up closes it,
\* and between a call's recv or send and the next test it is the one used there ...
Served(t) ==
    /\ data_sck # None /\ pc[t] \notin {"reset", "quitReset"} => table[data_sck] \in Client
    /\ pc[t] = "store" => fd[t] \in Fd /\ table[fd[t]] \in Client
    /\ data_sck # None /\ pc[t] \in {"idle", "quitList", "quitData", "quitClose",
                                     "recv", "send", "again", "close"} =>
         conn[t] = table[data_sck]
    /\ pc[t] \in {"begin", "recv", "send", "again", "close", "reset"} => data_sck # None
    /\ pc[t] \in {"recv", "send", "again", "close", "reset"} => conn[t] \in Client

\* ... and quit() is past the listener before it looks at data_sck.
ListenerFirst(t) ==
    pc[t] \in {"quitData", "quitClose", "quitReset"} => list_sck = "shut"

UserInv(t) == KindOfCall(t) /\ Served(t) /\ ListenerFirst(t)

ServedInv == \A t \in Thread : Solo(t) => UserInv(t)

\* Alone, recv() and send() are entered on the open descriptor in data_sck.
LEMMA BeginsOnData ==
    ASSUME IInv, NEW t \in Thread, OneDescriptor(t), UserInv(t), Begin(t)
    PROVE  /\ data_sck # None /\ table[data_sck] \in Client
           /\ conn' = [conn EXCEPT ![t] = table[data_sck]]
           /\ pc' = [pc EXCEPT ![t] = IF call[t] = "tx" THEN "send" ELSE "recv"]
<1>1. data_sck # None /\ table[data_sck] \in Client
  BY DEF Begin, OneDescriptor, UserInv, Served, IInv, TypeOK
<1>2. PICK d \in {data_sck} \cup (IF pc[t] = "begin" THEN {fd[t]} ELSE {}) :
         IF d # None /\ table[d] # NoClient
         THEN /\ conn' = [conn EXCEPT ![t] = table[d]]
              /\ GoTo(t, IF call[t] = "tx" THEN "send" ELSE "recv")
         ELSE /\ conn' = [conn EXCEPT ![t] = NoClient]
              /\ GoTo(t, "close")
  BY DEF Begin
<1>3. d = data_sck
  BY <1>2 DEF OneDescriptor
<1>4. table[data_sck] # NoClient
  BY <1>1, ConstantAssumption
<1>5. QED
  BY <1>1, <1>2, <1>3, <1>4 DEF GoTo

\* A step of the only user keeps its place fitting its call ...
LEMMA StepKind ==
    ASSUME IInv, CallFits, NEW t \in Thread, OneDescriptor(t), UserInv(t), Step(t)
    PROVE  KindOfCall(t)'
<1>1. /\ KindOfCall(t) /\ call' = call /\ pc \in [Thread -> Location]
      /\ result \in [Thread -> {"none", "true", "false"}]
  BY StepFits DEF IInv, TypeOK, UserInv
<1> USE <1>1 DEF KindOfCall, GoTo, Return
<1>2. CASE Test(t) \/ Lock(t) \/ AcceptOk(t) \/ AcceptFail(t) \/ Store(t) \/ Retest(t)
  BY <1>2 DEF Test, Lock, AcceptOk, AcceptFail, Store, Retest
<1>3. CASE Begin(t)
  BY <1>3, BeginsOnData DEF Begin
<1>4. CASE RecvOk(t) \/ RecvEnd(t) \/ SendOk(t) \/ SendFail(t)
  BY <1>4 DEF RecvOk, RecvEnd, SendOk, SendFail
<1>5. CASE Close(t) \/ Reset(t)
  BY <1>5 DEF Close, Reset
<1>6. CASE QuitList(t) \/ QuitData(t) \/ QuitClose(t) \/ QuitReset(t)
  BY <1>6 DEF QuitList, QuitData, QuitClose, QuitReset
<1>7. QED
  BY <1>2, <1>3, <1>4, <1>5, <1>6 DEF Step

\* ... leaves an open connection behind data_sck ...
LEMMA StepServed ==
    ASSUME IInv, CallFits, NEW t \in Thread, OneDescriptor(t), UserInv(t), Step(t)
    PROVE  Served(t)'
<1>1. Served(t) /\ TypeOK /\ KindOfCall(t) /\ \A d \in Fd : d # None
  BY DEF IInv, UserInv, Fd, None
<1> USE <1>1, ConstantAssumption DEF Served, TypeOK, GoTo, Return
<1>2. CASE Test(t) \/ Lock(t) \/ AcceptFail(t) \/ Retest(t)
  BY <1>2 DEF Test, Lock, AcceptFail, Retest, kernelVars, OneDescriptor
<1>3. CASE AcceptOk(t)
  <2>1. data_sck = None /\ Head(backlog) \in Client
    BY <1>3, HeadTailProperties DEF AcceptOk, IInv, AcceptorAlone
  <2>2. PICK d \in FreeFds : /\ table' = [table EXCEPT ![d] = Head(backlog)]
                             /\ fd' = [fd EXCEPT ![t] = d]
    BY <1>3 DEF AcceptOk
  <2>3. QED
    BY <1>3, <2>1, <2>2 DEF AcceptOk, FreeFds
<1>4. CASE Store(t)
  BY <1>4 DEF Store, kernelVars
<1>5. CASE Begin(t)
  BY <1>5, BeginsOnData DEF Begin, kernelVars
<1>6. CASE RecvOk(t) \/ RecvEnd(t) \/ SendOk(t) \/ SendFail(t)
  BY <1>6 DEF RecvOk, RecvEnd, SendOk, SendFail, kernelVars
<1>7. CASE Close(t) \/ QuitClose(t)
  BY <1>7 DEF Close, QuitClose
<1>8. CASE Reset(t) \/ QuitReset(t)
  BY <1>8 DEF Reset, QuitReset, kernelVars
<1>9. CASE QuitList(t) \/ QuitData(t)
  BY <1>9 DEF QuitList, QuitData
<1>10. QED
  BY <1>2, <1>3, <1>4, <1>5, <1>6, <1>7, <1>8, <1>9 DEF Step

\* ... and is past the listener before quit() looks at data_sck.
LEMMA StepListenerFirst ==
    ASSUME TypeOK, NEW t \in Thread, ListenerFirst(t), Step(t)
    PROVE  ListenerFirst(t)'
<1> USE DEF ListenerFirst, TypeOK, GoTo, Return
<1>1. CASE QuitList(t)
  BY <1>1 DEF QuitList
<1>2. CASE QuitData(t) \/ QuitClose(t) \/ QuitReset(t)
  BY <1>2 DEF QuitData, QuitClose, QuitReset
<1>3. CASE RecvOk(t) \/ SendOk(t) \/ Retest(t) \/ Reset(t)
  BY <1>3 DEF RecvOk, SendOk, Retest, Reset
<1>4. CASE Test(t) \/ Lock(t) \/ AcceptOk(t) \/ AcceptFail(t) \/ Store(t)
  BY <1>4 DEF Test, Lock, AcceptOk, AcceptFail, Store
<1>5. CASE Begin(t) \/ RecvEnd(t) \/ SendFail(t) \/ Close(t)
  BY <1>5 DEF Begin, RecvEnd, SendFail, Close
<1>6. QED
  BY <1>1, <1>2, <1>3, <1>4, <1>5 DEF Step

\* As long as one thread alone has used the stream, its calls are served.
THEOREM ServedInvariance == Spec => []ServedInv
<1>1. Init => ServedInv
  BY DEF Init, ServedInv, UserInv, KindOfCall, Served, ListenerFirst
<1>2. IInv /\ SoloInv /\ ServedInv /\ [Next]_vars => ServedInv'
  <2> SUFFICES ASSUME IInv, SoloInv, ServedInv, [Next]_vars,
                      NEW t \in Thread, Solo(t)'
               PROVE  UserInv(t)'
    BY DEF ServedInv
  <2>1. /\ UserInv(t) /\ OneDescriptor(t) /\ CallFits
        /\ \/ \E o \in Uses[t] : Call(t, o)
           \/ Step(t)
           \/ \E c \in Client : Connect(c) \/ ClientSend(c) \/ ClientClose(c)
           \/ UNCHANGED vars
    BY SoloSteps DEF IInv, SoloInv, ServedInv
  <2>2. ASSUME NEW o \in Uses[t], Call(t, o) PROVE UserInv(t)'
    <3>1. /\ pc[t] = "idle" /\ call[t] # "quit" /\ call'[t] = o /\ o \in Operation
          /\ pc'[t] = IF o = "quit" THEN "quitList" ELSE "test"
          /\ UNCHANGED <<list_sck, data_sck, conn, fd, table, shut, peer, inbox>>
      BY <2>2, ConstantAssumption DEF Call, GoTo, IInv, TypeOK, kernelVars
    <3>2. QED
      BY <2>1, <3>1 DEF UserInv, KindOfCall, Served, ListenerFirst, Operation
  <2>3. CASE Step(t)
    BY <2>1, <2>3, StepKind, StepServed, StepListenerFirst DEF UserInv, IInv
  <2>4. ASSUME NEW c \in Client, Connect(c) \/ ClientSend(c) \/ ClientClose(c)
        PROVE  UserInv(t)'
    <3>1. UNCHANGED <<list_sck, data_sck, call, pc, fd, conn, result, table, shut>>
      BY <2>4 DEF Connect, ClientSend, ClientClose, ClientVars, threadVars
    <3>2. KindOfCall(t)' /\ Served(t)'
      BY <2>1, <3>1 DEF UserInv, KindOfCall, Served
    <3>3. QED
      BY <2>1, <3>1, <3>2 DEF UserInv, ListenerFirst
  <2>5. CASE UNCHANGED vars
    BY <2>1, <2>5 DEF vars, threadVars, kernelVars, UserInv, KindOfCall, Served, ListenerFirst
  <2>6. QED
    BY <2>1, <2>2, <2>3, <2>4, <2>5
<1>3. QED
  BY <1>1, <1>2, Invariance, SoloInvariance, PTL DEF Spec

\* A step of the only user is a step of the server, or one that it does not see.
LEMMA StepIsServed ==
    ASSUME IInv, CallFits, NEW t \in Thread, OneDescriptor(t), OneReceiver(t), UserInv(t),
           Step(t)
    PROVE  [Server(t)!Next]_(Server(t)!absVars)
<1> DEFINE Hidden == UNCHANGED Server(t)!absVars
<1>1. TypeOK /\ KindOfCall(t) /\ Served(t) /\ ListenerFirst(t) /\ call' = call
      /\ (\A d \in Fd : d # None)
  BY StepFits DEF IInv, UserInv, Fd, None
<1> USE <1>1, ConstantAssumption DEF TypeOK, GoTo, Return
<1>2. CASE Test(t) \/ Lock(t) \/ AcceptFail(t)
  <2>1. InService(t)' = InService(t)
    BY <1>2 DEF Test, Lock, AcceptFail, InService, kernelVars
  <2>2. Hidden
    BY <1>2, <2>1 DEF Test, Lock, AcceptFail, Server!absVars, kernelVars
  <2>3. QED
    BY <2>2
<1>3. CASE AcceptOk(t)
  <2>1. data_sck = None /\ InService(t) = NoClient
    BY <1>3 DEF AcceptOk, IInv, AcceptorAlone, InService
  <2>2. InService(t)' = Head(backlog)
    BY <1>3 DEF AcceptOk, FreeFds, InService
  <2>3. call[t] \in {"rx", "tx"} /\ result[t] = "none" /\ sent[t] = <<>>
    BY <1>3 DEF AcceptOk, KindOfCall, CallFits, OneReceiver
  <2>4. Server(t)!Accept
    BY <1>3, <2>1, <2>2, <2>3 DEF AcceptOk, Server!Accept, Server!Runs
  <2>5. QED
    BY <2>4 DEF Server!Next
<1>4. CASE Store(t)
  <2>1. InService(t)' = InService(t)
    BY <1>4 DEF Store, InService, Served, kernelVars
  <2>2. Hidden
    BY <1>4, <2>1 DEF Store, Server!absVars, kernelVars
  <2>3. QED
    BY <2>2
<1>5. CASE Retest(t)
  <2>1. InService(t)' = InService(t)
    BY <1>5 DEF Retest, InService, kernelVars
  <2>2. CASE data_sck # None
    <3>1. Hidden
      BY <1>5, <2>1, <2>2 DEF Retest, Server!absVars, kernelVars
    <3>2. QED
      BY <3>1
  <2>3. CASE data_sck = None
    <3>1. InService(t) = NoClient /\ sent[t] = <<>>
      BY <1>5, <2>3 DEF Retest, InService, OneReceiver
    <3>2. call[t] \in {"rx", "tx"} /\ result[t] = "none" /\ result'[t] = "false"
      BY <1>5, <2>3 DEF Retest, KindOfCall, CallFits
    <3>3. Server(t)!Refuse
      BY <1>5, <2>1, <3>1, <3>2
         DEF Retest, Server!Refuse, Server!Runs, Server!Finish, kernelVars
    <3>4. QED
      BY <3>3 DEF Server!Next
  <2>4. QED
    BY <2>2, <2>3
<1>6. CASE Begin(t)
  <2>1. InService(t)' = InService(t)
    BY <1>6, BeginsOnData DEF Begin, InService, kernelVars
  <2>2. Hidden
    BY <1>6, <2>1 DEF Begin, Server!absVars, kernelVars
  <2>3. QED
    BY <2>2
<1>7. CASE RecvOk(t)
  <2>1. InService(t)' = InService(t) /\ InService(t) = conn[t] /\ conn[t] \in Client
    BY <1>7 DEF RecvOk, InService, Served
  <2>2. call[t] = "rx" /\ result[t] = "none" /\ result'[t] = "true"
    BY <1>7 DEF RecvOk, KindOfCall, CallFits
  <2>3. Server(t)!Receive
    BY <1>7, <2>1, <2>2 DEF RecvOk, Server!Receive, Server!Runs, Server!Finish
  <2>4. QED
    BY <2>3 DEF Server!Next
<1>8. CASE RecvEnd(t) \/ SendFail(t)
  <2>1. InService(t)' = InService(t)
    BY <1>8 DEF RecvEnd, SendFail, InService, kernelVars
  <2>2. Hidden
    BY <1>8, <2>1 DEF RecvEnd, SendFail, Server!absVars, kernelVars
  <2>3. QED
    BY <2>2
<1>9. CASE SendOk(t)
  <2>1. InService(t)' = InService(t) /\ InService(t) = conn[t] /\ conn[t] \in Client
    BY <1>9 DEF SendOk, InService, Served, kernelVars
  <2>2. call[t] = "tx" /\ result[t] = "none"
    BY <1>9 DEF SendOk, KindOfCall, CallFits
  <2>3. sent'[t] = Append(sent[t], conn[t])
    BY <1>9 DEF SendOk
  <2>4. Len(sent'[t]) = Len(sent[t]) + 1 /\ Len(sent[t]) \in Nat /\ Len(sent[t]) < ChunkSize
    BY <1>9, <2>1, <2>3, AppendProperties, LenProperties DEF SendOk, IInv, BytesLeft, Unfinished
  <2>5. \/ Len(sent'[t]) < ChunkSize /\ result'[t] = result[t]
        \/ Len(sent'[t]) = ChunkSize /\ result'[t] = "true"
    BY <1>9, <2>4 DEF SendOk
  <2>6. Server(t)!Send
    BY <1>9, <2>1, <2>2, <2>3, <2>5
       DEF SendOk, Server!Send, Server!Runs, Server!Finish, kernelVars
  <2>7. QED
    BY <2>6 DEF Server!Next
<1>10. CASE Close(t)
  <2>1. InService(t)' = InService(t)
    BY <1>10 DEF Close, InService, Served
  <2>2. Hidden
    BY <1>10, <2>1 DEF Close, Server!absVars
  <2>3. QED
    BY <2>2
<1>11. CASE Reset(t)
  <2>1. InService(t) = conn[t] /\ conn[t] \in Client /\ InService(t)' = NoClient
    BY <1>11 DEF Reset, InService, Served
  <2>2. /\ call[t] \in {"rx", "tx"} /\ result[t] = "none" /\ result'[t] = "false"
    BY <1>11 DEF Reset, KindOfCall, CallFits
  <2>3. Server(t)!Lose
    BY <1>11, <2>1, <2>2 DEF Reset, Server!Lose, Server!Runs, Server!Finish, kernelVars
  <2>4. QED
    BY <2>3 DEF Server!Next
<1>12. CASE QuitList(t)
  <2>1. InService(t)' = InService(t)
    BY <1>12 DEF QuitList, InService
  <2>2. call[t] = "quit" /\ result[t] = "none"
    BY <1>12 DEF QuitList, CallFits
  <2>3. Server(t)!StopListening
    BY <1>12, <2>1, <2>2 DEF QuitList, Server!StopListening, Server!Runs
  <2>4. QED
    BY <2>3 DEF Server!Next
<1>13. CASE QuitData(t) \/ QuitReset(t)
  <2>1. call[t] = "quit" /\ result[t] = "none" /\ list_sck = "shut"
    BY <1>13 DEF QuitData, QuitReset, CallFits, ListenerFirst
  <2>2. CASE QuitData(t) /\ data_sck # None
    <3>1. InService(t)' = InService(t)
      BY <2>2 DEF QuitData, InService
    <3>2. Hidden
      BY <2>2, <3>1 DEF QuitData, Server!absVars
    <3>3. QED
      BY <3>2
  <2>3. CASE QuitReset(t) \/ (QuitData(t) /\ data_sck = None)
    <3>1. InService(t)' = NoClient /\ result'[t] = "true"
      BY <2>3 DEF QuitReset, QuitData, InService
    <3>2. Server(t)!Quit
      BY <2>1, <2>3, <3>1
         DEF QuitReset, QuitData, Server!Quit, Server!Runs, Server!Finish, kernelVars
    <3>3. QED
      BY <3>2 DEF Server!Next
  <2>4. QED
    BY <1>13, <2>2, <2>3
<1>14. CASE QuitClose(t)
  <2>1. InService(t)' = InService(t)
    BY <1>14 DEF QuitClose, InService, Served
  <2>2. Hidden
    BY <1>14, <2>1 DEF QuitClose, Server!absVars
  <2>3. QED
    BY <2>2
<1>15. QED
  BY <1>2, <1>3, <1>4, <1>5, <1>6, <1>7, <1>8, <1>9, <1>10, <1>11, <1>12, <1>13, <1>14
     DEF Step

\* While t alone uses the stream, every step is one of the server or none that it sees.
LEMMA SoloStepIsServed ==
    ASSUME IInv, SoloInv, ServedInv, [Next]_vars, NEW t \in Thread, Solo(t)'
    PROVE  [Server(t)!Next]_(Server(t)!absVars)
<1>1. Solo(t) /\ UserInv(t) /\ OneDescriptor(t) /\ OneReceiver(t) /\ CallFits /\ TypeOK
  BY SoloSteps DEF IInv, SoloInv, ServedInv
<1>2. ASSUME NEW o \in Uses[t], Call(t, o)
      PROVE  Server(t)!Invoke
  <2>1. /\ pc[t] = "idle" /\ call[t] # "quit" /\ o \in Operation
        /\ call'[t] = o /\ sent'[t] = <<>> /\ result'[t] = "none"
        /\ pc'[t] \in {"test", "quitList"}
        /\ UNCHANGED <<list_sck, data_sck, fd, conn, kernelVars>>
    BY <1>1, <1>2, ConstantAssumption DEF Call, GoTo, TypeOK
  <2>2. InService(t)' = InService(t)
    BY <2>1 DEF InService, kernelVars
  <2>3. call[t] = "none" \/ result[t] # "none"
    BY <1>1, <2>1 DEF UserInv, KindOfCall
  <2>4. QED
    BY <2>1, <2>2, <2>3 DEF Server!Invoke, Operation, kernelVars
<1>3. ASSUME NEW c \in Client, Connect(c) \/ ClientSend(c) \/ ClientClose(c)
      PROVE  Server(t)!Connect(c) \/ Server(t)!ClientSend(c) \/ Server(t)!ClientClose(c)
  <2>1. InService(t)' = InService(t)
    BY <1>3 DEF Connect, ClientSend, ClientClose, ClientVars, threadVars, InService
  <2>2. QED
    BY <1>3, <2>1 DEF Connect, ClientSend, ClientClose, ClientVars, threadVars,
       Server!Connect, Server!ClientSend, Server!ClientClose
<1>4. CASE UNCHANGED vars
  <2>1. InService(t)' = InService(t)
    BY <1>4 DEF vars, threadVars, kernelVars, InService
  <2>2. QED
    BY <1>4, <2>1 DEF vars, threadVars, kernelVars, Server!absVars
<1>5. QED
  BY <1>1, <1>2, <1>3, <1>4, SoloSteps, StepIsServed DEF Server!Next

\* A thread that has the stream for itself is served as OneUserServer says: clients
\* in the order of their connections and one at a time, chunks whole, and after a
\* failed call, whatever the error, nobody in service.
THEOREM ServesOneUserCorrect == Spec => ServesOneUser
<1>1. Init => \A t \in Thread : Server(t)!Init
  <2> SUFFICES ASSUME Init, NEW t \in Thread PROVE Server(t)!Init
    OBVIOUS
  <2>1. InService(t) = NoClient
    BY DEF Init, InService
  <2>2. (list_sck = "listening") \in BOOLEAN
    OBVIOUS
  <2>3. QED
    BY <2>1, <2>2 DEF Init, Server!Init
<1>2. IInv /\ SoloInv /\ ServedInv /\ [Next]_vars =>
        [\A t \in Thread : Solo(t)' => [Server(t)!Next]_(Server(t)!absVars)]_vars
  BY SoloStepIsServed
<1>3. QED
  BY <1>1, <1>2, Invariance, SoloInvariance, ServedInvariance, PTL DEF Spec, ServesOneUser
=============================================================================
