------------------------------ MODULE TcpStream ------------------------------
(***************************************************************************)
(* The TCP server socket modem_utils/tcp-stream.{h,cpp}, used by several   *)
(* threads, with the kernel's descriptor table and the clients outside.    *)
(*                                                                         *)
(* data_sck is a plain int.  mutex_sock is held in acceptConnection() and  *)
(* nowhere else, so every other access to data_sck is a step of its own:   *)
(* the tests, the argument of recv/send, close(data_sck), data_sck = -1.   *)
(* A test and the system call after it may share one load of data_sck or   *)
(* load it twice: both outcomes of that race are modelled (Begin).         *)
(*                                                                         *)
(* A kernel call keeps the connection it started on (conn), whatever       *)
(* happens to the descriptor meanwhile: close() alone interrupts nobody,   *)
(* shutdown() does.                                                        *)
(***************************************************************************)
EXTENDS Naturals, Sequences, FiniteSets

CONSTANTS Thread,     \* threads that share the stream
          NoThread,   \* owner of a free mutex
          Uses,       \* Uses[t]: the operations thread t may call
          Client,     \* connections that clients open, each at most once
          NoClient,   \* what a closed descriptor stands for
          MaxFd,      \* descriptors 1..MaxFd are left for connections
          ChunkSize,  \* bytes in a chunk that is sent
          MaxInbox    \* bound on the bytes a client has sent and nobody has read

Operation == {"rx", "tx", "quit"}

ASSUME ConstantAssumption ==
    /\ NoThread \notin Thread /\ NoClient \notin Client
    /\ Uses \in [Thread -> SUBSET Operation]
    /\ MaxFd \in Nat /\ ChunkSize \in Nat \ {0} /\ MaxInbox \in Nat

VARIABLES list_sck,   \* "listening", "unbound" (bind failed) or "shut"
          data_sck,   \* a descriptor, or None for -1
          mutex_sock, \* the thread in acceptConnection(), or NoThread
          pc,         \* pc[t]: where t stands in its call
          call,       \* call[t]: the operation t runs, or ran last
          fd,         \* fd[t]: the descriptor t read from data_sck or got from accept
          conn,       \* conn[t]: the connection of t's last recv or send
          sent,       \* sent[t]: the connection each byte of t's chunk went to
          result,     \* result[t]: what t's last call returned
          table,      \* kernel: the connection behind each descriptor
          backlog,    \* kernel: connections waiting for accept
          peer,       \* peer[c]: "new", "up" or "closed", the client's end of c
          inbox,      \* inbox[c]: bytes from the client not yet received
          shut        \* shut[c]: shutdown() was called on c

threadVars == <<pc, call, fd, conn, sent, result>>
kernelVars == <<table, backlog, peer, inbox, shut>>
vars == <<list_sck, data_sck, mutex_sock, threadVars, kernelVars>>

None == 0
Fd   == 1..MaxFd
Location == {"idle", "test", "lock", "accept", "store", "retest", "begin", "again",
             "recv", "send", "close", "reset",
             "quitList", "quitData", "quitClose", "quitReset"}

\* The constructor binds and listens; a failure goes unnoticed.
Init ==
    /\ list_sck \in {"listening", "unbound"}
    /\ data_sck = None
    /\ mutex_sock = NoThread
    /\ pc = [t \in Thread |-> "idle"]
    /\ call = [t \in Thread |-> "none"]
    /\ fd = [t \in Thread |-> None]
    /\ conn = [t \in Thread |-> NoClient]
    /\ sent = [t \in Thread |-> <<>>]
    /\ result = [t \in Thread |-> "none"]
    /\ table = [d \in Fd |-> NoClient]
    /\ backlog = <<>>
    /\ peer = [c \in Client |-> "new"]
    /\ inbox = [c \in Client |-> 0]
    /\ shut = [c \in Client |-> FALSE]

-----------------------------------------------------------------------------
GoTo(t, place) == pc' = [pc EXCEPT ![t] = place]

Return(t, value) ==
    /\ GoTo(t, "idle")
    /\ result' = [result EXCEPT ![t] = value]

\* Thread t calls operation o; quit() is the last call a thread makes.
Call(t, o) ==
    /\ pc[t] = "idle" /\ call[t] # "quit"
    /\ GoTo(t, IF o = "quit" THEN "quitList" ELSE "test")
    /\ call' = [call EXCEPT ![t] = o]
    /\ sent' = [sent EXCEPT ![t] = <<>>]
    /\ result' = [result EXCEPT ![t] = "none"]
    /\ UNCHANGED <<list_sck, data_sck, mutex_sock, fd, conn, kernelVars>>

\* The first test of data_sck in tx() and rx().
Test(t) ==
    /\ pc[t] = "test"
    /\ GoTo(t, IF data_sck = None THEN "lock" ELSE "begin")
    /\ fd' = [fd EXCEPT ![t] = data_sck]
    /\ UNCHANGED <<list_sck, data_sck, mutex_sock, call, conn, sent, result, kernelVars>>

\* Mutant: acceptConnection() does not look at data_sck again.
LockBlindly(t) ==
    /\ pc[t] = "lock" /\ mutex_sock = NoThread
    /\ GoTo(t, "accept")
    /\ mutex_sock' = t
    /\ UNCHANGED <<list_sck, data_sck, call, fd, conn, sent, result, kernelVars>>

\* acceptConnection(): with the mutex, accept only if still unconnected.
Lock(t) ==
    /\ pc[t] = "lock" /\ mutex_sock = NoThread
    /\ IF data_sck # None
       THEN GoTo(t, "retest") /\ UNCHANGED mutex_sock
       ELSE GoTo(t, "accept") /\ mutex_sock' = t
    /\ UNCHANGED <<list_sck, data_sck, call, fd, conn, sent, result, kernelVars>>

FreeFds == {d \in Fd : table[d] = NoClient}

\* accept() returns the next connection under the lowest free descriptor.
AcceptOk(t) ==
    /\ pc[t] = "accept" /\ list_sck = "listening"
    /\ backlog # <<>>
    /\ \E d \in FreeFds :
         /\ \A e \in FreeFds : d <= e
         /\ table' = [table EXCEPT ![d] = Head(backlog)]
         /\ fd' = [fd EXCEPT ![t] = d]
    /\ backlog' = Tail(backlog)
    /\ GoTo(t, "store")
    /\ UNCHANGED <<list_sck, data_sck, mutex_sock, call, conn, sent, result,
                   peer, inbox, shut>>

\* accept() fails, on a listener that is unbound or shut down, without a free
\* descriptor, or by any other error at any time.  The code tries again only
\* after an interruption, which is a stuttering step.
AcceptFail(t) ==
    /\ pc[t] = "accept"
    /\ mutex_sock' = NoThread
    /\ GoTo(t, "retest")
    /\ UNCHANGED <<list_sck, data_sck, call, fd, conn, sent, result, kernelVars>>

\* socketfd = accept(...), where socketfd is data_sck, and the unlock.
Store(t) ==
    /\ pc[t] = "store"
    /\ data_sck' = fd[t]
    /\ mutex_sock' = NoThread
    /\ GoTo(t, "retest")
    /\ UNCHANGED <<list_sck, call, fd, conn, sent, result, kernelVars>>

\* The second test of data_sck.
Retest(t) ==
    /\ pc[t] = "retest"
    /\ IF data_sck = None
       THEN Return(t, "false") /\ UNCHANGED fd
       ELSE /\ GoTo(t, "begin")
            /\ fd' = [fd EXCEPT ![t] = data_sck]
            /\ UNCHANGED result
    /\ UNCHANGED <<list_sck, data_sck, mutex_sock, call, conn, sent, kernelVars>>

\* recv/send is entered on the descriptor of the test, or on the one data_sck
\* holds by now; the send loop loads data_sck again for every further part.
Begin(t) ==
    /\ pc[t] \in {"begin", "again"}
    /\ \E d \in {data_sck} \cup (IF pc[t] = "begin" THEN {fd[t]} ELSE {}) :
         IF d # None /\ table[d] # NoClient
         THEN /\ conn' = [conn EXCEPT ![t] = table[d]]
              /\ GoTo(t, IF call[t] = "tx" THEN "send" ELSE "recv")
         ELSE /\ conn' = [conn EXCEPT ![t] = NoClient]
              /\ GoTo(t, "close")
    /\ UNCHANGED <<list_sck, data_sck, mutex_sock, call, fd, sent, result, kernelVars>>

RecvOk(t) ==
    /\ pc[t] = "recv" /\ inbox[conn[t]] > 0
    /\ inbox' = [inbox EXCEPT ![conn[t]] = @ - 1]
    /\ Return(t, "true")
    /\ UNCHANGED <<list_sck, data_sck, mutex_sock, call, fd, conn, sent,
                   table, backlog, peer, shut>>

\* recv() returns 0 at the end of the connection, or an error, which may come at
\* any time: a signal that interrupts it is enough, whatever the client does.
RecvEnd(t) ==
    /\ pc[t] = "recv"
    /\ GoTo(t, "close")
    /\ UNCHANGED <<list_sck, data_sck, mutex_sock, call, fd, conn, sent, result, kernelVars>>

\* Mutant: the loop makes one round too many.
SendOnePastEnd(t) ==
    /\ pc[t] = "send" /\ ~shut[conn[t]]
    /\ sent' = [sent EXCEPT ![t] = Append(@, conn[t])]
    /\ IF Len(sent[t]) + 1 <= ChunkSize
       THEN GoTo(t, "again") /\ UNCHANGED result
       ELSE Return(t, "true")
    /\ UNCHANGED <<list_sck, data_sck, mutex_sock, call, fd, conn, kernelVars>>

\* send() takes part of the chunk, once the client has read enough for it (see
\* Blocked); bytes for a client that has just closed its end are taken too.
SendOk(t) ==
    /\ pc[t] = "send" /\ ~shut[conn[t]]
    /\ sent' = [sent EXCEPT ![t] = Append(@, conn[t])]
    /\ IF Len(sent[t]) + 1 < ChunkSize
       THEN GoTo(t, "again") /\ UNCHANGED result
       ELSE Return(t, "true")
    /\ UNCHANGED <<list_sck, data_sck, mutex_sock, call, fd, conn, kernelVars>>

\* Mutant: after a failed send the rest of the chunk goes to the next client.
SendFailGoesOn(t) ==
    /\ pc[t] = "send"
    /\ data_sck' = None
    /\ table' = [d \in Fd |-> IF d = data_sck THEN NoClient ELSE table[d]]
    /\ GoTo(t, "test")
    /\ UNCHANGED <<list_sck, mutex_sock, call, fd, conn, sent, result,
                   backlog, peer, inbox, shut>>

\* send() fails, at any time like recv().
SendFail(t) ==
    /\ pc[t] = "send"
    /\ GoTo(t, "close")
    /\ UNCHANGED <<list_sck, data_sck, mutex_sock, call, fd, conn, sent, result, kernelVars>>

\* close() on whatever data_sck holds; on a closed descriptor it does nothing.
CloseData == table' = [d \in Fd |-> IF d = data_sck THEN NoClient ELSE table[d]]

\* Mutant: the error path forgets close().
CloseNothing(t) ==
    /\ pc[t] = "close"
    /\ GoTo(t, "reset")
    /\ UNCHANGED <<list_sck, data_sck, mutex_sock, call, fd, conn, sent, result, kernelVars>>

\* The error path of tx() and rx(): close(data_sck) ...
Close(t) ==
    /\ pc[t] = "close"
    /\ CloseData
    /\ GoTo(t, "reset")
    /\ UNCHANGED <<list_sck, data_sck, mutex_sock, call, fd, conn, sent, result,
                   backlog, peer, inbox, shut>>

\* ... and data_sck = -1.
Reset(t) ==
    /\ pc[t] = "reset"
    /\ data_sck' = None
    /\ Return(t, "false")
    /\ UNCHANGED <<list_sck, mutex_sock, call, fd, conn, sent, kernelVars>>

-----------------------------------------------------------------------------
\* Mutant: the listener is left open.
QuitListStays(t) ==
    /\ pc[t] = "quitList"
    /\ GoTo(t, "quitData")
    /\ UNCHANGED <<list_sck, data_sck, mutex_sock, call, fd, conn, sent, result, kernelVars>>

\* quit(): shutdown and close of the listener.  Its backlog is gone with it.
QuitList(t) ==
    /\ pc[t] = "quitList"
    /\ list_sck' = "shut"
    /\ backlog' = <<>>
    /\ GoTo(t, "quitData")
    /\ UNCHANGED <<data_sck, mutex_sock, call, fd, conn, sent, result,
                   table, peer, inbox, shut>>

\* Mutant: the data socket is closed without a shutdown().
QuitNoShutdown(t) ==
    /\ pc[t] = "quitData"
    /\ IF data_sck = None THEN Return(t, "true")
                          ELSE GoTo(t, "quitClose") /\ UNCHANGED result
    /\ UNCHANGED <<list_sck, data_sck, mutex_sock, call, fd, conn, sent, kernelVars>>

\* quit(): the test of data_sck and shutdown(data_sck) ...
QuitData(t) ==
    /\ pc[t] = "quitData"
    /\ IF data_sck = None
       THEN Return(t, "true") /\ UNCHANGED shut
       ELSE /\ GoTo(t, "quitClose")
            /\ shut' = [c \in Client |-> shut[c] \/ c = table[data_sck]]
            /\ UNCHANGED result
    /\ UNCHANGED <<list_sck, data_sck, mutex_sock, call, fd, conn, sent,
                   table, backlog, peer, inbox>>

\* ... close(data_sck) ...
QuitClose(t) ==
    /\ pc[t] = "quitClose"
    /\ CloseData
    /\ GoTo(t, "quitReset")
    /\ UNCHANGED <<list_sck, data_sck, mutex_sock, call, fd, conn, sent, result,
                   backlog, peer, inbox, shut>>

\* ... and data_sck = -1.
QuitReset(t) ==
    /\ pc[t] = "quitReset"
    /\ data_sck' = None
    /\ Return(t, "true")
    /\ UNCHANGED <<list_sck, mutex_sock, call, fd, conn, sent, kernelVars>>

-----------------------------------------------------------------------------
\* Clients connect while the server listens, send and close.
ClientVars == <<list_sck, data_sck, mutex_sock, threadVars, table, shut>>

Connect(c) ==
    /\ peer[c] = "new" /\ list_sck = "listening"
    /\ peer' = [peer EXCEPT ![c] = "up"]
    /\ backlog' = Append(backlog, c)
    /\ UNCHANGED <<ClientVars, inbox>>

ClientSend(c) ==
    /\ peer[c] = "up" /\ inbox[c] < MaxInbox
    /\ inbox' = [inbox EXCEPT ![c] = @ + 1]
    /\ UNCHANGED <<ClientVars, backlog, peer>>

ClientClose(c) ==
    /\ peer[c] = "up"
    /\ peer' = [peer EXCEPT ![c] = "closed"]
    /\ UNCHANGED <<ClientVars, backlog, inbox>>

\* What a thread does on its own once it has made a call.
Step(t) ==
    \/ Test(t) \/ Lock(t) \/ AcceptOk(t) \/ AcceptFail(t) \/ Store(t) \/ Retest(t)
    \/ Begin(t) \/ RecvOk(t) \/ RecvEnd(t) \/ SendOk(t) \/ SendFail(t)
    \/ Close(t) \/ Reset(t)
    \/ QuitList(t) \/ QuitData(t) \/ QuitClose(t) \/ QuitReset(t)

Next ==
    \/ \E t \in Thread : (\E o \in Uses[t] : Call(t, o)) \/ Step(t)
    \/ \E c \in Client : Connect(c) \/ ClientSend(c) \/ ClientClose(c)

Spec == Init /\ [][Next]_vars

Ended(c) == peer[c] = "closed" \/ shut[c]

\* Kernel calls that need not return: recv() from a client who sends nothing,
\* send() to one who does not read, accept() without one.  A client or an error
\* may end them, or nobody.
Blocked(t) ==
    \/ pc[t] = "recv" /\ inbox[conn[t]] = 0 /\ ~Ended(conn[t])
    \/ pc[t] = "send" /\ ~Ended(conn[t])
    \/ pc[t] = "accept" /\ list_sck = "listening" /\ backlog = <<>> /\ FreeFds # {}

\* A thread inside a call keeps running unless the kernel blocks it; clients do
\* what they like, and errors without a cause need not come.
FairSpec == Spec /\ \A t \in Thread : WF_vars(Step(t) /\ ~Blocked(t))

-----------------------------------------------------------------------------
\* Type invariant of the stream, the kernel's table and the clients.
TypeOK ==
    /\ list_sck \in {"listening", "unbound", "shut"}
    /\ data_sck \in Fd \cup {None}
    /\ mutex_sock \in Thread \cup {NoThread}
    /\ pc \in [Thread -> Location]
    /\ call \in [Thread -> Operation \cup {"none"}]
    /\ fd \in [Thread -> Fd \cup {None}]
    /\ conn \in [Thread -> Client \cup {NoClient}]
    /\ \A t \in Thread : pc[t] \in {"recv", "send"} => conn[t] \in Client
    /\ sent \in [Thread -> Seq(Client)]
    /\ \A t \in Thread : Len(sent[t]) <= ChunkSize
    /\ result \in [Thread -> {"none", "true", "false"}]
    /\ table \in [Fd -> Client \cup {NoClient}]
    /\ backlog \in Seq(Client)
    /\ peer \in [Client -> {"new", "up", "closed"}]
    /\ inbox \in [Client -> 0..MaxInbox]
    /\ shut \in [Client -> BOOLEAN]

\* A connection in service is never replaced by another: data_sck goes back to
\* -1 before acceptConnection() gives it a new descriptor, whatever threads
\* find it at -1 together.
NeverReplaced ==
    [][data_sck # None /\ data_sck' # None => data_sck' = data_sck]_vars

\* Only one thread has used the stream so far.
Solo(t) == \A u \in Thread \ {t} : call[u] = "none"
Alone   == \E t \in Thread : Solo(t)

\* "TCP socket RAII": an open descriptor is the one in data_sck, or it belongs
\* to a thread about to store it.  For one thread no connection is left open and
\* unreachable, across failures, reconnections and quit().
NoLeak ==
    \A d \in Fd : table[d] # NoClient =>
        d = data_sck \/ \E t \in Thread : pc[t] = "store" /\ fd[t] = d
NoLeakAlone == Alone => NoLeak

\* "true if the chunk has been transmitted correctly": the bytes of a chunk
\* that tx() reports as sent all went to one client.
WholeChunk ==
    \A t \in Thread : call[t] = "tx" /\ result[t] = "true" =>
        /\ Len(sent[t]) = ChunkSize
        /\ \A i \in 1..ChunkSize : sent[t][i] = sent[t][1]

\* The same for a stream that one thread has used so far.
WholeChunkAlone == Alone => WholeChunk

\* The client in service, as the only user t of the stream sees it: accepted but
\* not yet stored, or closed but not yet forgotten, it is in service.
InService(t) ==
    IF pc[t] = "store" THEN table[fd[t]]
    ELSE IF data_sck = None THEN NoClient
    ELSE IF pc[t] \in {"reset", "quitReset"} THEN conn[t]
    ELSE table[data_sck]

Server(t) == INSTANCE OneUserServer WITH
    listening <- list_sck = "listening", waiting <- backlog, serving <- InService(t),
    op <- call[t], outcome <- result[t], sent <- sent[t]

\* As long as one thread only uses the stream it is served as OneUserServer says:
\* clients in the order of their connections and one at a time, each received
\* byte from the client in service, chunks whole, and after a failed call, for
\* whatever error, nobody in service and the next client not before the next call.
ServesOneUser ==
    /\ \A t \in Thread : Server(t)!Init
    /\ [][\A t \in Thread : Solo(t)' => [Server(t)!Next]_(Server(t)!absVars)]_vars

\* quit(), once past the listener, releases a thread that waits for a connection
\* inside accept(): its call returns.
QuitFreesAcceptors ==
    \A t \in Thread :
        (/\ pc[t] = "accept"
         /\ \E u \in Thread : call[u] = "quit" /\ pc[u] # "quitList")
            ~> pc[t] = "idle"

\* quit() releases a recv() on the connection in service even when the client
\* neither sends nor closes.
QuitFreesReceiver ==
    \A t \in Thread :
        (/\ pc[t] = "recv" /\ data_sck # None /\ table[data_sck] = conn[t]
         /\ \E u \in Thread : pc[u] = "quitData")
            ~> pc[t] = "idle"
=============================================================================
