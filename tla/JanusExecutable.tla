--------------------------- MODULE JanusExecutable ---------------------------
(***************************************************************************)
(* The program janus_executable/janus-executable.cpp: its loops and its    *)
(* signal handler around the queue of decoded packets (ConcQueue) and the  *)
(* socket to the user (TcpStream), both at their full detail.              *)
(*                                                                         *)
(*   listener  txLoop(): socket -> modulator -> sound card                 *)
(*   sampler   rxSamples(): sound card -> demodulator                      *)
(*   demod     the thread of JanusWrapper that decodes and pushes packets  *)
(*   main      main(): queue -> socket, then the end of the program        *)
(*   handler   signalHandler() on SIGINT or SIGTERM, once                  *)
(*                                                                         *)
(* loc[t] is t's place in its own loop; while it is inside a call of the   *)
(* queue or of the socket, the component's own pc (qpc, spc) says where.   *)
(* What txLoop() and rxSamples() do with sound is the subject of           *)
(* HalfDuplex; here a transmission takes a while and a block is one step.  *)
(***************************************************************************)
EXTENDS Naturals, Sequences, FiniteSets

CONSTANTS listener, sampler, demod, main, handler,      \* the threads
          NoThread, MaxPush,                            \* as in ConcQueue
          Client, NoClient, MaxFd, ChunkSize, MaxInbox  \* as in TcpStream

ASSUME ConstantAssumption ==
    /\ listener \notin {sampler, demod, main, handler}
    /\ sampler \notin {demod, main, handler}
    /\ demod \notin {main, handler} /\ main # handler
    /\ NoThread \notin {listener, demod, main, handler}
    /\ MaxPush \in Nat
    /\ NoClient \notin Client
    /\ MaxFd \in Nat /\ ChunkSize \in Nat \ {0} /\ MaxInbox \in Nat

Program == {listener, sampler, main, handler}

VARIABLES queue, mutex_q, exit_flag, qpc, qcall, element, qresult, inserted, removed,
          list_sck, data_sck, mutex_sock, spc, scall, fd, conn, sent, sresult,
          table, backlog, peer, inbox, shut,
          exit_tx_rx,    \* the shared flag to terminate the threads
          loc,           \* loc[t]: where t stands in its loop
          delivered      \* history: packets whose tx() returned true, in order

queueVars  == <<queue, mutex_q, exit_flag, qpc, qcall, element, qresult, inserted, removed>>
socketVars == <<list_sck, data_sck, mutex_sock, spc, scall, fd, conn, sent, sresult,
                table, backlog, peer, inbox, shut>>
ownVars    == <<exit_tx_rx, loc, delivered>>
vars == <<queueVars, socketVars, ownVars>>

Q == INSTANCE ConcQueue WITH
    Thread <- {demod, main, handler},
    Uses <- [t \in {demod, main, handler} |->
               IF t = demod THEN {"push"} ELSE IF t = main THEN {"wPop"} ELSE {"forceExit"}],
    pc <- qpc, call <- qcall, result <- qresult
S == INSTANCE TcpStream WITH
    Thread <- {listener, main},
    Uses <- [t \in {listener, main} |-> IF t = main THEN {"tx", "quit"} ELSE {"rx"}],
    pc <- spc, call <- scall, result <- sresult

Init ==
    /\ Q!Init /\ S!Init
    /\ exit_tx_rx = FALSE
    /\ loc = [t \in Program |-> "loop"]
    /\ delivered = <<>>

GoTo(t, place) == loc' = [loc EXCEPT ![t] = place]

\* A step of thread t's own code from one place to another.
Local(t, from, to) ==
    loc[t] = from /\ GoTo(t, to) /\ UNCHANGED <<queueVars, socketVars, exit_tx_rx>>

\* Thread t calls the queue or the socket; the call ends with pc back at "idle".
CallQueue(t, o, from, to) ==
    /\ loc[t] = from /\ GoTo(t, to)
    /\ Q!Call(t, o)
    /\ UNCHANGED <<socketVars, exit_tx_rx, delivered>>
CallSocket(t, o, from, to) ==
    /\ loc[t] = from /\ GoTo(t, to)
    /\ S!Call(t, o)
    /\ UNCHANGED <<queueVars, exit_tx_rx, delivered>>

-----------------------------------------------------------------------------
(* txLoop() and rxSamples()                                                  *)

\* Mutant: the loop does not look at the exit flag.
ListenForever == CallSocket(listener, "rx", "loop", "rx")

Listen ==
    \/ ~exit_tx_rx /\ CallSocket(listener, "rx", "loop", "rx")
    \/ exit_tx_rx /\ Local(listener, "loop", "ended") /\ UNCHANGED delivered

\* server.rx() has returned: a chunk goes to the modulator and the sound card.
Received ==
    /\ spc[listener] = "idle"
    /\ Local(listener, "rx", IF sresult[listener] = "true" THEN "transmit" ELSE "loop")
    /\ UNCHANGED delivered

\* astream->transmit() has returned.
Transmitted == Local(listener, "transmit", "loop") /\ UNCHANGED delivered

\* rxSamples() leaves its loop after the block in hand.
SamplerEnds == exit_tx_rx /\ Local(sampler, "loop", "ended") /\ UNCHANGED delivered

-----------------------------------------------------------------------------
(* main() and the signal handler                                             *)

Pop == ~exit_tx_rx /\ CallQueue(main, "wPop", "loop", "wPop")

\* Mutant: the result of wPop() is not looked at.
PoppedBlindly == qpc[main] = "idle" /\ CallSocket(main, "tx", "wPop", "tx")

\* wPop() has returned: a packet for this node goes to the user, one from this
\* node or for another node is dropped (only with the MAC header enabled).
Popped ==
    /\ qpc[main] = "idle"
    /\ \/ qresult[main] = "true" /\ CallSocket(main, "tx", "wPop", "tx")
       \/ Local(main, "wPop", "loop") /\ UNCHANGED delivered

\* server.tx() has returned; main() does not look at its result.
Sent ==
    /\ spc[main] = "idle"
    /\ Local(main, "tx", "loop")
    /\ delivered' = IF sresult[main] = "true" THEN Append(delivered, element[main])
                                              ELSE delivered


Quit == exit_tx_rx /\ CallSocket(main, "quit", "loop", "quit")

\* server.quit() has returned, both threads are joined: exit().
Exit ==
    /\ spc[main] = "idle" /\ loc[listener] = "ended" /\ loc[sampler] = "ended"
    /\ Local(main, "quit", "ended")
    /\ UNCHANGED delivered

\* SIGINT or SIGTERM: exit_tx_rx.store(true) ...
Signal ==
    /\ loc[handler] = "loop" /\ GoTo(handler, "signal")
    /\ exit_tx_rx' = TRUE
    /\ UNCHANGED <<queueVars, socketVars, delivered>>

\* ... and rx_buffer->forceExit().
ForceExit == CallQueue(handler, "forceExit", "signal", "ended")

-----------------------------------------------------------------------------
\* Inside a call of the queue or of the socket, and what comes from outside.
QueueStep(t)  == Q!Step(t) /\ UNCHANGED <<socketVars, ownVars>>
SocketStep(t) == S!Step(t) /\ UNCHANGED <<queueVars, ownVars>>
Decode        == Q!Call(demod, "push") /\ UNCHANGED <<socketVars, ownVars>>
SpuriousWake  == Q!SpuriousWake(main) /\ UNCHANGED <<socketVars, ownVars>>
ClientStep ==
    /\ \E c \in Client : S!Connect(c) \/ S!ClientSend(c) \/ S!ClientClose(c)
    /\ UNCHANGED <<queueVars, ownVars>>

TxLoop  == Listen \/ Received \/ Transmitted \/ SocketStep(listener)
Main    == Pop \/ Popped \/ Sent \/ Quit \/ Exit \/ QueueStep(main) \/ SocketStep(main)
Handler == ForceExit \/ QueueStep(handler)

Next ==
    \/ TxLoop \/ SamplerEnds \/ Main \/ Handler \/ QueueStep(demod)
    \/ Signal \/ Decode \/ SpuriousWake \/ ClientStep

Spec == Init /\ [][Next]_vars

\* The operating system runs every thread that its kernel does not block.  The
\* sound card need not let transmit() return, which tries again after any error.
\* Users, signals, packets off the air and spurious wakeups come when they like.
\* The sampler, the handler and the demodulator take finitely many steps, so that
\* one condition does for the three of them.  (The subscripts say where a thread
\* stands, which each of its steps changes.)
Unblocked(t) == ~S!Blocked(t) /\ SocketStep(t)
listenerAt == <<loc[listener], spc[listener]>>
mainAt     == <<loc[main], qpc[main], spc[main]>>
othersAt   == <<loc[sampler], loc[handler], qpc[handler], qpc[demod]>>
FairSpec ==
    /\ Spec
    /\ WF_listenerAt(Listen \/ Received \/ Unblocked(listener))
    /\ WF_mainAt(Pop \/ Popped \/ Sent \/ Quit \/ Exit \/ QueueStep(main) \/ Unblocked(main))
    /\ WF_othersAt(SamplerEnds \/ Handler \/ QueueStep(demod))

-----------------------------------------------------------------------------
\* Type invariant of the program's own variables.
TypeOK ==
    /\ exit_tx_rx \in BOOLEAN
    /\ loc \in [Program -> {"loop", "rx", "transmit", "wPop", "tx", "quit", "signal", "ended"}]
    /\ delivered \in Seq(1..MaxPush)

\* Packets reach the user in the order in which they were decoded and none
\* twice, whatever clients connect, fail and reconnect and whatever is stopped.
DeliveredInOrder ==
    \A i, j \in 1..Len(delivered) : i < j => delivered[i] < delivered[j]

\* No transmission lasts for ever: the sound card takes the sound in the end.
CardPlays == []<>(loc[listener] # "transmit")

\* quit() shuts down the connection in data_sck and no other: out of its reach are
\* one that was accepted and not yet stored, and one on which the listener waits
\* although main()'s failed send() has closed it.
OutOfReach ==
    \/ spc[listener] = "store"
    \/ spc[listener] = "recv" /\ (data_sck # 0 => table[data_sck] # conn[listener])



\* If the program does not end after a signal, main() or the thread it joins is
\* in the end held by one of five waits: a wPop() that missed forceExit();
\* server.tx() for a user to connect, or for the user to read; a recv() on a
\* connection that quit() did not shut down, with a user who neither sends nor
\* closes; or transmit() with a sound card that takes no more.
MissedExit == loc[main] = "wPop"
NoUser     == loc[main] = "tx" /\ spc[main] \in {"lock", "accept"}
DeafUser   == loc[main] = "tx" /\ spc[main] = "send"
SilentUser == loc[main] = "quit" /\ spc[listener] = "recv" /\ ~shut[conn[listener]]
DeadCard   == loc[main] = "quit" /\ loc[listener] = "transmit"
EndsOrHangs ==
    <>[](exit_tx_rx => \/ loc[main] = "ended"
                       \/ MissedExit \/ NoUser \/ DeafUser \/ SilentUser \/ DeadCard)
=============================================================================
