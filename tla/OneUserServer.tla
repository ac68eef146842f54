---------------------------- MODULE OneUserServer ----------------------------
(***************************************************************************)
(* What a TCP stream promises a thread that has it for itself: it serves   *)
(* one client after the other, in the order in which they connected; a     *)
(* call works on the client in service from its beginning to its end.  It  *)
(* may fail at any time, as the system calls may; whoever was in service   *)
(* is given up then, and the next client has to wait for the next call.    *)
(* Descriptors, the mutex and the steps inside a call do not appear.       *)
(***************************************************************************)
EXTENDS Naturals, Sequences

CONSTANTS Client,     \* those who connect, each at most once
          NoClient,   \* nobody
          ChunkSize,  \* bytes in a chunk that is sent
          MaxInbox    \* bound on the bytes sent and not yet received

VARIABLES listening,  \* new clients may connect
          waiting,    \* the clients that have connected, in their order
          serving,    \* the client in service, or NoClient
          peer,       \* peer[c]: "new", "up" or "closed"
          inbox,      \* inbox[c]: bytes from c not yet received
          op,         \* the call made last
          outcome,    \* how it ended, "none" while it runs
          sent        \* the client that each byte of the chunk went to

absVars == <<listening, waiting, serving, peer, inbox, op, outcome, sent>>

Init ==
    /\ listening \in BOOLEAN
    /\ waiting = <<>>
    /\ serving = NoClient
    /\ peer = [c \in Client |-> "new"]
    /\ inbox = [c \in Client |-> 0]
    /\ op = "none" /\ outcome = "none" /\ sent = <<>>

Invoke ==
    /\ op = "none" \/ (op # "quit" /\ outcome # "none")
    /\ op' \in {"rx", "tx", "quit"}
    /\ outcome' = "none"
    /\ sent' = <<>>
    /\ UNCHANGED <<listening, waiting, serving, peer, inbox>>

Runs(o) == op = o /\ outcome = "none"

Finish(how) == outcome' = how /\ UNCHANGED op

\* The next client in line, at the beginning of a call that finds nobody in service.
Accept ==
    /\ Runs("rx") \/ Runs("tx")
    /\ serving = NoClient /\ sent = <<>>
    /\ listening /\ waiting # <<>>
    /\ serving' = Head(waiting)
    /\ waiting' = Tail(waiting)
    /\ UNCHANGED <<listening, peer, inbox, op, outcome, sent>>

Receive ==
    /\ Runs("rx") /\ serving # NoClient
    /\ inbox[serving] > 0
    /\ inbox' = [inbox EXCEPT ![serving] = @ - 1]
    /\ Finish("true")
    /\ UNCHANGED <<listening, waiting, serving, peer, sent>>

Send ==
    /\ Runs("tx") /\ serving # NoClient
    /\ sent' = Append(sent, serving)
    /\ \/ Len(sent') < ChunkSize /\ UNCHANGED <<op, outcome>>
       \/ Len(sent') = ChunkSize /\ Finish("true")
    /\ UNCHANGED <<listening, waiting, serving, peer, inbox>>

\* A call that fails gives up the client in service ...
Lose ==
    /\ Runs("rx") \/ Runs("tx")
    /\ serving # NoClient
    /\ serving' = NoClient
    /\ Finish("false")
    /\ UNCHANGED <<listening, waiting, peer, inbox, sent>>

\* ... or has found none; then nothing was sent.
Refuse ==
    /\ Runs("rx") \/ Runs("tx")
    /\ serving = NoClient /\ sent = <<>>
    /\ Finish("false")
    /\ UNCHANGED <<listening, waiting, serving, peer, inbox, sent>>

StopListening ==
    /\ Runs("quit")
    /\ listening' = FALSE
    /\ waiting' = <<>>
    /\ UNCHANGED <<serving, peer, inbox, op, outcome, sent>>

Quit ==
    /\ Runs("quit") /\ ~listening
    /\ serving' = NoClient
    /\ Finish("true")
    /\ UNCHANGED <<listening, waiting, peer, inbox, sent>>

-----------------------------------------------------------------------------
Connect(c) ==
    /\ peer[c] = "new" /\ listening
    /\ peer' = [peer EXCEPT ![c] = "up"]
    /\ waiting' = Append(waiting, c)
    /\ UNCHANGED <<listening, serving, inbox, op, outcome, sent>>

ClientSend(c) ==
    /\ peer[c] = "up" /\ inbox[c] < MaxInbox
    /\ inbox' = [inbox EXCEPT ![c] = @ + 1]
    /\ UNCHANGED <<listening, waiting, serving, peer, op, outcome, sent>>

ClientClose(c) ==
    /\ peer[c] = "up"
    /\ peer' = [peer EXCEPT ![c] = "closed"]
    /\ UNCHANGED <<listening, waiting, serving, inbox, op, outcome, sent>>

Next ==
    \/ Invoke \/ Accept \/ Receive \/ Send \/ Lose \/ Refuse \/ StopListening \/ Quit
    \/ \E c \in Client : Connect(c) \/ ClientSend(c) \/ ClientClose(c)
=============================================================================
