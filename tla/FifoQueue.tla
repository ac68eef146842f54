------------------------------ MODULE FifoQueue ------------------------------
(***************************************************************************)
(* What the thread-safe queue promises to its callers: every call takes    *)
(* effect on the contents at one instant, a removing call hands out the    *)
(* oldest element, a looking call shows it, and a call fails only on an    *)
(* empty queue (an untimed waiting call only while a stop is requested).   *)
(* Mutex, condition variable and the steps inside a call do not appear.    *)
(***************************************************************************)
EXTENDS Naturals, Sequences

CONSTANTS Thread,      \* the threads that call the queue
          Operation,   \* the calls they may make
          Removing,    \* calls that take the oldest element out
          Looking,     \* calls that only read the oldest element
          Untimed      \* waiting calls without a timeout

VARIABLES q,           \* the contents, oldest element first
          stop,        \* a stop is requested
          op,          \* op[t]: the call t made last
          outcome,     \* outcome[t]: how it ended, "none" while it runs
          item         \* item[t]: the element it reported, 0 if none

absVars == <<q, stop, op, outcome, item>>

Init ==
    /\ q = <<>>
    /\ stop = FALSE
    /\ op \in [Thread -> {"none"}]
    /\ outcome = [t \in Thread |-> "none"]
    /\ item = [t \in Thread |-> 0]

Finish(t, how, what) ==
    /\ outcome[t] = "none"
    /\ outcome' = [outcome EXCEPT ![t] = how]
    /\ item' = [item EXCEPT ![t] = what]
    /\ UNCHANGED op

Invoke(t) ==
    /\ \E o \in Operation : op' = [op EXCEPT ![t] = o]
    /\ outcome' = [outcome EXCEPT ![t] = "none"]
    /\ item' = [item EXCEPT ![t] = 0]
    /\ UNCHANGED <<q, stop>>

Insert(t) ==
    /\ op[t] = "push" /\ outcome[t] = "none"
    /\ Len(q') = Len(q) + 1
    /\ SubSeq(q', 1, Len(q)) = q
    /\ UNCHANGED <<stop, op, outcome, item>>

Confirm(t) ==
    /\ op[t] = "push"
    /\ Finish(t, "true", 0)
    /\ UNCHANGED <<q, stop>>

TakeOldest(t) ==
    /\ op[t] \in Removing
    /\ q # <<>>
    /\ q' = Tail(q)
    /\ Finish(t, "true", Head(q))
    /\ UNCHANGED stop

LookAtOldest(t) ==
    /\ op[t] \in Looking
    /\ q # <<>>
    /\ Finish(t, "true", Head(q))
    /\ UNCHANGED <<q, stop>>

FindEmpty(t) ==
    /\ op[t] \in Removing \cup Looking
    /\ q = <<>>
    /\ op[t] \in Untimed => stop
    /\ Finish(t, "false", 0)
    /\ UNCHANGED <<q, stop>>

\* Only a push withdraws a stop request; clear may raise one while it empties.
Rearm(t) == /\ op[t] = "push" /\ outcome[t] = "none"
            /\ stop' = FALSE
            /\ UNCHANGED <<q, op, outcome, item>>
RequestStop(t) == /\ op[t] = "forceExit"
                  /\ stop' = TRUE
                  /\ UNCHANGED <<q, op, outcome, item>>
Wipe(t) == /\ op[t] \in {"clear", "clearForce"}
           /\ q' = <<>>
           /\ stop' = (stop \/ op[t] = "clearForce")
           /\ UNCHANGED <<op, outcome, item>>

Next ==
    \E t \in Thread :
        \/ Invoke(t) \/ Insert(t) \/ Confirm(t)
        \/ TakeOldest(t) \/ LookAtOldest(t) \/ FindEmpty(t)
        \/ Rearm(t) \/ RequestStop(t) \/ Wipe(t)

Spec == Init /\ [][Next]_absVars
=============================================================================
