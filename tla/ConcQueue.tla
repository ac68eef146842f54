------------------------------ MODULE ConcQueue ------------------------------
(***************************************************************************)
(* The thread-safe queue modem_utils/concurrent-queue.h.                   *)
(*                                                                         *)
(* A thread runs one call at a time; pc says where it stands in the call.  *)
(* The body of a critical section is one step unless another thread can    *)
(* see its middle, so the mutex has an owner between steps only            *)
(*   "take"   after element = queue.front(), before queue.pop();           *)
(*   "block"  after the predicate of a wait was false, before the thread   *)
(*            is queued on the condition variable (which also unlocks).    *)
(* exit_flag is an atomic that push() and forceExit() write WITHOUT the    *)
(* mutex: each of those writes, and each notify, is a step of its own.     *)
(*                                                                         *)
(* Elements are named by the order in which they are inserted: the code    *)
(* never looks inside one.                                                 *)
(***************************************************************************)
EXTENDS Naturals, Sequences, FiniteSets

CONSTANTS Thread,    \* threads that share the queue
          NoThread,  \* owner of a free mutex
          Uses,      \* Uses[t]: the operations thread t may call
          MaxPush    \* bound on the number of push() calls

Timed   == {"wTPop", "wTFront"}
Untimed == {"wPop", "wFront"}
Waits   == Timed \cup Untimed
Removes == {"pop", "wPop", "wTPop"}
Peeks   == {"front", "wFront", "wTFront"}
Operation == Removes \cup Peeks \cup {"push", "clear", "clearForce", "forceExit"}

ASSUME ConstantAssumption ==
    /\ IsFiniteSet(Thread)
    /\ NoThread \notin Thread
    /\ Uses \in [Thread -> SUBSET Operation]
    /\ MaxPush \in Nat

VARIABLES queue,     \* std::queue<T> queue
          mutex_q,   \* the thread that owns mutex_q, or NoThread
          exit_flag, \* std::atomic<bool> exit_flag
          pc,        \* pc[t]: where t stands
          call,      \* call[t]: the operation t runs, or ran last
          element,   \* element[t]: output parameter of t's call, 0 if unset
          result,    \* result[t]: what t's last call returned
          inserted,  \* history: number of elements inserted so far
          removed    \* history: every element removed, in order of removal

vars == <<queue, mutex_q, exit_flag, pc, call, element, result, inserted, removed>>

Location == {"idle", "enter", "take", "block", "asleep", "woken", "expired",
             "store", "notify"}

\* The threads queued on the condition variable.
cv_q == {t \in Thread : pc[t] = "asleep"}

Init ==
    /\ queue = <<>>
    /\ mutex_q = NoThread
    /\ exit_flag = FALSE
    /\ pc = [t \in Thread |-> "idle"]
    /\ call = [t \in Thread |-> "none"]
    /\ element = [t \in Thread |-> 0]
    /\ result = [t \in Thread |-> "none"]
    /\ inserted = 0
    /\ removed = <<>>

-----------------------------------------------------------------------------
GoTo(t, place) == pc' = [pc EXCEPT ![t] = place]

Return(t, value) ==
    /\ GoTo(t, "idle")
    /\ result' = [result EXCEPT ![t] = value]

PushesBegun ==
    inserted + Cardinality({t \in Thread : call[t] = "push" /\ pc[t] = "enter"})

\* Thread t calls operation o; forceExit() does not take the mutex.
Call(t, o) ==
    /\ pc[t] = "idle"
    /\ o = "push" => PushesBegun < MaxPush
    /\ GoTo(t, IF o = "forceExit" THEN "store" ELSE "enter")
    /\ call' = [call EXCEPT ![t] = o]
    /\ element' = [element EXCEPT ![t] = 0]
    /\ result' = [result EXCEPT ![t] = "none"]
    /\ UNCHANGED <<queue, mutex_q, exit_flag, inserted, removed>>

\* push(): the critical section, which ends with lck.unlock().
PushInsert(t) ==
    /\ pc[t] = "enter" /\ call[t] = "push"
    /\ mutex_q = NoThread
    /\ queue' = Append(queue, inserted + 1)
    /\ inserted' = inserted + 1
    /\ GoTo(t, "store")
    /\ UNCHANGED <<mutex_q, exit_flag, call, element, result, removed>>

\* Mutant: a push that clears the flag and returns without notifying.
PushStoreOnly(t) ==
    /\ pc[t] = "store" /\ call[t] = "push"
    /\ exit_flag' = FALSE
    /\ Return(t, "true")
    /\ UNCHANGED <<queue, mutex_q, call, element, inserted, removed>>

\* push(): exit_flag.store(false), after the unlock.
PushStore(t) ==
    /\ pc[t] = "store" /\ call[t] = "push"
    /\ exit_flag' = FALSE
    /\ GoTo(t, "notify")
    /\ UNCHANGED <<queue, mutex_q, call, element, result, inserted, removed>>

\* forceExit(): exit_flag.store(true), no mutex.
ExitStore(t) ==
    /\ pc[t] = "store" /\ call[t] = "forceExit"
    /\ exit_flag' = TRUE
    /\ GoTo(t, "notify")
    /\ UNCHANGED <<queue, mutex_q, call, element, result, inserted, removed>>

\* Mutant: a push that notifies only when it made an empty queue non-empty.
NotifyIfFirst(t) ==
    /\ pc[t] = "notify" /\ call[t] \in {"push", "clearForce"}
    /\ \/ (cv_q = {} \/ Len(queue) > 1) /\ GoTo(t, "idle")
       \/ Len(queue) <= 1 /\ \E u \in cv_q : pc' = [pc EXCEPT ![t] = "idle", ![u] = "woken"]
    /\ result' = [result EXCEPT ![t] = IF call[t] = "push" THEN "true" ELSE @]
    /\ UNCHANGED <<queue, mutex_q, exit_flag, call, element, inserted, removed>>

\* Mutant: clear(true) raises the flag and notifies nobody.
NotifyForPush(t) ==
    /\ pc[t] = "notify" /\ call[t] \in {"push", "clearForce"}
    /\ \/ (cv_q = {} \/ call[t] = "clearForce") /\ GoTo(t, "idle")
       \/ call[t] = "push" /\ \E u \in cv_q : pc' = [pc EXCEPT ![t] = "idle", ![u] = "woken"]
    /\ result' = [result EXCEPT ![t] = IF call[t] = "push" THEN "true" ELSE @]
    /\ UNCHANGED <<queue, mutex_q, exit_flag, call, element, inserted, removed>>

\* cv_q.notify_one(), the last statement of push() and of clear(true).
NotifyOne(t) ==
    /\ pc[t] = "notify" /\ call[t] \in {"push", "clearForce"}
    /\ \/ cv_q = {} /\ GoTo(t, "idle")
       \/ \E u \in cv_q : pc' = [pc EXCEPT ![t] = "idle", ![u] = "woken"]
    /\ result' = [result EXCEPT ![t] = IF call[t] = "push" THEN "true" ELSE @]
    /\ UNCHANGED <<queue, mutex_q, exit_flag, call, element, inserted, removed>>

\* Mutant: forceExit() with notify_one in the place of notify_all.
NotifyAllAsOne(t) ==
    /\ pc[t] = "notify" /\ call[t] = "forceExit"
    /\ \/ cv_q = {} /\ GoTo(t, "idle")
       \/ \E u \in cv_q : pc' = [pc EXCEPT ![t] = "idle", ![u] = "woken"]
    /\ UNCHANGED <<queue, mutex_q, exit_flag, call, element, result, inserted, removed>>

\* cv_q.notify_all(), the last statement of forceExit().
NotifyAll(t) ==
    /\ pc[t] = "notify" /\ call[t] = "forceExit"
    /\ pc' = [u \in Thread |-> IF u = t THEN "idle"
                               ELSE IF u \in cv_q THEN "woken" ELSE pc[u]]
    /\ UNCHANGED <<queue, mutex_q, exit_flag, call, element, result, inserted, removed>>

\* clear(force_exit): flag, draining loop and unlock; only clear(true) notifies.
Clear(t) ==
    /\ pc[t] = "enter" /\ call[t] \in {"clear", "clearForce"}
    /\ mutex_q = NoThread
    /\ exit_flag' = (exit_flag \/ call[t] = "clearForce")
    /\ queue' = <<>>
    /\ removed' = removed \o queue
    /\ GoTo(t, IF call[t] = "clearForce" THEN "notify" ELSE "idle")
    /\ UNCHANGED <<mutex_q, call, element, result, inserted>>

-----------------------------------------------------------------------------
\* The common tail of pop, front and the four waits, entered with the mutex:
\* return false if empty, else copy the front and, if removing, go on to pop it.
Inspect(t) ==
    \/ /\ queue = <<>>
       /\ Return(t, "false")
       /\ UNCHANGED <<mutex_q, element>>
    \/ /\ queue # <<>>
       /\ element' = [element EXCEPT ![t] = Head(queue)]
       /\ \/ /\ call[t] \in Removes
             /\ mutex_q' = t
             /\ GoTo(t, "take")
             /\ UNCHANGED result
          \/ /\ call[t] \in Peeks
             /\ Return(t, "true")
             /\ UNCHANGED mutex_q

\* pop() and front().
Try(t) ==
    /\ pc[t] = "enter" /\ call[t] \in (Removes \cup Peeks) \ Waits
    /\ mutex_q = NoThread
    /\ Inspect(t)
    /\ UNCHANGED <<queue, exit_flag, call, inserted, removed>>

\* The predicate of cv_q.wait / wait_for, first or again after a wakeup.
Ready == queue # <<>> \/ exit_flag

\* Mutant: the wait has no predicate, so that any wakeup ends it.
WaitCheckOnce(t) ==
    /\ pc[t] \in {"enter", "woken"} /\ call[t] \in Waits
    /\ mutex_q = NoThread
    /\ \/ (Ready \/ pc[t] = "woken") /\ Inspect(t)
       \/ /\ ~Ready /\ pc[t] = "enter"
          /\ mutex_q' = t
          /\ GoTo(t, "block")
          /\ UNCHANGED <<element, result>>
    /\ UNCHANGED <<queue, exit_flag, call, inserted, removed>>

\* Mutant: the mutex is released between the predicate and the sleep.
WaitCheckGap(t) ==
    /\ pc[t] \in {"enter", "woken"} /\ call[t] \in Waits
    /\ mutex_q = NoThread
    /\ \/ Ready /\ Inspect(t)
       \/ /\ ~Ready
          /\ GoTo(t, "block")
          /\ UNCHANGED <<mutex_q, element, result>>
    /\ UNCHANGED <<queue, exit_flag, call, inserted, removed>>

WaitCheck(t) ==
    /\ pc[t] \in {"enter", "woken"} /\ call[t] \in Waits
    /\ mutex_q = NoThread
    /\ \/ Ready /\ Inspect(t)
       \/ /\ ~Ready
          /\ mutex_q' = t
          /\ GoTo(t, "block")
          /\ UNCHANGED <<element, result>>
    /\ UNCHANGED <<queue, exit_flag, call, inserted, removed>>

\* wait_for gave up: the mutex is taken again, and only emptiness counts.
ExpiredCheck(t) ==
    /\ pc[t] = "expired"
    /\ mutex_q = NoThread
    /\ Inspect(t)
    /\ UNCHANGED <<queue, exit_flag, call, inserted, removed>>

\* Mutant: the return forgets to release the mutex.
TakeKeepingLock(t) ==
    /\ pc[t] = "take"
    /\ queue' = Tail(queue)
    /\ removed' = Append(removed, element[t])
    /\ Return(t, "true")
    /\ UNCHANGED <<mutex_q, exit_flag, call, element, inserted>>

\* Mutant: the element is handed out but not taken out.
TakeAsFront(t) ==
    /\ pc[t] = "take"
    /\ removed' = Append(removed, element[t])
    /\ mutex_q' = NoThread
    /\ Return(t, "true")
    /\ UNCHANGED <<queue, exit_flag, call, element, inserted>>

\* queue.pop() and the return that releases the mutex.
Take(t) ==
    /\ pc[t] = "take"
    /\ queue' = Tail(queue)
    /\ removed' = Append(removed, element[t])
    /\ mutex_q' = NoThread
    /\ Return(t, "true")
    /\ UNCHANGED <<exit_flag, call, element, inserted>>

\* The wait joins the condition variable and releases the mutex atomically.
Block(t) ==
    /\ pc[t] = "block"
    /\ mutex_q' = NoThread
    /\ GoTo(t, "asleep")
    /\ UNCHANGED <<queue, exit_flag, call, element, result, inserted, removed>>

\* A condition variable may wake a sleeper without a notification.
SpuriousWake(t) ==
    /\ pc[t] = "asleep"
    /\ GoTo(t, "woken")
    /\ UNCHANGED <<queue, mutex_q, exit_flag, call, element, result, inserted, removed>>

\* Mutant: the timeout counts as one more wakeup, so the wait starts over.
TimeoutAsWakeup(t) ==
    /\ pc[t] = "asleep" /\ call[t] \in Timed
    /\ GoTo(t, "woken")
    /\ UNCHANGED <<queue, mutex_q, exit_flag, call, element, result, inserted, removed>>

\* The timeout t_o of a timed wait elapses.
Timeout(t) ==
    /\ pc[t] = "asleep" /\ call[t] \in Timed
    /\ GoTo(t, "expired")
    /\ UNCHANGED <<queue, mutex_q, exit_flag, call, element, result, inserted, removed>>

-----------------------------------------------------------------------------
\* What the thread does on its own once it has made the call.
Step(t) ==
    \/ PushInsert(t) \/ PushStore(t) \/ ExitStore(t)
    \/ NotifyOne(t) \/ NotifyAll(t) \/ Clear(t)
    \/ Try(t) \/ WaitCheck(t) \/ ExpiredCheck(t) \/ Take(t) \/ Block(t)

Next ==
    \E t \in Thread :
        \/ \E o \in Uses[t] : Call(t, o)
        \/ Step(t)
        \/ SpuriousWake(t)
        \/ Timeout(t)

Spec == Init /\ [][Next]_vars

\* A thread inside a call keeps running.  Calls and spurious wakeups are not fair.
FairSpec == Spec /\ \A t \in Thread : WF_vars(Step(t)) /\ WF_vars(Timeout(t))

\* Besides, the mutex does not starve a contender for ever (an assumption on the
\* scheduler), and wait_for re-arms ONE deadline per call at every sleep, so that
\* sleeping again and again cannot outrun it.
LockFairSpec == Spec /\ \A t \in Thread : SF_vars(Step(t)) /\ SF_vars(Timeout(t))

-----------------------------------------------------------------------------
\* Type invariant of the queue and of the threads inside it.
TypeOK ==
    /\ queue \in Seq(Nat)
    /\ mutex_q \in {t \in Thread : pc[t] \in {"take", "block"}} \cup {NoThread}
    /\ exit_flag \in BOOLEAN
    /\ pc \in [Thread -> Location]
    /\ call \in [Thread -> Operation \cup {"none"}]
    /\ element \in [Thread -> Nat]
    /\ result \in [Thread -> {"none", "true", "false"}]
    /\ inserted \in Nat
    /\ removed \in Seq(Nat)

\* Every element inserted is either still queued or was handed out (to a
\* remover, as the copy its caller got, or dropped by clear) exactly once, in
\* the order of insertion, whatever threads pop and clear concurrently.
Fifo == removed \o queue = [i \in 1..inserted |-> i]

\* Calls that can still consume an element or pass a wakeup on: a push that has
\* not notified yet, and a remover that is awake after a wait or owns the mutex.
Owed  == {t \in Thread : call[t] = "push" /\ pc[t] \in {"store", "notify"}}
Claim == {t \in Thread : pc[t] \in {"woken", "expired", "take"}}

\* While any thread sleeps, every queued element has a notification on its way
\* or an awake remover: push()'s notify_one is never spent on nobody.
WakeupsCoverQueue == cv_q # {} => Len(queue) <= Cardinality(Owed \cup Claim)

\* "Wait and pop data from queue, when available": once no notification is
\* pending and no call is running, no thread sleeps beside queued data.
AtRest == \A t \in Thread : pc[t] \in {"idle", "asleep"}
NoSleeperWithData == AtRest /\ queue # <<>> => cv_q = {}

\* "Force all blocked methods to exit": once the calls that raised the flag
\* have returned, no thread sleeps while exit_flag is set.
NoSleeperAfterExit == AtRest /\ exit_flag => cv_q = {}

\* Queued data does not stay beside a sleeping thread for ever.
DataReachesSleepers == (queue # <<>> /\ cv_q # {}) ~> (queue = <<>> \/ cv_q = {})

\* A timed wait returns, whoever else takes the elements it is woken for.
TimedWaitsReturn ==
    \A t \in Thread : (call[t] \in Timed /\ pc[t] # "idle") ~> (pc[t] = "idle")

\* A thread asleep when forceExit() is about to notify leaves its wait, unless
\* the exit_flag.store(false) of a push() withdraws the request on the way.
ExitFreesSleepers ==
    \A t \in Thread :
        (/\ pc[t] = "asleep" /\ exit_flag
         /\ \E u \in Thread : pc[u] = "notify" /\ call[u] = "forceExit")
            ~> (pc[t] = "idle" \/ ~exit_flag)

\* clear(true) forces one blocked method to exit, so with one sleeper it releases
\* it; of several it leaves all but one asleep with the flag up.
ClearFreesOnlySleeper ==
    \A t \in Thread :
        (/\ cv_q = {t} /\ exit_flag
         /\ \E u \in Thread : pc[u] = "notify" /\ call[u] = "clearForce")
            ~> (pc[t] = "idle" \/ ~exit_flag)

\* The queue implements the atomic FIFO queue; a reported element is visible to
\* the caller when the call returns.
Abstract == INSTANCE FifoQueue WITH
    Removing <- Removes, Looking <- Peeks,
    q <- queue, stop <- exit_flag, op <- call, outcome <- result,
    item <- [t \in Thread |-> IF result[t] = "true" THEN element[t] ELSE 0]
ImplementsFifo == Abstract!Spec
=============================================================================
