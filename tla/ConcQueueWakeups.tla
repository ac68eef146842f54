-------------------------- MODULE ConcQueueWakeups --------------------------
(***************************************************************************)
(* Proof that a push's single notify_one is enough, for any number of      *)
(* threads and pushes, as long as nobody waits only to look at the front.  *)
(***************************************************************************)
EXTENDS ConcQueueProofs

\* No thread calls wait_and_front or wait_timeout_and_front.
NoPeekingWaits == \A t \in Thread : Uses[t] \cap {"wFront", "wTFront"} = {}

\* Where a thread stands fits the call it runs.
CallFits ==
    \A t \in Thread :
        /\ call[t] \in Uses[t] \cup {"none"}
        /\ pc[t] \in {"block", "asleep", "woken", "expired"} => call[t] \in Waits

\* A thread about to sleep still owns the mutex, so nothing was inserted since
\* it found the queue empty.
BlockedOnEmpty == \A t \in Thread : pc[t] = "block" => queue = <<>>

\* The calls that account for the queued elements.
Cover == Owed \cup Claim

\* The inductive invariant: the queue never outgrows its pending wakeups.
CoverInv == CallFits /\ BlockedOnEmpty /\ WakeupsCoverQueue

-----------------------------------------------------------------------------
\* The calls counted by Cover can be counted ...
LEMMA CoverFinite == IsFiniteSet(Cover) /\ Cardinality(Cover) \in Nat
<1>1. Cover \subseteq Thread
  BY DEF Cover, Owed, Claim
<1>2. QED
  BY <1>1, ConstantAssumption, FS_Subset, FS_CardinalityType

\* ... before and after a step.
LEMMA CoverFinitePrime == IsFiniteSet(Cover') /\ Cardinality(Cover') \in Nat
<1>1. Cover' \subseteq Thread
  BY DEF Cover, Owed, Claim
<1>2. QED
  BY <1>1, ConstantAssumption, FS_Subset, FS_CardinalityType

\* A step that takes nothing out of Cover, queues nothing and puts no thread to
\* sleep keeps the queue covered.
LEMMA CoverKept ==
    ASSUME IInv, WakeupsCoverQueue, Cover \subseteq Cover',
           Len(queue') <= Len(queue), Len(queue') \in Nat,
           cv_q' # {} => cv_q # {}
    PROVE  WakeupsCoverQueue'
<1>1. Cardinality(Cover) <= Cardinality(Cover')
  BY FS_Subset, CoverFinitePrime
<1>2. Len(queue) \in Nat
  BY DEF IInv, TypeOK
<1>3. QED
  BY <1>1, <1>2, CoverFinite, CoverFinitePrime DEF WakeupsCoverQueue, Cover

\* pop and the removing waits, once past the predicate, leave the queue covered.
LEMMA InspectCovers ==
    ASSUME NoPeekingWaits, IInv, IInv', CoverInv, mutex_q = NoThread,
           NEW t \in Thread, Inspect(t),
           pc[t] \in {"enter", "woken", "expired"},
           pc[t] = "enter" \/ call[t] \in Waits,
           UNCHANGED <<queue, exit_flag, call, inserted, removed>>
    PROVE  CoverInv'
<1> USE DEF CoverInv, IInv, TypeOK
<1>1. CallFits' /\ BlockedOnEmpty'
  BY DEF CallFits, BlockedOnEmpty, Inspect, GoTo, Return
<1>2. WakeupsCoverQueue'
  <2>1. CASE queue = <<>>
    BY <2>1, CoverFinite, FS_CardinalityType, FS_EmptySet, EmptySeq, CoverFinitePrime
       DEF WakeupsCoverQueue, Cover
  <2>2. CASE queue # <<>>
    <3>1. Cover \subseteq Cover'
      <4>1. CASE GoTo(t, "take")
        BY <4>1, <2>2 DEF Cover, Owed, Claim, GoTo
      <4>2. CASE call[t] \in Peeks /\ Return(t, "true")
        <5>1. call[t] \notin Waits
          BY <4>2 DEF NoPeekingWaits, CallFits, Peeks, Waits, Timed, Untimed
        <5>2. t \notin Cover
          BY <5>1 DEF Cover, Owed, Claim
        <5>3. QED
          BY <4>2, <5>2 DEF Cover, Owed, Claim, GoTo, Return
      <4>3. QED
        BY <2>2, <4>1, <4>2 DEF Inspect
    <3>2. cv_q' # {} => cv_q # {}
      BY DEF Inspect, GoTo, Return, cv_q
    <3>3. QED
      BY <3>1, <3>2, CoverKept
  <2>3. QED
    BY <2>1, <2>2
<1>3. QED
  BY <1>1, <1>2

\* Every step of Next keeps the queue covered.
LEMMA CoverStep ==
    ASSUME NoPeekingWaits, IInv, IInv', CoverInv, [Next]_vars
    PROVE  CoverInv'
<1> USE ConstantAssumption DEF CoverInv, IInv, TypeOK
<1> USE DEF GoTo, Return
<1>1. ASSUME NEW t \in Thread, NEW o \in Uses[t], Call(t, o)
      PROVE  CoverInv'
  <2>1. CallFits' /\ BlockedOnEmpty'
    BY <1>1 DEF Call, CallFits, BlockedOnEmpty
  <2>2. Cover \subseteq Cover' /\ (cv_q' # {} => cv_q # {})
    BY <1>1 DEF Call, Cover, Owed, Claim, cv_q
  <2>3. QED
    BY <1>1, <2>1, <2>2, CoverKept DEF Call
<1>2. ASSUME NEW t \in Thread, PushInsert(t)
      PROVE  CoverInv'
  <2>1. CallFits' /\ BlockedOnEmpty'
    BY <1>2 DEF PushInsert, CallFits, BlockedOnEmpty, MutexHeld
  <2>2. t \notin Cover /\ Cover' = Cover \cup {t} /\ cv_q' = cv_q
    BY <1>2 DEF PushInsert, Cover, Owed, Claim, cv_q
  <2>3. Cardinality(Cover') = Cardinality(Cover) + 1
    BY <2>2, CoverFinite, FS_AddElement
  <2>4. Len(queue') = Len(queue) + 1
    BY <1>2, AppendProperties DEF PushInsert
  <2>5. QED
    BY <2>1, <2>2, <2>3, <2>4, CoverFinite DEF WakeupsCoverQueue, Cover
<1>3. ASSUME NEW t \in Thread, PushStore(t) \/ ExitStore(t)
      PROVE  CoverInv'
  <2>1. CallFits' /\ BlockedOnEmpty'
    BY <1>3 DEF PushStore, ExitStore, CallFits, BlockedOnEmpty
  <2>2. Cover \subseteq Cover' /\ (cv_q' # {} => cv_q # {}) /\ queue' = queue
    BY <1>3 DEF PushStore, ExitStore, Cover, Owed, Claim, cv_q
  <2>3. QED
    BY <2>1, <2>2, CoverKept
<1>4. ASSUME NEW t \in Thread, NotifyOne(t)
      PROVE  CoverInv'
  <2>1. CallFits' /\ BlockedOnEmpty'
    <3>1. \A v \in Thread : pc'[v] \in {pc[v], "idle"} \/ (pc'[v] = "woken" /\ v \in cv_q)
      <4>1. CASE pc' = [pc EXCEPT ![t] = "idle"]
        BY <4>1
      <4>2. ASSUME NEW u \in cv_q, pc' = [pc EXCEPT ![t] = "idle", ![u] = "woken"]
            PROVE  \A v \in Thread : pc'[v] \in {pc[v], "idle"} \/ (pc'[v] = "woken" /\ v \in cv_q)
        BY <4>2 DEF cv_q
      <4>3. QED
        BY <1>4, <4>1, <4>2 DEF NotifyOne
    <3>2. call' = call /\ queue' = queue
      BY <1>4 DEF NotifyOne
    <3>3. QED
      BY <3>1, <3>2 DEF CallFits, BlockedOnEmpty, cv_q
  <2>2. CASE cv_q = {} /\ pc' = [pc EXCEPT ![t] = "idle"]
    <3>1. cv_q' = {}
      BY <1>4, <2>2 DEF NotifyOne, cv_q
    <3>2. QED
      BY <2>1, <3>1 DEF WakeupsCoverQueue
  <2>3. ASSUME NEW u \in cv_q, pc' = [pc EXCEPT ![t] = "idle", ![u] = "woken"]
        PROVE  CoverInv'
    <3>1. u \in Thread /\ u # t /\ u \notin Cover /\ cv_q # {}
      BY <1>4, <2>3 DEF NotifyOne, cv_q, Cover, Owed, Claim
    <3>2. Cover' = (Cover \cup {u}) \ {t}
      BY <1>4, <2>3, <3>1 DEF NotifyOne, cv_q, Cover, Owed, Claim
    <3>3. Cardinality(Cover \cup {u}) = Cardinality(Cover) + 1
          /\ IsFiniteSet(Cover \cup {u})
      BY <3>1, CoverFinite, FS_AddElement
    <3>4. Cardinality(Cover') >= Cardinality(Cover)
      <4>1. \/ Cardinality((Cover \cup {u}) \ {t}) = Cardinality(Cover \cup {u})
            \/ Cardinality((Cover \cup {u}) \ {t}) = Cardinality(Cover \cup {u}) - 1
        BY <3>3, FS_RemoveElement
      <4>2. QED
        BY <3>2, <3>3, <4>1, CoverFinite
    <3>5. QED
      BY <1>4, <2>1, <3>1, <3>4, CoverFinite, CoverFinitePrime, LenProperties
         DEF WakeupsCoverQueue, Cover, NotifyOne
  <2>4. QED
    BY <1>4, <2>2, <2>3 DEF NotifyOne
<1>5. ASSUME NEW t \in Thread, NotifyAll(t)
      PROVE  CoverInv'
  <2>1. CallFits' /\ BlockedOnEmpty'
    BY <1>5 DEF NotifyAll, CallFits, BlockedOnEmpty, cv_q
  <2>2. cv_q' = {}
    BY <1>5 DEF NotifyAll, cv_q
  <2>3. QED
    BY <2>1, <2>2 DEF WakeupsCoverQueue
<1>6. ASSUME NEW t \in Thread, Clear(t)
      PROVE  CoverInv'
  <2>1. CallFits' /\ BlockedOnEmpty'
    BY <1>6 DEF Clear, CallFits, BlockedOnEmpty
  <2>2. WakeupsCoverQueue'
    BY <1>6, CoverFinitePrime, EmptySeq DEF Clear, WakeupsCoverQueue, Cover
  <2>3. QED
    BY <2>1, <2>2
<1>7. ASSUME NEW t \in Thread, Try(t)
      PROVE  CoverInv'
  BY <1>7, InspectCovers DEF Try
<1>8. ASSUME NEW t \in Thread, WaitCheck(t)
      PROVE  CoverInv'
  <2>1. CASE Ready /\ Inspect(t)
    BY <1>8, <2>1, InspectCovers DEF WaitCheck
  <2>2. CASE ~Ready /\ GoTo(t, "block")
    <3>1. queue = <<>> /\ queue' = <<>>
      BY <1>8, <2>2 DEF WaitCheck, Ready
    <3>2. CallFits' /\ BlockedOnEmpty'
      BY <1>8, <2>2, <3>1 DEF WaitCheck, CallFits, BlockedOnEmpty
    <3>3. WakeupsCoverQueue'
      BY <3>1, CoverFinitePrime, EmptySeq DEF WakeupsCoverQueue, Cover
    <3>4. QED
      BY <3>2, <3>3
  <2>3. QED
    BY <1>8, <2>1, <2>2 DEF WaitCheck
<1>9. ASSUME NEW t \in Thread, ExpiredCheck(t)
      PROVE  CoverInv'
  BY <1>9, InspectCovers DEF ExpiredCheck, CallFits
<1>10. ASSUME NEW t \in Thread, Take(t)
       PROVE  CoverInv'
  <2>1. CallFits' /\ BlockedOnEmpty'
    BY <1>10 DEF Take, CallFits, BlockedOnEmpty, MutexHeld
  <2>2. t \in Cover /\ Cover' = Cover \ {t} /\ cv_q' = cv_q
    BY <1>10 DEF Take, Cover, Owed, Claim, cv_q
  <2>3. Cardinality(Cover') = Cardinality(Cover) - 1
    BY <2>2, CoverFinite, FS_RemoveElement
  <2>4. Len(queue') = Len(queue) - 1
    BY <1>10, HeadTailProperties DEF Take, FrontCopied
  <2>5. QED
    BY <2>1, <2>2, <2>3, <2>4, CoverFinite DEF WakeupsCoverQueue, Cover
<1>11. ASSUME NEW t \in Thread, Block(t)
       PROVE  CoverInv'
  <2>1. queue = <<>> /\ queue' = <<>>
    BY <1>11 DEF Block, BlockedOnEmpty
  <2>2. CallFits' /\ BlockedOnEmpty'
    BY <1>11, <2>1 DEF Block, CallFits, BlockedOnEmpty
  <2>3. WakeupsCoverQueue'
    BY <2>1, CoverFinitePrime, EmptySeq DEF WakeupsCoverQueue, Cover
  <2>4. QED
    BY <2>2, <2>3
<1>12. ASSUME NEW t \in Thread, SpuriousWake(t) \/ Timeout(t)
       PROVE  CoverInv'
  <2>1. CallFits' /\ BlockedOnEmpty'
    BY <1>12 DEF SpuriousWake, Timeout, CallFits, BlockedOnEmpty
  <2>2. Cover \subseteq Cover' /\ (cv_q' # {} => cv_q # {}) /\ queue' = queue
    BY <1>12 DEF SpuriousWake, Timeout, Cover, Owed, Claim, cv_q
  <2>3. QED
    BY <2>1, <2>2, CoverKept
<1>13. CASE UNCHANGED vars
  <2>1. CallFits' /\ BlockedOnEmpty'
    BY <1>13 DEF vars, CallFits, BlockedOnEmpty
  <2>2. WakeupsCoverQueue'
    BY <1>13 DEF vars, WakeupsCoverQueue, Owed, Claim, cv_q
  <2>3. QED
    BY <2>1, <2>2
<1>14. QED
  BY <1>1, <1>2, <1>3, <1>4, <1>5, <1>6, <1>7, <1>8, <1>9, <1>10, <1>11,
     <1>12, <1>13 DEF Next, Step

\* The inductive invariant holds whatever else the threads call.
THEOREM CoverInvariance ==
    ASSUME NoPeekingWaits
    PROVE  Spec => []CoverInv
<1>1. Init => CoverInv
  <2> SUFFICES ASSUME Init PROVE CoverInv
    OBVIOUS
  <2>1. cv_q = {}
    BY DEF Init, cv_q
  <2>2. QED
    BY <2>1, ConstantAssumption
       DEF Init, CoverInv, CallFits, BlockedOnEmpty, WakeupsCoverQueue
<1>2. IInv /\ IInv' /\ CoverInv /\ [Next]_vars => CoverInv'
  BY CoverStep
<1>3. QED
  BY <1>1, <1>2, Invariance, PTL DEF Spec

\* While any thread sleeps, every queued element has a notification on its way
\* or an awake remover, for any number of threads and pushes, provided that no
\* thread waits only to look: push()'s notify_one is never spent on nobody.
THEOREM WakeupsCovered ==
    ASSUME NoPeekingWaits
    PROVE  Spec => []WakeupsCoverQueue
<1>1. CoverInv => WakeupsCoverQueue
  BY DEF CoverInv
<1>2. QED
  BY <1>1, CoverInvariance, PTL

\* "Wait and pop data from queue, when available", for any number of threads
\* and pushes: with no call running and no notification pending, no thread
\* sleeps beside queued data, provided that no thread waits only to look.
THEOREM NoLostData ==
    ASSUME NoPeekingWaits
    PROVE  Spec => []NoSleeperWithData
<1>1. IInv /\ WakeupsCoverQueue => NoSleeperWithData
  <2> SUFFICES ASSUME IInv, WakeupsCoverQueue, AtRest, queue # <<>>
               PROVE  cv_q = {}
    BY DEF NoSleeperWithData
  <2>1. Owed \cup Claim = {}
    BY DEF AtRest, Owed, Claim
  <2>2. Cardinality(Owed \cup Claim) = 0
    BY <2>1, FS_EmptySet
  <2>3. Len(queue) \in Nat \ {0}
    BY EmptySeq DEF IInv, TypeOK
  <2>4. QED
    BY <2>2, <2>3 DEF WakeupsCoverQueue
<1>2. QED
  BY <1>1, Invariance, WakeupsCovered, PTL
=============================================================================
