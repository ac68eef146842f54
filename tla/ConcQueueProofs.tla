--------------------------- MODULE ConcQueueProofs ---------------------------
(***************************************************************************)
(* Proofs about ConcQueue, for any finite set of threads, any assignment   *)
(* of operations to threads and any number of pushes.                      *)
(***************************************************************************)
EXTENDS ConcQueue, SequenceTheorems, FiniteSetTheorems, TLAPS

-----------------------------------------------------------------------------
(* Sequences of numbers: an element moves from a queue to a log, or joins    *)
(* the end of the queue.                                                     *)

\* Moving the head of r to the end of s leaves s \o r unchanged.
LEMMA MoveHead ==
    ASSUME NEW s \in Seq(Nat), NEW r \in Seq(Nat), r # <<>>
    PROVE  Append(s, Head(r)) \o Tail(r) = s \o r
<1> DEFINE a == Append(s, Head(r))
           left == a \o Tail(r)
           right == s \o r
<1>1. Head(r) \in Nat /\ Tail(r) \in Seq(Nat) /\ Len(Tail(r)) = Len(r) - 1
  BY HeadTailProperties
<1>2. \A i \in 1..Len(Tail(r)) : Tail(r)[i] = r[i+1]
  BY HeadTailProperties
<1>3. Head(r) = r[1]
  OBVIOUS
<1>4. a \in Seq(Nat) /\ Len(a) = Len(s) + 1
      /\ \A i \in 1..Len(a) : a[i] = IF i <= Len(s) THEN s[i] ELSE r[1]
  BY <1>1, <1>3, AppendProperties
<1>5. Len(r) \in Nat \ {0} /\ Len(s) \in Nat
  BY EmptySeq, LenProperties
<1>6. left \in Seq(Nat) /\ Len(left) = Len(a) + Len(Tail(r))
      /\ \A i \in 1..Len(a) + Len(Tail(r)) :
            left[i] = IF i <= Len(a) THEN a[i] ELSE Tail(r)[i - Len(a)]
  BY <1>1, <1>4, ConcatProperties
<1>7. right \in Seq(Nat) /\ Len(right) = Len(s) + Len(r)
      /\ \A i \in 1..Len(s) + Len(r) :
            right[i] = IF i <= Len(s) THEN s[i] ELSE r[i - Len(s)]
  BY ConcatProperties
<1>8. Len(left) = Len(right)
  BY <1>1, <1>4, <1>5, <1>6, <1>7
<1>9. ASSUME NEW i \in 1..Len(left)
      PROVE  left[i] = right[i]
  <2> HIDE DEF a, left, right
  <2>1. CASE i <= Len(s)
    <3>1. Len(a) \in Nat /\ i \in 1..Len(a) /\ i \in 1..Len(a) + Len(Tail(r))
      BY <1>1, <1>4, <1>5, <1>6, <2>1
    <3>2. left[i] = a[i]
      BY <1>6, <3>1
    <3>3. a[i] = s[i]
      BY <1>4, <3>1, <2>1
    <3>4. right[i] = s[i]
      BY <1>5, <1>7, <1>8, <2>1
    <3>5. QED
      BY <3>2, <3>3, <3>4
  <2>2. CASE i = Len(s) + 1
    BY <1>1, <1>4, <1>5, <1>6, <1>7, <1>8, <2>2
  <2>3. CASE i > Len(s) + 1
    <3> DEFINE k == Len(s)  m == Len(r)
    <3>0. k \in Nat /\ m \in Nat /\ i \in Int /\ i > k + 1 /\ i <= k + m
      BY <1>4, <1>5, <1>6, <2>3
    <3>1. i - Len(a) \in 1..Len(Tail(r)) /\ (i - Len(a)) + 1 = i - Len(s)
      <4>1. Len(a) = k + 1 /\ Len(Tail(r)) = m - 1
        BY <1>1, <1>4
      <4>2. QED
        BY <3>0, <4>1
    <3>2. left[i] = Tail(r)[i - Len(a)]
      BY <1>4, <1>5, <1>6, <2>3
    <3>3. Tail(r)[i - Len(a)] = r[i - Len(s)]
      BY <1>2, <3>1
    <3>4. right[i] = r[i - Len(s)]
      BY <1>5, <1>7, <1>8, <2>3
    <3>5. QED
      BY <3>2, <3>3, <3>4
  <2>4. QED
    BY <1>4, <1>5, <1>6, <2>1, <2>2, <2>3
<1>10. QED
  BY <1>6, <1>7, <1>8, <1>9, SeqEqual

\* Appending n + 1 to the sequence of the first n numbers gives the first n + 1.
LEMMA NextNumber ==
    ASSUME NEW s \in Seq(Nat), NEW n \in Nat, s = [i \in 1..n |-> i]
    PROVE  Append(s, n + 1) = [i \in 1..(n + 1) |-> i]
<1>1. Len(s) = n
  BY LenProperties
<1>2. /\ Append(s, n + 1) \in Seq(Nat)
      /\ Len(Append(s, n + 1)) = n + 1
      /\ \A i \in 1..n + 1 : Append(s, n + 1)[i] = IF i <= n THEN s[i] ELSE n + 1
  BY <1>1, AppendProperties
<1>3. Append(s, n + 1) = [i \in 1..(n + 1) |-> Append(s, n + 1)[i]]
  BY <1>2, LenProperties
<1>4. \A i \in 1..(n + 1) : Append(s, n + 1)[i] = i
  BY <1>2
<1>5. QED
  BY <1>3, <1>4

\* Appending to the second sequence appends to the concatenation.
LEMMA JoinEnd ==
    ASSUME NEW s \in Seq(Nat), NEW r \in Seq(Nat), NEW e \in Nat
    PROVE  s \o Append(r, e) = Append(s \o r, e)
<1>1. <<e>> \in Seq(Nat) /\ s \o r \in Seq(Nat)
  BY ConcatProperties
<1>2. Append(r, e) = r \o <<e>> /\ Append(s \o r, e) = (s \o r) \o <<e>>
  BY <1>1, AppendIsConcat
<1>3. QED
  BY <1>1, <1>2, ConcatAssociative

-----------------------------------------------------------------------------
(* The inductive invariant                                                   *)

\* A thread inside a critical section that others can see owns the mutex.
MutexHeld == \A t \in Thread : pc[t] \in {"take", "block"} => mutex_q = t

\* Between queue.front() and queue.pop() the copy stays the front.
FrontCopied ==
    \A t \in Thread : pc[t] = "take" => queue # <<>> /\ element[t] = Head(queue)

\* The inductive invariant behind exactly-once delivery in order.
IInv == TypeOK /\ MutexHeld /\ FrontCopied /\ Fifo

-----------------------------------------------------------------------------
\* The common tail of pop, front and the waits, entered with the mutex free,
\* keeps the invariant.
LEMMA InspectKeeps ==
    ASSUME IInv, mutex_q = NoThread, NEW t \in Thread, Inspect(t),
           UNCHANGED <<queue, exit_flag, call, inserted, removed>>
    PROVE  IInv'
<1> USE ConstantAssumption
        DEF IInv, TypeOK, Location, MutexHeld, FrontCopied, GoTo, Return
<1>1. Fifo'
  BY DEF Fifo
<1>2. \A u \in Thread : pc[u] \notin {"take", "block"}
  OBVIOUS
<1>3. CASE queue = <<>> /\ Return(t, "false") /\ UNCHANGED <<mutex_q, element>>
  BY <1>1, <1>2, <1>3
<1>4. CASE queue # <<>> /\ element' = [element EXCEPT ![t] = Head(queue)]
  <2>1. Head(queue) \in Nat
    BY <1>4, HeadTailProperties
  <2>2. CASE mutex_q' = t /\ GoTo(t, "take") /\ UNCHANGED result
    BY <1>1, <1>2, <1>4, <2>1, <2>2
  <2>3. CASE Return(t, "true") /\ UNCHANGED mutex_q
    BY <1>1, <1>2, <1>4, <2>1, <2>3
  <2>4. QED
    BY <1>4, <2>2, <2>3 DEF Inspect
<1>5. QED
  BY <1>3, <1>4 DEF Inspect

\* The inductive invariant holds initially and every step of Next keeps it.
THEOREM Invariance == Spec => []IInv
<1> USE ConstantAssumption
<1>1. Init => IInv
  <2> SUFFICES ASSUME Init PROVE IInv
    OBVIOUS
  <2>1. <<>> \in Seq(Nat)
    BY EmptySeq
  <2>2. Fifo
    <3>1. <<>> \o <<>> = <<>>
      BY <2>1, ConcatEmptySeq
    <3>2. [i \in 1..0 |-> i] = <<>>
      OBVIOUS
    <3>3. QED
      BY <3>1, <3>2 DEF Init, Fifo
  <2>3. QED
    BY <2>1, <2>2 DEF Init, IInv, TypeOK, Location, MutexHeld, FrontCopied
<1>2. IInv /\ [Next]_vars => IInv'
  <2> SUFFICES ASSUME IInv, [Next]_vars
               PROVE  IInv'
    OBVIOUS
  <2> USE DEF IInv, TypeOK, Location, MutexHeld, FrontCopied, GoTo, Return
  <2>1. ASSUME NEW t \in Thread, NEW o \in Uses[t], Call(t, o)
        PROVE  IInv'
    <3>1. o \in Operation
      BY <2>1
    <3>2. QED
      BY <2>1, <3>1 DEF Call, Fifo
  <2>2. ASSUME NEW t \in Thread, PushInsert(t)
        PROVE  IInv'
    <3>1. queue' \in Seq(Nat) /\ inserted' \in Nat
      BY <2>2 DEF PushInsert
    <3>2. Fifo'
      <4>1. removed \o queue \in Seq(Nat) /\ removed \o queue = [i \in 1..inserted |-> i]
        BY ConcatProperties DEF Fifo
      <4>2. removed \o Append(queue, inserted + 1) = Append(removed \o queue, inserted + 1)
        BY JoinEnd
      <4>3. QED
        BY <2>2, <4>1, <4>2, NextNumber DEF PushInsert, Fifo
    <3>3. QED
      BY <2>2, <3>1, <3>2 DEF PushInsert
  <2>3. ASSUME NEW t \in Thread, PushStore(t)
        PROVE  IInv'
    BY <2>3 DEF PushStore, Fifo
  <2>4. ASSUME NEW t \in Thread, ExitStore(t)
        PROVE  IInv'
    BY <2>4 DEF ExitStore, Fifo
  <2>5. ASSUME NEW t \in Thread, NotifyOne(t)
        PROVE  IInv'
    BY <2>5 DEF NotifyOne, cv_q, Fifo
  <2>6. ASSUME NEW t \in Thread, NotifyAll(t)
        PROVE  IInv'
    BY <2>6 DEF NotifyAll, cv_q, Fifo
  <2>7. ASSUME NEW t \in Thread, Clear(t)
        PROVE  IInv'
    <3>1. queue' \in Seq(Nat) /\ removed' \in Seq(Nat) /\ removed' = removed \o queue
      BY <2>7, EmptySeq, ConcatProperties DEF Clear
    <3>2. Fifo'
      <4>1. queue' = <<>> /\ inserted' = inserted
        BY <2>7 DEF Clear
      <4>2. (removed \o queue) \o <<>> = removed \o queue
        BY ConcatProperties, ConcatEmptySeq
      <4>3. QED
        BY <3>1, <4>1, <4>2 DEF Fifo
    <3>3. QED
      BY <2>7, <3>1, <3>2 DEF Clear
  <2>8. ASSUME NEW t \in Thread, Try(t)
        PROVE  IInv'
    BY <2>8, InspectKeeps DEF Try
  <2>9. ASSUME NEW t \in Thread, WaitCheck(t)
        PROVE  IInv'
    <3>1. CASE Ready /\ Inspect(t)
      BY <2>9, <3>1, InspectKeeps DEF WaitCheck
    <3>2. CASE /\ mutex_q' = t /\ GoTo(t, "block")
               /\ UNCHANGED <<element, result>>
      BY <2>9, <3>2 DEF WaitCheck, Fifo
    <3>3. QED
      BY <2>9, <3>1, <3>2 DEF WaitCheck
  <2>10. ASSUME NEW t \in Thread, ExpiredCheck(t)
         PROVE  IInv'
    BY <2>10, InspectKeeps DEF ExpiredCheck
  <2>11. ASSUME NEW t \in Thread, Take(t)
         PROVE  IInv'
    <3>1. queue # <<>> /\ element[t] = Head(queue)
      BY <2>11 DEF Take
    <3>2. queue' \in Seq(Nat) /\ removed' \in Seq(Nat)
      BY <2>11, <3>1, HeadTailProperties, AppendProperties DEF Take
    <3>3. Fifo'
      <4>1. /\ queue' = Tail(queue) /\ removed' = Append(removed, Head(queue))
            /\ inserted' = inserted
        BY <2>11, <3>1 DEF Take
      <4>2. Append(removed, Head(queue)) \o Tail(queue) = removed \o queue
        BY <3>1, MoveHead
      <4>3. QED
        BY <4>1, <4>2 DEF Fifo
    <3>4. QED
      BY <2>11, <3>2, <3>3 DEF Take
  <2>12. ASSUME NEW t \in Thread, Block(t)
         PROVE  IInv'
    BY <2>12 DEF Block, Fifo
  <2>13. ASSUME NEW t \in Thread, SpuriousWake(t)
         PROVE  IInv'
    BY <2>13 DEF SpuriousWake, Fifo
  <2>14. ASSUME NEW t \in Thread, Timeout(t)
         PROVE  IInv'
    BY <2>14 DEF Timeout, Fifo
  <2>15. CASE UNCHANGED vars
    BY <2>15 DEF vars, Fifo
  <2>16. QED
    BY <2>1, <2>2, <2>3, <2>4, <2>5, <2>6, <2>7, <2>8, <2>9, <2>10, <2>11,
       <2>12, <2>13, <2>14, <2>15 DEF Next, Step
<1>3. QED
  BY <1>1, <1>2, PTL DEF Spec

\* Every variable of the queue keeps its type, and the mutex is only ever owned
\* by a thread inside a critical section.
THEOREM TypeCorrect == Spec => []TypeOK
<1>1. IInv => TypeOK
  BY DEF IInv
<1>2. QED
  BY <1>1, Invariance, PTL

\* Every element is handed out exactly once and in the order of insertion,
\* however many threads push, pop, wait, clear and force exits at a time.
THEOREM FifoCorrect == Spec => []Fifo
<1>1. IInv => Fifo
  BY DEF IInv
<1>2. QED
  BY <1>1, Invariance, PTL

-----------------------------------------------------------------------------
\* A running call has no result yet; only a call that reports an element sets one.
Calls ==
    \A t \in Thread :
        /\ pc[t] # "idle" => result[t] = "none"
        /\ call[t] \notin Removes \cup Peeks => element[t] = 0
        /\ pc[t] = "take" => call[t] \in Removes
        /\ pc[t] = "expired" => call[t] \in Timed

\* Every step keeps what is said of running calls.
THEOREM CallsInvariance == Spec => []Calls
<1>1. Init => Calls
  BY DEF Init, Calls
<1>2. IInv /\ Calls /\ [Next]_vars => Calls'
  <2> SUFFICES ASSUME IInv, Calls, [Next]_vars PROVE Calls'
    OBVIOUS
  <2> USE DEF IInv, TypeOK, Calls, GoTo, Return
  <2>1. CASE UNCHANGED vars
    BY <2>1 DEF vars
  <2>2. ASSUME NEW t \in Thread, NEW o \in Uses[t], Call(t, o) PROVE Calls'
    BY <2>2 DEF Call
  <2>3. ASSUME NEW t \in Thread, SpuriousWake(t) \/ Timeout(t) PROVE Calls'
    BY <2>3 DEF SpuriousWake, Timeout
  <2>4. ASSUME NEW t \in Thread, Step(t) PROVE Calls'
    <3>1. CASE PushInsert(t) \/ PushStore(t) \/ ExitStore(t)
      BY <3>1 DEF PushInsert, PushStore, ExitStore
    <3>2. CASE NotifyOne(t) \/ NotifyAll(t)
      BY <3>2 DEF NotifyOne, NotifyAll, cv_q
    <3>3. CASE Clear(t)
      BY <3>3 DEF Clear
    <3>4. CASE Try(t) \/ ExpiredCheck(t)
      BY <3>4 DEF Try, ExpiredCheck, Inspect, Removes, Peeks, Waits, Timed, Untimed
    <3>5. CASE WaitCheck(t)
      BY <3>5 DEF WaitCheck, Inspect, Removes, Peeks, Waits, Timed, Untimed
    <3>6. CASE Take(t) \/ Block(t)
      BY <3>6 DEF Take, Block
    <3>7. QED
      BY <2>4, <3>1, <3>2, <3>3, <3>4, <3>5, <3>6 DEF Step
  <2>5. QED
    BY <2>1, <2>2, <2>3, <2>4 DEF Next
<1>3. QED
  BY <1>1, <1>2, Invariance, PTL DEF Spec

-----------------------------------------------------------------------------
(* What a program around the queue can count on: nobody else's step touches  *)
(* a call, a remover reports the next number, and the pushes are bounded.    *)

\* The front of the queue follows the last element removed.
LEMMA HeadIsNext ==
    ASSUME IInv
    PROVE  /\ Len(removed) \in Nat /\ Len(removed) <= inserted
           /\ queue # <<>> => Head(queue) = Len(removed) + 1
<1> DEFINE whole == removed \o queue
<1>1. /\ Len(removed) \in Nat /\ Len(queue) \in Nat /\ Len(whole) = Len(removed) + Len(queue)
      /\ \A i \in 1..Len(removed) + Len(queue) :
            whole[i] = IF i <= Len(removed) THEN removed[i] ELSE queue[i - Len(removed)]
  BY ConcatProperties DEF IInv, TypeOK
<1>2. whole = [i \in 1..inserted |-> i] /\ inserted \in Nat
  BY DEF IInv, TypeOK, Fifo
<1>3. Len(whole) = inserted
  BY <1>2
<1>4. ASSUME queue # <<>> PROVE Head(queue) = Len(removed) + 1
  <2>1. Len(queue) >= 1
    BY <1>1, <1>4, EmptySeq DEF IInv, TypeOK
  <2>2. whole[Len(removed) + 1] = queue[1]
    BY <1>1, <2>1
  <2>3. whole[Len(removed) + 1] = Len(removed) + 1
    <3> HIDE DEF whole
    <3>1. Len(removed) + 1 \in 1..inserted
      BY <1>1, <1>2, <1>3, <2>1
    <3>2. QED
      BY <1>2, <3>1
  <2>4. Head(queue) = queue[1]
    BY DEF IInv, TypeOK
  <2>5. QED
    <3> HIDE DEF whole
    <3>1. QED
      BY <2>2, <2>3, <2>4
<1>5. QED
  <2> HIDE DEF whole
  <2>1. QED
    BY <1>1, <1>2, <1>3, <1>4

\* A step of one thread leaves alone what the calls of the others reported, and
\* whether they run.
LEMMA OthersUntouched ==
    ASSUME IInv, NEW t \in Thread, Step(t), NEW u \in Thread \ {t}
    PROVE  /\ element'[u] = element[u] /\ result'[u] = result[u] /\ call' = call
           /\ pc'[u] = "idle" <=> pc[u] = "idle"
<1> USE DEF IInv, TypeOK, GoTo, Return
<1>1. CASE PushInsert(t) \/ PushStore(t) \/ ExitStore(t) \/ Clear(t)
  BY <1>1 DEF PushInsert, PushStore, ExitStore, Clear
<1>2. CASE NotifyOne(t) \/ NotifyAll(t)
  BY <1>2 DEF NotifyOne, NotifyAll, cv_q
<1>3. CASE Try(t) \/ WaitCheck(t) \/ ExpiredCheck(t)
  BY <1>3 DEF Try, WaitCheck, ExpiredCheck, Inspect
<1>4. CASE Take(t) \/ Block(t)
  BY <1>4 DEF Take, Block
<1>5. QED
  BY <1>1, <1>2, <1>3, <1>4 DEF Step

\* The log of what was removed only grows; a remover that has succeeded reports
\* the element it added to it, the next in the order of insertion.
LEMMA RemoverReports ==
    ASSUME IInv, Calls, NEW t \in Thread, Step(t)
    PROVE  /\ Len(removed') \in Nat /\ Len(removed) <= Len(removed')
           /\ call[t] \in Removes /\ result'[t] = "true" =>
                Len(removed') = Len(removed) + 1 /\ element'[t] = Len(removed')
<1> USE DEF IInv, TypeOK, GoTo, Return
<1>1. Len(removed) \in Nat
  BY HeadIsNext
<1>2. CASE PushInsert(t) \/ PushStore(t) \/ ExitStore(t) \/ NotifyAll(t) \/ Block(t)
  <2>1. pc[t] # "idle" /\ UNCHANGED <<result, removed>>
    BY <1>2 DEF PushInsert, PushStore, ExitStore, NotifyAll, Block
  <2>2. QED
    BY <1>1, <2>1 DEF Calls
<1>3. CASE NotifyOne(t)
  BY <1>1, <1>3 DEF NotifyOne, Calls, Removes
<1>4. CASE Clear(t)
  <2>1. Len(removed') = Len(removed) + Len(queue) /\ Len(queue) \in Nat
    BY <1>4, ConcatProperties DEF Clear
  <2>2. QED
    BY <1>1, <1>4, <2>1 DEF Clear, Removes
<1>5. CASE Try(t) \/ WaitCheck(t) \/ ExpiredCheck(t)
  <2>1. removed' = removed /\ pc[t] # "idle"
    BY <1>5 DEF Try, WaitCheck, ExpiredCheck
  <2>2. call[t] \in Removes => result'[t] # "true"
    BY <1>5, <2>1 DEF Try, WaitCheck, ExpiredCheck, Inspect, Calls, Removes, Peeks
  <2>3. QED
    BY <1>1, <2>1, <2>2
<1>6. CASE Take(t)
  <2>1. Len(removed') = Len(removed) + 1
    BY <1>6, AppendProperties DEF Take
  <2>2. element'[t] = Head(queue) /\ queue # <<>>
    BY <1>6 DEF Take, FrontCopied
  <2>3. QED
    BY <1>1, <2>1, <2>2, HeadIsNext
<1>7. QED
  BY <1>2, <1>3, <1>4, <1>5, <1>6 DEF Step

\* The pushes that wait for the mutex.
Entering == {t \in Thread : call[t] = "push" /\ pc[t] = "enter"}

\* Only a call begins a push; every other step lets those that wait go on.
LEMMA PushesCounted ==
    ASSUME TypeOK, NEW t \in Thread, Step(t) \/ SpuriousWake(t) \/ Timeout(t)
    PROVE  PushesBegun' <= PushesBegun /\ PushesBegun' \in Nat
<1> USE DEF TypeOK, GoTo, Return
<1>1. IsFiniteSet(Entering) /\ Cardinality(Entering) \in Nat
  BY ConstantAssumption, FS_Subset, FS_CardinalityType DEF Entering
<1>2. CASE PushInsert(t)
  <2>1. t \in Entering /\ Entering' = Entering \ {t} /\ inserted' = inserted + 1
    BY <1>2 DEF PushInsert, Entering
  <2>2. Cardinality(Entering') = Cardinality(Entering) - 1 /\ Cardinality(Entering') \in Nat
    BY <1>1, <2>1, FS_RemoveElement, FS_CardinalityType
  <2>3. QED
    BY <1>1, <2>1, <2>2 DEF PushesBegun, Entering
<1>3. CASE ~PushInsert(t)
  <2>1. inserted' = inserted /\ Entering' \subseteq Entering
    <3>1. CASE PushStore(t) \/ ExitStore(t) \/ Clear(t)
      BY <3>1 DEF PushStore, ExitStore, Clear, Entering
    <3>2. CASE NotifyOne(t) \/ NotifyAll(t)
      BY <3>2 DEF NotifyOne, NotifyAll, cv_q, Entering
    <3>3. CASE Try(t) \/ WaitCheck(t) \/ ExpiredCheck(t)
      BY <3>3 DEF Try, WaitCheck, ExpiredCheck, Inspect, Entering
    <3>4. CASE Take(t) \/ Block(t) \/ SpuriousWake(t) \/ Timeout(t)
      BY <3>4 DEF Take, Block, SpuriousWake, Timeout, Entering
    <3>5. QED
      BY <1>3, <3>1, <3>2, <3>3, <3>4 DEF Step
  <2>2. Cardinality(Entering') <= Cardinality(Entering) /\ Cardinality(Entering') \in Nat
    BY <1>1, <2>1, FS_Subset, FS_CardinalityType
  <2>3. QED
    BY <1>1, <2>1, <2>2 DEF PushesBegun, Entering
<1>4. QED
  BY <1>2, <1>3

\* No more than MaxPush pushes begin, so no more elements are ever inserted.
THEOREM PushesBounded == Spec => [](PushesBegun <= MaxPush /\ inserted <= MaxPush)
<1> DEFINE Bounded == PushesBegun <= MaxPush
<1>1. Init => Bounded
  <2>1. Init => Entering = {}
    BY DEF Init, Entering
  <2>2. PushesBegun = inserted + Cardinality(Entering)
    BY DEF PushesBegun, Entering
  <2>3. Init => inserted = 0
    BY DEF Init
  <2>4. QED
    BY <2>1, <2>2, <2>3, ConstantAssumption, FS_EmptySet
<1>2. IInv /\ Bounded /\ [Next]_vars => Bounded'
  <2> SUFFICES ASSUME IInv, Bounded, [Next]_vars PROVE Bounded'
    OBVIOUS
  <2>1. IsFiniteSet(Entering) /\ Cardinality(Entering) \in Nat
    BY ConstantAssumption, FS_Subset, FS_CardinalityType DEF Entering
  <2>2. PushesBegun \in Nat /\ MaxPush \in Nat /\ TypeOK
    BY <2>1, ConstantAssumption DEF PushesBegun, Entering, IInv, TypeOK
  <2>3. ASSUME NEW t \in Thread, NEW o \in Uses[t], Call(t, o) PROVE Bounded'
    <3>1. CASE o = "push"
      <4>1. t \notin Entering /\ Entering' = Entering \cup {t} /\ inserted' = inserted
        BY <2>2, <2>3, <3>1 DEF Call, GoTo, Entering, TypeOK
      <4>2. Cardinality(Entering') = Cardinality(Entering) + 1
        BY <2>1, <4>1, FS_AddElement
      <4>3. PushesBegun < MaxPush
        BY <2>3, <3>1 DEF Call
      <4>4. QED
        BY <2>1, <2>2, <4>1, <4>2, <4>3 DEF PushesBegun, Entering, TypeOK
    <3>2. CASE o # "push"
      <4>1. Entering' = Entering /\ inserted' = inserted
        BY <2>2, <2>3, <3>2 DEF Call, GoTo, Entering, TypeOK
      <4>2. QED
        BY <4>1 DEF PushesBegun, Entering
    <3>3. QED
      BY <3>1, <3>2
  <2>4. ASSUME NEW t \in Thread, Step(t) \/ SpuriousWake(t) \/ Timeout(t) PROVE Bounded'
    BY <2>2, <2>4, PushesCounted
  <2>5. CASE UNCHANGED vars
    BY <2>5 DEF vars, PushesBegun
  <2>6. QED
    BY <2>3, <2>4, <2>5 DEF Next
<1>3. IInv /\ Bounded => inserted <= MaxPush
  <2>1. Cardinality(Entering) \in Nat
    BY ConstantAssumption, FS_Subset, FS_CardinalityType DEF Entering
  <2>2. QED
    BY <2>1, ConstantAssumption DEF PushesBegun, Entering, IInv, TypeOK
<1>4. QED
  BY <1>1, <1>2, <1>3, Invariance, PTL DEF Spec

-----------------------------------------------------------------------------
(* The refinement of FifoQueue                                               *)

\* The element that a finished call has reported, as FifoQueue sees it.
Item == [t \in Thread |-> IF result[t] = "true" THEN element[t] ELSE 0]

\* A step of thread t that leaves its result alone, or that begins or ends its call.
LEMMA ItemKept ==
    ASSUME IInv, UNCHANGED <<result, element>> PROVE Item' = Item
  BY DEF Item
LEMMA ItemSet ==
    ASSUME TypeOK, TypeOK', NEW t \in Thread, NEW how,
           result' = [result EXCEPT ![t] = how],
           \A u \in Thread \ {t} : element'[u] = element[u]
    PROVE  Item' = [Item EXCEPT ![t] = IF how = "true" THEN element'[t] ELSE 0]
  BY DEF Item, TypeOK

\* A wait, a try or an expired wait looks at the queue with the mutex free: an
\* atomic look, a failure on an empty queue, or the first half of a removal.
LEMMA InspectRefines ==
    ASSUME IInv, IInv', Calls, NEW t \in Thread, pc[t] # "idle",
           call[t] \in Removes \cup Peeks,
           queue = <<>> /\ call[t] \in Untimed => exit_flag,
           Inspect(t), UNCHANGED <<queue, exit_flag, call, inserted, removed>>
    PROVE  Abstract!Next \/ UNCHANGED Abstract!absVars
<1> USE DEF GoTo, Return
<1>1. result[t] = "none"
  BY DEF Calls
<1>2. CASE queue = <<>> /\ Return(t, "false") /\ UNCHANGED <<mutex_q, element>>
  <2>1. result' = [result EXCEPT ![t] = "false"]
    BY <1>2
  <2>2. Item' = [Item EXCEPT ![t] = IF "false" = "true" THEN element'[t] ELSE 0]
    BY <1>2, <2>1, ItemSet DEF IInv
  <2>3. Abstract!FindEmpty(t)
    BY <1>1, <1>2, <2>2 DEF Abstract!FindEmpty, Abstract!Finish, Item
  <2>4. QED
    BY <2>3 DEF Abstract!Next
<1>3. CASE queue # <<>> /\ element' = [element EXCEPT ![t] = Head(queue)]
  <2>1. CASE mutex_q' = t /\ GoTo(t, "take") /\ UNCHANGED result
    <3>1. Item' = Item
      BY <1>1, <1>3, <2>1 DEF Item, IInv, TypeOK
    <3>2. QED
      BY <2>1, <3>1 DEF Abstract!absVars, Item
  <2>2. CASE call[t] \in Peeks /\ Return(t, "true") /\ UNCHANGED mutex_q
    <3>1. element'[t] = Head(queue) /\ \A u \in Thread \ {t} : element'[u] = element[u]
      BY <1>3 DEF IInv, TypeOK
    <3>2. Item' = [Item EXCEPT ![t] = Head(queue)]
      BY <2>2, <3>1, ItemSet DEF IInv
    <3>3. Abstract!LookAtOldest(t)
      BY <1>1, <1>3, <2>2, <3>2 DEF Abstract!LookAtOldest, Abstract!Finish, Item
    <3>4. QED
      BY <3>3 DEF Abstract!Next
  <2>3. QED
    BY <1>3, <2>1, <2>2 DEF Inspect
<1>4. QED
  BY <1>2, <1>3 DEF Inspect

\* Every step of the queue is one step of the atomic queue, or none.
LEMMA StepRefines ==
    ASSUME IInv, IInv', Calls, [Next]_vars
    PROVE  Abstract!Next \/ UNCHANGED Abstract!absVars
<1> USE DEF GoTo, Return
<1>1. ASSUME NEW t \in Thread, NEW o \in Uses[t], Call(t, o)
      PROVE  Abstract!Next \/ UNCHANGED Abstract!absVars
  <2>1. o \in Operation
    BY ConstantAssumption
  <2>2. Item' = [Item EXCEPT ![t] = 0]
    BY <1>1, ItemSet DEF Call, IInv, TypeOK
  <2>3. Abstract!Invoke(t)
    BY <1>1, <2>1, <2>2 DEF Call, Abstract!Invoke, Item
  <2>4. QED
    BY <2>3 DEF Abstract!Next
<1>2. ASSUME NEW t \in Thread, PushInsert(t)
      PROVE  Abstract!Next \/ UNCHANGED Abstract!absVars
  <2>1. Item' = Item /\ result[t] = "none"
    BY <1>2, ItemKept DEF PushInsert, Calls
  <2>2. queue \in Seq(Nat) /\ inserted + 1 \in Nat
    BY DEF IInv, TypeOK
  <2>3. Len(queue') = Len(queue) + 1 /\ SubSeq(queue', 1, Len(queue)) = queue
    BY <1>2, <2>2, AppendProperties DEF PushInsert
  <2>4. Abstract!Insert(t)
    BY <1>2, <2>1, <2>3 DEF PushInsert, Abstract!Insert, Item
  <2>5. QED
    BY <2>4 DEF Abstract!Next
<1>3. ASSUME NEW t \in Thread, PushStore(t) \/ ExitStore(t)
      PROVE  Abstract!Next \/ UNCHANGED Abstract!absVars
  <2>1. Item' = Item /\ (pc[t] # "idle" => result[t] = "none")
    BY <1>3, ItemKept DEF PushStore, ExitStore, Calls
  <2>2. Abstract!Rearm(t) \/ Abstract!RequestStop(t)
    BY <1>3, <2>1 DEF PushStore, ExitStore, Abstract!Rearm, Abstract!RequestStop, Item
  <2>3. QED
    BY <2>2 DEF Abstract!Next
<1>4. ASSUME NEW t \in Thread, NotifyOne(t)
      PROVE  Abstract!Next \/ UNCHANGED Abstract!absVars
  <2>1. CASE call[t] = "push"
    <3>1. element[t] = 0 /\ result[t] = "none"
      BY <1>4, <2>1 DEF NotifyOne, Calls, Removes, Peeks
    <3>2. result' = [result EXCEPT ![t] = "true"]
      BY <1>4, <2>1 DEF NotifyOne
    <3>3. Item' = [Item EXCEPT ![t] = 0]
      BY <1>4, <3>1, <3>2, ItemSet DEF NotifyOne, IInv
    <3>4. Abstract!Confirm(t)
      BY <1>4, <2>1, <3>1, <3>2, <3>3
      DEF NotifyOne, Abstract!Confirm, Abstract!Finish, Item
    <3>5. QED
      BY <3>4 DEF Abstract!Next
  <2>2. CASE call[t] # "push"
    <3>1. UNCHANGED result
      BY <1>4, <2>2 DEF NotifyOne, IInv, TypeOK
    <3>2. QED
      BY <1>4, <3>1 DEF NotifyOne, Abstract!absVars
  <2>3. QED
    BY <2>1, <2>2
<1>5. ASSUME NEW t \in Thread, NotifyAll(t) \/ Block(t) \/ SpuriousWake(t) \/ Timeout(t)
      PROVE  Abstract!Next \/ UNCHANGED Abstract!absVars
  BY <1>5 DEF NotifyAll, Block, SpuriousWake, Timeout, Abstract!absVars
<1>6. ASSUME NEW t \in Thread, Clear(t)
      PROVE  Abstract!Next \/ UNCHANGED Abstract!absVars
  <2>1. Abstract!Wipe(t)
    BY <1>6 DEF Clear, Abstract!Wipe
  <2>2. QED
    BY <2>1 DEF Abstract!Next
<1>7. ASSUME NEW t \in Thread, Try(t)
      PROVE  Abstract!Next \/ UNCHANGED Abstract!absVars
  BY <1>7, InspectRefines DEF Try, Waits
<1>8. ASSUME NEW t \in Thread, WaitCheck(t)
      PROVE  Abstract!Next \/ UNCHANGED Abstract!absVars
  <2>1. CASE Ready /\ Inspect(t)
    <3>1. call[t] \in Removes \cup Peeks
      BY <1>8 DEF WaitCheck, Waits, Timed, Untimed, Removes, Peeks
    <3>2. QED
      BY <1>8, <2>1, <3>1, InspectRefines DEF WaitCheck, Ready
  <2>2. CASE UNCHANGED <<element, result>>
    BY <1>8, <2>2 DEF WaitCheck, Abstract!absVars
  <2>3. QED
    BY <1>8, <2>1, <2>2 DEF WaitCheck
<1>9. ASSUME NEW t \in Thread, ExpiredCheck(t)
      PROVE  Abstract!Next \/ UNCHANGED Abstract!absVars
  <2>1. call[t] \in Removes \cup Peeks /\ call[t] \notin Untimed
    BY <1>9 DEF ExpiredCheck, Calls, Timed, Untimed, Removes, Peeks
  <2>2. QED
    BY <1>9, <2>1, InspectRefines DEF ExpiredCheck
<1>10. ASSUME NEW t \in Thread, Take(t)
       PROVE  Abstract!Next \/ UNCHANGED Abstract!absVars
  <2>1. /\ queue # <<>> /\ element[t] = Head(queue)
        /\ result[t] = "none" /\ call[t] \in Removes
    BY <1>10 DEF Take, IInv, FrontCopied, Calls
  <2>2. Item' = [Item EXCEPT ![t] = Head(queue)]
    BY <1>10, <2>1, ItemSet DEF Take, IInv
  <2>3. Abstract!TakeOldest(t)
    BY <1>10, <2>1, <2>2 DEF Take, Abstract!TakeOldest, Abstract!Finish, Item
  <2>4. QED
    BY <2>3 DEF Abstract!Next
<1>11. CASE UNCHANGED vars
  BY <1>11 DEF vars, Abstract!absVars
<1>12. QED
  BY <1>1, <1>2, <1>3, <1>4, <1>5, <1>6, <1>7, <1>8, <1>9, <1>10, <1>11 DEF Next, Step

\* The queue implements the atomic FIFO queue, for any threads and operations.
THEOREM ImplementsFifoCorrect == Spec => ImplementsFifo
<1>1. Init => Abstract!Init
  BY DEF Init, Abstract!Init
<1>2. IInv /\ IInv' /\ Calls /\ [Next]_vars => [Abstract!Next]_Abstract!absVars
  BY StepRefines
<1>3. QED
  BY <1>1, <1>2, Invariance, CallsInvariance, PTL DEF Spec, ImplementsFifo, Abstract!Spec
=============================================================================
