-------------------------- MODULE AlsaStreamProofs --------------------------
(***************************************************************************)
(* Proofs about AlsaStream: a transmission of any length, over periods of  *)
(* any length, that the card takes in parts of any size.                   *)
(***************************************************************************)
EXTENDS AlsaStream, SequenceTheorems, TLAPS

\* What the card has taken is a prefix of the data followed by silence.
Prefix == \A i \in 1..Len(accepted) : accepted[i] = IF i <= size THEN i ELSE 0

\* The offset counts the frames the card has taken; a return without an error
\* comes after all of them and reports the offset.
Counted ==
    /\ Len(accepted) = offset
    /\ pc = "idle" /\ rv >= 0 => offset >= size /\ rv = offset

\* The inductive invariant behind EveryFrameOnce.
IInv == TypeOK /\ Prefix /\ Counted

\* The part of a period that the card takes continues the data.
LEMMA WriteStep ==
    ASSUME IInv, NEW n \in 1..period_size, Write(n)
    PROVE  IInv'
<1> USE AlsaAssumption
<1> DEFINE part == SubSeq(Period, 1, n)
<1>1. /\ size \in 0..MaxData /\ offset \in Nat /\ offset < size /\ n \in Nat
      /\ accepted \in Seq(0..MaxData) /\ Len(accepted) = offset
      /\ pc = "write"
  BY DEF Write, IInv, TypeOK, Counted
<1>2. \A i \in 1..n : Period[i] = IF offset + i <= size THEN offset + i ELSE 0
  BY <1>1 DEF Period
<1>3. \A i \in 1..n : Period[i] \in 0..MaxData
  BY <1>1, <1>2
<1>4. /\ part \in Seq(0..MaxData) /\ Len(part) = n
      /\ \A i \in 1..n : part[i] = Period[i]
  <2>1. /\ part \in Seq(0..MaxData)
        /\ Len(part) = IF 1 <= n THEN n - 1 + 1 ELSE 0
        /\ \A i \in 1..n - 1 + 1 : part[i] = Period[1 + i - 1]
    BY <1>1, <1>3, SubSeqProperties
  <2>2. n - 1 + 1 = n /\ 1 <= n /\ \A i \in 1..n : 1 + i - 1 = i
    BY <1>1
  <2>3. QED
    BY <2>1, <2>2
<1>5. /\ accepted' = accepted \o part
      /\ offset' = offset + n
      /\ UNCHANGED <<pc, size, rv, rxVars>>
  BY DEF Write
<1> HIDE DEF part
<1>6. /\ accepted' \in Seq(0..MaxData) /\ Len(accepted') = offset + n
      /\ \A i \in 1..offset + n :
            accepted'[i] = IF i <= offset THEN accepted[i] ELSE part[i - offset]
  <2> DEFINE joined == accepted \o part
  <2>1. accepted \in Seq(0..MaxData) /\ part \in Seq(0..MaxData)
    BY <1>1, <1>4
  <2>2. /\ joined \in Seq(0..MaxData) /\ Len(joined) = Len(accepted) + Len(part)
        /\ \A i \in 1..Len(accepted) + Len(part) :
              joined[i] = IF i <= Len(accepted) THEN accepted[i] ELSE part[i - Len(accepted)]
    BY <2>1, ConcatProperties
  <2> HIDE DEF joined
  <2>3. /\ joined \in Seq(0..MaxData) /\ Len(joined) = offset + n
        /\ \A i \in 1..offset + n :
              joined[i] = IF i <= offset THEN accepted[i] ELSE part[i - offset]
    BY <1>1, <1>4, <2>2
  <2>4. accepted' = joined
    BY <1>5 DEF joined
  <2>5. QED
    BY <2>3, <2>4
<1>7. ASSUME NEW i \in 1..offset + n
      PROVE  accepted'[i] = IF i <= size THEN i ELSE 0
  <2>1. CASE i <= offset
    BY <1>1, <1>6, <2>1 DEF IInv, Prefix
  <2>2. CASE i > offset
    <3>1. i - offset \in 1..n /\ offset + (i - offset) = i
      BY <1>1, <2>2
    <3>2. accepted'[i] = Period[i - offset]
      BY <1>1, <1>4, <1>6, <2>2, <3>1
    <3>3. QED
      BY <1>2, <3>1, <3>2
  <2>3. QED
    BY <1>1, <2>1, <2>2
<1>8. TypeOK'
  BY <1>1, <1>5, <1>6 DEF IInv, TypeOK, rxVars
<1>9. Prefix' /\ Counted'
  BY <1>1, <1>5, <1>6, <1>7 DEF Prefix, Counted
<1>10. QED
  BY <1>8, <1>9 DEF IInv

\* The other steps leave what was taken alone, or start a new transmission.
LEMMA OtherStep ==
    ASSUME IInv,
           \/ \E n \in 0..MaxData : Transmit(n)
           \/ WriteAgain \/ WriteSuspended \/ Resume \/ Drain
    PROVE  IInv'
<1> USE AlsaAssumption DEF IInv, TypeOK, Prefix, Counted, rxVars, txVars
<1>1. CASE \E n \in 0..MaxData : Transmit(n)
  BY <1>1, EmptySeq DEF Transmit
<1>2. CASE WriteAgain
  BY <1>2 DEF WriteAgain, vars
<1>3. CASE WriteSuspended
  BY <1>3 DEF WriteSuspended
<1>4. CASE Resume
  BY <1>4 DEF Resume, Return
<1>5. CASE Drain
  BY <1>5 DEF Drain, Return
<1>6. QED
  BY <1>1, <1>2, <1>3, <1>4, <1>5

\* receive() has nothing to do with transmit().
LEMMA ReadStep ==
    ASSUME IInv, (\E n \in 1..num_rec : Read(n)) \/ ReadFails
    PROVE  IInv'
<1> USE AlsaAssumption DEF IInv, TypeOK, Prefix, Counted, txVars
<1>1. CASE \E n \in 1..num_rec : Read(n)
  BY <1>1 DEF Read
<1>2. CASE ReadFails
  BY <1>2 DEF ReadFails
<1>3. QED
  BY <1>1, <1>2

\* The invariant holds in every reachable state.
THEOREM Invariance == Spec => []IInv
<1>1. Init => IInv
  BY AlsaAssumption, EmptySeq DEF Init, IInv, TypeOK, Prefix, Counted
<1>2. IInv /\ [Next]_vars => IInv'
  <2> SUFFICES ASSUME IInv, [Next]_vars PROVE IInv'
    OBVIOUS
  <2>1. CASE UNCHANGED vars
    BY <2>1 DEF IInv, TypeOK, Prefix, Counted, vars, txVars, rxVars
  <2>2. CASE Next
    BY <2>2, WriteStep, OtherStep, ReadStep DEF Next
  <2>3. QED
    BY <2>1, <2>2
<1>3. QED
  BY <1>1, <1>2, PTL DEF Spec

\* The offset never runs further past the data than the silence of one period.
THEOREM TypeCorrect == Spec => []TypeOK
<1>1. IInv => TypeOK
  BY DEF IInv
<1>2. QED
  BY <1>1, Invariance, PTL

\* A transmission without an error gives the card every frame once, in order.
THEOREM EveryFrameOnceCorrect == Spec => []EveryFrameOnce
<1>1. IInv => EveryFrameOnce
  BY DEF IInv, TypeOK, Prefix, Counted, EveryFrameOnce
<1>2. QED
  BY <1>1, Invariance, PTL
=============================================================================
