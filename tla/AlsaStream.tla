----------------------------- MODULE AlsaStream -----------------------------
(***************************************************************************)
(* transmit() and receive() of modem_utils/alsastream.cpp over a sound     *)
(* card that takes fewer frames than offered, underruns, is suspended or   *)
(* fails.  The two calls run in two threads on two handles and share no    *)
(* state.  Frames of the data are numbered 1, 2, ...; 0 is silence.        *)
(*                                                                         *)
(* What snd_pcm_* returns is the card's choice: each outcome is an action  *)
(* or a disjunct.                                                          *)
(***************************************************************************)
EXTENDS Integers, Sequences

CONSTANTS MaxData,      \* bound on the frames of one transmission
          period_size,  \* frames of one period
          num_rec,      \* num_rec_symbols, samples asked of the card
          Errno,        \* error numbers of the card, as positive numbers
          SizeMod       \* size_t counts modulo this

ASSUME AlsaAssumption ==
    /\ MaxData \in Nat /\ period_size \in Nat \ {0} /\ num_rec \in Nat \ {0}
    /\ Errno \subseteq Nat \ {0}
    /\ SizeMod \in Nat /\ num_rec < SizeMod /\ \A e \in Errno : e < SizeMod

VARIABLES pc,          \* where transmit() stands
          size,        \* data.size()
          offset,      \* frames sent
          accepted,    \* history: the frames the card took in this call
          rv,          \* what transmit() returned last, -1 for any error
          rx,          \* where receive() stands
          sample_size  \* of the block received last

txVars == <<pc, size, offset, accepted, rv>>
rxVars == <<rx, sample_size>>
vars == <<txVars, rxVars>>

Init ==
    /\ pc = "idle" /\ size = 0 /\ offset = 0 /\ accepted = <<>> /\ rv = 0
    /\ rx = "idle" /\ sample_size = 0

-----------------------------------------------------------------------------
(* transmit()                                                                *)

Transmit(n) ==
    /\ pc = "idle"
    /\ size' = n
    /\ offset' = 0 /\ accepted' = <<>>
    /\ pc' = "write"
    /\ UNCHANGED <<rv, rxVars>>

\* The period offered to the card: frames from offset on, filled with silence.
Period == [i \in 1..period_size |-> IF offset + i <= size THEN offset + i ELSE 0]

\* Mutant: a short write counts as a whole period.
WriteWhole(n) ==
    /\ pc = "write" /\ offset < size
    /\ accepted' = accepted \o SubSeq(Period, 1, n)
    /\ offset' = offset + period_size
    /\ UNCHANGED <<pc, size, rv, rxVars>>

\* Mutant: the loop condition is off by one.
WritePast(n) ==
    /\ pc = "write" /\ offset <= size
    /\ accepted' = accepted \o SubSeq(Period, 1, n)
    /\ offset' = offset + n
    /\ UNCHANGED <<pc, size, rv, rxVars>>

\* snd_pcm_writei() takes n frames of the period.
Write(n) ==
    /\ pc = "write" /\ offset < size
    /\ accepted' = accepted \o SubSeq(Period, 1, n)
    /\ offset' = offset + n
    /\ UNCHANGED <<pc, size, rv, rxVars>>

\* It reports an underrun; the result of the snd_pcm_prepare() is not looked
\* at.  Like any other error, or no frame taken, the period is offered again.
WriteAgain == pc = "write" /\ offset < size /\ UNCHANGED vars

\* It reports a suspend: snd_pcm_resume() works, is to be tried again, or fails.
WriteSuspended ==
    /\ pc = "write" /\ offset < size
    /\ pc' = "resume"
    /\ UNCHANGED <<size, offset, accepted, rv, rxVars>>

Return(value) ==
    /\ pc' = "idle"
    /\ rv' = value
    /\ UNCHANGED <<size, offset, accepted, rxVars>>

\* Resumed, or prepared after a failed resume; while it says try again: waiting.
Resume ==
    /\ pc = "resume"
    /\ \/ pc' = "write" /\ UNCHANGED <<size, offset, accepted, rv, rxVars>>
       \/ Return(-1)

\* Mutant: the end is tested with = instead of >=.
DrainExactly ==
    /\ pc = "write" /\ offset = size
    /\ \/ Return(offset)
       \/ Return(-1)

\* All frames are sent: snd_pcm_drain(), snd_pcm_prepare() and the return.
Drain ==
    /\ pc = "write" /\ offset >= size
    /\ \/ Return(offset)
       \/ Return(-1)

-----------------------------------------------------------------------------
(* receive()                                                                 *)

\* snd_pcm_readi() returns n samples; or it fails, and after snd_pcm_prepare()
\* is called once more, where whatever it returns becomes the sample_size.
Read(n) ==
    /\ rx \in {"idle", "again"}
    /\ rx' = "idle"
    /\ sample_size' = n
    /\ UNCHANGED txVars

ReadFails ==
    \/ rx = "idle" /\ rx' = "again" /\ UNCHANGED <<sample_size, txVars>>
    \/ /\ rx = "again" /\ rx' = "idle"
       /\ \E e \in Errno : sample_size' = SizeMod - e
       /\ UNCHANGED txVars
    \/ rx = "again" /\ rx' = "idle" /\ sample_size' = 0 /\ UNCHANGED txVars

Next ==
    \/ \E n \in 0..MaxData : Transmit(n)
    \/ \E n \in 1..period_size : Write(n)
    \/ WriteAgain \/ WriteSuspended \/ Resume \/ Drain
    \/ \E n \in 1..num_rec : Read(n)
    \/ ReadFails

Spec == Init /\ [][Next]_vars

\* The card goes on taking frames, and a suspend comes to an end.
Transmission == (\E n \in 1..period_size : Write(n)) \/ Drain
CardSpec == Spec /\ SF_vars(Transmission) /\ WF_vars(Resume)

-----------------------------------------------------------------------------
\* Type invariant of the two calls.
TypeOK ==
    /\ pc \in {"idle", "write", "resume"}
    /\ size \in 0..MaxData
    /\ offset \in 0..(MaxData + period_size - 1)
    /\ accepted \in Seq(0..MaxData)
    /\ rv \in {-1} \cup 0..(MaxData + period_size - 1)
    /\ rx \in {"idle", "again"}
    /\ sample_size \in 0..(SizeMod - 1)

\* A transmission that ends without an error has given the card every frame
\* once and in order, and after them nothing but silence, whatever part of a
\* period the card took at a time and however often it underran.  It returns
\* what the card took, the silence of the last period included.
EveryFrameOnce ==
    pc = "idle" /\ rv >= 0 =>
        /\ rv = Len(accepted) /\ rv >= size
        /\ \A i \in 1..Len(accepted) : accepted[i] = IF i <= size THEN i ELSE 0

\* A transmission ends while the card goes on taking frames.
TransmitReturns == pc = "write" ~> pc = "idle"
=============================================================================
