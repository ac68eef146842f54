------------------------------ MODULE OwnSound ------------------------------
(***************************************************************************)
(* HalfDuplex with the sound.  Of it one bit is kept: whether it contains  *)
(* what this modem was sending.  The card captures all the time; what      *)
(* rxSamples() has not read yet stays in the card's buffer.                *)
(***************************************************************************)
EXTENDS HalfDuplex

VARIABLES captured,  \* the card's buffer contains own sound
          block      \* the block in rxSamples() contains own sound

soundVars == <<vars, captured, block>>

SoundInit == Init /\ captured = FALSE /\ block = FALSE

\* astream->transmit() plays the samples, and the card hears them.
PlaySound == Play /\ captured' = TRUE /\ UNCHANGED block

\* astream->receive(): own sound in the card's buffer gets into the block, stays
\* behind for the next one, or is cut in two.
ReceiveSound ==
    /\ Receive
    /\ \E left \in BOOLEAN :
         /\ block' \in {captured, captured /\ ~left}
         /\ captured' = (tx = "play" \/ (captured /\ left))

SoundNext ==
    \/ PlaySound \/ ReceiveSound
    \/ /\ \/ Listen \/ NoChunk \/ SwitchOn \/ FlagOn \/ PlayEnd \/ FlagOff
          \/ Sample \/ Test \/ Demodulate \/ Exit \/ DestroySwitch
       /\ UNCHANGED <<captured, block>>

SoundSpec == SoundInit /\ [][SoundNext]_soundVars

\* "the samples received while transmitting are discarded": the demodulator is
\* never given a block that contains this modem's own transmission.
OwnSoundDiscarded == half_duplex /\ rx = "demodulate" => ~block
=============================================================================
