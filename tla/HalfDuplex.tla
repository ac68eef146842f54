----------------------------- MODULE HalfDuplex -----------------------------
(***************************************************************************)
(* txLoop() and rxSamples() of janus_executable/janus-executable.cpp and   *)
(* what they share: the TX/RX switch, the sound card and the flag of the   *)
(* half-duplex option.  The socket only decides whether a chunk is there;  *)
(* OwnSound adds what the blocks of samples contain.                       *)
(***************************************************************************)
CONSTANT half_duplex    \* the option of that name
ASSUME OptionAssumption == half_duplex \in BOOLEAN

VARIABLES exit_tx_rx,   \* the shared flag to terminate the threads
          transmitting, \* the shared flag of the half-duplex option
          txrx_switch,  \* the TX/RX switch: "tx" or "rx"
          refused,      \* the last txrxSwitch() returned false: nobody looks
          tx,           \* where txLoop() stands
          rx            \* where rxSamples() stands

vars == <<exit_tx_rx, transmitting, txrx_switch, refused, tx, rx>>

Init ==
    /\ exit_tx_rx = FALSE
    /\ transmitting = FALSE
    /\ txrx_switch = "rx" /\ refused = FALSE
    /\ tx = "loop" /\ rx = "loop"

Transmitter(from, to) == tx = from /\ tx' = to /\ UNCHANGED <<exit_tx_rx, rx>>
Receiver(from, to) ==
    /\ rx = from /\ rx' = to
    /\ UNCHANGED <<exit_tx_rx, transmitting, txrx_switch, refused, tx>>

\* gpio.txrxSwitch(): sets the switch, or cannot and returns false.
TxrxSwitch(position) ==
    \E taken \in BOOLEAN :
        /\ txrx_switch' = IF taken THEN position ELSE txrx_switch
        /\ refused' = ~taken

-----------------------------------------------------------------------------
(* txLoop()                                                                  *)

\* Mutant: the loop does not look at the exit flag.
ListenForever ==
    /\ Transmitter("loop", "socket")
    /\ UNCHANGED <<transmitting, txrx_switch, refused>>

Listen ==
    /\ Transmitter("loop", IF exit_tx_rx THEN "ended" ELSE "socket")
    /\ UNCHANGED <<transmitting, txrx_switch, refused>>

\* server.rx() returns false ...
NoChunk ==
    /\ Transmitter("socket", "loop")
    /\ UNCHANGED <<transmitting, txrx_switch, refused>>

\* ... or true, and the switch goes to TX.
SwitchOn ==
    /\ Transmitter("socket", "flag")
    /\ TxrxSwitch("tx")
    /\ UNCHANGED <<transmitting>>

\* Mutant: the flag goes up only when the sound is over.
FlagNotYet ==
    /\ Transmitter("flag", "modulate")
    /\ UNCHANGED <<transmitting, txrx_switch, refused>>

\* The flag goes up before the chunk is modulated.
FlagOn ==
    /\ Transmitter("flag", "modulate")
    /\ transmitting' = TRUE
    /\ UNCHANGED <<txrx_switch, refused>>

\* astream->transmit() plays the samples ...
Play ==
    /\ Transmitter("modulate", "play")
    /\ UNCHANGED <<transmitting, txrx_switch, refused>>

\* Mutant: the switch stays on TX.
PlayEndOnTx ==
    /\ Transmitter("play", "unflag")
    /\ UNCHANGED <<transmitting, txrx_switch, refused>>

\* ... and returns when all have been played; the switch goes to RX ...
PlayEnd ==
    /\ Transmitter("play", "unflag")
    /\ TxrxSwitch("rx")
    /\ UNCHANGED <<transmitting>>

\* ... and the flag down.
FlagOff ==
    /\ Transmitter("unflag", "loop")
    /\ transmitting' = FALSE
    /\ UNCHANGED <<txrx_switch, refused>>

-----------------------------------------------------------------------------
(* rxSamples()                                                               *)

Sample == Receiver("loop", IF exit_tx_rx THEN "ended" ELSE "receive")

\* astream->receive() returns a block.
Receive == Receiver("receive", "test")

\* The half-duplex test, made after the block has been captured.
Test == Receiver("test", IF half_duplex /\ transmitting THEN "loop" ELSE "demodulate")

\* janus.demodulate() is given the block.
Demodulate == Receiver("demodulate", "loop")

-----------------------------------------------------------------------------
\* SIGINT or SIGTERM.
Exit ==
    /\ ~exit_tx_rx
    /\ exit_tx_rx' = TRUE
    /\ UNCHANGED <<transmitting, txrx_switch, refused, tx, rx>>

\* ~GPIO() sets the switch back too, at a fatal signal with both loops running.
DestroySwitch ==
    /\ TxrxSwitch("rx")
    /\ UNCHANGED <<exit_tx_rx, transmitting, tx, rx>>

TxLoop == Listen \/ NoChunk \/ SwitchOn \/ FlagOn \/ Play \/ PlayEnd \/ FlagOff
RxSamples == Sample \/ Receive \/ Test \/ Demodulate

Next == TxLoop \/ RxSamples \/ Exit \/ DestroySwitch

Spec == Init /\ [][Next]_vars

-----------------------------------------------------------------------------
\* Type invariant of the two loops and the flags.
TypeOK ==
    /\ exit_tx_rx \in BOOLEAN /\ transmitting \in BOOLEAN
    /\ txrx_switch \in {"tx", "rx"} /\ refused \in BOOLEAN
    /\ tx \in {"loop", "socket", "flag", "modulate", "play", "unflag", "ended"}
    /\ rx \in {"loop", "receive", "test", "demodulate", "ended"}

\* No block passes the half-duplex test while this modem is sending sound: what is
\* demodulated meanwhile was tested before, or slips through around the end.
DeafWhileSending ==
    [][half_duplex /\ tx = "play" => ~(rx = "test" /\ rx' = "demodulate")]_vars

\* The transmission in progress is finished before txLoop() ends: the modem is
\* not left with the flag up, nor with the switch on TX unless the switch itself
\* refused to be set back.
EndsInReception ==
    tx = "ended" => ~transmitting /\ (txrx_switch = "rx" \/ refused)
=============================================================================
