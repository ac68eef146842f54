----------------------------- MODULE Parameters -----------------------------
(***************************************************************************)
(* What main() of janus_executable makes of its command line, through the  *)
(* setters of JanusWrapper: pure functions of the arguments.  Gains are    *)
(* hundredths in the arguments and 1/10000 in the library's parameters,    *)
(* frequencies are in Hz.                                                  *)
(***************************************************************************)
EXTENDS Integers

CONSTANT Arguments   \* command lines: records of fs, center, bandwidth, gain

ASSUME ArgumentsAssumption ==
    Arguments \subseteq [fs : Int, center : Int, bandwidth : Int, gain : Int]

\* "maximum absolute gain for amp output": hundredths.
MAX_ABS_GAIN == 38

DefaultParams == [stream_fs |-> 44100, pset_center_freq |-> 11520,
                  pset_bandwidth |-> 4160, stream_amp |-> 9500]

\* The setters refuse some values without a word and keep what was there.
SetSamplingFrequency(p, fs) == IF fs = 0 THEN p ELSE [p EXCEPT !.stream_fs = fs]
SetCarrierFrequency(p, f) == IF f = 0 THEN p ELSE [p EXCEPT !.pset_center_freq = f]
SetBandwidth(p, bw) ==
    IF bw > 0 /\ bw <= p.pset_center_freq THEN [p EXCEPT !.pset_bandwidth = bw] ELSE p
SetTxGain(p, gain) ==
    IF gain > 0 /\ gain < 10000 THEN [p EXCEPT !.stream_amp = gain] ELSE p

\* Mutant: the gain is taken as it comes.
TxGainAsGiven(gain) == gain

\* main()'s clamp of the gain to [0;1].
TxGain(gain) == IF gain > 100 THEN 100 ELSE IF gain < 0 THEN 0 ELSE gain

\* Mutant: the bandwidth is set before the centre it is compared with.
BandwidthFirst(a) ==
    LET p1 == SetSamplingFrequency(DefaultParams, a.fs)
        p2 == SetBandwidth(p1, a.bandwidth)
        p3 == SetCarrierFrequency(p2, a.center)
    IN  SetTxGain(p3, TxGain(a.gain) * MAX_ABS_GAIN)

\* The setters in main()'s order.
Configured(a) ==
    LET p1 == SetSamplingFrequency(DefaultParams, a.fs)
        p2 == SetCarrierFrequency(p1, a.center)
        p3 == SetBandwidth(p2, a.bandwidth)
    IN  SetTxGain(p3, TxGain(a.gain) * MAX_ABS_GAIN)

-----------------------------------------------------------------------------
\* Of all command lines: the amplitude of a gain above zero, and the band that comes
\* of it.  A bandwidth of zero or less, or wider than the centre in force, is refused
\* (even 5000 Hz around 3000 Hz, all of which lies above zero): the default stays.
AmplitudesWithinLimit ==
    \A a \in Arguments :
        a.gain > 0 => Configured(a).stream_amp <= 100 * MAX_ABS_GAIN
BandsTaken ==
    \A a \in Arguments :
        LET default == DefaultParams
            center == IF a.center = 0 THEN default.pset_center_freq ELSE a.center
            refused_bw == a.bandwidth <= 0 \/ a.bandwidth > center
        IN  /\ Configured(a).pset_center_freq = center
            /\ Configured(a).pset_bandwidth
                 = IF refused_bw THEN default.pset_bandwidth ELSE a.bandwidth
=============================================================================
