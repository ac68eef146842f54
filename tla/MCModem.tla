------------------------------ MODULE MCModem ------------------------------
(***************************************************************************)
(* An instance of Modem for TLC.                                           *)
(***************************************************************************)
EXTENDS Modem

\* The JANUS bands and what lies around them and around every limit.
CommandLines ==
    [fs : {0, 44100, 96000},
     center : {-1, 0, 1, 2600, 3000, 6000, 9700, 11520, 14080, 28000},
     bandwidth : {-1, 0, 1, 2600, 4160, 5000, 6500, 11520, 11521, 28000, 28001},
     gain : {-1, 0, 1, 35, 99, 100, 101, 150, 263, 264, 1000}]
=============================================================================
