---------------------------- MODULE ModemProofs ----------------------------
(***************************************************************************)
(* Proofs about Modem, for every command line and any number of faults:    *)
(* its listener and sampler take no step that HalfDuplex does not have, so *)
(* what is proved there holds of the process; and what exit() leaves       *)
(* behind.  The invariant says, for each place of exit(), what it has      *)
(* already destroyed and who can still be running.                         *)
(***************************************************************************)
EXTENDS Modem, TLAPS

-----------------------------------------------------------------------------
(* HalfDuplex, with the option on or off: what txLoop() has done to the      *)
(* switch and the flag at each place.                                        *)

\* At rest the modem receives; from the modulation to the end of the sound the
\* flag is up.  A switch that refused to be set is the exception.
Phases ==
    /\ tx \in {"loop", "socket", "ended"} =>
         ~transmitting /\ (txrx_switch = "rx" \/ refused)
    /\ tx \in {"modulate", "play"} => transmitting
    /\ tx = "unflag" => txrx_switch = "rx" \/ refused

IInv == TypeOK /\ Phases

\* The phases are kept by every step of either loop and by the signal.
THEOREM Invariance == Spec => []IInv
<1>1. Init => IInv
  BY DEF Init, IInv, TypeOK, Phases
<1>2. IInv /\ [Next]_vars => IInv'
  <2> SUFFICES ASSUME IInv, [Next]_vars PROVE IInv'
    OBVIOUS
  <2> USE DEF IInv, TypeOK, Phases
  <2>1. CASE UNCHANGED vars
    BY <2>1 DEF vars
  <2>2. CASE Exit \/ DestroySwitch
    <3>1. CASE Exit
      BY <3>1 DEF Exit
    <3>2. CASE DestroySwitch
      BY <3>2 DEF DestroySwitch, TxrxSwitch
    <3>3. QED
      BY <2>2, <3>1, <3>2
  <2>3. CASE RxSamples
    BY <2>3 DEF RxSamples, Sample, Receive, Test, Demodulate, Receiver
  <2>4. CASE TxLoop
    <3> USE DEF Transmitter
    <3>1. CASE Listen \/ NoChunk
      BY <3>1 DEF Listen, NoChunk
    <3>2. CASE SwitchOn \/ FlagOn
      BY <3>2 DEF SwitchOn, FlagOn, TxrxSwitch
    <3>3. CASE Play
      BY <3>3 DEF Play
    <3>4. CASE PlayEnd \/ FlagOff
      BY <3>4 DEF PlayEnd, FlagOff, TxrxSwitch
    <3>5. QED
      BY <2>4, <3>1, <3>2, <3>3, <3>4 DEF TxLoop
  <2>5. QED
    BY <2>1, <2>2, <2>3, <2>4 DEF Next
<1>3. QED
  BY <1>1, <1>2, PTL DEF Spec

\* However the signal falls, txLoop() ends with the switch on RX (unless it
\* refused to be set) and the flag down.
THEOREM EndsInReceptionCorrect == Spec => []EndsInReception
<1>1. IInv => EndsInReception
  BY DEF IInv, Phases, EndsInReception
<1>2. QED
  BY <1>1, Invariance, PTL

\* No block passes the half-duplex test while sound is being played.
THEOREM DeafCorrect == Spec => DeafWhileSending
<1>1. IInv /\ [Next]_vars =>
        [half_duplex /\ tx = "play" => ~(rx = "test" /\ rx' = "demodulate")]_vars
  <2> SUFFICES ASSUME IInv, Next, half_duplex, tx = "play", rx = "test",
                      rx' = "demodulate"
               PROVE  FALSE
    BY DEF vars
  <2>1. transmitting
    BY DEF IInv, Phases
  <2>2. CASE TxLoop \/ Exit \/ DestroySwitch
    BY <2>2 DEF TxLoop, Listen, NoChunk, SwitchOn, FlagOn, Play, PlayEnd, FlagOff,
       Transmitter, Exit, DestroySwitch
  <2>3. CASE RxSamples
    BY <2>1, <2>3 DEF RxSamples, Sample, Receive, Test, Demodulate, Receiver
  <2>4. QED
    BY <2>2, <2>3 DEF Next
<1>2. QED
  BY <1>1, Invariance, PTL DEF Spec, DeafWhileSending

-----------------------------------------------------------------------------
(* The process                                                               *)

\* The places of exit() before and after the end of ~GPIO() and ~JanusWrapper().
GpioAlive == {"none", "gpio", "lines"}
JanusAlive == {"janus", "notify", "join"}
JanusGone == {"astream", "server", "rx_buffer", "gone"}

\* Who runs exit(): nobody before the GPIO exists, a thread only if it has been
\* started, main() with success only when it has joined both loops.
Exits ==
    /\ exiter \in {"none", "main", "listener", "sampler"}
    /\ status \in {"none", "success", "failure"}
    /\ dtor \in GpioAlive \cup JanusAlive \cup JanusGone
    /\ exiter = "none" <=> dtor = "none"
    /\ exiter = "none" <=> status = "none"
    /\ main = "start" => exiter = "none"
    /\ exiter \in {"listener", "sampler"} => ListenerStarted
    /\ main \in {"join_sampler", "exit"} => tx = "ended"
    /\ status = "success" => main = "exit" /\ rx = "ended"

\* What exists: all of it from the constructor of the GPIO to the end of its
\* destructor, and the demodulator no longer than its wrapper.
Exists ==
    /\ main = "start" => alive = Object \ {"gpio"}
    /\ main # "start" /\ dtor \in GpioAlive => alive = Object
    /\ dtor \in JanusAlive => Object \ {"gpio"} \subseteq alive
    /\ dtor \in JanusGone => demod \in {"none", "ended"}
    /\ main \in {"start", "init", "configure"} => demod = "none"

\* After ~GPIO() the lines are given back and the amplifier is off.
Released ==
    dtor \in JanusAlive \cup JanusGone =>
        /\ ~gpiochip /\ \A l \in Line : line[l] = "null"
        /\ amp_power = "off" \/ amp_refused

ModemInv == Exits /\ Exists /\ Released

-----------------------------------------------------------------------------
\* Every step of the process is a step of HalfDuplex, or none of its variables
\* change.
LEMMA StepRefines == [ModemNext]_modemVars => [Next]_vars
<1> SUFFICES ASSUME [ModemNext]_modemVars PROVE [Next]_vars
  OBVIOUS
<1>1. CASE MainStep
  BY <1>1 DEF MainStep, ConstructGpio, InitStep, InitFails, Configure, StartListener,
     StartSampler, ReceiverLoop, Quit, JoinListener, JoinSampler, Exiting
<1>2. CASE Destructor
  BY <1>2 DEF Destructor, GpioReceive, GpioRelease, JanusStop, JanusNotify, JanusJoin,
     CloseHandle, CloseCard, CloseServer, FreeQueue, Next
<1>3. CASE Listener
  BY <1>3 DEF Listener, Next, TxLoop
<1>4. CASE Sampler
  BY <1>4 DEF Sampler, Next, RxSamples
<1>5. CASE ListenerCrash \/ SamplerCrash \/ FatalSignal
  BY <1>5 DEF ListenerCrash, SamplerCrash, FatalSignal, Exiting
<1>6. CASE Demodulator \/ SpuriousWake
  BY <1>6 DEF Demodulator, SpuriousWake
<1>7. CASE Terminate
  BY <1>7 DEF Terminate, Next
<1>8. CASE UNCHANGED modemVars
  BY <1>8 DEF modemVars
<1>9. QED
  BY <1>1, <1>2, <1>3, <1>4, <1>5, <1>6, <1>7, <1>8 DEF ModemNext

\* The process, as far as the two loops and their switch go, implements HalfDuplex.
THEOREM ImplementsHalfDuplex == ModemSpec => Spec
<1>1. ModemInit => Init
  BY DEF ModemInit
<1>2. QED
  BY <1>1, StepRefines, PTL DEF ModemSpec, Spec

\* The process leaves the half-duplex loop in reception, whatever failed at
\* start-up and whichever way it ends.
THEOREM ModemEndsInReception == ModemSpec => []EndsInReception
  BY ImplementsHalfDuplex, EndsInReceptionCorrect, PTL

-----------------------------------------------------------------------------
\* The invariant is kept by main(), by the threads and signals, and by exit().
LEMMA InvInit == ModemInit => ModemInv
  BY DEF ModemInit, Init, ModemInv, Exits, Exists, Released, Object, Line,
     GpioAlive, JanusAlive, JanusGone, ListenerStarted

LEMMA InvMain == ModemInv /\ MainStep => ModemInv'
<1> SUFFICES ASSUME ModemInv, MainStep PROVE ModemInv'
  OBVIOUS
<1> USE DEF ModemInv, Exits, Exists, Released, GpioAlive, JanusAlive, JanusGone,
        ListenerStarted, Main, Running, vars, gpioVars, cardVars, demVars, exitVars
<1>1. CASE ConstructGpio
  BY <1>1 DEF ConstructGpio, Object
<1>2. CASE InitStep \/ InitFails
  BY <1>2 DEF InitStep, InitFails
<1>3. CASE Configure \/ StartListener \/ StartSampler
  BY <1>3 DEF Configure, StartListener, StartSampler
<1>4. CASE ReceiverLoop \/ Quit
  BY <1>4 DEF ReceiverLoop, Quit
<1>5. CASE JoinListener
  BY <1>5 DEF JoinListener
<1>6. CASE JoinSampler
  BY <1>6 DEF JoinSampler, Exiting
<1>7. QED
  BY <1>1, <1>2, <1>3, <1>4, <1>5, <1>6 DEF MainStep

LEMMA InvThreads ==
    ModemInv /\ (Listener \/ ListenerCrash \/ Sampler \/ SamplerCrash \/ Demodulator
                 \/ SpuriousWake \/ Terminate \/ FatalSignal) => ModemInv'
<1> SUFFICES ASSUME ModemInv,
                    Listener \/ ListenerCrash \/ Sampler \/ SamplerCrash \/ Demodulator
                    \/ SpuriousWake \/ Terminate \/ FatalSignal
             PROVE  ModemInv'
  OBVIOUS
<1> USE DEF ModemInv, Exits, Exists, Released, GpioAlive, JanusAlive, JanusGone,
        ListenerStarted, SamplerStarted, Running, vars, lifeVars, gpioVars, cardVars,
        demVars, exitVars
<1>1. CASE Listener
  <2>1. UNCHANGED <<lifeVars, rx>> /\ tx # "ended"
    BY <1>1 DEF Listener, Listen, NoChunk, SwitchOn, FlagOn, Play, PlayEnd, FlagOff,
       Transmitter
  <2>2. QED
    BY <2>1
<1>2. CASE Sampler
  <2>1. UNCHANGED <<main, alive, gpioVars, cardVars, active, exitVars, tx>> /\ rx # "ended"
    BY <1>2 DEF Sampler, Sample, Receive, Test, Demodulate, Receiver
  <2>2. demod' = demod \/ (demod = "asleep" /\ demod' = "enter")
    BY <1>2 DEF Sampler, Notified
  <2>3. QED
    BY <2>1, <2>2
<1>3. CASE ListenerCrash \/ SamplerCrash
  BY <1>3 DEF ListenerCrash, SamplerCrash, Exiting
<1>4. CASE FatalSignal
  BY <1>4 DEF FatalSignal, Exiting
<1>5. CASE Demodulator \/ SpuriousWake
  BY <1>5 DEF Demodulator, SpuriousWake
<1>6. CASE Terminate
  BY <1>6 DEF Terminate, Exit
<1>7. QED
  BY <1>1, <1>2, <1>3, <1>4, <1>5, <1>6

LEMMA InvExit == ModemInv /\ Destructor => ModemInv'
<1> SUFFICES ASSUME ModemInv, Destructor PROVE ModemInv'
  OBVIOUS
<1> USE DEF ModemInv, Exits, Exists, Released, GpioAlive, JanusAlive, JanusGone,
        ListenerStarted, Destroy, vars, gpioVars, cardVars, demVars
<1>1. CASE GpioReceive
  <2>1. UNCHANGED <<tx, rx>>
    BY <1>1 DEF GpioReceive, DestroySwitch
  <2>2. QED
    BY <1>1, <2>1 DEF GpioReceive
<1>2. CASE GpioRelease
  BY <1>2 DEF GpioRelease, Object
<1>3. CASE JanusStop \/ JanusNotify
  BY <1>3 DEF JanusStop, JanusNotify, Notified
<1>4. CASE JanusJoin
  BY <1>4 DEF JanusJoin
<1>5. CASE CloseHandle \/ CloseCard \/ CloseServer \/ FreeQueue
  BY <1>5 DEF CloseHandle, CloseCard, CloseServer, FreeQueue, exitVars
<1>6. QED
  BY <1>1, <1>2, <1>3, <1>4, <1>5 DEF Destructor

THEOREM ModemInvariance == ModemSpec => []ModemInv
<1>1. ModemInv /\ [ModemNext]_modemVars => ModemInv'
  <2>1. ModemInv /\ UNCHANGED modemVars => ModemInv'
    BY DEF ModemInv, Exits, Exists, Released, ListenerStarted, modemVars, vars, lifeVars,
       gpioVars, cardVars, demVars, exitVars
  <2>2. QED
    BY <2>1, InvMain, InvThreads, InvExit DEF ModemNext
<1>2. QED
  BY <1>1, InvInit, PTL DEF ModemSpec

-----------------------------------------------------------------------------
(* The types, part by part.  init() has steps left as long as main() is in   *)
(* it, and acquires what it names.                                           *)

MainTypes ==
    /\ main \in {"start", "init", "configure", "listen", "sample", "loop", "wPop",
                  "quit", "join_listener", "join_sampler", "exit"}
    /\ alive \subseteq Object
GpioTypes ==
    /\ gpiochip \in BOOLEAN /\ line \in [Line -> {"null", "unreserved", "held"}]
    /\ gpiochip \/ \A l \in Line : line[l] = "null"
    /\ amp_power \in {"on", "off"} /\ amp_refused \in BOOLEAN
CardTypes ==
    /\ inited \in 0..7
    /\ main \in {"start", "init"} => inited < 7
    /\ handles \subseteq {"handle_tx", "handle_rx", "hw_params", "sw_params"}
ExitTypes ==
    /\ active \in BOOLEAN
    /\ demod \in {"none", "loop", "enter", "block", "asleep", "execute", "push", "ended"}
    /\ exiter \in {"none", "main", "listener", "sampler"}
    /\ status \in {"none", "success", "failure"}
    /\ dtor \in {"none", "gpio", "lines", "janus", "notify", "join", "astream",
                  "server", "rx_buffer", "gone"}

TypeInv == MainTypes /\ GpioTypes /\ CardTypes /\ ExitTypes

LEMMA SevenSteps == Len(InitSteps) = 7
  BY DEF InitSteps

LEMMA StepAcquires ==
    ASSUME NEW step \in DOMAIN Acquired
    PROVE  Acquired[step] \subseteq {"handle_tx", "handle_rx", "hw_params", "sw_params"}
  BY DEF Acquired

LEMMA PartsAreTypes == TypeOK /\ TypeInv => ModemTypeOK
  BY SevenSteps
     DEF TypeInv, MainTypes, GpioTypes, CardTypes, ExitTypes, ModemTypeOK

\* A part keeps its types when none of its variables change.
LEMMA TypesKept ==
    /\ MainTypes /\ UNCHANGED <<main, alive>> => MainTypes'
    /\ GpioTypes /\ UNCHANGED gpioVars => GpioTypes'
    /\ CardTypes /\ UNCHANGED <<main, cardVars>> => CardTypes'
    /\ CardTypes /\ UNCHANGED cardVars /\ main' \notin {"start", "init"} => CardTypes'
    /\ ExitTypes /\ UNCHANGED <<demVars, exitVars>> => ExitTypes'
<1>1. MainTypes /\ UNCHANGED <<main, alive>> => MainTypes'
  BY DEF MainTypes
<1>2. GpioTypes /\ UNCHANGED gpioVars => GpioTypes'
  BY DEF GpioTypes, gpioVars
<1>3. CardTypes /\ UNCHANGED cardVars /\ (main' = main \/ main' \notin {"start", "init"})
        => CardTypes'
  BY DEF CardTypes, cardVars
<1>4. ExitTypes /\ UNCHANGED <<demVars, exitVars>> => ExitTypes'
  BY DEF ExitTypes, demVars, exitVars
<1>5. QED
  BY <1>1, <1>2, <1>3, <1>4

\* A step of main() keeps the types.
LEMMA TypeMain == TypeInv /\ MainStep => TypeInv'
<1> SUFFICES ASSUME TypeInv, MainStep PROVE TypeInv'
  OBVIOUS
<1> USE TypesKept DEF TypeInv, Main
<1>1. CASE ConstructGpio
  <2>1. GpioTypes'
    <3>1. gpiochip' \in BOOLEAN /\ line' \in [Line -> {"null", "unreserved", "held"}]
      BY <1>1 DEF ConstructGpio
    <3>2. gpiochip' \/ \A l \in Line : line'[l] = "null"
      BY <1>1 DEF ConstructGpio
    <3>3. amp_power' \in {"on", "off"} /\ amp_refused' = amp_refused
      BY <1>1 DEF ConstructGpio
    <3>4. QED
      BY <3>1, <3>2, <3>3 DEF GpioTypes
  <2>2. MainTypes'
    BY <1>1 DEF ConstructGpio, MainTypes, Object
  <2>3. CardTypes'
    BY <1>1 DEF ConstructGpio, CardTypes, cardVars
  <2>4. ExitTypes'
    BY <1>1 DEF ConstructGpio
  <2>5. QED
    BY <2>1, <2>2, <2>3, <2>4
<1>2. CASE InitStep
  <2>1. inited < 7 /\ inited' = inited + 1 /\ inited \in 0..7
    BY <1>2 DEF InitStep, CardTypes
  <2>2. handles' \subseteq {"handle_tx", "handle_rx", "hw_params", "sw_params"}
    BY <1>2, StepAcquires DEF InitStep, CardTypes
  <2>3. main' \in {"init", "configure"} /\ (main' = "init" => inited + 1 # 7)
    BY <1>2, SevenSteps DEF InitStep
  <2>4. CardTypes'
    BY <2>1, <2>2, <2>3 DEF CardTypes
  <2>5. MainTypes'
    BY <1>2, <2>3 DEF InitStep, MainTypes
  <2>6. QED
    BY <1>2, <2>4, <2>5 DEF InitStep
<1>3. CASE InitFails
  BY <1>3 DEF InitFails, MainTypes
<1>4. CASE Configure
  BY <1>4 DEF Configure, MainTypes, ExitTypes, exitVars
<1>5. CASE StartListener \/ StartSampler
  BY <1>5 DEF StartListener, StartSampler, MainTypes
<1>6. CASE ReceiverLoop \/ Quit
  BY <1>6 DEF ReceiverLoop, Quit, MainTypes
<1>7. CASE JoinListener
  BY <1>7 DEF JoinListener, MainTypes
<1>8. CASE JoinSampler
  BY <1>8 DEF JoinSampler, Exiting, MainTypes, ExitTypes, demVars
<1>9. QED
  BY <1>1, <1>2, <1>3, <1>4, <1>5, <1>6, <1>7, <1>8 DEF MainStep

\* So does a step of the other threads or a signal ...
LEMMA TypeThreads ==
    TypeInv /\ (Listener \/ ListenerCrash \/ Sampler \/ SamplerCrash \/ Demodulator
                 \/ SpuriousWake \/ Terminate \/ FatalSignal) => TypeInv'
<1> SUFFICES ASSUME TypeInv,
                    Listener \/ ListenerCrash \/ Sampler \/ SamplerCrash \/ Demodulator
                      \/ SpuriousWake \/ Terminate \/ FatalSignal
             PROVE  TypeInv'
  OBVIOUS
<1> USE TypesKept DEF TypeInv
<1>1. CASE Listener \/ Terminate
  BY <1>1 DEF Listener, Terminate, lifeVars
<1>2. CASE ListenerCrash \/ SamplerCrash \/ FatalSignal
  <2>1. ExitTypes'
    BY <1>2 DEF ListenerCrash, SamplerCrash, FatalSignal, Exiting, ExitTypes, demVars
  <2>2. QED
    BY <1>2, <2>1 DEF ListenerCrash, SamplerCrash, FatalSignal, Exiting
<1>3. CASE Sampler
  <2>1. demod' \in {demod, "enter"} /\ UNCHANGED <<active, exitVars>>
    BY <1>3 DEF Sampler, Notified
  <2>2. ExitTypes'
    BY <2>1 DEF ExitTypes, exitVars
  <2>3. QED
    BY <1>3, <2>2 DEF Sampler
<1>4. CASE Demodulator \/ SpuriousWake
  <2>1. ExitTypes'
    BY <1>4 DEF Demodulator, SpuriousWake, ExitTypes, exitVars
  <2>2. QED
    BY <1>4, <2>1 DEF Demodulator, SpuriousWake
<1>5. QED
  BY <1>1, <1>2, <1>3, <1>4

\* ... and of exit().
LEMMA TypeExit == TypeInv /\ Destructor => TypeInv'
<1> SUFFICES ASSUME TypeInv, Destructor PROVE TypeInv'
  OBVIOUS
<1> USE TypesKept DEF TypeInv, Destroy
<1>1. CASE GpioReceive
  BY <1>1 DEF GpioReceive, ExitTypes, demVars
<1>2. CASE GpioRelease
  <2>1. GpioTypes'
    BY <1>2 DEF GpioRelease, GpioTypes
  <2>2. ExitTypes'
    BY <1>2 DEF GpioRelease, ExitTypes, demVars
  <2>3. MainTypes'
    BY <1>2 DEF GpioRelease, MainTypes
  <2>4. QED
    BY <1>2, <2>1, <2>2, <2>3 DEF GpioRelease
<1>3. CASE JanusStop \/ JanusNotify
  <2>1. ExitTypes'
    BY <1>3 DEF JanusStop, JanusNotify, Notified, ExitTypes
  <2>2. QED
    BY <1>3, <2>1 DEF JanusStop, JanusNotify
<1>4. CASE JanusJoin \/ CloseServer \/ FreeQueue
  BY <1>4 DEF JanusJoin, CloseServer, FreeQueue, MainTypes, ExitTypes, demVars
<1>5. CASE CloseHandle
  BY <1>5 DEF CloseHandle, CardTypes
<1>6. CASE CloseCard
  BY <1>6 DEF CloseCard, MainTypes, ExitTypes, demVars
<1>7. QED
  BY <1>1, <1>2, <1>3, <1>4, <1>5, <1>6 DEF Destructor

\* Every variable of the process keeps its type, init() takes at most its seven
\* steps, and no line is held without the chip, whatever fails at start-up.
THEOREM ModemTypeCorrect == ModemSpec => []ModemTypeOK
<1>1. ModemInit => TypeInv
  <2>1. ModemInit => MainTypes
    BY DEF ModemInit, MainTypes, Object
  <2>2. ModemInit => GpioTypes
    BY DEF ModemInit, GpioTypes
  <2>3. ModemInit => CardTypes
    BY DEF ModemInit, CardTypes
  <2>4. ModemInit => ExitTypes
    BY DEF ModemInit, ExitTypes
  <2>5. QED
    BY <2>1, <2>2, <2>3, <2>4 DEF TypeInv
<1>2. TypeInv /\ [ModemNext]_modemVars => TypeInv'
  <2>1. TypeInv /\ UNCHANGED modemVars => TypeInv'
    BY TypesKept DEF TypeInv, modemVars, lifeVars
  <2>2. QED
    BY <2>1, TypeMain, TypeThreads, TypeExit DEF ModemNext
<1>3. IInv /\ TypeInv => ModemTypeOK
  BY PartsAreTypes DEF IInv
<1>4. QED
  BY <1>1, <1>2, <1>3, ImplementsHalfDuplex, Invariance, PTL DEF ModemSpec

-----------------------------------------------------------------------------
\* The modem ends with the amplifier off and in reception, a line that refused
\* and, for the switch, a fatal end excepted.
THEOREM SafeAtEndCorrect == ModemSpec => []SafeAtEnd
<1>1. ModemInv /\ EndsInReception => SafeAtEnd
  BY DEF ModemInv, Exits, Released, JanusAlive, JanusGone, EndsInReception, SafeAtEnd
<1>2. QED
  BY <1>1, ModemInvariance, ModemEndsInReception, PTL

\* On the normal path no thread outlives what it uses; the demodulator never does.
THEOREM UseAliveCorrect == ModemSpec => []UseAlive
<1>1. ModemInv => UseAlive
  <2> SUFFICES ASSUME ModemInv, NEW t \in {"listener", "sampler", "demod"},
                      status # "failure" \/ t = "demod"
               PROVE  Uses(t) \subseteq alive
    BY DEF UseAlive
  <2> USE DEF ModemInv, Exits, Exists, GpioAlive, JanusAlive, JanusGone, Object
  <2>1. CASE t = "demod"
    BY <2>1 DEF Uses
  <2>2. CASE t # "demod" /\ status = "success"
    BY <2>2 DEF Uses
  <2>3. CASE t # "demod" /\ status = "none"
    BY <2>3 DEF Uses, ListenerStarted, SamplerStarted
  <2>4. QED
    BY <2>1, <2>2, <2>3
<1>2. QED
  BY <1>1, ModemInvariance, PTL

-----------------------------------------------------------------------------
\* Of a gain above zero the clamp leaves something between 1 and 100.
LEMMA AmplitudeOfGain ==
    ASSUME NEW p, NEW gain \in Int, gain > 0
    PROVE  SetTxGain(p, TxGain(gain) * MAX_ABS_GAIN)
             = [p EXCEPT !.stream_amp = TxGain(gain) * MAX_ABS_GAIN]
           /\ TxGain(gain) * MAX_ABS_GAIN <= 100 * MAX_ABS_GAIN
<1>1. TxGain(gain) \in 1..100
  BY DEF TxGain
<1>2. QED
  BY <1>1 DEF SetTxGain, MAX_ABS_GAIN

\* No command line with a gain above zero makes the sound louder than the limit.
THEOREM AmplitudeLimitedCorrect == ModemSpec => []AmplitudeLimited
<1>1. AmplitudesWithinLimit
  <2> SUFFICES ASSUME NEW a \in Arguments, a.gain > 0
               PROVE  Configured(a).stream_amp <= 100 * MAX_ABS_GAIN
    BY DEF AmplitudesWithinLimit
  <2> DEFINE p1 == SetSamplingFrequency(DefaultParams, a.fs)
             p2 == SetCarrierFrequency(p1, a.center)
             p3 == SetBandwidth(p2, a.bandwidth)
             amp == TxGain(a.gain) * MAX_ABS_GAIN
  <2>1. a.gain \in Int
    BY ArgumentsAssumption
  <2>2. "stream_amp" \in DOMAIN p3
    BY DEF DefaultParams, SetSamplingFrequency, SetCarrierFrequency, SetBandwidth
  <2>3. Configured(a) = SetTxGain(p3, amp)
    BY DEF Configured
  <2>4. SetTxGain(p3, amp) = [p3 EXCEPT !.stream_amp = amp] /\ amp <= 100 * MAX_ABS_GAIN
    BY <2>1, AmplitudeOfGain
  <2> HIDE DEF p3, amp
  <2>5. QED
    BY <2>2, <2>3, <2>4
<1>2. QED
  BY <1>1, PTL DEF AmplitudeLimited

\* Of every command line: the centre is the one asked for, unless zero, and so is the
\* band, unless it is not above zero or wider than that centre; else the default.
THEOREM BandAsAskedCorrect == ModemSpec => []BandAsAsked
<1>1. BandsTaken
  <2> SUFFICES ASSUME NEW a \in Arguments
               PROVE  LET center == IF a.center = 0 THEN DefaultParams.pset_center_freq
                                    ELSE a.center
                          refused_bw == a.bandwidth <= 0 \/ a.bandwidth > center
                      IN  /\ Configured(a).pset_center_freq = center
                          /\ Configured(a).pset_bandwidth
                               = IF refused_bw THEN DefaultParams.pset_bandwidth
                                 ELSE a.bandwidth
    BY DEF BandsTaken
  <2> DEFINE p1 == SetSamplingFrequency(DefaultParams, a.fs)
             p2 == SetCarrierFrequency(p1, a.center)
             p3 == SetBandwidth(p2, a.bandwidth)
             center == IF a.center = 0 THEN DefaultParams.pset_center_freq ELSE a.center
             refused_bw == a.bandwidth <= 0 \/ a.bandwidth > center
  <2>1. a.bandwidth \in Int /\ a.center \in Int /\ center \in Int
    BY ArgumentsAssumption DEF DefaultParams
  <2>2. /\ {"pset_center_freq", "pset_bandwidth"} \subseteq DOMAIN p1
        /\ p1.pset_center_freq = DefaultParams.pset_center_freq
        /\ p1.pset_bandwidth = DefaultParams.pset_bandwidth
    BY DEF DefaultParams, SetSamplingFrequency
  <2> HIDE DEF p1
  <2>3. p2 = IF a.center = 0 THEN p1 ELSE [p1 EXCEPT !.pset_center_freq = a.center]
    BY DEF SetCarrierFrequency
  <2>4. /\ {"pset_center_freq", "pset_bandwidth"} \subseteq DOMAIN p2
        /\ p2.pset_center_freq = center
        /\ p2.pset_bandwidth = DefaultParams.pset_bandwidth
    BY <2>2, <2>3
  <2> HIDE DEF p2, center
  <2>5. p3 = IF refused_bw THEN p2 ELSE [p2 EXCEPT !.pset_bandwidth = a.bandwidth]
    BY <2>1, <2>4 DEF SetBandwidth
  <2>6. /\ p3.pset_center_freq = center
        /\ p3.pset_bandwidth
             = IF refused_bw THEN DefaultParams.pset_bandwidth ELSE a.bandwidth
    BY <2>4, <2>5
  <2> HIDE DEF p3
  <2>7. Configured(a) = SetTxGain(p3, TxGain(a.gain) * MAX_ABS_GAIN)
    BY DEF Configured, p1, p2, p3
  <2>8. /\ Configured(a).pset_center_freq = p3.pset_center_freq
        /\ Configured(a).pset_bandwidth = p3.pset_bandwidth
    BY <2>7 DEF SetTxGain
  <2>9. QED
    BY <2>6, <2>8 DEF center
<1>2. QED
  BY <1>1, PTL DEF BandAsAsked
=============================================================================
