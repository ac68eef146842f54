------------------------------- MODULE Modem -------------------------------
(***************************************************************************)
(* The life of the process janus_executable: the construction of its       *)
(* global objects, main() with its threads, and exit(), which destroys     *)
(* them in the reverse order, with threads still running if a fatal signal *)
(* or a null pointer led to it.  The two loops are those of HalfDuplex,    *)
(* whose steps are the steps of this module's listener and sampler.        *)
(*                                                                         *)
(* The queue's and the socket's insides are ConcQueue's and TcpStream's,   *)
(* the demodulator's count of samples is JanusDemod's: here a wait of      *)
(* theirs ends or does not.                                                *)
(***************************************************************************)
EXTENDS HalfDuplex, Parameters, Sequences, FiniteSets

CONSTANT MaxFaults  \* bound on what fails at start-up: lines, or a step of init()

ASSUME BoundAssumption == MaxFaults \in Nat

VARIABLES main,        \* where main() stands
          alive,       \* the global objects that exist
          gpiochip,    \* the chip is open
          line,        \* line[l]: "null", "unreserved" or "held"
          amp_power,   \* the amplifier's supply: "on" or "off"
          amp_refused, \* the last ampSwitch(false) returned false
          inited,      \* number of steps of AlsaStream::init() that succeeded
          handles,     \* what AlsaStream holds of the sound library
          active,      \* JanusWrapper::active
          demod,       \* where performDemodulation() stands
          exiter,      \* the thread that runs exit(), or "none"
          status,      \* what it was called with
          dtor         \* what exit() does next

gpioVars == <<gpiochip, line, amp_power, amp_refused>>
cardVars == <<inited, handles>>
demVars  == <<active, demod>>
exitVars == <<exiter, status, dtor>>
lifeVars == <<main, alive, gpioVars, cardVars, demVars, exitVars>>
modemVars == <<vars, lifeVars>>

Object == {"rx_buffer", "server", "astream", "janus", "gpio"}
Line == {"txrx", "amp"}

\* AlsaStream::init(), step by step; "start" stands for the calls that follow the
\* last allocation, none of which acquires anything.
InitSteps == <<"open_tx", "open_rx", "hw_malloc", "hw_tx", "hw_rx", "sw_malloc",
               "start">>
Acquired == [open_tx |-> {"handle_tx"}, open_rx |-> {"handle_rx"},
             hw_malloc |-> {"hw_params"}, sw_malloc |-> {"sw_params"}]
Done(step) == \E i \in 1..inited : InitSteps[i] = step
Initialised == inited = Len(InitSteps)

-----------------------------------------------------------------------------
ModemInit ==
    /\ Init
    /\ main = "start" /\ alive = {"rx_buffer", "server", "astream", "janus"}
    /\ gpiochip = FALSE /\ line = [l \in Line |-> "null"]
    /\ amp_power = "off" /\ amp_refused = FALSE
    /\ inited = 0 /\ handles = {}
    /\ active = FALSE /\ demod = "none"
    /\ exiter = "none" /\ status = "none" /\ dtor = "none"

Faults(chip, at) == IF chip THEN Cardinality({l \in Line : at[l] # "held"}) ELSE 1

\* Mutant: the constructor does not return when the chip is missing.
ConstructGpioAnyway ==
    /\ main = "start"
    /\ gpiochip' \in BOOLEAN
    /\ line' \in [Line -> {"null", "unreserved", "held"}]
    /\ Faults(gpiochip', line') <= MaxFaults
    /\ amp_power' = IF line'["amp"] = "held" THEN "on" ELSE "off"
    /\ alive' = alive \cup {"gpio"}
    /\ main' = "init"
    /\ UNCHANGED <<vars, amp_refused, cardVars, demVars, exitVars>>

\* GPIO(): the last global object; main() has not begun.  Reserving the line of
\* the amplifier switches it on; ampSwitch(true) then changes nothing.
ConstructGpio ==
    /\ main = "start"
    /\ gpiochip' \in BOOLEAN
    /\ line' \in [Line -> IF gpiochip' THEN {"null", "unreserved", "held"} ELSE {"null"}]
    /\ Faults(gpiochip', line') <= MaxFaults
    /\ amp_power' = IF line'["amp"] = "held" THEN "on" ELSE "off"
    /\ alive' = alive \cup {"gpio"}
    /\ main' = "init"
    /\ UNCHANGED <<vars, amp_refused, cardVars, demVars, exitVars>>

-----------------------------------------------------------------------------
(* main()                                                                    *)

Running(t) == exiter # t /\ dtor # "gone"
Main(from, to) == Running("main") /\ main = from /\ main' = to

\* A step of astream->init() succeeds ...
InitStep ==
    /\ Main("init", IF inited + 1 = Len(InitSteps) THEN "configure" ELSE "init")
    /\ inited' = inited + 1
    /\ LET step == InitSteps[inited + 1] IN
         handles' = handles \cup (IF step \in DOMAIN Acquired THEN Acquired[step] ELSE {})
    /\ UNCHANGED <<vars, alive, gpioVars, demVars, exitVars>>

\* ... or fails: init() returns the error and main() goes on.
InitFails ==
    /\ Main("init", "configure")
    /\ Faults(gpiochip, line) < MaxFaults
    /\ UNCHANGED <<vars, alive, gpioVars, cardVars, demVars, exitVars>>

\* The setters (Parameters), and janusSetup(), which starts the demodulator.
Configure ==
    /\ Main("configure", "listen")
    /\ active' = TRUE /\ demod' = "loop"
    /\ UNCHANGED <<vars, alive, gpioVars, cardVars, exitVars>>

StartListener ==
    /\ Main("listen", "sample")
    /\ UNCHANGED <<vars, alive, gpioVars, cardVars, demVars, exitVars>>
StartSampler ==
    /\ Main("sample", "loop")
    /\ UNCHANGED <<vars, alive, gpioVars, cardVars, demVars, exitVars>>

\* The loop that waits for received packets and sends them to the user; "wPop" is
\* the wait and the sending, each of which may take for ever.
ReceiverLoop ==
    /\ \/ Main("loop", IF exit_tx_rx THEN "quit" ELSE "wPop")
       \/ Main("wPop", "loop")
    /\ UNCHANGED <<vars, alive, gpioVars, cardVars, demVars, exitVars>>

Quit ==
    /\ Main("quit", "join_listener")
    /\ UNCHANGED <<vars, alive, gpioVars, cardVars, demVars, exitVars>>

JoinListener ==
    /\ tx = "ended"
    /\ Main("join_listener", "join_sampler")
    /\ UNCHANGED <<vars, alive, gpioVars, cardVars, demVars, exitVars>>

Exiting(t, code) ==
    /\ exiter = "none"
    /\ exiter' = t /\ status' = code /\ dtor' = "gpio"
    /\ UNCHANGED <<vars, alive, gpioVars, cardVars, demVars>>

\* Mutant: the sampler is not joined.
ExitAtOnce == Main("join_sampler", "exit") /\ Exiting("main", "success")

\* rx_samples_thread.join() and exit(EXIT_SUCCESS).
JoinSampler ==
    /\ rx = "ended"
    /\ Main("join_sampler", "exit")
    /\ Exiting("main", "success")

-----------------------------------------------------------------------------
(* The threads                                                               *)

ListenerStarted == main \notin {"start", "init", "configure", "listen"}
SamplerStarted == ListenerStarted /\ main # "sample"

\* txLoop(): the switch obeys only if its line is held; the sound is played to
\* its end only on a handle whose parameters have been set.
Listener ==
    /\ ListenerStarted /\ Running("listener")
    /\ \/ Listen \/ NoChunk \/ FlagOn \/ FlagOff
       \/ SwitchOn /\ (refused' \/ line["txrx"] = "held")
       \/ Play /\ Done("hw_malloc")
       \/ PlayEnd /\ Done("hw_tx") /\ (refused' \/ line["txrx"] = "held")
    /\ UNCHANGED lifeVars

\* modulate() failed and the null samples are dereferenced, or hw_params is null.
ListenerCrash ==
    /\ ListenerStarted /\ tx = "modulate"
    /\ Exiting("listener", "failure") /\ UNCHANGED main

Notified == IF demod = "asleep" THEN "enter" ELSE demod

\* rxSamples(): demodulate() needs mutex_demod and may notify the demodulator.
Sampler ==
    /\ SamplerStarted /\ Running("sampler")
    /\ \/ (Sample \/ Test \/ (Receive /\ Done("open_rx"))) /\ UNCHANGED demod
       \/ Demodulate /\ demod \notin {"block", "execute"} /\ demod' \in {demod, Notified}
    /\ UNCHANGED <<main, alive, gpioVars, cardVars, active, exitVars>>

\* receive() on the null handle of a device that could not be opened.
SamplerCrash ==
    /\ SamplerStarted /\ rx = "receive" /\ ~Done("open_rx")
    /\ Exiting("sampler", "failure") /\ UNCHANGED main

\* performDemodulation(): the test of the samples counted is left open.
Demodulator ==
    /\ dtor # "gone"
    /\ \/ demod = "loop" /\ demod' = IF active THEN "enter" ELSE "ended"
       \/ /\ demod = "enter"
          /\ demod' \in {"execute"} \cup (IF active THEN {"block"} ELSE {})
       \/ demod = "block" /\ demod' = "asleep"
       \/ demod = "execute" /\ demod' \in {"loop", "push"}
       \/ demod = "push" /\ demod' = "loop"
    /\ UNCHANGED <<vars, main, alive, gpioVars, cardVars, active, exitVars>>

SpuriousWake ==
    /\ dtor # "gone"
    /\ demod = "asleep" /\ demod' = "enter"
    /\ UNCHANGED <<vars, main, alive, gpioVars, cardVars, active, exitVars>>

\* SIGINT or SIGTERM sets the flag; ConcQueue says whom forceExit() releases.
Terminate ==
    /\ main # "start" /\ dtor # "gone"
    /\ Exit
    /\ UNCHANGED lifeVars

\* The other signals: main() runs exit(EXIT_FAILURE) wherever it stands.
FatalSignal ==
    /\ main # "start"
    /\ Exiting("main", "failure") /\ UNCHANGED main

-----------------------------------------------------------------------------
(* exit(): the destructors, in the reverse order of construction             *)

Destroy(from, to) == dtor = from /\ dtor' = to /\ UNCHANGED <<exiter, status>>

\* ~GPIO() sets the switch to RX ...
GpioReceive ==
    /\ Destroy("gpio", "lines")
    /\ IF line["txrx"] = "null" THEN UNCHANGED vars
       ELSE DestroySwitch /\ (refused' \/ line["txrx"] = "held")
    /\ UNCHANGED <<main, alive, gpioVars, cardVars, demVars>>

\* Mutant: the lines and the chip are given back with the amplifier on.
GpioReleaseOnly ==
    /\ Destroy("lines", "janus")
    /\ gpiochip' = FALSE /\ line' = [l \in Line |-> "null"]
    /\ alive' = alive \ {"gpio"}
    /\ UNCHANGED <<vars, main, amp_power, amp_refused, cardVars, demVars>>

\* ... releases its line, switches the amplifier off (a line that is not held
\* refuses), releases that line and closes the chip.
GpioRelease ==
    /\ Destroy("lines", "janus")
    /\ \E taken \in BOOLEAN :
         /\ taken => line["amp"] = "held"
         /\ amp_power' = IF taken THEN "off" ELSE amp_power
         /\ amp_refused' = ~taken
    /\ gpiochip' = FALSE /\ line' = [l \in Line |-> "null"]
    /\ alive' = alive \ {"gpio"}
    /\ UNCHANGED <<vars, main, cardVars, demVars>>

\* ~JanusWrapper(): the flag, the notification and the join.
JanusStop ==
    /\ Destroy("janus", "notify")
    /\ active' = FALSE
    /\ UNCHANGED <<vars, main, alive, gpioVars, cardVars, demod>>

JanusNotify ==
    /\ Destroy("notify", "join")
    /\ demod' = Notified
    /\ UNCHANGED <<vars, main, alive, gpioVars, cardVars, active>>

JanusJoin ==
    /\ demod \in {"none", "ended"}
    /\ Destroy("join", "astream")
    /\ alive' = alive \ {"janus"}
    /\ UNCHANGED <<vars, main, gpioVars, cardVars, demVars>>

\* ~AlsaStream() frees or closes, one after the other, what is not null ...
ReleaseOrder == <<"hw_params", "sw_params", "handle_tx", "handle_rx">>

CloseHandle ==
    /\ dtor = "astream"
    /\ \E i \in 1..4 :
         /\ ReleaseOrder[i] \in handles
         /\ \A j \in 1..(i - 1) : ReleaseOrder[j] \notin handles
         /\ handles' = handles \ {ReleaseOrder[i]}
    /\ UNCHANGED <<vars, main, alive, gpioVars, inited, demVars, exitVars>>

\* ... and is done when all are null.
CloseCard ==
    /\ Destroy("astream", "server")
    /\ handles = {}
    /\ alive' = alive \ {"astream"}
    /\ UNCHANGED <<vars, main, gpioVars, cardVars, demVars>>

\* ~TcpStream() calls quit() once more.
CloseServer ==
    /\ Destroy("server", "rx_buffer")
    /\ alive' = alive \ {"server"}
    /\ UNCHANGED <<vars, main, gpioVars, cardVars, demVars>>

\* ~ConcQueue(), and the process is gone.
FreeQueue ==
    /\ Destroy("rx_buffer", "gone")
    /\ alive' = alive \ {"rx_buffer"}
    /\ UNCHANGED <<vars, main, gpioVars, cardVars, demVars>>

-----------------------------------------------------------------------------
MainStep == ConstructGpio \/ InitStep \/ InitFails \/ Configure \/ StartListener
            \/ StartSampler \/ ReceiverLoop \/ Quit \/ JoinListener \/ JoinSampler
Destructor == GpioReceive \/ GpioRelease \/ JanusStop \/ JanusNotify \/ JanusJoin
              \/ CloseHandle \/ CloseCard \/ CloseServer \/ FreeQueue

ModemNext ==
    \/ MainStep \/ Destructor
    \/ Listener \/ ListenerCrash \/ Sampler \/ SamplerCrash
    \/ Demodulator \/ SpuriousWake
    \/ Terminate \/ FatalSignal

ModemSpec == ModemInit /\ [][ModemNext]_modemVars

\* Destroying a condition variable that main() waits on is undefined: it may
\* return, or wait for main() for ever.
WaitsForMain == dtor = "rx_buffer" /\ main = "wPop"

\* The threads run, and the sampler, which needs mutex_demod, is not starved.  No
\* wait for a packet, the network or the end of the sound is assumed to end, stop
\* or no stop, and nothing is assumed of signals and crashes.
ModemFairSpec ==
    /\ ModemSpec
    /\ WF_modemVars(MainStep /\ main # "wPop")
    /\ WF_modemVars(Listener /\ tx \notin {"socket", "play"})
    /\ SF_modemVars(Sampler)
    /\ WF_modemVars(Demodulator)
    /\ SF_modemVars(Destructor /\ ~WaitsForMain)

-----------------------------------------------------------------------------
\* Type invariant; without the chip there is no line.
ModemTypeOK ==
    /\ TypeOK
    /\ main \in {"start", "init", "configure", "listen", "sample", "loop", "wPop",
                  "quit", "join_listener", "join_sampler", "exit"}
    /\ alive \subseteq Object
    /\ gpiochip \in BOOLEAN /\ line \in [Line -> {"null", "unreserved", "held"}]
    /\ gpiochip \/ \A l \in Line : line[l] = "null"
    /\ amp_power \in {"on", "off"} /\ amp_refused \in BOOLEAN
    /\ inited \in 0..Len(InitSteps)
    /\ handles \subseteq {"handle_tx", "handle_rx", "hw_params", "sw_params"}
    /\ active \in BOOLEAN
    /\ demod \in {"none", "loop", "enter", "block", "asleep", "execute",
                   "push", "ended"}
    /\ exiter \in {"none", "main", "listener", "sampler"}
    /\ status \in {"none", "success", "failure"}
    /\ dtor \in {"none", "gpio", "lines", "janus", "notify", "join", "astream",
                  "server", "rx_buffer", "gone"}

\* The global objects a thread uses where it stands.
Uses(t) ==
    CASE t = "listener" /\ ListenerStarted ->
           (CASE tx = "socket" -> {"server", "gpio"} [] tx = "modulate" -> {"janus", "astream"}
              [] tx = "play" -> {"astream", "gpio"} [] OTHER -> {})
      [] t = "sampler" /\ SamplerStarted ->
           (CASE rx = "receive" -> {"astream"} [] rx = "demodulate" -> {"janus"} [] OTHER -> {})
      [] t = "demod" ->
           (CASE demod \in {"none", "ended"} -> {} [] demod = "push" -> {"janus", "rx_buffer"}
              [] OTHER -> {"janus"})
      [] OTHER -> {}

\* No thread uses an object that does not exist yet, or no more: the demodulator
\* never, the two loops never unless a fatal signal or a crash ended the program.
UseAlive ==
    \A t \in {"listener", "sampler", "demod"} :
        status # "failure" \/ t = "demod" => Uses(t) \subseteq alive

\* The modem is left with the amplifier off and, unless a fatal signal or a crash
\* ended the program, in reception; a line that refused to be set excepted.
SafeAtEnd ==
    dtor = "gone" => /\ amp_power = "off" \/ amp_refused
                     /\ status = "success" => txrx_switch = "rx" \/ refused

\* Where the program can stay for good after its stop: main() in its wait or in
\* sending, or in joining a listener that is in a call of the socket or plays; and
\* in exit(), the join of a demodulator that slept through its only notification,
\* and the destruction of the condition variable on which main() was caught.
Hung == \/ exiter = "none" /\ main = "wPop"
        \/ exiter = "none" /\ main = "join_listener" /\ tx \in {"socket", "play"}
        \/ dtor = "join" /\ demod = "asleep"
        \/ WaitsForMain


\* Whatever the command line, with a gain above zero the amplitude of what is
\* played never exceeds the largest gain of the amplifier, not even with a gain
\* outside the range that the help gives.
AmplitudeLimited == tx = "play" => AmplitudesWithinLimit

\* Whatever the command line, what the threads work with is the band that was asked
\* for if the setter can take it beside the centre asked for, and else the default.
BandAsAsked == ListenerStarted => BandsTaken
=============================================================================
