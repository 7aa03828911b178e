------------------------------ MODULE SensorAlign ------------------------------
(***************************************************************************)
(* The training of the image sensor's serial lines: the alignment machines *)
(* of iserdes_control.vhd, the request they pass to the sensor's clock     *)
(* (iserdes_sync.vhd, iserdes_mux.vhd) and the driver that starts them and *)
(* waits (onsemi_vita_sensor_initialize).                                  *)
(*                                                                         *)
(* A sampled word is the number of bits by which it is rotated from the    *)
(* training word; Blank has no edge in it, Mixed is no rotation.  A line   *)
(* has taps at which it changes from one bit to the next: a sample taken   *)
(* there may be the word before, the word after or Mixed.                  *)
(*                                                                         *)
(* CLOCK always runs.  CLKDIV comes from the sensor and may stop; only     *)
(* then can a request wait for the 33 clocks of the time-out.  A clock in  *)
(* which the machines only hand a pulse on, and the count-down over the    *)
(* rotations in Compare_Training, are part of the step before.  Left out:  *)
(* the status words but WORD_ALIGN and TAP_SETTING, where the samples sit  *)
(* in the word (SAMPLEIN...), the FIFOs, and the lag of ACK within CLOCK.  *)
(***************************************************************************)
EXTENDS Integers, FiniteSets

CONSTANTS
  NrofConn,     \* NROF_CONN
  DataWidth,    \* DATAWIDTH, bits of a word
  TapCountMax,  \* TAP_COUNT_MAX, taps of the delay line
  TapRange,     \* 2^10, the range of tapcount
  StableCount,  \* STABLE_COUNT
  RetryMax,     \* RETRY_MAX
  Wirings,      \* the lines of all connections: functions to [live, phase, edges]
  AutoModes,    \* values of ISERDES_AUTO_ALIGN
  ManualTaps,   \* values of ISERDES_MANUAL_TAP
  Blank, Mixed, \* words that are no rotation of the training word
  MaxStops,     \* bounds on the stops of CLKDIV, for each wiring, ...
  MaxSessions   \* and on the initialisations

Conns == 0 .. NrofConn - 1
Taps  == 0 .. TapCountMax - 1
Bits  == 0 .. DataWidth - 1
Words == Bits \cup {Blank, Mixed}

ASSUME AlignAssumption ==
  /\ NrofConn \in Nat \ {0} /\ TapCountMax \in Nat \ {0}
  /\ TapRange \in Nat \ {0} /\ TapRange % TapCountMax = 0
  /\ DataWidth \in Nat /\ DataWidth >= 5
  /\ StableCount \in Nat /\ StableCount >= 2 /\ RetryMax \in Nat /\ RetryMax >= 2
  /\ Wirings \subseteq [Conns -> [live : BOOLEAN, phase : Bits, edges : SUBSET Taps]]
  /\ AutoModes \subseteq BOOLEAN /\ ManualTaps \subseteq Nat
  /\ Blank \notin Bits /\ Mixed \notin Bits /\ Blank # Mixed
  /\ MaxStops \in [Wirings -> Nat] /\ MaxSessions \in Nat

VARIABLES
  line,       \* the wires
  delay,      \* IDELAYE2: tap in use
  slips,      \* ISERDESE2: bit slips since its reset
  held,       \* IODELAY_ISERDES_RESET, which stays up until the next command
  divRuns, stops,
  driver, start, auto, manual, sessions,
  seq,        \* serdesseqstate
  selector, busy, aligned,
  al,         \* the process "aligning"
  wordAlign, tapSetting,
  cmd,        \* CTRL_RESET, CTRL_INC and CTRL_CE; CTRL_BITSLIP
  hs,         \* handshakestate; "End": end_handshake
  req,
  data,       \* CTRL_DATA
  edge,       \* edge_int_or
  seen,       \* ReqPipe
  sync,       \* syncstate
  ack, sel,
  late,       \* history: a request of this session timed out
  dirty       \* history: CTRL_BITSLIP was set when the connection's turn came

wires   == <<line, delay, slips, held>>
clock   == <<divRuns, stops>>
host    == <<driver, start, auto, manual, sessions>>
turn    == <<seq, selector, busy, aligned>>
report  == <<wordAlign, tapSetting>>
request == <<cmd, hs, req, edge>>
crossed == <<seen, sync, ack, sel>>
vars    == <<wires, clock, host, turn, al, report, request, data, crossed, late, dirty>>

AlignState ==
  {"Idle", "Reset_Delay", "Get_Edge", "Wait_Sample_Stable", "CheckFirstEdgeChanged",
   "CheckFirstEdgeStable", "CheckSecondEdgeChanged", "WindowFound", "Reset_Delay_Man",
   "Do_Word_Align"}

TypeOK ==
  /\ line \in Wirings
  /\ delay \in [Conns -> Taps] /\ slips \in [Conns -> Bits] /\ held \in [Conns -> BOOLEAN]
  /\ divRuns \in BOOLEAN /\ stops \in 0 .. MaxStops[line]
  /\ driver \in {"idle", "clk", "poll", "wait"} /\ start \in BOOLEAN
  /\ auto \in BOOLEAN /\ manual \in Nat /\ sessions \in 0 .. MaxSessions
  /\ seq \in {"Idle", "Train", "Off"} /\ selector \in Conns
  /\ busy \in BOOLEAN /\ aligned \in BOOLEAN
  /\ al \in [state : AlignState, tap : 0 .. TapRange - 1, max : Int, window : Nat, retry : Int,
             gen : Int, init : Words]
  /\ wordAlign \in [Conns -> BOOLEAN] /\ tapSetting \in [Conns -> Nat]
  /\ cmd \in [op : {"none", "reset", "inc", "dec"}, slip : BOOLEAN]
  /\ hs \in {"Idle", "AckHigh", "AckLow", "End"} /\ req \in BOOLEAN
  /\ data \in Words /\ edge \in BOOLEAN
  /\ seen \in BOOLEAN /\ sync \in {"Idle", "DataValid", "ReqLow"}
  /\ ack \in BOOLEAN /\ sel \in Conns
  /\ late \in BOOLEAN /\ dirty \in [Conns -> BOOLEAN]

ResetAligning == [state |-> "Idle", tap |-> 0, max |-> -1, window |-> 0, retry |-> -1,
                  gen |-> -1, init |-> Blank]

Init ==
  /\ line \in Wirings
  /\ delay = [c \in Conns |-> 0] /\ slips = [c \in Conns |-> 0]
  /\ held = [c \in Conns |-> FALSE]
  /\ divRuns = TRUE /\ stops = 0
  /\ driver = "idle" /\ start = FALSE /\ sessions = 0
  /\ auto = FALSE /\ manual = 0
  /\ seq = "Idle" /\ selector = 0 /\ busy = FALSE /\ aligned = FALSE
  /\ al = ResetAligning
  /\ wordAlign = [c \in Conns |-> FALSE] /\ tapSetting = [c \in Conns |-> 0]
  /\ cmd = [op |-> "reset", slip |-> FALSE]
  /\ hs = "Idle" /\ req = FALSE /\ data = Blank /\ edge = FALSE
  /\ seen = FALSE /\ sync = "Idle" /\ ack = FALSE /\ sel = 0
  /\ late = FALSE /\ dirty = [c \in Conns |-> FALSE]

-----------------------------------------------------------------------------
(* The lines. *)

Rotate(w, n) == (w + n) % DataWidth
Ror(w, n)    == (w + DataWidth - n) % DataWidth

HasEdge(w) == w # Blank

\* Mutant: the bits turn the other way.
Turned_Rol(n) ==
  \/ al.init \in Bits /\ data = Rotate(al.init, n)
  \/ al.init = Blank /\ data = Blank

\* CTRL_DATA is DATA_init, n bits later.
Turned(n) ==
  \/ al.init \in Bits /\ data = Ror(al.init, n)
  \/ al.init = Blank /\ data = Blank

\* What the bits of a line are at tap d, d not being one of its edges.
Settled(c, d) ==
  Ror(Rotate(line[c].phase, slips[c]), Cardinality({e \in line[c].edges : e <= d}) % DataWidth)

\* The words that connection c may show.
Sample(c) ==
  IF held[c] \/ ~line[c].live THEN {Blank}
  ELSE IF delay[c] \in line[c].edges
    THEN {Settled(c, delay[c]), Rotate(Settled(c, delay[c]), 1), Mixed}
    ELSE {Settled(c, delay[c])}

-----------------------------------------------------------------------------
(* The driver. *)

\* onsemi_vita_sensor_initialize writes the manual tap and resets the receiver:
\* CLK_DIV_RESET is the same signal, and the reset puts connection 0 in reset.
DriverResets ==
  /\ driver = "idle" /\ sessions < MaxSessions
  /\ driver' = "clk" /\ sessions' = sessions + 1
  /\ start' = FALSE
  /\ auto' \in AutoModes /\ manual' \in ManualTaps
  /\ seq' = "Idle" /\ selector' = 0 /\ busy' = FALSE /\ aligned' = FALSE
  /\ al' = ResetAligning
  /\ wordAlign' = [c \in Conns |-> FALSE] /\ tapSetting' = [c \in Conns |-> 0]
  /\ cmd' = [op |-> "reset", slip |-> FALSE]
  /\ hs' = "Idle" /\ req' = FALSE /\ data' = Blank /\ edge' = FALSE
  /\ seen' = FALSE /\ sync' = "Idle" /\ ack' = FALSE /\ sel' = 0
  /\ delay' = [delay EXCEPT ![0] = 0] /\ slips' = [slips EXCEPT ![0] = 0]
  /\ held' = [c \in Conns |-> c = 0]
  /\ late' = FALSE /\ dirty' = [c \in Conns |-> FALSE]
  /\ UNCHANGED <<line, clock>>

\* CLK_RDY is up and ALIGN_START is set, or CLK_RDY is waited for in vain.
DriverStarts ==
  /\ driver = "clk"
  /\ \/ driver' = "poll" /\ start' = TRUE
     \/ driver' = "idle" /\ UNCHANGED start
  /\ UNCHANGED <<wires, clock, auto, manual, sessions, turn, al, report, request,
                 data, crossed, late, dirty>>

\* ALIGN_BUSY follows ALIGN_START within one CLOCK, long before the ninth poll.
DriverSeesBusy ==
  /\ driver = "poll" /\ busy
  /\ driver' = "wait" /\ start' = FALSE
  /\ UNCHANGED <<wires, clock, auto, manual, sessions, turn, al, report, request,
                 data, crossed, late, dirty>>

DriverSeesDone ==
  /\ driver = "wait" /\ ~busy
  /\ driver' = "idle"
  /\ UNCHANGED <<wires, clock, start, auto, manual, sessions, turn, al, report,
                 request, data, crossed, late, dirty>>

-----------------------------------------------------------------------------
(* The process "alignsequencer": one connection after the other. *)

SequencerStarts ==
  /\ seq = "Idle" /\ start
  /\ seq' = "Train" /\ selector' = 0 /\ busy' = TRUE
  /\ UNCHANGED <<wires, clock, host, aligned, al, report, request, data, crossed,
                 late, dirty>>

\* A failed alignment counts as done.
SequencerNext ==
  /\ seq = "Off" /\ al.state = "Idle"
  /\ IF selector = NrofConn - 1
       THEN seq' = "Idle" /\ busy' = FALSE /\ aligned' = TRUE /\ UNCHANGED selector
       ELSE seq' = "Train" /\ selector' = selector + 1 /\ UNCHANGED <<busy, aligned>>
  /\ UNCHANGED <<wires, clock, host, al, report, request, data, crossed, late, dirty>>

-----------------------------------------------------------------------------
(* The process "handshaker". *)

\* start_handshake with command c.
Issue(c) ==
  /\ cmd' = c
  /\ hs' = "AckHigh" /\ req' = TRUE
  /\ edge' = HasEdge(data)

\* The same with CTRL_BITSLIP as it is.
Do(op) == Issue([cmd EXCEPT !.op = op])

\* ACK is up.  When REQ falls, CTRL_DATA takes the word of the connection.
AckIsHigh ==
  /\ hs = "AckHigh" /\ ack
  /\ hs' = "AckLow" /\ req' = FALSE
  /\ data' \in Sample(sel)
  /\ edge' = (edge \/ HasEdge(data'))
  /\ UNCHANGED <<wires, clock, host, turn, al, report, cmd, crossed, late, dirty>>

AckIsLow ==
  /\ hs = "AckLow" /\ ~ack
  /\ hs' = "End"
  /\ UNCHANGED <<wires, clock, host, turn, al, report, cmd, req, edge, data, crossed,
                 late, dirty>>

\* Mutant: no time-out while ACK should fall.
AckTimesOut_HighOnly ==
  /\ hs = "AckHigh" /\ ~divRuns
  /\ hs' = "End"
  /\ late' = TRUE
  /\ UNCHANGED <<wires, clock, host, turn, al, report, cmd, req, edge, data, crossed,
                 dirty>>

\* TimeOutCntr has run down.  REQ stays as it is.
AckTimesOut ==
  /\ hs \in {"AckHigh", "AckLow"} /\ ~divRuns
  /\ hs' = "End"
  /\ late' = TRUE
  /\ UNCHANGED <<wires, clock, host, turn, al, report, cmd, req, edge, data, crossed,
                 dirty>>

-----------------------------------------------------------------------------
(* The clock CLKDIV: processes metastabilityavoid and synctoclkdiv, and the *)
(* multiplexer.                                                             *)

SyncSamplesReq ==
  /\ divRuns /\ seen # req
  /\ seen' = req
  /\ UNCHANGED <<wires, clock, host, turn, al, report, request, data, sync, ack, sel,
                 late, dirty>>

\* The command goes to connection CTRL_SEL, as both are at that moment.
SyncServes ==
  /\ divRuns /\ sync = "Idle" /\ seen
  /\ sync' = "DataValid"
  /\ sel' = selector
  /\ held' = [held EXCEPT ![selector] = cmd.op = "reset"]
  /\ delay' = [delay EXCEPT ![selector] =
                 CASE cmd.op = "reset" -> 0
                   [] cmd.op = "inc"   -> (@ + 1) % TapCountMax
                   [] cmd.op = "dec"   -> (@ + TapCountMax - 1) % TapCountMax
                   [] OTHER            -> @]
  /\ slips' = [slips EXCEPT ![selector] =
                 IF cmd.op = "reset" THEN 0
                 ELSE IF cmd.slip THEN Rotate(@, 1) ELSE @]
  /\ UNCHANGED <<line, clock, host, turn, al, report, request, data, seen, ack, late,
                 dirty>>

\* WaitCntr has run down.
SyncAcks ==
  /\ divRuns /\ sync = "DataValid"
  /\ sync' = "ReqLow" /\ ack' = TRUE
  /\ UNCHANGED <<wires, clock, host, turn, al, report, request, data, seen, sel, late,
                 dirty>>

SyncReleases ==
  /\ divRuns /\ sync = "ReqLow" /\ ~seen
  /\ sync' = "Idle" /\ ack' = FALSE
  /\ UNCHANGED <<wires, clock, host, turn, al, report, request, data, seen, sel, late,
                 dirty>>

DivStops ==
  /\ divRuns /\ stops < MaxStops[line]
  /\ divRuns' = FALSE /\ stops' = stops + 1
  /\ UNCHANGED <<wires, host, turn, al, report, request, data, crossed, late, dirty>>

DivRestarts ==
  /\ ~divRuns
  /\ divRuns' = TRUE
  /\ UNCHANGED <<wires, stops, host, turn, al, report, request, data, crossed, late,
                 dirty>>

-----------------------------------------------------------------------------
(* The process "aligning". *)

\* What no step of the process but the first writes.
Elsewhere == <<wires, clock, host, selector, busy, aligned, data, crossed, late>>

AlignBegins ==
  /\ seq = "Train" /\ al.state = "Idle"
  /\ seq' = "Off"
  /\ al' = [state |-> IF auto THEN "Reset_Delay" ELSE "Reset_Delay_Man",
            tap |-> 0, max |-> TapCountMax - 1, window |-> 0, retry |-> RetryMax - 2,
            gen |-> IF auto THEN al.gen ELSE manual, init |-> al.init]
  /\ wordAlign' = [wordAlign EXCEPT ![selector] = FALSE]
  /\ tapSetting' = [tapSetting EXCEPT ![selector] = 0]
  /\ dirty' = [dirty EXCEPT ![selector] = cmd.slip]
  /\ Do("reset")
  /\ UNCHANGED Elsewhere

\* A state that waits for end_handshake.
At(state) == al.state = state /\ hs = "End"

Further(a, state) == [a EXCEPT !.state = state, !.tap = (@ + 1) % TapRange, !.max = @ - 1]

\* Mutant: the tap is not counted back when the delay line is reset.
NextTap_KeepsTap(a, state) ==
  IF a.max < 0
    THEN al' = [a EXCEPT !.state = "Reset_Delay", !.max = TapCountMax - 1]
         /\ Do("reset")
    ELSE al' = Further(a, state) /\ Do("inc")

\* One tap further, and on in state; behind the last one, back to the first.
NextTap(a, state) ==
  IF a.max < 0
    THEN al' = [a EXCEPT !.state = "Reset_Delay", !.tap = 0, !.max = TapCountMax - 1]
         /\ Do("reset")
    ELSE al' = Further(a, state) /\ Do("inc")

\* The connection is done with; CTRL_BITSLIP is cleared by Alignment_Done only.
Finish(ok) ==
  /\ al' = [al EXCEPT !.state = "Idle"]
  /\ hs' = "Idle"
  /\ tapSetting' = [tapSetting EXCEPT ![selector] = al.tap]
  /\ wordAlign' = IF ok THEN [wordAlign EXCEPT ![selector] = TRUE] ELSE wordAlign
  /\ cmd' = IF ok THEN [op |-> "none", slip |-> FALSE] ELSE cmd
  /\ UNCHANGED <<req, edge>>

\* Start_Word_Align
StartWordAlign ==
  IF data = 0
    THEN Finish(TRUE)
    ELSE /\ al' = [al EXCEPT !.state = "Do_Word_Align", !.gen = DataWidth - 2]
         /\ Issue([op |-> "none", slip |-> TRUE])
         /\ UNCHANGED report

ResetDelay ==
  /\ At("Reset_Delay")
  /\ al' = [al EXCEPT !.state = "Get_Edge", !.gen = StableCount - 1]
  /\ Do("none")
  /\ UNCHANGED <<seq, report, dirty, Elsewhere>>

\* Get_Edge and Check_Edge
CheckEdge ==
  /\ At("Get_Edge")
  /\ LET a == [al EXCEPT !.retry = @ - 1]
     IN  IF al.retry < 0 THEN Finish(FALSE)
         ELSE /\ UNCHANGED report
              /\ IF edge
                   THEN /\ al' = [a EXCEPT !.init = data, !.state = "Wait_Sample_Stable"]
                        /\ Do("none")
                   ELSE NextTap(a, "Get_Edge")
  /\ UNCHANGED <<seq, dirty, Elsewhere>>

\* Wait_Sample_Stable, while the samples are counted.
WaitSampleStable ==
  /\ At("Wait_Sample_Stable") /\ al.gen >= 0
  /\ IF data = al.init
       THEN al' = [al EXCEPT !.gen = @ - 1] /\ Do("none")
       ELSE NextTap([al EXCEPT !.retry = @ - 1,
                               !.gen = IF al.max < 0 THEN @ ELSE StableCount - 2],
                    "Get_Edge")
  /\ UNCHANGED <<seq, report, dirty, Elsewhere>>

\* The last sample, which need not be the stable one, is compared with all the
\* rotations of the training word: Compare_Training and Valid_Begin_Found.
CompareTraining ==
  /\ At("Wait_Sample_Stable") /\ al.gen < 0
  /\ IF data \in Bits
       THEN al' = Further(al, "CheckFirstEdgeChanged") /\ Do("inc")
       ELSE NextTap(IF al.max < 0 THEN al
                    ELSE [al EXCEPT !.retry = @ - 1, !.gen = StableCount - 2],
                    "Get_Edge")
  /\ UNCHANGED <<seq, report, dirty, Elsewhere>>

CheckFirstEdgeChanged ==
  /\ At("CheckFirstEdgeChanged")
  /\ IF Turned(1)
       THEN /\ al' = [al EXCEPT !.state = "CheckFirstEdgeStable", !.gen = StableCount - 1]
            /\ Do("none")
       ELSE NextTap(al, "CheckFirstEdgeChanged")
  /\ UNCHANGED <<seq, report, dirty, Elsewhere>>

\* An edge that moves is followed without a look at the number of taps.
CheckFirstEdgeStable ==
  /\ At("CheckFirstEdgeStable")
  /\ CASE al.gen < 0 ->
            /\ al' = [Further(al, "CheckSecondEdgeChanged") EXCEPT !.window = @ + 1]
            /\ Do("inc")
       [] al.gen >= 0 /\ Turned(1) ->
            al' = [al EXCEPT !.gen = @ - 1] /\ Do("none")
       [] OTHER ->
            /\ al' = [Further(al, "CheckFirstEdgeChanged") EXCEPT !.gen = StableCount - 1]
            /\ Do("inc")
  /\ UNCHANGED <<seq, report, dirty, Elsewhere>>

\* Mutant: back by the whole window, which is not halved.
CheckSecondEdgeChanged_Whole ==
  /\ At("CheckSecondEdgeChanged")
  /\ CASE Turned(2) ->
            /\ al' = [al EXCEPT !.state = "WindowFound",
                                !.tap = (@ + TapRange - 1) % TapRange,
                                !.gen = al.window - 2]
            /\ Do("dec")
       [] ~Turned(2) /\ al.max < 0 ->
            al' = [al EXCEPT !.state = "Reset_Delay"] /\ Do("reset")
       [] OTHER ->
            /\ al' = [Further(al, "CheckSecondEdgeChanged") EXCEPT !.window = @ + 1]
            /\ Do("inc")
  /\ UNCHANGED <<seq, report, dirty, Elsewhere>>

\* The overrun resets the delay line and none of the counters.  The literal "10"
\* taken from half the window is signed: it is -2, and the way back is half the
\* window, this step and the last one included, and four taps.
CheckSecondEdgeChanged ==
  /\ At("CheckSecondEdgeChanged")
  /\ CASE Turned(2) ->
            /\ al' = [al EXCEPT !.state = "WindowFound", !.tap = (@ + TapRange - 1) % TapRange,
                                !.gen = (al.window \div 2) + 2]
            /\ Do("dec")
       [] ~Turned(2) /\ al.max < 0 ->
            al' = [al EXCEPT !.state = "Reset_Delay"] /\ Do("reset")
       [] OTHER ->
            /\ al' = [Further(al, "CheckSecondEdgeChanged") EXCEPT !.window = @ + 1]
            /\ Do("inc")
  /\ UNCHANGED <<seq, report, dirty, Elsewhere>>

\* Back towards the middle of the window.
WindowFound ==
  /\ At("WindowFound")
  /\ IF al.gen < 0 THEN StartWordAlign
     ELSE /\ al' = [al EXCEPT !.tap = (@ + TapRange - 1) % TapRange, !.gen = @ - 1]
          /\ Do("dec")
          /\ UNCHANGED report
  /\ UNCHANGED <<seq, dirty, Elsewhere>>

ResetDelayMan ==
  /\ At("Reset_Delay_Man")
  /\ IF al.gen < 0 THEN StartWordAlign
     ELSE /\ al' = [al EXCEPT !.tap = (@ + 1) % TapRange, !.gen = @ - 1]
          /\ Do("inc")
          /\ UNCHANGED report
  /\ UNCHANGED <<seq, dirty, Elsewhere>>

DoWordAlign ==
  /\ At("Do_Word_Align")
  /\ CASE data = 0 -> Finish(TRUE)
       [] data # 0 /\ al.gen < 0 -> Finish(FALSE)
       [] OTHER ->
            /\ al' = [al EXCEPT !.gen = @ - 1]
            /\ Issue([cmd EXCEPT !.slip = TRUE])
            /\ UNCHANGED report
  /\ UNCHANGED <<seq, dirty, Elsewhere>>

Aligning ==
  \/ AlignBegins \/ ResetDelay \/ CheckEdge \/ WaitSampleStable \/ CompareTraining
  \/ CheckFirstEdgeChanged \/ CheckFirstEdgeStable \/ CheckSecondEdgeChanged
  \/ WindowFound \/ ResetDelayMan \/ DoWordAlign

Handshake == AckIsHigh \/ AckIsLow
Sequencer == SequencerStarts \/ SequencerNext
Driver    == DriverResets \/ DriverStarts \/ DriverSeesBusy \/ DriverSeesDone
DivClock  == SyncSamplesReq \/ SyncServes \/ SyncAcks \/ SyncReleases

Next ==
  \/ Driver \/ Sequencer \/ Aligning \/ Handshake \/ AckTimesOut \/ DivClock
  \/ DivStops \/ DivRestarts

Spec == Init /\ [][Next]_vars

\* CLOCK runs, so its processes and the time-out do; CLKDIV runs unless it is
\* stopped, and may stay so; the driver's waiting loops poll.
Fairness ==
  /\ WF_vars(Sequencer) /\ WF_vars(Aligning) /\ WF_vars(Handshake) /\ WF_vars(AckTimesOut)
  /\ WF_vars(DivClock)
  /\ WF_vars(DriverSeesBusy) /\ WF_vars(DriverSeesDone)

FairSpec == Spec /\ Fairness

-----------------------------------------------------------------------------
(* Properties. *)

\* While no request has timed out every command is carried out once and on its
\* own line: between two of them the tap the aligner counts is the tap in use.
\* Max falls below -1 when an edge is followed past the last tap, and then the
\* overrun leaves tapcount behind (CheckSecondEdgeChanged).
TapTracks ==
  ~late /\ seq = "Off" /\ hs \in {"Idle", "End"} /\ al.max >= -1 =>
    al.tap % TapCountMax = delay[selector]

\* The types, and the count.
Consistent == TypeOK /\ TapTracks

\* The first and the second edge of the line can both be found on the way, and
\* between them there is room for the way back (CheckSecondEdgeChanged): in an
\* eye of eight taps it may end on the first edge.
GoodEye(c) ==
  /\ line[c].live
  /\ \E e, f \in line[c].edges :
       /\ line[c].edges = {e, f}
       /\ 0 < e /\ e + 9 <= f /\ f < TapCountMax - 1

\* A connection said to be word aligned delivers the training word and, when it
\* was aligned automatically over a clean line, is clear of the edges; the tap
\* it reports is the tap in use, unless the search over a line with other edges
\* lost count (CheckSecondEdgeChanged); all this unless a request timed out.
AlignedIsRight ==
  \A c \in Conns : wordAlign[c] /\ ~late =>
    /\ auto /\ GoodEye(c) => delay[c] \notin line[c].edges
    /\ delay[c] \notin line[c].edges => Sample(c) = {0}
    /\ (auto => GoodEye(c)) => tapSetting[c] % TapCountMax = delay[c]

\* When the alignment has ended no clean line was given up: not in automatic
\* mode, if CTRL_BITSLIP was not left set by another connection, and not in
\* manual mode if the tap set is clear of the edges.
GoodLinesAlign ==
  seq = "Idle" /\ aligned /\ ~late =>
    \A c \in Conns :
      \/ auto /\ GoodEye(c) /\ ~dirty[c]
      \/ ~auto /\ line[c].live /\ delay[c] \notin line[c].edges
      => wordAlign[c]

\* The driver's wait for ALIGN_BUSY to fall, which has no time-out, ends:
\* whatever the lines show and even when CLKDIV stops for good.
AlignEnds == driver = "wait" ~> driver = "idle"
===============================================================================
