-------------------------------- MODULE VgstLib --------------------------------
(***************************************************************************)
(* The pipelines of vcu_gst_lib (vgst_lib.c, vgst_utils.c): configuration, *)
(* creation and start, the bus callback, polling, and stop_pipeline, which *)
(* in a recording injects EOS and runs a GMainLoop of its own until the    *)
(* bus callback quits it.  While that loop runs, every other callback of   *)
(* the process may run on top of it, so the activations of stop_pipeline   *)
(* form a stack.                                                           *)
(*                                                                         *)
(* A pipeline is a pair of a source and the run of the application that    *)
(* created it: app.playback[i] holds one of them, but an older one may     *)
(* still exist.  GStreamer is external: a playing pipeline may fail, may   *)
(* come to its end if the source has one, and drains an EOS sent to it.    *)
(***************************************************************************)
EXTENDS Naturals, Sequences

CONSTANTS
  MaxSources,  \* bound on num_src
  MaxRuns,     \* bound on the rounds of main's do-while loop
  Configs,     \* configurations read from the file
  Faults       \* the steps that may fail

ASSUME VgstAssumption ==
  /\ MaxSources \in Nat \ {0} /\ MaxRuns \in Nat \ {0}
  /\ Configs \subseteq [n : 1 .. MaxSources, src : {"live", "file", "streaming"},
                        sink : {"display", "record"}, loop : BOOLEAN]   \* "display": any sink but RECORD
  /\ Faults \subseteq {"config", "create", "play", "seek", "send", "null"}

VARIABLES
  cfg,      \* ip_params, cmn_params and the application's loop_playback
  gen,      \* rounds configured so far
  app,      \* app.playback
  st,       \* the pipelines
  bus,      \* pipelines with an undispatched message: EOS or an error
  asked,    \* pipelines into which EOS has been injected
  stack,    \* activations of stop_pipeline, the running one last
  crashed,  \* freed memory has been used
  faults    \* the faults that have happened

libvars == <<cfg, gen, app, st, bus, asked, stack, crashed, faults>>

Pipelines == (1 .. MaxSources) \X (1 .. MaxRuns)
Sources   == 1 .. cfg.n
Freed     == MaxRuns + 2   \* a loop pointer that dangles
Playback  == [pipeline : 0 .. MaxRuns, eos : BOOLEAN, err : BOOLEAN,
              stop : BOOLEAN, loop : 0 .. Freed]
Frame     == [who : {"main", "loop_cb"}, src : 1 .. MaxSources + 1,
              wait : {"no", "open", "quit"}]
Zero      == [pipeline |-> 0, eos |-> FALSE, err |-> FALSE, stop |-> FALSE, loop |-> 0]
Alive     == {"made", "playing", "eos", "failed"}

LibTypeOK ==
  /\ cfg \in Configs /\ gen \in 0 .. MaxRuns
  /\ app \in [1 .. MaxSources -> Playback]
  /\ st \in [Pipelines -> Alive \cup {"none", "gone", "cut"}]
  /\ bus \subseteq Pipelines /\ asked \subseteq Pipelines
  /\ stack \in Seq(Frame)
  /\ crashed \in BOOLEAN /\ faults \subseteq Faults

LibInit ==
  /\ cfg \in Configs /\ gen = 0
  /\ app = [i \in 1 .. MaxSources |-> Zero]
  /\ st = [p \in Pipelines |-> "none"]
  /\ bus = {} /\ asked = {} /\ stack = << >>
  /\ crashed = FALSE /\ faults = {}

Fault(f) == f \in Faults /\ faults' = faults \cup {f}

-----------------------------------------------------------------------------
\* vgst_config_options refuses these combinations of source and sink.
Accepts(c) ==
  /\ c.src = "file" => c.n = 1
  /\ c.src # "live" => c.sink # "record"

\* The last act of vgst_config_options: memset of app, whatever it still holds.
InitStructParams ==
  /\ Accepts(cfg) /\ gen < MaxRuns
  /\ gen' = gen + 1
  /\ app' = [i \in 1 .. MaxSources |-> Zero]
  /\ UNCHANGED <<cfg, st, bus, asked, stack, crashed, faults>>

\* It returns before that: a bad combination, or vlib refuses source or plane.
ConfigFails ==
  /\ \/ ~Accepts(cfg) /\ UNCHANGED faults
     \/ Fault("config")
  /\ UNCHANGED <<cfg, gen, app, st, bus, asked, stack, crashed>>

\* create_pipeline, set_property and link_elements for the sources up to k.
\* The pipeline handle is assigned first, so the source that fails has one.
Create(k) ==
  /\ app' = [i \in 1 .. MaxSources |->
               IF i <= k THEN [app[i] EXCEPT !.pipeline = gen] ELSE app[i]]
  /\ st' = [p \in Pipelines |-> IF p[1] <= k /\ p[2] = gen THEN "made" ELSE st[p]]
  /\ UNCHANGED <<cfg, gen, bus, asked, stack, crashed>>

CreatePipeline == Create(cfg.n) /\ UNCHANGED faults
CreateFails    == \E k \in Sources : Create(k) /\ Fault("create")

\* vgst_run_pipeline: watch every bus, then set the pipelines to PLAYING.
RunPipeline ==
  /\ st' = [p \in Pipelines |->
              IF p[1] \in Sources /\ p[2] = gen THEN "playing" ELSE st[p]]
  /\ UNCHANGED <<cfg, gen, app, bus, asked, stack, crashed, faults>>

\* The state change of source k fails; an element may have posted the reason.
RunFails ==
  /\ \E k \in Sources :
       /\ st' = [p \in Pipelines |->
                   IF p[2] = gen /\ p[1] < k THEN "playing"
                   ELSE IF p = <<k, gen>> THEN "failed" ELSE st[p]]
       /\ bus' \in {bus, bus \cup {<<k, gen>>}}
  /\ Fault("play")
  /\ UNCHANGED <<cfg, gen, app, asked, stack, crashed>>

-----------------------------------------------------------------------------
\* GStreamer: an injected EOS, or the end of a file or a stream, reaches the sink.
Drain(p) ==
  /\ st[p] = "playing" /\ p \in asked
  /\ st' = [st EXCEPT ![p] = "eos"]
  /\ bus' = bus \cup {p}
  /\ UNCHANGED <<cfg, gen, app, asked, stack, crashed, faults>>

EndOfStream(p) ==
  /\ st[p] = "playing" /\ cfg.src # "live"
  /\ st' = [st EXCEPT ![p] = "eos"]
  /\ bus' = bus \cup {p}
  /\ UNCHANGED <<cfg, gen, app, asked, stack, crashed, faults>>

PipelineError(p) ==
  /\ st[p] = "playing"
  /\ st' = [st EXCEPT ![p] = "failed"]
  /\ bus' = bus \cup {p}
  /\ UNCHANGED <<cfg, gen, app, asked, stack, crashed, faults>>

\* bus_callback's last lines: quit the loop play_ptr->loop points to.
QuitWait(i) ==
  \/ /\ app[i].loop = 0
     /\ UNCHANGED <<stack, crashed>>
  \/ /\ app[i].loop = Freed
     /\ crashed' \in BOOLEAN /\ UNCHANGED stack
  \/ /\ app[i].loop \in DOMAIN stack
     /\ stack' = [stack EXCEPT ![app[i].loop].wait = "quit"]
     /\ UNCHANGED crashed

\* A file is played in a loop, until stop_pipeline has set stop_flag.
Rewinds(i) == cfg.src = "file" /\ ~app[i].stop

\* bus_callback, EOS of a file: seek to its start.
BusSeek(p) ==
  LET q == <<p[1], app[p[1]].pipeline>> IN
  /\ p \in bus /\ st[p] = "eos" /\ Rewinds(p[1])
  /\ bus' = bus \ {p}
  /\ \/ /\ q \in Pipelines /\ st[q] = "eos"
        /\ st' = [st EXCEPT ![q] = "playing"]
        /\ asked' = asked \ {q} /\ UNCHANGED faults
     \/ Fault("seek") /\ UNCHANGED <<st, asked>>
  /\ UNCHANGED <<cfg, gen, app, stack, crashed>>

\* Mutant of BusEos: the flag is set and no loop is quit.
BusEos_NoQuit(p) ==
  /\ p \in bus /\ st[p] = "eos" /\ ~Rewinds(p[1])
  /\ bus' = bus \ {p}
  /\ app' = [app EXCEPT ![p[1]].eos = TRUE]
  /\ UNCHANGED <<cfg, gen, st, asked, faults, stack, crashed>>

\* bus_callback, EOS.
BusEos(p) ==
  /\ p \in bus /\ st[p] = "eos" /\ ~Rewinds(p[1])
  /\ bus' = bus \ {p}
  /\ app' = [app EXCEPT ![p[1]].eos = TRUE]
  /\ QuitWait(p[1])
  /\ UNCHANGED <<cfg, gen, st, asked, faults>>

\* bus_callback, error: playback cannot go on.
BusError(p) ==
  /\ p \in bus /\ st[p] = "failed"
  /\ bus' = bus \ {p}
  /\ app' = [app EXCEPT ![p[1]].err = TRUE]
  /\ QuitWait(p[1])
  /\ UNCHANGED <<cfg, gen, st, asked, faults>>

\* poll_event: EVENT_EOS.
AllEos == \A i \in Sources : app[i].eos

\* get_position of a recording: beyond the duration, EOS is sent, every second
\* again.  Which sources are beyond it is the environment's choice.
GetPosition ==
  /\ asked' \in
       IF cfg.sink = "record"
       THEN {asked \cup {<<i, app[i].pipeline>> : i \in late} :
               late \in SUBSET {i \in Sources : app[i].pipeline # 0 /\ ~app[i].err}}
       ELSE {asked}
  /\ UNCHANGED <<cfg, gen, app, st, bus, stack, crashed, faults>>

-----------------------------------------------------------------------------
\* stop_pipeline is called.
StopPipeline(who) ==
  /\ stack' = Append(stack, [who |-> who, src |-> 1, wait |-> "no"])
  /\ UNCHANGED <<cfg, gen, app, st, bus, asked, crashed, faults>>

Depth == Len(stack)
Top   == stack[Depth]
Stepping(i) == ~crashed /\ Depth > 0 /\ Top.wait = "no" /\ Top.src = i /\ i \in Sources
Stopped == ~crashed /\ Depth > 0 /\ Top.wait = "no" /\ Top.src > cfg.n
NextSource == stack' = [stack EXCEPT ![Depth].src = @ + 1, ![Depth].wait = "no"]

\* Mutant of MustDrain: a recording that failed is waited for, too.
MustDrain_Err(i) == cfg.sink = "record" /\ ~app[i].eos

\* A recording has to be finished by EOS, unless that has happened.
MustDrain(i) == cfg.sink = "record" /\ ~app[i].eos /\ ~app[i].err

\* To NULL, remove the watch, drop the reference.  A recording taken down
\* while it plays is cut short, unless its source has refused the EOS.
SetNull(i, flags, end) ==
  LET p == <<i, app[i].pipeline>> IN
  /\ \/ /\ app' = [app EXCEPT ![i] = [flags EXCEPT !.pipeline = 0]]
        /\ st' = [st EXCEPT ![p] = end]
        /\ bus' = bus \ {p} /\ asked' = asked \ {p}
        /\ UNCHANGED faults
     \/ /\ Fault("null")
        /\ app' = [app EXCEPT ![i] = flags]
        /\ UNCHANGED <<st, bus, asked>>
  /\ NextSource
  /\ UNCHANGED <<cfg, gen, crashed>>

End(i) == IF cfg.sink = "record" /\ st[<<i, app[i].pipeline>>] = "playing"
          THEN "cut" ELSE "gone"

NoHandle(i) ==
  /\ Stepping(i) /\ app[i].pipeline = 0
  /\ NextSource
  /\ UNCHANGED <<cfg, gen, app, st, bus, asked, crashed, faults>>

StopNow(i) ==
  /\ Stepping(i) /\ app[i].pipeline # 0 /\ ~MustDrain(i)
  /\ SetNull(i, [app[i] EXCEPT !.stop = TRUE], End(i))

\* Mutant of SendEos: the loop that waits for the EOS is not run.
SendEos_NoWait(i) ==
  /\ Stepping(i) /\ app[i].pipeline # 0 /\ MustDrain(i)
  /\ SetNull(i, [app[i] EXCEPT !.stop = TRUE], End(i))

SendEos(i) ==
  /\ Stepping(i) /\ app[i].pipeline # 0 /\ MustDrain(i)
  /\ asked' = asked \cup {<<i, app[i].pipeline>>}
  /\ app' = [app EXCEPT ![i].stop = TRUE, ![i].loop = Depth]
  /\ stack' = [stack EXCEPT ![Depth].wait = "open"]
  /\ UNCHANGED <<cfg, gen, st, bus, crashed, faults>>

EosRefused(i) ==
  /\ Stepping(i) /\ app[i].pipeline # 0 /\ MustDrain(i) /\ "send" \in Faults
  /\ SetNull(i, [app[i] EXCEPT !.stop = TRUE], "gone")

\* The loop of the running activation has been quit, and is freed.  Another
\* activation may have taken the pipeline away: set_state(NULL, ...) fails.
WaitOver ==
  /\ ~crashed /\ Depth > 0 /\ Top.wait = "quit"
  /\ LET i == Top.src
         flags == IF app[i].loop = Depth THEN [app[i] EXCEPT !.loop = Freed] ELSE app[i]
     IN \/ app[i].pipeline # 0 /\ SetNull(i, flags, End(i))
        \/ /\ app[i].pipeline = 0
           /\ app' = [app EXCEPT ![i] = flags]
           /\ NextSource
           /\ UNCHANGED <<cfg, gen, st, bus, asked, crashed, faults>>

StopReturns ==
  /\ Stopped
  /\ stack' = SubSeq(stack, 1, Depth - 1)
  /\ UNCHANGED <<cfg, gen, app, st, bus, asked, crashed, faults>>
=============================================================================
