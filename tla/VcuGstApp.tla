------------------------------- MODULE VcuGstApp -------------------------------
(***************************************************************************)
(* vcu_gst_app: main configures and starts the pipelines and runs a        *)
(* GMainLoop, again and again if loop_playback is set.  On that loop run   *)
(* the bus callbacks of the library, time_cb once a second, and loop_cb,   *)
(* which ends a round.  SIGINT may arrive between any two steps.           *)
(*                                                                         *)
(* g_main_loop_run dispatches what was ready in an iteration before it     *)
(* looks at the quit flag, so callbacks run until MainLoopReturns or       *)
(* WaitOver is taken.  The test of g_main_is_running and the quit and      *)
(* unref behind it are two steps of the callbacks, between which the       *)
(* signal may come.                                                        *)
(***************************************************************************)
EXTENDS VgstLib

VARIABLES
  playback,  \* app_data.loop_playback
  pc,        \* where main is
  loop,      \* what app_data.loop points to
  closing,   \* a callback has found the loop running and will quit it
  timer,     \* time_cb is still scheduled
  pending,   \* scheduled calls of loop_cb
  sig,       \* SIGINT has been handled (it is ignored from then on)
  seen       \* history: what happened on the way

appvars == <<playback, pc, loop, closing, timer, pending, sig, seen>>
vars == <<libvars, appvars>>

TypeOK ==
  /\ LibTypeOK
  /\ playback \in BOOLEAN
  /\ pc \in {"config", "create", "run", "arm", "new", "enter", "loop", "quit",
             "stopping", "cleanup", "ended"}
  /\ loop \in {"null", "new", "running", "quit", "freed"}
  /\ closing \in BOOLEAN /\ timer \in BOOLEAN /\ sig \in BOOLEAN
  /\ pending \in 0 .. MaxRuns
  /\ seen \subseteq {"caught", "restarted", "overlap"}

Init ==
  /\ LibInit
  /\ playback = cfg.loop /\ pc = "config" /\ loop = "null" /\ closing = FALSE
  /\ timer = TRUE /\ pending = 0 /\ sig = FALSE /\ seen = {}

Goto(from, to) == ~crashed /\ pc = from /\ pc' = to

-----------------------------------------------------------------------------
\* The body of the do-while loop.  A round that cannot be configured goes to
\* CLEANUP, one that cannot be started to QUIT.
Configure ==
  /\ \/ Goto("config", "create") /\ InitStructParams
     \/ Goto("config", "cleanup") /\ ConfigFails
  /\ UNCHANGED <<playback, loop, closing, timer, pending, sig, seen>>

\* Mutant of Start: a round that cannot be started goes to CLEANUP, too.
Start_Leave ==
  /\ \/ Goto("create", "run") /\ CreatePipeline
     \/ Goto("create", "cleanup") /\ CreateFails
     \/ Goto("run", "arm") /\ RunPipeline
     \/ Goto("run", "cleanup") /\ RunFails
  /\ UNCHANGED <<playback, loop, closing, timer, pending, sig, seen>>

Start ==
  /\ \/ Goto("create", "run") /\ CreatePipeline
     \/ Goto("create", "quit") /\ CreateFails
     \/ Goto("run", "arm") /\ RunPipeline
     \/ Goto("run", "quit") /\ RunFails
  /\ UNCHANGED <<playback, loop, closing, timer, pending, sig, seen>>

ArmLoopCb ==
  /\ Goto("arm", "new")
  /\ pending' = IF playback THEN pending + 1 ELSE pending
  /\ UNCHANGED <<libvars, playback, loop, closing, timer, sig, seen>>

NewMainLoop ==
  /\ Goto("new", "enter")
  /\ loop' = "new"
  /\ UNCHANGED <<libvars, playback, closing, timer, pending, sig, seen>>

RunMainLoop ==
  /\ Goto("enter", "loop")
  /\ loop' = "running"
  /\ UNCHANGED <<libvars, playback, closing, timer, pending, sig, seen>>

\* g_main_loop_run returns and drops the last reference.
MainLoopReturns ==
  /\ Goto("loop", IF playback THEN "config" ELSE "quit")
  /\ loop = "quit" /\ Depth = 0 /\ ~closing
  /\ loop' = "freed"
  /\ UNCHANGED <<libvars, playback, closing, timer, pending, sig, seen>>

Quit ==
  /\ Goto("quit", "stopping")
  /\ StopPipeline("main")
  /\ UNCHANGED <<playback, loop, closing, timer, pending, sig, seen>>

QuitReturns ==
  /\ Stopped /\ Top.who = "main"
  /\ Goto("stopping", "cleanup")
  /\ StopReturns
  /\ UNCHANGED <<playback, loop, closing, timer, pending, sig, seen>>

Cleanup ==
  /\ Goto("cleanup", "ended")
  /\ UNCHANGED <<libvars, playback, loop, closing, timer, pending, sig, seen>>

-----------------------------------------------------------------------------
\* Callbacks run on the main loop, or on the loop of the innermost stop_pipeline.
Dispatching ==
  /\ ~crashed /\ ~closing
  /\ IF Depth = 0 THEN pc = "loop" ELSE Top.wait # "no"

\* A callback's look at app_data.loop, which may have been freed: what is then
\* read is arbitrary, and if it looks like a running loop, freed memory is changed.
Inspect ==
  /\ closing' = (loop = "running")
  /\ IF loop = "freed" THEN crashed' \in BOOLEAN ELSE UNCHANGED crashed
  /\ UNCHANGED <<cfg, gen, app, st, bus, asked, stack, faults>>

\* time_cb: at EVENT_EOS quit the main loop, and never come back.
TimeCb ==
  /\ Dispatching /\ timer
  /\ IF AllEos
     THEN /\ Inspect /\ timer' = FALSE
          /\ seen' = IF Depth = 0 /\ playback THEN seen \cup {"restarted"} ELSE seen
     ELSE GetPosition /\ UNCHANGED <<timer, closing, seen>>
  /\ UNCHANGED <<playback, pc, loop, pending, sig>>

\* Mutant of LoopCb: quit_pipeline is left to main, which does it only at the end.
LoopCb_NoStop ==
  /\ Dispatching /\ pending > 0
  /\ pending' = pending - 1
  /\ closing' = (playback /\ loop = "running")
  /\ UNCHANGED <<libvars, playback, pc, loop, timer, sig, seen>>

\* loop_cb, up to and with its call of quit_pipeline.
LoopCb ==
  /\ Dispatching /\ pending > 0
  /\ pending' = pending - 1
  /\ StopPipeline("loop_cb")
  /\ seen' = IF Depth > 0 THEN seen \cup {"overlap"} ELSE seen
  /\ UNCHANGED <<playback, pc, loop, closing, timer, sig>>

\* The rest of loop_cb.
LoopCbReturns ==
  /\ Stopped /\ Top.who = "loop_cb" /\ ~closing
  /\ stack' = SubSeq(stack, 1, Depth - 1)
  /\ closing' = (playback /\ loop = "running")
  /\ IF playback /\ loop = "freed" THEN crashed' \in BOOLEAN ELSE UNCHANGED crashed
  /\ UNCHANGED <<cfg, gen, app, st, bus, asked, faults>>
  /\ UNCHANGED <<playback, pc, loop, timer, pending, sig, seen>>

\* g_main_loop_quit and unref.  If the signal handler has done so since the
\* test, the reference that is dropped is that of g_main_loop_run.
CloseLoop ==
  /\ ~crashed /\ closing
  /\ closing' = FALSE
  /\ loop' = "quit"
  /\ crashed' = (loop # "running")
  /\ UNCHANGED <<cfg, gen, app, st, bus, asked, stack, faults>>
  /\ UNCHANGED <<playback, pc, timer, pending, sig, seen>>

SignalHandler ==
  /\ ~crashed /\ ~sig /\ pc # "ended"
  /\ sig' = TRUE
  /\ playback' = FALSE
  /\ loop' = IF loop = "running" THEN "quit" ELSE loop
  /\ seen' = IF loop = "running" THEN seen \cup {"caught"} ELSE seen
  /\ IF loop = "freed" THEN crashed' \in BOOLEAN ELSE UNCHANGED crashed
  /\ UNCHANGED <<cfg, gen, app, st, bus, asked, stack, faults>>
  /\ UNCHANGED <<pc, closing, timer, pending>>

-----------------------------------------------------------------------------
\* What GStreamer does, as long as the process lives.
GStreamer(p) ==
  /\ ~crashed /\ pc # "ended"
  /\ Drain(p) \/ EndOfStream(p) \/ PipelineError(p)
  /\ UNCHANGED appvars

BusMessage(p) ==
  /\ Dispatching
  /\ BusSeek(p) \/ BusEos(p) \/ BusError(p)
  /\ UNCHANGED appvars

StopStep ==
  /\ ~closing
  /\ \/ \E i \in Sources : NoHandle(i) \/ StopNow(i) \/ SendEos(i) \/ EosRefused(i)
     \/ WaitOver
  /\ UNCHANGED appvars

MainStep ==
  \/ Configure \/ Start \/ ArmLoopCb \/ NewMainLoop \/ RunMainLoop
  \/ MainLoopReturns \/ Quit \/ QuitReturns \/ Cleanup \/ LoopCbReturns \/ CloseLoop

Next ==
  \/ MainStep
  \/ StopStep
  \/ TimeCb
  \/ LoopCb
  \/ SignalHandler
  \/ \E p \in Pipelines : GStreamer(p) \/ BusMessage(p)

Spec == Init /\ [][Next]_vars

\* The main thread runs on, dispatches every message and every timer that is
\* due, and an EOS that was sent to a playing pipeline drains.
FairSpec ==
  /\ Spec
  /\ WF_vars(MainStep) /\ WF_vars(StopStep)
  /\ WF_vars(TimeCb) /\ WF_vars(LoopCb)
  /\ \A p \in Pipelines :
       /\ WF_vars(~crashed /\ pc # "ended" /\ Drain(p) /\ UNCHANGED appvars)
       /\ WF_vars(BusMessage(p))

-----------------------------------------------------------------------------
\* loop_playback starts a new round without stop_pipeline after an end of
\* stream; a state change to NULL may fail.
Excused == "restarted" \in seen \/ "null" \in faults

\* A pipeline that exists is the one stop_pipeline would find, so none can be
\* left behind holding its device while the next round opens it: init_struct_params
\* (vgst_utils.c:53) forgets all handles.  It relies on loop_cb having stopped
\* everything before main goes round.
OneOwner == \A p \in Pipelines : st[p] \in Alive /\ ~Excused => app[p[1]].pipeline = p[2]

\* When the process ends, no pipeline is left as it was, whatever failed on the
\* way: a start that fails half-way has its pipelines stopped (main, QUIT).
NothingLeft == pc = "ended" /\ ~Excused => \A p \in Pipelines : st[p] \notin Alive

\* A recording is taken down only behind its EOS, an error, or a refusal of the
\* EOS: a file without its trailer cannot be played (stop_pipeline, vgst_utils.c:607).
RecordsClosed == "null" \notin faults => \A p \in Pipelines : st[p] # "cut"

\* Without the signal, and if nothing failed, no callback touches a loop that
\* has been freed, although app_data.loop and play_ptr->loop are never cleared.
NoStrayLoop == crashed => sig \/ faults # {}

\* The types, and the two: the process holds neither a loop nor a pipeline that
\* nobody can reach.
Consistent == TypeOK /\ NothingLeft /\ NoStrayLoop

\* Ctrl-C during playback ends the program: the loop ends, recordings are
\* drained, the pipelines stopped.  Not if stop_pipeline has been entered
\* twice (CtrlCEndsApp), or the heap is already broken.
CtrlCEnds ==
  ("caught" \in seen) ~> (pc = "ended" \/ crashed \/ "overlap" \in seen)

\* Without loop playback, the program ends when every source has ended.
EosEnds ==
  (pc = "loop" /\ ~cfg.loop /\ AllEos) ~> (pc = "ended" \/ crashed)

\* With loop playback no round lasts for ever.
RoundsEnd ==
  (pc = "loop" /\ playback) ~> (pc # "loop" \/ crashed \/ "overlap" \in seen)

\* So the program goes on to its end or to its next round by itself.
RunEnds == EosEnds /\ RoundsEnd

\* What signal_handler prints when it has found the loop running, "Quitting the
\* app now" (vcu_gst_app.c:943), without the exception of CtrlCEnds.
CtrlCEndsApp == ("caught" \in seen) ~> (pc = "ended" \/ crashed)
=============================================================================
