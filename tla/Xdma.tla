--------------------------------- MODULE Xdma ---------------------------------
(***************************************************************************)
(* One channel of the host's DMA driver (xdma.ko: cdev_sgdma.c, libxdma.c, *)
(* xdma_mod.c) and the engine it drives.  Threads that read or write the   *)
(* character device submit transfers, the interrupt handler and its work   *)
(* item, or in poll mode the submitter itself, collect them, the PCI core  *)
(* takes the device off line and on line again.                            *)
(*                                                                         *)
(* A channel has one block of descriptors.  desc_lock guards it from       *)
(* transfer_init to transfer_destroy, across the wait; the engine's lock   *)
(* is held inside one action, or by svc while a service of the engine is   *)
(* between two reads of the hardware.  A transfer is named by its thread.  *)
(*                                                                         *)
(* The hardware takes one descriptor at a time.  Cleared RUN lets it end   *)
(* the one in progress.  busyLag is the race of "older HW"                 *)
(* (engine_err_handle): BUSY falls behind the interrupt.  While the link   *)
(* is down between off line and on line the hardware is reset.  A read of  *)
(* a register always answers, and the user's buffer can always be mapped.  *)
(* Streaming engines and cyclic transfers, the performance test and user   *)
(* interrupts are left out.                                                *)
(***************************************************************************)
EXTENDS Naturals, Sequences

CONSTANTS
  Threads,    \* callers of read and write on one channel
  None,       \* no thread
  Work,       \* the work item engine_service_work
  Requests,   \* lengths of the calls, in descriptors
  MaxDesc,    \* XDMA_TRANSFER_MAX_DESC, descriptors of a transfer
  Word,       \* 2^32, the range of a descriptor count
  PollModes,  \* values of the module parameter poll_mode
  BusyLags,   \* whether the hardware is the older one
  MaxCalls,   \* bounds on the calls, ...
  MaxFaults,  \* the errors of the hardware, ...
  MaxResets   \* and the resets of the device

ASSUME XdmaAssumption ==
  /\ None \notin Threads /\ Work \notin Threads /\ None # Work
  /\ None \notin [owner : Threads \cup {None}, last : BOOLEAN]
  /\ Requests \subseteq Nat \ {0}
  /\ MaxDesc \in Nat \ {0}
  /\ Word \in Nat /\ Word > 2 * MaxDesc
  /\ PollModes \subseteq BOOLEAN /\ BusyLags \subseteq BOOLEAN
  /\ MaxCalls \in Nat /\ MaxFaults \in Nat /\ MaxResets \in Nat

VARIABLES
  poll,       \* module parameter poll_mode
  busyLag,
  pc,         \* the threads, in char_sgdma_read_write and below
  left,       \* descriptors of the call that no transfer has had yet
  xfer,       \* struct xdma_transfer; moved: history, what the hardware did of it
  result,     \* what the last call returned
  calls,
  descLock,   \* the thread that holds desc_lock
  desc,       \* the descriptor block: whose it is and how long
  list,       \* transfer_list
  eng,        \* struct xdma_engine
  svc,        \* the service of the engine that holds its lock
  work,       \* work item scheduled
  seen,       \* poll mode: the write-back the submitter found
  wb,         \* write-back word in host memory
  hw,         \* the engine's hardware
  faults,
  pci,        \* how far the device is taken off line or on line
  resets,
  started,    \* history: the transfer the engine was started for, when idle
  why         \* history: what has gone wrong

caller == <<pc, left, xfer, result, calls, descLock, desc>>
engine == <<list, eng, svc, work, seen, started>>
bus    == <<pci, resets>>
fixed  == <<poll, busyLag>>
vars   == <<fixed, caller, engine, wb, hw, faults, bus, why>>

Trouble == {"fault", "gaveup", "lag", "reset"}
Where   == {"idle", "lock", "init", "queue", "wait", "service", "reap"}
State   == {"NEW", "SUBMITTED", "COMPLETED", "FAILED", "ABORTED"}
Phase   == {"up", "flagged", "stopped", "down", "reset", "regs", "open"}
NoCount == [n |-> 0, err |-> FALSE]
Counts  == [n : Nat, err : BOOLEAN]

Hardware ==
  [run : BOOLEAN, busy : BOOLEAN, lagging : BOOLEAN, irqEn : BOOLEAN,
   cur : [owner : Threads \cup {None}, last : BOOLEAN] \cup {None},
   idx : Nat, cnt : Nat, stat : SUBSET {"done", "err"}]
Engine ==
  [running : BOOLEAN, request : BOOLEAN, dequeued : Nat, busy : BOOLEAN, err : BOOLEAN]

TypeOK ==
  /\ poll \in BOOLEAN /\ busyLag \in BOOLEAN
  /\ pc \in [Threads -> Where]
  /\ left \in [Threads -> Nat]
  /\ xfer \in [Threads -> [state : State, n : 0 .. MaxDesc, moved : Nat]]
  /\ result \in [Threads -> {"none", "done", "EIO", "EBUSY", "ERESTARTSYS"}]
  /\ calls \in 0 .. MaxCalls
  /\ descLock \in Threads \cup {None}
  /\ desc \in [owner : Threads \cup {None}, n : 0 .. MaxDesc]
  /\ list \in Seq(Threads)
  /\ eng \in Engine
  /\ svc \in [by : Threads \cup {Work, None}, step : {"count", "list"}, count : Nat]
  /\ work \in BOOLEAN
  /\ seen \in Counts /\ wb \in Counts
  /\ hw \in Hardware
  /\ faults \in 0 .. MaxFaults
  /\ pci \in Phase /\ resets \in 0 .. MaxResets
  /\ started \in Threads \cup {None}
  /\ why \subseteq Trouble

NoService == [by |-> None, step |-> "count", count |-> 0]
NoDesc    == [owner |-> None, n |-> 0]
HwReset   == [run |-> FALSE, busy |-> FALSE, lagging |-> FALSE, irqEn |-> FALSE,
              cur |-> None, idx |-> 0, cnt |-> 0, stat |-> {}]

Init ==
  /\ poll \in PollModes /\ busyLag \in BusyLags
  /\ pc = [t \in Threads |-> "idle"]
  /\ left = [t \in Threads |-> 0]
  /\ xfer = [t \in Threads |-> [state |-> "NEW", n |-> 0, moved |-> 0]]
  /\ result = [t \in Threads |-> "none"]
  /\ calls = 0
  /\ descLock = None
  /\ desc = NoDesc
  /\ list = << >>
  /\ eng = [running |-> FALSE, request |-> FALSE, dequeued |-> 0,
            busy |-> FALSE, err |-> FALSE]
  /\ svc = NoService
  /\ work = FALSE
  /\ seen = NoCount /\ wb = NoCount
  /\ hw = [HwReset EXCEPT !.irqEn = TRUE]
  /\ faults = 0
  /\ pci = "up" /\ resets = 0
  /\ started = None
  /\ why = {}

-----------------------------------------------------------------------------
(* Parts of the handlers. *)

Offline == pci # "up"
Locked  == svc.by # None

\* engine_status_read(engine, 0, 0) keeps what it read in engine->status.
ReadStatus(e) == [e EXCEPT !.busy = hw.busy, !.err = "err" \in hw.stat]

\* xdma_engine_stop: RUN is cleared, the interrupts of the engine stay enabled.
Stop(h) == [h EXCEPT !.run = FALSE]

\* Mutant: desc_dequeued keeps the count of the last run.
EngineStart_KeepsDequeued(q, e, h) ==
  /\ hw' = [h EXCEPT !.run = TRUE, !.busy = TRUE, !.lagging = FALSE,
                     !.idx = 0, !.cnt = 0]
  /\ eng' = [e EXCEPT !.running = TRUE, !.request = FALSE,
                      !.busy = TRUE, !.err = "err" \in h.stat]
  /\ started' = IF h.cur = None THEN Head(q) ELSE None

\* engine_start, for the first transfer of queue q of engine e over hardware h.
EngineStart(q, e, h) ==
  /\ hw' = [h EXCEPT !.run = TRUE, !.busy = TRUE, !.lagging = FALSE,
                     !.idx = 0, !.cnt = 0]
  /\ eng' = [e EXCEPT !.running = TRUE, !.request = FALSE, !.dequeued = 0,
                      !.busy = TRUE, !.err = "err" \in h.stat]
  /\ started' = IF h.cur = None THEN Head(q) ELSE None

Goto(t, where) == pc' = [pc EXCEPT ![t] = where]

\* The call returns: the pages are unmapped and the user has the buffer back.
Return(t, r) ==
  /\ Goto(t, "idle")
  /\ result' = [result EXCEPT ![t] = r]

SmallerOf(a, b) == IF a < b THEN a ELSE b

-----------------------------------------------------------------------------
(* The threads: char_sgdma_read_write and xdma_xfer_submit. *)

Call(t) ==
  /\ pc[t] = "idle" /\ calls < MaxCalls
  /\ calls' = calls + 1
  /\ \E k \in Requests :
       IF Offline
         THEN Return(t, "EBUSY") /\ UNCHANGED left
         ELSE /\ Goto(t, "lock")
              /\ left' = [left EXCEPT ![t] = k]
              /\ UNCHANGED result
  /\ UNCHANGED <<fixed, xfer, descLock, desc, engine, wb, hw, faults, bus, why>>

\* Mutant: desc_lock is free for all.
TakeDescLock_Free(t) ==
  /\ pc[t] = "lock"
  /\ descLock' = t
  /\ Goto(t, "init")
  /\ UNCHANGED <<fixed, left, xfer, result, calls, desc, engine, wb, hw, faults,
                 bus, why>>

\* spin_lock(&engine->desc_lock)
TakeDescLock(t) ==
  /\ pc[t] = "lock" /\ descLock = None
  /\ descLock' = t
  /\ Goto(t, "init")
  /\ UNCHANGED <<fixed, left, xfer, result, calls, desc, engine, wb, hw, faults,
                 bus, why>>

\* transfer_init writes the descriptors; transfer_queue looks at the off-line
\* flag before it takes the engine's lock.
TransferInit(t) ==
  /\ pc[t] = "init"
  /\ LET n == SmallerOf(left[t], MaxDesc)
     IN  /\ desc' = [owner |-> t, n |-> n]
         /\ left' = [left EXCEPT ![t] = @ - n]
         /\ xfer' = [xfer EXCEPT ![t] = [state |-> "NEW", n |-> n, moved |-> 0]]
  /\ started' = IF started = t THEN None ELSE started
  /\ IF Offline
       THEN Return(t, "EBUSY") /\ descLock' = None
       ELSE Goto(t, "queue") /\ UNCHANGED <<result, descLock>>
  /\ UNCHANGED <<fixed, calls, list, eng, svc, work, seen, wb, hw, faults, bus, why>>

\* Mutant: an engine that is shut down accepts transfers.
TransferQueue_NoRequest(t) ==
  /\ pc[t] = "queue" /\ ~Locked
  /\ IF FALSE
       THEN /\ Return(t, "EBUSY")
            /\ descLock' = None
            /\ UNCHANGED <<xfer, list, eng, hw, started>>
       ELSE /\ xfer' = [xfer EXCEPT ![t].state = "SUBMITTED"]
            /\ list' = Append(list, t)
            /\ IF eng.running THEN UNCHANGED <<eng, hw, started>>
                              ELSE EngineStart(list', eng, hw)
            /\ Goto(t, "wait")
            /\ UNCHANGED <<descLock, result>>
  /\ UNCHANGED <<fixed, left, calls, desc, svc, work, seen, wb, faults, bus, why>>

\* Mutant: desc_lock is not released when the engine refuses.
TransferQueue_KeepsLock(t) ==
  /\ pc[t] = "queue" /\ ~Locked
  /\ IF eng.request
       THEN /\ Return(t, "EBUSY")
            /\ UNCHANGED <<descLock, xfer, list, eng, hw, started>>
       ELSE /\ xfer' = [xfer EXCEPT ![t].state = "SUBMITTED"]
            /\ list' = Append(list, t)
            /\ IF eng.running THEN UNCHANGED <<eng, hw, started>>
                              ELSE EngineStart(list', eng, hw)
            /\ Goto(t, "wait")
            /\ UNCHANGED <<descLock, result>>
  /\ UNCHANGED <<fixed, left, calls, desc, svc, work, seen, wb, faults, bus, why>>

\* transfer_queue under the engine's lock.
TransferQueue(t) ==
  /\ pc[t] = "queue" /\ ~Locked
  /\ IF eng.request
       THEN /\ Return(t, "EBUSY")
            /\ descLock' = None
            /\ UNCHANGED <<xfer, list, eng, hw, started>>
       ELSE /\ xfer' = [xfer EXCEPT ![t].state = "SUBMITTED"]
            /\ list' = Append(list, t)
            /\ IF eng.running THEN UNCHANGED <<eng, hw, started>>
                              ELSE EngineStart(list', eng, hw)
            /\ Goto(t, "wait")
            /\ UNCHANGED <<descLock, result>>
  /\ UNCHANGED <<fixed, left, calls, desc, svc, work, seen, wb, faults, bus, why>>

\* wait_event_interruptible_timeout sees that the transfer was collected, ...
Wake(t) ==
  /\ pc[t] = "wait" /\ ~poll
  /\ xfer[t].state # "SUBMITTED"
  /\ Goto(t, "reap")
  /\ UNCHANGED <<fixed, left, xfer, result, calls, descLock, desc, engine, wb, hw,
                 faults, bus, why>>

\* ... or ends by the time-out or a signal, which may be too late to matter.
WaitEnds(t) ==
  /\ pc[t] = "wait" /\ ~poll
  /\ xfer[t].state = "SUBMITTED"
  /\ Goto(t, "reap")
  /\ UNCHANGED <<fixed, left, xfer, result, calls, descLock, desc, engine, wb, hw,
                 faults, bus, why>>

\* engine_service_wb_monitor finds the count it waits for or an error, ...
PollFinds(t) ==
  /\ pc[t] = "wait" /\ poll
  /\ wb.err \/ wb.n = xfer[t].n
  /\ seen' = wb
  /\ Goto(t, "service")
  /\ UNCHANGED <<fixed, left, xfer, result, calls, descLock, desc, list, eng, svc,
                 work, started, wb, hw, faults, bus, why>>

\* ... or takes what is there after POLL_TIMEOUT_SECONDS.
PollTimesOut(t) ==
  /\ pc[t] = "wait" /\ poll
  /\ ~wb.err /\ wb.n # xfer[t].n
  /\ seen' = IF wb.n > xfer[t].n THEN [n |-> xfer[t].n, err |-> TRUE] ELSE wb
  /\ why' = why \cup {"gaveup"}
  /\ Goto(t, "service")
  /\ UNCHANGED <<fixed, left, xfer, result, calls, descLock, desc, list, eng, svc,
                 work, started, wb, hw, faults, bus>>

\* xdma_xfer_submit looks at the transfer under the engine's lock, and aborts
\* one that nobody has collected.  transfer_destroy clears the descriptors; what
\* the hardware still does of the transfer it does for nobody.
Reap(t) ==
  /\ pc[t] = "reap" /\ ~Locked
  /\ LET collected == xfer[t].state \in {"COMPLETED", "FAILED"}
         gone == IF hw.cur # None /\ hw.cur.owner = t
                   THEN [hw EXCEPT !.cur.owner = None] ELSE hw
     IN  IF collected
           THEN /\ hw' = gone
                /\ UNCHANGED <<xfer, list, eng, why>>
           ELSE /\ eng' = ReadStatus(eng)
                /\ list' = IF list # << >> /\ Head(list) = t THEN Tail(list) ELSE list
                /\ xfer' = [xfer EXCEPT ![t].state = "ABORTED"]
                /\ hw' = Stop(gone)
                /\ why' = why \cup {"gaveup"}
  /\ CASE xfer[t].state = "COMPLETED" /\ left[t] > 0 ->
            Goto(t, "lock") /\ UNCHANGED result
       [] xfer[t].state = "COMPLETED" /\ left[t] = 0 -> Return(t, "done")
       [] xfer[t].state = "FAILED" -> Return(t, "EIO")
       [] OTHER -> Return(t, "ERESTARTSYS")
  /\ desc' = NoDesc
  /\ descLock' = None
  /\ UNCHANGED <<fixed, left, calls, svc, work, seen, started, wb, faults, bus>>

-----------------------------------------------------------------------------
(* engine_service, called with the engine's lock held: by the work item with *)
(* a count of 0, by a polling thread with the write-back it found.           *)

\* Mutant: engine_service_shutdown leaves running set.
ServiceBegins_StaysRunning(who, c) ==
  LET read == c.n = 0 \/ c.err
      e    == IF read THEN ReadStatus(eng) ELSE eng
      h    == IF read THEN [hw EXCEPT !.stat = {}] ELSE hw
      over == ~e.busy \/ c.n # 0
  IN  /\ eng' = e
      /\ hw' = IF over THEN Stop(h) ELSE h
      /\ svc' = [by |-> who, step |-> "count", count |-> c.n]

\* The status is read and cleared unless a count was handed in; an engine that
\* is not busy, or whose count was written back, is taken to have stopped.
ServiceBegins(who, c) ==
  LET read == c.n = 0 \/ c.err
      e    == IF read THEN ReadStatus(eng) ELSE eng
      h    == IF read THEN [hw EXCEPT !.stat = {}] ELSE hw
      over == ~e.busy \/ c.n # 0
  IN  /\ eng' = [e EXCEPT !.running = ~over]
      /\ hw' = IF over THEN Stop(h) ELSE h
      /\ svc' = [by |-> who, step |-> "count", count |-> c.n]

\* An engine that does not run only has its status cleared.
ServiceIdle ==
  /\ eng' = ReadStatus(eng)
  /\ UNCHANGED svc

\* engine_service_work, up to the first read of the hardware.
ServiceWork ==
  /\ work /\ ~Locked
  /\ work' = FALSE
  /\ IF eng.running
       THEN ServiceBegins(Work, NoCount)
       ELSE ServiceIdle /\ hw' = [hw EXCEPT !.stat = {}, !.irqEn = TRUE]
  /\ UNCHANGED <<fixed, caller, list, seen, started, wb, faults, bus, why>>

\* engine_service_poll
ServicePoll(t) ==
  /\ pc[t] = "service" /\ ~Locked
  /\ IF eng.running
       THEN ServiceBegins(t, seen) /\ UNCHANGED pc
       ELSE ServiceIdle /\ hw' = [hw EXCEPT !.stat = {}] /\ Goto(t, "reap")
  /\ UNCHANGED <<fixed, left, xfer, result, calls, descLock, desc, list, work, seen,
                 started, wb, faults, bus, why>>

\* Without a write-back the count comes from the hardware; the descriptors of
\* transfers dequeued in this run are taken off, modulo the range of a count.
ReadCount ==
  /\ Locked /\ svc.step = "count"
  /\ LET c == IF svc.count = 0 THEN hw.cnt ELSE svc.count
     IN  svc' = [svc EXCEPT !.step = "list",
                            !.count = (c + Word - eng.dequeued) % Word]
  /\ UNCHANGED <<fixed, caller, list, eng, work, seen, started, wb, hw, faults, bus, why>>

Collect(t, state) ==
  /\ xfer' = [xfer EXCEPT ![t].state = state]
  /\ list' = Tail(list)

PastFirst == list # << >> /\ svc.count > xfer[Head(list)].n

\* One round of engine_service_transfer_list.
ServiceTransfer ==
  /\ Locked /\ svc.step = "list" /\ PastFirst
  /\ Collect(Head(list), "COMPLETED")
  /\ svc' = [svc EXCEPT !.count = @ - xfer[Head(list)].n]
  /\ eng' = [eng EXCEPT !.dequeued = @ + xfer[Head(list)].n]
  /\ UNCHANGED <<fixed, pc, left, result, calls, descLock, desc, work, seen, started,
                 wb, hw, faults, bus, why>>

\* engine_service_resume starts an engine that has stopped with transfers left.
Resume(q, e, h) ==
  IF ~e.running /\ q # << >>
    THEN EngineStart(q, e, h)
    ELSE hw' = h /\ eng' = e /\ UNCHANGED started

\* Mutant: the write-back data are not cleared.
ServiceFinal_KeepsCount ==
  /\ Locked /\ svc.step = "list" /\ ~PastFirst
  /\ LET h == IF svc.by = Work THEN [hw EXCEPT !.irqEn = TRUE] ELSE hw
     IN  IF list = << >>
           THEN UNCHANGED <<xfer, list>> /\ Resume(list, eng, h)
           ELSE LET n == xfer[Head(list)].n
                IN  /\ Collect(Head(list), IF eng.err \/ svc.count < n
                                             THEN "FAILED" ELSE "COMPLETED")
                    /\ Resume(list', [eng EXCEPT !.dequeued = @ + n],
                              IF eng.err THEN Stop(h) ELSE h)
  /\ UNCHANGED wb
  /\ IF svc.by = Work THEN UNCHANGED pc ELSE Goto(svc.by, "reap")
  /\ svc' = NoService
  /\ UNCHANGED <<fixed, left, result, calls, descLock, desc, work, seen, faults, bus, why>>

\* engine_service_final_transfer, engine_service_resume and the return to
\* engine_service_work, which enables the interrupt, or to the polling thread.
ServiceFinal ==
  /\ Locked /\ svc.step = "list" /\ ~PastFirst
  /\ LET h == IF svc.by = Work THEN [hw EXCEPT !.irqEn = TRUE] ELSE hw
     IN  IF list = << >>
           THEN UNCHANGED <<xfer, list>> /\ Resume(list, eng, h)
           ELSE LET n == xfer[Head(list)].n
                IN  /\ Collect(Head(list), IF eng.err \/ svc.count < n
                                             THEN "FAILED" ELSE "COMPLETED")
                    /\ Resume(list', [eng EXCEPT !.dequeued = @ + n],
                              IF eng.err THEN Stop(h) ELSE h)
  /\ wb' = IF poll THEN NoCount ELSE wb
  /\ IF svc.by = Work THEN UNCHANGED pc ELSE Goto(svc.by, "reap")
  /\ svc' = NoService
  /\ UNCHANGED <<fixed, left, result, calls, descLock, desc, work, seen, faults, bus, why>>

\* xdma_isr or xdma_channel_irq: the interrupt is off until the work is done.
Interrupt ==
  /\ ~poll /\ pci \in {"up", "flagged", "stopped"}
  /\ hw.irqEn /\ hw.stat # {}
  /\ hw' = [hw EXCEPT !.irqEn = FALSE]
  /\ work' = TRUE
  /\ UNCHANGED <<fixed, caller, list, eng, svc, seen, started, wb, faults, bus, why>>

-----------------------------------------------------------------------------
(* The hardware of the engine. *)

program == <<fixed, pc, left, result, calls, descLock, desc, engine, bus>>

\* The engine ends with an error: the status tells, or the write-back.
HwEndsBadly ==
  /\ hw' = [hw EXCEPT !.cur = None, !.busy = FALSE, !.stat = @ \cup {"err"}]
  /\ wb' = IF poll THEN [n |-> hw.cnt, err |-> TRUE] ELSE wb

\* It fetches the next descriptor; one that was cleared has no magic number.
HwFetch ==
  /\ hw.run /\ hw.busy /\ ~hw.lagging /\ hw.cur = None
  /\ IF hw.idx < desc.n
       THEN /\ hw' = [hw EXCEPT !.cur = [owner |-> desc.owner,
                                         last  |-> hw.idx + 1 = desc.n],
                                !.idx = @ + 1]
            /\ UNCHANGED wb
       ELSE HwEndsBadly
  /\ UNCHANGED <<program, xfer, faults, why>>

\* A descriptor is done.  The last one of a transfer has STOPPED and COMPLETED.
HwDone ==
  /\ hw.cur # None
  /\ LET h == [hw EXCEPT !.cur = None, !.cnt = @ + 1]
     IN  IF hw.cur.last
           THEN /\ hw' = [h EXCEPT !.stat = @ \cup {"done"}, !.busy = busyLag,
                                   !.lagging = busyLag]
                /\ wb' = IF poll THEN [n |-> h.cnt, err |-> FALSE] ELSE wb
                /\ why' = IF busyLag THEN why \cup {"lag"} ELSE why
           ELSE hw' = h /\ UNCHANGED <<wb, why>>
  /\ xfer' = IF hw.cur.owner = None THEN xfer
             ELSE [xfer EXCEPT ![hw.cur.owner].moved = @ + 1]
  /\ UNCHANGED <<program, faults>>

HwFault ==
  /\ hw.cur # None /\ faults < MaxFaults
  /\ faults' = faults + 1
  /\ why' = why \cup {"fault"}
  /\ HwEndsBadly
  /\ UNCHANGED <<program, xfer>>

\* BUSY falls late, or because RUN was cleared.
HwIdle ==
  /\ hw.busy /\ hw.cur = None /\ (hw.lagging \/ ~hw.run)
  /\ hw' = [hw EXCEPT !.busy = FALSE, !.lagging = FALSE,
                      !.stat = IF hw.lagging THEN @ \cup {"done"} ELSE @]
  /\ UNCHANGED <<program, xfer, wb, faults, why>>

-----------------------------------------------------------------------------
(* The PCI core takes the device off line and on line: xdma_device_offline,  *)
(* a reset of the device, xdma_device_online.                                *)

Advance(from, to) == pci = from /\ pci' = to

\* xdma_error_detected or xdma_reset_prepare calls xdma_device_offline.
SetOffline ==
  /\ Advance("up", "flagged") /\ resets < MaxResets
  /\ resets' = resets + 1
  /\ why' = why \cup {"reset"}
  /\ UNCHANGED <<fixed, caller, engine, wb, hw, faults>>

StopEngine ==
  /\ Advance("flagged", "stopped") /\ ~Locked
  /\ eng' = [eng EXCEPT !.request = TRUE, !.running = FALSE]
  /\ hw' = Stop(hw)
  /\ UNCHANGED <<fixed, caller, list, svc, work, seen, started, wb, faults, resets, why>>

IrqTeardown ==
  /\ Advance("stopped", "down")
  /\ UNCHANGED <<fixed, caller, engine, wb, hw, faults, resets, why>>

DeviceReset ==
  /\ Advance("down", "reset")
  /\ hw' = HwReset
  /\ UNCHANGED <<fixed, caller, engine, wb, faults, resets, why>>

\* Mutant: engine_writeback_setup does not clear the write-back data.
InitRegs_KeepsCount ==
  /\ Advance("reset", "regs")
  /\ hw' = [hw EXCEPT !.irqEn = TRUE]
  /\ UNCHANGED wb
  /\ UNCHANGED <<fixed, caller, engine, faults, resets, why>>

\* xdma_device_online: engine_init_regs, ...
InitRegs ==
  /\ Advance("reset", "regs")
  /\ hw' = [hw EXCEPT !.irqEn = TRUE]
  /\ wb' = NoCount
  /\ UNCHANGED <<fixed, caller, engine, faults, resets, why>>

ClearRequest ==
  /\ Advance("regs", "open") /\ ~Locked
  /\ eng' = [eng EXCEPT !.request = FALSE]
  /\ UNCHANGED <<fixed, caller, list, svc, work, seen, started, wb, hw, faults, resets, why>>

\* ... then the interrupts, and the flag last.
SetOnline ==
  /\ Advance("open", "up")
  /\ UNCHANGED <<fixed, caller, engine, wb, hw, faults, resets, why>>

-----------------------------------------------------------------------------
ThreadStep(t) ==
  \/ TakeDescLock(t) \/ TransferInit(t) \/ TransferQueue(t)
  \/ Wake(t) \/ WaitEnds(t) \/ PollFinds(t) \/ PollTimesOut(t)
  \/ ServicePoll(t) \/ Reap(t)

ServiceStep == ReadCount \/ ServiceTransfer \/ ServiceFinal

HwStep == HwFetch \/ HwDone \/ HwFault \/ HwIdle

PciStep ==
  \/ SetOffline \/ StopEngine \/ IrqTeardown \/ DeviceReset
  \/ InitRegs \/ ClearRequest \/ SetOnline

\* All calls made and returned, and nothing left to do.
Finished ==
  /\ calls = MaxCalls /\ \A t \in Threads : pc[t] = "idle"
  /\ UNCHANGED vars

Next ==
  \/ \E t \in Threads : Call(t) \/ ThreadStep(t)
  \/ Interrupt \/ ServiceWork \/ ServiceStep
  \/ HwStep
  \/ PciStep
  \/ Finished

Spec == Init /\ [][Next]_vars

\* The scheduler runs the threads and the work item, time-outs come, and the
\* PCI core finishes what it has begun.  The hardware may stall.
FairSpec ==
  /\ Spec
  /\ \A t \in Threads : WF_vars(ThreadStep(t))
  /\ WF_vars(ServiceWork) /\ WF_vars(ServiceStep)
  /\ WF_vars(StopEngine) /\ WF_vars(ClearRequest)

-----------------------------------------------------------------------------
(* Properties. *)

\* desc_lock makes the queue of an engine a queue of one: the only transfer it
\* ever holds is that of the thread that has the descriptors and waits for it.
\* The loop over finished transfers and the restart rely on more, transfer_abort
\* (which looks at the head only) and the one descriptor block on exactly this.
OneInQueue ==
  /\ Len(list) <= 1
  /\ list # << >> => /\ descLock = Head(list)
                     /\ pc[Head(list)] \in {"wait", "service", "reap"}
                     /\ xfer[Head(list)].state = "SUBMITTED"

\* A transfer for which the engine was started is "succesfully completed"
\* (engine_service_transfer_list) only when the hardware did all of it.
CompletedWasMoved ==
  \A t \in Threads :
    xfer[t].state = "COMPLETED" /\ started = t => xfer[t].moved >= xfer[t].n

\* The same of every transfer.
CompletedMeansMoved ==
  \A t \in Threads : xfer[t].state = "COMPLETED" => xfer[t].moved >= xfer[t].n

\* A transfer fails because something went wrong, never because the service of
\* the engine, the interrupt and another submitter met in some order.
FailedHasCause ==
  \A t \in Threads : xfer[t].state = "FAILED" => why # {}

\* The hardware works on a descriptor of a transfer that its caller has let go
\* of (its pages are unmapped, its descriptors cleared) only after a caller
\* gave up or the device was reset.
InFlightIsOwned ==
  hw.cur # None /\ hw.cur.owner = None => why \cap {"gaveup", "reset"} # {}

\* The types, which exclude a count below zero, and the owner of the descriptors.
Consistent == TypeOK /\ InFlightIsOwned

\* Between xdma_device_offline and xdma_device_online nothing starts the engine.
OfflineIsQuiet == pci \in {"stopped", "down", "reset", "regs"} => ~hw.run

\* A queued transfer is never forgotten: the hardware works, or an interrupt, a
\* work item or a service will look at the queue, until a caller gave up or the
\* device was reset.
QueuedIsServed ==
  list # << >> /\ ~poll =>
    \/ hw.busy \/ work \/ Locked
    \/ hw.stat # {} /\ hw.irqEn
    \/ why \cap {"gaveup", "reset"} # {}

\* Every read and write returns, whatever the hardware does.
CallsReturn == \A t \in Threads : pc[t] # "idle" ~> pc[t] = "idle"
=============================================================================
