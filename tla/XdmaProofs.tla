------------------------------ MODULE XdmaProofs ------------------------------
(***************************************************************************)
(* Xdma for every set of threads, every length of the calls and any number *)
(* of calls, faults and resets.                                            *)
(*                                                                         *)
(* The queue (QueueInv): a transfer is in it from transfer_queue to its    *)
(* collection or its abort, and between the two its thread is where only   *)
(* the holder of desc_lock can be.  Quiet (QuietInv): what starts an engine*)
(* is transfer_queue, which the request to shut down stops, and a service, *)
(* which an engine that does not run is not given.                         *)
(*                                                                         *)
(* The hardware (HaltInv): a count in host memory, and an engine that is   *)
(* not running, mean that the hardware has ended what it was started for.  *)
(* From this: what the driver counts of the transfer it was started for    *)
(* was moved (MovedInv); while nobody gives up and no reset comes, who     *)
(* looks after the engine finds the hardware at its end (CleanInv) and     *)
(* somebody will look (ServedInv); and while nothing at all goes wrong, the*)
(* hardware takes exactly the descriptors of the block (SoundInv).         *)
(***************************************************************************)
EXTENDS Xdma, Integers, TLAPS

\* The records have the fields that the proofs look at.
Shape ==
  /\ pc \in [Threads -> Where]
  /\ DOMAIN xfer = Threads /\ \A t \in Threads : "state" \in DOMAIN xfer[t]
  /\ "by" \in DOMAIN svc

\* Where a thread holds desc_lock.
Holding == {"init", "queue", "wait", "service", "reap"}

Submitted(t) == /\ t \in Threads /\ list = <<t>>
                /\ pc[t] \in {"wait", "service", "reap"}
                /\ xfer[t].state = "SUBMITTED"

QueueInv ==
  /\ Shape
  /\ \A t \in Threads : pc[t] \in Holding <=> descLock = t
  /\ svc.by \in Threads => pc[svc.by] = "service"
  /\ list = << >> \/ Submitted(descLock)

Fields ==
  /\ "run" \in DOMAIN hw
  /\ {"running", "request"} \subseteq DOMAIN eng
  /\ "by" \in DOMAIN svc

QuietInv ==
  /\ Fields
  /\ pci \in {"stopped", "down", "reset", "regs"} =>
       ~hw.run /\ eng.request /\ ~eng.running /\ svc.by = None

-----------------------------------------------------------------------------
LEMMA TailOfOne == ASSUME NEW t PROVE <<t>> # << >> /\ Tail(<<t>>) = << >>
OBVIOUS

\* One step per action: the queue stays a queue of one.
LEMMA QueueStep ==
  ASSUME QueueInv, [Next]_vars
  PROVE  QueueInv'
<1> USE XdmaAssumption DEF QueueInv, Shape, Submitted, Where, Holding, vars, fixed,
                           caller, engine, bus
<1>1. ASSUME NEW t \in Threads, Call(t)
      PROVE  QueueInv'
  BY <1>1 DEF Call, Return, Goto
<1>2. ASSUME NEW t \in Threads, TakeDescLock(t)
      PROVE  QueueInv'
  BY <1>2 DEF TakeDescLock, Goto
<1>3. ASSUME NEW t \in Threads, TransferInit(t)
      PROVE  QueueInv'
  BY <1>3 DEF TransferInit, Return, Goto
<1>4. ASSUME NEW t \in Threads, TransferQueue(t)
      PROVE  QueueInv'
  <2>1. pc[t] = "queue" /\ descLock = t /\ list = << >>
    BY <1>4 DEF TransferQueue
  <2>2. CASE eng.request
    BY <1>4, <2>1, <2>2 DEF TransferQueue, Return, Goto
  <2>3. CASE ~eng.request
    <3>1. list' = <<t>> /\ descLock' = t /\ svc' = svc
      BY <1>4, <2>1, <2>3 DEF TransferQueue
    <3>2. pc' = [pc EXCEPT ![t] = "wait"] /\ xfer' = [xfer EXCEPT ![t].state = "SUBMITTED"]
      BY <1>4, <2>3 DEF TransferQueue, Goto
    <3> QED BY <2>1, <3>1, <3>2
  <2> QED BY <2>2, <2>3
<1>5. ASSUME NEW t \in Threads, Wake(t)
      PROVE  QueueInv'
  BY <1>5 DEF Wake, Goto
<1>6. ASSUME NEW t \in Threads, WaitEnds(t)
      PROVE  QueueInv'
  BY <1>6 DEF WaitEnds, Goto
<1>7. ASSUME NEW t \in Threads, PollFinds(t)
      PROVE  QueueInv'
  BY <1>7 DEF PollFinds, Goto
<1>8. ASSUME NEW t \in Threads, PollTimesOut(t)
      PROVE  QueueInv'
  BY <1>8 DEF PollTimesOut, Goto
<1>9. ASSUME NEW t \in Threads, ServicePoll(t)
      PROVE  QueueInv'
  BY <1>9 DEF ServicePoll, Goto, ServiceBegins, ServiceIdle, ReadStatus, Stop, Locked
<1>10. ASSUME NEW t \in Threads, Reap(t)
      PROVE  QueueInv'
  <2>1. pc[t] = "reap" /\ descLock = t
    BY <1>10 DEF Reap
  <2>2. list' = << >>
    <3>1. CASE list = << >>
      BY <1>10, <3>1 DEF Reap
    <3>2. CASE list = <<t>> /\ xfer[t].state = "SUBMITTED"
      BY <1>10, <3>2 DEF Reap
    <3> QED BY <2>1, <3>1, <3>2
  <2>3. /\ descLock' = None /\ svc' = svc
        /\ pc' = [pc EXCEPT ![t] = "lock"] \/ pc' = [pc EXCEPT ![t] = "idle"]
        /\ xfer' = xfer \/ xfer' = [xfer EXCEPT ![t].state = "ABORTED"]
    BY <1>10 DEF Reap, Return, Goto
  <2>4. svc.by # t
    BY <2>1
  <2> QED BY <2>1, <2>2, <2>3, <2>4
<1>11. CASE Interrupt
  BY <1>11 DEF Interrupt
<1>12. CASE ServiceWork
  BY <1>12 DEF ServiceWork, ServiceBegins, ServiceIdle, ReadStatus, Stop, Locked
<1>13. CASE ReadCount
  BY <1>13 DEF ReadCount, Locked
<1>14. CASE ServiceTransfer
  <2>1. list = <<descLock>> /\ list' = << >>
    <3>1. list # << >> /\ list' = Tail(list)
      BY <1>14 DEF ServiceTransfer, Collect, PastFirst
    <3>2. list = <<descLock>>
      BY <3>1
    <3> QED BY <3>1, <3>2, TailOfOne
  <2>2. /\ xfer' = [xfer EXCEPT ![descLock].state = "COMPLETED"]
        /\ svc' = [svc EXCEPT !.count = @ - xfer[Head(list)].n]
        /\ UNCHANGED <<pc, descLock>>
    BY <1>14, <2>1 DEF ServiceTransfer, Collect
  <2> QED BY <2>1, <2>2
<1>15. CASE ServiceFinal
  <2>1. UNCHANGED descLock /\ svc' = NoService
    BY <1>15 DEF ServiceFinal
  <2>2. list' = << >>
    <3>1. list = << >> => list' = list
      BY <1>15 DEF ServiceFinal, Collect
    <3>2. list # << >> => list' = Tail(list)
      BY <1>15 DEF ServiceFinal, Collect
    <3>3. CASE list = << >>
      BY <3>1, <3>3
    <3>4. CASE list = <<descLock>>
      BY <3>2, <3>4, TailOfOne
    <3> QED BY <3>3, <3>4
  <2>3. \/ UNCHANGED pc
        \/ pc' = [pc EXCEPT ![svc.by] = "reap"] /\ (svc.by \in Threads => pc[svc.by] = "service")
    BY <1>15 DEF ServiceFinal, Goto
  <2>4. \/ UNCHANGED xfer
        \/ xfer' = [xfer EXCEPT ![Head(list)].state = "FAILED"]
        \/ xfer' = [xfer EXCEPT ![Head(list)].state = "COMPLETED"]
    BY <1>15 DEF ServiceFinal, Collect
  <2> QED BY <2>1, <2>2, <2>3, <2>4 DEF NoService
<1>16. CASE HwFetch
  BY <1>16 DEF HwFetch, HwEndsBadly, program
<1>17. CASE HwDone
  BY <1>17 DEF HwDone, program
<1>18. CASE HwFault
  BY <1>18 DEF HwFault, HwEndsBadly, program
<1>19. CASE HwIdle
  BY <1>19 DEF HwIdle, program
<1>20. CASE SetOffline
  BY <1>20 DEF SetOffline, Advance
<1>21. CASE StopEngine
  BY <1>21 DEF StopEngine, Stop, Advance, Locked
<1>22. CASE IrqTeardown
  BY <1>22 DEF IrqTeardown, Advance
<1>23. CASE DeviceReset
  BY <1>23 DEF DeviceReset, HwReset, Advance
<1>24. CASE InitRegs
  BY <1>24 DEF InitRegs, Advance
<1>25. CASE ClearRequest
  BY <1>25 DEF ClearRequest, Advance, Locked
<1>26. CASE SetOnline
  BY <1>26 DEF SetOnline, Advance
<1>27. CASE Finished
  BY <1>27 DEF Finished
<1>28. CASE UNCHANGED vars
  BY <1>28
<1> QED
  BY <1>1, <1>2, <1>3, <1>4, <1>5, <1>6, <1>7, <1>8, <1>9, <1>10, <1>11, <1>12, <1>13, <1>14,
     <1>15, <1>16, <1>17, <1>18, <1>19, <1>20, <1>21,
     <1>22, <1>23, <1>24, <1>25, <1>26, <1>27, <1>28
  DEF Next, ThreadStep, ServiceStep, HwStep, PciStep

\* desc_lock makes the queue of the engine a queue of one.
THEOREM QueueOfOne == Spec => []OneInQueue
<1>1. Init => QueueInv
  BY XdmaAssumption DEF Init, QueueInv, Shape, Submitted, Where, Holding, NoService
<1>2. QueueInv /\ [Next]_vars => QueueInv'
  BY QueueStep
<1>3. ASSUME QueueInv
      PROVE  OneInQueue
  <2>1. CASE list = << >>
    BY <2>1 DEF OneInQueue
  <2>2. CASE Submitted(descLock)
    <3>1. Len(list) = 1 /\ Head(list) = descLock
      BY <2>2 DEF Submitted
    <3> QED BY <2>2, <3>1 DEF OneInQueue, Submitted
  <2> QED BY <1>3, <2>1, <2>2 DEF QueueInv
<1> QED BY <1>1, <1>2, <1>3, PTL DEF Spec

-----------------------------------------------------------------------------
\* One step per action: an engine off line stays stopped.
LEMMA QuietStep ==
  ASSUME QuietInv, [Next]_vars
  PROVE  QuietInv'
<1> USE DEF QuietInv, Fields, vars, fixed, caller, engine, bus
<1>1. ASSUME NEW t \in Threads, Call(t)
      PROVE  QuietInv'
  BY <1>1 DEF Call, Return, Goto
<1>2. ASSUME NEW t \in Threads, TakeDescLock(t)
      PROVE  QuietInv'
  BY <1>2 DEF TakeDescLock, Goto
<1>3. ASSUME NEW t \in Threads, TransferInit(t)
      PROVE  QuietInv'
  BY <1>3 DEF TransferInit, Return, Goto
<1>4. ASSUME NEW t \in Threads, TransferQueue(t)
      PROVE  QuietInv'
  BY <1>4 DEF TransferQueue, Return, Goto, EngineStart, Locked
<1>5. ASSUME NEW t \in Threads, Wake(t)
      PROVE  QuietInv'
  BY <1>5 DEF Wake, Goto
<1>6. ASSUME NEW t \in Threads, WaitEnds(t)
      PROVE  QuietInv'
  BY <1>6 DEF WaitEnds, Goto
<1>7. ASSUME NEW t \in Threads, PollFinds(t)
      PROVE  QuietInv'
  BY <1>7 DEF PollFinds, Goto
<1>8. ASSUME NEW t \in Threads, PollTimesOut(t)
      PROVE  QuietInv'
  BY <1>8 DEF PollTimesOut, Goto
<1>9. ASSUME NEW t \in Threads, ServicePoll(t)
      PROVE  QuietInv'
  <2>1. CASE eng.running
    <3>1. pci \notin {"stopped", "down", "reset", "regs"} /\ pci' = pci
      BY <1>9, <2>1 DEF ServicePoll
    <3> QED BY <1>9, <2>1, <3>1 DEF ServicePoll, ServiceBegins, ReadStatus, Stop
  <2>2. CASE ~eng.running
    BY <1>9, <2>2 DEF ServicePoll, ServiceIdle, ReadStatus
  <2> QED BY <2>1, <2>2
<1>10. ASSUME NEW t \in Threads, Reap(t)
      PROVE  QuietInv'
  BY <1>10 DEF Reap, Return, Goto, ReadStatus, Stop, Locked
<1>11. CASE Interrupt
  BY <1>11 DEF Interrupt
<1>12. CASE ServiceWork
  <2>1. CASE eng.running
    <3>1. pci \notin {"stopped", "down", "reset", "regs"} /\ pci' = pci
      BY <1>12, <2>1 DEF ServiceWork
    <3> QED BY <1>12, <2>1, <3>1 DEF ServiceWork, ServiceBegins, ReadStatus, Stop
  <2>2. CASE ~eng.running
    BY <1>12, <2>2 DEF ServiceWork, ServiceIdle, ReadStatus
  <2> QED BY <2>1, <2>2
<1>13. CASE ReadCount
  BY <1>13 DEF ReadCount, Locked
<1>14. CASE ServiceTransfer
  BY <1>14 DEF ServiceTransfer, Collect, PastFirst, Locked
<1>15. CASE ServiceFinal
  BY <1>15 DEF ServiceFinal, Collect, PastFirst, Resume, EngineStart, Stop, Goto, NoService, Locked
<1>16. CASE HwFetch
  BY <1>16 DEF HwFetch, HwEndsBadly, program
<1>17. CASE HwDone
  BY <1>17 DEF HwDone, program
<1>18. CASE HwFault
  BY <1>18 DEF HwFault, HwEndsBadly, program
<1>19. CASE HwIdle
  BY <1>19 DEF HwIdle, program
<1>20. CASE SetOffline
  BY <1>20 DEF SetOffline, Advance
<1>21. CASE StopEngine
  BY <1>21 DEF StopEngine, Stop, Advance, Locked
<1>22. CASE IrqTeardown
  BY <1>22 DEF IrqTeardown, Advance
<1>23. CASE DeviceReset
  BY <1>23 DEF DeviceReset, HwReset, Advance
<1>24. CASE InitRegs
  BY <1>24 DEF InitRegs, Advance
<1>25. CASE ClearRequest
  BY <1>25 DEF ClearRequest, Advance, Locked
<1>26. CASE SetOnline
  BY <1>26 DEF SetOnline, Advance
<1>27. CASE Finished
  BY <1>27 DEF Finished
<1>28. CASE UNCHANGED vars
  BY <1>28
<1> QED
  BY <1>1, <1>2, <1>3, <1>4, <1>5, <1>6, <1>7, <1>8, <1>9, <1>10, <1>11, <1>12, <1>13, <1>14,
     <1>15, <1>16, <1>17, <1>18, <1>19, <1>20, <1>21,
     <1>22, <1>23, <1>24, <1>25, <1>26, <1>27, <1>28
  DEF Next, ThreadStep, ServiceStep, HwStep, PciStep

\* Nothing starts the engine of a device that is off line.
THEOREM QuietOffline == Spec => []OfflineIsQuiet
<1>1. Init => QuietInv
  BY DEF Init, QuietInv, Fields, NoService, HwReset
<1>2. QuietInv /\ [Next]_vars => QuietInv'
  BY QuietStep
<1>3. QuietInv => OfflineIsQuiet
  BY DEF QuietInv, OfflineIsQuiet
<1> QED BY <1>1, <1>2, <1>3, PTL DEF Spec
-----------------------------------------------------------------------------
\* Callers that have descriptors in the block.
Having == {"queue", "wait", "service", "reap"}

DescInv ==
  /\ \A t \in Threads : pc[t] \in {"lock", "init"} => left[t] > 0
  /\ \A t \in Threads : pc[t] \in Having =>
       desc.owner = t /\ desc.n = xfer[t].n /\ xfer[t].n > 0
  /\ \A t \in Threads : pc[t] = "queue" => started # t

\* The hardware does nothing more unless it is started.
Ended == hw.cur = None /\ (~hw.busy \/ hw.lagging \/ ~hw.run)

HaltInv ==
  /\ (~hw.busy \/ hw.lagging) => hw.cur = None
  /\ ~eng.running => ~hw.run /\ (pci \in {"stopped", "down"} \/ hw.cur = None)
  /\ ~poll => wb = NoCount /\ seen = NoCount /\ \A t \in Threads : pc[t] # "service"
  /\ wb # NoCount => Ended
  /\ ~eng.running /\ ~Locked => wb = NoCount \/ pci \in {"stopped", "down", "reset"}
  /\ \A t \in Threads : pc[t] = "service" /\ seen # NoCount => Ended

\* What the driver takes for done of the transfer it has started was done.
Counted(t) ==
  /\ hw.cnt <= xfer[t].moved /\ wb.n <= xfer[t].moved
  /\ pc[t] = "service" => seen.n <= xfer[t].moved
  /\ Locked => svc.count <= xfer[t].moved
  /\ eng.dequeued = 0
  /\ hw.cur # None => hw.cur.owner = t

MovedInv ==
  /\ \A t \in Threads : Submitted(t) /\ started = t => Counted(t)
  /\ CompletedWasMoved

Clean == why \cap {"gaveup", "reset"} = {}

\* Nothing is left to do for the hardware of what it was started for.
Attended ==
  \/ list = << >> \/ Locked \/ work
  \/ ~poll /\ hw.stat # {}
  \/ \E t \in Threads : pc[t] = "service"

\* Only an interrupt schedules the work item.
PollInv == poll => ~work

CleanInv ==
  Clean => /\ pci = "up" /\ ~eng.request
           /\ Attended => Ended
           /\ hw.cur # None => hw.cur.owner = descLock

ServedInv ==
  Clean /\ ~poll =>
    /\ ~eng.running => hw.stat = {} /\ ~work /\ ~hw.busy
    /\ eng.running => /\ hw.busy \/ work \/ hw.stat # {}
                      /\ hw.run
                      /\ Locked => ~eng.err
    /\ "err" \in hw.stat => ~hw.busy
    /\ list # << >> => eng.running \/ Locked
    /\ hw.irqEn \/ work \/ svc.by = Work

\* Nothing has gone wrong.
SoundInv ==
  why = {} =>
    /\ ~hw.lagging /\ "err" \notin hw.stat /\ ~eng.err /\ ~wb.err
    /\ hw.busy => /\ hw.run /\ hw.idx <= desc.n
                  /\ hw.cur = None => hw.idx = hw.cnt /\ hw.idx < desc.n
                  /\ hw.cur # None => hw.idx = hw.cnt + 1 /\ (hw.cur.last <=> hw.idx = desc.n)
    /\ list # << >> /\ ~hw.busy => hw.cnt = desc.n
    /\ list = << >> \/ Locked => ~(eng.running)
    /\ list # << >> => (eng.running \/ Locked) /\ eng.dequeued = 0
    /\ \A t \in Threads : pc[t] = "service" => ~seen.err /\ seen.n = desc.n
    /\ Locked /\ list # << >> =>
         /\ svc.step = "count" => svc.count \in {0, desc.n}
         /\ svc.step = "list" => svc.count = desc.n
    /\ \A t \in Threads : xfer[t].state # "FAILED"

-----------------------------------------------------------------------------
(* The types, by the three that change the state.                          *)

CallerOK ==
  /\ pc \in [Threads -> Where]
  /\ left \in [Threads -> Nat]
  /\ xfer \in [Threads -> [state : State, n : 0 .. MaxDesc, moved : Nat]]
  /\ result \in [Threads -> {"none", "done", "EIO", "EBUSY", "ERESTARTSYS"}]
  /\ calls \in 0 .. MaxCalls
  /\ descLock \in Threads \cup {None}
  /\ desc \in [owner : Threads \cup {None}, n : 0 .. MaxDesc]

EngineOK ==
  /\ list \in Seq(Threads)
  /\ eng \in Engine
  /\ svc \in [by : Threads \cup {Work, None}, step : {"count", "list"}, count : Nat]
  /\ work \in BOOLEAN
  /\ seen \in Counts
  /\ started \in Threads \cup {None}

BusOK ==
  /\ poll \in BOOLEAN /\ busyLag \in BOOLEAN
  /\ wb \in Counts
  /\ hw \in Hardware
  /\ faults \in 0 .. MaxFaults
  /\ pci \in Phase /\ resets \in 0 .. MaxResets
  /\ why \subseteq Trouble

LEMMA CallerStep ==
  ASSUME QueueInv, TypeOK, [Next]_vars
  PROVE  CallerOK'
<1>1. CallerOK /\ list \in Seq(Threads) /\ svc.by \in Threads \cup {Work, None}
  BY DEF TypeOK, CallerOK
<1>2. CASE UNCHANGED caller
  BY <1>1, <1>2 DEF caller, CallerOK
<1>3. ASSUME UNCHANGED <<left, xfer, result, calls, descLock, desc>>, NEW t, NEW w \in Where, Goto(t, w)
      PROVE  CallerOK'
  BY <1>1, <1>3 DEF CallerOK, Goto
<1>4. ASSUME NEW t \in Threads, Call(t)
      PROVE  CallerOK'
  <2>1. PICK k \in Requests : IF Offline THEN Return(t, "EBUSY") /\ UNCHANGED left
                              ELSE Goto(t, "lock") /\ left' = [left EXCEPT ![t] = k] /\ UNCHANGED result
    BY <1>4 DEF Call
  <2>2. calls' \in 0 .. MaxCalls /\ UNCHANGED <<xfer, descLock, desc>>
    BY <1>1, <1>4, XdmaAssumption DEF Call, CallerOK
  <2>3. k \in Nat
    BY XdmaAssumption
  <2> QED  BY <1>1, <2>1, <2>2, <2>3 DEF CallerOK, Return, Goto, Where
<1>5. ASSUME NEW t \in Threads, TakeDescLock(t)
      PROVE  CallerOK'
  BY <1>1, <1>5 DEF TakeDescLock, CallerOK, Goto, Where
<1>6. ASSUME NEW t \in Threads, TransferInit(t)
      PROVE  CallerOK'
  <2> DEFINE k == SmallerOf(left[t], MaxDesc)
  <2>1. k \in 0 .. MaxDesc /\ left[t] - k \in Nat
    <3>1. left[t] \in Nat /\ MaxDesc \in Nat
      BY <1>1, XdmaAssumption DEF CallerOK
    <3> QED  BY <3>1 DEF SmallerOf
  <2>2. /\ desc' = [owner |-> t, n |-> k] /\ left' = [left EXCEPT ![t] = @ - k]
        /\ xfer' = [xfer EXCEPT ![t] = [state |-> "NEW", n |-> k, moved |-> 0]]
        /\ IF Offline THEN Return(t, "EBUSY") /\ descLock' = None
                      ELSE Goto(t, "queue") /\ UNCHANGED <<result, descLock>>
        /\ UNCHANGED calls
    BY <1>6 DEF TransferInit
  <2> HIDE DEF k
  <2>3. xfer' \in [Threads -> [state : State, n : 0 .. MaxDesc, moved : Nat]]
    BY <1>1, <2>1, <2>2 DEF CallerOK, State
  <2>4. desc' \in [owner : Threads \cup {None}, n : 0 .. MaxDesc] /\ left' \in [Threads -> Nat]
    BY <1>1, <2>1, <2>2 DEF CallerOK
  <2> QED  BY ZenonT(40), <1>1, <2>2, <2>3, <2>4 DEF CallerOK, Return, Goto, Where
<1>7. ASSUME NEW t, NEW w \in State, xfer' = [xfer EXCEPT ![t].state = w]
      PROVE  xfer' \in [Threads -> [state : State, n : 0 .. MaxDesc, moved : Nat]]
  BY <1>1, <1>7 DEF CallerOK
<1>8. ASSUME NEW t \in Threads, TransferQueue(t)
      PROVE  CallerOK'
  <2>1. CASE eng.request
    BY <1>1, <1>8, <2>1 DEF TransferQueue, CallerOK, Return, Goto, Where
  <2>2. CASE ~eng.request
    <3>1. xfer' = [xfer EXCEPT ![t].state = "SUBMITTED"] /\ Goto(t, "wait")
          /\ UNCHANGED <<left, result, calls, descLock, desc>>
      BY <1>8, <2>2 DEF TransferQueue
    <3>2. xfer' \in [Threads -> [state : State, n : 0 .. MaxDesc, moved : Nat]]
      BY <1>7, <3>1 DEF State
    <3> QED  BY <1>1, <3>1, <3>2 DEF CallerOK, Goto, Where
  <2> QED  BY <2>1, <2>2
<1>9. ASSUME NEW t \in Threads, Wake(t) \/ WaitEnds(t) \/ PollFinds(t) \/ PollTimesOut(t)
      PROVE  CallerOK'
  BY <1>3, <1>9 DEF Wake, WaitEnds, PollFinds, PollTimesOut, Where
<1>10. ASSUME NEW t \in Threads, ServicePoll(t)
       PROVE  CallerOK'
  <2>1. UNCHANGED pc \/ Goto(t, "reap")
    BY <1>10 DEF ServicePoll
  <2>2. UNCHANGED <<left, xfer, result, calls, descLock, desc>>
    BY <1>10 DEF ServicePoll
  <2> QED  BY <1>2, <1>3, <2>1, <2>2 DEF Where, caller
<1>11. ASSUME NEW t \in Threads, Reap(t)
       PROVE  CallerOK'
  <2>1. UNCHANGED xfer \/ xfer' = [xfer EXCEPT ![t].state = "ABORTED"]
    BY <1>11 DEF Reap
  <2>2. \/ Goto(t, "lock") /\ UNCHANGED result
        \/ Return(t, "done") \/ Return(t, "EIO") \/ Return(t, "ERESTARTSYS")
    BY <1>11 DEF Reap
  <2>3. desc' = NoDesc /\ descLock' = None /\ UNCHANGED <<left, calls>>
    BY <1>11 DEF Reap
  <2>4. xfer' \in [Threads -> [state : State, n : 0 .. MaxDesc, moved : Nat]]
    BY <1>1, <1>7, <2>1 DEF State, CallerOK
  <2>5. desc' \in [owner : Threads \cup {None}, n : 0 .. MaxDesc]
    BY <2>3, XdmaAssumption DEF NoDesc
  <2> QED  BY <1>1, <2>2, <2>3, <2>4, <2>5 DEF CallerOK, Return, Goto, Where
<1>12. CASE ServiceTransfer
  <2>1. xfer' = [xfer EXCEPT ![Head(list)].state = "COMPLETED"]
        /\ UNCHANGED <<pc, left, result, calls, descLock, desc>>
    BY <1>12 DEF ServiceTransfer, Collect
  <2>2. xfer' \in [Threads -> [state : State, n : 0 .. MaxDesc, moved : Nat]]
    BY <1>7, <2>1 DEF State
  <2> QED  BY <1>1, <2>1, <2>2 DEF CallerOK
<1>13. CASE ServiceFinal
  <2>1. \/ UNCHANGED xfer
        \/ \E w \in {"FAILED", "COMPLETED"} : xfer' = [xfer EXCEPT ![Head(list)].state = w]
    BY <1>13 DEF ServiceFinal, Collect
  <2>2. UNCHANGED pc \/ Goto(svc.by, "reap")
    BY <1>13 DEF ServiceFinal
  <2>3. UNCHANGED <<left, result, calls, descLock, desc>>
    BY <1>13 DEF ServiceFinal
  <2>4. xfer' \in [Threads -> [state : State, n : 0 .. MaxDesc, moved : Nat]]
    BY <1>1, <1>7, <2>1 DEF State, CallerOK
  <2> QED  BY <1>1, <2>2, <2>3, <2>4 DEF CallerOK, Goto, Where
<1>14. CASE HwDone
  <2>1. UNCHANGED xfer \/ xfer' = [xfer EXCEPT ![hw.cur.owner].moved = @ + 1]
    BY <1>14 DEF HwDone
  <2>2. xfer' \in [Threads -> [state : State, n : 0 .. MaxDesc, moved : Nat]]
    <3>1. CASE hw.cur.owner \in Threads
      <4> DEFINE o == hw.cur.owner
      <4>1. xfer[o] \in [state : State, n : 0 .. MaxDesc, moved : Nat]
        BY <1>1, <3>1 DEF CallerOK
      <4>2. [xfer[o] EXCEPT !.moved = @ + 1] \in [state : State, n : 0 .. MaxDesc, moved : Nat]
        BY <4>1
      <4>3. UNCHANGED xfer \/ xfer' = [xfer EXCEPT ![o] = [xfer[o] EXCEPT !.moved = @ + 1]]
        BY <2>1
      <4> HIDE DEF o
      <4> QED  BY <1>1, <4>2, <4>3 DEF CallerOK
    <3>2. CASE hw.cur.owner \notin Threads
      BY <1>1, <2>1, <3>2 DEF CallerOK
    <3> QED  BY <3>1, <3>2
  <2> QED  BY <1>1, <1>14, <2>2 DEF HwDone, program, CallerOK
<1>15. CASE \/ Interrupt \/ ServiceWork \/ ReadCount \/ HwFetch \/ HwFault \/ HwIdle \/ PciStep
            \/ Finished \/ UNCHANGED vars
  <2>1. UNCHANGED caller
    BY <1>15 DEF Interrupt, ServiceWork, ReadCount, HwFetch, HwFault, HwIdle, program, PciStep,
                 SetOffline, StopEngine, IrqTeardown, DeviceReset, InitRegs, ClearRequest,
                 SetOnline, Finished, vars, caller
  <2> QED  BY <1>2, <2>1
<1> QED
  BY <1>4, <1>5, <1>6, <1>8, <1>9, <1>10, <1>11, <1>12, <1>13, <1>14, <1>15
     DEF Next, ThreadStep, ServiceStep, HwStep

\* What the driver makes of a queue of one: nothing is left to be started.
LEMMA QueueOrNothing ==
  ASSUME QueueInv
  PROVE  /\ list = << >> \/ (list = <<descLock>> /\ Submitted(descLock))
         /\ list # << >> => list = <<Head(list)>> /\ Head(list) = descLock /\ Tail(list) = << >>
<1>1. list = << >> \/ (list = <<descLock>> /\ Submitted(descLock))
  BY DEF QueueInv, Submitted
<1>2. Head(<<descLock>>) = descLock /\ Tail(<<descLock>>) = << >>
  OBVIOUS
<1> QED  BY <1>1, <1>2

LEMMA EngineStep ==
  ASSUME QueueInv, TypeOK, [Next]_vars
  PROVE  EngineOK'
<1>1. /\ EngineOK /\ wb \in Counts /\ hw.cnt \in Nat /\ hw.busy \in BOOLEAN
      /\ \A t \in Threads : xfer[t].n \in Nat
  BY DEF TypeOK, EngineOK, Hardware
<1>2. /\ NoCount \in Counts /\ None \notin Threads
      /\ NoService \in [by : Threads \cup {Work, None}, step : {"count", "list"}, count : Nat]
  BY XdmaAssumption DEF NoCount, Counts, NoService
<1>3. CASE UNCHANGED engine
  BY <1>1, <1>3 DEF engine, EngineOK
<1>4. ReadStatus(eng) \in Engine
  <2> DEFINE b == "err" \in hw.stat
  <2>1. b \in BOOLEAN
    OBVIOUS
  <2>2. ReadStatus(eng) = [eng EXCEPT !.busy = hw.busy, !.err = b]
    BY DEF ReadStatus
  <2> HIDE DEF b
  <2> QED  BY <1>1, <2>1, <2>2 DEF EngineOK, Engine
<1>5. ASSUME NEW who \in Threads \cup {Work}, NEW c \in Counts, ServiceBegins(who, c)
      PROVE  /\ eng' \in Engine
             /\ svc' \in [by : Threads \cup {Work, None}, step : {"count", "list"}, count : Nat]
  <2> DEFINE e == IF c.n = 0 \/ c.err THEN ReadStatus(eng) ELSE eng
             b == ~(~e.busy \/ c.n # 0)
  <2>1. e \in Engine
    BY <1>1, <1>4 DEF EngineOK
  <2>2. eng' = [e EXCEPT !.running = b] /\ svc' = [by |-> who, step |-> "count", count |-> c.n]
    BY <1>5 DEF ServiceBegins
  <2>3. b \in BOOLEAN
    OBVIOUS
  <2> HIDE DEF e, b
  <2>4. eng' \in Engine
    BY <2>1, <2>2, <2>3 DEF Engine
  <2> QED  BY <2>2, <2>4 DEF Counts
<1>6. ASSUME NEW t \in Threads, TransferInit(t)
      PROVE  EngineOK'
  BY <1>1, <1>6 DEF TransferInit, EngineOK
<1>7. ASSUME NEW t \in Threads, TransferQueue(t)
      PROVE  EngineOK'
  <2>1. UNCHANGED <<svc, work, seen>>
    BY <1>7 DEF TransferQueue
  <2>2. CASE eng.request
    BY <1>1, <1>7, <2>1, <2>2 DEF TransferQueue, EngineOK
  <2>3. CASE ~eng.request
    <3>1. list' = Append(list, t) /\ list' \in Seq(Threads)
      BY <1>1, <1>7, <2>3 DEF TransferQueue, EngineOK
    <3>2. list' = <<t>>
      <4>1. pc[t] = "queue" /\ descLock = t
        BY <1>7 DEF TransferQueue, QueueInv, Holding
      <4>2. list = << >>
        BY <4>1, QueueOrNothing DEF Submitted
      <4> QED  BY <3>1, <4>2
    <3>3. UNCHANGED <<eng, started>> \/ EngineStart(list', eng, hw)
      BY <1>7, <2>3 DEF TransferQueue
    <3>4. CASE EngineStart(list', eng, hw)
      <4>1. Head(list') = t
        BY <3>2
      <4>2. started' \in Threads \cup {None}
        BY <3>4, <4>1 DEF EngineStart
      <4>3. eng' \in Engine
        <5> DEFINE b == "err" \in hw.stat
        <5>1. b \in BOOLEAN
          OBVIOUS
        <5>2. eng' = [eng EXCEPT !.running = TRUE, !.request = FALSE, !.dequeued = 0,
                                 !.busy = TRUE, !.err = b]
          BY <3>4 DEF EngineStart
        <5> HIDE DEF b
        <5> QED  BY <1>1, <5>1, <5>2 DEF EngineOK, Engine
      <4> QED  BY <1>1, <2>1, <3>1, <4>2, <4>3 DEF EngineOK
    <3> QED  BY <1>1, <2>1, <3>1, <3>3, <3>4 DEF EngineOK
  <2> QED  BY <2>2, <2>3
<1>8. ASSUME NEW t \in Threads, PollFinds(t) \/ PollTimesOut(t)
      PROVE  EngineOK'
  <2>1. seen' \in Counts
    <3>1. seen' \in {wb, [n |-> xfer[t].n, err |-> TRUE]}
      BY <1>8 DEF PollFinds, PollTimesOut
    <3>2. [n |-> xfer[t].n, err |-> TRUE] \in Counts
      BY <1>1 DEF Counts
    <3> QED  BY <1>1, <3>1, <3>2
  <2> QED  BY <1>1, <1>8, <2>1 DEF PollFinds, PollTimesOut, EngineOK
<1>9. ASSUME NEW t \in Threads, ServicePoll(t)
      PROVE  EngineOK'
  <2>1. ServiceBegins(t, seen) \/ ServiceIdle
    BY <1>9 DEF ServicePoll
  <2>2. /\ eng' \in Engine
        /\ svc' \in [by : Threads \cup {Work, None}, step : {"count", "list"}, count : Nat]
    BY <1>1, <1>4, <1>5, <2>1 DEF ServiceIdle, EngineOK
  <2> QED  BY <1>1, <1>9, <2>2 DEF ServicePoll, EngineOK
<1>10. CASE ServiceWork
  <2>1. ServiceBegins(Work, NoCount) \/ ServiceIdle
    BY <1>10 DEF ServiceWork
  <2>2. /\ eng' \in Engine
        /\ svc' \in [by : Threads \cup {Work, None}, step : {"count", "list"}, count : Nat]
    BY <1>1, <1>2, <1>4, <1>5, <2>1 DEF ServiceIdle, EngineOK
  <2> QED  BY <1>1, <1>10, <2>2 DEF ServiceWork, EngineOK
<1>11. ASSUME NEW t \in Threads, Reap(t)
      PROVE  EngineOK'
  <2>1. eng' \in Engine
    BY <1>1, <1>4, <1>11 DEF Reap, EngineOK
  <2>2. list' \in Seq(Threads)
    <3>1. list' \in {list, Tail(list)} /\ (list = << >> => list' = list)
      BY <1>11 DEF Reap
    <3> QED  BY <1>1, <3>1, QueueOrNothing DEF EngineOK
  <2> QED  BY <1>1, <1>11, <2>1, <2>2 DEF Reap, EngineOK
<1>12. CASE Interrupt
  BY <1>1, <1>12 DEF Interrupt, EngineOK
<1>13. CASE ReadCount
  <2> DEFINE c == IF svc.count = 0 THEN hw.cnt ELSE svc.count
             k == (c + Word - eng.dequeued) % Word
  <2>1. c \in Nat /\ eng.dequeued \in Nat /\ Word \in Nat \ {0}
    BY <1>1, XdmaAssumption DEF EngineOK, Engine
  <2>2. k \in Nat
    <3> HIDE DEF c
    <3>1. c + Word - eng.dequeued \in Int
      BY <2>1
    <3> QED  BY <2>1, <3>1
  <2>3. svc' = [svc EXCEPT !.step = "list", !.count = k]
    BY <1>13 DEF ReadCount
  <2> HIDE DEF k
  <2>4. svc' \in [by : Threads \cup {Work, None}, step : {"count", "list"}, count : Nat]
    BY <1>1, <2>2, <2>3 DEF EngineOK
  <2> QED  BY <1>1, <1>13, <2>4 DEF ReadCount, EngineOK
<1>14. CASE ServiceTransfer
  <2> DEFINE k == xfer[Head(list)].n
  <2>1. list # << >> /\ svc.count > k /\ list' = Tail(list)
        /\ svc' = [svc EXCEPT !.count = @ - k] /\ eng' = [eng EXCEPT !.dequeued = @ + k]
    BY <1>14 DEF ServiceTransfer, PastFirst, Collect
  <2>2. list' = << >> /\ Head(list) \in Threads
    BY <2>1, QueueOrNothing DEF Submitted
  <2>3. k \in Nat /\ svc.count \in Nat /\ eng.dequeued \in Nat
    BY <1>1, <2>2 DEF EngineOK, Engine
  <2> HIDE DEF k
  <2>4. svc.count - k \in Nat /\ eng.dequeued + k \in Nat
    BY <2>1, <2>3
  <2>5. svc' \in [by : Threads \cup {Work, None}, step : {"count", "list"}, count : Nat]
    BY <1>1, <2>1, <2>4 DEF EngineOK
  <2>6. eng' \in Engine
    BY <1>1, <2>1, <2>4 DEF EngineOK, Engine
  <2> QED  BY <1>1, <1>14, <2>2, <2>5, <2>6 DEF ServiceTransfer, EngineOK
<1>15. CASE ServiceFinal
  <2>1. svc' = NoService /\ UNCHANGED <<work, seen>>
    BY <1>15 DEF ServiceFinal
  <2>2. CASE list = << >>
    <3>1. UNCHANGED <<list, eng, started>>
      BY <1>15, <2>2 DEF ServiceFinal, Resume
    <3> QED  BY <1>1, <1>2, <2>1, <3>1 DEF EngineOK
  <2>3. CASE list # << >>
    <3>1. list' = << >> /\ Head(list) \in Threads
      BY <1>15, <2>3, QueueOrNothing DEF ServiceFinal, Collect, Submitted
    <3>2. eng' = [eng EXCEPT !.dequeued = @ + xfer[Head(list)].n] /\ UNCHANGED started
      BY <1>15, <2>3, <3>1 DEF ServiceFinal, Resume
    <3>3. eng' \in Engine
      BY <1>1, <3>1, <3>2 DEF EngineOK, Engine
    <3> QED  BY <1>1, <1>2, <2>1, <3>1, <3>2, <3>3 DEF EngineOK
  <2> QED  BY <2>2, <2>3
<1>16. CASE StopEngine \/ ClearRequest
  <2>1. eng' \in Engine
    BY <1>1, <1>16 DEF StopEngine, ClearRequest, EngineOK, Engine
  <2> QED  BY <1>1, <1>16, <2>1 DEF StopEngine, ClearRequest, EngineOK
<1>17. ASSUME NEW t \in Threads, Call(t) \/ TakeDescLock(t) \/ Wake(t) \/ WaitEnds(t)
       PROVE  EngineOK'
  BY <1>3, <1>17 DEF Call, TakeDescLock, Wake, WaitEnds
<1>18. CASE \/ HwStep \/ SetOffline \/ IrqTeardown \/ DeviceReset \/ InitRegs \/ SetOnline
            \/ Finished \/ UNCHANGED vars
  <2>1. UNCHANGED engine
    BY <1>18 DEF HwStep, HwFetch, HwDone, HwFault, HwIdle, program,
                 SetOffline, IrqTeardown, DeviceReset, InitRegs, SetOnline, Finished, vars
  <2> QED  BY <1>3, <2>1
<1> QED
  BY <1>6, <1>7, <1>8, <1>9, <1>10, <1>11, <1>12, <1>13, <1>14, <1>15, <1>16, <1>17, <1>18
     DEF Next, ThreadStep, ServiceStep, PciStep

LEMMA BusStep ==
  ASSUME QueueInv, TypeOK, [Next]_vars
  PROVE  BusOK'
<1>1. BusOK
  BY DEF TypeOK, BusOK
<1>2. HwReset \in Hardware /\ NoCount \in Counts
  <2>1. None \in [owner : Threads \cup {None}, last : BOOLEAN] \cup {None} /\ {} \in SUBSET {"done", "err"}
    OBVIOUS
  <2> QED  BY <2>1 DEF HwReset, Hardware, NoCount, Counts
<1>3. ASSUME hw' \in Hardware, UNCHANGED <<fixed, wb, faults, bus, why>>
      PROVE  BusOK'
  BY <1>1, <1>3 DEF BusOK, fixed, bus
\* The driver stops the hardware, clears its status and enables its interrupt.
<1>4. ASSUME NEW h \in Hardware
      PROVE  /\ Stop(h) \in Hardware /\ [h EXCEPT !.stat = {}] \in Hardware
             /\ [h EXCEPT !.stat = {}, !.irqEn = TRUE] \in Hardware
             /\ [h EXCEPT !.irqEn = TRUE] \in Hardware
             /\ [h EXCEPT !.irqEn = FALSE] \in Hardware
             /\ [h EXCEPT !.run = TRUE, !.busy = TRUE, !.lagging = FALSE,
                          !.idx = 0, !.cnt = 0] \in Hardware
  BY DEF Hardware, Stop
<1>5. ASSUME NEW who, NEW c, ServiceBegins(who, c)
      PROVE  hw' \in Hardware
  <2> DEFINE h == IF c.n = 0 \/ c.err THEN [hw EXCEPT !.stat = {}] ELSE hw
  <2>1. h \in Hardware
    BY <1>1, <1>4 DEF BusOK
  <2>2. hw' = h \/ hw' = Stop(h)
    BY <1>5 DEF ServiceBegins
  <2> HIDE DEF h
  <2> QED  BY <1>4, <2>1, <2>2
<1>6. ASSUME NEW t \in Threads, Call(t) \/ TakeDescLock(t) \/ TransferInit(t) \/ Wake(t) \/ WaitEnds(t) \/ PollFinds(t)
      PROVE  BusOK'
  BY <1>1, <1>3, <1>6 DEF Call, TakeDescLock, TransferInit, Wake, WaitEnds, PollFinds, BusOK
<1>7. ASSUME NEW t \in Threads, TransferQueue(t)
      PROVE  BusOK'
  <2>1. UNCHANGED hw \/ EngineStart(list', eng, hw)
    BY SMTT(40), <1>7 DEF TransferQueue
  <2>2. hw' \in Hardware
    BY <1>1, <1>4, <2>1 DEF EngineStart, BusOK
  <2> QED  BY <1>3, <1>7, <2>2 DEF TransferQueue
<1>8. ASSUME NEW t \in Threads, PollTimesOut(t)
      PROVE  BusOK'
  BY <1>1, <1>8 DEF PollTimesOut, BusOK, fixed, bus, Trouble
<1>9. ASSUME NEW t \in Threads, ServicePoll(t)
      PROVE  BusOK'
  <2>1. ServiceBegins(t, seen) \/ hw' = [hw EXCEPT !.stat = {}]
    BY SMTT(40), <1>9 DEF ServicePoll
  <2>2. hw' \in Hardware
    BY <1>1, <1>4, <1>5, <2>1 DEF BusOK
  <2> QED  BY <1>3, <1>9, <2>2 DEF ServicePoll
<1>10. ASSUME NEW t \in Threads, Reap(t)
      PROVE  BusOK'
  <2> DEFINE h == IF hw.cur # None /\ hw.cur.owner = t THEN [hw EXCEPT !.cur.owner = None] ELSE hw
  <2>1. h \in Hardware
    <3>1. CASE hw.cur # None
      <4>1. hw.cur \in [owner : Threads \cup {None}, last : BOOLEAN]
        BY <1>1, <3>1 DEF BusOK, Hardware
      <4>2. [hw.cur EXCEPT !.owner = None] \in [owner : Threads \cup {None}, last : BOOLEAN]
        BY <4>1
      <4>3. [hw EXCEPT !.cur = [hw.cur EXCEPT !.owner = None]] \in Hardware
        BY SMTT(40), <1>1, <4>2 DEF BusOK, Hardware
      <4> QED  BY <1>1, <4>3 DEF BusOK
    <3>2. CASE hw.cur = None
      BY <1>1, <3>2 DEF BusOK
    <3> QED  BY <3>1, <3>2
  <2>2. (hw' = h \/ hw' = Stop(h)) /\ why' \in {why, why \cup {"gaveup"}}
        /\ UNCHANGED <<fixed, wb, faults, bus>>
    BY <1>10 DEF Reap
  <2> HIDE DEF h
  <2>3. hw' \in Hardware
    BY ZenonT(40), <1>4, <2>1, <2>2
  <2> QED  BY <1>1, <2>2, <2>3 DEF BusOK, fixed, bus, Trouble
<1>11. CASE Interrupt
  BY <1>1, <1>3, <1>4, <1>11 DEF Interrupt, BusOK
<1>12. CASE ServiceWork
  <2>1. ServiceBegins(Work, NoCount) \/ hw' = [hw EXCEPT !.stat = {}, !.irqEn = TRUE]
    BY SMTT(40), <1>12 DEF ServiceWork
  <2>2. hw' \in Hardware
    BY <1>1, <1>4, <1>5, <2>1 DEF BusOK
  <2> QED  BY <1>3, <1>12, <2>2 DEF ServiceWork
<1>13. CASE ReadCount \/ ServiceTransfer
  BY <1>1, <1>3, <1>13 DEF ReadCount, ServiceTransfer, BusOK
<1>14. CASE ServiceFinal
  <2> DEFINE h == IF svc.by = Work THEN [hw EXCEPT !.irqEn = TRUE] ELSE hw
  <2>1. h \in Hardware
    BY <1>1, <1>4 DEF BusOK
  <2>2. list' = << >>
    BY <1>14, QueueOrNothing DEF ServiceFinal, Collect
  <2>3. hw' = h \/ hw' = Stop(h)
    BY <1>14, <2>2 DEF ServiceFinal, Resume
  <2> HIDE DEF h
  <2>4. hw' \in Hardware
    BY <1>4, <2>1, <2>3
  <2>5. wb' \in Counts /\ UNCHANGED <<fixed, faults, bus, why>>
    BY <1>1, <1>2, <1>14 DEF ServiceFinal, BusOK
  <2> QED  BY SMTT(40), <1>1, <2>4, <2>5 DEF BusOK, fixed, bus
<1>15. ASSUME HwEndsBadly
       PROVE  hw' \in Hardware /\ wb' \in Counts
  <2>1. hw' = [hw EXCEPT !.cur = None, !.busy = FALSE, !.stat = @ \cup {"err"}]
        /\ wb' \in {wb, [n |-> hw.cnt, err |-> TRUE]}
    BY <1>15 DEF HwEndsBadly
  <2>2. hw.cnt \in Nat /\ wb \in Counts
    BY <1>1 DEF BusOK, Hardware
  <2>3. [n |-> hw.cnt, err |-> TRUE] \in Counts
    BY <2>2 DEF Counts
  <2> QED  BY <1>1, <2>1, <2>2, <2>3 DEF BusOK, Hardware
<1>16. CASE HwFetch
  <2>1. hw' \in Hardware /\ wb' \in Counts
    <3>1. CASE hw.idx < desc.n
      <4> DEFINE d == [owner |-> desc.owner, last |-> hw.idx + 1 = desc.n]
      <4>1. d \in [owner : Threads \cup {None}, last : BOOLEAN] /\ hw.idx + 1 \in Nat
        <5> DEFINE b == hw.idx + 1 = desc.n
        <5>1. desc.owner \in Threads \cup {None} /\ hw.idx \in Nat /\ b \in BOOLEAN
          BY <1>1 DEF TypeOK, BusOK, Hardware
        <5>2. d = [owner |-> desc.owner, last |-> b]
          OBVIOUS
        <5> HIDE DEF b
        <5> QED  BY <5>1, <5>2
      <4>2. hw' = [hw EXCEPT !.cur = d, !.idx = @ + 1] /\ wb' = wb
        BY <1>16, <3>1 DEF HwFetch
      <4> HIDE DEF d
      <4> QED  BY <1>1, <4>1, <4>2 DEF BusOK, Hardware
    <3>2. CASE ~(hw.idx < desc.n)
      BY <1>15, <1>16, <3>2 DEF HwFetch
    <3> QED  BY <3>1, <3>2
  <2> QED  BY <1>1, <1>16, <2>1 DEF HwFetch, program, BusOK, fixed, bus
<1>17. CASE HwDone
  <2> DEFINE h == [hw EXCEPT !.cur = None, !.cnt = @ + 1]
  <2>1. h \in Hardware /\ h.cnt \in Nat
    <3>1. hw \in Hardware /\ hw.cnt + 1 \in Nat
      BY <1>1 DEF BusOK, Hardware
    <3>2. \A k \in Nat : [hw EXCEPT !.cur = None, !.cnt = k] \in Hardware
      BY <3>1 DEF Hardware
    <3>3. \A f \in Hardware : f.cnt \in Nat
      BY DEF Hardware
    <3> QED  BY <3>1, <3>2, <3>3
  <2>2. \/ hw' = h /\ UNCHANGED <<wb, why>>
        \/ /\ hw' = [h EXCEPT !.stat = @ \cup {"done"}, !.busy = busyLag, !.lagging = busyLag]
           /\ wb' \in {wb, [n |-> h.cnt, err |-> FALSE]}
           /\ why' \in {why, why \cup {"lag"}}
    BY <1>17 DEF HwDone
  <2> HIDE DEF h
  <2>3. hw' \in Hardware
    <3>1. h.stat \cup {"done"} \in SUBSET {"done", "err"} /\ busyLag \in BOOLEAN
      BY <1>1, <2>1 DEF BusOK, Hardware
    <3>2. \A x \in SUBSET {"done", "err"}, b \in BOOLEAN :
            [h EXCEPT !.stat = x, !.busy = b, !.lagging = b] \in Hardware
      BY <2>1 DEF Hardware
    <3>3. hw' = h \/ hw' = [h EXCEPT !.stat = h.stat \cup {"done"}, !.busy = busyLag, !.lagging = busyLag]
      BY <2>2
    <3> QED  BY <2>1, <3>1, <3>2, <3>3
  <2>4. [n |-> h.cnt, err |-> FALSE] \in Counts
    BY <2>1 DEF Counts
  <2>5. wb' \in Counts /\ why' \subseteq Trouble
    BY <1>1, <2>2, <2>4 DEF BusOK, Trouble
  <2> QED  BY <1>1, <1>17, <2>3, <2>5 DEF HwDone, program, BusOK, fixed, bus
<1>18. CASE HwFault
  <2>1. hw' \in Hardware /\ wb' \in Counts
    BY <1>15, <1>18 DEF HwFault
  <2>2. faults' \in 0 .. MaxFaults
    BY <1>1, <1>18, XdmaAssumption DEF HwFault, BusOK
  <2> QED  BY <1>1, <1>18, <2>1, <2>2 DEF HwFault, program, BusOK, fixed, bus, Trouble
<1>19. CASE HwIdle
  <2>1. hw' = [hw EXCEPT !.busy = FALSE, !.lagging = FALSE, !.stat = @ \cup {"done"}]
        \/ hw' = [hw EXCEPT !.busy = FALSE, !.lagging = FALSE]
    BY <1>1, <1>19 DEF HwIdle, BusOK, Hardware
  <2>2. hw' \in Hardware
    BY ZenonT(40), <1>1, <2>1 DEF BusOK, Hardware
  <2> QED  BY <1>3, <1>19, <2>2 DEF HwIdle, program
<1>20. CASE SetOffline
  <2>1. resets' \in 0 .. MaxResets
    BY SMTT(40), <1>1, <1>20, XdmaAssumption DEF SetOffline, BusOK
  <2> QED  BY <1>1, <1>20, <2>1 DEF SetOffline, Advance, BusOK, fixed, Phase, Trouble
<1>21. CASE StopEngine
  BY <1>1, <1>4, <1>21 DEF StopEngine, Advance, BusOK, fixed, Phase
<1>22. CASE DeviceReset
  BY SMTT(40), <1>1, <1>2, <1>22 DEF DeviceReset, Advance, BusOK, fixed, Phase
<1>23. CASE InitRegs
  BY <1>1, <1>2, <1>4, <1>23 DEF InitRegs, Advance, BusOK, fixed, Phase
<1>24. CASE IrqTeardown \/ ClearRequest \/ SetOnline
  BY <1>1, <1>24 DEF IrqTeardown, ClearRequest, SetOnline, Advance, BusOK, fixed, Phase
<1>25. CASE Finished \/ UNCHANGED vars
  BY <1>1, <1>25 DEF Finished, vars, BusOK, fixed, bus
<1> QED
  BY <1>6, <1>7, <1>8, <1>9, <1>10, <1>11, <1>12, <1>13, <1>14, <1>16, <1>17, <1>18, <1>19, <1>20,
     <1>21, <1>22, <1>23, <1>24, <1>25
     DEF Next, ThreadStep, ServiceStep, HwStep, PciStep

LEMMA TypeStep ==
  ASSUME QueueInv, TypeOK, [Next]_vars
  PROVE  TypeOK'
<1>1. CallerOK' /\ EngineOK' /\ BusOK'
  BY CallerStep, EngineStep, BusStep
<1> QED  BY <1>1 DEF CallerOK, EngineOK, BusOK, TypeOK

-----------------------------------------------------------------------------
(* The descriptor block belongs to the thread that has desc_lock.           *)

LEMMA Marked ==
  ASSUME TypeOK, NEW t, NEW w, xfer' = [xfer EXCEPT ![t].state = w]
  PROVE  \A u \in Threads : /\ xfer'[u].n = xfer[u].n /\ xfer'[u].moved = xfer[u].moved
                            /\ xfer'[u].state = IF u = t THEN w ELSE xfer[u].state
<1>1. xfer \in [Threads -> [state : State, n : 0 .. MaxDesc, moved : Nat]]
  BY DEF TypeOK
<1> QED  BY <1>1

\* What transfers are collected leaves their lengths and what was moved alone.
LEMMA Lengths ==
  ASSUME TypeOK, [Next]_vars, NEW u \in Threads
  PROVE  /\ TransferInit(u) \/ (xfer'[u].n = xfer[u].n /\ xfer'[u].moved >= xfer[u].moved)
         /\ xfer'[u].moved = xfer[u].moved \/ TransferInit(u) \/ (HwDone /\ hw.cur.owner = u)
<1>1. /\ xfer \in [Threads -> [state : State, n : 0 .. MaxDesc, moved : Nat]]
      /\ xfer[u].moved \in Nat
  BY DEF TypeOK
<1>2. CASE UNCHANGED xfer
  BY <1>1, <1>2
<1>3. ASSUME NEW t, NEW w, xfer' = [xfer EXCEPT ![t].state = w]
      PROVE  xfer'[u].n = xfer[u].n /\ xfer'[u].moved = xfer[u].moved
  BY <1>3, Marked
<1>4. ASSUME NEW t \in Threads, TransferQueue(t) \/ Reap(t)
      PROVE  xfer'[u].n = xfer[u].n /\ xfer'[u].moved = xfer[u].moved
  <2>1. UNCHANGED xfer \/ xfer' = [xfer EXCEPT ![t].state = "SUBMITTED"]
        \/ xfer' = [xfer EXCEPT ![t].state = "ABORTED"]
    BY <1>4 DEF TransferQueue, Reap
  <2> QED  BY <1>3, <2>1
<1>5. CASE ServiceTransfer \/ ServiceFinal
  <2>1. UNCHANGED xfer \/ \E t, w : xfer' = [xfer EXCEPT ![t].state = w]
    BY <1>5 DEF ServiceTransfer, ServiceFinal, Collect
  <2>2. xfer'[u].n = xfer[u].n /\ xfer'[u].moved = xfer[u].moved
    BY <1>3, <2>1
  <2> QED  BY <1>1, <2>2
<1>6. CASE HwDone
  <2>1. UNCHANGED xfer \/ xfer' = [xfer EXCEPT ![hw.cur.owner].moved = @ + 1]
    BY <1>6 DEF HwDone
  <2>2. CASE UNCHANGED xfer
    BY <1>2, <2>2
  <2>3. CASE xfer' = [xfer EXCEPT ![hw.cur.owner].moved = @ + 1]
    <3>1. CASE hw.cur.owner = u
      <4>1. xfer'[u] = [xfer[u] EXCEPT !.moved = @ + 1]
        BY <1>1, <2>3, <3>1
      <4>2. xfer'[u].n = xfer[u].n /\ xfer'[u].moved = xfer[u].moved + 1
        BY <1>1, <4>1
      <4> QED  BY <1>1, <1>6, <3>1, <4>2
    <3>2. CASE hw.cur.owner # u
      <4>1. xfer'[u] = xfer[u]
        BY <1>1, <2>3, <3>2
      <4> QED  BY <1>1, <4>1
    <3> QED  BY <3>1, <3>2
  <2> QED  BY <2>1, <2>2, <2>3
<1>7. ASSUME NEW t \in Threads, TransferInit(t)
      PROVE  t = u \/ (xfer'[u].n = xfer[u].n /\ xfer'[u].moved = xfer[u].moved)
  BY <1>1, <1>7 DEF TransferInit
<1>8. ASSUME NEW t \in Threads, \/ Call(t) \/ TakeDescLock(t) \/ Wake(t) \/ WaitEnds(t) \/ PollFinds(t)
                                \/ PollTimesOut(t) \/ ServicePoll(t)
      PROVE  UNCHANGED xfer
  BY <1>8 DEF Call, TakeDescLock, Wake, WaitEnds, PollFinds, PollTimesOut, ServicePoll
<1>9. CASE \/ Interrupt \/ ServiceWork \/ ReadCount \/ HwFetch \/ HwFault \/ HwIdle \/ PciStep
           \/ Finished \/ UNCHANGED vars
  <2>1. UNCHANGED xfer
    BY <1>9 DEF Interrupt, ServiceWork, ReadCount, HwFetch, HwFault, HwIdle, PciStep,
                SetOffline, StopEngine, IrqTeardown, DeviceReset, InitRegs, ClearRequest,
                SetOnline, Finished, vars, caller
  <2> QED  BY <1>2, <2>1
<1> QED
  BY <1>1, <1>2, <1>4, <1>5, <1>6, <1>7, <1>8, <1>9 DEF Next, ThreadStep, ServiceStep, HwStep

LEMMA NotInit ==
  ASSUME TypeOK, NEW t, pc[t] # "init" \/ t \notin Threads,
         UNCHANGED pc \/ \E w : pc' = [pc EXCEPT ![t] = w],
         NEW u \in Threads
  PROVE  ~TransferInit(u)
<1>1. pc \in [Threads -> Where]
  BY DEF TypeOK
<1>2. TransferInit(u) => pc[u] = "init" /\ pc'[u] # "init"
  BY <1>1 DEF TransferInit, Return, Goto
<1>3. pc[u] = "init" => pc'[u] = "init"
  BY <1>1
<1> QED  BY <1>2, <1>3

LEMMA DescStep ==
  ASSUME QueueInv, TypeOK, DescInv, [Next]_vars
  PROVE  DescInv'
<1>1. /\ pc \in [Threads -> Where] /\ left \in [Threads -> Nat]
      /\ xfer \in [Threads -> [state : State, n : 0 .. MaxDesc, moved : Nat]]
  BY DEF TypeOK
<1>2. \A t \in Threads : (\A u \in Threads : ~TransferInit(u)) => xfer'[t].n = xfer[t].n
  BY Lengths
\* A caller goes on, or out.
<1>3. ASSUME NEW t \in Threads, NEW w \in {"wait", "service", "reap", "idle"}, Goto(t, w),
             w = "idle" \/ pc[t] \in Having,
             UNCHANGED <<left, desc>>, \A u \in Threads : xfer'[u].n = xfer[u].n,
             \A u \in Threads : u # t => (started' = u => started = u)
      PROVE  DescInv'
  BY <1>1, <1>3 DEF DescInv, Having, Goto
<1>4. ASSUME UNCHANGED <<pc, left, desc, started>>, \A u \in Threads : xfer'[u].n = xfer[u].n
      PROVE  DescInv'
  BY <1>4 DEF DescInv
<1>5. ASSUME NEW t \in Threads, Call(t)
      PROVE  DescInv'
  <2>1. PICK k \in Requests : IF Offline THEN Return(t, "EBUSY") /\ UNCHANGED left
                              ELSE Goto(t, "lock") /\ left' = [left EXCEPT ![t] = k] /\ UNCHANGED result
    BY <1>5 DEF Call
  <2>2. k > 0
    BY XdmaAssumption
  <2>3. UNCHANGED <<desc, xfer, started>>
    BY <1>5 DEF Call, engine
  <2> QED  BY <1>1, <2>1, <2>2, <2>3 DEF DescInv, Having, Return, Goto
<1>6. ASSUME NEW t \in Threads, TakeDescLock(t)
      PROVE  DescInv'
  BY <1>1, <1>6 DEF TakeDescLock, DescInv, Having, Goto, engine
<1>7. ASSUME NEW t \in Threads, TransferInit(t)
      PROVE  DescInv'
  <2> DEFINE k == SmallerOf(left[t], MaxDesc)
  <2>1. k > 0
    <3>1. left[t] \in Nat /\ MaxDesc \in Nat \ {0} /\ left[t] > 0
      BY <1>1, <1>7, XdmaAssumption DEF DescInv, TransferInit
    <3> QED  BY <3>1 DEF SmallerOf
  <2>2. /\ desc' = [owner |-> t, n |-> k] /\ left' = [left EXCEPT ![t] = @ - k]
        /\ xfer' = [xfer EXCEPT ![t] = [state |-> "NEW", n |-> k, moved |-> 0]]
        /\ pc' = [pc EXCEPT ![t] = "idle"] \/ pc' = [pc EXCEPT ![t] = "queue"]
        /\ started' = IF started = t THEN None ELSE started
    BY <1>7 DEF TransferInit, Return, Goto
  <2> HIDE DEF k
  <2>3. \A u \in Threads : u # t => pc'[u] = pc[u] /\ pc[u] \notin Having /\ left'[u] = left[u]
    BY <1>1, <1>7, <2>2 DEF TransferInit, QueueInv, Holding, Having
  <2>4. pc'[t] \in {"idle", "queue"} /\ desc'.owner = t /\ desc'.n = k /\ xfer'[t].n = k /\ started' # t
    BY <1>1, <2>2, XdmaAssumption
  <2> QED  BY <2>1, <2>3, <2>4 DEF DescInv, Having
<1>8. ASSUME NEW t \in Threads, TransferQueue(t)
      PROVE  DescInv'
  <2>1. \A u \in Threads : xfer'[u].n = xfer[u].n
    BY <1>2, <1>8 DEF TransferQueue, TransferInit
  <2>2. UNCHANGED <<left, desc>>
    BY <1>8 DEF TransferQueue
  <2>3. CASE eng.request
    BY <1>3, <1>8, <2>1, <2>2, <2>3 DEF TransferQueue, Return
  <2>4. CASE ~eng.request
    <3>1. pc[t] = "queue" /\ descLock = t /\ list = << >>
      BY <1>8, QueueOrNothing DEF TransferQueue, QueueInv, Holding, Submitted
    <3>2. Head(Append(list, t)) = t
      BY <3>1
    <3>3. \A u \in Threads : started' = u => started = u \/ u = t
      BY <1>8, <2>4, <3>2, XdmaAssumption DEF TransferQueue, EngineStart
    <3>4. Goto(t, "wait")
      BY <1>8, <2>4 DEF TransferQueue
    <3> QED  BY <1>3, <2>1, <2>2, <3>1, <3>3, <3>4 DEF Having
  <2> QED  BY <2>3, <2>4
<1>9. ASSUME NEW t \in Threads, Wake(t) \/ WaitEnds(t) \/ PollFinds(t) \/ PollTimesOut(t)
      PROVE  DescInv'
  <2>1. pc[t] \in Having /\ (Goto(t, "reap") \/ Goto(t, "service"))
    BY <1>9 DEF Wake, WaitEnds, PollFinds, PollTimesOut, Having
  <2>2. UNCHANGED <<left, desc, started, xfer>>
    BY <1>9 DEF Wake, WaitEnds, PollFinds, PollTimesOut, engine
  <2> QED  BY <1>3, <2>1, <2>2
<1>10. ASSUME NEW t \in Threads, ServicePoll(t)
       PROVE  DescInv'
  <2>1. pc[t] \in Having /\ UNCHANGED <<left, desc, started, xfer>>
    BY <1>10 DEF ServicePoll, Having
  <2>2. UNCHANGED pc \/ Goto(t, "reap")
    BY <1>10 DEF ServicePoll
  <2> QED  BY <1>3, <1>4, <2>1, <2>2
<1>11. ASSUME NEW t \in Threads, Reap(t)
       PROVE  DescInv'
  <2>1. UNCHANGED <<left, started>> /\ pc[t] = "reap"
    BY <1>11 DEF Reap
  <2>2. (pc' = [pc EXCEPT ![t] = "lock"] /\ left[t] > 0) \/ pc' = [pc EXCEPT ![t] = "idle"]
    BY <1>11 DEF Reap, Return, Goto
  <2>3. \A u \in Threads : xfer'[u].n = xfer[u].n
    BY <1>2, <2>1, <2>2, NotInit
  <2>4. \A u \in Threads : u # t => pc'[u] = pc[u] /\ pc[u] \notin Having
    BY <1>1, <2>1, <2>2 DEF QueueInv, Holding, Having
  <2> QED  BY <1>1, <2>1, <2>2, <2>4 DEF DescInv, Having
<1>12. CASE ServiceTransfer
  <2>1. UNCHANGED <<pc, left, desc, started>>
    BY <1>12 DEF ServiceTransfer
  <2>2. \A u \in Threads : ~TransferInit(u)
    BY <2>1, NotInit, XdmaAssumption
  <2> QED  BY <1>2, <1>4, <2>1, <2>2
<1>13. CASE ServiceFinal
  <2>1. UNCHANGED <<left, desc, started>>
    <3>1. list' = << >>
      BY <1>13, QueueOrNothing DEF ServiceFinal, Collect
    <3> QED  BY <1>13, <3>1 DEF ServiceFinal, Resume
  <2>2. UNCHANGED pc \/ Goto(svc.by, "reap")
    BY <1>13 DEF ServiceFinal
  <2>3. svc.by \in Threads => pc[svc.by] = "service"
    BY DEF QueueInv
  <2>4. \A u \in Threads : ~TransferInit(u)
    BY <2>2, <2>3, NotInit DEF Goto
  <2>5. \A u \in Threads : xfer'[u].n = xfer[u].n
    BY <1>2, <2>4
  <2>6. svc.by \notin Threads => UNCHANGED pc
    BY <1>1, <2>2 DEF Goto
  <2> QED  BY <1>3, <1>4, <2>1, <2>2, <2>3, <2>5, <2>6 DEF Having
<1>14. CASE \/ Interrupt \/ ServiceWork \/ ReadCount \/ HwStep \/ PciStep \/ Finished \/ UNCHANGED vars
  <2>1. UNCHANGED <<pc, left, desc, started, calls>>
    BY <1>14 DEF Interrupt, ServiceWork, ReadCount, HwStep, HwFetch, HwDone, HwFault, HwIdle, PciStep,
                SetOffline, StopEngine, IrqTeardown, DeviceReset, InitRegs, ClearRequest,
                SetOnline, Finished, vars, caller, engine, program
  <2>2. \A u \in Threads : ~TransferInit(u)
    BY <1>1, <2>1 DEF TransferInit, Return, Goto, Where
  <2> QED  BY <1>2, <1>4, <2>1, <2>2
<1> QED
  BY <1>5, <1>6, <1>7, <1>8, <1>9, <1>10, <1>11, <1>12, <1>13, <1>14
     DEF Next, ThreadStep, ServiceStep

-----------------------------------------------------------------------------
(* What the parts of the handlers do to the engine and its hardware.        *)

\* engine_service begins.
LEMMA Begins ==
  ASSUME TypeOK, NEW who, NEW c \in Counts, ServiceBegins(who, c)
  PROVE  /\ hw'.cur = hw.cur /\ hw'.busy = hw.busy /\ hw'.lagging = hw.lagging
         /\ hw'.idx = hw.idx /\ hw'.cnt = hw.cnt /\ hw'.irqEn = hw.irqEn
         /\ c.n = 0 \/ c.err => hw'.stat = {} /\ (eng'.err <=> "err" \in hw.stat)
         /\ ~(c.n = 0 \/ c.err) => hw'.stat = hw.stat /\ eng'.err = eng.err
         /\ eng'.request = eng.request /\ eng'.dequeued = eng.dequeued
         /\ c.n = 0 /\ hw.busy => eng'.running /\ hw'.run = hw.run
         /\ ~(c.n = 0 /\ hw.busy) => ~eng'.running /\ ~hw'.run
         /\ svc'.by = who /\ svc'.step = "count" /\ svc'.count = c.n
<1> DEFINE x == "err" \in hw.stat
           read == c.n = 0 \/ c.err
           e == IF read THEN ReadStatus(eng) ELSE eng
           h == IF read THEN [hw EXCEPT !.stat = {}] ELSE hw
           over == ~e.busy \/ c.n # 0
<1>1. hw \in Hardware /\ eng \in Engine /\ c.n \in Nat /\ x \in BOOLEAN
  BY DEF TypeOK, Counts
<1>2. /\ ReadStatus(eng) \in Engine /\ ReadStatus(eng).busy = hw.busy /\ ReadStatus(eng).err = x
      /\ ReadStatus(eng).request = eng.request /\ ReadStatus(eng).dequeued = eng.dequeued
  <2>1. ReadStatus(eng) = [eng EXCEPT !.busy = hw.busy, !.err = x]
    BY DEF ReadStatus
  <2> HIDE DEF x
  <2> QED  BY <1>1, <2>1 DEF Engine, Hardware
<1>3. /\ e \in Engine /\ e.request = eng.request /\ e.dequeued = eng.dequeued
      /\ read => e.busy = hw.busy /\ e.err = x
      /\ ~read => e.err = eng.err
  BY <1>1, <1>2
<1>4. /\ h \in Hardware /\ h.cur = hw.cur /\ h.busy = hw.busy /\ h.lagging = hw.lagging
      /\ h.idx = hw.idx /\ h.cnt = hw.cnt /\ h.irqEn = hw.irqEn /\ h.run = hw.run
      /\ read => h.stat = {}
      /\ ~read => h.stat = hw.stat
  BY <1>1 DEF Hardware
<1>5. /\ eng' = [e EXCEPT !.running = ~over] /\ hw' = IF over THEN Stop(h) ELSE h
      /\ svc' = [by |-> who, step |-> "count", count |-> c.n]
  BY DEF ServiceBegins
<1>6. over <=> ~(c.n = 0 /\ hw.busy)
  BY <1>1, <1>3
<1>7. read <=> c.n = 0 \/ c.err
  OBVIOUS
<1> HIDE DEF e, h, over, read
<1>8. /\ eng'.err = e.err /\ eng'.request = e.request /\ eng'.dequeued = e.dequeued
      /\ eng'.running = ~over
  BY <1>3, <1>5 DEF Engine
<1>9. /\ hw'.cur = h.cur /\ hw'.busy = h.busy /\ hw'.lagging = h.lagging
      /\ hw'.idx = h.idx /\ hw'.cnt = h.cnt /\ hw'.irqEn = h.irqEn /\ hw'.stat = h.stat
      /\ over => ~hw'.run
      /\ ~over => hw'.run = h.run
  BY <1>4, <1>5 DEF Stop, Hardware
<1>10. svc'.by = who /\ svc'.step = "count" /\ svc'.count = c.n
  BY <1>5
<1>11. /\ read => hw'.stat = {} /\ eng'.err = x
       /\ ~read => hw'.stat = hw.stat /\ eng'.err = eng.err
  BY <1>3, <1>4, <1>8, <1>9
<1>12. /\ hw'.cur = hw.cur /\ hw'.busy = hw.busy /\ hw'.lagging = hw.lagging
       /\ hw'.idx = hw.idx /\ hw'.cnt = hw.cnt /\ hw'.irqEn = hw.irqEn
       /\ eng'.request = eng.request /\ eng'.dequeued = eng.dequeued
  BY <1>3, <1>4, <1>8, <1>9
<1>13. /\ ~over => eng'.running /\ hw'.run = hw.run
       /\ over => ~eng'.running /\ ~hw'.run
  BY <1>4, <1>8, <1>9
<1> QED  BY <1>6, <1>7, <1>10, <1>11, <1>12, <1>13

\* engine_start, of an engine as it is.
LEMMA Starts ==
  ASSUME TypeOK, NEW q, EngineStart(q, eng, hw)
  PROVE  /\ hw'.run /\ hw'.busy /\ ~hw'.lagging /\ hw'.idx = 0 /\ hw'.cnt = 0
         /\ hw'.cur = hw.cur /\ hw'.stat = hw.stat /\ hw'.irqEn = hw.irqEn
         /\ eng'.running /\ ~eng'.request /\ eng'.dequeued = 0
         /\ (eng'.err <=> "err" \in hw.stat)
         /\ started' = IF hw.cur = None THEN Head(q) ELSE None
<1> DEFINE x == "err" \in hw.stat
<1>1. hw \in Hardware /\ eng \in Engine /\ x \in BOOLEAN
  BY DEF TypeOK
<1>2. /\ hw' = [hw EXCEPT !.run = TRUE, !.busy = TRUE, !.lagging = FALSE, !.idx = 0, !.cnt = 0]
      /\ eng' = [eng EXCEPT !.running = TRUE, !.request = FALSE, !.dequeued = 0, !.busy = TRUE, !.err = x]
      /\ started' = IF hw.cur = None THEN Head(q) ELSE None
  BY DEF EngineStart
<1> HIDE DEF x
<1>3. /\ hw'.run /\ hw'.busy /\ ~hw'.lagging /\ hw'.idx = 0 /\ hw'.cnt = 0
      /\ hw'.cur = hw.cur /\ hw'.stat = hw.stat /\ hw'.irqEn = hw.irqEn
  BY <1>1, <1>2 DEF Hardware
<1>4. /\ eng'.running /\ ~eng'.request /\ eng'.dequeued = 0 /\ eng'.err = x
  BY <1>1, <1>2 DEF Engine
<1> QED  BY <1>2, <1>3, <1>4 DEF x

\* The end of engine_service: it never has a transfer to go on with.
LEMMA Finals ==
  ASSUME QueueInv, TypeOK, ServiceFinal
  PROVE  /\ list' = << >> /\ started' = started /\ svc'.by = None
         /\ eng'.running = eng.running /\ eng'.request = eng.request /\ eng'.err = eng.err
         /\ list = << >> => eng' = eng /\ xfer' = xfer
         /\ hw'.cur = hw.cur /\ hw'.busy = hw.busy /\ hw'.lagging = hw.lagging
         /\ hw'.idx = hw.idx /\ hw'.cnt = hw.cnt /\ hw'.stat = hw.stat
         /\ hw'.run = hw.run \/ (~hw'.run /\ eng.err)
         /\ hw'.irqEn = hw.irqEn \/ hw'.irqEn
         /\ svc.by = Work => hw'.irqEn
         /\ wb' = IF poll THEN NoCount ELSE wb
         /\ list # << >> => xfer' = [xfer EXCEPT ![descLock].state =
                              IF eng.err \/ svc.count < xfer[descLock].n THEN "FAILED" ELSE "COMPLETED"]
<1> DEFINE h == IF svc.by = Work THEN [hw EXCEPT !.irqEn = TRUE] ELSE hw
<1>1. hw \in Hardware /\ eng \in Engine
  BY DEF TypeOK
<1>2. list' = << >>
  BY QueueOrNothing DEF ServiceFinal, Collect
<1>3. svc' = NoService /\ wb' = IF poll THEN NoCount ELSE wb
  BY DEF ServiceFinal
<1>4. svc'.by = None
  BY <1>3 DEF NoService
<1>5. /\ h \in Hardware /\ h.cur = hw.cur /\ h.busy = hw.busy /\ h.lagging = hw.lagging
      /\ h.idx = hw.idx /\ h.cnt = hw.cnt /\ h.stat = hw.stat /\ h.run = hw.run
      /\ svc.by = Work => h.irqEn
      /\ svc.by # Work => h.irqEn = hw.irqEn
  BY <1>1 DEF Hardware
<1>6. list = << >> => eng' = eng /\ xfer' = xfer /\ started' = started /\ hw' = h
  BY DEF ServiceFinal, Resume
<1>7. list # << >> =>
        /\ eng' = [eng EXCEPT !.dequeued = @ + xfer[Head(list)].n] /\ started' = started
        /\ hw' = IF eng.err THEN Stop(h) ELSE h
        /\ xfer' = [xfer EXCEPT ![Head(list)].state =
                      IF eng.err \/ svc.count < xfer[Head(list)].n THEN "FAILED" ELSE "COMPLETED"]
  BY <1>2 DEF ServiceFinal, Resume, Collect
<1>8. hw' = h \/ (hw' = Stop(h) /\ eng.err)
  BY <1>6, <1>7
<1> HIDE DEF h
<1>9. /\ hw'.cur = h.cur /\ hw'.busy = h.busy /\ hw'.lagging = h.lagging
      /\ hw'.idx = h.idx /\ hw'.cnt = h.cnt /\ hw'.stat = h.stat /\ hw'.irqEn = h.irqEn
      /\ hw'.run = h.run \/ (~hw'.run /\ eng.err)
  BY <1>5, <1>8 DEF Stop, Hardware
<1>10. eng'.running = eng.running /\ eng'.request = eng.request /\ eng'.err = eng.err
  BY <1>1, <1>6, <1>7 DEF Engine
<1>11. /\ hw'.cur = hw.cur /\ hw'.busy = hw.busy /\ hw'.lagging = hw.lagging
       /\ hw'.idx = hw.idx /\ hw'.cnt = hw.cnt /\ hw'.stat = hw.stat
       /\ hw'.run = hw.run \/ (~hw'.run /\ eng.err)
       /\ hw'.irqEn = hw.irqEn \/ hw'.irqEn
       /\ svc.by = Work => hw'.irqEn
  BY <1>5, <1>9
<1>12. list # << >> => xfer' = [xfer EXCEPT ![descLock].state =
                         IF eng.err \/ svc.count < xfer[descLock].n THEN "FAILED" ELSE "COMPLETED"]
  BY <1>7, QueueOrNothing
<1> QED  BY <1>2, <1>3, <1>4, <1>6, <1>7, <1>10, <1>11, <1>12

\* The hardware ends with an error.
LEMMA EndsBadly ==
  ASSUME TypeOK, HwEndsBadly
  PROVE  /\ hw'.cur = None /\ ~hw'.busy /\ hw'.stat = hw.stat \cup {"err"}
         /\ hw'.run = hw.run /\ hw'.lagging = hw.lagging /\ hw'.irqEn = hw.irqEn
         /\ hw'.idx = hw.idx /\ hw'.cnt = hw.cnt
         /\ wb' = IF poll THEN [n |-> hw.cnt, err |-> TRUE] ELSE wb
<1>1. hw \in Hardware
  BY DEF TypeOK
<1> QED  BY <1>1 DEF HwEndsBadly, Hardware

\* The hardware fetches a descriptor of the block.
LEMMA Fetches ==
  ASSUME TypeOK, HwFetch
  PROVE  /\ hw.run /\ hw.busy /\ ~hw.lagging /\ hw.cur = None
         /\ \/ HwEndsBadly /\ ~(hw.idx < desc.n)
            \/ /\ hw'.cur # None /\ hw'.cur.owner = desc.owner
               /\ (hw'.cur.last <=> hw.idx + 1 = desc.n)
               /\ hw'.idx = hw.idx + 1 /\ hw.idx < desc.n /\ UNCHANGED wb
               /\ hw'.run = hw.run /\ hw'.busy = hw.busy /\ hw'.lagging = hw.lagging
               /\ hw'.irqEn = hw.irqEn /\ hw'.cnt = hw.cnt /\ hw'.stat = hw.stat
<1>1. hw \in Hardware
  BY DEF TypeOK
<1>2. hw.run /\ hw.busy /\ ~hw.lagging /\ hw.cur = None
  BY DEF HwFetch
<1>3. CASE ~(hw.idx < desc.n)
  BY <1>2, <1>3 DEF HwFetch
<1>4. CASE hw.idx < desc.n
  <2> DEFINE b == hw.idx + 1 = desc.n
             d == [owner |-> desc.owner, last |-> b]
  <2>1. hw' = [hw EXCEPT !.cur = d, !.idx = @ + 1] /\ UNCHANGED wb
    BY <1>4 DEF HwFetch
  <2>2. b \in BOOLEAN /\ desc.owner \in Threads \cup {None}
    BY DEF TypeOK
  <2>3. d # None /\ d.owner = desc.owner /\ d.last = b
    <3> HIDE DEF b
    <3>1. d \in [owner : Threads \cup {None}, last : BOOLEAN]
      BY <2>2
    <3> QED  BY <3>1, XdmaAssumption
  <2> HIDE DEF d
  <2>4. /\ hw'.cur = d /\ hw'.idx = hw.idx + 1
        /\ hw'.run = hw.run /\ hw'.busy = hw.busy /\ hw'.lagging = hw.lagging
        /\ hw'.irqEn = hw.irqEn /\ hw'.cnt = hw.cnt /\ hw'.stat = hw.stat
    BY <1>1, <2>1 DEF Hardware
  <2> QED  BY <1>2, <1>4, <2>1, <2>3, <2>4
<1> QED  BY <1>3, <1>4

\* A descriptor is done, the last one of a transfer or not.
LEMMA Does ==
  ASSUME TypeOK, HwDone
  PROVE  /\ hw.cur # None /\ hw'.cur = None /\ hw'.cnt = hw.cnt + 1 /\ hw'.idx = hw.idx
         /\ hw'.run = hw.run /\ hw'.irqEn = hw.irqEn
         /\ hw.cur.last =>
              /\ hw'.busy = busyLag /\ hw'.lagging = busyLag /\ hw'.stat = hw.stat \cup {"done"}
              /\ wb' = IF poll THEN [n |-> hw.cnt + 1, err |-> FALSE] ELSE wb
              /\ why' = IF busyLag THEN why \cup {"lag"} ELSE why
         /\ ~hw.cur.last =>
              /\ hw'.busy = hw.busy /\ hw'.lagging = hw.lagging /\ hw'.stat = hw.stat
              /\ UNCHANGED <<wb, why>>
<1> DEFINE h == [hw EXCEPT !.cur = None, !.cnt = @ + 1]
<1>1. hw \in Hardware
  BY DEF TypeOK
<1>2. /\ h.cur = None /\ h.cnt = hw.cnt + 1 /\ h.idx = hw.idx /\ h.run = hw.run /\ h.irqEn = hw.irqEn
      /\ h.busy = hw.busy /\ h.lagging = hw.lagging /\ h.stat = hw.stat
      /\ DOMAIN h = {"run", "busy", "lagging", "irqEn", "cur", "idx", "cnt", "stat"}
  BY <1>1 DEF Hardware
<1>3. /\ hw.cur # None
      /\ hw.cur.last =>
           /\ hw' = [h EXCEPT !.stat = @ \cup {"done"}, !.busy = busyLag, !.lagging = busyLag]
           /\ wb' = IF poll THEN [n |-> h.cnt, err |-> FALSE] ELSE wb
           /\ why' = IF busyLag THEN why \cup {"lag"} ELSE why
      /\ ~hw.cur.last => hw' = h /\ UNCHANGED <<wb, why>>
  BY DEF HwDone
<1>4. h \in Hardware
  <2>1. hw.cnt + 1 \in Nat
    BY <1>1 DEF Hardware
  <2>2. \A k \in Nat : [hw EXCEPT !.cur = None, !.cnt = k] \in Hardware
    BY <1>1 DEF Hardware
  <2> QED  BY <2>1, <2>2
<1> HIDE DEF h
<1>5. CASE hw.cur.last
  <2>1. /\ hw'.cur = h.cur /\ hw'.cnt = h.cnt /\ hw'.idx = h.idx /\ hw'.run = h.run /\ hw'.irqEn = h.irqEn
        /\ hw'.busy = busyLag /\ hw'.lagging = busyLag /\ hw'.stat = h.stat \cup {"done"}
    BY <1>3, <1>4, <1>5 DEF Hardware
  <2> QED  BY <1>2, <1>3, <1>5, <2>1
<1>6. CASE ~hw.cur.last
  BY <1>2, <1>3, <1>6
<1> QED  BY <1>5, <1>6

LEMMA Idles ==
  ASSUME TypeOK, HwIdle
  PROVE  /\ hw.busy /\ hw.cur = None /\ (hw.lagging \/ ~hw.run)
         /\ ~hw'.busy /\ ~hw'.lagging /\ hw'.cur = None /\ hw'.run = hw.run /\ hw'.irqEn = hw.irqEn
         /\ hw'.idx = hw.idx /\ hw'.cnt = hw.cnt
         /\ hw'.stat = IF hw.lagging THEN hw.stat \cup {"done"} ELSE hw.stat
<1>1. hw \in Hardware
  BY DEF TypeOK
<1> QED  BY <1>1 DEF HwIdle, Hardware

\* A caller that reaps lets go of what the hardware has of its transfer.
LEMMA Reaps ==
  ASSUME TypeOK, NEW t \in Threads, Reap(t)
  PROVE  /\ hw.cur = None => hw'.cur = None
         /\ hw.cur # None => /\ hw.cur.owner # t => hw'.cur = hw.cur
                             /\ hw.cur.owner = t => hw'.cur.owner = None
         /\ hw'.busy = hw.busy /\ hw'.lagging = hw.lagging /\ hw'.irqEn = hw.irqEn
         /\ hw'.idx = hw.idx /\ hw'.cnt = hw.cnt /\ hw'.stat = hw.stat
         /\ eng'.running = eng.running /\ eng'.request = eng.request /\ eng'.dequeued = eng.dequeued
         /\ \/ hw'.run = hw.run /\ UNCHANGED <<xfer, list, eng, why>>
               /\ xfer[t].state \in {"COMPLETED", "FAILED"}
            \/ ~hw'.run /\ "gaveup" \in why' /\ xfer' = [xfer EXCEPT ![t].state = "ABORTED"]
<1> DEFINE g == hw.cur # None /\ hw.cur.owner = t
           h == IF g THEN [hw EXCEPT !.cur.owner = None] ELSE hw
           x == "err" \in hw.stat
<1>1. hw \in Hardware /\ eng \in Engine /\ x \in BOOLEAN
  BY DEF TypeOK
<1>2. /\ h \in Hardware /\ h.busy = hw.busy /\ h.lagging = hw.lagging /\ h.irqEn = hw.irqEn
      /\ h.idx = hw.idx /\ h.cnt = hw.cnt /\ h.stat = hw.stat /\ h.run = hw.run
      /\ ~g => h.cur = hw.cur
      /\ g => h.cur.owner = None
  <2>1. CASE g
    <3>1. hw.cur \in [owner : Threads \cup {None}, last : BOOLEAN]
      BY <1>1, <2>1 DEF Hardware
    <3> DEFINE d == [hw.cur EXCEPT !.owner = None]
    <3>2. d \in [owner : Threads \cup {None}, last : BOOLEAN] /\ d.owner = None
      BY <3>1
    <3>3. h = [hw EXCEPT !.cur = d]
      BY <2>1
    <3> HIDE DEF d, h, g
    <3> QED  BY <1>1, <2>1, <3>2, <3>3 DEF Hardware
  <2>2. CASE ~g
    BY <1>1, <2>2
  <2> QED  BY <2>1, <2>2
<1>3. \/ hw' = h /\ UNCHANGED <<xfer, list, eng, why>> /\ xfer[t].state \in {"COMPLETED", "FAILED"}
      \/ hw' = Stop(h) /\ "gaveup" \in why' /\ eng' = ReadStatus(eng) /\ xfer' = [xfer EXCEPT ![t].state = "ABORTED"]
  BY DEF Reap
<1>4. ReadStatus(eng) = [eng EXCEPT !.busy = hw.busy, !.err = x]
  BY DEF ReadStatus
<1>5. hw.cur = None => ~g
  OBVIOUS
<1>6. hw.cur # None => (g <=> hw.cur.owner = t)
  OBVIOUS
<1> HIDE DEF g, h, x
<1>7. /\ hw'.cur = h.cur /\ hw'.busy = h.busy /\ hw'.lagging = h.lagging /\ hw'.irqEn = h.irqEn
      /\ hw'.idx = h.idx /\ hw'.cnt = h.cnt /\ hw'.stat = h.stat
      /\ hw' = Stop(h) => ~hw'.run
  BY <1>2, <1>3 DEF Stop, Hardware
<1>8. eng'.running = eng.running /\ eng'.request = eng.request /\ eng'.dequeued = eng.dequeued
  BY <1>1, <1>3, <1>4 DEF Engine
<1>9. \/ hw'.run = hw.run /\ UNCHANGED <<xfer, list, eng, why>> /\ xfer[t].state \in {"COMPLETED", "FAILED"}
      \/ ~hw'.run /\ "gaveup" \in why' /\ xfer' = [xfer EXCEPT ![t].state = "ABORTED"]
  BY <1>2, <1>3, <1>7
<1> QED  BY <1>2, <1>5, <1>6, <1>7, <1>8, <1>9

-----------------------------------------------------------------------------
(* What was started ends, and leaves no count behind.                       *)

\* Most steps leave the engine, its hardware and the counts alone.
LEMMA Aside ==
  ASSUME [Next]_vars
  PROVE  \/ UNCHANGED <<poll, list, eng, svc, work, seen, started, wb, hw, pci>>
            /\ \E t \in Threads : \/ Call(t) \/ TakeDescLock(t) \/ Wake(t) \/ WaitEnds(t)
         \/ UNCHANGED vars
         \/ \E t \in Threads : \/ TransferInit(t) \/ TransferQueue(t) \/ PollFinds(t) \/ PollTimesOut(t)
                               \/ ServicePoll(t) \/ Reap(t)
         \/ Interrupt \/ ServiceWork \/ ReadCount \/ ServiceTransfer \/ ServiceFinal
         \/ HwFetch \/ HwDone \/ HwFault \/ HwIdle
         \/ SetOffline \/ StopEngine \/ IrqTeardown \/ DeviceReset \/ InitRegs \/ ClearRequest \/ SetOnline
BY DEF Next, ThreadStep, ServiceStep, HwStep, PciStep, Finished,
       Call, TakeDescLock, Wake, WaitEnds, engine, fixed, bus

\* What is at an end stays so, but for a start.
LEMMA EndStays ==
  ASSUME TypeOK, Ended,
         \/ hw'.cur = None /\ (~hw'.busy \/ hw'.lagging \/ ~hw'.run)
         \/ /\ hw'.cur = hw.cur \/ hw'.cur = None
            /\ hw'.busy = hw.busy /\ hw'.lagging = hw.lagging
            /\ hw'.run = hw.run \/ ~hw'.run
  PROVE  Ended'
BY DEF Ended

\* A thread at one of the steps that follow transfer_queue has desc_lock.
LEMMA Holder ==
  ASSUME QueueInv, NEW t \in Threads, pc[t] \in Holding
  PROVE  descLock = t /\ \A u \in Threads : pc[u] \in Holding => u = t
BY DEF QueueInv

LEMMA HaltStep ==
  ASSUME QueueInv, QuietInv, TypeOK, DescInv, HaltInv, [Next]_vars
  PROVE  HaltInv'
<1>1. /\ pc \in [Threads -> Where] /\ wb \in Counts /\ seen \in Counts
      /\ poll \in BOOLEAN /\ poll' = poll
  BY DEF TypeOK, Next, ThreadStep, ServiceStep, HwStep, PciStep, Finished, vars, fixed, program,
         Call, TakeDescLock, TransferInit, TransferQueue, Wake, WaitEnds, PollFinds, PollTimesOut,
         ServicePoll, Reap, Interrupt, ServiceWork, ReadCount, ServiceTransfer, ServiceFinal,
         HwFetch, HwDone, HwFault, HwIdle, SetOffline, StopEngine, IrqTeardown, DeviceReset,
         InitRegs, ClearRequest, SetOnline
<1>2. \A c \in Counts : c # NoCount => c.n # 0 \/ c.err
  BY DEF Counts, NoCount
\* The threads that go to their service or away from it.
<1>3. ASSUME UNCHANGED <<eng, svc, seen, wb, hw, pci>>,
             \A t \in Threads : pc'[t] = "service" => pc[t] = "service"
      PROVE  HaltInv'
  BY <1>1, <1>3 DEF HaltInv, Ended, Locked
<1>4. ASSUME NEW t \in Threads, \/ Call(t) \/ TakeDescLock(t) \/ Wake(t) \/ WaitEnds(t) \/ TransferInit(t)
      PROVE  HaltInv'
  <2>1. \A u \in Threads : pc'[u] = "service" => pc[u] = "service"
    BY <1>1, <1>4 DEF Call, TakeDescLock, Wake, WaitEnds, TransferInit, Return, Goto
  <2>2. UNCHANGED <<eng, svc, seen, wb, hw, pci>>
    BY <1>4 DEF Call, TakeDescLock, Wake, WaitEnds, TransferInit, engine, bus
  <2> QED  BY <1>3, <2>1, <2>2
<1>5. ASSUME NEW t \in Threads, TransferQueue(t)
      PROVE  HaltInv'
  <2>1. pc[t] = "queue" /\ ~Locked /\ UNCHANGED <<svc, seen, wb, pci>>
    BY <1>5 DEF TransferQueue, bus
  <2>2. \A u \in Threads : pc[u] # "service"
    BY <2>1, Holder DEF Holding
  <2>3. \A u \in Threads : pc'[u] # "service"
    BY <1>1, <1>5, <2>2 DEF TransferQueue, Return, Goto
  <2>4. CASE UNCHANGED <<eng, hw>>
    BY <1>3, <2>1, <2>3, <2>4
  <2>5. CASE EngineStart(list', eng, hw) /\ ~eng.running /\ ~eng.request
    <3>1. /\ hw'.run /\ hw'.busy /\ ~hw'.lagging /\ hw'.cur = hw.cur
          /\ eng'.running
      BY <2>5, Starts
    <3>2. pci \notin {"stopped", "down", "reset", "regs"}
      BY <2>5 DEF QuietInv
    <3>3. hw.cur = None /\ wb = NoCount
      BY <2>1, <2>5, <3>2 DEF HaltInv
    <3> QED  BY <1>1, <2>1, <2>3, <3>1, <3>3 DEF HaltInv
  <2> QED  BY <1>5, <2>4, <2>5 DEF TransferQueue
<1>6. ASSUME NEW t \in Threads, PollFinds(t) \/ PollTimesOut(t)
      PROVE  HaltInv'
  <2>1. poll /\ UNCHANGED <<eng, svc, wb, hw, pci>>
    BY <1>6 DEF PollFinds, PollTimesOut, bus
  <2>2. seen' # NoCount => wb # NoCount
    <3>1. seen' = wb \/ wb.n > xfer[t].n
      BY <1>6 DEF PollFinds, PollTimesOut
    <3>2. xfer[t].n \in Nat
      BY DEF TypeOK
    <3>3. NoCount.n = 0
      BY DEF NoCount
    <3> QED  BY <3>1, <3>2, <3>3
  <2>3. seen' # NoCount => Ended'
    BY <2>1, <2>2 DEF HaltInv, Ended
  <2> QED  BY <1>1, <2>1, <2>3 DEF HaltInv, Ended, Locked
\* The service begins with a count only when the hardware has ended.
<1>7. ASSUME NEW who \in Threads \cup {Work}, NEW c \in Counts, ServiceBegins(who, c), c # NoCount => Ended,
             UNCHANGED <<pc, seen, wb, pci>>, pci \notin {"stopped", "down", "reset", "regs"}
      PROVE  HaltInv'
  <2>1. /\ hw'.cur = hw.cur /\ hw'.busy = hw.busy /\ hw'.lagging = hw.lagging
        /\ c.n = 0 /\ hw.busy => eng'.running /\ hw'.run = hw.run
        /\ ~(c.n = 0 /\ hw.busy) => ~eng'.running /\ ~hw'.run
        /\ svc'.by = who
    BY <1>7, Begins
  <2>2. c.n # 0 => c # NoCount
    BY DEF NoCount
  <2>3. ~eng'.running => hw.cur = None
    BY <1>7, <2>1, <2>2 DEF HaltInv, Ended
  <2>4. Locked'
    BY <2>1, XdmaAssumption DEF Locked
  <2>5. Ended => Ended'
    BY <2>1, EndStays
  <2> QED  BY <1>1, <1>7, <2>1, <2>3, <2>4, <2>5 DEF HaltInv
\* Or it only clears the status.
<1>8. ASSUME ServiceIdle, hw' = [hw EXCEPT !.stat = {}] \/ hw' = [hw EXCEPT !.stat = {}, !.irqEn = TRUE],
             UNCHANGED <<seen, wb, pci>>,
             \A t \in Threads : pc'[t] = "service" => pc[t] = "service"
      PROVE  HaltInv'
  <2>1. hw'.cur = hw.cur /\ hw'.busy = hw.busy /\ hw'.lagging = hw.lagging /\ hw'.run = hw.run
    BY <1>8 DEF TypeOK, Hardware
  <2>2. eng'.running = eng.running /\ svc' = svc
    BY <1>8 DEF ServiceIdle, ReadStatus, TypeOK, Engine
  <2>3. Ended => Ended'
    BY <2>1, EndStays
  <2> QED  BY <1>1, <1>8, <2>1, <2>2, <2>3 DEF HaltInv, Locked
<1>9. ASSUME NEW t \in Threads, ServicePoll(t)
      PROVE  HaltInv'
  <2>1. pc[t] = "service" /\ UNCHANGED <<seen, wb, pci>>
    BY <1>9 DEF ServicePoll, bus
  <2>2. CASE eng.running
    <3>1. ServiceBegins(t, seen) /\ UNCHANGED pc
      BY <1>9, <2>2 DEF ServicePoll
    <3>2. seen # NoCount => Ended
      BY <2>1 DEF HaltInv
    <3>3. pci \notin {"stopped", "down", "reset", "regs"}
      BY <2>2 DEF QuietInv
    <3> QED  BY <1>1, <1>7, <2>1, <3>1, <3>2, <3>3
  <2>3. CASE ~eng.running
    <3>1. ServiceIdle /\ hw' = [hw EXCEPT !.stat = {}] /\ Goto(t, "reap")
      BY <1>9, <2>3 DEF ServicePoll
    <3>2. \A u \in Threads : pc'[u] = "service" => pc[u] = "service"
      BY <1>1, <3>1 DEF Goto
    <3> QED  BY <1>8, <2>1, <3>1, <3>2
  <2> QED  BY <2>2, <2>3
<1>10. CASE ServiceWork
  <2>1. UNCHANGED <<pc, seen, wb, pci>>
    BY <1>10 DEF ServiceWork, caller, bus
  <2>2. CASE eng.running
    <3>1. ServiceBegins(Work, NoCount) /\ NoCount \in Counts
      BY <1>10, <2>2 DEF ServiceWork, NoCount, Counts
    <3>2. pci \notin {"stopped", "down", "reset", "regs"}
      BY <2>2 DEF QuietInv
    <3> QED  BY <1>7, <2>1, <3>1, <3>2
  <2>3. CASE ~eng.running
    BY <1>8, <1>10, <2>1, <2>3 DEF ServiceWork
  <2> QED  BY <2>2, <2>3
<1>11. ASSUME NEW t \in Threads, Reap(t)
       PROVE  HaltInv'
  <2>1. /\ hw.cur = None => hw'.cur = None
        /\ hw'.busy = hw.busy /\ hw'.lagging = hw.lagging /\ (hw'.run = hw.run \/ ~hw'.run)
        /\ eng'.running = eng.running
    BY <1>11, Reaps
  <2>2. UNCHANGED <<svc, seen, wb, pci>>
    BY <1>11 DEF Reap, bus
  <2>3. \A u \in Threads : pc'[u] = "service" => pc[u] = "service"
    BY <1>1, <1>11 DEF Reap, Return, Goto
  <2>4. Ended => Ended'
    BY <2>1, EndStays DEF Ended
  <2> QED  BY <1>1, <2>1, <2>2, <2>3, <2>4 DEF HaltInv, Locked
<1>12. CASE Interrupt
  <2>1. /\ hw'.cur = hw.cur /\ hw'.busy = hw.busy /\ hw'.lagging = hw.lagging /\ hw'.run = hw.run
        /\ UNCHANGED <<pc, eng, svc, seen, wb, pci>>
    BY <1>12 DEF Interrupt, TypeOK, Hardware, caller, bus
  <2>2. Ended => Ended'
    BY <2>1, EndStays
  <2> QED  BY <1>1, <2>1, <2>2 DEF HaltInv, Locked
<1>13. CASE ReadCount \/ ServiceTransfer
  <2>1. UNCHANGED <<pc, seen, wb, hw, pci>>
    BY <1>13 DEF ReadCount, ServiceTransfer, caller, bus
  <2>2. eng'.running = eng.running /\ svc'.by = svc.by
    BY <1>13 DEF ReadCount, ServiceTransfer, TypeOK, Engine
  <2> QED  BY <1>1, <2>1, <2>2 DEF HaltInv, Locked, Ended
<1>14. CASE ServiceFinal
  <2>1. /\ eng'.running = eng.running
        /\ hw'.cur = hw.cur /\ hw'.busy = hw.busy /\ hw'.lagging = hw.lagging
        /\ hw'.run = hw.run \/ ~hw'.run
        /\ wb' = IF poll THEN NoCount ELSE wb
    BY <1>14, Finals
  <2>2. UNCHANGED <<seen, pci>>
    BY <1>14 DEF ServiceFinal, bus
  <2>3. \A u \in Threads : pc'[u] = "service" => pc[u] = "service"
    BY <1>1, <1>14 DEF ServiceFinal, Goto
  <2>4. Ended => Ended'
    BY <2>1, EndStays
  <2>5. wb' = NoCount
    BY <2>1 DEF HaltInv
  <2> QED  BY <1>1, <2>1, <2>2, <2>3, <2>4, <2>5 DEF HaltInv
\* The hardware writes a count when it ends.
<1>15. ASSUME UNCHANGED <<pc, eng, svc, seen, pci>>, hw'.cur = None /\ (~hw'.busy \/ hw'.lagging), hw'.run = hw.run,
              ~poll => UNCHANGED wb, ~hw.run => hw.cur # None \/ UNCHANGED wb
       PROVE  HaltInv'
  <2>1. Ended'
    BY <1>15 DEF Ended
  <2>2. ~eng.running /\ ~Locked => UNCHANGED wb \/ pci \in {"stopped", "down"}
    BY <1>15 DEF HaltInv
  <2> QED  BY <1>1, <1>15, <2>1, <2>2 DEF HaltInv, Locked
<1>16. CASE HwFetch
  <2>1. UNCHANGED <<pc, eng, svc, seen, pci>> /\ hw.run
    BY <1>16 DEF HwFetch, program, engine, bus
  <2>2. CASE HwEndsBadly
    <3>1. /\ hw'.cur = None /\ ~hw'.busy /\ hw'.run = hw.run
          /\ wb' = IF poll THEN [n |-> hw.cnt, err |-> TRUE] ELSE wb
      BY <2>2, EndsBadly
    <3> QED  BY <1>15, <2>1, <3>1
  <2>3. CASE ~HwEndsBadly
    <3>1. /\ hw.run /\ hw.busy /\ ~hw.lagging /\ hw.cur = None /\ UNCHANGED wb
          /\ hw'.run = hw.run /\ hw'.busy = hw.busy /\ hw'.lagging = hw.lagging
      BY <1>16, <2>3, Fetches
    <3>2. ~Ended
      BY <3>1 DEF Ended, TypeOK
    <3> QED  BY <1>1, <2>1, <3>1, <3>2 DEF HaltInv, Locked
  <2> QED  BY <2>2, <2>3
<1>17. CASE HwDone
  <2>1. UNCHANGED <<pc, eng, svc, seen, pci>>
    BY <1>17 DEF HwDone, program, engine, bus
  <2>2. hw.cur # None /\ hw'.cur = None /\ hw'.run = hw.run
    BY <1>17, Does
  <2>3. CASE hw.cur.last
    <3>1. /\ hw'.busy = busyLag /\ hw'.lagging = busyLag
          /\ wb' = IF poll THEN [n |-> hw.cnt + 1, err |-> FALSE] ELSE wb
      BY <1>17, <2>3, Does
    <3> QED  BY <1>15, <2>1, <2>2, <3>1
  <2>4. CASE ~hw.cur.last
    <3>1. /\ hw'.busy = hw.busy /\ hw'.lagging = hw.lagging /\ UNCHANGED wb
      BY <1>17, <2>4, Does
    <3>2. ~Ended
      BY <2>2 DEF Ended
    <3> QED  BY <1>1, <2>1, <2>2, <3>1, <3>2 DEF HaltInv, Locked
  <2> QED  BY <2>3, <2>4
<1>18. CASE HwFault
  <2>1. UNCHANGED <<pc, eng, svc, seen, pci>> /\ hw.cur # None /\ HwEndsBadly
    BY <1>18 DEF HwFault, program, engine, bus
  <2>2. /\ hw'.cur = None /\ ~hw'.busy /\ hw'.run = hw.run
        /\ wb' = IF poll THEN [n |-> hw.cnt, err |-> TRUE] ELSE wb
    BY <2>1, EndsBadly
  <2> QED  BY <1>15, <2>1, <2>2
<1>19. CASE HwIdle
  <2>1. UNCHANGED <<pc, eng, svc, seen, wb, pci>>
    BY <1>19 DEF HwIdle, program, engine, bus
  <2>2. ~hw'.busy /\ hw'.cur = None /\ hw'.run = hw.run
    BY <1>19, Idles
  <2> QED  BY <1>15, <2>1, <2>2
<1>20. CASE SetOffline
  BY <1>1, <1>20 DEF SetOffline, Advance, HaltInv, Ended, Locked, caller, engine
<1>21. CASE StopEngine
  <2>1. /\ hw'.cur = hw.cur /\ hw'.busy = hw.busy /\ hw'.lagging = hw.lagging /\ ~hw'.run
        /\ UNCHANGED <<pc, svc, seen, wb>> /\ pci' = "stopped"
    BY <1>21 DEF StopEngine, Stop, Advance, TypeOK, Hardware, caller
  <2>2. Ended => Ended'
    BY <2>1, EndStays
  <2> QED  BY <1>1, <2>1, <2>2 DEF HaltInv
<1>22. CASE IrqTeardown
  BY <1>1, <1>22 DEF IrqTeardown, Advance, HaltInv, Ended, Locked, caller, engine
<1>23. CASE DeviceReset
  <2>1. hw'.cur = None /\ ~hw'.busy /\ ~hw'.lagging /\ ~hw'.run /\ pci' = "reset"
        /\ UNCHANGED <<pc, eng, svc, seen, wb>>
    BY <1>23 DEF DeviceReset, HwReset, Advance, caller, engine
  <2> QED  BY <1>1, <2>1 DEF HaltInv, Ended
<1>24. CASE InitRegs
  <2>1. /\ hw'.cur = hw.cur /\ hw'.busy = hw.busy /\ hw'.lagging = hw.lagging /\ hw'.run = hw.run
        /\ wb' = NoCount /\ pci = "reset" /\ UNCHANGED <<pc, eng, svc, seen>>
    BY <1>24 DEF InitRegs, Advance, TypeOK, Hardware, caller, engine
  <2>2. Ended => Ended'
    BY <2>1, EndStays
  <2> QED  BY <1>1, <2>1, <2>2 DEF HaltInv
<1>25. CASE ClearRequest
  <2>1. eng'.running = eng.running /\ pci = "regs" /\ pci' = "open" /\ UNCHANGED <<pc, svc, seen, wb, hw>>
    BY <1>25 DEF ClearRequest, Advance, TypeOK, Engine, caller
  <2> QED  BY <1>1, <2>1 DEF HaltInv, Ended, Locked
<1>26. CASE SetOnline
  BY <1>1, <1>26 DEF SetOnline, Advance, HaltInv, Ended, Locked, caller, engine
<1>27. CASE UNCHANGED vars
  BY <1>1, <1>27 DEF vars, HaltInv, Ended, Locked, caller, engine, bus
<1> QED
  BY <1>4, <1>5, <1>6, <1>9, <1>10, <1>11, <1>12, <1>13, <1>14, <1>16, <1>17, <1>18, <1>19, <1>20,
     <1>21, <1>22, <1>23, <1>24, <1>25, <1>26, <1>27, Aside

-----------------------------------------------------------------------------
(* What the driver takes for done was done.                                 *)

\* A count below the range of counts is what it is, and no count grows.
LEMMA ModBelow ==
  ASSUME NEW c \in Nat, NEW w \in Nat \ {0}
  PROVE  (c + w - 0) % w \in Nat /\ (c + w - 0) % w <= c /\ (c < w => (c + w - 0) % w = c)
<1> DEFINE x == c + w
           q == x \div w
           r == x % w
           p == w * q
<1>1. x \in Nat /\ q \in Int /\ r \in 0 .. (w - 1) /\ p \in Int
  OBVIOUS
<1>2. x = p + r
  OBVIOUS
<1>3. q >= 1 => p >= w
  OBVIOUS
<1>4. q <= 0 => p <= 0
  OBVIOUS
<1>5. q >= 2 => p >= w + w
  OBVIOUS
<1>6. q = 1 => p = w
  OBVIOUS
<1>7. c + w - 0 = x /\ x = c + w
  OBVIOUS
<1> HIDE DEF x, q, p
<1>8. r <= c /\ (c < w => r = c)
  <2>1. q >= 1
    BY <1>1, <1>2, <1>4, <1>7
  <2>2. c < w => q = 1
    BY <1>1, <1>2, <1>5, <1>7, <2>1
  <2> QED  BY <1>1, <1>2, <1>3, <1>6, <1>7, <2>1, <2>2
<1> QED  BY <1>1, <1>7, <1>8

\* Reaping leaves the queue empty.
LEMMA ReapEmpties ==
  ASSUME QueueInv, NEW t \in Threads, Reap(t)
  PROVE  list' = << >> /\ descLock = t
<1>1. pc[t] = "reap" /\ descLock = t
  BY Holder DEF Reap, Holding
<1>2. CASE list = << >>
  BY <1>1, <1>2 DEF Reap
<1>3. CASE list # << >>
  BY <1>1, <1>3, QueueOrNothing DEF Reap, Submitted
<1> QED  BY <1>1, <1>2, <1>3

LEMMA MovedStep ==
  ASSUME QueueInv, QuietInv, TypeOK, DescInv, HaltInv, MovedInv, [Next]_vars
  PROVE  MovedInv'
<1>1. /\ pc \in [Threads -> Where] /\ wb.n \in Nat /\ seen.n \in Nat /\ hw.cnt \in Nat
      /\ svc.count \in Nat /\ eng.dequeued \in Nat
      /\ xfer \in [Threads -> [state : State, n : 0 .. MaxDesc, moved : Nat]]
      /\ \A t \in Threads : xfer[t].moved \in Nat /\ xfer[t].n \in Nat
  <2>1. xfer \in [Threads -> [state : State, n : 0 .. MaxDesc, moved : Nat]]
    BY DEF TypeOK
  <2>2. \A t \in Threads : xfer[t].moved \in Nat /\ xfer[t].n \in Nat
    BY <2>1
  <2> QED  BY <2>1, <2>2 DEF TypeOK, Counts, Hardware, Engine
\* A transfer that was completed stays so.
<1>2. ASSUME \A u \in Threads : xfer'[u].state = "COMPLETED" /\ started' = u =>
               xfer[u].state = "COMPLETED" /\ started = u /\ ~TransferInit(u)
      PROVE  CompletedWasMoved'
  <2> SUFFICES ASSUME NEW u \in Threads, xfer'[u].state = "COMPLETED", started' = u
               PROVE  xfer'[u].moved >= xfer'[u].n
    BY DEF CompletedWasMoved
  <2>1. xfer[u].moved >= xfer[u].n
    BY <1>2 DEF MovedInv, CompletedWasMoved
  <2>2. xfer'[u].n = xfer[u].n /\ xfer'[u].moved >= xfer[u].moved
    BY <1>2, Lengths
  <2>3. xfer'[u].moved \in Nat
    BY TypeStep DEF TypeOK
  <2> QED  BY <1>1, <2>1, <2>2, <2>3
<1>3. ASSUME UNCHANGED <<xfer, started, pc>>
      PROVE  CompletedWasMoved'
  BY <1>3 DEF MovedInv, CompletedWasMoved
\* The queue of before is the queue of now.
<1>4. ASSUME UNCHANGED list, NEW t \in Threads, Submitted(t)'
      PROVE  Submitted(t) /\ descLock = t
  <2>1. list = <<t>>
    BY <1>4 DEF Submitted
  <2>2. list = <<descLock>> /\ Submitted(descLock)
    BY <2>1, QueueOrNothing
  <2> QED  BY <2>1, <2>2
<1>5. ASSUME NEW t \in Threads, Submitted(t), started = t
      PROVE  /\ Counted(t) /\ descLock = t /\ pc[t] \in Having /\ desc.owner = t
             /\ \A u \in Threads : pc[u] \in Having => u = t
  <2>1. Counted(t)
    BY <1>5 DEF MovedInv
  <2>2. pc[t] \in Having /\ \A u : pc[u] \in Having => pc[u] \in Holding
    BY <1>5 DEF Submitted, Having, Holding
  <2> QED  BY <2>1, <2>2, Holder DEF DescInv
<1>6. ASSUME UNCHANGED <<list, started, xfer, eng, svc, wb, seen>>,
             hw'.cnt = hw.cnt, hw'.cur = hw.cur,
             \A t \in Threads : pc'[t] = "service" => pc[t] = "service"
      PROVE  \A t \in Threads : Submitted(t)' /\ started' = t => Counted(t)'
  BY <1>4, <1>5, <1>6 DEF Counted, Locked
<1>7. ASSUME NEW t \in Threads, \/ Call(t) \/ TakeDescLock(t) \/ Wake(t) \/ WaitEnds(t)
      PROVE  MovedInv'
  <2>1. \A u \in Threads : pc'[u] = "service" => pc[u] = "service"
    BY <1>1, <1>7 DEF Call, TakeDescLock, Wake, WaitEnds, Return, Goto
  <2>2. UNCHANGED <<list, started, xfer, eng, svc, wb, hw, seen>>
    BY <1>7 DEF Call, TakeDescLock, Wake, WaitEnds, engine
  <2>3. CompletedWasMoved'
    BY <2>2 DEF MovedInv, CompletedWasMoved
  <2> QED  BY <1>6, <2>1, <2>2, <2>3 DEF MovedInv
<1>8. ASSUME NEW t \in Threads, TransferInit(t)
      PROVE  MovedInv'
  <2>1. pc[t] = "init" /\ UNCHANGED list /\ started' = (IF started = t THEN None ELSE started)
        /\ xfer' = [xfer EXCEPT ![t] = [state |-> "NEW", n |-> SmallerOf(left[t], MaxDesc), moved |-> 0]]
    BY <1>8 DEF TransferInit
  <2>2. descLock = t
    BY <2>1, Holder DEF Holding
  <2>3. list = << >>
    BY <2>1, <2>2, QueueOrNothing DEF Submitted
  <2>4. \A u \in Threads : ~Submitted(u)'
    BY <2>1, <2>3 DEF Submitted
  <2>5. xfer'[t].state = "NEW" /\ \A u \in Threads : u # t => xfer'[u] = xfer[u]
    <3> DEFINE k == SmallerOf(left[t], MaxDesc)
               r == [state |-> "NEW", n |-> k, moved |-> 0]
    <3>1. xfer' = [xfer EXCEPT ![t] = r] /\ r.state = "NEW"
      BY <2>1
    <3> HIDE DEF r
    <3> QED  BY <1>1, <3>1
  <2>6. \A u \in Threads : started' = u => started = u
    BY <2>1, XdmaAssumption
  <2>7. CompletedWasMoved'
    <3> SUFFICES ASSUME NEW u \in Threads, xfer'[u].state = "COMPLETED", started' = u
                 PROVE  xfer'[u].moved >= xfer'[u].n
      BY DEF CompletedWasMoved
    <3>1. u # t
      BY <2>5
    <3>2. xfer'[u] = xfer[u] /\ started = u
      BY <2>5, <2>6, <3>1
    <3> QED  BY <3>2 DEF MovedInv, CompletedWasMoved
  <2> QED  BY <2>4, <2>7 DEF MovedInv
<1>9. ASSUME NEW t \in Threads, TransferQueue(t)
      PROVE  MovedInv'
  <2>1. pc[t] = "queue" /\ ~Locked /\ UNCHANGED <<wb, pci, svc>>
    BY <1>9 DEF TransferQueue, bus
  <2>2. descLock = t
    BY <2>1, Holder DEF Holding
  <2>3. list = << >>
    BY <2>1, <2>2, QueueOrNothing DEF Submitted
  <2>4. CASE eng.request
    <3>1. UNCHANGED <<list, xfer, started>>
      BY <1>9, <2>4 DEF TransferQueue
    <3>2. \A u \in Threads : ~Submitted(u)'
      BY <2>3, <3>1 DEF Submitted
    <3>3. CompletedWasMoved'
      BY <3>1 DEF MovedInv, CompletedWasMoved
    <3> QED  BY <3>2, <3>3 DEF MovedInv
  <2>5. CASE ~eng.request
    <3>1. list' = <<t>> /\ xfer' = [xfer EXCEPT ![t].state = "SUBMITTED"] /\ pc' = [pc EXCEPT ![t] = "wait"]
      BY <1>9, <2>3, <2>5 DEF TransferQueue, Goto
    <3>2. CASE eng.running
      <4>1. started' = started /\ started # t
        BY <1>9, <2>1, <2>5, <3>2 DEF TransferQueue, DescInv
      <4>2. \A u \in Threads : Submitted(u)' => u = t
        BY <3>1 DEF Submitted
      <4>3. CompletedWasMoved'
        BY <1>1, <3>1, <4>1 DEF MovedInv, CompletedWasMoved
      <4> QED  BY <4>1, <4>2, <4>3 DEF MovedInv
    <3>3. CASE ~eng.running
      <4>1. EngineStart(list', eng, hw)
        BY <1>9, <2>5, <3>3 DEF TransferQueue
      <4>2. hw'.cnt = 0 /\ hw'.cur = hw.cur /\ eng'.dequeued = 0
            /\ started' = IF hw.cur = None THEN Head(list') ELSE None
        BY <4>1, Starts
      <4>3. pci \notin {"stopped", "down", "reset", "regs"}
        BY <2>5 DEF QuietInv
      <4>4. hw.cur = None /\ wb = NoCount
        BY <2>1, <3>3, <4>3 DEF HaltInv
      <4>5. started' = t
        BY <3>1, <4>2, <4>4
      <4>6. xfer'[t].state = "SUBMITTED" /\ xfer'[t].moved \in Nat /\ pc'[t] = "wait"
        BY <1>1, <3>1
      <4>7. Counted(t)'
        BY <2>1, <4>2, <4>4, <4>6 DEF Counted, NoCount, Locked
      <4>8. CompletedWasMoved'
        BY <4>5, <4>6 DEF CompletedWasMoved
      <4> QED  BY <4>5, <4>7, <4>8 DEF MovedInv
    <3> QED  BY <3>2, <3>3
  <2> QED  BY <2>4, <2>5
<1>10. ASSUME NEW t \in Threads, PollFinds(t) \/ PollTimesOut(t)
       PROVE  MovedInv'
  <2>1. UNCHANGED <<list, started, xfer, eng, svc, wb, hw>>
    BY <1>10 DEF PollFinds, PollTimesOut
  <2>2. seen'.n <= wb.n
    <3>1. seen' = wb \/ (wb.n > xfer[t].n /\ seen' = [n |-> xfer[t].n, err |-> TRUE])
      BY <1>10 DEF PollFinds, PollTimesOut
    <3> QED  BY <1>1, <3>1
  <2>3. seen'.n \in Nat
    BY TypeStep DEF TypeOK, Counts
  <2>4. \A u \in Threads : Submitted(u)' /\ started' = u => Counted(u)'
    BY <1>1, <1>4, <1>5, <2>1, <2>2, <2>3 DEF Counted, Locked
  <2>5. CompletedWasMoved'
    BY <2>1 DEF MovedInv, CompletedWasMoved
  <2> QED  BY <2>4, <2>5 DEF MovedInv
<1>11. ASSUME NEW who \in Threads \cup {Work}, NEW c \in Counts, ServiceBegins(who, c),
              c.n = 0 \/ (c = seen /\ who \in Threads /\ pc[who] = "service"),
              UNCHANGED <<list, started, xfer, pc, seen, wb>>
       PROVE  MovedInv'
  <2>1. hw'.cur = hw.cur /\ hw'.cnt = hw.cnt /\ eng'.dequeued = eng.dequeued /\ svc'.count = c.n
    BY <1>11, Begins
  <2>2. ASSUME NEW u \in Threads, Submitted(u)', started' = u
        PROVE  Counted(u)'
    <3>1. Counted(u) /\ \A v \in Threads : pc[v] \in Having => v = u
      BY <1>4, <1>5, <1>11, <2>2
    <3>2. c.n <= xfer[u].moved
      BY <1>1, <1>11, <3>1 DEF Counted, Having
    <3> QED  BY <1>11, <2>1, <3>1, <3>2 DEF Counted
  <2> QED  BY <1>3, <1>11, <2>2 DEF MovedInv
<1>12. ASSUME ServiceIdle, hw' = [hw EXCEPT !.stat = {}] \/ hw' = [hw EXCEPT !.stat = {}, !.irqEn = TRUE],
              UNCHANGED <<list, started, xfer, seen, wb>>,
              \A t \in Threads : pc'[t] = "service" => pc[t] = "service"
       PROVE  MovedInv'
  <2>1. hw'.cur = hw.cur /\ hw'.cnt = hw.cnt
    BY <1>12 DEF TypeOK, Hardware
  <2>2. eng'.dequeued = eng.dequeued /\ svc' = svc
    BY <1>12 DEF ServiceIdle, ReadStatus, TypeOK, Engine
  <2>3. \A t \in Threads : Submitted(t)' /\ started' = t => Counted(t)'
    BY <1>4, <1>5, <1>12, <2>1, <2>2 DEF Counted, Locked
  <2>4. CompletedWasMoved'
    BY <1>12 DEF MovedInv, CompletedWasMoved
  <2> QED  BY <2>3, <2>4 DEF MovedInv
<1>13. ASSUME NEW t \in Threads, ServicePoll(t)
       PROVE  MovedInv'
  <2>1. pc[t] = "service" /\ UNCHANGED <<list, started, xfer, seen, wb>> /\ seen \in Counts
    BY <1>13 DEF ServicePoll, TypeOK
  <2>2. CASE eng.running
    <3>1. ServiceBegins(t, seen) /\ UNCHANGED pc
      BY <1>13, <2>2 DEF ServicePoll
    <3> QED  BY <1>11, <2>1, <3>1
  <2>3. CASE ~eng.running
    <3>1. ServiceIdle /\ hw' = [hw EXCEPT !.stat = {}] /\ Goto(t, "reap")
      BY <1>13, <2>3 DEF ServicePoll
    <3>2. \A u \in Threads : pc'[u] = "service" => pc[u] = "service"
      BY <1>1, <3>1 DEF Goto
    <3> QED  BY <1>12, <2>1, <3>1, <3>2
  <2> QED  BY <2>2, <2>3
<1>14. CASE ServiceWork
  <2>1. UNCHANGED <<list, started, xfer, seen, wb, pc>>
    BY <1>14 DEF ServiceWork, caller
  <2>2. CASE eng.running
    <3>1. ServiceBegins(Work, NoCount) /\ NoCount \in Counts /\ NoCount.n = 0
      BY <1>14, <2>2 DEF ServiceWork, NoCount, Counts
    <3> QED  BY <1>11, <2>1, <3>1
  <2>3. CASE ~eng.running
    BY <1>12, <1>14, <2>1, <2>3 DEF ServiceWork
  <2> QED  BY <2>2, <2>3
<1>15. ASSUME NEW t \in Threads, Reap(t)
       PROVE  MovedInv'
  <2>0. list' = << >>
    BY <1>15, ReapEmpties
  <2>1. \A u \in Threads : ~Submitted(u)'
    BY <2>0 DEF Submitted
  <2>2. UNCHANGED started /\ (UNCHANGED xfer \/ xfer' = [xfer EXCEPT ![t].state = "ABORTED"])
    BY <1>15, Reaps DEF Reap
  <2>3. CompletedWasMoved'
    BY <1>1, <2>2 DEF MovedInv, CompletedWasMoved
  <2> QED  BY <2>1, <2>3 DEF MovedInv
<1>16. CASE Interrupt
  <2>1. hw'.cur = hw.cur /\ hw'.cnt = hw.cnt /\ UNCHANGED <<list, started, xfer, eng, svc, wb, seen, pc>>
    BY <1>16 DEF Interrupt, TypeOK, Hardware, caller
  <2> QED  BY <1>3, <1>6, <2>1 DEF MovedInv
<1>17. CASE ReadCount
  <2>1. UNCHANGED <<list, started, xfer, eng, wb, hw, seen, pc>>
    BY <1>17 DEF ReadCount, caller
  <2> DEFINE c == IF svc.count = 0 THEN hw.cnt ELSE svc.count
  <2>2. svc' = [svc EXCEPT !.step = "list", !.count = (c + Word - eng.dequeued) % Word] /\ Locked
    BY <1>17 DEF ReadCount
  <2>3. svc'.count = (c + Word - eng.dequeued) % Word
    BY <2>2 DEF TypeOK
  <2>4. c \in Nat /\ Word \in Nat \ {0}
    BY <1>1, XdmaAssumption
  <2>5. ASSUME NEW u \in Threads, Submitted(u)', started' = u
        PROVE  Counted(u)'
    <3>1. Counted(u)
      BY <1>4, <1>5, <2>1, <2>5
    <3>2. c <= xfer[u].moved
      BY <1>1, <2>2, <3>1 DEF Counted
    <3> HIDE DEF c
    <3>3. (c + Word - 0) % Word \in Nat /\ (c + Word - 0) % Word <= c
      BY <2>4, ModBelow
    <3>4. svc'.count \in Nat /\ svc'.count <= c
      BY <2>3, <3>1, <3>3 DEF Counted
    <3>5. svc'.count <= xfer[u].moved
      BY <1>1, <2>4, <3>2, <3>4
    <3> QED  BY <2>1, <3>1, <3>5 DEF Counted
  <2> QED  BY <1>3, <2>1, <2>5 DEF MovedInv
\* A transfer is completed when at least its length was counted.
<1>18. ASSUME list # << >>, Locked, xfer' = [xfer EXCEPT ![descLock].state = "COMPLETED"],
              svc.count >= xfer[descLock].n, UNCHANGED started
       PROVE  CompletedWasMoved'
  <2>1. Submitted(descLock) /\ descLock \in Threads
    BY <1>18, QueueOrNothing DEF Submitted
  <2>2. started = descLock => svc.count <= xfer[descLock].moved
    BY <1>5, <1>18, <2>1 DEF Counted
  <2>3. started = descLock => xfer[descLock].moved >= xfer[descLock].n
    BY <1>1, <1>18, <2>1, <2>2
  <2> QED  BY <1>1, <1>18, <2>1, <2>3 DEF MovedInv, CompletedWasMoved
<1>19. CASE ServiceTransfer
  <2>1. list # << >> /\ list' = Tail(list) /\ xfer' = [xfer EXCEPT ![Head(list)].state = "COMPLETED"]
        /\ svc.count > xfer[Head(list)].n /\ Locked /\ UNCHANGED started
    BY <1>19 DEF ServiceTransfer, Collect, PastFirst
  <2>2. list' = << >> /\ Head(list) = descLock /\ descLock \in Threads
    BY <2>1, QueueOrNothing DEF Submitted
  <2>3. svc.count >= xfer[descLock].n
    BY <1>1, <2>1, <2>2
  <2>4. CompletedWasMoved'
    BY <1>18, <2>1, <2>2, <2>3
  <2>5. \A u \in Threads : ~Submitted(u)'
    BY <2>2 DEF Submitted
  <2> QED  BY <2>4, <2>5 DEF MovedInv
<1>20. CASE ServiceFinal
  <2>1. /\ list' = << >> /\ started' = started
        /\ list = << >> => xfer' = xfer
        /\ list # << >> => xfer' = [xfer EXCEPT ![descLock].state =
                              IF eng.err \/ svc.count < xfer[descLock].n THEN "FAILED" ELSE "COMPLETED"]
    BY <1>20, Finals
  <2>2. Locked
    BY <1>20 DEF ServiceFinal
  <2>3. CompletedWasMoved'
    <3>1. CASE list = << >>
      BY <2>1, <3>1 DEF MovedInv, CompletedWasMoved
    <3>2. CASE list # << >> /\ ~(eng.err \/ svc.count < xfer[descLock].n)
      <4>1. descLock \in Threads
        BY <3>2, QueueOrNothing DEF Submitted
      <4>2. svc.count >= xfer[descLock].n
        BY <1>1, <3>2, <4>1
      <4> QED  BY <1>18, <2>1, <2>2, <3>2, <4>2
    <3>3. CASE list # << >> /\ (eng.err \/ svc.count < xfer[descLock].n)
      <4>1. xfer' = [xfer EXCEPT ![descLock].state = "FAILED"]
        BY <2>1, <3>3
      <4> QED  BY <1>1, <2>1, <4>1 DEF MovedInv, CompletedWasMoved
    <3> QED  BY <3>1, <3>2, <3>3
  <2>4. \A u \in Threads : ~Submitted(u)'
    BY <2>1 DEF Submitted
  <2> QED  BY <2>3, <2>4 DEF MovedInv
<1>21. CASE HwFetch
  <2>1. UNCHANGED <<list, started, xfer, eng, svc, seen, pc>>
    BY <1>21 DEF HwFetch, program, engine
  <2>2. ASSUME NEW u \in Threads, Submitted(u)', started' = u
        PROVE  Counted(u)'
    <3>1. Counted(u) /\ desc.owner = u
      BY <1>4, <1>5, <2>1, <2>2
    <3>2. CASE HwEndsBadly
      <4>1. hw'.cur = None /\ hw'.cnt = hw.cnt /\ (wb'.n = hw.cnt \/ wb' = wb)
        BY <3>2, EndsBadly
      <4> QED  BY <2>1, <3>1, <4>1 DEF Counted, Locked
    <3>3. CASE ~HwEndsBadly
      <4>1. hw'.cur.owner = desc.owner /\ hw'.cnt = hw.cnt /\ wb' = wb
        BY <1>21, <3>3, Fetches
      <4> QED  BY <2>1, <3>1, <4>1 DEF Counted, Locked
    <3> QED  BY <3>2, <3>3
  <2> QED  BY <1>3, <2>1, <2>2 DEF MovedInv
<1>22. CASE HwDone
  <2>1. UNCHANGED <<list, started, eng, svc, seen, pc>>
    BY <1>22 DEF HwDone, program, engine
  <2>2. /\ hw.cur # None /\ hw'.cur = None /\ hw'.cnt = hw.cnt + 1
        /\ wb' = wb \/ wb'.n = hw.cnt + 1
    BY <1>22, Does
  <2>3. xfer' = IF hw.cur.owner = None THEN xfer ELSE [xfer EXCEPT ![hw.cur.owner].moved = @ + 1]
    BY <1>22 DEF HwDone
  <2>4. ASSUME NEW u \in Threads, Submitted(u)', started' = u
        PROVE  Counted(u)'
    <3>1. Counted(u)
      BY <1>4, <1>5, <2>1, <2>4
    <3>2. hw.cur.owner = u
      BY <2>2, <3>1 DEF Counted
    <3>3. xfer' = [xfer EXCEPT ![u].moved = @ + 1]
      BY <2>3, <3>2, XdmaAssumption
    <3>4. xfer'[u].moved = xfer[u].moved + 1
      BY <1>1, <3>3
    <3>5. hw'.cnt <= xfer'[u].moved /\ wb'.n <= xfer'[u].moved
      BY <1>1, <2>2, <3>1, <3>4 DEF Counted
    <3>6. (pc'[u] = "service" => seen'.n <= xfer'[u].moved) /\ (Locked' => svc'.count <= xfer'[u].moved)
      BY <1>1, <2>1, <3>1, <3>4 DEF Counted, Locked
    <3> QED  BY <2>1, <2>2, <3>1, <3>5, <3>6 DEF Counted
  <2>5. \A u \in Threads : ~TransferInit(u)
    BY <2>1, NotInit, XdmaAssumption
  <2>6. \A u \in Threads : xfer'[u].state = xfer[u].state
    BY <1>1, <2>3
  <2>7. CompletedWasMoved'
    BY <1>2, <2>1, <2>5, <2>6
  <2> QED  BY <2>4, <2>7 DEF MovedInv
<1>23. CASE HwFault
  <2>1. UNCHANGED <<list, started, xfer, eng, svc, seen, pc>> /\ HwEndsBadly
    BY <1>23 DEF HwFault, program, engine
  <2>2. hw'.cur = None /\ hw'.cnt = hw.cnt /\ (wb'.n = hw.cnt \/ wb' = wb)
    BY <2>1, EndsBadly
  <2>3. \A u \in Threads : Submitted(u)' /\ started' = u => Counted(u)'
    BY <1>4, <1>5, <2>1, <2>2 DEF Counted, Locked
  <2> QED  BY <1>3, <2>1, <2>3 DEF MovedInv
<1>24. CASE HwIdle
  <2>1. UNCHANGED <<list, started, xfer, eng, svc, seen, wb, pc>>
    BY <1>24 DEF HwIdle, program, engine
  <2>2. hw'.cur = hw.cur /\ hw'.cnt = hw.cnt
    BY <1>24, Idles
  <2> QED  BY <1>3, <1>6, <2>1, <2>2 DEF MovedInv
<1>25. CASE StopEngine
  <2>1. UNCHANGED <<list, started, xfer, svc, seen, wb, pc>> /\ hw'.cur = hw.cur /\ hw'.cnt = hw.cnt
        /\ eng'.dequeued = eng.dequeued
    BY <1>25 DEF StopEngine, Stop, TypeOK, Hardware, Engine, caller
  <2>2. \A u \in Threads : Submitted(u)' /\ started' = u => Counted(u)'
    BY <1>4, <1>5, <2>1 DEF Counted, Locked
  <2> QED  BY <1>3, <2>1, <2>2 DEF MovedInv
<1>26. CASE DeviceReset
  <2>1. UNCHANGED <<list, started, xfer, eng, svc, seen, wb, pc>> /\ hw'.cur = None /\ hw'.cnt = 0
    BY <1>26 DEF DeviceReset, HwReset, caller, engine
  <2>2. \A u \in Threads : Submitted(u)' /\ started' = u => Counted(u)'
    BY <1>1, <1>4, <1>5, <2>1 DEF Counted, Locked
  <2> QED  BY <1>3, <2>1, <2>2 DEF MovedInv
<1>27. CASE InitRegs
  <2>1. UNCHANGED <<list, started, xfer, eng, svc, seen, pc>> /\ hw'.cur = hw.cur /\ hw'.cnt = hw.cnt
        /\ wb'.n = 0
    BY <1>27 DEF InitRegs, TypeOK, Hardware, caller, engine, NoCount
  <2>2. \A u \in Threads : Submitted(u)' /\ started' = u => Counted(u)'
    BY <1>1, <1>4, <1>5, <2>1 DEF Counted, Locked
  <2> QED  BY <1>3, <2>1, <2>2 DEF MovedInv
<1>28. CASE ClearRequest
  <2>1. UNCHANGED <<list, started, xfer, svc, seen, wb, hw, pc>> /\ eng'.dequeued = eng.dequeued
    BY <1>28 DEF ClearRequest, TypeOK, Engine, caller
  <2>2. \A u \in Threads : Submitted(u)' /\ started' = u => Counted(u)'
    BY <1>4, <1>5, <2>1 DEF Counted, Locked
  <2> QED  BY <1>3, <2>1, <2>2 DEF MovedInv
<1>29. CASE SetOffline \/ IrqTeardown \/ SetOnline \/ UNCHANGED vars
  <2>1. UNCHANGED <<list, started, xfer, eng, svc, seen, wb, hw, pc>>
    BY <1>29 DEF SetOffline, IrqTeardown, SetOnline, vars, caller, engine
  <2> QED  BY <1>3, <1>6, <2>1 DEF MovedInv
<1> QED
  BY <1>7, <1>8, <1>9, <1>10, <1>13, <1>14, <1>15, <1>16, <1>17, <1>19, <1>20, <1>21, <1>22, <1>23,
     <1>24, <1>25, <1>26, <1>27, <1>28, <1>29, Aside

-----------------------------------------------------------------------------
(* The hardware works for nobody but the holder of desc_lock.               *)

LEMMA PollStep ==
  ASSUME PollInv, [Next]_vars
  PROVE  PollInv'
BY ZenonT(40) DEF PollInv, Next, ThreadStep, ServiceStep, HwStep, PciStep, Finished, vars, fixed, program,
       Call, TakeDescLock, TransferInit, TransferQueue, Wake, WaitEnds, PollFinds, PollTimesOut,
       ServicePoll, Reap, Interrupt, ServiceWork, ReadCount, ServiceTransfer, ServiceFinal,
       HwFetch, HwDone, HwFault, HwIdle, SetOffline, StopEngine, IrqTeardown, DeviceReset,
       InitRegs, ClearRequest, SetOnline, engine

\* Nothing that has gone wrong is forgotten.
LEMMA Remembered ==
  ASSUME [Next]_vars
  PROVE  why \subseteq why'
BY DEF Next, ThreadStep, ServiceStep, HwStep, PciStep, Finished, vars, fixed, program,
       Call, TakeDescLock, TransferInit, TransferQueue, Wake, WaitEnds, PollFinds, PollTimesOut,
       ServicePoll, Reap, Interrupt, ServiceWork, ReadCount, ServiceTransfer, ServiceFinal,
       HwFetch, HwDone, HwFault, HwIdle, SetOffline, StopEngine, IrqTeardown, DeviceReset,
       InitRegs, ClearRequest, SetOnline

LEMMA CleanStep ==
  ASSUME QueueInv, TypeOK, DescInv, HaltInv, PollInv, CleanInv, ServedInv, [Next]_vars
  PROVE  CleanInv'
<1> SUFFICES ASSUME Clean'
             PROVE  CleanInv'
  BY DEF CleanInv
<1>1. Clean
  BY Remembered DEF Clean
<1>2. /\ pci = "up" /\ ~eng.request /\ (Attended => Ended)
      /\ hw.cur # None => hw.cur.owner = descLock
  BY <1>1 DEF CleanInv
<1>3. pc \in [Threads -> Where]
  BY DEF TypeOK
<1>4. Attended => hw.cur = None
  BY <1>2 DEF Ended
<1>5. list = << >> => Ended
  BY <1>2 DEF Attended
\* A step while nothing is left to be done, which starts nothing.
<1>6. ASSUME Ended', UNCHANGED pci, eng'.request = eng.request
      PROVE  CleanInv'
  BY <1>2, <1>6 DEF CleanInv, Ended
\* A step that leaves the hardware alone.
<1>7. ASSUME UNCHANGED <<poll, list, svc, work, hw, pci>>, eng'.request = eng.request,
             \A t \in Threads : pc'[t] = "service" => pc[t] = "service",
             hw.cur = None \/ UNCHANGED descLock
      PROVE  CleanInv'
  <2>1. Attended' => Attended
    BY <1>7 DEF Attended, Locked
  <2>2. Ended => Ended'
    BY <1>7 DEF Ended
  <2> QED  BY <1>2, <1>7, <2>1, <2>2 DEF CleanInv
<1>8. ASSUME NEW t \in Threads, \/ Call(t) \/ TakeDescLock(t) \/ Wake(t) \/ WaitEnds(t)
      PROVE  CleanInv'
  <2>1. \A u \in Threads : pc'[u] = "service" => pc[u] = "service"
    BY <1>3, <1>8 DEF Call, TakeDescLock, Wake, WaitEnds, Return, Goto
  <2>2. UNCHANGED <<poll, list, eng, svc, work, hw, pci>>
    BY <1>8 DEF Call, TakeDescLock, Wake, WaitEnds, engine, bus, fixed
  <2>3. descLock = None => list = << >>
    BY QueueOrNothing, XdmaAssumption DEF Submitted
  <2>4. hw.cur = None \/ UNCHANGED descLock
    BY <1>5, <1>8, <2>3 DEF Call, TakeDescLock, Wake, WaitEnds, Ended
  <2> QED  BY <1>7, <2>1, <2>2, <2>4
<1>9. ASSUME NEW t \in Threads, pc[t] \in {"init", "queue"}
      PROVE  list = << >> /\ Ended /\ \A u \in Threads : pc[u] # "service"
  <2>1. descLock = t /\ \A u \in Threads : pc[u] # "service"
    BY <1>9, Holder DEF Holding
  <2>2. list = << >>
    BY <1>9, <2>1, QueueOrNothing DEF Submitted
  <2> QED  BY <1>5, <2>1, <2>2
<1>10. ASSUME NEW t \in Threads, TransferInit(t)
       PROVE  CleanInv'
  <2>1. pc[t] = "init" /\ UNCHANGED <<hw, eng, pci>>
    BY <1>10 DEF TransferInit, bus
  <2> QED  BY <1>6, <1>9, <2>1 DEF Ended
<1>11. ASSUME NEW t \in Threads, TransferQueue(t)
       PROVE  CleanInv'
  <2>1. pc[t] = "queue" /\ ~Locked /\ UNCHANGED <<poll, svc, work, pci>>
    BY <1>11 DEF TransferQueue, bus, fixed
  <2>2. list = << >> /\ Ended /\ \A u \in Threads : pc[u] # "service"
    BY <1>9, <2>1
  <2>3. list' = <<t>> /\ pc' = [pc EXCEPT ![t] = "wait"]
    BY <1>2, <1>11, <2>2 DEF TransferQueue, Goto
  <2>4. CASE eng.running
    <3>1. UNCHANGED <<hw, eng>>
      BY <1>2, <1>11, <2>4 DEF TransferQueue
    <3> QED  BY <1>6, <2>1, <2>2, <3>1 DEF Ended
  <2>5. CASE ~eng.running
    <3>1. EngineStart(list', eng, hw)
      BY <1>2, <1>11, <2>5 DEF TransferQueue
    <3>2. hw'.cur = hw.cur /\ hw'.stat = hw.stat /\ ~eng'.request
      BY <3>1, Starts
    <3>3. ~work /\ (~poll => hw.stat = {})
      BY <1>1, <2>5 DEF PollInv, ServedInv
    <3>4. ~Attended'
      BY <1>3, <2>1, <2>2, <2>3, <3>2, <3>3 DEF Attended, Locked
    <3> QED  BY <1>2, <2>1, <2>2, <3>2, <3>4 DEF CleanInv, Ended
  <2> QED  BY <2>4, <2>5
<1>12. ASSUME NEW t \in Threads, PollFinds(t)
       PROVE  CleanInv'
  <2>1. UNCHANGED <<hw, eng, pci>> /\ pc[t] = "wait" /\ (wb.err \/ wb.n = xfer[t].n)
    BY <1>12 DEF PollFinds, bus
  <2>2. xfer[t].n > 0 /\ xfer[t].n \in Nat
    BY <2>1 DEF DescInv, Having, TypeOK
  <2>3. wb # NoCount
    BY <2>1, <2>2 DEF NoCount
  <2>4. Ended'
    BY <2>1, <2>3 DEF HaltInv, Ended
  <2> QED  BY <1>6, <2>1, <2>4
<1>13. ASSUME NEW t \in Threads, PollTimesOut(t)
       PROVE  CleanInv'
  BY <1>13 DEF PollTimesOut, Clean
\* A service.
<1>14. ASSUME Attended, UNCHANGED pci, eng'.request = eng.request,
              hw'.cur = hw.cur /\ hw'.busy = hw.busy /\ hw'.lagging = hw.lagging,
              hw'.run = hw.run \/ ~hw'.run
       PROVE  CleanInv'
  <2>1. Ended'
    BY <1>2, <1>14, EndStays
  <2> QED  BY <1>6, <1>14, <2>1
<1>15. ASSUME NEW who, NEW c \in Counts, ServiceBegins(who, c), Attended, UNCHANGED pci
       PROVE  CleanInv'
  <2>1. /\ hw'.cur = hw.cur /\ hw'.busy = hw.busy /\ hw'.lagging = hw.lagging
        /\ hw'.run = hw.run \/ ~hw'.run
        /\ eng'.request = eng.request
    BY <1>15, Begins
  <2> QED  BY <1>14, <1>15, <2>1
<1>16. ASSUME ServiceIdle, hw' = [hw EXCEPT !.stat = {}] \/ hw' = [hw EXCEPT !.stat = {}, !.irqEn = TRUE],
              Attended, UNCHANGED pci
       PROVE  CleanInv'
  <2>1. hw'.cur = hw.cur /\ hw'.busy = hw.busy /\ hw'.lagging = hw.lagging /\ hw'.run = hw.run
    BY <1>16 DEF TypeOK, Hardware
  <2>2. eng'.request = eng.request
    BY <1>16 DEF ServiceIdle, ReadStatus, TypeOK, Engine
  <2> QED  BY <1>14, <1>16, <2>1, <2>2
<1>17. ASSUME NEW t \in Threads, ServicePoll(t)
       PROVE  CleanInv'
  <2>1. Attended /\ UNCHANGED pci
    BY <1>17 DEF ServicePoll, Attended, bus
  <2>2. CASE eng.running
    <3>1. ServiceBegins(t, seen) /\ seen \in Counts
      BY <1>17, <2>2 DEF ServicePoll, TypeOK
    <3> QED  BY <1>15, <2>1, <3>1
  <2>3. CASE ~eng.running
    BY <1>16, <1>17, <2>1, <2>3 DEF ServicePoll
  <2> QED  BY <2>2, <2>3
<1>18. CASE ServiceWork
  <2>1. Attended /\ UNCHANGED pci
    BY <1>18 DEF ServiceWork, Attended, bus
  <2>2. CASE eng.running
    <3>1. ServiceBegins(Work, NoCount) /\ NoCount \in Counts
      BY <1>18, <2>2 DEF ServiceWork, NoCount, Counts
    <3> QED  BY <1>15, <2>1, <3>1
  <2>3. CASE ~eng.running
    BY <1>16, <1>18, <2>1, <2>3 DEF ServiceWork
  <2> QED  BY <2>2, <2>3
<1>19. ASSUME NEW t \in Threads, Reap(t)
       PROVE  CleanInv'
  <2>1. /\ hw.cur = None => hw'.cur = None
        /\ hw'.busy = hw.busy /\ hw'.lagging = hw.lagging
        /\ eng'.request = eng.request
        /\ "gaveup" \in why' \/ (hw'.run = hw.run /\ xfer[t].state \in {"COMPLETED", "FAILED"})
    BY <1>19, Reaps
  <2>2. hw'.run = hw.run /\ xfer[t].state \in {"COMPLETED", "FAILED"}
    BY <2>1 DEF Clean
  <2>3. pc[t] = "reap" /\ UNCHANGED pci
    BY <1>19 DEF Reap, bus
  <2>4. descLock = t
    BY <2>3, Holder DEF Holding
  <2>5. list = << >>
    BY <2>2, <2>4, QueueOrNothing DEF Submitted
  <2>6. Ended'
    BY <1>5, <2>1, <2>2, <2>5 DEF Ended
  <2> QED  BY <1>6, <2>1, <2>3, <2>6
<1>20. CASE Interrupt
  <2>1. Attended /\ UNCHANGED <<pci, eng>>
    BY <1>20 DEF Interrupt, Attended, bus
  <2>2. hw'.cur = hw.cur /\ hw'.busy = hw.busy /\ hw'.lagging = hw.lagging /\ hw'.run = hw.run
    BY <1>20 DEF Interrupt, TypeOK, Hardware
  <2> QED  BY <1>14, <2>1, <2>2
<1>21. CASE ReadCount \/ ServiceTransfer
  <2>1. Attended /\ UNCHANGED <<pci, hw>>
    BY <1>21 DEF ReadCount, ServiceTransfer, Attended, bus
  <2>2. eng'.request = eng.request
    BY <1>21 DEF ReadCount, ServiceTransfer, TypeOK, Engine
  <2> QED  BY <1>14, <2>1, <2>2
<1>22. CASE ServiceFinal
  <2>1. Attended /\ UNCHANGED pci
    BY <1>22 DEF ServiceFinal, Attended, bus
  <2>2. /\ hw'.cur = hw.cur /\ hw'.busy = hw.busy /\ hw'.lagging = hw.lagging
        /\ hw'.run = hw.run \/ ~hw'.run
        /\ eng'.request = eng.request
    BY <1>22, Finals
  <2> QED  BY <1>14, <2>1, <2>2
\* The hardware at work.
<1>23. ASSUME UNCHANGED <<poll, list, svc, work, pc, descLock, eng, pci>>
       PROVE  /\ Ended' => CleanInv'
              /\ hw'.stat = hw.stat /\ ~Attended /\ (hw'.cur # None => hw'.cur.owner = descLock) => CleanInv'
  <2>1. hw'.stat = hw.stat /\ ~Attended => ~Attended'
    BY <1>23 DEF Attended, Locked
  <2> QED  BY <1>2, <1>6, <1>23, <2>1 DEF CleanInv
<1>24. CASE HwFetch
  <2>1. UNCHANGED <<poll, list, svc, work, pc, descLock, eng, pci>>
    BY <1>24 DEF HwFetch, program, engine, bus, fixed
  <2>2. CASE HwEndsBadly
    <3>1. Ended'
      BY <2>2, EndsBadly DEF Ended
    <3> QED  BY <1>23, <2>1, <3>1
  <2>3. CASE ~HwEndsBadly
    <3>1. /\ hw.run /\ hw.busy /\ ~hw.lagging
          /\ hw'.stat = hw.stat /\ hw'.cur.owner = desc.owner
      BY <1>24, <2>3, Fetches
    <3>2. ~Attended
      BY <1>2, <3>1 DEF Ended
    <3>3. Submitted(descLock)
      BY <3>2, QueueOrNothing DEF Attended
    <3>4. desc.owner = descLock
      BY <3>3 DEF DescInv, Having, Submitted
    <3> QED  BY <1>23, <2>1, <3>1, <3>2, <3>4
  <2> QED  BY <2>2, <2>3
<1>25. CASE HwDone
  <2>1. UNCHANGED <<poll, list, svc, work, pc, descLock, eng, pci>>
    BY <1>25 DEF HwDone, program, engine, bus, fixed
  <2>2. /\ hw.cur # None /\ hw'.cur = None
        /\ hw.cur.last => hw'.busy = busyLag /\ hw'.lagging = busyLag
        /\ ~hw.cur.last => hw'.stat = hw.stat
    BY <1>25, Does
  <2>3. CASE hw.cur.last
    <3>1. Ended'
      BY <2>2, <2>3 DEF Ended, TypeOK
    <3> QED  BY <1>23, <2>1, <3>1
  <2>4. CASE ~hw.cur.last
    BY <1>4, <1>23, <2>1, <2>2, <2>4
  <2> QED  BY <2>3, <2>4
<1>26. CASE HwFault
  <2>1. UNCHANGED <<poll, list, svc, work, pc, descLock, eng, pci>> /\ HwEndsBadly
    BY <1>26 DEF HwFault, program, engine, bus, fixed
  <2>2. Ended'
    BY <2>1, EndsBadly DEF Ended
  <2> QED  BY <1>23, <2>1, <2>2
<1>27. CASE HwIdle
  <2>1. UNCHANGED <<poll, list, svc, work, pc, descLock, eng, pci>>
    BY <1>27 DEF HwIdle, program, engine, bus, fixed
  <2>2. Ended'
    BY <1>27, Idles DEF Ended
  <2> QED  BY <1>23, <2>1, <2>2
\* The device is taken off line, or was.
<1>28. CASE SetOffline
  BY <1>28 DEF SetOffline, Clean
<1>29. CASE StopEngine \/ IrqTeardown \/ DeviceReset \/ InitRegs \/ ClearRequest \/ SetOnline
  BY <1>2, <1>29 DEF StopEngine, IrqTeardown, DeviceReset, InitRegs, ClearRequest, SetOnline, Advance
<1>30. CASE UNCHANGED vars
  <2>1. UNCHANGED <<poll, list, svc, work, hw, pci, eng, pc, descLock>>
    BY <1>30 DEF vars, caller, engine, bus, fixed
  <2> QED  BY <1>7, <2>1
<1> QED
  BY <1>8, <1>10, <1>11, <1>12, <1>13, <1>17, <1>18, <1>19, <1>20, <1>21, <1>22, <1>24, <1>25, <1>26,
     <1>27, <1>28, <1>29, <1>30, Aside

-----------------------------------------------------------------------------
(* The hardware, an interrupt, the work item or a service is under way.     *)

LEMMA ServedStep ==
  ASSUME QueueInv, TypeOK, HaltInv, CleanInv, ServedInv, [Next]_vars
  PROVE  ServedInv'
<1> SUFFICES ASSUME Clean', ~poll'
             PROVE  ServedInv'
  BY DEF ServedInv
<1>1. Clean
  BY Remembered DEF Clean
<1>2. ~poll
  BY DEF Next, ThreadStep, ServiceStep, HwStep, PciStep, Finished, vars, fixed, program,
         Call, TakeDescLock, TransferInit, TransferQueue, Wake, WaitEnds, PollFinds, PollTimesOut,
         ServicePoll, Reap, Interrupt, ServiceWork, ReadCount, ServiceTransfer, ServiceFinal,
         HwFetch, HwDone, HwFault, HwIdle, SetOffline, StopEngine, IrqTeardown, DeviceReset,
         InitRegs, ClearRequest, SetOnline
<1>3. /\ ~eng.running => hw.stat = {} /\ ~work /\ ~hw.busy
      /\ eng.running => (hw.busy \/ work \/ hw.stat # {}) /\ hw.run /\ (Locked => ~eng.err)
      /\ "err" \in hw.stat => ~hw.busy
      /\ list # << >> => eng.running \/ Locked
      /\ hw.irqEn \/ work \/ svc.by = Work
  BY <1>1, <1>2 DEF ServedInv
<1>4. pci = "up" /\ ~eng.request
  BY <1>1 DEF CleanInv
<1>5. (~hw.busy \/ hw.lagging \/ ~eng.running) => hw.cur = None
  BY <1>4 DEF HaltInv
<1>6. \A t \in Threads : pc[t] # "service" /\ svc.by # t
  BY <1>2 DEF HaltInv, QueueInv
\* A step that leaves all of it alone.
<1>7. ASSUME UNCHANGED <<work, svc>>, hw'.stat = hw.stat, hw'.busy = hw.busy, hw'.run = hw.run,
             hw'.irqEn = hw.irqEn, list' = list \/ list' = << >>,
             eng'.running = eng.running, eng'.err = eng.err \/ ~Locked
      PROVE  ServedInv'
  BY <1>3, <1>7 DEF ServedInv, Locked
<1>8. ASSUME NEW t \in Threads, \/ Call(t) \/ TakeDescLock(t) \/ Wake(t) \/ WaitEnds(t) \/ TransferInit(t)
      PROVE  ServedInv'
  <2>1. UNCHANGED <<list, eng, svc, work, hw>>
    BY <1>8 DEF Call, TakeDescLock, Wake, WaitEnds, TransferInit, engine
  <2> QED  BY <1>7, <2>1
<1>9. ASSUME NEW t \in Threads, TransferQueue(t)
      PROVE  ServedInv'
  <2>1. ~Locked /\ UNCHANGED <<svc, work>>
    BY <1>9 DEF TransferQueue
  <2>2. CASE eng.running
    <3>1. UNCHANGED <<hw, eng>>
      BY <1>4, <1>9, <2>2 DEF TransferQueue
    <3> QED  BY <1>3, <2>1, <2>2, <3>1 DEF ServedInv, Locked
  <2>3. CASE ~eng.running
    <3>1. EngineStart(list', eng, hw)
      BY <1>4, <1>9, <2>3 DEF TransferQueue
    <3>2. hw'.run /\ hw'.busy /\ eng'.running /\ hw'.stat = hw.stat /\ hw'.irqEn = hw.irqEn
      BY <3>1, Starts
    <3> QED  BY <1>3, <2>1, <2>3, <3>2 DEF ServedInv, Locked
  <2> QED  BY <2>2, <2>3
<1>10. ASSUME NEW t \in Threads, \/ PollFinds(t) \/ PollTimesOut(t) \/ ServicePoll(t)
       PROVE  FALSE
  BY <1>2, <1>6, <1>10 DEF PollFinds, PollTimesOut, ServicePoll
<1>11. CASE ServiceWork
  <2>1. eng.running /\ ~Locked /\ work /\ ~work' /\ UNCHANGED list
    BY <1>3, <1>11 DEF ServiceWork
  <2>2. ServiceBegins(Work, NoCount) /\ NoCount \in Counts /\ NoCount.n = 0
    BY <1>11, <2>1 DEF ServiceWork, NoCount, Counts
  <2>3. /\ hw'.busy = hw.busy /\ hw'.stat = {} /\ (eng'.err <=> "err" \in hw.stat)
        /\ hw.busy => eng'.running /\ hw'.run = hw.run
        /\ ~hw.busy => ~eng'.running
        /\ svc'.by = Work
    BY <2>2, Begins
  <2> QED  BY <1>3, <2>1, <2>3, XdmaAssumption DEF ServedInv, Locked
<1>12. ASSUME NEW t \in Threads, Reap(t)
       PROVE  ServedInv'
  <2>1. UNCHANGED <<svc, work>>
    BY <1>12 DEF Reap
  <2>2. /\ hw'.busy = hw.busy /\ hw'.stat = hw.stat /\ hw'.irqEn = hw.irqEn
        /\ "gaveup" \in why' \/ (hw'.run = hw.run /\ UNCHANGED <<list, eng>>)
    BY <1>12, Reaps
  <2>3. hw'.run = hw.run /\ UNCHANGED <<list, eng>>
    BY <2>2 DEF Clean
  <2> QED  BY <1>7, <2>1, <2>2, <2>3
<1>13. CASE Interrupt
  <2>1. work' /\ UNCHANGED <<list, eng, svc>> /\ hw.stat # {}
    BY <1>13 DEF Interrupt
  <2>2. hw'.stat = hw.stat /\ hw'.busy = hw.busy /\ hw'.run = hw.run
    BY <1>13 DEF Interrupt, TypeOK, Hardware
  <2> QED  BY <1>3, <2>1, <2>2 DEF ServedInv, Locked
<1>14. CASE ReadCount \/ ServiceTransfer
  <2>1. Locked /\ UNCHANGED <<hw, work>> /\ (list' = list \/ list' = << >>)
    BY <1>14, QueueOrNothing DEF ReadCount, ServiceTransfer, PastFirst, Collect
  <2>2. eng'.running = eng.running /\ eng'.err = eng.err /\ svc'.by = svc.by
    BY <1>14 DEF ReadCount, ServiceTransfer, TypeOK, Engine
  <2> QED  BY <1>3, <2>1, <2>2 DEF ServedInv, Locked
<1>15. CASE ServiceFinal
  <2>1. UNCHANGED work /\ Locked
    BY <1>15 DEF ServiceFinal
  <2>2. /\ list' = << >> /\ svc'.by = None /\ eng'.running = eng.running
        /\ hw'.busy = hw.busy /\ hw'.stat = hw.stat
        /\ hw'.run = hw.run \/ eng.err
        /\ svc.by = Work => hw'.irqEn
    BY <1>15, Finals
  <2>3. svc.by = Work
    BY <1>6, <2>1 DEF Locked, TypeOK
  <2> QED  BY <1>3, <2>1, <2>2, <2>3 DEF ServedInv, Locked
\* The hardware at work, for an engine that runs.
<1>16. ASSUME UNCHANGED <<list, eng, svc, work>>, hw'.run = hw.run, hw'.irqEn = hw.irqEn, eng.running,
              hw'.busy \/ hw'.stat # {}, "err" \in hw'.stat => ~hw'.busy
       PROVE  ServedInv'
  BY <1>3, <1>16 DEF ServedInv, Locked
<1>17. CASE HwEndsBadly /\ eng.running /\ UNCHANGED <<list, eng, svc, work>>
  <2>1. hw'.run = hw.run /\ hw'.irqEn = hw.irqEn /\ ~hw'.busy /\ hw'.stat = hw.stat \cup {"err"}
    BY <1>17, EndsBadly
  <2> QED  BY <1>16, <1>17, <2>1
<1>18. CASE HwFetch
  <2>1. UNCHANGED <<list, eng, svc, work>>
    BY <1>18 DEF HwFetch, program, engine
  <2>2. hw.busy /\ eng.running
    BY <1>3, <1>18, Fetches
  <2>3. CASE HwEndsBadly
    BY <1>17, <2>1, <2>2, <2>3
  <2>4. CASE ~HwEndsBadly
    <3>1. hw'.run = hw.run /\ hw'.irqEn = hw.irqEn /\ hw'.busy = hw.busy /\ hw'.stat = hw.stat
      BY <1>18, <2>4, Fetches
    <3> QED  BY <1>3, <1>16, <2>1, <2>2, <3>1
  <2> QED  BY <2>3, <2>4
<1>19. CASE HwDone
  <2>1. UNCHANGED <<list, eng, svc, work>>
    BY <1>19 DEF HwDone, program, engine
  <2>2. /\ hw.cur # None /\ hw'.run = hw.run /\ hw'.irqEn = hw.irqEn
        /\ hw.cur.last => hw'.stat = hw.stat \cup {"done"}
        /\ ~hw.cur.last => hw'.busy = hw.busy /\ hw'.stat = hw.stat
    BY <1>19, Does
  <2>3. eng.running /\ hw.busy /\ "err" \notin hw.stat
    BY <1>3, <1>5, <2>2 DEF TypeOK, Hardware
  <2> QED  BY <1>16, <2>1, <2>2, <2>3
<1>20. CASE HwFault
  <2>1. UNCHANGED <<list, eng, svc, work>> /\ HwEndsBadly /\ hw.cur # None
    BY <1>20 DEF HwFault, program, engine
  <2> QED  BY <1>5, <1>17, <2>1
<1>21. CASE HwIdle
  <2>1. UNCHANGED <<list, eng, svc, work>>
    BY <1>21 DEF HwIdle, program, engine
  <2>2. /\ hw.busy /\ (hw.lagging \/ ~hw.run) /\ ~hw'.busy
        /\ hw'.run = hw.run /\ hw'.irqEn = hw.irqEn
        /\ hw'.stat = IF hw.lagging THEN hw.stat \cup {"done"} ELSE hw.stat
    BY <1>21, Idles
  <2>3. eng.running /\ hw.lagging
    BY <1>3, <2>2
  <2> QED  BY <1>16, <2>1, <2>2, <2>3
\* The device is taken off line, or was.
<1>22. CASE SetOffline
  BY <1>22 DEF SetOffline, Clean
<1>23. CASE StopEngine \/ IrqTeardown \/ DeviceReset \/ InitRegs \/ ClearRequest \/ SetOnline
  BY <1>4, <1>23 DEF StopEngine, IrqTeardown, DeviceReset, InitRegs, ClearRequest, SetOnline, Advance
<1>24. CASE UNCHANGED vars
  <2>1. UNCHANGED <<list, eng, svc, work, hw>>
    BY <1>24 DEF vars, engine
  <2> QED  BY <1>7, <2>1
<1> QED
  BY <1>8, <1>9, <1>10, <1>11, <1>12, <1>13, <1>14, <1>15, <1>18, <1>19, <1>20, <1>21, <1>22, <1>23,
     <1>24, Aside

-----------------------------------------------------------------------------
(* Nothing fails that nothing has made fail.                                *)

LEMMA SoundStep ==
  ASSUME QueueInv, TypeOK, DescInv, HaltInv, CleanInv, SoundInv, [Next]_vars
  PROVE  SoundInv'
<1> SUFFICES ASSUME why' = {}
             PROVE  SoundInv'
  BY DEF SoundInv
<1>1. why = {} /\ Clean
  BY Remembered DEF Clean
<1>2. /\ ~hw.lagging /\ "err" \notin hw.stat /\ ~eng.err /\ ~wb.err
      /\ hw.busy => /\ hw.run /\ hw.idx <= desc.n
                    /\ hw.cur = None => hw.idx = hw.cnt /\ hw.idx < desc.n
                    /\ hw.cur # None => hw.idx = hw.cnt + 1 /\ (hw.cur.last <=> hw.idx = desc.n)
      /\ list # << >> /\ ~hw.busy => hw.cnt = desc.n
      /\ list = << >> \/ Locked => ~(eng.running)
      /\ list # << >> => (eng.running \/ Locked) /\ eng.dequeued = 0
      /\ \A t \in Threads : pc[t] = "service" => ~seen.err /\ seen.n = desc.n
      /\ Locked /\ list # << >> =>
           /\ svc.step = "count" => svc.count \in {0, desc.n}
           /\ svc.step = "list" => svc.count = desc.n
      /\ \A t \in Threads : xfer[t].state # "FAILED"
  BY <1>1 DEF SoundInv
<1>3. pci = "up" /\ ~eng.request /\ (Attended => hw.cur = None /\ ~hw.busy)
  BY <1>1, <1>2 DEF CleanInv, Ended
<1>4. /\ pc \in [Threads -> Where] /\ hw.cnt \in Nat /\ hw.idx \in Nat /\ desc.n \in 0 .. MaxDesc
      /\ xfer \in [Threads -> [state : State, n : 0 .. MaxDesc, moved : Nat]]
  BY DEF TypeOK, Hardware
<1>5. list # << >> => /\ descLock \in Threads /\ desc.n = xfer[descLock].n /\ desc.n > 0
                      /\ Head(list) = descLock
  BY QueueOrNothing DEF DescInv, Having, Submitted
<1>6. ASSUME NEW t \in Threads, pc[t] \in {"init", "queue", "reap"}
      PROVE  /\ \A u \in Threads : pc[u] # "service"
             /\ xfer[t].state # "SUBMITTED" \/ pc[t] # "reap" => list = << >> /\ ~hw.busy /\ hw.cur = None
  <2>1. descLock = t /\ \A u \in Threads : pc[u] # "service"
    BY <1>6, Holder DEF Holding
  <2>2. xfer[t].state # "SUBMITTED" \/ pc[t] # "reap" => list = << >>
    BY <1>6, <2>1, QueueOrNothing DEF Submitted
  <2> QED  BY <1>3, <2>1, <2>2 DEF Attended
<1>7. ASSUME UNCHANGED <<list, eng, svc, wb, hw, desc, seen>>,
             \A t \in Threads : pc'[t] = "service" => pc[t] = "service",
             \A t \in Threads : xfer'[t].state # "FAILED"
      PROVE  SoundInv'
  BY <1>2, <1>7 DEF SoundInv, Locked
<1>8. ASSUME NEW t \in Threads, \/ Call(t) \/ TakeDescLock(t) \/ Wake(t) \/ WaitEnds(t)
      PROVE  SoundInv'
  <2>1. \A u \in Threads : pc'[u] = "service" => pc[u] = "service"
    BY <1>4, <1>8 DEF Call, TakeDescLock, Wake, WaitEnds, Return, Goto
  <2>2. UNCHANGED <<list, eng, svc, wb, hw, desc, seen, xfer>>
    BY <1>8 DEF Call, TakeDescLock, Wake, WaitEnds, engine
  <2> QED  BY <1>2, <1>7, <2>1, <2>2
\* The block changes hands while the engine rests.
<1>9. ASSUME list = << >>, ~hw.busy, UNCHANGED <<list, eng, svc, wb>>, ~hw'.busy, hw'.stat = hw.stat,
             hw'.lagging = hw.lagging, \A t \in Threads : pc'[t] # "service",
             \A t \in Threads : xfer'[t].state # "FAILED"
      PROVE  SoundInv'
  BY <1>2, <1>9 DEF SoundInv, Locked
<1>10. ASSUME NEW t \in Threads, TransferInit(t)
       PROVE  SoundInv'
  <2>1. pc[t] = "init" /\ UNCHANGED <<list, eng, svc, wb, hw>>
    BY <1>10 DEF TransferInit
  <2>2. \A u \in Threads : pc'[u] # "service"
    BY <1>4, <1>6, <1>10, <2>1 DEF TransferInit, Return, Goto
  <2>3. \A u \in Threads : xfer'[u].state # "FAILED"
    <3> DEFINE k == SmallerOf(left[t], MaxDesc)
               r == [state |-> "NEW", n |-> k, moved |-> 0]
    <3>1. xfer' = [xfer EXCEPT ![t] = r] /\ r.state = "NEW"
      BY <1>10 DEF TransferInit
    <3> HIDE DEF r
    <3> QED  BY <1>2, <1>4, <3>1
  <2> QED  BY <1>6, <1>9, <2>1, <2>2, <2>3
<1>11. ASSUME NEW t \in Threads, TransferQueue(t)
       PROVE  SoundInv'
  <2>1. pc[t] = "queue" /\ ~Locked /\ UNCHANGED <<svc, wb, desc, seen>>
    BY <1>11 DEF TransferQueue
  <2>2. list = << >> /\ ~hw.busy /\ hw.cur = None /\ ~eng.running /\ \A u \in Threads : pc[u] # "service"
    BY <1>2, <1>6, <2>1
  <2>3. /\ xfer' = [xfer EXCEPT ![t].state = "SUBMITTED"] /\ pc' = [pc EXCEPT ![t] = "wait"]
        /\ list' # << >> /\ EngineStart(list', eng, hw)
    BY <1>3, <1>11, <2>2 DEF TransferQueue, Goto
  <2>4. /\ hw'.run /\ hw'.busy /\ ~hw'.lagging /\ hw'.idx = 0 /\ hw'.cnt = 0
        /\ hw'.cur = hw.cur /\ hw'.stat = hw.stat
        /\ eng'.running /\ eng'.dequeued = 0 /\ (eng'.err <=> "err" \in hw.stat)
    BY <2>3, Starts
  <2>5. desc.n > 0 /\ 0 <= desc.n
    BY <1>4, <2>1 DEF DescInv, Having
  <2>6. \A u \in Threads : xfer'[u].state # "FAILED"
    BY <1>2, <1>4, <2>3
  <2>7. \A u \in Threads : pc'[u] # "service"
    BY <1>4, <2>2, <2>3
  <2> QED  BY <1>2, <2>1, <2>2, <2>3, <2>4, <2>5, <2>6, <2>7 DEF SoundInv, Locked
<1>12. ASSUME NEW t \in Threads, PollFinds(t)
       PROVE  SoundInv'
  <2>1. pc[t] = "wait" /\ (wb.err \/ wb.n = xfer[t].n) /\ seen' = wb
        /\ UNCHANGED <<list, eng, svc, wb, hw, desc, xfer>>
    BY <1>12 DEF PollFinds
  <2>2. seen'.n = desc.n /\ ~seen'.err
    BY <1>2, <2>1 DEF DescInv, Having
  <2> QED  BY <1>2, <2>1, <2>2 DEF SoundInv, Locked
<1>13. ASSUME NEW t \in Threads, PollTimesOut(t)
       PROVE  SoundInv'
  BY <1>13 DEF PollTimesOut
\* A service finds an engine that has stopped, and its count.
<1>14. ASSUME NEW who \in Threads \cup {Work}, NEW c \in Counts, ServiceBegins(who, c),
              c = NoCount \/ (list # << >> => c.n = desc.n /\ ~c.err), Attended,
              UNCHANGED <<list, pc, xfer, wb, desc, seen>>
       PROVE  SoundInv'
  <2>1. ~hw.busy
    BY <1>3, <1>14
  <2>2. /\ hw'.busy = hw.busy /\ hw'.lagging = hw.lagging /\ hw'.cnt = hw.cnt
        /\ hw'.stat = {} \/ hw'.stat = hw.stat
        /\ (eng'.err <=> "err" \in hw.stat) \/ eng'.err = eng.err
        /\ eng'.dequeued = eng.dequeued
        /\ ~eng'.running
        /\ svc'.by = who /\ svc'.step = "count" /\ svc'.count = c.n
    BY <1>14, <2>1, Begins
  <2>3. list # << >> => svc'.count \in {0, desc.n}
    BY <1>14, <2>2 DEF NoCount
  <2>4. Locked'
    BY <2>2, XdmaAssumption DEF Locked
  <2> QED  BY <1>2, <1>14, <2>1, <2>2, <2>3, <2>4 DEF SoundInv
<1>15. ASSUME ServiceIdle, hw' = [hw EXCEPT !.stat = {}] \/ hw' = [hw EXCEPT !.stat = {}, !.irqEn = TRUE],
              Attended, ~eng.running, ~Locked, UNCHANGED <<list, xfer, wb, desc, seen>>,
              \A t \in Threads : pc'[t] = "service" => pc[t] = "service"
       PROVE  SoundInv'
  <2>1. hw'.busy = hw.busy /\ hw'.lagging = hw.lagging /\ hw'.stat = {}
    BY <1>15 DEF TypeOK, Hardware
  <2>2. eng'.running = eng.running /\ svc' = svc /\ (eng'.err <=> "err" \in hw.stat)
    <3> DEFINE x == "err" \in hw.stat
    <3>1. svc' = svc /\ eng' = [eng EXCEPT !.busy = hw.busy, !.err = x] /\ eng \in Engine /\ x \in BOOLEAN
      BY <1>15 DEF ServiceIdle, ReadStatus, TypeOK
    <3> HIDE DEF x
    <3>2. svc' = svc /\ eng'.running = eng.running /\ eng'.err = x
      BY <3>1 DEF Engine
    <3> QED  BY <3>2 DEF x
  <2>3. list = << >> /\ ~hw.busy
    BY <1>2, <1>3, <1>15
  <2> QED  BY <1>2, <1>15, <2>1, <2>2, <2>3 DEF SoundInv, Locked
<1>16. ASSUME NEW t \in Threads, ServicePoll(t)
       PROVE  SoundInv'
  <2>1. pc[t] = "service" /\ ~Locked /\ Attended /\ UNCHANGED <<list, xfer, wb, desc, seen>>
    BY <1>16 DEF ServicePoll, Attended
  <2>2. CASE eng.running
    <3>1. ServiceBegins(t, seen) /\ UNCHANGED pc /\ seen \in Counts
      BY <1>16, <2>2 DEF ServicePoll, TypeOK
    <3>2. seen.n = desc.n /\ ~seen.err
      BY <1>2, <2>1
    <3> QED  BY <1>14, <2>1, <3>1, <3>2
  <2>3. CASE ~eng.running
    <3>1. ServiceIdle /\ hw' = [hw EXCEPT !.stat = {}] /\ Goto(t, "reap")
      BY <1>16, <2>3 DEF ServicePoll
    <3>2. \A u \in Threads : pc'[u] = "service" => pc[u] = "service"
      BY <1>4, <3>1 DEF Goto
    <3> QED  BY <1>15, <2>1, <2>3, <3>1, <3>2
  <2> QED  BY <2>2, <2>3
<1>17. CASE ServiceWork
  <2>1. ~Locked /\ Attended /\ UNCHANGED <<list, xfer, wb, desc, seen, pc>>
    BY <1>17 DEF ServiceWork, Attended, caller
  <2>2. CASE eng.running
    <3>1. ServiceBegins(Work, NoCount) /\ NoCount \in Counts
      BY <1>17, <2>2 DEF ServiceWork, NoCount, Counts
    <3> QED  BY <1>14, <2>1, <3>1
  <2>3. CASE ~eng.running
    BY <1>15, <1>17, <2>1, <2>3 DEF ServiceWork
  <2> QED  BY <2>2, <2>3
<1>18. ASSUME NEW t \in Threads, Reap(t)
       PROVE  SoundInv'
  <2>1. /\ hw'.busy = hw.busy /\ hw'.lagging = hw.lagging /\ hw'.stat = hw.stat
        /\ UNCHANGED <<xfer, list, eng>>
        /\ xfer[t].state \in {"COMPLETED", "FAILED"}
    BY <1>18, Reaps
  <2>2. pc[t] = "reap" /\ UNCHANGED <<svc, wb>>
    BY <1>18 DEF Reap
  <2>3. \A u \in Threads : pc'[u] # "service"
    BY <1>4, <1>6, <1>18, <2>2 DEF Reap, Return, Goto
  <2>4. list = << >> /\ ~hw.busy
    BY <1>6, <2>1, <2>2
  <2> QED  BY <1>2, <1>9, <2>1, <2>2, <2>3, <2>4
<1>19. CASE Interrupt
  <2>1. /\ hw'.busy = hw.busy /\ hw'.run = hw.run /\ hw'.lagging = hw.lagging /\ hw'.stat = hw.stat
        /\ hw'.cur = hw.cur /\ hw'.idx = hw.idx /\ hw'.cnt = hw.cnt
        /\ UNCHANGED <<list, eng, svc, wb, desc, seen, pc, xfer>>
    BY <1>19 DEF Interrupt, TypeOK, Hardware, caller
  <2> QED  BY <1>2, <2>1 DEF SoundInv, Locked
<1>20. CASE ReadCount
  <2>1. Locked /\ svc.step = "count" /\ UNCHANGED <<list, eng, wb, hw, desc, seen, pc, xfer>>
    BY <1>20 DEF ReadCount, caller
  <2> DEFINE c == IF svc.count = 0 THEN hw.cnt ELSE svc.count
  <2>2. svc' = [svc EXCEPT !.step = "list", !.count = (c + Word - eng.dequeued) % Word]
    BY <1>20 DEF ReadCount
  <2>3. svc'.step = "list" /\ svc'.count = (c + Word - eng.dequeued) % Word
    BY <2>2 DEF TypeOK
  <2>4. ASSUME list # << >>
        PROVE  svc'.count = desc.n
    <3>1. c = desc.n /\ eng.dequeued = 0
      BY <1>2, <1>3, <2>1, <2>4 DEF Attended
    <3>2. desc.n \in Nat /\ desc.n < Word /\ Word \in Nat \ {0}
      BY <1>4, XdmaAssumption
    <3>3. (desc.n + Word - 0) % Word = desc.n
      BY <3>2, ModBelow
    <3> HIDE DEF c
    <3> QED  BY <2>3, <3>1, <3>3
  <2>5. svc'.step = "list" /\ Locked'
    BY <2>1, <2>2 DEF Locked, TypeOK
  <2> QED  BY <1>2, <2>1, <2>4, <2>5 DEF SoundInv, Locked
<1>21. CASE ServiceTransfer
  <2>1. Locked /\ svc.step = "list" /\ list # << >> /\ svc.count > xfer[Head(list)].n
    BY <1>21 DEF ServiceTransfer, PastFirst
  <2>2. svc.count = desc.n /\ xfer[Head(list)].n = desc.n
    BY <1>2, <1>5, <2>1
  <2> QED  BY <1>4, <2>1, <2>2
<1>22. CASE ServiceFinal
  <2>1. Locked /\ svc.step = "list" /\ UNCHANGED <<desc, seen>>
    BY <1>22 DEF ServiceFinal
  <2>2. /\ list' = << >> /\ svc'.by = None /\ eng'.running = eng.running /\ eng'.err = eng.err
        /\ hw'.busy = hw.busy /\ hw'.lagging = hw.lagging /\ hw'.stat = hw.stat
        /\ wb' = IF poll THEN NoCount ELSE wb
        /\ list = << >> => xfer' = xfer
        /\ list # << >> => xfer' = [xfer EXCEPT ![descLock].state =
                              IF eng.err \/ svc.count < xfer[descLock].n THEN "FAILED" ELSE "COMPLETED"]
    BY <1>22, Finals
  <2>3. \A u \in Threads : pc'[u] = "service" => pc[u] = "service"
    BY <1>4, <1>22 DEF ServiceFinal, Goto
  <2>4. ~eng.running /\ ~hw.busy
    BY <1>2, <1>3, <2>1 DEF Attended
  <2>5. \A u \in Threads : xfer'[u].state # "FAILED"
    <3>1. CASE list = << >>
      BY <1>2, <2>2, <3>1
    <3>2. CASE list # << >>
      <4>1. svc.count = xfer[descLock].n
        BY <1>2, <1>5, <2>1, <3>2
      <4>2. ~(svc.count < xfer[descLock].n)
        BY <1>4, <1>5, <3>2, <4>1
      <4>3. xfer' = [xfer EXCEPT ![descLock].state = "COMPLETED"]
        BY <1>2, <2>2, <3>2, <4>2
      <4> QED  BY <1>2, <1>4, <4>3
    <3> QED  BY <3>1, <3>2
  <2>6. ~wb'.err
    BY <1>2, <2>2 DEF NoCount
  <2> QED  BY <1>2, <2>1, <2>2, <2>3, <2>4, <2>5, <2>6 DEF SoundInv, Locked
\* The hardware takes all descriptors of the block, one after the other.
<1>23. CASE HwFetch
  <2>1. UNCHANGED <<list, eng, svc, seen, pc, desc, xfer>>
    BY <1>23 DEF HwFetch, program, engine
  <2>2. hw.run /\ hw.busy /\ hw.cur = None
    BY <1>23, Fetches
  <2>3. hw.idx = hw.cnt /\ hw.idx < desc.n
    BY <1>2, <2>2
  <2>4. /\ hw'.cur # None /\ (hw'.cur.last <=> hw.idx + 1 = desc.n)
        /\ hw'.idx = hw.idx + 1 /\ UNCHANGED wb
        /\ hw'.run = hw.run /\ hw'.busy = hw.busy /\ hw'.lagging = hw.lagging
        /\ hw'.cnt = hw.cnt /\ hw'.stat = hw.stat
    BY <1>23, <2>3, Fetches
  <2>5. hw'.idx = hw'.cnt + 1 /\ hw'.idx <= desc.n /\ (hw'.cur.last <=> hw'.idx = desc.n)
    BY <1>4, <2>3, <2>4
  <2> QED  BY <1>2, <2>1, <2>2, <2>4, <2>5 DEF SoundInv, Locked
<1>24. CASE HwDone
  <2>1. UNCHANGED <<list, eng, svc, seen, pc, desc>>
    BY <1>24 DEF HwDone, program, engine
  <2>2. /\ hw.cur # None /\ hw'.cur = None /\ hw'.cnt = hw.cnt + 1 /\ hw'.idx = hw.idx /\ hw'.run = hw.run
        /\ hw.cur.last =>
             /\ hw'.busy = busyLag /\ hw'.lagging = busyLag /\ hw'.stat = hw.stat \cup {"done"}
             /\ wb' = IF poll THEN [n |-> hw.cnt + 1, err |-> FALSE] ELSE wb
             /\ why' = IF busyLag THEN why \cup {"lag"} ELSE why
        /\ ~hw.cur.last =>
             /\ hw'.busy = hw.busy /\ hw'.lagging = hw.lagging /\ hw'.stat = hw.stat
             /\ UNCHANGED <<wb, why>>
    BY <1>24, Does
  <2>3. hw.busy
    BY <2>2 DEF HaltInv, TypeOK, Hardware
  <2>4. hw.run /\ hw.idx <= desc.n /\ hw.idx = hw.cnt + 1 /\ (hw.cur.last <=> hw.idx = desc.n)
    BY <1>2, <2>2, <2>3
  <2>5. xfer' = IF hw.cur.owner = None THEN xfer ELSE [xfer EXCEPT ![hw.cur.owner].moved = @ + 1]
    BY <1>24 DEF HwDone
  <2>6. \A u \in Threads : xfer'[u].state # "FAILED"
    BY <1>2, <1>4, <2>5
  <2>7. CASE hw.cur.last
    <3>1. busyLag = FALSE
      BY <2>2, <2>7 DEF TypeOK
    <3>2. ~hw'.busy /\ ~hw'.lagging /\ "err" \notin hw'.stat /\ hw'.cnt = desc.n /\ ~wb'.err
      BY <1>2, <2>2, <2>4, <2>7, <3>1
    <3> QED  BY <1>2, <2>1, <2>6, <3>2 DEF SoundInv, Locked
  <2>8. CASE ~hw.cur.last
    <3>1. hw'.idx = hw'.cnt /\ hw'.idx < desc.n
      BY <1>4, <2>2, <2>4, <2>8
    <3> QED  BY <1>2, <2>1, <2>2, <2>3, <2>4, <2>6, <2>8, <3>1 DEF SoundInv, Locked
  <2> QED  BY <2>7, <2>8
<1>25. CASE HwFault
  BY <1>25 DEF HwFault
<1>26. CASE HwIdle
  BY <1>2, <1>26, Idles
\* The device is taken off line, or was.
<1>27. CASE SetOffline
  BY <1>27 DEF SetOffline
<1>28. CASE StopEngine \/ IrqTeardown \/ DeviceReset \/ InitRegs \/ ClearRequest \/ SetOnline
  BY <1>3, <1>28 DEF StopEngine, IrqTeardown, DeviceReset, InitRegs, ClearRequest, SetOnline, Advance
<1>29. CASE UNCHANGED vars
  <2>1. UNCHANGED <<list, eng, svc, wb, hw, desc, seen, pc, xfer>>
    BY <1>29 DEF vars, caller, engine
  <2> QED  BY <1>2, <1>7, <2>1
<1> QED
  BY <1>8, <1>10, <1>11, <1>12, <1>13, <1>16, <1>17, <1>18, <1>19, <1>20, <1>21, <1>22, <1>23, <1>24,
     <1>25, <1>26, <1>27, <1>28, <1>29, Aside

-----------------------------------------------------------------------------
(* The theorems.                                                            *)

IInv ==
  /\ QueueInv /\ QuietInv /\ TypeOK /\ DescInv /\ HaltInv
  /\ PollInv /\ MovedInv /\ CleanInv /\ ServedInv /\ SoundInv

LEMMA InitIInv ==
  ASSUME Init
  PROVE  IInv
<1>1. TypeOK
  <2>1. hw \in Hardware /\ eng \in Engine
    BY DEF Init, HwReset, Hardware, Engine
  <2>2. wb \in Counts /\ seen \in Counts
    BY DEF Init, NoCount, Counts
  <2>3. svc \in [by : Threads \cup {Work, None}, step : {"count", "list"}, count : Nat]
    BY DEF Init, NoService
  <2>4. xfer \in [Threads -> [state : State, n : 0 .. MaxDesc, moved : Nat]]
    BY XdmaAssumption DEF Init, State
  <2>5. desc \in [owner : Threads \cup {None}, n : 0 .. MaxDesc]
    BY XdmaAssumption DEF Init, NoDesc
  <2>6. poll \in BOOLEAN /\ busyLag \in BOOLEAN /\ work \in BOOLEAN
    BY XdmaAssumption DEF Init
  <2>7. pc \in [Threads -> Where] /\ left \in [Threads -> Nat] /\ list \in Seq(Threads)
    BY DEF Init, Where
  <2>8. result \in [Threads -> {"none", "done", "EIO", "EBUSY", "ERESTARTSYS"}]
    BY DEF Init
  <2>9. calls \in 0 .. MaxCalls /\ faults \in 0 .. MaxFaults /\ resets \in 0 .. MaxResets
    BY XdmaAssumption DEF Init
  <2>10. /\ descLock \in Threads \cup {None} /\ started \in Threads \cup {None}
         /\ pci \in Phase /\ why \subseteq Trouble
    BY DEF Init, Phase
  <2> QED  BY <2>1, <2>2, <2>3, <2>4, <2>5, <2>6, <2>7, <2>8, <2>9, <2>10 DEF TypeOK
<1>2. QueueInv
  BY XdmaAssumption DEF Init, QueueInv, Shape, Holding, Where, NoService
<1>3. QuietInv
  BY DEF Init, QuietInv, Fields, HwReset, NoService
<1>4. /\ list = << >> /\ ~work /\ wb = NoCount /\ seen = NoCount /\ pci = "up" /\ svc.by = None
      /\ \A t \in Threads : pc[t] = "idle" /\ xfer[t].state = "NEW"
      /\ ~eng.running /\ ~eng.request /\ ~eng.err
      /\ hw.cur = None /\ ~hw.run /\ ~hw.busy /\ ~hw.lagging /\ hw.stat = {} /\ hw.irqEn
  BY DEF Init, HwReset, NoService
<1>5. DescInv
  BY <1>4 DEF DescInv, Having
<1>6. HaltInv /\ PollInv
  BY <1>4 DEF HaltInv, PollInv
<1>7. MovedInv
  BY <1>4 DEF MovedInv, CompletedWasMoved, Submitted
<1>8. CleanInv
  BY <1>4 DEF CleanInv, Ended
<1>9. ServedInv
  BY <1>4 DEF ServedInv, Locked
<1>10. SoundInv
  BY <1>4 DEF SoundInv, Locked, NoCount
<1> QED  BY <1>1, <1>2, <1>3, <1>5, <1>6, <1>7, <1>8, <1>9, <1>10 DEF IInv

LEMMA IInvStep ==
  ASSUME IInv, [Next]_vars
  PROVE  IInv'
<1>1. /\ QueueInv /\ QuietInv /\ TypeOK /\ DescInv /\ HaltInv
      /\ PollInv /\ MovedInv /\ CleanInv /\ ServedInv /\ SoundInv
  BY DEF IInv
<1> QED
  BY <1>1, QueueStep, QuietStep, TypeStep, DescStep, HaltStep, PollStep, MovedStep, CleanStep,
     ServedStep, SoundStep DEF IInv

\* The invariant the four theorems below rest on: every reachable state of the
\* driver and its engine, for any number of callers, calls, faults and resets.
THEOREM Invariance == Spec => []IInv
<1>1. Init => IInv
  BY InitIInv
<1>2. IInv /\ [Next]_vars => IInv'
  BY IInvStep
<1> QED  BY <1>1, <1>2, PTL DEF Spec

\* The types, which exclude a count below zero, and: the hardware works on a
\* descriptor whose caller has let go of it (transfer_destroy, the unmapped
\* pages of xdma_xfer_submit) only after a caller gave up or a reset.
THEOREM DescriptorsOwned == Spec => []Consistent
<1>1. IInv => Consistent
  <2> SUFFICES ASSUME IInv
               PROVE  TypeOK /\ InFlightIsOwned
    BY DEF Consistent
  <2>1. TypeOK /\ CleanInv /\ QueueInv
    BY DEF IInv
  <2>2. ASSUME hw.cur # None, Clean
        PROVE  hw.cur.owner # None
    <3>1. ~Attended /\ hw.cur.owner = descLock
      BY <2>1, <2>2 DEF CleanInv, Ended
    <3>2. list # << >>
      BY <3>1 DEF Attended
    <3>3. descLock \in Threads
      BY <2>1, <3>2, QueueOrNothing DEF Submitted
    <3> QED  BY <3>1, <3>3, XdmaAssumption
  <2> QED  BY <2>1, <2>2 DEF InFlightIsOwned, Clean
<1> QED  BY <1>1, Invariance, PTL

\* A transfer for which engine_start found the hardware at rest is completed by
\* engine_service_transfer_list and engine_service_final_transfer only when the
\* hardware did all its descriptors, whatever errors, resets and time-outs came
\* in between.
THEOREM CompletedIsDone == Spec => []CompletedWasMoved
<1>1. IInv => CompletedWasMoved
  BY DEF IInv, MovedInv
<1> QED  BY <1>1, Invariance, PTL

\* A queued transfer is never forgotten while nobody gives up: the hardware
\* works, or xdma_isr, engine_service_work or a service will look at the queue.
THEOREM QueueIsServed == Spec => []QueuedIsServed
<1>1. IInv => QueuedIsServed
  <2> SUFFICES ASSUME IInv, list # << >>, ~poll, Clean
               PROVE  hw.busy \/ work \/ Locked \/ (hw.stat # {} /\ hw.irqEn)
    BY DEF QueuedIsServed, Clean
  <2>1. ServedInv
    BY DEF IInv
  <2>2. /\ eng.running => hw.busy \/ work \/ hw.stat # {}
        /\ eng.running \/ Locked
        /\ hw.irqEn \/ work \/ svc.by = Work
    BY <2>1 DEF ServedInv
  <2> QED  BY <2>2, XdmaAssumption DEF Locked
<1> QED  BY <1>1, Invariance, PTL

\* A transfer fails (engine_service_final_transfer: an error or too few
\* descriptors) only when something went wrong, never because the service, the
\* interrupt and another submitter met in some order.
THEOREM FailureHasCause == Spec => []FailedHasCause
<1>1. IInv => FailedHasCause
  BY DEF IInv, SoundInv, FailedHasCause
<1> QED  BY <1>1, Invariance, PTL
===============================================================================
