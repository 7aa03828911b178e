# Formal models of the FPGA embedded vision designs

This directory holds TLA+ models of the parts of the repository where control is
hard to get right: threads and polling loops that meet in registers, callbacks that
re-enter each other, a driver and a sequencer on two sides of a FIFO.  TLC checks
each model on a small instance; TLAPS proves the safety properties the runs check
for every value of the constants.

`PROJECT.json` lists the components, the runs, which source lines each definition
stands for (`map`), the hazards of the code with the properties aimed at them, and
the findings.  Paths below are relative to the repository.

Contents: 1 the system, 2 the modules, 3 the runs, 4 bounds, 5 fairness, 6 proofs,
7 what the models say about the code, 8 what is not modelled, 9 plan.

## 1. The system

The repository collects designs for several boards.  Its own logic is in a few
places; most of the rest is vendored or generates projects.

### 1.1 PCIe transcode (zcu106_vcu_trd)

A file is transcoded on the board for a program on a PC.

    host PC                          PCIe                   device (APU)
    pcie_host_app ------- registers (BAR) + xdma ------- endpoint driver -- pcie_transcode
      main, test_dma      READY ADDR SIZE OFFSET         /dev/pciep0         main loop: feed_data, bus_message
      thread pcie_dma_read   TRANSFER_DONE               (not in the         streaming threads: start_feed,
      thread pcie_dma_write  TRANSFER_COMPLETE            repository)         stop_feed, seek_data, new_sample
                             HOST_DONE, length, params

| part | code | state | operations | hard because |
|---|---|---|---|---|
| host program | `host_x86/host_package/tools/pcie_host_app.c`, `dma_utils.c` | local copies of registers, a bounce buffer per thread | check options, publish length and parameters, per direction: poll, fetch, move, announce, drain | polls unsynchronised registers, errors end one side only |
| endpoint driver | outside the repository | current buffer per channel | publish a buffer, accept the answer | known only from its users |
| DMA driver | `host_x86/host_package/xdma/libxdma.c`, `cdev_sgdma.c`, `xdma_mod.c` | per channel: a queue, a block of descriptors, `running`, `shutdown`, the write-back word | submit, start, collect by interrupt or poll, abort, off line, on line | callers, interrupt, work item, PCI core and hardware meet in one engine; requests that time out leave it running |
| register space | `pl/srcs/ip/ip_repo_reg` | 2 x 31 registers | read and write from two AXI ports | two clock domains |
| device input | `apu/apps/pcie_transcode/src/pcie_src.c`, `pcie_lib` | memory of the file, `read_offset`, `offset`, `sourceid`, `eos_flag` | feed_data, start_feed, stop_feed, seek_data | two threads and one mutex that covers half of it; memory is reused |
| device output | `pcie_main.c` | `buf`, `write_offset` | new_sample, bus_message | two threads, no lock |
| device main | `pcie_main.c` | pipeline, parameters | start, loop, stop, announce the end | order of NULL and COMPLETE |

Correct means: every buffer is moved once, unchanged and in order, and the call on the
device returns after that; the file arrives whole; both programs end; the encoder
runs with what the user of this session asked for.  Of the driver: a transfer that is
reported complete was moved, one that fails has a cause, every call returns, and a
device that is off line is left alone.

### 1.2 vcu_gst_app and vcu_gst_lib (zcu106_vcu_trd)

Capture, encode, decode, display, record or stream one or several sources with
GStreamer.  `main` configures, creates and starts the pipelines by calls of the
library and runs a GMainLoop; with `loop_playback` it does so again and again.  On
that loop run the bus callbacks (`vgst_utils.c`), `time_cb` once a second and
`loop_cb`, which ends a round; SIGINT comes at any time.  State: the array
`app.playback[]` of handles and flags, the pipelines themselves, two loop pointers.
Hard: `stop_pipeline` runs a nested main loop on which all the other callbacks may
run; handles are cleared by the next round; pointers to freed loops remain.  Correct
means: no pipeline is left behind holding its device, a recording is closed by an
EOS, the program ends when it should.  `vcu_qt` is a second client of the library;
`vcu_video_lib` configures the capture devices, `vcu_apm_lib` reads counters.

### 1.3 The image sensor (avnet)

The bare-metal application `fmchc_python1300c_app` programs a PYTHON-1300 sensor over
SPI with the driver `onsemi_python_sw.c`, through the core `IP/onsemi_vita_spi`
(registers, two FIFOs, a sequencer, a bit-level machine), and receives its pixels with
`IP/onsemi_vita_cam` (deserialisers and their alignment, sync channel decoder, trigger
generator, remapper, CRC).  Hard: driver and sequencer run at different speeds on
the two ends of a first-word-fall-through FIFO; timeouts leave requests running.  The
alignment searches the tap of a delay line by asking, across two clocks, for one step
at a time, in six chained searches per line that share their counters; and the driver
waits for its end without a limit.  Correct means: every request is performed once and
in order, an answer belongs to its question; a line that is said to be aligned
delivers the training word away from its edges, and the training ends.

### 1.4 The SDx elements (zcu106_vcu_trd)

`apu/ws_bypass` has GStreamer elements around accelerators.  Their base class,
`gst/base/gstsdxbase.c`, keeps a FIFO of input frames, processes the last
`inputs_per_output` of them into one output, holds events back until that output is
made, and maps, copies and registers the frames' memory on the way.  Hard: a dozen
error paths each have to give back exactly what was taken; the FIFO is filled without a
look at its size; events wait in a list kept newest first; properties change under it.
Correct means: outputs and events keep their order, the window is the right one,
nothing is leaked or given back twice.

### 1.5 The rest

The I2C and HDMI services, the ADV7511 library (vendored), the KV260 software (start-up
and two hot-plug handlers), edid-decode and fru (vendored), and the Tcl and Python that build the projects
for enclustra, myir and kv260.  `PROJECT.json` gives the reason for each.

## 2. The modules

Throughout, one action is one access to state another actor can see, or one blocking
call; a payload is reduced to its identity (a serial number, a position in the file).
Names of actions are those of the functions, or of the place in the function.  A
definition with a suffix (`Drain_Once`) that stands before the definition it is named
for is a mutant: a plausible bug of that code, kept to show that the property named
in `PROJECT.json` sees it.  No specification uses them.

### PcieChannel: what the handshake promises

Per channel `issued`, `moved`, `accepted`, `closed`: a call names a buffer, the host
moves that buffer exactly once, then the call returns; a closed channel is at rest and
stays closed.  An abstract specification of 4 actions.

### PcieHandshake: registers, host threads, both mains

`pc[c]` is the place of the host thread of channel `c` in `pcie_dma_read` or
`pcie_dma_write`, which differ in one line (the write thread takes TRANSFER_DONE down,
`PollComplete`).  `Poll`, `PollComplete`, `Spin`, `SpinComplete`, `Fetch`,
`ReadToBuffer`, `WriteFromBuffer`, `SetDone`, `Drain` follow the loop in order; READY and
COMPLETE are sampled by separate steps, as the code does.  `Join` and `Finish` are the end of
`test_dma`.  The endpoint is external: `Publish` (a call of the application sets the
descriptor, then READY) and `Accept` (the interrupt of TRANSFER_DONE takes READY down and
ends the call).  `LoopQuit`, `PipelineNull`, `SetComplete` are the end of the device's
`main`.  `Faults` selects what may fail: allocation, negative codes, short writes, the
ioctl that sets COMPLETE.  `ImplementsPromise` is the refinement
`PcieChannel WITH issued <- slot, closed <- complete`.

### PcieFeed: the input of the device application

`feed_data` in the steps `FeedEos`, `FeedBegin`, `PcieRead`, then `Push` (enough-data
first) and `Enqueue`, or `Drop` (the appsrc refuses the buffer, which `feed_data` does not
notice); `stop_feed` in two (`StopFeed`, `StopFeedZero`: the id is cleared after the source
is removed); `start_feed` in two.  The streaming thread of the appsrc takes buffers, asks
for more or waits.  A flushing seek is a chain of steps of the appsrc around the callback:
`SeekBegin` (buffers are refused, downstream lets go), `SeekPark` (the streaming thread has
stopped, buffers are taken again), `SeekData` (the callback, under the mutex),
`SeekFlush` (the queue is dropped), `SeekDone` (the end of stream is cleared and the thread
starts again).  `feed_data` may do anything it likes between any two of them.  `lost` is a history
variable: behind the callback a chunk was dropped or refused.  `mem` is the memory of `g_malloc0`; a byte is its position in the file, so
"the buffer holds the right bytes" is an equation between `mem` and the buffer's offset.
Below `Ring` bytes the file is kept whole, else the memory is used as a ring, as in
`feed_data`.  `overtaken` is a history variable: the main loop ran the new source before
`start_feed` stored its id.  A seek to 0 is left out (section 7), and so is one that begins
when the user has already asked for the end (`eos_flag`).

### PcieSink: the output of the device application

`new_sample` on the streaming thread, `bus_message` and the end of `main` on the main
loop.  Bytes are positions in the muxer's output, `buf` is what lies below `write_offset`.

### PcieSession: options, parameters, registers

The eleven options with the ranges the usage text states (`Documented`) and those the
code tests (`Accepted`), `getopt_integer` with its uninitialised value, the packing into
two 32-bit registers as sets of bits, the file length as the sign to start, the device's
reading of length and parameters, and registers that outlive both programs.  The length
comes from `lseek` as a 64-bit value, -1 included, and passes through an unsigned int
(`AsUnsigned`).  The transfer between (`PcieHandshake`) is the one step `Joined`.  `noLength`: an ioctl failed;
`early`: the device read the parameters before the host had written them.

### VgstLib and VcuGstApp: library and application

`VgstLib` holds the state and the steps of the library, `VcuGstApp` extends it and adds
`main`, the timers and the signal.  A pipeline is a pair of source and round: `app[i]` holds
one of them, and an older one may still exist, which is what `OneOwner` is about.
Activations of `stop_pipeline` are frames of `stack`, since callbacks that run on its
nested loop may call it again; only the top frame steps.  Sink "display" stands for every
sink other than RECORD.  Loop pointers are numbers, with `Freed` for one that dangles; a
callback that follows such a pointer may crash (`crashed`) or find anything.
GStreamer is external: a playing pipeline may fail, may end, drains an EOS.

### VitaSpi: driver, SPI registers, FIFOs, sequencer

`Client` is what calls the driver: "app" writes by `onsemi_vita_spi_write_sequence`
(whole registers, or a field by read-modify-write, and a pause), "free" does anything, as
`onsemi_vita_sensor_1080P60` does.  Driver steps: `SpiWrite`, `Drain`, `SendRequest`,
`SendTimeout`, `WaitTimeout`, `PopResponse`, `GetResponse`.  Sequencer steps:
`Fetch` (pop, and take what dout then shows), `Shift`, `Finish`.  A register is a field and
a rest, enough to tell whether read-modify-write keeps bits.  `sent` and `done` are history:
the requests for the sensor as they went into the TXFIFO (not the nops, which only take
time) and as they were performed.  Two facts of timing are in
the model and nowhere else: `Settled` (an idle sequencer takes a word before the driver
can send another, since four clocks are shorter than two accesses of the processor with
a status read between them), and, for "app", that the 100 us pause and 999 polls are
longer than a transfer (`spi_config` is called with 7, a transfer takes about 7 us).

### Xdma: the DMA driver of the host

One channel and its engine.  A thread goes through `Call` (the request is cut into
transfers of at most `MaxDesc` descriptors), `TakeDescLock`, `TransferInit`,
`TransferQueue`, `Wake` or `WaitEnds` (time-out or signal), and `Reap`, which looks at the
state of its transfer, aborts one that nobody has collected, and goes on or returns.  In
poll mode it waits in `PollFinds` / `PollTimesOut` and serves the engine itself
(`ServicePoll`).  `Interrupt` schedules the work item, `ServiceWork` takes the engine's
lock; `ServiceBegins`, `ReadCount`, `ServiceTransfer`, `ServiceFinal` are `engine_service`
with its reads of the hardware as separate steps, since the hardware (`HwFetch`, `HwDone`,
`HwIdle`, `HwFault`, `HwEndsBadly`) goes on between them.  `SetOffline`, `StopEngine`,
`IrqTeardown`, `DeviceReset`, `InitRegs`, `ClearRequest`, `SetOnline` are an error of the
PCI core and its recovery.  History: how many descriptors of each transfer the hardware
moved (`moved`), for which transfer the engine was started (`started`), and what went
wrong since (`why`: fault, gave up, lag, reset).

### SensorAlign: the training of the sensor's lines

The four processes of `iserdes_control.vhd` (`alignsequencer`, `handshaker`, `aligning`,
the edge detector), the other end of the request in `iserdes_sync.vhd`, and the driver's
wait.  A sampled word is the number of bits by which it is rotated from the training
word, so an edge of the line is a tap at which that number changes; there a sample may
be the word before, the word after or a mixture.  The states of `aligning` are
actions of their names (`ResetDelay`, `CheckEdge`, `WaitSampleStable`,
`CompareTraining`, `CheckFirstEdgeChanged`, ..., `WindowFound`, `DoWordAlign`); each leaves a
command, `hs` carries it out (`Issue`, `AckIsHigh`, `AckIsLow`), and `SyncSamplesReq`,
`SyncServes`, `SyncAcks`, `SyncReleases` are the other clock.  That clock may stop (`DivStops`):
only then can `AckTimesOut` happen.  `delay` is the tap in use, `al.tap` the one counted.
The way back from the second edge is that of the VHDL: the literal "10" is taken as signed, -2,
so it is half the window and four taps, and `GoodEye` asks for nine taps between the edges.
The driver never sets AUTO_ALIGN, so that on the board the manual tap is used; both
modes are modelled.

### SdxBase: the base class of the SDx elements

Buffers and events are numbered as they arrive, an output has the number of its newest
input.  The streaming thread goes through `Submit`, `NewFrame`, `MapInput`,
`RegisterInput`, `Recover` (copy what cannot be registered, and again), `QueueFrame`, then
`TooFew` or `CreateOutput`, `MapOutput`, `RegisterOutput`, `ProcessFrames`, `Deliver`, `Push`, and
back, until too few frames are left.  Each call that can fail has its failing disjunct.
`QueueEvent`, `PassEvent` and `Reset` are `sink_event` and the way through READY;
`SetProperty` is any other thread.  `refs`, `copies`, `outs` and `regs` count what the
element holds of each buffer.  `gst_base_transform_chain` and `gst_pad_push` are external.

## 3. The runs

| run | configuration | shows |
|---|---|---|
| `handshake` | `PcieHandshake.cfg` | exactly-once, in-order hand-over under every interleaving and reported fault; the refinement of PcieChannel; liveness |
| `feed` | `PcieFeed.cfg` | nothing in use is overwritten, the queue is the file without gap or repetition, also behind a seek, whose steps fall anywhere, but for what it throws away; one idle source, EOS after the file, the stream ends |
| `sink` | `PcieSink.cfg` | order and completeness of the output, mutual exclusion of the two writers, no empty write, an end |
| `session` | `PcieSession.cfg` | two sessions of each program in any order: the encoder gets this session's parameters, in range, as documented, and the length that is left of the file's in an unsigned int |
| `vcu_app` | `VcuGstApp.cfg` | no pipeline lost or left, recordings closed, loops quit for a reason, the program ends |
| `vita_spi` | `VitaSpi.cfg` | order, right answers, read-modify-write, no trouble for the application, calls return |
| `xdma` | `Xdma.cfg` | two callers, interrupt and poll mode, time-outs, signals, an error, a reset: what is reported complete was moved, failures have a cause, no transfer is forgotten, calls return, off line is quiet |
| `align` | `SensorAlign.cfg` | clean, narrow, late, flat and dead lines, both modes, a clock that stops: the tap counted is the tap in use, aligned lines are right, clean lines are not given up, the driver's wait ends |
| `sdx` | `SdxBase.cfg` | order of outputs and events, the window, and the account of every buffer and registration on every error path |
| `vcu_app_ctrlc`, `vita_spi_burst`, `xdma_late` | see `PROJECT.json` | one finding each: a counterexample to what the code's own words say (section 7) |

Each module has one type invariant (`TypeOK`); in most it is a conjunct of `Consistent` or
`AppConsistent`, which adds that what two actors keep of the same thing agrees.  The other
properties relate two pieces of state or two moments.  The properties to read first:
`ImplementsPromise`, `EveryBufferServed` (PcieHandshake), `BuffersIntact`, `StreamIsFile`
(PcieFeed), `OneWriter` (PcieSink), `EncodesAsAsked` (PcieSession), `OneOwner`,
`RecordsClosed`, `CtrlCEnds` (VcuGstApp), `InOrder`, `RightAnswer` (VitaSpi),
`CompletedWasMoved`, `FailedHasCause`, `QueuedIsServed` (Xdma), `AlignedIsRight`,
`GoodLinesAlign` (SensorAlign), `InOrder`, `Window` (SdxBase).

Exceptions are written into the properties where the code fails to do better, so that
the property says exactly how far it goes: `Missed(c)` (the drain loop has missed the low of
READY), `overtaken`, `early`, `Excused` (a round that ended by end of stream, or a state
change to NULL that failed), `trouble` (requests crowded, given up, dropped), `started` and
`why` (a transfer queued behind an engine that is left running; a caller that gave up),
`late` and `dirty` (a request that timed out; CTRL_BITSLIP left set), `mishandled` (a frame
that cannot be mapped behind its copy), `lost` (a chunk pushed while a seek was being
finished), offsets past the largest int, lengths past the largest unsigned int.

Deadlock is checked of Xdma.  It is not checked where the programs end or may wait for a
user or a live source, which is everywhere else; that they end or go on is a liveness
property instead.

## 4. Bounds

| constant | value | why it is enough |
|---|---|---|
| `MaxBuffers` | 3 per channel | one being served, one behind it (a missed low of READY), one after recovery; nothing depends on serial numbers beyond their order |
| `FileLengths`, `Chunk`, `Ring` | 5 and 15, 2, 9 | 5 < Ring: kept whole, with a short last chunk; 15 > Ring: the ring goes round and has a gap at its end.  `Ring` is the smallest that `RingAssumption` allows for one buffer downstream: the margin in the code is large, in the model it is tight |
| `HoldMax`, `MaxSeeks`, `SeekTargets` | 1, 1, {3, 5, 15} | a buffer downstream; a seek into a chunk, to the length of the short file, to the end of the long one |
| `IntMax` | 12 | the longer file has offsets above and below it |
| `WriteBufSize`, `SampleSizes`, `MaxBytes` | 3, 1..3, 9 | samples that fit, fill exactly, do not fit; three buffers |
| `MaxOptions`, `MaxSessions`, `Values` | 1, 2, the ends of each range and one beyond | packing is tested option by option against defaults that set neighbouring fields; two sessions leave registers behind |
| `FileLengths` (PcieSession) | 5, 9, 2^17, 2^17 + 5, -1 | two that an int of 17 bits can say, one that leaves 0, one that leaves the length of another file, an `lseek` that fails |
| `IntBits` | 17 | wide enough for the widest field (16 bits) and a sign; the theorems cover 17 to 32 |
| `MaxSources`, `MaxRuns`, `Configs` | 2, 2, seven | two sources for half-done starts and partial ends, two rounds for what one leaves to the next; a larger set of configurations (2.2 million states) has been checked too |
| `TxDepth`, `RxDepth`, `MaxCalls` | 2, 1, 4 | the code has 16 and 16; smaller FIFOs reach full sooner.  Four calls: three that crowd, one that finds the consequences |
| `Threads`, `Requests`, `MaxDesc`, `MaxCalls` | 2, {1, 3}, 2, 2 | calls of one and of two transfers, the second shorter; a caller behind one that gave up.  Three threads add a second one that waits for `desc_lock` |
| `Word` | 100 | a difference below zero wraps to a count no transfer has |
| `MaxFaults`, `MaxResets` (Xdma) | 1, 1 | one error of the hardware and one way off line and on line, at any moment |
| `DataWidth`, `TapCountMax`, `StableCount`, `RetryMax` | 5, 12, 2, 3 | the code has 10, 32, 8, 32767; the searches need a tap before and behind two edges, nine between them and one count each |
| `TapRange` | 24 | `tapcount` is ten bits wide and counts on past the end of the delay line, of whose length 2^10 is a multiple |
| `Wirings`, `MaxStops` | three pairs of lines, one stop for the pair without edges | every kind of line before and behind another; the eye of the narrow line is one tap too small for the way back |
| `Inputs`, `MaxItems`, `MaxFaults`, `MaxSwitches` | {1, 2, 3}, 5, 2, 1 | a window that fills, slides and is emptied; two failures, since a copy may fail behind a registration |

State counts are between 3,600 and 660,000; every passing run ends within a minute or so.

## 5. Fairness

Liveness is checked of `FairSpec`, which assumes weak fairness of the actors the
processor or a clock drives, and of nothing else.

- PcieHandshake: the host threads and both mains run, and the interrupt of
  TRANSFER_DONE is taken.  Nothing makes the application publish a buffer or the stream end.
- PcieFeed, PcieSink: main loop and streaming thread run, a downstream element
  consumes, a posted EOS is dispatched, the thread that has begun a seek goes on with it.
  Seeks, key strokes, errors need not happen.
- VcuGstApp: the main thread runs, every message and timer that is due is dispatched, an
  EOS sent to a playing pipeline drains.  A source need not end and the signal need not
  come; `CtrlCEnds`, `EosEnds`, `RoundsEnd` are conditional on what they are about.
- VitaSpi: the processor runs and the core is clocked.  The client need not call.
- Xdma: the scheduler runs the threads and the work item (which CPU runs what, and a
  spin lock held by a sleeper, are not in the model), time-outs come, and the PCI core
  finishes what it has begun.  The hardware may stall.
- SensorAlign: CLOCK runs, and a processor polls.  CLKDIV may stop for good, in which
  case the time-out of the handshake comes.
- SdxBase states no liveness: the chain is a loop over what arrives.

Liveness is not proved; the prover has no fairness rules for it.

## 6. Proofs

`PcieHandshakeProofs`, `PcieFeedProofs`, `PcieMainProofs`, `VcuGstAppProofs`,
`VitaSpiProofs`, `XdmaProofs`, `SensorAlignProofs` and `SdxBaseProofs` hold the theorems.
They assume the named ASSUMEs of the modules and nothing else, except where this section or the
theorem says so ("short" not in `Faults`, 0 not in `SeekTargets`).  Together they state every
safety property of the passing runs.  Hardly any is inductive as it stands; what had to be added
to each is below.

**PcieHandshake.**  Each property speaks of `moved` or of
`accepted`, and whether a thread may go on depends on where the answer of the last buffer
is.  The invariant adds, per channel and per place of the thread, how `Len(moved)`,
`accepted` and `slot` compare, when `ready` may be high, what the thread's copies
`lready`, `lcomp`, `lslot` still mean, and that an interrupt is pending only between
`SetDone` and `Accept`; and it ties the two mains to both channels.  From it:
`TypeCorrect`, `MovesInOrder`, `AcceptsMoved` (without short writes; with them it is
false), `ExitsClean`, the action property `CompletesLast`, and `HandshakeRefines`: every step
maps to a step of PcieChannel or to a stutter.

**PcieFeed.**  `FeedConsistent`: the id and the idle source agree but where one of the two
threads is between its two assignments (`Feeder`), and at each place of `feed_data` there is a
bound on how full the queue can still get before the next need-data (`Crowd`).
`FileStreamed`: the queue is one piece of the file that ends at `read_offset`, in whole
chunks unless the file ends (`Stream`); the level the appsrc counts, on which need-data and
enough-data depend, follows from that.  Where the piece begins is where the stream stands, or
where the seek wanted it, until a chunk is lost, and again once a buffer has been taken (`Join`);
nothing is lost but between `seek_data` and the end of the seek (`DropsInSeek`), so that a queue
that was dropped only ever loses its beginning.  `NothingOverwritten`: what travels downstream lies
at most so many chunks behind the stream (`Travelling`), and a buffer lies in the ring as far
behind `intOffset` as it lies behind `read_offset` in the file, or on the lap before, and then
further than `Crowd` lets the next chunk reach (`Places`, `Memory`).  `RingAssumption` states
how large the ring must be for this; the ring of the code has room for 32 chunks, which
covers 28 buffers downstream.  The theorem has 0 not in `SeekTargets` as a hypothesis, since
`pcie_read` takes offset 0 for "go on" and then reads another part of the file.

**PcieSink.**  The invariant says what each place of the two threads implies about
`buf`, `outfile` and `pulled`, and that the main loop flushes only when the streaming
thread has come to its end.  From it `OutputOrdered`, `WritersExclude`, `EosIsComplete`,
`WritesSomething`, for every buffer size and set of sample sizes.  `WritersExclude` is the
point: no lock is taken, and the proof shows that the position of the EOS suffices.

**VcuGstApp.**  Three chains of facts, in one invariant.  The stack of activations of
`stop_pipeline`: that of `main` is the first, each waits on one source, and there are no more
than rounds, since `loop_cb` is scheduled once a round (`StackInv`); a loop pointer is that of
an activation waiting on this very source, or dangles (`LoopInv`).  What has been taken down:
a source that an activation has passed has no pipeline, so none has when it returns, however
many others ran on top of it (`PassedInv`), and no round ends before (`OwnerInv`).  A recording:
while it plays, its source has seen neither EOS nor error and nobody has quit its wait
(`RecordInv`), so that what ends the wait is the end of the recording (`CutInv`).  From these
`NothingRemains`, `PipelinesOwned` and `RecordingsClosed`, for any number of sources and of
rounds.

**VitaSpi.**  `AnswersRight` (property `RightAnswer`, free clients
included): a read that starts with the bridge at rest, or with nothing crowded or given up
behind it, is the only read under way (`NoReads`), and until its answer is popped one of
its word, its command and its answer is all there is of it (`Asking`).  `RequestsInOrder`
(`InOrder`): the sequencer pops one word and performs what it sees next; while nothing has
been crowded or dropped the FIFO holds one word at most (`OrderInv`), and for such a FIFO the
two are the same.  `AppInTune`
(`AppConsistent`): along the sequences of the application the registers of the sensor and
those asked for differ at most by the one request under way (`Writing`, `Wanted`), so that
the read half of a read-modify-write returns what its write half may build on, for all
registers, values and depths of the FIFOs.  `Sleep` carries it: a pause ends with the
bridge at rest.

**Xdma.**  `QueueOfOne`: a transfer is in the queue from `transfer_queue` to its
collection or its abort, and all that time its thread is at a place which only the
holder of `desc_lock` can reach, so the queue never holds a second one, for any number
of callers.  The loop over finished transfers, `transfer_abort`, which looks at the head
only, and the one block of descriptors rely on it.  `QuietOffline`: what starts an engine
is `transfer_queue`, which the request to shut down stops, and a service, which an engine
that does not run is not given; so nothing starts it between `xdma_device_offline` and
`xdma_device_online`, whatever was under way.  The other four rest on what the driver may
conclude about the hardware.  A count in host memory, or an engine that does not run, means
that the hardware has ended what it was started for (`HaltInv`); so what is counted of a
transfer the engine was started for was moved (`MovedInv`: `CompletedIsDone`).  While nobody
gives up and no reset comes, the descriptor in the hardware belongs to the holder of
`desc_lock` (`CleanInv`: `DescriptorsOwned`), and the hardware works, or an interrupt is
enabled and pending, or a service is under way (`ServedInv`: `QueueIsServed`).  While nothing
at all goes wrong the hardware takes exactly the descriptors of the block (`SoundInv`:
`FailureHasCause`).

**SensorAlign.**  While no request has timed out the four phases of the request keep the
clocks in step (`RequestInv`): a command is carried out once, on the line whose turn it is,
before the aligner goes on.  So the tap it counts is the tap in use (`TapInv`; not once an edge
has been followed past the last tap, section 7), and what it reads is a word of that line
(`DataInv`).  Word alignment: off the edges of a live line the slips that are left reach the
training word (`SlipInv`), so that none are left only when it has been seen.  For
the automatic search: over a clean line it passes the first edge, then the second, and
comes back between them (`OnTheWay`, with the counters as functions of the two edges: from the window counted
follows that half of it and four taps are less than the eye, if that has nine); on a
line that began with CTRL_BITSLIP set the word slips with every command, so that no edge is
ever stable (`Slipping`).  From these `TapCounted`, `AlignedRight`, `GoodAligned`, in both
modes, for any number of taps, bits and lines.  The lemmas before them are about remainders:
the ten bits of `tapcount` and the delay line wrap together, and a slip rotates a word by one.

**SdxBase.**  `OrderKept`: that the list of waiting events is
reversed, that all of it is newer than what went, and that the output to come is newer
than both has to be carried along (`Sorted`, `Older`, `Newest`), with how full the FIFO is at
each place (`Filled`): only when it is full again is an output of the newest frame due.
`JoinedInOrder` is the lemma about `push_pending_events`.
`WindowSlides` adds that a FIFO with room holds all frames taken or one less than a
window (`Slid`), and that all that completed a window but the one in the making have
gone downstream (`Delivered`).  Its consequence is that `input_frames`, an array of
`inputs_per_output` which `submit_input_buffer` fills without a check, never overflows.
`NothingLeaks`: a frame in the FIFO or at hand owns the one reference to its buffer or to its
copy (`InputsCounted`), a frame of output that to its buffer (`OutputsCounted`), and the frames
that are registered own the registrations (`RegsCounted`); no two frames are of the same input
(`Distinct`), so that giving one back leaves the others alone.

**PcieSession** (in `PcieMainProofs`, which also holds the proofs of PcieSink: the two ends of a
session).  The invariant of the protocol is `SessionInv`: a length register that is set is this
session's (what an unsigned int keeps of it), and what the parameter registers hold follows the place of the host program; a device
that has read a length knows the place from it, and has not read too early once the host is past
both writes.  `OptionsHonoured` is inductive with the types.

That the parameters arrive is arithmetic.  `Pack` is a union of shifted sets of bits and `Unpack`
a sum over a part of it.  The sum is a fold, defined by recursion on the set; the induction
theorems of the library cannot be used for it, as they take an operator, so the induction is by a
smallest counterexample (`SmallestNumber`, `SmallestSet`, from `WFMin`): `ValueSums` is the
fold's equation for every finite set, `ValueOfBits` lets any bit be taken first, `LowerBits` says
that the lower `j` bits of a number are its remainder by `2^j`, and `ValueBits` that sixteen bits
are the number.  `BitsBelow` and `Layout` (the fields of one register lie apart, and each has
room for its range) give `FieldReadBack` and `PackingLossless`.  Powers of two are computed by the
solver one by one (`Powers`), hence the width of an int in 17 .. 32: all the documented ranges,
and the 32 bits of the code.

**Only model-checked.**  Liveness (section 5).

## 7. What the models say about the code

With a run:

- `vcu_app_ctrlc`: in a recording with loop playback Ctrl-C makes `loop_cb` enter
  `stop_pipeline` on top of the `stop_pipeline` of `main`; the outer nested loop is
  never quit and the program stays.
- `vita_spi_burst`: the sequencer pops a word and performs the next one, when there is
  one: in a burst a write is lost and the last one done twice.  The pause in
  `write_sequence` hides it; `sensor_1080P60` has none in its bursts.
- `xdma_late`: a transfer that times out or is interrupted leaves `running` set; the next
  one is queued and not started, and the late interrupt of the first completes it,
  though nothing of it was moved.

Met while modelling, as an exception in a property or outside the model:

- `write_from_buffer` returns a short count, its callers test `rc < 0`: a transfer of
  which part is missing is announced as done (the fault "short" of PcieHandshake).
- `pcie_read` takes the 64-bit offset as an int; past 2 GB the seek fails, the result is
  ignored and the buffer pushed holds stale memory (`Intact` excepts those chunks).
- The aligner goes back from the second edge by half the window and four taps, not by half
  the window as its comment has it ("divide by 2"): the "10" it takes off is signed, and
  is -2.  With edges on taps 1 and 10 it ends on tap 2; in an eye of eight taps or fewer it
  may end on the first edge or before it (`GoodEye` begins at nine).
- A GOP length of 1000, documented as allowed, is replaced by the default (the exception in
  `OptionsHonoured`).
- The drain loop of a host thread can miss the low of READY and then waits for a
  buffer that waits for it (`Missed`).
- `start_feed` can be overtaken by the source it adds before it stores the id
  (`overtaken`); the queue then overfills until the next enough-data.
- A seek to 0 is ignored by `pcie_read`, which takes offset 0 for "go on".
- `seek_data` gives the mutex back before the appsrc drops its queue and clears its end of
  stream: a chunk that `feed_data` pushes in between is dropped or refused, the result of the push
  is not looked at, and `read_offset` has moved on.  The stream behind such a seek starts a chunk or
  more too late (`lost` in `StreamIsFile`, which claims that it has no other gap).
- The length of the file, 64 bits from `lseek`, is stored in an unsigned int: from 4 GB on the
  device waits for what is left of it, and the test for -1 behind it can never hold, so a failed
  `lseek` becomes a length of 2^32 - 1 (`EncodesAsAsked` says which length arrives).
- The length, the sign to start, is written before the parameters (`early`).
- After a failed ioctl the length and the parameters are uninitialised memory.
- The end of all sources of a round of loop playback quits the main loop without
  `stop_pipeline`, with `loop_cb` still scheduled and `time_cb` gone (`restarted`).
- SIGINT before the main loop runs is lost, and between a callback's test and its unref it
  drops the reference of the running loop; a recording whose start has failed waits for
  an EOS that cannot come; the configuration file is closed twice.
- `spi_write` does not wait for room in the TXFIFO (`FULL && !(--timeout)` ends at once);
  `spi_read` sends its request after the wait for room has timed out and leaves `*pData`
  unset (the core may have made room for that request by then; in VitaSpi it is always
  gone, and no property depends on it); BUSY is never set; the trigger bits would stop
  the sequencer for good.
- The wait for ALIGN_BUSY to fall has no limit, but ends (`AlignEnds`); the chip check
  accepts a bus of zeros.
- A manual tap M gives M + 1 taps, and the 31 of "IDELAY setting (0-31)" wraps to none;
  ALIGNED is set also when the alignment of a line has failed.
- CTRL_BITSLIP stays set behind a failed word alignment, and the lines after it are
  searched with slipping words.  The overrun of the search for the second edge resets the
  delay line and no counter: the search counts on past the end of the line, and a line
  with other than two clean edges may then be aligned on a tap that differs from the one
  reported in TAP_SETTING (`AlignedIsRight` claims the position for clean lines only).  A request
  that times out leaves REQ up.
- In poll mode a failed transfer leaves `desc_dequeued` behind a running engine; the
  difference that is unsigned then wraps.  `xdma_device_offline` wakes nobody: a caller
  that waits leaves by its time-out.
- A frame that cannot be mapped behind its copy: the original is dropped twice and the
  copy never.  A registration stays when `filter-mode` changes before it is given back.

## 8. What is not modelled

Inside the modelled parts: element graphs, element properties and parameter limits
of vcu_gst_lib beyond the combinations of source and sink; parsing of the
configuration file and of the command line; memory leaks; the contents of registers and
sequences of the sensor; bits and clocks of a transfer (`spi_lowlevel.vhd`); the reset of the
SPI core.  Registers of the PCIe design are taken to become visible in the order of
the writes.

Of xdma: probe and remove, streaming and cyclic transfers, the performance test, user
interrupts, the control and bypass devices, and the failure to map the user's buffer; the
copy of the driver under `libxdma/` has the same text.  Of the sensor's receiver: the
sync channel decoder, trigger generator, remapper, CRC and FIFOs, and the delay and
deserialiser cells themselves, which are external.  Of the SDx elements: the buffer pool
and allocator, the queries, and what an accelerator computes.

Whole parts: see the components marked not_modelled.  Three reasons occur.
Vendored code (ADV7511, edid-decode, fru).  Sequential start-up code whose result
is the registers it writes (KV260, I2C, HDMI, capture devices).  Not reached:
register space, vcu_qt, the hot-plug handlers of the KV260 (section 9).

## 9. Plan

Done: PcieChannel, PcieHandshake, PcieFeed, PcieSink, PcieSession, VgstLib, VcuGstApp,
VitaSpi, Xdma, SensorAlign, SdxBase, with proofs of all their safety properties.

Next, in this order:

1. `SpiLowlevel`: the clock and data machines of `spi_lowlevel.vhd` (26 bits, sampling
   edge, clock divider), with the transfer of VitaSpi (`Shift`) as the abstract
   specification it implements.
2. `RegSpace`: the two AXI slaves and their wires, an abstract register file, and the
   order in which PcieHandshake may rely on its writes.
3. The sync channel decoder and the trigger generator behind SensorAlign.
4. `VcuQt`: the demo mode and the polls of vcu_qt as a second client over VgstLib.
5. The hot-plug handlers of the KV260 and the I2C service, if their interleavings turn
   out to differ from what is there.

Proofs: each new module with its own; liveness stays with TLC.

Runs stay few.  A new module brings one passing run, and a run for a finding
gives way where a proof or a property with its exception says as much.
