---------------------------- MODULE PcieHandshake ----------------------------
(***************************************************************************)
(* The buffer handshake of the PCIe transcode design: the host program     *)
(* (pcie_host_app.c) runs one thread per direction, the device application *)
(* (pcie_transcode) blocks in read() and write() of /dev/pciep0, and both  *)
(* sides meet only in a block of memory-mapped registers.                  *)
(*                                                                         *)
(* Channel "read" carries the input file to the device, "write" carries    *)
(* the transcoded stream back.  Per channel the endpoint publishes a       *)
(* buffer (ADDR, SIZE, OFFSET, then READY), the host thread polls READY,   *)
(* moves the bytes, writes TRANSFER_DONE, and polls READY until it drops.  *)
(* The application ends a session by setting TRANSFER_COMPLETE to 0xef.    *)
(*                                                                         *)
(* One action is one register access or one blocking call, so every        *)
(* interleaving of the polling loops with the endpoint is explored.  A     *)
(* buffer is its serial number: ADDR, SIZE and OFFSET stay what Publish    *)
(* made them until the endpoint has accepted the transfer.                 *)
(***************************************************************************)
EXTENDS Naturals, Sequences

CONSTANTS
  MaxBuffers,   \* bound on the buffers the endpoint publishes per channel
  Faults        \* what may go wrong in this instance, a subset of FaultKind

Chan == {"read", "write"}

FaultKind ==
  {"oom",       \* posix_memalign leaves the bounce buffer NULL
   "io",        \* read_to_buffer or write_from_buffer returns a negative code
   "short",     \* write_from_buffer returns a short count, which is positive
   "ioctl"}     \* SET_READ/WRITE_TRANSFER_DONE fails, which is only logged

ASSUME HandshakeAssumption ==
  /\ MaxBuffers \in Nat
  /\ Faults \subseteq FaultKind

VARIABLES
  ready,        \* READ/WRITE_BUFFER_READY
  slot,         \* ADDR, SIZE and OFFSET: the serial number of the buffer
  complete,     \* READ/WRITE_TRANSFER_COMPLETE = 0xef
  doneReg,      \* READ/WRITE_BUFFER_TRANSFER_DONE
  irq,          \* the interrupt a write of TRANSFER_DONE raises, not yet taken
  pc,           \* the host threads pcie_dma_read and pcie_dma_write
  lready,       \* their local buffer_ready
  lcomp,        \* their local read_complete / write_complete
  lslot,        \* their local addr, size and offset
  moved,        \* history: the buffers each host thread moved, in order
  accepted,     \* buffers whose read() or write() returned on the device
  app,          \* the device application's main()
  main          \* the host's test_dma()

regs    == <<ready, slot, complete, doneReg, irq>>
thread  == <<pc, lready, lcomp, lslot, moved>>
vars    == <<regs, thread, accepted, app, main>>

HostPC   == {"poll", "pollc", "spin", "spinc", "fetch", "in", "out", "done",
             "drain", "exit", "dead"}
AppState == {"run", "stopping", "stopped", "rcomplete", "closed"}
MainPC   == {"join1", "join2", "hostdone", "clear", "end"}

TypeOK ==
  /\ ready    \in [Chan -> BOOLEAN]
  /\ slot     \in [Chan -> Nat]
  /\ complete \in [Chan -> BOOLEAN]
  /\ doneReg  \in [Chan -> {0, 1}]
  /\ irq      \in [Chan -> BOOLEAN]
  /\ pc       \in [Chan -> HostPC]
  /\ lready   \in [Chan -> BOOLEAN]
  /\ lcomp    \in [Chan -> BOOLEAN]
  /\ lslot    \in [Chan -> Nat]
  /\ moved    \in [Chan -> Seq(Nat)]
  /\ accepted \in [Chan -> Nat]
  /\ app      \in AppState
  /\ main     \in MainPC

Init ==
  /\ ready    = [c \in Chan |-> FALSE]
  /\ slot     = [c \in Chan |-> 0]
  /\ complete = [c \in Chan |-> FALSE]
  /\ doneReg  = [c \in Chan |-> 0]
  /\ irq      = [c \in Chan |-> FALSE]
  /\ pc       = [c \in Chan |-> "poll"]
  /\ lready   = [c \in Chan |-> FALSE]
  /\ lcomp    = [c \in Chan |-> FALSE]
  /\ lslot    = [c \in Chan |-> 0]
  /\ moved    = [c \in Chan |-> << >>]
  /\ accepted = [c \in Chan |-> 0]
  /\ app      = "run"
  /\ main     = "join1"

-----------------------------------------------------------------------------
(* The host threads. *)

Goto(c, label) == pc' = [pc EXCEPT ![c] = label]

\* Top of the outer loop: sample READY, ...
Poll(c) ==
  /\ pc[c] = "poll"
  /\ lready' = [lready EXCEPT ![c] = ready[c]]
  /\ Goto(c, "pollc")
  /\ UNCHANGED <<regs, lcomp, lslot, moved, accepted, app, main>>

\* ... then COMPLETE; the write thread also takes its TRANSFER_DONE down.  The
\* inner loop is entered only when READY was low, whatever COMPLETE said.
PollComplete(c) ==
  /\ pc[c] = "pollc"
  /\ lcomp' = [lcomp EXCEPT ![c] = complete[c]]
  /\ doneReg' = IF c = "write" THEN [doneReg EXCEPT ![c] = 0] ELSE doneReg
  /\ Goto(c, IF ~lready[c] THEN "spin" ELSE IF complete[c] THEN "exit" ELSE "fetch")
  /\ UNCHANGED <<ready, slot, complete, irq, lready, lslot, moved, accepted, app, main>>

\* The inner polling loop samples the two registers in the same order.
Spin(c) ==
  /\ pc[c] = "spin"
  /\ lready' = [lready EXCEPT ![c] = ready[c]]
  /\ Goto(c, "spinc")
  /\ UNCHANGED <<regs, lcomp, lslot, moved, accepted, app, main>>

\* Mutant of SpinComplete: the inner loop waits for READY alone.
SpinComplete_ReadyOnly(c) ==
  /\ pc[c] = "spinc"
  /\ lcomp' = [lcomp EXCEPT ![c] = complete[c]]
  /\ Goto(c, IF ~lready[c] THEN "spin" ELSE IF complete[c] THEN "exit" ELSE "fetch")
  /\ UNCHANGED <<regs, lready, lslot, moved, accepted, app, main>>

SpinComplete(c) ==
  /\ pc[c] = "spinc"
  /\ lcomp' = [lcomp EXCEPT ![c] = complete[c]]
  /\ Goto(c, IF complete[c] THEN "exit" ELSE IF lready[c] THEN "fetch" ELSE "spin")
  /\ UNCHANGED <<regs, lready, lslot, moved, accepted, app, main>>

\* Read ADDR, SIZE and OFFSET and allocate the bounce buffer.
Fetch(c) ==
  /\ pc[c] = "fetch"
  /\ lslot' = [lslot EXCEPT ![c] = slot[c]]
  /\ \/ Goto(c, "in")
     \/ "oom" \in Faults /\ Goto(c, "dead")
  /\ UNCHANGED <<regs, lready, lcomp, moved, accepted, app, main>>

\* read_to_buffer: from the input file, or from the device's DMA engine.
ReadToBuffer(c) ==
  /\ pc[c] = "in"
  /\ \/ Goto(c, "out")
     \/ "io" \in Faults /\ Goto(c, "dead")
  /\ UNCHANGED <<regs, lready, lcomp, lslot, moved, accepted, app, main>>

\* write_from_buffer: to the device's DMA engine, or to the output file.  The
\* caller tests rc < 0, so a short count counts as success.
WriteFromBuffer(c) ==
  /\ pc[c] = "out"
  /\ \/ moved' = [moved EXCEPT ![c] = Append(@, lslot[c])] /\ Goto(c, "done")
     \/ "short" \in Faults /\ Goto(c, "done") /\ UNCHANGED moved
     \/ "io" \in Faults /\ Goto(c, "dead") /\ UNCHANGED moved
  /\ UNCHANGED <<regs, lready, lcomp, lslot, accepted, app, main>>

\* Mutant of SetDone: announces with the code that belongs to COMPLETE.
SetDone_Code(c) ==
  /\ pc[c] = "done"
  /\ doneReg' = [doneReg EXCEPT ![c] = 239]
  /\ irq' = [irq EXCEPT ![c] = TRUE]
  /\ Goto(c, "drain")
  /\ UNCHANGED <<ready, slot, complete, lready, lcomp, lslot, moved, accepted, app, main>>

\* Mutant of SetDone: the register is written only when it is not yet set.
SetDone_Edge(c) ==
  /\ pc[c] = "done"
  /\ doneReg' = [doneReg EXCEPT ![c] = 1]
  /\ irq' = [irq EXCEPT ![c] = @ \/ doneReg[c] = 0]
  /\ Goto(c, "drain")
  /\ UNCHANGED <<ready, slot, complete, lready, lcomp, lslot, moved, accepted, app, main>>

\* *transfer_done = 0x1; the register write interrupts the endpoint.
SetDone(c) ==
  /\ pc[c] = "done"
  /\ doneReg' = [doneReg EXCEPT ![c] = 1]
  /\ irq' = [irq EXCEPT ![c] = TRUE]
  /\ Goto(c, "drain")
  /\ UNCHANGED <<ready, slot, complete, lready, lcomp, lslot, moved, accepted, app, main>>

\* Mutant of Drain: one look at READY, whatever it says.
Drain_Once(c) ==
  /\ pc[c] = "drain"
  /\ lready' = [lready EXCEPT ![c] = ready[c]]
  /\ Goto(c, "poll")
  /\ UNCHANGED <<regs, lcomp, lslot, moved, accepted, app, main>>

\* Poll READY until it drops.
Drain(c) ==
  /\ pc[c] = "drain"
  /\ lready' = [lready EXCEPT ![c] = ready[c]]
  /\ Goto(c, IF ready[c] THEN "drain" ELSE "poll")
  /\ UNCHANGED <<regs, lcomp, lslot, moved, accepted, app, main>>

HostThread(c) ==
  \/ Poll(c) \/ PollComplete(c) \/ Spin(c) \/ SpinComplete(c) \/ Fetch(c)
  \/ ReadToBuffer(c) \/ WriteFromBuffer(c) \/ SetDone(c) \/ Drain(c)

\* Both ways out of a thread function: the loop's break and the error labels.
Ended(c) == pc[c] \in {"exit", "dead"}

-----------------------------------------------------------------------------
(* test_dma after pthread_create. *)

\* Mutant of Join: the write thread is not joined.
Join_ReadOnly ==
  /\ main = "join1" /\ Ended("read") /\ main' = "hostdone"
  /\ UNCHANGED <<regs, thread, accepted, app>>

Join ==
  /\ \/ main = "join1" /\ Ended("read") /\ main' = "join2"
     \/ main = "join2" /\ Ended("write") /\ main' = "hostdone"
  /\ UNCHANGED <<regs, thread, accepted, app>>

\* HOST_DONE = 1, then the file length and the encoder parameters are cleared.
Finish ==
  /\ \/ main = "hostdone" /\ main' = "clear"
     \/ main = "clear" /\ main' = "end"
  /\ UNCHANGED <<regs, thread, accepted, app>>

-----------------------------------------------------------------------------
(* The endpoint: the kernel driver behind /dev/pciep0, which the repository  *)
(* does not contain, as the host loops and pcie_abstract.c use it.           *)

\* A read() or write() of the application is outstanding on channel c.
Blocked(c) == slot[c] > accepted[c]

\* feed_data reads from the main loop; new_sample writes from the streaming
\* thread, which lives until the pipeline has reached the NULL state.
MayCall(c) == app = "run" \/ (c = "write" /\ app = "stopping")

Publish(c) ==
  /\ MayCall(c)
  /\ ~Blocked(c)
  /\ slot[c] < MaxBuffers
  /\ slot' = [slot EXCEPT ![c] = @ + 1]
  /\ ready' = [ready EXCEPT ![c] = TRUE]
  /\ UNCHANGED <<complete, doneReg, irq, thread, accepted, app, main>>

\* The handler of the done interrupt takes READY down and ends the call.
Accept(c) ==
  /\ irq[c]
  /\ irq' = [irq EXCEPT ![c] = FALSE]
  /\ ready' = [ready EXCEPT ![c] = FALSE]
  /\ accepted' = [accepted EXCEPT ![c] = @ + 1]
  /\ UNCHANGED <<slot, complete, doneReg, thread, app, main>>

-----------------------------------------------------------------------------
(* The device application's main(). *)

\* Mutant of LoopQuit: the main goes on while feed_data waits for its buffer.
LoopQuit_Early ==
  /\ app = "run"
  /\ app' = "stopping"
  /\ UNCHANGED <<regs, thread, accepted, main>>

\* bus_message quits the loop on EOS or ERROR.  It runs on the main loop's
\* thread, hence never while feed_data is blocked in pcie_read.
LoopQuit ==
  /\ app = "run"
  /\ ~Blocked("read")
  /\ app' = "stopping"
  /\ UNCHANGED <<regs, thread, accepted, main>>

\* gst_element_set_state (NULL) returns when no streaming thread is left.
PipelineNull ==
  /\ app = "stopping"
  /\ ~Blocked("write")
  /\ app' = "stopped"
  /\ UNCHANGED <<regs, thread, accepted, main>>

\* pcie_set_read_transfer_done (0xef), then pcie_set_write_transfer_done (0xef).
SetComplete(c) ==
  /\ \/ c = "read"  /\ app = "stopped"   /\ app' = "rcomplete"
     \/ c = "write" /\ app = "rcomplete" /\ app' = "closed"
  /\ \/ complete' = [complete EXCEPT ![c] = TRUE]
     \/ "ioctl" \in Faults /\ UNCHANGED complete
  /\ UNCHANGED <<ready, slot, doneReg, irq, thread, accepted, main>>

-----------------------------------------------------------------------------
Endpoint(c) == Publish(c) \/ Accept(c)

Next ==
  \/ \E c \in Chan : HostThread(c) \/ Endpoint(c) \/ SetComplete(c)
  \/ Join \/ Finish
  \/ LoopQuit \/ PipelineNull

Spec == Init /\ [][Next]_vars

(* Both threads and both mains are scheduled, and an interrupt is taken.     *)
(* Nothing obliges the application to start a transfer (Publish) or the      *)
(* stream to end (LoopQuit).                                                 *)
Fairness ==
  /\ \A c \in Chan : WF_vars(HostThread(c)) /\ WF_vars(Accept(c)) /\ WF_vars(SetComplete(c))
  /\ WF_vars(Join) /\ WF_vars(Finish) /\ WF_vars(PipelineNull)

FairSpec == Spec /\ Fairness

-----------------------------------------------------------------------------
(* Safety. *)

\* The host moves the published buffers in order, none twice and none skipped.
\* It depends on pcie_dma_read/write not starting over on a READY they have
\* already answered, although the poll of READY and the endpoint's clearing of
\* it are not synchronised.
MovedInOrder ==
  \A c \in Chan : \A i \in 1 .. Len(moved[c]) : moved[c][i] = i

\* A read() or write() of the application returns only for a buffer whose bytes
\* the host has moved: TRANSFER_DONE never stands for an earlier or a failed one.
AcceptedWasMoved ==
  \A c \in Chan : accepted[c] <= Len(moved[c])

\* A host thread that leaves its loop because of COMPLETE leaves no published
\* buffer behind, although it tests COMPLETE before it looks at a READY that
\* was high.
ExitLosesNothing ==
  \A c \in Chan : pc[c] = "exit" => ~ready[c] /\ slot[c] = Len(moved[c])

\* Once HOST_DONE is raised no thread still serves a buffer, and a thread that
\* did not fail has delivered everything the endpoint will ever publish.
HostDoneIsFinal ==
  main \in {"clear", "end"} =>
    \A c \in Chan : pc[c] # "dead" => complete[c] /\ slot[c] = Len(moved[c])

\* The host program ends without leaving a call of the device behind: neither by
\* one thread that takes a COMPLETE for it, nor by HOST_DONE over both.
ExitIsClean == ExitLosesNothing /\ HostDoneIsFinal

-----------------------------------------------------------------------------
(* Action properties. *)

\* COMPLETE is announced only when no buffer of that channel is outstanding, and
\* nothing is published on a channel after it.
CompleteIsLast ==
  [][\A c \in Chan :
       /\ complete'[c] # complete[c] => ~ready[c] /\ ~irq[c]
       /\ complete[c] => slot'[c] = slot[c] /\ complete'[c]]_vars

\* The handshake implements PcieChannel: a step of the registers, the threads
\* and the driver is a step of the promise, or changes nothing it speaks of.
Promise == INSTANCE PcieChannel WITH issued <- slot, closed <- complete

ImplementsPromise == Promise!Spec

-----------------------------------------------------------------------------
(* Liveness, of FairSpec. *)

\* The drain loop has missed the low of READY: the buffer published now is newer
\* than the one the thread has moved, and the thread takes it for the old one.
Missed(c) == pc[c] = "drain" /\ slot[c] > Len(moved[c])

\* Every published buffer is moved and its call on the device returns, unless the
\* host thread ended with an error or its drain loop missed the low of READY:
\* nothing else can make the two sides wait for each other.
EveryBufferServed ==
  \A c \in Chan : ready[c] ~> (~Blocked(c) \/ Missed(c) \/ pc[c] = "dead")

\* Once the device's main loop has quit, both programs run to their end, but for
\* those two cases and an ioctl that failed to set COMPLETE.
SessionEnds ==
  (app # "run") ~>
    \/ main = "end" /\ app = "closed"
    \/ \E c \in Chan : Missed(c) \/ pc[c] = "dead" \/ (app = "closed" /\ ~complete[c])
=============================================================================
