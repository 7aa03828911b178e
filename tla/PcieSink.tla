------------------------------ MODULE PcieSink ------------------------------
(***************************************************************************)
(* The output side of the device application (pcie_main.c).  The appsink's *)
(* streaming thread calls new_sample, which gathers the muxer's samples in *)
(* app->buf and hands a full buffer to the endpoint with pcie_write; the   *)
(* main loop's bus_message hands over the rest at the end of the stream.   *)
(* Both use buf and write_offset, and neither takes a lock.                *)
(*                                                                         *)
(* A byte is its position in the muxer's output; buf is the part of the    *)
(* array below write_offset.  What the endpoint accepts arrives at the     *)
(* host's file in order (PcieHandshake).                                   *)
(***************************************************************************)
EXTENDS Integers, Sequences

CONSTANTS
  WriteBufSize,  \* WRITE_BUF_SIZE
  SampleSizes,   \* sizes of the muxer's samples
  MaxBytes,      \* bound on the bytes of a run
  WriteFails     \* pcie_write may fail

ASSUME SinkAssumption ==
  /\ WriteBufSize \in Nat \ {0}
  /\ SampleSizes \subseteq 1 .. WriteBufSize
  /\ MaxBytes \in Nat
  /\ WriteFails \in BOOLEAN

VARIABLES
  pulled,   \* bytes of the samples pulled and copied so far
  size,     \* map.size of the sample in new_sample
  buf,      \* app->buf up to app->write_offset
  outfile,  \* what the endpoint has accepted
  failed,   \* a pcie_write has failed
  spc,      \* the streaming thread
  bus,      \* messages posted and not yet dispatched
  mpc,      \* the main thread
  cause     \* the message that quit the main loop

vars == <<pulled, size, buf, outfile, failed, spc, bus, mpc, cause>>

TypeOK ==
  /\ pulled \in Nat /\ size \in SampleSizes \cup {0}
  /\ buf \in Seq(Nat) /\ Len(buf) <= WriteBufSize
  /\ outfile \in Seq(Nat)
  /\ failed \in BOOLEAN
  /\ spc \in {"idle", "write", "copy", "eos", "stopped"}
  /\ bus \in Seq({"error", "eos"})
  /\ mpc \in {"loop", "flush", "null", "done"}
  /\ cause \in {"none", "error", "eos"}

Init ==
  /\ pulled = 0 /\ size = 0 /\ buf = << >> /\ outfile = << >> /\ failed = FALSE
  /\ spc = "idle" /\ bus = << >> /\ mpc = "loop" /\ cause = "none"

-----------------------------------------------------------------------------
\* Mutant of PcieWrite: write_offset is not reset.
PcieWrite_KeepOffset ==
  /\ buf' = buf
  /\ \/ outfile' = outfile \o buf /\ UNCHANGED failed
     \/ WriteFails /\ failed' = TRUE /\ UNCHANGED outfile

\* pcie_write and write_offset = 0: the result of the write is not looked at.
PcieWrite ==
  /\ buf' = << >>
  /\ \/ outfile' = outfile \o buf /\ UNCHANGED failed
     \/ WriteFails /\ failed' = TRUE /\ UNCHANGED outfile

\* new_sample: pull a sample; one that does not fit has the buffer written first.
NewSample(n) ==
  /\ spc = "idle" /\ mpc # "done" /\ pulled + n <= MaxBytes
  /\ size' = n
  /\ spc' = IF Len(buf) + n > WriteBufSize THEN "write" ELSE "copy"
  /\ UNCHANGED <<pulled, buf, outfile, failed, bus, mpc, cause>>

WriteFull ==
  /\ spc = "write"
  /\ PcieWrite
  /\ spc' = "copy"
  /\ UNCHANGED <<pulled, size, bus, mpc, cause>>

Bytes(from, n) == [i \in 1 .. n |-> from + i]

CopySample ==
  /\ spc = "copy"
  /\ buf' = buf \o Bytes(pulled, size)
  /\ pulled' = pulled + size
  /\ size' = 0 /\ spc' = "idle"
  /\ UNCHANGED <<outfile, failed, bus, mpc, cause>>

\* The end of the stream, at the file's end or at the user's request, passes
\* the appsink behind the last sample, which posts EOS.
EndOfStream ==
  /\ spc = "idle" /\ mpc # "done"
  /\ spc' = "eos"
  /\ bus' = Append(bus, "eos")
  /\ UNCHANGED <<pulled, size, buf, outfile, failed, mpc, cause>>

\* While the pipeline stops, pull-sample has no buffer to give: new_sample
\* returns GST_FLOW_EOS and the streaming thread leaves.
PullNothing ==
  /\ spc = "idle" /\ mpc = "null"
  /\ spc' = "eos"
  /\ UNCHANGED <<pulled, size, buf, outfile, failed, bus, mpc, cause>>

\* Any element may post an error, at any time.
PostError ==
  /\ mpc \in {"loop", "flush"} /\ "error" \notin {bus[i] : i \in DOMAIN bus}
  /\ bus' = Append(bus, "error")
  /\ UNCHANGED <<pulled, size, buf, outfile, failed, spc, mpc, cause>>

\* Mutant of BusError: an error flushes what is buffered, too.
BusError_Flush ==
  /\ mpc = "loop" /\ bus # << >> /\ Head(bus) = "error"
  /\ bus' = Tail(bus)
  /\ mpc' = IF buf # << >> THEN "flush" ELSE "null"
  /\ cause' = "error"
  /\ UNCHANGED <<pulled, size, buf, outfile, failed, spc>>

\* bus_message, ERROR: quit the loop, whatever is in the buffer.
BusError ==
  /\ mpc = "loop" /\ bus # << >> /\ Head(bus) = "error"
  /\ bus' = Tail(bus)
  /\ mpc' = "null" /\ cause' = "error"
  /\ UNCHANGED <<pulled, size, buf, outfile, failed, spc>>

\* Mutant of BusEos: the rest is only written when the buffer is full.
BusEos_WholeOnly ==
  /\ mpc = "loop" /\ bus # << >> /\ Head(bus) = "eos"
  /\ bus' = Tail(bus)
  /\ mpc' = IF Len(buf) = WriteBufSize THEN "flush" ELSE "null"
  /\ cause' = "eos"
  /\ UNCHANGED <<pulled, size, buf, outfile, failed, spc>>

\* Mutant of BusEos: the loop is only quit after something was written.
BusEos_Stay ==
  /\ mpc = "loop" /\ bus # << >> /\ Head(bus) = "eos"
  /\ bus' = Tail(bus)
  /\ mpc' = IF buf # << >> THEN "flush" ELSE "loop"
  /\ cause' = "eos"
  /\ UNCHANGED <<pulled, size, buf, outfile, failed, spc>>

\* bus_message, EOS: write what is buffered, then quit the loop.
BusEos ==
  /\ mpc = "loop" /\ bus # << >> /\ Head(bus) = "eos"
  /\ bus' = Tail(bus)
  /\ mpc' = IF buf # << >> THEN "flush" ELSE "null"
  /\ cause' = "eos"
  /\ UNCHANGED <<pulled, size, buf, outfile, failed, spc>>

Flush ==
  /\ mpc = "flush"
  /\ PcieWrite
  /\ mpc' = "null"
  /\ UNCHANGED <<pulled, size, spc, bus, cause>>

\* main, after the loop: the pipeline to NULL waits for the streaming thread to
\* leave new_sample; then both transfers are reported done.
PipelineNull ==
  /\ mpc = "null" /\ spc \in {"idle", "eos"}
  /\ mpc' = "done" /\ spc' = "stopped"
  /\ UNCHANGED <<pulled, size, buf, outfile, failed, bus, cause>>

Streaming ==
  \/ \E n \in SampleSizes : NewSample(n)
  \/ WriteFull \/ CopySample \/ EndOfStream \/ PullNothing
MainLoop  == BusError \/ BusEos \/ Flush \/ PipelineNull
Next      == Streaming \/ PostError \/ MainLoop

Spec == Init /\ [][Next]_vars

(* Streaming thread and main thread run; errors need not happen.              *)
FairSpec == Spec /\ WF_vars(Streaming) /\ WF_vars(MainLoop)

-----------------------------------------------------------------------------
\* What is written and what is buffered are together the muxer's output, byte
\* for byte, unless a write failed: a batch is never dropped, repeated or torn.
OutputInOrder == ~failed => outfile \o buf = Bytes(0, pulled)

\* The main loop's flush and the streaming thread's new_sample never use buf and
\* write_offset at the same time, although nothing locks them.
OneWriter == mpc = "flush" => spc = "eos"

\* Once the transfers are reported done after an EOS, the host has everything.
EosDeliversAll ==
  mpc = "done" /\ cause = "eos" /\ ~failed => outfile = Bytes(0, pulled)

\* The endpoint is never handed an empty buffer, which the host would be asked
\* to transfer.
NoEmptyWrite == spc = "write" \/ mpc = "flush" => buf # << >>

\* Every run ends with the transfers reported done.
SinkEnds == <>(mpc = "done")
=============================================================================
