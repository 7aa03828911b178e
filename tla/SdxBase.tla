------------------------------- MODULE SdxBase -------------------------------
(***************************************************************************)
(* The base class of the SDx elements, gstsdxbase.c: a FIFO of input       *)
(* frames, of which inputs_per_output are processed together and the       *)
(* oldest is then evicted; events that wait for the next output; and the   *)
(* references, copies and registrations of the frames on every path.       *)
(*                                                                         *)
(* What arrives at the sink pad is numbered, buffers and events alike; an  *)
(* output has the number of its newest input.  The streaming thread runs   *)
(* the whole chain, the properties are set by another thread between any   *)
(* two of its steps.  gst_base_transform_chain, which calls                *)
(* submit_input_buffer and then generate_output until nothing comes out,   *)
(* is external, as is what becomes of a pushed buffer.  Left out: the pool *)
(* of the copies, the allocation and latency queries, frame sizes, the     *)
(* memory of GstSdxFrame itself and what process_frames computes.          *)
(***************************************************************************)
EXTENDS Integers, Sequences, FiniteSets

CONSTANTS
  Inputs,       \* values of inputs_per_output, set by the subclass
  MaxItems,     \* bounds on what arrives, ...
  MaxFaults,    \* on the calls that fail ...
  MaxSwitches   \* and on the properties set

ASSUME SdxAssumption ==
  /\ Inputs \subseteq Nat \ {0}
  /\ MaxItems \in Nat /\ MaxFaults \in Nat /\ MaxSwitches \in Nat

VARIABLES
  mode, cma,    \* filter_mode, need_cma_input
  switches,
  ipo,          \* inputs_per_output
  n,            \* items arrived
  flow,         \* what upstream may still send: "ok", "stopped", "eos"
  pc,           \* the streaming thread
  cur, out,     \* in_frame, out_frame
  fifo,         \* input_frames
  pending,      \* pending_events, the newest first
  refs,         \* references to the input buffers that the element holds
  copies,       \* and to their copies
  outs,         \* and to the output buffers
  regs,         \* dmabufs registered
  down,         \* history: what went downstream since the last reset
  held,         \* history: the events since then that may have to wait
  taken,        \* history: frames queued since the FIFO was emptied
  faults,
  mishandled    \* history: inputs whose frame could not be mapped behind a copy

setup    == <<mode, cma, switches, ipo>>
arrival  == <<n, flow>>
chain    == <<pc, cur, out>>
queues   == <<fifo, taken>>
stream   == <<pending, down, held>>
memory   == <<refs, copies, outs, regs>>
vars == <<setup, arrival, chain, queues, stream, memory, faults, mishandled>>

Items == 1 .. MaxItems
Frame == [idx : Items, dma : BOOLEAN, copied : BOOLEAN, reg : BOOLEAN]
NoFrame == [idx |-> 0, dma |-> FALSE, copied |-> FALSE, reg |-> FALSE]

Handles == {"in", "out"} \X Items

TypeOK ==
  /\ mode \in {"SW", "HW"} /\ cma \in BOOLEAN /\ switches \in 0 .. MaxSwitches
  /\ ipo \in Inputs
  /\ n \in 0 .. MaxItems /\ flow \in {"ok", "stopped", "eos"}
  /\ pc \in {"idle", "new", "map", "register", "recover", "queue", "generate",
             "outmap", "outregister", "process", "deliver", "push"}
  /\ cur \in Frame \cup {NoFrame} /\ out \in Frame \cup {NoFrame}
  /\ fifo \in Seq(Frame) /\ taken \in Seq(Items)
  /\ pending \in Seq(Items) /\ down \in Seq(Items) /\ held \subseteq Items
  /\ refs \in [Items -> Int] /\ copies \in [Items -> Int] /\ outs \in [Items -> Int]
  /\ regs \subseteq Handles
  /\ faults \in 0 .. MaxFaults /\ mishandled \subseteq Items

\* gst_sdx_base_init; inputs_per_output is set by the init of the subclass.
Init ==
  /\ mode = "HW" /\ cma = TRUE /\ switches = 0
  /\ ipo \in Inputs
  /\ n = 0 /\ flow = "ok"
  /\ pc = "idle" /\ cur = NoFrame /\ out = NoFrame
  /\ fifo = << >> /\ taken = << >>
  /\ pending = << >> /\ down = << >> /\ held = {}
  /\ refs = [i \in Items |-> 0] /\ copies = [i \in Items |-> 0]
  /\ outs = [i \in Items |-> 0] /\ regs = {}
  /\ faults = 0 /\ mishandled = {}

-----------------------------------------------------------------------------
(* Frames and references. *)

Add(f, i, k) == [f EXCEPT ![i] = @ + k]

Fault == faults < MaxFaults /\ faults' = faults + 1

Hardware == mode = "HW"

\* The registrations left when those of h are given back, which is done in
\* hardware mode only.
Unregistered(h) == IF Hardware THEN regs \ h ELSE regs

InHandles(F) == {<<"in", f.idx>> : f \in {g \in F : g.reg}}

\* gst_sdx_base_frame_release for the input frames F
Release(F) ==
  /\ refs'   = [i \in Items |->
                  refs[i] - Cardinality({f \in F : f.idx = i /\ ~f.copied})]
  /\ copies' = [i \in Items |->
                  copies[i] - Cardinality({f \in F : f.idx = i /\ f.copied})]

Frames == {fifo[k] : k \in DOMAIN fifo}

\* gst_sdx_base_release_input_frame_all, but for the registrations
ReleaseAll ==
  /\ Release(Frames)
  /\ fifo' = << >>

\* Mutant: in the order of the list.
PendingInOrder_AsListed == pending

\* gst_sdx_base_push_pending_events goes through the list from its last element.
PendingInOrder == [k \in 1 .. Len(pending) |-> pending[Len(pending) + 1 - k]]

-----------------------------------------------------------------------------
(* submit_input_buffer *)

Arrives == pc = "idle" /\ flow = "ok" /\ n < MaxItems /\ n' = n + 1

\* A buffer the parent class drops or refuses, or that lies outside the segment.
Dropped ==
  /\ Arrives
  /\ flow' \in {"ok", "stopped"}
  /\ UNCHANGED <<setup, chain, queues, stream, memory, faults, mishandled>>

Submit ==
  /\ Arrives
  /\ \E dma \in BOOLEAN : cur' = [NoFrame EXCEPT !.idx = n + 1, !.dma = dma]
  /\ refs' = Add(refs, n + 1, 1)
  /\ pc' = "new"
  /\ UNCHANGED <<setup, flow, out, queues, stream, copies, outs, regs, faults,
                 mishandled>>

\* gst_sdx_base_new_frame has returned NULL: the element drops its reference to
\* the buffer it was given and posts an error.
SubmitFails ==
  /\ refs' = Add(refs, cur.idx, -1)
  /\ pc' = "idle" /\ cur' = NoFrame
  /\ flow' = "stopped"
  /\ UNCHANGED <<setup, n, out, queues, stream, copies, outs, regs>>

\* The frame goes on with a copy, which is never registered.
CopyInput ==
  /\ cur' = [cur EXCEPT !.copied = TRUE]
  /\ copies' = Add(copies, cur.idx, 1)
  /\ refs' = Add(refs, cur.idx, -1)
  /\ pc' = "map"
  /\ UNCHANGED <<setup, arrival, out, queues, stream, outs, regs>>

\* Memory the accelerator cannot use is copied.
NewFrame ==
  /\ pc = "new"
  /\ \/ /\ ~(Hardware /\ cma /\ ~cur.dma)
        /\ pc' = "map"
        /\ UNCHANGED <<setup, arrival, cur, out, queues, stream, memory, faults>>
     \/ Hardware /\ cma /\ ~cur.dma /\ CopyInput /\ UNCHANGED faults
     \/ Hardware /\ cma /\ ~cur.dma /\ SubmitFails /\ Fault
  /\ UNCHANGED mishandled

\* Behind a copy a failure drops a reference that is gone, and keeps the copy.
MapInput ==
  /\ pc = "map"
  /\ \/ /\ pc' = IF cur.copied THEN "queue" ELSE "register"
        /\ UNCHANGED <<setup, arrival, cur, out, queues, stream, memory, faults,
                       mishandled>>
     \/ /\ SubmitFails /\ Fault
        /\ mishandled' = IF cur.copied THEN mishandled \cup {cur.idx} ELSE mishandled

\* gst_sdx_base_register_frame
RegisterInput ==
  /\ pc = "register"
  /\ \/ /\ ~(Hardware /\ cur.dma)
        /\ pc' = "queue" /\ UNCHANGED <<cur, regs, faults>>
     \/ /\ Hardware /\ cur.dma
        /\ pc' = "queue" /\ cur' = [cur EXCEPT !.reg = TRUE]
        /\ regs' = regs \cup {<<"in", cur.idx>>}
        /\ UNCHANGED faults
     \/ /\ Hardware /\ cur.dma
        /\ pc' = "recover" /\ Fault /\ UNCHANGED <<cur, regs>>
  /\ UNCHANGED <<setup, arrival, out, queues, stream, refs, copies, outs, mishandled>>

\* Mutant: the original is kept beside the copy.
Recover_KeepsBuffer ==
  /\ pc = "recover"
  /\ \/ /\ Hardware /\ cma /\ UNCHANGED faults
        /\ cur' = [cur EXCEPT !.copied = TRUE]
        /\ copies' = Add(copies, cur.idx, 1)
        /\ pc' = "map"
        /\ UNCHANGED <<setup, arrival, out, queues, stream, refs, outs, regs>>
     \/ Hardware /\ cma /\ SubmitFails /\ Fault
     \/ ~(Hardware /\ cma) /\ SubmitFails /\ UNCHANGED faults
  /\ UNCHANGED mishandled

\* What cannot be registered is copied, if it may be: "retry".
Recover ==
  /\ pc = "recover"
  /\ \/ Hardware /\ cma /\ CopyInput /\ UNCHANGED faults
     \/ Hardware /\ cma /\ SubmitFails /\ Fault
     \/ ~(Hardware /\ cma) /\ SubmitFails /\ UNCHANGED faults
  /\ UNCHANGED mishandled

QueueFrame ==
  /\ pc = "queue"
  /\ fifo' = Append(fifo, cur) /\ taken' = Append(taken, cur.idx)
  /\ cur' = NoFrame
  /\ pc' = "generate"
  /\ UNCHANGED <<setup, arrival, out, stream, memory, faults, mishandled>>

-----------------------------------------------------------------------------
(* generate_output *)

TooFew ==
  /\ pc = "generate" /\ Len(fifo) < ipo
  /\ pc' = "idle"
  /\ UNCHANGED <<setup, arrival, cur, out, queues, stream, memory, faults, mishandled>>

\* Every failure of generate_output empties the FIFO and posts an error.
GenerateFails ==
  /\ ReleaseAll /\ taken' = << >>
  /\ pc' = "idle" /\ out' = NoFrame
  /\ flow' = "stopped"
  /\ Fault
  /\ UNCHANGED <<setup, n, cur, stream, mishandled>>

\* prepare_output_buffer
CreateOutput ==
  /\ pc = "generate" /\ Len(fifo) >= ipo
  /\ \/ /\ \E dma \in BOOLEAN :
             out' = [NoFrame EXCEPT !.idx = fifo[Len(fifo)].idx, !.dma = dma]
        /\ outs' = Add(outs, fifo[Len(fifo)].idx, 1)
        /\ pc' = "outmap"
        /\ UNCHANGED <<setup, arrival, cur, queues, stream, refs, copies, regs, faults,
                       mishandled>>
     \/ /\ GenerateFails
        /\ regs' = Unregistered(InHandles(Frames))
        /\ UNCHANGED outs

\* gst_sdx_base_create_output_frame without a frame for its buffer
OutputLost ==
  /\ GenerateFails
  /\ outs' = Add(outs, out.idx, -1)
  /\ regs' = Unregistered(InHandles(Frames))

MapOutput ==
  /\ pc = "outmap"
  /\ \/ /\ pc' = "outregister"
        /\ UNCHANGED <<setup, arrival, cur, out, queues, stream, memory, faults,
                       mishandled>>
     \/ OutputLost

RegisterOutput ==
  /\ pc = "outregister"
  /\ \/ /\ pc' = "process"
        /\ IF Hardware /\ out.dma
             THEN /\ out' = [out EXCEPT !.reg = TRUE]
                  /\ regs' = regs \cup {<<"out", out.idx>>}
             ELSE UNCHANGED <<out, regs>>
        /\ UNCHANGED <<setup, arrival, cur, queues, stream, refs, copies, outs, faults,
                       mishandled>>
     \/ Hardware /\ out.dma /\ OutputLost

OutHandle == IF out.reg THEN {<<"out", out.idx>>} ELSE {}

ProcessFrames ==
  /\ pc = "process"
  /\ \/ /\ pc' = "deliver"
        /\ UNCHANGED <<setup, arrival, cur, out, queues, stream, memory, faults,
                       mishandled>>
     \/ /\ GenerateFails
        /\ outs' = Add(outs, out.idx, -1)
        /\ regs' = Unregistered(OutHandle \cup InHandles(Frames))

\* Mutant: all frames go, not only the oldest.
Deliver_Empties ==
  /\ pc = "deliver"
  /\ ReleaseAll /\ UNCHANGED taken
  /\ regs' = Unregistered(OutHandle \cup InHandles(Frames))
  /\ down' = down \o PendingInOrder /\ pending' = << >>
  /\ pc' = "push"
  /\ UNCHANGED <<setup, arrival, cur, out, held, outs, faults, mishandled>>

\* The output frame is given up for its buffer, the oldest input is evicted, and
\* the events that waited go first.
Deliver ==
  /\ pc = "deliver"
  /\ Release({Head(fifo)})
  /\ fifo' = Tail(fifo) /\ UNCHANGED taken
  /\ regs' = Unregistered(OutHandle \cup InHandles({Head(fifo)}))
  /\ down' = down \o PendingInOrder /\ pending' = << >>
  /\ pc' = "push"
  /\ UNCHANGED <<setup, arrival, cur, out, held, outs, faults, mishandled>>

\* gst_pad_push; the chain goes round, unless downstream is flushing.
Push ==
  /\ pc = "push"
  /\ outs' = Add(outs, out.idx, -1)
  /\ out' = NoFrame
  /\ \/ /\ down' = Append(down, out.idx)
        /\ pc' = "generate"
        /\ UNCHANGED <<flow, faults>>
     \/ /\ Fault
        /\ pc' = "idle" /\ flow' = "stopped"
        /\ UNCHANGED down
  /\ UNCHANGED <<setup, n, cur, queues, pending, held, refs, copies, regs, mishandled>>

-----------------------------------------------------------------------------
(* sink_event, and reset *)

\* A serialized event waits for the next output.
QueueEvent ==
  /\ Arrives
  /\ pending' = <<n + 1>> \o pending
  /\ held' = held \cup {n + 1}
  /\ UNCHANGED <<setup, flow, chain, queues, down, memory, faults, mishandled>>

\* CAPS and SEGMENT, or EOS, which comes after an error too: what waits is
\* pushed, the FIFO is emptied, and the event goes on.
PassEvent ==
  /\ pc = "idle" /\ flow # "eos" /\ n < MaxItems /\ n' = n + 1
  /\ \/ flow = "ok" /\ flow' = "ok"
     \/ flow' = "eos"
  /\ down' = Append(down \o PendingInOrder, n + 1)
  /\ pending' = << >>
  /\ ReleaseAll /\ taken' = << >>
  /\ regs' = Unregistered(InHandles(Frames))
  /\ UNCHANGED <<setup, chain, held, outs, faults, mishandled>>

\* gst_sdx_base_reset: FLUSH_STOP, or a way through READY.  Neither overlaps the
\* chain.
Reset ==
  /\ pc = "idle" /\ n < MaxItems /\ n' = n + 1
  /\ ReleaseAll /\ taken' = << >>
  /\ regs' = Unregistered(InHandles(Frames))
  /\ pending' = << >> /\ held' = {} /\ down' = << >>
  /\ flow' = "ok"
  /\ UNCHANGED <<setup, chain, outs, faults, mishandled>>

\* filter-mode and need-cma-input can be written at any time, without a lock.
SetProperty ==
  /\ switches < MaxSwitches /\ switches' = switches + 1
  /\ \/ mode' = (IF Hardware THEN "SW" ELSE "HW") /\ UNCHANGED cma
     \/ cma' = ~cma /\ UNCHANGED mode
  /\ UNCHANGED <<ipo, arrival, chain, queues, stream, memory, faults, mishandled>>

-----------------------------------------------------------------------------
SubmitInputBuffer ==
  Dropped \/ Submit \/ NewFrame \/ MapInput \/ RegisterInput \/ Recover \/ QueueFrame

GenerateOutput ==
  \/ TooFew \/ CreateOutput \/ MapOutput \/ RegisterOutput \/ ProcessFrames
  \/ Deliver \/ Push

SinkEvent == QueueEvent \/ PassEvent \/ Reset

Next == SubmitInputBuffer \/ GenerateOutput \/ SinkEvent \/ SetProperty

Spec == Init /\ [][Next]_vars

-----------------------------------------------------------------------------
(* Properties. *)

\* Downstream gets outputs and events in the order in which inputs and events
\* came, although the events wait, in a list kept newest first, for an output
\* that may not come; and of the events none is lost but by a reset.
InOrder ==
  /\ \A i, j \in DOMAIN down : i < j => down[i] < down[j]
  /\ \A e \in held : \/ \E k \in DOMAIN down : down[k] = e
                     \/ \E k \in DOMAIN pending : pending[k] = e

\* The frames in the FIFO are the last that were taken since it was emptied.
IsTail == \A k \in DOMAIN fifo : fifo[k].idx = taken[Len(taken) - Len(fifo) + k]

\* "This setters controls the size of the internal FIFO. As an example, if this
\* is set to 2, the process_frames() will be called as soon as two buffers have
\* arrived. It will then evict the older buffer, and call process_frames() again
\* with the second and the third buffer" (gst_sdx_base_set_inputs_per_output):
\* process_frames sees the last inputs_per_output frames, and from the first
\* time on every frame taken has its output.
Window ==
  /\ Len(fifo) <= Len(taken) /\ IsTail
  /\ pc = "process" => Len(fifo) = ipo /\ out.idx = taken[Len(taken)]
  /\ pc = "idle" =>
       /\ Len(fifo) = IF Len(taken) < ipo THEN Len(taken) ELSE ipo - 1
       /\ flow = "ok" =>
            \A k \in ipo .. Len(taken) : \E d \in DOMAIN down : down[d] = taken[k]

Holds(i, copied) == Cardinality({f \in Frames : f.idx = i /\ f.copied = copied})

\* When the chain has returned, on whatever path, the element holds the frames
\* of its FIFO and nothing else: no buffer is leaked, none given back twice, and
\* no dmabuf stays registered.  Excepted are a frame that could not be mapped
\* behind its copy, and registrations when the mode was changed.
Accounted ==
  pc = "idle" =>
    /\ \A i \in Items \ mishandled :
         refs[i] = Holds(i, FALSE) /\ copies[i] = Holds(i, TRUE)
    /\ \A i \in Items : outs[i] = 0
    /\ switches = 0 => regs = InHandles(Frames)

\* The types, and the account.
Consistent == TypeOK /\ Accounted
===============================================================================
