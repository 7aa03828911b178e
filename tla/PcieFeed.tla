------------------------------ MODULE PcieFeed ------------------------------
(***************************************************************************)
(* The input side of the device application (pcie_src.c): feed_data, run   *)
(* as an idle source of the main loop, reads the host's file chunk by      *)
(* chunk and pushes each chunk into an appsrc without copying it.  The     *)
(* appsrc's streaming thread asks for more (need-data, start_feed) and     *)
(* tells when it has enough (enough-data, stop_feed); a demuxer may seek   *)
(* (seek_data).  Files below 1 GB are kept whole in memory; for larger     *)
(* ones the memory is a ring, over buffers still travelling downstream.    *)
(*                                                                         *)
(* A byte is its position in the file, so a buffer is right when the       *)
(* memory it wraps holds the positions it claims.  The appsrc is external: *)
(* it emits need-data on an empty queue and then waits, emits enough-data  *)
(* before it queues a buffer onto a full queue, and refuses what is pushed *)
(* while it is flushing or at its end.  For a seek it stops its streaming  *)
(* thread, emits seek-data, and only then, without a lock it shares with   *)
(* the application, drops its queue and forgets that it was at its end.    *)
(***************************************************************************)
EXTENDS Naturals, Sequences, FiniteSetsExt

CONSTANTS
  FileLengths,  \* what pcie_get_file_length may say
  Chunk,        \* CHUNK_SIZE, also the appsrc's max-bytes
  Ring,         \* ONE_GB_SIZE
  IntMax,       \* largest int: pcie_read takes the offset as an int
  HoldMax,      \* bound on the buffers downstream holds on to
  SeekTargets,  \* where a demuxer may seek to
  MaxSeeks      \* bound on the seeks

ASSUME FeedAssumption ==
  /\ FileLengths \subseteq Nat \ {0} /\ Chunk \in Nat \ {0} /\ Ring \in Nat \ {0}
  /\ IntMax \in Nat /\ HoldMax \in Nat \ {0} /\ MaxSeeks \in Nat
  /\ SeekTargets \subseteq Nat

\* CHUNK_SIZE is 2^25, ONE_GB_SIZE 2^30 and the largest int 2^31 - 1: what is in
\* flight, and the gap at the end of the ring, leave room for one more chunk as
\* long as downstream holds no more than 28 buffers.
ASSUME RingAssumption ==
  /\ Ring <= IntMax + 1
  /\ (HoldMax + 4) * Chunk <= Ring + 1

VARIABLES
  length,    \* app->length
  roff,      \* app->read_offset
  ioff,      \* app->intOffset
  mem,       \* app->data
  fpos,      \* file position of the opened device
  sourceid,  \* app->sourceid # 0
  overtaken, \* history: stop_feed found no id although a source was attached
  idles,     \* idle sources attached to the main loop
  mpc,       \* the main loop's thread; it holds app->mutex unless "loop"
  eosFlag,   \* app->eos_flag: the user has sent an EOS event
  queue,     \* the appsrc's queue of buffers
  level,     \* bytes queued, as the appsrc counts them
  eosq,      \* end-of-stream has been signalled to the appsrc
  spc,       \* the appsrc's streaming thread
  pos,       \* history: end of the last buffer the streaming thread took
  held,      \* buffers taken downstream and not yet released
  seekpc,    \* how far a seek is, "none" when there is none
  lost,      \* history: since the last seek-data a chunk was pushed and thrown away
  seeks,     \* seeks so far
  quit       \* the main loop has quit

appVars == <<length, overtaken, roff, ioff, mem, fpos, sourceid, idles, mpc, eosFlag>>
srcVars == <<queue, level, eosq, spc, pos, held>>
seekVars == <<seekpc, lost, seeks>>
vars    == <<appVars, srcVars, seekVars, quit>>

TotalLen == Min({length, Ring})
Zero     == length      \* what g_malloc0 put there: no byte of the file

Buffers == [start : 0 .. TotalLen - 1, len : 1 .. Chunk, off : 0 .. length - 1]

TypeOK ==
  /\ roff \in 0 .. length /\ ioff \in 0 .. TotalLen
  /\ mem \in [0 .. TotalLen - 1 -> 0 .. length]
  /\ fpos \in 0 .. length
  /\ length \in FileLengths /\ overtaken \in BOOLEAN
  /\ sourceid \in BOOLEAN /\ idles \in 0 .. 1
  /\ mpc \in {"loop", "read", "push", "enough", "zero", "queue"}
  /\ eosFlag \in BOOLEAN /\ eosq \in BOOLEAN /\ quit \in BOOLEAN
  /\ queue \in Seq(Buffers) /\ held \in Seq(Buffers) /\ level \in Nat
  /\ spc \in {"create", "need", "assign", "wait", "eos"}
  /\ pos \in 0 .. length /\ seeks \in 0 .. MaxSeeks
  /\ seekpc \in {"none", "flushing", "parked", "emitted", "flushed"} /\ lost \in BOOLEAN

Init ==
  /\ length \in FileLengths /\ overtaken = FALSE
  /\ roff = 0 /\ ioff = 0 /\ fpos = 0
  /\ mem = [i \in 0 .. TotalLen - 1 |-> Zero]
  /\ sourceid = FALSE /\ idles = 0
  /\ mpc = "loop" /\ eosFlag = FALSE
  /\ queue = << >> /\ level = 0 /\ eosq = FALSE /\ spc = "create" /\ pos = 0 /\ held = << >>
  /\ seekpc = "none" /\ lost = FALSE /\ seeks = 0 /\ quit = FALSE

-----------------------------------------------------------------------------
(* feed_data, on the main loop's thread. *)

\* The chunk at read_offset: its length, and the place in memory it goes to.
ChunkLen == Min({Chunk, length - roff})
Dest(i)  == IF TotalLen < Ring THEN roff ELSE i

\* At the end of the file every call signals end-of-stream again, unless the
\* user's EOS event is already on its way.
FeedEos ==
  /\ mpc = "loop" /\ idles > 0 /\ ~quit
  /\ roff >= length
  /\ eosq' = (eosq \/ (~eosFlag /\ seekpc # "flushing"))
  /\ UNCHANGED <<appVars, queue, level, spc, pos, held, seekVars, quit>>

\* Otherwise lock the mutex and choose the place; in the ring a chunk that does
\* not fit behind the last one goes to the front.
FeedBegin ==
  /\ mpc = "loop" /\ idles > 0 /\ ~quit
  /\ roff < length
  /\ ioff' = IF TotalLen = Ring /\ ioff + ChunkLen > TotalLen THEN 0 ELSE ioff
  /\ mpc' = "read"
  /\ UNCHANGED <<length, overtaken, roff, mem, fpos, sourceid, idles, eosFlag, srcVars, seekVars, quit>>

\* pcie_read: lseek unless the offset is 0, then read.  The offset arrives as an
\* int; a negative one makes lseek fail, and feed_data ignores the result.
Offset    == roff % (2 * (IntMax + 1))
SeekFails == Offset > IntMax

PcieRead ==
  /\ mpc = "read"
  /\ IF SeekFails
     THEN UNCHANGED <<mem, fpos>>
     ELSE LET from == IF Offset # 0 THEN Offset ELSE fpos
              got  == Min({ChunkLen, length - from})
              d    == Dest(ioff)
          IN  /\ mem' = [i \in DOMAIN mem |->
                           IF i \in d .. d + got - 1 THEN from + (i - d) ELSE mem[i]]
              /\ fpos' = from + got
  /\ mpc' = "push"
  /\ UNCHANGED <<length, overtaken, roff, ioff, sourceid, idles, eosFlag, srcVars, seekVars, quit>>

\* push-buffer: the appsrc refuses it, or a full queue emits enough-data before
\* the buffer is queued.
Refused == seekpc = "flushing" \/ eosq

Push ==
  /\ mpc = "push" /\ ~Refused /\ level >= Chunk
  /\ mpc' = "enough"
  /\ UNCHANGED <<length, overtaken, roff, ioff, mem, fpos, sourceid, idles, eosFlag, srcVars, seekVars, quit>>

\* Mutant of StopFeed: the id is kept, as if the source were only paused.
StopFeed_KeepId ==
  /\ mpc = "enough"
  /\ idles' = IF sourceid THEN 0 ELSE idles
  /\ mpc' = "queue"
  /\ UNCHANGED <<length, overtaken, roff, ioff, mem, fpos, sourceid, eosFlag, srcVars, seekVars, quit>>

\* stop_feed: g_source_remove, then sourceid = 0, without a lock.
StopFeed ==
  /\ mpc = "enough"
  /\ IF sourceid THEN idles' = idles - 1 /\ mpc' = "zero" /\ UNCHANGED overtaken
                 ELSE mpc' = "queue" /\ overtaken' = (overtaken \/ idles > 0) /\ UNCHANGED idles
  /\ UNCHANGED <<length, roff, ioff, mem, fpos, sourceid, eosFlag, srcVars, seekVars, quit>>

StopFeedZero ==
  /\ mpc = "zero"
  /\ sourceid' = FALSE
  /\ mpc' = "queue"
  /\ UNCHANGED <<length, overtaken, roff, ioff, mem, fpos, idles, eosFlag, srcVars, seekVars, quit>>

\* The buffer is queued: at once when the queue was not full, else behind enough-data.
CanQueue == mpc = "queue" \/ (mpc = "push" /\ level < Chunk)

Queued ==
  /\ queue' = Append(queue, [start |-> Dest(ioff), len |-> ChunkLen, off |-> roff])
  /\ level' = level + ChunkLen

\* The offsets move on whether the buffer was queued or not, and the mutex is free.
MoveOn ==
  /\ roff' = roff + ChunkLen
  /\ ioff' = IF TotalLen = Ring THEN ioff + ChunkLen ELSE ioff
  /\ mpc' = "loop"

\* Mutant of Enqueue: the read offset always moves on by a whole chunk.
Enqueue_WholeChunk ==
  /\ CanQueue /\ ~Refused
  /\ Queued
  /\ roff' = roff + Chunk
  /\ ioff' = IF TotalLen = Ring THEN ioff + ChunkLen ELSE ioff
  /\ mpc' = "loop"
  /\ UNCHANGED <<length, overtaken, mem, fpos, sourceid, idles, eosFlag, eosq, spc, pos, held, seekVars, quit>>

\* Queued between seek-data and the flush behind it, the buffer is lost.
Enqueue ==
  /\ CanQueue /\ ~Refused
  /\ Queued /\ MoveOn
  /\ lost' = (lost \/ seekpc = "emitted")
  /\ UNCHANGED <<length, overtaken, mem, fpos, sourceid, idles, eosFlag, eosq, spc, pos, held, seekpc, seeks, quit>>

\* feed_data does not look at what push-buffer returned.
Drop ==
  /\ mpc \in {"push", "queue"} /\ Refused
  /\ MoveOn
  /\ lost' = TRUE
  /\ UNCHANGED <<length, overtaken, mem, fpos, sourceid, idles, eosFlag, srcVars, seekpc, seeks, quit>>

\* handle_keyboard 'q': an EOS event into the pipeline, which the appsrc obeys
\* before it looks at its queue, and eos_flag.
KeyboardQuit ==
  /\ mpc = "loop" /\ ~quit /\ ~eosFlag
  /\ eosFlag' = TRUE
  /\ UNCHANGED <<length, overtaken, roff, ioff, mem, fpos, sourceid, idles, mpc, srcVars, seekVars, quit>>

\* bus_message: the EOS has reached the sink behind the last buffer.
BusEos ==
  /\ mpc = "loop" /\ ~quit
  /\ spc = "eos" /\ held = << >>
  /\ quit' = TRUE
  /\ UNCHANGED <<appVars, srcVars, seekVars>>

-----------------------------------------------------------------------------
(* The appsrc's streaming thread; a seek stops it in create or in its wait. *)

\* Take the head of the queue when downstream has room for it.
Take ==
  /\ spc = "create" /\ seekpc = "none" /\ ~eosFlag
  /\ queue # << >> /\ Len(held) < HoldMax
  /\ held' = Append(held, Head(queue))
  /\ pos' = Head(queue).off + Head(queue).len
  /\ queue' = Tail(queue) /\ level' = level - Head(queue).len
  /\ UNCHANGED <<appVars, eosq, spc, seekVars, quit>>

\* Nothing queued: end the stream, or emit need-data.
TakeNothing ==
  /\ spc = "create" /\ seekpc = "none"
  /\ queue = << >> \/ eosFlag
  /\ spc' = IF eosFlag \/ eosq THEN "eos" ELSE "need"
  /\ UNCHANGED <<appVars, queue, level, eosq, pos, held, seekVars, quit>>

\* Mutant of StartFeed: every need-data adds a source.
StartFeed_Always ==
  /\ spc = "need"
  /\ spc' = "assign" /\ idles' = idles + 1
  /\ UNCHANGED <<length, overtaken, roff, ioff, mem, fpos, sourceid, mpc, eosFlag, queue, level, eosq, pos, held, seekVars, quit>>

\* start_feed: the test of sourceid and g_idle_add, then the assignment; the main
\* loop may already run the new source in between.
StartFeed ==
  /\ spc = "need"
  /\ IF sourceid THEN spc' = "wait" /\ UNCHANGED idles
                 ELSE spc' = "assign" /\ idles' = idles + 1
  /\ UNCHANGED <<length, overtaken, roff, ioff, mem, fpos, sourceid, mpc, eosFlag, queue, level, eosq, pos, held, seekVars, quit>>

StartFeedAssign ==
  /\ spc = "assign"
  /\ sourceid' = TRUE
  /\ spc' = "wait"
  /\ UNCHANGED <<length, overtaken, roff, ioff, mem, fpos, idles, mpc, eosFlag, queue, level, eosq, pos, held, seekVars, quit>>

\* The appsrc's condition variable.
Wake ==
  /\ spc = "wait" /\ seekpc = "none"
  /\ queue # << >> \/ eosq \/ eosFlag
  /\ spc' = "create"
  /\ UNCHANGED <<appVars, queue, level, eosq, pos, held, seekVars, quit>>

Release ==
  /\ held # << >>
  /\ held' = Tail(held)
  /\ UNCHANGED <<appVars, queue, level, eosq, spc, pos, seekVars, quit>>

-----------------------------------------------------------------------------
(* A flushing seek of a demuxer. *)

\* The appsrc is flushing, and what is downstream lets go of its buffers.
SeekBegin ==
  /\ seekpc = "none" /\ seeks < MaxSeeks
  /\ \E p \in SeekTargets : p <= length
  /\ spc # "eos" /\ ~eosFlag
  /\ seekpc' = "flushing" /\ seeks' = seeks + 1
  /\ UNCHANGED <<appVars, srcVars, lost, quit>>

\* The streaming thread has come to a stop; the appsrc takes buffers again.
SeekPark ==
  /\ seekpc = "flushing" /\ spc \in {"create", "wait"}
  /\ seekpc' = "parked"
  /\ UNCHANGED <<appVars, srcVars, lost, seeks, quit>>

\* Mutant of SeekData: the mutex is not taken, a feed_data in progress goes on.
SeekData_NoLock(p) ==
  /\ seekpc = "parked" /\ p <= length
  /\ roff' = p /\ pos' = p
  /\ lost' = FALSE /\ seekpc' = "emitted"
  /\ UNCHANGED <<length, overtaken, ioff, mem, fpos, sourceid, idles, mpc, eosFlag, queue, level, eosq, spc, held, seeks, quit>>

\* seek_data sets read_offset under the mutex; the ring's intOffset stays.
SeekData(p) ==
  /\ seekpc = "parked" /\ mpc = "loop" /\ p <= length
  /\ roff' = p /\ pos' = p
  /\ lost' = FALSE /\ seekpc' = "emitted"
  /\ UNCHANGED <<length, overtaken, ioff, mem, fpos, sourceid, idles, mpc, eosFlag, queue, level, eosq, spc, held, seeks, quit>>

\* Behind the callback the appsrc drops its queue,
SeekFlush ==
  /\ seekpc = "emitted"
  /\ queue' = << >> /\ level' = 0
  /\ seekpc' = "flushed"
  /\ UNCHANGED <<appVars, eosq, spc, pos, held, lost, seeks, quit>>

\* clears is_eos, and starts its thread again over a downstream that is empty.
SeekDone ==
  /\ seekpc = "flushed"
  /\ eosq' = FALSE /\ held' = << >>
  /\ spc' = "create" /\ seekpc' = "none"
  /\ UNCHANGED <<appVars, queue, level, pos, lost, seeks, quit>>

-----------------------------------------------------------------------------
MainLoop ==
  \/ FeedEos \/ FeedBegin \/ PcieRead \/ Push \/ StopFeed \/ StopFeedZero \/ Enqueue \/ Drop
Streaming == Take \/ TakeNothing \/ StartFeed \/ StartFeedAssign \/ Wake
Seeking   == SeekPark \/ (\E p \in SeekTargets : SeekData(p)) \/ SeekFlush \/ SeekDone

Next == MainLoop \/ KeyboardQuit \/ BusEos \/ Streaming \/ Release \/ SeekBegin \/ Seeking

Spec == Init /\ [][Next]_vars

(* The threads run, a seek that was begun among them, downstream consumes, and a *)
(* posted EOS is dispatched; the user and the demuxer need do nothing.           *)
FairSpec ==
  /\ Spec
  /\ WF_vars(MainLoop) /\ WF_vars(Streaming) /\ WF_vars(Seeking)
  /\ WF_vars(Release) /\ WF_vars(BusEos)

-----------------------------------------------------------------------------
\* The memory a buffer wraps holds the bytes of the file it stands for; past the
\* largest int the seek of pcie_read fails, and what is pushed is what was there.
Intact(b) == b.off <= IntMax => \A i \in 0 .. b.len - 1 : mem[b.start + i] = b.off + i

\* No chunk is overwritten while the appsrc or an element downstream still
\* refers to it, and every chunk is the slice of the file it claims to be; in the
\* ring, as long as enough-data was able to stop the feeding.  What a seek in
\* progress is about to throw away may go.
BuffersIntact ==
  seekpc = "none" /\ (~overtaken \/ TotalLen < Ring) =>
    /\ \A i \in DOMAIN queue : Intact(queue[i])
    /\ \A i \in DOMAIN held : Intact(held[i])

\* The queue is one piece of the file and ends at read_offset.
QueueContiguous ==
  /\ \A i \in DOMAIN queue : i > 1 => queue[i].off = queue[i-1].off + queue[i-1].len
  /\ queue # << >> =>
       /\ queue[1].off + level = roff
       /\ queue[Len(queue)].off + queue[Len(queue)].len = roff

\* What has been taken, or where the seek wanted to go, joins the queue.
Joined == pos + level = roff /\ (queue # << >> => queue[1].off = pos)

\* The idle source exists at most once: start_feed and stop_feed share sourceid
\* without a lock, from two threads.
OneFeeder == idles <= 1

\* enough-data stops the feeding: behind a full queue comes the buffer whose push
\* found it full, and one more when a need-data was already on its way.  Only when
\* the main loop overtakes start_feed before it has stored the id is there more.
EnoughIsEnough == level <= 3 * Chunk \/ overtaken

\* The state the two threads share without a lock stays consistent.
Consistent == TypeOK /\ OneFeeder /\ EnoughIsEnough

\* Between two seeks what is queued is the file without a gap or a repetition up to
\* read_offset, and it goes on where the stream stands, or where the seek wanted it
\* to; an end of stream that the user did not ask for comes after the whole file.
\* A chunk pushed after seek_data and before the appsrc has flushed and cleared its
\* end is lost while read_offset has moved on: behind such a seek the stream starts
\* too late, and has no other gap.
StreamIsFile ==
  seekpc = "none" =>
    /\ QueueContiguous
    /\ ~lost \/ held # << >> => Joined
    /\ spc = "eos" /\ ~eosFlag /\ ~lost => pos = length

\* The stream ends: no need-data is lost between start_feed and stop_feed.
StreamEnds == <>quit
=============================================================================
