---------------------------- MODULE PcieFeedProofs ----------------------------
(***************************************************************************)
(* PcieFeed for every length of the file, every size of the chunks and of  *)
(* the ring, and any number of seeks: what is pushed is the file, and      *)
(* nothing of it is overwritten while it travels.                          *)
(*                                                                         *)
(* Feeder: sourceid and the idle source agree but where one of the two     *)
(* threads is between its two assignments.  Crowd: how full the queue can  *)
(* still get before the next need-data, at each place of feed_data.        *)
(* Between seek-data and the flush read_offset has moved and the queue has *)
(* not: there only the bytes count, Spare.                                 *)
(* Stream: the queue and what downstream holds are one piece of the file,  *)
(* which ends at read_offset, in whole chunks unless the file ends.        *)
(* Join: that piece begins where it should unless a chunk was lost.        *)
(* Live: what a seek in progress will not throw away.                      *)
(* Places: a buffer lies in the ring as far behind intOffset as it lies    *)
(* behind read_offset in the file, or on the lap before: then it is nearly *)
(* a whole ring further, and Crowd keeps the next chunk below it.          *)
(***************************************************************************)
EXTENDS PcieFeed, SequenceTheorems, TLAPS

\* feed_data has found a chunk to read.
Busy == {"read", "push", "enough", "zero", "queue"}

Feeder ==
  /\ spc = "assign" => ~sourceid /\ idles = 1
  /\ mpc = "zero" => sourceid /\ idles = 0
  /\ spc # "assign" /\ mpc # "zero" => (idles = 1 <=> sourceid)
  /\ mpc \in {"read", "push", "enough"} => idles = 1
  /\ mpc \in Busy => roff < length
  /\ seekpc # "none" => spc # "eos"
  /\ seekpc \in {"parked", "emitted", "flushed"} => spc \in {"create", "wait"}

\* The queue as it will be when the main loop next comes to a stop.
Fed == IF Len(queue) = 0 THEN 2 ELSE Len(queue) + 1
Most ==
  CASE mpc = "loop"             -> IF idles = 0 THEN Len(queue) ELSE Fed
    [] mpc \in {"read", "push"} -> Fed
    [] mpc = "queue"            -> Len(queue) + 1 + idles
    [] OTHER                    -> Len(queue) + 1

Spare ==
  /\ level <= 3 * Chunk
  /\ idles = 1 \/ mpc # "loop" => level <= 2 * Chunk
  /\ mpc = "queue" => idles = 0

Crowd == ~overtaken =>
  IF seekpc = "emitted" THEN Spare ELSE Most <= 3 /\ (spc = "need" => Most <= 2)

Fill == seekpc # "emitted" =>
  level <= Len(queue) * Chunk /\ (roff < length => level = Len(queue) * Chunk)

Whole(b) == b.len = Chunk \/ b.off + b.len = length

\* The queue will not be thrown away.
Settled == seekpc \in {"none", "flushed"}

Stream == Settled =>
  /\ QueueContiguous
  /\ \A i \in DOMAIN queue : Whole(queue[i]) /\ queue[i].off + queue[i].len <= roff

Join ==
  /\ Settled /\ ~lost => Joined
  /\ seekpc = "none" /\ held # << >> => Joined
  /\ seekpc = "emitted" /\ ~lost => pos = roff

Travelling == seekpc = "none" =>
  /\ Len(held) <= HoldMax
  /\ \A i \in DOMAIN held : /\ held[i].off + held[i].len <= pos
                            /\ pos - held[i].off <= (Len(held) + 1 - i) * Chunk

Ends ==
  /\ eosq => roff = length \/ seekpc = "emitted" \/ (seekpc = "flushed" /\ queue = << >>)
  /\ spc = "eos" /\ ~eosFlag /\ ~lost => pos = length

\* What the appsrc or an element downstream still refers to.
Live == (IF Settled THEN {queue[i] : i \in DOMAIN queue} ELSE {})
        \cup (IF seekpc = "none" THEN {held[i] : i \in DOMAIN held} ELSE {})

Current == [start |-> Dest(ioff), len |-> ChunkLen, off |-> roff]

Lap(b) ==
  /\ b.start + b.len <= TotalLen
  /\ TotalLen < Ring => b.start = b.off
  /\ TotalLen = Ring =>
       \/ b.start = ioff - (roff - b.off)
       \/ b.start > Ring - Chunk + ioff - (roff - b.off)

Places ==
  /\ \A b \in Live : Lap(b)
  /\ mpc \in Busy => Dest(ioff) + ChunkLen <= TotalLen

Memory ==
  /\ roff = 0 /\ mpc \in {"loop", "read"} => fpos = 0
  /\ mpc \in Busy \ {"read"} => Intact(Current)
  /\ ~overtaken \/ TotalLen < Ring => \A b \in Live : Intact(b)

Inv ==
  TypeOK /\ Feeder /\ Crowd /\ Fill /\ Stream /\ Join /\ Travelling /\ Ends /\ Places

-----------------------------------------------------------------------------
(* Numbers and sequences. *)

LEMMA MinOfTwo ==
  ASSUME NEW a \in Nat, NEW b \in Nat
  PROVE  Min({a, b}) = IF a <= b THEN a ELSE b
<1>1. \A x \in {a, b} : (\A y \in {a, b} : x <= y) => x = IF a <= b THEN a ELSE b
  OBVIOUS
<1>2. \E x \in {a, b} : \A y \in {a, b} : x <= y
  OBVIOUS
<1> QED  BY <1>1, <1>2 DEF Min

LEMMA Sizes ==
  ASSUME TypeOK
  PROVE  /\ length \in Nat \ {0} /\ TotalLen \in 1 .. length /\ TotalLen <= Ring
         /\ TotalLen < Ring => TotalLen = length
         /\ roff < length => /\ ChunkLen \in 1 .. Chunk /\ roff + ChunkLen <= length
                             /\ ChunkLen = Chunk \/ roff + ChunkLen = length
<1>1. length \in Nat \ {0} /\ roff \in Nat /\ roff <= length
  BY FeedAssumption DEF TypeOK
<1>2. TotalLen = IF length <= Ring THEN length ELSE Ring
  BY <1>1, MinOfTwo, FeedAssumption DEF TotalLen
<1>3. length - roff \in Nat /\ ChunkLen = IF Chunk <= length - roff THEN Chunk ELSE length - roff
  BY <1>1, MinOfTwo, FeedAssumption DEF ChunkLen
<1> QED  BY <1>1, <1>2, <1>3, FeedAssumption

LEMMA Chunks ==
  ASSUME NEW n \in Nat, NEW k \in Nat, n <= k
  PROVE  n * Chunk <= k * Chunk /\ n * Chunk \in Nat /\ k * Chunk \in Nat
<1>1. Chunk \in Nat /\ k - n \in Nat /\ k = n + (k - n)
  BY FeedAssumption
<1>2. \A d \in Nat : (n + d) * Chunk = n * Chunk + d * Chunk /\ n * Chunk \in Nat /\ d * Chunk \in Nat
  BY <1>1
<1>3. k * Chunk = n * Chunk + (k - n) * Chunk /\ n * Chunk \in Nat /\ (k - n) * Chunk \in Nat
  BY <1>1, <1>2
<1> QED
  <2> DEFINE a == n * Chunk
             b == (k - n) * Chunk
             c == k * Chunk
  <2>1. c = a + b /\ a \in Nat /\ b \in Nat
    BY <1>3
  <2> HIDE DEF a, b, c
  <2>2. a <= c /\ a \in Nat /\ c \in Nat
    BY <2>1
  <2> QED  BY <2>2 DEF a, c

LEMMA Elements ==
  ASSUME NEW S, NEW s \in Seq(S)
  PROVE  Len(s) \in Nat /\ DOMAIN s = 1 .. Len(s) /\ \A i \in DOMAIN s : s[i] \in S
BY LenProperties

LEMMA Tails ==
  ASSUME NEW S, NEW s \in Seq(S), s # << >>
  PROVE  /\ Len(s) \in Nat \ {0} /\ Head(s) = s[1] /\ Head(s) \in S /\ Tail(s) \in Seq(S)
         /\ Len(Tail(s)) = Len(s) - 1 /\ DOMAIN Tail(s) = 1 .. Len(s) - 1
         /\ \A i \in 1 .. Len(s) - 1 : Tail(s)[i] = s[i + 1]
<1>1. Len(s) \in Nat \ {0}
  BY EmptySeq
<1>2. /\ Head(s) \in S /\ Tail(s) \in Seq(S) /\ Len(Tail(s)) = Len(s) - 1
      /\ \A i \in 1 .. Len(Tail(s)) : Tail(s)[i] = s[i + 1]
  BY HeadTailProperties
<1>3. DOMAIN Tail(s) = 1 .. Len(Tail(s))
  BY <1>2, LenProperties
<1> QED  BY <1>1, <1>2, <1>3

LEMMA Appends ==
  ASSUME NEW S, NEW s \in Seq(S), NEW e \in S
  PROVE  /\ Append(s, e) \in Seq(S) /\ Len(s) \in Nat /\ Len(Append(s, e)) = Len(s) + 1
         /\ DOMAIN Append(s, e) = 1 .. Len(s) + 1 /\ Append(s, e)[Len(s) + 1] = e
         /\ \A i \in 1 .. Len(s) : Append(s, e)[i] = s[i]
BY AppendProperties, LenProperties

-----------------------------------------------------------------------------
(* The idle source, and how full the queue gets. *)

LEMMA FeederStep == Inv /\ [Next]_vars => Feeder'
<1> SUFFICES ASSUME Inv, [Next]_vars
             PROVE  Feeder'
  OBVIOUS
<1> USE DEF Inv, Feeder, Busy
<1>1. CASE Enqueue
  BY <1>1 DEF Enqueue, CanQueue, MoveOn, seekVars
<1>2. CASE Drop
  BY <1>2 DEF Drop, MoveOn, srcVars
<1>3. CASE StopFeed
  BY <1>3 DEF StopFeed, srcVars, seekVars
<1>4. CASE StartFeed
  BY <1>4 DEF StartFeed, TypeOK, seekVars
<1>5. CASE FeedEos \/ FeedBegin \/ PcieRead \/ Push \/ StopFeedZero
  BY <1>5 DEF FeedEos, FeedBegin, PcieRead, Push, StopFeedZero, srcVars, appVars, seekVars, TypeOK
<1>6. CASE KeyboardQuit \/ BusEos \/ Take \/ TakeNothing \/ StartFeedAssign \/ Wake \/ Release
  BY <1>6 DEF KeyboardQuit, BusEos, Take, TakeNothing, StartFeedAssign, Wake, Release, srcVars,
              appVars, seekVars
<1>7. CASE SeekBegin \/ SeekPark \/ (\E p \in SeekTargets : SeekData(p)) \/ SeekFlush \/ SeekDone
  BY <1>7 DEF SeekBegin, SeekPark, SeekData, SeekFlush, SeekDone, srcVars, appVars
<1>8. CASE UNCHANGED vars
  BY <1>8 DEF vars, srcVars, appVars, seekVars
<1> QED  BY <1>1, <1>2, <1>3, <1>4, <1>5, <1>6, <1>7, <1>8 DEF Next, MainLoop, Streaming, Seeking

LEMMA CrowdStep == Inv /\ [Next]_vars => Crowd'
<1> SUFFICES ASSUME Inv, [Next]_vars, ~overtaken'
             PROVE  IF seekpc' = "emitted" THEN Spare'
                    ELSE Most' <= 3 /\ (spc' = "need" => Most' <= 2)
  BY DEF Crowd
<1>1. /\ Len(queue) \in Nat /\ idles \in {0, 1} /\ level \in Nat /\ Chunk \in Nat \ {0}
      /\ mpc \in Busy \cup {"loop"}
  BY Elements, FeedAssumption DEF Inv, TypeOK, Busy
<1>2. ~overtaken
  BY DEF Next, vars, appVars, MainLoop, Streaming, Seeking, FeedEos, FeedBegin, PcieRead, Push,
         StopFeed, StopFeedZero, Enqueue, Drop, KeyboardQuit, BusEos, Take, TakeNothing, StartFeed,
         StartFeedAssign, Wake, Release, SeekBegin, SeekPark, SeekData, SeekFlush, SeekDone
<1>3. IF seekpc = "emitted" THEN Spare ELSE Most <= 3 /\ (spc = "need" => Most <= 2)
  BY <1>2 DEF Inv, Crowd
<1> USE <1>1, <1>3 DEF Most, Fed
<1>4. CASE Enqueue
  <2>1. Len(queue') = Len(queue) + 1
    <3>1. \A b : Len(Append(queue, b)) = Len(queue) + 1
      BY DEF Inv, TypeOK
    <3> QED  BY <1>4, <3>1 DEF Enqueue, Queued
  <2>2. /\ mpc = "queue" \/ (mpc = "push" /\ level < Chunk)
        /\ UNCHANGED <<spc, idles, seekpc>> /\ level' = level + ChunkLen
    BY <1>4 DEF Enqueue, CanQueue, Queued, MoveOn
  <2>3. mpc \in Busy /\ mpc' = "loop" /\ roff < length /\ (mpc = "push" => idles = 1)
    BY <1>4, <2>2 DEF Enqueue, MoveOn, Inv, Feeder, Busy
  <2>4. ChunkLen \in Nat /\ ChunkLen <= Chunk
    BY <2>3, Sizes DEF Inv
  <2>5. CASE seekpc = "emitted"
    BY <2>2, <2>3, <2>4, <2>5 DEF Spare
  <2>6. CASE seekpc # "emitted"
    <3>1. level = Len(queue) * Chunk
      BY <2>3, <2>6 DEF Inv, Fill
    <3>2. mpc = "push" => Len(queue) = 0
      BY <2>2, <3>1
    <3> QED  BY <2>1, <2>2, <2>3, <2>6, <3>2
  <2> QED  BY <2>5, <2>6
<1>5. CASE Drop
  BY <1>5 DEF Drop, MoveOn, srcVars, Spare, Inv, Feeder
<1>6. CASE Push
  <2>1. mpc = "push" /\ mpc' = "enough" /\ level >= Chunk /\ UNCHANGED <<queue, level, spc, idles, seekpc>>
    BY <1>6 DEF Push, srcVars, seekVars
  <2>2. CASE seekpc = "emitted"
    BY <2>1, <2>2 DEF Spare
  <2>3. CASE seekpc # "emitted"
    <3>1. level = Len(queue) * Chunk
      BY <2>1, <2>3 DEF Inv, Fill, Feeder, Busy
    <3>2. Len(queue) >= 1
      BY <2>1, <3>1
    <3> QED  BY <2>1, <2>3, <3>2
  <2> QED  BY <2>2, <2>3
<1>7. CASE StopFeed
  <2>1. mpc = "enough" /\ UNCHANGED <<queue, level, spc, seekpc>> /\ idles = 1
    BY <1>7 DEF StopFeed, srcVars, seekVars, Inv, Feeder
  <2>2. sourceid
    <3>1. idles > 0
      BY <2>1
    <3>2. ~sourceid => overtaken'
      BY <1>7, <3>1, Zenon DEF StopFeed
    <3> QED  BY <3>2
  <2>3. mpc' = "zero"
    BY <1>7, <2>2 DEF StopFeed
  <2> QED  BY <2>1, <2>3 DEF Spare
<1>8. CASE StartFeed
  <2>1. /\ spc = "need" /\ spc' # "need" /\ UNCHANGED <<queue, mpc, seekpc>>
        /\ (sourceid /\ idles' = idles) \/ (~sourceid /\ idles' = idles + 1)
    BY <1>8 DEF StartFeed, seekVars
  <2>2. seekpc # "emitted"
    BY <2>1 DEF Inv, Feeder
  <2>3. ~sourceid => idles = 0 /\ mpc \in {"loop", "queue"}
    BY <2>1 DEF Inv, Feeder, Busy
  <2>4. CASE sourceid
    BY <2>1, <2>2, <2>4
  <2>5. CASE ~sourceid
    BY <2>1, <2>2, <2>3, <2>5
  <2> QED  BY <2>4, <2>5
<1>9. CASE Take
  <2>1. Len(queue') = Len(queue) - 1 /\ Len(queue) # 0
    BY <1>9, Tails DEF Take, Inv, TypeOK
  <2> QED  BY <1>9, <2>1 DEF Take, appVars, seekVars, Inv, TypeOK
<1>10. CASE TakeNothing
  <2>1. /\ UNCHANGED <<queue, mpc, idles, seekpc>> /\ seekpc # "emitted"
        /\ spc' = "need" => queue = << >>
    BY <1>10 DEF TakeNothing, appVars, seekVars
  <2>2. Most' = Most /\ (queue = << >> => Len(queue) = 0)
    BY <2>1
  <2>3. Len(queue) = 0 => Most <= 2
    OBVIOUS
  <2> QED  BY <2>1, <2>2, <2>3
<1>11. CASE \E p \in SeekTargets : SeekData(p)
  <2>1. /\ seekpc = "parked" /\ mpc = "loop" /\ seekpc' = "emitted"
        /\ UNCHANGED <<queue, level, mpc, idles>>
    BY <1>11 DEF SeekData
  <2>2. level <= Len(queue) * Chunk
    BY <2>1 DEF Inv, Fill
  <2>3. Len(queue) <= 3 /\ (idles = 1 => Len(queue) <= 2)
    BY <2>1
  <2> DEFINE m == Len(queue) * Chunk
  <2>4. m \in Nat /\ m <= 3 * Chunk /\ (idles = 1 => m <= 2 * Chunk)
    BY <2>3, Chunks
  <2>5. level <= m
    BY <2>2
  <2> HIDE DEF m
  <2>6. level <= 3 * Chunk /\ (idles = 1 => level <= 2 * Chunk)
    BY <2>4, <2>5
  <2> QED  BY <2>1, <2>6 DEF Spare
<1>12. CASE SeekFlush
  <2>1. /\ Len(queue') = 0 /\ spc' # "need" /\ seekpc' # "emitted"
        /\ UNCHANGED <<mpc, idles>> /\ (mpc = "queue" => idles = 0)
    BY <1>12 DEF SeekFlush, appVars, Inv, Feeder, Spare
  <2> QED  BY <2>1
<1>13. CASE SeekBegin \/ SeekPark \/ SeekDone
  BY <1>13 DEF SeekBegin, SeekPark, SeekDone, srcVars, appVars
<1>14. CASE FeedEos \/ FeedBegin \/ PcieRead \/ StopFeedZero
  BY <1>14 DEF FeedEos, FeedBegin, PcieRead, StopFeedZero, srcVars, appVars, seekVars, Inv, Feeder, Spare
<1>15. CASE KeyboardQuit \/ BusEos \/ StartFeedAssign \/ Wake \/ Release
  BY <1>15 DEF KeyboardQuit, BusEos, StartFeedAssign, Wake, Release, srcVars, appVars, seekVars, Spare
<1>16. CASE UNCHANGED vars
  BY <1>16 DEF vars, srcVars, appVars, seekVars, Spare
<1> QED  BY <1>4, <1>5, <1>6, <1>7, <1>8, <1>9, <1>10, <1>11, <1>12, <1>13, <1>14, <1>15, <1>16
            DEF Next, MainLoop, Streaming, Seeking

-----------------------------------------------------------------------------
(* The file. *)

\* A chunk is refused only where a seek is about to throw away the queue, or has
\* just done so.
LEMMA DropsInSeek ==
  ASSUME Inv, Drop
  PROVE  /\ roff < length /\ seekpc # "none" /\ (Settled => queue = << >>)
<1>1. mpc \in {"push", "queue"} /\ (seekpc = "flushing" \/ eosq)
  BY DEF Drop, Refused
<1>2. roff < length /\ roff \in Nat /\ length \in Nat
  BY <1>1, FeedAssumption DEF Inv, Feeder, Busy, TypeOK
<1>3. eosq => seekpc = "emitted" \/ (seekpc = "flushed" /\ queue = << >>)
  BY <1>2 DEF Inv, Ends
<1> QED  BY <1>1, <1>2, <1>3 DEF Settled

LEMMA ChunkIsBuffer ==
  ASSUME Inv, mpc \in Busy
  PROVE  Current \in Buffers /\ Whole(Current) /\ roff + ChunkLen <= length
<1>1. roff < length
  BY DEF Inv, Feeder
<1>2. ChunkLen \in 1 .. Chunk /\ roff + ChunkLen <= length
      /\ (ChunkLen = Chunk \/ roff + ChunkLen = length)
  BY <1>1, Sizes DEF Inv
<1>3. Dest(ioff) \in Nat /\ Dest(ioff) + ChunkLen <= TotalLen
  BY DEF Inv, Places, TypeOK, Dest
<1>4. TotalLen \in Nat /\ length \in Nat /\ roff \in Nat /\ Chunk \in Nat
  BY Sizes, FeedAssumption DEF Inv, TypeOK
<1>5. Dest(ioff) \in 0 .. TotalLen - 1 /\ roff \in 0 .. length - 1
  BY <1>1, <1>2, <1>3, <1>4
<1> QED  BY <1>2, <1>5 DEF Current, Buffers, Whole

LEMMA BufferFacts ==
  ASSUME TypeOK, NEW b \in Buffers
  PROVE  /\ b.start \in Nat /\ b.len \in Nat \ {0} /\ b.len <= Chunk /\ b.off \in Nat
         /\ b.off < length
BY Sizes, FeedAssumption DEF Buffers

LEMMA FillStep == Inv /\ [Next]_vars => Fill' /\ level' \in Nat
<1> SUFFICES ASSUME Inv, [Next]_vars
             PROVE  Fill' /\ level' \in Nat
  OBVIOUS
<1>1. /\ queue \in Seq(Buffers) /\ roff \in Nat /\ length \in Nat /\ level \in Nat
      /\ roff <= length /\ Chunk \in Nat \ {0} /\ Len(queue) \in Nat
  BY Elements, FeedAssumption DEF Inv, TypeOK
<1>2. CASE Enqueue
  <2>1. /\ Current \in Buffers /\ roff + ChunkLen <= length /\ mpc \in Busy /\ roff < length
        /\ ChunkLen \in Nat /\ ChunkLen <= Chunk /\ (ChunkLen = Chunk \/ roff + ChunkLen = length)
    BY <1>2, ChunkIsBuffer, Sizes DEF Enqueue, CanQueue, Busy, Inv, Feeder
  <2>2. /\ queue' = Append(queue, Current) /\ level' = level + ChunkLen /\ roff' = roff + ChunkLen
        /\ UNCHANGED <<length, seekpc>>
    BY <1>2 DEF Enqueue, Queued, MoveOn, Current
  <2>3. Len(queue') = Len(queue) + 1
    BY <1>1, <2>1, <2>2, Appends
  <2> DEFINE n == Len(queue)
             m == n * Chunk
  <2>4. m \in Nat /\ (n + 1) * Chunk = m + Chunk
    BY <1>1
  <2>5. seekpc # "emitted" => level = m
    BY <2>1 DEF Inv, Fill
  <2>6. Len(queue') * Chunk = m + Chunk
    BY <2>3, <2>4
  <2> HIDE DEF n, m
  <2>7. seekpc # "emitted" => level' <= m + Chunk /\ (roff' < length => level' = m + Chunk)
    BY <1>1, <2>1, <2>2, <2>4, <2>5
  <2> QED  BY <1>1, <2>1, <2>2, <2>6, <2>7 DEF Fill
<1>3. CASE Take
  <2> DEFINE n == Len(queue)
             h == Head(queue)
             m == n * Chunk
  <2>1. /\ queue # << >> /\ queue' = Tail(queue) /\ level' = level - h.len /\ seekpc = "none"
        /\ UNCHANGED <<roff, length, seekpc>>
    BY <1>3 DEF Take, appVars, seekVars
  <2>2. /\ n \in Nat \ {0} /\ h = queue[1] /\ h \in Buffers /\ Len(queue') = n - 1
        /\ 1 \in DOMAIN queue
    BY <1>1, <2>1, Tails, Elements
  <2> HIDE DEF h
  <2>3. /\ h.off + level = roff /\ Whole(h) /\ h.off + h.len <= roff
        /\ h.off \in Nat /\ h.len \in Nat /\ h.len <= Chunk
    BY <2>1, <2>2, BufferFacts DEF Inv, Stream, Settled, QueueContiguous
  <2>4. m \in Nat /\ (n - 1) * Chunk = m - Chunk
    BY <1>1, <2>2
  <2>5. level <= m /\ (roff < length => level = m)
    BY <2>1 DEF Inv, Fill
  <2>6. Len(queue') * Chunk = m - Chunk /\ (n - 1) * Chunk \in Nat
    <3>1. \A k \in Nat : k * Chunk \in Nat
      BY <1>1
    <3> QED  BY <2>2, <2>4, <3>1
  <2> HIDE DEF n, m
  <2> DEFINE o == h.off
             l == h.len
  <2>7. /\ level' = level - l /\ o + level = roff /\ o + l <= roff /\ o \in Nat /\ l \in Nat
        /\ l <= Chunk /\ (l = Chunk \/ o + l = length)
    BY <2>1, <2>3 DEF Whole
  <2> HIDE DEF o, l
  <2>8. level' \in Nat /\ (l = Chunk \/ (roff = length /\ level' = 0))
    BY <1>1, <2>7
  <2>9. level' <= m - Chunk /\ (roff < length => level' = m - Chunk)
    BY <1>1, <2>4, <2>5, <2>6, <2>7, <2>8
  <2> QED  BY <2>1, <2>6, <2>8, <2>9 DEF Fill
<1>4. CASE SeekFlush
  <2>1. Len(queue') = 0 /\ level' = 0 /\ 0 * Chunk = 0
    BY <1>1, <1>4 DEF SeekFlush
  <2> QED  BY <2>1 DEF Fill
<1>5. CASE Drop
  <2>1. /\ UNCHANGED <<queue, level, length, seekpc>> /\ roff < length
    BY <1>5, DropsInSeek DEF Drop, srcVars
  <2> QED  BY <1>1, <2>1 DEF Fill, Inv
<1>6. CASE \E p \in SeekTargets : SeekData(p)
  BY <1>1, <1>6 DEF SeekData, Fill
<1>7. ASSUME UNCHANGED <<queue, level, roff, length>>, seekpc' # "emitted" => seekpc # "emitted"
      PROVE  Fill' /\ level' \in Nat
  BY <1>1, <1>7 DEF Inv, Fill
<1>8. CASE FeedEos \/ FeedBegin \/ PcieRead \/ Push \/ StopFeed \/ StopFeedZero
  BY <1>7, <1>8 DEF FeedEos, FeedBegin, PcieRead, Push, StopFeed, StopFeedZero, srcVars, appVars,
                    seekVars
<1>9. CASE KeyboardQuit \/ BusEos \/ TakeNothing \/ StartFeed \/ StartFeedAssign \/ Wake \/ Release
  BY <1>7, <1>9 DEF KeyboardQuit, BusEos, TakeNothing, StartFeed, StartFeedAssign, Wake, Release,
                    srcVars, appVars, seekVars
<1>10. CASE SeekBegin \/ SeekPark \/ SeekDone \/ UNCHANGED vars
  BY <1>7, <1>10 DEF SeekBegin, SeekPark, SeekDone, vars, srcVars, appVars, seekVars
<1> QED  BY <1>2, <1>3, <1>4, <1>5, <1>6, <1>8, <1>9, <1>10 DEF Next, MainLoop, Streaming, Seeking

LEMMA StreamStep == Inv /\ [Next]_vars => Stream'
<1> SUFFICES ASSUME Inv, [Next]_vars, Settled'
             PROVE  /\ QueueContiguous'
                    /\ \A i \in DOMAIN queue' :
                         Whole(queue[i])' /\ queue'[i].off + queue'[i].len <= roff'
  BY DEF Stream
<1>1. /\ queue \in Seq(Buffers) /\ roff \in Nat /\ length \in Nat /\ level \in Nat
      /\ roff <= length /\ Chunk \in Nat \ {0}
  BY FeedAssumption DEF Inv, TypeOK
<1>2. CASE Enqueue
  <2> DEFINE n == Len(queue)
  <2>1. /\ Current \in Buffers /\ Whole(Current) /\ roff + ChunkLen <= length /\ mpc \in Busy
        /\ roff < length /\ Current.off = roff /\ Current.len = ChunkLen /\ ChunkLen \in Nat
        /\ ChunkLen <= Chunk
    BY <1>2, ChunkIsBuffer, Sizes DEF Enqueue, CanQueue, Busy, Inv, Feeder, Current
  <2>2. /\ queue' = Append(queue, Current) /\ level' = level + ChunkLen /\ roff' = roff + ChunkLen
        /\ UNCHANGED <<length, seekpc>>
    BY <1>2 DEF Enqueue, Queued, MoveOn, Current
  <2> HIDE DEF n
  <2>3. /\ n \in Nat /\ Len(queue') = n + 1 /\ DOMAIN queue' = 1 .. n + 1 /\ queue'[n + 1] = Current
        /\ DOMAIN queue = 1 .. n /\ \A i \in 1 .. n : queue'[i] = queue[i] /\ queue[i] \in Buffers
    BY <1>1, <2>1, <2>2, Appends, Elements DEF n
  <2>4. Settled /\ QueueContiguous
        /\ \A i \in DOMAIN queue : Whole(queue[i]) /\ queue[i].off + queue[i].len <= roff
    BY <2>2 DEF Settled, Inv, Stream
  <2>5. ASSUME NEW i \in DOMAIN queue'
        PROVE  Whole(queue[i])' /\ queue'[i].off + queue'[i].len <= roff'
    <3>1. CASE i = n + 1
      BY SMTT(40), <1>1, <2>1, <2>2, <2>3, <3>1 DEF Whole
    <3>2. CASE i \in 1 .. n
      <4>1. /\ queue'[i] = queue[i] /\ Whole(queue[i]) /\ queue[i].off + queue[i].len <= roff
            /\ queue[i].off \in Nat /\ queue[i].len \in Nat
        BY <2>3, <2>4, <3>2, BufferFacts DEF Inv
      <4> QED  BY SMTT(40), <1>1, <2>1, <2>2, <4>1 DEF Whole
    <3> QED  BY <2>3, <3>1, <3>2
  <2>6. n = 0 => level = 0
    <3>1. n = 0 => level = 0 * Chunk
      BY <2>1, <2>4 DEF Inv, Fill, Settled, n
    <3> QED  BY <1>1, <3>1
  <2>7. n # 0 => /\ queue[1].off + level = roff
                 /\ queue[n].off + queue[n].len = roff
    <3>1. n # 0 => queue # << >>
      BY DEF n
    <3> QED  BY <2>4, <3>1 DEF QueueContiguous, n
  <2>8. ASSUME NEW i \in DOMAIN queue', i > 1
        PROVE  queue'[i].off = queue'[i-1].off + queue'[i-1].len
    <3>1. CASE i = n + 1
      BY <2>1, <2>2, <2>3, <2>7, <2>8, <3>1
    <3>2. CASE i \in 1 .. n
      <4>1. queue[i].off = queue[i-1].off + queue[i-1].len
        BY <2>3, <2>4, <2>8, <3>2 DEF QueueContiguous
      <4>2. queue'[i] = queue[i] /\ queue'[i-1] = queue[i-1]
        BY <2>3, <2>8, <3>2
      <4> QED  BY <4>1, <4>2
    <3> QED  BY <2>3, <3>1, <3>2
  <2>9. queue'[1].off + level' = roff'
    <3>1. CASE n = 0
      BY <1>1, <2>1, <2>2, <2>3, <2>6, <3>1
    <3>2. CASE n # 0
      <4>1. queue'[1] = queue[1] /\ queue[1].off \in Nat
        BY <2>3, <3>2, BufferFacts DEF Inv
      <4> QED  BY SMTT(40), <1>1, <2>1, <2>2, <2>7, <3>2, <4>1
    <3> QED  BY <3>1, <3>2
  <2>10. queue'[Len(queue')].off + queue'[Len(queue')].len = roff'
    BY <2>1, <2>2, <2>3
  <2> QED  BY <2>5, <2>8, <2>9, <2>10 DEF QueueContiguous
<1>3. CASE Take
  <2> DEFINE n == Len(queue)
             h == Head(queue)
  <2>1. /\ queue # << >> /\ queue' = Tail(queue) /\ level' = level - h.len /\ seekpc = "none"
        /\ UNCHANGED <<roff, length>>
    BY <1>3 DEF Take, appVars
  <2>2. /\ n \in Nat \ {0} /\ DOMAIN queue = 1 .. n /\ h = queue[1] /\ h \in Buffers
        /\ Len(queue') = n - 1 /\ DOMAIN queue' = 1 .. n - 1
        /\ \A i \in 1 .. n - 1 : queue'[i] = queue[i + 1]
    BY <1>1, <2>1, Tails, Elements
  <2> HIDE DEF n, h
  <2>3. /\ \A i \in DOMAIN queue : i > 1 => queue[i].off = queue[i-1].off + queue[i-1].len
        /\ \A i \in DOMAIN queue : Whole(queue[i]) /\ queue[i].off + queue[i].len <= roff
        /\ h.off + level = roff /\ queue[n].off + queue[n].len = roff
    BY <2>1, <2>2 DEF Inv, Stream, Settled, QueueContiguous, n
  <2>4. ASSUME NEW i \in 1 .. n - 1
        PROVE  /\ i + 1 \in DOMAIN queue /\ queue'[i] = queue[i + 1]
               /\ queue[i + 1].off = queue[i].off + queue[i].len
               /\ i > 1 => queue'[i].off = queue'[i-1].off + queue'[i-1].len
               /\ Whole(queue[i])' /\ queue'[i].off + queue'[i].len <= roff'
    <3>1. i + 1 \in DOMAIN queue /\ i + 1 > 1 /\ queue'[i] = queue[i + 1] /\ i + 1 - 1 = i
      BY <2>2
    <3>2. queue[i + 1].off = queue[i].off + queue[i].len
      BY <2>3, <3>1
    <3>3. Whole(queue[i + 1]) /\ queue[i + 1].off + queue[i + 1].len <= roff
      BY <2>3, <3>1
    <3>4. i > 1 => queue'[i - 1] = queue[i]
      BY <2>2
    <3> QED  BY <2>1, <3>1, <3>2, <3>3, <3>4 DEF Whole
  <2>5. queue' # << >> => n - 1 \in 1 .. n - 1 /\ 1 \in 1 .. n - 1
    <3>1. queue' # << >> => Len(queue') \in Nat \ {0}
      BY <1>1, <2>1, Tails, EmptySeq
    <3> QED  BY <2>2, <3>1
  <2>6. queue' # << >> => queue'[Len(queue')].off + queue'[Len(queue')].len = roff'
    <3>1. n - 1 \in 1 .. n - 1 => queue'[n - 1] = queue[n]
      BY <2>2
    <3> QED  BY <2>1, <2>2, <2>3, <2>5, <3>1
  <2>7. queue' # << >> => queue'[1].off + level' = roff'
    <3>1. queue' # << >> => queue'[1].off = queue[1].off + queue[1].len
      <4>1. 1 \in 1 .. n - 1 => queue'[1] = queue[1 + 1] /\ queue[1 + 1].off = queue[1].off + queue[1].len
        BY <2>4
      <4> QED  BY <2>5, <4>1
    <3>2. h.off \in Nat /\ h.len \in Nat
      BY <2>2, BufferFacts DEF Inv
    <3> QED  BY SMTT(40), <1>1, <2>1, <2>2, <2>3, <3>1, <3>2
  <2> QED  BY <2>2, <2>4, <2>6, <2>7 DEF QueueContiguous
<1>4. ASSUME queue' = << >>
      PROVE  /\ QueueContiguous'
             /\ \A i \in DOMAIN queue' :
                  Whole(queue[i])' /\ queue'[i].off + queue'[i].len <= roff'
  <2>1. DOMAIN queue' = {}
    BY <1>4
  <2> QED  BY <1>4, <2>1 DEF QueueContiguous
<1>5. CASE Drop
  BY <1>4, <1>5, DropsInSeek DEF Drop, srcVars, Settled
<1>6. CASE SeekFlush
  BY <1>4, <1>6 DEF SeekFlush
<1>7. ASSUME UNCHANGED <<queue, level, roff, length>>, Settled
      PROVE  /\ QueueContiguous'
             /\ \A i \in DOMAIN queue' :
                  Whole(queue[i])' /\ queue'[i].off + queue'[i].len <= roff'
  BY <1>1, <1>7 DEF Inv, Stream, QueueContiguous, Whole
<1>8. CASE FeedEos \/ FeedBegin \/ PcieRead \/ Push \/ StopFeed \/ StopFeedZero
  BY <1>7, <1>8 DEF FeedEos, FeedBegin, PcieRead, Push, StopFeed, StopFeedZero, srcVars, appVars,
                    seekVars, Settled
<1>9. CASE KeyboardQuit \/ BusEos \/ TakeNothing \/ StartFeed \/ StartFeedAssign \/ Wake \/ Release
  BY <1>7, <1>9 DEF KeyboardQuit, BusEos, TakeNothing, StartFeed, StartFeedAssign, Wake, Release,
                    srcVars, appVars, seekVars, Settled
<1>10. CASE \/ SeekBegin \/ SeekPark \/ (\E p \in SeekTargets : SeekData(p)) \/ SeekDone
            \/ UNCHANGED vars
  BY <1>7, <1>10 DEF SeekBegin, SeekPark, SeekData, SeekDone, vars, srcVars, appVars, seekVars, Settled
<1> QED  BY <1>2, <1>3, <1>5, <1>6, <1>8, <1>9, <1>10 DEF Next, MainLoop, Streaming, Seeking

\* Nothing is queued behind the last byte.
LEMMA EmptyLevel ==
  ASSUME Inv, seekpc # "emitted", queue = << >>
  PROVE  level = 0
<1>1. level <= 0 * Chunk /\ level \in Nat /\ 0 * Chunk = 0
  BY FeedAssumption DEF Inv, Fill, TypeOK
<1> QED  BY <1>1

LEMMA JoinStep == Inv /\ [Next]_vars => Join'
<1> SUFFICES ASSUME Inv, [Next]_vars
             PROVE  Join'
  OBVIOUS
<1>1. /\ queue \in Seq(Buffers) /\ roff \in Nat /\ pos \in Nat /\ level \in Nat
  BY DEF Inv, TypeOK
<1> USE DEF Join, Settled
<1>2. CASE Enqueue
  <2>1. /\ Current \in Buffers /\ Current.off = roff /\ ChunkLen \in Nat
    BY <1>2, ChunkIsBuffer, Sizes DEF Enqueue, CanQueue, Busy, Inv, Feeder, Current
  <2>2. /\ queue' = Append(queue, Current) /\ level' = level + ChunkLen /\ roff' = roff + ChunkLen
        /\ UNCHANGED <<seekpc, held, pos>> /\ lost' = (lost \/ seekpc = "emitted")
    BY <1>2 DEF Enqueue, Queued, MoveOn, Current
  <2>3. /\ Len(queue) \in Nat /\ queue'[Len(queue) + 1] = Current
        /\ \A i \in 1 .. Len(queue) : queue'[i] = queue[i]
    BY <1>1, <2>1, <2>2, Appends
  <2>4. ASSUME Joined, seekpc # "emitted"
        PROVE  Joined'
    <3>1. pos' + level' = roff'
      BY <1>1, <2>1, <2>2, <2>4 DEF Joined
    <3>2. queue'[1].off = pos'
      <4>1. CASE queue = << >>
        <5>1. level = 0 /\ Len(queue) = 0
          BY <2>4, <4>1, EmptyLevel
        <5> QED  BY <1>1, <2>1, <2>2, <2>3, <2>4, <5>1 DEF Joined
      <4>2. CASE queue # << >>
        <5>1. 1 \in 1 .. Len(queue)
          BY <1>1, <4>2, EmptySeq
        <5> QED  BY <2>2, <2>3, <2>4, <4>2, <5>1 DEF Joined
      <4> QED  BY <4>1, <4>2
    <3> QED  BY <3>1, <3>2 DEF Joined
  <2> QED  BY <2>2, <2>4 DEF Inv
<1>3. CASE Take
  <2>1. /\ queue # << >> /\ queue' = Tail(queue) /\ level' = level - Head(queue).len
        /\ pos' = Head(queue).off + Head(queue).len /\ seekpc = "none" /\ UNCHANGED <<roff, seekpc>>
    BY <1>3 DEF Take, appVars, seekVars
  <2>2. /\ Head(queue) = queue[1] /\ Head(queue) \in Buffers /\ Len(queue) \in Nat
        /\ DOMAIN queue = 1 .. Len(queue) /\ Len(queue') = Len(queue) - 1
        /\ \A i \in 1 .. Len(queue) - 1 : queue'[i] = queue[i + 1]
    BY <1>1, <2>1, Tails, Elements
  <2>3. /\ queue[1].off + level = roff
        /\ \A i \in DOMAIN queue : i > 1 => queue[i].off = queue[i-1].off + queue[i-1].len
    BY <2>1 DEF Inv, Stream, QueueContiguous
  <2>4. pos' + level' = roff'
    <3>1. queue[1].off \in Nat /\ queue[1].len \in Nat
      BY <2>2, BufferFacts DEF Inv
    <3> QED  BY SMTT(40), <1>1, <2>1, <2>2, <2>3, <3>1
  <2>5. queue' # << >> => queue'[1].off = pos'
    <3>1. queue' # << >> => Len(queue') \in Nat \ {0}
      BY <1>1, <2>1, Tails, EmptySeq
    <3>2. queue' # << >> => 2 \in DOMAIN queue /\ queue'[1] = queue[1 + 1] /\ 1 + 1 = 2 /\ 2 - 1 = 1
      BY <2>2, <3>1
    <3>3. 2 \in DOMAIN queue => queue[2].off = queue[2 - 1].off + queue[2 - 1].len
      BY <2>3
    <3> QED  BY <2>1, <2>2, <3>2, <3>3
  <2> QED  BY <2>1, <2>4, <2>5 DEF Joined
<1>4. CASE Drop
  BY <1>4, DropsInSeek DEF Drop
<1>5. CASE \E p \in SeekTargets : SeekData(p)
  BY <1>5 DEF SeekData
<1>6. CASE SeekFlush
  BY <1>1, <1>6 DEF SeekFlush, appVars, Joined, Inv
<1>7. CASE SeekDone
  BY <1>7 DEF SeekDone, appVars, Joined, Inv
<1>8. CASE SeekBegin \/ SeekPark
  BY <1>8 DEF SeekBegin, SeekPark
<1>9. CASE Release
  BY <1>9 DEF Release, appVars, seekVars, Joined, Inv
<1>10. ASSUME UNCHANGED <<queue, level, roff, pos, held, seekpc, lost>>
       PROVE  Join'
  BY <1>10 DEF Joined, Inv
<1>11. CASE FeedEos \/ FeedBegin \/ PcieRead \/ Push \/ StopFeed \/ StopFeedZero
  BY <1>10, <1>11 DEF FeedEos, FeedBegin, PcieRead, Push, StopFeed, StopFeedZero, srcVars, appVars,
                      seekVars
<1>12. CASE KeyboardQuit \/ BusEos \/ TakeNothing \/ StartFeed \/ StartFeedAssign \/ Wake \/ UNCHANGED vars
  BY <1>10, <1>12 DEF KeyboardQuit, BusEos, TakeNothing, StartFeed, StartFeedAssign, Wake, vars,
                      srcVars, appVars, seekVars
<1> QED  BY <1>2, <1>3, <1>4, <1>5, <1>6, <1>7, <1>8, <1>9, <1>11, <1>12
            DEF Next, MainLoop, Streaming, Seeking

LEMMA TravelStep == Inv /\ [Next]_vars => Travelling'
<1> SUFFICES ASSUME Inv, [Next]_vars, seekpc' = "none"
             PROVE  Travelling'
  BY DEF Travelling
<1>1. /\ held \in Seq(Buffers) /\ pos \in Nat /\ Chunk \in Nat \ {0} /\ HoldMax \in Nat
      /\ Len(held) \in Nat /\ DOMAIN held = 1 .. Len(held)
      /\ \A i \in DOMAIN held : held[i].off \in Nat /\ held[i].len \in Nat
  <2>1. held \in Seq(Buffers)
    BY DEF Inv, TypeOK
  <2>2. \A i \in DOMAIN held : held[i] \in Buffers
    BY <2>1, Elements
  <2> QED  BY <2>1, <2>2, Elements, BufferFacts, FeedAssumption DEF Inv, TypeOK
<1>2. CASE Take
  <2> DEFINE n == Len(held)
             h == Head(queue)
  <2>1. /\ queue # << >> /\ held' = Append(held, h) /\ pos' = h.off + h.len /\ n < HoldMax
        /\ seekpc = "none"
    BY <1>2 DEF Take
  <2>2. h \in Buffers /\ h = queue[1] /\ 1 \in DOMAIN queue
    BY <2>1, Tails, Elements DEF Inv, TypeOK
  <2> HIDE DEF n, h
  <2>3. /\ n # 0 => h.off = pos
        /\ h.off \in Nat /\ h.len \in Nat /\ h.len <= Chunk
    <3>1. n # 0 => held # << >>
      BY DEF n
    <3>2. n # 0 => h.off = pos
      BY <2>1, <2>2, <3>1 DEF Inv, Join, Joined
    <3> QED  BY <2>2, <3>2, BufferFacts DEF Inv
  <2>4. /\ Len(held') = n + 1 /\ DOMAIN held' = 1 .. n + 1 /\ held'[n + 1] = h
        /\ n \in Nat /\ \A i \in 1 .. n : held'[i] = held[i]
    BY <1>1, <2>1, <2>2, Appends DEF n
  <2>5. ASSUME NEW i \in 1 .. n + 1
        PROVE  /\ held'[i].off + held'[i].len <= pos'
               /\ pos' - held'[i].off <= (Len(held') + 1 - i) * Chunk
    <3>1. CASE i = n + 1
      <4>1. Len(held') + 1 - i = 1
        BY <2>4, <3>1
      <4> QED  BY <1>1, <2>1, <2>3, <2>4, <3>1, <4>1
    <3>2. CASE i \in 1 .. n
      <4>1. /\ held'[i] = held[i] /\ held[i].off + held[i].len <= pos
            /\ pos - held[i].off <= (n + 1 - i) * Chunk
        BY <1>1, <2>1, <2>4, <3>2 DEF Inv, Travelling, n
      <4>2. n + 1 - i \in Nat /\ Len(held') + 1 - i = (n + 1 - i) + 1
        BY <2>4, <3>2
      <4>3. \A k \in Nat : (k + 1) * Chunk = k * Chunk + Chunk /\ k * Chunk \in Nat
        BY <1>1
      <4>4. held[i].off \in Nat /\ held[i].len \in Nat
        BY <1>1, <3>2 DEF n
      <4> DEFINE m == (n + 1 - i) * Chunk
      <4>5. m \in Nat /\ (Len(held') + 1 - i) * Chunk = m + Chunk /\ pos - held[i].off <= m
        BY <4>1, <4>2, <4>3
      <4> HIDE DEF m
      <4>6. (Len(held') + 1 - i) * Chunk = m + Chunk
        BY <4>5
      <4>7. held'[i].off = held[i].off /\ held'[i].len = held[i].len
        BY <4>1
      <4>8. pos' = pos + h.len /\ h.len \in Nat /\ h.len <= Chunk
        BY <2>1, <2>3, <2>4, <3>2
      <4>9. held'[i].off + held'[i].len <= pos'
        BY SMTT(40), <1>1, <4>1, <4>4, <4>7, <4>8
      <4>10. pos' - held'[i].off <= m + Chunk
        <5>1. pos - held[i].off <= m /\ m \in Nat
          BY <4>5
        <5>2. pos \in Nat /\ Chunk \in Nat
          BY <1>1
        <5> QED  BY <4>4, <4>7, <4>8, <5>1, <5>2
      <4> QED  BY <4>6, <4>9, <4>10
    <3>3. i = n + 1 \/ i \in 1 .. n
      BY <2>4
    <3> QED  BY <3>1, <3>2, <3>3
  <2>6. Len(held') <= HoldMax
    BY <1>1, <2>1, <2>4
  <2> QED  BY <2>4, <2>5, <2>6 DEF Travelling
<1>3. CASE Release /\ seekpc = "none"
  <2> DEFINE n == Len(held)
  <2>1. held # << >> /\ held' = Tail(held) /\ pos' = pos
    BY <1>3 DEF Release
  <2>2. /\ n \in Nat \ {0} /\ Len(held') = n - 1 /\ DOMAIN held' = 1 .. n - 1
        /\ \A i \in 1 .. n - 1 : held'[i] = held[i + 1]
    BY <1>1, <2>1, Tails
  <2> HIDE DEF n
  <2>3. ASSUME NEW i \in 1 .. n - 1
        PROVE  /\ held'[i].off + held'[i].len <= pos'
               /\ pos' - held'[i].off <= (Len(held') + 1 - i) * Chunk
    <3>1. i + 1 \in DOMAIN held /\ held'[i] = held[i + 1]
      BY <1>1, <2>2 DEF n
    <3>2. Len(held') + 1 - i = n + 1 - (i + 1)
      BY <2>2
    <3>3. /\ held[i + 1].off + held[i + 1].len <= pos
          /\ pos - held[i + 1].off <= (n + 1 - (i + 1)) * Chunk
      BY <1>3, <3>1 DEF Inv, Travelling, n
    <3> QED  BY <2>1, <3>1, <3>2, <3>3
  <2>4. n <= HoldMax
    BY <1>3 DEF Inv, Travelling, n
  <2>5. Len(held') <= HoldMax
    BY <1>1, <2>2, <2>4
  <2>6. \A i \in DOMAIN held' : /\ held'[i].off + held'[i].len <= pos'
                               /\ pos' - held'[i].off <= (Len(held') + 1 - i) * Chunk
    BY <2>2, <2>3
  <2> QED  BY <2>5, <2>6 DEF Travelling
<1>4. CASE SeekDone
  <2>1. held' = << >> /\ DOMAIN << >> = {} /\ Len(<< >>) = 0
    BY <1>4 DEF SeekDone
  <2> QED  BY <1>1, <2>1 DEF Travelling
<1>5. ASSUME UNCHANGED <<held, pos, seekpc>>
      PROVE  Travelling'
  BY <1>5 DEF Inv, Travelling
<1>6. CASE MainLoop \/ KeyboardQuit \/ BusEos
  BY <1>5, <1>6 DEF MainLoop, FeedEos, FeedBegin, PcieRead, Push, StopFeed, StopFeedZero, Enqueue,
                    Drop, KeyboardQuit, BusEos, srcVars, seekVars
<1>7. CASE TakeNothing \/ StartFeed \/ StartFeedAssign \/ Wake
  BY <1>5, <1>7 DEF TakeNothing, StartFeed, StartFeedAssign, Wake, seekVars
<1>8. CASE UNCHANGED vars
  BY <1>5, <1>8 DEF vars, srcVars, seekVars
<1>9. CASE \/ SeekBegin \/ SeekPark \/ (\E p \in SeekTargets : SeekData(p)) \/ SeekFlush
           \/ (Release /\ seekpc # "none")
  BY <1>9 DEF SeekBegin, SeekPark, SeekData, SeekFlush, Release, seekVars
<1> QED  BY <1>2, <1>3, <1>4, <1>6, <1>7, <1>8, <1>9 DEF Next, Streaming, Seeking

LEMMA EndsStep == Inv /\ [Next]_vars => Ends'
<1> SUFFICES ASSUME Inv, [Next]_vars
             PROVE  Ends'
  OBVIOUS
<1>1. roff \in Nat /\ length \in Nat /\ roff <= length
  BY FeedAssumption DEF Inv, TypeOK
<1> USE DEF Ends
<1>2. CASE FeedEos
  BY <1>1, <1>2 DEF FeedEos, appVars, seekVars, Inv
<1>3. CASE TakeNothing
  <2>1. /\ UNCHANGED <<eosq, roff, length, pos, eosFlag, lost, seekpc, queue>>
        /\ (queue = << >> \/ eosFlag) /\ seekpc = "none" /\ (spc' = "eos" => eosFlag \/ eosq)
    BY <1>3 DEF TakeNothing, appVars, seekVars
  <2>2. eosq => roff = length
    BY <2>1 DEF Inv
  <2>3. queue = << >> /\ ~lost => pos = roff
    <3>1. queue = << >> => level = 0
      BY <2>1, EmptyLevel
    <3>2. ~lost => pos + level = roff /\ pos \in Nat
      BY <2>1 DEF Inv, Join, Settled, Joined, TypeOK
    <3> QED  BY <1>1, <3>1, <3>2
  <2>4. spc' = "eos" /\ ~eosFlag /\ ~lost => pos = length
    BY <2>1, <2>2, <2>3
  <2> QED  BY <2>1, <2>2, <2>4
<1>4. CASE Enqueue
  <2>1. /\ ~eosq /\ UNCHANGED <<eosq, spc, eosFlag, pos, length>>
        /\ lost' = (lost \/ seekpc = "emitted")
    BY <1>4 DEF Enqueue, Refused
  <2> QED  BY <2>1 DEF Inv
<1>5. CASE Drop
  <2>1. /\ lost' /\ UNCHANGED <<eosq, queue, seekpc, length>> /\ roff < length /\ seekpc # "none"
    BY <1>5, DropsInSeek DEF Drop, srcVars
  <2> QED  BY <1>1, <2>1 DEF Inv
<1>6. CASE Take
  BY <1>6 DEF Take, appVars, seekVars, Inv
<1>7. CASE \/ SeekBegin \/ SeekPark \/ (\E p \in SeekTargets : SeekData(p)) \/ SeekFlush \/ SeekDone
  BY <1>7 DEF SeekBegin, SeekPark, SeekData, SeekFlush, SeekDone, appVars, srcVars, Inv, Feeder
<1>8. CASE FeedBegin \/ PcieRead \/ Push \/ StopFeed \/ StopFeedZero \/ KeyboardQuit \/ BusEos
  BY <1>8 DEF FeedBegin, PcieRead, Push, StopFeed, StopFeedZero, KeyboardQuit, BusEos,
              srcVars, appVars, seekVars, Inv
<1>9. CASE StartFeed \/ StartFeedAssign \/ Wake \/ Release
  BY <1>9 DEF StartFeed, StartFeedAssign, Wake, Release, appVars, seekVars, Inv
<1>10. CASE UNCHANGED vars
  BY <1>10 DEF vars, srcVars, appVars, seekVars, Inv
<1> QED  BY <1>2, <1>3, <1>4, <1>5, <1>6, <1>7, <1>8, <1>9, <1>10
            DEF Next, MainLoop, Streaming, Seeking

-----------------------------------------------------------------------------
(* The memory. *)

LEMMA Room ==
  /\ Chunk \in Nat \ {0} /\ Ring \in Nat /\ HoldMax * Chunk \in Nat /\ Chunk <= Ring
  /\ HoldMax * Chunk + 4 * Chunk <= Ring + 1
<1>1. HoldMax * Chunk \in Nat /\ (HoldMax + 4) * Chunk = HoldMax * Chunk + 4 * Chunk
  BY FeedAssumption
<1> QED  BY <1>1, FeedAssumption, RingAssumption

\* Only the chunk of Enqueue is new among what is in use.
LEMMA LiveStep ==
  ASSUME Inv, [Next]_vars
  PROVE  /\ Live' \subseteq Live \cup {Current}
         /\ ~Enqueue => Live' \subseteq Live
<1>1. queue \in Seq(Buffers) /\ held \in Seq(Buffers)
  BY DEF Inv, TypeOK
<1> USE DEF Live, Settled
<1>2. CASE Enqueue
  <2>1. Current \in Buffers
    BY <1>2, ChunkIsBuffer DEF Enqueue, CanQueue, Busy
  <2>2. queue' = Append(queue, Current) /\ UNCHANGED <<held, seekpc>>
    BY <1>2 DEF Enqueue, Queued, Current
  <2>3. /\ Len(queue) \in Nat /\ DOMAIN queue' = 1 .. Len(queue) + 1
        /\ queue'[Len(queue) + 1] = Current /\ DOMAIN queue = 1 .. Len(queue)
        /\ \A i \in 1 .. Len(queue) : queue'[i] = queue[i]
    BY <1>1, <2>1, <2>2, Appends, Elements
  <2>4. \A i \in DOMAIN queue' : queue'[i] = Current \/ \E k \in DOMAIN queue : queue'[i] = queue[k]
    BY <2>3
  <2> HIDE DEF Current
  <2> QED  BY <1>2, <2>2, <2>4
<1>3. CASE Take
  <2>1. /\ queue # << >> /\ queue' = Tail(queue) /\ held' = Append(held, Head(queue))
        /\ seekpc = "none" /\ seekpc' = "none"
    BY <1>3 DEF Take, seekVars
  <2>2. /\ Head(queue) \in Buffers /\ Head(queue) = queue[1] /\ 1 \in DOMAIN queue
        /\ DOMAIN queue' = 1 .. Len(queue) - 1 /\ DOMAIN queue = 1 .. Len(queue)
        /\ Len(queue) \in Nat /\ \A i \in 1 .. Len(queue) - 1 : queue'[i] = queue[i + 1]
    BY <1>1, <2>1, Tails, Elements
  <2>3. /\ DOMAIN held' = 1 .. Len(held) + 1 /\ Len(held) \in Nat /\ DOMAIN held = 1 .. Len(held)
        /\ held'[Len(held) + 1] = Head(queue) /\ \A i \in 1 .. Len(held) : held'[i] = held[i]
    BY <1>1, <2>1, <2>2, Appends, Elements
  <2>4. \A i \in DOMAIN queue' : \E k \in DOMAIN queue : queue'[i] = queue[k]
    <3> SUFFICES ASSUME NEW i \in 1 .. Len(queue) - 1
                 PROVE  \E k \in DOMAIN queue : queue'[i] = queue[k]
      BY <2>2
    <3>1. i + 1 \in DOMAIN queue /\ queue'[i] = queue[i + 1]
      BY <2>2
    <3> QED  BY <3>1
  <2>5. \A i \in DOMAIN held' : (\E k \in DOMAIN held : held'[i] = held[k])
                             \/ (\E k \in DOMAIN queue : held'[i] = queue[k])
    BY <2>2, <2>3
  <2> QED  BY <2>1, <2>4, <2>5
<1>4. CASE Release
  <2>1. held # << >> /\ held' = Tail(held) /\ UNCHANGED <<queue, seekpc>>
    BY <1>4 DEF Release, seekVars
  <2>2. /\ DOMAIN held' = 1 .. Len(held) - 1 /\ DOMAIN held = 1 .. Len(held)
        /\ Len(held) \in Nat /\ \A i \in 1 .. Len(held) - 1 : held'[i] = held[i + 1]
    BY <1>1, <2>1, Tails, Elements
  <2>3. \A i \in DOMAIN held' : \E k \in DOMAIN held : held'[i] = held[k]
    <3> SUFFICES ASSUME NEW i \in 1 .. Len(held) - 1
                 PROVE  \E k \in DOMAIN held : held'[i] = held[k]
      BY <2>2
    <3>1. i + 1 \in DOMAIN held /\ held'[i] = held[i + 1]
      BY <2>2
    <3> QED  BY <3>1
  <2> QED  BY <2>1, <2>3
<1>5. CASE SeekFlush \/ SeekDone
  <2>1. DOMAIN << >> = {}
    OBVIOUS
  <2> QED  BY <1>5, <2>1 DEF SeekFlush, SeekDone
<1>6. CASE SeekBegin \/ SeekPark \/ (\E p \in SeekTargets : SeekData(p))
  BY <1>6 DEF SeekBegin, SeekPark, SeekData
<1>7. ASSUME UNCHANGED <<queue, held, seekpc>>
      PROVE  Live' = Live
  BY <1>7
<1>8. CASE FeedEos \/ FeedBegin \/ PcieRead \/ Push \/ StopFeed \/ StopFeedZero \/ Drop
  BY <1>7, <1>8 DEF FeedEos, FeedBegin, PcieRead, Push, StopFeed, StopFeedZero, Drop, srcVars, seekVars
<1>9. CASE KeyboardQuit \/ BusEos \/ TakeNothing \/ StartFeed \/ StartFeedAssign \/ Wake \/ UNCHANGED vars
  BY <1>7, <1>9 DEF KeyboardQuit, BusEos, TakeNothing, StartFeed, StartFeedAssign, Wake, vars,
                    srcVars, seekVars
<1> QED  BY <1>2, <1>3, <1>4, <1>5, <1>6, <1>8, <1>9 DEF Next, MainLoop, Streaming, Seeking

LEMMA LiveBuffers ==
  ASSUME Inv
  PROVE  Live \subseteq Buffers
<1>1. queue \in Seq(Buffers) /\ held \in Seq(Buffers)
  BY DEF Inv, TypeOK
<1> QED  BY <1>1, Elements DEF Live

LEMMA PlacesStep == Inv /\ [Next]_vars => Places'
<1> SUFFICES ASSUME Inv, [Next]_vars
             PROVE  Places'
  OBVIOUS
<1>1. /\ roff \in Nat /\ ioff \in Nat
      /\ TotalLen \in Nat /\ TotalLen <= Ring /\ Ring \in Nat
      /\ Chunk \in Nat \ {0} /\ Chunk <= Ring
  BY SMTT(40), Sizes, Room DEF Inv, TypeOK
<1>2. \A b \in Live : b \in Buffers /\ Lap(b)
  BY LiveBuffers DEF Inv, Places
<1>3. CASE FeedBegin
  <2>1. /\ roff < length
        /\ ioff' = IF TotalLen = Ring /\ ioff + ChunkLen > TotalLen THEN 0 ELSE ioff
        /\ UNCHANGED <<length, roff>> /\ mpc = "loop"
    BY <1>3 DEF FeedBegin
  <2>2. TotalLen' = TotalLen /\ ChunkLen' = ChunkLen
    BY <2>1 DEF TotalLen, ChunkLen
  <2>3. /\ ChunkLen \in 1 .. Chunk /\ roff + ChunkLen <= length
        /\ TotalLen < Ring => TotalLen = length
    BY <2>1, Sizes DEF Inv
  <2>4. Dest(ioff)' + ChunkLen' <= TotalLen'
    BY <1>1, <2>1, <2>2, <2>3 DEF Dest
  <2>5. ASSUME NEW b \in Buffers, Lap(b)
        PROVE  Lap(b)'
    <3>1. b.start \in Nat /\ b.len \in Nat /\ b.off \in Nat
      BY BufferFacts DEF Inv
    <3>2. CASE ioff' = ioff
      BY <2>1, <2>2, <2>5, <3>2 DEF Lap
    <3>3. CASE ioff' = 0 /\ TotalLen = Ring /\ ioff + ChunkLen > Ring
      <4>1. ChunkLen \in Nat /\ ChunkLen <= Chunk /\ Chunk \in Nat /\ roff' = roff
        BY <1>1, <2>1, <2>3
      <4>2. ASSUME b.start = ioff - (roff - b.off)
            PROVE  b.start > Ring - Chunk + ioff' - (roff' - b.off)
        BY <1>1, <3>1, <3>3, <4>1, <4>2
      <4>3. ASSUME b.start > Ring - Chunk + ioff - (roff - b.off)
            PROVE  b.start > Ring - Chunk + ioff' - (roff' - b.off)
        BY SMTT(40), <1>1, <3>1, <3>3, <4>1, <4>3
      <4> QED  BY <2>2, <2>5, <3>3, <4>2, <4>3 DEF Lap
    <3> QED  BY <1>1, <2>1, <3>2, <3>3
  <2>6. Live' \subseteq Live
    BY <2>1, <1>3, LiveStep DEF Enqueue, CanQueue
  <2> QED  BY <1>2, <2>1, <2>4, <2>5, <2>6 DEF Places
<1>4. CASE Enqueue
  <2>1. /\ roff' = roff + ChunkLen
        /\ ioff' = IF TotalLen = Ring THEN ioff + ChunkLen ELSE ioff
        /\ mpc \in Busy /\ mpc' \notin Busy /\ UNCHANGED length
    BY <1>4 DEF Enqueue, CanQueue, MoveOn, Busy
  <2>2. TotalLen' = TotalLen
    BY <2>1 DEF TotalLen
  <2>3. Current \in Buffers /\ ChunkLen \in Nat
    BY <2>1, ChunkIsBuffer, Sizes DEF Inv, Feeder
  <2>4. ASSUME NEW b \in Buffers, Lap(b)
        PROVE  Lap(b)'
    <3>1. b.start \in Nat /\ b.len \in Nat /\ b.off \in Nat
      BY BufferFacts DEF Inv
    <3> QED  BY SMTT(40), <1>1, <2>1, <2>2, <2>3, <2>4, <3>1 DEF Lap
  <2> DEFINE c == Current
  <2>5. /\ c.start = Dest(ioff) /\ c.len = ChunkLen /\ c.off = roff
        /\ Dest(ioff) + ChunkLen <= TotalLen
    BY <2>1 DEF Current, Inv, Places
  <2>6. ASSUME NEW b, b = c
        PROVE  Lap(b)'
    <3> HIDE DEF c
    <3>1. /\ b.start + b.len <= TotalLen' /\ (TotalLen' < Ring => b.start = b.off)
          /\ TotalLen' = Ring => b.start = ioff' - (roff' - b.off)
      BY <1>1, <2>1, <2>2, <2>3, <2>5, <2>6 DEF Dest
    <3> QED  BY <3>1 DEF Lap
  <2>7. ASSUME NEW b \in Live'
        PROVE  Lap(b)'
    BY <1>2, <2>4, <2>6, <2>7, LiveStep
  <2> QED  BY <2>1, <2>7 DEF Places
\* A refused chunk moves the offsets where nothing is in use.
<1>5. CASE Drop
  <2>1. Live' = {} /\ mpc' \notin Busy
    BY <1>5, DropsInSeek DEF Drop, MoveOn, srcVars, Live, Settled, Busy
  <2> QED  BY <2>1 DEF Places
<1>6. CASE \E p \in SeekTargets : SeekData(p)
  <2>1. Live' = {} /\ mpc' \notin Busy
    BY <1>6 DEF SeekData, Live, Settled, Busy
  <2> QED  BY <2>1 DEF Places
\* No other action moves an offset.
<1>7. ASSUME UNCHANGED <<length, roff, ioff>>, mpc' \in Busy => mpc \in Busy, ~Enqueue
      PROVE  Places'
  <2>1. TotalLen' = TotalLen /\ Dest(ioff)' = Dest(ioff) /\ ChunkLen' = ChunkLen
    BY <1>7 DEF TotalLen, Dest, ChunkLen
  <2>2. ASSUME NEW b \in Live'
        PROVE  Lap(b)'
    <3>1. b \in Live
      BY <1>7, <2>2, LiveStep
    <3>2. Lap(b)
      BY <1>2, <3>1
    <3> QED  BY <1>7, <2>1, <3>2 DEF Lap
  <2> QED  BY <1>7, <2>1, <2>2 DEF Places, Inv
<1>8. CASE FeedEos \/ PcieRead \/ Push \/ StopFeed \/ StopFeedZero
  <2>1. ~Enqueue /\ UNCHANGED <<length, roff, ioff>> /\ (mpc' \in Busy => mpc \in Busy)
    BY <1>8 DEF FeedEos, PcieRead, Push, StopFeed, StopFeedZero, Enqueue, CanQueue, MoveOn, srcVars,
                appVars, Busy
  <2> QED  BY <1>7, <2>1
<1>9. CASE UNCHANGED <<length, roff, ioff, mpc>>
  <2>1. ~Enqueue
    BY <1>9 DEF Enqueue, CanQueue, MoveOn
  <2> QED  BY <1>7, <1>9, <2>1
<1>10. CASE \/ KeyboardQuit \/ BusEos \/ Streaming \/ Release \/ SeekBegin \/ SeekPark \/ SeekFlush
            \/ SeekDone \/ UNCHANGED vars
  BY <1>9, <1>10 DEF KeyboardQuit, BusEos, Streaming, Take, TakeNothing, StartFeed, StartFeedAssign,
                     Wake, Release, SeekBegin, SeekPark, SeekFlush, SeekDone, vars, srcVars, appVars
<1> QED  BY <1>3, <1>4, <1>5, <1>6, <1>8, <1>10 DEF Next, MainLoop, Seeking

LEMMA OffsetBound ==
  ASSUME roff \in Nat
  PROVE  Offset \in Nat /\ Offset <= roff
<1>1. 2 * (IntMax + 1) \in Nat \ {0}
  BY FeedAssumption
<1>2. \A k \in Nat \ {0} : roff % k \in 0 .. k - 1 /\ roff % k <= roff
  OBVIOUS
<1> QED  BY <1>1, <1>2 DEF Offset

\* The memory, and no more of it than the file has.
LEMMA ReadTypes ==
  ASSUME Inv, PcieRead
  PROVE  mem' \in [0 .. TotalLen - 1 -> 0 .. length] /\ fpos' \in 0 .. length
<1>1. /\ length \in Nat /\ roff \in Nat /\ roff < length /\ fpos \in Nat /\ fpos <= length
      /\ mem \in [0 .. TotalLen - 1 -> 0 .. length] /\ ioff \in Nat /\ TotalLen \in Nat
      /\ ChunkLen \in Nat /\ roff + ChunkLen <= length
  BY Sizes DEF PcieRead, Inv, TypeOK, Feeder, Busy
<1>2. Offset \in Nat /\ Offset <= roff
  BY <1>1, OffsetBound
<1>3. CASE SeekFails
  BY <1>1, <1>3 DEF PcieRead
<1>4. CASE ~SeekFails
  <2> DEFINE from == IF Offset # 0 THEN Offset ELSE fpos
             got  == Min({ChunkLen, length - from})
             d    == Dest(ioff)
  <2>1. from \in Nat /\ from <= length /\ d \in Nat
    BY <1>1, <1>2 DEF Dest
  <2>2. got \in Nat /\ got <= length - from
    BY <1>1, <2>1, MinOfTwo
  <2>3. mem' = [i \in DOMAIN mem |->
                  IF i \in d .. d + got - 1 THEN from + (i - d) ELSE mem[i]]
        /\ fpos' = from + got
    BY <1>4 DEF PcieRead
  <2> HIDE DEF from, got, d
  <2>4. \A i \in d .. d + got - 1 : from + (i - d) \in 0 .. length
    BY <1>1, <2>1, <2>2
  <2>5. mem' \in [0 .. TotalLen - 1 -> 0 .. length]
    BY <1>1, <2>3, <2>4
  <2> QED  BY <1>1, <2>1, <2>2, <2>3, <2>5
<1> QED  BY <1>3, <1>4

LEMMA TypeStep == Inv /\ [Next]_vars => TypeOK'
<1> SUFFICES ASSUME Inv, [Next]_vars
             PROVE  TypeOK'
  OBVIOUS
<1>1. /\ level' \in Nat /\ UNCHANGED length /\ TotalLen' = TotalLen /\ Buffers' = Buffers
  <2>1. UNCHANGED length
    BY DEF Next, vars, appVars, MainLoop, Streaming, Seeking, FeedEos, FeedBegin, PcieRead, Push,
           StopFeed, StopFeedZero, Enqueue, Drop, KeyboardQuit, BusEos, Take, TakeNothing, StartFeed,
           StartFeedAssign, Wake, Release, SeekBegin, SeekPark, SeekData, SeekFlush, SeekDone
  <2> QED  BY <2>1, FillStep DEF TotalLen, Buffers
<1>2. TypeOK /\ length \in Nat /\ TotalLen \in Nat
  BY Sizes DEF Inv
<1> USE <1>1
<1>3. CASE Enqueue
  <2>1. /\ Current \in Buffers /\ roff + ChunkLen <= length /\ ChunkLen \in Nat
        /\ TotalLen = Ring => ioff + ChunkLen <= TotalLen
    BY <1>3, ChunkIsBuffer, Sizes DEF Enqueue, CanQueue, Busy, Inv, Feeder, Places, Dest
  <2>2. queue' = Append(queue, Current) /\ roff' = roff + ChunkLen
        /\ ioff' = IF TotalLen = Ring THEN ioff + ChunkLen ELSE ioff
    BY <1>3 DEF Enqueue, Queued, MoveOn, Current
  <2>3. queue' \in Seq(Buffers) /\ roff' \in 0 .. length /\ ioff' \in 0 .. TotalLen
    BY SMTT(40), <1>2, <2>1, <2>2, Appends DEF TypeOK
  <2>4. lost' \in BOOLEAN
    BY <1>2, <1>3, Zenon DEF Enqueue, TypeOK
  <2> QED  BY <1>2, <1>3, <2>3, <2>4 DEF Enqueue, MoveOn, TypeOK
<1>4. CASE PcieRead
  <2>1. mem' \in [0 .. TotalLen - 1 -> 0 .. length] /\ fpos' \in 0 .. length
    BY <1>4, ReadTypes
  <2>2. mpc' \in {"loop", "read", "push", "enough", "zero", "queue"}
        /\ UNCHANGED <<overtaken, roff, ioff, sourceid, idles, eosFlag, srcVars, seekVars, quit>>
    BY <1>4 DEF PcieRead
  <2> QED  BY ZenonT(40), <1>2, <2>1, <2>2 DEF srcVars, seekVars, TypeOK
<1>5. CASE FeedBegin
  BY <1>2, <1>5 DEF FeedBegin, srcVars, seekVars, TypeOK
<1>6. CASE Take
  <2>1. /\ queue # << >> /\ queue \in Seq(Buffers) /\ held \in Seq(Buffers)
        /\ queue' = Tail(queue) /\ held' = Append(held, Head(queue))
        /\ pos' = Head(queue).off + Head(queue).len
    BY <1>2, <1>6 DEF Take, TypeOK
  <2>2. Head(queue) \in Buffers /\ Head(queue) = queue[1] /\ 1 \in DOMAIN queue /\ queue' \in Seq(Buffers)
    BY <2>1, Tails, Elements
  <2>3. held' \in Seq(Buffers)
    BY <2>1, <2>2, Appends
  <2>4. pos' \in 0 .. length
    <3>1. Head(queue).off + Head(queue).len <= roff
      BY <1>6, <2>2 DEF Take, Inv, Stream, Settled
    <3>2. Head(queue).off \in Nat /\ Head(queue).len \in Nat
      BY <1>2, <2>2, BufferFacts
    <3> QED  BY SMTT(40), <1>2, <2>1, <3>1, <3>2 DEF TypeOK
  <2> QED  BY <1>2, <1>6, <2>2, <2>3, <2>4 DEF Take, TypeOK, appVars, seekVars
<1>7. CASE Release
  <2>1. held' \in Seq(Buffers)
    BY <1>2, <1>7, Tails DEF Release, TypeOK
  <2> QED  BY <1>2, <1>7, <2>1 DEF Release, TypeOK, appVars, seekVars
<1>8. ASSUME NEW p \in SeekTargets, SeekData(p)
      PROVE  TypeOK'
  <2>1. p \in 0 .. length
    BY <1>2, <1>8, FeedAssumption DEF SeekData, TypeOK
  <2> QED  BY <1>2, <1>8, <2>1 DEF SeekData, TypeOK
<1>9. CASE StartFeed
  <2>1. idles' \in 0 .. 1
    <3>1. spc = "need" /\ ~sourceid => idles # 1
      <4>1. spc = "need" /\ idles = 1 => sourceid
        BY DEF Inv, Feeder
      <4> QED  BY <4>1
    <3> QED  BY <1>2, <1>9, <3>1 DEF StartFeed, TypeOK
  <2> QED  BY <1>2, <1>9, <2>1 DEF StartFeed, seekVars, TypeOK
<1>10. CASE StopFeed
  <2>1. idles = 1
    BY <1>10 DEF StopFeed, Inv, Feeder
  <2>2. idles' \in 0 .. 1
    BY <1>10, <2>1 DEF StopFeed
  <2>3. overtaken' \in BOOLEAN
    BY <1>2, <1>10, Zenon DEF StopFeed, TypeOK
  <2>4. mpc' \in {"loop", "read", "push", "enough", "zero", "queue"}
    BY <1>10 DEF StopFeed
  <2> QED  BY <1>2, <1>10, <2>2, <2>3, <2>4 DEF StopFeed, TypeOK, srcVars, seekVars
<1>11. CASE FeedEos
  <2>1. eosq' \in BOOLEAN
    BY <1>11 DEF FeedEos
  <2> QED  BY <1>2, <1>11, <2>1 DEF FeedEos, TypeOK, appVars, seekVars
<1>12. CASE Push
  BY ZenonT(40), <1>2, <1>12 DEF Push, TypeOK, srcVars, seekVars
<1>20. CASE StopFeedZero
  BY ZenonT(40), <1>2, <1>20 DEF StopFeedZero, TypeOK, srcVars, seekVars
<1>21. CASE KeyboardQuit \/ BusEos
  BY ZenonT(40), <1>2, <1>21 DEF KeyboardQuit, BusEos, TypeOK, srcVars, seekVars, appVars
<1>13. CASE TakeNothing
  BY <1>2, <1>13 DEF TakeNothing, TypeOK, appVars, seekVars
<1>14. CASE StartFeedAssign \/ Wake
  BY ZenonT(40), <1>2, <1>14 DEF StartFeedAssign, Wake, TypeOK, appVars, seekVars
<1>15. CASE UNCHANGED vars
  BY <1>2, <1>15 DEF vars, srcVars, appVars, seekVars, TypeOK
<1>16. CASE Drop
  <2>1. /\ mpc \in Busy /\ roff < length /\ Dest(ioff) + ChunkLen <= TotalLen
        /\ ChunkLen \in Nat /\ roff + ChunkLen <= length
    BY <1>16, Sizes, DropsInSeek DEF Drop, Busy, Inv, Places
  <2>2. roff' \in 0 .. length /\ ioff' \in 0 .. TotalLen
    BY <1>2, <1>16, <2>1 DEF Drop, MoveOn, Dest, TypeOK
  <2> QED  BY <1>2, <1>16, <2>2 DEF Drop, MoveOn, srcVars, TypeOK
<1>17. CASE SeekBegin
  BY <1>2, <1>17, FeedAssumption DEF SeekBegin, srcVars, appVars, TypeOK
<1>18. CASE SeekPark
  BY ZenonT(40), <1>2, <1>18 DEF SeekPark, srcVars, appVars, TypeOK
<1>19. CASE SeekFlush
  <2>1. << >> \in Seq(Buffers) /\ 0 \in Nat
    BY EmptySeq
  <2> QED  BY ZenonT(40), <1>2, <1>19, <2>1 DEF SeekFlush, appVars, TypeOK
<1>22. CASE SeekDone
  <2>1. << >> \in Seq(Buffers)
    BY EmptySeq
  <2> QED  BY ZenonT(40), <1>2, <1>22, <2>1 DEF SeekDone, appVars, TypeOK
<1> QED  BY <1>3, <1>4, <1>5, <1>6, <1>7, <1>8, <1>9, <1>10, <1>11, <1>12, <1>13, <1>14, <1>15,
            <1>16, <1>17, <1>18, <1>19, <1>20, <1>21, <1>22 DEF Next, MainLoop, Streaming, Seeking

LEMMA InvInit == Init => Inv
<1> SUFFICES ASSUME Init
             PROVE  Inv
  OBVIOUS
<1>1. /\ Len(<< >>) = 0 /\ DOMAIN << >> = {} /\ << >> \in Seq(Buffers) /\ 0 * Chunk = 0
      /\ HoldMax \in Nat
  BY EmptySeq, FeedAssumption
<1>2. length \in Nat \ {0} /\ TotalLen \in Nat
  <2>1. length \in Nat \ {0}
    BY FeedAssumption DEF Init
  <2> QED  BY <2>1, MinOfTwo, FeedAssumption DEF TotalLen
<1>3. TypeOK
  <2>1. MaxSeeks \in Nat /\ Zero \in 0 .. length
    BY <1>2, FeedAssumption DEF Zero
  <2>2. /\ overtaken \in BOOLEAN /\ lost \in BOOLEAN /\ sourceid \in BOOLEAN /\ eosFlag \in BOOLEAN
        /\ eosq \in BOOLEAN /\ quit \in BOOLEAN
    BY Zenon DEF Init
  <2>3. mem \in [0 .. TotalLen - 1 -> 0 .. length]
    BY <2>1 DEF Init
  <2>4. /\ roff \in 0 .. length /\ ioff \in 0 .. TotalLen /\ fpos \in 0 .. length
        /\ pos \in 0 .. length /\ seeks \in 0 .. MaxSeeks /\ idles \in 0 .. 1
    BY <1>2, <2>1 DEF Init
  <2> QED  BY <1>1, <2>2, <2>3, <2>4 DEF Init, TypeOK
<1>4. Feeder /\ Ends
  BY <1>1, <1>2 DEF Init, Feeder, Ends, Busy
<1>5. Stream /\ Travelling /\ Join /\ Fill
  BY <1>1, <1>2 DEF Init, Stream, QueueContiguous, Travelling, Join, Joined, Fill
<1>6. Crowd
  BY <1>1 DEF Init, Crowd, Most, Fed
<1>7. Places
  BY <1>1 DEF Init, Places, Live, Busy
<1> QED  BY <1>3, <1>4, <1>5, <1>6, <1>7 DEF Inv

LEMMA InvStep == Inv /\ [Next]_vars => Inv'
BY TypeStep, FeederStep, CrowdStep, FillStep, StreamStep, JoinStep, TravelStep, EndsStep, PlacesStep
   DEF Inv

THEOREM Invariance == Spec => []Inv
BY InvInit, InvStep, PTL DEF Spec

\* The state that start_feed and stop_feed share without a lock stays consistent:
\* there is never a second idle source, and unless stop_feed once came before
\* start_feed had stored the id, the queue never holds more than three chunks.
THEOREM FeedConsistent == Spec => []Consistent
<1>1. Inv => Consistent
  <2> SUFFICES ASSUME Inv
               PROVE  Consistent
    OBVIOUS
  <2>1. TypeOK /\ OneFeeder
    BY DEF Inv, TypeOK, OneFeeder
  <2>2. ASSUME ~overtaken
        PROVE  level <= 3 * Chunk
    <3> SUFFICES ASSUME seekpc # "emitted"
                 PROVE  level <= 3 * Chunk
      BY <2>2 DEF Inv, Crowd, Spare
    <3>1. Len(queue) \in Nat /\ level \in Nat /\ level <= Len(queue) * Chunk /\ Chunk \in Nat
      <4>1. queue \in Seq(Buffers) /\ level \in Nat
        BY DEF Inv, TypeOK
      <4> QED  BY <4>1, Elements, FeedAssumption DEF Inv, Fill
    <3>2. Len(queue) <= 3
      <4>1. Most <= 3 /\ idles \in 0 .. 1
        BY <2>2 DEF Inv, Crowd, TypeOK
      <4> QED  BY <3>1, <4>1 DEF Most, Fed
    <3>3. Len(queue) * Chunk <= 3 * Chunk /\ Len(queue) * Chunk \in Nat /\ 3 * Chunk \in Nat
      BY <3>1, <3>2, Chunks
    <3> QED
      <4> DEFINE m == Len(queue) * Chunk
                 k == 3 * Chunk
      <4>1. level <= m /\ m <= k /\ level \in Nat /\ m \in Nat /\ k \in Nat
        BY <3>1, <3>3
      <4> HIDE DEF m, k
      <4>2. level <= k
        BY <4>1
      <4> QED  BY <4>2 DEF k
  <2> QED  BY <2>1, <2>2 DEF Consistent, EnoughIsEnough
<1> QED  BY <1>1, Invariance, PTL

\* Between two seeks what the appsrc still has to send is one piece of the file up
\* to read_offset; it joins what was sent before, or the place the last seek asked
\* for, unless a chunk was pushed behind that seek's callback and before its flush;
\* and a stream that ends by itself, nothing lost, ends where the file does.
THEOREM FileStreamed == Spec => []StreamIsFile
<1>1. Inv => StreamIsFile
  BY DEF Inv, Stream, Settled, Join, Ends, StreamIsFile
<1> QED  BY <1>1, Invariance, PTL

-----------------------------------------------------------------------------
(* Nothing is overwritten. *)

LEMMA LiveFacts ==
  ASSUME Inv, NEW b \in Live
  PROVE  /\ b \in Buffers /\ Lap(b) /\ b.off + b.len <= roff
         /\ b.start \in Nat /\ b.len \in Nat /\ b.len <= Chunk /\ b.off \in Nat
<1>1. pos \in Nat /\ roff \in Nat /\ level \in Nat
  BY DEF Inv, TypeOK
<1>2. b \in Buffers /\ Lap(b)
  BY LiveBuffers DEF Inv, Places
<1>3. b.start \in Nat /\ b.len \in Nat /\ b.len <= Chunk /\ b.off \in Nat
  BY <1>2, BufferFacts DEF Inv
<1>4. CASE Settled /\ \E i \in DOMAIN queue : b = queue[i]
  BY <1>2, <1>3, <1>4 DEF Inv, Stream
<1>5. CASE seekpc = "none" /\ \E i \in DOMAIN held : b = held[i]
  <2>1. b.off + b.len <= pos
    BY <1>5 DEF Inv, Travelling
  <2>2. held # << >>
    <3>1. DOMAIN << >> = {}
      OBVIOUS
    <3> QED  BY <1>5, <3>1
  <2>3. pos + level = roff
    BY <1>5, <2>2 DEF Inv, Join, Joined
  <2> QED  BY <1>1, <1>2, <1>3, <2>1, <2>3
<1> QED  BY <1>4, <1>5 DEF Live

\* While a chunk is being read, no more of the file is travelling than what
\* downstream may hold and two chunks.
LEMMA Behind ==
  ASSUME Inv, mpc = "read", ~overtaken, NEW b \in Live
  PROVE  roff - b.off <= HoldMax * Chunk + 2 * Chunk
<1>1. /\ queue \in Seq(Buffers) /\ held \in Seq(Buffers) /\ pos \in Nat /\ roff \in Nat /\ level \in Nat
      /\ HoldMax * Chunk \in Nat /\ Chunk \in Nat /\ HoldMax \in Nat
  BY Room, FeedAssumption DEF Inv, TypeOK
<1>2. Settled
  BY DEF Live, Settled
<1>3. Len(queue) \in Nat /\ Len(queue) <= 2
  <2>1. Most <= 3
    BY <1>2 DEF Inv, Crowd, Settled
  <2>2. Len(queue) \in Nat
    BY <1>1, Elements
  <2> QED  BY <2>1, <2>2 DEF Most, Fed
<1>4. level <= 2 * Chunk
  <2>1. level <= Len(queue) * Chunk
    BY <1>2 DEF Inv, Fill, Settled
  <2>2. Len(queue) * Chunk \in Nat /\ Len(queue) * Chunk <= 2 * Chunk
    BY <1>3, Chunks
  <2> DEFINE m == Len(queue) * Chunk
  <2>3. level <= m /\ m \in Nat /\ m <= 2 * Chunk
    BY <2>1, <2>2
  <2> HIDE DEF m
  <2> QED  BY <1>1, <2>3
<1>5. CASE \E i \in DOMAIN queue : b = queue[i]
  <2>1. PICK i \in DOMAIN queue : b = queue[i]
    BY <1>5
  <2>2. i \in {1, 2} /\ 1 \in DOMAIN queue /\ DOMAIN queue = 1 .. Len(queue) /\ queue # << >>
    BY <1>1, <1>3, Elements
  <2>3. queue[1].off + level = roff /\ queue[1].off \in Nat /\ queue[1].len \in Nat
    BY <1>1, <1>2, <2>2, Elements, BufferFacts DEF Inv, Stream, QueueContiguous
  <2>4. i = 2 => queue[2].off = queue[1].off + queue[1].len
    <3>1. \A k \in DOMAIN queue : k > 1 => queue[k].off = queue[k-1].off + queue[k-1].len
      BY <1>2 DEF Inv, Stream, QueueContiguous
    <3> QED  BY <2>1, <3>1
  <2>5. b.off \in Nat /\ b.off >= queue[1].off
    BY <2>1, <2>2, <2>3, <2>4
  <2> DEFINE h == HoldMax * Chunk
             o == b.off
             q == queue[1].off
  <2>6. h \in Nat /\ o \in Nat /\ q \in Nat /\ o >= q /\ q + level = roff
    BY <1>1, <2>3, <2>5
  <2> HIDE DEF h, o, q
  <2>7. roff - o <= h + 2 * Chunk
    BY <1>1, <1>4, <2>6
  <2> QED  BY <2>7 DEF h, o
<1>6. CASE seekpc = "none" /\ \E i \in DOMAIN held : b = held[i]
  <2>1. PICK i \in DOMAIN held : b = held[i]
    BY <1>6
  <2>2. /\ pos - b.off <= (Len(held) + 1 - i) * Chunk /\ Len(held) + 1 - i \in Nat
        /\ Len(held) + 1 - i <= HoldMax /\ b.off \in Nat
    <3>1. /\ i \in 1 .. Len(held) /\ Len(held) \in Nat /\ Len(held) <= HoldMax
          /\ pos - b.off <= (Len(held) + 1 - i) * Chunk
      BY <1>1, <1>6, <2>1, Elements DEF Inv, Travelling
    <3>2. b.off \in Nat
      BY LiveFacts
    <3> QED  BY <1>1, <3>1, <3>2
  <2>3. /\ (Len(held) + 1 - i) * Chunk \in Nat
        /\ (Len(held) + 1 - i) * Chunk <= HoldMax * Chunk
    BY <1>1, <2>2, Chunks
  <2> DEFINE m == (Len(held) + 1 - i) * Chunk
             h == HoldMax * Chunk
  <2>4. pos - b.off <= m /\ m <= h /\ m \in Nat /\ h \in Nat
    BY <1>1, <2>2, <2>3
  <2> HIDE DEF m, h
  <2>5. pos + level = roff
    <3>1. held # << >>
      <4>1. DOMAIN << >> = {}
        OBVIOUS
      <4> QED  BY <2>1, <4>1
    <3> QED  BY <1>6, <3>1 DEF Inv, Join, Joined
  <2>6. roff - b.off <= h + 2 * Chunk
    BY SMTT(40), <1>1, <1>4, <2>2, <2>4, <2>5
  <2> QED  BY <2>6 DEF h
<1> QED  BY <1>5, <1>6 DEF Live

LEMMA Clear ==
  ASSUME Inv, mpc = "read", ~overtaken \/ TotalLen < Ring, NEW b \in Live
  PROVE  b.start + b.len <= Dest(ioff) \/ b.start >= Dest(ioff) + Chunk
<1>1. /\ b.off + b.len <= roff /\ b.start \in Nat /\ b.len \in Nat /\ b.off \in Nat /\ Lap(b)
      /\ roff \in Nat /\ ioff \in Nat /\ TotalLen \in Nat /\ TotalLen <= Ring /\ Ring \in Nat
  BY SMTT(40), LiveFacts, Sizes, Room DEF Inv, TypeOK
<1>2. CASE TotalLen < Ring
  BY <1>1, <1>2 DEF Lap, Dest
<1>3. CASE TotalLen = Ring
  <2>1. /\ Dest(ioff) = ioff
        /\ b.start = ioff - (roff - b.off) \/ b.start > Ring - Chunk + ioff - (roff - b.off)
    BY <1>1, <1>3 DEF Lap, Dest
  <2> DEFINE h == HoldMax * Chunk
  <2>2. ~overtaken
    BY <1>1, <1>3
  <2>3. /\ roff - b.off <= h + 2 * Chunk /\ h \in Nat /\ Chunk \in Nat
        /\ h + 4 * Chunk <= Ring + 1
    BY <2>2, Behind, Room
  <2> HIDE DEF h
  <2> QED  BY <1>1, <2>1, <2>3
<1> QED  BY <1>1, <1>2, <1>3

\* feed_data writes its own chunk and nothing else.
LEMMA ReadStep ==
  ASSUME Inv, Memory, PcieRead
  PROVE  Memory'
<1>1. /\ mpc = "read" /\ mpc' = "push"
      /\ UNCHANGED <<length, roff, ioff, queue, held, overtaken, seekpc>>
  BY DEF PcieRead, srcVars, seekVars
<1>2. /\ roff < length /\ length \in Nat /\ roff \in Nat /\ ioff \in Nat
      /\ TotalLen \in Nat /\ TotalLen <= Ring /\ Ring \in Nat /\ IntMax \in Nat /\ Chunk \in Nat
      /\ mem \in [0 .. TotalLen - 1 -> 0 .. length]
  BY <1>1, Sizes, Room, FeedAssumption DEF Inv, TypeOK, Feeder, Busy
<1>3. /\ ChunkLen \in Nat /\ ChunkLen <= Chunk /\ roff + ChunkLen <= length
      /\ Dest(ioff) \in Nat /\ Dest(ioff) + ChunkLen <= TotalLen
  <2>1. ChunkLen \in 1 .. Chunk /\ roff + ChunkLen <= length
    BY <1>2, Sizes DEF Inv
  <2>2. Dest(ioff) \in Nat /\ Dest(ioff) + ChunkLen <= TotalLen
    BY <1>1, <1>2 DEF Dest, Inv, Places, Busy
  <2> QED  BY <1>2, <2>1, <2>2
<1>4. /\ TotalLen' = TotalLen /\ ChunkLen' = ChunkLen /\ Dest(ioff)' = Dest(ioff)
      /\ Current' = Current
  BY <1>1 DEF TotalLen, ChunkLen, Dest, Current
\* Up to the largest int the chunk is read from where it should be.
<1>5. ASSUME roff <= IntMax
      PROVE  mem' = [i \in DOMAIN mem |->
                       IF i \in Dest(ioff) .. Dest(ioff) + ChunkLen - 1
                       THEN roff + (i - Dest(ioff)) ELSE mem[i]]
  <2>1. Offset = roff
    BY <1>2, <1>5 DEF Offset
  <2>2. ~SeekFails
    BY <1>2, <1>5, <2>1 DEF SeekFails
  <2>3. (IF Offset # 0 THEN Offset ELSE fpos) = roff
    BY <1>1, <2>1 DEF Memory
  <2>4. Min({ChunkLen, length - roff}) = ChunkLen
    <3>1. length - roff \in Nat /\ ChunkLen <= length - roff
      BY <1>2, <1>3
    <3> QED  BY <1>3, <3>1, MinOfTwo
  <2> QED  BY <2>2, <2>3, <2>4 DEF PcieRead
<1>6. Intact(Current)'
  <2> DEFINE c == Current
  <2>1. c' = c /\ c.start = Dest(ioff) /\ c.len = ChunkLen /\ c.off = roff
    BY <1>4 DEF Current
  <2>2. ASSUME roff <= IntMax, NEW i \in 0 .. ChunkLen - 1
        PROVE  mem'[Dest(ioff) + i] = roff + i
    <3>1. Dest(ioff) + i \in DOMAIN mem /\ Dest(ioff) + i \in Dest(ioff) .. Dest(ioff) + ChunkLen - 1
          /\ (Dest(ioff) + i) - Dest(ioff) = i
      BY SMTT(40), <1>2, <1>3
    <3> QED  BY <1>5, <2>2, <3>1
  <2> QED  BY <2>1, <2>2 DEF Intact
\* Outside the chunk nothing changes.
<1>7. ASSUME NEW i \in DOMAIN mem, i < Dest(ioff) \/ i >= Dest(ioff) + Chunk
      PROVE  mem'[i] = mem[i]
  <2>1. CASE SeekFails
    BY <2>1 DEF PcieRead
  <2>2. CASE ~SeekFails
    <3> DEFINE from == IF Offset # 0 THEN Offset ELSE fpos
               got  == Min({ChunkLen, length - from})
    <3>1. mem' = [k \in DOMAIN mem |->
                    IF k \in Dest(ioff) .. Dest(ioff) + got - 1
                    THEN from + (k - Dest(ioff)) ELSE mem[k]]
      BY <2>2 DEF PcieRead
    <3>2. got \in Nat /\ got <= ChunkLen
      <4>1. from \in Nat /\ from <= length
        <5>1. fpos \in Nat /\ fpos <= length
          BY <1>2 DEF Inv, TypeOK
        <5>2. Offset \in Nat /\ Offset <= roff
          BY <1>2, OffsetBound
        <5> QED  BY <1>2, <5>1, <5>2
      <4>2. length - from \in Nat
        BY <1>2, <4>1
      <4> HIDE DEF from
      <4> QED  BY <1>3, <4>2, MinOfTwo
    <3> HIDE DEF from, got
    <3>3. i \in Nat /\ i \notin Dest(ioff) .. Dest(ioff) + got - 1
      BY SMTT(40), <1>2, <1>3, <1>7, <3>2
    <3> QED  BY <3>1, <3>3
  <2> QED  BY <2>1, <2>2
<1>8. ASSUME ~overtaken \/ TotalLen < Ring, NEW b \in Live
      PROVE  b.off <= IntMax => \A i \in 0 .. b.len - 1 : mem'[b.start + i] = b.off + i
  <2>1. /\ b.start \in Nat /\ b.len \in Nat /\ b.start + b.len <= TotalLen
        /\ b.start + b.len <= Dest(ioff) \/ b.start >= Dest(ioff) + Chunk
    BY <1>1, <1>8, LiveFacts, Clear DEF Lap
  <2>2. Intact(b)
    BY <1>8 DEF Memory
  <2>3. ASSUME NEW i \in 0 .. b.len - 1
        PROVE  mem'[b.start + i] = mem[b.start + i]
    <3>1. /\ b.start + i \in DOMAIN mem
          /\ b.start + i < Dest(ioff) \/ b.start + i >= Dest(ioff) + Chunk
      <4>1. DOMAIN mem = 0 .. TotalLen - 1
        BY <1>2
      <4>2. i \in Nat /\ i < b.len
        BY <2>1
      <4>3. b.start + i \in 0 .. TotalLen - 1
        <5> DEFINE s == b.start
                   l == b.len
                   n == TotalLen
        <5>1. s + l <= n /\ s \in Nat /\ l \in Nat /\ n \in Nat /\ i \in Nat /\ i < l
          BY <1>2, <2>1, <4>2
        <5> HIDE DEF s, l, n
        <5>2. s + i \in 0 .. n - 1
          BY <5>1
        <5> QED BY <5>2 DEF s, n
      <4>4. b.start + i < Dest(ioff) \/ b.start + i >= Dest(ioff) + Chunk
        <5> DEFINE d == Dest(ioff)
                   s == b.start
                   l == b.len
        <5>1. /\ s + l <= d \/ s >= d + Chunk
              /\ s \in Nat /\ l \in Nat /\ d \in Nat /\ Chunk \in Nat /\ i \in Nat /\ i < l
          BY <1>2, <1>3, <2>1, <4>2
        <5> HIDE DEF d, s, l
        <5>2. s + i < d \/ s + i >= d + Chunk
          BY <5>1
        <5> QED  BY <5>2 DEF d, s
      <4> QED  BY <4>1, <4>3, <4>4
    <3> QED  BY <1>7, <3>1
  <2> QED  BY <2>2, <2>3 DEF Intact
<1>9. ~overtaken' \/ TotalLen' < Ring => \A b \in Live' : Intact(b)'
  <2>1. Live' = Live
    BY <1>1 DEF Live, Settled
  <2> QED  BY <1>1, <1>4, <1>8, <2>1 DEF Intact
<1> QED  BY <1>1, <1>6, <1>9 DEF Memory

LEMMA MemoryStep ==
  ASSUME 0 \notin SeekTargets, Inv, Memory, [Next]_vars
  PROVE  Memory'
<1>1. overtaken => overtaken'
  BY DEF Next, vars, appVars, MainLoop, Streaming, Seeking, FeedEos, FeedBegin, PcieRead, Push,
         StopFeed, StopFeedZero, Enqueue, Drop, KeyboardQuit, BusEos, Take, TakeNothing, StartFeed,
         StartFeedAssign, Wake, Release, SeekBegin, SeekPark, SeekData, SeekFlush, SeekDone
\* What was intact is intact while nothing is read into the memory.
<1>2. ASSUME UNCHANGED <<length, mem>>, Enqueue => mpc \in Busy \ {"read"}
      PROVE  ~overtaken' \/ TotalLen' < Ring => \A b \in Live' : Intact(b)'
  <2>1. TotalLen' = TotalLen
    BY <1>2 DEF TotalLen
  <2> SUFFICES ASSUME ~overtaken' \/ TotalLen < Ring, NEW b \in Live'
               PROVE  Intact(b)'
    BY <2>1
  <2>2. Intact(b)
    <3>1. CASE b \in Live
      BY <1>1, <3>1 DEF Memory
    <3>2. CASE b \notin Live
      <4>1. b = Current /\ Enqueue
        BY <3>2, LiveStep
      <4> DEFINE c == Current
      <4>2. Intact(c) /\ b = c
        BY <1>2, <4>1 DEF Memory
      <4> HIDE DEF c
      <4> QED  BY <4>2
    <3> QED  BY <3>1, <3>2
  <2> QED  BY <1>2, <2>2 DEF Intact
\* The current chunk stays where it is until it is queued.
<1>3. ASSUME UNCHANGED <<length, mem, fpos, roff, ioff>>, ~Enqueue,
             mpc' \in {"loop", "read"} => mpc \in {"loop", "read"},
             mpc' \in Busy \ {"read"} => mpc \in Busy \ {"read"}
      PROVE  Memory'
  <2>1. Current' = Current
    BY <1>3 DEF TotalLen, ChunkLen, Dest, Current
  <2> DEFINE c == Current
  <2>2. mpc' \in Busy \ {"read"} => Intact(c)
    BY <1>3 DEF Memory
  <2>3. c' = c
    BY <2>1
  <2> HIDE DEF c
  <2>4. mpc' \in Busy \ {"read"} => Intact(c)'
    BY <1>3, <2>2, <2>3 DEF Intact
  <2>5. ~overtaken' \/ TotalLen' < Ring => \A b \in Live' : Intact(b)'
    BY <1>2, <1>3
  <2>6. roff' = 0 /\ mpc' \in {"loop", "read"} => fpos' = 0
    BY <1>3 DEF Memory
  <2> QED  BY <2>4, <2>5, <2>6 DEF Memory, c
<1>4. CASE PcieRead
  BY <1>4, ReadStep
<1>5. CASE FeedBegin
  <2>1. /\ UNCHANGED <<length, mem, roff, fpos>> /\ mpc = "loop" /\ mpc' = "read"
    BY <1>5 DEF FeedBegin
  <2>2. ~overtaken' \/ TotalLen' < Ring => \A b \in Live' : Intact(b)'
    BY <1>2, <2>1 DEF Enqueue, CanQueue
  <2> QED  BY <2>1, <2>2 DEF Memory, Busy
<1>6. CASE Enqueue \/ Drop
  <2>1. /\ mpc \in {"push", "queue"} /\ mpc' = "loop" /\ UNCHANGED <<length, mem>>
        /\ roff' = roff + ChunkLen
    BY <1>6 DEF Enqueue, CanQueue, Drop, MoveOn
  <2>2. roff \in Nat /\ ChunkLen \in Nat \ {0}
    BY <2>1, Sizes DEF Inv, TypeOK, Busy, Feeder
  <2>3. ~overtaken' \/ TotalLen' < Ring => \A b \in Live' : Intact(b)'
    BY <1>2, <2>1 DEF Busy
  <2>4. roff' # 0
    BY <2>1, <2>2
  <2> QED  BY <2>1, <2>3, <2>4 DEF Memory, Busy
<1>7. ASSUME NEW p \in SeekTargets, SeekData(p)
      PROVE  Memory'
  <2>1. /\ mpc' = "loop" /\ mpc = "loop" /\ roff' = p /\ UNCHANGED <<length, mem>>
    BY <1>7 DEF SeekData
  <2>2. ~overtaken' \/ TotalLen' < Ring => \A b \in Live' : Intact(b)'
    BY <1>2, <2>1 DEF Enqueue, CanQueue
  <2>3. roff' # 0
    BY <2>1
  <2> QED  BY <2>1, <2>2, <2>3 DEF Memory, Busy
<1>8. CASE FeedEos \/ Push \/ StopFeed \/ StopFeedZero
  <2>1. /\ UNCHANGED <<length, mem, fpos, roff, ioff>>
        /\ mpc' \in {"loop", "read"} => mpc \in {"loop", "read"}
        /\ mpc' \in Busy \ {"read"} => mpc \in Busy \ {"read"}
    BY <1>8 DEF FeedEos, Push, StopFeed, StopFeedZero, srcVars, appVars, Busy
  <2>2. ~Enqueue
    BY <1>8 DEF FeedEos, Push, StopFeed, StopFeedZero, Enqueue, CanQueue, MoveOn
  <2> QED  BY <1>3, <2>1, <2>2
<1>9. CASE UNCHANGED <<length, mem, fpos, roff, ioff, mpc>>
  <2>1. ~Enqueue
    BY <1>9 DEF Enqueue, CanQueue, MoveOn
  <2> QED  BY <1>3, <1>9, <2>1
<1>10. CASE \/ KeyboardQuit \/ BusEos \/ Streaming \/ Release \/ SeekBegin \/ SeekPark \/ SeekFlush
            \/ SeekDone \/ UNCHANGED vars
  BY <1>9, <1>10 DEF KeyboardQuit, BusEos, Streaming, Take, TakeNothing, StartFeed, StartFeedAssign,
                     Wake, Release, SeekBegin, SeekPark, SeekFlush, SeekDone, vars, srcVars, appVars
<1> QED  BY <1>4, <1>5, <1>6, <1>7, <1>8, <1>10 DEF Next, MainLoop, Seeking

LEMMA MemoryInit == Init => Memory
<1> SUFFICES ASSUME Init
             PROVE  Memory
  OBVIOUS
<1>1. queue = << >> /\ held = << >> /\ mpc = "loop" /\ fpos = 0 /\ DOMAIN << >> = {}
  BY DEF Init
<1>2. Live = {}
  BY <1>1 DEF Live
<1> QED  BY <1>1, <1>2 DEF Memory, Busy

\* Every buffer the appsrc or an element downstream refers to holds the bytes of
\* the file it stands for: feed_data never writes over memory that still travels,
\* in the ring as long as enough-data could stop it.  A seek to the beginning is
\* left out: pcie_read takes the offset 0 for "go on where you are".
THEOREM NothingOverwritten == 0 \notin SeekTargets => (Spec => []BuffersIntact)
<1> SUFFICES ASSUME 0 \notin SeekTargets
             PROVE  Spec => []BuffersIntact
  OBVIOUS
<1>1. Init => Inv /\ Memory
  BY InvInit, MemoryInit
<1>2. (Inv /\ Memory) /\ [Next]_vars => (Inv /\ Memory)'
  BY InvStep, MemoryStep
<1>3. Inv /\ Memory => BuffersIntact
  BY DEF Memory, BuffersIntact, Live, Settled
<1> QED  BY <1>1, <1>2, <1>3, PTL DEF Spec
===============================================================================
