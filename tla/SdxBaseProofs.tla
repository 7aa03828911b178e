----------------------------- MODULE SdxBaseProofs -----------------------------
(***************************************************************************)
(* Order, window and account of SdxBase, for every number of inputs per    *)
(* output, of arrivals, of faults and of changes to the properties.        *)
(*                                                                         *)
(* While the chain runs, the buffer it was called with is the newest item. *)
(* Everything downstream and everything that waits is older until the      *)
(* output of that buffer is pushed, the events that wait are newer than    *)
(* what has gone downstream, and the FIFO is full only in between: then    *)
(* its last frame is that buffer.  For the window, a FIFO with room holds  *)
(* all frames taken or one less than a window, and every frame taken that  *)
(* completed a window has gone downstream, but the one in the making.  For *)
(* the account, a frame in the FIFO or at hand owns the one reference to   *)
(* its buffer or its copy, an output frame that to the output buffer, and  *)
(* the frames that are registered own the registrations; no two frames are *)
(* of the same input, so that giving one back leaves the others.           *)
(***************************************************************************)
EXTENDS SdxBase, SequenceTheorems, FiniteSetTheorems, TLAPS

AnyFrame == [idx : Nat, dma : BOOLEAN, copied : BOOLEAN, reg : BOOLEAN]

Taking == {"new", "map", "register", "recover", "queue"}
Making == {"outmap", "outregister", "process", "deliver"}

Types ==
  /\ ipo \in Nat \ {0} /\ n \in Nat /\ flow \in {"ok", "stopped", "eos"}
  /\ pc \in Taking \cup Making \cup {"idle", "generate", "push"}
  /\ cur \in AnyFrame /\ out \in AnyFrame
  /\ fifo \in Seq(AnyFrame) /\ taken \in Seq(Nat)
  /\ pending \in Seq(Nat) /\ down \in Seq(Nat) /\ held \subseteq Nat

\* The output of the newest item is still to come.
Fresh == pc \in Taking \cup Making \cup {"push"} \/ (pc = "generate" /\ Len(fifo) = ipo)

Sorted ==
  /\ \A i, j \in DOMAIN down : i < j => down[i] < down[j]
  /\ \A i, j \in DOMAIN pending : i < j => pending[j] < pending[i]
  /\ \A i \in DOMAIN down, j \in DOMAIN pending : down[i] < pending[j]

Older ==
  /\ \A i \in DOMAIN down : down[i] <= n /\ (Fresh => down[i] < n)
  /\ \A i \in DOMAIN pending : pending[i] <= n /\ (Fresh => pending[i] < n)

Kept ==
  \A e \in held : \/ \E k \in DOMAIN down : down[k] = e
                  \/ \E k \in DOMAIN pending : pending[k] = e

Newest ==
  /\ pc \in Taking => cur.idx = n
  /\ pc \in Making \cup {"push"} => out.idx = n
  /\ pc = "generate" /\ Len(fifo) = ipo => fifo[Len(fifo)].idx = n

Filled ==
  /\ pc \in Taking \cup {"idle"} => Len(fifo) < ipo
  /\ pc = "generate" => Len(fifo) <= ipo
  /\ pc \in Making => Len(fifo) = ipo
  /\ pc = "push" => Len(fifo) = ipo - 1 /\ pending = << >>

OrderInv == Types /\ Sorted /\ Older /\ Kept /\ Newest /\ Filled

-----------------------------------------------------------------------------
(* Lemmas. *)

\* What goes downstream with the next output or event: all that went, then all
\* that waits.
Joined == down \o PendingInOrder

\* What a concatenation holds, and where.
LEMMA ConcatParts ==
  ASSUME NEW s \in Seq(Nat), NEW t \in Seq(Nat)
  PROVE  /\ s \o t \in Seq(Nat)
         /\ DOMAIN (s \o t) = 1 .. (Len(s) + Len(t))
         /\ \A k \in 1 .. Len(s) : (s \o t)[k] = s[k]
         /\ \A k \in 1 .. Len(t) : (s \o t)[Len(s) + k] = t[k]
<1>1. /\ s \o t \in Seq(Nat) /\ Len(s \o t) = Len(s) + Len(t)
      /\ \A i \in 1 .. (Len(s) + Len(t)) :
           (s \o t)[i] = IF i <= Len(s) THEN s[i] ELSE t[i - Len(s)]
  BY ConcatProperties
<1>2. Len(s) \in Nat /\ Len(t) \in Nat
  OBVIOUS
<1>3. ASSUME NEW k \in 1 .. Len(t)
      PROVE  (s \o t)[Len(s) + k] = t[k]
  <2>1. /\ Len(s) + k \in 1 .. (Len(s) + Len(t))
        /\ ~(Len(s) + k <= Len(s)) /\ (Len(s) + k) - Len(s) = k
    BY <1>2
  <2> QED  BY <2>1, <1>1, Zenon
<1>4. ASSUME NEW k \in 1 .. Len(s)
      PROVE  (s \o t)[k] = s[k]
  <2>1. k \in 1 .. (Len(s) + Len(t)) /\ k <= Len(s)
    BY <1>2
  <2> QED  BY <2>1, <1>1, Zenon
<1>5. DOMAIN (s \o t) = 1 .. (Len(s) + Len(t))
  BY <1>1
<1> QED  BY <1>1, <1>3, <1>4, <1>5

\* gst_sdx_base_push_pending_events loses nothing, invents nothing and keeps the
\* order.
LEMMA JoinedInOrder ==
  ASSUME Types, Sorted
  PROVE  /\ Joined \in Seq(Nat)
         /\ \A i, j \in DOMAIN Joined : i < j => Joined[i] < Joined[j]
         /\ \A k \in DOMAIN Joined : \/ \E i \in DOMAIN down : Joined[k] = down[i]
                                     \/ \E i \in DOMAIN pending : Joined[k] = pending[i]
         /\ \A i \in DOMAIN down : \E k \in DOMAIN Joined : Joined[k] = down[i]
         /\ \A i \in DOMAIN pending : \E k \in DOMAIN Joined : Joined[k] = pending[i]
<1> DEFINE P == Len(pending)  D == Len(down)  F == Joined
<1>1. /\ down \in Seq(Nat) /\ pending \in Seq(Nat)
      /\ P \in Nat /\ D \in Nat
      /\ DOMAIN down = 1 .. D /\ DOMAIN pending = 1 .. P
  BY DEF Types
<1>2. /\ PendingInOrder \in Seq(Nat) /\ Len(PendingInOrder) = P
      /\ \A k \in 1 .. P : PendingInOrder[k] = pending[P + 1 - k]
  BY <1>1 DEF PendingInOrder
<1>3. /\ F \in Seq(Nat) /\ DOMAIN F = 1 .. (D + P)
      /\ \A k \in 1 .. D : F[k] = down[k]
      /\ \A k \in 1 .. P : F[D + k] = PendingInOrder[k]
  <2> DEFINE R == PendingInOrder
  <2>1. R \in Seq(Nat) /\ Len(R) = P
    BY <1>2
  <2> HIDE DEF R
  <2>2. /\ down \o R \in Seq(Nat) /\ DOMAIN (down \o R) = 1 .. (Len(down) + Len(R))
        /\ \A k \in 1 .. Len(down) : (down \o R)[k] = down[k]
        /\ \A k \in 1 .. Len(R) : (down \o R)[Len(down) + k] = R[k]
    BY <1>1, <2>1, ConcatParts, Zenon
  <2>3. F = down \o R
    BY DEF Joined, R
  <2>4. R = PendingInOrder
    BY DEF R
  <2> QED  BY <2>1, <2>2, <2>3, <2>4, Zenon
<1>4. \A k \in 1 .. P : F[D + k] = pending[P + 1 - k]
  BY <1>2, <1>3, Zenon
<1>5. \A k \in DOMAIN F : k \in 1 .. D \/ \E m \in 1 .. P : k = D + m
  <2> SUFFICES ASSUME NEW k \in 1 .. (D + P), k \notin 1 .. D
               PROVE  \E m \in 1 .. P : k = D + m
    BY <1>3, Zenon
  <2> HIDE DEF D, P
  <2>1. k - D \in 1 .. P /\ k = D + (k - D)
    BY <1>1
  <2> QED  BY <2>1
<1>6. /\ \A i, j \in 1 .. D : i < j => down[i] < down[j]
      /\ \A i, j \in 1 .. P : i < j => pending[j] < pending[i]
      /\ \A i \in 1 .. D, j \in 1 .. P : down[i] < pending[j]
  BY <1>1, Zenon DEF Sorted
<1> HIDE DEF P, D, F
<1>7. ASSUME NEW i \in DOMAIN F, NEW j \in DOMAIN F, i < j
      PROVE  F[i] < F[j]
  <2>1. CASE i \in 1 .. D /\ j \in 1 .. D
    BY <2>1, <1>3, <1>6, <1>7, Zenon
  <2>2. CASE i \in 1 .. D /\ j \notin 1 .. D
    <3>1. PICK m \in 1 .. P : j = D + m
      BY <2>2, <1>5, Zenon
    <3>2. P + 1 - m \in 1 .. P
      BY <1>1
    <3> QED  BY <2>2, <3>1, <3>2, <1>3, <1>4, <1>6, Zenon
  <2>3. CASE i \notin 1 .. D
    <3>1. PICK m \in 1 .. P : i = D + m
      BY <2>3, <1>5, Zenon
    <3>2. j \notin 1 .. D
      BY <3>1, <1>1, <1>7
    <3>3. PICK l \in 1 .. P : j = D + l
      BY <3>2, <1>5, Zenon
    <3>4. /\ P + 1 - m \in 1 .. P /\ P + 1 - l \in 1 .. P
          /\ P + 1 - l < P + 1 - m
      BY <3>1, <3>3, <1>1, <1>7
    <3> QED  BY <3>1, <3>3, <3>4, <1>4, <1>6, Zenon
  <2> QED  BY <2>1, <2>2, <2>3, Zenon
<1>8. ASSUME NEW k \in DOMAIN F
      PROVE  \/ \E i \in DOMAIN down : F[k] = down[i]
             \/ \E i \in DOMAIN pending : F[k] = pending[i]
  <2>1. CASE k \in 1 .. D
    BY <2>1, <1>1, <1>3, Zenon
  <2>2. CASE k \notin 1 .. D
    <3>1. PICK m \in 1 .. P : k = D + m
      BY <2>2, <1>5, Zenon
    <3>2. P + 1 - m \in 1 .. P
      BY <1>1
    <3> QED  BY <3>1, <3>2, <1>1, <1>4, Zenon
  <2> QED  BY <2>1, <2>2, Zenon
<1>9. ASSUME NEW i \in DOMAIN down
      PROVE  \E k \in DOMAIN F : F[k] = down[i]
  <2>1. i \in 1 .. D /\ i \in 1 .. (D + P)
    BY <1>1
  <2> QED  BY <2>1, <1>3, Zenon
<1>10. ASSUME NEW i \in DOMAIN pending
       PROVE  \E k \in DOMAIN F : F[k] = pending[i]
  <2>1. /\ P + 1 - i \in 1 .. P
        /\ D + (P + 1 - i) \in 1 .. (D + P)
        /\ P + 1 - (P + 1 - i) = i
    BY <1>1
  <2> QED  BY <2>1, <1>3, <1>4, Zenon
<1> QED  BY <1>3, <1>7, <1>8, <1>9, <1>10, Zenon DEF F
\* A number newer than all of an ascending sequence goes behind it.
LEMMA AppendInOrder ==
  ASSUME NEW s \in Seq(Nat), NEW m \in Nat,
         \A i, j \in DOMAIN s : i < j => s[i] < s[j],
         \A i \in DOMAIN s : s[i] < m
  PROVE  /\ Append(s, m) \in Seq(Nat)
         /\ \A i, j \in DOMAIN Append(s, m) : i < j => Append(s, m)[i] < Append(s, m)[j]
         /\ \A i \in DOMAIN Append(s, m) : Append(s, m)[i] <= m
         /\ \A i \in DOMAIN s : \E k \in DOMAIN Append(s, m) : Append(s, m)[k] = s[i]
         /\ \E k \in DOMAIN Append(s, m) : Append(s, m)[k] = m
<1> DEFINE a == Append(s, m)  l == Len(s)
<1>1. /\ a \in Seq(Nat) /\ l \in Nat
      /\ DOMAIN s = 1 .. l /\ DOMAIN a = 1 .. (l + 1)
      /\ \A i \in 1 .. l : a[i] = s[i]
      /\ a[l + 1] = m
  BY AppendProperties
<1> HIDE DEF a, l
<1>2. \A i \in DOMAIN a : i \in DOMAIN s \/ i = l + 1
  BY <1>1
<1>3. \A i \in DOMAIN s : i \in DOMAIN a /\ i < l + 1 /\ a[i] = s[i]
  BY <1>1
<1>4. \A i, j \in DOMAIN a : i < j => a[i] < a[j]
  BY <1>1, <1>2, <1>3
<1>5. \A i \in DOMAIN a : a[i] <= m
  BY <1>1, <1>2, <1>3
<1>6. l + 1 \in DOMAIN a
  BY <1>1
<1> QED  BY <1>1, <1>3, <1>4, <1>5, <1>6, Zenon DEF a

\* What waits is pushed.
LEMMA Flushed ==
  ASSUME Types, Sorted, Older, Kept
  PROVE  /\ \A k \in DOMAIN Joined : Joined[k] <= n /\ (Fresh => Joined[k] < n)
         /\ \A e \in held : \E k \in DOMAIN Joined : Joined[k] = e
<1>1. \A k \in DOMAIN Joined : Joined[k] <= n /\ (Fresh => Joined[k] < n)
  BY JoinedInOrder DEF Older
<1>2. ASSUME NEW e \in held
      PROVE  \E k \in DOMAIN Joined : Joined[k] = e
  <2>1. CASE \E i \in DOMAIN down : down[i] = e
    <3>1. PICK i \in DOMAIN down : down[i] = e
      BY <2>1
    <3> QED  BY <3>1, JoinedInOrder
  <2>2. CASE \E i \in DOMAIN pending : pending[i] = e
    <3>1. PICK i \in DOMAIN pending : pending[i] = e
      BY <2>2
    <3> QED  BY <3>1, JoinedInOrder
  <2> QED  BY <2>1, <2>2 DEF Kept
<1> QED  BY <1>1, <1>2

\* A step that leaves the stream and the count of the items alone, and does not
\* make an output due.
LEMMA QuietStep ==
  ASSUME Sorted, Older, Kept, UNCHANGED <<n, stream>>, Fresh' => Fresh
  PROVE  Sorted' /\ Older' /\ Kept'
BY DEF Sorted, Older, Kept, stream

\* The next item is newer than all that went and all that waits.
LEMMA Arrival ==
  ASSUME Types, Older, UNCHANGED <<down, pending>>, n' = n + 1
  PROVE  Older'
BY DEF Types, Older

\* What becomes of a frame.
LEMMA FrameTypes ==
  /\ NoFrame \in AnyFrame
  /\ \A f \in AnyFrame :
       /\ f.idx \in Nat
       /\ [f EXCEPT !.copied = TRUE] \in AnyFrame /\ [f EXCEPT !.copied = TRUE].idx = f.idx
       /\ [f EXCEPT !.reg = TRUE] \in AnyFrame /\ [f EXCEPT !.reg = TRUE].idx = f.idx
  /\ \A i \in Nat, d \in BOOLEAN :
       /\ [NoFrame EXCEPT !.idx = i, !.dma = d] \in AnyFrame
       /\ [NoFrame EXCEPT !.idx = i, !.dma = d].idx = i
BY DEF AnyFrame, NoFrame

LEMMA FrameIdx == \A f \in AnyFrame : f.idx \in Nat
BY FrameTypes

\* Every failure of generate_output.
LEMMA Emptied ==
  ASSUME OrderInv, GenerateFails
  PROVE  /\ Types' /\ Newest' /\ Filled'
         /\ UNCHANGED <<n, stream>> /\ (Fresh' => Fresh)
<1>1. Types'
  <2>1. NoFrame \in AnyFrame
    BY FrameTypes
  <2> QED
    BY <2>1 DEF OrderInv, Types, GenerateFails, ReleaseAll, setup, stream
<1> QED
  BY <1>1 DEF OrderInv, Types, GenerateFails, ReleaseAll, setup, stream, Newest, Filled,
       Fresh, Taking, Making

LEMMA OrderInit == Init => OrderInv
BY SdxAssumption DEF Init, OrderInv, Types, Sorted, Older, Kept, Newest, Filled, Fresh,
     NoFrame, AnyFrame, Taking, Making

LEMMA OrderStep == OrderInv /\ [Next]_vars => OrderInv'
<1> SUFFICES ASSUME OrderInv, [Next]_vars
             PROVE  OrderInv'
  OBVIOUS
<1> USE DEF OrderInv
<1>1. CASE NewFrame
  <2>1. Types'
    BY <1>1, FrameTypes DEF Types, NewFrame, CopyInput, SubmitFails, Fault,
         setup, arrival, chain, queues, stream, memory, Filled, Taking, Making
  <2>2. Newest' /\ Filled'
    BY <1>1, FrameTypes DEF Types, Newest, Filled, NewFrame, CopyInput, SubmitFails, Fault,
         setup, arrival, chain, queues, stream, memory, Taking, Making
  <2>3. UNCHANGED <<n, stream>> /\ (Fresh' => Fresh)
    BY <1>1 DEF Fresh, Types, Filled, NewFrame, CopyInput, SubmitFails, Fault,
         setup, arrival, chain, queues, stream, memory, Taking, Making
  <2> QED  BY <2>1, <2>2, <2>3, QuietStep
<1>2. CASE MapInput
  <2>1. Types'
    BY <1>2, FrameTypes DEF Types, MapInput, SubmitFails, Fault,
         setup, arrival, chain, queues, stream, memory, Filled, Taking, Making
  <2>2. Newest' /\ Filled'
    BY <1>2, FrameTypes DEF Types, Newest, Filled, MapInput, SubmitFails, Fault,
         setup, arrival, chain, queues, stream, memory, Taking, Making
  <2>3. UNCHANGED <<n, stream>> /\ (Fresh' => Fresh)
    BY <1>2 DEF Fresh, Types, Filled, MapInput, SubmitFails, Fault,
         setup, arrival, chain, queues, stream, memory, Taking, Making
  <2> QED  BY <2>1, <2>2, <2>3, QuietStep
<1>3. CASE RegisterInput
  <2>1. Types'
    BY <1>3, FrameTypes DEF Types, RegisterInput, Fault,
         setup, arrival, chain, queues, stream, memory, Filled, Taking, Making
  <2>2. Newest' /\ Filled'
    BY <1>3, FrameTypes DEF Types, Newest, Filled, RegisterInput, Fault,
         setup, arrival, chain, queues, stream, memory, Taking, Making
  <2>3. UNCHANGED <<n, stream>> /\ (Fresh' => Fresh)
    BY <1>3 DEF Fresh, Types, Filled, RegisterInput, Fault,
         setup, arrival, chain, queues, stream, memory, Taking, Making
  <2> QED  BY <2>1, <2>2, <2>3, QuietStep
<1>4. CASE Recover
  <2>1. Types'
    BY <1>4, FrameTypes DEF Types, Recover, CopyInput, SubmitFails, Fault,
         setup, arrival, chain, queues, stream, memory, Filled, Taking, Making
  <2>2. Newest' /\ Filled'
    BY <1>4, FrameTypes DEF Types, Newest, Filled, Recover, CopyInput, SubmitFails, Fault,
         setup, arrival, chain, queues, stream, memory, Taking, Making
  <2>3. UNCHANGED <<n, stream>> /\ (Fresh' => Fresh)
    BY <1>4 DEF Fresh, Types, Filled, Recover, CopyInput, SubmitFails, Fault,
         setup, arrival, chain, queues, stream, memory, Taking, Making
  <2> QED  BY <2>1, <2>2, <2>3, QuietStep
<1>5. CASE QueueFrame
  <2>1. /\ pc = "queue" /\ pc' = "generate" /\ cur \in AnyFrame /\ cur.idx = n
        /\ NoFrame \in AnyFrame
    BY <1>5, FrameTypes DEF QueueFrame, Types, Newest, Taking
  <2>2. /\ fifo' \in Seq(AnyFrame) /\ Len(fifo') = Len(fifo) + 1
        /\ fifo'[Len(fifo) + 1] = cur
        /\ taken' \in Seq(Nat)
    <3>1. fifo' = Append(fifo, cur) /\ taken' = Append(taken, cur.idx)
      BY <1>5 DEF QueueFrame
    <3>2. fifo \in Seq(AnyFrame) /\ taken \in Seq(Nat) /\ n \in Nat
      BY DEF Types
    <3> QED  BY <2>1, <3>1, <3>2, AppendProperties
  <2>3. Types'
    BY <1>5, <2>1, <2>2 DEF QueueFrame, Types, setup, arrival, stream
  <2>4. Newest' /\ Filled'
    <3>1. Len(fifo) < ipo /\ ipo' = ipo /\ n' = n /\ Len(fifo) \in Nat /\ ipo \in Nat
      BY <1>5, <2>1 DEF QueueFrame, Types, Filled, Taking, setup, arrival
    <3> QED  BY <2>1, <2>2, <3>1 DEF Newest, Filled, Taking, Making
  <2>5. UNCHANGED <<n, stream>> /\ (Fresh' => Fresh)
    BY <1>5 DEF Fresh, Types, Filled, QueueFrame,
         setup, arrival, chain, queues, stream, memory, Taking, Making
  <2> QED  BY <2>3, <2>4, <2>5, QuietStep
<1>6. CASE TooFew
  <2>1. Types'
    BY <1>6, FrameTypes DEF Types, TooFew,
         setup, arrival, chain, queues, stream, memory, Filled, Taking, Making
  <2>2. Newest' /\ Filled'
    BY <1>6, FrameTypes DEF Types, Newest, Filled, TooFew,
         setup, arrival, chain, queues, stream, memory, Taking, Making
  <2>3. UNCHANGED <<n, stream>> /\ (Fresh' => Fresh)
    BY <1>6 DEF Fresh, Types, Filled, TooFew,
         setup, arrival, chain, queues, stream, memory, Taking, Making
  <2> QED  BY <2>1, <2>2, <2>3, QuietStep
<1>7. CASE CreateOutput
  <2>1. CASE GenerateFails
    BY <2>1, Emptied, QuietStep
  <2>2. CASE ~GenerateFails
    <3> DEFINE last == fifo[Len(fifo)]
    <3>1. /\ pc = "generate" /\ Len(fifo) >= ipo /\ pc' = "outmap"
          /\ UNCHANGED <<setup, arrival, cur, queues, stream>>
          /\ \E dma \in BOOLEAN : out' = [NoFrame EXCEPT !.idx = last.idx, !.dma = dma]
      BY <1>7, <2>2 DEF CreateOutput
    <3>2. Len(fifo) = ipo /\ last \in AnyFrame /\ last.idx = n
      BY <3>1 DEF Types, Filled, Newest
    <3> HIDE DEF last
    <3>3. out' \in AnyFrame /\ out'.idx = n
      <4>1. PICK dma \in BOOLEAN : out' = [NoFrame EXCEPT !.idx = last.idx, !.dma = dma]
        BY <3>1
      <4>2. last.idx \in Nat
        BY <3>2 DEF Types
      <4>3. /\ [NoFrame EXCEPT !.idx = last.idx, !.dma = dma] \in AnyFrame
            /\ [NoFrame EXCEPT !.idx = last.idx, !.dma = dma].idx = last.idx
        BY <4>2, FrameTypes, Zenon
      <4> QED  BY <4>1, <4>3, <3>2, Zenon
    <3>4. Types' /\ Newest' /\ Filled'
      BY <3>1, <3>2, <3>3 DEF Types, Newest, Filled, Taking, Making, setup, arrival, queues,
           stream
    <3>5. UNCHANGED <<n, stream>> /\ (Fresh' => Fresh)
      BY <3>1, <3>2 DEF Fresh, arrival
    <3> QED  BY <3>4, <3>5, QuietStep
  <2> QED  BY <2>1, <2>2
<1>8. CASE MapOutput
  <2>1. CASE GenerateFails
    BY <2>1, Emptied, QuietStep
  <2>2. CASE ~GenerateFails
    <3>1. Types'
      BY <1>8, <2>2, FrameTypes DEF Types, MapOutput, OutputLost,
           setup, arrival, chain, queues, stream, memory, Taking, Making
    <3>2. Newest' /\ Filled'
      BY <1>8, <2>2, FrameTypes DEF Types, Newest, Filled, MapOutput, OutputLost,
           setup, arrival, chain, queues, stream, memory, Taking, Making
    <3>3. UNCHANGED <<n, stream>> /\ (Fresh' => Fresh)
      BY <1>8, <2>2 DEF Fresh, Types, MapOutput, OutputLost,
           setup, arrival, chain, queues, stream, memory, Taking, Making
    <3> QED  BY <3>1, <3>2, <3>3, QuietStep
  <2> QED  BY <2>1, <2>2
<1>9. CASE RegisterOutput
  <2>1. CASE GenerateFails
    BY <2>1, Emptied, QuietStep
  <2>2. CASE ~GenerateFails
    <3>1. Types'
      BY <1>9, <2>2, FrameTypes DEF Types, RegisterOutput, OutputLost,
           setup, arrival, chain, queues, stream, memory, Taking, Making
    <3>2. Newest' /\ Filled'
      BY <1>9, <2>2, FrameTypes DEF Types, Newest, Filled, RegisterOutput, OutputLost,
           setup, arrival, chain, queues, stream, memory, Taking, Making
    <3>3. UNCHANGED <<n, stream>> /\ (Fresh' => Fresh)
      BY <1>9, <2>2 DEF Fresh, Types, RegisterOutput, OutputLost,
           setup, arrival, chain, queues, stream, memory, Taking, Making
    <3> QED  BY <3>1, <3>2, <3>3, QuietStep
  <2> QED  BY <2>1, <2>2
<1>10. CASE ProcessFrames
  <2>1. CASE GenerateFails
    BY <2>1, Emptied, QuietStep
  <2>2. CASE ~GenerateFails
    <3>1. Types'
      BY <1>10, <2>2, FrameTypes DEF Types, ProcessFrames, OutputLost,
           setup, arrival, chain, queues, stream, memory, Taking, Making
    <3>2. Newest' /\ Filled'
      BY <1>10, <2>2, FrameTypes DEF Types, Newest, Filled, ProcessFrames, OutputLost,
           setup, arrival, chain, queues, stream, memory, Taking, Making
    <3>3. UNCHANGED <<n, stream>> /\ (Fresh' => Fresh)
      BY <1>10, <2>2 DEF Fresh, Types, ProcessFrames, OutputLost,
           setup, arrival, chain, queues, stream, memory, Taking, Making
    <3> QED  BY <3>1, <3>2, <3>3, QuietStep
  <2> QED  BY <2>1, <2>2
<1>11. CASE SetProperty
  <2>1. Types'
    BY <1>11, FrameTypes DEF Types, SetProperty,
         setup, arrival, chain, queues, stream, memory, Filled, Taking, Making
  <2>2. Newest' /\ Filled'
    BY <1>11, FrameTypes DEF Types, Newest, Filled, SetProperty,
         setup, arrival, chain, queues, stream, memory, Taking, Making
  <2>3. UNCHANGED <<n, stream>> /\ (Fresh' => Fresh)
    BY <1>11 DEF Fresh, Types, Filled, SetProperty,
         setup, arrival, chain, queues, stream, memory, Taking, Making
  <2> QED  BY <2>1, <2>2, <2>3, QuietStep
<1>12. CASE Dropped
  <2>1. Types' /\ Newest' /\ Filled'
    BY <1>12 DEF Dropped, Arrives, Types, Newest, Filled, Taking, Making, setup, chain,
         queues, stream
  <2>2. Sorted' /\ Kept' /\ Older'
    BY <1>12, Arrival DEF Dropped, Arrives, Sorted, Kept, stream
  <2> QED  BY <2>1, <2>2
<1>13. CASE Submit
  <2>1. cur' \in AnyFrame /\ cur'.idx = n + 1
    <3>1. PICK d \in BOOLEAN : cur' = [NoFrame EXCEPT !.idx = n + 1, !.dma = d]
      BY <1>13 DEF Submit
    <3>2. n + 1 \in Nat
      BY DEF Types
    <3>3. /\ [NoFrame EXCEPT !.idx = n + 1, !.dma = d] \in AnyFrame
          /\ [NoFrame EXCEPT !.idx = n + 1, !.dma = d].idx = n + 1
      BY <3>2, FrameTypes, Zenon
    <3> QED  BY <3>1, <3>3, Zenon
  <2>2. Types' /\ Newest' /\ Filled'
    BY <1>13, <2>1 DEF Submit, Arrives, Types, Newest, Filled, Taking, Making, setup,
         queues, stream
  <2>3. Sorted' /\ Kept' /\ Older'
    BY <1>13, Arrival DEF Submit, Arrives, Sorted, Kept, stream
  <2> QED  BY <2>2, <2>3
<1>14. CASE Deliver
  <2>1. /\ down' = Joined /\ pending' = << >> /\ UNCHANGED <<n, held>>
        /\ pc' = "push" /\ Fresh
    BY <1>14 DEF Deliver, Joined, arrival, Fresh, Making
  <2>2. /\ fifo # << >> /\ fifo \in Seq(AnyFrame) /\ fifo' = Tail(fifo)
        /\ Len(fifo) = ipo
    BY <1>14 DEF Deliver, Types, Filled, Making
  <2>3. fifo' \in Seq(AnyFrame) /\ Len(fifo') = Len(fifo) - 1
    BY <2>2, HeadTailProperties
  <2>4. Types' /\ Newest' /\ Filled'
    BY <1>14, <2>1, <2>2, <2>3, JoinedInOrder DEF Deliver, Types, Newest, Filled, Taking,
       Making, setup, arrival
  <2>5. Sorted' /\ Older' /\ Kept'
    <3>1. /\ \A i, j \in DOMAIN Joined : i < j => Joined[i] < Joined[j]
          /\ \A k \in DOMAIN Joined : Joined[k] <= n /\ Joined[k] < n
          /\ \A e \in held : \E k \in DOMAIN Joined : Joined[k] = e
      BY <2>1, JoinedInOrder, Flushed
    <3>2. DOMAIN pending' = {}
      BY <2>1
    <3> QED  BY <2>1, <3>1, <3>2, Zenon DEF Sorted, Older, Kept
  <2> QED  BY <2>4, <2>5
<1>15. CASE Push
  <2>1. /\ pc = "push" /\ Fresh /\ out' = NoFrame /\ UNCHANGED <<n, pending, held, fifo, cur>>
        /\ pending = << >> /\ out.idx = n /\ n \in Nat /\ down \in Seq(Nat)
        /\ ipo' = ipo /\ ipo \in Nat /\ Len(fifo) = ipo - 1 /\ NoFrame \in AnyFrame
    BY <1>15, FrameTypes DEF Push, Fresh, Filled, Newest, Types, queues, setup
  <2>2. CASE pc' = "generate"
    <3>1. down' = Append(down, n)
      BY <1>15, <2>1, <2>2 DEF Push
    <3>2. /\ \A i, j \in DOMAIN down : i < j => down[i] < down[j]
          /\ \A i \in DOMAIN down : down[i] < n
      BY <2>1 DEF Sorted, Older
    <3> DEFINE a == Append(down, n)
    <3>3. /\ a \in Seq(Nat)
          /\ \A i, j \in DOMAIN a : i < j => a[i] < a[j]
          /\ \A i \in DOMAIN a : a[i] <= n
          /\ \A i \in DOMAIN down : \E k \in DOMAIN a : a[k] = down[i]
      BY <2>1, <3>2, AppendInOrder, Zenon
    <3>. down' = a
      BY <3>1
    <3> HIDE DEF a
    <3>4. ~Fresh'
      BY <2>1, <2>2 DEF Fresh, Filled, Types, Taking, Making
    <3>5. Types' /\ Newest' /\ Filled'
      BY <1>15, <2>1, <2>2, <3>3 DEF Push, Types, Newest, Filled, Taking, Making, setup, queues
    <3>6. DOMAIN pending' = {} /\ DOMAIN pending = {}
      BY <2>1
    <3>7. Sorted' /\ Older' /\ Kept'
      BY <2>1, <3>3, <3>4, <3>6 DEF Sorted, Older, Kept
    <3> QED  BY <3>5, <3>7
  <2>3. CASE pc' = "idle"
    <3>1. UNCHANGED <<n, stream>> /\ (Fresh' => Fresh)
      BY <1>15, <2>1, <2>3 DEF Push, stream
    <3>2. Types' /\ Newest' /\ Filled'
      BY <1>15, <2>1, <2>3, <3>1 DEF Push, Types, Newest, Filled, Taking, Making, setup, queues,
         stream
    <3> QED  BY <3>1, <3>2, QuietStep
  <2> QED  BY <1>15, <2>2, <2>3 DEF Push
<1>16. CASE QueueEvent
  <2> DEFINE e == <<n + 1>>
  <2>1. /\ pc = "idle" /\ n' = n + 1 /\ pending' = e \o pending
        /\ held' = held \cup {n + 1} /\ UNCHANGED <<setup, flow, chain, queues, down>>
    BY <1>16 DEF QueueEvent, Arrives
  <2>2. e \in Seq(Nat) /\ Len(e) = 1 /\ e[1] = n + 1 /\ pending \in Seq(Nat)
    BY DEF Types
  <2> HIDE DEF e
  <2>3. /\ pending' \in Seq(Nat)
        /\ DOMAIN pending' = 1 .. (1 + Len(pending))
        /\ pending'[1] = n + 1
        /\ \A k \in 1 .. Len(pending) : pending'[1 + k] = pending[k]
    <3> DEFINE c == e \o pending
    <3>1. /\ c \in Seq(Nat)
          /\ DOMAIN c = 1 .. (Len(e) + Len(pending))
          /\ \A k \in 1 .. Len(e) : c[k] = e[k]
          /\ \A k \in 1 .. Len(pending) : c[Len(e) + k] = pending[k]
      BY <2>2, ConcatParts, Zenon
    <3>2. 1 \in 1 .. Len(e)
      BY <2>2
    <3>3. pending' = c
      BY <2>1
    <3> HIDE DEF c
    <3>4. c[1] = n + 1
      BY <2>2, <3>1, <3>2
    <3> QED  BY <2>2, <3>1, <3>3, <3>4
  <2>4. \A k \in DOMAIN pending' :
          k = 1 \/ (k - 1 \in DOMAIN pending /\ pending'[k] = pending[k - 1])
    <3> SUFFICES ASSUME NEW k \in 1 .. (1 + Len(pending)), k # 1
                 PROVE  k - 1 \in DOMAIN pending /\ pending'[k] = pending[k - 1]
      BY <2>3, Zenon
    <3>1. Len(pending) \in Nat /\ DOMAIN pending = 1 .. Len(pending)
      BY <2>2
    <3>2. k - 1 \in 1 .. Len(pending) /\ 1 + (k - 1) = k
      BY <3>1
    <3>3. pending'[1 + (k - 1)] = pending[k - 1]
      BY <2>3, <3>2, Zenon
    <3> QED  BY <3>1, <3>2, <3>3, Zenon
  <2>5. Types' /\ Newest' /\ Filled'
    BY <2>1, <2>3 DEF Types, Newest, Filled, Taking, Making, setup, chain, queues
  <2>6. n \in Nat /\ ~Fresh'
    BY <2>1, <2>5 DEF Types, Fresh, Taking, Making, chain
  <2>7. Sorted'
    <3>1. ASSUME NEW i \in DOMAIN pending', NEW j \in DOMAIN pending', i < j
          PROVE  pending'[j] < pending'[i]
      <4>1. j # 1 /\ j - 1 \in DOMAIN pending /\ pending'[j] = pending[j - 1]
            /\ pending[j - 1] <= n /\ pending[j - 1] \in Nat
        BY SMTT(40), <2>2, <2>3, <2>4, <3>1 DEF Older
      <4>2. CASE i = 1
        BY <4>1, <4>2, <2>3, <2>6
      <4>3. CASE i # 1
        <5>1. i - 1 \in DOMAIN pending /\ pending'[i] = pending[i - 1] /\ i - 1 < j - 1
          BY <4>3, <2>3, <2>4, <3>1
        <5> QED  BY <4>1, <5>1 DEF Sorted
      <4> QED  BY <4>2, <4>3
    <3>2. ASSUME NEW i \in DOMAIN down, NEW j \in DOMAIN pending'
          PROVE  down[i] < pending'[j]
      <4>1. down[i] <= n /\ down[i] \in Nat
        BY DEF Older, Types
      <4>2. CASE j = 1
        BY <4>1, <4>2, <2>3, <2>6
      <4>3. CASE j # 1
        BY <4>3, <2>4 DEF Sorted
      <4> QED  BY <4>2, <4>3
    <3> QED  BY <2>1, <3>1, <3>2 DEF Sorted
  <2>8. Older'
    <3>1. \A i \in DOMAIN down : down[i] <= n /\ down[i] \in Nat
      BY DEF Older, Types
    <3>2. \A i \in DOMAIN pending : pending[i] <= n /\ pending[i] \in Nat
      BY DEF Older, Types
    <3>3. down' = down /\ n' = n + 1
      BY <2>1
    <3>4. \A i \in DOMAIN pending' : pending'[i] <= n'
      BY <2>3, <2>4, <2>6, <3>2, <3>3
    <3>5. \A i \in DOMAIN down' : down'[i] <= n'
      BY <2>6, <3>1, <3>3
    <3> QED  BY <2>6, <3>4, <3>5 DEF Older
  <2>9. Kept'
    <3>1. 1 \in DOMAIN pending'
      BY <2>2, <2>3
    <3>2. ASSUME NEW k \in DOMAIN pending
          PROVE  \E m \in DOMAIN pending' : pending'[m] = pending[k]
      <4>1. Len(pending) \in Nat /\ DOMAIN pending = 1 .. Len(pending)
        BY <2>2
      <4>2. 1 + k \in 1 .. (1 + Len(pending)) /\ k \in 1 .. Len(pending)
        BY <4>1
      <4> QED  BY <4>2, <2>3, Zenon
    <3>3. ASSUME NEW x \in held'
          PROVE  \/ \E k \in DOMAIN down' : down'[k] = x
                 \/ \E k \in DOMAIN pending' : pending'[k] = x
      <4>1. CASE x = n + 1
        BY <4>1, <2>3, <3>1
      <4>2. CASE \E k \in DOMAIN down : down[k] = x
        BY <4>2, <2>1
      <4>3. CASE \E k \in DOMAIN pending : pending[k] = x
        <5>1. PICK k \in DOMAIN pending : pending[k] = x
          BY <4>3
        <5> QED  BY <5>1, <3>2
      <4> QED  BY <4>1, <4>2, <4>3, <2>1 DEF Kept
    <3> QED  BY <3>3 DEF Kept
  <2> QED  BY <2>5, <2>7, <2>8, <2>9
<1>17. CASE PassEvent
  <2>1. /\ pc = "idle" /\ n' = n + 1 /\ down' = Append(Joined, n + 1)
        /\ pending' = << >> /\ fifo' = << >> /\ taken' = << >>
        /\ flow' \in {"ok", "eos"} /\ UNCHANGED <<setup, chain, held>>
    BY <1>17 DEF PassEvent, ReleaseAll, Joined
  <2>2. /\ Joined \in Seq(Nat) /\ n \in Nat
        /\ \A i, j \in DOMAIN Joined : i < j => Joined[i] < Joined[j]
        /\ \A i \in DOMAIN Joined : Joined[i] < n + 1
    <3>1. n \in Nat
      BY DEF Types
    <3> QED  BY <3>1, JoinedInOrder, Flushed
  <2> DEFINE a == Append(Joined, n + 1)
  <2>3. /\ a \in Seq(Nat)
        /\ \A i, j \in DOMAIN a : i < j => a[i] < a[j]
        /\ \A i \in DOMAIN a : a[i] <= n + 1
        /\ \A i \in DOMAIN Joined : \E k \in DOMAIN a : a[k] = Joined[i]
    <3>1. n + 1 \in Nat
      BY <2>2
    <3> QED  BY <2>2, <3>1, AppendInOrder, Zenon
  <2>. down' = a
    BY <2>1
  <2> HIDE DEF a
  <2>4. Types' /\ Newest' /\ Filled'
    BY <2>1, <2>2, <2>3 DEF Types, Newest, Filled, Taking, Making, setup, chain
  <2>5. DOMAIN pending' = {} /\ ~Fresh'
    BY <2>1, <2>4 DEF Fresh, Types, Taking, Making, chain
  <2>6. Sorted' /\ Older' /\ Kept'
    <3>1. ASSUME NEW e \in held
          PROVE  \E k \in DOMAIN a : a[k] = e
      <4>1. PICK i \in DOMAIN Joined : Joined[i] = e
        BY Flushed
      <4> QED  BY <4>1, <2>3
    <3> QED  BY <2>1, <2>3, <2>5, <3>1 DEF Sorted, Older, Kept
  <2> QED  BY <2>4, <2>6
<1>18. CASE Reset
  BY <1>18 DEF Reset, ReleaseAll, Types, Sorted, Older, Kept, Newest, Filled, Taking, Making,
     Fresh, setup, chain
<1>19. CASE UNCHANGED vars
  <2>1. Types' /\ Newest' /\ Filled'
    BY <1>19 DEF vars, setup, arrival, chain, queues, stream, Types, Newest, Filled
  <2>2. UNCHANGED <<n, stream>> /\ (Fresh' => Fresh)
    BY <1>19 DEF vars, setup, arrival, chain, queues, Fresh
  <2> QED  BY <2>1, <2>2, QuietStep
<1> QED
  BY <1>1, <1>2, <1>3, <1>4, <1>5, <1>6, <1>7, <1>8, <1>9, <1>10, <1>11, <1>12, <1>13, <1>14,
     <1>15, <1>16, <1>17, <1>18, <1>19
     DEF Next, SubmitInputBuffer, GenerateOutput, SinkEvent

\* Downstream gets outputs and events in the order in which inputs and events came,
\* and no event is lost but by a reset (gst_sdx_base_sink_event,
\* gst_sdx_base_push_pending_events).
THEOREM OrderKept == Spec => []InOrder
<1>1. OrderInv => InOrder
  BY DEF OrderInv, Sorted, Kept, InOrder
<1> QED  BY OrderInit, OrderStep, <1>1, PTL DEF Spec

-----------------------------------------------------------------------------
(* The window. *)

\* The FIFO has room for the next frame; an output of its frames is due.
Room == pc \in Taking \cup {"idle", "push"} \/ (pc = "generate" /\ Len(fifo) < ipo)
Due  == pc \in Making \cup {"push"} \/ (pc = "generate" /\ Len(fifo) = ipo)

\* A FIFO with room holds all frames taken, or all that fit beside the next one.
Slid ==
  /\ Len(fifo) <= Len(taken) /\ IsTail
  /\ Room => Len(fifo) = IF Len(taken) < ipo THEN Len(taken) ELSE ipo - 1
  /\ Due => Len(taken) >= ipo
  /\ pc \in Making \cup {"push"} => taken[Len(taken)] = out.idx

\* Every frame that completed a window, but the one in the making, has its output.
Done(last) ==
  \A k \in ipo .. last : \E d \in DOMAIN down : down[d] = taken[k]

Delivered ==
  /\ pc # "idle" => flow = "ok"
  /\ flow = "ok" => Done(IF Due THEN Len(taken) - 1 ELSE Len(taken))

WindowInv == Slid /\ Delivered

LEMMA WindowQuiet ==
  ASSUME WindowInv, UNCHANGED <<ipo, queues, down>>,
         Room' => Room, Due' => Due,
         pc' \in Making \cup {"push"} => taken[Len(taken)] = out'.idx,
         pc' # "idle" => flow' = "ok",
         flow' = "ok" => flow = "ok" /\ (Due => Due')
  PROVE  WindowInv'
<1>1. Slid'
  BY DEF WindowInv, Slid, IsTail, queues
<1>2. Delivered'
  BY DEF WindowInv, Delivered, Done, queues
<1> QED  BY <1>1, <1>2 DEF WindowInv

LEMMA WindowEmpty ==
  ASSUME OrderInv', fifo' = << >>, taken' = << >>, pc' = "idle"
  PROVE  WindowInv'
BY DEF OrderInv, Types, WindowInv, Slid, IsTail, Room, Due, Delivered, Done, Making

LEMMA WindowInit == Init => WindowInv
BY SdxAssumption DEF Init, WindowInv, Slid, IsTail, Room, Due, Delivered, Done, Making

LEMMA WindowStep == OrderInv /\ OrderInv' /\ WindowInv /\ [Next]_vars => WindowInv'
<1> SUFFICES ASSUME OrderInv, OrderInv', WindowInv, [Next]_vars
             PROVE  WindowInv'
  OBVIOUS
<1>1. CASE Dropped
  BY <1>1, WindowQuiet DEF Dropped, Arrives, WindowInv, Slid, Delivered, Room, Due,
     OrderInv, Filled, Taking, Making, setup, arrival, chain, queues, stream
<1>2. CASE Submit
  BY <1>2, WindowQuiet DEF Submit, Arrives, WindowInv, Slid, Delivered, Room, Due,
     OrderInv, Filled, Taking, Making, setup, arrival, chain, queues, stream
<1>3. CASE NewFrame
  BY <1>3, WindowQuiet DEF NewFrame, CopyInput, SubmitFails, WindowInv, Slid, Delivered, Room, Due,
     OrderInv, Filled, Taking, Making, setup, arrival, chain, queues, stream
<1>4. CASE MapInput
  BY <1>4, WindowQuiet DEF MapInput, SubmitFails, WindowInv, Slid, Delivered, Room, Due,
     OrderInv, Filled, Taking, Making, setup, arrival, chain, queues, stream
<1>5. CASE RegisterInput
  BY <1>5, WindowQuiet DEF RegisterInput, WindowInv, Slid, Delivered, Room, Due,
     OrderInv, Filled, Taking, Making, setup, arrival, chain, queues, stream
<1>6. CASE Recover
  BY <1>6, WindowQuiet DEF Recover, CopyInput, SubmitFails, WindowInv, Slid, Delivered, Room, Due,
     OrderInv, Filled, Taking, Making, setup, arrival, chain, queues, stream
<1>7. CASE TooFew
  BY <1>7, WindowQuiet DEF TooFew, WindowInv, Slid, Delivered, Room, Due,
     OrderInv, Filled, Taking, Making, setup, arrival, chain, queues, stream
<1>8. CASE QueueEvent
  BY <1>8, WindowQuiet DEF QueueEvent, Arrives, WindowInv, Slid, Delivered, Room, Due,
     OrderInv, Filled, Taking, Making, setup, arrival, chain, queues, stream
<1>9. CASE SetProperty
  BY <1>9, WindowQuiet DEF SetProperty, WindowInv, Slid, Delivered, Room, Due,
     OrderInv, Filled, Taking, Making, setup, arrival, chain, queues, stream
<1>10. CASE UNCHANGED vars
  BY <1>10, WindowQuiet DEF vars, WindowInv, Slid, Delivered, Room, Due,
     OrderInv, Filled, Taking, Making, setup, arrival, chain, queues, stream
<1>11. CASE MapOutput
  <2>1. CASE GenerateFails
    BY <2>1, WindowEmpty DEF GenerateFails, ReleaseAll
  <2>2. CASE ~GenerateFails
    BY <1>11, <2>2, WindowQuiet DEF MapOutput, OutputLost, WindowInv, Slid, Delivered,
       Room, Due, Taking, Making, setup, arrival, queues, stream
  <2> QED  BY <2>1, <2>2
<1>12. CASE RegisterOutput
  <2>1. CASE GenerateFails
    BY <2>1, WindowEmpty DEF GenerateFails, ReleaseAll
  <2>2. CASE ~GenerateFails
    <3>1. /\ pc = "outregister" /\ pc' = "process"
          /\ UNCHANGED <<setup, arrival, queues, stream>>
      BY <1>12, <2>2 DEF RegisterOutput, OutputLost
    <3>2. out'.idx = out.idx
      BY <3>1 DEF OrderInv, Newest, arrival, Making
    <3> QED
      BY <3>1, <3>2, WindowQuiet DEF WindowInv, Slid, Delivered, Room, Due, Taking, Making,
         setup, arrival, stream
  <2> QED  BY <2>1, <2>2
<1>13. CASE ProcessFrames
  <2>1. CASE GenerateFails
    BY <2>1, WindowEmpty DEF GenerateFails, ReleaseAll
  <2>2. CASE ~GenerateFails
    BY <1>13, <2>2, WindowQuiet DEF ProcessFrames, WindowInv, Slid, Delivered,
       Room, Due, Taking, Making, setup, arrival, queues, stream
  <2> QED  BY <2>1, <2>2
<1>14. CASE CreateOutput
  <2>1. CASE GenerateFails
    BY <2>1, WindowEmpty DEF GenerateFails, ReleaseAll
  <2>2. CASE ~GenerateFails
    <3>1. /\ pc = "generate" /\ pc' = "outmap" /\ Len(fifo) = ipo
          /\ UNCHANGED <<setup, arrival, queues, stream>>
      <4>1. /\ pc = "generate" /\ pc' = "outmap" /\ Len(fifo) >= ipo
            /\ UNCHANGED <<setup, arrival, queues, stream>>
        BY <1>14, <2>2 DEF CreateOutput
      <4> QED  BY <4>1 DEF OrderInv, Filled, Types
    <3>2. Len(fifo) \in Nat \ {0} /\ Len(taken) \in Nat /\ DOMAIN fifo = 1 .. Len(fifo)
      BY <3>1 DEF OrderInv, Types
    <3>3. fifo[Len(fifo)].idx = taken[Len(taken)]
      <4>1. Len(fifo) \in DOMAIN fifo
        BY <3>2
      <4>2. fifo[Len(fifo)].idx = taken[Len(taken) - Len(fifo) + Len(fifo)]
        BY <4>1, Zenon DEF WindowInv, Slid, IsTail
      <4> QED  BY <4>2, <3>2
    <3>4. out'.idx = taken[Len(taken)]
      BY <3>1, <3>3 DEF OrderInv, Newest, arrival, Making
    <3>5. flow' = "ok" /\ flow = "ok"
      BY <3>1 DEF WindowInv, Delivered, arrival
    <3>6. ~Room' /\ Due /\ Due'
      BY <3>1 DEF Room, Due, Taking, Making
    <3> QED  BY <3>1, <3>4, <3>5, <3>6, WindowQuiet DEF setup, stream
  <2> QED  BY <2>1, <2>2
<1>15. CASE PassEvent \/ Reset
  BY <1>15, WindowEmpty DEF PassEvent, Reset, ReleaseAll, chain
<1>16. CASE QueueFrame
  <2> DEFINE l == Len(fifo)  t == Len(taken)
  <2>1. /\ pc = "queue" /\ pc' = "generate"
        /\ fifo' = Append(fifo, cur) /\ taken' = Append(taken, cur.idx)
        /\ UNCHANGED <<ipo, flow, down>>
    BY <1>16 DEF QueueFrame, setup, arrival, stream
  <2>2. /\ fifo \in Seq(AnyFrame) /\ taken \in Seq(Nat) /\ cur \in AnyFrame /\ cur.idx \in Nat
        /\ ipo \in Nat \ {0} /\ l \in Nat /\ t \in Nat
    BY FrameIdx DEF OrderInv, Types
  <2>3. /\ l < ipo /\ l <= t /\ l = (IF t < ipo THEN t ELSE ipo - 1)
        /\ flow = "ok"
    BY <2>1 DEF OrderInv, Filled, WindowInv, Slid, Room, Delivered, Taking
  <2>4. /\ DOMAIN fifo = 1 .. l /\ DOMAIN fifo' = 1 .. (l + 1) /\ Len(fifo') = l + 1
        /\ \A k \in 1 .. l : fifo'[k] = fifo[k]
        /\ fifo'[l + 1] = cur
    BY <2>1, <2>2, AppendProperties
  <2>5. /\ DOMAIN taken = 1 .. t /\ DOMAIN taken' = 1 .. (t + 1) /\ Len(taken') = t + 1
        /\ \A k \in 1 .. t : taken'[k] = taken[k]
        /\ taken'[t + 1] = cur.idx
    BY <2>1, <2>2, AppendProperties
  <2>6. \A k \in 1 .. l : fifo[k].idx = taken[t - l + k]
    BY <2>4, Zenon DEF WindowInv, Slid, IsTail
  <2>7. \A k \in ipo .. t : \E d \in DOMAIN down : down[d] = taken[k]
    <3>1. ~Due
      BY <2>1 DEF Due, Making
    <3> QED  BY <2>3, <3>1 DEF WindowInv, Delivered, Done
  <2> HIDE DEF l, t
  <2>8. IsTail'
    <3>1. ASSUME NEW k \in DOMAIN fifo'
          PROVE  fifo'[k].idx = taken'[(t + 1) - (l + 1) + k]
      <4>1. CASE k = l + 1
        <5>1. (t + 1) - (l + 1) + k = t + 1
          BY <4>1, <2>2
        <5> QED  BY <4>1, <5>1, <2>4, <2>5
      <4>2. CASE k # l + 1
        <5>1. /\ k \in 1 .. l /\ (t + 1) - (l + 1) + k = t - l + k
              /\ t - l + k \in 1 .. t
          BY <4>2, <2>2, <2>3, <2>4
        <5> QED  BY <5>1, <2>4, <2>5, <2>6
      <4> QED  BY <4>1, <4>2
    <3> QED  BY <3>1, <2>4, <2>5 DEF IsTail
  <2>9. Slid'
    BY <2>1, <2>2, <2>3, <2>4, <2>5, <2>8 DEF Slid, Room, Due, Taking, Making
  <2>10. Delivered'
    <3>1. Due' <=> l + 1 = ipo
      BY <2>1, <2>4 DEF Due, Making
    <3>2. CASE l + 1 = ipo
      <4>1. \A k \in ipo .. t : k \in 1 .. t
        BY <2>2
      <4>2. (t + 1) - 1 = t
        BY <2>2
      <4> QED  BY <2>1, <2>3, <2>5, <2>7, <3>1, <3>2, <4>1, <4>2 DEF Delivered, Done
    <3>3. CASE l + 1 # ipo
      <4>1. ipo .. (t + 1) = {}
        BY <3>3, <2>2, <2>3
      <4> QED  BY <2>1, <2>3, <2>5, <3>1, <3>3, <4>1 DEF Delivered, Done
    <3> QED  BY <3>2, <3>3
  <2> QED  BY <2>9, <2>10 DEF WindowInv
<1>17. CASE Deliver
  <2> DEFINE l == Len(fifo)  t == Len(taken)
  <2>1. /\ pc = "deliver" /\ pc' = "push" /\ fifo' = Tail(fifo) /\ down' = Joined
        /\ UNCHANGED <<ipo, flow, taken, out>>
    BY <1>17 DEF Deliver, Joined, setup, arrival
  <2>2. /\ fifo \in Seq(AnyFrame) /\ fifo # << >> /\ taken \in Seq(Nat)
        /\ ipo \in Nat \ {0} /\ l \in Nat /\ t \in Nat /\ l = ipo /\ l <= t
        /\ DOMAIN fifo = 1 .. l
    BY <2>1 DEF OrderInv, Types, Filled, Making, WindowInv, Slid
  <2>3. /\ Len(fifo') = l - 1 /\ DOMAIN fifo' = 1 .. (l - 1)
        /\ \A k \in 1 .. (l - 1) : fifo'[k] = fifo[k + 1]
    BY <2>1, <2>2, HeadTailProperties
  <2>4. flow = "ok" /\ t >= ipo /\ taken[t] = out.idx
    BY <2>1 DEF WindowInv, Slid, Delivered, Due, Making
  <2>5. \A k \in 1 .. l : fifo[k].idx = taken[t - l + k]
    BY <2>2, Zenon DEF WindowInv, Slid, IsTail
  <2>6. Due /\ Due'
    BY <2>1 DEF Due, Making
  <2>7. \A k \in ipo .. (t - 1) : \E d \in DOMAIN Joined : Joined[d] = taken[k]
    <3>1. ASSUME NEW k \in ipo .. (t - 1)
          PROVE  \E d \in DOMAIN Joined : Joined[d] = taken[k]
      <4>1. PICK d \in DOMAIN down : down[d] = taken[k]
        BY <2>4, <2>6 DEF WindowInv, Delivered, Done
      <4> QED  BY <4>1, JoinedInOrder DEF OrderInv
    <3> QED  BY <3>1
  <2> HIDE DEF l
  <2>8. IsTail'
    <3>1. ASSUME NEW k \in 1 .. (l - 1)
          PROVE  fifo'[k].idx = taken[t - (l - 1) + k]
      <4>1. k + 1 \in 1 .. l /\ t - l + (k + 1) = t - (l - 1) + k
        BY <2>2
      <4> QED  BY <4>1, <2>3, <2>5
    <3> QED  BY <3>1, <2>1, <2>3 DEF IsTail
  <2>9. Slid'
    BY <2>1, <2>2, <2>3, <2>4, <2>8 DEF Slid, Room, Due, Taking, Making
  <2>10. Delivered'
    BY <2>1, <2>4, <2>6, <2>7 DEF Delivered, Done
  <2> QED  BY <2>9, <2>10 DEF WindowInv
<1>18. CASE Push
  <2> DEFINE t == Len(taken)
  <2>1. /\ pc = "push" /\ UNCHANGED <<ipo, fifo, taken>>
        /\ \/ down' = Append(down, out.idx) /\ pc' = "generate" /\ flow' = flow
           \/ down' = down /\ pc' = "idle" /\ flow' = "stopped"
    BY <1>18 DEF Push, setup, queues
  <2>2. /\ taken \in Seq(Nat) /\ down \in Seq(Nat) /\ out.idx \in Nat
        /\ ipo \in Nat \ {0} /\ t \in Nat /\ Len(fifo) = ipo - 1
    BY <2>1, FrameIdx DEF OrderInv, Types, Filled
  <2>3. flow = "ok" /\ t >= ipo /\ taken[t] = out.idx /\ Due /\ Room
    BY <2>1 DEF WindowInv, Slid, Delivered, Due, Room, Making
  <2>4. CASE pc' = "idle"
    BY <2>1, <2>4, WindowQuiet DEF Room, Due, queues, Making
  <2>5. CASE pc' = "generate"
    <3>1. /\ DOMAIN down = 1 .. Len(down) /\ Len(down) \in Nat
          /\ DOMAIN down' = 1 .. (Len(down) + 1)
          /\ \A d \in 1 .. Len(down) : down'[d] = down[d]
          /\ down'[Len(down) + 1] = out.idx
      <4> DEFINE x == out.idx
      <4>1. down' = Append(down, x)
        BY <2>1, <2>5
      <4>2. x \in Nat
        BY <2>2
      <4> HIDE DEF x
      <4>3. down' = Append(down, x) /\ down' \in Seq(Nat) /\ x = out.idx
        BY <2>2, <4>1, <4>2, AppendProperties DEF x
      <4> QED  BY <2>2, <4>2, <4>3, AppendProperties
    <3>2. ~Due'
      BY <2>1, <2>2, <2>5 DEF Due, Making
    <3>3. Slid'
      BY <2>1, <2>2, <2>3, <2>5, <3>2 DEF WindowInv, Slid, IsTail, Room, Making
    <3>4. ASSUME NEW k \in ipo .. t
          PROVE  \E d \in DOMAIN down' : down'[d] = taken[k]
      <4>1. CASE k = t
        <5>1. Len(down) + 1 \in DOMAIN down'
          BY <3>1
        <5> QED  BY <4>1, <5>1, <3>1, <2>3
      <4>2. CASE k # t
        <5>1. k \in ipo .. (t - 1)
          BY <4>2, <2>2
        <5>2. PICK d \in DOMAIN down : down[d] = taken[k]
          BY <5>1, <2>3 DEF WindowInv, Delivered, Done
        <5>3. d \in DOMAIN down' /\ d \in 1 .. Len(down)
          BY <3>1
        <5> QED  BY <5>2, <5>3, <3>1
      <4> QED  BY <4>1, <4>2
    <3>5. Delivered'
      BY <2>1, <2>3, <2>5, <3>2, <3>4 DEF Delivered, Done
    <3> QED  BY <3>3, <3>5 DEF WindowInv
  <2> QED  BY <2>1, <2>4, <2>5
<1> QED
  BY <1>1, <1>2, <1>3, <1>4, <1>5, <1>6, <1>7, <1>8, <1>9, <1>10, <1>11, <1>12, <1>13, <1>14, <1>15, <1>16, <1>17, <1>18
     DEF Next, SubmitInputBuffer, GenerateOutput, SinkEvent

\* process_frames sees the last inputs_per_output frames, and from the first time
\* on every frame taken has its output (gst_sdx_base_set_inputs_per_output,
\* gst_sdx_base_generate_output).
THEOREM WindowSlides == Spec => []Window
<1>1. OrderInv /\ WindowInv => Window
  BY DEF OrderInv, Types, Filled, Newest, WindowInv, Slid, IsTail, Delivered, Done, Room, Due,
     Making, Window
<1> QED  BY OrderInit, OrderStep, WindowInit, WindowStep, <1>1, PTL DEF Spec

-----------------------------------------------------------------------------
(* The account. *)

\* The element has the buffer of item i, or the copy of it: in the FIFO, or in
\* the hands of submit_input_buffer.
Owned(i, copied) ==
  \/ \E k \in DOMAIN fifo : fifo[k].idx = i /\ fifo[k].copied = copied
  \/ pc \in Taking /\ cur.idx = i /\ cur.copied = copied

Registered(h) ==
  \/ \E k \in DOMAIN fifo : fifo[k].reg /\ h = <<"in", fifo[k].idx>>
  \/ pc = "queue" /\ cur.reg /\ h = <<"in", cur.idx>>
  \/ pc \in {"process", "deliver"} /\ h \in OutHandle

Placed ==
  /\ pc \in Taking => cur \in Frame
  /\ pc \in Making \cup {"push"} => out \in Frame
  /\ pc \in {"new", "register", "recover"} => ~cur.copied
  /\ pc \in Taking \ {"queue"} => ~cur.reg
  /\ pc \in {"outmap", "outregister"} => ~out.reg

Distinct ==
  /\ \A j, k \in DOMAIN fifo : fifo[j].idx = fifo[k].idx => j = k
  /\ \A k \in DOMAIN fifo : fifo[k].idx <= n /\ (pc \in Taking => fifo[k].idx < n)
  /\ \A i \in mishandled : i <= n

InputsCounted ==
  \A i \in Items \ mishandled : /\ refs[i] = IF Owned(i, FALSE) THEN 1 ELSE 0
                                /\ copies[i] = IF Owned(i, TRUE) THEN 1 ELSE 0

OutputsCounted ==
  \A i \in Items : outs[i] = IF pc \in Making \cup {"push"} /\ out.idx = i THEN 1 ELSE 0

\* A change of the mode between a registration and its end would lose it.
RegsCounted ==
  switches = 0 => Hardware /\ \A h \in Handles : h \in regs <=> Registered(h)

AccountInv ==
  TypeOK /\ Placed /\ Distinct /\ InputsCounted /\ OutputsCounted /\ RegsCounted

LEMMA Alone ==
  ASSUME NEW S, \A x, y \in S : x = y
  PROVE  Cardinality(S) = IF S = {} THEN 0 ELSE 1
<1>1. CASE S = {}
  BY <1>1, FS_EmptySet
<1>2. CASE S # {}
  <2>1. PICK x \in S : S = {x}
    BY <1>2
  <2> QED  BY <1>2, <2>1, FS_Singleton
<1> QED  BY <1>1, <1>2

\* Giving frames back drops one reference to what each of them holds.
LEMMA Released ==
  ASSUME TypeOK, Distinct, NEW F \in SUBSET Frames, Release(F)
  PROVE  /\ refs' \in [Items -> Int] /\ copies' \in [Items -> Int]
         /\ \A i \in Items :
              /\ refs'[i] = refs[i] - (IF \E f \in F : f.idx = i /\ ~f.copied THEN 1 ELSE 0)
              /\ copies'[i] = copies[i] - (IF \E f \in F : f.idx = i /\ f.copied THEN 1 ELSE 0)
<1>1. \A f, g \in F : f.idx = g.idx => f = g
  BY DEF Frames, Distinct
<1>2. ASSUME NEW i \in Items
      PROVE  Cardinality({f \in F : f.idx = i /\ ~f.copied})
               = IF \E f \in F : f.idx = i /\ ~f.copied THEN 1 ELSE 0
  <2> DEFINE S == {f \in F : f.idx = i /\ ~f.copied}
  <2>1. (S = {}) <=> ~\E f \in F : f.idx = i /\ ~f.copied
    OBVIOUS
  <2>2. \A x, y \in S : x = y
    BY <1>1
  <2> HIDE DEF S
  <2>3. Cardinality(S) = IF S = {} THEN 0 ELSE 1
    BY <2>2, Alone
  <2> QED  BY <2>1, <2>3 DEF S
<1>3. ASSUME NEW i \in Items
      PROVE  Cardinality({f \in F : f.idx = i /\ f.copied})
               = IF \E f \in F : f.idx = i /\ f.copied THEN 1 ELSE 0
  <2> DEFINE S == {f \in F : f.idx = i /\ f.copied}
  <2>1. (S = {}) <=> ~\E f \in F : f.idx = i /\ f.copied
    OBVIOUS
  <2>2. \A x, y \in S : x = y
    BY <1>1
  <2> HIDE DEF S
  <2>3. Cardinality(S) = IF S = {} THEN 0 ELSE 1
    BY <2>2, Alone
  <2> QED  BY <2>1, <2>3 DEF S
<1>4. refs \in [Items -> Int] /\ copies \in [Items -> Int]
  BY DEF TypeOK
<1> QED
  <2> DEFINE a(i) == IF \E f \in F : f.idx = i /\ ~f.copied THEN 1 ELSE 0
             b(i) == IF \E f \in F : f.idx = i /\ f.copied THEN 1 ELSE 0
  <2>1. refs' = [i \in Items |-> refs[i] - a(i)] /\ copies' = [i \in Items |-> copies[i] - b(i)]
    BY <1>2, <1>3 DEF Release
  <2>2. \A i \in Items : a(i) \in Int /\ b(i) \in Int
    OBVIOUS
  <2>3. refs' \in [Items -> Int] /\ copies' \in [Items -> Int]
    BY <1>4, <2>1, <2>2
  <2>4. \A i \in Items : refs'[i] = refs[i] - a(i) /\ copies'[i] = copies[i] - b(i)
    BY <2>1
  <2> QED  BY <2>3, <2>4

\* A frame that is copied, or registered, is otherwise what it was.
LEMMA FrameKinds ==
  /\ NoFrame \notin Frame /\ Frame \subseteq AnyFrame
  /\ \A f \in Frame :
       /\ f.idx \in Items /\ f.reg \in BOOLEAN /\ f.copied \in BOOLEAN
       /\ [f EXCEPT !.copied = TRUE] \in Frame /\ [f EXCEPT !.copied = TRUE].idx = f.idx
       /\ [f EXCEPT !.copied = TRUE].copied = TRUE
       /\ [f EXCEPT !.copied = TRUE].reg = f.reg
       /\ [f EXCEPT !.reg = TRUE] \in Frame /\ [f EXCEPT !.reg = TRUE].idx = f.idx
       /\ [f EXCEPT !.reg = TRUE].copied = f.copied
       /\ [f EXCEPT !.reg = TRUE].reg = TRUE
  /\ \A i \in Items, d \in BOOLEAN :
       /\ [NoFrame EXCEPT !.idx = i, !.dma = d] \in Frame
       /\ [NoFrame EXCEPT !.idx = i, !.dma = d].idx = i
       /\ [NoFrame EXCEPT !.idx = i, !.dma = d].copied = FALSE
       /\ [NoFrame EXCEPT !.idx = i, !.dma = d].reg = FALSE
<1>1. 0 \notin Items /\ Items \subseteq Nat
  BY SdxAssumption DEF Items
<1>2. NoFrame \notin Frame
  BY <1>1 DEF Frame, NoFrame
<1>3. Frame \subseteq AnyFrame
  BY <1>1 DEF Frame, AnyFrame
<1>4. ASSUME NEW f \in Frame
      PROVE  /\ f.idx \in Items /\ f.reg \in BOOLEAN /\ f.copied \in BOOLEAN
             /\ [f EXCEPT !.copied = TRUE] \in Frame /\ [f EXCEPT !.copied = TRUE].idx = f.idx
             /\ [f EXCEPT !.copied = TRUE].copied = TRUE
             /\ [f EXCEPT !.copied = TRUE].reg = f.reg
             /\ [f EXCEPT !.reg = TRUE] \in Frame /\ [f EXCEPT !.reg = TRUE].idx = f.idx
             /\ [f EXCEPT !.reg = TRUE].copied = f.copied
             /\ [f EXCEPT !.reg = TRUE].reg = TRUE
  BY DEF Frame
<1>5. ASSUME NEW i \in Items, NEW d \in BOOLEAN
      PROVE  /\ [NoFrame EXCEPT !.idx = i, !.dma = d] \in Frame
             /\ [NoFrame EXCEPT !.idx = i, !.dma = d].idx = i
             /\ [NoFrame EXCEPT !.idx = i, !.dma = d].copied = FALSE
             /\ [NoFrame EXCEPT !.idx = i, !.dma = d].reg = FALSE
  <2>1. [NoFrame EXCEPT !.idx = i, !.dma = d] \in Frame
    BY DEF NoFrame, Frame
  <2>2. [NoFrame EXCEPT !.idx = i, !.dma = d].idx = i
    BY DEF NoFrame
  <2>3. [NoFrame EXCEPT !.idx = i, !.dma = d].copied = FALSE
    BY DEF NoFrame
  <2>4. [NoFrame EXCEPT !.idx = i, !.dma = d].reg = FALSE
    BY DEF NoFrame
  <2> QED  BY <2>1, <2>2, <2>3, <2>4
<1> QED  BY <1>2, <1>3, <1>4, <1>5

LEMMA Queued ==
  ASSUME TypeOK
  PROVE  /\ \A e \in Frame :
              /\ Append(fifo, e) \in Seq(Frame) /\ Len(Append(fifo, e)) = Len(fifo) + 1
              /\ DOMAIN Append(fifo, e) = 1 .. (Len(fifo) + 1)
              /\ Append(fifo, e)[Len(fifo) + 1] = e
              /\ \A k \in 1 .. Len(fifo) : Append(fifo, e)[k] = fifo[k]
         /\ fifo # << >> =>
              /\ Tail(fifo) \in Seq(Frame) /\ Head(fifo) = fifo[1] /\ Len(fifo) \in Nat \ {0}
              /\ DOMAIN Tail(fifo) = 1 .. (Len(fifo) - 1)
              /\ \A k \in 1 .. (Len(fifo) - 1) : Tail(fifo)[k] = fifo[k + 1]
         /\ Len(fifo) \in Nat /\ DOMAIN fifo = 1 .. Len(fifo)
         /\ \A k \in DOMAIN fifo : fifo[k] \in Frame
<1>1. fifo \in Seq(Frame) /\ Len(fifo) \in Nat /\ DOMAIN fifo = 1 .. Len(fifo)
  BY DEF TypeOK
<1>2. \A k \in DOMAIN fifo : fifo[k] \in Frame
  BY <1>1
<1>3. ASSUME NEW e \in Frame
      PROVE  /\ Append(fifo, e) \in Seq(Frame) /\ Len(Append(fifo, e)) = Len(fifo) + 1
             /\ DOMAIN Append(fifo, e) = 1 .. (Len(fifo) + 1)
             /\ Append(fifo, e)[Len(fifo) + 1] = e
             /\ \A k \in 1 .. Len(fifo) : Append(fifo, e)[k] = fifo[k]
  BY <1>1, AppendProperties
<1>4. ASSUME fifo # << >>
      PROVE  /\ Tail(fifo) \in Seq(Frame) /\ Head(fifo) = fifo[1] /\ Len(fifo) \in Nat \ {0}
             /\ DOMAIN Tail(fifo) = 1 .. (Len(fifo) - 1)
             /\ \A k \in 1 .. (Len(fifo) - 1) : Tail(fifo)[k] = fifo[k + 1]
  <2>1. /\ Tail(fifo) \in Seq(Frame) /\ Len(Tail(fifo)) = Len(fifo) - 1
        /\ \A k \in 1 .. Len(Tail(fifo)) : Tail(fifo)[k] = fifo[k + 1]
    BY <1>1, <1>4, HeadTailProperties
  <2>2. Len(fifo) \in Nat \ {0} /\ Head(fifo) = fifo[1]
    BY <1>1, <1>4, EmptySeq
  <2> QED  BY <2>1, <2>2, LenProperties
<1> QED  BY <1>1, <1>2, <1>3, <1>4

\* What the chain, the FIFO and the account may be after a failure.
LEMMA TypeEmptied ==
  ASSUME TypeOK, Distinct, ReleaseAll
  PROVE  /\ refs' \in [Items -> Int] /\ copies' \in [Items -> Int] /\ fifo' \in Seq(Frame)
<1>1. Frames \in SUBSET Frames
  OBVIOUS
<1> QED  BY <1>1, Released DEF ReleaseAll

LEMMA TypesOfSetup == OrderInv' /\ TypeOK /\ [Next]_vars =>
  /\ mode' \in {"SW", "HW"} /\ cma' \in BOOLEAN /\ switches' \in 0 .. MaxSwitches
  /\ ipo' \in Inputs /\ n' \in 0 .. MaxItems /\ faults' \in 0 .. MaxFaults
  /\ flow' \in {"ok", "stopped", "eos"} /\ pc' \in Taking \cup Making \cup {"idle", "generate", "push"}
<1> SUFFICES ASSUME OrderInv', TypeOK, [Next]_vars
             PROVE  /\ mode' \in {"SW", "HW"} /\ cma' \in BOOLEAN /\ switches' \in 0 .. MaxSwitches
                    /\ ipo' \in Inputs /\ n' \in 0 .. MaxItems /\ faults' \in 0 .. MaxFaults
                    /\ flow' \in {"ok", "stopped", "eos"}
                    /\ pc' \in Taking \cup Making \cup {"idle", "generate", "push"}
  OBVIOUS
<1>1. UNCHANGED setup \/ SetProperty
  BY ZenonT(40) DEF Next, vars, SubmitInputBuffer, GenerateOutput, SinkEvent, Dropped, Submit, NewFrame,
         MapInput, RegisterInput, Recover, QueueFrame, TooFew, CreateOutput, MapOutput,
         RegisterOutput, ProcessFrames, Deliver, Push, QueueEvent, PassEvent, Reset,
         CopyInput, SubmitFails, GenerateFails, OutputLost
<1>2. n' = n \/ (n < MaxItems /\ n' = n + 1)
  BY ZenonT(40) DEF Next, vars, SubmitInputBuffer, GenerateOutput, SinkEvent, Dropped, Submit, NewFrame,
         MapInput, RegisterInput, Recover, QueueFrame, TooFew, CreateOutput, MapOutput,
         RegisterOutput, ProcessFrames, Deliver, Push, QueueEvent, PassEvent, Reset,
         CopyInput, SubmitFails, GenerateFails, OutputLost, arrival, Arrives, SetProperty
<1>3. faults' = faults \/ Fault
  BY DEF Next, vars, SubmitInputBuffer, GenerateOutput, SinkEvent, Dropped, Submit, NewFrame,
         MapInput, RegisterInput, Recover, QueueFrame, TooFew, CreateOutput, MapOutput,
         RegisterOutput, ProcessFrames, Deliver, Push, QueueEvent, PassEvent, Reset,
         CopyInput, SubmitFails, GenerateFails, OutputLost, SetProperty
<1>4. mode' \in {"SW", "HW"} /\ switches' \in 0 .. MaxSwitches /\ ipo' \in Inputs
  BY <1>1, SdxAssumption DEF setup, SetProperty, TypeOK, Hardware
<1>5. cma' \in BOOLEAN
  BY <1>1, Zenon DEF setup, SetProperty, TypeOK
<1>6. n' \in 0 .. MaxItems /\ faults' \in 0 .. MaxFaults
  BY SMTT(40), <1>2, <1>3, SdxAssumption DEF TypeOK, Fault
<1> QED  BY <1>4, <1>5, <1>6 DEF OrderInv, Types

LEMMA NewItem ==
  ASSUME TypeOK, n < MaxItems
  PROVE  n + 1 \in Items
BY SdxAssumption DEF TypeOK, Items

\* The frame at hand and the output are frames, and the FIFO holds frames.
LEMMA TypesOfFrames == OrderInv /\ TypeOK /\ Placed /\ Distinct /\ [Next]_vars =>
  cur' \in Frame \cup {NoFrame} /\ out' \in Frame \cup {NoFrame} /\ fifo' \in Seq(Frame) /\ Placed'
<1> DEFINE Goal == /\ cur' \in Frame \cup {NoFrame} /\ out' \in Frame \cup {NoFrame}
                   /\ fifo' \in Seq(Frame) /\ Placed'
<1> SUFFICES ASSUME OrderInv, TypeOK, Placed, Distinct, [Next]_vars
             PROVE  Goal
  OBVIOUS
<1>1. /\ cur \in Frame \cup {NoFrame} /\ out \in Frame \cup {NoFrame} /\ fifo \in Seq(Frame)
      /\ pc \in Taking => cur \in Frame
      /\ pc \in Making \cup {"push"} => out \in Frame
  BY DEF TypeOK, Placed
<1>2. << >> \in Seq(Frame)
  OBVIOUS
\* The steps that leave the frames alone.
<1>3. ASSUME UNCHANGED <<cur, out>>, fifo' \in Seq(Frame),
             pc' \in Taking => pc \in Taking,
             pc' \in {"new", "register", "recover"} => ~cur.copied,
             pc' \in Taking \ {"queue"} => ~cur.reg,
             pc' \in Making \cup {"push"} => pc \in Making \cup {"push"},
             pc' \in {"outmap", "outregister"} => ~out.reg
      PROVE  Goal
  BY <1>1, <1>3 DEF Placed
<1>4. CASE Dropped \/ TooFew \/ QueueEvent \/ SetProperty \/ UNCHANGED vars
  <2>1. /\ UNCHANGED <<cur, out, fifo>>
        /\ pc' = pc \/ pc' = "idle"
    BY <1>4 DEF Dropped, TooFew, QueueEvent, Arrives, SetProperty, vars, chain, queues
  <2> QED  BY <1>1, <1>3, <2>1 DEF Placed, Taking, Making
<1>5. CASE Submit
  <2>1. PICK d \in BOOLEAN : cur' = [NoFrame EXCEPT !.idx = n + 1, !.dma = d]
    BY <1>5 DEF Submit
  <2>2. n + 1 \in Items
    BY <1>5, NewItem DEF Submit, Arrives
  <2>3. cur' \in Frame /\ cur'.copied = FALSE /\ cur'.reg = FALSE
    BY <2>1, <2>2, FrameKinds
  <2>4. pc' = "new" /\ UNCHANGED <<out, fifo>>
    BY <1>5 DEF Submit, queues
  <2> QED  BY <1>1, <2>3, <2>4 DEF Placed, Taking, Making
<1>6. ASSUME SubmitFails
      PROVE  Goal
  <2>1. pc' = "idle" /\ cur' = NoFrame /\ UNCHANGED <<out, fifo>>
    BY <1>6 DEF SubmitFails, queues
  <2> QED  BY <1>1, <2>1 DEF Placed, Taking, Making
<1>7. ASSUME CopyInput, pc \in {"new", "recover"}
      PROVE  Goal
  <2>1. pc' = "map" /\ UNCHANGED <<out, fifo>> /\ cur' = [cur EXCEPT !.copied = TRUE]
    BY <1>7 DEF CopyInput, queues
  <2>2. cur \in Frame /\ ~cur.reg
    BY <1>1, <1>7 DEF Placed, Taking
  <2>3. cur' \in Frame /\ cur'.reg = cur.reg
    BY <2>1, <2>2, FrameKinds
  <2> QED  BY <1>1, <2>1, <2>2, <2>3 DEF Placed, Taking, Making
<1>8. CASE NewFrame
  <2>1. CASE pc' = "map" /\ UNCHANGED <<cur, out, fifo>>
    BY <1>1, <1>3, <1>8, <2>1 DEF NewFrame, Placed, Taking, Making
  <2> QED  BY <1>6, <1>7, <1>8, <2>1 DEF NewFrame, queues
<1>9. CASE MapInput
  <2>1. CASE pc' = (IF cur.copied THEN "queue" ELSE "register") /\ UNCHANGED <<cur, out, fifo>>
    BY <1>1, <1>3, <1>9, <2>1 DEF MapInput, Placed, Taking, Making
  <2> QED  BY <1>6, <1>9, <2>1 DEF MapInput, queues
<1>10. CASE RegisterInput
  <2>1. /\ pc = "register" /\ UNCHANGED <<out, fifo>>
        /\ \/ cur' = cur /\ pc' \in {"queue", "recover"}
           \/ cur' = [cur EXCEPT !.reg = TRUE] /\ pc' = "queue"
    BY <1>10 DEF RegisterInput, queues
  <2>2. CASE cur' = cur
    BY <1>1, <1>3, <2>1, <2>2 DEF Placed, Taking, Making
  <2>3. CASE cur' = [cur EXCEPT !.reg = TRUE] /\ pc' = "queue"
    <3>1. cur' \in Frame
      BY <1>1, <2>1, <2>3, FrameKinds DEF Taking
    <3> QED  BY <1>1, <2>1, <2>3, <3>1 DEF Placed, Taking, Making
  <2> QED  BY <2>1, <2>2, <2>3
<1>11. CASE Recover
  BY <1>6, <1>7, <1>11 DEF Recover
<1>12. CASE QueueFrame
  <2>1. pc' = "generate" /\ cur' = NoFrame /\ out' = out /\ fifo' = Append(fifo, cur)
        /\ cur \in Frame
    BY <1>1, <1>12 DEF QueueFrame, Taking
  <2>2. fifo' \in Seq(Frame)
    BY <2>1, Queued
  <2> QED  BY <1>1, <2>1, <2>2 DEF Placed, Taking, Making
<1>13. ASSUME GenerateFails
       PROVE  Goal
  <2>1. pc' = "idle" /\ out' = NoFrame /\ cur' = cur /\ fifo' = << >>
    BY <1>13 DEF GenerateFails, ReleaseAll
  <2> QED  BY <1>1, <1>2, <2>1 DEF Placed, Taking, Making
<1>14. CASE CreateOutput
  <2>1. CASE ~GenerateFails
    <3>1. PICK d \in BOOLEAN : out' = [NoFrame EXCEPT !.idx = fifo[Len(fifo)].idx, !.dma = d]
      BY <1>14, <2>1 DEF CreateOutput
    <3>2. fifo[Len(fifo)].idx \in Items
      <4>1. Len(fifo) \in Nat /\ ipo \in Nat \ {0} /\ Len(fifo) >= ipo /\ DOMAIN fifo = 1 .. Len(fifo)
        BY <1>14, Queued DEF CreateOutput, OrderInv, Types
      <4>2. Len(fifo) \in DOMAIN fifo
        BY <4>1
      <4> QED  BY <4>2, Queued, FrameKinds
    <3>3. out' \in Frame /\ out'.reg = FALSE
      BY <3>1, <3>2, FrameKinds
    <3>4. pc' = "outmap" /\ cur' = cur /\ fifo' = fifo
      BY <1>14, <2>1 DEF CreateOutput, queues
    <3> QED  BY <1>1, <3>3, <3>4 DEF Placed, Taking, Making
  <2> QED  BY <1>13, <2>1
<1>15. CASE MapOutput
  <2>1. CASE ~GenerateFails
    <3>1. pc = "outmap" /\ pc' = "outregister" /\ UNCHANGED <<cur, out, fifo>>
      BY <1>15, <2>1 DEF MapOutput, OutputLost, queues
    <3> QED  BY <1>1, <1>3, <3>1 DEF Placed, Taking, Making
  <2> QED  BY <1>13, <2>1
<1>16. CASE RegisterOutput
  <2>1. CASE ~GenerateFails
    <3>1. /\ pc = "outregister" /\ pc' = "process" /\ UNCHANGED <<cur, fifo>>
          /\ out' = out \/ out' = [out EXCEPT !.reg = TRUE]
      BY <1>16, <2>1 DEF RegisterOutput, OutputLost, queues
    <3>2. out' \in Frame
      <4>1. out \in Frame
        BY <1>1, <3>1 DEF Making
      <4>2. [out EXCEPT !.reg = TRUE] \in Frame
        BY <4>1, FrameKinds
      <4> QED  BY <3>1, <4>1, <4>2
    <3> QED  BY <1>1, <3>1, <3>2 DEF Placed, Taking, Making
  <2> QED  BY <1>13, <2>1
<1>17. CASE ProcessFrames
  <2>1. CASE ~GenerateFails
    <3>1. pc = "process" /\ pc' = "deliver" /\ UNCHANGED <<cur, out, fifo>>
      BY <1>17, <2>1 DEF ProcessFrames, queues
    <3> QED  BY <1>1, <1>3, <3>1 DEF Placed, Taking, Making
  <2> QED  BY <1>13, <2>1
<1>18. CASE Deliver
  <2>1. fifo # << >> /\ pc = "deliver" /\ pc' = "push" /\ UNCHANGED <<cur, out>> /\ fifo' = Tail(fifo)
    BY <1>18 DEF Deliver, OrderInv, Filled, Types, Making
  <2>2. fifo' \in Seq(Frame)
    BY <2>1, Queued
  <2> QED  BY <1>1, <1>3, <2>1, <2>2 DEF Placed, Taking, Making
<1>19. CASE Push
  <2>1. pc' \in {"generate", "idle"} /\ out' = NoFrame /\ UNCHANGED <<cur, fifo>>
    BY <1>19 DEF Push, queues
  <2> QED  BY <1>1, <2>1 DEF Placed, Taking, Making
<1>20. CASE PassEvent \/ Reset
  <2>1. pc' = "idle" /\ UNCHANGED <<cur, out>> /\ fifo' = << >>
    BY <1>20 DEF PassEvent, Reset, ReleaseAll, chain
  <2> QED  BY <1>1, <1>2, <1>3, <2>1 DEF Taking, Making
<1> QED
  BY <1>4, <1>5, <1>8, <1>9, <1>10, <1>11, <1>12, <1>14, <1>15, <1>16, <1>17, <1>18, <1>19, <1>20
     DEF Next, SubmitInputBuffer, GenerateOutput, SinkEvent

\* Everything that is numbered is an item.
LEMMA TypesOfStream == OrderInv /\ TypeOK /\ Placed /\ [Next]_vars =>
  taken' \in Seq(Items) /\ pending' \in Seq(Items) /\ down' \in Seq(Items) /\ held' \subseteq Items
<1> SUFFICES ASSUME OrderInv, TypeOK, Placed, [Next]_vars
             PROVE  /\ taken' \in Seq(Items) /\ pending' \in Seq(Items) /\ down' \in Seq(Items)
                    /\ held' \subseteq Items
  OBVIOUS
<1>1. taken \in Seq(Items) /\ pending \in Seq(Items) /\ down \in Seq(Items) /\ held \subseteq Items
  BY DEF TypeOK
<1>2. << >> \in Seq(Items) /\ \A e \in Items : <<e>> \in Seq(Items)
  OBVIOUS
<1>3. Joined \in Seq(Items)
  <2>1. PendingInOrder \in Seq(Items)
    <3>1. /\ Len(pending) \in Nat /\ PendingInOrder = [k \in 1 .. Len(pending) |-> pending[Len(pending) + 1 - k]]
      BY <1>1 DEF PendingInOrder
    <3>2. \A k \in 1 .. Len(pending) : pending[Len(pending) + 1 - k] \in Items
      <4> SUFFICES ASSUME NEW k \in 1 .. Len(pending)
                   PROVE  pending[Len(pending) + 1 - k] \in Items
        OBVIOUS
      <4>1. Len(pending) + 1 - k \in 1 .. Len(pending)
        BY <3>1
      <4> QED  BY <1>1, <4>1
    <3> QED  BY <3>1, <3>2
  <2> QED  BY <1>1, <2>1, ConcatProperties DEF Joined
<1>4. CASE QueueFrame
  <2>1. cur.idx \in Items
    BY <1>4, FrameKinds DEF QueueFrame, Placed, Taking
  <2> QED  BY <1>1, <1>4, <2>1, AppendProperties DEF QueueFrame, stream
<1>5. CASE QueueEvent
  <2>1. n + 1 \in Items
    BY <1>5, NewItem DEF QueueEvent, Arrives
  <2>2. pending' \in Seq(Items)
    BY <1>1, <1>2, <1>5, <2>1, ConcatProperties DEF QueueEvent
  <2> QED  BY <1>1, <1>5, <2>1, <2>2 DEF QueueEvent, queues
<1>6. CASE PassEvent
  <2>1. n + 1 \in Items
    BY <1>6, NewItem DEF PassEvent
  <2>2. down' \in Seq(Items)
    BY <1>3, <1>6, <2>1, AppendProperties DEF PassEvent, Joined
  <2> QED  BY <1>1, <1>2, <1>6, <2>2 DEF PassEvent
<1>7. CASE Deliver
  BY <1>1, <1>2, <1>3, <1>7 DEF Deliver, Joined
<1>8. CASE Push
  <2>1. out.idx \in Items
    BY <1>8, FrameKinds DEF Push, Placed, Making
  <2> DEFINE e == out.idx
  <2>2. /\ down' = Append(down, e) \/ down' = down
        /\ UNCHANGED <<taken, pending, held>> /\ e \in Items
    BY <1>8, <2>1 DEF Push, queues
  <2> HIDE DEF e
  <2>3. Append(down, e) \in Seq(Items)
    BY <1>1, <2>2, AppendProperties
  <2> QED  BY <1>1, <2>2, <2>3
<1>9. CASE Reset
  BY <1>1, <1>2, <1>9 DEF Reset
<1>10. ASSUME UNCHANGED <<pending, down, held>>, taken' = taken \/ taken' = << >>
       PROVE  /\ taken' \in Seq(Items) /\ pending' \in Seq(Items) /\ down' \in Seq(Items)
              /\ held' \subseteq Items
  BY <1>1, <1>2, <1>10
<1>11. CASE \/ Dropped \/ Submit \/ NewFrame \/ MapInput \/ RegisterInput \/ Recover
            \/ TooFew \/ CreateOutput \/ MapOutput \/ RegisterOutput \/ ProcessFrames
            \/ SetProperty \/ UNCHANGED vars
  BY <1>10, <1>11 DEF Dropped, Submit, NewFrame, MapInput, RegisterInput, Recover, TooFew,
       CreateOutput, MapOutput, RegisterOutput, ProcessFrames, SetProperty, vars, CopyInput,
       SubmitFails, GenerateFails, OutputLost, queues, stream
<1> QED
  BY <1>4, <1>5, <1>6, <1>7, <1>8, <1>9, <1>11
     DEF Next, SubmitInputBuffer, GenerateOutput, SinkEvent

LEMMA DistinctStep == OrderInv /\ TypeOK /\ Distinct /\ [Next]_vars => Distinct'
<1> SUFFICES ASSUME OrderInv, TypeOK, Distinct, [Next]_vars
             PROVE  Distinct'
  OBVIOUS
<1>1. /\ n \in Nat /\ \A k \in DOMAIN fifo : fifo[k] \in Frame /\ fifo[k].idx \in Nat
      /\ DOMAIN fifo = 1 .. Len(fifo) /\ Len(fifo) \in Nat
  <2>1. \A k \in DOMAIN fifo : fifo[k] \in Frame /\ fifo[k].idx \in Nat
    BY Queued, FrameKinds, FrameIdx
  <2> QED  BY <2>1, Queued DEF OrderInv, Types
<1>2. ASSUME fifo' = fifo, n' = n \/ n' = n + 1, mishandled' \subseteq mishandled \cup {n},
             pc' \in Taking => pc \in Taking \/ n' = n + 1
      PROVE  Distinct'
  <2>1. n <= n' /\ n' \in Nat
    BY <1>1, <1>2
  <2>2. \A k \in DOMAIN fifo : fifo[k].idx <= n' /\ (pc' \in Taking => fifo[k].idx < n')
    BY <1>1, <1>2 DEF Distinct
  <2>3. \A i \in mishandled' : i <= n'
    <3> SUFFICES ASSUME NEW i \in mishandled'
                 PROVE  i <= n'
      OBVIOUS
    <3>1. i \in Nat /\ i <= n
      BY <1>1, <1>2, SdxAssumption DEF Distinct, TypeOK, Items
    <3> QED  BY <1>1, <2>1, <3>1
  <2> QED  BY <1>2, <2>2, <2>3 DEF Distinct
<1>3. ASSUME fifo' = << >>, n' = n \/ n' = n + 1, mishandled' = mishandled
      PROVE  Distinct'
  <2>1. DOMAIN fifo' = {}
    BY <1>3
  <2>2. \A i \in mishandled : i <= n'
    <3> SUFFICES ASSUME NEW i \in mishandled
                 PROVE  i <= n'
      OBVIOUS
    <3>1. i \in Nat /\ i <= n
      BY SdxAssumption DEF Distinct, TypeOK, Items
    <3> QED  BY <1>1, <1>3, <3>1
  <2> QED  BY <1>3, <2>1, <2>2 DEF Distinct
<1>4. CASE Dropped \/ Submit \/ QueueEvent
  BY <1>2, <1>4 DEF Dropped, Submit, QueueEvent, Arrives, queues, chain
<1>5. CASE NewFrame \/ MapInput \/ RegisterInput \/ Recover
  <2>1. /\ pc \in Taking /\ fifo' = fifo /\ n' = n
        /\ mishandled' = mishandled \/ mishandled' = mishandled \cup {cur.idx}
    BY <1>5 DEF NewFrame, MapInput, RegisterInput, Recover, CopyInput, SubmitFails, Taking,
            queues, arrival
  <2>2. cur.idx = n
    BY <2>1 DEF OrderInv, Newest
  <2> QED  BY <1>2, <2>1, <2>2
<1>6. CASE TooFew \/ Push \/ SetProperty \/ UNCHANGED vars
  BY <1>2, <1>6 DEF TooFew, Push, SetProperty, vars, queues, arrival, chain, Taking
<1>7. CASE PassEvent \/ Reset
  BY <1>3, <1>7 DEF PassEvent, Reset, ReleaseAll
<1>8. CASE CreateOutput \/ MapOutput \/ RegisterOutput \/ ProcessFrames
  <2>1. CASE GenerateFails
    BY <1>3, <2>1 DEF GenerateFails, ReleaseAll
  <2>2. CASE ~GenerateFails
    BY <1>2, <1>8, <2>2 DEF CreateOutput, MapOutput, RegisterOutput, ProcessFrames, OutputLost,
         queues, arrival, Taking
  <2> QED  BY <2>1, <2>2
<1>9. CASE QueueFrame
  <2>1. /\ pc = "queue" /\ cur.idx = n /\ pc' = "generate" /\ n' = n /\ mishandled' = mishandled
        /\ fifo' = Append(fifo, cur)
    BY <1>9 DEF QueueFrame, arrival, OrderInv, Newest, Taking
  <2>2. \A k \in DOMAIN fifo : fifo[k].idx < n
    BY <2>1 DEF Distinct, Taking
  <2> DEFINE l == Len(fifo)
  <2>3. /\ DOMAIN fifo' = 1 .. (l + 1) /\ fifo'[l + 1] = cur /\ l \in Nat /\ DOMAIN fifo = 1 .. l
        /\ \A k \in 1 .. l : fifo'[k] = fifo[k]
    <3>1. fifo \in Seq(AnyFrame) /\ cur \in AnyFrame
      BY DEF OrderInv, Types
    <3> QED  BY <2>1, <3>1, AppendProperties
  <2> HIDE DEF l
  <2>4. \A k \in DOMAIN fifo' : fifo'[k].idx <= n'
    BY <1>1, <2>1, <2>2, <2>3
  <2>5. \A j, k \in DOMAIN fifo' : fifo'[j].idx = fifo'[k].idx => j = k
    <3> SUFFICES ASSUME NEW j \in 1 .. (l + 1), NEW k \in 1 .. (l + 1), fifo'[j].idx = fifo'[k].idx
                 PROVE  j = k
      BY <2>3
    <3>1. CASE j = l + 1 \/ k = l + 1
      BY <1>1, <2>1, <2>2, <2>3, <3>1
    <3>2. CASE j \in 1 .. l /\ k \in 1 .. l
      BY <2>3, <3>2 DEF Distinct
    <3> QED  BY <2>3, <3>1, <3>2
  <2> QED  BY <2>1, <2>4, <2>5 DEF Distinct, Taking
<1>10. CASE Deliver
  <2>1. /\ pc' = "push" /\ n' = n /\ mishandled' = mishandled /\ fifo' = Tail(fifo) /\ fifo # << >>
    BY <1>10 DEF Deliver, arrival, OrderInv, Filled, Types, Making
  <2> DEFINE l == Len(fifo)
  <2>2. /\ DOMAIN fifo' = 1 .. (l - 1) /\ l \in Nat /\ DOMAIN fifo = 1 .. l
        /\ \A k \in 1 .. (l - 1) : fifo'[k] = fifo[k + 1]
    BY <2>1, Queued
  <2> HIDE DEF l
  <2>3. \A k \in 1 .. (l - 1) : k + 1 \in DOMAIN fifo
    BY <2>2
  <2>4. \A j, k \in DOMAIN fifo' : fifo'[j].idx = fifo'[k].idx => j = k
    <3> SUFFICES ASSUME NEW j \in 1 .. (l - 1), NEW k \in 1 .. (l - 1), fifo'[j].idx = fifo'[k].idx
                 PROVE  j = k
      BY <2>2
    <3>1. j + 1 = k + 1
      BY <2>2, <2>3 DEF Distinct
    <3> QED  BY <3>1
  <2> QED  BY <2>1, <2>2, <2>3, <2>4 DEF Distinct, Taking
<1> QED
  BY <1>4, <1>5, <1>6, <1>7, <1>8, <1>9, <1>10 DEF Next, SubmitInputBuffer, GenerateOutput, SinkEvent

\* The buffer that was given back, or copied, or has arrived, is accounted for.
LEMMA InputsStep ==
  OrderInv /\ TypeOK /\ Placed /\ Distinct /\ InputsCounted /\ [Next]_vars => InputsCounted'
<1> SUFFICES ASSUME OrderInv, TypeOK, Placed, Distinct, InputsCounted, [Next]_vars
             PROVE  InputsCounted'
  OBVIOUS
<1>1. /\ refs \in [Items -> Int] /\ copies \in [Items -> Int] /\ Items \subseteq Nat
      /\ \A k \in DOMAIN fifo : fifo[k] \in Frame /\ fifo[k].idx \in Items /\ fifo[k].copied \in BOOLEAN
      /\ pc \in Taking => cur \in Frame /\ cur.idx = n /\ cur.idx \in Items
  <2>1. \A f \in Frame : f.idx \in Items /\ f.copied \in BOOLEAN
    BY FrameKinds
  <2>2. \A k \in DOMAIN fifo : fifo[k] \in Frame
    BY Queued
  <2>3. refs \in [Items -> Int] /\ copies \in [Items -> Int]
    BY DEF TypeOK
  <2>4. Items \subseteq Nat
    BY SdxAssumption DEF Items
  <2>5. pc \in Taking => cur \in Frame /\ cur.idx = n
    BY DEF Placed, OrderInv, Newest
  <2> QED  BY <2>1, <2>2, <2>3, <2>4, <2>5
<1>2. ASSUME UNCHANGED <<refs, copies>>, mishandled \subseteq mishandled',
             \A i \in Items, c \in BOOLEAN : Owned(i, c)' <=> Owned(i, c)
      PROVE  InputsCounted'
  BY <1>2 DEF InputsCounted
<1>3. ASSUME UNCHANGED <<refs, copies, mishandled, fifo>>, pc' \notin Taking, pc \notin Taking
      PROVE  InputsCounted'
  BY <1>2, <1>3 DEF Owned
<1>4. ASSUME UNCHANGED <<refs, copies, mishandled, fifo>>, pc' \in Taking, pc \in Taking,
             cur'.idx = cur.idx, cur'.copied = cur.copied
      PROVE  InputsCounted'
  BY <1>2, <1>4 DEF Owned
<1>5. CASE Dropped \/ TooFew \/ QueueEvent
  BY <1>3, <1>5 DEF Dropped, TooFew, QueueEvent, Arrives, chain, queues, memory, Taking
<1>6. CASE SetProperty \/ UNCHANGED vars
  <2>1. UNCHANGED <<refs, copies, mishandled, fifo, pc, cur>>
    BY <1>6 DEF SetProperty, vars, chain, queues, memory
  <2> QED  BY <1>3, <1>4, <2>1
<1>7. CASE Submit
  <2>1. PICK d \in BOOLEAN : cur' = [NoFrame EXCEPT !.idx = n + 1, !.dma = d]
    BY <1>7 DEF Submit
  <2>2. /\ n + 1 \in Items /\ pc = "idle" /\ pc' = "new" /\ UNCHANGED <<fifo, copies, mishandled>>
        /\ refs' = Add(refs, n + 1, 1)
    BY <1>7, NewItem DEF Submit, Arrives, queues
  <2>3. cur'.idx = n + 1 /\ cur'.copied = FALSE
    BY ZenonT(40), <2>1, <2>2, FrameKinds
  <2>4. /\ n + 1 \notin mishandled /\ \A k \in DOMAIN fifo : fifo[k].idx # n + 1
    BY <2>2, <1>1 DEF Distinct, OrderInv, Types
  <2>5. \A i \in Items : /\ Owned(i, FALSE)' <=> Owned(i, FALSE) \/ i = n + 1
                         /\ Owned(i, TRUE)' <=> Owned(i, TRUE)
    BY <2>2, <2>3 DEF Owned, Taking
  <2>6. ~Owned(n + 1, FALSE)
    BY <2>2, <2>4 DEF Owned, Taking
  <2>7. /\ refs'[n + 1] = refs[n + 1] + 1 /\ \A j \in Items : j # n + 1 => refs'[j] = refs[j]
    BY <1>1, <2>2 DEF Add
  <2>8. ASSUME NEW i \in Items \ mishandled
        PROVE  /\ refs'[i] = IF Owned(i, FALSE)' THEN 1 ELSE 0
               /\ copies'[i] = IF Owned(i, TRUE)' THEN 1 ELSE 0
    <3>1. /\ refs[i] = IF Owned(i, FALSE) THEN 1 ELSE 0
          /\ copies[i] = IF Owned(i, TRUE) THEN 1 ELSE 0
      BY DEF InputsCounted
    <3>2. CASE i = n + 1
      <4>1. refs[i] = 0 /\ Owned(i, FALSE)' /\ refs'[i] = refs[i] + 1
        BY <2>2, <2>5, <2>6, <2>7, <3>1, <3>2
      <4>2. copies'[i] = IF Owned(i, TRUE)' THEN 1 ELSE 0
        BY <2>2, <2>5, <3>1
      <4> QED  BY <4>1, <4>2
    <3>3. CASE i # n + 1
      <4>1. (Owned(i, FALSE)' <=> Owned(i, FALSE)) /\ refs'[i] = refs[i]
        BY <2>5, <2>7, <3>3
      <4>2. (Owned(i, TRUE)' <=> Owned(i, TRUE)) /\ copies'[i] = copies[i]
        BY <2>2, <2>5
      <4> QED  BY <3>1, <4>1, <4>2
    <3> QED  BY <3>2, <3>3
  <2> QED  BY <2>2, <2>8 DEF InputsCounted
<1>8. ASSUME CopyInput, pc \in {"new", "recover"}, UNCHANGED mishandled
      PROVE  InputsCounted'
  <2>0. PICK e \in Items : e = cur.idx /\ e = n
    BY <1>1, <1>8 DEF Taking
  <2>1. /\ pc \in Taking /\ pc' = "map" /\ pc' \in Taking /\ UNCHANGED fifo
        /\ cur' = [cur EXCEPT !.copied = TRUE] /\ cur \in Frame /\ cur.idx = e
        /\ copies' = Add(copies, e, 1) /\ refs' = Add(refs, e, -1) /\ ~cur.copied
    BY <1>1, <1>8, <2>0 DEF CopyInput, queues, Taking, Placed
  <2>2. cur'.idx = e /\ cur'.copied = TRUE
    BY <2>1, FrameKinds
  <2>3. \A k \in DOMAIN fifo : fifo[k].idx # e
    BY <1>1, <2>0, <2>1 DEF Distinct
  <2>4. \A i \in Items, c \in BOOLEAN : i # e => (Owned(i, c)' <=> Owned(i, c))
    BY <2>1, <2>2 DEF Owned
  <2>5. /\ Owned(e, FALSE) /\ ~Owned(e, TRUE)
        /\ ~Owned(e, FALSE)' /\ Owned(e, TRUE)'
    <3>1. \A c \in BOOLEAN : (Owned(e, c) <=> cur.copied = c) /\ (Owned(e, c)' <=> cur'.copied = c)
      BY <2>1, <2>2, <2>3 DEF Owned
    <3>2. cur.copied = FALSE
      BY <2>1, FrameKinds
    <3> QED  BY <2>2, <3>1, <3>2
  <2>6. /\ refs'[e] = refs[e] + (-1) /\ \A j \in Items : j # e => refs'[j] = refs[j]
        /\ copies'[e] = copies[e] + 1 /\ \A j \in Items : j # e => copies'[j] = copies[j]
    BY <1>1, <2>0, <2>1 DEF Add
  <2>7. ASSUME NEW i \in Items \ mishandled
        PROVE  /\ refs'[i] = IF Owned(i, FALSE)' THEN 1 ELSE 0
               /\ copies'[i] = IF Owned(i, TRUE)' THEN 1 ELSE 0
    <3>1. /\ refs[i] = IF Owned(i, FALSE) THEN 1 ELSE 0
          /\ copies[i] = IF Owned(i, TRUE) THEN 1 ELSE 0
      BY DEF InputsCounted
    <3>2. CASE i = e
      <4>1. refs[i] = 1 /\ copies[i] = 0
        BY <2>5, <3>1, <3>2
      <4>2. refs'[i] = 0 /\ copies'[i] = 1
        BY <2>6, <3>2, <4>1
      <4> QED  BY <2>5, <3>2, <4>2
    <3>3. CASE i # e
      <4>1. (Owned(i, FALSE)' <=> Owned(i, FALSE)) /\ (Owned(i, TRUE)' <=> Owned(i, TRUE))
        BY <2>4, <3>3
      <4>2. refs'[i] = refs[i] /\ copies'[i] = copies[i]
        BY <2>6, <3>3
      <4> QED  BY <3>1, <4>1, <4>2
    <3> QED  BY <3>2, <3>3
  <2> QED  BY <1>8, <2>7 DEF InputsCounted
<1>9. ASSUME SubmitFails, pc \in Taking, mishandled \subseteq mishandled', cur.copied => n \in mishandled'
      PROVE  InputsCounted'
  <2>0. PICK e \in Items : e = cur.idx /\ e = n
    BY <1>1, <1>9
  <2>1. /\ pc' = "idle" /\ pc' \notin Taking /\ UNCHANGED <<fifo, copies>>
        /\ cur \in Frame /\ cur.idx = e /\ refs' = Add(refs, e, -1)
    BY <1>1, <1>9, <2>0 DEF SubmitFails, queues, Taking
  <2>2. \A k \in DOMAIN fifo : fifo[k].idx # e
    BY <1>1, <1>9, <2>0 DEF Distinct
  <2>3. \A i \in Items, c \in BOOLEAN : i # e => (Owned(i, c)' <=> Owned(i, c))
    BY <1>9, <2>1 DEF Owned
  <2>4. ~Owned(e, FALSE)' /\ ~Owned(e, TRUE)'
    BY <2>1, <2>2 DEF Owned
  <2>5. ~cur.copied => Owned(e, FALSE) /\ ~Owned(e, TRUE)
    <3>1. \A c \in BOOLEAN : Owned(e, c) <=> cur.copied = c
      BY <1>9, <2>1, <2>2 DEF Owned
    <3>2. cur.copied \in BOOLEAN
      BY <2>1, FrameKinds
    <3> QED  BY <3>1, <3>2
  <2>6. refs'[e] = refs[e] + (-1) /\ \A j \in Items : j # e => refs'[j] = refs[j]
    BY <1>1, <2>0, <2>1 DEF Add
  <2>7. ASSUME NEW i \in Items \ mishandled'
        PROVE  /\ refs'[i] = IF Owned(i, FALSE)' THEN 1 ELSE 0
               /\ copies'[i] = IF Owned(i, TRUE)' THEN 1 ELSE 0
    <3>1. /\ refs[i] = IF Owned(i, FALSE) THEN 1 ELSE 0
          /\ copies[i] = IF Owned(i, TRUE) THEN 1 ELSE 0
      BY <1>9 DEF InputsCounted
    <3>2. CASE i = e
      <4>1. refs[i] = 1 /\ copies[i] = 0
        BY <1>9, <2>0, <2>5, <3>1, <3>2
      <4>2. refs'[i] = 0 /\ copies'[i] = 0
        BY <2>1, <2>6, <3>2, <4>1
      <4> QED  BY <2>4, <3>2, <4>2
    <3>3. CASE i # e
      <4>1. (Owned(i, FALSE)' <=> Owned(i, FALSE)) /\ (Owned(i, TRUE)' <=> Owned(i, TRUE))
        BY <2>3, <3>3
      <4>2. refs'[i] = refs[i] /\ copies'[i] = copies[i]
        BY <2>1, <2>6, <3>3
      <4> QED  BY <3>1, <4>1, <4>2
    <3> QED  BY <3>2, <3>3
  <2> QED  BY <2>7 DEF InputsCounted
<1>10. CASE NewFrame
  <2>1. ~cur.copied /\ pc \in Taking /\ pc \in {"new", "recover"} /\ mishandled' = mishandled
    BY <1>10 DEF NewFrame, Placed, Taking
  <2>2. CASE CopyInput
    BY <1>8, <2>1, <2>2
  <2>3. CASE SubmitFails
    BY <1>9, <2>1, <2>3
  <2>4. CASE ~CopyInput /\ ~SubmitFails
    BY <1>4, <1>10, <2>1, <2>4 DEF NewFrame, queues, memory, Taking
  <2> QED  BY <2>2, <2>3, <2>4
<1>11. CASE MapInput
  <2>1. pc \in Taking /\ cur.idx = n
    BY <1>1, <1>11 DEF MapInput, Taking
  <2>2. CASE SubmitFails
    <3>1. /\ SubmitFails /\ pc' = "idle"
      BY <2>2 DEF SubmitFails
    <3>2. mishandled' = IF cur.copied THEN mishandled \cup {cur.idx} ELSE mishandled
      BY <1>11, <3>1 DEF MapInput
    <3> QED  BY <1>9, <2>1, <3>1, <3>2
  <2>3. CASE ~SubmitFails
    <3>1. UNCHANGED <<refs, copies, mishandled, fifo, cur>> /\ pc' \in Taking
      BY <1>11, <2>3 DEF MapInput, queues, memory, Taking
    <3> QED  BY <1>4, <2>1, <3>1
  <2> QED  BY <2>2, <2>3
<1>12. CASE RegisterInput
  <2>1. /\ pc \in Taking /\ pc' \in Taking /\ UNCHANGED <<refs, copies, mishandled, fifo>>
        /\ cur' = cur \/ cur' = [cur EXCEPT !.reg = TRUE]
    BY <1>12 DEF RegisterInput, Taking, queues
  <2>2. cur'.idx = cur.idx /\ cur'.copied = cur.copied
    <3>1. cur \in Frame
      BY <1>1, <2>1
    <3>2. [cur EXCEPT !.reg = TRUE].idx = cur.idx /\ [cur EXCEPT !.reg = TRUE].copied = cur.copied
      BY <3>1, FrameKinds
    <3> QED  BY <2>1, <3>2
  <2> QED  BY <1>4, <2>1, <2>2
<1>13. CASE Recover
  <2>1. ~cur.copied /\ pc \in Taking /\ pc \in {"new", "recover"} /\ mishandled' = mishandled
    BY <1>13 DEF Recover, Placed, Taking
  <2>2. CASE CopyInput
    BY <1>8, <2>1, <2>2
  <2>3. CASE SubmitFails
    BY <1>9, <2>1, <2>3
  <2> QED  BY <1>13, <2>2, <2>3 DEF Recover
<1>14. CASE QueueFrame
  <2>1. /\ pc = "queue" /\ pc \in Taking /\ pc' \notin Taking /\ fifo' = Append(fifo, cur) /\ cur \in Frame
        /\ UNCHANGED <<refs, copies, mishandled>>
    BY <1>1, <1>14 DEF QueueFrame, Taking, memory
  <2> DEFINE l == Len(fifo)
  <2>2. /\ DOMAIN fifo' = 1 .. (l + 1) /\ fifo'[l + 1] = cur /\ l \in Nat /\ DOMAIN fifo = 1 .. l
        /\ \A k \in 1 .. l : fifo'[k] = fifo[k]
    BY <2>1, Queued
  <2> HIDE DEF l
  <2>3. ASSUME NEW i \in Items, NEW c \in BOOLEAN
        PROVE  Owned(i, c)' <=> Owned(i, c)
    <3>1. (\E k \in DOMAIN fifo' : fifo'[k].idx = i /\ fifo'[k].copied = c)
            <=> \/ \E k \in DOMAIN fifo : fifo[k].idx = i /\ fifo[k].copied = c
                \/ cur.idx = i /\ cur.copied = c
      <4>1. l + 1 \in DOMAIN fifo' /\ \A k \in DOMAIN fifo' : k \in DOMAIN fifo \/ k = l + 1
        BY <2>2
      <4>2. \A k \in DOMAIN fifo : k \in DOMAIN fifo' /\ fifo'[k] = fifo[k]
        BY <2>2
      <4> QED  BY <2>2, <4>1, <4>2
    <3> QED  BY <2>1, <3>1 DEF Owned
  <2> QED  BY <1>2, <2>1, <2>3
\* Every frame is given back.
<1>15. ASSUME ReleaseAll, pc \notin Taking, pc' \notin Taking, UNCHANGED mishandled
       PROVE  InputsCounted'
  <2>1. \A i \in Items :
          /\ refs'[i] = refs[i] - (IF \E f \in Frames : f.idx = i /\ ~f.copied THEN 1 ELSE 0)
          /\ copies'[i] = copies[i] - (IF \E f \in Frames : f.idx = i /\ f.copied THEN 1 ELSE 0)
    <3>1. Frames \in SUBSET Frames
      OBVIOUS
    <3> QED  BY <1>15, <3>1, Released DEF ReleaseAll
  <2>2. ASSUME NEW i \in Items
        PROVE  /\ (\E f \in Frames : f.idx = i /\ ~f.copied) <=> Owned(i, FALSE)
               /\ (\E f \in Frames : f.idx = i /\ f.copied) <=> Owned(i, TRUE)
    BY <1>1, <1>15 DEF Frames, Owned
  <2>3. \A i \in Items : ~Owned(i, FALSE)' /\ ~Owned(i, TRUE)'
    <3>1. DOMAIN fifo' = {}
      BY <1>15 DEF ReleaseAll
    <3> QED  BY <1>15, <3>1 DEF Owned
  <2>4. ASSUME NEW i \in Items \ mishandled
        PROVE  refs'[i] = 0 /\ copies'[i] = 0
    <3>1. /\ refs[i] = IF Owned(i, FALSE) THEN 1 ELSE 0
          /\ copies[i] = IF Owned(i, TRUE) THEN 1 ELSE 0
      BY DEF InputsCounted
    <3>2. /\ refs'[i] = refs[i] - (IF Owned(i, FALSE) THEN 1 ELSE 0)
          /\ copies'[i] = copies[i] - (IF Owned(i, TRUE) THEN 1 ELSE 0)
      BY <2>1, <2>2
    <3> QED  BY <3>1, <3>2
  <2> QED  BY <1>15, <2>3, <2>4 DEF InputsCounted
<1>16. CASE PassEvent \/ Reset
  BY <1>15, <1>16 DEF PassEvent, Reset, chain, Taking
<1>17. CASE CreateOutput \/ MapOutput \/ RegisterOutput \/ ProcessFrames
  <2>1. pc \notin Taking
    BY <1>17 DEF CreateOutput, MapOutput, RegisterOutput, ProcessFrames, Taking
  <2>2. CASE GenerateFails
    BY <1>15, <2>1, <2>2 DEF GenerateFails, Taking
  <2>3. CASE ~GenerateFails
    BY <1>3, <1>17, <2>1, <2>3 DEF CreateOutput, MapOutput, RegisterOutput, ProcessFrames,
         OutputLost, queues, memory, Taking
  <2> QED  BY <2>2, <2>3
<1>18. CASE Push
  BY <1>3, <1>18 DEF Push, queues, Taking
<1>19. CASE Deliver
  <2>1. /\ pc \notin Taking /\ pc' \notin Taking /\ fifo # << >> /\ fifo' = Tail(fifo)
        /\ UNCHANGED mishandled /\ Release({Head(fifo)})
    BY <1>19 DEF Deliver, OrderInv, Filled, Types, Making, Taking
  <2> DEFINE l == Len(fifo)
             h == Head(fifo)
  <2>2. /\ h = fifo[1] /\ l \in Nat \ {0} /\ DOMAIN fifo = 1 .. l /\ DOMAIN fifo' = 1 .. (l - 1)
        /\ \A k \in 1 .. (l - 1) : fifo'[k] = fifo[k + 1]
    BY <2>1, Queued
  <2>3. {h} \in SUBSET Frames
    BY <2>2 DEF Frames
  <2>4. \A i \in Items :
          /\ refs'[i] = refs[i] - (IF \E f \in {h} : f.idx = i /\ ~f.copied THEN 1 ELSE 0)
          /\ copies'[i] = copies[i] - (IF \E f \in {h} : f.idx = i /\ f.copied THEN 1 ELSE 0)
    BY <2>1, <2>3, Released
  <2> HIDE DEF l, h
  <2>5. h.copied \in BOOLEAN /\ 1 \in DOMAIN fifo
    BY <1>1, <2>2
  <2>6. ASSUME NEW i \in Items, NEW c \in BOOLEAN
        PROVE  /\ Owned(i, c) <=> Owned(i, c)' \/ (h.idx = i /\ h.copied = c)
               /\ ~(Owned(i, c)' /\ h.idx = i)
    <3>1. \A k \in DOMAIN fifo : k = 1 \/ (k - 1 \in DOMAIN fifo' /\ fifo'[k - 1] = fifo[k])
      <4> SUFFICES ASSUME NEW k \in 1 .. l, k # 1
                   PROVE  k - 1 \in 1 .. (l - 1) /\ fifo'[k - 1] = fifo[k]
        BY <2>2
      <4>1. k - 1 \in 1 .. (l - 1) /\ (k - 1) + 1 = k
        BY <2>2
      <4> QED  BY <2>2, <4>1
    <3>2. \A k \in DOMAIN fifo' : k + 1 \in DOMAIN fifo /\ k + 1 # 1 /\ fifo'[k] = fifo[k + 1]
      BY <2>2
    <3>3. \A k \in DOMAIN fifo' : fifo'[k].idx # h.idx
      BY <2>2, <2>5, <3>2 DEF Distinct
    <3> QED  BY SMTT(40), <2>1, <2>2, <2>5, <3>1, <3>2, <3>3 DEF Owned
  <2>7. ASSUME NEW i \in Items \ mishandled
        PROVE  /\ refs'[i] = IF Owned(i, FALSE)' THEN 1 ELSE 0
               /\ copies'[i] = IF Owned(i, TRUE)' THEN 1 ELSE 0
    <3>1. /\ refs[i] = IF Owned(i, FALSE) THEN 1 ELSE 0
          /\ copies[i] = IF Owned(i, TRUE) THEN 1 ELSE 0
      BY DEF InputsCounted
    <3>2. /\ refs'[i] = refs[i] - (IF h.idx = i /\ ~h.copied THEN 1 ELSE 0)
          /\ copies'[i] = copies[i] - (IF h.idx = i /\ h.copied THEN 1 ELSE 0)
      BY <2>4
    <3>3. CASE h.idx = i
      <4>1. /\ Owned(i, FALSE) <=> h.copied = FALSE
            /\ Owned(i, TRUE) <=> h.copied = TRUE
            /\ ~Owned(i, FALSE)' /\ ~Owned(i, TRUE)'
        BY <2>6, <3>3
      <4>2. refs'[i] = 0 /\ copies'[i] = 0
        <5>1. CASE h.copied
          <6>1. h.copied = TRUE /\ ~(h.copied = FALSE)
            BY <2>5, <5>1
          <6>2. refs[i] = 0 /\ copies[i] = 1
            BY <3>1, <4>1, <6>1
          <6>3. refs'[i] = refs[i] - 0 /\ copies'[i] = copies[i] - 1
            BY <3>2, <3>3, <5>1, Zenon
          <6> QED  BY <6>2, <6>3
        <5>2. CASE ~h.copied
          <6>1. h.copied = FALSE /\ ~(h.copied = TRUE)
            BY <2>5, <5>2
          <6>2. refs[i] = 1 /\ copies[i] = 0
            BY <3>1, <4>1, <6>1
          <6>3. refs'[i] = refs[i] - 1 /\ copies'[i] = copies[i] - 0
            BY <3>2, <3>3, <5>2, Zenon
          <6> QED  BY <6>2, <6>3
        <5> QED  BY <5>1, <5>2
      <4> QED  BY <4>1, <4>2
    <3>4. CASE h.idx # i
      <4>1. \A c \in BOOLEAN : Owned(i, c) <=> Owned(i, c)'
        BY <2>6, <3>4
      <4>2. refs'[i] = refs[i] /\ copies'[i] = copies[i]
        BY <1>1, <3>2, <3>4
      <4> QED  BY <3>1, <4>1, <4>2
    <3> QED  BY <3>3, <3>4
  <2> QED  BY <2>1, <2>7 DEF InputsCounted
<1> QED
  BY <1>5, <1>6, <1>7, <1>10, <1>11, <1>12, <1>13, <1>14, <1>16, <1>17, <1>18, <1>19
     DEF Next, SubmitInputBuffer, GenerateOutput, SinkEvent

LEMMA OutputsStep ==
  OrderInv /\ TypeOK /\ Placed /\ OutputsCounted /\ [Next]_vars => OutputsCounted' /\ outs' \in [Items -> Int]
<1> SUFFICES ASSUME OrderInv, TypeOK, Placed, OutputsCounted, [Next]_vars
             PROVE  OutputsCounted' /\ outs' \in [Items -> Int]
  OBVIOUS
<1>1. outs \in [Items -> Int] /\ (pc \in Making \cup {"push"} => out \in Frame /\ out.idx \in Items)
  BY FrameKinds DEF TypeOK, Placed
<1>2. ASSUME UNCHANGED outs, pc \notin Making \cup {"push"}, pc' \notin Making \cup {"push"}
      PROVE  OutputsCounted' /\ outs' \in [Items -> Int]
  BY <1>1, <1>2 DEF OutputsCounted
<1>3. ASSUME UNCHANGED outs, pc \in Making \cup {"push"}, pc' \in Making \cup {"push"},
             out'.idx = out.idx
      PROVE  OutputsCounted' /\ outs' \in [Items -> Int]
  BY <1>1, <1>3 DEF OutputsCounted
\* The output is given up.
<1>4. ASSUME outs' = Add(outs, out.idx, -1), pc \in Making \cup {"push"},
             pc' \notin Making \cup {"push"}
      PROVE  OutputsCounted' /\ outs' \in [Items -> Int]
  <2>1. PICK e \in Items : e = out.idx
    BY <1>1, <1>4
  <2>2. /\ outs' \in [Items -> Int] /\ outs'[e] = outs[e] + (-1)
        /\ \A i \in Items : i # e => outs'[i] = outs[i]
    BY <1>1, <1>4, <2>1 DEF Add
  <2>3. outs[e] = 1 /\ \A i \in Items : i # e => outs[i] = 0
    BY <1>4, <2>1 DEF OutputsCounted
  <2>4. \A i \in Items : outs'[i] = 0
    BY <2>2, <2>3
  <2> QED  BY <1>4, <2>2, <2>4 DEF OutputsCounted
<1>5. CASE Dropped \/ Submit \/ TooFew \/ QueueEvent \/ PassEvent \/ Reset
  BY <1>2, <1>5 DEF Dropped, Submit, TooFew, QueueEvent, PassEvent, Reset, Arrives, chain, memory, Making
<1>6. CASE NewFrame \/ MapInput \/ RegisterInput \/ Recover \/ QueueFrame
  BY <1>2, <1>6 DEF NewFrame, MapInput, RegisterInput, Recover, QueueFrame, CopyInput, SubmitFails,
       memory, Making
<1>7. CASE SetProperty \/ UNCHANGED vars
  <2>1. UNCHANGED <<outs, pc, out>>
    BY <1>7 DEF SetProperty, vars, memory, chain
  <2> QED  BY <1>2, <1>3, <2>1
<1>8. CASE CreateOutput
  <2>1. CASE GenerateFails
    BY <1>2, <1>8, <2>1 DEF CreateOutput, GenerateFails, Making
  <2>2. CASE ~GenerateFails
    <3>1. PICK d \in BOOLEAN : out' = [NoFrame EXCEPT !.idx = fifo[Len(fifo)].idx, !.dma = d]
      BY <1>8, <2>2 DEF CreateOutput
    <3>2. PICK e \in Items : e = fifo[Len(fifo)].idx
      <4>1. Len(fifo) \in Nat /\ ipo \in Nat \ {0} /\ Len(fifo) >= ipo /\ DOMAIN fifo = 1 .. Len(fifo)
        BY <1>8, Queued DEF CreateOutput, OrderInv, Types
      <4>2. Len(fifo) \in DOMAIN fifo
        BY <4>1
      <4> QED  BY <4>2, Queued, FrameKinds
    <3>3. out'.idx = e
      BY ZenonT(40), <3>1, <3>2, FrameKinds
    <3>4. /\ outs' = Add(outs, e, 1) /\ pc \notin Making \cup {"push"} /\ pc' \in Making \cup {"push"}
      BY <1>8, <2>2, <3>2 DEF CreateOutput, Making
    <3>5. /\ outs' \in [Items -> Int] /\ outs'[e] = outs[e] + 1
          /\ \A i \in Items : i # e => outs'[i] = outs[i]
      BY <1>1, <3>4 DEF Add
    <3>6. \A i \in Items : outs[i] = 0
      BY <3>4 DEF OutputsCounted
    <3>7. outs'[e] = 1 /\ \A i \in Items : i # e => outs'[i] = 0
      BY <3>5, <3>6
    <3> QED  BY <3>3, <3>4, <3>5, <3>7 DEF OutputsCounted
  <2> QED  BY <2>1, <2>2
<1>9. CASE MapOutput \/ RegisterOutput
  <2>1. CASE OutputLost
    BY <1>4, <1>9, <2>1 DEF MapOutput, RegisterOutput, OutputLost, GenerateFails, Making
  <2>2. CASE ~OutputLost
    <3>1. /\ UNCHANGED outs /\ pc \in Making \cup {"push"} /\ pc' \in Making \cup {"push"}
          /\ out' = out \/ out' = [out EXCEPT !.reg = TRUE]
      BY <1>9, <2>2 DEF MapOutput, RegisterOutput, memory, Making
    <3>2. out'.idx = out.idx
      <4>1. [out EXCEPT !.reg = TRUE].idx = out.idx
        BY <1>1, <3>1, FrameKinds
      <4> QED  BY <3>1, <4>1
    <3> QED  BY <1>3, <3>1, <3>2
  <2> QED  BY <2>1, <2>2
<1>10. CASE ProcessFrames
  <2>1. CASE GenerateFails
    BY <1>4, <1>10, <2>1 DEF ProcessFrames, GenerateFails, Making
  <2>2. CASE ~GenerateFails
    BY <1>3, <1>10, <2>2 DEF ProcessFrames, memory, Making
  <2> QED  BY <2>1, <2>2
<1>11. CASE Deliver
  BY <1>3, <1>11 DEF Deliver, Making
<1>12. CASE Push
  BY <1>4, <1>12 DEF Push, Making
<1> QED
  BY <1>5, <1>6, <1>7, <1>8, <1>9, <1>10, <1>11, <1>12
     DEF Next, SubmitInputBuffer, GenerateOutput, SinkEvent

\* As long as nobody changes the mode, what is registered is taken back.
LEMMA RegsStep ==
  OrderInv /\ TypeOK /\ Placed /\ Distinct /\ RegsCounted /\ [Next]_vars => RegsCounted' /\ regs' \subseteq Handles
<1> SUFFICES ASSUME OrderInv, TypeOK, Placed, Distinct, RegsCounted, [Next]_vars
             PROVE  RegsCounted' /\ regs' \subseteq Handles
  OBVIOUS
<1>1. /\ regs \subseteq Handles /\ switches \in Nat
      /\ \A k \in DOMAIN fifo : fifo[k] \in Frame /\ fifo[k].idx \in Items
      /\ pc \in Taking => cur \in Frame /\ cur.idx \in Items
      /\ pc \in Making \cup {"push"} => out \in Frame /\ out.idx \in Items
  <2>1. regs \subseteq Handles /\ switches \in Nat
    BY SdxAssumption DEF TypeOK
  <2>2. \A k \in DOMAIN fifo : fifo[k] \in Frame
    BY Queued
  <2>3. /\ pc \in Taking => cur \in Frame
        /\ pc \in Making \cup {"push"} => out \in Frame
    BY DEF Placed
  <2>4. \A f \in Frame : f.idx \in Items
    BY FrameKinds
  <2> QED  BY <2>1, <2>2, <2>3, <2>4
<1>2. ASSUME UNCHANGED <<switches, mode, regs>>, \A h \in Handles : Registered(h)' <=> Registered(h)
      PROVE  RegsCounted' /\ regs' \subseteq Handles
  BY <1>1, <1>2 DEF RegsCounted, Hardware
<1>3. ASSUME UNCHANGED <<switches, mode, regs, fifo>>, pc' = "queue" => ~cur'.reg, pc = "queue" => ~cur.reg,
             pc' \notin {"process", "deliver"}, pc \notin {"process", "deliver"}
      PROVE  RegsCounted' /\ regs' \subseteq Handles
  BY <1>2, <1>3 DEF Registered
<1>4. ASSUME UNCHANGED setup
      PROVE  UNCHANGED <<switches, mode>>
  BY <1>4 DEF setup
<1>5. CASE Dropped \/ Submit \/ TooFew \/ QueueEvent
  BY <1>3, <1>5 DEF Dropped, Submit, TooFew, QueueEvent, Arrives, chain, memory, queues, setup
<1>6. CASE NewFrame \/ MapInput \/ Recover
  <2>1. /\ pc \in Taking \ {"queue"} /\ pc' \in {"map", "register", "queue", "idle"}
        /\ UNCHANGED <<switches, mode, regs, fifo>> /\ (pc' = "queue" => cur' = cur)
    BY <1>6 DEF NewFrame, MapInput, Recover, CopyInput, SubmitFails, setup, memory, queues, Taking
  <2>2. pc \notin {"process", "deliver"} /\ pc' \notin {"process", "deliver"} /\ pc # "queue" /\ ~cur.reg
    BY <2>1 DEF Placed, Taking
  <2> QED  BY <1>3, <2>1, <2>2
<1>7. CASE RegisterInput
  <2>1. CASE UNCHANGED <<cur, regs>>
    <3>1. /\ pc = "register" /\ pc' \in {"queue", "recover"} /\ UNCHANGED <<switches, mode, fifo>>
          /\ ~cur.reg
      BY <1>7 DEF RegisterInput, setup, queues, Placed, Taking
    <3> QED  BY <1>3, <2>1, <3>1
  <2>2. CASE ~UNCHANGED <<cur, regs>>
    <3>1. /\ pc = "register" /\ pc' = "queue" /\ UNCHANGED <<switches, mode, fifo>>
          /\ cur' = [cur EXCEPT !.reg = TRUE] /\ regs' = regs \cup {<<"in", cur.idx>>}
      BY <1>7, <2>2 DEF RegisterInput, setup, queues
    <3>2. cur \in Frame /\ cur.idx \in Items
      BY <1>1, <3>1 DEF Taking
    <3>3. cur'.reg = TRUE /\ cur'.idx = cur.idx
      BY <3>1, <3>2, FrameKinds
    <3>4. \A h \in Handles : Registered(h)' <=> Registered(h) \/ h = <<"in", cur.idx>>
      BY <3>1, <3>3 DEF Registered
    <3>5. regs' \subseteq Handles
      BY <1>1, <3>1, <3>2 DEF Handles
    <3> QED  BY <3>1, <3>4, <3>5 DEF RegsCounted, Hardware
  <2> QED  BY <2>1, <2>2
<1>8. CASE QueueFrame
  <2>1. /\ pc = "queue" /\ pc' = "generate" /\ UNCHANGED <<switches, mode, regs>>
        /\ fifo' = Append(fifo, cur) /\ cur \in Frame
    BY <1>1, <1>8 DEF QueueFrame, setup, memory, Taking
  <2> DEFINE l == Len(fifo)
  <2>2. /\ DOMAIN fifo' = 1 .. (l + 1) /\ fifo'[l + 1] = cur /\ l \in Nat /\ DOMAIN fifo = 1 .. l
        /\ \A k \in 1 .. l : fifo'[k] = fifo[k]
    BY <2>1, Queued
  <2> HIDE DEF l
  <2>3. ASSUME NEW h \in Handles
        PROVE  Registered(h)' <=> Registered(h)
    <3>1. (\E k \in DOMAIN fifo' : fifo'[k].reg /\ h = <<"in", fifo'[k].idx>>)
            <=> \/ \E k \in DOMAIN fifo : fifo[k].reg /\ h = <<"in", fifo[k].idx>>
                \/ cur.reg /\ h = <<"in", cur.idx>>
      <4>1. l + 1 \in DOMAIN fifo' /\ \A k \in DOMAIN fifo' : k \in DOMAIN fifo \/ k = l + 1
        BY <2>2
      <4>2. \A k \in DOMAIN fifo : k \in DOMAIN fifo' /\ fifo'[k] = fifo[k]
        BY <2>2
      <4> QED  BY <2>2, <4>1, <4>2
    <3> QED  BY <2>1, <3>1 DEF Registered
  <2> QED  BY <1>2, <2>1, <2>3
\* Every frame is given back, and the output if it had been registered.
<1>9. ASSUME UNCHANGED <<switches, mode>>, fifo' = << >>, pc' \notin {"queue", "process", "deliver"},
             pc # "queue", NEW S, regs' = Unregistered(S), InHandles(Frames) \subseteq S,
             pc \in {"process", "deliver"} => OutHandle \subseteq S
      PROVE  RegsCounted' /\ regs' \subseteq Handles
  <2>1. regs' \subseteq Handles
    BY <1>1, <1>9 DEF Unregistered
  <2>2. ASSUME switches = 0, NEW h \in Handles
        PROVE  h \notin regs' /\ ~Registered(h)'
    <3>1. DOMAIN fifo' = {}
      BY <1>9
    <3>2. ~Registered(h)'
      BY <1>9, <3>1 DEF Registered
    <3>3. Registered(h) => h \in S
      BY <1>9 DEF Registered, InHandles, Frames
    <3>4. regs' = regs \ S /\ (h \in regs <=> Registered(h))
      BY <1>9, <2>2 DEF RegsCounted, Unregistered
    <3> QED  BY <3>2, <3>3, <3>4
  <2> QED  BY <1>9, <2>1, <2>2 DEF RegsCounted, Hardware
<1>10. CASE PassEvent \/ Reset
  BY <1>9, <1>10 DEF PassEvent, Reset, ReleaseAll, chain, setup
<1>11. CASE CreateOutput
  <2>1. CASE GenerateFails
    <3>1. /\ UNCHANGED <<switches, mode>> /\ fifo' = << >> /\ pc' = "idle" /\ pc = "generate"
          /\ regs' = Unregistered(InHandles(Frames))
      BY <1>11, <2>1 DEF CreateOutput, GenerateFails, ReleaseAll, setup
    <3> QED  BY <1>9, <3>1
  <2>2. CASE ~GenerateFails
    BY <1>3, <1>11, <2>2 DEF CreateOutput, setup, queues
  <2> QED  BY <2>1, <2>2
<1>12. CASE MapOutput
  <2>1. CASE OutputLost
    <3>1. /\ UNCHANGED <<switches, mode>> /\ fifo' = << >> /\ pc' = "idle" /\ pc = "outmap"
          /\ regs' = Unregistered(InHandles(Frames))
      BY <1>12, <2>1 DEF MapOutput, OutputLost, GenerateFails, ReleaseAll, setup
    <3> QED  BY <1>9, <3>1
  <2>2. CASE ~OutputLost
    BY <1>3, <1>12, <2>2 DEF MapOutput, setup, queues, memory
  <2> QED  BY <2>1, <2>2
<1>13. CASE RegisterOutput
  <2>1. CASE OutputLost
    <3>1. /\ UNCHANGED <<switches, mode>> /\ fifo' = << >> /\ pc' = "idle" /\ pc = "outregister"
          /\ regs' = Unregistered(InHandles(Frames))
      BY <1>13, <2>1 DEF RegisterOutput, OutputLost, GenerateFails, ReleaseAll, setup
    <3> QED  BY <1>9, <3>1
  <2>2. CASE ~OutputLost
    <3>1. /\ pc = "outregister" /\ pc' = "process" /\ UNCHANGED <<switches, mode, fifo>>
          /\ IF Hardware /\ out.dma
               THEN out' = [out EXCEPT !.reg = TRUE] /\ regs' = regs \cup {<<"out", out.idx>>}
               ELSE UNCHANGED <<out, regs>>
      BY <1>13, <2>2 DEF RegisterOutput, setup, queues
    <3>2. out \in Frame /\ out.idx \in Items /\ ~out.reg
      BY <1>1, <3>1 DEF Making, Placed
    <3>3. CASE Hardware /\ out.dma
      <4>1. out'.reg = TRUE /\ out'.idx = out.idx /\ regs' = regs \cup {<<"out", out.idx>>}
        <5>1. [out EXCEPT !.reg = TRUE].reg = TRUE /\ [out EXCEPT !.reg = TRUE].idx = out.idx
          BY <3>2, FrameKinds
        <5> QED  BY <3>1, <3>3, <5>1
      <4>2. \A h \in Handles : Registered(h)' <=> Registered(h) \/ h = <<"out", out.idx>>
        BY <3>1, <4>1 DEF Registered, OutHandle
      <4>3. regs' \subseteq Handles
        BY <1>1, <3>2, <4>1 DEF Handles
      <4> QED  BY <3>1, <4>1, <4>2, <4>3 DEF RegsCounted, Hardware
    <3>4. CASE ~(Hardware /\ out.dma)
      <4>1. UNCHANGED <<out, regs>>
        BY <3>1, <3>4
      <4>2. \A h \in Handles : Registered(h)' <=> Registered(h)
        BY <3>1, <3>2, <4>1 DEF Registered, OutHandle
      <4> QED  BY <1>2, <3>1, <4>1, <4>2
    <3> QED  BY <3>3, <3>4
  <2> QED  BY <2>1, <2>2
<1>14. CASE ProcessFrames
  <2>1. CASE GenerateFails
    <3>1. /\ UNCHANGED <<switches, mode>> /\ fifo' = << >> /\ pc' = "idle" /\ pc = "process"
          /\ regs' = Unregistered(OutHandle \cup InHandles(Frames))
      BY <1>14, <2>1 DEF ProcessFrames, GenerateFails, ReleaseAll, setup
    <3> QED  BY <1>9, <3>1
  <2>2. CASE ~GenerateFails
    <3>1. /\ pc = "process" /\ pc' = "deliver" /\ UNCHANGED <<switches, mode, fifo, regs, out>>
      BY <1>14, <2>2 DEF ProcessFrames, setup, queues, memory
    <3>2. \A h \in Handles : Registered(h)' <=> Registered(h)
      BY <3>1 DEF Registered, OutHandle
    <3> QED  BY <1>2, <3>1, <3>2
  <2> QED  BY <2>1, <2>2
<1>15. CASE Push
  BY <1>3, <1>15 DEF Push, setup, queues
<1>16. CASE SetProperty
  <2>1. switches' = switches + 1 /\ regs' = regs
    BY <1>16 DEF SetProperty, memory
  <2> QED  BY <1>1, <2>1 DEF RegsCounted
<1>17. CASE UNCHANGED vars
  <2>1. UNCHANGED <<switches, mode, regs, fifo, cur, out, pc>>
    BY <1>17 DEF vars, setup, queues, memory, chain
  <2>2. \A h \in Handles : Registered(h)' <=> Registered(h)
    BY <2>1 DEF Registered, OutHandle
  <2> QED  BY <1>2, <2>1, <2>2
<1>18. CASE Deliver
  <2> DEFINE l == Len(fifo)
             f == Head(fifo)
  <2>1. /\ pc = "deliver" /\ pc' = "push" /\ fifo # << >> /\ fifo' = Tail(fifo)
        /\ UNCHANGED <<switches, mode>> /\ regs' = Unregistered(OutHandle \cup InHandles({f}))
    BY <1>18 DEF Deliver, OrderInv, Filled, Types, Making, setup
  <2>2. /\ f = fifo[1] /\ l \in Nat \ {0} /\ DOMAIN fifo = 1 .. l /\ DOMAIN fifo' = 1 .. (l - 1)
        /\ \A k \in 1 .. (l - 1) : fifo'[k] = fifo[k + 1]
    BY <2>1, Queued
  <2> HIDE DEF l, f
  <2>3. regs' \subseteq Handles
    BY <1>1, <2>1 DEF Unregistered
  <2>4. ASSUME switches = 0, NEW h \in Handles
        PROVE  h \in regs' <=> Registered(h)'
    <3>1. \A k \in DOMAIN fifo : k = 1 \/ (k - 1 \in DOMAIN fifo' /\ fifo'[k - 1] = fifo[k])
      <4> SUFFICES ASSUME NEW k \in 1 .. l, k # 1
                   PROVE  k - 1 \in 1 .. (l - 1) /\ fifo'[k - 1] = fifo[k]
        BY <2>2
      <4>1. k - 1 \in 1 .. (l - 1) /\ (k - 1) + 1 = k
        BY <2>2
      <4> QED  BY <2>2, <4>1
    <3>2. \A k \in DOMAIN fifo' : k + 1 \in DOMAIN fifo /\ k + 1 # 1 /\ fifo'[k] = fifo[k + 1]
      BY <2>2
    <3>3. \A k \in DOMAIN fifo' : fifo'[k].idx # f.idx
      <4>1. 1 \in DOMAIN fifo
        BY <2>2
      <4> QED  BY <2>2, <3>2, <4>1 DEF Distinct
    <3>4. 1 \in DOMAIN fifo
      BY <2>2
    <3>5. /\ h \in regs' <=> h \in regs /\ h \notin OutHandle /\ ~(f.reg /\ h = <<"in", f.idx>>)
          /\ h \in regs <=> Registered(h)
      BY <2>1, <2>4 DEF RegsCounted, Unregistered, InHandles
    <3>6. h \in OutHandle => \A i : h # <<"in", i>>
      BY DEF OutHandle
    <3>7. Registered(h)' <=> \E k \in DOMAIN fifo' : fifo'[k].reg /\ h = <<"in", fifo'[k].idx>>
      BY <2>1 DEF Registered
    <3>8. Registered(h) <=> \/ \E k \in DOMAIN fifo : fifo[k].reg /\ h = <<"in", fifo[k].idx>>
                            \/ h \in OutHandle
      BY <2>1 DEF Registered
    <3>9. (\E k \in DOMAIN fifo : fifo[k].reg /\ h = <<"in", fifo[k].idx>>)
            <=> \/ \E k \in DOMAIN fifo' : fifo'[k].reg /\ h = <<"in", fifo'[k].idx>>
                \/ f.reg /\ h = <<"in", f.idx>>
      BY <2>2, <3>1, <3>2, <3>4
    <3>10. h = <<"in", f.idx>> => ~\E k \in DOMAIN fifo' : h = <<"in", fifo'[k].idx>>
      BY <3>3
    <3> QED  BY <3>5, <3>6, <3>7, <3>8, <3>9, <3>10
  <2> QED  BY <2>1, <2>3, <2>4 DEF RegsCounted, Hardware
<1> QED
  BY <1>5, <1>6, <1>7, <1>8, <1>10, <1>11, <1>12, <1>13, <1>14, <1>15, <1>16, <1>17, <1>18
     DEF Next, SubmitInputBuffer, GenerateOutput, SinkEvent

LEMMA TypesOfMemory == OrderInv /\ TypeOK /\ Placed /\ Distinct /\ [Next]_vars =>
  refs' \in [Items -> Int] /\ copies' \in [Items -> Int] /\ mishandled' \subseteq Items
<1> SUFFICES ASSUME OrderInv, TypeOK, Placed, Distinct, [Next]_vars
             PROVE  refs' \in [Items -> Int] /\ copies' \in [Items -> Int] /\ mishandled' \subseteq Items
  OBVIOUS
<1>1. refs \in [Items -> Int] /\ copies \in [Items -> Int] /\ mishandled \subseteq Items
  BY DEF TypeOK
<1>2. CASE UNCHANGED <<refs, copies, mishandled>>
  BY <1>1, <1>2
<1>3. CASE Dropped \/ RegisterInput \/ QueueFrame \/ TooFew \/ Push \/ QueueEvent \/ SetProperty \/ UNCHANGED vars
  BY <1>2, <1>3 DEF Dropped, RegisterInput, QueueFrame, TooFew, Push, QueueEvent, SetProperty, vars, memory
<1>4. ASSUME ReleaseAll, UNCHANGED mishandled
      PROVE  refs' \in [Items -> Int] /\ copies' \in [Items -> Int] /\ mishandled' \subseteq Items
  BY <1>1, <1>4, TypeEmptied
<1>5. CASE CreateOutput \/ MapOutput \/ RegisterOutput \/ ProcessFrames
  <2>1. UNCHANGED <<refs, copies, mishandled>> \/ GenerateFails
    BY <1>5 DEF CreateOutput, MapOutput, RegisterOutput, ProcessFrames, OutputLost, memory
  <2> QED  BY <1>2, <1>4, <2>1 DEF GenerateFails
<1>6. CASE PassEvent \/ Reset
  BY <1>4, <1>6 DEF PassEvent, Reset
<1>7. CASE Submit
  BY <1>1, <1>7, NewItem DEF Submit, Add, Arrives
<1>8. CASE NewFrame \/ MapInput \/ Recover
  <2>1. \/ UNCHANGED <<refs, copies>>
        \/ refs' = Add(refs, cur.idx, -1) /\ UNCHANGED copies
        \/ refs' = Add(refs, cur.idx, -1) /\ copies' = Add(copies, cur.idx, 1)
    BY <1>8 DEF NewFrame, MapInput, Recover, CopyInput, SubmitFails, memory
  <2>2. mishandled' \in {mishandled, mishandled \cup {cur.idx}}
    BY <1>8 DEF NewFrame, MapInput, Recover
  <2>3. cur.idx \in Items
    BY <1>8, FrameKinds DEF Placed, Taking, NewFrame, MapInput, Recover
  <2> QED  BY <1>1, <2>1, <2>2, <2>3 DEF Add
<1>9. CASE Deliver
  <2>1. pc = "deliver" /\ Release({Head(fifo)}) /\ UNCHANGED mishandled
    BY <1>9 DEF Deliver
  <2>2. fifo # << >>
    BY <2>1 DEF OrderInv, Filled, Types, Making
  <2>3. 1 \in DOMAIN fifo /\ Head(fifo) = fifo[1]
    BY <2>2, Queued
  <2>4. {Head(fifo)} \in SUBSET Frames
    BY <2>3 DEF Frames
  <2> QED  BY <1>1, <2>1, <2>4, Released
<1> QED
  BY <1>3, <1>5, <1>6, <1>7, <1>8, <1>9
     DEF Next, SubmitInputBuffer, GenerateOutput, SinkEvent

LEMMA AccountInit == Init => AccountInv
<1> SUFFICES ASSUME Init
             PROVE  AccountInv
  OBVIOUS
<1>1. DOMAIN fifo = {} /\ << >> \in Seq(Frame) /\ << >> \in Seq(Items)
  BY DEF Init
<1>2. TypeOK
  BY <1>1, SdxAssumption DEF Init, TypeOK
<1>3. Placed /\ Distinct
  BY <1>1 DEF Init, Placed, Distinct, Taking, Making
<1>4. \A i \in Items : ~Owned(i, FALSE) /\ ~Owned(i, TRUE)
  BY <1>1 DEF Init, Owned, Taking
<1>5. InputsCounted
  BY <1>4 DEF Init, InputsCounted
<1>6. OutputsCounted
  BY DEF Init, OutputsCounted, Making
<1>7. RegsCounted
  BY <1>1 DEF Init, RegsCounted, Hardware, Registered
<1> QED  BY <1>2, <1>3, <1>5, <1>6, <1>7 DEF AccountInv

LEMMA AccountStep == OrderInv /\ OrderInv' /\ AccountInv /\ [Next]_vars => AccountInv'
<1> SUFFICES ASSUME OrderInv, OrderInv', AccountInv, [Next]_vars
             PROVE  AccountInv'
  OBVIOUS
<1>1. TypeOK /\ Placed /\ Distinct /\ InputsCounted /\ OutputsCounted /\ RegsCounted
  BY DEF AccountInv
<1>2. Distinct' /\ InputsCounted' /\ OutputsCounted' /\ RegsCounted' /\ Placed'
  BY <1>1, DistinctStep, InputsStep, OutputsStep, RegsStep, TypesOfFrames
<1>3. /\ mode' \in {"SW", "HW"} /\ cma' \in BOOLEAN /\ switches' \in 0 .. MaxSwitches
      /\ ipo' \in Inputs /\ n' \in 0 .. MaxItems /\ faults' \in 0 .. MaxFaults
      /\ flow' \in {"ok", "stopped", "eos"}
      /\ pc' \in Taking \cup Making \cup {"idle", "generate", "push"}
  BY <1>1, TypesOfSetup
<1>4. /\ cur' \in Frame \cup {NoFrame} /\ out' \in Frame \cup {NoFrame} /\ fifo' \in Seq(Frame)
      /\ taken' \in Seq(Items) /\ pending' \in Seq(Items) /\ down' \in Seq(Items)
      /\ held' \subseteq Items
  BY <1>1, TypesOfFrames, TypesOfStream
<1>5. /\ refs' \in [Items -> Int] /\ copies' \in [Items -> Int] /\ outs' \in [Items -> Int]
      /\ regs' \subseteq Handles /\ mishandled' \subseteq Items
  BY <1>1, TypesOfMemory, OutputsStep, RegsStep
<1>6. TypeOK'
  BY <1>3, <1>4, <1>5 DEF TypeOK, Taking, Making
<1> QED  BY <1>2, <1>6 DEF AccountInv

\* Of each input the FIFO holds no more than one frame.
LEMMA HoldsOne ==
  ASSUME TypeOK, Distinct, pc = "idle", NEW i \in Items, NEW c \in BOOLEAN
  PROVE  Holds(i, c) = IF Owned(i, c) THEN 1 ELSE 0
<1> DEFINE S == {f \in Frames : f.idx = i /\ f.copied = c}
<1>1. \A x, y \in S : x = y
  BY DEF Frames, Distinct
<1>2. (S # {}) <=> Owned(i, c)
  BY DEF Frames, Owned, Taking
<1>3. Holds(i, c) = Cardinality(S)
  BY DEF Holds
<1> HIDE DEF S
<1>4. Cardinality(S) = IF S = {} THEN 0 ELSE 1
  BY <1>1, Alone
<1> QED  BY <1>2, <1>3, <1>4

LEMMA AccountAtRest == AccountInv => Consistent
<1> SUFFICES ASSUME AccountInv
             PROVE  Consistent
  OBVIOUS
<1>1. TypeOK /\ Distinct /\ InputsCounted /\ OutputsCounted /\ RegsCounted
  BY DEF AccountInv
<1>2. ASSUME pc = "idle", NEW i \in Items \ mishandled
      PROVE  refs[i] = Holds(i, FALSE) /\ copies[i] = Holds(i, TRUE)
  BY <1>1, <1>2, HoldsOne DEF InputsCounted
<1>3. ASSUME pc = "idle", NEW i \in Items
      PROVE  outs[i] = 0
  BY <1>1, <1>3 DEF OutputsCounted, Making
<1>4. ASSUME pc = "idle", switches = 0
      PROVE  regs = InHandles(Frames)
  <2>1. \A h \in Handles : Registered(h) <=> h \in InHandles(Frames)
    BY <1>4 DEF Registered, InHandles, Frames
  <2>2. regs \subseteq Handles
    BY <1>1 DEF TypeOK
  <2>3. \A k \in DOMAIN fifo : fifo[k].idx \in Items
    BY <1>1, Queued, FrameKinds
  <2>4. InHandles(Frames) \subseteq Handles
    BY <2>3 DEF InHandles, Frames, Handles
  <2> QED  BY <1>1, <1>4, <2>1, <2>2, <2>4 DEF RegsCounted
<1> QED  BY <1>1, <1>2, <1>3, <1>4 DEF Consistent, Accounted

\* Whenever the streaming thread has returned from the chain, be it after an
\* output, an event, a reset or any failure on the way, the element holds one
\* reference to the buffer or the copy of every frame in input_frames, none to
\* any other buffer, and in a life without mode changes exactly the dmabufs of
\* those frames are registered (gst_sdx_base_frame_release, the error paths of
\* submit_input_buffer and of generate_output).
THEOREM NothingLeaks == Spec => []Consistent
<1>1. Init => OrderInv /\ AccountInv
  BY OrderInit, AccountInit
<1>2. OrderInv /\ AccountInv /\ [Next]_vars => (OrderInv /\ AccountInv)'
  BY OrderStep, AccountStep
<1>3. AccountInv => Consistent
  BY AccountAtRest
<1> QED  BY <1>1, <1>2, <1>3, PTL DEF Spec
===============================================================================
