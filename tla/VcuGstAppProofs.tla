---------------------------- MODULE VcuGstAppProofs ----------------------------
(***************************************************************************)
(* Proofs about the application and the library it runs on: the properties *)
(* of VcuGstApp that speak of a state hold for any number of sources and   *)
(* of rounds, whatever the callbacks on the nested main loops do, and in   *)
(* whichever order.                                                        *)
(*                                                                         *)
(* Three chains of facts are tied together in one invariant.  The stack of *)
(* the activations of stop_pipeline: which wait, on which source, and how  *)
(* many there can be, as loop_cb is scheduled once a round (StackInv,      *)
(* LoopInv).  What has been taken down: a source an activation has passed  *)
(* has no pipeline, so none has when it returns, and main does not go      *)
(* round or end before (PassedInv, OwnerInv).  A recording: as long as it  *)
(* plays, its source has seen neither EOS nor error and nobody quits its   *)
(* wait (RecordInv), so what ends the wait is the end of the recording     *)
(* (CutInv), and a message never reaches a source whose loop is gone       *)
(* (StrayInv).                                                             *)
(***************************************************************************)
EXTENDS VcuGstApp, Integers, SequenceTheorems, TLAPS

\* A state change to NULL has failed.
Null == "null" \in faults
AllZero == \A i \in 1 .. MaxSources : app[i].pipeline = 0
\* The round is over, and main will go on to the next.
Ending == playback /\ (closing \/ loop = "quit")

\* The activations: main's is the first one, those that wait do so on a source, and there
\* are no more of them, or scheduled, than rounds, besides main's.
StackInv ==
  /\ Depth > 0 => pc \in {"loop", "stopping"}
  /\ pc = "stopping" => Depth > 0
  /\ \A d \in 1 .. Depth : stack[d].who = "main" <=> (d = 1 /\ pc = "stopping")
  /\ \A d \in 1 .. Depth : stack[d].wait # "no" => stack[d].src <= cfg.n
  /\ pending + Depth + (IF pc \in {"create", "run", "arm"} THEN 1 ELSE 0)
       <= gen + (IF pc = "stopping" THEN 1 ELSE 0)

\* app_data.loop is a loop that runs while main is in it.
PhaseInv ==
  /\ loop \in {"running", "quit"} <=> pc = "loop"
  /\ closing => pc = "loop"
  /\ pc \notin {"config", "cleanup", "ended"} => gen > 0
  /\ gen > 0 => Accepts(cfg)

\* A handle is that of the present round.
HandleInv ==
  /\ \A i \in 1 .. MaxSources : app[i].pipeline \in {0, gen}
  /\ \A i \in 1 .. MaxSources : i > cfg.n => app[i].pipeline = 0
  /\ pc = "create" => \A i \in 1 .. MaxSources : app[i] = Zero
  /\ pc = "run" => \A i \in Sources : app[i] = [Zero EXCEPT !.pipeline = gen]

\* A loop pointer is that of an activation which waits on this very source, or dangles.
LoopInv ==
  /\ \A i \in 1 .. MaxSources : app[i].loop \in {0, Freed} \cup 1 .. Depth
  /\ \A i \in 1 .. MaxSources : \A d \in 1 .. Depth :
       app[i].loop = d => stack[d].src = i /\ stack[d].wait # "no"
  /\ \A i \in 1 .. MaxSources : cfg.sink # "record" => app[i].loop = 0

\* stop_pipeline leaves no pipeline behind.
PassedInv ==
  ~Null => \A d \in 1 .. Depth : \A i \in 1 .. MaxSources : i < stack[d].src => app[i].pipeline = 0

\* Unless a round has been started without stop_pipeline, every pipeline has an owner, and
\* none is left at the end of a round.
OwnerInv ==
  ~Excused =>
    /\ OneOwner
    /\ pc \in {"config", "cleanup", "ended"} => AllZero
    /\ Ending => Depth > 0 \/ AllZero

\* A message of a recording is news to its source.
Told ==
  \A p \in bus : /\ p[2] = gen /\ app[p[1]].pipeline = gen /\ st[p] \in {"eos", "failed"}
                 /\ ~app[p[1]].eos /\ ~app[p[1]].err

\* A recording that plays has an owner who knows of no end, and whose wait is not over.
Recording ==
  \A p \in Pipelines : st[p] = "playing" =>
    /\ app[p[1]].pipeline = p[2] /\ ~app[p[1]].eos /\ ~app[p[1]].err
    /\ \A d \in 1 .. Depth : stack[d].wait = "quit" => stack[d].src # p[1]

Silent == bus = {} /\ \A p \in Pipelines : st[p] # "playing"
Parted == \A i \in 1 .. MaxSources : app[i].loop = Freed => app[i].pipeline = 0

RecordInv ==
  cfg.sink = "record" /\ ~Null =>
    /\ Told /\ Recording /\ Parted
    /\ pc \in {"config", "create", "run"} \/ Ending => Silent

CutInv == ~Null => \A p \in Pipelines : st[p] # "cut"

\* What callbacks find at app_data.loop without a signal or a fault.
StrayInv ==
  ~sig /\ faults = {} =>
    /\ ~crashed
    /\ closing => loop = "running"
    /\ pc \in {"quit", "stopping"} => ~playback /\ ~timer
    /\ ~playback /\ (closing \/ loop = "quit") => ~timer

-----------------------------------------------------------------------------
(* The stack of the activations of stop_pipeline.                           *)

LEMMA Pushes ==
  ASSUME NEW S, NEW s \in Seq(S), NEW e \in S
  PROVE  /\ Append(s, e) \in Seq(S) /\ Len(s) \in Nat /\ Len(Append(s, e)) = Len(s) + 1
         /\ Append(s, e)[Len(s) + 1] = e
         /\ \A d \in 1 .. Len(s) : Append(s, e)[d] = s[d]
BY AppendProperties, LenProperties

LEMMA Pops ==
  ASSUME NEW S, NEW s \in Seq(S), Len(s) > 0
  PROVE  LET r == SubSeq(s, 1, Len(s) - 1)
         IN  /\ r \in Seq(S) /\ Len(r) = Len(s) - 1
             /\ \A d \in 1 .. Len(s) - 1 : r[d] = s[d]
<1>1. Len(s) \in Nat /\ \A d \in 1 .. Len(s) : s[d] \in S
  BY ElementOfSeq, LenProperties
<1> DEFINE m == Len(s) - 1
<1>2. m \in Int /\ 1 \in Int /\ m >= 0 /\ \A d \in 1 .. m : s[d] \in S
  BY <1>1
<1> HIDE DEF m
<1>3. /\ SubSeq(s, 1, m) \in Seq(S) /\ Len(SubSeq(s, 1, m)) = IF 1 <= m THEN m - 1 + 1 ELSE 0
      /\ \A d \in 1 .. m - 1 + 1 : SubSeq(s, 1, m)[d] = s[1 + d - 1]
  BY <1>2, SubSeqProperties
<1>4. Len(SubSeq(s, 1, m)) = m /\ \A d \in 1 .. m : SubSeq(s, 1, m)[d] = s[d]
  BY <1>2, <1>3
<1> QED  BY <1>3, <1>4 DEF m

LEMMA Replaces ==
  ASSUME NEW S, NEW s \in Seq(S), NEW d \in 1 .. Len(s), NEW e \in S
  PROVE  LET r == [s EXCEPT ![d] = e]
         IN  /\ r \in Seq(S) /\ Len(r) = Len(s) /\ r[d] = e
             /\ \A k \in 1 .. Len(s) : k # d => r[k] = s[k]
BY ExceptSeq, LenProperties

\* What the types say of one source and of one activation.
LEMMA Typed ==
  ASSUME TypeOK
  PROVE  /\ cfg.n \in 1 .. MaxSources /\ cfg.loop \in BOOLEAN /\ gen \in 0 .. MaxRuns
         /\ stack \in Seq(Frame) /\ Depth \in Nat /\ pending \in Nat
         /\ \A d \in 1 .. Depth : stack[d] \in Frame
         /\ \A i \in 1 .. MaxSources : app[i] \in Playback
         /\ Sources \subseteq 1 .. MaxSources
         /\ MaxRuns \in Nat \ {0} /\ MaxSources \in Nat \ {0}
         /\ cfg.sink \in {"display", "record"} /\ cfg.src \in {"live", "file", "streaming"}
<1>1. /\ cfg \in Configs /\ gen \in 0 .. MaxRuns /\ stack \in Seq(Frame) /\ pending \in 0 .. MaxRuns
      /\ app \in [1 .. MaxSources -> Playback]
  BY DEF TypeOK, LibTypeOK
<1>2. /\ Configs \subseteq [n : 1 .. MaxSources, src : {"live", "file", "streaming"},
                            sink : {"display", "record"}, loop : BOOLEAN]
      /\ MaxRuns \in Nat \ {0} /\ MaxSources \in Nat \ {0}
  BY VgstAssumption
<1>3. /\ cfg.n \in 1 .. MaxSources /\ cfg.loop \in BOOLEAN
      /\ cfg.sink \in {"display", "record"} /\ cfg.src \in {"live", "file", "streaming"}
  <2>1. cfg \in [n : 1 .. MaxSources, src : {"live", "file", "streaming"},
                 sink : {"display", "record"}, loop : BOOLEAN]
    BY <1>1, <1>2
  <2> QED  BY <2>1
<1>4. Depth \in Nat /\ \A d \in 1 .. Depth : stack[d] \in Frame
  BY <1>1, LenProperties, ElementOfSeq DEF Depth
<1>5. Sources \subseteq 1 .. MaxSources
  BY <1>2, <1>3 DEF Sources
<1> QED  BY <1>1, <1>2, <1>3, <1>4, <1>5

\* The running activation goes on to the next source.
LEMMA GoesOn ==
  ASSUME TypeOK, Depth > 0, Top.src \in Sources, NextSource
  PROVE  /\ stack' \in Seq(Frame) /\ Depth' = Depth
         /\ stack'[Depth].src = stack[Depth].src + 1 /\ stack'[Depth].wait = "no"
         /\ stack'[Depth].who = stack[Depth].who
         /\ \A d \in 1 .. Depth : d # Depth => stack'[d] = stack[d]
<1> DEFINE k == stack[Depth].src + 1
           e == [stack[Depth] EXCEPT !.src = k, !.wait = "no"]
<1>1. Depth \in 1 .. Depth /\ stack[Depth] \in Frame /\ stack \in Seq(Frame)
  BY Typed
<1>2. k \in 1 .. MaxSources + 1
  <2>1. stack[Depth].src \in 1 .. MaxSources
    BY Typed DEF Top
  <2> QED  BY <2>1, Typed
<1> HIDE DEF k
<1>3. e \in Frame /\ e.src = k /\ e.wait = "no" /\ e.who = stack[Depth].who
  BY <1>1, <1>2 DEF Frame
<1>4. stack' = [stack EXCEPT ![Depth] = e]
  <2>1. stack' = [stack EXCEPT ![Depth].src = @ + 1, ![Depth].wait = "no"]
    BY DEF NextSource
  <2> QED  BY <1>1, <2>1 DEF k
<1> HIDE DEF e
<1>5. /\ stack' \in Seq(Frame) /\ Len(stack') = Len(stack) /\ stack'[Depth] = e
      /\ \A d \in 1 .. Depth : d # Depth => stack'[d] = stack[d]
  BY <1>1, <1>3, <1>4, Replaces DEF Depth
<1> QED  BY <1>3, <1>5 DEF Depth, k

\* A wait begins, or its loop is quit.
LEMMA Waits ==
  ASSUME TypeOK, NEW k \in 1 .. Depth, NEW w \in {"no", "open", "quit"},
         stack' = [stack EXCEPT ![k].wait = w]
  PROVE  /\ stack' \in Seq(Frame) /\ Depth' = Depth
         /\ stack'[k].src = stack[k].src /\ stack'[k].wait = w /\ stack'[k].who = stack[k].who
         /\ \A d \in 1 .. Depth : d # k => stack'[d] = stack[d]
<1> DEFINE e == [stack[k] EXCEPT !.wait = w]
<1>1. stack[k] \in Frame /\ stack \in Seq(Frame)
  BY Typed
<1>2. e \in Frame /\ e.src = stack[k].src /\ e.wait = w /\ e.who = stack[k].who
  BY <1>1 DEF Frame
<1>3. stack' = [stack EXCEPT ![k] = e]
  OBVIOUS
<1> HIDE DEF e
<1>4. /\ stack' \in Seq(Frame) /\ Len(stack') = Len(stack) /\ stack'[k] = e
      /\ \A d \in 1 .. Depth : d # k => stack'[d] = stack[d]
  BY <1>1, <1>2, <1>3, Replaces DEF Depth
<1> QED  BY <1>2, <1>4 DEF Depth

LEMMA Enters ==
  ASSUME TypeOK, NEW who \in {"main", "loop_cb"}, StopPipeline(who)
  PROVE  /\ stack' \in Seq(Frame) /\ Depth' = Depth + 1
         /\ stack'[Depth + 1] = [who |-> who, src |-> 1, wait |-> "no"]
         /\ \A d \in 1 .. Depth : stack'[d] = stack[d]
<1> DEFINE e == [who |-> who, src |-> 1, wait |-> "no"]
<1>1. e \in Frame /\ stack \in Seq(Frame)
  BY Typed DEF Frame
<1>2. stack' = Append(stack, e)
  BY DEF StopPipeline
<1> HIDE DEF e
<1>3. /\ stack' \in Seq(Frame) /\ Len(stack') = Len(stack) + 1 /\ stack'[Len(stack) + 1] = e
      /\ \A d \in 1 .. Len(stack) : stack'[d] = stack[d]
  BY <1>1, <1>2, Pushes
<1> QED  BY <1>3 DEF Depth, e

LEMMA Leaves ==
  ASSUME TypeOK, Depth > 0, stack' = SubSeq(stack, 1, Depth - 1)
  PROVE  /\ stack' \in Seq(Frame) /\ Depth' = Depth - 1
         /\ \A d \in 1 .. Depth - 1 : stack'[d] = stack[d]
<1>1. stack \in Seq(Frame)
  BY Typed
<1> QED  BY <1>1, Pops DEF Depth

-----------------------------------------------------------------------------
(* What the steps of the library do to the sources and to their pipelines.  *)

\* stop_pipeline is done with source i of the running activation.
Proceeds(i) ==
  /\ Depth > 0 /\ Top.src = i /\ Top.wait \in {"no", "quit"} /\ NextSource
  /\ UNCHANGED <<cfg, gen, crashed>>
  /\ app' \in [1 .. MaxSources -> Playback]
  /\ \A j \in 1 .. MaxSources : /\ j # i => app'[j] = app[j]
                                /\ app'[j].eos = app[j].eos /\ app'[j].err = app[j].err
  /\ app'[i].loop = IF Top.wait = "quit" /\ app[i].loop = Depth THEN Freed ELSE app[i].loop
  /\ \/ app[i].pipeline = 0 /\ app'[i].pipeline = 0 /\ UNCHANGED <<st, bus, asked, faults>>
     \/ /\ app[i].pipeline # 0 /\ app'[i].pipeline = 0 /\ UNCHANGED faults
        /\ bus' = bus \ {<<i, app[i].pipeline>>} /\ asked' = asked \ {<<i, app[i].pipeline>>}
        /\ \E end \in {"cut", "gone"} :
             /\ st' = [st EXCEPT ![<<i, app[i].pipeline>>] = end]
             /\ end = "cut" => /\ cfg.sink = "record" /\ st[<<i, app[i].pipeline>>] = "playing"
                               /\ Top.wait = "quit" \/ app[i].eos \/ app[i].err
     \/ /\ app'[i].pipeline = app[i].pipeline /\ UNCHANGED <<st, bus, asked>>
        /\ "null" \in Faults /\ faults' = faults \cup {"null"}

\* The bus callback reports the message of pipeline p to its source.
Reports(p) ==
  /\ p \in bus /\ st[p] \in {"eos", "failed"} /\ bus' = bus \ {p}
  /\ UNCHANGED <<cfg, gen, st, asked, faults>>
  /\ app' \in [1 .. MaxSources -> Playback]
  /\ \A j \in 1 .. MaxSources : /\ j # p[1] => app'[j] = app[j]
                                /\ app'[j].pipeline = app[j].pipeline /\ app'[j].loop = app[j].loop
  /\ QuitWait(p[1])

\* A playing pipeline comes to its end, or fails, and says so.
Ends(p) ==
  /\ st[p] = "playing" /\ bus' = bus \cup {p}
  /\ \E w \in {"eos", "failed"} : st' = [st EXCEPT ![p] = w]
  /\ UNCHANGED <<cfg, gen, app, asked, stack, crashed, faults>>

LEMMA SetsNull ==
  ASSUME TypeOK, NEW i \in Sources, Depth > 0, Top.src = i, Top.wait \in {"no", "quit"},
         NEW flags \in Playback, NEW end \in {"cut", "gone"}, SetNull(i, flags, end),
         flags.pipeline = app[i].pipeline, flags.eos = app[i].eos, flags.err = app[i].err,
         flags.loop = IF Top.wait = "quit" /\ app[i].loop = Depth THEN Freed ELSE app[i].loop,
         app[i].pipeline # 0,
         end = "cut" => /\ cfg.sink = "record" /\ st[<<i, app[i].pipeline>>] = "playing"
                        /\ Top.wait = "quit" \/ app[i].eos \/ app[i].err
  PROVE  Proceeds(i)
<1> DEFINE none == [flags EXCEPT !.pipeline = 0]
<1>1. app \in [1 .. MaxSources -> Playback] /\ i \in 1 .. MaxSources
  BY Typed DEF TypeOK, LibTypeOK
<1>2. /\ none \in Playback /\ none.pipeline = 0 /\ none.eos = flags.eos /\ none.err = flags.err
      /\ none.loop = flags.loop
  BY VgstAssumption DEF Playback
<1>3. NextSource /\ UNCHANGED <<cfg, gen, crashed>>
  BY DEF SetNull
<1>4. \/ /\ app' = [app EXCEPT ![i] = none] /\ UNCHANGED faults
         /\ st' = [st EXCEPT ![<<i, app[i].pipeline>>] = end]
         /\ bus' = bus \ {<<i, app[i].pipeline>>} /\ asked' = asked \ {<<i, app[i].pipeline>>}
      \/ /\ app' = [app EXCEPT ![i] = flags] /\ UNCHANGED <<st, bus, asked>>
         /\ "null" \in Faults /\ faults' = faults \cup {"null"}
  BY DEF SetNull, Fault
<1> HIDE DEF none
<1>5. ASSUME NEW f \in Playback, app' = [app EXCEPT ![i] = f], f.eos = flags.eos, f.err = flags.err,
             f.loop = flags.loop
      PROVE  /\ app' \in [1 .. MaxSources -> Playback] /\ app'[i] = f
             /\ \A j \in 1 .. MaxSources : /\ j # i => app'[j] = app[j]
                                           /\ app'[j].eos = app[j].eos /\ app'[j].err = app[j].err
             /\ app'[i].loop = flags.loop
  BY <1>1, <1>5
<1>6. CASE app' = [app EXCEPT ![i] = none] /\ UNCHANGED faults
           /\ st' = [st EXCEPT ![<<i, app[i].pipeline>>] = end]
           /\ bus' = bus \ {<<i, app[i].pipeline>>} /\ asked' = asked \ {<<i, app[i].pipeline>>}
  BY <1>2, <1>3, <1>5, <1>6 DEF Proceeds
<1>7. CASE app' = [app EXCEPT ![i] = flags] /\ UNCHANGED <<st, bus, asked>>
           /\ "null" \in Faults /\ faults' = faults \cup {"null"}
  BY <1>3, <1>5, <1>7 DEF Proceeds
<1> QED  BY <1>4, <1>6, <1>7

LEMMA StopsOne ==
  ASSUME TypeOK, NEW i \in Sources, NoHandle(i) \/ StopNow(i) \/ EosRefused(i)
  PROVE  Proceeds(i)
<1>1. Depth > 0 /\ Top.wait = "no" /\ Top.src = i /\ i \in 1 .. MaxSources
  BY Typed DEF NoHandle, StopNow, EosRefused, Stepping
<1>2. app[i] \in Playback
  BY <1>1, Typed
<1> DEFINE flags == [app[i] EXCEPT !.stop = TRUE]
<1>3. /\ flags \in Playback /\ flags.pipeline = app[i].pipeline /\ flags.eos = app[i].eos
      /\ flags.err = app[i].err /\ flags.loop = app[i].loop
  BY <1>2 DEF Playback
<1>4. CASE NoHandle(i)
  <2>1. app[i].pipeline = 0 /\ NextSource /\ UNCHANGED <<cfg, gen, app, st, bus, asked, crashed, faults>>
    BY <1>4 DEF NoHandle
  <2>2. app \in [1 .. MaxSources -> Playback]
    BY DEF TypeOK, LibTypeOK
  <2> QED  BY <1>1, <2>1, <2>2 DEF Proceeds
<1>5. CASE StopNow(i)
  <2>1. app[i].pipeline # 0 /\ ~MustDrain(i) /\ SetNull(i, flags, End(i))
    BY <1>5 DEF StopNow
  <2>2. End(i) \in {"cut", "gone"}
    BY DEF End
  <2>3. End(i) = "cut" => cfg.sink = "record" /\ st[<<i, app[i].pipeline>>] = "playing"
    BY DEF End
  <2>4. cfg.sink = "record" => app[i].eos \/ app[i].err
    BY <2>1 DEF MustDrain
  <2> HIDE DEF flags
  <2> QED  BY <1>1, <1>3, <2>1, <2>2, <2>3, <2>4, SetsNull
<1>6. CASE EosRefused(i)
  <2>1. app[i].pipeline # 0 /\ SetNull(i, flags, "gone")
    BY <1>6 DEF EosRefused
  <2> HIDE DEF flags
  <2> QED  BY <1>1, <1>3, <2>1, SetsNull
<1> QED  BY <1>4, <1>5, <1>6

LEMMA WaitIsOver ==
  ASSUME TypeOK, StackInv, WaitOver
  PROVE  Top.src \in Sources /\ Proceeds(Top.src)
<1> DEFINE i == Top.src
           freed == [app[i] EXCEPT !.loop = Freed]
           flags == IF app[i].loop = Depth THEN freed ELSE app[i]
<1>1. Depth > 0 /\ Top.wait = "quit"
  BY DEF WaitOver
<1>2. i \in Sources
  <2>1. stack[Depth].src <= cfg.n /\ stack[Depth] \in Frame
    BY <1>1, Typed DEF StackInv, Top
  <2>2. stack[Depth].src \in Nat /\ stack[Depth].src >= 1 /\ cfg.n \in Nat
    BY <2>1, Typed DEF Frame
  <2> QED  BY <2>1, <2>2 DEF Top, Sources
<1>3. app \in [1 .. MaxSources -> Playback] /\ i \in 1 .. MaxSources /\ app[i] \in Playback
  BY <1>2, Typed DEF TypeOK, LibTypeOK
<1>4. /\ freed \in Playback /\ freed.pipeline = app[i].pipeline /\ freed.eos = app[i].eos
      /\ freed.err = app[i].err /\ freed.loop = Freed
  <2>1. Freed \in 0 .. Freed
    BY VgstAssumption DEF Freed
  <2> QED  BY <1>3, <2>1 DEF Playback
<1>5. \/ app[i].pipeline # 0 /\ SetNull(i, flags, End(i))
      \/ /\ app[i].pipeline = 0 /\ app' = [app EXCEPT ![i] = flags] /\ NextSource
         /\ UNCHANGED <<cfg, gen, st, bus, asked, crashed, faults>>
  BY DEF WaitOver
<1> HIDE DEF freed
<1>6. /\ flags \in Playback /\ flags.pipeline = app[i].pipeline /\ flags.eos = app[i].eos
      /\ flags.err = app[i].err
      /\ flags.loop = IF app[i].loop = Depth THEN Freed ELSE app[i].loop
  BY <1>3, <1>4
<1>7. CASE app[i].pipeline # 0 /\ SetNull(i, flags, End(i))
  <2>1. End(i) \in {"cut", "gone"}
    BY DEF End
  <2>2. End(i) = "cut" => cfg.sink = "record" /\ st[<<i, app[i].pipeline>>] = "playing"
    BY DEF End
  <2> HIDE DEF flags
  <2> QED  BY <1>1, <1>2, <1>6, <1>7, <2>1, <2>2, SetsNull
<1>8. CASE /\ app[i].pipeline = 0 /\ app' = [app EXCEPT ![i] = flags] /\ NextSource
           /\ UNCHANGED <<cfg, gen, st, bus, asked, crashed, faults>>
  <2> HIDE DEF flags
  <2>1. /\ app' \in [1 .. MaxSources -> Playback] /\ app'[i] = flags
        /\ \A j \in 1 .. MaxSources : j # i => app'[j] = app[j]
    BY <1>3, <1>6, <1>8
  <2> QED  BY <1>1, <1>2, <1>6, <1>8, <2>1 DEF Proceeds
<1> QED  BY <1>2, <1>5, <1>7, <1>8

\* stop_pipeline sends EOS into the pipeline of a recording, and waits.
LEMMA SendsEos ==
  ASSUME TypeOK, NEW i \in Sources, SendEos(i)
  PROVE  /\ \A j \in 1 .. MaxSources :
              /\ app'[j].pipeline = app[j].pipeline /\ app'[j].eos = app[j].eos /\ app'[j].err = app[j].err
              /\ app'[j].loop = IF j = i THEN Depth ELSE app[j].loop
         /\ Depth > 0 /\ Top.src = i /\ Top.wait = "no" /\ cfg.sink = "record"
         /\ stack' \in Seq(Frame) /\ Depth' = Depth
         /\ stack'[Depth].src = i /\ stack'[Depth].wait = "open"
         /\ \A d \in 1 .. Depth : d # Depth => stack'[d] = stack[d]
         /\ UNCHANGED <<cfg, gen, st, bus, crashed, faults>>
<1>1. /\ Depth > 0 /\ Top.src = i /\ Top.wait = "no" /\ cfg.sink = "record"
      /\ app' = [app EXCEPT ![i].stop = TRUE, ![i].loop = Depth]
      /\ stack' = [stack EXCEPT ![Depth].wait = "open"]
      /\ UNCHANGED <<cfg, gen, st, bus, crashed, faults>>
  BY DEF SendEos, Stepping, MustDrain
<1>2. app \in [1 .. MaxSources -> Playback] /\ i \in 1 .. MaxSources /\ app[i] \in Playback
  BY Typed DEF TypeOK, LibTypeOK
<1> DEFINE f == [app[i] EXCEPT !.stop = TRUE, !.loop = Depth]
<1>3. f.pipeline = app[i].pipeline /\ f.eos = app[i].eos /\ f.err = app[i].err /\ f.loop = Depth
  BY <1>2 DEF Playback
<1>4. app' = [app EXCEPT ![i] = f]
  BY <1>1, <1>2
<1> HIDE DEF f
<1>5. \A j \in 1 .. MaxSources :
        /\ app'[j].pipeline = app[j].pipeline /\ app'[j].eos = app[j].eos /\ app'[j].err = app[j].err
        /\ app'[j].loop = IF j = i THEN Depth ELSE app[j].loop
  BY <1>2, <1>3, <1>4
<1>6. Depth \in 1 .. Depth
  BY <1>1, Typed
<1>7. /\ stack' \in Seq(Frame) /\ Depth' = Depth
      /\ stack'[Depth].src = stack[Depth].src /\ stack'[Depth].wait = "open"
      /\ \A d \in 1 .. Depth : d # Depth => stack'[d] = stack[d]
  BY <1>1, <1>6, Waits
<1> QED  BY <1>1, <1>5, <1>7 DEF Top

LEMMA BusReports ==
  ASSUME TypeOK, NEW p \in Pipelines, BusEos(p) \/ BusError(p)
  PROVE  Reports(p)
<1>1. app \in [1 .. MaxSources -> Playback] /\ p[1] \in 1 .. MaxSources
  BY DEF TypeOK, LibTypeOK, Pipelines
<1>2. app[p[1]] \in Playback
  BY <1>1
<1>3. CASE BusEos(p)
  <2> DEFINE f == [app[p[1]] EXCEPT !.eos = TRUE]
  <2>1. app' = [app EXCEPT ![p[1]] = f]
    BY <1>3 DEF BusEos
  <2>2. f \in Playback /\ f.pipeline = app[p[1]].pipeline /\ f.loop = app[p[1]].loop
    BY <1>2 DEF Playback
  <2> HIDE DEF f
  <2>3. /\ app' \in [1 .. MaxSources -> Playback]
        /\ \A j \in 1 .. MaxSources : /\ j # p[1] => app'[j] = app[j]
                                      /\ app'[j].pipeline = app[j].pipeline /\ app'[j].loop = app[j].loop
    BY <1>1, <2>1, <2>2
  <2> QED  BY <1>3, <2>3 DEF BusEos, Reports
<1>4. CASE BusError(p)
  <2> DEFINE f == [app[p[1]] EXCEPT !.err = TRUE]
  <2>1. app' = [app EXCEPT ![p[1]] = f]
    BY <1>4 DEF BusError
  <2>2. f \in Playback /\ f.pipeline = app[p[1]].pipeline /\ f.loop = app[p[1]].loop
    BY <1>2 DEF Playback
  <2> HIDE DEF f
  <2>3. /\ app' \in [1 .. MaxSources -> Playback]
        /\ \A j \in 1 .. MaxSources : /\ j # p[1] => app'[j] = app[j]
                                      /\ app'[j].pipeline = app[j].pipeline /\ app'[j].loop = app[j].loop
    BY <1>1, <2>1, <2>2
  <2> QED  BY <1>4, <2>3 DEF BusError, Reports
<1> QED  BY <1>3, <1>4

LEMMA PlayingEnds ==
  ASSUME NEW p \in Pipelines, Drain(p) \/ EndOfStream(p) \/ PipelineError(p)
  PROVE  Ends(p)
BY DEF Drain, EndOfStream, PipelineError, Ends

-----------------------------------------------------------------------------
(* Types.                                                                   *)

\* Every handle names a pipeline.
LEMMA HandleNames ==
  ASSUME TypeOK, NEW i \in 1 .. MaxSources, app[i].pipeline # 0
  PROVE  <<i, app[i].pipeline>> \in Pipelines
<1>1. app[i] \in Playback /\ MaxRuns \in Nat
  BY Typed
<1>2. app[i].pipeline \in 1 .. MaxRuns
  BY <1>1 DEF Playback
<1> QED  BY <1>2 DEF Pipelines

LEMMA LibTypeStep ==
  ASSUME TypeOK, StackInv, PhaseInv, [Next]_vars
  PROVE  LibTypeOK'
<1>1. /\ cfg \in Configs /\ gen \in 0 .. MaxRuns
      /\ app \in [1 .. MaxSources -> Playback]
      /\ st \in [Pipelines -> Alive \cup {"none", "gone", "cut"}]
      /\ bus \subseteq Pipelines /\ asked \subseteq Pipelines
      /\ stack \in Seq(Frame)
      /\ crashed \in BOOLEAN /\ faults \subseteq Faults
  BY DEF TypeOK, LibTypeOK
<1>2. ASSUME UNCHANGED libvars
      PROVE  LibTypeOK'
  BY <1>1, <1>2 DEF libvars, LibTypeOK
<1>3. ASSUME UNCHANGED <<cfg, gen, app, st, bus, asked, faults>>, stack' \in Seq(Frame), crashed' \in BOOLEAN
      PROVE  LibTypeOK'
  BY <1>1, <1>3 DEF LibTypeOK
<1>4. CASE Configure
  <2>1. CASE InitStructParams
    <3>1. gen' \in 0 .. MaxRuns /\ UNCHANGED <<cfg, st, bus, asked, stack, crashed, faults>>
      BY <1>1, <2>1, VgstAssumption DEF InitStructParams
    <3>2. Zero \in Playback
      BY VgstAssumption DEF Zero, Playback, Freed
    <3>3. app' = [i \in 1 .. MaxSources |-> Zero]
      BY <2>1 DEF InitStructParams
    <3>4. app' \in [1 .. MaxSources -> Playback]
      BY <3>2, <3>3
    <3> QED  BY <1>1, <3>1, <3>4 DEF LibTypeOK
  <2>2. CASE ConfigFails
    BY <1>1, <2>2 DEF ConfigFails, Fault, LibTypeOK
  <2> QED  BY <1>4, <2>1, <2>2 DEF Configure
<1>5. CASE Start
  <2>1. ASSUME NEW k \in Sources, Create(k), UNCHANGED faults \/ Fault("create")
        PROVE  LibTypeOK'
    <3>1. \A i \in 1 .. MaxSources : [app[i] EXCEPT !.pipeline = gen] \in Playback
      BY <1>1 DEF Playback
    <3>2. app' = [i \in 1 .. MaxSources |-> IF i <= k THEN [app[i] EXCEPT !.pipeline = gen] ELSE app[i]]
      BY <2>1 DEF Create
    <3>3. app' \in [1 .. MaxSources -> Playback]
      BY <1>1, <3>1, <3>2
    <3>4. st' \in [Pipelines -> Alive \cup {"none", "gone", "cut"}]
      BY <1>1, <2>1 DEF Create, Alive
    <3>5. UNCHANGED <<cfg, gen, bus, asked, stack, crashed>> /\ faults' \subseteq Faults
      BY <1>1, <2>1 DEF Create, Fault
    <3> QED  BY <1>1, <3>3, <3>4, <3>5 DEF LibTypeOK
  <2>2. CASE CreatePipeline
    <3>1. cfg.n \in Sources
      BY Typed DEF Sources
    <3> QED  BY <2>1, <2>2, <3>1 DEF CreatePipeline
  <2>3. CASE CreateFails
    BY <2>1, <2>3 DEF CreateFails
  <2>4. CASE RunPipeline
    <3>1. st' \in [Pipelines -> Alive \cup {"none", "gone", "cut"}]
      BY <1>1, <2>4 DEF RunPipeline, Alive
    <3> QED  BY <1>1, <2>4, <3>1 DEF RunPipeline, LibTypeOK
  <2>5. CASE RunFails
    <3>1. PICK k \in Sources :
            /\ st' = [p \in Pipelines |->
                       IF p[2] = gen /\ p[1] < k THEN "playing"
                       ELSE IF p = <<k, gen>> THEN "failed" ELSE st[p]]
            /\ bus' \in {bus, bus \cup {<<k, gen>>}}
      BY <2>5 DEF RunFails
    <3>2. st' \in [Pipelines -> Alive \cup {"none", "gone", "cut"}]
      BY <1>1, <3>1 DEF Alive
    <3>3. <<k, gen>> \in Pipelines
      <4>1. gen \in 1 .. MaxRuns
        <5>1. pc \in {"create", "run"} /\ gen > 0
          BY <1>5 DEF Start, Goto, PhaseInv
        <5> QED  BY <1>1, <5>1
      <4> QED  BY <4>1, Typed DEF Pipelines
    <3> QED  BY <1>1, <2>5, <3>1, <3>2, <3>3 DEF RunFails, Fault, LibTypeOK
  <2> QED  BY <1>5, <2>2, <2>3, <2>4, <2>5 DEF Start
<1>6. CASE ArmLoopCb \/ NewMainLoop \/ RunMainLoop \/ MainLoopReturns \/ Cleanup
  BY <1>2, <1>6 DEF ArmLoopCb, NewMainLoop, RunMainLoop, MainLoopReturns, Cleanup
<1>7. CASE Quit
  <2>1. stack' \in Seq(Frame) /\ UNCHANGED <<cfg, gen, app, st, bus, asked, crashed, faults>>
    BY <1>7, Enters DEF Quit, StopPipeline
  <2> QED  BY <1>1, <1>3, <2>1
<1>8. CASE QuitReturns \/ LoopCbReturns
  <2>1. Depth > 0 /\ stack' = SubSeq(stack, 1, Depth - 1)
    BY <1>8 DEF QuitReturns, LoopCbReturns, StopReturns, Stopped
  <2>2. stack' \in Seq(Frame)
    BY <2>1, Leaves
  <2>3. UNCHANGED <<cfg, gen, app, st, bus, asked, faults>> /\ crashed' \in BOOLEAN
    BY <1>1, <1>8 DEF QuitReturns, LoopCbReturns, StopReturns
  <2> QED  BY <1>3, <2>2, <2>3
<1>9. CASE CloseLoop \/ SignalHandler
  <2>1. stack' \in Seq(Frame) /\ UNCHANGED <<cfg, gen, app, st, bus, asked, faults>> /\ crashed' \in BOOLEAN
    BY <1>1, <1>9 DEF CloseLoop, SignalHandler
  <2> QED  BY <1>3, <2>1
<1>10. CASE LoopCb
  <2>1. StopPipeline("loop_cb")
    BY <1>10 DEF LoopCb
  <2>2. stack' \in Seq(Frame) /\ UNCHANGED <<cfg, gen, app, st, bus, asked, crashed, faults>>
    BY <2>1, Enters DEF StopPipeline
  <2> QED  BY <1>1, <1>3, <2>2
<1>11. CASE TimeCb
  <2>1. CASE Inspect
    <3>1. stack' \in Seq(Frame) /\ UNCHANGED <<cfg, gen, app, st, bus, asked, faults>> /\ crashed' \in BOOLEAN
      BY <1>1, <2>1 DEF Inspect
    <3> QED  BY <1>3, <3>1
  <2>2. CASE GetPosition
    <3>1. asked' \subseteq Pipelines
      <4> DEFINE L == {i \in Sources : app[i].pipeline # 0 /\ ~app[i].err}
      <4>1. asked' = asked \/ \E late \in SUBSET L : asked' = asked \cup {<<i, app[i].pipeline>> : i \in late}
        BY <2>2 DEF GetPosition
      <4>2. \A i \in L : <<i, app[i].pipeline>> \in Pipelines
        BY HandleNames, Typed
      <4> HIDE DEF L
      <4> QED  BY <1>1, <4>1, <4>2
    <3> QED  BY <1>1, <2>2, <3>1 DEF GetPosition, LibTypeOK
  <2> QED  BY <1>11, <2>1, <2>2 DEF TimeCb
<1>12. ASSUME NEW i \in Sources, Proceeds(i)
       PROVE  LibTypeOK'
  <2>1. stack' \in Seq(Frame)
    BY <1>12, GoesOn DEF Proceeds
  <2>2. bus' \subseteq Pipelines /\ asked' \subseteq Pipelines /\ faults' \subseteq Faults
    BY <1>1, <1>12 DEF Proceeds
  <2>3. st' \in [Pipelines -> Alive \cup {"none", "gone", "cut"}]
    <3>1. UNCHANGED st \/ \E end \in {"cut", "gone"} : st' = [st EXCEPT ![<<i, app[i].pipeline>>] = end]
      BY <1>12 DEF Proceeds
    <3> QED  BY <1>1, <3>1
  <2>4. app' \in [1 .. MaxSources -> Playback] /\ UNCHANGED <<cfg, gen, crashed>>
    BY <1>12 DEF Proceeds
  <2> QED  BY <1>1, <2>1, <2>2, <2>3, <2>4 DEF LibTypeOK
<1>13. ASSUME NEW i \in Sources, SendEos(i)
       PROVE  LibTypeOK'
  <2>1. /\ Depth > 0 /\ app[i].pipeline # 0 /\ asked' = asked \cup {<<i, app[i].pipeline>>}
        /\ app' = [app EXCEPT ![i].stop = TRUE, ![i].loop = Depth]
        /\ stack' = [stack EXCEPT ![Depth].wait = "open"]
        /\ UNCHANGED <<cfg, gen, st, bus, crashed, faults>>
    BY <1>13 DEF SendEos, Stepping
  <2>2. i \in 1 .. MaxSources /\ asked' \subseteq Pipelines
    BY <1>1, <2>1, HandleNames, Typed
  <2>3. Depth \in 0 .. Freed /\ Depth \in 1 .. Depth
    <3>1. Depth \in Nat /\ pending \in Nat /\ gen \in 0 .. MaxRuns /\ MaxRuns \in Nat
      BY Typed
    <3> DEFINE a == IF pc \in {"create", "run", "arm"} THEN 1 ELSE 0
               b == IF pc = "stopping" THEN 1 ELSE 0
    <3>2. pending + Depth + a <= gen + b /\ a \in 0 .. 1 /\ b \in 0 .. 1
      BY DEF StackInv
    <3> HIDE DEF a, b
    <3>3. Depth <= MaxRuns + 1
      BY <3>1, <3>2
    <3> QED  BY <2>1, <3>1, <3>3 DEF Freed
  <2>4. stack' \in Seq(Frame)
    BY <2>1, <2>3, Waits
  <2>5. app' \in [1 .. MaxSources -> Playback]
    <3>1. [app[i] EXCEPT !.stop = TRUE, !.loop = Depth] \in Playback
      BY <1>1, <2>2, <2>3 DEF Playback
    <3>2. app' = [app EXCEPT ![i] = [app[i] EXCEPT !.stop = TRUE, !.loop = Depth]]
      BY <1>1, <2>1, <2>2
    <3> QED  BY <1>1, <3>1, <3>2
  <2> QED  BY <1>1, <2>1, <2>2, <2>4, <2>5 DEF LibTypeOK
<1>14. CASE StopStep
  <2>1. CASE WaitOver
    BY <1>12, <2>1, WaitIsOver
  <2>2. CASE \E i \in Sources : NoHandle(i) \/ StopNow(i) \/ SendEos(i) \/ EosRefused(i)
    BY <1>12, <1>13, <2>2, StopsOne
  <2> QED  BY <1>14, <2>1, <2>2 DEF StopStep
<1>15. ASSUME NEW p \in Pipelines, GStreamer(p)
       PROVE  LibTypeOK'
  <2>1. Ends(p)
    BY <1>15, PlayingEnds DEF GStreamer
  <2>2. PICK w \in {"eos", "failed"} : st' = [st EXCEPT ![p] = w]
    BY <2>1 DEF Ends
  <2>3. st' \in [Pipelines -> Alive \cup {"none", "gone", "cut"}]
    BY <1>1, <2>2 DEF Alive
  <2> QED  BY <1>1, <2>1, <2>3 DEF Ends, LibTypeOK
<1>16. ASSUME NEW p \in Pipelines, BusMessage(p)
       PROVE  LibTypeOK'
  <2>1. CASE BusSeek(p)
    <3>1. bus' \subseteq Pipelines /\ asked' \subseteq Pipelines /\ faults' \subseteq Faults
          /\ UNCHANGED <<cfg, gen, app, stack, crashed>>
      BY <1>1, <2>1 DEF BusSeek, Fault
    <3>2. st' = st \/ st' = [st EXCEPT ![<<p[1], app[p[1]].pipeline>>] = "playing"]
      BY <2>1 DEF BusSeek
    <3>3. st' \in [Pipelines -> Alive \cup {"none", "gone", "cut"}]
      BY <1>1, <3>2 DEF Alive
    <3> QED  BY <1>1, <3>1, <3>3 DEF LibTypeOK
  <2>2. CASE BusEos(p) \/ BusError(p)
    <3>1. Reports(p) /\ p[1] \in 1 .. MaxSources
      BY <2>2, BusReports DEF Pipelines
    <3>2. stack' \in Seq(Frame) /\ crashed' \in BOOLEAN
      <4>1. CASE UNCHANGED stack
        BY <1>1, <3>1, <4>1 DEF Reports, QuitWait
      <4>2. CASE ~UNCHANGED stack
        <5>1. /\ app[p[1]].loop \in DOMAIN stack /\ stack' = [stack EXCEPT ![app[p[1]].loop].wait = "quit"]
              /\ UNCHANGED crashed
          BY <3>1, <4>2 DEF Reports, QuitWait
        <5>2. DOMAIN stack = 1 .. Depth
          BY SMTT(40), <1>1, LenProperties DEF Depth
        <5>3. stack' \in Seq(Frame)
          BY Zenon, <5>1, <5>2, Waits
        <5> QED  BY <1>1, <5>1, <5>3
      <4> QED  BY <4>1, <4>2
    <3> QED  BY <1>1, <3>1, <3>2 DEF Reports, LibTypeOK
  <2> QED  BY <1>16, <2>1, <2>2 DEF BusMessage
<1>17. CASE UNCHANGED vars
  BY <1>2, <1>17 DEF vars
<1> QED
  BY <1>4, <1>5, <1>6, <1>7, <1>8, <1>9, <1>10, <1>11, <1>14, <1>15, <1>16, <1>17 DEF Next, MainStep

LEMMA AppTypeStep ==
  ASSUME TypeOK, StackInv, [Next]_vars
  PROVE  TypeOK' \/ ~LibTypeOK'
<1> SUFFICES ASSUME LibTypeOK'
             PROVE  TypeOK'
  OBVIOUS
<1>1. /\ playback \in BOOLEAN
      /\ pc \in {"config", "create", "run", "arm", "new", "enter", "loop", "quit",
                 "stopping", "cleanup", "ended"}
      /\ loop \in {"null", "new", "running", "quit", "freed"}
      /\ closing \in BOOLEAN /\ timer \in BOOLEAN /\ sig \in BOOLEAN
      /\ pending \in 0 .. MaxRuns
      /\ seen \subseteq {"caught", "restarted", "overlap"}
  BY DEF TypeOK
<1>2. CASE UNCHANGED appvars
  BY <1>1, <1>2 DEF appvars, TypeOK
<1>3. CASE Configure \/ Start \/ NewMainLoop \/ RunMainLoop \/ MainLoopReturns \/ Quit \/ QuitReturns \/ Cleanup
  <2>1. UNCHANGED <<playback, closing, timer, pending, sig, seen>>
    BY <1>3 DEF Configure, Start, NewMainLoop, RunMainLoop, MainLoopReturns, Quit, QuitReturns, Cleanup
  <2>2. loop' \in {"null", "new", "running", "quit", "freed"}
    BY <1>1, <1>3 DEF Configure, Start, NewMainLoop, RunMainLoop, MainLoopReturns, Quit, QuitReturns, Cleanup
  <2>3. pc' \in {"config", "create", "run", "arm", "new", "enter", "loop", "quit", "stopping", "cleanup", "ended"}
    BY <1>3 DEF Goto, Configure, Start, NewMainLoop, RunMainLoop, MainLoopReturns, Quit, QuitReturns, Cleanup
  <2> QED  BY <1>1, <2>1, <2>2, <2>3 DEF TypeOK
<1>4. CASE ArmLoopCb
  <2>1. pc = "arm" /\ pc' = "new" /\ pending' \in {pending, pending + 1}
        /\ UNCHANGED <<playback, loop, closing, timer, sig, seen>>
    BY <1>4 DEF ArmLoopCb, Goto
  <2>2. pending + 1 <= gen
    <3>1. pending + Depth + 1 <= gen + 0
      BY <2>1 DEF StackInv
    <3> QED  BY <3>1, Typed
  <2>3. pending' \in 0 .. MaxRuns
    BY <1>1, <2>1, <2>2, Typed
  <2> QED  BY <1>1, <2>1, <2>3 DEF TypeOK
<1>5. CASE LoopCbReturns \/ CloseLoop
  <2>1. UNCHANGED <<playback, pc, timer, pending, sig, seen>> /\ closing' \in BOOLEAN
        /\ loop' \in {"null", "new", "running", "quit", "freed"}
    BY <1>1, <1>5 DEF LoopCbReturns, CloseLoop
  <2> QED  BY <1>1, <2>1 DEF TypeOK
<1>6. CASE TimeCb
  <2>1. /\ UNCHANGED <<playback, pc, loop, pending, sig>> /\ closing' \in BOOLEAN /\ timer' \in BOOLEAN
        /\ seen' \subseteq {"caught", "restarted", "overlap"}
    BY <1>1, <1>6 DEF TimeCb, Inspect
  <2> QED  BY <1>1, <2>1 DEF TypeOK
<1>7. CASE LoopCb
  <2>1. /\ UNCHANGED <<playback, pc, loop, closing, timer, sig>> /\ pending > 0 /\ pending' = pending - 1
        /\ seen' \subseteq {"caught", "restarted", "overlap"}
    BY <1>1, <1>7 DEF LoopCb
  <2>2. pending' \in 0 .. MaxRuns
    BY <1>1, <2>1, VgstAssumption
  <2> QED  BY <1>1, <2>1, <2>2 DEF TypeOK
<1>8. CASE SignalHandler
  <2>1. /\ UNCHANGED <<pc, closing, timer, pending>> /\ sig' \in BOOLEAN /\ playback' \in BOOLEAN
        /\ loop' \in {"null", "new", "running", "quit", "freed"}
        /\ seen' \subseteq {"caught", "restarted", "overlap"}
    BY <1>1, <1>8 DEF SignalHandler
  <2> QED  BY <1>1, <2>1 DEF TypeOK
<1>9. CASE StopStep \/ \E p \in Pipelines : GStreamer(p) \/ BusMessage(p)
  BY <1>2, <1>9 DEF StopStep, GStreamer, BusMessage
<1>10. CASE UNCHANGED vars
  BY <1>2, <1>10 DEF vars
<1> QED
  BY <1>3, <1>4, <1>5, <1>6, <1>7, <1>8, <1>9, <1>10 DEF Next, MainStep

LEMMA TypeStep ==
  ASSUME TypeOK, StackInv, PhaseInv, [Next]_vars
  PROVE  TypeOK'
BY LibTypeStep, AppTypeStep

-----------------------------------------------------------------------------
(* Where main is, its loop, and the stack.                                  *)

LEMMA Steady ==
  ASSUME [Next]_vars
  PROVE  UNCHANGED cfg /\ (UNCHANGED gen \/ (Configure /\ InitStructParams /\ pc = "config" /\ pc' = "create"))
<1>1. CASE Configure
  BY <1>1 DEF Configure, Goto, InitStructParams, ConfigFails
<1>2. CASE Start
  BY <1>2 DEF Start, CreatePipeline, CreateFails, Create, RunPipeline, RunFails
<1>3. CASE ArmLoopCb \/ NewMainLoop \/ RunMainLoop \/ MainLoopReturns \/ Quit \/ QuitReturns \/ Cleanup
           \/ LoopCbReturns \/ CloseLoop
  BY <1>3 DEF ArmLoopCb, NewMainLoop, RunMainLoop, MainLoopReturns, Quit, QuitReturns, Cleanup,
              LoopCbReturns, CloseLoop, StopPipeline, StopReturns, libvars
<1>4. CASE StopStep
  BY <1>4 DEF StopStep, NoHandle, StopNow, SendEos, EosRefused, WaitOver, SetNull
<1>5. CASE TimeCb \/ LoopCb \/ SignalHandler
  BY <1>5 DEF TimeCb, Inspect, GetPosition, LoopCb, StopPipeline, SignalHandler
<1>6. ASSUME NEW p \in Pipelines, GStreamer(p) \/ BusMessage(p)
      PROVE  UNCHANGED <<cfg, gen>>
  BY <1>6 DEF GStreamer, Drain, EndOfStream, PipelineError, BusMessage, BusSeek, BusEos, BusError
<1>7. CASE UNCHANGED vars
  BY <1>7 DEF vars, libvars
<1> QED  BY <1>1, <1>2, <1>3, <1>4, <1>5, <1>6, <1>7 DEF Next, MainStep

LEMMA PhaseStep ==
  ASSUME TypeOK, PhaseInv, [Next]_vars
  PROVE  PhaseInv'
<1>1. /\ loop \in {"running", "quit"} <=> pc = "loop"
      /\ closing => pc = "loop"
      /\ pc \notin {"config", "cleanup", "ended"} => gen > 0
      /\ gen > 0 => Accepts(cfg)
  BY DEF PhaseInv
<1>2. gen' > 0 => Accepts(cfg)'
  <2>1. CASE UNCHANGED gen
    BY <1>1, <2>1, Steady DEF Accepts
  <2>2. CASE InitStructParams
    BY <2>2, Steady DEF InitStructParams, Accepts
  <2> QED  BY <2>1, <2>2, Steady
<1>3. gen > 0 => gen' > 0
  BY Steady, Typed DEF InitStructParams
<1>4. SUFFICES /\ loop' \in {"running", "quit"} <=> pc' = "loop"
               /\ closing' => pc' = "loop"
               /\ pc' \notin {"config", "cleanup", "ended"} => gen' > 0
  BY <1>2 DEF PhaseInv
<1>5. CASE UNCHANGED appvars
  BY <1>1, <1>3, <1>5 DEF appvars
<1>6. CASE Configure
  <2>1. gen' > 0 \/ pc' = "cleanup"
    BY <1>6, Typed DEF Configure, InitStructParams, Goto
  <2> QED  BY <1>1, <1>6, <2>1 DEF Configure, Goto
<1>7. CASE Start \/ ArmLoopCb \/ NewMainLoop \/ RunMainLoop \/ MainLoopReturns \/ Quit \/ QuitReturns \/ Cleanup
  BY <1>1, <1>3, <1>7 DEF Start, ArmLoopCb, NewMainLoop, RunMainLoop, MainLoopReturns, Quit, QuitReturns,
                          Cleanup, Goto
<1>8. CASE LoopCbReturns \/ CloseLoop \/ TimeCb \/ LoopCb \/ SignalHandler
  <2>1. CASE LoopCbReturns
    <3>1. UNCHANGED <<pc, loop>> /\ (closing' => loop = "running")
      BY <2>1 DEF LoopCbReturns
    <3> QED  BY <1>1, <1>3, <3>1
  <2>2. CASE CloseLoop
    <3>1. UNCHANGED pc /\ closing /\ ~closing' /\ loop' = "quit"
      BY <2>2 DEF CloseLoop
    <3> QED  BY <1>1, <1>3, <3>1
  <2>3. CASE TimeCb
    <3>1. UNCHANGED <<pc, loop>> /\ (closing' => closing \/ loop = "running")
      BY <2>3 DEF TimeCb, Inspect
    <3> QED  BY <1>1, <1>3, <3>1
  <2>4. CASE LoopCb
    <3>1. UNCHANGED <<pc, loop, closing>>
      BY <2>4 DEF LoopCb
    <3> QED  BY <1>1, <1>3, <3>1
  <2>5. CASE SignalHandler
    <3>1. UNCHANGED <<pc, closing>> /\ loop' = IF loop = "running" THEN "quit" ELSE loop
      BY <2>5 DEF SignalHandler
    <3> QED  BY <1>1, <1>3, <3>1
  <2> QED  BY <1>8, <2>1, <2>2, <2>3, <2>4, <2>5
<1>9. CASE StopStep \/ \E p \in Pipelines : GStreamer(p) \/ BusMessage(p)
  BY <1>5, <1>9 DEF StopStep, GStreamer, BusMessage
<1>10. CASE UNCHANGED vars
  BY <1>5, <1>10 DEF vars
<1> QED
  BY <1>6, <1>7, <1>8, <1>9, <1>10 DEF Next, MainStep

\* The bus callback quits the wait its source is in, if it is in one.
LEMMA QuitsWait ==
  ASSUME TypeOK, LoopInv, NEW i \in 1 .. MaxSources, QuitWait(i)
  PROVE  \/ app[i].loop = 0 /\ UNCHANGED <<stack, crashed>>
         \/ app[i].loop = Freed /\ UNCHANGED stack
         \/ \E k \in 1 .. Depth :
              /\ app[i].loop = k /\ stack[k].src = i /\ stack[k].wait # "no" /\ UNCHANGED crashed
              /\ stack' \in Seq(Frame) /\ Depth' = Depth
              /\ stack'[k].src = i /\ stack'[k].wait = "quit" /\ stack'[k].who = stack[k].who
              /\ \A d \in 1 .. Depth : d # k => stack'[d] = stack[d]
<1>1. DOMAIN stack = 1 .. Depth
  BY Typed, LenProperties DEF Depth
<1>2. CASE app[i].loop \in DOMAIN stack /\ stack' = [stack EXCEPT ![app[i].loop].wait = "quit"] /\ UNCHANGED crashed
  <2>1. PICK k \in 1 .. Depth : k = app[i].loop
    BY <1>1, <1>2
  <2>2. stack[k].src = i /\ stack[k].wait # "no"
    BY <2>1 DEF LoopInv
  <2>3. stack' = [stack EXCEPT ![k].wait = "quit"]
    BY <1>2, <2>1
  <2>4. /\ stack' \in Seq(Frame) /\ Depth' = Depth
        /\ stack'[k].src = stack[k].src /\ stack'[k].wait = "quit" /\ stack'[k].who = stack[k].who
        /\ \A d \in 1 .. Depth : d # k => stack'[d] = stack[d]
    BY <2>3, Waits
  <2> QED  BY <1>2, <2>1, <2>2, <2>4
<1> QED  BY <1>2 DEF QuitWait

\* Frames and Calls are the two halves of StackInv: its shape, and that a call of loop_cb
\* is scheduled once a round.
Frames ==
  /\ Depth > 0 => pc \in {"loop", "stopping"}
  /\ pc = "stopping" => Depth > 0
  /\ \A d \in 1 .. Depth : stack[d].who = "main" <=> (d = 1 /\ pc = "stopping")
  /\ \A d \in 1 .. Depth : stack[d].wait # "no" => stack[d].src <= cfg.n
Before == IF pc \in {"create", "run", "arm"} THEN 1 ELSE 0
Last   == IF pc = "stopping" THEN 1 ELSE 0
Calls  == pending + Depth + Before <= gen + Last

LEMMA StackParts == StackInv <=> Frames /\ Calls
BY DEF StackInv, Frames, Calls, Before, Last

LEMMA StackStep ==
  ASSUME TypeOK, StackInv, PhaseInv, LoopInv, [Next]_vars
  PROVE  StackInv'
<1>1. /\ Depth \in Nat /\ pending \in Nat /\ gen \in Nat /\ UNCHANGED cfg /\ gen' \in Nat /\ gen' >= gen
      /\ cfg.n \in Nat
  BY Typed, Steady DEF InitStructParams
<1>2. Frames /\ Calls /\ Before \in 0 .. 1 /\ Last \in 0 .. 1
  BY StackParts DEF Before, Last
<1>3. ASSUME Frames', Calls'
      PROVE  StackInv'
  BY <1>3 DEF StackInv, Frames, Calls, Before, Last
<1>4. ASSUME UNCHANGED stack, pc \notin {"stopping"}, pc' # "stopping", Depth = 0
      PROVE  Frames'
  BY <1>1, <1>4 DEF Depth, Frames
<1>5. ASSUME UNCHANGED <<stack, pc>>
      PROVE  Frames' /\ Before' = Before /\ Last' = Last /\ Depth' = Depth
  BY <1>1, <1>2, <1>5 DEF Depth, Frames, Before, Last
<1>6. CASE Configure
  <2>1. pc = "config" /\ UNCHANGED <<stack, pending>>
    BY <1>6 DEF Configure, InitStructParams, ConfigFails, Goto
  <2>2. (pc' = "create" /\ gen' = gen + 1) \/ (pc' = "cleanup" /\ gen' = gen)
    BY <1>6 DEF Configure, Goto, InitStructParams, ConfigFails
  <2>3. Depth = 0 /\ Depth' = Depth
    BY <1>1, <1>2, <2>1 DEF Frames, Depth
  <2>4. Frames'
    BY <1>4, <2>1, <2>2, <2>3
  <2>5. Before = 0 /\ Last = 0 /\ Last' = 0 /\ ((pc' = "create" /\ Before' = 1) \/ (pc' = "cleanup" /\ Before' = 0))
    BY <2>1, <2>2 DEF Before, Last
  <2>6. pending + 0 + 0 <= gen + 0
    BY <1>2, <2>3, <2>5 DEF Calls
  <2>7. pending' + Depth' + Before' <= gen' + Last'
    BY <1>1, <2>1, <2>2, <2>3, <2>5, <2>6
  <2> QED  BY <1>3, <2>4, <2>7 DEF Calls
<1>7. CASE Start \/ ArmLoopCb \/ NewMainLoop \/ RunMainLoop \/ MainLoopReturns \/ Cleanup
  <2>1. /\ pc \in {"create", "run", "arm", "new", "enter", "loop", "cleanup"} /\ UNCHANGED <<stack, gen>>
        /\ pc' \in {"run", "arm", "quit", "new", "enter", "loop", "config", "ended"}
    <3>1. CASE Start
      BY <3>1 DEF Start, Goto, CreatePipeline, CreateFails, Create, RunPipeline, RunFails
    <3>2. CASE ArmLoopCb \/ NewMainLoop \/ RunMainLoop \/ MainLoopReturns \/ Cleanup
      BY <3>2 DEF ArmLoopCb, NewMainLoop, RunMainLoop, MainLoopReturns, Cleanup, Goto, libvars
    <3> QED  BY <1>7, <3>1, <3>2
  <2>2. Depth = 0 /\ Depth' = Depth
    <3>1. CASE MainLoopReturns
      BY <2>1, <3>1 DEF MainLoopReturns, Depth
    <3>2. CASE ~MainLoopReturns
      <4>1. pc # "loop"
        BY <1>7, <3>2 DEF Start, ArmLoopCb, NewMainLoop, RunMainLoop, Cleanup, Goto
      <4> QED  BY <1>1, <1>2, <2>1, <4>1 DEF Frames, Depth
    <3> QED  BY <3>1, <3>2
  <2>3. Frames'
    BY <1>4, <2>1, <2>2
  <2>4. \/ UNCHANGED pending /\ (pc' \in {"create", "run", "arm"} => pc \in {"create", "run", "arm"})
        \/ pending' = pending + 1 /\ pc = "arm" /\ pc' = "new"
    BY <1>7 DEF Start, ArmLoopCb, NewMainLoop, RunMainLoop, MainLoopReturns, Cleanup, Goto
  <2>5. /\ Last = 0 /\ Last' = 0 /\ Before' \in 0 .. 1
        /\ \/ UNCHANGED pending /\ Before' <= Before
           \/ pending' = pending + 1 /\ Before = 1 /\ Before' = 0
    <3>1. Last = 0 /\ Last' = 0 /\ Before' \in 0 .. 1
      BY <2>1 DEF Last, Before
    <3>2. CASE UNCHANGED pending /\ (pc' \in {"create", "run", "arm"} => pc \in {"create", "run", "arm"})
      <4>1. Before' <= Before
        BY <3>2 DEF Before
      <4> QED  BY <3>1, <3>2, <4>1
    <3>3. CASE pending' = pending + 1 /\ pc = "arm" /\ pc' = "new"
      BY <3>1, <3>3 DEF Before
    <3> QED  BY <2>4, <3>1, <3>2, <3>3
  <2>6. pending + 0 + Before <= gen + 0
    BY <1>2, <2>2, <2>5 DEF Calls
  <2>7. pending' + Depth' + Before' <= gen' + Last'
    BY <1>1, <1>2, <2>1, <2>2, <2>5, <2>6
  <2> QED  BY <1>3, <2>3, <2>7 DEF Calls
<1>8. CASE Quit
  <2>1. pc = "quit" /\ pc' = "stopping" /\ UNCHANGED <<pending, gen>> /\ StopPipeline("main")
    BY <1>8 DEF Quit, Goto, StopPipeline
  <2>2. Depth = 0
    BY <1>1, <1>2, <2>1 DEF Frames
  <2>3. Depth' = 1 /\ stack'[1].who = "main" /\ stack'[1].wait = "no"
    BY <2>1, <2>2, Enters
  <2>4. Frames'
    BY <2>1, <2>3 DEF Frames
  <2>5. Before = 0 /\ Before' = 0 /\ Last = 0 /\ Last' = 1
    BY <2>1 DEF Before, Last
  <2>6. pending + 0 + 0 <= gen + 0
    BY <1>2, <2>2, <2>5 DEF Calls
  <2>7. pending' + Depth' + Before' <= gen' + Last'
    BY <1>1, <2>1, <2>3, <2>5, <2>6
  <2> QED  BY <1>3, <2>4, <2>7 DEF Calls
<1>9. CASE QuitReturns
  <2>1. /\ pc = "stopping" /\ pc' = "cleanup" /\ UNCHANGED <<pending, gen>> /\ Depth > 0 /\ stack[Depth].who = "main"
        /\ stack' = SubSeq(stack, 1, Depth - 1)
    BY <1>9 DEF QuitReturns, Goto, StopReturns, Stopped, Top
  <2>2. Depth = 1
    BY <1>1, <1>2, <2>1 DEF Frames
  <2>3. Depth' = 0
    BY <2>1, <2>2, Leaves
  <2>4. Frames'
    BY <2>1, <2>3 DEF Frames
  <2>5. Before = 0 /\ Before' = 0 /\ Last = 1 /\ Last' = 0
    BY <2>1 DEF Before, Last
  <2>6. pending + 1 + 0 <= gen + 1
    BY <1>2, <2>2, <2>5 DEF Calls
  <2>7. pending' + Depth' + Before' <= gen' + Last'
    BY <1>1, <2>1, <2>3, <2>5, <2>6
  <2> QED  BY <1>3, <2>4, <2>7 DEF Calls
<1>10. CASE LoopCb
  <2>1. UNCHANGED <<pc, gen>> /\ pending > 0 /\ pending' = pending - 1 /\ StopPipeline("loop_cb")
        /\ (Depth = 0 => pc = "loop")
    BY <1>10 DEF LoopCb, StopPipeline, Dispatching
  <2>2. /\ Depth' = Depth + 1 /\ stack'[Depth + 1] = [who |-> "loop_cb", src |-> 1, wait |-> "no"]
        /\ \A d \in 1 .. Depth : stack'[d] = stack[d]
    BY <2>1, Enters
  <2>3. Frames'
    <3>1. (Depth' > 0 => pc' \in {"loop", "stopping"}) /\ (pc' = "stopping" => Depth' > 0)
      BY <1>1, <1>2, <2>1, <2>2 DEF Frames
    <3>2. ASSUME NEW d \in 1 .. Depth'
          PROVE  /\ stack'[d].who = "main" <=> (d = 1 /\ pc' = "stopping")
                 /\ stack'[d].wait # "no" => stack'[d].src <= cfg'.n
      <4>1. CASE d \in 1 .. Depth
        BY <1>1, <1>2, <2>1, <2>2, <4>1 DEF Frames
      <4>2. CASE d = Depth + 1
        <5>1. stack'[d].who = "loop_cb" /\ stack'[d].wait = "no"
          BY <2>2, <4>2
        <5>2. d = 1 => pc' # "stopping"
          BY <1>1, <1>2, <2>1, <4>2
        <5> QED  BY <5>1, <5>2
      <4> QED  BY <1>1, <2>2, <4>1, <4>2
    <3> QED  BY <3>1, <3>2 DEF Frames
  <2>4. Before' = Before /\ Last' = Last
    BY <2>1 DEF Before, Last
  <2>5. pending' + Depth' + Before' <= gen' + Last'
    BY <1>1, <1>2, <2>1, <2>2, <2>4 DEF Calls
  <2> QED  BY <1>3, <2>3, <2>5 DEF Calls
<1>11. CASE LoopCbReturns
  <2>1. /\ UNCHANGED <<pc, gen, pending>> /\ Depth > 0 /\ stack[Depth].who = "loop_cb"
        /\ stack' = SubSeq(stack, 1, Depth - 1)
    BY <1>11 DEF LoopCbReturns, Stopped, Top
  <2>2. Depth' = Depth - 1 /\ \A d \in 1 .. Depth - 1 : stack'[d] = stack[d]
    BY <2>1, Leaves
  <2>3. Frames'
    <3>1. (Depth' > 0 => pc' \in {"loop", "stopping"})
      BY <1>1, <1>2, <2>1, <2>2 DEF Frames
    <3>2. pc' = "stopping" => Depth' > 0
      <4>1. pc = "stopping" => stack[1].who = "main"
        BY <1>1, <1>2 DEF Frames
      <4>2. pc = "stopping" => Depth # 1
        BY <2>1, <4>1
      <4> QED  BY <1>1, <2>1, <2>2, <4>2
    <3>3. \A d \in 1 .. Depth' : d \in 1 .. Depth /\ stack'[d] = stack[d]
      BY <1>1, <2>2
    <3> QED  BY <1>1, <1>2, <2>1, <3>1, <3>2, <3>3 DEF Frames
  <2>4. Before' = Before /\ Last' = Last
    BY <2>1 DEF Before, Last
  <2>5. pending' + Depth' + Before' <= gen' + Last'
    BY <1>1, <1>2, <2>1, <2>2, <2>4 DEF Calls
  <2> QED  BY <1>3, <2>3, <2>5 DEF Calls
\* A step of a stop_pipeline, or a callback that quits its loop.
<1>12. ASSUME Depth' = Depth, UNCHANGED <<pc, gen, pending>>,
              NEW k \in 1 .. Depth, \A d \in 1 .. Depth : d # k => stack'[d] = stack[d],
              stack'[k].who = stack[k].who,
              stack'[k].wait = "no" \/ stack'[k].src <= cfg.n
       PROVE  StackInv'
  <2>1. Frames'
    BY <1>1, <1>2, <1>12 DEF Frames
  <2>2. Before' = Before /\ Last' = Last
    BY <1>12 DEF Before, Last
  <2>3. pending' + Depth' + Before' <= gen' + Last'
    BY <1>1, <1>2, <1>12, <2>2 DEF Calls
  <2> QED  BY <1>3, <2>1, <2>3 DEF Calls
<1>13. ASSUME UNCHANGED <<stack, pc, gen, pending>>
       PROVE  StackInv'
  <2>1. pending' + Depth' + Before' <= gen' + Last'
    BY <1>2, <1>5, <1>13 DEF Calls
  <2> QED  BY <1>3, <1>5, <1>13, <2>1 DEF Calls
<1>14. ASSUME NEW i \in Sources, Proceeds(i), UNCHANGED appvars
       PROVE  StackInv'
  <2>1. Depth > 0 /\ Top.src \in Sources /\ NextSource /\ UNCHANGED <<pc, gen, pending>>
    BY <1>14 DEF Proceeds, appvars
  <2>2. /\ Depth' = Depth /\ stack'[Depth].wait = "no" /\ stack'[Depth].who = stack[Depth].who
        /\ \A d \in 1 .. Depth : d # Depth => stack'[d] = stack[d]
    BY <2>1, GoesOn
  <2>3. Depth \in 1 .. Depth
    BY <1>1, <2>1
  <2> QED  BY <1>12, <2>1, <2>2, <2>3
<1>15. ASSUME NEW i \in Sources, SendEos(i), UNCHANGED appvars
       PROVE  StackInv'
  <2>1. Depth > 0 /\ Top.src = i /\ stack' = [stack EXCEPT ![Depth].wait = "open"] /\ UNCHANGED <<pc, gen, pending>>
    BY <1>15 DEF SendEos, Stepping, appvars
  <2>2. Depth \in 1 .. Depth /\ stack[Depth].src <= cfg.n
    BY <1>1, <2>1 DEF Top, Sources
  <2>3. /\ Depth' = Depth /\ stack'[Depth].src = stack[Depth].src /\ stack'[Depth].who = stack[Depth].who
        /\ \A d \in 1 .. Depth : d # Depth => stack'[d] = stack[d]
    BY <2>1, <2>2, Waits
  <2> QED  BY <1>12, <2>1, <2>2, <2>3
<1>16. CASE StopStep
  <2>1. CASE WaitOver
    BY <1>14, <1>16, <2>1, WaitIsOver DEF StopStep
  <2>2. CASE \E i \in Sources : NoHandle(i) \/ StopNow(i) \/ SendEos(i) \/ EosRefused(i)
    BY <1>14, <1>15, <1>16, <2>2, StopsOne DEF StopStep
  <2> QED  BY <1>16, <2>1, <2>2 DEF StopStep
<1>17. ASSUME NEW p \in Pipelines, GStreamer(p) \/ BusMessage(p)
       PROVE  StackInv'
  <2>1. UNCHANGED <<pc, gen, pending>>
    BY <1>17 DEF GStreamer, Drain, EndOfStream, PipelineError, BusMessage, BusSeek, BusEos, BusError, appvars
  <2>2. CASE UNCHANGED stack
    BY <1>13, <2>1, <2>2
  <2>3. CASE ~UNCHANGED stack
    <3>1. BusEos(p) \/ BusError(p)
      BY <1>17, <2>3 DEF GStreamer, Drain, EndOfStream, PipelineError, BusMessage, BusSeek
    <3>2. QuitWait(p[1]) /\ p[1] \in 1 .. MaxSources
      BY <3>1, BusReports DEF Reports, Pipelines
    <3>3. PICK k \in 1 .. Depth :
              /\ stack[k].src = p[1] /\ stack[k].wait # "no" /\ Depth' = Depth
              /\ stack'[k].src = p[1] /\ stack'[k].who = stack[k].who
              /\ \A d \in 1 .. Depth : d # k => stack'[d] = stack[d]
      BY <2>3, <3>2, QuitsWait
    <3>4. stack'[k].src <= cfg.n
      BY <1>2, <3>3 DEF Frames
    <3> QED  BY <1>12, <2>1, <3>3, <3>4
  <2> QED  BY <2>2, <2>3
<1>18. CASE CloseLoop \/ TimeCb \/ SignalHandler \/ UNCHANGED vars
  <2>1. UNCHANGED <<stack, pc, gen, pending>>
    BY <1>18 DEF CloseLoop, TimeCb, Inspect, GetPosition, SignalHandler, vars, libvars, appvars
  <2> QED  BY <1>13, <2>1
<1> QED
  BY <1>6, <1>7, <1>8, <1>9, <1>10, <1>11, <1>16, <1>17, <1>18 DEF Next, MainStep

-----------------------------------------------------------------------------
(* The steps, with the library's as what they do.                           *)

Main ==
  \/ ArmLoopCb \/ NewMainLoop \/ RunMainLoop \/ MainLoopReturns \/ Quit \/ QuitReturns \/ Cleanup
  \/ LoopCbReturns \/ CloseLoop \/ TimeCb \/ LoopCb \/ SignalHandler

LEMMA Steps ==
  ASSUME TypeOK, StackInv, [Next]_vars
  PROVE  \/ Configure \/ Start \/ Main \/ UNCHANGED vars
         \/ \E i \in Sources : (Proceeds(i) \/ SendEos(i)) /\ pc \in {"loop", "stopping"} /\ UNCHANGED appvars
         \/ \E p \in Pipelines :
              /\ UNCHANGED appvars
              /\ \/ Ends(p)
                 \/ (BusSeek(p) \/ Reports(p)) /\ pc \in {"loop", "stopping"}
<1>1. CASE StopStep
  <2>1. UNCHANGED appvars
    BY <1>1 DEF StopStep
  <2>2. PICK i \in Sources : Proceeds(i) \/ SendEos(i)
    BY <1>1, StopsOne, WaitIsOver DEF StopStep
  <2>3. Depth > 0
    BY <2>2 DEF Proceeds, SendEos, Stepping
  <2> QED  BY <2>1, <2>2, <2>3 DEF StackInv
<1>2. ASSUME NEW p \in Pipelines, GStreamer(p)
      PROVE  Ends(p) /\ UNCHANGED appvars
  BY <1>2, PlayingEnds DEF GStreamer
<1>3. ASSUME NEW p \in Pipelines, BusMessage(p)
      PROVE  (BusSeek(p) \/ Reports(p)) /\ pc \in {"loop", "stopping"} /\ UNCHANGED appvars
  <2>1. pc \in {"loop", "stopping"}
    <3>1. Depth \in Nat /\ (Depth = 0 => pc = "loop")
      BY <1>3, Typed DEF BusMessage, Dispatching
    <3> QED  BY <3>1 DEF StackInv
  <2> QED  BY <1>3, <2>1, BusReports DEF BusMessage
<1> QED  BY <1>1, <1>2, <1>3 DEF Next, MainStep, Main

\* What has happened stays so.
LEMMA Grows ==
  ASSUME [Next]_vars
  PROVE  faults \subseteq faults' /\ seen \subseteq seen' /\ (sig => sig')
<1>1. CASE Configure \/ Start
  BY <1>1 DEF Configure, InitStructParams, ConfigFails, Start, CreatePipeline, CreateFails, Create,
              RunPipeline, RunFails, Fault
<1>2. CASE Main
  BY <1>2 DEF Main, ArmLoopCb, NewMainLoop, RunMainLoop, MainLoopReturns, Quit, QuitReturns, Cleanup,
              LoopCbReturns, CloseLoop, TimeCb, Inspect, GetPosition, LoopCb, SignalHandler, StopPipeline,
              StopReturns, libvars
<1>3. CASE StopStep
  BY <1>3 DEF StopStep, NoHandle, StopNow, SendEos, EosRefused, WaitOver, SetNull, Fault, appvars
<1>4. ASSUME NEW p \in Pipelines, GStreamer(p) \/ BusMessage(p)
      PROVE  faults \subseteq faults' /\ seen \subseteq seen' /\ (sig => sig')
  BY <1>4 DEF GStreamer, Drain, EndOfStream, PipelineError, BusMessage, BusSeek, BusEos, BusError, Fault, appvars
<1>5. CASE UNCHANGED vars
  BY <1>5 DEF vars, libvars, appvars
<1> QED  BY <1>1, <1>2, <1>3, <1>4, <1>5 DEF Next, MainStep, Main

LEMMA Bounded ==
  ASSUME TypeOK, StackInv
  PROVE  Depth < Freed /\ Freed # 0
<1>1. Depth \in Nat /\ pending \in Nat /\ gen \in 0 .. MaxRuns /\ MaxRuns \in Nat
  BY Typed
<1>2. Calls /\ Before \in 0 .. 1 /\ Last \in 0 .. 1
  BY StackParts DEF Before, Last
<1> QED  BY <1>1, <1>2 DEF Calls, Freed

\* While there is no activation of stop_pipeline, main is elsewhere or on its loop.
LEMMA Idle ==
  ASSUME TypeOK, StackInv, pc \notin {"loop", "stopping"}
  PROVE  Depth = 0
BY Typed DEF StackInv

-----------------------------------------------------------------------------
(* The handles.                                                             *)

LEMMA HandleStep ==
  ASSUME TypeOK, StackInv, PhaseInv, HandleInv, [Next]_vars
  PROVE  HandleInv'
<1>1. /\ \A i \in 1 .. MaxSources : app[i].pipeline \in {0, gen}
      /\ \A i \in 1 .. MaxSources : i > cfg.n => app[i].pipeline = 0
      /\ pc = "create" => \A i \in 1 .. MaxSources : app[i] = Zero
      /\ pc = "run" => \A i \in Sources : app[i] = [Zero EXCEPT !.pipeline = gen]
  BY DEF HandleInv
<1>2. UNCHANGED cfg
  BY Steady
<1>3. ASSUME UNCHANGED gen, \A i \in 1 .. MaxSources : app'[i].pipeline \in {0, app[i].pipeline},
             pc' \notin {"create", "run"}
      PROVE  HandleInv'
  BY <1>1, <1>2, <1>3 DEF HandleInv
<1>4. ASSUME UNCHANGED <<gen, app>>, pc' \in {"create", "run"} => UNCHANGED pc
      PROVE  HandleInv'
  BY <1>1, <1>2, <1>4 DEF HandleInv, Sources
<1>5. CASE Configure
  <2>1. CASE InitStructParams
    <3>1. pc' = "create" /\ app' = [i \in 1 .. MaxSources |-> Zero]
      BY <1>5, <2>1, Steady DEF Configure, Goto, InitStructParams, ConfigFails
    <3>2. \A i \in 1 .. MaxSources : app'[i] = Zero /\ app'[i].pipeline = 0
      BY <3>1 DEF Zero
    <3> QED  BY <3>1, <3>2 DEF HandleInv
  <2>2. CASE ~InitStructParams
    BY <1>4, <1>5, <2>2 DEF Configure, ConfigFails, Goto
  <2> QED  BY <2>1, <2>2
<1>6. CASE Start
  <2>1. CASE pc = "run"
    BY <1>4, <1>6, <2>1 DEF Start, Goto, RunPipeline, RunFails
  <2>2. CASE pc = "create"
    <3>1. PICK k \in Sources : Create(k) /\ (pc' = "run" => k = cfg.n)
      <4>1. cfg.n \in Sources
        BY Typed DEF Sources
      <4> QED  BY <1>6, <2>2, <4>1 DEF Start, Goto, CreatePipeline, CreateFails
    <3>2. pc' # "create" /\ UNCHANGED gen
      BY <1>6, <2>2, <3>1 DEF Start, Goto, Create
    <3>3. \A i \in 1 .. MaxSources : app'[i] = IF i <= k THEN [Zero EXCEPT !.pipeline = gen] ELSE Zero
      BY <1>1, <2>2, <3>1 DEF Create
    <3>4. [Zero EXCEPT !.pipeline = gen].pipeline = gen /\ Zero.pipeline = 0
      BY DEF Zero
    <3>5. k \in Nat /\ k <= cfg.n /\ cfg.n \in Nat /\ Sources \subseteq 1 .. MaxSources
      BY Typed DEF Sources
    <3>6. \A i \in 1 .. MaxSources : app'[i].pipeline \in {0, gen} /\ (i > cfg.n => app'[i].pipeline = 0)
      <4>1. ASSUME NEW i \in 1 .. MaxSources, i <= k
            PROVE  app'[i].pipeline = gen /\ i <= cfg.n
        <5>1. app'[i].pipeline = gen
          BY <3>3, <3>4, <4>1
        <5> QED  BY <3>5, <4>1, <5>1
      <4>2. ASSUME NEW i \in 1 .. MaxSources, ~(i <= k)
            PROVE  app'[i].pipeline = 0
        BY <3>3, <3>4, <4>2
      <4>3. \A i \in 1 .. MaxSources : i > cfg.n => ~(i <= cfg.n)
        BY <3>5
      <4> QED  BY <4>1, <4>2, <4>3
    <3>7. pc' = "run" => \A i \in Sources : app'[i] = [Zero EXCEPT !.pipeline = gen]
      BY <3>1, <3>3, <3>5 DEF Sources
    <3> QED  BY <1>2, <3>2, <3>6, <3>7 DEF HandleInv, Sources
  <2> QED  BY <1>6, <2>1, <2>2 DEF Start, Goto
<1>7. CASE Main
  <2>1. UNCHANGED <<gen, app>>
    BY <1>7 DEF Main, ArmLoopCb, NewMainLoop, RunMainLoop, MainLoopReturns, Quit, QuitReturns, Cleanup,
              LoopCbReturns, CloseLoop, TimeCb, Inspect, GetPosition, LoopCb, SignalHandler, StopPipeline,
              StopReturns, libvars
  <2>2. pc' \in {"create", "run"} => UNCHANGED pc
    BY <1>7 DEF Main, Goto, ArmLoopCb, NewMainLoop, RunMainLoop, MainLoopReturns, Quit, QuitReturns, Cleanup,
              LoopCbReturns, CloseLoop, TimeCb, LoopCb, SignalHandler
  <2> QED  BY <1>4, <2>1, <2>2
<1>8. CASE UNCHANGED vars
  BY <1>4, <1>8 DEF vars, libvars, appvars
<1>9. ASSUME NEW i \in Sources, Proceeds(i), pc \in {"loop", "stopping"}, UNCHANGED appvars
      PROVE  HandleInv'
  <2>1. UNCHANGED <<pc, gen>>
    BY <1>9 DEF Proceeds, appvars
  <2>2. \A j \in 1 .. MaxSources : app'[j].pipeline \in {0, app[j].pipeline}
    BY <1>9 DEF Proceeds
  <2> QED  BY <1>3, <1>9, <2>1, <2>2
<1>10. ASSUME NEW i \in Sources, SendEos(i), pc \in {"loop", "stopping"}, UNCHANGED appvars
      PROVE  HandleInv'
  <2>1. UNCHANGED <<pc, gen>>
    BY <1>10 DEF SendEos, appvars
  <2>2. \A j \in 1 .. MaxSources : app'[j].pipeline = app[j].pipeline
    BY <1>10, SendsEos
  <2> QED  BY <1>3, <1>10, <2>1, <2>2
<1>11. ASSUME NEW p \in Pipelines, Ends(p) \/ BusSeek(p), UNCHANGED appvars
       PROVE  HandleInv'
  BY <1>4, <1>11 DEF Ends, BusSeek, appvars
<1>12. ASSUME NEW p \in Pipelines, Reports(p), pc \in {"loop", "stopping"}, UNCHANGED appvars
       PROVE  HandleInv'
  BY <1>3, <1>12 DEF Reports, appvars
<1> QED  BY <1>5, <1>6, <1>7, <1>8, <1>9, <1>10, <1>11, <1>12, Steps

-----------------------------------------------------------------------------
(* The loops of stop_pipeline, and the sources it has passed.               *)

\* What Configure and Start do to the loops: nothing, or they are forgotten.
LEMMA Rounds ==
  ASSUME TypeOK, Configure \/ Start
  PROVE  /\ UNCHANGED stack
         /\ \A i \in 1 .. MaxSources : app'[i].loop = app[i].loop \/ app'[i].loop = 0
<1>1. \A i \in 1 .. MaxSources : app[i] \in Playback
  BY Typed
<1>2. CASE Configure
  <2>1. Zero.loop = 0
    BY DEF Zero
  <2> QED  BY <1>2, <2>1 DEF Configure, InitStructParams, ConfigFails
<1>3. CASE Start
  <2>1. ASSUME NEW k \in Sources, Create(k)
        PROVE  UNCHANGED stack /\ \A i \in 1 .. MaxSources : app'[i].loop = app[i].loop
    <3>1. \A i \in 1 .. MaxSources : [app[i] EXCEPT !.pipeline = gen].loop = app[i].loop
      BY <1>1 DEF Playback
    <3>2. ASSUME NEW i \in 1 .. MaxSources
          PROVE  app'[i] = app[i] \/ app'[i] = [app[i] EXCEPT !.pipeline = gen]
      BY <2>1 DEF Create
    <3> QED  BY <2>1, <3>1, <3>2 DEF Create
  <2>2. cfg.n \in Sources
    BY Typed DEF Sources
  <2> QED  BY <1>3, <2>1, <2>2 DEF Start, CreatePipeline, CreateFails, RunPipeline, RunFails
<1> QED  BY <1>2, <1>3

LEMMA LoopStep ==
  ASSUME TypeOK, StackInv, LoopInv, [Next]_vars, TypeOK', StackInv'
  PROVE  LoopInv'
<1>1. /\ \A i \in 1 .. MaxSources : app[i].loop \in {0, Freed} \cup 1 .. Depth
      /\ \A i \in 1 .. MaxSources : \A d \in 1 .. Depth :
           app[i].loop = d => stack[d].src = i /\ stack[d].wait # "no"
      /\ \A i \in 1 .. MaxSources : cfg.sink # "record" => app[i].loop = 0
  BY DEF LoopInv
<1>2. UNCHANGED cfg /\ Freed' = Freed
  BY Steady DEF Freed
<1>3. Depth \in Nat /\ Depth < Freed /\ Freed # 0 /\ Freed \in Nat
  BY Bounded, Typed DEF Freed
<1>4. Depth' \in Nat /\ Depth' < Freed
  <2>1. stack' \in Seq(Frame)' /\ gen' \in 0 .. MaxRuns /\ pending' \in 0 .. MaxRuns
    BY DEF TypeOK, LibTypeOK
  <2>2. Depth' \in Nat
    BY <2>1, LenProperties DEF Depth
  <2>3. Calls' /\ Before' \in 0 .. 1 /\ Last' \in 0 .. 1
    BY DEF StackInv, Calls, Before, Last
  <2>4. MaxRuns \in Nat
    BY VgstAssumption
  <2>5. pending' + Depth' + Before' <= gen' + Last'
    BY <2>3 DEF Calls
  <2>6. \A x, y, a, b, g \in Nat : x + y + a <= g + b /\ g <= MaxRuns /\ b <= 1 => y < MaxRuns + 2
    BY <2>4
  <2>7. Before' \in Nat /\ Last' \in Nat /\ Last' <= 1 /\ gen' \in Nat /\ gen' <= MaxRuns /\ pending' \in Nat
    BY <2>1, <2>3, <2>4
  <2> QED  BY <2>2, <2>5, <2>6, <2>7 DEF Freed
\* The activations that a loop belongs to stay as they are.
<1>5. ASSUME Depth' >= Depth,
             \A d \in 1 .. Depth : stack'[d].src = stack[d].src /\ (stack[d].wait # "no" => stack'[d].wait # "no"),
             \A i \in 1 .. MaxSources : app'[i].loop = app[i].loop \/ app'[i].loop = 0
      PROVE  LoopInv'
  <2>1. ASSUME NEW i \in 1 .. MaxSources
        PROVE  /\ app'[i].loop \in {0, Freed} \cup 1 .. Depth'
               /\ cfg'.sink # "record" => app'[i].loop = 0
               /\ \A d \in 1 .. Depth' : app'[i].loop = d => stack'[d].src = i /\ stack'[d].wait # "no"
    <3>1. CASE app'[i].loop = 0
      BY <3>1
    <3>2. CASE app'[i].loop = app[i].loop
      <4>1. app[i].loop \in {0, Freed} \cup 1 .. Depth
        BY <1>1
      <4>2. app[i].loop \in {0, Freed} \cup 1 .. Depth'
        BY <1>3, <1>4, <1>5, <4>1
      <4>3. cfg'.sink # "record" => app'[i].loop = 0
        BY <1>1, <1>2, <3>2
      <4>4. ASSUME NEW d \in 1 .. Depth', app[i].loop = d
            PROVE  d \in 1 .. Depth
        BY <1>3, <1>4, <4>1, <4>4
      <4>5. ASSUME NEW d \in 1 .. Depth', app[i].loop = d
            PROVE  stack'[d].src = i /\ stack'[d].wait # "no"
        BY <1>1, <1>5, <4>4, <4>5
      <4> QED  BY <3>2, <4>2, <4>3, <4>5
    <3> QED  BY <1>5, <3>1, <3>2
  <2> QED  BY <1>2, <2>1 DEF LoopInv
<1>6. ASSUME UNCHANGED stack, \A i \in 1 .. MaxSources : app'[i].loop = app[i].loop \/ app'[i].loop = 0
      PROVE  LoopInv'
  <2>1. Depth' = Depth /\ Depth' >= Depth
    BY <1>3, <1>6 DEF Depth
  <2> QED  BY <1>5, <1>6, <2>1
<1>7. CASE Configure \/ Start
  BY <1>6, <1>7, Rounds
<1>8. CASE Main
  <2>1. UNCHANGED app
    BY <1>8 DEF Main, ArmLoopCb, NewMainLoop, RunMainLoop, MainLoopReturns, Quit, QuitReturns, Cleanup,
              LoopCbReturns, CloseLoop, TimeCb, Inspect, GetPosition, LoopCb, SignalHandler, StopPipeline,
              StopReturns, libvars
  <2>2. CASE Quit \/ LoopCb
    <3>1. PICK who \in {"main", "loop_cb"} : StopPipeline(who)
      BY <2>2 DEF Quit, LoopCb
    <3>2. Depth' = Depth + 1 /\ \A d \in 1 .. Depth : stack'[d] = stack[d]
      BY <3>1, Enters
    <3>3. Depth' >= Depth
      BY <1>3, <3>2
    <3> QED  BY <1>5, <2>1, <3>2, <3>3
  <2>3. CASE QuitReturns \/ LoopCbReturns
    <3>1. Depth > 0 /\ stack[Depth].wait = "no" /\ stack' = SubSeq(stack, 1, Depth - 1)
      BY <2>3 DEF QuitReturns, LoopCbReturns, StopReturns, Stopped, Top
    <3>2. Depth' = Depth - 1 /\ \A d \in 1 .. Depth - 1 : stack'[d] = stack[d]
      BY <3>1, Leaves
    <3>3. Depth \in 1 .. Depth /\ \A d \in 1 .. Depth' : d \in 1 .. Depth /\ stack'[d] = stack[d]
      BY <1>3, <3>1, <3>2
    <3>4. ASSUME NEW i \in 1 .. MaxSources
          PROVE  app[i].loop \in {0, Freed} \cup 1 .. Depth'
      <4>1. app[i].loop # Depth
        BY <1>1, <3>1, <3>3
      <4>2. app[i].loop \in {0, Freed} \cup 1 .. Depth
        BY <1>1
      <4> QED  BY <1>3, <3>2, <4>1, <4>2
    <3> QED  BY <1>1, <1>2, <2>1, <3>3, <3>4 DEF LoopInv
  <2>4. CASE ~(Quit \/ LoopCb \/ QuitReturns \/ LoopCbReturns)
    <3>1. UNCHANGED stack
      BY <1>8, <2>4 DEF Main, ArmLoopCb, NewMainLoop, RunMainLoop, MainLoopReturns, Cleanup,
                        CloseLoop, TimeCb, Inspect, GetPosition, SignalHandler, libvars
    <3> QED  BY <1>6, <2>1, <3>1
  <2> QED  BY <2>2, <2>3, <2>4
<1>9. CASE UNCHANGED vars
  BY <1>6, <1>9 DEF vars, libvars
<1>10. ASSUME NEW i \in Sources, Proceeds(i)
       PROVE  LoopInv'
  <2>1. /\ Depth > 0 /\ Top.src = i /\ NextSource /\ Top.wait \in {"no", "quit"}
        /\ \A j \in 1 .. MaxSources : j # i => app'[j] = app[j]
        /\ app'[i].loop = IF Top.wait = "quit" /\ app[i].loop = Depth THEN Freed ELSE app[i].loop
    BY <1>10 DEF Proceeds
  <2>2. Depth' = Depth /\ Depth \in 1 .. Depth /\ \A d \in 1 .. Depth : d # Depth => stack'[d] = stack[d]
    BY <1>3, <2>1, GoesOn
  <2>3. ASSUME NEW j \in 1 .. MaxSources
        PROVE  app'[j].loop # Depth /\ (app'[j].loop = Freed \/ app'[j].loop = app[j].loop)
               /\ (cfg.sink # "record" => app'[j].loop = 0)
    <3>1. app[j].loop = Depth => j = i /\ Top.wait = "quit"
      BY <1>1, <2>1, <2>2 DEF Top
    <3>2. Freed # Depth
      BY <1>3
    <3>3. cfg.sink # "record" => app[j].loop = 0 /\ 0 # Depth
      BY <1>1, <1>3, <2>1
    <3> QED  BY <2>1, <3>1, <3>2, <3>3
  <2>4. ASSUME NEW j \in 1 .. MaxSources
        PROVE  /\ app'[j].loop \in {0, Freed} \cup 1 .. Depth'
               /\ \A d \in 1 .. Depth' : app'[j].loop = d => stack'[d].src = j /\ stack'[d].wait # "no"
    <3>1. app'[j].loop \in {0, Freed} \cup 1 .. Depth'
      BY <1>1, <2>2, <2>3
    <3>2. ASSUME NEW d \in 1 .. Depth', app'[j].loop = d
          PROVE  d \in 1 .. Depth /\ d # Depth /\ app[j].loop = d
      BY <1>3, <2>2, <2>3, <3>2
    <3>3. ASSUME NEW d \in 1 .. Depth', app'[j].loop = d
          PROVE  stack'[d].src = j /\ stack'[d].wait # "no"
      BY <1>1, <2>2, <3>2, <3>3
    <3> QED  BY <3>1, <3>3
  <2> QED  BY <1>2, <2>3, <2>4 DEF LoopInv
<1>11. ASSUME NEW i \in Sources, SendEos(i)
       PROVE  LoopInv'
  <2>1. /\ \A j \in 1 .. MaxSources : app'[j].loop = IF j = i THEN Depth ELSE app[j].loop
        /\ Depth > 0 /\ Top.wait = "no" /\ cfg.sink = "record" /\ Depth' = Depth
        /\ stack'[Depth].src = i /\ stack'[Depth].wait = "open"
        /\ \A d \in 1 .. Depth : d # Depth => stack'[d] = stack[d]
    BY <1>11, SendsEos
  <2>2. Depth \in 1 .. Depth
    BY <1>3, <2>1
  <2>3. ASSUME NEW j \in 1 .. MaxSources
        PROVE  /\ app'[j].loop \in {0, Freed} \cup 1 .. Depth'
               /\ \A d \in 1 .. Depth' : app'[j].loop = d => stack'[d].src = j /\ stack'[d].wait # "no"
    <3>1. CASE j = i
      BY <2>1, <2>2, <3>1
    <3>2. CASE j # i
      <4>1. app'[j].loop = app[j].loop /\ app[j].loop # Depth
        BY <1>1, <2>1, <2>2, <3>2 DEF Top
      <4> QED  BY <1>1, <2>1, <4>1
    <3> QED  BY <3>1, <3>2
  <2> QED  BY <1>2, <2>1, <2>3 DEF LoopInv
<1>12. ASSUME NEW p \in Pipelines, Ends(p) \/ BusSeek(p)
       PROVE  LoopInv'
  BY <1>6, <1>12 DEF Ends, BusSeek
<1>13. ASSUME NEW p \in Pipelines, Reports(p)
       PROVE  LoopInv'
  <2>1. /\ \A j \in 1 .. MaxSources : app'[j].loop = app[j].loop
        /\ p[1] \in 1 .. MaxSources /\ QuitWait(p[1])
    BY <1>13 DEF Reports, Pipelines
  <2>2. CASE UNCHANGED stack
    BY <1>6, <2>1, <2>2
  <2>3. CASE ~UNCHANGED stack
    <3>1. PICK k \in 1 .. Depth :
              /\ stack[k].src = p[1] /\ Depth' = Depth
              /\ stack'[k].src = p[1] /\ stack'[k].wait = "quit"
              /\ \A d \in 1 .. Depth : d # k => stack'[d] = stack[d]
      BY <2>1, <2>3, QuitsWait
    <3>2. Depth' >= Depth
      BY <1>3, <3>1
    <3>3. \A d \in 1 .. Depth : stack'[d].src = stack[d].src /\ (stack[d].wait # "no" => stack'[d].wait # "no")
      BY <3>1
    <3> QED  BY <1>5, <2>1, <3>2, <3>3
  <2> QED  BY <2>2, <2>3
<1> QED  BY <1>7, <1>8, <1>9, <1>10, <1>11, <1>12, <1>13, Steps

LEMMA PassedStep ==
  ASSUME TypeOK, StackInv, LoopInv, PassedInv, [Next]_vars
  PROVE  PassedInv'
<1> SUFFICES ASSUME "null" \notin faults'
             PROVE  \A d \in 1 .. Depth' : \A i \in 1 .. MaxSources : i < stack'[d].src => app'[i].pipeline = 0
  BY DEF PassedInv, Null
<1>1. "null" \notin faults
  BY Grows
<1>2. \A d \in 1 .. Depth : \A i \in 1 .. MaxSources : i < stack[d].src => app[i].pipeline = 0
  BY <1>1 DEF PassedInv, Null
<1>3. Depth \in Nat
  BY Typed
<1>4. CASE Depth' = 0
  BY <1>4
\* No activation has gone on to another source.
<1>5. ASSUME \A d \in 1 .. Depth' : d \in 1 .. Depth /\ stack'[d].src = stack[d].src,
             \A i \in 1 .. MaxSources : app'[i].pipeline = app[i].pipeline
      PROVE  \A d \in 1 .. Depth' : \A i \in 1 .. MaxSources : i < stack'[d].src => app'[i].pipeline = 0
  BY <1>2, <1>5
<1>6. ASSUME UNCHANGED stack, \A i \in 1 .. MaxSources : app'[i].pipeline = app[i].pipeline
      PROVE  \A d \in 1 .. Depth' : \A i \in 1 .. MaxSources : i < stack'[d].src => app'[i].pipeline = 0
  BY <1>5, <1>6 DEF Depth
<1>7. CASE Configure \/ Start
  <2>1. UNCHANGED stack
    BY <1>7, Rounds
  <2>2. Depth = 0
    BY <1>7, Idle DEF Configure, Start, Goto
  <2> QED  BY <1>4, <2>1, <2>2 DEF Depth
<1>8. CASE Main
  <2>1. UNCHANGED app
    BY <1>8 DEF Main, ArmLoopCb, NewMainLoop, RunMainLoop, MainLoopReturns, Quit, QuitReturns, Cleanup,
              LoopCbReturns, CloseLoop, TimeCb, Inspect, GetPosition, LoopCb, SignalHandler, StopPipeline,
              StopReturns, libvars
  <2>2. CASE Quit \/ LoopCb
    <3>1. PICK who \in {"main", "loop_cb"} : StopPipeline(who)
      BY <2>2 DEF Quit, LoopCb
    <3>2. /\ Depth' = Depth + 1 /\ \A d \in 1 .. Depth : stack'[d] = stack[d]
          /\ stack'[Depth + 1].src = 1
      BY <3>1, Enters
    <3>3. ASSUME NEW d \in 1 .. Depth', NEW i \in 1 .. MaxSources, i < stack'[d].src
          PROVE  app'[i].pipeline = 0
      <4>1. d \in 1 .. Depth \/ d = Depth + 1
        BY <1>3, <3>2
      <4>2. ~(i < 1)
        BY VgstAssumption
      <4>3. d \in 1 .. Depth /\ stack'[d] = stack[d]
        BY <3>2, <3>3, <4>1, <4>2
      <4> QED  BY <1>2, <2>1, <3>3, <4>3
    <3> QED  BY <3>3
  <2>3. CASE QuitReturns \/ LoopCbReturns
    <3>1. Depth > 0 /\ stack' = SubSeq(stack, 1, Depth - 1)
      BY <2>3 DEF QuitReturns, LoopCbReturns, StopReturns, Stopped
    <3>2. Depth' = Depth - 1 /\ \A d \in 1 .. Depth - 1 : stack'[d] = stack[d]
      BY <3>1, Leaves
    <3>3. \A d \in 1 .. Depth' : d \in 1 .. Depth /\ stack'[d] = stack[d]
      BY <1>3, <3>1, <3>2
    <3> QED  BY <1>5, <2>1, <3>3
  <2>4. CASE ~(Quit \/ LoopCb \/ QuitReturns \/ LoopCbReturns)
    <3>1. UNCHANGED stack
      BY <1>8, <2>4 DEF Main, ArmLoopCb, NewMainLoop, RunMainLoop, MainLoopReturns, Cleanup,
                        CloseLoop, TimeCb, Inspect, GetPosition, SignalHandler, libvars
    <3> QED  BY <1>6, <2>1, <3>1
  <2> QED  BY <2>2, <2>3, <2>4
<1>9. CASE UNCHANGED vars
  BY <1>6, <1>9 DEF vars, libvars
<1>10. ASSUME NEW i \in Sources, Proceeds(i)
       PROVE  \A d \in 1 .. Depth' : \A j \in 1 .. MaxSources : j < stack'[d].src => app'[j].pipeline = 0
  <2>1. /\ Depth > 0 /\ Top.src = i /\ NextSource
        /\ \A j \in 1 .. MaxSources : j # i => app'[j] = app[j]
    BY <1>10 DEF Proceeds
  <2>2. app'[i].pipeline = 0
    BY <1>10 DEF Proceeds
  <2>3. /\ Depth' = Depth /\ Depth \in 1 .. Depth /\ \A d \in 1 .. Depth : d # Depth => stack'[d] = stack[d]
        /\ stack'[Depth].src = stack[Depth].src + 1
    BY <1>3, <2>1, GoesOn
  <2>4. ASSUME NEW d \in 1 .. Depth', NEW j \in 1 .. MaxSources, j < stack'[d].src
        PROVE  app'[j].pipeline = 0
    <3>1. CASE d # Depth
      BY <1>2, <2>1, <2>2, <2>3, <2>4, <3>1
    <3>2. CASE d = Depth
      <4>1. j < i + 1 /\ stack[Depth].src = i
        BY <2>1, <2>3, <2>4, <3>2 DEF Top
      <4>2. i \in Nat /\ j \in Nat
        BY Typed DEF Sources
      <4>3. j = i \/ j < i
        BY <4>1, <4>2
      <4> QED  BY <1>2, <2>1, <2>2, <2>3, <4>1, <4>3
    <3> QED  BY <3>1, <3>2
  <2> QED  BY <2>4
<1>11. ASSUME NEW i \in Sources, SendEos(i)
       PROVE  \A d \in 1 .. Depth' : \A j \in 1 .. MaxSources : j < stack'[d].src => app'[j].pipeline = 0
  <2>1. /\ \A j \in 1 .. MaxSources : app'[j].pipeline = app[j].pipeline
        /\ Top.src = i /\ Depth' = Depth /\ stack'[Depth].src = i
        /\ \A d \in 1 .. Depth : d # Depth => stack'[d] = stack[d]
    BY <1>11, SendsEos
  <2> QED  BY <1>5, <2>1 DEF Top
<1>12. ASSUME NEW p \in Pipelines, Ends(p) \/ BusSeek(p)
       PROVE  \A d \in 1 .. Depth' : \A j \in 1 .. MaxSources : j < stack'[d].src => app'[j].pipeline = 0
  BY <1>6, <1>12 DEF Ends, BusSeek
<1>13. ASSUME NEW p \in Pipelines, Reports(p)
       PROVE  \A d \in 1 .. Depth' : \A j \in 1 .. MaxSources : j < stack'[d].src => app'[j].pipeline = 0
  <2>1. /\ \A j \in 1 .. MaxSources : app'[j].pipeline = app[j].pipeline
        /\ p[1] \in 1 .. MaxSources /\ QuitWait(p[1])
    BY <1>13 DEF Reports, Pipelines
  <2>2. CASE UNCHANGED stack
    BY <1>6, <2>1, <2>2
  <2>3. CASE ~UNCHANGED stack
    <3>1. PICK k \in 1 .. Depth :
              /\ stack[k].src = p[1] /\ Depth' = Depth /\ stack'[k].src = p[1]
              /\ \A d \in 1 .. Depth : d # k => stack'[d] = stack[d]
      BY <2>1, <2>3, QuitsWait
    <3>2. \A d \in 1 .. Depth' : d \in 1 .. Depth /\ stack'[d].src = stack[d].src
      BY <3>1
    <3> QED  BY <1>5, <2>1, <3>2
  <2> QED  BY <2>2, <2>3
<1> QED  BY <1>7, <1>8, <1>9, <1>10, <1>11, <1>12, <1>13, Steps

\* When an activation of stop_pipeline returns, no source has a pipeline any more,
\* unless a state change to NULL has failed.
LEMMA StoppedAll ==
  ASSUME TypeOK, HandleInv, PassedInv, Stopped, ~Null
  PROVE  AllZero
<1>1. Depth \in 1 .. Depth /\ stack[Depth].src > cfg.n /\ cfg.n \in Nat /\ stack[Depth] \in Frame
  BY Typed DEF Stopped, Top
<1>2. ASSUME NEW i \in 1 .. MaxSources
      PROVE  i > cfg.n \/ i < stack[Depth].src
  <2>1. stack[Depth].src \in Nat
    BY <1>1, VgstAssumption DEF Frame
  <2> QED  BY <1>1, <2>1
<1>3. ASSUME NEW i \in 1 .. MaxSources
      PROVE  app[i].pipeline = 0
  BY <1>1, <1>2 DEF HandleInv, PassedInv
<1> QED  BY <1>3 DEF AllZero

-----------------------------------------------------------------------------
(* Every pipeline has an owner.                                             *)

\* The owners after a step, and the two points where they are all gone.
Owned == \A p \in Pipelines : st[p] \in Alive => app[p[1]].pipeline = p[2]
Emptied ==
  /\ pc \in {"config", "cleanup", "ended"} => AllZero
  /\ Ending => Depth > 0 \/ AllZero

LEMMA Nobody ==
  ASSUME TypeOK, Owned, AllZero
  PROVE  \A p \in Pipelines : st[p] \notin Alive
<1>1. \A p \in Pipelines : p[1] \in 1 .. MaxSources /\ p[2] # 0
  BY VgstAssumption DEF Pipelines
<1> QED  BY <1>1 DEF Owned, AllZero

\* The pipelines that Configure and Start leave have owners.
LEMMA OwnedStart ==
  ASSUME TypeOK, PhaseInv, HandleInv, Owned, AllZero \/ pc # "config", Configure \/ Start
  PROVE  Owned'
<1>1. \A p \in Pipelines : p[1] \in 1 .. MaxSources /\ p[2] \in 1 .. MaxRuns
  BY DEF Pipelines
<1>2. CASE Configure
  <2>1. \A p \in Pipelines : st[p] \notin Alive
    BY <1>2, Nobody DEF Configure, Goto
  <2> QED  BY <1>2, <2>1 DEF Configure, InitStructParams, ConfigFails, Owned
<1>3. ASSUME NEW k \in Sources, pc = "create", Create(k)
      PROVE  Owned'
  <2>1. AllZero
    BY <1>3 DEF HandleInv, AllZero, Zero
  <2>2. \A p \in Pipelines : st[p] \notin Alive
    BY <2>1, Nobody
  <2>3. ASSUME NEW p \in Pipelines, st'[p] \in Alive
        PROVE  app'[p[1]].pipeline = p[2]
    <3>1. p[1] <= k /\ p[2] = gen
      BY <1>3, <2>2, <2>3 DEF Create
    <3>2. app'[p[1]] = [app[p[1]] EXCEPT !.pipeline = gen]
      BY <1>1, <1>3, <3>1 DEF Create
    <3>3. app[p[1]] \in Playback
      BY <1>1, Typed
    <3> QED  BY <3>1, <3>2, <3>3 DEF Playback
  <2> QED  BY <2>3 DEF Owned
<1>4. ASSUME pc = "run", RunPipeline \/ RunFails
      PROVE  Owned'
  <2>1. \A i \in Sources : app[i].pipeline = gen
    BY <1>4 DEF HandleInv, Zero
  <2>2. ASSUME NEW p \in Pipelines
        PROVE  st'[p] = st[p] \/ (p[1] \in Sources /\ p[2] = gen)
    <3>1. CASE RunPipeline
      BY <3>1 DEF RunPipeline
    <3>2. CASE RunFails
      <4>1. PICK k \in Sources :
              st' = [q \in Pipelines |-> IF q[2] = gen /\ q[1] < k THEN "playing"
                                         ELSE IF q = <<k, gen>> THEN "failed" ELSE st[q]]
        BY <3>2 DEF RunFails
      <4>2. \A i \in 1 .. MaxSources : i < k => i \in Sources
        BY Typed DEF Sources
      <4> QED  BY <1>1, <4>1, <4>2
    <3> QED  BY <1>4, <3>1, <3>2
  <2>3. UNCHANGED app
    BY <1>4 DEF RunPipeline, RunFails
  <2> QED  BY <2>1, <2>2, <2>3 DEF Owned
<1>5. cfg.n \in Sources
  BY Typed DEF Sources
<1> QED  BY <1>2, <1>3, <1>4, <1>5 DEF Start, Goto, CreatePipeline, CreateFails

LEMMA OwnerStep ==
  ASSUME TypeOK, StackInv, PhaseInv, HandleInv, LoopInv, PassedInv, OwnerInv, [Next]_vars, PhaseInv'
  PROVE  OwnerInv'
<1> SUFFICES ASSUME "null" \notin faults', "restarted" \notin seen'
             PROVE  Owned' /\ Emptied'
  BY DEF OwnerInv, OneOwner, Excused, Owned, Emptied
<1>1. "null" \notin faults /\ "restarted" \notin seen
  BY Grows
<1>2. Owned /\ Emptied
  BY <1>1 DEF OwnerInv, OneOwner, Excused, Owned, Emptied
<1>3. Depth \in Nat
  BY Typed
<1>4. \A p \in Pipelines : p[1] \in 1 .. MaxSources /\ p[2] \in 1 .. MaxRuns
  BY DEF Pipelines
<1>5. Ending' => pc' = "loop"
  BY DEF Ending, PhaseInv
<1>6. ASSUME UNCHANGED <<st, app>>
      PROVE  Owned' /\ (AllZero => AllZero')
  BY <1>2, <1>6 DEF Owned, AllZero
<1>7. CASE Configure
  <2>1. pc = "config" /\ pc' \in {"create", "cleanup"}
    BY <1>7 DEF Configure, Goto
  <2>2. AllZero
    BY <1>2, <2>1 DEF Emptied
  <2>3. Owned'
    BY <1>2, <1>7, <2>2, OwnedStart
  <2>4. pc' = "cleanup" => AllZero'
    BY <1>6, <1>7, <2>2 DEF Configure, Goto, ConfigFails
  <2> QED  BY <1>5, <2>1, <2>3, <2>4 DEF Emptied
<1>8. CASE Start
  <2>1. pc \in {"create", "run"} /\ pc' \in {"run", "arm", "quit"}
    BY <1>8 DEF Start, Goto
  <2>2. Owned'
    BY <1>2, <1>8, <2>1, OwnedStart
  <2> QED  BY <1>5, <2>1, <2>2 DEF Emptied
<1>9. CASE Main
  <2>1. UNCHANGED <<st, app>>
    BY <1>9 DEF Main, ArmLoopCb, NewMainLoop, RunMainLoop, MainLoopReturns, Quit, QuitReturns, Cleanup,
              LoopCbReturns, CloseLoop, TimeCb, Inspect, GetPosition, LoopCb, SignalHandler, StopPipeline,
              StopReturns, libvars
  <2>2. CASE ArmLoopCb \/ NewMainLoop \/ RunMainLoop \/ Quit
    <3>1. pc' \in {"new", "enter", "loop", "stopping"} /\ (Ending' => loop' = "running")
      <4>1. CASE RunMainLoop
        BY <4>1 DEF RunMainLoop, Goto
      <4>2. CASE ArmLoopCb \/ NewMainLoop \/ Quit
        BY <1>5, <4>2 DEF ArmLoopCb, NewMainLoop, Quit, Goto
      <4> QED  BY <2>2, <4>1, <4>2
    <3>2. ~Ending'
      <4>1. CASE RunMainLoop
        <5>1. pc = "enter" /\ UNCHANGED closing
          BY <4>1 DEF RunMainLoop, Goto
        <5>2. ~closing'
          BY <5>1 DEF PhaseInv
        <5> QED  BY <3>1, <5>2 DEF Ending
      <4>2. CASE ArmLoopCb \/ NewMainLoop \/ Quit
        BY <1>5, <4>2 DEF ArmLoopCb, NewMainLoop, Quit, Goto
      <4> QED  BY <2>2, <4>1, <4>2
    <3> QED  BY <1>6, <2>1, <3>1, <3>2 DEF Emptied
  <2>3. CASE MainLoopReturns
    <3>1. loop = "quit" /\ Depth = 0 /\ (pc' = "config" => playback) /\ pc' \in {"config", "quit"}
      BY <2>3 DEF MainLoopReturns, Goto
    <3>2. playback => AllZero
      BY <1>2, <3>1 DEF Emptied, Ending
    <3> QED  BY <1>5, <1>6, <2>1, <3>1, <3>2 DEF Emptied
  <2>4. CASE QuitReturns \/ LoopCbReturns
    <3>1. AllZero
      BY <1>1, <2>4, StoppedAll DEF QuitReturns, LoopCbReturns, Null
    <3> QED  BY <1>6, <2>1, <3>1 DEF Emptied
  <2>5. CASE Cleanup
    <3>1. pc = "cleanup" /\ pc' = "ended"
      BY <2>5 DEF Cleanup, Goto
    <3>2. AllZero
      BY <1>2, <3>1 DEF Emptied
    <3> QED  BY <1>6, <2>1, <3>2 DEF Emptied
  <2>6. CASE CloseLoop
    <3>1. UNCHANGED <<pc, playback, stack>> /\ closing
      BY <2>6 DEF CloseLoop
    <3>2. Ending' => Ending
      BY <3>1 DEF Ending
    <3> QED  BY <1>2, <1>6, <2>1, <3>1, <3>2 DEF Emptied, Depth
  <2>7. CASE TimeCb
    <3>1. UNCHANGED <<pc, playback, loop, stack>>
      BY <2>7 DEF TimeCb, Inspect, GetPosition
    <3>2. UNCHANGED closing \/ (Depth = 0 /\ playback => "restarted" \in seen')
      BY <2>7 DEF TimeCb
    <3>3. Depth = 0 /\ playback => UNCHANGED closing
      BY <3>2
    <3>4. Ending' => Ending \/ Depth > 0
      BY <1>3, <3>1, <3>3 DEF Ending
    <3> QED  BY <1>2, <1>6, <2>1, <3>1, <3>4 DEF Emptied, Depth
  <2>8. CASE LoopCb
    <3>1. UNCHANGED pc /\ StopPipeline("loop_cb")
      BY <2>8 DEF LoopCb
    <3>2. Depth' = Depth + 1
      BY <3>1, Enters
    <3>3. Depth' > 0
      BY <1>3, <3>2
    <3> QED  BY <1>2, <1>6, <2>1, <3>1, <3>3 DEF Emptied
  <2>9. CASE SignalHandler
    <3>1. UNCHANGED pc /\ ~playback'
      BY <2>9 DEF SignalHandler
    <3>2. ~Ending'
      BY <3>1 DEF Ending
    <3> QED  BY <1>2, <1>6, <2>1, <3>1, <3>2 DEF Emptied
  <2> QED  BY <1>9, <2>2, <2>3, <2>4, <2>5, <2>6, <2>7, <2>8, <2>9 DEF Main
\* A step of the library goes on from the same place, and forgets no pipeline.
<1>10. ASSUME UNCHANGED appvars, Depth' = Depth,
              \A i \in 1 .. MaxSources : app'[i].pipeline \in {0, app[i].pipeline}
       PROVE  Emptied'
  <2>1. UNCHANGED pc /\ Ending' = Ending /\ (AllZero => AllZero')
    BY <1>10 DEF appvars, Ending, AllZero
  <2> QED  BY <1>2, <1>10, <2>1 DEF Emptied
<1>11. CASE UNCHANGED vars
  BY <1>2, <1>6, <1>11 DEF vars, libvars, appvars, Emptied, Ending, Depth
<1>12. ASSUME NEW i \in Sources, Proceeds(i), UNCHANGED appvars
       PROVE  Owned' /\ Emptied'
  <2>1. /\ Depth > 0 /\ Top.src \in Sources /\ NextSource /\ i \in 1 .. MaxSources
        /\ \A j \in 1 .. MaxSources : j # i => app'[j] = app[j]
    BY <1>12, Typed DEF Proceeds
  <2>2. Depth' = Depth
    BY <2>1, GoesOn
  <2>3. app'[i].pipeline = 0
    BY <1>12 DEF Proceeds
  <2>4. Emptied'
    BY <1>10, <1>12, <2>1, <2>2, <2>3
  <2>5. \/ app[i].pipeline = 0 /\ UNCHANGED st
        \/ app[i].pipeline # 0 /\ \E end \in {"cut", "gone"} : st' = [st EXCEPT ![<<i, app[i].pipeline>>] = end]
    BY <1>12 DEF Proceeds
  <2>6. ASSUME NEW p \in Pipelines, st'[p] \in Alive
        PROVE  app'[p[1]].pipeline = p[2]
    <3>1. st[p] \in Alive /\ p # <<i, app[i].pipeline>>
      <4>1. CASE app[i].pipeline = 0 /\ UNCHANGED st
        BY <1>4, <2>6, <4>1
      <4>2. CASE app[i].pipeline # 0 /\ \E end \in {"cut", "gone"} : st' = [st EXCEPT ![<<i, app[i].pipeline>>] = end]
        <5>1. st \in [Pipelines -> Alive \cup {"none", "gone", "cut"}]
          BY DEF TypeOK, LibTypeOK
        <5> QED  BY <2>6, <4>2, <5>1 DEF Alive
      <4> QED  BY <2>5, <4>1, <4>2
    <3>2. app[p[1]].pipeline = p[2]
      BY <1>2, <3>1 DEF Owned
    <3>3. p[1] # i
      BY <3>1, <3>2 DEF Pipelines
    <3> QED  BY <1>4, <2>1, <3>2, <3>3
  <2> QED  BY <2>4, <2>6 DEF Owned
<1>13. ASSUME NEW i \in Sources, SendEos(i), UNCHANGED appvars
       PROVE  Owned' /\ Emptied'
  <2>1. UNCHANGED st /\ Depth' = Depth /\ \A j \in 1 .. MaxSources : app'[j].pipeline = app[j].pipeline
    BY <1>13, SendsEos
  <2>2. Owned'
    BY <1>2, <1>4, <2>1 DEF Owned
  <2> QED  BY <1>10, <1>13, <2>1, <2>2
\* A pipeline that ends, or is sought back to its start, was there before.
<1>14. ASSUME NEW p \in Pipelines, Ends(p) \/ BusSeek(p), UNCHANGED appvars
       PROVE  Owned' /\ Emptied'
  <2>1. UNCHANGED <<app, stack>>
    BY <1>14 DEF Ends, BusSeek
  <2>2. Emptied'
    BY <1>10, <1>14, <2>1 DEF Depth
  <2>3. \/ UNCHANGED st
        \/ \E q \in Pipelines : \E w \in Alive : st[q] \in Alive /\ st' = [st EXCEPT ![q] = w]
    BY <1>14 DEF Ends, BusSeek, Alive
  <2>4. st \in [Pipelines -> Alive \cup {"none", "gone", "cut"}]
    BY DEF TypeOK, LibTypeOK
  <2>5. \A q \in Pipelines : st'[q] \in Alive => st[q] \in Alive
    BY <2>3, <2>4
  <2> QED  BY <1>2, <2>1, <2>2, <2>5 DEF Owned
<1>15. ASSUME NEW p \in Pipelines, Reports(p), UNCHANGED appvars
       PROVE  Owned' /\ Emptied'
  <2>1. /\ \A j \in 1 .. MaxSources : app'[j].pipeline = app[j].pipeline
        /\ p[1] \in 1 .. MaxSources /\ QuitWait(p[1]) /\ UNCHANGED st
    BY <1>15 DEF Reports, Pipelines
  <2>2. Depth' = Depth
    BY <2>1, QuitsWait DEF Depth
  <2>3. Owned'
    BY <1>2, <1>4, <2>1 DEF Owned
  <2> QED  BY <1>10, <1>15, <2>1, <2>2, <2>3
<1> QED  BY <1>7, <1>8, <1>9, <1>11, <1>12, <1>13, <1>14, <1>15, Steps

-----------------------------------------------------------------------------
(* A recording plays until its EOS or its error has come.                   *)

\* If no source has a pipeline, or all have seen their EOS, nothing plays.
LEMMA Quiet ==
  ASSUME TypeOK, HandleInv, Told, Recording, AllZero \/ AllEos
  PROVE  Silent
<1>1. \A p \in Pipelines : p[1] \in 1 .. MaxSources /\ p[2] \in Nat /\ p[2] # 0
  BY VgstAssumption DEF Pipelines
<1>2. ASSUME NEW p \in Pipelines, app[p[1]].pipeline = p[2]
      PROVE  app[p[1]].eos
  <2>1. AllEos /\ ~(p[1] > cfg.n)
    BY <1>1, <1>2 DEF AllZero, HandleInv
  <2>2. cfg.n \in Nat /\ MaxSources \in Nat
    BY Typed
  <2>3. p[1] \in Sources
    BY <1>1, <2>1, <2>2 DEF Sources
  <2> QED  BY <2>1, <2>3 DEF AllEos
<1>3. bus \subseteq Pipelines
  BY DEF TypeOK, LibTypeOK
<1>4. ASSUME NEW p \in bus
      PROVE  FALSE
  BY <1>2, <1>3, <1>4 DEF Told
<1>5. \A p \in Pipelines : st[p] # "playing"
  BY <1>2 DEF Recording
<1> QED  BY <1>4, <1>5 DEF Silent

LEMMA RecordStart ==
  ASSUME TypeOK, StackInv, PhaseInv, HandleInv, LoopInv, Silent, Parted, Configure \/ Start,
         cfg.sink = "record", TypeOK'
  PROVE  Told' /\ Recording' /\ Parted' /\ (pc' = "run" => Silent')
<1>1. \A p \in Pipelines : p[1] \in 1 .. MaxSources /\ p[2] \in 1 .. MaxRuns
  BY DEF Pipelines
<1>2. Depth = 0 /\ UNCHANGED stack
  BY Idle, Rounds DEF Configure, Start, Goto
<1>3. Depth' = 0 /\ Freed' = Freed /\ Freed # 0
  BY <1>2, Bounded DEF Depth, Freed
<1>4. CASE Configure
  <2>1. Silent'
    BY <1>4 DEF Silent, Configure, InitStructParams, ConfigFails
  <2>2. Told' /\ Recording'
    BY <2>1 DEF Told, Recording, Silent
  <2>3. Parted'
    <3>1. CASE InitStructParams
      <4>1. \A i \in 1 .. MaxSources : app'[i].pipeline = 0
        BY <3>1 DEF InitStructParams, Zero
      <4> QED  BY <4>1 DEF Parted
    <3>2. CASE ~InitStructParams
      BY <1>3, <1>4, <3>2 DEF Configure, ConfigFails, Parted
    <3> QED  BY <3>1, <3>2
  <2> QED  BY <2>1, <2>2, <2>3
<1>5. ASSUME pc = "create", NEW k \in Sources, Create(k)
      PROVE  Silent' /\ Parted'
  <2>1. UNCHANGED bus /\ \A p \in Pipelines : st'[p] # "playing"
    BY <1>5 DEF Create, Silent
  <2>2. \A i \in 1 .. MaxSources : app[i].loop = 0
    BY <1>5 DEF HandleInv, Zero
  <2>3. \A i \in 1 .. MaxSources : app'[i].loop = 0
    BY <1>5, <2>2, Rounds
  <2> QED  BY <1>3, <2>1, <2>3 DEF Silent, Parted
<1>6. CASE Start /\ pc = "create"
  <2>1. \E k \in Sources : Create(k)
    BY <1>6, Typed DEF Start, Goto, CreatePipeline, CreateFails, Sources
  <2>2. Silent' /\ Parted'
    BY <1>5, <1>6, <2>1
  <2> QED  BY <2>2 DEF Told, Recording, Silent
<1>7. CASE Start /\ pc = "run"
  <2>1. \A i \in Sources : app[i].pipeline = gen /\ ~app[i].eos /\ ~app[i].err
    BY <1>7 DEF HandleInv, Zero
  <2>2. UNCHANGED <<app, gen>> /\ pc' # "run" /\ (RunPipeline \/ RunFails)
    BY <1>7 DEF Start, Goto, RunPipeline, RunFails
  <2>3. Parted'
    BY <1>3, <2>2 DEF Parted
  <2>4. CASE RunPipeline
    <3>1. UNCHANGED bus /\ \A p \in Pipelines : st'[p] = "playing" => p[1] \in Sources /\ p[2] = gen
      BY <2>4 DEF RunPipeline, Silent
    <3>2. Told'
      BY <3>1 DEF Told, Silent
    <3>3. Recording'
      BY <1>3, <2>1, <2>2, <3>1 DEF Recording
    <3> QED  BY <2>2, <2>3, <3>2, <3>3
  <2>5. CASE RunFails
    <3>1. PICK k \in Sources :
            /\ st' = [q \in Pipelines |-> IF q[2] = gen /\ q[1] < k THEN "playing"
                                          ELSE IF q = <<k, gen>> THEN "failed" ELSE st[q]]
            /\ bus' \in {bus, bus \cup {<<k, gen>>}}
      BY <2>5 DEF RunFails
    <3>2. \A i \in 1 .. MaxSources : i < k => i \in Sources
      BY Typed DEF Sources
    <3>3. \A p \in Pipelines : st'[p] = "playing" => p[1] \in Sources /\ p[2] = gen
      BY <1>1, <3>1, <3>2 DEF Silent
    <3>4. \A p \in bus' : p = <<k, gen>>
      BY <3>1 DEF Silent
    <3>5. bus' # {} => <<k, gen>> \in Pipelines /\ st'[<<k, gen>>] = "failed"
      <4>1. bus' \subseteq Pipelines
        BY DEF TypeOK, LibTypeOK, Pipelines
      <4>2. bus' # {} => <<k, gen>> \in Pipelines
        BY <3>4, <4>1
      <4>3. ~(k < k)
        BY DEF Sources
      <4> QED  BY <3>1, <4>2, <4>3
    <3>6. Told'
      <4>1. ASSUME NEW p \in bus'
            PROVE  /\ p[2] = gen /\ app[p[1]].pipeline = gen /\ st'[p] \in {"eos", "failed"}
                   /\ ~app[p[1]].eos /\ ~app[p[1]].err
        <5>1. p = <<k, gen>> /\ p[1] = k /\ p[2] = gen
          BY <3>4, <4>1
        <5> QED  BY <2>1, <3>5, <4>1, <5>1
      <4> QED  BY <2>2, <4>1 DEF Told
    <3>7. Recording'
      BY <1>3, <2>1, <2>2, <3>3 DEF Recording
    <3> QED  BY <2>2, <2>3, <3>6, <3>7
  <2> QED  BY <2>2, <2>4, <2>5
<1> QED  BY <1>4, <1>6, <1>7 DEF Start, Goto

LEMMA RecordStep ==
  ASSUME TypeOK, StackInv, PhaseInv, HandleInv, LoopInv, PassedInv, RecordInv, [Next]_vars,
         TypeOK', StackInv', PhaseInv', HandleInv', LoopInv'
  PROVE  RecordInv'
<1> DEFINE Starting == pc \in {"config", "create", "run"}
<1> SUFFICES ASSUME "null" \notin faults', cfg.sink = "record"
             PROVE  Told' /\ Recording' /\ Parted' /\ (Starting' \/ Ending' => Silent')
  BY Steady DEF RecordInv, Null
<1>1. "null" \notin faults /\ UNCHANGED cfg /\ Freed' = Freed
  BY Grows, Steady DEF Freed
<1>2. Told /\ Recording /\ Parted /\ (Starting \/ Ending => Silent)
  BY <1>1 DEF RecordInv, Null
<1>3. Depth \in Nat /\ Depth < Freed /\ Freed # 0
  BY Typed, Bounded
<1>4. \A p \in Pipelines : p[1] \in 1 .. MaxSources /\ p[2] \in 1 .. MaxRuns
  BY DEF Pipelines
<1>5. bus \subseteq Pipelines /\ st \in [Pipelines -> Alive \cup {"none", "gone", "cut"}]
  BY DEF TypeOK, LibTypeOK
<1>6. Ending' => pc' = "loop"
  BY DEF Ending, PhaseInv
<1>7. CASE Configure \/ Start
  <2>1. Starting /\ pc' \in {"create", "cleanup", "run", "arm", "quit"} /\ (pc' = "create" => Configure)
    BY <1>7 DEF Configure, Start, Goto
  <2>2. Told' /\ Recording' /\ Parted' /\ (pc' = "run" => Silent')
    BY <1>2, <1>7, <2>1, RecordStart
  <2>3. Configure => Silent'
    BY <1>2, <2>1 DEF Silent, Configure, InitStructParams, ConfigFails
  <2> QED  BY <1>6, <2>1, <2>2, <2>3
\* A step that changes nothing of the pipelines, nor their sources.
<1>8. ASSUME UNCHANGED <<app, st, bus, gen>>,
             \A d \in 1 .. Depth' : stack'[d].wait = "quit" => d \in 1 .. Depth /\ stack'[d] = stack[d]
      PROVE  Told' /\ Recording' /\ Parted' /\ (Silent => Silent')
  BY <1>1, <1>2, <1>8 DEF Told, Recording, Parted, Silent
<1>9. CASE Main
  <2>1. UNCHANGED <<st, app, bus, gen>>
    BY <1>9 DEF Main, ArmLoopCb, NewMainLoop, RunMainLoop, MainLoopReturns, Quit, QuitReturns, Cleanup,
              LoopCbReturns, CloseLoop, TimeCb, Inspect, GetPosition, LoopCb, SignalHandler, StopPipeline,
              StopReturns, libvars
  <2>2. Told' /\ Recording' /\ Parted' /\ (Silent => Silent')
    <3>1. CASE Quit \/ LoopCb
      <4>1. PICK who \in {"main", "loop_cb"} : StopPipeline(who)
        BY <3>1 DEF Quit, LoopCb
      <4>2. /\ Depth' = Depth + 1 /\ \A d \in 1 .. Depth : stack'[d] = stack[d]
            /\ stack'[Depth + 1].wait = "no"
        BY <4>1, Enters
      <4>3. \A d \in 1 .. Depth' : d \in 1 .. Depth \/ d = Depth + 1
        BY <1>3, <4>2
      <4> QED  BY <1>8, <2>1, <4>2, <4>3
    <3>2. CASE QuitReturns \/ LoopCbReturns
      <4>1. Depth > 0 /\ stack' = SubSeq(stack, 1, Depth - 1)
        BY <3>2 DEF QuitReturns, LoopCbReturns, StopReturns, Stopped
      <4>2. Depth' = Depth - 1 /\ \A d \in 1 .. Depth - 1 : stack'[d] = stack[d]
        BY <4>1, Leaves
      <4>3. \A d \in 1 .. Depth' : d \in 1 .. Depth /\ stack'[d] = stack[d]
        BY <1>3, <4>1, <4>2
      <4> QED  BY <1>8, <2>1, <4>3
    <3>3. CASE ~(Quit \/ LoopCb \/ QuitReturns \/ LoopCbReturns)
      <4>1. UNCHANGED stack
        BY <1>9, <3>3 DEF Main, ArmLoopCb, NewMainLoop, RunMainLoop, MainLoopReturns, Cleanup,
                          CloseLoop, TimeCb, Inspect, GetPosition, SignalHandler, libvars
      <4> QED  BY <1>8, <2>1, <4>1 DEF Depth
    <3> QED  BY <3>1, <3>2, <3>3
  <2>3. Starting' \/ Ending' => Silent
    <3>1. CASE LoopCbReturns
      <4>1. AllZero
        BY <1>1, <3>1, StoppedAll DEF LoopCbReturns, Null
      <4> QED  BY <1>2, <4>1, Quiet
    <3>2. CASE TimeCb
      <4>1. AllEos \/ UNCHANGED <<pc, playback, loop, closing>>
        BY <3>2 DEF TimeCb
      <4>2. AllEos => Silent
        BY <1>2, Quiet
      <4> QED  BY <1>2, <4>1, <4>2 DEF Ending
    <3>3. CASE MainLoopReturns
      <4>1. loop = "quit" /\ ((pc' = "config" /\ playback) \/ pc' = "quit")
        BY <3>3 DEF MainLoopReturns, Goto
      <4> QED  BY <1>2, <1>6, <4>1 DEF Ending
    <3>4. CASE CloseLoop
      <4>1. UNCHANGED <<pc, playback>> /\ closing
        BY <3>4 DEF CloseLoop
      <4> QED  BY <1>2, <4>1 DEF Ending
    <3>5. CASE LoopCb
      BY <1>2, <3>5 DEF LoopCb, Ending
    <3>6. CASE SignalHandler
      BY <1>2, <3>6 DEF SignalHandler, Ending
    <3>7. CASE RunMainLoop
      <4>1. pc = "enter" /\ pc' = "loop" /\ UNCHANGED closing /\ loop' = "running"
        BY <3>7 DEF RunMainLoop, Goto
      <4> QED  BY <4>1 DEF PhaseInv, Ending
    <3>8. CASE ArmLoopCb \/ NewMainLoop \/ Quit \/ QuitReturns \/ Cleanup
      BY <1>6, <3>8 DEF ArmLoopCb, NewMainLoop, Quit, QuitReturns, Cleanup, Goto
    <3> QED  BY <1>9, <3>1, <3>2, <3>3, <3>4, <3>5, <3>6, <3>7, <3>8 DEF Main
  <2> QED  BY <2>2, <2>3
\* What the library does leaves main where it is.
<1>10. ASSUME UNCHANGED appvars
       PROVE  Starting' = Starting /\ Ending' = Ending
  BY <1>10 DEF appvars, Ending
<1>11. CASE UNCHANGED vars
  <2>1. UNCHANGED appvars /\ UNCHANGED <<app, st, bus, gen, stack>>
    BY <1>11 DEF vars, libvars
  <2> QED  BY <1>2, <1>8, <1>10, <2>1 DEF Depth
<1>12. ASSUME NEW i \in Sources, Proceeds(i), UNCHANGED appvars
       PROVE  Told' /\ Recording' /\ Parted' /\ (Starting' \/ Ending' => Silent')
  <2>1. /\ Depth > 0 /\ Top.src \in Sources /\ NextSource /\ i \in 1 .. MaxSources /\ UNCHANGED gen
        /\ \A j \in 1 .. MaxSources : /\ j # i => app'[j] = app[j]
                                      /\ app'[j].eos = app[j].eos /\ app'[j].err = app[j].err
    BY <1>12, Typed DEF Proceeds
  <2>2. Depth' = Depth /\ stack'[Depth].wait = "no" /\ \A d \in 1 .. Depth : d # Depth => stack'[d] = stack[d]
    BY <2>1, GoesOn
  <2>3. app'[i].pipeline = 0
    BY <1>12 DEF Proceeds
  <2>4. Parted'
    BY <1>1, <1>2, <2>1, <2>3 DEF Parted
  <2>5. \/ app[i].pipeline = 0 /\ UNCHANGED <<st, bus>>
        \/ /\ app[i].pipeline # 0 /\ bus' = bus \ {<<i, app[i].pipeline>>}
           /\ \E end \in {"cut", "gone"} : st' = [st EXCEPT ![<<i, app[i].pipeline>>] = end]
    BY <1>12 DEF Proceeds
  <2>6. /\ bus' \subseteq bus /\ (<<i, app[i].pipeline>> \notin bus' \/ app[i].pipeline = 0)
        /\ \A p \in Pipelines :
             /\ st'[p] = st[p] \/ (p = <<i, app[i].pipeline>> /\ app[i].pipeline # 0)
             /\ st'[p] = "playing" => st[p] = "playing" /\ (p # <<i, app[i].pipeline>> \/ app[i].pipeline = 0)
    <3>1. CASE app[i].pipeline = 0 /\ UNCHANGED <<st, bus>>
      BY <3>1
    <3>2. CASE /\ app[i].pipeline # 0 /\ bus' = bus \ {<<i, app[i].pipeline>>}
               /\ \E end \in {"cut", "gone"} : st' = [st EXCEPT ![<<i, app[i].pipeline>>] = end]
      BY <1>5, <3>2
    <3> QED  BY <2>5, <3>1, <3>2
  <2>7. ASSUME NEW p \in Pipelines, p[1] = i, app[i].pipeline = p[2]
        PROVE  p = <<i, app[i].pipeline>> /\ app[i].pipeline # 0
    BY <1>4, <2>7 DEF Pipelines
  <2>8. Told'
    <3>1. ASSUME NEW p \in bus'
          PROVE  /\ p[2] = gen /\ app'[p[1]].pipeline = gen /\ st'[p] \in {"eos", "failed"}
                 /\ ~app'[p[1]].eos /\ ~app'[p[1]].err
      <4>1. p \in bus /\ p \in Pipelines /\ p[1] \in 1 .. MaxSources
        BY <1>4, <1>5, <2>5, <3>1
      <4>2. /\ p[2] = gen /\ app[p[1]].pipeline = gen /\ st[p] \in {"eos", "failed"}
            /\ ~app[p[1]].eos /\ ~app[p[1]].err
        BY <1>2, <4>1 DEF Told
      <4>3. p[1] # i
        BY <2>6, <2>7, <3>1, <4>1, <4>2
      <4>4. st'[p] = st[p]
        BY <2>6, <4>1, <4>3
      <4> QED  BY <2>1, <4>1, <4>2, <4>3, <4>4
    <3> QED  BY <2>1, <3>1 DEF Told
  <2>9. Recording'
    <3>1. ASSUME NEW p \in Pipelines, st'[p] = "playing"
          PROVE  /\ app'[p[1]].pipeline = p[2] /\ ~app'[p[1]].eos /\ ~app'[p[1]].err
                 /\ \A d \in 1 .. Depth' : stack'[d].wait = "quit" => stack'[d].src # p[1]
      <4>1. /\ st[p] = "playing" /\ app[p[1]].pipeline = p[2] /\ ~app[p[1]].eos /\ ~app[p[1]].err
            /\ \A d \in 1 .. Depth : stack[d].wait = "quit" => stack[d].src # p[1]
        BY <1>2, <2>6, <3>1 DEF Recording
      <4>2. p[1] # i
        BY <2>6, <2>7, <3>1, <4>1
      <4> QED  BY <1>4, <2>1, <2>2, <4>1, <4>2
    <3> QED  BY <3>1 DEF Recording
  <2>10. Silent => Silent'
    BY <1>5, <2>5, <2>6 DEF Silent
  <2> QED  BY <1>2, <1>10, <1>12, <2>4, <2>8, <2>9, <2>10
<1>13. ASSUME NEW i \in Sources, SendEos(i), UNCHANGED appvars
       PROVE  Told' /\ Recording' /\ Parted' /\ (Starting' \/ Ending' => Silent')
  <2>1. /\ \A j \in 1 .. MaxSources :
              /\ app'[j].pipeline = app[j].pipeline /\ app'[j].eos = app[j].eos /\ app'[j].err = app[j].err
              /\ app'[j].loop = IF j = i THEN Depth ELSE app[j].loop
        /\ Depth' = Depth /\ stack'[Depth].wait = "open"
        /\ \A d \in 1 .. Depth : d # Depth => stack'[d] = stack[d]
        /\ UNCHANGED <<gen, st, bus>>
    BY <1>13, SendsEos
  <2>2. Told'
    BY <1>2, <1>4, <1>5, <2>1 DEF Told
  <2>3. Recording'
    BY <1>2, <1>4, <2>1 DEF Recording
  <2>4. Parted'
    BY <1>1, <1>2, <1>3, <2>1 DEF Parted
  <2>5. Silent => Silent'
    BY <2>1 DEF Silent
  <2> QED  BY <1>2, <1>10, <1>13, <2>2, <2>3, <2>4, <2>5
<1>14. ASSUME NEW p \in Pipelines, Ends(p), UNCHANGED appvars
       PROVE  Told' /\ Recording' /\ Parted' /\ (Starting' \/ Ending' => Silent')
  <2>1. st[p] = "playing" /\ bus' = bus \cup {p} /\ UNCHANGED <<gen, app, stack>>
    BY <1>14 DEF Ends
  <2>2. PICK w \in {"eos", "failed"} : st' = [st EXCEPT ![p] = w]
    BY <1>14 DEF Ends
  <2>3. \A q \in Pipelines : st'[q] = IF q = p THEN w ELSE st[q]
    BY <1>5, <2>2
  <2>4. app[p[1]].pipeline = p[2] /\ ~app[p[1]].eos /\ ~app[p[1]].err /\ p[2] = gen
    <3>1. app[p[1]].pipeline = p[2] /\ ~app[p[1]].eos /\ ~app[p[1]].err
      BY <1>2, <2>1 DEF Recording
    <3>2. app[p[1]].pipeline \in {0, gen} /\ p[2] # 0
      BY <1>4 DEF HandleInv
    <3> QED  BY <3>1, <3>2
  <2>5. Told'
    BY <1>2, <1>5, <2>1, <2>3, <2>4 DEF Told
  <2>6. Recording'
    BY <1>2, <2>1, <2>3 DEF Recording, Depth
  <2>7. Parted' /\ ~Silent
    BY <1>1, <1>2, <2>1 DEF Parted, Silent
  <2> QED  BY <1>2, <1>10, <1>14, <2>5, <2>6, <2>7
<1>15. ASSUME NEW p \in Pipelines, BusSeek(p)
       PROVE  FALSE
  <2>1. cfg.src = "file" /\ p \in bus
    BY <1>15 DEF BusSeek, Rewinds
  <2>2. p[2] = gen
    BY <1>2, <2>1 DEF Told
  <2>3. gen > 0
    BY <1>4, <2>2
  <2> QED  BY <2>1, <2>3 DEF PhaseInv, Accepts
<1>16. ASSUME NEW p \in Pipelines, Reports(p), UNCHANGED appvars
       PROVE  Told' /\ Recording' /\ Parted' /\ (Starting' \/ Ending' => Silent')
  <2>1. /\ p \in bus /\ st[p] \in {"eos", "failed"} /\ bus' = bus \ {p} /\ UNCHANGED <<gen, st>>
        /\ \A j \in 1 .. MaxSources : /\ j # p[1] => app'[j] = app[j]
                                      /\ app'[j].pipeline = app[j].pipeline /\ app'[j].loop = app[j].loop
        /\ p[1] \in 1 .. MaxSources /\ QuitWait(p[1])
    BY <1>4, <1>16 DEF Reports
  <2>2. p[2] = gen /\ app[p[1]].pipeline = gen
    BY <1>2, <2>1 DEF Told
  <2>3. \A q \in Pipelines : q[1] = p[1] /\ q[2] = p[2] => q = p
    BY DEF Pipelines
  <2>4. Told'
    <3>1. ASSUME NEW q \in bus'
          PROVE  /\ q[2] = gen /\ app'[q[1]].pipeline = gen /\ st'[q] \in {"eos", "failed"}
                 /\ ~app'[q[1]].eos /\ ~app'[q[1]].err
      <4>1. q \in bus /\ q \in Pipelines /\ q # p /\ q[1] \in 1 .. MaxSources
        BY <1>4, <1>5, <2>1, <3>1
      <4>2. /\ q[2] = gen /\ app[q[1]].pipeline = gen /\ st[q] \in {"eos", "failed"}
            /\ ~app[q[1]].eos /\ ~app[q[1]].err
        BY <1>2, <4>1 DEF Told
      <4>3. q[1] # p[1]
        BY <2>2, <2>3, <4>1, <4>2
      <4> QED  BY <2>1, <4>1, <4>2, <4>3
    <3> QED  BY <2>1, <3>1 DEF Told
  <2>5. ASSUME NEW q \in Pipelines, st[q] = "playing"
        PROVE  /\ q[1] # p[1] /\ app'[q[1]].pipeline = q[2] /\ ~app'[q[1]].eos /\ ~app'[q[1]].err
               /\ \A d \in 1 .. Depth : stack[d].wait = "quit" => stack[d].src # q[1]
    <3>1. /\ app[q[1]].pipeline = q[2] /\ ~app[q[1]].eos /\ ~app[q[1]].err
          /\ \A d \in 1 .. Depth : stack[d].wait = "quit" => stack[d].src # q[1]
      BY <1>2, <2>5 DEF Recording
    <3>2. q[1] # p[1]
      <4>1. q # p
        BY <2>1, <2>5
      <4> QED  BY <2>2, <2>3, <3>1, <4>1
    <3> QED  BY <1>4, <2>1, <3>1, <3>2
  <2>6. ASSUME NEW q \in Pipelines, st[q] = "playing"
        PROVE  \A d \in 1 .. Depth' : stack'[d].wait = "quit" => stack'[d].src # q[1]
    <3>1. CASE UNCHANGED stack
      BY <2>5, <2>6, <3>1 DEF Depth
    <3>2. CASE ~UNCHANGED stack
      <4>1. PICK k \in 1 .. Depth :
              /\ Depth' = Depth /\ stack'[k].src = p[1]
              /\ \A d \in 1 .. Depth : d # k => stack'[d] = stack[d]
        BY <2>1, <3>2, QuitsWait
      <4> QED  BY <2>5, <2>6, <4>1
    <3> QED  BY <3>1, <3>2
  <2>7. Recording'
    BY <2>1, <2>5, <2>6 DEF Recording
  <2>8. Parted' /\ ~Silent
    BY <1>1, <1>2, <2>1 DEF Parted, Silent
  <2> QED  BY <1>2, <1>10, <1>16, <2>4, <2>7, <2>8
<1> QED  BY <1>7, <1>9, <1>11, <1>12, <1>13, <1>14, <1>15, <1>16, Steps

-----------------------------------------------------------------------------
(* No recording is cut, and no loop is touched that has been freed.         *)

LEMMA CutStep ==
  ASSUME TypeOK, RecordInv, CutInv, [Next]_vars, StackInv
  PROVE  CutInv'
<1> SUFFICES ASSUME "null" \notin faults'
             PROVE  \A p \in Pipelines : st'[p] # "cut"
  BY DEF CutInv, Null
<1>1. ~Null /\ "null" \notin faults
  BY Grows DEF Null
<1>2. \A p \in Pipelines : st[p] # "cut"
  BY <1>1 DEF CutInv
<1>3. st \in [Pipelines -> Alive \cup {"none", "gone", "cut"}]
  BY DEF TypeOK, LibTypeOK
<1>4. CASE UNCHANGED st
  BY <1>2, <1>4
<1>5. CASE Configure \/ Main \/ UNCHANGED vars
  BY <1>4, <1>5 DEF Configure, InitStructParams, ConfigFails, vars, Main, ArmLoopCb, NewMainLoop, RunMainLoop,
       MainLoopReturns, Quit, QuitReturns, Cleanup, LoopCbReturns, CloseLoop, TimeCb, Inspect, GetPosition,
       LoopCb, SignalHandler, StopPipeline, StopReturns, libvars
<1>6. CASE Start
  <2>1. ASSUME NEW k \in Sources, Create(k)
        PROVE  \A p \in Pipelines : st'[p] # "cut"
    BY <1>2, <2>1 DEF Create
  <2>2. cfg.n \in Sources
    BY Typed DEF Sources
  <2>3. CASE CreatePipeline \/ CreateFails
    BY <2>1, <2>2, <2>3 DEF CreatePipeline, CreateFails
  <2>4. CASE RunPipeline \/ RunFails
    BY <1>2, <2>4 DEF RunPipeline, RunFails
  <2> QED  BY <1>6, <2>3, <2>4 DEF Start
<1>7. ASSUME NEW i \in Sources, Proceeds(i)
      PROVE  \A p \in Pipelines : st'[p] # "cut"
  <2> DEFINE q == <<i, app[i].pipeline>>
  <2>1. UNCHANGED st \/ \E end \in {"cut", "gone"} :
          /\ app[i].pipeline # 0 /\ st' = [st EXCEPT ![q] = end]
          /\ end = "cut" => /\ cfg.sink = "record" /\ st[q] = "playing"
                            /\ Top.wait = "quit" \/ app[i].eos \/ app[i].err
    BY <1>7 DEF Proceeds
  <2>2. CASE UNCHANGED st
    BY <1>4, <2>2
  <2>3. ASSUME NEW end \in {"cut", "gone"}, app[i].pipeline # 0, st' = [st EXCEPT ![q] = end],
               end = "cut" => /\ cfg.sink = "record" /\ st[q] = "playing"
                              /\ Top.wait = "quit" \/ app[i].eos \/ app[i].err
        PROVE  \A p \in Pipelines : st'[p] # "cut"
    <3>1. q \in Pipelines /\ q[1] = i
      BY <2>3, HandleNames, Typed
    <3>2. Depth \in 1 .. Depth /\ stack[Depth].src = i
      BY <1>7, Typed DEF Proceeds, Top
    <3>3. end = "gone"
      <4>1. ASSUME end = "cut"
            PROVE  FALSE
        <5>1. Recording
          BY <1>1, <2>3, <4>1 DEF RecordInv
        <5>2. ~app[i].eos /\ ~app[i].err /\ \A d \in 1 .. Depth : stack[d].wait = "quit" => stack[d].src # i
          BY <2>3, <3>1, <4>1, <5>1 DEF Recording
        <5> QED  BY <2>3, <3>2, <4>1, <5>2 DEF Top
      <4> QED  BY <2>3, <4>1
    <3> QED  BY <1>2, <1>3, <2>3, <3>3
  <2> QED  BY <2>1, <2>2, <2>3
<1>8. ASSUME NEW i \in Sources, SendEos(i)
      PROVE  \A p \in Pipelines : st'[p] # "cut"
  BY <1>4, <1>8 DEF SendEos
<1>9. ASSUME NEW p \in Pipelines, Ends(p) \/ BusSeek(p) \/ Reports(p)
      PROVE  \A q \in Pipelines : st'[q] # "cut"
  <2>1. UNCHANGED st \/ \E q \in Pipelines : \E w \in Alive : st' = [st EXCEPT ![q] = w]
    BY <1>9 DEF Ends, BusSeek, Reports, Alive
  <2> QED  BY <1>2, <1>3, <2>1 DEF Alive
<1> QED  BY <1>5, <1>6, <1>7, <1>8, <1>9, Steps

LEMMA StrayStep ==
  ASSUME TypeOK, StackInv, PhaseInv, LoopInv, RecordInv, StrayInv, [Next]_vars, PhaseInv'
  PROVE  StrayInv'
<1> SUFFICES ASSUME ~sig', faults' = {}
             PROVE  StrayInv'
  BY DEF StrayInv
<1>1. ~sig /\ faults = {} /\ ~Null
  BY Grows DEF Null
<1>2. /\ ~crashed
      /\ closing => loop = "running"
      /\ pc \in {"quit", "stopping"} => ~playback /\ ~timer
      /\ ~playback /\ (closing \/ loop = "quit") => ~timer
  BY <1>1 DEF StrayInv
<1>3. loop \in {"running", "quit"} <=> pc = "loop"
  BY DEF PhaseInv
<1>4. /\ closing' => pc' = "loop"
      /\ loop' \in {"running", "quit"} <=> pc' = "loop"
  BY DEF PhaseInv
<1>5. ASSUME UNCHANGED <<crashed, appvars>>
      PROVE  StrayInv'
  BY <1>2, <1>5 DEF StrayInv, appvars
<1>6. CASE Configure
  <2>1. UNCHANGED crashed /\ pc' \in {"create", "cleanup"}
    BY <1>6 DEF Configure, Goto, InitStructParams, ConfigFails
  <2> QED  BY <1>2, <1>4, <2>1 DEF StrayInv
<1>7. CASE Start
  <2>1. UNCHANGED crashed /\ pc' \in {"run", "arm", "quit"} /\ (pc' = "quit" => CreateFails \/ RunFails)
    BY <1>7 DEF Start, Goto, CreatePipeline, CreateFails, Create, RunPipeline, RunFails
  <2>2. ~CreateFails /\ ~RunFails
    BY DEF CreateFails, RunFails, Fault
  <2> QED  BY <1>2, <1>4, <2>1, <2>2 DEF StrayInv
<1>8. CASE ArmLoopCb \/ NewMainLoop \/ RunMainLoop \/ MainLoopReturns \/ Quit \/ QuitReturns \/ Cleanup
  <2>1. UNCHANGED <<crashed, closing, playback, timer>>
    BY <1>8 DEF ArmLoopCb, NewMainLoop, RunMainLoop, MainLoopReturns, Quit, QuitReturns, Cleanup, libvars,
                StopPipeline, StopReturns
  <2>2. CASE MainLoopReturns
    <3>1. loop = "quit" /\ ~closing /\ loop' = "freed" /\ (pc' = "quit" => ~playback) /\ pc' \in {"quit", "config"}
      BY <2>2 DEF MainLoopReturns, Goto
    <3> QED  BY <1>2, <2>1, <3>1 DEF StrayInv
  <2>3. CASE ArmLoopCb \/ NewMainLoop \/ RunMainLoop
    <3>1. pc \in {"arm", "new", "enter"} /\ pc' \in {"new", "enter", "loop"} /\ (pc' = "loop" => loop' = "running")
      BY <2>3 DEF ArmLoopCb, NewMainLoop, RunMainLoop, Goto
    <3>2. ~closing'
      BY <2>1, <3>1 DEF PhaseInv
    <3>3. loop' # "quit"
      BY <1>4, <3>1
    <3> QED  BY <1>2, <2>1, <3>1, <3>2, <3>3 DEF StrayInv
  <2>4. CASE Quit \/ QuitReturns \/ Cleanup
    <3>1. pc' # "loop" /\ (pc' \in {"quit", "stopping"} => pc \in {"quit", "stopping"})
      BY <2>4 DEF Quit, QuitReturns, Cleanup, Goto
    <3> QED  BY <1>2, <1>4, <2>1, <3>1 DEF StrayInv
  <2> QED  BY <1>8, <2>2, <2>3, <2>4
<1>9. CASE LoopCbReturns
  <2>1. UNCHANGED <<playback, pc, loop, timer>> /\ closing' = (playback /\ loop = "running") /\ Depth > 0
    BY <1>9 DEF LoopCbReturns, Stopped
  <2>2. ~crashed'
    <3>1. ASSUME playback, loop = "freed"
          PROVE  FALSE
      <4>1. pc \in {"loop", "stopping"}
        BY <2>1 DEF StackInv
      <4> QED  BY <1>2, <1>3, <3>1, <4>1
    <3> QED  BY <1>2, <1>9, <3>1 DEF LoopCbReturns
  <2> QED  BY <1>2, <2>1, <2>2 DEF StrayInv
<1>10. CASE CloseLoop
  <2>1. /\ closing /\ closing' = FALSE /\ loop' = "quit" /\ crashed' = (loop # "running")
        /\ UNCHANGED <<playback, pc, timer>>
    BY <1>10 DEF CloseLoop
  <2> QED  BY <1>2, <2>1 DEF StrayInv
<1>11. CASE TimeCb
  <2>1. UNCHANGED <<playback, pc, loop>> /\ timer /\ Dispatching
    BY <1>11 DEF TimeCb
  <2>2. CASE AllEos
    <3>1. timer' = FALSE /\ closing' = (loop = "running") /\ (loop # "freed" => UNCHANGED crashed)
      BY <1>11, <2>2 DEF TimeCb, Inspect
    <3>2. loop # "freed"
      <4>1. pc \in {"loop", "stopping"}
        BY <2>1, Typed DEF Dispatching, StackInv
      <4> QED  BY <1>2, <1>3, <2>1, <4>1
    <3> QED  BY <1>2, <2>1, <3>1, <3>2 DEF StrayInv
  <2>3. CASE ~AllEos
    BY <1>2, <1>11, <2>1, <2>3 DEF TimeCb, GetPosition, StrayInv
  <2> QED  BY <2>2, <2>3
<1>12. CASE LoopCb
  BY <1>2, <1>12 DEF LoopCb, StopPipeline, StrayInv
<1>13. CASE SignalHandler
  BY <1>13 DEF SignalHandler
<1>14. CASE UNCHANGED vars
  BY <1>5, <1>14 DEF vars, libvars
<1>15. ASSUME NEW i \in Sources, Proceeds(i) \/ SendEos(i), UNCHANGED appvars
       PROVE  StrayInv'
  BY <1>5, <1>15 DEF Proceeds, SendEos
<1>16. ASSUME NEW p \in Pipelines, Ends(p) \/ BusSeek(p), UNCHANGED appvars
       PROVE  StrayInv'
  BY <1>5, <1>16 DEF Ends, BusSeek
<1>17. ASSUME NEW p \in Pipelines, Reports(p), UNCHANGED appvars
       PROVE  StrayInv'
  <2>1. p \in bus /\ p[1] \in 1 .. MaxSources /\ p[2] # 0 /\ QuitWait(p[1])
    BY <1>17, VgstAssumption DEF Reports, Pipelines
  <2>2. app[p[1]].loop # Freed
    <3>1. CASE cfg.sink = "record"
      BY <1>1, <2>1, <3>1 DEF RecordInv, Told, Parted
    <3>2. CASE cfg.sink # "record"
      BY <2>1, <3>2, Bounded DEF LoopInv
    <3> QED  BY <3>1, <3>2
  <2>3. UNCHANGED crashed
    BY <2>1, <2>2 DEF QuitWait
  <2> QED  BY <1>5, <1>17, <2>3
<1> QED  BY <1>6, <1>7, <1>8, <1>9, <1>10, <1>11, <1>12, <1>13, <1>14, <1>15, <1>16, <1>17, Steps DEF Main

-----------------------------------------------------------------------------
(* The inductive invariant.                                                 *)

IInv ==
  /\ TypeOK /\ StackInv /\ PhaseInv /\ HandleInv /\ LoopInv /\ PassedInv /\ OwnerInv
  /\ RecordInv /\ CutInv /\ StrayInv

LEMMA InitIInv == Init => IInv
<1> SUFFICES ASSUME Init
             PROVE  IInv
  OBVIOUS
<1>1. /\ cfg \in Configs /\ gen = 0 /\ app = [i \in 1 .. MaxSources |-> Zero]
      /\ st = [p \in Pipelines |-> "none"] /\ bus = {} /\ asked = {} /\ stack = << >>
      /\ crashed = FALSE /\ faults = {} /\ playback = cfg.loop /\ pc = "config" /\ loop = "null"
      /\ closing = FALSE /\ timer = TRUE /\ pending = 0 /\ sig = FALSE /\ seen = {}
  BY DEF Init, LibInit
<1>2. Zero \in Playback /\ Zero.pipeline = 0 /\ Zero.loop = 0
  BY VgstAssumption DEF Zero, Playback, Freed
<1>3. stack \in Seq(Frame) /\ Depth = 0
  BY <1>1, EmptySeq DEF Depth
<1>4. \A i \in 1 .. MaxSources : app[i] = Zero
  BY <1>1
<1>5. cfg.loop \in BOOLEAN
  <2>1. cfg \in [n : 1 .. MaxSources, src : {"live", "file", "streaming"},
                 sink : {"display", "record"}, loop : BOOLEAN]
    BY <1>1, VgstAssumption
  <2> QED  BY <2>1
<1>6. TypeOK
  <2>1. LibTypeOK
    <3>1. app \in [1 .. MaxSources -> Playback] /\ gen \in 0 .. MaxRuns
      BY <1>1, <1>2, VgstAssumption
    <3>2. st \in [Pipelines -> Alive \cup {"none", "gone", "cut"}]
      BY <1>1
    <3>3. crashed \in BOOLEAN /\ bus \subseteq Pipelines /\ asked \subseteq Pipelines /\ faults \subseteq Faults
      BY <1>1
    <3> QED  BY <1>1, <1>3, <3>1, <3>2, <3>3 DEF LibTypeOK
  <2>2. pending \in 0 .. MaxRuns
    BY <1>1, VgstAssumption
  <2> QED  BY <1>1, <1>5, <2>1, <2>2 DEF TypeOK
<1>7. StackInv
  BY <1>1, <1>3 DEF StackInv
<1>8. PhaseInv /\ PassedInv /\ StrayInv
  BY <1>1, <1>3 DEF PhaseInv, PassedInv, StrayInv
<1>9. HandleInv /\ LoopInv
  BY <1>1, <1>2, <1>3, <1>4 DEF HandleInv, LoopInv
<1>10. OwnerInv
  BY <1>1, <1>2, <1>4 DEF OwnerInv, OneOwner, AllZero, Ending, Alive
<1>11. RecordInv /\ CutInv
  <2>1. Told /\ Recording /\ Silent /\ CutInv
    BY <1>1 DEF Told, Recording, Silent, CutInv
  <2>2. Parted
    BY <1>2, <1>4 DEF Parted
  <2> QED  BY <2>1, <2>2 DEF RecordInv
<1> QED  BY <1>6, <1>7, <1>8, <1>9, <1>10, <1>11 DEF IInv

LEMMA IInvStep == IInv /\ [Next]_vars => IInv'
<1> SUFFICES ASSUME IInv, [Next]_vars
             PROVE  IInv'
  OBVIOUS
<1> USE DEF IInv
<1>1. TypeOK' /\ PhaseInv' /\ StackInv' /\ HandleInv'
  BY TypeStep, PhaseStep, StackStep, HandleStep
<1>2. LoopInv'
  BY <1>1, LoopStep
<1>3. PassedInv' /\ OwnerInv'
  BY <1>1, PassedStep, OwnerStep
<1>4. RecordInv' /\ CutInv' /\ StrayInv'
  BY <1>1, <1>2, RecordStep, CutStep, StrayStep
<1> QED  BY <1>1, <1>2, <1>3, <1>4

\* The application's state at every step: types, where its loop and its stack of activations
\* stand, which handles, loops and messages there are (vcu_gst_app.c main, vgst_utils.c).
THEOREM Invariance == Spec => []IInv
<1>1. IInv /\ UNCHANGED vars => IInv'
  BY IInvStep
<1> QED  BY InitIInv, IInvStep, PTL DEF Spec

\* No pipeline is left when the process ends, and without a signal or a fault no callback
\* touches a main loop that has been freed (main and the callbacks of vcu_gst_app.c).
THEOREM NothingRemains == Spec => []Consistent
<1>1. IInv => Consistent
  <2> SUFFICES ASSUME IInv
               PROVE  Consistent
    OBVIOUS
  <2>1. NothingLeft
    <3>1. ASSUME pc = "ended", ~Excused
          PROVE  \A p \in Pipelines : st[p] \notin Alive
      <4>1. OneOwner /\ AllZero
        BY <3>1 DEF IInv, OwnerInv
      <4>2. Owned
        BY <3>1, <4>1 DEF OneOwner, Owned
      <4> QED  BY <4>1, <4>2, Nobody DEF IInv
    <3> QED  BY <3>1 DEF NothingLeft
  <2>2. NoStrayLoop
    BY DEF IInv, StrayInv, NoStrayLoop
  <2> QED  BY <2>1, <2>2 DEF IInv, Consistent
<1> QED  BY <1>1, Invariance, PTL

\* A pipeline that exists is the one its source still knows, so a new round never opens a
\* device that an older pipeline holds (init_struct_params, vgst_utils.c).
THEOREM PipelinesOwned == Spec => []OneOwner
<1>1. IInv => OneOwner
  BY DEF IInv, OwnerInv, OneOwner
<1> QED  BY <1>1, Invariance, PTL

\* However the callbacks are nested, a recording is taken down only behind its EOS, its error,
\* or a refusal of the EOS (stop_pipeline, vgst_utils.c).
THEOREM RecordingsClosed == Spec => []RecordsClosed
<1>1. IInv => RecordsClosed
  BY DEF IInv, CutInv, Null, RecordsClosed
<1> QED  BY <1>1, Invariance, PTL
===============================================================================
