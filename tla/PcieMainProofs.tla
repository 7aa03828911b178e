--------------------------- MODULE PcieMainProofs ---------------------------
(***************************************************************************)
(* The ends of a transcode session, for every value of the constants: how  *)
(* the options of the host program reach the encoder (PcieSession), and    *)
(* what the device application hands back (PcieSink).                      *)
(*                                                                         *)
(* The unlocked sharing of buf is safe because an EOS message exists only  *)
(* behind the last sample (EosLast): whoever dispatches it finds the       *)
(* streaming thread out of new_sample for good.                            *)
(*                                                                         *)
(* Nothing guards the registers of a session but the order of the writes:  *)
(* SessionInv says what they hold at each step of the host program.  That  *)
(* the fields arrive rests on the arithmetic of the second half: a number  *)
(* is the sum of its bits, and the fields of a register lie apart.         *)
(***************************************************************************)
EXTENDS PcieSink, PcieSession, SequenceTheorems, FiniteSetTheorems, WellFoundedInduction, TLAPS

-----------------------------------------------------------------------------
(* The output of the device application.                                    *)

\* An EOS on the bus means that the streaming thread has delivered its last sample.
EosLast == \A i \in DOMAIN bus : bus[i] = "eos" => spc \in {"eos", "stopped"}

\* The sample in hand, and where it goes.
SampleInv ==
  /\ spc \in {"write", "copy"} => size \in SampleSizes
  /\ spc = "write" => Len(buf) + size > WriteBufSize
  /\ spc = "copy" => Len(buf) + size <= WriteBufSize

\* How the main thread got where it is.
MainInv ==
  /\ mpc = "loop" => cause = "none"
  /\ mpc = "flush" => cause = "eos" /\ buf # << >>
  /\ cause = "eos" => spc \in {"eos", "stopped"}
  /\ cause = "eos" /\ mpc \in {"null", "done"} => buf = << >>
  /\ spc = "stopped" <=> mpc = "done"

IInv == TypeOK /\ OutputInOrder /\ EosLast /\ SampleInv /\ MainInv

-----------------------------------------------------------------------------
\* Consecutive runs of bytes join to one run.
LEMMA RunsJoin ==
  ASSUME NEW a \in Nat, NEW n \in Nat, NEW s \in Seq(Nat), NEW t \in Seq(Nat), NEW u \in Seq(Nat),
         Len(s) = a, Len(t) = n, Len(u) = a + n,
         \A i \in 1 .. a : s[i] = i,
         \A i \in 1 .. n : t[i] = a + i,
         \A i \in 1 .. a + n : u[i] = i
  PROVE  s \o t = u
<1>1. /\ s \o t \in Seq(Nat) /\ Len(s \o t) = Len(s) + Len(t)
      /\ \A i \in 1 .. Len(s) + Len(t) :
           (s \o t)[i] = IF i <= Len(s) THEN s[i] ELSE t[i - Len(s)]
  <2>1. s \in Seq(Nat) /\ t \in Seq(Nat)
    OBVIOUS
  <2> QED BY SMTT(40), <2>1, ConcatProperties
<1>2. ASSUME NEW i \in 1 .. Len(s \o t)
      PROVE  (s \o t)[i] = u[i]
  <2>1. i \in 1 .. a + n /\ (s \o t)[i] = IF i <= a THEN s[i] ELSE t[i - a]
    BY <1>1
  <2>2. CASE i <= a
    BY <2>1, <2>2
  <2>3. CASE ~(i <= a)
    <3>1. i - a \in 1 .. n
      BY <2>1, <2>3
    <3>2. t[i - a] = a + (i - a)
      BY <3>1
    <3> QED BY <2>1, <2>3, <3>2
  <2> QED BY <2>2, <2>3
<1>3. Len(s \o t) = Len(u)
  BY <1>1
<1> QED BY <1>1, <1>2, <1>3, SeqEqual

LEMMA BytesJoin ==
  ASSUME NEW a \in Nat, NEW n \in Nat
  PROVE  Bytes(0, a) \o Bytes(a, n) = Bytes(0, a + n)
<1>1. /\ Bytes(0, a) \in Seq(Nat) /\ Len(Bytes(0, a)) = a
      /\ Bytes(a, n) \in Seq(Nat) /\ Len(Bytes(a, n)) = n
      /\ Bytes(0, a + n) \in Seq(Nat) /\ Len(Bytes(0, a + n)) = a + n
  BY DEF Bytes
<1>2. /\ \A i \in 1 .. a : Bytes(0, a)[i] = i
      /\ \A i \in 1 .. n : Bytes(a, n)[i] = a + i
      /\ \A i \in 1 .. a + n : Bytes(0, a + n)[i] = i
  BY DEF Bytes
<1> QED BY <1>1, <1>2, RunsJoin

\* Appending is associative.
LEMMA JoinThree ==
  ASSUME NEW x \in Seq(Nat), NEW y \in Seq(Nat), NEW z \in Seq(Nat)
  PROVE  (x \o y) \o z = x \o (y \o z)
<1>1. /\ x \o y \in Seq(Nat) /\ Len(x \o y) = Len(x) + Len(y)
      /\ y \o z \in Seq(Nat) /\ Len(y \o z) = Len(y) + Len(z)
  OBVIOUS
<1>2. /\ (x \o y) \o z \in Seq(Nat) /\ x \o (y \o z) \in Seq(Nat)
      /\ Len((x \o y) \o z) = Len(x) + Len(y) + Len(z)
      /\ Len(x \o (y \o z)) = Len(x) + Len(y) + Len(z)
  BY <1>1
<1>3. ASSUME NEW i \in 1 .. Len((x \o y) \o z)
      PROVE  ((x \o y) \o z)[i] = (x \o (y \o z))[i]
  BY <1>1, <1>2
<1> QED BY <1>2, <1>3, SeqEqual

LEMMA InitIInv == Init => IInv
<1> SUFFICES ASSUME Init PROVE IInv
  OBVIOUS
<1>1. Bytes(0, 0) = << >>
  BY DEF Bytes
<1>2. << >> \o << >> = << >>
  BY ConcatEmptySeq, EmptySeq
<1>3. TypeOK
  <2>1. << >> \in Seq(Nat) /\ Len(<< >>) = 0 /\ << >> \in Seq({"error", "eos"})
    OBVIOUS
  <2>2. Len(buf) <= WriteBufSize
    BY <2>1, SinkAssumption DEF Init
  <2>3. failed \in BOOLEAN
    BY DEF Init
  <2> QED BY <2>1, <2>2, <2>3 DEF Init, TypeOK
<1>4. OutputInOrder
  BY <1>1, <1>2 DEF Init, OutputInOrder
<1> QED BY <1>3, <1>4 DEF Init, IInv, EosLast, SampleInv, MainInv

\* What PcieWrite does to the output, whoever calls it.
LEMMA WriteKeepsOrder ==
  ASSUME TypeOK, OutputInOrder, PcieWrite, pulled' = pulled
  PROVE  /\ buf' = << >> /\ outfile' \in Seq(Nat) /\ failed' \in BOOLEAN
         /\ OutputInOrder'
<1>1. CASE outfile' = outfile \o buf /\ UNCHANGED failed
  <2>1. outfile' \in Seq(Nat)
    BY <1>1 DEF TypeOK
  <2>2. outfile' \o buf' = outfile \o buf
    BY <1>1, <2>1, ConcatEmptySeq DEF PcieWrite
  <2> QED BY <1>1, <2>1, <2>2 DEF TypeOK, OutputInOrder, PcieWrite, Bytes
<1>2. CASE WriteFails /\ failed' = TRUE /\ UNCHANGED outfile
  BY <1>2 DEF TypeOK, OutputInOrder, PcieWrite
<1> QED BY <1>1, <1>2 DEF PcieWrite

LEMMA NextIInv == IInv /\ [Next]_vars => IInv'
<1> SUFFICES ASSUME IInv, [Next]_vars PROVE IInv'
  OBVIOUS
<1> USE SinkAssumption DEF IInv
<1>1. ASSUME NEW n \in SampleSizes, NewSample(n) PROVE IInv'
  <2>1. TypeOK' /\ OutputInOrder'
    BY <1>1 DEF NewSample, TypeOK, OutputInOrder, Bytes
  <2>2. EosLast' /\ SampleInv' /\ MainInv'
    BY <1>1 DEF NewSample, TypeOK, EosLast, SampleInv, MainInv
  <2> QED BY <2>1, <2>2
<1>2. CASE WriteFull
  <2>1. buf' = << >> /\ outfile' \in Seq(Nat) /\ failed' \in BOOLEAN /\ OutputInOrder'
    BY <1>2, WriteKeepsOrder DEF WriteFull
  <2>2. TypeOK'
    BY <1>2, <2>1 DEF WriteFull, TypeOK
  <2>3. EosLast' /\ SampleInv' /\ MainInv'
    BY <1>2, <2>1 DEF WriteFull, TypeOK, EosLast, SampleInv, MainInv
  <2> QED BY <2>1, <2>2, <2>3
<1>3. CASE CopySample
  <2>0. /\ size \in SampleSizes /\ Len(buf) + size <= WriteBufSize
        /\ buf \in Seq(Nat) /\ outfile \in Seq(Nat) /\ pulled \in Nat
    BY <1>3 DEF CopySample, SampleInv, TypeOK
  <2>1. size \in Nat /\ size \in SampleSizes /\ Len(buf) + size <= WriteBufSize
    BY <2>0
  <2>2. Bytes(pulled, size) \in Seq(Nat) /\ Len(Bytes(pulled, size)) = size
    BY <2>0, <2>1 DEF Bytes
  <2>3. buf' \in Seq(Nat) /\ Len(buf') = Len(buf) + size
    <3>1. buf' = buf \o Bytes(pulled, size)
      BY <1>3 DEF CopySample
    <3> QED BY <2>0, <2>2, <3>1, ConcatProperties
  <2>4. TypeOK'
    BY <1>3, <2>1, <2>3 DEF CopySample, TypeOK
  <2>5. outfile' \o buf' = (outfile \o buf) \o Bytes(pulled, size)
    <3>1. (outfile \o buf) \o Bytes(pulled, size) = outfile \o (buf \o Bytes(pulled, size))
      BY <2>0, <2>2, JoinThree
    <3> QED BY <1>3, <3>1 DEF CopySample
  <2>6. OutputInOrder'
    <3> SUFFICES ASSUME ~failed' PROVE outfile' \o buf' = Bytes(0, pulled')
      BY DEF OutputInOrder, Bytes
    <3>1. outfile \o buf = Bytes(0, pulled)
      BY <1>3 DEF CopySample, OutputInOrder
    <3> QED BY <1>3, <2>1, <2>5, <3>1, BytesJoin DEF CopySample, TypeOK
  <2>7. EosLast' /\ SampleInv' /\ MainInv'
    BY <1>3 DEF CopySample, TypeOK, EosLast, SampleInv, MainInv
  <2> QED BY <2>4, <2>6, <2>7
<1>4. CASE EndOfStream
  <2>1. TypeOK' /\ OutputInOrder'
    BY <1>4 DEF EndOfStream, TypeOK, OutputInOrder, Bytes
  <2>2. EosLast' /\ SampleInv' /\ MainInv'
    BY <1>4 DEF EndOfStream, TypeOK, EosLast, SampleInv, MainInv
  <2> QED BY <2>1, <2>2
<1>5. CASE PullNothing
  <2>1. TypeOK' /\ OutputInOrder'
    BY <1>5 DEF PullNothing, TypeOK, OutputInOrder, Bytes
  <2>2. EosLast' /\ SampleInv' /\ MainInv'
    BY <1>5 DEF PullNothing, TypeOK, EosLast, SampleInv, MainInv
  <2> QED BY <2>1, <2>2
<1>6. CASE PostError
  <2>1. TypeOK' /\ OutputInOrder'
    BY <1>6 DEF PostError, TypeOK, OutputInOrder, Bytes
  <2>2. EosLast'
    <3> SUFFICES ASSUME NEW i \in DOMAIN bus', bus'[i] = "eos" PROVE spc' \in {"eos", "stopped"}
      BY DEF EosLast
    <3>1. i \in DOMAIN bus /\ bus[i] = "eos"
      BY <1>6 DEF PostError, TypeOK
    <3> QED BY <1>6, <3>1 DEF PostError, EosLast
  <2>3. SampleInv' /\ MainInv'
    BY <1>6 DEF PostError, TypeOK, SampleInv, MainInv
  <2> QED BY <2>1, <2>2, <2>3
<1>7. ASSUME BusError \/ BusEos PROVE IInv'
  <2>0. bus \in Seq({"error", "eos"}) /\ bus # << >> /\ bus' = Tail(bus)
    BY <1>7 DEF BusError, BusEos, TypeOK
  <2>1. bus' \in Seq({"error", "eos"}) /\ \A i \in DOMAIN bus' : i + 1 \in DOMAIN bus /\ bus'[i] = bus[i + 1]
    BY <2>0, HeadTailProperties
  <2>2. Head(bus) = bus[1] /\ 1 \in DOMAIN bus
    BY <1>7 DEF BusError, BusEos, TypeOK
  <2>3. TypeOK' /\ OutputInOrder'
    BY <1>7, <2>1 DEF BusError, BusEos, TypeOK, OutputInOrder, Bytes
  <2>4. EosLast'
    BY <1>7, <2>1 DEF BusError, BusEos, EosLast
  <2>5. SampleInv' /\ MainInv'
    BY <1>7, <2>2 DEF BusError, BusEos, TypeOK, EosLast, SampleInv, MainInv
  <2> QED BY <2>3, <2>4, <2>5
<1>8. CASE Flush
  <2>1. buf' = << >> /\ outfile' \in Seq(Nat) /\ failed' \in BOOLEAN /\ OutputInOrder'
    BY <1>8, WriteKeepsOrder DEF Flush
  <2>2. TypeOK'
    BY <1>8, <2>1 DEF Flush, TypeOK
  <2>3. EosLast' /\ SampleInv' /\ MainInv'
    BY <1>8, <2>1 DEF Flush, TypeOK, EosLast, SampleInv, MainInv
  <2> QED BY <2>1, <2>2, <2>3
<1>9. CASE PipelineNull
  <2>1. TypeOK' /\ OutputInOrder'
    BY <1>9 DEF PipelineNull, TypeOK, OutputInOrder, Bytes
  <2>2. EosLast' /\ SampleInv' /\ MainInv'
    BY <1>9 DEF PipelineNull, TypeOK, EosLast, SampleInv, MainInv
  <2> QED BY <2>1, <2>2
<1>10. CASE UNCHANGED vars
  BY <1>10 DEF vars, TypeOK, OutputInOrder, EosLast, SampleInv, MainInv, Bytes
<1> QED BY <1>1, <1>2, <1>3, <1>4, <1>5, <1>6, <1>7, <1>8, <1>9, <1>10 DEF Next, Streaming, MainLoop

LEMMA SinkInvariant == Spec => []IInv
BY InitIInv, NextIInv, PTL DEF Spec

-----------------------------------------------------------------------------
\* The output keeps the muxer's order, byte for byte, and buf never overflows
\* (TypeOK), for every buffer and sample size.
THEOREM OutputOrdered == Spec => [](TypeOK /\ OutputInOrder)
<1>1. IInv => TypeOK /\ OutputInOrder
  BY DEF IInv
<1> QED BY SinkInvariant, <1>1, PTL

\* The two threads that share buf never use it together.
THEOREM WritersExclude == Spec => []OneWriter
<1>1. IInv => OneWriter
  BY DEF IInv, TypeOK, MainInv, OneWriter
<1> QED BY SinkInvariant, <1>1, PTL

\* Nothing buffered is left behind by a run that ended with an EOS.
THEOREM EosIsComplete == Spec => []EosDeliversAll
<1>1. IInv => EosDeliversAll
  <2> SUFFICES ASSUME IInv, mpc = "done", cause = "eos", ~failed
               PROVE  outfile = Bytes(0, pulled)
    BY DEF EosDeliversAll
  <2>1. buf = << >> /\ outfile \in Seq(Nat)
    BY DEF IInv, MainInv, TypeOK
  <2>2. outfile \o buf = outfile
    BY <2>1, ConcatEmptySeq
  <2> QED BY <2>2 DEF IInv, OutputInOrder
<1> QED BY SinkInvariant, <1>1, PTL

\* No write of nothing: a sample that does not fit finds something in the buffer.
THEOREM WritesSomething == Spec => []NoEmptyWrite
<1>1. IInv => NoEmptyWrite
  <2> SUFFICES ASSUME IInv, spc = "write" PROVE buf # << >>
    BY DEF IInv, MainInv, NoEmptyWrite
  <2>1. size \in SampleSizes /\ Len(buf) + size > WriteBufSize
    BY DEF IInv, SampleInv
  <2>2. size <= WriteBufSize
    BY <2>1, SinkAssumption
  <2> QED BY <2>1, <2>2, SinkAssumption DEF IInv, TypeOK
<1> QED BY SinkInvariant, <1>1, PTL

-----------------------------------------------------------------------------
(* Induction, by a smallest counterexample.                                 *)

\* A set of numbers has a smallest one.
LEMMA SmallestNumber ==
  ASSUME NEW T, T \subseteq Nat, T # {}
  PROVE  \E m \in T : \A k \in T : m <= k
<1>1. PICK m \in T : \A k \in T : ~(<<k, m>> \in OpToRel(<, Nat))
  BY NatLessThanWellFounded, WFMin
<1>2. \A k \in T : <<k, m>> \in OpToRel(<, Nat) <=> k < m
  BY DEF OpToRel
<1>3. \A k \in T : ~(k < m)
  BY <1>1, <1>2
<1> QED BY <1>3

\* A set of subsets of a finite set has one with no smaller one in it.
LEMMA SmallestSet ==
  ASSUME NEW S, IsFiniteSet(S), NEW C, C \subseteq SUBSET S, C # {}
  PROVE  \E s \in C : \A t \in C : t \subseteq s => t = s
<1>1. IsWellFoundedOn(StrictSubsetOrdering(S), SUBSET S)
  BY FS_StrictSubsetOrderingWellFounded, FS_FiniteSubsetsOfFinite
<1>2. PICK s \in C : \A t \in C : ~(<<t, s>> \in StrictSubsetOrdering(S))
  BY <1>1, WFMin
<1> QED BY <1>2 DEF StrictSubsetOrdering

-----------------------------------------------------------------------------
(* The sum over a set of bits is what its definition says, in any order.    *)

\* The bit MapThenSumSet takes first, the function it defines, and its equation.
First(s) == CHOOSE x \in s : TRUE

Sums(S, h) == h = [s \in SUBSET S |-> IF s = {} THEN 0 ELSE 2 ^ First(s) + h[s \ {First(s)}]]

Summed(s) == Value(s) = IF s = {} THEN 0 ELSE 2 ^ First(s) + Value(s \ {First(s)})

\* The value is that of some function satisfying the definition ...
LEMMA ValueUnfolds == ASSUME NEW S PROVE Value(S) = (CHOOSE h : Sums(S, h))[S]
BY DEF Value, Sums, First, MapThenSumSet, MapThenFoldSet

\* ... and there is one, by induction on the set: a smallest set without the
\* equation would get it from its subsets.
LEMMA ValueSums ==
  ASSUME NEW S, IsFiniteSet(S)
  PROVE  Summed(S)
<1> DEFINE P(s) == Summed(s) /\ \A h : Sums(s, h) => h[s] = Value(s)
           C == {s \in SUBSET S : ~P(s)}
<1>1. P(S) => Summed(S)
  OBVIOUS
<1> HIDE DEF P
<1>0. C = {} => P(S)
  OBVIOUS
<1>a. SUFFICES ASSUME C # {} PROVE FALSE
  BY <1>0, <1>1
<1>b. C \subseteq SUBSET S
  OBVIOUS
<1>2. PICK s \in C : \A t \in C : t \subseteq s => t = s
  <2> HIDE DEF C
  <2> QED BY <1>a, <1>b, SmallestSet
<1>3. \A u \in SUBSET s : u # s => P(u)
  BY <1>2
<1>4. \A u \in SUBSET s : u # s => Summed(u) /\ \A h : Sums(u, h) => h[u] = Value(u)
  BY <1>3 DEF P
<1>5. \A t \in SUBSET s : t # {} => First(t) \in t
  BY DEF First
<1>6. \A t \in SUBSET s : t # {} => t \ {First(t)} \in SUBSET s /\ t \ {First(t)} # s
  BY <1>5
<1> DEFINE G == [t \in SUBSET s |-> IF t = {} THEN 0 ELSE 2 ^ First(t) + Value(t \ {First(t)})]
<1>7. Sums(s, G)
  <2>1. \A u \in SUBSET s : u # s => G[u] = Value(u)
    BY <1>4 DEF Summed
  <2>2. \A t \in SUBSET s : t # {} => G[t \ {First(t)}] = Value(t \ {First(t)})
    BY <1>6, <2>1
  <2> HIDE DEF G
  <2>3. [t \in SUBSET s |-> IF t = {} THEN 0 ELSE 2 ^ First(t) + G[t \ {First(t)}]]
          = [t \in SUBSET s |-> IF t = {} THEN 0 ELSE 2 ^ First(t) + Value(t \ {First(t)})]
    BY <2>2
  <2> QED BY <2>3 DEF Sums, G
<1>8. ASSUME NEW h, Sums(s, h)
      PROVE  h[s] = IF s = {} THEN 0 ELSE 2 ^ First(s) + Value(s \ {First(s)})
  <2>1. h = [t \in SUBSET s |-> IF t = {} THEN 0 ELSE 2 ^ First(t) + h[t \ {First(t)}]]
    BY <1>8 DEF Sums
  <2>2. h[s] = IF s = {} THEN 0 ELSE 2 ^ First(s) + h[s \ {First(s)}]
    BY <2>1
  <2>3. ASSUME s # {} PROVE h[s \ {First(s)}] = Value(s \ {First(s)})
    <3> DEFINE u == s \ {First(s)}
               k == [t \in SUBSET u |-> h[t]]
    <3>1. u \in SUBSET s /\ u # s
      BY <1>6, <2>3
    <3> HIDE DEF u
    <3>2. \A t \in SUBSET u : t # {} => t \ {First(t)} \in SUBSET u
      OBVIOUS
    <3>3. \A t \in SUBSET u : k[t] = IF t = {} THEN 0 ELSE 2 ^ First(t) + k[t \ {First(t)}]
      <4>1. \A t \in SUBSET s : h[t] = IF t = {} THEN 0 ELSE 2 ^ First(t) + h[t \ {First(t)}]
        BY <2>1
      <4>2. SUBSET u \subseteq SUBSET s
        BY <3>1
      <4> QED BY <3>2, <4>1, <4>2
    <3>4. k = [t \in SUBSET u |-> k[t]]
      OBVIOUS
    <3> HIDE DEF k
    <3>5. Sums(u, k)
      BY <3>3, <3>4 DEF Sums
    <3>6. k[u] = h[u]
      BY DEF k
    <3>7. k[u] = Value(u)
      BY <1>4, <3>1, <3>5
    <3> QED BY <3>6, <3>7 DEF u
  <2> QED BY <2>2, <2>3
<1>9. Value(s) = IF s = {} THEN 0 ELSE 2 ^ First(s) + Value(s \ {First(s)})
  <2> DEFINE h == CHOOSE h : Sums(s, h)
  <2>1. Sums(s, h)
    <3> HIDE DEF G
    <3> QED BY <1>7
  <2>2. Value(s) = h[s]
    BY ValueUnfolds
  <2> HIDE DEF h
  <2> QED BY <1>8, <2>1, <2>2
<1>10. P(s)
  BY <1>8, <1>9 DEF P, Summed
<1> QED BY <1>2, <1>10

\* The value is a number, and any bit of the set may be taken first.
LEMMA ValueOfBits ==
  ASSUME NEW S, IsFiniteSet(S), \A i \in S : 2 ^ i \in Nat
  PROVE  Value(S) \in Nat /\ \A x \in S : Value(S) = 2 ^ x + Value(S \ {x})
<1> DEFINE P(s) == Value(s) \in Nat /\ \A x \in s : Value(s) = 2 ^ x + Value(s \ {x})
           C == {s \in SUBSET S : ~P(s)}
<1>1. P(S) => Value(S) \in Nat /\ \A x \in S : Value(S) = 2 ^ x + Value(S \ {x})
  OBVIOUS
<1> HIDE DEF P
<1>0. C = {} => P(S)
  OBVIOUS
<1>a. SUFFICES ASSUME C # {} PROVE FALSE
  BY <1>0, <1>1
<1>b. C \subseteq SUBSET S
  OBVIOUS
<1>2. PICK s \in C : \A t \in C : t \subseteq s => t = s
  <2> HIDE DEF C
  <2> QED BY <1>a, <1>b, SmallestSet
<1>3. \A u \in SUBSET s : u # s => P(u)
  BY <1>2
<1>4. \A u \in SUBSET S : Summed(u)
  BY ValueSums, FS_Subset
<1>5. CASE s = {}
  <2>1. Value(s) = 0
    BY <1>4, <1>5 DEF Summed
  <2> QED BY <1>2, <1>5, <2>1 DEF P
<1>6. CASE s # {}
  <2> DEFINE c == First(s)
  <2>1. c \in s
    BY <1>6 DEF First
  <2> HIDE DEF c
  <2>2. Value(s) = 2 ^ c + Value(s \ {c})
    BY <1>2, <1>4, <1>6 DEF Summed, c
  <2>3. P(s \ {c})
    BY <1>3, <2>1
  <2>4. \A x \in s : 2 ^ x \in Nat
    BY <1>2
  <2>5. ASSUME NEW x \in s, x # c
        PROVE  Value(s) = 2 ^ x + Value(s \ {x})
    <3> DEFINE r == (s \ {c}) \ {x}
               a == 2 ^ x
               b == 2 ^ c
               v == Value(r)
    <3>1. P(s \ {x}) /\ P(r)
      BY <1>3, <2>5
    <3>2. r = (s \ {x}) \ {c}
      OBVIOUS
    <3>3. Value(s \ {c}) = a + v
      BY <2>3, <2>5 DEF P
    <3>4. Value(s \ {x}) = b + v
      BY <2>1, <2>5, <3>1, <3>2 DEF P
    <3>5. a \in Nat /\ b \in Nat /\ v \in Nat
      BY <2>1, <2>4, <2>5, <3>1 DEF P
    <3> HIDE DEF a, b, v
    <3>6. b + (a + v) = a + (b + v)
      BY <3>5
    <3>7. Value(s) = b + (a + v)
      BY <2>2, <3>3 DEF b
    <3> QED BY <3>4, <3>6, <3>7 DEF a
  <2>6. Value(s) \in Nat
    <3>1. Value(s \ {c}) \in Nat /\ 2 ^ c \in Nat
      BY <2>1, <2>3, <2>4 DEF P
    <3> QED BY <2>2, <3>1
  <2>7. P(s)
    BY <2>2, <2>5, <2>6 DEF P
  <2> QED BY <1>2, <2>7
<1> QED BY <1>5, <1>6

-----------------------------------------------------------------------------
(* The bits of a number.                                                    *)

\* The powers of two an int has room for.
Power(i) ==
  /\ 2 ^ i \in Nat \ {0} /\ 2 ^ (i + 1) = 2 * 2 ^ i
  /\ \A w \in {1, 2, 3, 5, 10, 16} : i >= w => 2 ^ w <= 2 ^ i

LEMMA Powers == ASSUME NEW i \in 0 .. 31 PROVE Power(i)
<1>0. CASE i = 0  BY <1>0 DEF Power
<1>1. CASE i = 1  BY <1>1 DEF Power
<1>2. CASE i = 2  BY <1>2 DEF Power
<1>3. CASE i = 3  BY <1>3 DEF Power
<1>4. CASE i = 4  BY <1>4 DEF Power
<1>5. CASE i = 5  BY <1>5 DEF Power
<1>6. CASE i = 6  BY <1>6 DEF Power
<1>7. CASE i = 7  BY <1>7 DEF Power
<1>8. CASE i = 8  BY <1>8 DEF Power
<1>9. CASE i = 9  BY <1>9 DEF Power
<1>10. CASE i = 10  BY <1>10 DEF Power
<1>11. CASE i = 11  BY <1>11 DEF Power
<1>12. CASE i = 12  BY <1>12 DEF Power
<1>13. CASE i = 13  BY <1>13 DEF Power
<1>14. CASE i = 14  BY <1>14 DEF Power
<1>15. CASE i = 15  BY <1>15 DEF Power
<1>16. CASE i = 16  BY <1>16 DEF Power
<1>17. CASE i = 17  BY <1>17 DEF Power
<1>18. CASE i = 18  BY <1>18 DEF Power
<1>19. CASE i = 19  BY <1>19 DEF Power
<1>20. CASE i = 20  BY <1>20 DEF Power
<1>21. CASE i = 21  BY <1>21 DEF Power
<1>22. CASE i = 22  BY <1>22 DEF Power
<1>23. CASE i = 23  BY <1>23 DEF Power
<1>24. CASE i = 24  BY <1>24 DEF Power
<1>25. CASE i = 25  BY <1>25 DEF Power
<1>26. CASE i = 26  BY <1>26 DEF Power
<1>27. CASE i = 27  BY <1>27 DEF Power
<1>28. CASE i = 28  BY <1>28 DEF Power
<1>29. CASE i = 29  BY <1>29 DEF Power
<1>30. CASE i = 30  BY <1>30 DEF Power
<1>31. CASE i = 31  BY <1>31 DEF Power
<1> QED BY <1>0, <1>1, <1>2, <1>3, <1>4, <1>5, <1>6, <1>7, <1>8, <1>9, <1>10, <1>11, <1>12,
           <1>13, <1>14, <1>15, <1>16, <1>17, <1>18, <1>19, <1>20, <1>21, <1>22, <1>23, <1>24,
           <1>25, <1>26, <1>27, <1>28, <1>29, <1>30, <1>31

\* A quotient and a remainder are known from any decomposition.
LEMMA Divides ==
  ASSUME NEW m \in Nat \ {0}, NEW q \in Nat, NEW r \in 0 .. m - 1
  PROVE  (q * m + r) % m = r /\ (q * m + r) \div m = q
<1> DEFINE x == q * m + r
           p == x \div m
           d == p - q
<1>1. x \in Nat
  OBVIOUS
<1> HIDE DEF x
<1>2. p \in Int /\ x % m \in 0 .. m - 1 /\ x = m * p + (x % m)
  BY <1>1
<1> HIDE DEF p
<1>3. d \in Int
  BY <1>2
<1>4. p = q + d
  BY <1>2
<1> HIDE DEF d
<1>5. m * p = q * m + m * d
  BY <1>3, <1>4
<1>6. m * d \in Int
  BY <1>3
<1>7. r - (x % m) = m * d
  <2> DEFINE a == m * d
             b == q * m
             c == x % m
  <2>1. a \in Int /\ b \in Int /\ c \in Int
    BY <1>2, <1>6
  <2>2. x = b + r /\ x = (b + a) + c
    BY <1>2, <1>5 DEF x
  <2> HIDE DEF a, b, c
  <2>3. r - c = a
    BY <2>1, <2>2
  <2> QED BY <2>3 DEF a, c
<1>8. d = 0
  <2>1. -m < m * d /\ m * d < m
    BY <1>2, <1>7
  <2>2. d >= 1 => m * d >= m
    BY <1>3
  <2>3. d <= -1 => m * d <= -m
    BY <1>3
  <2> QED BY <1>3, <1>6, <2>1, <2>2, <2>3
<1> QED BY <1>2, <1>4, <1>7, <1>8, m * 0 = 0 DEF x, p

\* One more bit of a remainder.
LEMMA Halves ==
  ASSUME NEW n \in Nat, NEW p \in Nat \ {0}
  PROVE  n % (2 * p) = (n % p) + IF (n \div p) % 2 = 1 THEN p ELSE 0
<1> DEFINE q == n \div p
           r == n % p
           e == q \div 2
           b == q % 2
<1>1. q \in Nat /\ r \in 0 .. p - 1 /\ n = p * q + r
  OBVIOUS
<1> HIDE DEF q, r
<1>2. e \in Nat /\ b \in 0 .. 1 /\ q = 2 * e + b
  BY <1>1
<1> HIDE DEF e, b
<1> DEFINE s == IF b = 1 THEN p + r ELSE r
<1>3. s \in 0 .. 2 * p - 1
  BY <1>1, <1>2
<1>4. n = e * (2 * p) + s
  <2>1. b = 0 \/ b = 1
    BY <1>2
  <2>2. p * (2 * e + 0) = e * (2 * p) /\ p * (2 * e + 1) = e * (2 * p) + p
    BY <1>2
  <2> DEFINE a == e * (2 * p)
  <2>3. a \in Nat
    BY <1>2
  <2>4. n = p * (2 * e + b) + r
    BY <1>1, <1>2
  <2> HIDE DEF a
  <2>5. CASE b = 0
    <3>1. n = a + r
      BY <2>2, <2>4, <2>5 DEF a
    <3> QED BY <2>5, <3>1 DEF a
  <2>6. CASE b = 1
    <3>1. n = (a + p) + r
      BY <2>2, <2>4, <2>6 DEF a
    <3>2. n = a + (p + r)
      BY <1>1, <2>3, <3>1
    <3> QED BY <2>6, <3>2 DEF a
  <2> QED BY <2>1, <2>5, <2>6
<1> HIDE DEF s
<1>5. n % (2 * p) = s
  BY <1>2, <1>3, <1>4, Divides
<1> QED BY <1>1, <1>2, <1>5 DEF s, b, q, r

\* Numbers below a power of two have no bits above it.
LEMMA BitsBelow ==
  ASSUME NEW w \in {1, 2, 3, 5, 10, 16}, NEW n \in Nat, n < 2 ^ w
  PROVE  Bits(n) \subseteq 0 .. w - 1
<1>0. \A i \in Bits(n) : i \in 0 .. 31 /\ (n \div 2 ^ i) % 2 = 1
  <2>1. IntBits - 2 \in Int /\ IntBits - 2 <= 31
    BY SessionAssumption
  <2> QED BY <2>1 DEF Bits
<1>1. SUFFICES ASSUME NEW i \in Bits(n), i >= w PROVE FALSE
  <2> HIDE DEF Bits
  <2> QED BY <1>0
<1>2. i \in 0 .. 31 /\ (n \div 2 ^ i) % 2 = 1
  BY <1>0
<1>3. Power(i)
  BY <1>2, Powers
<1>4. 2 ^ w <= 2 ^ i
  BY <1>1, <1>3 DEF Power
<1>5. 2 ^ w \in Nat
  <2>1. Power(w)
    BY Powers
  <2> QED BY <2>1 DEF Power
<1> DEFINE m == 2 ^ i
<1>6. m \in Nat \ {0} /\ n \in 0 .. m - 1
  BY <1>3, <1>4, <1>5 DEF Power
<1>7. n = 0 * m + n
  BY <1>6
<1>8. n \div m = 0
  <2> HIDE DEF m
  <2> QED BY <1>6, <1>7, Divides
<1>9. (n \div m) % 2 = 1
  BY <1>2
<1> HIDE DEF m
<1>10. 0 % 2 = 0
  OBVIOUS
<1> QED BY <1>8, <1>9, <1>10

\* The value of a part of a register.
LEMMA ValueType ==
  ASSUME NEW S, S \subseteq 0 .. 31
  PROVE  Value(S) \in Nat /\ \A x \in S : Value(S) = 2 ^ x + Value(S \ {x})
<1>1. IsFiniteSet(S)
  BY FS_Interval, FS_Subset, 0 \in Int, 31 \in Int
<1>2. ASSUME NEW i \in S PROVE 2 ^ i \in Nat
  <2>1. Power(i)
    BY Powers
  <2> QED BY <2>1 DEF Power
<1> QED BY <1>1, <1>2, ValueOfBits

\* The lower j bits of a number are the number modulo 2^j.
LEMMA LowerBits ==
  ASSUME NEW n \in Nat, NEW j \in 0 .. 16
  PROVE  Value(Bits(n) \cap 0 .. j - 1) = n % 2 ^ j
<1> DEFINE Part(k) == Bits(n) \cap 0 .. k - 1
           P(k) == Value(Part(k)) = n % 2 ^ k
<1>1. P(0)
  <2>1. Part(0) = {}
    OBVIOUS
  <2>2. Value({}) = 0
    BY ValueSums, FS_EmptySet DEF Summed
  <2>3. n % 2 ^ 0 = 0
    BY 2 ^ 0 = 1
  <2> QED BY <2>1, <2>2, <2>3
<1>2. ASSUME NEW k \in 0 .. 15, P(k) PROVE P(k + 1)
  <2> DEFINE p == 2 ^ k
  <2>1. p \in Nat \ {0} /\ 2 ^ (k + 1) = 2 * p
    <3>1. Power(k)
      BY Powers
    <3> QED BY <3>1 DEF Power
  <2>2. k \in 0 .. IntBits - 2
    BY SessionAssumption
  <2>3. Value(Part(k + 1)) = Value(Part(k)) + IF (n \div p) % 2 = 1 THEN p ELSE 0
    <3>1. CASE (n \div p) % 2 = 1
      <4>0. k \in Bits(n)
        BY <2>2, <3>1 DEF Bits
      <4>1. k \in Part(k + 1) /\ Part(k + 1) \ {k} = Part(k)
        BY <4>0
      <4>2. Part(k + 1) \subseteq 0 .. 31 /\ Part(k) \subseteq 0 .. 31
        OBVIOUS
      <4> HIDE DEF Part
      <4>3. Value(Part(k + 1)) = p + Value(Part(k)) /\ Value(Part(k)) \in Nat
        BY <4>1, <4>2, ValueType
      <4> HIDE DEF p
      <4> QED BY <2>1, <3>1, <4>3
    <3>2. CASE (n \div p) % 2 # 1
      <4>0. k \notin Bits(n)
        BY <2>2, <3>2 DEF Bits
      <4>1. Part(k + 1) = Part(k)
        BY <4>0
      <4>2. Part(k) \subseteq 0 .. 31
        OBVIOUS
      <4> HIDE DEF Part, p
      <4>3. Value(Part(k)) \in Nat
        BY <4>2, ValueType
      <4> QED BY <3>2, <4>1, <4>3
    <3> QED BY <3>1, <3>2
  <2>4. n % (2 * p) = (n % p) + IF (n \div p) % 2 = 1 THEN p ELSE 0
    <3> HIDE DEF p
    <3> QED BY <2>1, Halves
  <2> HIDE DEF Part
  <2> QED BY <1>2, <2>1, <2>3, <2>4
<1> HIDE DEF P
<1>3. \A k \in 0 .. 16 : P(k)
  <2> DEFINE T == {k \in 0 .. 16 : ~P(k)}
  <2>1. SUFFICES ASSUME T # {} PROVE FALSE
    OBVIOUS
  <2>2. PICK m \in T : \A k \in T : m <= k
    BY <2>1, SmallestNumber
  <2>3. m # 0
    BY <1>1
  <2>4. m - 1 \in 0 .. 15 /\ m - 1 \notin T /\ (m - 1) + 1 = m
    BY <2>2, <2>3
  <2>5. P(m - 1)
    BY <2>4
  <2>6. P((m - 1) + 1)
    BY <1>2, <2>4, <2>5
  <2> QED BY <2>4, <2>6
<1> QED BY <1>3 DEF P

\* Sixteen bits keep the number.
LEMMA ValueBits ==
  ASSUME NEW n \in Nat, n < 2 ^ 16
  PROVE  Value(Bits(n)) = n
<1>1. Bits(n) \subseteq 0 .. 16 - 1
  BY BitsBelow
<1>2. Bits(n) \cap 0 .. 16 - 1 = Bits(n)
  BY <1>1
<1>3. Value(Bits(n)) = n % 2 ^ 16
  BY <1>2, LowerBits, 16 \in 0 .. 16
<1> DEFINE m == 2 ^ 16
<1>4. m \in Nat \ {0}
  <2>1. Power(16)
    BY Powers
  <2> QED BY <2>1 DEF Power
<1>5. n < m
  OBVIOUS
<1>6. Value(Bits(n)) = n % m
  BY <1>3
<1> HIDE DEF m
<1>7. n = 0 * m + n /\ n \in 0 .. m - 1
  BY <1>4, <1>5
<1>8. n % m = n
  BY <1>4, <1>7, Divides
<1> QED BY <1>6, <1>8

-----------------------------------------------------------------------------
(* The registers.                                                           *)

\* The bits the values of a parameter need.
Need == [cache |-> 1, bandwidth |-> 1, filler_data |-> 1, bitrate |-> 16, gop_len |-> 10,
         b_frame |-> 3, slice |-> 5, qp_mode |-> 2, rc_mode |-> 2, enc_type |-> 1,
         gop_mode |-> 3]

\* The values the host program lets through.
Fits(p) == p \in [Params -> Nat] /\ \A f \in Params : p[f] \in Accepted[f]

\* Fields of one register lie apart and are wide enough.
LEMMA Layout ==
  ASSUME NEW F \in {In1, In2}, NEW f \in F
  PROVE  /\ f \in Params /\ Need[f] \in {1, 2, 3, 5, 10, 16} 
         /\ Low[f] \in 0 .. 31 /\ Width[f] \in Nat
         /\ Need[f] <= Width[f] /\ Low[f] + Width[f] <= 32
         /\ \A g \in F \ {f} : Low[g] + Need[g] <= Low[f] \/ Low[f] + Width[f] <= Low[g]
<1>1. CASE F = In1
  <2>1. F = {"cache", "bandwidth", "filler_data", "bitrate", "gop_len"}
    BY <1>1 DEF In1
  <2>2. /\ Low["cache"] = 0 /\ Low["bandwidth"] = 1 /\ Low["filler_data"] = 2
        /\ Low["bitrate"] = 4 /\ Low["gop_len"] = 20
        /\ Need["cache"] = 1 /\ Need["bandwidth"] = 1 /\ Need["filler_data"] = 1
        /\ Need["bitrate"] = 16 /\ Need["gop_len"] = 10
        /\ Width["cache"] = 1 /\ Width["bandwidth"] = 1 /\ Width["filler_data"] = 2
        /\ Width["bitrate"] = 16 /\ Width["gop_len"] = 12
    BY DEF Low, Need, Width
  <2> QED BY <2>1, <2>2 DEF Params
<1>2. CASE F = In2
  <2>1. F = {"b_frame", "slice", "qp_mode", "rc_mode", "enc_type", "gop_mode"}
    BY <1>2 DEF In1, In2, Params
  <2>2. /\ Low["b_frame"] = 0 /\ Low["slice"] = 3 /\ Low["qp_mode"] = 9
        /\ Low["rc_mode"] = 11 /\ Low["enc_type"] = 13 /\ Low["gop_mode"] = 15
        /\ Need["b_frame"] = 3 /\ Need["slice"] = 5 /\ Need["qp_mode"] = 2
        /\ Need["rc_mode"] = 2 /\ Need["enc_type"] = 1 /\ Need["gop_mode"] = 3
        /\ Width["b_frame"] = 3 /\ Width["slice"] = 6 /\ Width["qp_mode"] = 2
        /\ Width["rc_mode"] = 2 /\ Width["enc_type"] = 2 /\ Width["gop_mode"] = 17
    BY DEF Low, Need, Width
  <2> QED BY <2>1, <2>2 DEF Params
<1> QED BY <1>1, <1>2

\* The ranges accepted are the documented ones but for one.
LEMMA AcceptedRanges ==
  ASSUME NEW f \in Params, f # "gop_len"
  PROVE  Accepted[f] = Documented[f]
<1>1. DOMAIN Documented = Params
  BY DEF Documented, Params
<1>2. f \in DOMAIN Documented
  BY <1>1
<1> QED BY <1>2 DEF Accepted

\* The one that excludes its upper end.
LEMMA GopLengths == Accepted["gop_len"] = 1 .. 999
<1>1. DOMAIN Documented = Params
  BY DEF Documented, Params
<1>2. "gop_len" \in DOMAIN Documented
  BY <1>1 DEF Params
<1> QED BY <1>2 DEF Accepted

\* The fields of the records, one by one.
LEMMA DocumentedRanges ==
  /\ Documented["cache"] = 0 .. 1 /\ Documented["bandwidth"] = 0 .. 1
  /\ Documented["filler_data"] = 0 .. 1
  /\ Documented["b_frame"] = 0 .. 4 /\ Documented["slice"] = 4 .. 22
  /\ Documented["qp_mode"] = {0, 2} /\ Documented["rc_mode"] = 1 .. 2
  /\ Documented["enc_type"] = 0 .. 1 /\ Documented["gop_mode"] = {0, 3, 4}
BY SMTT(40) DEF Documented

LEMMA Needs ==
  /\ Need["cache"] = 1 /\ Need["bandwidth"] = 1 /\ Need["filler_data"] = 1
  /\ Need["bitrate"] = 16 /\ Need["gop_len"] = 10 /\ Need["b_frame"] = 3
  /\ Need["slice"] = 5 /\ Need["qp_mode"] = 2 /\ Need["rc_mode"] = 2
  /\ Need["enc_type"] = 1 /\ Need["gop_mode"] = 3
BY DEF Need

\* The widest field.
LEMMA Bitrates == ASSUME NEW v \in Documented["bitrate"] PROVE v \in Nat /\ v < 2 ^ 16
<1> DEFINE top == 60000
           end == 2 ^ 16
<1>1. Documented["bitrate"] = 1 .. top
  BY SMT DEF Documented
<1>2. top \in Nat /\ end \in Nat /\ top < end
  BY SMT
<1> HIDE DEF top, end
<1>3. v \in Nat /\ v < end
  BY <1>1, <1>2, SMTT(40)
<1> QED BY <1>3 DEF end

\* Every accepted value fits its field.
LEMMA AcceptedFits ==
  ASSUME NEW f \in Params, NEW v \in Accepted[f]
  PROVE  v \in Nat /\ v < 2 ^ 16 /\ v < 2 ^ Need[f]
<1> DEFINE T(n) == 2 ^ n
<1>0. /\ T(1) = 2 /\ T(2) = 4 /\ T(3) = 8 /\ T(5) = 32 /\ T(10) = 1024
      /\ T(16) \in Nat /\ T(16) > 1024
  OBVIOUS
<1> HIDE DEF T
<1> SUFFICES v \in Nat /\ v < T(16) /\ v < T(Need[f])
  BY DEF T
<1>a. f # "gop_len" => v \in Documented[f]
  BY AcceptedRanges, Zenon
<1>1. CASE f = "cache"
  <2>1. v \in 0 .. 1
    BY <1>1, <1>a, DocumentedRanges, SMT
  <2>2. Need[f] = 1
    BY <1>1, Needs, SMT
  <2> QED BY <1>0, <2>1, <2>2, SMT
<1>2. CASE f = "bandwidth"
  <2>1. v \in 0 .. 1
    BY <1>2, <1>a, DocumentedRanges, SMT
  <2>2. Need[f] = 1
    BY <1>2, Needs, SMT
  <2> QED BY <1>0, <2>1, <2>2, SMT
<1>3. CASE f = "filler_data"
  <2>1. v \in 0 .. 1
    BY <1>3, <1>a, DocumentedRanges, SMT
  <2>2. Need[f] = 1
    BY <1>3, Needs, SMT
  <2> QED BY <1>0, <2>1, <2>2, SMT
<1>4. CASE f = "bitrate"
  <2>1. v \in Documented["bitrate"]
    BY <1>4, <1>a, Zenon
  <2>2. v \in Nat /\ v < T(16)
    BY <2>1, Bitrates DEF T
  <2>3. Need[f] = 16
    BY <1>4, Needs, SMT
  <2> QED BY <2>2, <2>3
<1>5. CASE f = "gop_len"
  <2>1. v \in 1 .. 999
    BY <1>5, GopLengths, SMT
  <2>2. Need[f] = 10
    BY <1>5, Needs, SMT
  <2> QED BY <1>0, <2>1, <2>2, SMT
<1>6. CASE f = "b_frame"
  <2>1. v \in 0 .. 4
    BY <1>6, <1>a, DocumentedRanges, SMT
  <2>2. Need[f] = 3
    BY <1>6, Needs, SMT
  <2> QED BY <1>0, <2>1, <2>2, SMT
<1>7. CASE f = "slice"
  <2>1. v \in 4 .. 22
    BY <1>7, <1>a, DocumentedRanges, SMT
  <2>2. Need[f] = 5
    BY <1>7, Needs, SMT
  <2> QED BY <1>0, <2>1, <2>2, SMT
<1>8. CASE f = "qp_mode"
  <2>1. v \in {0, 2}
    BY <1>8, <1>a, DocumentedRanges, SMT
  <2>2. Need[f] = 2
    BY <1>8, Needs, SMT
  <2> QED BY <1>0, <2>1, <2>2, SMT
<1>9. CASE f = "rc_mode"
  <2>1. v \in 1 .. 2
    BY <1>9, <1>a, DocumentedRanges, SMT
  <2>2. Need[f] = 2
    BY <1>9, Needs, SMT
  <2> QED BY <1>0, <2>1, <2>2, SMT
<1>10. CASE f = "enc_type"
  <2>1. v \in 0 .. 1
    BY <1>10, <1>a, DocumentedRanges, SMT
  <2>2. Need[f] = 1
    BY <1>10, Needs, SMT
  <2> QED BY <1>0, <2>1, <2>2, SMT
<1>11. CASE f = "gop_mode"
  <2>1. v \in {0, 3, 4}
    BY <1>11, <1>a, DocumentedRanges, SMT
  <2>2. Need[f] = 3
    BY <1>11, Needs, SMT
  <2> QED BY <1>0, <2>1, <2>2, SMT
<1> QED BY <1>1, <1>2, <1>3, <1>4, <1>5, <1>6, <1>7, <1>8, <1>9, <1>10, <1>11 DEF Params

\* A parameter is read back from the register as it was packed.
LEMMA FieldReadBack ==
  ASSUME NEW F \in {In1, In2}, NEW f \in F, NEW p, Fits(p)
  PROVE  Field(Pack(p, F), Low[f], Width[f]) = p[f]
<1>1. \A g \in F : g \in Params
  BY Layout
<1>2. \A g \in F : p[g] \in Nat /\ p[g] < 2 ^ 16 /\ p[g] < 2 ^ Need[g]
  BY <1>1, AcceptedFits DEF Fits
<1>3. \A g \in F : Bits(p[g]) \subseteq 0 .. Need[g] - 1
  <2> TAKE g \in F
  <2> DEFINE w == Need[g]
             n == p[g]
  <2>1. w \in {1, 2, 3, 5, 10, 16} /\ n \in Nat /\ n < 2 ^ w
    BY <1>2, Layout
  <2> HIDE DEF w, n
  <2>2. Bits(n) \subseteq 0 .. w - 1
    BY <2>1, BitsBelow
  <2> QED BY <2>2 DEF w, n
<1> DEFINE B(g) == Bits(p[g])
           R == Pack(p, F)
           W == R \cap Low[f] .. Low[f] + Width[f] - 1
<1>4. \A i : i \in R <=> \E g \in F : \E b \in B(g) : i = b + Low[g] /\ i \in 0 .. 31
  BY DEF Pack, Shift
<1> HIDE DEF B, R
<1>5. \A b \in B(f) : b + Low[f] \in W
  <2>1. TAKE b \in B(f)
  <2>2. b \in 0 .. Need[f] - 1
    BY <1>3 DEF B
  <2>3. b + Low[f] \in 0 .. 31 /\ b + Low[f] \in Low[f] .. Low[f] + Width[f] - 1
    BY <2>2, Layout, SMTT(30)
  <2> QED BY <1>4, <2>3
<1>6. \A i \in W : i - Low[f] \in B(f)
  <2>1. TAKE i \in W
  <2>2. PICK g \in F : \E b \in B(g) : i = b + Low[g] /\ i \in 0 .. 31
    BY <1>4
  <2>6. PICK b \in B(g) : i = b + Low[g] /\ i \in 0 .. 31
    BY <2>2
  <2>3. b \in 0 .. Need[g] - 1 /\ Low[g] \in 0 .. 31 /\ Need[g] \in Nat
    BY <1>3, Layout DEF B
  <2>4. Low[f] \in 0 .. 31 /\ Width[f] \in Nat
    BY Layout
  <2>7. i \in Low[f] .. Low[f] + Width[f] - 1 /\ b \in Int
    BY <2>3
  <2>5. g = f
    <3>1. SUFFICES ASSUME g # f PROVE FALSE
      OBVIOUS
    <3>2. Low[g] + Need[g] <= Low[f] \/ Low[f] + Width[f] <= Low[g]
      BY <3>1, Layout
    <3> DEFINE lf == Low[f]
               wf == Width[f]
               lg == Low[g]
               ng == Need[g]
    <3>3. lf \in Nat /\ wf \in Nat /\ lg \in Nat /\ ng \in Nat /\ b \in 0 .. ng - 1
      BY <2>3, <2>4
    <3>4. i = b + lg /\ i \in lf .. lf + wf - 1
      BY <2>6, <2>7
    <3>5. lg + ng <= lf \/ lf + wf <= lg
      BY <3>2
    <3> HIDE DEF lf, wf, lg, ng
    <3> QED BY <3>3, <3>4, <3>5
  <2> QED BY <2>3, <2>4, <2>5, <2>6
<1>7. {i - Low[f] : i \in W} = B(f)
  <2>1. \A b \in B(f) : b \in Int /\ Low[f] \in Int /\ b = (b + Low[f]) - Low[f]
    BY <1>3, Layout DEF B
  <2> HIDE DEF W
  <2> QED BY <1>5, <1>6, <2>1
<1>8. Value(B(f)) = p[f]
  BY <1>2, ValueBits DEF B
<1> QED BY <1>7, <1>8 DEF Field, R

\* The packing of the two registers loses nothing, whatever values the host program
\* accepts: the driver's fields give every parameter back.
THEOREM PackingLossless ==
  ASSUME NEW p, Fits(p)
  PROVE  Unpack(Pack(p, In1), Pack(p, In2)) = p
<1>1. \A f \in In1 : Field(Pack(p, In1), Low[f], Width[f]) = p[f]
  BY FieldReadBack
<1>2. \A f \in In2 : Field(Pack(p, In2), Low[f], Width[f]) = p[f]
  BY FieldReadBack
<1>3. \A f \in Params : f \in In1 \/ f \in In2
  BY DEF In2
<1>4. p = [f \in Params |-> p[f]]
  BY DEF Fits
<1> HIDE DEF Fits
<1>5. \A f \in Params :
        Field(IF f \in In1 THEN Pack(p, In1) ELSE Pack(p, In2), Low[f], Width[f]) = p[f]
  BY <1>1, <1>2, <1>3
<1> QED BY <1>4, <1>5 DEF Unpack

\* What is read from any register is a number.
LEMMA UnpackType ==
  ASSUME NEW r1, NEW r2, r1 \subseteq 0 .. 31, r2 \subseteq 0 .. 31
  PROVE  Unpack(r1, r2) \in [Params -> Nat]
<1>1. ASSUME NEW f \in Params, NEW r, r \subseteq 0 .. 31
      PROVE  Field(r, Low[f], Width[f]) \in Nat
  <2>1. f \in In1 \/ f \in In2
    BY DEF In2
  <2>2. Low[f] \in 0 .. 31 /\ Width[f] \in Nat
    BY <2>1, Layout
  <2> DEFINE S == {i - Low[f] : i \in r \cap Low[f] .. Low[f] + Width[f] - 1}
  <2>3. S \subseteq 0 .. 31
    BY <1>1, <2>2
  <2> HIDE DEF S
  <2>4. Value(S) \in Nat
    BY <2>3, ValueType
  <2> QED BY <2>4 DEF Field, S
<1> QED BY <1>1 DEF Unpack

\* A number an int has room for is stored as it is.
LEMMA SmallInt ==
  ASSUME NEW v \in Nat, v < 2 ^ (IntBits - 1)
  PROVE  AsInt(v) = v
<1> DEFINE h == 2 ^ (IntBits - 1)
           m == 2 ^ IntBits
<1>1. h \in Nat \ {0} /\ m = 2 * h
  <2>1. IntBits - 1 \in 0 .. 31 /\ (IntBits - 1) + 1 = IntBits
    BY SessionAssumption
  <2>2. Power(IntBits - 1)
    BY <2>1, Powers
  <2> QED BY <2>1, <2>2 DEF Power
<1>2. AsInt(v) = IF v % m >= h THEN (v % m) - m ELSE v % m
  BY DEF AsInt
<1>3. v < h
  OBVIOUS
<1> HIDE DEF h, m
<1>4. v = 0 * m + v /\ v \in 0 .. m - 1 /\ m \in Nat \ {0}
  BY <1>1, <1>3
<1>5. v % m = v
  BY <1>4, Divides
<1> QED BY <1>1, <1>2, <1>3, <1>5

\* So is a length an unsigned int has room for.
LEMMA SmallLength ==
  ASSUME NEW v \in 0 .. 2 ^ IntBits - 1
  PROVE  AsUnsigned(v) = v
<1> DEFINE m == 2 ^ IntBits
<1>1. m \in Nat \ {0}
  <2>1. IntBits - 1 \in 0 .. 31 /\ (IntBits - 1) + 1 = IntBits
    BY SessionAssumption
  <2>2. Power(IntBits - 1)
    BY <2>1, Powers
  <2> QED BY <2>1, <2>2 DEF Power
<1>2. AsUnsigned(v) = v % m
  BY DEF AsUnsigned
<1>3. v \in 0 .. m - 1
  OBVIOUS
<1> HIDE DEF m
<1>4. v \in Nat /\ v = 0 * m + v
  BY <1>1, <1>3
<1>5. v % m = v
  BY <1>1, <1>3, <1>4, Divides
<1> QED BY <1>2, <1>5

\* The defaults are accepted values.
LEMMA DefaultFits == Fits(Default)
<1>1. Default = [f \in Params |-> Default[f]]
  BY SMT DEF Default, Params
<1>2. Default["bitrate"] \in Documented["bitrate"] /\ Default["bitrate"] \in Nat
  BY SMT DEF Default, Documented
<1>3. /\ Default["cache"] = 1 /\ Default["bandwidth"] = 0 /\ Default["filler_data"] = 0
      /\ Default["gop_len"] = 60 /\ Default["b_frame"] = 0 /\ Default["slice"] = 8
      /\ Default["qp_mode"] = 2 /\ Default["rc_mode"] = 2 /\ Default["enc_type"] = 0
      /\ Default["gop_mode"] = 0
  BY SMT DEF Default
<1>4. ASSUME NEW f \in Params, f # "gop_len", f # "bitrate"
      PROVE  Default[f] \in Documented[f] /\ Default[f] \in Nat
  BY <1>3, <1>4, DocumentedRanges, SMT DEF Params
<1>5. ASSUME NEW f \in Params PROVE Default[f] \in Accepted[f] /\ Default[f] \in Nat
  <2>1. CASE f = "gop_len"
    BY <1>3, <2>1, GopLengths, SMT
  <2>2. CASE f = "bitrate"
    BY <1>2, <2>2, AcceptedRanges, Zenon
  <2>3. CASE f # "gop_len" /\ f # "bitrate"
    BY <1>4, <2>3, AcceptedRanges, Zenon
  <2> QED BY <2>1, <2>2, <2>3
<1>6. Default \in [Params -> Nat]
  BY <1>1, <1>5
<1> QED BY <1>5, <1>6 DEF Fits

\* What getopt_integer makes of a number.
LEMMA NumberRead ==
  ASSUME NEW o \in Params, NEW v \in Nat, NEW junk, v < 2 ^ (IntBits - 1)
  PROVE  GetoptInteger(v, junk) = v
<1>1. v # NoNumber
  BY SessionAssumption
<1> QED BY <1>1, SmallInt DEF GetoptInteger

\* Where the documented and the accepted ranges differ.
LEMMA DocumentedButOne ==
  ASSUME NEW f \in Params, NEW v
  PROVE  v \in Accepted[f] <=> v \in Documented[f] /\ ~(f = "gop_len" /\ v = 1000)
<1>1. CASE f = "gop_len"
  <2>1. Documented["gop_len"] = 1 .. 1000
    BY SMT DEF Documented
  <2>2. v \in 1 .. 999 <=> v \in 1 .. 1000 /\ v # 1000
    BY SMT
  <2> QED BY <1>1, <2>1, <2>2, GopLengths, SMT
<1>2. CASE f # "gop_len"
  BY <1>2, AcceptedRanges, ZenonT(30)
<1> QED BY <1>1, <1>2, Zenon

-----------------------------------------------------------------------------
(* The session.                                                             *)

\* Where the two programs are, and what the registers and their variables then hold.
SessionInv ==
  /\ regLen # 0 => hpc \in {"params1", "params2", "running"} /\ regLen = AsUnsigned(flen)
  /\ hpc \in {"options", "length"} => flen \in FileLengths
  /\ hpc \in {"params2", "running"} => reg1 = Pack(params, In1)
  /\ hpc = "running" => reg2 = Pack(params, In2)
  /\ dpc \in {"params", "transcode"} /\ ~noLength =>
       hpc \in {"params1", "params2", "running"} /\ length = AsUnsigned(flen)
  /\ dpc = "transcode" /\ ~noLength /\ ~early => hpc = "running" /\ enc = params

IInvSession == SessionTypeOK /\ SessionInv /\ OptionsHonoured

\* What a user who gives v for an option gets.
Due(f, v) == IF v \in Documented[f] /\ ~(f = "gop_len" /\ v = 1000) THEN v ELSE Default[f]

\* OptionsHonoured in these terms, now and after a step.
LEMMA Honoured ==
  OptionsHonoured <=>
    \A f \in Params : asked[f] \in Nat /\ asked[f] < 2 ^ (IntBits - 1) => params[f] = Due(f, asked[f])
BY SMT DEF OptionsHonoured, Due

LEMMA HonouredNext ==
  OptionsHonoured' <=>
    \A f \in Params : asked'[f] \in Nat /\ asked'[f] < 2 ^ (IntBits - 1) => params'[f] = Due(f, asked'[f])
BY SMT DEF OptionsHonoured, Due

LEMMA DueAccepted ==
  ASSUME NEW f \in Params, NEW v
  PROVE  Due(f, v) = IF v \in Accepted[f] THEN v ELSE Default[f]
BY DocumentedButOne, SMT DEF Due

\* What is packed is a register.
LEMMA PackType == ASSUME NEW p, NEW F PROVE Pack(p, F) \subseteq 0 .. 31
BY DEF Pack, Shift

LEMMA SessionStarts == SessionInit => IInvSession
<1>1. SUFFICES ASSUME SessionInit PROVE IInvSession
  OBVIOUS
<1>2. Fits(Default)
  BY DefaultFits
<1>3. NoNumber \notin Nat /\ MaxOptions \in Nat /\ MaxSessions \in Nat
  BY SessionAssumption
<1>4. SessionTypeOK
  <2>1. /\ [f \in Params |-> NoNumber] \in [Params -> Nat \cup {NoNumber}]
        /\ NoParams \in [Params -> Nat]
    BY DEF NoParams
  <2>2. 0 \in 0 .. MaxOptions /\ 0 \in 0 .. MaxSessions
    BY <1>3
  <2> QED BY <1>1, <1>2, <2>1, <2>2 DEF SessionInit, SessionTypeOK, Fits, Registered
<1>5. SessionInv
  BY <1>1 DEF SessionInit, SessionInv
<1>6. OptionsHonoured
  BY <1>1, <1>3 DEF SessionInit, OptionsHonoured
<1> QED BY <1>4, <1>5, <1>6 DEF IInvSession

LEMMA SessionKept == IInvSession /\ [SessionNext]_sessionVars => IInvSession'
<1>1. SUFFICES ASSUME IInvSession, [SessionNext]_sessionVars PROVE IInvSession'
  OBVIOUS
<1> USE DEF IInvSession
<1>a. /\ NoNumber \notin Nat /\ MaxOptions \in Nat /\ MaxSessions \in Nat /\ Options \subseteq Params
      /\ FileLengths \subseteq Nat \cup {-1}
  BY SessionAssumption DEF Params
<1>b. Fits(Default) /\ Fits(params)
  BY <1>1, DefaultFits DEF SessionTypeOK, Fits
<1>2. CASE StartHost
  <2>1. SessionTypeOK'
    BY <1>1, <1>2, <1>a DEF StartHost, SessionTypeOK, regs, device
  <2>2. SessionInv'
    BY <1>1, <1>2, <1>a DEF StartHost, SessionTypeOK, SessionInv, regs, device
  <2>3. OptionsHonoured'
    BY <1>1, <1>2 DEF StartHost, OptionsHonoured
  <2> QED BY <2>1, <2>2, <2>3
<1>3. ASSUME NEW o \in Options, NEW v \in Values(o), NEW junk \in Values(o) \ {NoNumber},
             Option(o, v, junk)
      PROVE  IInvSession'
  <2> DEFINE n == GetoptInteger(v, junk)
             w == IF n \in Accepted[o] THEN n ELSE Default[o]
  <2>1. o \in Params /\ v \in Nat \cup {NoNumber}
    BY <1>a, SessionAssumption
  <2>2. params' = [params EXCEPT ![o] = w] /\ asked' = [asked EXCEPT ![o] = v]
    BY <1>3 DEF Option
  <2>3. w \in Accepted[o] /\ w \in Nat
    BY <1>b, <2>1, AcceptedFits DEF Fits
  <2>4. v \in Nat /\ v < 2 ^ (IntBits - 1) => w = Due(o, v)
    BY <2>1, NumberRead, DueAccepted
  <2> HIDE DEF n, w
  <2>5. hpc = "options" /\ given < MaxOptions /\ given' = given + 1
        /\ UNCHANGED <<hpc, flen, hruns, regs, device>>
    BY <1>3 DEF Option
  <2>6. SessionTypeOK'
    <3>1. params' \in [Params -> Nat] /\ asked' \in [Params -> Nat \cup {NoNumber}]
      BY <1>1, <2>1, <2>2, <2>3 DEF SessionTypeOK
    <3>2. \A f \in Params : params'[f] \in Accepted[f]
      BY <1>1, <2>1, <2>2, <2>3 DEF SessionTypeOK
    <3> QED BY <1>1, <1>a, <2>5, <3>1, <3>2 DEF SessionTypeOK, regs, device
  <2>7. SessionInv'
    BY <1>1, <2>5 DEF SessionTypeOK, SessionInv, regs, device
  <2>8. OptionsHonoured'
    <3>1. SUFFICES ASSUME NEW f \in Params, asked'[f] \in Nat, asked'[f] < 2 ^ (IntBits - 1)
                   PROVE  params'[f] = Due(f, asked'[f])
      BY HonouredNext
    <3>2. CASE f = o
      <4>1. asked'[f] = v /\ params'[f] = w
        BY <1>1, <2>1, <2>2, <3>2 DEF SessionTypeOK
      <4> QED BY <2>4, <3>1, <3>2, <4>1
    <3>3. CASE f # o
      <4>1. asked'[f] = asked[f] /\ params'[f] = params[f]
        BY <1>1, <2>1, <2>2, <3>3 DEF SessionTypeOK
      <4> QED BY <1>1, <3>1, <4>1, Honoured
    <3> QED BY <3>2, <3>3
  <2> QED BY <2>6, <2>7, <2>8
<1>4. CASE OptionsRead
  <2>1. SessionTypeOK'
    BY <1>1, <1>4 DEF OptionsRead, SessionTypeOK, regs, device
  <2>2. SessionInv'
    BY <1>1, <1>4, <1>a DEF OptionsRead, SessionTypeOK, SessionInv, regs, device
  <2>3. OptionsHonoured'
    BY <1>1, <1>4 DEF OptionsRead, OptionsHonoured
  <2> QED BY <2>1, <2>2, <2>3

<1>5. CASE WriteLength
  <2>1. SessionTypeOK'
    <3>1. regLen' \in Registered
      BY <1>1, <1>5 DEF WriteLength, SessionInv, Registered
    <3> QED BY <1>1, <1>5, <3>1 DEF WriteLength, SessionTypeOK, device
  <2>2. SessionInv'
    BY <1>1, <1>5 DEF WriteLength, SessionTypeOK, SessionInv, device
  <2>3. OptionsHonoured'
    BY <1>1, <1>5 DEF WriteLength, OptionsHonoured
  <2> QED BY <2>1, <2>2, <2>3
<1>6. CASE WriteParams1
  <2>1. SessionTypeOK'
    BY <1>1, <1>6, PackType DEF WriteParams1, SessionTypeOK, device
  <2>2. SessionInv'
    BY <1>1, <1>6 DEF WriteParams1, SessionTypeOK, SessionInv, device
  <2>3. OptionsHonoured'
    BY <1>1, <1>6 DEF WriteParams1, OptionsHonoured
  <2> QED BY <2>1, <2>2, <2>3
<1>7. CASE WriteParams2
  <2>1. SessionTypeOK'
    BY <1>1, <1>7, PackType DEF WriteParams2, SessionTypeOK, device
  <2>2. SessionInv'
    BY <1>1, <1>7 DEF WriteParams2, SessionTypeOK, SessionInv, device
  <2>3. OptionsHonoured'
    BY <1>1, <1>7 DEF WriteParams2, OptionsHonoured
  <2> QED BY <2>1, <2>2, <2>3
<1>8. CASE Joined
  <2>1. SessionTypeOK'
    BY <1>1, <1>8 DEF Joined, DeviceEnds, NoParams, SessionTypeOK, Registered
  <2>2. SessionInv'
    BY <1>1, <1>8 DEF Joined, DeviceEnds, SessionTypeOK, SessionInv
  <2>3. OptionsHonoured'
    BY <1>1, <1>8 DEF Joined, OptionsHonoured
  <2> QED BY <2>1, <2>2, <2>3
<1>9. CASE ClearParams1
  <2>1. SessionTypeOK'
    BY <1>1, <1>9 DEF ClearParams1, SessionTypeOK, device
  <2>2. SessionInv'
    BY <1>1, <1>9 DEF ClearParams1, SessionTypeOK, SessionInv, device
  <2>3. OptionsHonoured'
    BY <1>1, <1>9 DEF ClearParams1, OptionsHonoured
  <2> QED BY <2>1, <2>2, <2>3
<1>10. CASE ClearParams2
  <2>1. SessionTypeOK'
    BY <1>1, <1>10, <1>a, <1>b DEF ClearParams2, HostEnds, SessionTypeOK, Fits, device
  <2>2. SessionInv'
    BY <1>1, <1>10 DEF ClearParams2, HostEnds, SessionTypeOK, SessionInv, device
  <2>3. OptionsHonoured'
    BY <1>10, <1>a DEF ClearParams2, HostEnds, OptionsHonoured
  <2> QED BY <2>1, <2>2, <2>3
<1>11. CASE StartDevice
  <2>1. SessionTypeOK'
    <3>1. NoParams \in [Params -> Nat]
      BY DEF NoParams
    <3>2. druns' \in 0 .. MaxSessions
      BY <1>1, <1>11, <1>a DEF StartDevice, SessionTypeOK
    <3> QED BY <1>1, <1>11, <3>1, <3>2 DEF StartDevice, SessionTypeOK, Registered, host, regs
  <2>2. SessionInv'
    BY <1>1, <1>11 DEF StartDevice, SessionTypeOK, SessionInv, host, regs
  <2>3. OptionsHonoured'
    BY <1>1, <1>11 DEF StartDevice, OptionsHonoured, host
  <2> QED BY <2>1, <2>2, <2>3
<1>12. CASE GetFileLength
  <2>1. SessionTypeOK'
    BY <1>1, <1>12 DEF GetFileLength, SessionTypeOK, host, regs
  <2>2. SessionInv'
    BY <1>1, <1>12 DEF GetFileLength, SessionTypeOK, SessionInv, host, regs
  <2>3. OptionsHonoured'
    BY <1>1, <1>12 DEF GetFileLength, OptionsHonoured, host
  <2> QED BY <2>1, <2>2, <2>3
<1>13. CASE GetEncParams
  <2>1. SessionTypeOK'
    <3>1. enc' \in [Params -> Nat]
      BY <1>1, <1>13, UnpackType DEF GetEncParams, SessionTypeOK
    <3>2. early' \in BOOLEAN
      BY <1>13, SMT DEF GetEncParams
    <3> QED BY <1>1, <1>13, <3>1, <3>2 DEF GetEncParams, SessionTypeOK, host, regs
  <2>2. hpc = "running" => enc' = params
    BY <1>1, <1>13, <1>b, PackingLossless DEF GetEncParams, SessionInv
  <2>3. SessionInv'
    BY <1>1, <1>13, <2>2 DEF GetEncParams, SessionTypeOK, SessionInv, host, regs
  <2>4. OptionsHonoured'
    BY <1>1, <1>13 DEF GetEncParams, OptionsHonoured, host
  <2> QED BY <2>1, <2>3, <2>4
<1>14. CASE UNCHANGED sessionVars
  <2>1. SessionTypeOK'
    BY <1>1, <1>14 DEF SessionTypeOK, sessionVars, host, regs, device
  <2>2. SessionInv'
    BY <1>1, <1>14 DEF SessionInv, sessionVars, host, regs, device
  <2>3. OptionsHonoured'
    BY <1>1, <1>14 DEF OptionsHonoured, sessionVars, host, regs, device
  <2> QED BY <2>1, <2>2, <2>3
<1> QED
  BY <1>1, <1>2, <1>3, <1>4, <1>5, <1>6, <1>7, <1>8, <1>9, <1>10, <1>11, <1>12, <1>13, <1>14
     DEF SessionNext

-----------------------------------------------------------------------------
LEMMA SessionHolds == SessionSpec => []IInvSession
BY SessionStarts, SessionKept, PTL DEF SessionSpec

\* The variables of both programs and the registers keep their types, and every
\* parameter stays in the range the host program accepts.
THEOREM SessionTypes == SessionSpec => []SessionTypeOK
<1>1. IInvSession => SessionTypeOK
  BY DEF IInvSession
<1> QED BY <1>1, SessionHolds, PTL

\* The device encodes with the parameters of this session's host program, for every
\* width of int, file and command line, and transcodes the length of this session's
\* file if an unsigned int holds it, and what is left of it otherwise.
THEOREM ParamsArrive == SessionSpec => []EncodesAsAsked
<1>1. SessionTypeOK /\ SessionInv => EncodesAsAsked
  <2>1. SUFFICES ASSUME SessionTypeOK, SessionInv, dpc = "transcode", ~noLength, ~early
                 PROVE  /\ enc = params
                        /\ \/ length = flen
                           \/ flen \notin 0 .. 2 ^ IntBits - 1 /\ length = AsUnsigned(flen)
    BY DEF EncodesAsAsked
  <2>2. enc = params /\ length = AsUnsigned(flen)
    BY <2>1 DEF SessionInv
  <2>3. flen \in 0 .. 2 ^ IntBits - 1 => AsUnsigned(flen) = flen
    BY SmallLength
  <2> QED BY <2>2, <2>3
<1>2. IInvSession => EncodesAsAsked
  BY <1>1 DEF IInvSession
<1> QED BY <1>2, SessionHolds, PTL

\* An option in its documented range (but for a GOP length of 1000) is used, any
\* other number gives the default.
THEOREM OptionsTaken == SessionSpec => []OptionsHonoured
<1>1. IInvSession => OptionsHonoured
  BY DEF IInvSession
<1> QED BY <1>1, SessionHolds, PTL
=============================================================================
