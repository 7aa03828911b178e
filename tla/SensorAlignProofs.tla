--------------------------- MODULE SensorAlignProofs ---------------------------
(***************************************************************************)
(* Proofs about the training of the sensor's lines, for any number of      *)
(* connections, of taps and of bits of a word, any lines and a clock of    *)
(* the sensor that stops and runs as it likes.                             *)
(*                                                                         *)
(* While no request has timed out the four-phase request keeps the two     *)
(* clocks in step (RequestInv): the command is carried out once, on the    *)
(* connection whose turn it is, before the aligner goes on.  So the tap it *)
(* counts is the tap in use (TapInv), even though the searches share their *)
(* counters, and the word it reads is a word of that line (DataInv).       *)
(*                                                                         *)
(* From this, with a manual tap, the slips pass through all rotations of   *)
(* the word (SlipInv).  In automatic mode a clean line leads the searches  *)
(* over its first edge, over its second and back between the two           *)
(* (OnTheWay).  Where CTRL_BITSLIP was left set by the connection before,  *)
(* the word slips with every command and no edge is ever stable for three  *)
(* samples (Slipping): such a line may be given up, but it is not said to  *)
(* be aligned.                                                             *)
(***************************************************************************)
EXTENDS SensorAlign, FiniteSetTheorems, TLAPS

\* The aligner works on a connection exactly while a request is under way; the last of its
\* searches slips the word and moves no tap.
TurnInv ==
  /\ al.state = "Idle" <=> hs = "Idle"
  /\ al.state # "Idle" => seq = "Off"
  /\ al.state = "Do_Word_Align" => cmd = [op |-> "none", slip |-> TRUE]
  /\ al.state = "WindowFound" => cmd.op = "dec"
  /\ al.state = "Reset_Delay_Man" => ~auto

\* Four phases: REQ rises, ACK rises, REQ falls, ACK falls; and again from the start.
RequestInv ==
  ~late =>
    /\ hs \in {"Idle", "End"} => ~req /\ ~ack /\ ~seen /\ sync = "Idle"
    /\ hs = "AckHigh" =>
         /\ req
         /\ \/ sync = "Idle" /\ ~ack
            \/ sync = "DataValid" /\ seen /\ ~ack
            \/ sync = "ReqLow" /\ seen /\ ack
    /\ hs = "AckLow" =>
         /\ ~req
         /\ \/ sync = "ReqLow" /\ ack
            \/ sync = "Idle" /\ ~ack /\ ~seen
    /\ hs # "Idle" /\ (hs # "AckHigh" \/ sync # "Idle") => sel = selector

\* The command of the request has yet to be carried out.
Before == hs = "AckHigh" /\ sync = "Idle"

Succ(r, m) == IF r = m - 1 THEN 0 ELSE r + 1
Pred(r, m) == IF r = 0 THEN m - 1 ELSE r - 1

\* What a command does to tap d of the delay line.
Moved(op, d) ==
  CASE op = "reset" -> 0
    [] op = "inc"   -> Succ(d, TapCountMax)
    [] op = "dec"   -> Pred(d, TapCountMax)
    [] OTHER        -> d

Aligner == [state : AlignState, tap : 0 .. TapRange - 1, max : Int, window : Nat, retry : Int,
            gen : Int, init : Words]

SearchStates ==
  {"Reset_Delay", "Get_Edge", "Wait_Sample_Stable", "CheckFirstEdgeChanged",
   "CheckFirstEdgeStable", "CheckSecondEdgeChanged"}

\* The tap counted is that of a line at tap d once op is carried out.  In the searches it
\* is also what maxcount has gone down: behind the last tap, where the overrun resets the
\* delay line alone, the counter is at the first tap again.
Tracks(a, op, d) ==
  a.max >= -1 =>
    /\ a.tap % TapCountMax = Moved(op, d)
    /\ a.state \in SearchStates =>
         a.tap % TapCountMax = IF a.max = -1 THEN 0 ELSE TapCountMax - 1 - a.max

TapInv ==
  /\ al.max < TapCountMax
  /\ ~late /\ seq = "Off" => Tracks(al, IF Before THEN cmd.op ELSE "none", delay[selector])

\* The word is one of the connection whose turn it is, which is in reset behind a reset.
DataInv ==
  ~late => \A c \in Conns : c = selector =>
    /\ hs \in {"AckLow", "End"} => data \in Sample(c)
    /\ al.state # "Idle" /\ ~Before => held[c] = (cmd.op = "reset")

AlignedInv ==
  ~late => \A c \in Conns : wordAlign[c] =>
    /\ al.state = "Idle" \/ c # selector
    /\ delay[c] \notin line[c].edges => Sample(c) = {0}
    /\ ~auto => tapSetting[c] % TapCountMax = delay[c]

\* With a manual tap there is no search, and the line is out of reset when the tap is set.
ManualInv ==
  ~auto /\ al.state # "Idle" =>
    /\ al.state \in {"Reset_Delay_Man", "Do_Word_Align"}
    /\ al.max = TapCountMax - 1 /\ al.gen >= -1
    /\ al.state = "Reset_Delay_Man" /\ al.gen < 0 => cmd.op = "inc"

Clear(c) == line[c].live /\ delay[c] \notin line[c].edges
Word(c)  == Settled(c, delay[c])

\* The slips that are left suffice to reach the training word.
SlipInv ==
  ~late /\ al.state = "Do_Word_Align" =>
    \A c \in Conns : c = selector /\ Clear(c) =>
      IF Before THEN Word(c) # 0 /\ Word(c) + al.gen >= DataWidth - 1
                ELSE Word(c) = 0 \/ Word(c) + al.gen >= DataWidth

\* Connection c has had its turn since the last reset of the receiver.
Done(c) ==
  \/ seq = "Idle" /\ aligned
  \/ seq # "Idle" /\ c < selector
  \/ seq = "Off" /\ al.state = "Idle" /\ c = selector

DoneInv == ~late /\ ~auto => \A c \in Conns : Done(c) /\ Clear(c) => wordAlign[c]

IInv ==
  /\ TypeOK /\ TurnInv /\ RequestInv /\ TapInv /\ DataInv /\ AlignedInv /\ ManualInv
  /\ SlipInv /\ DoneInv

\* The edges of a clean line.
Eye(c, e, f) ==
  line[c].live /\ line[c].edges = {e, f} /\ 0 < e /\ e + 9 <= f /\ f < TapCountMax - 1

\* A word that is seen is seen by the edge detector; during the searches CTRL_BITSLIP stays as
\* it was when the turn came, and only Reset_Delay waits for a reset.
HeardInv ==
  /\ ~late /\ hs \in {"AckLow", "End"} /\ data # Blank => edge
  /\ al.state \in SearchStates =>
       /\ al.state = "Reset_Delay" <=> cmd.op = "reset"
       /\ al.state = "CheckFirstEdgeStable" => cmd.op = "none"
       /\ cmd.slip = dirty[selector]

\* Where words slip no edge is stable: two samples in a row may be the same, on an edge, but
\* never three.
Slipping(c) ==
  LET turned == Ror(al.init, 1)
  IN
  /\ al.state \in SearchStates \ {"CheckSecondEdgeChanged"}
  /\ al.state \notin {"Reset_Delay", "Get_Edge"} => al.init # Blank
  /\ al.state = "CheckFirstEdgeStable" =>
       /\ al.init \in Bits
       /\ al.gen \in {StableCount - 1, StableCount - 2}
       /\ IF Before
            THEN \/ turned = Word(c)
                 \/ turned = Rotate(Word(c), 1) /\ al.gen = StableCount - 1
            ELSE \/ Word(c) = Rotate(turned, 1)
                 \/ Word(c) = turned /\ al.gen = StableCount - 1

SlippingInv ==
  ~late /\ auto /\ al.state # "Idle" =>
    \A c \in Conns : c = selector /\ line[c].live /\ dirty[c] => Slipping(c)

\* How the searches find their way on a clean line with edges e and f.
OnTheWay(c, e, f) ==
  LET first == al.init = line[c].phase
  IN
  /\ al.state \in SearchStates =>
       /\ al.max = TapCountMax - 1 - al.tap
       /\ slips[c] = 0 \/ (al.state = "Reset_Delay" /\ Before)
  /\ al.state \in {"Reset_Delay", "Get_Edge"} => al.tap = 0 /\ al.retry >= 0 /\ al.window = 0
  /\ al.state = "Wait_Sample_Stable" => al.tap = 0 /\ first /\ al.window = 0
  /\ al.state = "CheckFirstEdgeChanged" => al.tap \in 1 .. e + 1 /\ first /\ al.window = 0
  /\ al.state = "CheckFirstEdgeStable" => al.tap \in e .. e + 1 /\ first /\ al.window = 0
  /\ al.state = "CheckSecondEdgeChanged" =>
       al.tap - al.window \in e .. e + 1 /\ al.tap <= f + 1 /\ first
  /\ al.state = "WindowFound" =>
       /\ al.gen >= -1 /\ e < al.tap - (al.gen + 1) /\ al.tap - (al.gen + 1) < f
       /\ al.tap <= f
  /\ al.state = "Do_Word_Align" => e < al.tap /\ al.tap < f
  /\ al.max >= -1

CleanInv ==
  ~late /\ auto /\ al.state # "Idle" =>
    \A c \in Conns : \A e, f \in Taps :
      c = selector /\ Eye(c, e, f) /\ ~dirty[c] => OnTheWay(c, e, f)

EyeInv ==
  ~late /\ auto => \A c \in Conns : GoodEye(c) =>
    /\ wordAlign[c] =>
         delay[c] \notin line[c].edges /\ tapSetting[c] % TapCountMax = delay[c]
    /\ Done(c) /\ ~dirty[c] => wordAlign[c]

EInv == HeardInv /\ SlippingInv /\ CleanInv /\ EyeInv

-----------------------------------------------------------------------------
(* Counting round a delay line and round a word.                            *)

LEMMA Remainder ==
  ASSUME NEW m \in Nat \ {0}, NEW q \in Int, NEW r \in 0 .. m - 1
  PROVE  (q * m + r) % m = r
<1> DEFINE x == q * m + r
           p == x \div m
           s == x % m
<1>1. q * m \in Int /\ x \in Int
  OBVIOUS
<1>2. p \in Int /\ s \in 0 .. m - 1 /\ x = m * p + s
  BY <1>1
<1>3. m * p \in Int /\ m * p - q * m = r - s
  BY <1>1, <1>2
<1>4. m * (p - q) = r - s
  BY <1>2, <1>3
<1>5. p - q = 0
  <2> DEFINE k == p - q
  <2>1. k \in Int /\ m * k = r - s
    BY <1>2, <1>4
  <2> HIDE DEF k, p, s
  <2>2. -m < m * k /\ m * k < m
    BY <2>1, <1>2
  <2>3. k >= 1 => m * k >= m
    BY <2>1
  <2>4. k <= -1 => m * k <= -m
    BY <2>1
  <2>5. k = 0
    BY <2>1, <2>2, <2>3, <2>4
  <2> QED BY <2>5 DEF k
<1>6. m * 0 = 0
  OBVIOUS
<1> QED BY <1>2, <1>4, <1>5, <1>6

LEMMA Quotient ==
  ASSUME NEW m \in Nat \ {0}, NEW x \in Int
  PROVE  x % m \in 0 .. m - 1 /\ \E q \in Int : x = q * m + (x % m)
<1>1. x % m \in 0 .. m - 1 /\ x \div m \in Int /\ x = m * (x \div m) + (x % m)
  OBVIOUS
<1>2. \A q \in Int : m * q = q * m
  OBVIOUS
<1> QED BY <1>1, <1>2

\* A remainder may be taken before a sum is.
LEMMA ModAdd ==
  ASSUME NEW m \in Nat \ {0}, NEW x \in Int, NEW y \in Int
  PROVE  ((x % m) + y) % m = (x + y) % m
<1>1. PICK q \in Int : x = q * m + (x % m)
  BY Quotient
<1> DEFINE z == (x % m) + y
<1>2. x % m \in 0 .. m - 1 /\ z \in Int
  BY Quotient
<1>3. PICK p \in Int : z = p * m + (z % m)
  BY <1>2, Quotient
<1>4. z % m \in 0 .. m - 1
  BY <1>2, Quotient
<1>5. x + y = (q + p) * m + (z % m)
  <2>1. q * m \in Int /\ p * m \in Int /\ (q + p) * m = q * m + p * m
    OBVIOUS
  <2> HIDE DEF z
  <2>2. x + y = q * m + z
    BY <1>1, <1>2, <2>1 DEF z
  <2> QED BY <1>3, <1>4, <2>1, <2>2
<1> HIDE DEF z
<1>6. ((q + p) * m + (z % m)) % m = z % m
  BY SMTT(40), <1>4, Remainder
<1> QED BY <1>5, <1>6 DEF z

LEMMA SmallMod ==
  ASSUME NEW m \in Nat \ {0}, NEW r \in 0 .. m - 1
  PROVE  r % m = r
<1>1. 0 * m + r = r
  OBVIOUS
<1> QED BY <1>1, Remainder, 0 \in Int

LEMMA WholeMod ==
  ASSUME NEW m \in Nat \ {0}
  PROVE  m % m = 0
<1>1. 1 * m + 0 = m /\ 0 \in 0 .. m - 1
  OBVIOUS
<1> QED BY <1>1, Remainder, 1 \in Int

\* Counting on, and back, with a number that is small already.
LEMMA Counts ==
  ASSUME NEW m \in Nat \ {0}, NEW r \in 0 .. m - 1
  PROVE  /\ Succ(r, m) \in 0 .. m - 1 /\ (r + 1) % m = Succ(r, m)
         /\ Pred(r, m) \in 0 .. m - 1 /\ (r + m - 1) % m = Pred(r, m)
<1>1. (r + 1) % m = Succ(r, m)
  <2>1. CASE r = m - 1
    BY <2>1, WholeMod DEF Succ
  <2>2. CASE r # m - 1
    BY <2>2, r + 1 \in 0 .. m - 1, SmallMod DEF Succ
  <2> QED BY <2>1, <2>2
<1>2. (r + m - 1) % m = Pred(r, m)
  <2>1. CASE r = 0
    BY <2>1, m - 1 \in 0 .. m - 1, 0 + m - 1 = m - 1, SmallMod DEF Pred
  <2>2. CASE r # 0
    <3>1. r - 1 \in 0 .. m - 1 /\ 1 * m + (r - 1) = r + m - 1
      BY <2>2
    <3> QED BY <2>2, <3>1, Remainder, 1 \in Int DEF Pred
  <2> QED BY <2>1, <2>2
<1> QED BY <1>1, <1>2 DEF Succ, Pred

\* The ten bits of tapcount overflow where the delay line is at an end as well.
LEMMA TapCounts ==
  ASSUME NEW t \in 0 .. TapRange - 1
  PROVE  /\ t % TapCountMax \in 0 .. TapCountMax - 1
         /\ (t + 1) % TapRange \in 0 .. TapRange - 1
         /\ ((t + 1) % TapRange) % TapCountMax = Succ(t % TapCountMax, TapCountMax)
         /\ (t + TapRange - 1) % TapRange \in 0 .. TapRange - 1
         /\ ((t + TapRange - 1) % TapRange) % TapCountMax = Pred(t % TapCountMax, TapCountMax)
<1> DEFINE m == TapCountMax
           n == TapRange
           r == t % m
<1>1. m \in Nat \ {0} /\ n \in Nat \ {0} /\ n % m = 0
  BY AlignAssumption
<1>2. r \in 0 .. m - 1 /\ t \in Int
  BY <1>1, Quotient
<1> HIDE DEF m, n
<1>3. (t + 1) % n = Succ(t, n) /\ (t + n - 1) % n = Pred(t, n)
      /\ Succ(t, n) \in 0 .. n - 1 /\ Pred(t, n) \in 0 .. n - 1
  BY <1>1, Counts, t \in 0 .. n - 1 DEF n
<1>4. (t + 1) % m = Succ(r, m) /\ (t - 1) % m = Pred(r, m)
  <2>1. (r + 1) % m = (t + 1) % m
    BY <1>1, <1>2, ModAdd, 1 \in Int
  <2>2. (r + (m - 1)) % m = (t + (m - 1)) % m
    BY <1>1, <1>2, ModAdd, m - 1 \in Int
  <2>3. (t - 1) % m = (t + (m - 1)) % m
    <3>1. ((m % m) + (t - 1)) % m = (m + (t - 1)) % m
      BY <1>1, <1>2, ModAdd, t - 1 \in Int, m \in Int
    <3>2. (m % m) + (t - 1) = t - 1 /\ m + (t - 1) = t + (m - 1)
      BY <1>1, <1>2, WholeMod
    <3> QED BY <3>1, <3>2
  <2>4. r + (m - 1) = r + m - 1
    BY <1>1, <1>2
  <2> QED BY <1>1, <1>2, <2>1, <2>2, <2>3, <2>4, Counts
<1>5. t = n - 1 => Succ(r, m) = 0
  <2>1. t = n - 1 => (t + 1) % m = 0
    BY <1>1, <1>2
  <2> QED BY <1>4, <2>1
<1>6. t = 0 => r = 0 /\ (n - 1) % m = Pred(r, m)
  <2>1. SUFFICES ASSUME t = 0 PROVE r = 0 /\ (n - 1) % m = Pred(r, m)
    OBVIOUS
  <2>2. r = 0
    BY <1>1, <2>1, SmallMod, 0 \in 0 .. m - 1
  <2>3. ((n % m) + (t - 1)) % m = (n + (t - 1)) % m
    BY <1>1, <1>2, ModAdd, t - 1 \in Int, n \in Int
  <2>4. (n % m) + (t - 1) = t - 1 /\ n + (t - 1) = n - 1
    BY <1>1, <2>1
  <2> QED BY <1>4, <2>2, <2>3, <2>4
<1>7. Succ(t, n) % m = Succ(r, m)
  <2>1. CASE t = n - 1
    BY <1>1, <1>5, <2>1, SmallMod, 0 \in 0 .. m - 1 DEF Succ
  <2>2. CASE t # n - 1
    BY <1>4, <2>2 DEF Succ
  <2> QED BY <2>1, <2>2
<1>8. Pred(t, n) % m = Pred(r, m)
  <2>1. CASE t = 0
    BY <1>6, <2>1 DEF Pred
  <2>2. CASE t # 0
    BY <1>4, <2>2 DEF Pred
  <2> QED BY <2>1, <2>2
<1>9. /\ r \in 0 .. m - 1 /\ (t + 1) % n \in 0 .. n - 1
      /\ ((t + 1) % n) % m = Succ(r, m) /\ (t + n - 1) % n \in 0 .. n - 1
      /\ ((t + n - 1) % n) % m = Pred(r, m)
  BY <1>2, <1>3, <1>7, <1>8
<1> QED BY <1>9 DEF m, n

-----------------------------------------------------------------------------
(* The words of a line.                                                     *)

Wire == [live : BOOLEAN, phase : Bits, edges : SUBSET Taps]

\* The word behind s slips at tap d.
WordOf(w, s, d) ==
  Ror(Rotate(w.phase, s), Cardinality({e \in w.edges : e <= d}) % DataWidth)

LEMMA WidthType == DataWidth \in Nat \ {0} /\ TapCountMax \in Nat \ {0} /\ TapRange \in Nat \ {0}
BY AlignAssumption

LEMMA Rotates ==
  ASSUME NEW w \in Int, NEW n \in Int
  PROVE  Rotate(w, n) \in Bits /\ Ror(w, n) \in Bits
BY WidthType, Quotient, w + n \in Int, w + DataWidth - n \in Int DEF Rotate, Ror, Bits

LEMMA EdgeCount ==
  ASSUME NEW w \in Wire, NEW d \in Taps
  PROVE  Cardinality({e \in w.edges : e <= d}) % DataWidth \in Bits
<1> DEFINE S == {e \in w.edges : e <= d}
<1>1. S \subseteq 0 .. TapCountMax - 1
  BY DEF Wire, Taps
<1>2. IsFiniteSet(0 .. TapCountMax - 1)
  BY FS_Interval, WidthType, 0 \in Int, TapCountMax - 1 \in Int
<1>3. IsFiniteSet(S)
  BY <1>1, <1>2, FS_Subset
<1>4. Cardinality(S) \in Int
  BY <1>3, FS_CardinalityType
<1> HIDE DEF S
<1>5. Cardinality(S) % DataWidth \in Bits
  BY <1>4, WidthType, Quotient DEF Bits
<1> QED BY <1>5 DEF S

LEMMA WordType ==
  ASSUME NEW w \in Wire, NEW s \in Bits, NEW d \in Taps
  PROVE  WordOf(w, s, d) \in Bits
<1> DEFINE k == Cardinality({e \in w.edges : e <= d}) % DataWidth
<1>1. k \in Bits /\ w.phase \in Bits
  BY EdgeCount DEF Wire
<1> HIDE DEF k
<1>2. k \in Int /\ w.phase \in Int /\ s \in Int
  BY <1>1, WidthType DEF Bits
<1>3. Rotate(w.phase, s) \in Int
  <2>1. Rotate(w.phase, s) \in Bits
    BY <1>2, Rotates
  <2> QED BY <2>1, WidthType DEF Bits
<1>4. Ror(Rotate(w.phase, s), k) \in Bits
  BY <1>2, <1>3, Rotates
<1> QED BY <1>4 DEF WordOf, k

\* A bit slip rotates the word by one.
LEMMA WordSlips ==
  ASSUME NEW w \in Wire, NEW s \in Bits, NEW d \in Taps
  PROVE  WordOf(w, Rotate(s, 1), d) = Succ(WordOf(w, s, d), DataWidth)
<1> DEFINE m == DataWidth
           k == Cardinality({e \in w.edges : e <= d}) % DataWidth
           p == w.phase
           v == (p + s) % m
           u == (v + (m - k)) % m
<1>1. k \in Bits /\ p \in Bits /\ m \in Nat \ {0}
  BY EdgeCount, WidthType DEF Wire
<1> HIDE DEF k, m, p
<1>2. k \in Int /\ p \in Int /\ s \in Int
  BY <1>1 DEF Bits, m
<1>3. v \in Int /\ u \in 0 .. m - 1
  <2>1. v \in 0 .. m - 1
    BY <1>1, <1>2, Quotient, p + s \in Int
  <2>2. v \in Int /\ v + (m - k) \in Int
    BY <1>1, <1>2, <2>1
  <2> QED BY <1>1, <2>2, Quotient
<1>4. (p + ((s + 1) % m)) % m = (p + s + 1) % m
  <2>1. (((s + 1) % m) + p) % m = ((s + 1) + p) % m
    BY <1>1, <1>2, ModAdd, s + 1 \in Int
  <2>2. (s + 1) % m \in Int
    BY <1>1, <1>2, Quotient, s + 1 \in Int
  <2>3. ((s + 1) % m) + p = p + ((s + 1) % m) /\ (s + 1) + p = p + s + 1
    BY <1>2, <2>2
  <2> QED BY <2>1, <2>3
<1>5. (((p + s + 1) % m) + (m - k)) % m = ((v + (m - k)) + 1) % m
  <2>1. (((p + s + 1) % m) + (m - k)) % m = ((p + s + 1) + (m - k)) % m
    BY <1>1, <1>2, ModAdd, p + s + 1 \in Int, m - k \in Int
  <2>2. (v + ((m - k) + 1)) % m = ((p + s) + ((m - k) + 1)) % m
    BY <1>1, <1>2, ModAdd, p + s \in Int, (m - k) + 1 \in Int
  <2>3. (p + s + 1) + (m - k) = (p + s) + ((m - k) + 1)
        /\ v + ((m - k) + 1) = (v + (m - k)) + 1
    <3> HIDE DEF v
    <3> QED BY <1>1, <1>2, <1>3
  <2> QED BY <2>1, <2>2, <2>3
<1>6. ((v + (m - k)) + 1) % m = (u + 1) % m
  <2>1. v + (m - k) \in Int
    BY <1>1, <1>2, <1>3
  <2> QED BY <1>1, <2>1, ModAdd, 1 \in Int
<1>7. (u + 1) % m = Succ(u, m)
  BY <1>1, <1>3, Counts
<1>8. \A x \in Int : x + m - k = x + (m - k)
  BY <1>1, <1>2
<1>9. (p + s + 1) % m \in Int
  BY <1>1, <1>2, Quotient, p + s + 1 \in Int
<1>10. (((p + s + 1) % m) + m - k) % m = Succ(u, m)
  <2> HIDE DEF u, v
  <2> QED BY <1>5, <1>6, <1>7, <1>8, <1>9
<1>11. u = (v + m - k) % m
  BY <1>3, <1>8
<1>12. (((p + ((s + 1) % m)) % m) + m - k) % m = Succ((v + m - k) % m, m)
  BY <1>4, <1>10, <1>11
<1> QED BY <1>12 DEF WordOf, Ror, Rotate, k, p, m

-----------------------------------------------------------------------------
(* The tap counted.                                                         *)

Command == [op : {"none", "reset", "inc", "dec"}, slip : BOOLEAN]

LEMMA TapMoves ==
  ASSUME NEW op, NEW d \in Taps
  PROVE  /\ Moved(op, d) \in Taps
         /\ (CASE op = "reset" -> 0
               [] op = "inc"   -> (d + 1) % TapCountMax
               [] op = "dec"   -> (d + TapCountMax - 1) % TapCountMax
               [] OTHER        -> d) = Moved(op, d)
<1>1. d \in 0 .. TapCountMax - 1 /\ TapCountMax \in Nat \ {0}
  BY WidthType DEF Taps
<1>2. /\ Succ(d, TapCountMax) \in 0 .. TapCountMax - 1
      /\ (d + 1) % TapCountMax = Succ(d, TapCountMax)
      /\ Pred(d, TapCountMax) \in 0 .. TapCountMax - 1
      /\ (d + TapCountMax - 1) % TapCountMax = Pred(d, TapCountMax)
  BY <1>1, Counts
<1>3. 0 \in 0 .. TapCountMax - 1
  BY <1>1
<1> QED BY <1>1, <1>2, <1>3 DEF Moved, Taps

LEMMA FurtherTracks ==
  ASSUME NEW a \in Aligner, NEW d \in Taps, a.max < TapCountMax,
         a.state \in SearchStates, NEW state \in SearchStates
  PROVE  /\ Further(a, state) \in Aligner /\ Further(a, state).max < TapCountMax
         /\ Further(a, state).state = state
         /\ Tracks(a, "none", d) => Tracks(Further(a, state), "inc", d)
<1> DEFINE b == Further(a, state)
<1>1. a.tap \in 0 .. TapRange - 1 /\ a.max \in Int
  BY DEF Aligner
<1>2. /\ (a.tap + 1) % TapRange \in 0 .. TapRange - 1
      /\ ((a.tap + 1) % TapRange) % TapCountMax = Succ(a.tap % TapCountMax, TapCountMax)
  BY <1>1, TapCounts
<1>3. b = [a EXCEPT !.state = state, !.tap = (a.tap + 1) % TapRange, !.max = a.max - 1]
  BY DEF Further
<1>4. b \in Aligner /\ b.state = state /\ b.tap = (a.tap + 1) % TapRange /\ b.max = a.max - 1
  <2> DEFINE t == (a.tap + 1) % TapRange
  <2>1. t \in 0 .. TapRange - 1 /\ a.max - 1 \in Int /\ state \in AlignState
    BY <1>1, <1>2 DEF SearchStates, AlignState
  <2>2. b = [a EXCEPT !.state = state, !.tap = t, !.max = a.max - 1]
    BY <1>3
  <2> HIDE DEF t, b
  <2>3. b \in Aligner /\ b.state = state /\ b.tap = t /\ b.max = a.max - 1
    BY <2>1, <2>2 DEF Aligner
  <2> QED BY <2>3 DEF t
<1> HIDE DEF b
<1>5. Tracks(a, "none", d) => Tracks(b, "inc", d)
  <2>1. SUFFICES ASSUME Tracks(a, "none", d), b.max >= -1
                 PROVE  /\ b.tap % TapCountMax = Succ(d, TapCountMax)
                        /\ b.tap % TapCountMax
                             = IF b.max = -1 THEN 0 ELSE TapCountMax - 1 - b.max
    BY DEF Tracks, Moved
  <2>2. a.max >= 0
    BY <1>1, <1>4, <2>1
  <2>3. a.tap % TapCountMax = d /\ a.tap % TapCountMax = TapCountMax - 1 - a.max
    <3>1. a.max >= -1 /\ a.max # -1
      BY <1>1, <2>2
    <3> QED BY <2>1, <3>1 DEF Tracks, Moved
  <2>4. b.tap % TapCountMax = Succ(d, TapCountMax) /\ d = TapCountMax - 1 - a.max
    BY <1>2, <1>4, <2>3
  <2>5. Succ(d, TapCountMax) = IF b.max = -1 THEN 0 ELSE TapCountMax - 1 - b.max
    BY <1>1, <1>4, <2>2, <2>4, WidthType DEF Succ
  <2> QED BY <2>4, <2>5
<1> QED BY <1>1, <1>4, <1>5, WidthType DEF b

LEMMA ResetTracks ==
  ASSUME NEW a \in Aligner, NEW d \in Taps
  PROVE  LET b == [a EXCEPT !.state = "Reset_Delay", !.tap = 0, !.max = TapCountMax - 1]
         IN  /\ b \in Aligner /\ b.max < TapCountMax /\ b.state = "Reset_Delay"
             /\ Tracks(b, "reset", d)
<1> DEFINE b == [a EXCEPT !.state = "Reset_Delay", !.tap = 0, !.max = TapCountMax - 1]
<1>1. 0 \in 0 .. TapRange - 1 /\ TapCountMax - 1 \in Int
  BY WidthType
<1>2. b \in Aligner /\ b.state = "Reset_Delay" /\ b.tap = 0 /\ b.max = TapCountMax - 1
  BY <1>1 DEF Aligner, AlignState
<1> HIDE DEF b
<1>3. 0 % TapCountMax = 0
  BY WidthType, SmallMod, 0 \in 0 .. TapCountMax - 1
<1>4. b.max # -1 /\ TapCountMax - 1 - b.max = 0 /\ b.max < TapCountMax
  BY <1>2, WidthType
<1>5. Tracks(b, "reset", d)
  BY <1>2, <1>3, <1>4 DEF Tracks, Moved
<1> QED BY <1>2, <1>4, <1>5 DEF b

\* The last tap passed, the delay line starts again; else it is one tap further.
LEMMA NextTapTracks ==
  ASSUME NEW a \in Aligner, NEW d \in Taps, a.max < TapCountMax,
         a.state \in SearchStates, NEW state \in SearchStates,
         NextTap(a, state)
  PROVE  \E op \in {"reset", "inc"} :
           /\ Do(op) /\ al' \in Aligner /\ al'.max < TapCountMax
           /\ al'.state \in SearchStates
           /\ Tracks(a, "none", d) => Tracks(al', op, d)
<1>1. CASE a.max < 0
  <2> DEFINE b == [a EXCEPT !.state = "Reset_Delay", !.tap = 0, !.max = TapCountMax - 1]
  <2>1. al' = b /\ Do("reset")
    BY <1>1 DEF NextTap
  <2>2. b \in Aligner /\ b.max < TapCountMax /\ b.state \in SearchStates /\ Tracks(b, "reset", d)
    BY ResetTracks DEF SearchStates
  <2> HIDE DEF b
  <2> QED BY <2>1, <2>2
<1>2. CASE ~(a.max < 0)
  <2>1. al' = Further(a, state) /\ Do("inc")
    BY <1>2 DEF NextTap
  <2> QED BY <2>1, FurtherTracks
<1> QED BY <1>1, <1>2

\* Outside the searches the tap is counted on or back with every command.
LEMMA BesideTracks ==
  ASSUME NEW a \in Aligner, NEW d \in Taps, a.max < TapCountMax,
         NEW state \in AlignState \ SearchStates, NEW g \in Int
  PROVE  /\ [a EXCEPT !.state = state, !.gen = g] \in Aligner
         /\ Tracks(a, "none", d) => Tracks([a EXCEPT !.state = state, !.gen = g], "none", d)
         /\ [a EXCEPT !.state = state, !.tap = (@ + 1) % TapRange, !.gen = g] \in Aligner
         /\ Tracks(a, "none", d) => Tracks([a EXCEPT !.state = state, !.tap = (@ + 1) % TapRange, !.gen = g], "inc", d)
         /\ [a EXCEPT !.state = state, !.tap = (@ + TapRange - 1) % TapRange, !.gen = g] \in Aligner
         /\ Tracks(a, "none", d) =>
              Tracks([a EXCEPT !.state = state, !.tap = (@ + TapRange - 1) % TapRange, !.gen = g],
                     "dec", d)
<1> DEFINE b(t) == [a EXCEPT !.state = state, !.tap = t, !.gen = g]
<1>1. a.tap \in 0 .. TapRange - 1 /\ a.max \in Int
  BY DEF Aligner
<1>2. \A t \in 0 .. TapRange - 1 :
        b(t) \in Aligner /\ b(t).state = state /\ b(t).tap = t /\ b(t).max = a.max
  BY DEF Aligner
<1>3. [a EXCEPT !.state = state, !.gen = g] = b(a.tap)
  BY DEF Aligner
<1> HIDE DEF b
<1>4. \A op : \A t \in 0 .. TapRange - 1 :
        (a.tap % TapCountMax = d => t % TapCountMax = Moved(op, d)) =>
          (Tracks(a, "none", d) => Tracks(b(t), op, d))
  <2>1. SUFFICES ASSUME NEW op, NEW t \in 0 .. TapRange - 1, b(t).max >= -1,
                        Tracks(a, "none", d),
                        a.tap % TapCountMax = d => t % TapCountMax = Moved(op, d)
                 PROVE  b(t).tap % TapCountMax = Moved(op, d) /\ b(t).state \notin SearchStates
    BY DEF Tracks
  <2>2. a.tap % TapCountMax = d
    BY <1>2, <2>1 DEF Tracks, Moved
  <2> QED BY <1>2, <2>1, <2>2
<1>5. /\ a.tap % TapCountMax = d => a.tap % TapCountMax = Moved("none", d)
      /\ a.tap % TapCountMax = d => ((a.tap + 1) % TapRange) % TapCountMax = Moved("inc", d)
      /\ a.tap % TapCountMax = d =>
           ((a.tap + TapRange - 1) % TapRange) % TapCountMax = Moved("dec", d)
  BY <1>1, TapCounts DEF Moved
<1>6. (a.tap + 1) % TapRange \in 0 .. TapRange - 1 /\ (a.tap + TapRange - 1) % TapRange \in 0 .. TapRange - 1
  BY <1>1, TapCounts
<1>7. /\ b(a.tap) \in Aligner /\ b((a.tap + 1) % TapRange) \in Aligner
      /\ b((a.tap + TapRange - 1) % TapRange) \in Aligner
      /\ Tracks(a, "none", d) =>
           /\ Tracks(b(a.tap), "none", d)
           /\ Tracks(b((a.tap + 1) % TapRange), "inc", d)
           /\ Tracks(b((a.tap + TapRange - 1) % TapRange), "dec", d)
  BY <1>1, <1>2, <1>4, <1>5, <1>6
<1> QED BY <1>3, <1>7 DEF b

\* What is neither the tap counted nor maxcount does not matter in a search.
LEMMA SameTracks ==
  ASSUME NEW a \in Aligner, NEW b \in Aligner, b.tap = a.tap, b.max = a.max,
         a.state \in SearchStates, NEW op, NEW d
  PROVE  Tracks(a, op, d) => Tracks(b, op, d)
BY DEF Tracks

-----------------------------------------------------------------------------
(* A step of the aligner asks for one more command, or gives up the line or *)
(* is done with it.                                                         *)

AsksOn ==
  /\ hs = "End" /\ al.state # "Idle"
  /\ hs' = "AckHigh" /\ req' = TRUE /\ edge' \in BOOLEAN /\ cmd' \in Command
  /\ al' \in Aligner /\ al'.state # "Idle" /\ al'.max < TapCountMax
  /\ al'.state = "Do_Word_Align" => cmd' = [op |-> "none", slip |-> TRUE]
  /\ al'.state = "WindowFound" => cmd'.op = "dec"
  /\ al'.state = "Reset_Delay_Man" => ~auto
  /\ ~late => Tracks(al', cmd'.op, delay[selector])
  /\ SlipInv' /\ (~auto => ManualInv')
  /\ UNCHANGED <<seq, report, dirty, Elsewhere>>

Ends(ok) ==
  /\ hs = "End" /\ al.state # "Idle"
  /\ Finish(ok)
  /\ ok => /\ data = 0
           /\ \/ al.state = "Do_Word_Align"
              \/ al.state \in {"WindowFound", "Reset_Delay_Man"} /\ al.gen < 0
  /\ ~ok => al.state = "Do_Word_Align" \/ (al.state = "Get_Edge" /\ al.retry < 0)
  /\ ~ok /\ ~late /\ (~auto \/ al.state = "Do_Word_Align") =>
       \A c \in Conns : c = selector => ~Clear(c)
  /\ UNCHANGED <<seq, dirty, Elsewhere>>

\* What a step of the aligner finds.
LEMMA Found ==
  ASSUME IInv, hs = "End"
  PROVE  /\ al \in Aligner /\ al.max < TapCountMax /\ al.state # "Idle"
         /\ data \in Words /\ edge \in BOOLEAN /\ cmd \in Command
         /\ selector \in Conns /\ delay[selector] \in Taps /\ seq = "Off"
         /\ ~late => Tracks(al, "none", delay[selector])
         /\ al.state \in SearchStates => auto
<1>1. /\ al \in Aligner /\ data \in Words /\ edge \in BOOLEAN /\ cmd \in Command
      /\ selector \in Conns /\ delay[selector] \in Taps
  BY DEF IInv, TypeOK, Aligner, Command
<1>2. al.state # "Idle" /\ seq = "Off"
  BY DEF IInv, TurnInv
<1>3. al.max < TapCountMax /\ (~late => Tracks(al, "none", delay[selector]))
  BY <1>2 DEF IInv, TapInv, Before
<1>4. al.state \in SearchStates => auto
  BY <1>2 DEF IInv, ManualInv, SearchStates
<1> QED BY <1>1, <1>2, <1>3, <1>4

LEMMA Asks ==
  ASSUME IInv, hs = "End", NEW c \in Command, Issue(c)
  PROVE  /\ hs' = "AckHigh" /\ req' = TRUE /\ edge' \in BOOLEAN /\ cmd' = c
BY DEF Issue, HasEdge

LEMMA DoAsks ==
  ASSUME IInv, hs = "End", NEW op \in {"none", "reset", "inc", "dec"}, Do(op)
  PROVE  /\ hs' = "AckHigh" /\ req' = TRUE /\ edge' \in BOOLEAN
         /\ cmd' \in Command /\ cmd'.op = op /\ cmd'.slip = cmd.slip
<1>1. cmd \in Command
  BY Found
<1> DEFINE e == [cmd EXCEPT !.op = op]
<1>2. e \in Command /\ e.op = op /\ e.slip = cmd.slip
  BY <1>1 DEF Command
<1>3. Issue(e)
  BY DEF Do
<1> HIDE DEF e
<1> QED BY <1>2, <1>3, Asks

\* A command of a search.
LEMMA SearchAsks ==
  ASSUME IInv, hs = "End", al.state \in SearchStates,
         NEW op \in {"none", "reset", "inc", "dec"}, Do(op),
         al' \in Aligner, al'.max < TapCountMax,
         al'.state \in SearchStates \/ (al'.state = "WindowFound" /\ op = "dec"),
         Tracks(al, "none", delay[selector]) => Tracks(al', op, delay[selector]),
         UNCHANGED <<seq, report, dirty, Elsewhere>>
  PROVE  AsksOn
<1>1. auto /\ al.state # "Idle" /\ (~late => Tracks(al, "none", delay[selector]))
  BY Found
<1>2. hs' = "AckHigh" /\ req' = TRUE /\ edge' \in BOOLEAN /\ cmd' \in Command /\ cmd'.op = op
  BY DoAsks
<1>3. /\ al'.state \notin {"Idle", "Do_Word_Align", "Reset_Delay_Man"}
      /\ al'.state = "WindowFound" => op = "dec"
  BY DEF SearchStates
<1>4. SlipInv'
  BY <1>3 DEF SlipInv
<1> QED BY <1>1, <1>2, <1>3, <1>4 DEF AsksOn

\* The same, to the next tap.
LEMMA SearchNext ==
  ASSUME IInv, hs = "End", al.state \in SearchStates, NEW state \in SearchStates,
         NEW a \in Aligner, a.tap = al.tap, a.max = al.max, a.state = al.state,
         NextTap(a, state),
         UNCHANGED <<seq, report, dirty, Elsewhere>>
  PROVE  AsksOn
<1>1. PICK d \in Taps : d = delay[selector]
  BY Found
<1>2. PICK x \in Aligner : x = al
  BY Found
<1>3. a.max < TapCountMax /\ a.state \in SearchStates
  BY Found
<1>4. PICK op \in {"reset", "inc"} :
        /\ Do(op) /\ al' \in Aligner /\ al'.max < TapCountMax /\ al'.state \in SearchStates
        /\ Tracks(a, "none", d) => Tracks(al', op, d)
  BY <1>3, NextTapTracks
<1>5. Tracks(x, "none", d) => Tracks(a, "none", d)
  BY <1>2, SameTracks
<1>6. Tracks(al, "none", delay[selector]) => Tracks(al', op, delay[selector])
  BY <1>1, <1>2, <1>4, <1>5
<1>7. op \in {"none", "reset", "inc", "dec"}
  BY <1>4
<1> QED BY <1>4, <1>6, <1>7, SearchAsks

\* The same, without a look at the number of taps.
LEMMA SearchFurther ==
  ASSUME IInv, hs = "End", al.state \in SearchStates, NEW state \in SearchStates,
         NEW w \in Nat, NEW g \in Int,
         al' = [Further(al, state) EXCEPT !.window = w, !.gen = g], Do("inc"),
         UNCHANGED <<seq, report, dirty, Elsewhere>>
  PROVE  AsksOn
<1>1. PICK d \in Taps : d = delay[selector]
  BY Found
<1>2. PICK a \in Aligner : a = al
  BY Found
<1>3. a.max < TapCountMax /\ a.state \in SearchStates
  BY <1>2, Found
<1> DEFINE f == Further(a, state)
           b == [f EXCEPT !.window = w, !.gen = g]
<1>4. f \in Aligner /\ f.max < TapCountMax /\ f.state = state
      /\ (Tracks(a, "none", d) => Tracks(f, "inc", d))
  BY <1>3, FurtherTracks
<1>5. al' = b
  BY <1>2
<1> HIDE DEF f
<1>6. b \in Aligner /\ b.tap = f.tap /\ b.max = f.max /\ b.state = state
  BY <1>4 DEF Aligner
<1> HIDE DEF b
<1>7. Tracks(f, "inc", d) => Tracks(b, "inc", d)
  BY <1>4, <1>6, SameTracks
<1>8. al' \in Aligner /\ al'.state \in SearchStates /\ al'.max < TapCountMax
  BY <1>4, <1>5, <1>6
<1>9. Tracks(al, "none", delay[selector]) => Tracks(al', "inc", delay[selector])
  BY <1>1, <1>2, <1>4, <1>5, <1>7
<1> QED BY <1>8, <1>9, SearchAsks

\* The same, at the same tap.
LEMMA SearchStays ==
  ASSUME IInv, hs = "End", al.state \in SearchStates,
         al' \in Aligner, al'.state \in SearchStates, al'.tap = al.tap, al'.max = al.max, Do("none"),
         UNCHANGED <<seq, report, dirty, Elsewhere>>
  PROVE  AsksOn
<1>1. PICK d \in Taps : d = delay[selector]
  BY Found
<1>2. PICK a \in Aligner : a = al
  BY Found
<1>3. PICK b \in Aligner : b = al'
  OBVIOUS
<1>4. Tracks(a, "none", d) => Tracks(b, "none", d)
  BY <1>2, <1>3, SameTracks
<1>5. al'.max < TapCountMax
  BY Found
<1>6. Tracks(al, "none", delay[selector]) => Tracks(al', "none", delay[selector])
  BY <1>1, <1>2, <1>3, <1>4
<1> QED BY <1>5, <1>6, SearchAsks

LEMMA CountsRetry ==
  ASSUME NEW a \in Aligner, NEW g \in Int
  PROVE  [a EXCEPT !.retry = @ - 1, !.gen = g] \in Aligner
<1> DEFINE r == a.retry - 1
<1>1. r \in Int
  BY DEF Aligner
<1> HIDE DEF r
<1>2. [a EXCEPT !.retry = r, !.gen = g] \in Aligner
  BY <1>1 DEF Aligner
<1> QED BY <1>2 DEF r

LEMMA ResetDelayStep == ASSUME IInv, ResetDelay PROVE AsksOn
<1>1. hs = "End" /\ al.state = "Reset_Delay"
  BY DEF ResetDelay, At
<1>2. al \in Aligner /\ StableCount - 1 \in Int
  BY <1>1, Found, AlignAssumption
<1>3. al' = [al EXCEPT !.state = "Get_Edge", !.gen = StableCount - 1] /\ Do("none")
      /\ UNCHANGED <<seq, report, dirty, Elsewhere>>
  BY DEF ResetDelay
<1>4. al' \in Aligner /\ al'.state = "Get_Edge" /\ al'.tap = al.tap /\ al'.max = al.max
  BY <1>2, <1>3 DEF Aligner, AlignState
<1> QED BY <1>1, <1>3, <1>4, SearchStays DEF SearchStates

LEMMA CheckEdgeStep == ASSUME IInv, CheckEdge PROVE AsksOn \/ Ends(FALSE)
<1>1. hs = "End" /\ al.state = "Get_Edge" /\ al.state \in SearchStates
      /\ UNCHANGED <<seq, dirty, Elsewhere>>
  BY DEF CheckEdge, At, SearchStates
<1>2. PICK a \in Aligner : a = [al EXCEPT !.retry = @ - 1]
  <2>1. al \in Aligner
    BY <1>1, Found
  <2>2. [al EXCEPT !.retry = @ - 1] \in Aligner
    BY <2>1 DEF Aligner
  <2> QED BY <2>2
<1>3. al \in Aligner /\ a.state = al.state /\ a.tap = al.tap /\ a.max = al.max
  BY <1>1, <1>2, Found DEF Aligner
<1>4. CASE al.retry < 0
  <2>1. Finish(FALSE) /\ auto
    BY <1>1, <1>4, Found DEF CheckEdge
  <2> QED BY <1>1, <1>4, <2>1 DEF Ends
<1>5. CASE ~(al.retry < 0) /\ edge
  <2>1. al' = [a EXCEPT !.init = data, !.state = "Wait_Sample_Stable"] /\ Do("none")
        /\ UNCHANGED report
    BY <1>2, <1>5 DEF CheckEdge
  <2>2. data \in Words
    BY <1>1, Found
  <2>3. al' \in Aligner /\ al'.state = "Wait_Sample_Stable" /\ al'.tap = al.tap /\ al'.max = al.max
    BY <1>3, <2>1, <2>2 DEF Aligner, AlignState
  <2>4. AsksOn
    BY <1>1, <2>1, <2>3, SearchStays DEF SearchStates
  <2> QED BY <2>4
<1>6. CASE ~(al.retry < 0) /\ ~edge
  <2>1. NextTap(a, "Get_Edge") /\ UNCHANGED report
    BY <1>2, <1>6 DEF CheckEdge
  <2>2. AsksOn
    BY <1>1, <1>3, <2>1, SearchNext DEF SearchStates
  <2> QED BY <2>2
<1> QED BY <1>4, <1>5, <1>6

LEMMA WaitSampleStableStep == ASSUME IInv, WaitSampleStable PROVE AsksOn
<1>1. hs = "End" /\ al.state = "Wait_Sample_Stable" /\ al.state \in SearchStates
      /\ UNCHANGED <<seq, report, dirty, Elsewhere>>
  BY DEF WaitSampleStable, At, SearchStates
<1>2. al \in Aligner
  BY <1>1, Found
<1>3. CASE data = al.init
  <2>1. al' = [al EXCEPT !.gen = @ - 1] /\ Do("none")
    BY <1>3 DEF WaitSampleStable
  <2>2. al' \in Aligner /\ al'.state = al.state /\ al'.tap = al.tap /\ al'.max = al.max
    BY <1>2, <2>1 DEF Aligner
  <2> QED BY <1>1, <2>1, <2>2, SearchStays
<1>4. CASE data # al.init
  <2>1. PICK g \in Int : g = IF al.max < 0 THEN al.gen ELSE StableCount - 2
    <3>1. al.gen \in Int /\ StableCount - 2 \in Int
      BY <1>2, AlignAssumption DEF Aligner
    <3> QED BY <3>1
  <2>2. PICK a \in Aligner : a = [al EXCEPT !.retry = @ - 1, !.gen = g]
    <3>1. [al EXCEPT !.retry = @ - 1, !.gen = g] \in Aligner
      BY <1>2, <2>1, CountsRetry
    <3> QED BY <3>1
  <2>3. a.state = al.state /\ a.tap = al.tap /\ a.max = al.max
    BY <1>2, <2>2 DEF Aligner
  <2>4. a = [al EXCEPT !.retry = @ - 1, !.gen = IF al.max < 0 THEN @ ELSE StableCount - 2]
    BY <1>2, <2>1, <2>2 DEF Aligner
  <2>5. NextTap(a, "Get_Edge")
    BY <1>4, <2>4 DEF WaitSampleStable
  <2> QED BY <1>1, <2>3, <2>5, SearchNext DEF SearchStates
<1> QED BY <1>3, <1>4

LEMMA CompareTrainingStep == ASSUME IInv, CompareTraining PROVE AsksOn
<1>1. hs = "End" /\ al.state = "Wait_Sample_Stable" /\ al.state \in SearchStates
      /\ UNCHANGED <<seq, report, dirty, Elsewhere>>
  BY DEF CompareTraining, At, SearchStates
<1>2. al \in Aligner
  BY <1>1, Found
<1>3. CASE data \in Bits
  <2>1. al' = Further(al, "CheckFirstEdgeChanged") /\ Do("inc")
    BY <1>3 DEF CompareTraining
  <2>2. al.window \in Nat /\ al.gen \in Int
    BY <1>2 DEF Aligner
  <2>3. al' = [Further(al, "CheckFirstEdgeChanged") EXCEPT !.window = al.window, !.gen = al.gen]
    BY <1>2, <2>1 DEF Further, Aligner
  <2> QED BY <1>1, <2>1, <2>2, <2>3, SearchFurther DEF SearchStates
<1>4. CASE data \notin Bits
  <2>1. PICK a \in Aligner :
          a = IF al.max < 0 THEN al ELSE [al EXCEPT !.retry = @ - 1, !.gen = StableCount - 2]
    <3>1. StableCount - 2 \in Int
      BY AlignAssumption
    <3>2. [al EXCEPT !.retry = @ - 1, !.gen = StableCount - 2] \in Aligner
      BY <1>2, <3>1, CountsRetry
    <3> QED BY <1>2, <3>2
  <2>2. a.state = al.state /\ a.tap = al.tap /\ a.max = al.max
    BY <1>2, <2>1 DEF Aligner
  <2>3. NextTap(a, "Get_Edge")
    BY <1>4, <2>1 DEF CompareTraining
  <2> QED BY <1>1, <2>2, <2>3, SearchNext DEF SearchStates
<1> QED BY <1>3, <1>4

LEMMA CheckFirstEdgeChangedStep == ASSUME IInv, CheckFirstEdgeChanged PROVE AsksOn
<1>1. hs = "End" /\ al.state = "CheckFirstEdgeChanged" /\ al.state \in SearchStates
      /\ UNCHANGED <<seq, report, dirty, Elsewhere>>
  BY DEF CheckFirstEdgeChanged, At, SearchStates
<1>2. al \in Aligner /\ StableCount - 1 \in Int
  BY <1>1, Found, AlignAssumption
<1>3. CASE Turned(1)
  <2>1. al' = [al EXCEPT !.state = "CheckFirstEdgeStable", !.gen = StableCount - 1] /\ Do("none")
    BY <1>3 DEF CheckFirstEdgeChanged
  <2>2. al' \in Aligner /\ al'.state = "CheckFirstEdgeStable" /\ al'.tap = al.tap
        /\ al'.max = al.max
    BY <1>2, <2>1 DEF Aligner, AlignState
  <2> QED BY <1>1, <2>1, <2>2, SearchStays DEF SearchStates
<1>4. CASE ~Turned(1)
  <2>1. NextTap(al, "CheckFirstEdgeChanged")
    BY <1>4 DEF CheckFirstEdgeChanged
  <2>2. PICK a \in Aligner : a = al
    BY <1>2
  <2> QED BY <1>1, <2>1, <2>2, SearchNext DEF SearchStates
<1> QED BY <1>3, <1>4

LEMMA CheckFirstEdgeStableStep == ASSUME IInv, CheckFirstEdgeStable PROVE AsksOn
<1>1. hs = "End" /\ al.state = "CheckFirstEdgeStable" /\ al.state \in SearchStates
      /\ UNCHANGED <<seq, report, dirty, Elsewhere>>
  BY DEF CheckFirstEdgeStable, At, SearchStates
<1>2. al \in Aligner /\ al.gen \in Int /\ al.window \in Nat /\ StableCount - 1 \in Int
  BY <1>1, Found, AlignAssumption DEF Aligner
<1>3. \A state : Further(al, state).window = al.window /\ Further(al, state).gen = al.gen
                 /\ Further(al, state) = [al EXCEPT !.state = state, !.tap = (al.tap + 1) % TapRange,
                                                    !.max = al.max - 1]
  BY <1>2 DEF Further, Aligner
<1>4. CASE al.gen < 0
  <2>1. al' = [Further(al, "CheckSecondEdgeChanged") EXCEPT !.window = @ + 1] /\ Do("inc")
    BY <1>2, <1>4 DEF CheckFirstEdgeStable
  <2>2. PICK w \in Nat : w = al.window + 1
    BY <1>2
  <2>3. PICK g \in Int : g = al.gen
    BY <1>2
  <2>4. al' = [Further(al, "CheckSecondEdgeChanged") EXCEPT !.window = w, !.gen = g]
    BY <1>2, <2>1, <2>2, <2>3 DEF Further, Aligner
  <2> QED BY <1>1, <2>1, <2>4, SearchFurther DEF SearchStates
<1>5. CASE ~(al.gen < 0) /\ Turned(1)
  <2>1. al' = [al EXCEPT !.gen = @ - 1] /\ Do("none")
    BY <1>2, <1>5 DEF CheckFirstEdgeStable
  <2>2. al' \in Aligner /\ al'.state = al.state /\ al'.tap = al.tap /\ al'.max = al.max
    BY <1>2, <2>1 DEF Aligner
  <2> QED BY <1>1, <2>1, <2>2, SearchStays
<1>6. CASE ~(al.gen < 0) /\ ~Turned(1)
  <2>1. /\ al' = [Further(al, "CheckFirstEdgeChanged") EXCEPT !.gen = StableCount - 1]
        /\ Do("inc")
    BY <1>6 DEF CheckFirstEdgeStable
  <2>2. PICK w \in Nat : w = al.window
    BY <1>2
  <2>3. PICK g \in Int : g = StableCount - 1
    BY <1>2
  <2>4. al' = [Further(al, "CheckFirstEdgeChanged") EXCEPT !.window = w, !.gen = g]
    BY <1>2, <2>1, <2>2, <2>3 DEF Further, Aligner
  <2> QED BY <1>1, <2>1, <2>4, SearchFurther DEF SearchStates
<1> QED BY <1>4, <1>5, <1>6

LEMMA CheckSecondEdgeChangedStep == ASSUME IInv, CheckSecondEdgeChanged PROVE AsksOn
<1>1. hs = "End" /\ al.state = "CheckSecondEdgeChanged" /\ al.state \in SearchStates
      /\ UNCHANGED <<seq, report, dirty, Elsewhere>>
  BY DEF CheckSecondEdgeChanged, At, SearchStates
<1>2. al \in Aligner /\ al.gen \in Int /\ al.window \in Nat /\ al.max \in Int
      /\ al.max < TapCountMax
  BY <1>1, Found DEF Aligner
<1>3. PICK d \in Taps : d = delay[selector]
  BY <1>1, Found
<1>4. PICK a \in Aligner : a = al
  BY <1>2
<1>5. CASE Turned(2)
  <2>1. /\ al' = [al EXCEPT !.state = "WindowFound", !.tap = (@ + TapRange - 1) % TapRange,
                            !.gen = (al.window \div 2) + 2]
        /\ Do("dec")
    BY <1>5 DEF CheckSecondEdgeChanged
  <2>2. PICK g \in Int : g = (al.window \div 2) + 2
    BY <1>2
  <2>3. al' = [a EXCEPT !.state = "WindowFound", !.tap = (@ + TapRange - 1) % TapRange, !.gen = g]
    BY <1>4, <2>1, <2>2
  <2>4. "WindowFound" \in AlignState \ SearchStates
    BY SMTT(40) DEF AlignState, SearchStates
  <2>5. al' \in Aligner /\ (Tracks(a, "none", d) => Tracks(al', "dec", d))
    BY Zenon, <1>2, <1>4, <2>3, <2>4, BesideTracks
  <2>6. al'.state # "Idle" /\ al'.max = al.max
    BY <1>2, <2>1 DEF Aligner
  <2> QED BY <1>1, <1>2, <1>3, <1>4, <2>1, <2>5, <2>6, SearchAsks
<1>6. CASE ~Turned(2) /\ al.max < 0
  <2>1. al' = [al EXCEPT !.state = "Reset_Delay"] /\ Do("reset")
    BY <1>6 DEF CheckSecondEdgeChanged
  <2>2. al' \in Aligner /\ al'.state = "Reset_Delay" /\ al'.tap = al.tap /\ al'.max = al.max
    BY <1>2, <2>1 DEF Aligner, AlignState
  <2>3. Tracks(al, "none", delay[selector]) => Tracks(al', "reset", delay[selector])
    BY <1>1, <1>2, <1>6, <2>2 DEF Tracks, Moved
  <2> QED BY <1>1, <1>2, <2>1, <2>2, <2>3, SearchAsks DEF SearchStates
<1>7. CASE ~Turned(2) /\ ~(al.max < 0)
  <2>1. al' = [Further(al, "CheckSecondEdgeChanged") EXCEPT !.window = @ + 1] /\ Do("inc")
    BY <1>7 DEF CheckSecondEdgeChanged
  <2>2. PICK w \in Nat : w = al.window + 1
    BY <1>2
  <2>3. PICK g \in Int : g = al.gen
    BY <1>2
  <2>4. al' = [Further(al, "CheckSecondEdgeChanged") EXCEPT !.window = w, !.gen = g]
    BY <1>2, <2>1, <2>2, <2>3 DEF Further, Aligner
  <2> QED BY <1>1, <2>1, <2>4, SearchFurther DEF SearchStates
<1> QED BY <1>5, <1>6, <1>7

\* Out of reset and off the edges a line shows one word.
LEMMA Reads ==
  ASSUME IInv, hs = "End", ~late, cmd.op # "reset", NEW c \in Conns, c = selector, Clear(c)
  PROVE  data = Word(c) /\ Word(c) \in Bits
<1>1. al.state # "Idle" /\ ~Before
  BY Found DEF Before
<1>2. data \in Sample(c) /\ held[c] = FALSE
  BY <1>1 DEF IInv, DataInv
<1>3. data = Settled(c, delay[c])
  BY <1>2 DEF Sample, Clear
<1>4. line[c] \in Wire /\ slips[c] \in Bits /\ delay[c] \in Taps
  BY AlignAssumption DEF IInv, TypeOK, Wire
<1>5. Settled(c, delay[c]) = WordOf(line[c], slips[c], delay[c])
  BY DEF Settled, WordOf
<1> QED BY <1>3, <1>4, <1>5, WordType DEF Word

\* A command that is asked for at the end of another has yet to be carried out, on the
\* same lines.
LEMMA Pending ==
  ASSUME IInv, hs = "End", ~late, hs' = "AckHigh", UNCHANGED Elsewhere
  PROVE  /\ Before' /\ ~late' /\ selector' = selector
         /\ \A c \in Conns : (Clear(c)' <=> Clear(c)) /\ Word(c)' = Word(c)
<1>1. sync = "Idle"
  BY DEF IInv, RequestInv
<1>2. /\ sync' = sync /\ late' = late /\ selector' = selector
      /\ line' = line /\ delay' = delay /\ slips' = slips
  BY DEF Elsewhere, crossed, wires
<1> QED BY <1>1, <1>2 DEF Before, Clear, Word, Settled

LEMMA StartWordAlignStep ==
  ASSUME IInv, hs = "End", al.state \in {"WindowFound", "Reset_Delay_Man"}, al.gen < 0,
         StartWordAlign, UNCHANGED <<seq, dirty, Elsewhere>>
  PROVE  AsksOn \/ Ends(TRUE)
<1>1. al \in Aligner /\ al.state # "Idle" /\ al.max < TapCountMax
  BY Found
<1>2. CASE data = 0
  BY <1>1, <1>2 DEF StartWordAlign, Ends
<1>3. CASE data # 0
  <2> DEFINE c == [op |-> "none", slip |-> TRUE]
  <2>1. /\ al' = [al EXCEPT !.state = "Do_Word_Align", !.gen = DataWidth - 2]
        /\ Issue(c) /\ UNCHANGED report
    BY <1>3 DEF StartWordAlign
  <2>2. c \in Command /\ c.op = "none"
    BY DEF Command
  <2>3. hs' = "AckHigh" /\ req' = TRUE /\ edge' \in BOOLEAN /\ cmd' = c
    BY Zenon, <2>1, <2>2, Asks
  <2>4. PICK d \in Taps : d = delay[selector]
    BY Found
  <2>5. PICK a \in Aligner : a = al
    BY <1>1
  <2>6. "Do_Word_Align" \in AlignState \ SearchStates /\ DataWidth - 2 \in Int
    BY WidthType DEF AlignState, SearchStates
  <2>7. al' \in Aligner /\ (Tracks(a, "none", d) => Tracks(al', "none", d))
    BY Zenon, <1>1, <2>1, <2>5, <2>6, BesideTracks
  <2>8. ~late => Tracks(al', cmd'.op, delay[selector])
    BY <2>2, <2>3, <2>4, <2>5, <2>7, Found
  <2>9. al'.state = "Do_Word_Align" /\ al'.gen = DataWidth - 2 /\ al'.max = al.max
    BY <1>1, <2>1 DEF Aligner
  <2>10. DataWidth - 2 >= -1 /\ DataWidth - 2 \in Int
    BY AlignAssumption
  <2>11. ASSUME ~auto PROVE ManualInv'
    <3>1. al.max = TapCountMax - 1
      BY <1>1, <2>11 DEF IInv, ManualInv
    <3> QED BY <2>3, <2>9, <2>10, <3>1 DEF ManualInv
  <2>12. SlipInv'
    <3>1. SUFFICES ASSUME ~late', NEW e \in Conns, e = selector', Clear(e)'
                   PROVE  Before' /\ Word(e)' # 0 /\ Word(e)' + al'.gen >= DataWidth - 1
      BY DEF SlipInv
    <3>2. ~late
      BY <3>1 DEF Elsewhere
    <3>3. cmd.op # "reset"
      BY DEF IInv, TurnInv, ManualInv
    <3>4. Before' /\ e = selector /\ Clear(e) /\ Word(e)' = Word(e)
      BY <2>3, <3>1, <3>2, Pending
    <3>5. data = Word(e) /\ Word(e) \in Bits
      BY <3>2, <3>3, <3>4, Reads
    <3>6. Word(e) \in Nat \ {0}
      BY <1>3, <3>5, WidthType DEF Bits
    <3>7. Word(e) + (DataWidth - 2) >= DataWidth - 1
      BY <2>10, <3>6, WidthType
    <3> QED BY <2>9, <3>4, <3>6, <3>7
  <2> QED BY <1>1, <2>1, <2>2, <2>3, <2>7, <2>8, <2>9, <2>11, <2>12 DEF AsksOn
<1> QED BY <1>2, <1>3

LEMMA WindowFoundStep == ASSUME IInv, WindowFound PROVE AsksOn \/ Ends(TRUE)
<1>1. hs = "End" /\ al.state = "WindowFound" /\ UNCHANGED <<seq, dirty, Elsewhere>>
  BY DEF WindowFound, At
<1>2. al \in Aligner /\ al.gen \in Int /\ al.max < TapCountMax
  BY <1>1, Found DEF Aligner
<1>3. auto
  BY <1>1 DEF IInv, ManualInv
<1>4. CASE al.gen < 0
  BY <1>1, <1>4, StartWordAlignStep DEF WindowFound
<1>5. CASE ~(al.gen < 0)
  <2>1. /\ al' = [al EXCEPT !.tap = (@ + TapRange - 1) % TapRange, !.gen = @ - 1]
        /\ Do("dec") /\ UNCHANGED report
    BY <1>5 DEF WindowFound
  <2>2. PICK d \in Taps : d = delay[selector]
    BY <1>1, Found
  <2>3. PICK a \in Aligner : a = al
    BY <1>2
  <2>4. PICK g \in Int : g = al.gen - 1
    BY <1>2
  <2>5. al' = [a EXCEPT !.state = "WindowFound", !.tap = (@ + TapRange - 1) % TapRange, !.gen = g]
    BY Zenon, <1>1, <2>1, <2>3, <2>4 DEF Aligner
  <2>6. "WindowFound" \in AlignState \ SearchStates
    BY DEF AlignState, SearchStates
  <2>7. al' \in Aligner /\ (Tracks(a, "none", d) => Tracks(al', "dec", d))
    BY Zenon, <1>2, <2>3, <2>5, <2>6, BesideTracks
  <2>8. al'.state = "WindowFound" /\ al'.max < TapCountMax
    BY <1>1, <1>2, <2>1 DEF Aligner
  <2>9. hs' = "AckHigh" /\ req' = TRUE /\ edge' \in BOOLEAN /\ cmd' \in Command /\ cmd'.op = "dec"
    BY <1>1, <2>1, DoAsks
  <2>10. ~late => Tracks(al', cmd'.op, delay[selector])
    BY <1>1, <2>2, <2>3, <2>7, <2>9, Found
  <2>11. SlipInv'
    BY <2>8 DEF SlipInv
  <2> QED BY <1>1, <1>3, <2>1, <2>7, <2>8, <2>9, <2>10, <2>11 DEF AsksOn
<1> QED BY <1>4, <1>5

LEMMA ResetDelayManStep == ASSUME IInv, ResetDelayMan PROVE AsksOn \/ Ends(TRUE)
<1>1. hs = "End" /\ al.state = "Reset_Delay_Man" /\ UNCHANGED <<seq, dirty, Elsewhere>>
  BY DEF ResetDelayMan, At
<1>2. al \in Aligner /\ al.gen \in Int /\ al.max < TapCountMax
  BY <1>1, Found DEF Aligner
<1>3. CASE al.gen < 0
  BY <1>1, <1>3, StartWordAlignStep DEF ResetDelayMan
<1>4. CASE ~(al.gen < 0)
  <2>1. /\ al' = [al EXCEPT !.tap = (@ + 1) % TapRange, !.gen = @ - 1]
        /\ Do("inc") /\ UNCHANGED report
    BY <1>4 DEF ResetDelayMan
  <2>2. PICK d \in Taps : d = delay[selector]
    BY <1>1, Found
  <2>3. PICK a \in Aligner : a = al
    BY <1>2
  <2>4. PICK g \in Int : g = al.gen - 1
    BY <1>2
  <2>5. al' = [a EXCEPT !.state = "Reset_Delay_Man", !.tap = (@ + 1) % TapRange, !.gen = g]
    BY Zenon, <1>1, <2>1, <2>3, <2>4 DEF Aligner
  <2>6. "Reset_Delay_Man" \in AlignState \ SearchStates
    BY DEF AlignState, SearchStates
  <2>7. al' \in Aligner /\ (Tracks(a, "none", d) => Tracks(al', "inc", d))
    BY Zenon, <1>2, <2>3, <2>5, <2>6, BesideTracks
  <2>8. al'.state = "Reset_Delay_Man" /\ al'.max = al.max /\ al'.gen = al.gen - 1
    BY <1>1, <1>2, <2>1 DEF Aligner
  <2>9. hs' = "AckHigh" /\ req' = TRUE /\ edge' \in BOOLEAN /\ cmd' \in Command /\ cmd'.op = "inc"
    BY <1>1, <2>1, DoAsks
  <2>10. ~late => Tracks(al', cmd'.op, delay[selector])
    BY <1>1, <2>2, <2>3, <2>7, <2>9, Found
  <2>11. ASSUME ~auto PROVE ManualInv'
    <3>1. al.max = TapCountMax - 1
      BY <1>1, <2>11 DEF IInv, ManualInv
    <3>2. al'.gen >= -1
      BY <1>2, <1>4, <2>8
    <3> QED BY <2>8, <2>9, <3>1, <3>2 DEF ManualInv
  <2>12. SlipInv' /\ ~auto
    BY <1>1, <2>8 DEF SlipInv, IInv, TurnInv
  <2> QED BY <1>1, <1>2, <2>1, <2>7, <2>8, <2>9, <2>10, <2>11, <2>12 DEF AsksOn
<1> QED BY <1>3, <1>4

LEMMA DoWordAlignStep == ASSUME IInv, DoWordAlign PROVE AsksOn \/ Ends(TRUE) \/ Ends(FALSE)
<1>1. hs = "End" /\ al.state = "Do_Word_Align" /\ UNCHANGED <<seq, dirty, Elsewhere>>
  BY DEF DoWordAlign, At
<1>2. al \in Aligner /\ al.gen \in Int /\ al.max < TapCountMax
      /\ cmd = [op |-> "none", slip |-> TRUE]
  BY <1>1, Found DEF Aligner, IInv, TurnInv
<1>3. ASSUME ~auto
      PROVE  al.max = TapCountMax - 1 /\ al.gen >= -1
  BY <1>1, <1>3 DEF IInv, ManualInv
<1>4. ASSUME ~late, NEW c \in Conns, c = selector, Clear(c), data # 0
      PROVE  Word(c) \in Nat \ {0} /\ Word(c) + al.gen >= DataWidth /\ al.gen >= 0
  <2>1. ~Before
    BY <1>1 DEF Before
  <2>2. data = Word(c) /\ Word(c) \in Bits
    <3>1. cmd.op # "reset"
      BY <1>2
    <3> QED BY <1>1, <1>4, <3>1, Reads
  <2>3. Word(c) = 0 \/ Word(c) + al.gen >= DataWidth
    BY <1>1, <1>4, <2>1 DEF IInv, SlipInv
  <2> QED BY <1>2, <1>4, <2>2, <2>3, WidthType DEF Bits
<1>5. CASE data = 0
  <2>1. Finish(TRUE)
    BY <1>5 DEF DoWordAlign
  <2> QED BY <1>1, <1>5, <2>1 DEF Ends
<1>6. CASE data # 0 /\ al.gen < 0
  <2>1. Finish(FALSE)
    BY <1>6 DEF DoWordAlign
  <2>2. ~late => \A c \in Conns : c = selector => ~Clear(c)
    BY <1>2, <1>4, <1>6
  <2> QED BY <1>1, <2>1, <2>2 DEF Ends
<1>7. CASE data # 0 /\ ~(al.gen < 0)
  <2>1. /\ al' = [al EXCEPT !.gen = @ - 1]
        /\ Issue([cmd EXCEPT !.slip = TRUE]) /\ UNCHANGED report
    BY <1>7 DEF DoWordAlign
  <2>2. PICK c \in Command : c = cmd /\ c = [cmd EXCEPT !.slip = TRUE]
    <3> DEFINE e == [op |-> "none", slip |-> TRUE]
    <3>1. e \in Command
      BY DEF Command
    <3>2. e.slip = TRUE
      OBVIOUS
    <3> HIDE DEF e
    <3>4. e = [e EXCEPT !.slip = TRUE]
      BY <3>1, <3>2 DEF Command
    <3>3. cmd = e
      BY <1>2 DEF e
    <3> QED BY <3>1, <3>3, <3>4
  <2>3. hs' = "AckHigh" /\ req' = TRUE /\ edge' \in BOOLEAN /\ cmd' = c
    BY <1>1, <2>1, <2>2, Asks
  <2>4. PICK d \in Taps : d = delay[selector]
    BY <1>1, Found
  <2>5. PICK a \in Aligner : a = al
    BY <1>2
  <2>6. PICK g \in Int : g = al.gen - 1
    BY <1>2
  <2>7. al' = [a EXCEPT !.state = "Do_Word_Align", !.gen = g]
    BY Zenon, <1>1, <2>1, <2>5, <2>6 DEF Aligner
  <2>8. "Do_Word_Align" \in AlignState \ SearchStates
    BY DEF AlignState, SearchStates
  <2>9. al' \in Aligner /\ (Tracks(a, "none", d) => Tracks(al', "none", d))
    BY Zenon, <1>2, <2>5, <2>7, <2>8, BesideTracks
  <2>10. cmd'.op = "none" /\ (~late => Tracks(al', cmd'.op, delay[selector]))
    BY <1>1, <1>2, <2>2, <2>3, <2>4, <2>5, <2>9, Found
  <2>11. al'.state = "Do_Word_Align" /\ al'.max = al.max /\ al'.gen = al.gen - 1
    BY <1>1, <1>2, <2>1 DEF Aligner
  <2>12. ASSUME ~auto PROVE ManualInv'
    <3>1. al'.gen >= -1 /\ al.max = TapCountMax - 1
      BY <1>2, <1>3, <1>7, <2>11, <2>12
    <3> QED BY <2>11, <3>1 DEF ManualInv
  <2>15. SlipInv'
    <3>1. SUFFICES ASSUME ~late', NEW e \in Conns, e = selector', Clear(e)'
                   PROVE  Before' /\ Word(e)' # 0 /\ Word(e)' + al'.gen >= DataWidth - 1
      BY DEF SlipInv
    <3>2. ~late
      BY <1>1, <3>1 DEF Elsewhere
    <3>3. Before' /\ e = selector /\ Clear(e) /\ Word(e)' = Word(e)
      BY <1>1, <2>3, <3>1, <3>2, Pending
    <3>4. Word(e) \in Nat \ {0} /\ Word(e) + al.gen >= DataWidth
      BY <1>4, <1>7, <3>2, <3>3
    <3>5. Word(e) + (al.gen - 1) >= DataWidth - 1
      BY <1>2, <3>4, WidthType
    <3> QED BY <2>11, <3>3, <3>4, <3>5
  <2>13. cmd' = [op |-> "none", slip |-> TRUE] /\ cmd' \in Command
    BY <1>2, <2>2, <2>3
  <2>14. al'.state # "Idle" /\ al'.max < TapCountMax
    BY <1>2, <2>11
  <2> QED BY <1>1, <2>1, <2>3, <2>9, <2>10, <2>11, <2>12, <2>13, <2>14, <2>15
         DEF AsksOn
<1> QED BY <1>5, <1>6, <1>7

LEMMA StepAsked == ASSUME IInv, AsksOn PROVE IInv'
<1>1. /\ line' = line /\ delay' = delay /\ slips' = slips /\ held' = held
      /\ divRuns' = divRuns /\ stops' = stops
      /\ driver' = driver /\ start' = start /\ auto' = auto /\ manual' = manual
      /\ sessions' = sessions /\ seq' = seq /\ selector' = selector /\ busy' = busy
      /\ aligned' = aligned /\ wordAlign' = wordAlign /\ tapSetting' = tapSetting
      /\ data' = data /\ seen' = seen /\ sync' = sync /\ ack' = ack /\ sel' = sel
      /\ late' = late /\ dirty' = dirty
  BY DEF AsksOn, Elsewhere, wires, clock, host, crossed, report
<1>2. /\ hs = "End" /\ al.state # "Idle" /\ seq = "Off"
      /\ hs' = "AckHigh" /\ req' = TRUE /\ edge' \in BOOLEAN /\ cmd' \in Command
      /\ al' \in Aligner /\ al'.state # "Idle" /\ al'.max < TapCountMax
      /\ al'.state = "Do_Word_Align" => cmd' = [op |-> "none", slip |-> TRUE]
      /\ ~late => Tracks(al', cmd'.op, delay[selector])
      /\ al'.state = "WindowFound" => cmd'.op = "dec"
      /\ al'.state = "Reset_Delay_Man" => ~auto
      /\ SlipInv' /\ (~auto => ManualInv')
  BY Found DEF AsksOn
<1>3. TypeOK'
  BY <1>1, <1>2 DEF IInv, TypeOK, Aligner, Command
<1>4. TurnInv'
  BY <1>1, <1>2 DEF TurnInv
<1>5. RequestInv' /\ (~late => Before')
  BY <1>1, <1>2 DEF IInv, RequestInv, Before
<1>6. TapInv'
  BY <1>1, <1>2, <1>5 DEF TapInv
<1>7. DataInv'
  BY <1>1, <1>2, <1>5 DEF DataInv
<1>8. AlignedInv'
  <2>1. SUFFICES ASSUME ~late, NEW c \in Conns, wordAlign[c]
                 PROVE  /\ c # selector
                        /\ delay[c] \notin line[c].edges => Sample(c)' = {0}
                        /\ ~auto => tapSetting[c] % TapCountMax = delay[c]
    BY <1>1 DEF AlignedInv
  <2>2. Sample(c)' = Sample(c)
    BY <1>1 DEF Sample, Settled
  <2> QED BY <1>2, <2>1, <2>2 DEF IInv, AlignedInv
<1>9. ManualInv' /\ SlipInv'
  BY <1>1, <1>2 DEF ManualInv
<1>10. DoneInv'
  BY <1>1, <1>2 DEF IInv, DoneInv, Done, Clear
<1> QED BY <1>3, <1>4, <1>5, <1>6, <1>7, <1>8, <1>9, <1>10 DEF IInv

LEMMA StepEnded == ASSUME IInv, NEW ok \in BOOLEAN, Ends(ok) PROVE IInv'
<1>1. /\ line' = line /\ delay' = delay /\ slips' = slips /\ held' = held
      /\ divRuns' = divRuns /\ stops' = stops
      /\ driver' = driver /\ start' = start /\ auto' = auto /\ manual' = manual
      /\ sessions' = sessions /\ seq' = seq /\ selector' = selector /\ busy' = busy
      /\ aligned' = aligned /\ req' = req /\ edge' = edge
      /\ data' = data /\ seen' = seen /\ sync' = sync /\ ack' = ack /\ sel' = sel
      /\ late' = late /\ dirty' = dirty
  BY DEF Ends, Finish, Elsewhere, wires, clock, host, crossed
<1>2. /\ hs = "End" /\ al.state # "Idle" /\ hs' = "Idle"
      /\ al' = [al EXCEPT !.state = "Idle"]
      /\ tapSetting' = [tapSetting EXCEPT ![selector] = al.tap]
      /\ wordAlign' = IF ok THEN [wordAlign EXCEPT ![selector] = TRUE] ELSE wordAlign
      /\ cmd' = IF ok THEN [op |-> "none", slip |-> FALSE] ELSE cmd
      /\ ok => data = 0
      /\ ~ok /\ ~auto /\ ~late => \A c \in Conns : c = selector => ~Clear(c)
  BY DEF Ends, Finish
<1>3. /\ al \in Aligner /\ al.max < TapCountMax /\ cmd \in Command /\ selector \in Conns
      /\ seq = "Off" /\ (~late => Tracks(al, "none", delay[selector]))
      /\ al.tap \in Nat /\ al.max \in Int
      /\ wordAlign \in [Conns -> BOOLEAN] /\ tapSetting \in [Conns -> Nat]
  BY <1>2, Found, WidthType DEF Aligner, IInv, TypeOK
<1>4. al' \in Aligner /\ al'.state = "Idle" /\ al'.tap = al.tap /\ al'.max = al.max
  BY <1>2, <1>3 DEF Aligner, AlignState
<1>5. TypeOK'
  <2>1. cmd' \in Command
    BY <1>2, <1>3 DEF Command
  <2>2. wordAlign' \in [Conns -> BOOLEAN] /\ tapSetting' \in [Conns -> Nat]
    BY <1>2, <1>3
  <2> QED BY <1>1, <1>2, <1>4, <2>1, <2>2 DEF IInv, TypeOK, Aligner, Command
<1>6. TurnInv'
  BY <1>2, <1>4 DEF TurnInv
<1>7. RequestInv'
  BY <1>1, <1>2 DEF IInv, RequestInv
<1>8. TapInv'
  <2>1. ~Before'
    BY <1>2 DEF Before
  <2>2. al'.state \notin SearchStates
    BY <1>4 DEF SearchStates
  <2>3. ~late => Tracks(al', "none", delay[selector])
    BY <1>3, <1>4, <2>2 DEF Tracks
  <2> QED BY <1>1, <1>3, <1>4, <2>1, <2>3 DEF TapInv
<1>9. DataInv'
  BY <1>2, <1>4 DEF DataInv
<1>10. AlignedInv'
  <2>1. SUFFICES ASSUME ~late, NEW c \in Conns, wordAlign'[c]
                 PROVE  /\ delay[c] \notin line[c].edges => Sample(c)' = {0}
                        /\ ~auto => tapSetting'[c] % TapCountMax = delay[c]
    BY <1>1, <1>4 DEF AlignedInv
  <2>2. Sample(c)' = Sample(c)
    BY <1>1 DEF Sample, Settled
  <2>3. CASE c # selector
    <3>1. wordAlign[c] /\ tapSetting'[c] = tapSetting[c]
      BY <1>2, <1>3, <2>1, <2>3
    <3> QED BY <2>1, <2>2, <3>1 DEF IInv, AlignedInv
  <2>4. CASE c = selector
    <3>1. ok /\ tapSetting'[c] = al.tap /\ data = 0
      <4>1. ~wordAlign[c]
        BY <1>2, <2>1, <2>4 DEF IInv, AlignedInv
      <4> QED BY <1>2, <1>3, <2>1, <2>4, <4>1
    <3>2. 0 \in Sample(c)
      BY <1>2, <2>1, <2>4, <3>1 DEF IInv, DataInv
    <3>3. delay[c] \notin line[c].edges => Sample(c) = {0}
      BY <3>2 DEF Sample
    <3>4. ~auto => al.tap % TapCountMax = delay[c]
      <4>1. SUFFICES ASSUME ~auto PROVE al.tap % TapCountMax = delay[c]
        OBVIOUS
      <4>2. al.max >= -1
        BY <1>2, <4>1, WidthType DEF IInv, ManualInv
      <4> QED BY <1>3, <2>1, <2>4, <4>2 DEF Tracks, Moved
    <3> QED BY <2>2, <3>1, <3>3, <3>4
  <2> QED BY <2>3, <2>4
<1>11. ManualInv' /\ SlipInv'
  BY <1>4 DEF ManualInv, SlipInv
<1>12. DoneInv'
  <2>1. SUFFICES ASSUME ~late, ~auto, NEW c \in Conns, Done(c)', Clear(c)
                 PROVE  wordAlign'[c]
    BY <1>1 DEF DoneInv, Clear
  <2>2. CASE c = selector
    <3>1. ok
      BY <1>2, <2>1, <2>2
    <3> QED BY <1>2, <1>3, <2>2, <3>1
  <2>3. CASE c # selector
    <3>1. Done(c)
      BY <1>1, <1>3, <2>1, <2>3 DEF Done
    <3>2. wordAlign[c]
      BY <2>1, <3>1 DEF IInv, DoneInv
    <3> QED BY <1>2, <1>3, <2>3, <3>2
  <2> QED BY <2>2, <2>3
<1> QED BY <1>5, <1>6, <1>7, <1>8, <1>9, <1>10, <1>11, <1>12 DEF IInv

LEMMA StepAligns == ASSUME IInv, Aligning, ~AlignBegins PROVE IInv'
<1>1. AsksOn \/ Ends(TRUE) \/ Ends(FALSE)
  BY ResetDelayStep, CheckEdgeStep, WaitSampleStableStep, CompareTrainingStep,
     CheckFirstEdgeChangedStep, CheckFirstEdgeStableStep, CheckSecondEdgeChangedStep,
     WindowFoundStep, ResetDelayManStep, DoWordAlignStep DEF Aligning
<1> QED BY <1>1, StepAsked, StepEnded

-----------------------------------------------------------------------------
(* The other steps.                                                         *)

LEMMA StepBegins == ASSUME IInv, AlignBegins PROVE IInv'
<1>1. /\ line' = line /\ delay' = delay /\ slips' = slips /\ held' = held
      /\ divRuns' = divRuns /\ stops' = stops
      /\ driver' = driver /\ start' = start /\ auto' = auto /\ manual' = manual
      /\ sessions' = sessions /\ selector' = selector /\ busy' = busy
      /\ aligned' = aligned
      /\ data' = data /\ seen' = seen /\ sync' = sync /\ ack' = ack /\ sel' = sel
      /\ late' = late
  BY DEF AlignBegins, Elsewhere, wires, clock, host, crossed
<1>2. /\ seq = "Train" /\ al.state = "Idle" /\ seq' = "Off"
      /\ al' = [state |-> IF auto THEN "Reset_Delay" ELSE "Reset_Delay_Man",
                tap |-> 0, max |-> TapCountMax - 1, window |-> 0, retry |-> RetryMax - 2,
                gen |-> IF auto THEN al.gen ELSE manual, init |-> al.init]
      /\ wordAlign' = [wordAlign EXCEPT ![selector] = FALSE]
      /\ tapSetting' = [tapSetting EXCEPT ![selector] = 0]
      /\ dirty' = [dirty EXCEPT ![selector] = cmd.slip]
      /\ Issue([cmd EXCEPT !.op = "reset"])
  BY DEF AlignBegins, Do
<1>3. /\ al \in Aligner /\ cmd \in Command /\ selector \in Conns /\ hs = "Idle"
      /\ wordAlign \in [Conns -> BOOLEAN] /\ tapSetting \in [Conns -> Nat]
      /\ dirty \in [Conns -> BOOLEAN] /\ manual \in Nat /\ delay \in [Conns -> Taps]
  BY <1>2 DEF IInv, TypeOK, TurnInv, Aligner, Command
<1>4. /\ hs' = "AckHigh" /\ req' = TRUE /\ edge' \in BOOLEAN
      /\ cmd' \in Command /\ cmd'.op = "reset"
  BY <1>2, <1>3 DEF Issue, HasEdge, Command
<1>5. /\ al' \in Aligner /\ al'.tap = 0 /\ al'.max = TapCountMax - 1
      /\ al'.state = IF auto THEN "Reset_Delay" ELSE "Reset_Delay_Man"
      /\ ~auto => al'.gen \in Nat
  <2>1. 0 \in 0 .. TapRange - 1 /\ TapCountMax - 1 \in Int /\ RetryMax - 2 \in Int /\ 0 \in Nat
    BY AlignAssumption
  <2>2. al.gen \in Int /\ al.init \in Words /\ manual \in Int
    BY <1>3 DEF Aligner
  <2> QED BY <1>2, <1>3, <2>1, <2>2 DEF Aligner, AlignState
<1>6. /\ al'.state \notin {"Idle", "Do_Word_Align", "WindowFound"}
      /\ al'.state = "Reset_Delay_Man" => ~auto
  BY <1>5
<1>7. TypeOK'
  <2>1. dirty' \in [Conns -> BOOLEAN] /\ wordAlign' \in [Conns -> BOOLEAN]
        /\ tapSetting' \in [Conns -> Nat]
    BY <1>2, <1>3 DEF Command
  <2> QED BY <1>1, <1>2, <1>4, <1>5, <2>1 DEF IInv, TypeOK, Aligner, Command
<1>8. TurnInv'
  BY <1>1, <1>2, <1>4, <1>6 DEF TurnInv
<1>9. RequestInv' /\ (~late => Before')
  BY <1>1, <1>3, <1>4 DEF IInv, RequestInv, Before
<1>10. TapInv'
  <2>1. 0 % TapCountMax = 0
    BY WidthType, SmallMod, 0 \in 0 .. TapCountMax - 1
  <2>2. TapCountMax - 1 < TapCountMax /\ TapCountMax - 1 # -1
        /\ TapCountMax - 1 - (TapCountMax - 1) = 0
    BY WidthType
  <2>3. Tracks(al', cmd'.op, delay'[selector'])
    BY <1>4, <1>5, <2>1, <2>2 DEF Tracks, Moved
  <2> QED BY <1>1, <1>5, <1>9, <2>2, <2>3 DEF TapInv
<1>11. DataInv'
  BY <1>1, <1>4, <1>9 DEF DataInv
<1>12. AlignedInv'
  <2>1. SUFFICES ASSUME ~late, NEW c \in Conns, wordAlign'[c]
                 PROVE  /\ c # selector
                        /\ delay[c] \notin line[c].edges => Sample(c)' = {0}
                        /\ ~auto => tapSetting'[c] % TapCountMax = delay[c]
    BY <1>1 DEF AlignedInv
  <2>2. Sample(c)' = Sample(c)
    BY <1>1 DEF Sample, Settled
  <2>3. c # selector /\ wordAlign[c] /\ tapSetting'[c] = tapSetting[c]
    BY <1>2, <1>3, <2>1
  <2> QED BY <2>1, <2>2, <2>3 DEF IInv, AlignedInv
<1>13. ManualInv'
  <2>1. ~auto => al'.gen >= -1 /\ ~(al'.gen < 0)
    BY <1>5
  <2> QED BY <1>1, <1>5, <2>1 DEF ManualInv
<1>14. SlipInv'
  BY <1>6 DEF SlipInv
<1>15. DoneInv'
  <2>1. SUFFICES ASSUME ~late, ~auto, NEW c \in Conns, Done(c)', Clear(c)
                 PROVE  wordAlign'[c]
    BY <1>1 DEF DoneInv, Clear
  <2>2. c < selector /\ Done(c)
    BY <1>1, <1>2, <1>6, <2>1 DEF Done
  <2>3. wordAlign[c] /\ c # selector
    BY <1>3, <2>1, <2>2, WidthType DEF IInv, DoneInv, Conns
  <2> QED BY <1>2, <1>3, <2>3
<1> QED BY <1>7, <1>8, <1>9, <1>10, <1>11, <1>12, <1>13, <1>14, <1>15 DEF IInv

\* The driver's waiting loops and the sensor's clock.
LEMMA StepBeside ==
  ASSUME IInv, UNCHANGED <<wires, auto, manual, sessions, turn, al, report, request, data,
                           crossed, late, dirty>>,
         driver' \in {"idle", "clk", "poll", "wait"}, start' \in BOOLEAN,
         divRuns' \in BOOLEAN, stops' \in 0 .. MaxStops[line]
  PROVE  IInv'
<1>1. /\ line' = line /\ delay' = delay /\ slips' = slips /\ held' = held
      /\ auto' = auto /\ manual' = manual /\ sessions' = sessions
      /\ seq' = seq /\ selector' = selector /\ busy' = busy /\ aligned' = aligned
      /\ al' = al /\ wordAlign' = wordAlign /\ tapSetting' = tapSetting
      /\ cmd' = cmd /\ hs' = hs /\ req' = req /\ edge' = edge
      /\ data' = data /\ seen' = seen /\ sync' = sync /\ ack' = ack /\ sel' = sel
      /\ late' = late /\ dirty' = dirty
  BY DEF wires, turn, report, request, crossed
<1>2. TypeOK'
  BY <1>1 DEF IInv, TypeOK
<1>3. TurnInv' /\ RequestInv' /\ ManualInv'
  BY <1>1 DEF IInv, TurnInv, RequestInv, ManualInv
<1>4. TapInv'
  BY <1>1 DEF IInv, TapInv, Before
<1>5. DataInv' /\ AlignedInv'
  <2>1. \A c \in Conns : Sample(c)' = Sample(c)
    BY <1>1 DEF Sample, Settled
  <2>2. DataInv'
    BY <1>1, <2>1 DEF IInv, DataInv, Before
  <2>3. AlignedInv'
    BY <1>1, <2>1 DEF IInv, AlignedInv
  <2> QED BY <2>2, <2>3
<1>6. SlipInv'
  BY <1>1 DEF IInv, SlipInv, Before, Clear, Word, Settled
<1>7. DoneInv'
  BY <1>1 DEF IInv, DoneInv, Done, Clear
<1> QED BY <1>2, <1>3, <1>4, <1>5, <1>6, <1>7 DEF IInv

\* A connection is done with before the turn passes on.
LEMMA SequencerDone ==
  ASSUME IInv, Sequencer, NEW c \in Conns, Done(c)'
  PROVE  Done(c)
<1>1. al.state = "Idle"
  BY DEF Sequencer, SequencerStarts, SequencerNext, IInv, TurnInv
<1>2. c \in 0 .. NrofConn - 1 /\ selector \in 0 .. NrofConn - 1 /\ NrofConn \in Nat \ {0}
  BY AlignAssumption DEF Conns, IInv, TypeOK
<1>3. CASE SequencerStarts
  BY <1>2, <1>3 DEF SequencerStarts, Done
<1>4. CASE SequencerNext /\ selector = NrofConn - 1
  <2>1. seq = "Off" /\ (c < selector \/ c = selector)
    BY <1>2, <1>4 DEF SequencerNext
  <2> QED BY <1>1, <2>1 DEF Done
<1>5. CASE SequencerNext /\ selector # NrofConn - 1
  <2>1. seq = "Off" /\ seq' = "Train" /\ selector' = selector + 1
    BY <1>5 DEF SequencerNext
  <2>2. c < selector + 1
    BY <2>1 DEF Done
  <2>3. c < selector \/ c = selector
    BY <1>2, <2>2
  <2> QED BY <1>1, <2>1, <2>3 DEF Done
<1> QED BY <1>3, <1>4, <1>5 DEF Sequencer

LEMMA StepSequencer == ASSUME IInv, Sequencer PROVE IInv'
<1>1. /\ line' = line /\ delay' = delay /\ slips' = slips /\ held' = held
      /\ divRuns' = divRuns /\ stops' = stops
      /\ driver' = driver /\ start' = start /\ auto' = auto /\ manual' = manual
      /\ sessions' = sessions
      /\ al' = al /\ wordAlign' = wordAlign /\ tapSetting' = tapSetting
      /\ cmd' = cmd /\ hs' = hs /\ req' = req /\ edge' = edge
      /\ data' = data /\ seen' = seen /\ sync' = sync /\ ack' = ack /\ sel' = sel
      /\ late' = late /\ dirty' = dirty
  BY DEF Sequencer, SequencerStarts, SequencerNext, wires, clock, host, report, request, crossed
<1>2. al.state = "Idle" /\ hs = "Idle"
  BY DEF Sequencer, SequencerStarts, SequencerNext, IInv, TurnInv
<1>3. /\ seq' \in {"Idle", "Train"} /\ selector' \in Conns
      /\ busy' \in BOOLEAN /\ aligned' \in BOOLEAN
  <2>1. 0 \in Conns /\ selector \in Conns
    BY AlignAssumption DEF Conns, IInv, TypeOK
  <2>2. selector # NrofConn - 1 => selector + 1 \in Conns
    BY <2>1, AlignAssumption DEF Conns
  <2> QED BY <2>1, <2>2 DEF Sequencer, SequencerStarts, SequencerNext, IInv, TypeOK
<1>4. TypeOK'
  BY <1>1, <1>3 DEF IInv, TypeOK
<1>5. TurnInv' /\ RequestInv' /\ ManualInv' /\ SlipInv'
  BY <1>1, <1>2 DEF IInv, TurnInv, RequestInv, ManualInv, SlipInv
<1>6. TapInv'
  BY <1>1, <1>3 DEF IInv, TapInv
<1>7. DataInv'
  BY <1>1, <1>2 DEF IInv, DataInv
<1>8. AlignedInv'
  <2>1. \A c \in Conns : Sample(c)' = Sample(c)
    BY <1>1 DEF Sample, Settled
  <2> QED BY <1>1, <1>2, <2>1 DEF IInv, AlignedInv
<1>9. DoneInv'
  BY <1>1, SequencerDone DEF IInv, DoneInv, Clear
<1> QED BY <1>4, <1>5, <1>6, <1>7, <1>8, <1>9 DEF IInv

LEMMA SampleType == ASSUME TypeOK, NEW c \in Conns PROVE Sample(c) \subseteq Words
<1>1. line[c] \in Wire /\ slips[c] \in Bits /\ delay[c] \in Taps
  BY AlignAssumption DEF TypeOK, Wire
<1>2. Settled(c, delay[c]) \in Bits
  BY <1>1, WordType DEF Settled, WordOf
<1>3. Rotate(Settled(c, delay[c]), 1) \in Bits
  BY <1>2, Rotates, Settled(c, delay[c]) \in Int, 1 \in Int DEF Bits
<1> QED BY <1>2, <1>3 DEF Sample, Words

\* A step of the handshake, on one side or on the other, that carries out no command.
LEMMA StepHands ==
  ASSUME IInv,
         UNCHANGED <<wires, clock, host, turn, al, report, cmd, late, dirty>>,
         hs' \in {"Idle", "AckHigh", "AckLow", "End"}, req' \in BOOLEAN, data' \in Words,
         edge' \in BOOLEAN, seen' \in BOOLEAN, sync' \in {"Idle", "DataValid", "ReqLow"},
         ack' \in BOOLEAN, sel' \in Conns,
         hs' = "Idle" <=> hs = "Idle", RequestInv',
         ~late => (Before' <=> Before),
         ~late => \A c \in Conns : c = selector =>
                    (hs' \in {"AckLow", "End"} => data' \in Sample(c))
  PROVE  IInv'
<1>1. /\ line' = line /\ delay' = delay /\ slips' = slips /\ held' = held
      /\ divRuns' = divRuns /\ stops' = stops /\ driver' = driver /\ start' = start
      /\ auto' = auto /\ manual' = manual /\ sessions' = sessions
      /\ seq' = seq /\ selector' = selector /\ busy' = busy /\ aligned' = aligned
      /\ al' = al /\ wordAlign' = wordAlign /\ tapSetting' = tapSetting
      /\ cmd' = cmd /\ late' = late /\ dirty' = dirty
  BY DEF wires, clock, host, turn, report
<1>2. TypeOK'
  BY <1>1 DEF IInv, TypeOK
<1>3. TurnInv' /\ ManualInv'
  BY <1>1 DEF IInv, TurnInv, ManualInv
<1>4. TapInv'
  BY <1>1 DEF IInv, TapInv
<1>5. DataInv' /\ AlignedInv'
  <2>1. \A c \in Conns : Sample(c)' = Sample(c)
    BY <1>1 DEF Sample, Settled
  <2>2. DataInv'
    BY <1>1, <2>1 DEF IInv, DataInv
  <2>3. AlignedInv'
    BY <1>1, <2>1 DEF IInv, AlignedInv
  <2> QED BY <2>2, <2>3
<1>6. SlipInv'
  BY <1>1 DEF IInv, SlipInv, Clear, Word, Settled
<1>7. DoneInv'
  BY <1>1 DEF IInv, DoneInv, Done, Clear
<1> QED BY <1>2, <1>3, <1>4, <1>5, <1>6, <1>7 DEF IInv

LEMMA StepHandshake == ASSUME IInv, Handshake PROVE IInv'
<1>1. TypeOK /\ RequestInv /\ TurnInv
  BY DEF IInv
<1>2. CASE AckIsHigh
  <2>1. /\ hs = "AckHigh" /\ ack /\ hs' = "AckLow" /\ req' = FALSE
        /\ data' \in Sample(sel) /\ edge' = (edge \/ HasEdge(data'))
        /\ seen' = seen /\ sync' = sync /\ ack' = ack /\ sel' = sel /\ late' = late
        /\ selector' = selector
        /\ UNCHANGED <<wires, clock, host, turn, al, report, cmd, late, dirty>>
    BY <1>2 DEF AckIsHigh, crossed, turn
  <2>2. data' \in Words /\ edge' \in BOOLEAN
    BY <1>1, <2>1, SampleType DEF TypeOK, HasEdge
  <2>3. ~late => sync = "ReqLow" /\ sel = selector
    BY <1>1, <2>1 DEF RequestInv
  <2>4. RequestInv' /\ (~late => (Before' <=> Before))
    BY <2>1, <2>3 DEF RequestInv, Before
  <2> QED BY <1>1, <2>1, <2>2, <2>3, <2>4, StepHands DEF TypeOK
<1>3. CASE AckIsLow
  <2>1. /\ hs = "AckLow" /\ ~ack /\ hs' = "End" /\ req' = req
        /\ data' = data /\ edge' = edge
        /\ seen' = seen /\ sync' = sync /\ ack' = ack /\ sel' = sel /\ late' = late
        /\ selector' = selector
        /\ UNCHANGED <<wires, clock, host, turn, al, report, cmd, late, dirty>>
    BY <1>3 DEF AckIsLow, crossed, turn
  <2>2. RequestInv' /\ (~late => (Before' <=> Before))
    BY <1>1, <2>1 DEF RequestInv, Before
  <2>3. ~late => \A c \in Conns : c = selector => data' \in Sample(c)
    BY <2>1 DEF IInv, DataInv
  <2> QED BY <1>1, <2>1, <2>2, <2>3, StepHands DEF TypeOK
<1> QED BY <1>2, <1>3 DEF Handshake

LEMMA StepAckTimesOut == ASSUME IInv, AckTimesOut PROVE IInv'
<1>1. /\ line' = line /\ delay' = delay /\ slips' = slips /\ held' = held
      /\ divRuns' = divRuns /\ stops' = stops /\ driver' = driver /\ start' = start
      /\ auto' = auto /\ manual' = manual /\ sessions' = sessions
      /\ seq' = seq /\ selector' = selector /\ busy' = busy /\ aligned' = aligned
      /\ al' = al /\ wordAlign' = wordAlign /\ tapSetting' = tapSetting
      /\ cmd' = cmd /\ req' = req /\ edge' = edge /\ data' = data
      /\ seen' = seen /\ sync' = sync /\ ack' = ack /\ sel' = sel /\ dirty' = dirty
  BY DEF AckTimesOut, wires, clock, host, turn, report, crossed
<1>2. hs \in {"AckHigh", "AckLow"} /\ hs' = "End" /\ late' = TRUE
  BY DEF AckTimesOut
<1>3. TypeOK'
  BY <1>1, <1>2 DEF IInv, TypeOK
<1>4. TurnInv' /\ ManualInv'
  BY <1>1, <1>2 DEF IInv, TurnInv, ManualInv
<1>5. TapInv'
  BY <1>1, <1>2 DEF IInv, TapInv
<1>6. RequestInv' /\ DataInv' /\ AlignedInv' /\ SlipInv' /\ DoneInv'
  BY <1>2 DEF RequestInv, DataInv, AlignedInv, SlipInv, DoneInv
<1> QED BY <1>3, <1>4, <1>5, <1>6 DEF IInv

LEMMA StepSyncs ==
  ASSUME IInv, SyncSamplesReq \/ SyncAcks \/ SyncReleases
  PROVE  IInv'
<1>1. TypeOK /\ RequestInv
  BY DEF IInv
<1>2. /\ hs' = hs /\ req' = req /\ edge' = edge /\ data' = data /\ sel' = sel
      /\ late' = late /\ selector' = selector
      /\ UNCHANGED <<wires, clock, host, turn, al, report, cmd, late, dirty>>
  BY DEF SyncSamplesReq, SyncAcks, SyncReleases, request, turn
<1>3. ~late => \A c \in Conns : c = selector =>
                 (hs' \in {"AckLow", "End"} => data' \in Sample(c))
  BY <1>2 DEF IInv, DataInv
<1>4. CASE SyncSamplesReq
  <2>1. seen' = req /\ seen # req /\ sync' = sync /\ ack' = ack
    BY <1>4 DEF SyncSamplesReq
  <2>2. RequestInv' /\ (~late => (Before' <=> Before))
    BY <1>1, <1>2, <2>1 DEF RequestInv, Before, TypeOK
  <2> QED BY <1>1, <1>2, <1>3, <2>1, <2>2, StepHands DEF TypeOK
<1>5. CASE SyncAcks
  <2>1. sync = "DataValid" /\ sync' = "ReqLow" /\ ack' = TRUE /\ seen' = seen
    BY <1>5 DEF SyncAcks
  <2>2. RequestInv' /\ (~late => (Before' <=> Before))
    BY <1>1, <1>2, <2>1 DEF RequestInv, Before, TypeOK
  <2> QED BY <1>1, <1>2, <1>3, <2>1, <2>2, StepHands DEF TypeOK
<1>6. CASE SyncReleases
  <2>1. sync = "ReqLow" /\ ~seen /\ sync' = "Idle" /\ ack' = FALSE /\ seen' = seen
    BY <1>6 DEF SyncReleases
  <2>2. RequestInv' /\ (~late => (Before' <=> Before))
    BY <1>1, <1>2, <2>1 DEF RequestInv, Before, TypeOK
  <2> QED BY <1>1, <1>2, <1>3, <2>1, <2>2, StepHands DEF TypeOK
<1> QED BY <1>4, <1>5, <1>6

\* The command is carried out, once and on the connection whose turn it is.
LEMMA StepServes == ASSUME IInv, SyncServes PROVE IInv'
<1>1. /\ line' = line /\ divRuns' = divRuns /\ stops' = stops
      /\ driver' = driver /\ start' = start
      /\ auto' = auto /\ manual' = manual /\ sessions' = sessions
      /\ seq' = seq /\ selector' = selector /\ busy' = busy /\ aligned' = aligned
      /\ al' = al /\ wordAlign' = wordAlign /\ tapSetting' = tapSetting
      /\ cmd' = cmd /\ hs' = hs /\ req' = req /\ edge' = edge /\ data' = data
      /\ seen' = seen /\ ack' = ack /\ late' = late /\ dirty' = dirty
  BY DEF SyncServes, clock, host, turn, report, request
<1>2. /\ sync = "Idle" /\ seen /\ sync' = "DataValid" /\ sel' = selector
      /\ held' = [held EXCEPT ![selector] = cmd.op = "reset"]
      /\ delay' = [delay EXCEPT ![selector] =
                     CASE cmd.op = "reset" -> 0
                       [] cmd.op = "inc"   -> (@ + 1) % TapCountMax
                       [] cmd.op = "dec"   -> (@ + TapCountMax - 1) % TapCountMax
                       [] OTHER            -> @]
      /\ slips' = [slips EXCEPT ![selector] =
                     IF cmd.op = "reset" THEN 0
                     ELSE IF cmd.slip THEN Rotate(@, 1) ELSE @]
  BY DEF SyncServes
<1>3. /\ delay \in [Conns -> Taps] /\ slips \in [Conns -> Bits] /\ held \in [Conns -> BOOLEAN]
      /\ selector \in Conns /\ cmd \in Command /\ al \in Aligner
      /\ line \in [Conns -> Wire]
  BY AlignAssumption DEF IInv, TypeOK, Command, Aligner, Wire
<1>4. PICK z \in Conns : z = selector
  BY <1>3
<1>5. PICK d \in Taps : d = delay[z]
  BY <1>3
<1>6. PICK s \in Bits : s = slips[z]
  BY <1>3
<1>7. PICK x \in Command : x = cmd
  BY <1>3
<1>8. delay' = [delay EXCEPT ![z] = Moved(x.op, d)] /\ Moved(x.op, d) \in Taps
  <2>1. (CASE x.op = "reset" -> 0
           [] x.op = "inc"   -> (d + 1) % TapCountMax
           [] x.op = "dec"   -> (d + TapCountMax - 1) % TapCountMax
           [] OTHER          -> d) = Moved(x.op, d)
        /\ Moved(x.op, d) \in Taps
    BY TapMoves
  <2>2. delay' = [delay EXCEPT ![z] =
                    CASE x.op = "reset" -> 0
                      [] x.op = "inc"   -> (d + 1) % TapCountMax
                      [] x.op = "dec"   -> (d + TapCountMax - 1) % TapCountMax
                      [] OTHER          -> d]
    BY <1>2, <1>4, <1>5, <1>7
  <2> QED BY <2>1, <2>2
<1> DEFINE t == IF x.op = "reset" THEN 0 ELSE IF x.slip THEN Rotate(s, 1) ELSE s
<1>9. t \in Bits /\ slips' = [slips EXCEPT ![z] = t]
  <2>1. Rotate(s, 1) \in Bits /\ 0 \in Bits
    <3>1. s \in Int /\ 1 \in Int /\ 0 \in Bits
      BY WidthType DEF Bits
    <3> QED BY <3>1, Rotates
  <2> QED BY <1>2, <1>4, <1>6, <1>7, <2>1
<1> HIDE DEF t
<1>10. /\ delay' \in [Conns -> Taps] /\ delay'[z] = Moved(x.op, d)
       /\ slips' \in [Conns -> Bits] /\ slips'[z] = t
       /\ held' \in [Conns -> BOOLEAN] /\ held'[z] = (x.op = "reset")
       /\ \A c \in Conns : c # z => /\ delay'[c] = delay[c] /\ slips'[c] = slips[c]
                                    /\ held'[c] = held[c]
  BY <1>2, <1>3, <1>4, <1>7, <1>8, <1>9
<1>11. TypeOK'
  BY <1>1, <1>2, <1>3, <1>10 DEF IInv, TypeOK
<1>12. TurnInv' /\ ManualInv'
  BY <1>1 DEF IInv, TurnInv, ManualInv
<1>13. ~late => hs = "AckHigh" /\ al.state # "Idle" /\ seq = "Off"
  BY <1>2 DEF IInv, RequestInv, TurnInv, TypeOK
<1>14. (~late => Before) /\ ~Before'
  BY <1>2, <1>13 DEF Before
<1>15. RequestInv'
  BY <1>1, <1>2, <1>13 DEF IInv, RequestInv
<1>16. TapInv'
  <2>1. ~late => Tracks(al, x.op, d)
    BY <1>4, <1>5, <1>7, <1>13, <1>14 DEF IInv, TapInv
  <2>2. ~late => Tracks(al, "none", Moved(x.op, d))
    <3>1. Moved("none", Moved(x.op, d)) = Moved(x.op, d)
      BY DEF Moved
    <3> QED BY <2>1, <3>1 DEF Tracks
  <2> QED BY <1>1, <1>4, <1>10, <1>14, <2>2 DEF IInv, TapInv
<1>17. DataInv'
  <2>1. ~late => hs' \notin {"AckLow", "End"}
    BY <1>1, <1>13
  <2> QED BY <1>1, <1>4, <1>7, <1>10, <2>1 DEF DataInv
<1>18. AlignedInv'
  <2>1. SUFFICES ASSUME ~late, NEW c \in Conns, wordAlign[c]
                 PROVE  /\ c # selector
                        /\ delay'[c] \notin line[c].edges => Sample(c)' = {0}
                        /\ ~auto => tapSetting[c] % TapCountMax = delay'[c]
    BY <1>1 DEF AlignedInv
  <2>2. c # z
    BY <1>4, <1>13, <2>1 DEF IInv, AlignedInv
  <2>3. Sample(c)' = Sample(c)
    BY <1>1, <1>10, <2>2 DEF Sample, Settled
  <2> QED BY <1>4, <1>10, <2>1, <2>2, <2>3 DEF IInv, AlignedInv
<1>19. SlipInv'
  <2>1. SUFFICES ASSUME ~late, al.state = "Do_Word_Align", Clear(z)'
                 PROVE  Word(z)' = 0 \/ Word(z)' + al.gen >= DataWidth
    BY <1>1, <1>4, <1>14 DEF SlipInv
  <2>2. x = [op |-> "none", slip |-> TRUE]
    BY <1>7, <2>1 DEF IInv, TurnInv
  <2>3. delay'[z] = d /\ slips'[z] = Rotate(s, 1)
    BY <1>10, <2>2 DEF Moved, t
  <2>4. Clear(z)
    BY <1>1, <1>5, <2>1, <2>3 DEF Clear
  <2>5. Word(z) # 0 /\ Word(z) + al.gen >= DataWidth - 1
    BY <1>4, <1>14, <2>1, <2>4 DEF IInv, SlipInv
  <2>6. PICK w \in Wire : w = line[z]
    BY <1>3
  <2>7. Word(z) = WordOf(w, s, d) /\ Word(z)' = WordOf(w, Rotate(s, 1), d)
    BY <1>1, <1>5, <1>6, <2>3, <2>6 DEF Word, Settled, WordOf
  <2>8. WordOf(w, Rotate(s, 1), d) = Succ(WordOf(w, s, d), DataWidth) /\ WordOf(w, s, d) \in Bits
    BY WordSlips, WordType
  <2>9. PICK v \in Bits : v = WordOf(w, s, d)
    BY <2>8
  <2>10. v \in Int /\ al.gen \in Int /\ v + al.gen >= DataWidth - 1
    BY <1>3, <2>5, <2>7, <2>9 DEF Bits, Aligner
  <2>11. Succ(v, DataWidth) = 0 \/ Succ(v, DataWidth) + al.gen >= DataWidth
    BY <2>10, WidthType DEF Succ
  <2> QED BY <2>7, <2>8, <2>9, <2>11
<1>20. DoneInv'
  <2>1. SUFFICES ASSUME ~late, ~auto, NEW c \in Conns, Done(c)', Clear(c)'
                 PROVE  wordAlign[c]
    BY <1>1 DEF DoneInv
  <2>2. Done(c) /\ c # z
    BY <1>1, <1>3, <1>4, <1>13, <2>1, AlignAssumption DEF Done, Conns
  <2>3. Clear(c)
    BY <1>1, <1>10, <2>1, <2>2 DEF Clear
  <2> QED BY <2>1, <2>2, <2>3 DEF IInv, DoneInv
<1> QED BY <1>11, <1>12, <1>15, <1>16, <1>17, <1>18, <1>19, <1>20 DEF IInv

LEMMA StepDriverResets == ASSUME IInv, DriverResets PROVE IInv'
<1>1. /\ driver' = "clk" /\ start' = FALSE /\ auto' \in AutoModes /\ manual' \in ManualTaps
      /\ seq' = "Idle" /\ selector' = 0 /\ busy' = FALSE /\ aligned' = FALSE
      /\ al' = ResetAligning
      /\ wordAlign' = [c \in Conns |-> FALSE] /\ tapSetting' = [c \in Conns |-> 0]
      /\ cmd' = [op |-> "reset", slip |-> FALSE]
      /\ hs' = "Idle" /\ req' = FALSE /\ data' = Blank /\ edge' = FALSE
      /\ seen' = FALSE /\ sync' = "Idle" /\ ack' = FALSE /\ sel' = 0
      /\ delay' = [delay EXCEPT ![0] = 0] /\ slips' = [slips EXCEPT ![0] = 0]
      /\ held' = [c \in Conns |-> c = 0]
      /\ late' = FALSE /\ dirty' = [c \in Conns |-> FALSE]
      /\ line' = line /\ divRuns' = divRuns /\ stops' = stops
  BY DEF DriverResets, clock
<1>2. sessions' \in 0 .. MaxSessions
  BY AlignAssumption DEF DriverResets, IInv, TypeOK
<1>3. /\ 0 \in Conns /\ 0 \in Taps /\ 0 \in Bits /\ 0 \in 0 .. TapRange - 1
      /\ AutoModes \subseteq BOOLEAN /\ ManualTaps \subseteq Nat /\ Blank \in Words
  BY AlignAssumption DEF Conns, Taps, Bits, Words
<1>4. al' \in Aligner /\ al'.state = "Idle" /\ al'.max = -1
  BY <1>1, <1>3 DEF ResetAligning, Aligner, AlignState
<1>5. TypeOK'
  <2>1. delay' \in [Conns -> Taps] /\ slips' \in [Conns -> Bits]
    BY <1>1, <1>3 DEF IInv, TypeOK
  <2> QED BY <1>1, <1>2, <1>3, <1>4, <2>1 DEF IInv, TypeOK, Aligner
<1>6. TurnInv' /\ RequestInv'
  BY <1>1, <1>4 DEF TurnInv, RequestInv
<1>7. TapInv'
  BY <1>1, <1>4, WidthType DEF TapInv
<1>8. DataInv' /\ AlignedInv'
  BY <1>1, <1>4 DEF DataInv, AlignedInv
<1>9. ManualInv' /\ SlipInv'
  BY <1>4 DEF ManualInv, SlipInv
<1>10. DoneInv'
  BY <1>1 DEF DoneInv, Done
<1> QED BY <1>5, <1>6, <1>7, <1>8, <1>9, <1>10 DEF IInv

LEMMA Initially == Init => IInv
<1> SUFFICES ASSUME Init PROVE IInv
  OBVIOUS
<1>1. /\ 0 \in Conns /\ 0 \in Taps /\ 0 \in Bits /\ 0 \in 0 .. TapRange - 1 /\ Blank \in Words
      /\ MaxSessions \in Nat /\ 0 \in 0 .. MaxSessions
  BY AlignAssumption DEF Conns, Taps, Bits, Words
<1>2. al \in Aligner /\ al.state = "Idle" /\ al.max = -1
  BY <1>1 DEF Init, ResetAligning, Aligner, AlignState
<1>3. stops \in 0 .. MaxStops[line]
  BY AlignAssumption DEF Init
<1>4. TypeOK
  BY <1>1, <1>2, <1>3 DEF Init, TypeOK, Aligner
<1>5. TurnInv /\ RequestInv
  BY <1>2 DEF Init, TurnInv, RequestInv
<1>6. TapInv
  BY <1>2, WidthType DEF Init, TapInv
<1>7. DataInv /\ AlignedInv /\ ManualInv /\ SlipInv
  BY <1>2 DEF Init, DataInv, AlignedInv, ManualInv, SlipInv
<1>8. DoneInv
  BY DEF Init, DoneInv, Done
<1> QED BY <1>4, <1>5, <1>6, <1>7, <1>8 DEF IInv

LEMMA Unchanged == ASSUME IInv, UNCHANGED vars PROVE IInv'
<1>1. /\ UNCHANGED <<wires, auto, manual, sessions, turn, al, report, request, data,
                     crossed, late, dirty>>
      /\ line' = line /\ driver' = driver /\ start' = start /\ divRuns' = divRuns /\ stops' = stops
  BY DEF vars, wires, clock, host
<1>2. /\ driver' \in {"idle", "clk", "poll", "wait"} /\ start' \in BOOLEAN
      /\ divRuns' \in BOOLEAN /\ stops' \in 0 .. MaxStops[line]
  BY <1>1 DEF IInv, TypeOK
<1> QED BY <1>1, <1>2, StepBeside

LEMMA StepPolls ==
  ASSUME IInv, DriverStarts \/ DriverSeesBusy \/ DriverSeesDone
  PROVE  IInv'
<1>1. /\ UNCHANGED <<wires, auto, manual, sessions, turn, al, report, request, data,
                     crossed, late, dirty>>
      /\ divRuns' = divRuns /\ stops' = stops
  BY DEF DriverStarts, DriverSeesBusy, DriverSeesDone, clock, turn
<1>2. driver' \in {"idle", "clk", "poll", "wait"} /\ start' \in BOOLEAN
  BY DEF DriverStarts, DriverSeesBusy, DriverSeesDone, IInv, TypeOK
<1>3. divRuns' \in BOOLEAN /\ stops' \in 0 .. MaxStops[line]
  BY <1>1 DEF IInv, TypeOK
<1> QED BY <1>1, <1>2, <1>3, StepBeside

LEMMA StepDivClock ==
  ASSUME IInv, DivStops \/ DivRestarts
  PROVE  IInv'
<1>1. /\ UNCHANGED <<wires, auto, manual, sessions, turn, al, report, request, data,
                     crossed, late, dirty>>
      /\ driver' = driver /\ start' = start
  BY DEF DivStops, DivRestarts, host
<1>2. driver' \in {"idle", "clk", "poll", "wait"} /\ start' \in BOOLEAN
  BY <1>1 DEF IInv, TypeOK
<1>3. divRuns' \in BOOLEAN /\ stops' \in 0 .. MaxStops[line]
  <2>1. stops \in 0 .. MaxStops[line] /\ MaxStops[line] \in Nat
    BY AlignAssumption DEF IInv, TypeOK
  <2>2. divRuns' \in BOOLEAN /\ ((stops < MaxStops[line] /\ stops' = stops + 1) \/ stops' = stops)
    BY DEF DivStops, DivRestarts
  <2>3. stops' \in 0 .. MaxStops[line]
    <3> DEFINE m == MaxStops[line]
    <3>1. stops \in 0 .. m /\ m \in Nat /\ ((stops < m /\ stops' = stops + 1) \/ stops' = stops)
      BY <2>1, <2>2
    <3> HIDE DEF m
    <3>2. stops' \in 0 .. m
      BY <3>1
    <3> QED BY <3>2 DEF m
  <2> QED BY <2>2, <2>3
<1> QED BY <1>1, <1>2, <1>3, StepBeside

-----------------------------------------------------------------------------
(* Automatic mode: what the searches see.                                   *)

\* Rotations by one bit and by two, to either side.
LEMMA Turns ==
  ASSUME NEW p \in Bits
  PROVE  /\ Rotate(p, 0) = p /\ Ror(p, 0) = p
         /\ Rotate(p, 1) = Succ(p, DataWidth) /\ Ror(p, 1) = Pred(p, DataWidth)
         /\ Ror(p, 2) = Pred(Pred(p, DataWidth), DataWidth)
         /\ Succ(p, DataWidth) \in Bits /\ Pred(p, DataWidth) \in Bits
<1> DEFINE m == DataWidth
<1>1. m \in Nat \ {0} /\ m \in Nat /\ m >= 5 /\ p \in 0 .. m - 1
  BY AlignAssumption DEF Bits
<1> HIDE DEF m
<1>2. p + 0 = p /\ p + m - 0 = 1 * m + p /\ p + m - 1 \in Int /\ 1 \in Int
  BY <1>1
<1>3. p % m = p /\ (1 * m + p) % m = p
  BY <1>1, <1>2, SmallMod, Remainder
<1>4. /\ Succ(p, m) \in 0 .. m - 1 /\ (p + 1) % m = Succ(p, m)
      /\ Pred(p, m) \in 0 .. m - 1 /\ (p + m - 1) % m = Pred(p, m)
  BY <1>1, Counts
<1>5. (p + m - 2) % m = Pred(Pred(p, m), m)
  <2>1. CASE p >= 2
    <3>1. p - 2 \in 0 .. m - 1 /\ p + m - 2 = 1 * m + (p - 2)
      BY <1>1, <2>1
    <3>2. Pred(Pred(p, m), m) = p - 2
      BY <1>1, <2>1 DEF Pred
    <3> QED BY <1>1, <1>2, <3>1, <3>2, Remainder
  <2>2. CASE ~(p >= 2)
    <3>1. p + m - 2 \in 0 .. m - 1 /\ Pred(Pred(p, m), m) = p + m - 2
      BY <1>1, <2>2 DEF Pred
    <3> QED BY <1>1, <3>1, SmallMod
  <2> QED BY <2>1, <2>2
<1> QED BY <1>1, <1>2, <1>3, <1>4, <1>5 DEF Rotate, Ror, Bits, m

\* A word is rotated from itself by nothing but a multiple of its width.
LEMMA Apart ==
  ASSUME NEW p \in Bits
  PROVE  LET q == Pred(p, DataWidth)
             r == Pred(q, DataWidth)
         IN  /\ p # q /\ p # r /\ q # r
             /\ Succ(q, DataWidth) = p /\ Succ(r, DataWidth) = q
<1>1. DataWidth \in Nat /\ DataWidth >= 5 /\ p \in 0 .. DataWidth - 1
  BY AlignAssumption DEF Bits
<1> QED BY <1>1 DEF Succ, Pred

\* Before the first edge of a clean line, between its edges, and behind them.
LEMMA EyeWords ==
  ASSUME NEW w \in Wire, NEW e \in Taps, NEW f \in Taps, w.edges = {e, f}, e < f, NEW d \in Taps
  PROVE  WordOf(w, 0, d) = IF d < e THEN w.phase
                           ELSE IF d < f THEN Pred(w.phase, DataWidth)
                           ELSE Pred(Pred(w.phase, DataWidth), DataWidth)
<1> DEFINE S == {x \in w.edges : x <= d}
           p == w.phase
           k == IF d < e THEN 0 ELSE IF d < f THEN 1 ELSE 2
<1>1. e \in Int /\ f \in Int /\ d \in Int /\ p \in Bits
  BY WidthType DEF Taps, Wire
<1>2. Cardinality(S) = k
  <2>1. CASE d < e
    <3>1. S = {}
      BY <1>1, <2>1
    <3> QED BY <2>1, <3>1, FS_EmptySet
  <2>2. CASE ~(d < e) /\ d < f
    <3>1. S = {e}
      BY <1>1, <2>2
    <3> QED BY <2>2, <3>1, FS_Singleton
  <2>3. CASE ~(d < e) /\ ~(d < f)
    <3>1. S = {e} \cup {f} /\ f \notin {e}
      BY <1>1, <2>3
    <3>2. IsFiniteSet({e}) /\ Cardinality({e}) = 1
      BY FS_Singleton
    <3>3. Cardinality({e} \cup {f}) =
            IF f \in {e} THEN Cardinality({e}) ELSE Cardinality({e}) + 1
      BY <3>2, FS_AddElement
    <3>4. Cardinality(S) = 2
      BY <3>1, <3>2, <3>3
    <3> QED BY <2>3, <3>4
  <2> QED BY <2>1, <2>2, <2>3
<1>3. k \in 0 .. 2 /\ DataWidth \in Nat /\ DataWidth >= 5
  BY AlignAssumption
<1>4. k % DataWidth = k
  <2>1. k \in 0 .. DataWidth - 1
    BY <1>3
  <2> HIDE DEF k
  <2> QED BY <2>1, WidthType, SmallMod
<1>5. WordOf(w, 0, d) = Ror(p, k)
  <2>1. Rotate(p, 0) = p
    BY <1>1, Turns
  <2> HIDE DEF k
  <2> QED BY <1>2, <1>4, <2>1 DEF WordOf
<1>6. Ror(p, 0) = p /\ Ror(p, 1) = Pred(p, DataWidth)
      /\ Ror(p, 2) = Pred(Pred(p, DataWidth), DataWidth)
  BY <1>1, Turns
<1> QED BY <1>5, <1>6

\* Out of reset a line that is alive shows a word with an edge in it.
LEMMA Sees ==
  ASSUME IInv, hs = "End", ~late, cmd.op # "reset", NEW c \in Conns, c = selector, line[c].live
  PROVE  /\ Word(c) \in Bits /\ Word(c) = WordOf(line[c], slips[c], delay[c])
         /\ data \in {Word(c), Succ(Word(c), DataWidth), Mixed} /\ data # Blank
         /\ delay[c] \notin line[c].edges => data = Word(c)
<1>1. al.state # "Idle" /\ ~Before
  BY Found DEF Before
<1>2. data \in Sample(c) /\ held[c] = FALSE
  BY <1>1 DEF IInv, DataInv
<1>3. line[c] \in Wire /\ slips[c] \in Bits /\ delay[c] \in Taps
  BY AlignAssumption DEF IInv, TypeOK, Wire
<1>4. Word(c) = WordOf(line[c], slips[c], delay[c])
  BY DEF Word, Settled, WordOf
<1>5. Word(c) \in Bits
  BY <1>3, <1>4, WordType
<1>6. data \in {Word(c), Rotate(Word(c), 1), Mixed}
      /\ (delay[c] \notin line[c].edges => data = Word(c))
  BY <1>2 DEF Sample, Word
<1>7. Rotate(Word(c), 1) = Succ(Word(c), DataWidth) /\ Succ(Word(c), DataWidth) \in Bits
  <2>1. PICK v \in Bits : v = Word(c)
    BY <1>5
  <2> QED BY <2>1, Turns
<1>8. data # Blank
  BY <1>5, <1>6, <1>7, AlignAssumption
<1> QED BY <1>4, <1>5, <1>6, <1>7, <1>8

\* The counter has room for all the taps of the line.
LEMMA Room ==
  /\ TapRange \in Nat /\ TapRange >= TapCountMax
  /\ \A t \in Nat : t + 1 < TapRange => (t + 1) % TapRange = t + 1
  /\ \A t \in Nat : 1 <= t /\ t < TapRange => (t + TapRange - 1) % TapRange = t - 1
<1> DEFINE n == TapRange
<1>1. n \in Nat \ {0} /\ TapCountMax \in Nat \ {0} /\ n % TapCountMax = 0
  BY AlignAssumption
<1>2. n >= TapCountMax
  <2>1. SUFFICES ASSUME n < TapCountMax PROVE FALSE
    BY <1>1
  <2>2. n \in 0 .. TapCountMax - 1
    BY <1>1, <2>1
  <2> HIDE DEF n
  <2>3. n % TapCountMax = n
    BY <1>1, <2>2, SmallMod
  <2> QED BY <1>1, <2>3
<1> HIDE DEF n
<1>3. ASSUME NEW t \in Nat, t < n
      PROVE  /\ t + 1 < n => (t + 1) % n = t + 1
             /\ 1 <= t => (t + n - 1) % n = t - 1
  <2>1. t \in 0 .. n - 1
    BY <1>1, <1>3
  <2>2. (t + 1) % n = Succ(t, n) /\ (t + n - 1) % n = Pred(t, n)
    BY <1>1, <2>1, Counts
  <2> QED BY <1>1, <1>3, <2>2 DEF Succ, Pred
<1>4. \A t \in Nat : t + 1 < n => t < n
  BY <1>1
<1> QED BY <1>1, <1>2, <1>3, <1>4 DEF n

\* The way so far, on a clean line: at the end of a command.
LEMMA Way ==
  ASSUME IInv, EInv, hs = "End", ~late, auto,
         NEW c \in Conns, NEW e \in Taps, NEW f \in Taps, c = selector, Eye(c, e, f), ~dirty[c]
  PROVE  /\ OnTheWay(c, e, f) /\ ~Before /\ al.state # "Reset_Delay_Man"
         /\ al.tap \in Nat /\ al.max \in Int /\ al.window \in Nat /\ al.retry \in Int
         /\ al.gen \in Int /\ line[c].phase \in Bits /\ 1 <= e /\ e + 9 <= f /\ f + 1 < TapCountMax
         /\ e \in Nat /\ f \in Nat /\ TapCountMax \in Nat
         /\ al.state \in SearchStates => slips[c] = 0
         /\ al.tap < TapCountMax => al.tap = delay[c]
<1>1. al.state # "Idle" /\ al \in Aligner /\ (~late => Tracks(al, "none", delay[selector]))
  BY Found
<1>2. OnTheWay(c, e, f)
  BY <1>1 DEF EInv, CleanInv
<1>3. ~Before
  BY DEF Before
<1>4. al.tap \in Nat /\ al.max \in Int /\ al.window \in Nat /\ al.retry \in Int /\ al.gen \in Int
  BY <1>1, WidthType DEF Aligner
<1>5. e \in Nat /\ f \in Nat /\ TapCountMax \in Nat \ {0} /\ line[c] \in Wire
  BY WidthType, AlignAssumption DEF Taps, IInv, TypeOK, Wire
<1>6. line[c].phase \in Bits /\ 1 <= e /\ e + 9 <= f /\ f + 1 < TapCountMax
  BY <1>5 DEF Eye, Wire
<1>7. al.state \in SearchStates => slips[c] = 0
  BY <1>2, <1>3 DEF OnTheWay
<1>8. al.tap < TapCountMax => al.tap = delay[c]
  <2>1. SUFFICES ASSUME al.tap < TapCountMax PROVE al.tap = delay[c]
    OBVIOUS
  <2>2. al.max >= -1
    BY <1>2 DEF OnTheWay
  <2>3. al.tap % TapCountMax = delay[c]
    BY <1>1, <2>2 DEF Tracks, Moved
  <2>4. PICK n \in 0 .. TapCountMax - 1 : n = al.tap
    BY <1>4, <1>5, <2>1
  <2>5. n % TapCountMax = n
    BY <1>5, SmallMod
  <2> QED BY <2>3, <2>4, <2>5
<1>9. al.state # "Reset_Delay_Man"
  BY DEF IInv, TurnInv
<1> QED BY <1>2, <1>3, <1>4, <1>5, <1>6, <1>7, <1>8, <1>9

\* What is seen on the way: the word of the phase before the first edge, the word before it
\* between the edges, the next one behind them, and on an edge one of its two sides or a mixture.
LEMMA Looks ==
  ASSUME IInv, EInv, hs = "End", ~late, auto,
         NEW c \in Conns, NEW e \in Taps, NEW f \in Taps, c = selector, Eye(c, e, f), ~dirty[c],
         al.state \in SearchStates \ {"Reset_Delay"}, al.tap < TapCountMax
  PROVE  /\ al.tap < e => data = line[c].phase /\ edge
         /\ al.init = line[c].phase =>
              /\ al.tap < e => ~Turned(1)
              /\ e < al.tap /\ al.tap < f => Turned(1)
              /\ al.tap < f => ~Turned(2)
              /\ f < al.tap => Turned(2)
<1>1. /\ slips[c] = 0 /\ al.tap = delay[c] /\ e \in Int /\ f \in Int /\ e < f /\ al.tap \in Int
      /\ line[c].phase \in Bits /\ line[c].live /\ line[c].edges = {e, f}
  BY Way DEF Eye
<1>2. cmd.op # "reset"
  BY DEF EInv, HeardInv
<1>3. /\ Word(c) \in Bits /\ Word(c) = WordOf(line[c], slips[c], delay[c])
      /\ data \in {Word(c), Succ(Word(c), DataWidth), Mixed} /\ data # Blank
      /\ delay[c] \notin line[c].edges => data = Word(c)
  BY <1>1, <1>2, Sees
<1>4. line[c] \in Wire /\ delay[c] \in Taps
  BY AlignAssumption DEF IInv, TypeOK, Wire
<1>5. PICK w \in Wire : w = line[c]
  BY <1>4
<1>6. PICK d \in Taps : d = delay[c]
  BY <1>4
<1>7. PICK p \in Bits : p = w.phase
  BY <1>1, <1>5
<1> DEFINE q == Pred(p, DataWidth)
           r == Pred(q, DataWidth)
<1>8. Word(c) = IF d < e THEN p ELSE IF d < f THEN q ELSE r
  <2>1. w.edges = {e, f}
    BY <1>1, <1>5
  <2>2. WordOf(w, 0, d) = IF d < e THEN w.phase
                          ELSE IF d < f THEN Pred(w.phase, DataWidth)
                          ELSE Pred(Pred(w.phase, DataWidth), DataWidth)
    BY <1>1, <2>1, EyeWords
  <2> QED BY <1>1, <1>3, <1>5, <1>6, <1>7, <2>2
<1>9. /\ p # q /\ p # r /\ q # r /\ Succ(q, DataWidth) = p /\ Succ(r, DataWidth) = q
      /\ Ror(p, 1) = q /\ Ror(p, 2) = r /\ q \in Bits
  <2>1. q \in Bits
    BY Turns
  <2>2. r \in Bits
    BY <2>1, Turns
  <2> QED BY <2>1, <2>2, Turns, Apart
<1>10. r \in Bits /\ Mixed \notin Bits
  BY <1>9, Turns, AlignAssumption
<1> HIDE DEF q, r
<1>11. /\ d < e => data = p
       /\ d = e => data \in {q, p, Mixed}
       /\ e < d /\ d < f => data = q
       /\ f < d => data = r
  BY <1>1, <1>3, <1>6, <1>8, <1>9
<1>12. /\ d < e => data = p
       /\ al.init = p =>
            /\ d < e => ~(data = Ror(p, 1))
            /\ e < d /\ d < f => data = Ror(p, 1)
            /\ d < f => ~(data = Ror(p, 2))
            /\ f < d => data = Ror(p, 2)
  <2>1. d < f => d < e \/ d = e \/ (e < d /\ d < f)
    BY <1>1, <1>6
  <2> QED BY <1>9, <1>10, <1>11, <2>1
<1>13. al.init = p => \A n \in {1, 2} : Turned(n) <=> data = Ror(p, n)
  BY AlignAssumption DEF Turned
<1>14. edge
  BY <1>3 DEF EInv, HeardInv
<1> QED BY <1>1, <1>5, <1>6, <1>7, <1>12, <1>13, <1>14

-----------------------------------------------------------------------------
(* Automatic mode: the steps of the searches.                               *)

\* A search goes on with a command.
LEMMA Onward ==
  ASSUME IInv, EInv, hs = "End", al.state \in SearchStates,
         NEW op \in {"none", "reset", "inc", "dec"}, Do(op), UNCHANGED <<dirty, Elsewhere>>,
         al'.state \in SearchStates =>
           /\ al'.state = "Reset_Delay" <=> op = "reset"
           /\ al'.state = "CheckFirstEdgeStable" => op = "none",
         \A c \in Conns : ~late /\ auto /\ c = selector /\ line[c].live /\ dirty[c] => Slipping(c)',
         \A c \in Conns : \A e, f \in Taps :
           ~late /\ auto /\ c = selector /\ Eye(c, e, f) /\ ~dirty[c] => OnTheWay(c, e, f)'
  PROVE  HeardInv' /\ SlippingInv' /\ CleanInv'
<1>1. hs' = "AckHigh" /\ cmd'.op = op /\ cmd'.slip = cmd.slip
  BY DoAsks
<1>2. line' = line /\ late' = late /\ auto' = auto /\ selector' = selector /\ dirty' = dirty
  BY DEF Elsewhere, wires, host
<1>3. HeardInv'
  BY <1>1, <1>2 DEF EInv, HeardInv
<1>4. SlippingInv'
  BY <1>2 DEF SlippingInv
<1>5. CleanInv'
  BY <1>2 DEF CleanInv, Eye
<1> QED BY <1>3, <1>4, <1>5

\* The lines are as they were, and the command waits.
LEMMA Waiting ==
  ASSUME IInv, hs = "End", ~late, NEW op \in {"none", "reset", "inc", "dec"}, Do(op),
         UNCHANGED Elsewhere
  PROVE  /\ Before' /\ line' = line /\ slips' = slips
         /\ \A c \in Conns : Word(c)' = Word(c)
<1>1. hs' = "AckHigh"
  BY DoAsks
<1>2. sync = "Idle" /\ sync' = sync /\ line' = line /\ slips' = slips /\ delay' = delay
  BY DEF IInv, RequestInv, Elsewhere, crossed, wires
<1> QED BY <1>1, <1>2 DEF Before, Word, Settled

\* Where words slip.
LEMMA Slips ==
  ASSUME EInv, ~late, auto, al.state # "Idle", NEW c \in Conns, c = selector, line[c].live, dirty[c]
  PROVE  Slipping(c)
BY DEF EInv, SlippingInv

LEMMA NextGoes ==
  ASSUME NEW a \in Aligner, NEW state \in SearchStates \ {"Reset_Delay"}, NextTap(a, state)
  PROVE  \E op \in {"reset", "inc"} :
           /\ Do(op)
           /\ op = "reset" <=> a.max < 0
           /\ al'.state = IF op = "reset" THEN "Reset_Delay" ELSE state
           /\ al'.init = a.init
           /\ op = "inc" =>
                /\ al'.tap = (a.tap + 1) % TapRange /\ al'.max = a.max - 1
                /\ al'.window = a.window /\ al'.retry = a.retry /\ al'.gen = a.gen
<1>1. CASE a.max < 0
  <2>1. al' = [a EXCEPT !.state = "Reset_Delay", !.tap = 0, !.max = TapCountMax - 1]
        /\ Do("reset")
    BY <1>1 DEF NextTap
  <2>2. al'.state = "Reset_Delay" /\ al'.init = a.init
    BY <2>1 DEF Aligner
  <2> QED BY <1>1, <2>1, <2>2
<1>2. CASE ~(a.max < 0)
  <2>1. al' = Further(a, state) /\ Do("inc")
    BY <1>2 DEF NextTap
  <2>2. /\ al'.state = state /\ al'.init = a.init /\ al'.tap = (a.tap + 1) % TapRange
        /\ al'.max = a.max - 1 /\ al'.window = a.window /\ al'.retry = a.retry
        /\ al'.gen = a.gen
    BY <2>1 DEF Further, Aligner
  <2> QED BY <1>2, <2>1, <2>2
<1> QED BY <1>1, <1>2

LEMMA ResetDelayGoes ==
  ASSUME IInv, EInv, ResetDelay
  PROVE  HeardInv' /\ SlippingInv' /\ CleanInv'
<1>1. /\ hs = "End" /\ al.state = "Reset_Delay" /\ al \in Aligner
      /\ al' = [al EXCEPT !.state = "Get_Edge", !.gen = StableCount - 1] /\ Do("none")
      /\ UNCHANGED <<dirty, Elsewhere>>
  BY Found DEF ResetDelay, At
<1>2. /\ al'.state = "Get_Edge" /\ al'.tap = al.tap /\ al'.max = al.max
      /\ al'.window = al.window /\ al'.retry = al.retry
  BY <1>1 DEF Aligner
<1>3. ASSUME NEW c \in Conns, ~late, auto, c = selector, line[c].live, dirty[c]
      PROVE  Slipping(c)'
  BY <1>2 DEF Slipping, SearchStates
<1>4. ASSUME NEW c \in Conns, NEW e \in Taps, NEW f \in Taps,
             ~late, auto, c = selector, Eye(c, e, f), ~dirty[c]
      PROVE  OnTheWay(c, e, f)'
  <2>1. OnTheWay(c, e, f) /\ slips[c] = 0
    BY <1>1, <1>4, Way DEF SearchStates
  <2>2. slips' = slips
    BY <1>1, <1>4, Waiting
  <2> QED BY <1>1, <1>2, <2>1, <2>2 DEF OnTheWay, SearchStates
<1>5. al'.state # "Reset_Delay" /\ al'.state # "CheckFirstEdgeStable"
  BY <1>2
<1> QED BY <1>1, <1>3, <1>4, <1>5, Onward DEF SearchStates

LEMMA CheckEdgeGoes ==
  ASSUME IInv, EInv, CheckEdge, al'.state # "Idle"
  PROVE  HeardInv' /\ SlippingInv' /\ CleanInv'
<1>1. /\ hs = "End" /\ al.state = "Get_Edge" /\ al.state \in SearchStates \ {"Reset_Delay"}
      /\ al \in Aligner /\ UNCHANGED <<dirty, Elsewhere>>
  BY Found DEF CheckEdge, At, SearchStates
<1>2. ~(al.retry < 0)
  BY <1>1 DEF CheckEdge, Finish, Aligner
<1>3. ASSUME NEW c \in Conns, NEW e \in Taps, NEW f \in Taps,
             ~late, auto, c = selector, Eye(c, e, f), ~dirty[c]
      PROVE  /\ edge /\ data = line[c].phase /\ al.tap = 0 /\ al.window = 0 /\ slips[c] = 0
             /\ al.max = TapCountMax - 1 - al.tap /\ al.max >= -1
  <2>1. OnTheWay(c, e, f) /\ slips[c] = 0 /\ 1 <= e /\ e \in Nat /\ TapCountMax \in Nat
        /\ e + 9 <= f /\ f + 1 < TapCountMax /\ f \in Nat
    BY <1>1, <1>3, Way
  <2>2. al.tap = 0 /\ al.window = 0 /\ al.max = TapCountMax - 1 - al.tap /\ al.max >= -1
    BY <1>1, <2>1 DEF OnTheWay
  <2>3. al.tap < e /\ al.tap < TapCountMax
    BY <2>1, <2>2
  <2>4. data = line[c].phase /\ edge
    BY <1>1, <1>3, <2>3, Looks
  <2> QED BY <2>1, <2>2, <2>4
<1>4. CASE edge
  <2>1. al' = [[al EXCEPT !.retry = @ - 1] EXCEPT !.init = data, !.state = "Wait_Sample_Stable"]
        /\ Do("none")
    BY <1>2, <1>4 DEF CheckEdge
  <2>2. /\ al'.state = "Wait_Sample_Stable" /\ al'.tap = al.tap /\ al'.max = al.max
        /\ al'.window = al.window /\ al'.init = data
    BY <1>1, <2>1 DEF Aligner
  <2>3. ASSUME NEW c \in Conns, ~late, auto, c = selector, line[c].live, dirty[c]
        PROVE  Slipping(c)'
    <3>1. cmd.op # "reset"
      BY <1>1 DEF EInv, HeardInv
    <3>2. data # Blank
      BY <1>1, <2>3, <3>1, Sees
    <3> QED BY <2>2, <3>2 DEF Slipping, SearchStates
  <2>4. ASSUME NEW c \in Conns, NEW e \in Taps, NEW f \in Taps,
               ~late, auto, c = selector, Eye(c, e, f), ~dirty[c]
        PROVE  OnTheWay(c, e, f)'
    <3>1. slips' = slips /\ line' = line
      BY <1>1, <2>1, <2>4, Waiting
    <3>2. /\ data = line[c].phase /\ al.tap = 0 /\ al.window = 0 /\ slips[c] = 0
          /\ al.max = TapCountMax - 1 - al.tap /\ al.max >= -1
      BY <1>3, <2>4
    <3> QED BY <2>2, <3>1, <3>2 DEF OnTheWay, SearchStates
  <2>5. al'.state # "Reset_Delay" /\ al'.state # "CheckFirstEdgeStable"
    BY <2>2
  <2> QED BY <1>1, <2>1, <2>3, <2>4, <2>5, Onward
<1>5. CASE ~edge
  <2>1. PICK a \in Aligner : a = [al EXCEPT !.retry = @ - 1]
    <3>1. [al EXCEPT !.retry = @ - 1] \in Aligner
      BY <1>1 DEF Aligner
    <3> QED BY <3>1
  <2>2. NextTap(a, "Get_Edge")
    BY <1>2, <1>5, <2>1 DEF CheckEdge
  <2>3. PICK op \in {"reset", "inc"} :
          Do(op) /\ al'.state = IF op = "reset" THEN "Reset_Delay" ELSE "Get_Edge"
    BY <2>2, NextGoes DEF SearchStates
  <2>4. ASSUME NEW c \in Conns, ~late, auto, c = selector, line[c].live, dirty[c]
        PROVE  Slipping(c)'
    BY <2>3 DEF Slipping, SearchStates
  <2>5. ASSUME NEW c \in Conns, NEW e \in Taps, NEW f \in Taps,
               ~late, auto, c = selector, Eye(c, e, f), ~dirty[c]
        PROVE  FALSE
    BY <1>3, <1>5, <2>5
  <2>6. /\ al'.state = "Reset_Delay" <=> op = "reset"
        /\ al'.state # "CheckFirstEdgeStable"
    BY <2>3
  <2> QED BY <1>1, <2>3, <2>4, <2>5, <2>6, Onward
<1> QED BY <1>4, <1>5

LEMMA WaitSampleStableGoes ==
  ASSUME IInv, EInv, WaitSampleStable
  PROVE  HeardInv' /\ SlippingInv' /\ CleanInv'
<1>1. /\ hs = "End" /\ al.state = "Wait_Sample_Stable" /\ al \in Aligner
      /\ al.state \in SearchStates \ {"Reset_Delay"} /\ UNCHANGED <<dirty, Elsewhere>>
  BY Found DEF WaitSampleStable, At, SearchStates
<1>2. ASSUME NEW c \in Conns, NEW e \in Taps, NEW f \in Taps,
             ~late, auto, c = selector, Eye(c, e, f), ~dirty[c]
      PROVE  /\ data = al.init /\ slips[c] = 0 /\ al.tap = 0 /\ al.window = 0
             /\ al.init = line[c].phase /\ al.max = TapCountMax - 1 - al.tap /\ al.max >= -1
  <2>1. OnTheWay(c, e, f) /\ slips[c] = 0 /\ 1 <= e /\ e \in Nat /\ TapCountMax \in Nat
        /\ e + 9 <= f /\ f + 1 < TapCountMax /\ f \in Nat
    BY <1>1, <1>2, Way
  <2>2. /\ al.tap = 0 /\ al.window = 0 /\ al.max = TapCountMax - 1 - al.tap /\ al.max >= -1
        /\ al.init = line[c].phase
    BY <1>1, <2>1 DEF OnTheWay
  <2>3. al.tap < e /\ al.tap < TapCountMax
    BY <2>1, <2>2
  <2>4. data = line[c].phase
    BY <1>1, <1>2, <2>3, Looks
  <2> QED BY <2>1, <2>2, <2>4
<1>3. CASE data = al.init
  <2>1. al' = [al EXCEPT !.gen = @ - 1] /\ Do("none")
    BY <1>3 DEF WaitSampleStable
  <2>2. /\ al'.state = "Wait_Sample_Stable" /\ al'.tap = al.tap /\ al'.max = al.max
        /\ al'.window = al.window /\ al'.init = al.init
    BY <1>1, <2>1 DEF Aligner
  <2>3. ASSUME NEW c \in Conns, ~late, auto, c = selector, line[c].live, dirty[c]
        PROVE  Slipping(c)'
    <3>1. Slipping(c)
      BY <1>1, <2>3, Slips
    <3> QED BY <1>1, <2>2, <3>1 DEF Slipping, SearchStates
  <2>4. ASSUME NEW c \in Conns, NEW e \in Taps, NEW f \in Taps,
               ~late, auto, c = selector, Eye(c, e, f), ~dirty[c]
        PROVE  OnTheWay(c, e, f)'
    <3>1. slips' = slips /\ line' = line
      BY <1>1, <2>1, <2>4, Waiting
    <3>2. /\ slips[c] = 0 /\ al.tap = 0 /\ al.window = 0
          /\ al.init = line[c].phase /\ al.max = TapCountMax - 1 - al.tap /\ al.max >= -1
      BY <1>2, <2>4
    <3> QED BY <2>2, <3>1, <3>2 DEF OnTheWay, SearchStates
  <2>5. al'.state # "Reset_Delay" /\ al'.state # "CheckFirstEdgeStable"
    BY <2>2
  <2> QED BY <1>1, <2>1, <2>3, <2>4, <2>5, Onward
<1>4. CASE data # al.init
  <2>1. PICK a \in Aligner :
          a = [al EXCEPT !.retry = @ - 1, !.gen = IF al.max < 0 THEN @ ELSE StableCount - 2]
    <3>1. PICK g \in Int : g = IF al.max < 0 THEN al.gen ELSE StableCount - 2
      <4>1. al.gen \in Int /\ StableCount - 2 \in Int
        BY <1>1, AlignAssumption DEF Aligner
      <4> QED BY <4>1
    <3>2. [al EXCEPT !.retry = @ - 1, !.gen = g] \in Aligner
      BY <1>1, CountsRetry
    <3>3. [al EXCEPT !.retry = @ - 1, !.gen = g]
            = [al EXCEPT !.retry = @ - 1, !.gen = IF al.max < 0 THEN @ ELSE StableCount - 2]
      BY <1>1, <3>1 DEF Aligner
    <3> QED BY <3>2, <3>3
  <2>2. NextTap(a, "Get_Edge")
    BY <1>4, <2>1 DEF WaitSampleStable
  <2>3. PICK op \in {"reset", "inc"} :
          Do(op) /\ al'.state = IF op = "reset" THEN "Reset_Delay" ELSE "Get_Edge"
    BY <2>2, NextGoes DEF SearchStates
  <2>4. ASSUME NEW c \in Conns, ~late, auto, c = selector, line[c].live, dirty[c]
        PROVE  Slipping(c)'
    BY <2>3 DEF Slipping, SearchStates
  <2>5. ASSUME NEW c \in Conns, NEW e \in Taps, NEW f \in Taps,
               ~late, auto, c = selector, Eye(c, e, f), ~dirty[c]
        PROVE  FALSE
    BY <1>2, <1>4, <2>5
  <2>6. /\ al'.state = "Reset_Delay" <=> op = "reset"
        /\ al'.state # "CheckFirstEdgeStable"
    BY <2>3
  <2> QED BY <1>1, <2>3, <2>4, <2>5, <2>6, Onward
<1> QED BY <1>3, <1>4

LEMMA CompareTrainingGoes ==
  ASSUME IInv, EInv, CompareTraining
  PROVE  HeardInv' /\ SlippingInv' /\ CleanInv'
<1>1. /\ hs = "End" /\ al.state = "Wait_Sample_Stable" /\ al \in Aligner
      /\ al.state \in SearchStates \ {"Reset_Delay"} /\ UNCHANGED <<dirty, Elsewhere>>
  BY Found DEF CompareTraining, At, SearchStates
<1>2. ASSUME NEW c \in Conns, NEW e \in Taps, NEW f \in Taps,
             ~late, auto, c = selector, Eye(c, e, f), ~dirty[c]
      PROVE  /\ data \in Bits /\ slips[c] = 0 /\ al.tap = 0 /\ al.window = 0
             /\ al.init = line[c].phase /\ al.max = TapCountMax - 1 - al.tap /\ al.max >= 0
             /\ 1 <= e /\ e \in Nat /\ 1 < TapCountMax /\ TapCountMax \in Nat
  <2>1. OnTheWay(c, e, f) /\ slips[c] = 0 /\ 1 <= e /\ e \in Nat /\ TapCountMax \in Nat
        /\ e + 9 <= f /\ f + 1 < TapCountMax /\ f \in Nat /\ line[c].phase \in Bits
    BY <1>1, <1>2, Way
  <2>2. /\ al.tap = 0 /\ al.window = 0 /\ al.max = TapCountMax - 1 - al.tap
        /\ al.init = line[c].phase
    BY <1>1, <2>1 DEF OnTheWay
  <2>3. al.tap < e /\ 1 < TapCountMax /\ al.tap < TapCountMax /\ al.max >= 0
    BY <2>1, <2>2
  <2>4. data = line[c].phase
    BY <1>1, <1>2, <2>3, Looks
  <2> QED BY <2>1, <2>2, <2>3, <2>4
<1>3. CASE data \in Bits
  <2>1. al' = Further(al, "CheckFirstEdgeChanged") /\ Do("inc")
    BY <1>3 DEF CompareTraining
  <2>2. /\ al'.state = "CheckFirstEdgeChanged" /\ al'.tap = (al.tap + 1) % TapRange
        /\ al'.max = al.max - 1 /\ al'.window = al.window /\ al'.init = al.init
    BY <1>1, <2>1 DEF Further, Aligner
  <2>3. ASSUME NEW c \in Conns, ~late, auto, c = selector, line[c].live, dirty[c]
        PROVE  Slipping(c)'
    <3>1. Slipping(c)
      BY <1>1, <2>3, Slips
    <3> QED BY <1>1, <2>2, <3>1 DEF Slipping, SearchStates
  <2>4. ASSUME NEW c \in Conns, NEW e \in Taps, NEW f \in Taps,
               ~late, auto, c = selector, Eye(c, e, f), ~dirty[c]
        PROVE  OnTheWay(c, e, f)'
    <3>1. slips' = slips /\ line' = line
      BY <1>1, <2>1, <2>4, Waiting
    <3>2. /\ slips[c] = 0 /\ al.tap = 0 /\ al.window = 0 /\ 1 <= e /\ e \in Nat
          /\ al.init = line[c].phase /\ al.max = TapCountMax - 1 - al.tap /\ al.max >= 0
          /\ TapCountMax \in Nat /\ 1 < TapCountMax
      BY <1>2, <2>4
    <3>3. (al.tap + 1) % TapRange = 1
      <4>1. al.tap + 1 < TapRange /\ al.tap \in Nat
        BY <3>2, Room
      <4>2. (al.tap + 1) % TapRange = al.tap + 1
        BY <4>1, Room
      <4> QED BY <3>2, <4>2
    <3>4. al'.tap = 1 /\ 1 \in 1 .. e + 1 /\ al'.max = TapCountMax - 1 - al'.tap /\ al'.max >= -1
      BY <2>2, <3>2, <3>3
    <3> QED BY <2>2, <3>1, <3>2, <3>4 DEF OnTheWay, SearchStates
  <2>5. al'.state # "Reset_Delay" /\ al'.state # "CheckFirstEdgeStable"
    BY <2>2
  <2> QED BY <1>1, <2>1, <2>3, <2>4, <2>5, Onward
<1>4. CASE data \notin Bits
  <2>1. PICK a \in Aligner :
          a = IF al.max < 0 THEN al ELSE [al EXCEPT !.retry = @ - 1, !.gen = StableCount - 2]
    <3>1. StableCount - 2 \in Int
      BY AlignAssumption
    <3>2. [al EXCEPT !.retry = @ - 1, !.gen = StableCount - 2] \in Aligner
      BY <1>1, <3>1, CountsRetry
    <3> QED BY <1>1, <3>2
  <2>2. NextTap(a, "Get_Edge")
    BY <1>4, <2>1 DEF CompareTraining
  <2>3. PICK op \in {"reset", "inc"} :
          Do(op) /\ al'.state = IF op = "reset" THEN "Reset_Delay" ELSE "Get_Edge"
    BY <2>2, NextGoes DEF SearchStates
  <2>4. ASSUME NEW c \in Conns, ~late, auto, c = selector, line[c].live, dirty[c]
        PROVE  Slipping(c)'
    BY <2>3 DEF Slipping, SearchStates
  <2>5. ASSUME NEW c \in Conns, NEW e \in Taps, NEW f \in Taps,
               ~late, auto, c = selector, Eye(c, e, f), ~dirty[c]
        PROVE  FALSE
    BY <1>2, <1>4, <2>5
  <2>6. /\ al'.state = "Reset_Delay" <=> op = "reset"
        /\ al'.state # "CheckFirstEdgeStable"
    BY <2>3
  <2> QED BY <1>1, <2>3, <2>4, <2>5, <2>6, Onward
<1> QED BY <1>3, <1>4

\* One tap further on the way.
LEMMA OneFurther ==
  ASSUME NEW t \in Nat, t + 1 < TapCountMax
  PROVE  (t + 1) % TapRange = t + 1
<1>1. t + 1 < TapRange
  BY Room, WidthType
<1> QED BY <1>1, Room

LEMMA CheckFirstEdgeChangedGoes ==
  ASSUME IInv, EInv, CheckFirstEdgeChanged
  PROVE  HeardInv' /\ SlippingInv' /\ CleanInv'
<1>1. /\ hs = "End" /\ al.state = "CheckFirstEdgeChanged" /\ al \in Aligner
      /\ al.state \in SearchStates \ {"Reset_Delay"} /\ UNCHANGED <<dirty, Elsewhere>>
  BY Found DEF CheckFirstEdgeChanged, At, SearchStates
<1>2. ASSUME NEW c \in Conns, NEW e \in Taps, NEW f \in Taps,
             ~late, auto, c = selector, Eye(c, e, f), ~dirty[c]
      PROVE  /\ slips[c] = 0 /\ al.tap \in 1 .. e + 1 /\ al.window = 0
             /\ al.init = line[c].phase /\ al.max = TapCountMax - 1 - al.tap /\ al.max >= 0
             /\ Turned(1) => al.tap \in e .. e + 1
             /\ ~Turned(1) => al.tap \in 1 .. e
             /\ e \in Nat /\ e + 2 < TapCountMax /\ TapCountMax \in Nat /\ al.tap \in Nat
  <2>1. OnTheWay(c, e, f) /\ slips[c] = 0 /\ 1 <= e /\ e \in Nat /\ TapCountMax \in Nat
        /\ e + 9 <= f /\ f + 1 < TapCountMax /\ f \in Nat /\ al.tap \in Nat
    BY <1>1, <1>2, Way
  <2>2. /\ al.tap \in 1 .. e + 1 /\ al.window = 0 /\ al.max = TapCountMax - 1 - al.tap
        /\ al.init = line[c].phase
    BY <1>1, <2>1 DEF OnTheWay
  <2>3. al.tap < TapCountMax /\ al.max >= 0 /\ e + 2 < TapCountMax
    BY <2>1, <2>2
  <2>4. (al.tap < e => ~Turned(1)) /\ (e < al.tap /\ al.tap < f => Turned(1))
    BY <1>1, <1>2, <2>2, <2>3, Looks
  <2>5. (~Turned(1) => al.tap \in 1 .. e) /\ (Turned(1) => al.tap \in e .. e + 1)
    BY <2>1, <2>2, <2>4
  <2> QED BY <2>1, <2>2, <2>3, <2>5
<1>3. CASE Turned(1)
  <2>1. al' = [al EXCEPT !.state = "CheckFirstEdgeStable", !.gen = StableCount - 1]
        /\ Do("none")
    BY <1>3 DEF CheckFirstEdgeChanged
  <2>2. /\ al'.state = "CheckFirstEdgeStable" /\ al'.tap = al.tap /\ al'.max = al.max
        /\ al'.window = al.window /\ al'.init = al.init /\ al'.gen = StableCount - 1
    BY <1>1, <2>1 DEF Aligner
  <2>3. ASSUME NEW c \in Conns, ~late, auto, c = selector, line[c].live, dirty[c]
        PROVE  Slipping(c)'
    <3>1. al.init # Blank
      BY <1>1, <2>3, Slips DEF Slipping
    <3>2. al.init \in Bits /\ data = Ror(al.init, 1)
      BY <1>3, <3>1 DEF Turned
    <3>3. cmd.op # "reset"
      BY <1>1 DEF EInv, HeardInv
    <3>4. data \in {Word(c), Succ(Word(c), DataWidth), Mixed} /\ Word(c) \in Bits
      BY <1>1, <2>3, <3>3, Sees
    <3>5. Ror(al.init, 1) \in Bits
      <4>1. PICK p \in Bits : p = al.init
        BY <3>2
      <4> QED BY <4>1, Turns
    <3>6. Succ(Word(c), DataWidth) = Rotate(Word(c), 1)
      <4>1. PICK v \in Bits : v = Word(c)
        BY <3>4
      <4> QED BY <4>1, Turns
    <3>7. Ror(al.init, 1) = Word(c) \/ Ror(al.init, 1) = Rotate(Word(c), 1)
      BY <3>2, <3>4, <3>5, <3>6, AlignAssumption
    <3>8. Before' /\ Word(c)' = Word(c)
      BY <1>1, <2>1, <2>3, Waiting
    <3>9. al'.gen \in {StableCount - 1, StableCount - 2} /\ al'.init # Blank /\ al'.init \in Bits
      BY <2>2, <3>1, <3>2
    <3>10. Ror(al'.init, 1) = Word(c)' \/ (Ror(al'.init, 1) = Rotate(Word(c)', 1)
           /\ al'.gen = StableCount - 1)
      BY <2>2, <3>7, <3>8
    <3> QED BY <2>2, <3>8, <3>9, <3>10 DEF Slipping, SearchStates
  <2>4. ASSUME NEW c \in Conns, NEW e \in Taps, NEW f \in Taps,
               ~late, auto, c = selector, Eye(c, e, f), ~dirty[c]
        PROVE  OnTheWay(c, e, f)'
    <3>1. slips' = slips /\ line' = line
      BY <1>1, <2>1, <2>4, Waiting
    <3>2. /\ slips[c] = 0 /\ al.tap \in e .. e + 1 /\ al.window = 0
          /\ al.init = line[c].phase /\ al.max = TapCountMax - 1 - al.tap /\ al.max >= 0
          /\ al.max \in Int
      BY <1>1, <1>2, <1>3, <2>4 DEF Aligner
    <3>3. al.max >= -1
      BY <3>2
    <3> QED BY <2>2, <3>1, <3>2, <3>3 DEF OnTheWay, SearchStates
  <2>5. al'.state # "Reset_Delay"
    BY <2>2
  <2> QED BY <1>1, <2>1, <2>3, <2>4, <2>5, Onward
<1>4. CASE ~Turned(1)
  <2>1. NextTap(al, "CheckFirstEdgeChanged")
    BY <1>4 DEF CheckFirstEdgeChanged
  <2>2. PICK a \in Aligner : a = al
    BY <1>1
  <2>3. PICK op \in {"reset", "inc"} :
          /\ Do(op)
          /\ op = "reset" <=> a.max < 0
          /\ al'.state = IF op = "reset" THEN "Reset_Delay" ELSE "CheckFirstEdgeChanged"
          /\ al'.init = a.init
          /\ op = "inc" =>
               /\ al'.tap = (a.tap + 1) % TapRange /\ al'.max = a.max - 1
               /\ al'.window = a.window
    BY <2>1, <2>2, NextGoes DEF SearchStates
  <2>4. ASSUME NEW c \in Conns, ~late, auto, c = selector, line[c].live, dirty[c]
        PROVE  Slipping(c)'
    <3>1. al.init # Blank
      BY <1>1, <2>4, Slips DEF Slipping
    <3> QED BY <2>2, <2>3, <3>1 DEF Slipping, SearchStates
  <2>5. ASSUME NEW c \in Conns, NEW e \in Taps, NEW f \in Taps,
               ~late, auto, c = selector, Eye(c, e, f), ~dirty[c]
        PROVE  OnTheWay(c, e, f)'
    <3>1. slips' = slips /\ line' = line
      BY <1>1, <2>3, <2>5, Waiting
    <3>2. /\ slips[c] = 0 /\ al.tap \in 1 .. e /\ al.window = 0 /\ al.tap \in Nat
          /\ al.init = line[c].phase /\ al.max = TapCountMax - 1 - al.tap /\ al.max >= 0
          /\ al.max \in Int /\ e \in Nat /\ e + 2 < TapCountMax /\ TapCountMax \in Nat
      BY <1>1, <1>2, <1>4, <2>5 DEF Aligner
    <3>3. (al.tap + 1) % TapRange = al.tap + 1
      BY <3>2, OneFurther
    <3>4. op = "inc"
      BY <2>2, <2>3, <3>2
    <3>5. al'.tap = al.tap + 1 /\ al'.max = al.max - 1 /\ al'.window = 0
          /\ al'.state = "CheckFirstEdgeChanged" /\ al'.init = al.init
      BY <2>2, <2>3, <3>2, <3>3, <3>4
    <3>6. al'.tap \in 1 .. e + 1 /\ al'.max = TapCountMax - 1 - al'.tap /\ al'.max >= -1
      BY <3>2, <3>5
    <3> QED BY <3>1, <3>2, <3>5, <3>6 DEF OnTheWay, SearchStates
  <2>6. /\ al'.state = "Reset_Delay" <=> op = "reset"
        /\ al'.state # "CheckFirstEdgeStable"
    BY <2>3
  <2> QED BY <1>1, <2>3, <2>4, <2>5, <2>6, Onward
<1> QED BY <1>3, <1>4

LEMMA CheckFirstEdgeStableGoes ==
  ASSUME IInv, EInv, CheckFirstEdgeStable
  PROVE  HeardInv' /\ SlippingInv' /\ CleanInv'
<1>1. /\ hs = "End" /\ al.state = "CheckFirstEdgeStable" /\ al \in Aligner
      /\ al.state \in SearchStates \ {"Reset_Delay"} /\ UNCHANGED <<dirty, Elsewhere>>
  BY Found DEF CheckFirstEdgeStable, At, SearchStates
<1>2. ASSUME NEW c \in Conns, NEW e \in Taps, NEW f \in Taps,
             ~late, auto, c = selector, Eye(c, e, f), ~dirty[c]
      PROVE  /\ slips[c] = 0 /\ al.tap \in e .. e + 1 /\ al.window = 0
             /\ al.init = line[c].phase /\ al.max = TapCountMax - 1 - al.tap /\ al.max >= 0
             /\ ~Turned(1) => al.tap = e
             /\ e \in Nat /\ 1 <= e /\ e + 9 <= f /\ f + 1 < TapCountMax /\ f \in Nat
             /\ TapCountMax \in Nat /\ al.tap \in Nat /\ al.tap + 1 < TapCountMax
  <2>1. OnTheWay(c, e, f) /\ slips[c] = 0 /\ 1 <= e /\ e \in Nat /\ TapCountMax \in Nat
        /\ e + 9 <= f /\ f + 1 < TapCountMax /\ f \in Nat /\ al.tap \in Nat
    BY <1>1, <1>2, Way
  <2>2. /\ al.tap \in e .. e + 1 /\ al.window = 0 /\ al.max = TapCountMax - 1 - al.tap
        /\ al.init = line[c].phase
    BY <1>1, <2>1 DEF OnTheWay
  <2>3. al.tap < TapCountMax /\ al.max >= 0 /\ al.tap + 1 < TapCountMax
    BY <2>1, <2>2
  <2>4. e < al.tap /\ al.tap < f => Turned(1)
    BY <1>1, <1>2, <2>2, <2>3, Looks
  <2>5. ~Turned(1) => al.tap = e
    BY <2>1, <2>2, <2>4
  <2> QED BY <2>1, <2>2, <2>3, <2>5
<1>3. al.gen \in Int /\ al.window \in Nat /\ al.max \in Int
  BY <1>1 DEF Aligner
<1>4. ASSUME NEW c \in Conns, ~late, auto, c = selector, line[c].live, dirty[c]
      PROVE  /\ al.init \in Bits /\ al.init # Blank /\ al.gen \in {StableCount - 1, StableCount - 2}
             /\ ~(al.gen < 0)
             /\ Turned(1) => al.gen = StableCount - 1 /\ Ror(al.init, 1) = Word(c)
  <2>1. Slipping(c)
    BY <1>1, <1>4, Slips
  <2>2. al.init \in Bits /\ al.init # Blank /\ al.gen \in {StableCount - 1, StableCount - 2}
    BY <1>1, <2>1 DEF Slipping
  <2>3. ~(al.gen < 0)
    BY <2>2, AlignAssumption
  <2>4. PICK q \in Bits : q = Ror(al.init, 1)
    <3>1. PICK p \in Bits : p = al.init
      BY <2>2
    <3>2. Ror(p, 1) \in Bits
      BY Turns
    <3> QED BY <3>1, <3>2
  <2>5. ~Before
    BY <1>1 DEF Before
  <2>6. Word(c) = Rotate(q, 1) \/ (Word(c) = q /\ al.gen = StableCount - 1)
    BY <1>1, <2>1, <2>4, <2>5 DEF Slipping
  <2>7. cmd.op # "reset"
    BY <1>1 DEF EInv, HeardInv
  <2>8. data \in {Word(c), Succ(Word(c), DataWidth), Mixed} /\ Word(c) \in Bits
    BY <1>1, <1>4, <2>7, Sees
  <2>9. Turned(1) => data = q
    BY <2>2, <2>4, AlignAssumption DEF Turned
  <2>10. ASSUME Word(c) = Rotate(q, 1) PROVE data # q
    <3>1. Word(c) = Succ(q, DataWidth)
      BY <2>10, Turns
    <3>2. q # Succ(q, DataWidth) /\ q # Succ(Succ(q, DataWidth), DataWidth)
      <4>1. DataWidth \in Nat /\ DataWidth >= 5 /\ q \in 0 .. DataWidth - 1
        BY AlignAssumption DEF Bits
      <4> QED BY <4>1 DEF Succ
    <3> QED BY <2>8, <3>1, <3>2, AlignAssumption
  <2> QED BY <2>2, <2>3, <2>4, <2>6, <2>9, <2>10
<1>5. CASE al.gen < 0
  <2>1. al' = [Further(al, "CheckSecondEdgeChanged") EXCEPT !.window = @ + 1] /\ Do("inc")
    BY <1>3, <1>5 DEF CheckFirstEdgeStable
  <2>2. /\ al'.state = "CheckSecondEdgeChanged" /\ al'.tap = (al.tap + 1) % TapRange
        /\ al'.max = al.max - 1 /\ al'.window = al.window + 1 /\ al'.init = al.init
    BY <1>1, <2>1 DEF Further, Aligner
  <2>3. ASSUME NEW c \in Conns, ~late, auto, c = selector, line[c].live, dirty[c]
        PROVE  FALSE
    BY <1>4, <1>5, <2>3
  <2>4. ASSUME NEW c \in Conns, NEW e \in Taps, NEW f \in Taps,
               ~late, auto, c = selector, Eye(c, e, f), ~dirty[c]
        PROVE  OnTheWay(c, e, f)'
    <3>1. slips' = slips /\ line' = line
      BY <1>1, <2>1, <2>4, Waiting
    <3>2. /\ slips[c] = 0 /\ al.tap \in e .. e + 1 /\ al.window = 0
          /\ al.init = line[c].phase /\ al.max = TapCountMax - 1 - al.tap /\ al.max >= 0
          /\ e \in Nat /\ e + 9 <= f /\ f \in Nat
          /\ TapCountMax \in Nat /\ al.tap \in Nat /\ al.tap + 1 < TapCountMax
      BY <1>2, <2>4
    <3>3. (al.tap + 1) % TapRange = al.tap + 1
      BY <3>2, OneFurther
    <3>4. al'.tap = al.tap + 1 /\ al'.window = 1 /\ al'.max = al.max - 1
      BY <2>2, <3>2, <3>3
    <3>5. /\ al'.tap - al'.window \in e .. e + 1 /\ al'.tap <= f + 1
          /\ al'.max = TapCountMax - 1 - al'.tap /\ al'.max >= -1
      BY <1>3, <3>2, <3>4
    <3> QED BY <2>2, <3>1, <3>2, <3>5 DEF OnTheWay, SearchStates
  <2>5. al'.state # "Reset_Delay" /\ al'.state # "CheckFirstEdgeStable"
    BY <2>2
  <2> QED BY <1>1, <2>1, <2>3, <2>4, <2>5, Onward
<1>6. CASE ~(al.gen < 0) /\ Turned(1)
  <2>1. al' = [al EXCEPT !.gen = @ - 1] /\ Do("none")
    BY <1>3, <1>6 DEF CheckFirstEdgeStable
  <2>2. /\ al'.state = "CheckFirstEdgeStable" /\ al'.tap = al.tap /\ al'.max = al.max
        /\ al'.window = al.window /\ al'.init = al.init /\ al'.gen = al.gen - 1
    BY <1>1, <2>1 DEF Aligner
  <2>3. ASSUME NEW c \in Conns, ~late, auto, c = selector, line[c].live, dirty[c]
        PROVE  Slipping(c)'
    <3>1. /\ al.init \in Bits /\ al.init # Blank /\ al.gen = StableCount - 1
          /\ Ror(al.init, 1) = Word(c)
      BY <1>4, <1>6, <2>3
    <3>2. Before' /\ Word(c)' = Word(c)
      BY <1>1, <2>1, <2>3, Waiting
    <3>3. al'.gen = StableCount - 2
      BY <2>2, <3>1, AlignAssumption
    <3> QED BY <2>2, <3>1, <3>2, <3>3 DEF Slipping, SearchStates
  <2>4. ASSUME NEW c \in Conns, NEW e \in Taps, NEW f \in Taps,
               ~late, auto, c = selector, Eye(c, e, f), ~dirty[c]
        PROVE  OnTheWay(c, e, f)'
    <3>1. slips' = slips /\ line' = line
      BY <1>1, <2>1, <2>4, Waiting
    <3>2. /\ slips[c] = 0 /\ al.tap \in e .. e + 1 /\ al.window = 0
          /\ al.init = line[c].phase /\ al.max = TapCountMax - 1 - al.tap /\ al.max >= 0
      BY <1>2, <2>4
    <3>3. al.max >= -1
      BY <1>3, <3>2
    <3> QED BY <2>2, <3>1, <3>2, <3>3 DEF OnTheWay, SearchStates
  <2>5. al'.state # "Reset_Delay"
    BY <2>2
  <2> QED BY <1>1, <2>1, <2>3, <2>4, <2>5, Onward
<1>7. CASE ~(al.gen < 0) /\ ~Turned(1)
  <2>1. /\ al' = [Further(al, "CheckFirstEdgeChanged") EXCEPT !.gen = StableCount - 1]
        /\ Do("inc")
    BY <1>7 DEF CheckFirstEdgeStable
  <2>2. /\ al'.state = "CheckFirstEdgeChanged" /\ al'.tap = (al.tap + 1) % TapRange
        /\ al'.max = al.max - 1 /\ al'.window = al.window /\ al'.init = al.init
    BY <1>1, <2>1 DEF Further, Aligner
  <2>3. ASSUME NEW c \in Conns, ~late, auto, c = selector, line[c].live, dirty[c]
        PROVE  Slipping(c)'
    <3>1. al.init # Blank
      BY <1>4, <2>3
    <3> QED BY <2>2, <3>1 DEF Slipping, SearchStates
  <2>4. ASSUME NEW c \in Conns, NEW e \in Taps, NEW f \in Taps,
               ~late, auto, c = selector, Eye(c, e, f), ~dirty[c]
        PROVE  OnTheWay(c, e, f)'
    <3>1. slips' = slips /\ line' = line
      BY <1>1, <2>1, <2>4, Waiting
    <3>2. /\ slips[c] = 0 /\ al.tap = e /\ al.window = 0
          /\ al.init = line[c].phase /\ al.max = TapCountMax - 1 - al.tap /\ al.max >= 0
          /\ e \in Nat /\ TapCountMax \in Nat /\ al.tap \in Nat /\ al.tap + 1 < TapCountMax
      BY <1>2, <1>7, <2>4
    <3>3. (al.tap + 1) % TapRange = al.tap + 1
      BY <3>2, OneFurther
    <3>4. al'.tap = al.tap + 1 /\ al'.window = 0 /\ al'.max = al.max - 1
      BY <2>2, <3>2, <3>3
    <3>5. al'.tap \in 1 .. e + 1 /\ al'.max = TapCountMax - 1 - al'.tap /\ al'.max >= -1
      BY <1>3, <3>2, <3>4
    <3> QED BY <2>2, <3>1, <3>2, <3>4, <3>5 DEF OnTheWay, SearchStates
  <2>5. al'.state # "Reset_Delay" /\ al'.state # "CheckFirstEdgeStable"
    BY <2>2
  <2> QED BY <1>1, <2>1, <2>3, <2>4, <2>5, Onward
<1> QED BY <1>5, <1>6, <1>7

LEMMA CheckSecondEdgeChangedGoes ==
  ASSUME IInv, EInv, CheckSecondEdgeChanged
  PROVE  HeardInv' /\ SlippingInv' /\ CleanInv'
<1>1. /\ hs = "End" /\ al.state = "CheckSecondEdgeChanged" /\ al \in Aligner
      /\ al.state \in SearchStates \ {"Reset_Delay"} /\ UNCHANGED <<dirty, Elsewhere>>
  BY Found DEF CheckSecondEdgeChanged, At, SearchStates
<1>2. ASSUME NEW c \in Conns, NEW e \in Taps, NEW f \in Taps,
             ~late, auto, c = selector, Eye(c, e, f), ~dirty[c]
      PROVE  /\ slips[c] = 0 /\ al.tap - al.window \in e .. e + 1
             /\ al.init = line[c].phase /\ al.max = TapCountMax - 1 - al.tap /\ al.max >= 0
             /\ Turned(2) => al.tap \in f .. f + 1
             /\ ~Turned(2) => al.tap <= f
             /\ e \in Nat /\ 1 <= e /\ e + 9 <= f /\ f + 1 < TapCountMax /\ f \in Nat
             /\ TapCountMax \in Nat /\ al.tap \in Nat
  <2>1. OnTheWay(c, e, f) /\ slips[c] = 0 /\ 1 <= e /\ e \in Nat /\ TapCountMax \in Nat
        /\ e + 9 <= f /\ f + 1 < TapCountMax /\ f \in Nat /\ al.tap \in Nat
    BY <1>1, <1>2, Way
  <2>2. /\ al.tap - al.window \in e .. e + 1 /\ al.tap <= f + 1
        /\ al.max = TapCountMax - 1 - al.tap /\ al.init = line[c].phase
    BY <1>1, <2>1 DEF OnTheWay
  <2>3. al.tap < TapCountMax /\ al.max >= 0
    BY <2>1, <2>2
  <2>4. (al.tap < f => ~Turned(2)) /\ (f < al.tap => Turned(2))
    BY <1>1, <1>2, <2>2, <2>3, Looks
  <2>5. (Turned(2) => al.tap \in f .. f + 1) /\ (~Turned(2) => al.tap <= f)
    BY <2>1, <2>2, <2>4
  <2> QED BY <2>1, <2>2, <2>3, <2>5
<1>3. al.gen \in Int /\ al.window \in Nat /\ al.max \in Int
  BY <1>1 DEF Aligner
<1>4. ASSUME NEW c \in Conns, ~late, auto, c = selector, line[c].live, dirty[c]
      PROVE  FALSE
  BY <1>1, <1>4, Slips DEF Slipping
<1>5. CASE Turned(2)
  <2>1. /\ al' = [al EXCEPT !.state = "WindowFound", !.tap = (@ + TapRange - 1) % TapRange,
                            !.gen = (al.window \div 2) + 2]
        /\ Do("dec")
    BY <1>5 DEF CheckSecondEdgeChanged
  <2>2. /\ al'.state = "WindowFound" /\ al'.tap = (al.tap + TapRange - 1) % TapRange
        /\ al'.max = al.max /\ al'.gen = (al.window \div 2) + 2
    BY <1>1, <2>1 DEF Aligner
  <2>3. ASSUME NEW c \in Conns, NEW e \in Taps, NEW f \in Taps,
               ~late, auto, c = selector, Eye(c, e, f), ~dirty[c]
        PROVE  OnTheWay(c, e, f)'
    <3>1. /\ al.tap - al.window \in e .. e + 1 /\ al.max >= 0 /\ al.tap \in f .. f + 1
          /\ e \in Nat /\ 1 <= e /\ e + 9 <= f /\ f + 1 < TapCountMax /\ f \in Nat
          /\ TapCountMax \in Nat /\ al.tap \in Nat
      BY <1>2, <1>5, <2>3
    <3>2. (al.tap + TapRange - 1) % TapRange = al.tap - 1
      <4>1. 1 <= al.tap /\ al.tap < TapRange
        BY <3>1, Room
      <4> QED BY <3>1, <4>1, Room
    <3>3. PICK h \in Int : h = al.window \div 2
      BY <1>3
    <3>4. 2 * h <= al.window /\ al.window <= 2 * h + 1
      BY <1>3, <3>3
    <3>5. al'.gen = h + 2 /\ al'.tap = al.tap - 1
      BY <2>2, <3>2, <3>3
    <3>6. h >= 1 /\ e < al.tap - h - 4 /\ al.tap - h - 4 < f
      BY <1>3, <3>1, <3>4
    <3>7. /\ al'.gen >= -1 /\ al'.tap - (al'.gen + 1) = al.tap - h - 4 /\ al'.tap <= f
          /\ al.max >= -1
      BY <1>3, <3>1, <3>5, <3>6
    <3> QED BY <2>2, <3>6, <3>7 DEF OnTheWay, SearchStates
  <2>4. al'.state \notin SearchStates
    BY <2>2 DEF SearchStates
  <2> QED BY <1>1, <1>4, <2>1, <2>3, <2>4, Onward
<1>6. CASE ~Turned(2) /\ al.max < 0
  <2>1. al' = [al EXCEPT !.state = "Reset_Delay"] /\ Do("reset")
    BY <1>6 DEF CheckSecondEdgeChanged
  <2>2. al'.state = "Reset_Delay"
    BY <1>1, <2>1 DEF Aligner
  <2>3. ASSUME NEW c \in Conns, NEW e \in Taps, NEW f \in Taps,
               ~late, auto, c = selector, Eye(c, e, f), ~dirty[c]
        PROVE  FALSE
    <3>1. al.max >= 0
      BY <1>2, <2>3
    <3> QED BY <1>3, <1>6, <3>1
  <2>4. al'.state # "CheckFirstEdgeStable"
    BY <2>2
  <2> QED BY <1>1, <1>4, <2>1, <2>2, <2>3, <2>4, Onward
<1>7. CASE ~Turned(2) /\ ~(al.max < 0)
  <2>1. al' = [Further(al, "CheckSecondEdgeChanged") EXCEPT !.window = @ + 1] /\ Do("inc")
    BY <1>7 DEF CheckSecondEdgeChanged
  <2>2. /\ al'.state = "CheckSecondEdgeChanged" /\ al'.tap = (al.tap + 1) % TapRange
        /\ al'.max = al.max - 1 /\ al'.window = al.window + 1 /\ al'.init = al.init
    BY <1>1, <2>1 DEF Further, Aligner
  <2>3. ASSUME NEW c \in Conns, NEW e \in Taps, NEW f \in Taps,
               ~late, auto, c = selector, Eye(c, e, f), ~dirty[c]
        PROVE  OnTheWay(c, e, f)'
    <3>1. slips' = slips /\ line' = line
      BY <1>1, <2>1, <2>3, Waiting
    <3>2. /\ slips[c] = 0 /\ al.tap - al.window \in e .. e + 1 /\ al.tap <= f
          /\ al.init = line[c].phase /\ al.max = TapCountMax - 1 - al.tap /\ al.max >= 0
          /\ e \in Nat /\ f \in Nat /\ f + 1 < TapCountMax
          /\ TapCountMax \in Nat /\ al.tap \in Nat
      BY <1>2, <1>7, <2>3
    <3>3. (al.tap + 1) % TapRange = al.tap + 1
      BY <3>2, OneFurther
    <3>4. al'.tap = al.tap + 1 /\ al'.window = al.window + 1 /\ al'.max = al.max - 1
      BY <2>2, <3>2, <3>3
    <3>5. /\ al'.tap - al'.window \in e .. e + 1 /\ al'.tap <= f + 1
          /\ al'.max = TapCountMax - 1 - al'.tap /\ al'.max >= -1
      BY <1>3, <3>2, <3>4
    <3> QED BY <2>2, <3>1, <3>2, <3>5 DEF OnTheWay, SearchStates
  <2>4. al'.state # "Reset_Delay" /\ al'.state # "CheckFirstEdgeStable"
    BY <2>2
  <2> QED BY <1>1, <1>4, <2>1, <2>3, <2>4, Onward
<1> QED BY <1>5, <1>6, <1>7

\* Outside the searches nothing but the way is left to say, and the lines do not matter.
LEMMA Aside ==
  ASSUME EInv, UNCHANGED <<dirty, Elsewhere>>, hs' = "AckHigh",
         al'.state \in {"WindowFound", "Do_Word_Align", "Reset_Delay_Man"},
         auto => al.state \in {"WindowFound", "Do_Word_Align"},
         \A c \in Conns : \A e, f \in Taps :
           ~late /\ auto /\ c = selector /\ Eye(c, e, f) /\ ~dirty[c] => OnTheWay(c, e, f)'
  PROVE  HeardInv' /\ SlippingInv' /\ CleanInv'
<1>1. line' = line /\ late' = late /\ auto' = auto /\ selector' = selector /\ dirty' = dirty
  BY DEF Elsewhere, wires, host
<1>2. HeardInv'
  BY DEF HeardInv, SearchStates
<1>3. SlippingInv'
  <2>1. ASSUME ~late, auto, NEW c \in Conns, c = selector, line[c].live, dirty[c]
        PROVE  FALSE
    <3>1. al.state \in {"WindowFound", "Do_Word_Align"}
      BY <2>1
    <3> QED BY <2>1, <3>1, Slips DEF Slipping, SearchStates
  <2> QED BY <1>1, <2>1 DEF SlippingInv
<1>4. CleanInv'
  BY <1>1 DEF CleanInv, Eye
<1> QED BY <1>2, <1>3, <1>4

LEMMA StartWordAlignGoes ==
  ASSUME IInv, EInv, hs = "End", al.state \in {"WindowFound", "Reset_Delay_Man"}, al.gen < 0,
         StartWordAlign, UNCHANGED <<dirty, Elsewhere>>, al'.state # "Idle"
  PROVE  HeardInv' /\ SlippingInv' /\ CleanInv'
<1>1. al \in Aligner /\ al.gen \in Int
  BY Found DEF Aligner
<1>2. data # 0
  BY <1>1 DEF StartWordAlign, Finish, Aligner
<1>3. /\ al' = [al EXCEPT !.state = "Do_Word_Align", !.gen = DataWidth - 2]
      /\ Issue([op |-> "none", slip |-> TRUE])
  BY <1>2 DEF StartWordAlign
<1>4. al'.state = "Do_Word_Align" /\ al'.tap = al.tap /\ al'.max = al.max /\ hs' = "AckHigh"
  BY <1>1, <1>3 DEF Aligner, Issue
<1>5. auto => al.state = "WindowFound"
  BY DEF IInv, TurnInv
<1>6. ASSUME NEW c \in Conns, NEW e \in Taps, NEW f \in Taps,
             ~late, auto, c = selector, Eye(c, e, f), ~dirty[c]
      PROVE  OnTheWay(c, e, f)'
  <2>1. OnTheWay(c, e, f) /\ al.tap \in Nat /\ e \in Nat /\ f \in Nat
    BY <1>6, Way
  <2>2. /\ al.gen >= -1 /\ e < al.tap - (al.gen + 1) /\ al.tap - (al.gen + 1) < f
        /\ al.max >= -1
    BY <1>5, <1>6, <2>1 DEF OnTheWay
  <2>3. e < al.tap /\ al.tap < f
    <3>1. al.gen = -1
      BY <1>1, <2>2
    <3> QED BY <2>1, <2>2, <3>1
  <2> QED BY <1>4, <2>2, <2>3 DEF OnTheWay, SearchStates
<1> QED BY <1>4, <1>5, <1>6, Aside

LEMMA WindowFoundGoes ==
  ASSUME IInv, EInv, WindowFound, al'.state # "Idle"
  PROVE  HeardInv' /\ SlippingInv' /\ CleanInv'
<1>1. /\ hs = "End" /\ al.state = "WindowFound" /\ al \in Aligner
      /\ UNCHANGED <<dirty, Elsewhere>>
  BY Found DEF WindowFound, At
<1>2. CASE al.gen < 0
  <2>1. StartWordAlign
    BY <1>2 DEF WindowFound
  <2> QED BY <1>1, <1>2, <2>1, StartWordAlignGoes
<1>3. CASE ~(al.gen < 0)
  <2>1. /\ al' = [al EXCEPT !.tap = (@ + TapRange - 1) % TapRange, !.gen = @ - 1]
        /\ Do("dec")
    BY <1>3 DEF WindowFound
  <2>2. /\ al'.state = "WindowFound" /\ al'.tap = (al.tap + TapRange - 1) % TapRange
        /\ al'.gen = al.gen - 1 /\ al'.max = al.max
    BY <1>1, <2>1 DEF Aligner
  <2>3. hs' = "AckHigh"
    BY <1>1, <2>1, DoAsks
  <2>4. ASSUME NEW c \in Conns, NEW e \in Taps, NEW f \in Taps,
               ~late, auto, c = selector, Eye(c, e, f), ~dirty[c]
        PROVE  OnTheWay(c, e, f)'
    <3>1. OnTheWay(c, e, f) /\ al.tap \in Nat /\ al.gen \in Int /\ e \in Nat /\ f \in Nat
          /\ f + 1 < TapCountMax /\ TapCountMax \in Nat
      BY <1>1, <2>4, Way
    <3>2. /\ al.gen >= -1 /\ e < al.tap - (al.gen + 1) /\ al.tap - (al.gen + 1) < f
          /\ al.tap <= f /\ al.max >= -1
      BY <1>1, <3>1 DEF OnTheWay
    <3>3. (al.tap + TapRange - 1) % TapRange = al.tap - 1
      <4>1. 1 <= al.tap /\ al.tap < TapRange
        BY <3>1, <3>2, Room
      <4> QED BY <3>1, <4>1, Room
    <3>4. /\ al'.gen >= -1 /\ e < al'.tap - (al'.gen + 1) /\ al'.tap - (al'.gen + 1) < f
          /\ al'.tap <= f
      BY <1>3, <2>2, <3>1, <3>2, <3>3
    <3> QED BY <2>2, <3>2, <3>4 DEF OnTheWay, SearchStates
  <2> QED BY <1>1, <2>2, <2>3, <2>4, Aside
<1> QED BY <1>2, <1>3

LEMMA ResetDelayManGoes ==
  ASSUME IInv, EInv, ResetDelayMan, al'.state # "Idle"
  PROVE  HeardInv' /\ SlippingInv' /\ CleanInv'
<1>1. /\ hs = "End" /\ al.state = "Reset_Delay_Man" /\ al \in Aligner /\ ~auto
      /\ UNCHANGED <<dirty, Elsewhere>>
  BY Found DEF ResetDelayMan, At, IInv, TurnInv
<1>2. CASE al.gen < 0
  <2>1. StartWordAlign
    BY <1>2 DEF ResetDelayMan
  <2> QED BY <1>1, <1>2, <2>1, StartWordAlignGoes
<1>3. CASE ~(al.gen < 0)
  <2>1. /\ al' = [al EXCEPT !.tap = (@ + 1) % TapRange, !.gen = @ - 1] /\ Do("inc")
    BY <1>3 DEF ResetDelayMan
  <2>2. al'.state = "Reset_Delay_Man" /\ hs' = "AckHigh"
    BY <1>1, <2>1, DoAsks DEF Aligner
  <2> QED BY <1>1, <2>2, Aside
<1> QED BY <1>2, <1>3

LEMMA DoWordAlignGoes ==
  ASSUME IInv, EInv, DoWordAlign, al'.state # "Idle"
  PROVE  HeardInv' /\ SlippingInv' /\ CleanInv'
<1>1. /\ hs = "End" /\ al.state = "Do_Word_Align" /\ al \in Aligner
      /\ UNCHANGED <<dirty, Elsewhere>>
  BY Found DEF DoWordAlign, At
<1>2. data # 0 /\ ~(al.gen < 0)
  BY <1>1 DEF DoWordAlign, Finish, Aligner
<1>3. al' = [al EXCEPT !.gen = @ - 1] /\ Issue([cmd EXCEPT !.slip = TRUE])
  BY <1>2 DEF DoWordAlign
<1>4. al'.state = "Do_Word_Align" /\ al'.tap = al.tap /\ al'.max = al.max /\ hs' = "AckHigh"
  BY <1>1, <1>3 DEF Aligner, Issue
<1>5. ASSUME NEW c \in Conns, NEW e \in Taps, NEW f \in Taps,
             ~late, auto, c = selector, Eye(c, e, f), ~dirty[c]
      PROVE  OnTheWay(c, e, f)'
  <2>1. OnTheWay(c, e, f)
    BY <1>1, <1>5, Way
  <2>2. e < al.tap /\ al.tap < f /\ al.max >= -1
    BY <1>1, <2>1 DEF OnTheWay
  <2> QED BY <1>4, <2>2 DEF OnTheWay, SearchStates
<1> QED BY <1>1, <1>4, <1>5, Aside

-----------------------------------------------------------------------------
(* Automatic mode: what is said of a clean line.                            *)

LEMMA EyeEdges ==
  ASSUME TypeOK, NEW c \in Conns, GoodEye(c)
  PROVE  \E e, f \in Taps : Eye(c, e, f)
<1>1. line[c] \in Wire
  BY AlignAssumption DEF TypeOK, Wire
<1>2. line[c].edges \subseteq Taps
  BY <1>1 DEF Wire
<1> QED BY <1>2 DEF GoodEye, Eye

\* A step keeps what is said of the connections that are not taken in hand.
LEMMA EyeKept ==
  ASSUME EyeInv, line' = line, ~late' => ~late, auto' = auto,
         \A c \in Conns : ~late' =>
           /\ wordAlign'[c] => /\ wordAlign[c] /\ delay'[c] = delay[c]
                               /\ tapSetting'[c] = tapSetting[c]
           /\ Done(c)' => Done(c) /\ dirty'[c] = dirty[c] /\ wordAlign'[c] = wordAlign[c]
  PROVE  EyeInv'
<1>1. SUFFICES ASSUME ~late', auto', NEW c \in Conns, GoodEye(c)'
               PROVE  /\ wordAlign'[c] => /\ delay'[c] \notin line'[c].edges
                                          /\ tapSetting'[c] % TapCountMax = delay'[c]
                      /\ Done(c)' /\ ~dirty'[c] => wordAlign'[c]
  BY DEF EyeInv
<1>2. GoodEye(c)
  BY <1>1 DEF GoodEye
<1>3. /\ wordAlign[c] => /\ delay[c] \notin line[c].edges
                         /\ tapSetting[c] % TapCountMax = delay[c]
      /\ Done(c) /\ ~dirty[c] => wordAlign[c]
  BY <1>1, <1>2 DEF EyeInv
<1> QED BY <1>1, <1>3

LEMMA AskedEye == ASSUME IInv, EInv, AsksOn PROVE EyeInv'
<1>1. /\ line' = line /\ late' = late /\ auto' = auto /\ delay' = delay
      /\ seq' = seq /\ selector' = selector /\ aligned' = aligned
      /\ wordAlign' = wordAlign /\ tapSetting' = tapSetting /\ dirty' = dirty
      /\ al.state # "Idle" /\ al'.state # "Idle"
  BY DEF AsksOn, Elsewhere, wires, host, report
<1>2. \A c \in Conns : Done(c)' => Done(c)
  BY <1>1 DEF Done
<1> QED BY <1>1, <1>2, EyeKept DEF EInv

\* A line that is done with is at a tap between its edges, and only a line where words slip is
\* given up.
LEMMA EndedEye ==
  ASSUME IInv, EInv, NEW ok \in BOOLEAN, Ends(ok), ~late, auto,
         NEW c \in Conns, c = selector, GoodEye(c)
  PROVE  /\ ok => delay[c] \notin line[c].edges /\ al.tap % TapCountMax = delay[c]
         /\ ~ok => dirty[c]
<1>1. /\ hs = "End" /\ al.state # "Idle" /\ al \in Aligner /\ al.gen \in Int
  BY Found DEF Ends, Aligner
<1>2. PICK e \in Taps, f \in Taps : Eye(c, e, f)
  BY EyeEdges DEF IInv
<1>3. /\ ok => \/ al.state = "Do_Word_Align"
               \/ al.state = "WindowFound" /\ al.gen < 0
      /\ ~ok => \/ al.state = "Do_Word_Align" /\ ~Clear(c)
                \/ al.state = "Get_Edge" /\ al.retry < 0
  BY <1>1 DEF Ends, IInv, TurnInv
<1>4. CASE dirty[c]
  <2>1. Slipping(c)
    BY <1>1, <1>2, <1>4, Slips DEF Eye
  <2> QED BY <1>3, <1>4, <2>1 DEF Slipping, SearchStates
<1>5. CASE ~dirty[c]
  <2>1. /\ OnTheWay(c, e, f) /\ al.tap \in Nat /\ al.retry \in Int /\ e \in Nat /\ f \in Nat
        /\ f + 1 < TapCountMax /\ TapCountMax \in Nat
        /\ al.tap < TapCountMax => al.tap = delay[c]
    BY <1>1, <1>2, <1>5, Way
  <2>2. al.state = "Do_Word_Align" \/ (al.state = "WindowFound" /\ al.gen < 0) =>
          e < al.tap /\ al.tap < f
    <3>1. CASE al.state = "Do_Word_Align"
      BY <2>1, <3>1 DEF OnTheWay
    <3>2. CASE al.state = "WindowFound" /\ al.gen < 0
      <4>1. /\ al.gen >= -1 /\ e < al.tap - (al.gen + 1) /\ al.tap - (al.gen + 1) < f
        BY <2>1, <3>2 DEF OnTheWay
      <4>2. al.gen = -1
        BY <1>1, <3>2, <4>1
      <4> QED BY <2>1, <4>1, <4>2
    <3> QED BY <3>1, <3>2
  <2>3. e < al.tap /\ al.tap < f =>
          /\ al.tap % TapCountMax = delay[c] /\ delay[c] # e /\ delay[c] # f
    <3>1. SUFFICES ASSUME e < al.tap, al.tap < f
                   PROVE  al.tap % TapCountMax = delay[c] /\ delay[c] # e /\ delay[c] # f
      OBVIOUS
    <3>2. PICK n \in 0 .. TapCountMax - 1 : n = al.tap
      BY <2>1, <3>1
    <3>3. n % TapCountMax = n
      BY WidthType, SmallMod
    <3> QED BY <2>1, <3>1, <3>2, <3>3
  <2>4. line[c].live /\ line[c].edges = {e, f}
    BY <1>2 DEF Eye
  <2>5. al.state = "Get_Edge" => al.retry >= 0
    BY <2>1 DEF OnTheWay
  <2>6. ok => delay[c] \notin line[c].edges /\ al.tap % TapCountMax = delay[c]
    BY <1>3, <2>2, <2>3, <2>4
  <2>7. ok
    <3>1. ~(al.state = "Do_Word_Align" /\ ~Clear(c))
      BY <2>2, <2>3, <2>4 DEF Clear
    <3>2. ~(al.state = "Get_Edge" /\ al.retry < 0)
      BY <2>1, <2>5
    <3> QED BY <1>3, <3>1, <3>2
  <2> QED BY <2>6, <2>7
<1> QED BY <1>4, <1>5

LEMMA Ended == ASSUME IInv, EInv, NEW ok \in BOOLEAN, Ends(ok) PROVE EInv'
<1>1. /\ line' = line /\ delay' = delay /\ auto' = auto /\ late' = late /\ dirty' = dirty
      /\ seq' = seq /\ selector' = selector /\ aligned' = aligned
  BY DEF Ends, Elsewhere, wires, host
<1>2. /\ hs = "End" /\ al.state # "Idle" /\ hs' = "Idle"
      /\ al' = [al EXCEPT !.state = "Idle"]
      /\ tapSetting' = [tapSetting EXCEPT ![selector] = al.tap]
      /\ wordAlign' = IF ok THEN [wordAlign EXCEPT ![selector] = TRUE] ELSE wordAlign
  BY DEF Ends, Finish
<1>3. /\ al \in Aligner /\ selector \in Conns /\ seq = "Off"
      /\ wordAlign \in [Conns -> BOOLEAN] /\ tapSetting \in [Conns -> Nat]
  BY <1>2, Found DEF IInv, TypeOK
<1>4. al'.state = "Idle"
  BY <1>2, <1>3 DEF Aligner
<1>5. HeardInv' /\ SlippingInv' /\ CleanInv'
  BY <1>2, <1>4 DEF HeardInv, SlippingInv, CleanInv, SearchStates
<1>6. EyeInv'
  <2>1. SUFFICES ASSUME ~late, auto, NEW c \in Conns, GoodEye(c)
                 PROVE  /\ wordAlign'[c] => /\ delay[c] \notin line[c].edges
                                            /\ tapSetting'[c] % TapCountMax = delay[c]
                        /\ Done(c)' /\ ~dirty[c] => wordAlign'[c]
    BY <1>1 DEF EyeInv, GoodEye
  <2>2. CASE c = selector
    <3>1. /\ ok => delay[c] \notin line[c].edges /\ al.tap % TapCountMax = delay[c]
          /\ ~ok => dirty[c]
      BY <2>1, <2>2, EndedEye
    <3>2. ~wordAlign[c]
      BY <1>2, <2>1, <2>2 DEF IInv, AlignedInv
    <3>3. tapSetting'[c] = al.tap /\ (ok <=> wordAlign'[c])
      BY <1>2, <1>3, <2>2, <3>2
    <3> QED BY <3>1, <3>3
  <2>3. CASE c # selector
    <3>1. Done(c)' => Done(c)
      BY <1>1, <1>3, <2>3 DEF Done
    <3>2. wordAlign'[c] = wordAlign[c] /\ tapSetting'[c] = tapSetting[c]
      BY <1>2, <1>3, <2>3
    <3> QED BY <2>1, <3>1, <3>2 DEF EInv, EyeInv
  <2> QED BY <2>2, <2>3
<1> QED BY <1>5, <1>6 DEF EInv

LEMMA AlignsGo == ASSUME IInv, EInv, Aligning, ~AlignBegins PROVE EInv'
<1>1. AsksOn \/ Ends(TRUE) \/ Ends(FALSE)
  BY ResetDelayStep, CheckEdgeStep, WaitSampleStableStep, CompareTrainingStep,
     CheckFirstEdgeChangedStep, CheckFirstEdgeStableStep, CheckSecondEdgeChangedStep,
     WindowFoundStep, ResetDelayManStep, DoWordAlignStep DEF Aligning
<1>2. CASE AsksOn
  <2>1. al'.state # "Idle"
    BY <1>2 DEF AsksOn
  <2>2. HeardInv' /\ SlippingInv' /\ CleanInv'
    BY <2>1, ResetDelayGoes, CheckEdgeGoes, WaitSampleStableGoes, CompareTrainingGoes,
       CheckFirstEdgeChangedGoes, CheckFirstEdgeStableGoes, CheckSecondEdgeChangedGoes,
       WindowFoundGoes, ResetDelayManGoes, DoWordAlignGoes DEF Aligning
  <2> QED BY <1>2, <2>2, AskedEye DEF EInv
<1> QED BY <1>1, <1>2, Ended

-----------------------------------------------------------------------------
(* Automatic mode: the other steps.                                         *)

LEMMA BeginsGo == ASSUME IInv, EInv, AlignBegins PROVE EInv'
<1>1. /\ line' = line /\ delay' = delay /\ slips' = slips /\ auto' = auto
      /\ selector' = selector /\ late' = late /\ sync' = sync
  BY DEF AlignBegins, Elsewhere, wires, host, crossed
<1>2. /\ seq = "Train" /\ al.state = "Idle" /\ seq' = "Off"
      /\ al' = [state |-> IF auto THEN "Reset_Delay" ELSE "Reset_Delay_Man",
                tap |-> 0, max |-> TapCountMax - 1, window |-> 0, retry |-> RetryMax - 2,
                gen |-> IF auto THEN al.gen ELSE manual, init |-> al.init]
      /\ wordAlign' = [wordAlign EXCEPT ![selector] = FALSE]
      /\ tapSetting' = [tapSetting EXCEPT ![selector] = 0]
      /\ dirty' = [dirty EXCEPT ![selector] = cmd.slip]
      /\ Issue([cmd EXCEPT !.op = "reset"])
  BY DEF AlignBegins, Do
<1>3. /\ cmd \in Command /\ selector \in Conns /\ hs = "Idle"
      /\ wordAlign \in [Conns -> BOOLEAN] /\ tapSetting \in [Conns -> Nat]
      /\ dirty \in [Conns -> BOOLEAN]
  BY <1>2 DEF IInv, TypeOK, TurnInv, Command
<1>4. hs' = "AckHigh" /\ cmd'.op = "reset" /\ cmd'.slip = dirty'[selector]
  BY <1>2, <1>3 DEF Issue, Command
<1>5. /\ al'.tap = 0 /\ al'.max = TapCountMax - 1 /\ al'.window = 0 /\ al'.retry >= 0
      /\ al'.state = IF auto THEN "Reset_Delay" ELSE "Reset_Delay_Man"
  <2>1. RetryMax - 2 >= 0
    BY AlignAssumption
  <2> QED BY <1>2, <2>1
<1>6. HeardInv'
  BY <1>1, <1>4, <1>5 DEF HeardInv, SearchStates
<1>7. SlippingInv'
  BY <1>1, <1>5 DEF SlippingInv, Slipping, SearchStates
<1>8. CleanInv'
  <2>1. SUFFICES ASSUME ~late, auto, NEW c \in Conns, NEW e \in Taps, NEW f \in Taps
                 PROVE  OnTheWay(c, e, f)'
    BY <1>1 DEF CleanInv
  <2>2. Before'
    BY <1>1, <1>3, <1>4, <2>1 DEF Before, IInv, RequestInv
  <2>3. al'.max = TapCountMax - 1 - al'.tap /\ al'.max >= -1
    BY <1>5, WidthType
  <2> QED BY <1>5, <2>1, <2>2, <2>3 DEF OnTheWay
<1>9. EyeInv'
  <2>1. ASSUME NEW c \in Conns, c # selector
        PROVE  /\ wordAlign'[c] = wordAlign[c] /\ tapSetting'[c] = tapSetting[c]
               /\ dirty'[c] = dirty[c] /\ (Done(c)' => Done(c))
    BY <1>1, <1>2, <1>3, <1>5, <2>1 DEF Done
  <2>2. ASSUME NEW c \in Conns, c = selector
        PROVE  ~wordAlign'[c] /\ ~Done(c)'
    <3>1. c \in Int
      BY WidthType, AlignAssumption DEF Conns
    <3> QED BY <1>1, <1>2, <1>3, <1>5, <2>2, <3>1 DEF Done
  <2> QED BY <1>1, <2>1, <2>2, EyeKept DEF EInv
<1> QED BY <1>6, <1>7, <1>8, <1>9 DEF EInv

\* A step of the processes that neither search nor carry out a command.
LEMMA FrameGoes ==
  ASSUME EInv, UNCHANGED <<line, delay, slips, auto, al, wordAlign, tapSetting, cmd, dirty>>,
         selector' = selector \/ al.state = "Idle",
         ~late' => ~late /\ (Before' <=> Before),
         ~late' /\ hs' \in {"AckLow", "End"} /\ data' # Blank => edge',
         \A c \in Conns : ~late' /\ Done(c)' => Done(c)
  PROVE  EInv'
<1>1. HeardInv'
  BY DEF EInv, HeardInv, SearchStates
<1>2. \A c \in Conns : Word(c)' = Word(c)
  BY DEF Word, Settled
<1>3. SlippingInv'
  <2>1. SUFFICES ASSUME ~late', auto, al.state # "Idle", NEW c \in Conns, c = selector,
                        line[c].live, dirty[c]
                 PROVE  Slipping(c)'
    BY DEF SlippingInv
  <2>2. Slipping(c)
    BY <2>1, Slips
  <2> QED BY <1>2, <2>1, <2>2 DEF Slipping
<1>4. CleanInv'
  <2>1. SUFFICES ASSUME ~late', auto, al.state # "Idle", NEW c \in Conns,
                        NEW e \in Taps, NEW f \in Taps, c = selector, Eye(c, e, f), ~dirty[c]
                 PROVE  OnTheWay(c, e, f)'
    BY DEF CleanInv, Eye
  <2>2. OnTheWay(c, e, f)
    BY <2>1 DEF EInv, CleanInv
  <2> QED BY <2>1, <2>2 DEF OnTheWay
<1>5. EyeInv'
  BY EyeKept DEF EInv
<1> QED BY <1>1, <1>3, <1>4, <1>5 DEF EInv

LEMMA BesideGoes ==
  ASSUME EInv, UNCHANGED <<wires, auto, turn, al, report, request, data, crossed, late, dirty>>
  PROVE  EInv'
<1>1. /\ UNCHANGED <<line, delay, slips, auto, al, wordAlign, tapSetting, cmd, dirty>>
      /\ selector' = selector /\ seq' = seq /\ aligned' = aligned /\ hs' = hs /\ sync' = sync
      /\ late' = late /\ data' = data /\ edge' = edge
  BY DEF wires, turn, report, request, crossed
<1>2. ~late' => ~late /\ (Before' <=> Before)
  BY <1>1 DEF Before
<1>3. ~late' /\ hs' \in {"AckLow", "End"} /\ data' # Blank => edge'
  BY <1>1 DEF EInv, HeardInv
<1>4. \A c \in Conns : ~late' /\ Done(c)' => Done(c)
  BY <1>1 DEF Done
<1> QED BY <1>1, <1>2, <1>3, <1>4, FrameGoes

LEMMA SequencerGoes == ASSUME IInv, EInv, Sequencer PROVE EInv'
<1>1. /\ UNCHANGED <<line, delay, slips, auto, al, wordAlign, tapSetting, cmd, dirty>>
      /\ hs' = hs /\ sync' = sync /\ late' = late /\ data' = data /\ edge' = edge
      /\ al.state = "Idle"
  BY DEF Sequencer, SequencerStarts, SequencerNext, wires, host, report, request, crossed,
         IInv, TurnInv
<1>2. ~late' => ~late /\ (Before' <=> Before)
  BY <1>1 DEF Before
<1>3. ~late' /\ hs' \in {"AckLow", "End"} /\ data' # Blank => edge'
  BY <1>1 DEF EInv, HeardInv
<1>4. \A c \in Conns : Done(c)' => Done(c)
  BY SequencerDone
<1> QED BY <1>1, <1>2, <1>3, <1>4, FrameGoes

LEMMA HandshakeGoes == ASSUME IInv, EInv, Handshake \/ AckTimesOut PROVE EInv'
<1>1. /\ UNCHANGED <<line, delay, slips, auto, al, wordAlign, tapSetting, cmd, dirty>>
      /\ selector' = selector /\ seq' = seq /\ aligned' = aligned /\ sync' = sync
  BY DEF Handshake, AckIsHigh, AckIsLow, AckTimesOut, wires, host, turn, report, crossed
<1>2. \A c \in Conns : ~late' /\ Done(c)' => Done(c)
  BY <1>1 DEF Done
<1>3. CASE AckIsHigh
  <2>1. /\ hs = "AckHigh" /\ ack /\ hs' = "AckLow" /\ late' = late
        /\ edge' = (edge \/ HasEdge(data'))
    BY <1>3 DEF AckIsHigh
  <2>2. ~late => sync = "ReqLow"
    BY <2>1 DEF IInv, RequestInv
  <2>3. ~late' => ~late /\ (Before' <=> Before)
    BY <1>1, <2>1, <2>2 DEF Before
  <2>4. data' # Blank => edge'
    BY <2>1 DEF HasEdge
  <2> QED BY <1>1, <1>2, <2>3, <2>4, FrameGoes
<1>4. CASE AckIsLow
  <2>1. /\ hs = "AckLow" /\ hs' = "End" /\ late' = late /\ edge' = edge /\ data' = data
    BY <1>4 DEF AckIsLow
  <2>2. ~late' => ~late /\ (Before' <=> Before)
    BY <2>1 DEF Before
  <2>3. ~late' /\ hs' \in {"AckLow", "End"} /\ data' # Blank => edge'
    BY <2>1 DEF EInv, HeardInv
  <2> QED BY <1>1, <1>2, <2>2, <2>3, FrameGoes
<1>5. CASE AckTimesOut
  <2>1. late'
    BY <1>5 DEF AckTimesOut
  <2> QED BY <1>1, <2>1, FrameGoes
<1> QED BY <1>3, <1>4, <1>5 DEF Handshake

LEMMA SyncsGo ==
  ASSUME IInv, EInv, SyncSamplesReq \/ SyncAcks \/ SyncReleases
  PROVE  EInv'
<1>1. /\ UNCHANGED <<line, delay, slips, auto, al, wordAlign, tapSetting, cmd, dirty>>
      /\ selector' = selector /\ seq' = seq /\ aligned' = aligned
      /\ hs' = hs /\ late' = late /\ data' = data /\ edge' = edge
  BY DEF SyncSamplesReq, SyncAcks, SyncReleases, wires, host, turn, report, request
<1>2. ~late' => ~late /\ (Before' <=> Before)
  BY <1>1 DEF SyncSamplesReq, SyncAcks, SyncReleases, Before, IInv, RequestInv, TypeOK
<1>3. ~late' /\ hs' \in {"AckLow", "End"} /\ data' # Blank => edge'
  BY <1>1 DEF EInv, HeardInv
<1>4. \A c \in Conns : ~late' /\ Done(c)' => Done(c)
  BY <1>1 DEF Done
<1> QED BY <1>1, <1>2, <1>3, <1>4, FrameGoes

LEMMA ResetsGo == ASSUME DriverResets PROVE EInv'
<1>1. al'.state = "Idle"
  BY DEF DriverResets, ResetAligning
<1>2. HeardInv' /\ SlippingInv' /\ CleanInv'
  BY <1>1 DEF DriverResets, HeardInv, SlippingInv, CleanInv, SearchStates
<1>3. EyeInv'
  <2>1. \A c \in Conns : ~wordAlign'[c] /\ ~Done(c)'
    BY DEF DriverResets, Done
  <2> QED BY <2>1 DEF EyeInv
<1> QED BY <1>2, <1>3 DEF EInv

LEMMA InitiallyE == Init => EInv
<1> SUFFICES ASSUME Init PROVE EInv
  OBVIOUS
<1>1. al.state = "Idle" /\ hs = "Idle"
  BY DEF Init, ResetAligning
<1>2. HeardInv /\ SlippingInv /\ CleanInv
  BY <1>1 DEF HeardInv, SlippingInv, CleanInv, SearchStates
<1>3. EyeInv
  <2>1. \A c \in Conns : ~wordAlign[c] /\ ~Done(c)
    BY DEF Init, Done
  <2> QED BY <2>1 DEF EyeInv
<1> QED BY <1>2, <1>3 DEF EInv

\* The command is carried out: where CTRL_BITSLIP is set the word slips, and the two samples
\* that agreed are no longer those of the word.
LEMMA ServesGo == ASSUME IInv, EInv, SyncServes PROVE EInv'
<1>1. /\ line' = line /\ auto' = auto /\ al' = al /\ seq' = seq /\ selector' = selector
      /\ aligned' = aligned /\ wordAlign' = wordAlign /\ tapSetting' = tapSetting
      /\ cmd' = cmd /\ hs' = hs /\ edge' = edge /\ data' = data
      /\ late' = late /\ dirty' = dirty /\ sync = "Idle" /\ sync' = "DataValid"
  BY DEF SyncServes, host, turn, report, request
<1>2. /\ delay \in [Conns -> Taps] /\ slips \in [Conns -> Bits] /\ selector \in Conns
      /\ cmd \in Command /\ al \in Aligner /\ line \in [Conns -> Wire]
      /\ dirty \in [Conns -> BOOLEAN]
  BY AlignAssumption DEF IInv, TypeOK, Command, Aligner, Wire
<1>3. PICK z \in Conns : z = selector
  BY <1>2
<1>4. ~late => hs = "AckHigh" /\ al.state # "Idle" /\ seq = "Off" /\ Before
  BY DEF SyncServes, IInv, RequestInv, TurnInv, TypeOK, Before
<1>5. ~Before'
  BY <1>1 DEF Before
<1>6. /\ \A c \in Conns : c # z => delay'[c] = delay[c]
      /\ cmd.op = "none" => delay'[z] = delay[z]
      /\ slips'[z] = IF cmd.op = "reset" THEN 0
                     ELSE IF cmd.slip THEN Rotate(slips[z], 1) ELSE slips[z]
  BY <1>2, <1>3 DEF SyncServes
<1>7. HeardInv'
  BY <1>1 DEF EInv, HeardInv
<1>8. SlippingInv'
  <2>1. SUFFICES ASSUME ~late, auto, al.state # "Idle", line[z].live, dirty[z]
                 PROVE  Slipping(z)'
    BY <1>1, <1>3 DEF SlippingInv
  <2>2. Slipping(z)
    BY <1>3, <2>1, Slips
  <2>3. CASE al.state # "CheckFirstEdgeStable"
    BY <1>1, <2>2, <2>3 DEF Slipping
  <2>4. CASE al.state = "CheckFirstEdgeStable"
    <3>1. cmd.op = "none" /\ cmd.slip
      BY <1>3, <2>1, <2>4 DEF EInv, HeardInv, SearchStates
    <3>2. delay'[z] = delay[z] /\ slips'[z] = Rotate(slips[z], 1)
      BY <1>6, <3>1
    <3>3. PICK w \in Wire : w = line[z]
      BY <1>2
    <3>4. PICK d \in Taps : d = delay[z]
      BY <1>2
    <3>5. PICK s \in Bits : s = slips[z]
      BY <1>2
    <3>6. Word(z) = WordOf(w, s, d) /\ Word(z)' = WordOf(w, Rotate(s, 1), d)
      BY <1>1, <3>2, <3>3, <3>4, <3>5 DEF Word, Settled, WordOf
    <3>7. PICK v \in Bits : v = WordOf(w, s, d)
      BY WordType
    <3>8. Word(z) = v /\ Word(z)' = Rotate(v, 1)
      BY <3>6, <3>7, WordSlips, Turns
    <3>9. /\ al.init \in Bits /\ al.gen \in {StableCount - 1, StableCount - 2}
          /\ \/ Ror(al.init, 1) = v
             \/ Ror(al.init, 1) = Rotate(v, 1) /\ al.gen = StableCount - 1
      BY <1>4, <2>1, <2>2, <2>4, <3>8 DEF Slipping
    <3>10. \/ Word(z)' = Rotate(Ror(al.init, 1), 1)
           \/ Word(z)' = Ror(al.init, 1) /\ al.gen = StableCount - 1
      BY <3>8, <3>9
    <3>11. al.init # Blank
      BY <2>2, <2>4 DEF Slipping
    <3> QED BY <1>1, <1>5, <2>4, <3>9, <3>10, <3>11 DEF Slipping, SearchStates
  <2> QED BY <2>3, <2>4
<1>9. CleanInv'
  <2>1. SUFFICES ASSUME ~late, auto, al.state # "Idle", NEW e \in Taps, NEW f \in Taps,
                        Eye(z, e, f), ~dirty[z]
                 PROVE  OnTheWay(z, e, f)'
    BY <1>1, <1>3 DEF CleanInv, Eye
  <2>2. OnTheWay(z, e, f)
    BY <1>3, <2>1 DEF EInv, CleanInv
  <2>3. al.state \in SearchStates => slips'[z] = 0
    <3>1. SUFFICES ASSUME al.state \in SearchStates PROVE slips'[z] = 0
      OBVIOUS
    <3>2. (al.state = "Reset_Delay" <=> cmd.op = "reset") /\ cmd.slip = FALSE
      BY <1>2, <1>3, <2>1, <3>1 DEF EInv, HeardInv
    <3>3. al.state # "Reset_Delay" => slips[z] = 0
      BY <2>2, <3>1 DEF OnTheWay
    <3> QED BY <1>6, <3>2, <3>3
  <2> QED BY <1>1, <2>2, <2>3 DEF OnTheWay
<1>10. EyeInv'
  <2>1. ASSUME NEW c \in Conns, ~late PROVE Done(c)' => Done(c)
    BY <1>1 DEF Done
  <2>2. ASSUME NEW c \in Conns, ~late, wordAlign[c] PROVE delay'[c] = delay[c]
    BY <1>3, <1>4, <1>6, <2>2 DEF IInv, AlignedInv
  <2> QED BY <1>1, <2>1, <2>2, EyeKept DEF EInv
<1> QED BY <1>7, <1>8, <1>9, <1>10 DEF EInv

-----------------------------------------------------------------------------
(* The theorems.                                                            *)

\* In every reachable state the request keeps the clocks in step, the counters are those of
\* the line, and the searches are on their way.
THEOREM Invariance == Spec => [](IInv /\ EInv)
<1>1. IInv /\ EInv /\ [Next]_vars => IInv' /\ EInv'
  <2> SUFFICES ASSUME IInv, EInv, [Next]_vars PROVE IInv' /\ EInv'
    OBVIOUS
  <2>1. CASE DriverResets
    BY <2>1, StepDriverResets, ResetsGo
  <2>2. CASE DriverStarts \/ DriverSeesBusy \/ DriverSeesDone
    <3>1. EInv'
      BY <2>2, BesideGoes DEF DriverStarts, DriverSeesBusy, DriverSeesDone
    <3> QED BY <2>2, <3>1, StepPolls
  <2>3. CASE Sequencer
    BY <2>3, StepSequencer, SequencerGoes
  <2>4. CASE AlignBegins
    BY <2>4, StepBegins, BeginsGo
  <2>5. CASE Aligning /\ ~AlignBegins
    BY <2>5, StepAligns, AlignsGo
  <2>6. CASE Handshake \/ AckTimesOut
    BY <2>6, StepHandshake, StepAckTimesOut, HandshakeGoes
  <2>7. CASE SyncSamplesReq \/ SyncAcks \/ SyncReleases
    BY <2>7, StepSyncs, SyncsGo
  <2>8. CASE SyncServes
    BY <2>8, StepServes, ServesGo
  <2>9. CASE DivStops \/ DivRestarts
    <3>1. EInv'
      BY <2>9, BesideGoes DEF DivStops, DivRestarts, host
    <3> QED BY <2>9, <3>1, StepDivClock
  <2>10. CASE UNCHANGED vars
    <3>1. EInv'
      BY <2>10, BesideGoes DEF vars, host
    <3> QED BY <2>10, <3>1, Unchanged
  <2> QED BY <2>1, <2>2, <2>3, <2>4, <2>5, <2>6, <2>7, <2>8, <2>9, <2>10
          DEF Next, Driver, DivClock
<1>2. Init => IInv /\ EInv
  BY Initially, InitiallyE
<1> QED BY <1>1, <1>2, PTL DEF Spec

\* The types, and the count: between two commands the tap the aligner counts is the tap in
\* use, in all the searches and with any lines, as long as no request has timed out and no
\* edge has been followed past the last tap (iserdes_control.vhd, NextTap and Further).
THEOREM TapCounted == Spec => []Consistent
<1>1. IInv => Consistent
  <2> SUFFICES ASSUME IInv PROVE TypeOK /\ TapTracks
    BY DEF Consistent
  <2>1. TypeOK
    BY DEF IInv
  <2>2. TapTracks
    <3>1. SUFFICES ASSUME ~late, seq = "Off", hs \in {"Idle", "End"}, al.max >= -1
                   PROVE  al.tap % TapCountMax = delay[selector]
      BY DEF TapTracks
    <3>2. ~Before
      BY <3>1 DEF Before
    <3>3. Tracks(al, "none", delay[selector])
      BY <3>1, <3>2 DEF IInv, TapInv
    <3> QED BY <3>1, <3>3 DEF Tracks, Moved
  <2> QED BY <2>1, <2>2
<1> QED BY Invariance, <1>1, PTL

\* What is said of an aligned line is right, in both modes, unless a request timed out: off
\* its edges it delivers the training word; the tap it reports is the tap in use; and with an
\* automatic search over a clean line it is off the edges (iserdes_control.vhd, from
\* WindowFound through Do_Word_Align to Alignment_Done).
THEOREM AlignedRight == Spec => []AlignedIsRight
<1>1. IInv /\ EInv => AlignedIsRight
  <2> SUFFICES ASSUME IInv, EInv, NEW c \in Conns, wordAlign[c], ~late
               PROVE  /\ auto /\ GoodEye(c) => delay[c] \notin line[c].edges
                      /\ delay[c] \notin line[c].edges => Sample(c) = {0}
                      /\ (auto => GoodEye(c)) => tapSetting[c] % TapCountMax = delay[c]
    BY DEF AlignedIsRight
  <2>1. auto /\ GoodEye(c) =>
          delay[c] \notin line[c].edges /\ tapSetting[c] % TapCountMax = delay[c]
    BY DEF EInv, EyeInv
  <2>2. /\ delay[c] \notin line[c].edges => Sample(c) = {0}
        /\ ~auto => tapSetting[c] % TapCountMax = delay[c]
    BY DEF IInv, AlignedInv
  <2> QED BY <2>1, <2>2
<1> QED BY Invariance, <1>1, PTL

\* No good line is given up, unless a request timed out: with the tap the driver sets none
\* that is alive and off its edges, for the slips reach every rotation of the word; and in
\* automatic mode no clean one that began with CTRL_BITSLIP cleared, for the searches pass
\* over both its edges on the first attempt (iserdes_control.vhd, Get_Edge to WindowFound).
THEOREM GoodAligned == Spec => []GoodLinesAlign
<1>1. IInv /\ EInv => GoodLinesAlign
  <2> SUFFICES ASSUME IInv, EInv, seq = "Idle", aligned, ~late, NEW c \in Conns,
                      \/ auto /\ GoodEye(c) /\ ~dirty[c]
                      \/ ~auto /\ line[c].live /\ delay[c] \notin line[c].edges
               PROVE  wordAlign[c]
    BY DEF GoodLinesAlign
  <2>1. Done(c)
    BY DEF Done
  <2>2. CASE auto /\ GoodEye(c) /\ ~dirty[c]
    BY <2>1, <2>2 DEF EInv, EyeInv
  <2>3. CASE ~auto /\ Clear(c)
    BY <2>1, <2>3 DEF IInv, DoneInv
  <2> QED BY <2>2, <2>3 DEF Clear
<1> QED BY Invariance, <1>1, PTL
===============================================================================
