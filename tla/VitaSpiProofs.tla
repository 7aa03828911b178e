---------------------------- MODULE VitaSpiProofs ----------------------------
(***************************************************************************)
(* VitaSpi for every set of registers, values, FIFO depths and calls: the  *)
(* answer a read gets is its own, requests that do not crowd are performed *)
(* in order, and the sequences of the application leave the sensor as they *)
(* ask.                                                                    *)
(*                                                                         *)
(* Answers: a read that starts with nothing crowded or given up behind it, *)
(* or with the bridge at rest, is the only one under way; until its answer *)
(* is popped, its word, its command or its answer is all there is of it.   *)
(* Application: requests are kept apart, so what the sensor holds and what *)
(* it should hold differ by the one request under way.                     *)
(***************************************************************************)
EXTENDS VitaSpi, SequenceTheorems, TLAPS

\* No read is under way.
NoReads ==
  /\ \A k \in DOMAIN tx : tx[k].op # "read"
  /\ spi # "idle" => cmd.op # "read"

\* The read of this call is the only one.
Asking ==
  \/ /\ tx = <<Request>> /\ rx = << >>
     /\ spi # "idle" => cmd.op # "read"
  \/ /\ tx = << >> /\ rx = << >> /\ spi # "idle"
     /\ cmd.op = "read" /\ cmd.addr = call.addr
  \/ /\ tx = << >> /\ spi = "idle"
     /\ \E r \in Responses : rx = <<r>> /\ r.addr = call.addr

Clean == trouble \cap {"crowded", "gaveup"} = {}

\* What that gives at each place of a read.
Answering ==
  /\ pc = "drain" => NoReads /\ (call.quiet => Quiet)
  /\ pc = "send"  => NoReads /\ rx = << >> /\ (call.quiet => Quiet)
  /\ pc = "wait"  => Asking
  /\ pc = "get"   => NoReads /\ rx = << >> /\ rxout.addr = call.addr
  /\ pc = "client" /\ call.ok => call.answer.addr = call.addr

AnswerInv ==
  /\ pc \in {"drain", "wait", "get"} => call.op = "read"
  /\ Clean /\ (pc = "client" \/ call.op # "read") => NoReads
  /\ call.op = "read" /\ (call.quiet \/ Clean) => Answering

\* A write of the application, wherever it is: what is left of it to do.
Writing(w) ==
  \/ tx = <<w>> /\ spi = "idle" /\ asked = [regs EXCEPT ![w.addr] = w.data]
  \/ tx = << >> /\ spi = "shift" /\ cmd = w /\ asked = [regs EXCEPT ![w.addr] = w.data]
  \/ tx = << >> /\ spi = "off" /\ cmd.op = "write" /\ asked = regs
  \/ Quiet /\ asked = regs

\* A read of the application, until its answer is popped.
Reading ==
  \/ tx = <<Request>> /\ spi = "idle" /\ rx = << >>
  \/ tx = << >> /\ spi = "shift" /\ cmd = Request /\ rx = << >>
  \/ /\ tx = << >> /\ spi = "off" /\ rx = << >>
     /\ cmd = [Request EXCEPT !.data = regs[call.addr]]
  \/ Quiet /\ rx = <<[addr |-> call.addr, data |-> regs[call.addr]]>>

\* What the sensor lacks while a read goes on: the field that the write behind
\* the read will change.
Wanted ==
  \/ seqctl = "any" /\ asked = regs
  \/ seqctl = "write" /\ asked = [regs EXCEPT ![call.addr].field = call.data.field]

AppClient ==
  \/ seqctl = "any" /\ Quiet /\ rx = << >> /\ asked = regs
  \/ /\ seqctl = "write" /\ Quiet /\ rx = << >> /\ call.op = "read" /\ Wanted
     /\ call.answer.data = regs[call.addr] /\ call.data.field \in {0, 1}
  \/ /\ seqctl = "sleep" /\ rx = << >>
     /\ \E w \in Words : w.op = "write" /\ Writing(w)

AppInv ==
  client = "app" =>
    /\ trouble = {}
    /\ pc = "client" => AppClient
    /\ pc = "drain"  => Quiet /\ rx = << >> /\ call.op = "read" /\ Wanted
    /\ pc = "send" /\ call.op = "read" => Quiet /\ rx = << >> /\ Wanted
    /\ pc = "send" /\ call.op # "read" =>
         /\ Quiet /\ rx = << >> /\ call.op = "write" /\ seqctl = "sleep"
         /\ asked = [regs EXCEPT ![call.addr] = call.data]
    /\ pc = "wait"   => Reading /\ call.op = "read" /\ Wanted
    /\ pc = "get"    => /\ Quiet /\ rx = << >> /\ call.op = "read" /\ Wanted
                       /\ rxout.data = regs[call.addr]

\* What has been sent but for the word in the FIFO; uncrowded, there is one at most.
Taken == IF spi = "shift" THEN Append(done, cmd) ELSE done

OrderInv ==
  trouble \cap {"crowded", "dropped"} = {} =>
    \/ tx = << >> /\ sent = Taken
    \/ \E w \in Words : tx = <<w>> /\ sent = IF w.op = "nop" THEN Taken ELSE Append(Taken, w)

-----------------------------------------------------------------------------
(* Types. *)

LEMMA TailFacts ==
  ASSUME NEW S, NEW s \in Seq(S), s # << >>
  PROVE  /\ Head(s) \in S /\ Tail(s) \in Seq(S)
         /\ Len(s) \in Nat /\ Len(Tail(s)) = Len(s) - 1
BY HeadTailProperties, LenProperties

LEMMA AppendFacts ==
  ASSUME NEW S, NEW s \in Seq(S), NEW e \in S
  PROVE  Append(s, e) \in Seq(S) /\ Len(s) \in Nat /\ Len(Append(s, e)) = Len(s) + 1
BY AppendProperties, LenProperties

LEMMA Records ==
  /\ Zero \in Values /\ Nothing \in Words /\ NoAnswer \in Responses
  /\ \A v \in Values, b \in {0, 1} : [v EXCEPT !.field = b] \in Values
  /\ \A op \in {"read", "write", "nop"}, a \in Addrs, v \in Values :
       [op |-> op, addr |-> a, data |-> v] \in Words
  /\ \A w \in Words, v \in Values : [w EXCEPT !.data = v] \in Words
  /\ \A op \in {"read", "write", "nop"}, a \in Addrs, v \in Values, ok \in BOOLEAN,
        r \in Responses, q \in BOOLEAN :
       [op |-> op, addr |-> a, data |-> v, ok |-> ok, answer |-> r, quiet |-> q] \in Calls
  /\ \A c \in Calls, ok \in BOOLEAN : [c EXCEPT !.ok = ok] \in Calls
  /\ \A c \in Calls, r \in Responses : [c EXCEPT !.ok = TRUE, !.answer = r] \in Calls
<1>1. Zero \in Values
  BY DEF Zero, Values
<1>2. Nothing.addr \in Addrs /\ Nothing.op = "nop" /\ Nothing.data = Zero
  BY VitaAssumption DEF Nothing
<1>3. Nothing \in Words /\ NoAnswer \in Responses
  <2>1. (CHOOSE a \in Addrs : TRUE) \in Addrs
    BY VitaAssumption
  <2> QED  BY <1>1, <1>2, <2>1 DEF Nothing, Words, NoAnswer, Responses
<1>4. \A v \in Values, b \in {0, 1} : [v EXCEPT !.field = b] \in Values
  BY DEF Values
<1>5. \A w \in Words, v \in Values : [w EXCEPT !.data = v] \in Words
  BY DEF Words
<1>6. \A c \in Calls, ok \in BOOLEAN : [c EXCEPT !.ok = ok] \in Calls
  BY DEF Calls
<1>7. \A c \in Calls, r \in Responses : [c EXCEPT !.ok = TRUE, !.answer = r] \in Calls
  BY DEF Calls
<1> QED  BY <1>1, <1>3, <1>4, <1>5, <1>6, <1>7 DEF Words, Calls

LEMMA TypeInit == Init => TypeOK
<1> SUFFICES ASSUME Init
             PROVE  TypeOK
  OBVIOUS
<1>1. Nothing.addr \in Addrs /\ Zero \in Values /\ Nothing \in Words /\ NoAnswer \in Responses
  BY Records DEF Words
<1>2. call \in Calls
  BY <1>1, Records DEF Init
<1> QED  BY <1>1, <1>2, VitaAssumption DEF Init, TypeOK

\* What Begin does to the types, for whoever calls.
LEMMA BeginTypes ==
  ASSUME TypeOK, NEW op \in {"read", "write", "nop"}, NEW a \in Addrs, NEW v \in Values,
         Begin(op, a, v), asked' \in [Addrs -> Values], seqctl' \in {"any", "write", "sleep"}
  PROVE  TypeOK'
<1>1. call' \in Calls
  <2>1. Quiet \in BOOLEAN /\ NoAnswer \in Responses
    BY Records DEF Quiet
  <2> QED  BY <2>1, Records DEF Begin
<1>2. calls' \in 0 .. MaxCalls
  BY VitaAssumption DEF Begin, TypeOK
<1> QED  BY <1>1, <1>2 DEF TypeOK, Begin, hardware

LEMMA PushTypes ==
  ASSUME TypeOK, NEW w \in Words, Push(w)
  PROVE  /\ tx' \in Seq(Words) /\ Len(tx') <= TxDepth
         /\ sent' \in Seq(Words)
         /\ trouble' \subseteq {"crowded", "gaveup", "dropped", "lost"}
<1> USE VitaAssumption DEF TypeOK
<1>1. /\ Append(tx, w) \in Seq(Words) /\ Append(sent, w) \in Seq(Words)
      /\ Len(tx) \in Nat /\ Len(Append(tx, w)) = Len(tx) + 1
  BY AppendFacts
<1>2. sent' \in {sent, Append(sent, w)}
  BY DEF Push
<1>3. trouble' \subseteq {"crowded", "gaveup", "dropped", "lost"}
  BY DEF Push
<1>4. \/ tx' = tx
      \/ tx' = Append(tx, w) /\ Len(tx) < TxDepth
  BY DEF Push
<1>5. tx' \in Seq(Words) /\ Len(tx') <= TxDepth
  <2>1. CASE tx' = tx
    BY <2>1
  <2>2. CASE tx' = Append(tx, w) /\ Len(tx) < TxDepth
    <3>1. Append(tx, w) \in Seq(Words) /\ Len(Append(tx, w)) <= TxDepth
      BY <1>1, <2>2
    <3> QED  BY <2>2, <3>1, Zenon
  <2> QED  BY <1>4, <2>1, <2>2
<1> QED  BY <1>1, <1>2, <1>3, <1>5

LEMMA TypeStep == TypeOK /\ [Next]_vars => TypeOK'
<1> SUFFICES ASSUME TypeOK, [Next]_vars
             PROVE  TypeOK'
  OBVIOUS
<1>1. ASSUME NEW a \in Addrs, NEW v \in Written, WriteWhole(a, v)
      PROVE  TypeOK'
  <2>1. v \in Values
    BY VitaAssumption
  <2>2. asked' \in [Addrs -> Values] /\ seqctl' \in {"any", "write", "sleep"}
    BY <1>1, <2>1 DEF WriteWhole, TypeOK
  <2>3. Begin("write", a, v)
    BY <1>1 DEF WriteWhole
  <2> QED  BY <2>1, <2>2, <2>3, BeginTypes
<1>2. ASSUME NEW a \in Addrs, NEW b \in {0, 1}, ReadField(a, b)
      PROVE  TypeOK'
  <2>1. [Zero EXCEPT !.field = b] \in Values
    BY Records
  <2>2. asked' \in [Addrs -> Values] /\ seqctl' \in {"any", "write", "sleep"}
    <3>1. asked[a] \in Values /\ [asked[a] EXCEPT !.field = b] \in Values
      BY Records DEF TypeOK
    <3> QED  BY <1>2, <3>1 DEF ReadField, TypeOK
  <2>3. Begin("read", a, [Zero EXCEPT !.field = b])
    BY <1>2 DEF ReadField
  <2> QED  BY <2>1, <2>2, <2>3, BeginTypes
<1>3. ASSUME NEW a \in Addrs, Inspect(a)
      PROVE  TypeOK'
  <2>1. Begin("read", a, Zero) /\ Zero \in Values
    BY <1>3, Records DEF Inspect
  <2>2. asked' \in [Addrs -> Values] /\ seqctl' \in {"any", "write", "sleep"}
    BY <1>3 DEF Inspect, TypeOK
  <2> QED  BY <2>1, <2>2, BeginTypes
<1>4. CASE WriteField
  <2>1. /\ call.addr \in Addrs /\ call.data \in Values /\ call.answer.data \in Values
        /\ call.data.field \in {0, 1}
    BY DEF TypeOK, Calls, Responses, Values
  <2>2. [call.answer.data EXCEPT !.field = call.data.field] \in Values
    BY <2>1, Records
  <2>3. asked' \in [Addrs -> Values] /\ seqctl' \in {"any", "write", "sleep"}
    BY <1>4 DEF WriteField, TypeOK
  <2>4. Begin("write", call.addr, [call.answer.data EXCEPT !.field = call.data.field])
    BY <1>4 DEF WriteField
  <2> QED  BY <2>1, <2>2, <2>3, <2>4, BeginTypes
<1>5. CASE Sleep
  BY <1>5 DEF Sleep, TypeOK, hardware
<1>6. CASE Pause
  <2>1. Begin("nop", Nothing.addr, Zero) /\ Zero \in Values /\ Nothing.addr \in Addrs
    BY <1>6, Records DEF Pause, Words
  <2>2. asked' \in [Addrs -> Values] /\ seqctl' \in {"any", "write", "sleep"}
    BY <1>6 DEF Pause, TypeOK
  <2> QED  BY <2>1, <2>2, BeginTypes
<1>7. CASE SpiWrite
  <2> DEFINE w == [op |-> call.op, addr |-> call.addr, data |-> call.data]
  <2>1. w \in Words
    BY Records DEF TypeOK, Calls
  <2>2. Push(w)
    BY <1>7 DEF SpiWrite
  <2> HIDE DEF w
  <2>3. call' \in Calls
    BY <1>7, Records DEF SpiWrite, Return, TypeOK
  <2> QED  BY <1>7, <2>1, <2>2, <2>3, PushTypes DEF SpiWrite, Return, TypeOK, program, hardware
<1>8. CASE Drain
  <2>1. rx # << >> => Tail(rx) \in Seq(Responses) /\ Len(Tail(rx)) <= RxDepth /\ Head(rx) \in Responses
    BY TailFacts, VitaAssumption DEF TypeOK
  <2> QED  BY <1>8, <2>1 DEF Drain, TypeOK, program, hardware
<1>9. Request \in Words
  BY Records DEF Request, TypeOK, Calls
<1>10. CASE SendRequest
  BY <1>9, <1>10, PushTypes DEF SendRequest, TypeOK, program, hardware
<1>11. CASE SendTimeout
  <2>1. call' \in Calls
    BY <1>11, Records DEF SendTimeout, Return, TypeOK
  <2> QED  BY <1>9, <1>11, <2>1, PushTypes DEF SendTimeout, Return, TypeOK, program, hardware
<1>12. CASE WaitTimeout
  <2>1. call' \in Calls
    BY <1>12, Records DEF WaitTimeout, Return, TypeOK
  <2> QED  BY <1>12, <2>1 DEF WaitTimeout, Return, TypeOK, program, hardware
<1>13. CASE PopResponse
  <2>1. rx # << >> /\ Tail(rx) \in Seq(Responses) /\ Len(Tail(rx)) <= RxDepth /\ Head(rx) \in Responses
    BY <1>13, TailFacts, VitaAssumption DEF TypeOK, PopResponse
  <2> QED  BY <1>13, <2>1 DEF PopResponse, TypeOK, program, hardware
<1>14. CASE GetResponse
  <2>1. Dout(rx, rxout) \in Responses
    BY TailFacts DEF Dout, TypeOK
  <2>2. call' \in Calls
    BY <1>14, <2>1, Records DEF GetResponse, TypeOK
  <2> QED  BY <1>14, <2>2 DEF GetResponse, TypeOK, program, hardware
<1>15. CASE Fetch
  <2>1. /\ tx # << >> /\ Tail(tx) \in Seq(Words) /\ Len(Tail(tx)) <= TxDepth
        /\ Head(tx) \in Words
    BY <1>15, TailFacts, VitaAssumption DEF TypeOK, Fetch
  <2>2. Dout(tx', txout') \in Words
    BY <1>15, <2>1, TailFacts DEF Fetch, Dout
  <2> QED  BY <1>15, <2>1, <2>2 DEF Fetch, TypeOK, driver
<1>16. CASE Shift
  <2>1. cmd.addr \in Addrs /\ cmd.data \in Values /\ regs[cmd.addr] \in Values
    BY DEF TypeOK, Words
  <2>2. cmd' \in Words /\ regs' \in [Addrs -> Values]
    BY <1>16, <2>1, Records DEF Shift, TypeOK
  <2>3. done' \in Seq(Words)
    BY <1>16, AppendProperties DEF Shift, TypeOK
  <2> QED  BY <1>16, <2>2, <2>3 DEF Shift, TypeOK, driver
<1>17. CASE Finish
  <2> DEFINE r == [addr |-> cmd.addr, data |-> cmd.data]
  <2>1. r \in Responses
    BY DEF TypeOK, Words, Responses
  <2>2. \/ rx' = rx /\ trouble' = trouble
        \/ rx' = Append(rx, r) /\ Len(rx) < RxDepth /\ trouble' = trouble
        \/ rx' = rx /\ trouble' = trouble \cup {"lost"}
    BY <1>17 DEF Finish
  <2> HIDE DEF r
  <2>3. rx' \in Seq(Responses) /\ Len(rx') <= RxDepth
    <3>1. /\ Append(rx, r) \in Seq(Responses) /\ Len(rx) \in Nat
          /\ Len(Append(rx, r)) = Len(rx) + 1
      BY <2>1, AppendFacts DEF TypeOK
    <3>2. RxDepth \in Nat /\ rx \in Seq(Responses) /\ Len(rx) <= RxDepth
      BY VitaAssumption DEF TypeOK
    <3> QED  BY <2>2, <3>1, <3>2
  <2> QED  BY <1>17, <2>2, <2>3 DEF Finish, TypeOK, driver
<1>18. CASE UNCHANGED vars
  BY <1>18 DEF vars, TypeOK
<1> QED
  BY <1>1, <1>2, <1>3, <1>4, <1>5, <1>6, <1>7, <1>8, <1>10, <1>11, <1>12, <1>13, <1>14, <1>15,
     <1>16, <1>17, <1>18 DEF Next, Client, DriverStep, Sequencer

-----------------------------------------------------------------------------
(* Answers. *)

\* What is pushed leaves no read in the FIFO if it is none.
LEMMA PushNoReads ==
  ASSUME TypeOK, NoReads, NEW w \in Words, w.op # "read", Push(w)
  PROVE  \A k \in DOMAIN tx' : tx'[k].op # "read"
<1>1. CASE tx' = tx
  BY <1>1 DEF NoReads
<1>2. CASE tx' = Append(tx, w)
  <2>1. DOMAIN tx = 1 .. Len(tx) /\ Len(tx) \in Nat /\ tx \in Seq(Words)
    BY LenProperties DEF TypeOK
  <2>2. /\ DOMAIN Append(tx, w) = 1 .. Len(tx) + 1
        /\ \A k \in 1 .. Len(tx) : Append(tx, w)[k] = tx[k]
        /\ Append(tx, w)[Len(tx) + 1] = w
    BY <2>1, AppendProperties, LenProperties
  <2>3. ASSUME NEW k \in 1 .. Len(tx) + 1
        PROVE  Append(tx, w)[k].op # "read"
    <3>1. CASE k = Len(tx) + 1
      BY <2>2, <3>1
    <3>2. CASE k # Len(tx) + 1
      BY <2>1, <2>2, <3>2 DEF NoReads
    <3> QED  BY <3>1, <3>2
  <2> QED  BY <1>2, <2>2, <2>3
<1> QED  BY <1>1, <1>2 DEF Push

\* The sequencer takes nothing out of the FIFO that was not in it.
LEMMA FetchNoReads ==
  ASSUME TypeOK, NoReads, Fetch
  PROVE  NoReads'
<1>1. tx \in Seq(Words) /\ tx # << >> /\ tx' = Tail(tx) /\ cmd' = Dout(Tail(tx), Head(tx))
  BY DEF Fetch, TypeOK
<1>2. /\ DOMAIN tx = 1 .. Len(tx) /\ Len(tx) \in Nat \ {0} /\ Head(tx) = tx[1]
      /\ DOMAIN Tail(tx) = 1 .. Len(tx) - 1
      /\ \A k \in 1 .. Len(tx) - 1 : Tail(tx)[k] = tx[k + 1]
  BY <1>1, HeadTailProperties, LenProperties, EmptySeq
<1>3. \A k \in DOMAIN Tail(tx) : Tail(tx)[k].op # "read"
  BY <1>2 DEF NoReads
<1>4. Head(tx).op # "read"
  BY <1>2 DEF NoReads
<1>5. Dout(Tail(tx), Head(tx)).op # "read"
  <2>1. CASE Tail(tx) = << >>
    BY <1>4, <2>1 DEF Dout
  <2>2. CASE Tail(tx) # << >>
    <3>1. Tail(tx) \in Seq(Words)
      BY <1>1, TailFacts
    <3>2. Head(Tail(tx)) = Tail(tx)[1] /\ 1 \in DOMAIN Tail(tx)
      BY <2>2, <3>1, HeadTailProperties, LenProperties, EmptySeq
    <3> QED  BY <1>3, <2>2, <3>2 DEF Dout
  <2> QED  BY <2>1, <2>2
<1> QED  BY <1>1, <1>3, <1>5 DEF NoReads

LEMMA AnswerInit == Init => AnswerInv
<1> SUFFICES ASSUME Init
             PROVE  AnswerInv
  OBVIOUS
<1>1. NoReads
  BY DEF Init, NoReads
<1>2. call.op = "nop" /\ pc = "client"
  BY DEF Init
<1> QED  BY <1>1, <1>2 DEF AnswerInv

\* What a call starts with.
LEMMA BeginAnswers ==
  ASSUME TypeOK, AnswerInv, NEW op \in {"read", "write", "nop"}, NEW a, NEW v, Begin(op, a, v)
  PROVE  AnswerInv'
<1>1. /\ pc = "client" /\ UNCHANGED <<tx, rx, spi, cmd, trouble>>
      /\ pc' = (IF op = "read" THEN "drain" ELSE "send")
      /\ call'.op = op /\ call'.quiet = Quiet
  BY DEF Begin, hardware
<1>2. (NoReads' <=> NoReads) /\ (Clean' <=> Clean) /\ (Quiet' <=> Quiet)
  BY <1>1 DEF NoReads, Clean, Quiet
<1>3. Clean => NoReads
  BY <1>1 DEF AnswerInv
<1>4. Quiet => NoReads
  BY DEF Quiet, NoReads
<1>5. op = "read" /\ (call'.quiet \/ Clean') => Answering'
  BY <1>1, <1>2, <1>3, <1>4 DEF Answering
<1> QED  BY <1>1, <1>2, <1>3, <1>5 DEF AnswerInv

LEMMA AnswerStep == TypeOK /\ AnswerInv /\ [Next]_vars => AnswerInv'
<1> SUFFICES ASSUME TypeOK, AnswerInv, [Next]_vars
             PROVE  AnswerInv'
  OBVIOUS
<1>1. ASSUME Client
      PROVE  AnswerInv'
  <2>1. CASE Sleep
    <3>1. UNCHANGED <<call, pc, tx, rx, rxout, spi, cmd, trouble>>
      BY <2>1 DEF Sleep, hardware
    <3> QED  BY <3>1 DEF AnswerInv, Answering, Asking, Request, NoReads, Clean, Quiet
  <2>2. CASE \E op \in {"read", "write", "nop"} : \E a, v : Begin(op, a, v)
    BY <2>2, BeginAnswers
  <2> QED  BY <1>1, <2>1, <2>2 DEF Client, WriteWhole, ReadField, Inspect, WriteField, Pause
<1>2. ASSUME SpiWrite
      PROVE  AnswerInv'
  <2> DEFINE w == [op |-> call.op, addr |-> call.addr, data |-> call.data]
  <2>1. w \in Words /\ w.op # "read" /\ Push(w)
    BY <1>2, Records DEF SpiWrite, TypeOK, Calls
  <2> HIDE DEF w
  <2>2. call.op # "read" /\ call'.op = call.op /\ pc' = "client" /\ UNCHANGED <<spi, cmd>>
    BY <1>2 DEF SpiWrite, Return, hardware, TypeOK, Calls
  <2>3. Clean' => Clean
    BY <2>1 DEF Push, Clean
  <2>4. Clean' => NoReads'
    BY <2>1, <2>2, <2>3, PushNoReads DEF AnswerInv, NoReads
  <2> QED  BY <2>2, <2>4 DEF AnswerInv
<1>3. ASSUME Drain
      PROVE  AnswerInv'
  <2>1. /\ pc = "drain" /\ UNCHANGED <<call, tx, spi, cmd, trouble>>
        /\ \/ pc' = "drain"
           \/ rx' = << >> /\ pc' = "send"
    BY <1>3 DEF Drain, hardware
  <2>2. (NoReads' <=> NoReads) /\ (Clean' <=> Clean) /\ (Quiet' <=> Quiet)
    BY <2>1 DEF NoReads, Clean, Quiet
  <2> QED  BY <2>1, <2>2 DEF AnswerInv, Answering
<1>4. ASSUME SendRequest
      PROVE  AnswerInv'
  <2>1. /\ pc = "send" /\ call.op = "read" /\ Push(Request) /\ Len(tx) < TxDepth /\ pc' = "wait"
        /\ UNCHANGED <<call, rx, spi, cmd>>
    BY <1>4 DEF SendRequest, hardware
  <2>2. /\ tx' = Append(tx, Request)
        /\ tx # << >> => "crowded" \in trouble'
        /\ tx = << >> => trouble' = trouble
    BY <2>1 DEF Push
  <2>3. call.quiet \/ Clean' => tx = << >> /\ NoReads /\ rx = << >>
    <3>1. Clean' => Clean /\ tx = << >>
      BY <2>2 DEF Clean
    <3> QED  BY <2>1, <3>1 DEF AnswerInv, Answering, Quiet
  <2>4. tx = << >> => tx' = <<Request>>
    BY <2>2
  <2>5. Request' = Request
    BY <2>1 DEF Request
  <2>6. call'.quiet \/ Clean' => Asking'
    BY <2>1, <2>3, <2>4, <2>5 DEF Asking, NoReads
  <2> QED  BY <2>1, <2>6 DEF AnswerInv, Answering
<1>5. ASSUME SendTimeout
      PROVE  AnswerInv'
  <2>1. /\ pc = "send" /\ call.op = "read" /\ Push(Request) /\ Len(tx) = TxDepth
        /\ pc' = "client" /\ call'.ok = FALSE /\ call'.op = "read" /\ UNCHANGED <<spi, cmd>>
    BY <1>5 DEF SendTimeout, Return, hardware, TypeOK, Calls
  <2>2. tx' = tx /\ trouble' = trouble \cup {"dropped"}
    BY <2>1, VitaAssumption DEF Push
  <2>3. Clean' => NoReads'
    BY <2>1, <2>2 DEF AnswerInv, Answering, Clean, NoReads
  <2> QED  BY <2>1, <2>3 DEF AnswerInv, Answering
<1>6. ASSUME WaitTimeout
      PROVE  AnswerInv'
  <2>1. /\ pc = "wait" /\ pc' = "client" /\ call'.ok = FALSE /\ "gaveup" \in trouble'
    BY <1>6 DEF WaitTimeout, Return, TypeOK, Calls
  <2>2. ~Clean'
    BY <2>1 DEF Clean
  <2> QED  BY <2>1, <2>2 DEF AnswerInv, Answering
<1>7. ASSUME PopResponse
      PROVE  AnswerInv'
  <2>1. /\ pc = "wait" /\ rx # << >> /\ rx' = Tail(rx) /\ rxout' = Head(rx) /\ pc' = "get"
        /\ UNCHANGED <<call, tx, spi, cmd, trouble>>
    BY <1>7 DEF PopResponse, hardware
  <2>2. Clean' <=> Clean
    BY <2>1 DEF Clean
  <2>3. ASSUME Asking
        PROVE  NoReads' /\ rx' = << >> /\ rxout'.addr = call'.addr
    <3>1. tx = << >> /\ spi = "idle" /\ \E r \in Responses : rx = <<r>> /\ r.addr = call.addr
      BY <2>1, <2>3 DEF Asking
    <3>2. PICK r \in Responses : rx = <<r>> /\ r.addr = call.addr
      BY <3>1
    <3>3. rx' = << >> /\ rxout' = r
      BY <2>1, <3>2
    <3>4. NoReads'
      BY <2>1, <3>1 DEF NoReads
    <3> QED  BY <2>1, <3>2, <3>3, <3>4
  <2> QED  BY <2>1, <2>2, <2>3 DEF AnswerInv, Answering
<1>8. ASSUME GetResponse
      PROVE  AnswerInv'
  <2>1. /\ pc = "get" /\ pc' = "client" /\ UNCHANGED <<tx, rx, spi, cmd, trouble>>
        /\ call'.op = call.op /\ call'.addr = call.addr /\ call'.quiet = call.quiet
        /\ call'.answer = Dout(rx, rxout)
    BY <1>8 DEF GetResponse, hardware, TypeOK, Calls
  <2>2. (NoReads' <=> NoReads) /\ (Clean' <=> Clean)
    BY <2>1 DEF NoReads, Clean
  <2>3. call.op = "read"
    BY <2>1 DEF AnswerInv
  <2>4. Clean => NoReads
    BY <2>1, <2>3 DEF AnswerInv, Answering
  <2>5. call.quiet \/ Clean => call'.answer.addr = call'.addr
    BY <2>1, <2>3 DEF AnswerInv, Answering, Dout
  <2> QED  BY <2>1, <2>2, <2>4, <2>5 DEF AnswerInv, Answering
<1>9. ASSUME Fetch
      PROVE  AnswerInv'
  <2>1. /\ spi = "idle" /\ tx # << >> /\ tx' = Tail(tx) /\ cmd' = Dout(Tail(tx), Head(tx))
        /\ spi' = IF cmd'.op = "nop" THEN "idle" ELSE "shift"
        /\ UNCHANGED <<call, pc, rx, rxout, trouble>>
    BY <1>9 DEF Fetch, driver
  <2>2. NoReads => NoReads'
    BY <1>9, FetchNoReads
  <2>3. Asking => Asking'
    <3>1. ASSUME tx = <<Request>>, rx = << >>
          PROVE  Asking'
      <4>1. tx' = << >> /\ cmd' = Request
        BY <2>1, <3>1 DEF Dout
      <4>2. spi' = "shift" /\ cmd'.op = "read" /\ cmd'.addr = call'.addr
        BY <2>1, <4>1 DEF Request
      <4> QED  BY <2>1, <3>1, <4>1, <4>2 DEF Asking
    <3> QED  BY <2>1, <3>1 DEF Asking
  <2>4. Clean' <=> Clean
    BY <2>1 DEF Clean
  <2>5. ~Quiet
    BY <2>1 DEF Quiet
  <2> QED  BY <2>1, <2>2, <2>3, <2>4, <2>5 DEF AnswerInv, Answering
<1>10. ASSUME Shift
       PROVE  AnswerInv'
  <2>1. /\ spi = "shift" /\ spi' = "off" /\ cmd'.op = cmd.op /\ cmd'.addr = cmd.addr
        /\ UNCHANGED <<call, pc, tx, rx, rxout, trouble>>
    BY <1>10 DEF Shift, driver, TypeOK, Words
  <2>2. NoReads' <=> NoReads
    BY <2>1 DEF NoReads
  <2>3. Asking => Asking'
    BY <2>1 DEF Asking, Request
  <2>4. (Clean' <=> Clean) /\ ~Quiet
    BY <2>1 DEF Clean, Quiet
  <2> QED  BY <2>1, <2>2, <2>3, <2>4 DEF AnswerInv, Answering
<1>11. ASSUME Finish
       PROVE  AnswerInv'
  <2>1. /\ spi = "off" /\ spi' = "idle" /\ UNCHANGED <<call, pc, tx, rxout, cmd>>
        /\ cmd.op # "read" => UNCHANGED <<rx, trouble>>
        /\ trouble' = trouble \/ trouble' = trouble \cup {"lost"}
    BY <1>11 DEF Finish, driver
  <2>2. /\ NoReads => NoReads' /\ rx' = rx
        /\ (Clean' <=> Clean) /\ ~Quiet
    BY <2>1 DEF NoReads, Clean, Quiet
  <2>3. Asking => Asking'
    <3>1. ASSUME tx = <<Request>>, rx = << >>, cmd.op # "read"
          PROVE  Asking'
      BY <2>1, <3>1 DEF Asking, Request
    <3>2. ASSUME tx = << >>, rx = << >>, cmd.op = "read", cmd.addr = call.addr
          PROVE  Asking'
      <4> DEFINE r == [addr |-> cmd.addr, data |-> cmd.data]
      <4>1. Len(rx) < RxDepth /\ Len(rx) # RxDepth
        BY <3>2, VitaAssumption
      <4>2. rx' = <<r>>
        BY <1>11, <3>2, <4>1 DEF Finish
      <4>3. r \in Responses /\ r.addr = call'.addr
        BY <2>1, <3>2 DEF TypeOK, Words, Responses
      <4> HIDE DEF r
      <4> QED  BY <2>1, <3>2, <4>2, <4>3 DEF Asking
    <3> QED  BY <2>1, <3>1, <3>2 DEF Asking
  <2> QED  BY <2>1, <2>2, <2>3 DEF AnswerInv, Answering
<1>12. CASE UNCHANGED vars
  BY <1>12 DEF vars, AnswerInv, Answering, Asking, Request, NoReads, Clean, Quiet
<1> QED
  BY <1>1, <1>2, <1>3, <1>4, <1>5, <1>6, <1>7, <1>8, <1>9, <1>10, <1>11, <1>12
     DEF Next, DriverStep, Sequencer

\* The bridge, the driver and its callers keep their types.
THEOREM TypeCorrect == Spec => []TypeOK
<1> QED  BY TypeInit, TypeStep, PTL DEF Spec

\* A read that succeeds returns the register it asked for, whatever clients call
\* the driver in whatever order and however deep the FIFOs are.
THEOREM AnswersRight == Spec => []RightAnswer
<1>1. AnswerInv => RightAnswer
  BY DEF AnswerInv, Answering, Clean, RightAnswer
<1> QED  BY <1>1, TypeInit, TypeStep, AnswerInit, AnswerStep, PTL DEF Spec

-----------------------------------------------------------------------------
(* The order of the requests. *)

\* A FIFO that takes a word was empty, or is crowded.
LEMMA OrderPush ==
  ASSUME TypeOK, OrderInv, NEW w \in Words, Push(w), UNCHANGED <<spi, cmd, done>>
  PROVE  OrderInv'
<1>1. SUFFICES ASSUME trouble' \cap {"crowded", "dropped"} = {}
               PROVE  tx' = <<w>> /\ sent' = IF w.op = "nop" THEN Taken' ELSE Append(Taken', w)
  BY DEF OrderInv
<1>2. tx = << >> /\ tx' = Append(tx, w) /\ trouble' = trouble
  BY <1>1 DEF Push
<1>3. sent = Taken
  BY <1>1, <1>2 DEF OrderInv
<1>4. Taken' = Taken
  BY DEF Taken
<1> QED  BY <1>2, <1>3, <1>4 DEF Push

LEMMA OrderStep == TypeOK /\ OrderInv /\ [Next]_vars => OrderInv'
<1> SUFFICES ASSUME TypeOK, OrderInv, [Next]_vars
             PROVE  OrderInv'
  OBVIOUS
<1>1. ASSUME UNCHANGED <<tx, sent, spi, cmd, done>>, trouble \subseteq trouble'
      PROVE  OrderInv'
  <2>1. Taken' = Taken
    BY <1>1 DEF Taken
  <2>2. trouble' \cap {"crowded", "dropped"} = {} => trouble \cap {"crowded", "dropped"} = {}
    BY <1>1
  <2> QED  BY <1>1, <2>1, <2>2 DEF OrderInv
<1>2. CASE Client
  <2>1. UNCHANGED <<tx, sent, spi, cmd, done, trouble>>
    BY <1>2 DEF Client, WriteWhole, ReadField, Inspect, WriteField, Pause, Sleep, Begin, hardware
  <2> QED  BY <1>1, <2>1
<1>3. CASE SpiWrite
  <2>1. [op |-> call.op, addr |-> call.addr, data |-> call.data] \in Words
    BY Records DEF TypeOK, Calls
  <2> QED  BY <1>3, <2>1, OrderPush DEF SpiWrite, hardware
<1>4. CASE SendRequest \/ SendTimeout
  <2>1. Request \in Words
    BY Records DEF Request, TypeOK, Calls
  <2> QED  BY <1>4, <2>1, OrderPush DEF SendRequest, SendTimeout, hardware
<1>5. CASE Drain \/ WaitTimeout \/ PopResponse \/ GetResponse
  <2>1. UNCHANGED <<tx, sent, spi, cmd, done>> /\ trouble \subseteq trouble'
    BY <1>5 DEF Drain, WaitTimeout, PopResponse, GetResponse, hardware
  <2> QED  BY <1>1, <2>1
<1>6. CASE Fetch
  <2>1. SUFFICES ASSUME trouble \cap {"crowded", "dropped"} = {}
                 PROVE  tx' = << >> /\ sent' = Taken'
    BY <1>6 DEF Fetch, OrderInv
  <2>2. PICK w \in Words :
          tx = <<w>> /\ sent = IF w.op = "nop" THEN Taken ELSE Append(Taken, w)
    BY <1>6, <2>1 DEF Fetch, OrderInv
  <2>3. tx' = << >> /\ txout' = w /\ cmd' = w /\ Taken = done
    BY <1>6, <2>2 DEF Fetch, Dout, Taken
  <2>4. sent' = sent /\ done' = done /\ spi' = IF w.op = "nop" THEN "idle" ELSE "shift"
    BY <1>6, <2>3 DEF Fetch, driver
  <2> QED  BY <2>2, <2>3, <2>4 DEF Taken
<1>7. CASE Shift
  <2>1. tx' = tx /\ sent' = sent /\ trouble' = trouble /\ Taken' = Taken
    BY <1>7 DEF Shift, driver, Taken
  <2> QED  BY <2>1 DEF OrderInv
<1>8. CASE Finish
  <2>1. tx' = tx /\ sent' = sent /\ trouble \subseteq trouble' /\ Taken' = Taken
    BY <1>8 DEF Finish, driver, Taken
  <2>2. trouble' \cap {"crowded", "dropped"} = {} => trouble \cap {"crowded", "dropped"} = {}
    BY <2>1
  <2> QED  BY <2>1, <2>2 DEF OrderInv
<1>9. CASE UNCHANGED vars
  BY <1>1, <1>9 DEF vars
<1> QED
  BY <1>2, <1>3, <1>4, <1>5, <1>6, <1>7, <1>8, <1>9 DEF Next, DriverStep, Sequencer

\* The sensor sees every request once, unchanged and in order, as long as none is sent while
\* another waits: popping a word before looking at dout is right for a FIFO that holds one
\* (spi_seq.vhd, Read_En_Active to DoSpiComm).
THEOREM RequestsInOrder == Spec => []InOrder
<1>1. TypeOK /\ OrderInv => InOrder
  <2> SUFFICES ASSUME TypeOK, OrderInv, trouble \cap {"crowded", "dropped"} = {}
               PROVE  LET shifting == IF spi = "shift" THEN <<cmd>> ELSE << >>
                          waiting  == IF tx = << >> \/ Head(tx).op = "nop" THEN << >> ELSE tx
                      IN  sent = done \o shifting \o waiting
    BY DEF InOrder
  <2> DEFINE shifting == IF spi = "shift" THEN <<cmd>> ELSE << >>
             waiting  == IF tx = << >> \/ Head(tx).op = "nop" THEN << >> ELSE tx
  <2>1. done \in Seq(Words) /\ cmd \in Words /\ tx \in Seq(Words)
    BY DEF TypeOK
  <2>2. done \o shifting = Taken /\ Taken \in Seq(Words)
    BY <2>1, AppendIsConcat, ConcatEmptySeq, AppendProperties DEF Taken
  <2>3. \/ waiting = << >> /\ sent = Taken
        \/ \E w \in Words : waiting = <<w>> /\ sent = Append(Taken, w)
    <3>1. CASE tx = << >> /\ sent = Taken
      BY <3>1
    <3>2. ASSUME NEW w \in Words, tx = <<w>>,
                 sent = IF w.op = "nop" THEN Taken ELSE Append(Taken, w)
          PROVE  \/ waiting = << >> /\ sent = Taken
                 \/ waiting = <<w>> /\ sent = Append(Taken, w)
      <4>1. tx # << >> /\ Head(tx) = w
        BY <3>2
      <4> QED  BY <3>2, <4>1
    <3> QED  BY <3>1, <3>2 DEF OrderInv
  <2> HIDE DEF shifting, waiting
  <2>4. sent = Taken \o waiting
    BY <2>2, <2>3, AppendIsConcat, ConcatEmptySeq
  <2>5. sent = done \o shifting \o waiting
    BY <2>2, <2>4
  <2> QED  BY <2>5 DEF shifting, waiting
<1>2. Init => OrderInv
  BY DEF Init, OrderInv, Taken
<1> QED  BY <1>1, <1>2, TypeInit, TypeStep, OrderStep, PTL DEF Spec

-----------------------------------------------------------------------------
(* The sequences of the application. *)

LEMMA AppInit == Init => AppInv
<1> SUFFICES ASSUME Init
             PROVE  AppInv
  OBVIOUS
<1> QED  BY DEF Init, AppInv, AppClient, Quiet

LEMMA AppStep == TypeOK /\ AppInv /\ [Next]_vars => AppInv'
<1> SUFFICES ASSUME TypeOK, AppInv, [Next]_vars, client = "app", client' = "app"
             PROVE  AppInv'
  BY DEF AppInv, Next, vars, Client, WriteWhole, ReadField, Inspect, WriteField, Pause, Sleep,
         Begin, DriverStep, SpiWrite, Drain, SendRequest, SendTimeout, WaitTimeout, PopResponse,
         GetResponse, Sequencer, Fetch, Shift, Finish, program, driver
\* Before a call starts, the bridge is at rest, unless the pause is due.
<1>1. ASSUME NEW op \in {"read", "write", "nop"}, NEW a, NEW v, Begin(op, a, v), seqctl # "sleep"
      PROVE  /\ pc = "client" /\ pc' = (IF op = "read" THEN "drain" ELSE "send")
             /\ Quiet' /\ rx' = << >> /\ trouble' = {} /\ UNCHANGED regs
             /\ call'.op = op /\ call'.addr = a /\ call'.data = v
             /\ seqctl = "any" => asked = regs
  BY <1>1 DEF Begin, hardware, AppInv, AppClient, Quiet
<1>2. ASSUME NEW a \in Addrs, NEW v \in Written, WriteWhole(a, v)
      PROVE  AppInv'
  <2>1. Begin("write", a, v) /\ seqctl = "any" /\ seqctl' = "sleep"
        /\ asked' = [asked EXCEPT ![a] = v]
    BY <1>2 DEF WriteWhole
  <2> QED  BY <2>1, <1>1 DEF AppInv
<1>3. ASSUME NEW a \in Addrs, NEW b \in {0, 1}, ReadField(a, b)
      PROVE  AppInv'
  <2> DEFINE v == [Zero EXCEPT !.field = b]
  <2>1. Begin("read", a, v) /\ seqctl = "any" /\ seqctl' = "write"
        /\ asked' = [asked EXCEPT ![a].field = b]
    BY <1>3 DEF ReadField
  <2>2. v.field = b
    BY DEF Zero
  <2> HIDE DEF v
  <2>3. Wanted'
    BY <2>1, <2>2, <1>1 DEF Wanted
  <2> QED  BY <2>1, <2>3, <1>1 DEF AppInv
<1>4. ASSUME NEW a \in Addrs, Inspect(a)
      PROVE  AppInv'
  <2>1. Begin("read", a, Zero) /\ seqctl = "any" /\ UNCHANGED <<seqctl, asked>>
    BY <1>4 DEF Inspect
  <2>2. Wanted'
    BY <2>1, <1>1 DEF Wanted
  <2> QED  BY <2>1, <2>2, <1>1 DEF AppInv
<1>5. ASSUME WriteField
      PROVE  AppInv'
  <2> DEFINE v == [call.answer.data EXCEPT !.field = call.data.field]
  <2>1. Begin("write", call.addr, v) /\ seqctl = "write" /\ seqctl' = "sleep" /\ UNCHANGED asked
    BY <1>5 DEF WriteField
  <2>2. /\ asked = [regs EXCEPT ![call.addr].field = call.data.field]
        /\ call.answer.data = regs[call.addr]
    BY <2>1 DEF AppInv, AppClient, Wanted, Begin
  <2>3. asked = [regs EXCEPT ![call.addr] = v]
    BY <2>2
  <2> HIDE DEF v
  <2> QED  BY <2>1, <2>3, <1>1 DEF AppInv
<1>6. ASSUME Sleep
      PROVE  AppInv'
  <2>1. /\ pc = "client" /\ pc' = "client" /\ seqctl = "sleep" /\ seqctl' = "any" /\ Quiet
        /\ UNCHANGED <<tx, rx, spi, regs, asked, trouble>>
    BY <1>6 DEF Sleep, hardware
  <2>2. rx = << >> /\ asked = regs /\ trouble = {}
    BY <2>1 DEF AppInv, AppClient, Writing, Quiet
  <2> QED  BY <2>1, <2>2 DEF AppInv, AppClient, Quiet
<1>7. ASSUME SpiWrite
      PROVE  AppInv'
  <2> DEFINE w == [op |-> call.op, addr |-> call.addr, data |-> call.data]
  <2>1. w \in Words /\ Push(w) /\ pc = "send" /\ call.op # "read" /\ pc' = "client"
        /\ UNCHANGED <<rx, spi, cmd, regs, asked, seqctl>>
    BY <1>7, Records DEF SpiWrite, Return, TypeOK, Calls, program, hardware
  <2>2. /\ Quiet /\ rx = << >> /\ call.op = "write" /\ seqctl = "sleep" /\ trouble = {}
        /\ asked = [regs EXCEPT ![call.addr] = call.data]
    BY <2>1 DEF AppInv
  <2>3. tx' = <<w>> /\ trouble' = {}
    BY <2>1, <2>2, VitaAssumption DEF Push, Quiet
  <2>4. w.op = "write" /\ w.addr = call.addr /\ w.data = call.data
    BY <2>2
  <2> HIDE DEF w
  <2>5. PICK u \in Words : /\ u.op = "write" /\ tx' = <<u>>
                          /\ asked = [regs EXCEPT ![u.addr] = u.data]
    BY <2>1, <2>2, <2>3, <2>4
  <2>6. Writing(u)'
    BY <2>1, <2>2, <2>5 DEF Writing, Quiet
  <2> QED  BY <2>1, <2>2, <2>3, <2>5, <2>6 DEF AppInv, AppClient
<1>8. ASSUME Drain
      PROVE  AppInv'
  <2>1. pc = "drain" /\ rx = << >> /\ Quiet /\ call.op = "read" /\ Wanted /\ trouble = {}
    BY <1>8 DEF Drain, AppInv
  <2>2. pc' = "send" /\ rx' = << >> /\ UNCHANGED <<call, seqctl, asked, tx, spi, regs, trouble>>
    BY <1>8, <2>1 DEF Drain, program, hardware
  <2> QED  BY <2>1, <2>2 DEF AppInv, Quiet, Wanted
<1>9. ASSUME SendRequest
      PROVE  AppInv'
  <2>1. /\ pc = "send" /\ call.op = "read" /\ Push(Request) /\ pc' = "wait"
        /\ UNCHANGED <<call, rx, spi, regs, seqctl, asked>>
    BY <1>9 DEF SendRequest, hardware, program
  <2>2. Quiet /\ rx = << >> /\ Wanted /\ trouble = {}
    BY <2>1 DEF AppInv
  <2>3. tx' = <<Request>> /\ trouble' = {} /\ Request' = Request
    BY <2>1, <2>2, VitaAssumption DEF Push, Quiet, Request
  <2> QED  BY <2>1, <2>2, <2>3 DEF AppInv, Reading, Wanted, Quiet
<1>10. ASSUME PopResponse
       PROVE  AppInv'
  <2>1. /\ pc = "wait" /\ rx # << >> /\ rx' = Tail(rx) /\ rxout' = Head(rx) /\ pc' = "get"
        /\ UNCHANGED <<call, tx, spi, regs, seqctl, asked, trouble>>
    BY <1>10 DEF PopResponse, hardware, program
  <2> DEFINE r == [addr |-> call.addr, data |-> regs[call.addr]]
  <2>2. Quiet /\ rx = <<r>> /\ call.op = "read" /\ Wanted /\ trouble = {}
    BY <2>1 DEF AppInv, Reading
  <2>3. r.data = regs[call.addr]
    OBVIOUS
  <2> HIDE DEF r
  <2>4. rx' = << >> /\ rxout' = r
    BY <2>1, <2>2
  <2> QED  BY <2>1, <2>2, <2>3, <2>4 DEF AppInv, Wanted, Quiet
<1>11. ASSUME GetResponse
       PROVE  AppInv'
  <2>1. /\ pc = "get" /\ pc' = "client" /\ UNCHANGED <<tx, rx, spi, regs, seqctl, asked, trouble>>
        /\ call'.op = call.op /\ call'.addr = call.addr /\ call'.data = call.data
        /\ call'.answer = Dout(rx, rxout)
    BY <1>11 DEF GetResponse, hardware, program, TypeOK, Calls
  <2>2. /\ Quiet /\ rx = << >> /\ call.op = "read" /\ Wanted /\ trouble = {}
        /\ rxout.data = regs[call.addr]
    BY <2>1 DEF AppInv
  <2>3. call'.answer.data = regs[call.addr]
    BY <2>1, <2>2 DEF Dout
  <2>4. call.data.field \in {0, 1}
    BY DEF TypeOK, Calls, Values
  <2> QED  BY <2>1, <2>2, <2>3, <2>4 DEF AppInv, AppClient, Wanted, Quiet
<1>12. ASSUME SendTimeout \/ WaitTimeout
       PROVE  AppInv'
  BY <1>12 DEF SendTimeout, WaitTimeout
\* The sequencer only moves while a read is waited for or a write is slept for.
<1>13. ASSUME ~Quiet
       PROVE  \/ pc = "wait" /\ Reading /\ call.op = "read" /\ Wanted /\ trouble = {}
              \/ /\ pc = "client" /\ seqctl = "sleep" /\ rx = << >> /\ trouble = {}
                 /\ \E w \in Words : w.op = "write" /\ Writing(w)
  BY <1>13 DEF AppInv, AppClient, TypeOK
<1>14. ASSUME Sequencer
       PROVE  ~Quiet /\ UNCHANGED <<call, pc, seqctl, asked>>
  BY <1>14 DEF Sequencer, Fetch, Shift, Finish, Quiet, driver
<1>15. ASSUME Sequencer, pc = "wait"
       PROVE  AppInv'
  <2>1. Reading /\ call.op = "read" /\ Wanted /\ trouble = {}
    BY <1>13, <1>14, <1>15
  <2>2. Request' = Request
    BY <1>14, <1>15 DEF Request
  <2>3. Reading' /\ trouble' = {} /\ regs' = regs
    <3>1. CASE Fetch
      <4>1. tx = <<Request>> /\ rx = << >> /\ UNCHANGED <<rx, regs, trouble>>
        BY <2>1, <3>1 DEF Fetch, Reading, Quiet, driver
      <4>2. tx' = << >> /\ cmd' = Request
        BY <3>1, <4>1 DEF Fetch, Dout
      <4>3. spi' = "shift"
        BY <3>1, <4>2 DEF Fetch, Request
      <4> QED  BY <2>1, <2>2, <4>1, <4>2, <4>3 DEF Reading
    <3>2. CASE Shift
      <4>1. tx = << >> /\ rx = << >> /\ cmd = Request
        BY <2>1, <3>2 DEF Shift, Reading, Quiet
      <4>2. cmd.op # "write" /\ cmd.addr = call.addr
        BY <4>1 DEF Request
      <4>3. cmd' = [Request EXCEPT !.data = regs[call.addr]] /\ spi' = "off"
            /\ UNCHANGED <<tx, rx, regs, trouble>>
        BY <3>2, <4>1, <4>2 DEF Shift
      <4> QED  BY <1>14, <1>15, <2>1, <2>2, <4>1, <4>3 DEF Reading
    <3>3. CASE Finish
      <4>1. tx = << >> /\ rx = << >> /\ cmd = [Request EXCEPT !.data = regs[call.addr]]
        BY <2>1, <3>3 DEF Finish, Reading, Quiet
      <4>2. cmd.op = "read" /\ cmd.addr = call.addr /\ cmd.data = regs[call.addr]
        BY <4>1 DEF Request
      <4>3. Len(rx) < RxDepth /\ Len(rx) # RxDepth
        BY <4>1, VitaAssumption
      <4>4. rx' = <<[addr |-> cmd.addr, data |-> cmd.data]>> /\ spi' = "idle"
            /\ UNCHANGED <<tx, regs, trouble>>
        BY <3>3, <4>1, <4>2, <4>3 DEF Finish
      <4> QED  BY <1>14, <1>15, <2>1, <4>1, <4>2, <4>4 DEF Reading, Quiet
    <3> QED  BY <1>15, <3>1, <3>2, <3>3 DEF Sequencer
  <2>4. Wanted'
    BY <1>14, <1>15, <2>1, <2>3 DEF Wanted
  <2> QED  BY <1>14, <1>15, <2>1, <2>3, <2>4 DEF AppInv
<1>16. ASSUME Sequencer, pc = "client"
       PROVE  AppInv'
  <2>1. /\ seqctl = "sleep" /\ rx = << >> /\ trouble = {}
        /\ \E w \in Words : w.op = "write" /\ Writing(w)
    BY <1>13, <1>14, <1>16
  <2>2. PICK w \in Words : w.op = "write" /\ Writing(w)
    BY <2>1
  <2>3. Writing(w)' /\ rx' = << >> /\ trouble' = {}
    <3>1. CASE Fetch
      <4>1. tx = <<w>> /\ asked = [regs EXCEPT ![w.addr] = w.data]
            /\ UNCHANGED <<rx, regs, asked, trouble>>
        BY <2>2, <3>1 DEF Fetch, Writing, Quiet, driver
      <4>2. tx' = << >> /\ cmd' = w
        BY <3>1, <4>1 DEF Fetch, Dout
      <4>3. spi' = "shift"
        BY <3>1, <2>2, <4>2 DEF Fetch
      <4> QED  BY <2>1, <4>1, <4>2, <4>3 DEF Writing
    <3>2. CASE Shift
      <4>1. tx = << >> /\ cmd = w /\ asked = [regs EXCEPT ![w.addr] = w.data]
        BY <2>2, <3>2 DEF Shift, Writing, Quiet
      <4>2. /\ regs' = [regs EXCEPT ![w.addr] = w.data] /\ cmd' = w /\ spi' = "off"
            /\ UNCHANGED <<tx, rx, asked, trouble>>
        BY <3>2, <2>2, <4>1 DEF Shift, driver
      <4> QED  BY <2>1, <2>2, <4>1, <4>2 DEF Writing
    <3>3. CASE Finish
      <4>1. tx = << >> /\ cmd.op = "write" /\ asked = regs
        BY <2>2, <3>3 DEF Finish, Writing, Quiet
      <4>2. spi' = "idle" /\ UNCHANGED <<tx, rx, regs, asked, trouble>>
        BY <3>3, <4>1 DEF Finish, driver
      <4> QED  BY <2>1, <4>1, <4>2 DEF Writing, Quiet
    <3> QED  BY <1>16, <3>1, <3>2, <3>3 DEF Sequencer
  <2> QED  BY <1>14, <1>16, <2>1, <2>2, <2>3 DEF AppInv, AppClient
<1>17. CASE UNCHANGED vars
  BY <1>17 DEF vars, AppInv, AppClient, Reading, Request, Wanted, Writing, Quiet
<1>18. ASSUME Pause
       PROVE  FALSE
  BY <1>18 DEF Pause
<1>19. ASSUME Client
       PROVE  AppInv'
  BY <1>19, <1>2, <1>3, <1>4, <1>5, <1>6, <1>18 DEF Client
<1>20. ASSUME DriverStep
       PROVE  AppInv'
  BY <1>20, <1>7, <1>8, <1>9, <1>10, <1>11, <1>12 DEF DriverStep
<1>21. ASSUME Sequencer
       PROVE  AppInv'
  <2>1. pc = "wait" \/ pc = "client"
    BY <1>13, <1>14, <1>21
  <2> QED  BY <1>15, <1>16, <1>21, <2>1
<1> QED  BY <1>17, <1>19, <1>20, <1>21 DEF Next

\* The sequences of the application bring the bridge into no trouble, and leave in
\* the sensor what they ask for, whatever the registers and the values.
THEOREM AppInTune == Spec => []AppConsistent
<1>1. AppInv => AppKeepsApart /\ AppRegisters
  BY DEF AppInv, AppClient, AppKeepsApart, AppRegisters
<1> QED  BY <1>1, TypeInit, TypeStep, AppInit, AppStep, PTL DEF Spec, AppConsistent
=============================================================================
