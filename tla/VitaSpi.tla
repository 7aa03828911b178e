-------------------------------- MODULE VitaSpi --------------------------------
(***************************************************************************)
(* The way of a register access from the driver of the image sensor        *)
(* (onsemi_python_sw.c) to the sensor: the registers of the SPI core, its  *)
(* two FIFOs and its sequencer (onsemi_vita_spi, hdl).                     *)
(*                                                                         *)
(* A FIFO is first-word-fall-through (afifo_32.vhd): dout shows the head   *)
(* before it is read, and behind the last word it keeps that word.  Both   *)
(* readers were written for a FIFO that answers behind the read: the       *)
(* sequencer pops a word and looks at dout three clocks later, the driver  *)
(* pops the response and reads dout with its next access.                  *)
(*                                                                         *)
(* One step is one access of the driver to the core, or one part of a      *)
(* transfer.  An idle sequencer takes four clocks from a word in the FIFO  *)
(* to DoSpiComm, and two requests of the driver, with a read of the status *)
(* between them, are further apart: hence Settled.  Bits 31 and 30, which  *)
(* make the sequencer wait for a trigger, are set by no caller and are     *)
(* left out; so is the reset bit.                                          *)
(***************************************************************************)
EXTENDS Naturals, Sequences

CONSTANTS
  Addrs,     \* sensor registers
  Clients,   \* who calls the driver: "app" or "free"
  Written,   \* values written to a whole register
  Reset,     \* the registers after the reset of the sensor
  TxDepth,   \* FIFO_WRITE_DEPTH of the two FIFOs
  RxDepth,
  MaxCalls   \* bound on the calls of the driver

\* A register has a field that a read-modify-write changes, and the rest.
Values    == [field : {0, 1}, rest : {0, 1}]
Zero      == [field |-> 0, rest |-> 0]

ASSUME VitaAssumption ==
  /\ Addrs # {} /\ Clients \subseteq {"app", "free"}
  /\ Written \subseteq Values /\ Reset \in [Addrs -> Values]
  /\ TxDepth \in Nat \ {0} /\ RxDepth \in Nat \ {0} /\ MaxCalls \in Nat

VARIABLES
  client,   \* the program above the driver
  call,     \* the call of the driver that is running, or has returned last
  pc,       \* where it is
  seqctl,   \* the next thing write_sequence does: "any", "write", "sleep"
  tx, rx,   \* words in the FIFOs
  txout,    \* dout of an empty TXFIFO: the word popped last
  rxout,
  spi,      \* the sequencer: "idle", "shift", "off"
  cmd,      \* the command it has started
  regs,     \* the registers of the sensor
  calls,    \* calls made
  sent,     \* history: the requests accepted by the driver; a nop asks for nothing
  done,     \* history: the commands seen by the sensor
  asked,    \* history: what the registers should be
  trouble   \* history: what went wrong

vars == <<client, call, pc, seqctl, tx, rx, txout, rxout, spi, cmd, regs, calls,
          sent, done, asked, trouble>>

Words     == [op : {"read", "write", "nop"}, addr : Addrs, data : Values]
Responses == [addr : Addrs, data : Values]
Nothing   == [op |-> "nop", addr |-> CHOOSE a \in Addrs : TRUE, data |-> Zero]
NoAnswer  == [addr |-> Nothing.addr, data |-> Zero]
Calls     == [op : {"read", "write", "nop"}, addr : Addrs, data : Values,
              ok : BOOLEAN, answer : Responses, quiet : BOOLEAN]

TypeOK ==
  /\ client \in Clients /\ call \in Calls
  /\ pc \in {"client", "drain", "send", "wait", "get"}
  /\ seqctl \in {"any", "write", "sleep"}
  /\ tx \in Seq(Words) /\ Len(tx) <= TxDepth
  /\ rx \in Seq(Responses) /\ Len(rx) <= RxDepth
  /\ txout \in Words /\ rxout \in Responses
  /\ spi \in {"idle", "shift", "off"} /\ cmd \in Words
  /\ regs \in [Addrs -> Values] /\ asked \in [Addrs -> Values]
  /\ calls \in 0 .. MaxCalls
  /\ sent \in Seq(Words) /\ done \in Seq(Words)
  /\ trouble \subseteq {"crowded", "gaveup", "dropped", "lost"}

Init ==
  /\ client \in Clients
  /\ call = [op |-> "nop", addr |-> Nothing.addr, data |-> Zero, ok |-> TRUE,
             answer |-> NoAnswer, quiet |-> TRUE]
  /\ pc = "client" /\ seqctl = "any"
  /\ tx = << >> /\ rx = << >> /\ txout = Nothing /\ rxout = NoAnswer
  /\ spi = "idle" /\ cmd = Nothing
  /\ regs = Reset /\ asked = Reset
  /\ calls = 0 /\ sent = << >> /\ done = << >> /\ trouble = {}

Dout(fifo, last) == IF fifo = << >> THEN last ELSE Head(fifo)
Quiet == tx = << >> /\ spi = "idle"

hardware == <<txout, spi, cmd, regs, done>>
program  == <<client, seqctl, calls, asked>>

-----------------------------------------------------------------------------
\* The callers.  The application writes by onsemi_vita_spi_write_sequence: a
\* whole register, or its field by read-modify-write, and a pause behind each.
\* A free client (onsemi_vita_sensor_1080P60, the console) may do anything.
Begin(op, a, v) ==
  /\ pc = "client" /\ calls < MaxCalls
  /\ calls' = calls + 1
  /\ pc' = IF op = "read" THEN "drain" ELSE "send"
  /\ call' = [op |-> op, addr |-> a, data |-> v, ok |-> FALSE,
              answer |-> NoAnswer, quiet |-> Quiet]
  /\ UNCHANGED <<client, tx, rx, rxout, hardware, sent, trouble>>

WriteWhole(a, v) ==
  /\ seqctl = "any" /\ Begin("write", a, v)
  /\ asked' = [asked EXCEPT ![a] = v]
  /\ seqctl' = IF client = "app" THEN "sleep" ELSE "any"

ReadField(a, bit) ==
  /\ seqctl = "any" /\ client = "app" /\ Begin("read", a, [Zero EXCEPT !.field = bit])
  /\ asked' = [asked EXCEPT ![a].field = bit]
  /\ seqctl' = "write"

\* Mutant of WriteField: the bits outside the mask are not kept.
WriteField_Unmasked ==
  /\ seqctl = "write"
  /\ Begin("write", call.addr, call.data)
  /\ seqctl' = "sleep" /\ UNCHANGED asked

\* The result of the read is not looked at, only *pData.
WriteField ==
  /\ seqctl = "write"
  /\ Begin("write", call.addr, [call.answer.data EXCEPT !.field = call.data.field])
  /\ seqctl' = "sleep" /\ UNCHANGED asked

\* usleep(100), far longer than a transfer at the speed of the application.
Sleep ==
  /\ pc = "client" /\ seqctl = "sleep" /\ Quiet
  /\ seqctl' = "any"
  /\ UNCHANGED <<client, call, pc, tx, rx, rxout, hardware, calls, sent, asked, trouble>>

Inspect(a) == seqctl = "any" /\ Begin("read", a, Zero) /\ UNCHANGED <<seqctl, asked>>
Pause      == seqctl = "any" /\ client = "free" /\ Begin("nop", Nothing.addr, Zero)
              /\ UNCHANGED <<seqctl, asked>>

Client ==
  \/ \E a \in Addrs, v \in Written : WriteWhole(a, v)
  \/ \E a \in Addrs, b \in {0, 1} : ReadField(a, b)
  \/ \E a \in Addrs : Inspect(a)
  \/ WriteField \/ Sleep \/ Pause

-----------------------------------------------------------------------------
\* A write of the TXFIFO register; a full FIFO ignores it.
Push(w) ==
  /\ sent' = IF w.op = "nop" THEN sent ELSE Append(sent, w)
  /\ IF Len(tx) < TxDepth
       THEN /\ tx' = Append(tx, w)
            /\ trouble' = IF tx = << >> THEN trouble ELSE trouble \cup {"crowded"}
       ELSE trouble' = trouble \cup {"dropped"} /\ UNCHANGED tx

Return(ok) == pc' = "client" /\ call' = [call EXCEPT !.ok = ok]

\* onsemi_vita_spi_write and onsemi_vita_spi_nop.  The loop that should wait for
\* room ends with its first round, whatever the status.
SpiWrite ==
  /\ pc = "send" /\ call.op # "read"
  /\ Push([op |-> call.op, addr |-> call.addr, data |-> call.data])
  /\ Return(TRUE)
  /\ UNCHANGED <<program, rx, rxout, hardware>>

\* Mutant of Drain: what is in the RXFIFO is left there.
Drain_None ==
  /\ pc = "drain"
  /\ pc' = "send" /\ UNCHANGED <<rx, rxout>>
  /\ UNCHANGED <<program, call, tx, hardware, sent, trouble>>

\* onsemi_vita_spi_read: pop what is in the RXFIFO, one word at a time.
Drain ==
  /\ pc = "drain"
  /\ \/ rx # << >> /\ rx' = Tail(rx) /\ rxout' = Head(rx) /\ UNCHANGED pc
     \/ rx = << >> /\ pc' = "send" /\ UNCHANGED <<rx, rxout>>
  /\ UNCHANGED <<program, call, tx, hardware, sent, trouble>>

Request == [op |-> "read", addr |-> call.addr, data |-> Zero]

SendRequest ==
  /\ pc = "send" /\ call.op = "read" /\ Len(tx) < TxDepth
  /\ Push(Request)
  /\ pc' = "wait"
  /\ UNCHANGED <<program, call, rx, rxout, hardware>>

\* Room is not waited for long enough; the request is sent nevertheless, and
\* *pData is not assigned.
SendTimeout ==
  /\ pc = "send" /\ call.op = "read" /\ client = "free" /\ Len(tx) = TxDepth
  /\ Push(Request)
  /\ Return(FALSE)
  /\ UNCHANGED <<program, rx, rxout, hardware>>

\* The response is not there in time: *pData is zero, as in call.answer.
WaitTimeout ==
  /\ pc = "wait" /\ client = "free" /\ rx = << >>
  /\ Return(FALSE)
  /\ trouble' = trouble \cup {"gaveup"}
  /\ UNCHANGED <<program, tx, rx, rxout, hardware, sent>>

PopResponse ==
  /\ pc = "wait" /\ rx # << >>
  /\ rx' = Tail(rx) /\ rxout' = Head(rx)
  /\ pc' = "get"
  /\ UNCHANGED <<program, call, tx, hardware, sent, trouble>>

GetResponse ==
  /\ pc = "get"
  /\ pc' = "client"
  /\ call' = [call EXCEPT !.ok = TRUE, !.answer = Dout(rx, rxout)]
  /\ UNCHANGED <<program, tx, rx, rxout, hardware, sent, trouble>>

-----------------------------------------------------------------------------
driver == <<client, call, pc, seqctl, calls, sent, asked>>

\* Mutant of Fetch: dout is not what the FIFO keeps behind its last word.
Fetch_Stale ==
  /\ spi = "idle" /\ tx # << >>
  /\ tx' = Tail(tx) /\ txout' = Head(tx)
  /\ cmd' = txout
  /\ spi' = IF cmd'.op = "nop" THEN "idle" ELSE "shift"
  /\ UNCHANGED <<driver, rx, rxout, regs, done, trouble>>

\* Mutant of Fetch: EMPTY is raised one word early.
Fetch_Early ==
  /\ spi = "idle" /\ Len(tx) > 1
  /\ tx' = Tail(tx) /\ txout' = Head(tx)
  /\ cmd' = Dout(tx', txout')
  /\ spi' = IF cmd'.op = "nop" THEN "idle" ELSE "shift"
  /\ UNCHANGED <<driver, rx, rxout, regs, done, trouble>>

\* Idle or Check_Fifo_Empty, to DoSpiComm: pop, and take what dout then shows.
Fetch ==
  /\ spi = "idle" /\ tx # << >>
  /\ tx' = Tail(tx) /\ txout' = Head(tx)
  /\ cmd' = Dout(tx', txout')
  /\ spi' = IF cmd'.op = "nop" THEN "idle" ELSE "shift"
  /\ UNCHANGED <<driver, rx, rxout, regs, done, trouble>>

\* The transfer, up to the point where the sensor acts on it.
Shift ==
  /\ spi = "shift"
  /\ spi' = "off"
  /\ done' = Append(done, cmd)
  /\ IF cmd.op = "write"
     THEN regs' = [regs EXCEPT ![cmd.addr] = cmd.data] /\ UNCHANGED cmd
     ELSE cmd' = [cmd EXCEPT !.data = regs[cmd.addr]] /\ UNCHANGED regs
  /\ UNCHANGED <<driver, tx, rx, txout, rxout, trouble>>

\* Mutant of Finish: SpiRw the wrong way round, writes are answered.
Finish_Swapped ==
  /\ spi = "off" /\ spi' = "idle"
  /\ \/ cmd.op = "read" /\ UNCHANGED <<rx, trouble>>
     \/ /\ cmd.op = "write" /\ Len(rx) < RxDepth
        /\ rx' = Append(rx, [addr |-> cmd.addr, data |-> cmd.data])
        /\ UNCHANGED trouble
     \/ /\ cmd.op = "write" /\ Len(rx) = RxDepth
        /\ trouble' = trouble \cup {"lost"} /\ UNCHANGED rx
  /\ UNCHANGED <<driver, tx, txout, rxout, cmd, regs, done>>

\* Wait_spi_comm_busy_off: answer a read; a full RXFIFO drops the answer.
Finish ==
  /\ spi = "off" /\ spi' = "idle"
  /\ \/ cmd.op = "write" /\ UNCHANGED <<rx, trouble>>
     \/ /\ cmd.op = "read" /\ Len(rx) < RxDepth
        /\ rx' = Append(rx, [addr |-> cmd.addr, data |-> cmd.data])
        /\ UNCHANGED trouble
     \/ /\ cmd.op = "read" /\ Len(rx) = RxDepth
        /\ trouble' = trouble \cup {"lost"} /\ UNCHANGED rx
  /\ UNCHANGED <<driver, tx, txout, rxout, cmd, regs, done>>

DriverStep == SpiWrite \/ Drain \/ SendRequest \/ SendTimeout \/ WaitTimeout
              \/ PopResponse \/ GetResponse
Sequencer  == Fetch \/ Shift \/ Finish

\* An idle sequencer has taken what there is before the next access.
Settled == spi = "idle" => tx = << >>

Next ==
  \/ Settled /\ (Client \/ DriverStep)
  \/ Sequencer
Spec == Init /\ [][Next]_vars

\* The processor runs on and the core is clocked.
FairSpec == Spec /\ WF_vars(Settled /\ DriverStep) /\ WF_vars(Sequencer)

-----------------------------------------------------------------------------
\* As long as no request is sent while another one waits in the FIFO, the sensor
\* sees every request once, unchanged and in order, although the sequencer looks
\* at dout behind the read (spi_seq.vhd, Read_En_Active to DoSpiComm).
InOrder ==
  trouble \cap {"crowded", "dropped"} = {} =>
    LET shifting == IF spi = "shift" THEN <<cmd>> ELSE << >>
        waiting  == IF tx = << >> \/ Head(tx).op = "nop" THEN << >> ELSE tx
    IN  sent = done \o shifting \o waiting

\* A read that succeeds returns the register it asked for: after calls that
\* went well, and, whatever has gone wrong before, if it starts when the bridge
\* is at rest (onsemi_vita_spi_read empties the RXFIFO for that).
RightAnswer ==
  (/\ pc = "client" /\ call.op = "read" /\ call.ok
   /\ call.quiet \/ trouble \cap {"crowded", "gaveup"} = {})
  => call.answer.addr = call.addr

\* The sequences of the application never bring the bridge into trouble: the
\* pause of write_sequence and the wait for an answer keep requests apart.
AppKeepsApart == client = "app" => trouble = {}

\* At the end of every entry of a sequence the sensor holds what was asked for:
\* a read-modify-write keeps the bits outside its mask.
AppRegisters ==
  client = "app" /\ pc = "client" /\ seqctl = "any" /\ Quiet => regs = asked

\* The types, and what the sequences of the application can rely on.
AppConsistent == TypeOK /\ AppKeepsApart /\ AppRegisters

\* Every call of the driver returns: the drain loop ends, the waits time out.
CallsReturn == (pc # "client") ~> (pc = "client")

\* What the application sends reaches the sensor.
SentIsDone ==
  \A k \in 1 .. MaxCalls : (client = "app" /\ Len(sent) = k) ~> (Len(done) >= k)

\* "This function performs an SPI write transaction.", and "If successfull,
\* returns 1." (onsemi_python_sw.c:804, :810), which it always does: every
\* request that found room in the FIFO has been performed when the bridge rests.
WritesPerformed ==
  Quiet /\ pc = "client" /\ "dropped" \notin trouble => done = sent
=============================================================================
