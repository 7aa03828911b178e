------------------------- MODULE PcieHandshakeProofs -------------------------
(***************************************************************************)
(* Proofs about PcieHandshake, for any number of buffers, any speed of the *)
(* two sides, and every fault but the short write, under which the claims  *)
(* are false (run handshake_short).                                        *)
(***************************************************************************)
EXTENDS PcieHandshake, TLAPS

\* What the registers, the endpoint and one host thread know of each other.
\* The heart is that READY belongs to a buffer that is not yet accepted, and
\* that between an acceptance and the next publication nothing can revive the
\* old READY in a thread's local copy: lready is high only while ready is.
ChanInv(c) ==
  /\ accepted[c] <= Len(moved[c])
  /\ Len(moved[c]) <= slot[c]
  /\ slot[c] = IF ready[c] THEN accepted[c] + 1 ELSE accepted[c]
  /\ \A i \in 1 .. Len(moved[c]) : moved[c][i] = i
  /\ irq[c] => pc[c] = "drain" /\ ready[c] /\ Len(moved[c]) = slot[c]
  /\ pc[c] = "done" => ready[c] /\ Len(moved[c]) = slot[c]
  /\ pc[c] \in {"fetch", "in", "out"} => ready[c]
  /\ pc[c] \in {"in", "out", "done"} => lslot[c] = slot[c]
  /\ pc[c] # "done" /\ ~irq[c] => Len(moved[c]) = accepted[c]
  /\ pc[c] \in {"pollc", "spinc"} /\ lready[c] => ready[c]
  /\ pc[c] = "exit" => complete[c]
  /\ complete[c] => ~ready[c]
  /\ c = "write" /\ pc[c] \in {"spin", "spinc", "fetch", "in", "out", "done"}
       => doneReg[c] = 0

\* The application announces COMPLETE only behind its last call, and test_dma
\* has passed a join only behind the end of that thread.
MainInv ==
  /\ app # "run" => ~ready["read"]
  /\ app \in {"stopped", "rcomplete", "closed"} => ~ready["write"]
  /\ complete["read"] => app \in {"rcomplete", "closed"}
  /\ complete["write"] => app = "closed"
  /\ main # "join1" => Ended("read")
  /\ main \in {"hostdone", "clear", "end"} => Ended("write")

IInv == TypeOK /\ (\A c \in Chan : ChanInv(c)) /\ MainInv

-----------------------------------------------------------------------------
\* Every variable keeps its type; no invariant is needed for that.
THEOREM TypeCorrect == Spec => []TypeOK
<1> USE HandshakeAssumption DEF TypeOK, Chan, HostPC, AppState, MainPC
<1>1. Init => TypeOK
  BY DEF Init
<1>2. TypeOK /\ [Next]_vars => TypeOK'
  <2> SUFFICES ASSUME TypeOK, [Next]_vars PROVE TypeOK'
    OBVIOUS
  <2> USE DEF regs, thread, Goto
  <2>1. ASSUME NEW c \in Chan, HostThread(c) PROVE TypeOK'
    <3>1. CASE Poll(c) \/ Spin(c) \/ Drain(c)
      BY <3>1 DEF Poll, Spin, Drain
    <3>2. CASE PollComplete(c) \/ SpinComplete(c)
      BY <3>2 DEF PollComplete, SpinComplete
    <3>3. CASE Fetch(c) \/ ReadToBuffer(c)
      BY <3>3 DEF Fetch, ReadToBuffer
    <3>4. CASE WriteFromBuffer(c)
      <4>1. Append(moved[c], lslot[c]) \in Seq(Nat)
        OBVIOUS
      <4>2. moved' \in [Chan -> Seq(Nat)]
        <5>1. moved' = [moved EXCEPT ![c] = Append(moved[c], lslot[c])] \/ moved' = moved
          BY <3>4 DEF WriteFromBuffer
        <5> QED BY <4>1, <5>1
      <4>3. pc' \in [Chan -> HostPC]
        BY <3>4 DEF WriteFromBuffer
      <4>4. UNCHANGED <<regs, lready, lcomp, lslot, accepted, app, main>>
        BY <3>4 DEF WriteFromBuffer
      <4> QED
        BY <4>2, <4>3, <4>4
    <3>5. CASE SetDone(c)
      BY <3>5 DEF SetDone
    <3> QED
      BY <2>1, <3>1, <3>2, <3>3, <3>4, <3>5 DEF HostThread
  <2>2. ASSUME NEW c \in Chan, Endpoint(c) PROVE TypeOK'
    <3>1. CASE Publish(c)
      BY <3>1 DEF Publish
    <3>2. CASE Accept(c)
      BY <3>2 DEF Accept
    <3> QED
      BY <2>2, <3>1, <3>2 DEF Endpoint
  <2>3. ASSUME NEW c \in Chan, SetComplete(c) PROVE TypeOK'
    BY <2>3 DEF SetComplete
  <2>4. CASE Join \/ Finish
    BY <2>4 DEF Join, Finish
  <2>5. CASE LoopQuit \/ PipelineNull
    BY <2>5 DEF LoopQuit, PipelineNull
  <2>6. CASE UNCHANGED vars
    BY <2>6 DEF vars
  <2> QED
    BY <2>1, <2>2, <2>3, <2>4, <2>5, <2>6 DEF Next
<1> QED
  BY <1>1, <1>2, PTL DEF Spec

-----------------------------------------------------------------------------
\* A channel whose registers, thread and calls a step leaves alone keeps ChanInv.
LEMMA ChanFrame ==
  ASSUME NEW c \in Chan, ChanInv(c),
         ready'[c] = ready[c], slot'[c] = slot[c], complete'[c] = complete[c],
         doneReg'[c] = doneReg[c], irq'[c] = irq[c], pc'[c] = pc[c],
         lready'[c] = lready[c], lslot'[c] = lslot[c], moved'[c] = moved[c],
         accepted'[c] = accepted[c]
  PROVE  ChanInv(c)'
BY DEF ChanInv

\* Appending the next serial number to a log that counts from one keeps it so.
LEMMA AppendInOrder ==
  ASSUME NEW s \in Seq(Nat), \A i \in 1 .. Len(s) : s[i] = i,
         NEW n \in Nat, n = Len(s) + 1
  PROVE  /\ Len(Append(s, n)) = n
         /\ \A i \in 1 .. n : Append(s, n)[i] = i
OBVIOUS

\* A step of a host thread keeps the invariant of its channel.
LEMMA HostStep ==
  ASSUME HandshakeAssumption, "short" \notin Faults,
         TypeOK, NEW c \in Chan, ChanInv(c), HostThread(c)
  PROVE  ChanInv(c)'
<1> USE DEF TypeOK, HostPC, regs, thread, Goto
<1>1. CASE Poll(c)
  BY <1>1 DEF Poll, ChanInv, Chan
<1>2. CASE PollComplete(c)
  BY <1>2 DEF PollComplete, ChanInv, Chan
<1>3. CASE Spin(c)
  BY <1>3 DEF Spin, ChanInv, Chan
<1>4. CASE SpinComplete(c)
  BY <1>4 DEF SpinComplete, ChanInv, Chan
<1>5. CASE Fetch(c)
  BY <1>5 DEF Fetch, ChanInv, Chan
<1>6. CASE ReadToBuffer(c)
  BY <1>6 DEF ReadToBuffer, ChanInv, Chan
<1>7. CASE WriteFromBuffer(c)
  <2>1. CASE pc'[c] = "dead"
    BY <1>7, <2>1 DEF WriteFromBuffer, ChanInv, Chan
  <2>2. CASE pc'[c] = "done"
    <3>1. moved'[c] = Append(moved[c], lslot[c])
      BY <1>7, <2>2 DEF WriteFromBuffer
    <3>2. lslot[c] = Len(moved[c]) + 1 /\ lslot[c] = slot[c] /\ ready[c] /\ ~irq[c]
      BY <1>7 DEF WriteFromBuffer, ChanInv, Chan
    <3>3. Len(moved'[c]) = lslot[c] /\ \A i \in 1 .. lslot[c] : moved'[c][i] = i
      BY <3>1, <3>2, AppendInOrder DEF ChanInv
    <3> QED
      BY <1>7, <2>2, <3>2, <3>3 DEF WriteFromBuffer, ChanInv, Chan
  <2> QED
    BY <1>7, <2>1, <2>2 DEF WriteFromBuffer
<1>8. CASE SetDone(c)
  BY <1>8 DEF SetDone, ChanInv, Chan
<1>9. CASE Drain(c)
  BY <1>9 DEF Drain, ChanInv, Chan
<1> QED
  BY <1>1, <1>2, <1>3, <1>4, <1>5, <1>6, <1>7, <1>8, <1>9 DEF HostThread

\* A step of a host thread leaves the other channel alone.
LEMMA HostStepOther ==
  ASSUME TypeOK, NEW c \in Chan, NEW d \in Chan, d # c,
         ChanInv(d), HostThread(c)
  PROVE  ChanInv(d)'
<1> USE DEF TypeOK, regs, thread, Goto
<1>1. /\ ready'[d] = ready[d] /\ slot'[d] = slot[d] /\ complete'[d] = complete[d]
      /\ accepted'[d] = accepted[d]
  BY DEF HostThread, Poll, PollComplete, Spin, SpinComplete, Fetch,
         ReadToBuffer, WriteFromBuffer, SetDone, Drain
<1>2. doneReg'[d] = doneReg[d] /\ irq'[d] = irq[d]
  BY DEF HostThread, Poll, PollComplete, Spin, SpinComplete, Fetch,
         ReadToBuffer, WriteFromBuffer, SetDone, Drain
<1>3. pc'[d] = pc[d] /\ lready'[d] = lready[d]
  BY DEF HostThread, Poll, PollComplete, Spin, SpinComplete, Fetch,
         ReadToBuffer, WriteFromBuffer, SetDone, Drain
<1>4. lslot'[d] = lslot[d] /\ moved'[d] = moved[d]
  BY DEF HostThread, Poll, PollComplete, Spin, SpinComplete, Fetch,
         ReadToBuffer, WriteFromBuffer, SetDone, Drain
<1> QED
  BY <1>1, <1>2, <1>3, <1>4, ChanFrame

\* The endpoint's steps keep the invariant of the channel they work on.
LEMMA EndpointStep ==
  ASSUME TypeOK, NEW c \in Chan, ChanInv(c), MainInv, Endpoint(c)
  PROVE  ChanInv(c)'
<1> USE DEF TypeOK, HostPC, AppState, regs, thread
<1>1. CASE Publish(c)
  BY <1>1 DEF Publish, Blocked, MayCall, ChanInv, MainInv, Chan
<1>2. CASE Accept(c)
  BY <1>2 DEF Accept, ChanInv, Chan
<1> QED
  BY <1>1, <1>2 DEF Endpoint

\* IInv is inductive.
LEMMA Inductive ==
  ASSUME HandshakeAssumption, "short" \notin Faults,
         IInv, [Next]_vars, TypeOK'
  PROVE  IInv'
<1> USE DEF IInv
<1>1. ASSUME NEW c \in Chan, HostThread(c) PROVE IInv'
  <2>1. \A d \in Chan : ChanInv(d)'
    BY <1>1, HostStep, HostStepOther
  <2>2. app' = app /\ main' = main /\ ready' = ready /\ complete' = complete
    BY <1>1 DEF HostThread, Poll, PollComplete, Spin, SpinComplete, Fetch,
         ReadToBuffer, WriteFromBuffer, SetDone, Drain, regs, thread
  <2>3. \A d \in Chan : Ended(d) => Ended(d)'
    BY ZenonT(40), <1>1 DEF HostThread, Poll, PollComplete, Spin, SpinComplete, Fetch, Goto, TypeOK,
         ReadToBuffer, WriteFromBuffer, SetDone, Drain, regs, thread, Ended
  <2> QED
    BY <2>1, <2>2, <2>3 DEF MainInv, Chan
<1>2. ASSUME NEW c \in Chan, Endpoint(c) PROVE IInv'
  <2>1. ASSUME NEW d \in Chan, d # c PROVE ChanInv(d)'
    BY <1>2, <2>1, ChanFrame DEF Endpoint, Publish, Accept, thread, TypeOK
  <2>2. \A d \in Chan : ChanInv(d)'
    BY <1>2, <2>1, EndpointStep
  <2>3. MainInv'
    BY <1>2 DEF Endpoint, Publish, Accept, MayCall, thread, TypeOK, MainInv, Ended, Chan, AppState
  <2> QED
    BY <2>2, <2>3
<1>3. ASSUME NEW c \in Chan, SetComplete(c) PROVE IInv'
  <2>1. ~ready[c]
    BY <1>3 DEF SetComplete, MainInv
  <2>2. ASSUME NEW d \in Chan PROVE ChanInv(d)'
    BY <1>3, <2>1 DEF SetComplete, ChanInv, thread, TypeOK
  <2>3. MainInv'
    BY <1>3 DEF SetComplete, MainInv, Ended, thread, TypeOK, Chan
  <2> QED
    BY <2>2, <2>3
<1>4. CASE Join \/ Finish
  <2>1. \A d \in Chan : ChanInv(d)'
    BY <1>4, ChanFrame DEF Join, Finish, regs, thread
  <2>2. MainInv'
    BY <1>4 DEF Join, Finish, regs, thread, MainInv, Ended, TypeOK, MainPC
  <2> QED
    BY <2>1, <2>2
<1>5. CASE LoopQuit \/ PipelineNull
  <2>1. \A d \in Chan : ChanInv(d)'
    BY <1>5, ChanFrame DEF LoopQuit, PipelineNull, regs, thread
  <2>2. \A d \in Chan : ~Blocked(d) => ~ready[d]
    BY DEF Blocked, ChanInv, TypeOK
  <2>3. MainInv'
    BY <1>5, <2>2 DEF LoopQuit, PipelineNull, regs, thread, MainInv, Ended, Chan
  <2> QED
    BY <2>1, <2>3
<1>6. CASE UNCHANGED vars
  <2>1. \A d \in Chan : ChanInv(d)'
    BY <1>6, ChanFrame DEF vars, regs, thread
  <2> QED
    BY <1>6, <2>1 DEF vars, regs, thread, MainInv, Ended
<1> QED
  BY <1>1, <1>2, <1>3, <1>4, <1>5, <1>6 DEF Next

\* The inductive invariant holds in every reachable state, unless write_from_buffer
\* may be short.
THEOREM InvariantHolds ==
  ASSUME "short" \notin Faults
  PROVE  Spec => []IInv
<1>1. Init => IInv
  BY HandshakeAssumption DEF Init, IInv, TypeOK, ChanInv, MainInv, Ended, Chan,
     HostPC, AppState, MainPC
<1>2. IInv /\ [Next]_vars /\ TypeOK' => IInv'
  BY HandshakeAssumption, Inductive
<1> QED
  BY <1>1, <1>2, TypeCorrect, PTL DEF Spec

-----------------------------------------------------------------------------
\* The host moves the published buffers in order, each exactly once, however its
\* polls interleave with the endpoint.
THEOREM MovesInOrder ==
  ASSUME "short" \notin Faults
  PROVE  Spec => []MovedInOrder
<1>1. IInv => MovedInOrder
  BY DEF IInv, ChanInv, MovedInOrder
<1> QED
  BY <1>1, InvariantHolds, PTL

\* A call on the device returns only after the host has moved its buffer.
THEOREM AcceptsMoved ==
  ASSUME "short" \notin Faults
  PROVE  Spec => []AcceptedWasMoved
<1>1. IInv => AcceptedWasMoved
  BY DEF IInv, ChanInv, AcceptedWasMoved
<1> QED
  BY <1>1, InvariantHolds, PTL

\* A thread that leaves through COMPLETE leaves no published buffer behind, and
\* HOST_DONE comes after everything a sound thread had to deliver.
THEOREM ExitsClean ==
  ASSUME "short" \notin Faults
  PROVE  Spec => []ExitIsClean
<1>1. IInv => ExitLosesNothing
  BY DEF IInv, ChanInv, ExitLosesNothing, TypeOK
<1>2. IInv => HostDoneIsFinal
  BY DEF IInv, ChanInv, MainInv, HostDoneIsFinal, TypeOK, Ended, Chan
<1>3. IInv => ExitIsClean
  BY <1>1, <1>2 DEF ExitIsClean
<1> QED
  BY <1>3, InvariantHolds, PTL

-----------------------------------------------------------------------------
\* Every step of the handshake is a step of PcieChannel or leaves it unchanged.
LEMMA StepRefines ==
  ASSUME "short" \notin Faults, IInv, [Next]_vars
  PROVE  [Promise!Next]_(Promise!vars)
<1> USE DEF IInv, Promise!vars, regs, thread
<1>1. ASSUME NEW c \in Chan, HostThread(c) PROVE [Promise!Next]_(Promise!vars)
  <2>1. CASE UNCHANGED moved
    BY <1>1, <2>1 DEF HostThread, Poll, PollComplete, Spin, SpinComplete, Fetch,
       ReadToBuffer, WriteFromBuffer, SetDone, Drain
  <2>2. CASE moved' # moved
    <3>1. WriteFromBuffer(c) /\ moved' = [moved EXCEPT ![c] = Append(@, lslot[c])]
      BY <1>1, <2>2 DEF HostThread, Poll, PollComplete, Spin, SpinComplete, Fetch,
         ReadToBuffer, WriteFromBuffer, SetDone, Drain
    <3>2. lslot[c] = slot[c] /\ Len(moved[c]) < slot[c]
      <4>1. pc[c] = "out" /\ ChanInv(c)
        BY <3>1 DEF WriteFromBuffer
      <4>2. lslot[c] = slot[c] /\ slot[c] = accepted[c] + 1 /\ Len(moved[c]) = accepted[c]
        BY <4>1 DEF ChanInv
      <4> QED
        BY <4>2 DEF TypeOK
    <3>3. Promise!Move(c)
      BY <3>1, <3>2 DEF Promise!Move, WriteFromBuffer
    <3> QED
      BY <3>3 DEF Promise!Next
  <2> QED
    BY <2>1, <2>2
<1>2. ASSUME NEW c \in Chan, Publish(c) PROVE [Promise!Next]_(Promise!vars)
  <2>1. ~complete[c] /\ slot[c] = accepted[c]
    <3>1. slot[c] = accepted[c]
      BY <1>2 DEF Publish, Blocked, ChanInv, TypeOK
    <3>2. ~complete[c]
      BY <1>2 DEF Publish, MayCall, MainInv, Chan
    <3> QED
      BY <3>1, <3>2
  <2>2. Promise!Call(c)
    BY <1>2, <2>1 DEF Promise!Call, Publish
  <2> QED
    BY <2>2 DEF Promise!Next
<1>3. ASSUME NEW c \in Chan, Accept(c) PROVE [Promise!Next]_(Promise!vars)
  <2>1. accepted[c] < Len(moved[c])
    BY <1>3 DEF Accept, ChanInv, TypeOK
  <2>2. Promise!Return(c)
    BY <1>3, <2>1 DEF Promise!Return, Accept
  <2> QED
    BY <2>2 DEF Promise!Next
<1>4. ASSUME NEW c \in Chan, SetComplete(c) PROVE [Promise!Next]_(Promise!vars)
  <2>1. CASE UNCHANGED complete
    BY <1>4, <2>1 DEF SetComplete
  <2>2. CASE complete' = [complete EXCEPT ![c] = TRUE]
    <3>1. slot[c] = accepted[c]
      BY <1>4 DEF SetComplete, MainInv, ChanInv
    <3>2. Promise!Close(c)
      BY <1>4, <2>2, <3>1 DEF Promise!Close, SetComplete
    <3> QED
      BY <3>2 DEF Promise!Next
  <2> QED
    BY <1>4, <2>1, <2>2 DEF SetComplete
<1>5. CASE Join \/ Finish \/ LoopQuit \/ PipelineNull \/ UNCHANGED vars
  BY <1>5 DEF Join, Finish, LoopQuit, PipelineNull, vars
<1> QED
  BY <1>1, <1>2, <1>3, <1>4, <1>5 DEF Next, Endpoint

\* The register handshake implements the exactly-once channel.
THEOREM HandshakeRefines ==
  ASSUME "short" \notin Faults
  PROVE  Spec => ImplementsPromise
<1>1. Init => Promise!Init
  BY DEF Init, Promise!Init
<1>2. IInv /\ [Next]_vars => [Promise!Next]_(Promise!vars)
  BY StepRefines
<1> QED
  BY <1>1, <1>2, InvariantHolds, PTL DEF Spec, ImplementsPromise, Promise!Spec

-----------------------------------------------------------------------------
\* COMPLETE is announced behind the last buffer of its channel and is final.
THEOREM CompletesLast ==
  ASSUME "short" \notin Faults
  PROVE  Spec => CompleteIsLast
<1>1. ASSUME IInv, Next, NEW c \in Chan
      PROVE  /\ complete'[c] # complete[c] => ~ready[c] /\ ~irq[c]
             /\ complete[c] => slot'[c] = slot[c] /\ complete'[c]
  <2> USE <1>1 DEF IInv, TypeOK, regs, thread
  <2>1. ASSUME NEW d \in Chan, HostThread(d) PROVE slot' = slot /\ complete' = complete
    BY <2>1 DEF HostThread, Poll, PollComplete, Spin, SpinComplete, Fetch,
       ReadToBuffer, WriteFromBuffer, SetDone, Drain
  <2>2. ASSUME NEW d \in Chan, Publish(d)
        PROVE  complete' = complete /\ (complete[c] => slot'[c] = slot[c])
    BY <2>2 DEF Publish, MayCall, MainInv, Chan
  <2>3. ASSUME NEW d \in Chan, Accept(d) PROVE slot' = slot /\ complete' = complete
    BY <2>3 DEF Accept
  <2>4. ASSUME NEW d \in Chan, SetComplete(d)
        PROVE  /\ slot' = slot
               /\ complete[c] => complete'[c]
               /\ complete'[c] # complete[c] => ~ready[c] /\ ~irq[c]
    BY <2>4 DEF SetComplete, MainInv, ChanInv
  <2>5. CASE Join \/ Finish \/ LoopQuit \/ PipelineNull
    BY <2>5 DEF Join, Finish, LoopQuit, PipelineNull
  <2> QED
    BY <2>1, <2>2, <2>3, <2>4, <2>5 DEF Next, Endpoint
<1>2. IInv /\ [Next]_vars =>
        [\A c \in Chan :
           /\ complete'[c] # complete[c] => ~ready[c] /\ ~irq[c]
           /\ complete[c] => slot'[c] = slot[c] /\ complete'[c]]_vars
  BY <1>1
<1> QED
  BY <1>2, InvariantHolds, PTL DEF Spec, CompleteIsLast
=============================================================================
