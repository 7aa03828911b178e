----------------------------- MODULE PcieChannel -----------------------------
(***************************************************************************)
(* What the register handshake between host and endpoint promises to the   *)
(* two programs, one channel at a time: a call on the device names a       *)
(* buffer, the host moves that buffer exactly once, and only then does the *)
(* call return.  A closed channel has no call outstanding and never gets   *)
(* another one.                                                            *)
(***************************************************************************)
EXTENDS Naturals, Sequences

CONSTANT Chan

VARIABLES
  issued,     \* calls made on the device
  moved,      \* the buffers the host moved, in order
  accepted,   \* calls that have returned
  closed      \* the end of the transfer has been announced

vars == <<issued, moved, accepted, closed>>

Init ==
  /\ issued   = [c \in Chan |-> 0]
  /\ moved    = [c \in Chan |-> << >>]
  /\ accepted = [c \in Chan |-> 0]
  /\ closed   = [c \in Chan |-> FALSE]

Call(c) ==
  /\ ~closed[c]
  /\ issued[c] = accepted[c]
  /\ issued' = [issued EXCEPT ![c] = @ + 1]
  /\ UNCHANGED <<moved, accepted, closed>>

Move(c) ==
  /\ Len(moved[c]) < issued[c]
  /\ moved' = [moved EXCEPT ![c] = Append(@, issued[c])]
  /\ UNCHANGED <<issued, accepted, closed>>

Return(c) ==
  /\ accepted[c] < Len(moved[c])
  /\ accepted' = [accepted EXCEPT ![c] = @ + 1]
  /\ UNCHANGED <<issued, moved, closed>>

Close(c) ==
  /\ issued[c] = accepted[c]
  /\ closed' = [closed EXCEPT ![c] = TRUE]
  /\ UNCHANGED <<issued, moved, accepted>>

Next == \E c \in Chan : Call(c) \/ Move(c) \/ Return(c) \/ Close(c)

Spec == Init /\ [][Next]_vars
=============================================================================
