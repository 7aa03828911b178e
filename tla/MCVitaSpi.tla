------------------------------- MODULE MCVitaSpi -------------------------------
(* Two registers, of which one is reset to a value with its rest set. *)
EXTENDS VitaSpi

Registers == {"r1", "r2"}
AfterReset == [a \in Registers |-> IF a = "r1" THEN [field |-> 0, rest |-> 1] ELSE Zero]
TwoValues == {[field |-> 1, rest |-> 1], [field |-> 1, rest |-> 0]}
=============================================================================
