----------------------------- MODULE MCSensorAlign -----------------------------
(* Two lines of twelve taps: a clean one after one whose eye is a tap too      *)
(* narrow for the way back, and before one that begins on an edge and has the  *)
(* next out of reach; CLKDIV stops while a line without an edge in reach and a *)
(* dead one are trained.                                                       *)
EXTENDS SensorAlign, TLC

Wire(phase, edges) == [live |-> TRUE, phase |-> phase, edges |-> edges]

Clean  == Wire(3, {1, 10})
Narrow == Wire(1, {2, 10})
Late   == Wire(4, {0, 4})
Flat   == Wire(2, {})
Dead   == [live |-> FALSE, phase |-> 0, edges |-> {}]

MCWirings == {0 :> Narrow @@ 1 :> Clean, 0 :> Clean @@ 1 :> Late, 0 :> Dead @@ 1 :> Flat}

MCMaxStops == [w \in MCWirings |-> IF w[0] = Dead THEN 1 ELSE 0]
===============================================================================
