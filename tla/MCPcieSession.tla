---------------------------- MODULE MCPcieSession ----------------------------
(* TLC instances of PcieSession. *)
EXTENDS PcieSession

\* The ends of each range, their neighbours, and what is no number; 131073 is 1
\* in an int of 17 bits; gop_len 1000 is documented but refused.
Ends(o) ==
  CASE o = "bitrate"  -> {0, 1, 60000, 60001, 131073}
    [] o = "gop_len"  -> {0, 1, 999, 1000, 1001}
    [] o = "b_frame"  -> {0, 4, 5}
    [] o = "slice"    -> {3, 4, 22, 23}
    [] o = "qp_mode"  -> {0, 1, 2}
    [] o = "rc_mode"  -> {0, 1, 2, 3}
    [] o = "gop_mode" -> {0, 2, 3, 4, 5}
    [] OTHER          -> {0, 1, 2}

EndValues(o) == Ends(o) \cup {NoNumber}

AllOptions  == Params

\* Two lengths, one and a length beyond an unsigned int of 17 bits (0 and 5 are
\* left of them), and an lseek that fails.
LseekResults == {5, 9, 131072, 131077, -1}
=============================================================================
