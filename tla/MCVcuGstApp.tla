----------------------------- MODULE MCVcuGstApp -----------------------------
(* TLC instances of VcuGstApp. *)
EXTENDS VcuGstApp

Config(n, src, sink, loop_) == [n |-> n, src |-> src, sink |-> sink, loop |-> loop_]

\* Two sources where they can come to their ends apart, two rounds where there
\* is loop playback; the last configuration is refused.
AllConfigs ==
  {Config(2, "live", "record", FALSE), Config(1, "live", "record", TRUE),
   Config(2, "streaming", "display", FALSE), Config(1, "streaming", "display", TRUE),
   Config(1, "file", "display", TRUE), Config(2, "live", "display", TRUE),
   Config(1, "streaming", "record", FALSE)}

RecordLoop == {Config(1, "live", "record", TRUE)}
=============================================================================
