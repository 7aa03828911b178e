------------------------------ MODULE MCPcieSink ------------------------------
(* TLC instances of PcieSink. *)
EXTENDS PcieSink

\* Samples of a third, two thirds and the whole of the buffer.
Sizes == {1, 2, 3}
=============================================================================
