------------------------------ MODULE MCPcieFeed ------------------------------
(* TLC instances of PcieFeed. *)
EXTENDS PcieFeed

\* A file kept whole in memory, with a last chunk that is short, and one for the ring
\* that is longer than the largest int.
WholeAndRing == {5, 15}

\* Seeks off a chunk boundary and to the end of either file; not to offset 0, for
\* which pcie_read does not seek.
SeeksInside == {3, 5, 15}
=============================================================================
