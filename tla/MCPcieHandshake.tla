--------------------------- MODULE MCPcieHandshake ---------------------------
(* TLC instances of PcieHandshake. *)
EXTENDS PcieHandshake

\* Everything a call can report as an error; without "short", the short write that
\* the host does not notice.
ReportedFaults == {"oom", "io", "ioctl"}
=============================================================================
