--------------------------- MODULE MCServerProcess ---------------------------
(* Two processes of which one may start again, one job and one probe.       *)
EXTENDS ServerProcess
=============================================================================
