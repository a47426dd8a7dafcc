--------------------------- MODULE MCProcessTable ---------------------------
(* A small instance of ProcessTable for TLC. *)
EXTENDS ProcessTable
CONSTANTS idle, init, p1, p2, p3
MCPcb == {idle, init, p1, p2, p3}
=============================================================================
