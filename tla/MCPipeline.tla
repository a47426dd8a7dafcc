----------------------------- MODULE MCPipeline -----------------------------
(* A small instance of Pipeline for TLC. *)
EXTENDS Pipeline
MCPrinted == <<"b", "a", "\n", "b">>
MCKeys == {"a", NEW_LINE_CHAR, BACKSPACE_KEY, TABULATOR_KEY, CTRL_D}
=============================================================================
