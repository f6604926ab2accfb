------------------------- MODULE MCBreakpointEngine -------------------------
(* Two threads that run over one address, and no native call fails. *)
EXTENDS BreakpointEngine

CONSTANTS t1, t2, a1
=============================================================================
