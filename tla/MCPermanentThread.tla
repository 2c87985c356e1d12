------------------------- MODULE MCPermanentThread -------------------------
(* PermanentThread for TLC.                                                *)
EXTENDS PermanentThread

=============================================================================
