--------------------------- MODULE MCDispatchOnce ---------------------------
(* DispatchOnce for TLC.                                                   *)
EXTENDS DispatchOnce

=============================================================================
