----------------------------- MODULE MCGCDTimer -----------------------------
(* GCDTimer for TLC.                                                       *)
EXTENDS GCDTimer

(* Handlers beside the calls cost more than handlers between them. *)
Bounds == [main |-> 3, global |-> 2]

=============================================================================
