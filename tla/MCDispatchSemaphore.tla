------------------------- MODULE MCDispatchSemaphore -------------------------
(* DispatchSemaphore for TLC.                                              *)
EXTENDS DispatchSemaphore

=============================================================================
