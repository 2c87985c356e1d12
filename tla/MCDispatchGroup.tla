--------------------------- MODULE MCDispatchGroup ---------------------------
(* DispatchGroup for TLC.                                                  *)
EXTENDS DispatchGroup, TLC

Symmetry == Permutations(Threads) \cup Permutations(Notifs)

=============================================================================
