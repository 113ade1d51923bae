--------------------------- MODULE MCPendingCalls ---------------------------
(* Instances of PendingCalls for TLC. *)
EXTENDS PendingCalls, TLC

Symmetry == Permutations(Call) \cup Permutations(Data)
=============================================================================
