----------------------------- MODULE MCCallbacks -----------------------------
(* Instances of Callbacks, and so of Connections, for TLC. *)
EXTENDS Callbacks, TLC

Symmetry ==
  Permutations(Conn) \cup Permutations(Wrapper) \cup Permutations(Data)
=============================================================================
