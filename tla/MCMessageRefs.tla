---------------------------- MODULE MCMessageRefs ----------------------------
(* Instances of MessageRefs for TLC. *)
EXTENDS MessageRefs, TLC

Symmetry ==
  Permutations(Message) \cup Permutations(Wrapper) \cup Permutations(Iter)
=============================================================================
