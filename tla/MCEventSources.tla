--------------------------- MODULE MCEventSources ---------------------------
(* Instances of EventSources for TLC. *)
EXTENDS EventSources, TLC

Symmetry ==
  Permutations(Source) \cup Permutations(Data) \cup Permutations(Handle)
=============================================================================
