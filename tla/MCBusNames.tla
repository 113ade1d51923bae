----------------------------- MODULE MCBusNames -----------------------------
(* Instances of BusNames for TLC. *)
EXTENDS BusNames
=============================================================================
