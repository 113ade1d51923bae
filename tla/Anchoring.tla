------------------------------ MODULE Anchoring ------------------------------
(***************************************************************************)
(* Blocks of data that C code has pointers to and that only the registry   *)
(* of Lua keeps from being collected.  The registry has exactly the blocks *)
(* that are in use.  A block that comes into use is not in use elsewhere,  *)
(* may change its place as long as it is in use, and when it is given back *)
(* its address may be used again.                                          *)
(***************************************************************************)
CONSTANTS
  Slot,   \* the places where C keeps a pointer to a block
  Block,  \* addresses of blocks
  NULL

VARIABLES
  used,   \* the block in each place, or NULL
  kept    \* the blocks in the registry

vars == <<used, kept>>

Init ==
  /\ used = [s \in Slot |-> NULL]
  /\ kept = {}

(* A new block, in the place of an old one or not. *)
Install(s, b) ==
  /\ b \notin kept
  /\ used' = [used EXCEPT ![s] = b]

(* Some blocks are given back, by one operation. *)
GiveBack ==
  used' = [s \in Slot |-> IF used'[s] = NULL THEN NULL ELSE used[s]]

(* The block at s takes the place of the one at t. *)
Move(s, t) ==
  used' = [u \in Slot |-> IF u = t THEN used[s]
                          ELSE IF u = s THEN NULL ELSE used[u]]

Next ==
  /\ \/ GiveBack
     \/ \E s \in Slot, b \in Block : Install(s, b)
     \/ \E s, t \in Slot : Move(s, t)
  /\ kept' = {used'[s] : s \in Slot} \ {NULL}

Spec == Init /\ [][Next]_vars
=============================================================================
