------------------------------ MODULE Ownership ------------------------------
(***************************************************************************)
(* Shared ownership without counters.  An object lives exactly as long as  *)
(* somebody owns it: a handle (each owns at most one object), or a lender  *)
(* outside the model, who may own an object several times over.  A handle  *)
(* can only get an object that some other owner has throughout the step,   *)
(* or one that the step brings to life.                                    *)
(***************************************************************************)
EXTENDS Integers

CONSTANTS Object, Owner, NULL

VARIABLES
  alive,  \* the objects that exist
  owns,   \* the object of each handle, or NULL
  lent    \* how many times the lender owns each object

vars == <<alive, owns, lent>>

Owned(o, f, n) == n[o] > 0 \/ \E h \in Owner : f[h] = o

Init ==
  /\ alive = {}
  /\ owns = [h \in Owner |-> NULL]
  /\ lent = [o \in Object |-> 0]

(* A new object appears in the hands of a handle or of the lender. *)
Create(h, o) ==
  /\ o \notin alive /\ owns[h] = NULL
  /\ owns' = [owns EXCEPT ![h] = o]
  /\ UNCHANGED lent

Borrow(o) ==
  /\ o \notin alive
  /\ lent' = [lent EXCEPT ![o] = 1]
  /\ UNCHANGED owns

(* Or in the hands of both. *)
Found(h, o) ==
  /\ o \notin alive /\ owns[h] = NULL
  /\ owns' = [owns EXCEPT ![h] = o]
  /\ lent' = [lent EXCEPT ![o] = 1]

(* h lets go of what it had and shares o, which somebody else has. *)
Share(h, o) ==
  /\ lent[o] > 0 \/ \E g \in Owner \ {h} : owns[g] = o
  /\ owns' = [owns EXCEPT ![h] = o]
  /\ UNCHANGED lent

Release(h) ==
  /\ owns' = [owns EXCEPT ![h] = NULL]
  /\ UNCHANGED lent

Lend(o) ==
  /\ o \in alive
  /\ lent' = [lent EXCEPT ![o] = @ + 1]
  /\ UNCHANGED owns

GiveBack(o) ==
  /\ lent[o] > 0
  /\ lent' = [lent EXCEPT ![o] = @ - 1]
  /\ UNCHANGED owns

(* The lender hands one of its shares over to a handle that has nothing. *)
HandOver(h, o) ==
  /\ lent[o] > 0 /\ owns[h] = NULL
  /\ lent' = [lent EXCEPT ![o] = @ - 1]
  /\ owns' = [owns EXCEPT ![h] = o]

Next ==
  /\ \/ \E h \in Owner, o \in Object :
          Create(h, o) \/ Found(h, o) \/ Share(h, o) \/ HandOver(h, o)
     \/ \E h \in Owner : Release(h)
     \/ \E o \in Object : Borrow(o) \/ Lend(o) \/ GiveBack(o)
  /\ alive' = {o \in Object : Owned(o, owns', lent')}

Spec == Init /\ [][Next]_vars
=============================================================================
