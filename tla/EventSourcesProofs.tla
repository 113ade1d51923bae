-------------------------- MODULE EventSourcesProofs --------------------------
(***************************************************************************)
(* Proofs about EventSources, for every number of sources, data blocks and *)
(* handles, with and without toggled functions, and for Lua functions that *)
(* raise errors at any call.                                               *)
(***************************************************************************)
EXTENDS EventSources, TLAPS

(* The sources whose handles ldbus keeps, in every phase of an             *)
(* installation over an empty place.                                       *)
InService ==
  CASE phase = "idle"     -> IF installed = NULL THEN {} ELSE live
    [] phase = "adding"   -> live \ todo
    [] phase = "undoing"  -> todo
    [] phase = "removing" -> live

(* A registry r and handles t are inverse to each other, on the sources S. *)
PairedOn(S, r, t) ==
  /\ \A s \in Source : IF s \in S THEN r[s] # NULL /\ t[r[s]] = s
                                  ELSE r[s] = NULL
  /\ \A h \in Handle : t[h] # NULL => r[t[h]] = h

Paired == PairedOn(InService, registry, target)

Phases ==
  /\ phase = "idle" <=> incoming = NULL
  /\ phase # "idle" => installed = NULL /\ todo \subseteq live
  /\ phase = "removing" => todo = {}

IInv == TypeOK /\ Phases /\ Paired

----------------------------------------------------------------------------
(* Types, without any assumption on the application.                       *)

(* The functions given to libdbus keep the types of what they change.      *)
LEMMA FunctionTypes ==
  ASSUME TypeOK, NEW s \in Source, NEW d \in Data, NEW ok \in BOOLEAN,
         NEW on \in BOOLEAN,
         \/ AddFunction(s, d, ok, on) \/ RemoveFunction(s, d)
         \/ ToggledFunction(s, on) \/ UNCHANGED lua
  PROVE  /\ registry' \in [Source -> Handle \cup {NULL}]
         /\ target' \in [Handle -> Source \cup {NULL}]
         /\ loop' \in [Data -> SUBSET Handle]
         /\ seen' \in [Handle -> BOOLEAN]
<1>1. CASE AddFunction(s, d, ok, on)
  BY <1>1 DEF AddFunction, TypeOK, lua
<1>2. CASE RemoveFunction(s, d)
  BY <1>2 DEF RemoveFunction, TypeOK
<1>3. CASE ToggledFunction(s, on)
  BY <1>3 DEF ToggledFunction, TypeOK
<1>4. CASE UNCHANGED lua
  BY <1>4 DEF TypeOK, lua
<1>5. QED
  BY <1>1, <1>2, <1>3, <1>4

(* TypeOK is inductive together with the fact that a call in progress has  *)
(* its data, and so has whoever is called.                                 *)
TypeInv == TypeOK /\ (phase = "idle" <=> incoming = NULL)
                  /\ (phase = "removing" /\ installed = NULL => todo = {})

LEMMA TypeStep == TypeInv /\ [Next]_vars => TypeInv'
<1> SUFFICES ASSUME TypeInv, [Next]_vars PROVE TypeInv'
  OBVIOUS
<1> USE DEF TypeInv
<1>n. ASSUME NEW d \in Data PROVE d # NULL
  BY NullAssumption
<1>1. ASSUME NEW d \in Data, SetFunctions(d) PROVE TypeInv'
  BY <1>1, <1>n DEF SetFunctions, TypeOK, lua
<1>2. ASSUME NEW s \in Source, AddExisting(s) PROVE TypeInv'
  <2>1. incoming \in Data /\ enabled[s] \in BOOLEAN
    BY <1>2 DEF AddExisting, TypeOK
  <2>2. \/ AddFunction(s, incoming, TRUE, enabled[s])
        \/ AddFunction(s, incoming, FALSE, enabled[s])
    BY <1>2 DEF AddExisting
  <2>3. /\ registry' \in [Source -> Handle \cup {NULL}]
        /\ target' \in [Handle -> Source \cup {NULL}]
        /\ loop' \in [Data -> SUBSET Handle]
        /\ seen' \in [Handle -> BOOLEAN]
    BY <2>1, <2>2, FunctionTypes
  <2>4. QED
    BY <1>2, <2>1, <2>3 DEF AddExisting, TypeOK
<1>3. ASSUME NEW s \in Source, UndoAdd(s) PROVE TypeInv'
  <2>1. incoming \in Data
    BY <1>3 DEF UndoAdd, TypeOK
  <2>2. QED
    BY <1>3, <2>1, FunctionTypes DEF UndoAdd, TypeOK
<1>4. ASSUME NEW s \in Source, RemoveOld(s) PROVE TypeInv'
  <2>1. installed \in Data
    BY <1>4 DEF RemoveOld, TypeOK
  <2>2. QED
    BY <1>4, <2>1, FunctionTypes DEF RemoveOld, TypeOK
<1>5. CASE SetFails
  BY <1>5 DEF SetFails, FreeData, TypeOK, lua
<1>6. CASE AllAdded
  BY <1>6 DEF AllAdded, TypeOK, lua
<1>7. CASE SetSucceeds
  BY <1>7 DEF SetSucceeds, FreeData, TypeOK, lua
<1>8. ASSUME NEW s \in Source, NEW on \in BOOLEAN, NewSource(s, on)
      PROVE  TypeInv'
  <2>1. CASE installed = NULL
    BY <1>8, <2>1 DEF NewSource, TypeOK, lua
  <2>2. CASE installed \in Data
    <3>1. \/ AddFunction(s, installed, TRUE, on)
          \/ AddFunction(s, installed, FALSE, on)
      BY <1>8, <1>n, <2>2 DEF NewSource
    <3>2. /\ registry' \in [Source -> Handle \cup {NULL}]
          /\ target' \in [Handle -> Source \cup {NULL}]
          /\ loop' \in [Data -> SUBSET Handle]
          /\ seen' \in [Handle -> BOOLEAN]
      BY <2>2, <3>1, FunctionTypes
    <3>3. QED
      BY <1>8, <1>n, <2>2, <3>2 DEF NewSource, TypeOK
  <2>3. QED
    BY <2>1, <2>2 DEF TypeOK
<1>9. ASSUME NEW s \in Source, FreeSource(s) PROVE TypeInv'
  <2>1. CASE installed = NULL
    BY <1>9, <2>1 DEF FreeSource, TypeOK, lua
  <2>2. CASE installed \in Data
    BY <1>9, <1>n, <2>2, FunctionTypes DEF FreeSource, TypeOK
  <2>3. QED
    BY <2>1, <2>2 DEF TypeOK
<1>10. ASSUME NEW s \in Source, ToggleSource(s) PROVE TypeInv'
  <2>1. CASE installed = NULL
    BY <1>10, <2>1 DEF ToggleSource, TypeOK, lua
  <2>2. CASE installed \in Data
    <3>1. ToggledFunction(s, ~enabled[s]) \/ UNCHANGED lua
      BY <1>10 DEF ToggleSource
    <3>2. QED
      BY <1>10, <2>2, <3>1, FunctionTypes DEF ToggleSource, TypeOK
  <2>3. QED
    BY <2>1, <2>2 DEF TypeOK
<1>11. ASSUME NEW s \in Source, BecomeReady(s) PROVE TypeInv'
  BY <1>11 DEF BecomeReady, TypeOK, lua
<1>12. CASE FreeConnection
  BY <1>12 DEF FreeConnection, FreeData, TypeOK, lua
<1>13. ASSUME NEW h \in Handle, HandleSource(h) PROVE TypeInv'
  BY <1>13 DEF HandleSource, TypeOK, lua
<1>14. CASE UNCHANGED vars
  BY <1>14 DEF vars, libdbus, lua, TypeOK
<1>15. QED
  BY <1>1, <1>2, <1>3, <1>4, <1>5, <1>6, <1>7, <1>8, <1>9, <1>10, <1>11,
     <1>12, <1>13, <1>14 DEF Next, Setting

LEMMA TypeInit == Init => TypeInv
BY DEF Init, TypeInv, TypeOK

(* Every variable keeps its type, whatever the Lua functions raise. *)
THEOREM TypeCorrect == Spec => []TypeOK
<1>1. TypeInv => TypeOK
  BY DEF TypeInv
<1>2. QED
  BY <1>1, TypeInit, TypeStep, PTL DEF Spec

----------------------------------------------------------------------------
(* The data blocks, without any assumption on the application.             *)

DataInv == TypeInv /\ DataAnchored /\ (incoming # NULL => incoming # installed)

LEMMA DataStep == DataInv /\ [Next]_vars => DataInv'
<1> SUFFICES ASSUME DataInv, [Next]_vars PROVE DataInv'
  OBVIOUS
<1>t. TypeInv'
  BY TypeStep DEF DataInv
<1>a. /\ anchored = {installed, incoming} \ {NULL}
      /\ phase = "idle" <=> incoming = NULL
      /\ incoming # NULL => incoming # installed
  BY DEF DataInv, DataAnchored, TypeInv
<1>1. ASSUME NEW d \in Data, SetFunctions(d) PROVE DataInv'
  <2>1. /\ incoming = NULL /\ d # NULL /\ d \notin anchored
        /\ anchored' = anchored \cup {d}
        /\ incoming' = d /\ installed' = installed
    BY <1>1, <1>a, NullAssumption DEF SetFunctions
  <2>2. anchored = {installed} \ {NULL}
    BY <1>a, <2>1
  <2>3. anchored' = {installed, d} \ {NULL} /\ d # installed
    BY <2>1, <2>2
  <2>4. QED
    BY <1>t, <2>1, <2>3 DEF DataInv, DataAnchored
<1>2. CASE SetFails
  BY <1>2, <1>a, <1>t DEF SetFails, FreeData, DataInv, DataAnchored
<1>3. CASE SetSucceeds
  <2>1. anchored' = {incoming} /\ installed' = incoming /\ incoming' = NULL
    BY <1>3, <1>a DEF SetSucceeds, FreeData
  <2>2. incoming # NULL
    BY <1>3, <1>a DEF SetSucceeds
  <2>3. QED
    BY <2>1, <2>2, <1>t DEF DataInv, DataAnchored
<1>4. CASE FreeConnection
  BY <1>4, <1>a, <1>t DEF FreeConnection, FreeData, DataInv, DataAnchored
<1>5. CASE UNCHANGED <<installed, incoming, anchored>>
  BY <1>5, <1>a, <1>t DEF DataInv, DataAnchored
<1>6. ASSUME NEW s \in Source,
             \/ AddExisting(s) \/ UndoAdd(s) \/ RemoveOld(s) \/ FreeSource(s)
             \/ ToggleSource(s) \/ BecomeReady(s)
             \/ \E on \in BOOLEAN : NewSource(s, on)
      PROVE  UNCHANGED <<installed, incoming, anchored>>
  BY <1>6 DEF AddExisting, UndoAdd, RemoveOld, FreeSource, ToggleSource,
              BecomeReady, NewSource
<1>7. ASSUME AllAdded \/ (\E h \in Handle : HandleSource(h)) \/ UNCHANGED vars
      PROVE  UNCHANGED <<installed, incoming, anchored>>
  BY <1>7 DEF AllAdded, HandleSource, vars, libdbus
<1>8. QED
  BY <1>1, <1>2, <1>3, <1>4, <1>5, <1>6, <1>7 DEF Next, Setting

(* libdbus only ever calls with a data block that the registry keeps alive,*)
(* and the registry keeps no other: also when functions are replaced, when *)
(* an installation fails half-way and when Lua functions raise errors.     *)
THEOREM DataNeverDangles == Spec => []DataAnchored
<1>1. Init => DataInv
  BY TypeInit DEF DataInv, Init, DataAnchored
<1>2. DataInv => DataAnchored
  BY DEF DataInv
<1>3. QED
  BY <1>1, <1>2, DataStep, PTL DEF Spec

(* Every step is one of module Anchoring, or leaves the blocks alone.      *)
LEMMA AnchoringStep ==
  DataInv /\ DataInv' /\ [Next]_vars => [Anchors!Next]_(Anchors!vars)
<1> SUFFICES ASSUME DataInv, DataInv', [Next]_vars
             PROVE  [Anchors!Next]_(Anchors!vars)
  OBVIOUS
<1> DEFINE used == [p \in Place |-> IF p = "installed" THEN installed ELSE incoming]
<1>d. /\ used["installed"] = installed /\ used["incoming"] = incoming
      /\ used'["installed"] = installed' /\ used'["incoming"] = incoming'
  BY DEF Place
<1>k. anchored' = {used'[p] : p \in Place} \ {NULL}
  <2>1. anchored' = {installed', incoming'} \ {NULL}
    BY DEF DataInv, DataAnchored
  <2> HIDE DEF used
  <2>2. {used'[p] : p \in Place} = {installed', incoming'}
    BY <1>d DEF Place
  <2>3. QED
    BY <2>1, <2>2
<1>g. Anchors!GiveBack => Anchors!Next
  BY <1>k DEF Anchors!Next
<1>u. UNCHANGED <<installed, incoming, anchored>> => UNCHANGED Anchors!vars
  BY DEF Anchors!vars
<1>1. ASSUME NEW d \in Data, SetFunctions(d) PROVE Anchors!Next
  <2>1. d \notin anchored /\ incoming' = d /\ installed' = installed
    BY <1>1 DEF SetFunctions
  <2>2. Anchors!Install("incoming", d)
    BY <2>1 DEF Anchors!Install, Place
  <2>3. QED
    BY <1>k, <2>2 DEF Anchors!Next, Place
<1>2. CASE SetFails
  <2>1. incoming' = NULL /\ installed' = installed
    BY <1>2 DEF SetFails
  <2>2. Anchors!GiveBack
    BY <2>1 DEF Anchors!GiveBack, Place
  <2>3. QED
    BY <1>g, <2>2
<1>3. CASE SetSucceeds
  <2>1. installed' = incoming /\ incoming' = NULL
    BY <1>3 DEF SetSucceeds
  <2>2. Anchors!Move("incoming", "installed")
    BY <2>1 DEF Anchors!Move, Place
  <2>3. QED
    BY <1>k, <2>2 DEF Anchors!Next, Place
<1>4. CASE FreeConnection
  <2>1. installed' = NULL /\ incoming' = incoming
    BY <1>4 DEF FreeConnection
  <2>2. Anchors!GiveBack
    BY <2>1 DEF Anchors!GiveBack, Place
  <2>3. QED
    BY <1>g, <2>2
<1>5. ASSUME NEW s \in Source,
             \/ AddExisting(s) \/ UndoAdd(s) \/ RemoveOld(s) \/ FreeSource(s)
             \/ ToggleSource(s) \/ BecomeReady(s)
             \/ \E on \in BOOLEAN : NewSource(s, on)
      PROVE  UNCHANGED <<installed, incoming, anchored>>
  BY <1>5 DEF AddExisting, UndoAdd, RemoveOld, FreeSource, ToggleSource,
              BecomeReady, NewSource
<1>6. ASSUME AllAdded \/ (\E h \in Handle : HandleSource(h)) \/ UNCHANGED vars
      PROVE  UNCHANGED <<installed, incoming, anchored>>
  BY <1>6 DEF AllAdded, HandleSource, vars, libdbus
<1>7. QED
  BY <1>1, <1>2, <1>3, <1>4, <1>5, <1>6, <1>u DEF Next, Setting

(* set_watch_functions and set_timeout_functions use the registry as       *)
(* blocks of data should: the new one comes into use beside the old, and   *)
(* takes its place or is given back, with whatever errors on the way.      *)
THEOREM ImplementsAnchoring == Spec => AnchoringImplemented
<1>1. Init => DataInv /\ Anchors!Init
  BY TypeInit DEF DataInv, Init, DataAnchored, Anchors!Init
<1>2. QED
  BY <1>1, DataStep, AnchoringStep, PTL
  DEF Spec, AnchoringImplemented, Anchors!Spec

----------------------------------------------------------------------------
(* The handles, when functions are not replaced and Lua does not run out   *)
(* of memory.                                                              *)

(* Adding and removing keep registry and handles paired: the sources with  *)
(* a slot are S before the call.                                           *)
LEMMA AddPairs ==
  ASSUME TypeOK, NEW S, PairedOn(S, registry, target), "memory" \notin Faults,
         NEW s \in Source, s \notin S, NEW d \in Data, NEW ok \in BOOLEAN,
         NEW on \in BOOLEAN, AddFunction(s, d, ok, on)
  PROVE  PairedOn(IF ok THEN S \cup {s} ELSE S, registry', target')
<1>1. CASE UNCHANGED lua /\ ~ok
  BY <1>1 DEF PairedOn, lua
<1>2. CASE ok
  <2>1. PICK h \in Handle :
          /\ Fresh(h)
          /\ registry' = [registry EXCEPT ![s] = h]
          /\ target' = [target EXCEPT ![h] = s]
    BY <1>2 DEF AddFunction
  <2>2. registry[s] = NULL /\ target[h] = NULL
    BY <2>1 DEF PairedOn, Fresh
  <2>3. \A x \in Source : registry[x] # h
    BY <2>1 DEF Fresh
  <2>4. h # NULL /\ s # NULL
    BY NullAssumption
  <2>5. ASSUME NEW x \in Source
        PROVE  IF x \in S \cup {s}
               THEN registry'[x] # NULL /\ target'[registry'[x]] = x
               ELSE registry'[x] = NULL
    <3>1. CASE x = s
      BY <2>1, <2>4, <3>1 DEF TypeOK
    <3>2. CASE x # s
      <4>1. registry'[x] = registry[x] /\ registry[x] # h
        BY <2>1, <2>3, <3>2 DEF TypeOK
      <4>2. registry[x] # NULL => registry[x] \in Handle
        BY DEF TypeOK
      <4>3. QED
        BY <2>1, <3>2, <4>1, <4>2 DEF PairedOn, TypeOK
    <3>3. QED
      BY <3>1, <3>2
  <2>6. ASSUME NEW g \in Handle, target'[g] # NULL
        PROVE  registry'[target'[g]] = g
    <3>1. CASE g = h
      BY <2>1, <3>1 DEF TypeOK
    <3>2. CASE g # h
      <4>1. target'[g] = target[g] /\ target[g] \in Source
        BY <2>1, <2>6, <3>2 DEF TypeOK
      <4>2. registry[target[g]] = g
        BY <2>6, <4>1 DEF PairedOn
      <4>3. target[g] # s
        BY <2>2, <2>4, <4>2, NullAssumption
      <4>4. QED
        BY <2>1, <4>1, <4>2, <4>3 DEF TypeOK
    <3>3. QED
      BY <3>1, <3>2
  <2>7. QED
    BY <1>2, <2>5, <2>6 DEF PairedOn
<1>3. QED
  BY <1>1, <1>2 DEF AddFunction

LEMMA RemovePairs ==
  ASSUME TypeOK, NEW S, PairedOn(S, registry, target),
         NEW s \in Source, NEW d \in Data, RemoveFunction(s, d)
  PROVE  PairedOn(S \ {s}, registry', target')
<1>1. registry' = [registry EXCEPT ![s] = NULL]
  BY DEF RemoveFunction
<1>2. CASE registry[s] = NULL
  BY <1>1, <1>2 DEF RemoveFunction, PairedOn, TypeOK
<1>3. CASE registry[s] # NULL
  <2> DEFINE h == registry[s]
  <2>1. h \in Handle /\ target[h] = s
    BY <1>3 DEF PairedOn, TypeOK
  <2>2. target' = [target EXCEPT ![h] = NULL]
    BY <1>3 DEF RemoveFunction
  <2>3. QED
    BY <1>1, <2>1, <2>2 DEF PairedOn, TypeOK
<1>4. QED
  BY <1>2, <1>3

(* What the proofs below ask of the application: it does not replace its   *)
(* functions, and they do not run out of memory.  Other errors may occur.  *)
Careful == ~Reinstall /\ "memory" \notin Faults

LEMMA IInvStep ==
  ASSUME Careful
  PROVE  IInv /\ [Next]_vars => IInv'
<1> SUFFICES ASSUME IInv, [Next]_vars PROVE IInv'
  OBVIOUS
<1>t. TypeOK /\ TypeOK' /\ TypeInv
  BY TypeStep DEF IInv, Phases, TypeInv
<1>p. Phases /\ PairedOn(InService, registry, target)
  BY DEF IInv, Paired
<1>s. Phases' /\ PairedOn(InService', registry', target') => IInv'
  BY <1>t DEF IInv, Paired
<1>n. ASSUME NEW d \in Data PROVE d # NULL
  BY NullAssumption
<1>u. ASSUME UNCHANGED <<registry, target>>, InService' = InService, Phases'
      PROVE  IInv'
  BY <1>u, <1>p, <1>s
<1>l. UNCHANGED lua => UNCHANGED <<registry, target>>
  BY DEF lua
<1>1. ASSUME NEW d \in Data, SetFunctions(d) PROVE IInv'
  <2>1. Phases'
    BY <1>1, <1>n, <1>p DEF SetFunctions, Phases, Careful
  <2>2. InService = {} /\ InService' = {}
    BY <1>1 DEF SetFunctions, InService, Careful
  <2>3. QED
    BY <1>1, <1>l, <1>u, <2>1, <2>2 DEF SetFunctions
<1>2. ASSUME NEW s \in Source, AddExisting(s) PROVE IInv'
  <2>1. incoming \in Data /\ enabled[s] \in BOOLEAN /\ s \in live
    BY <1>2, <1>p, <1>t DEF AddExisting, Phases, TypeOK
  <2>2. Phases' /\ InService = live \ todo /\ s \notin InService
    BY <1>2, <1>p DEF AddExisting, Phases, InService
  <2>3. CASE AddFunction(s, incoming, TRUE, enabled[s])
             /\ phase' = phase /\ todo' = todo \ {s}
    <3>1. InService' = InService \cup {s}
      BY <1>2, <2>1, <2>3 DEF AddExisting, InService
    <3>2. PairedOn(InService \cup {s}, registry', target')
      BY <1>p, <1>t, <2>1, <2>2, <2>3, AddPairs DEF Careful
    <3>3. QED
      BY <1>s, <2>2, <3>1, <3>2
  <2>4. CASE AddFunction(s, incoming, FALSE, enabled[s])
             /\ phase' = "undoing" /\ todo' = live \ todo
    <3>1. InService' = InService
      BY <1>2, <2>2, <2>4 DEF AddExisting, InService
    <3>2. UNCHANGED <<registry, target>>
      BY <2>4, <1>l DEF AddFunction, Careful
    <3>3. QED
      BY <1>u, <2>2, <3>1, <3>2
  <2>5. QED
    BY <1>2, <2>3, <2>4 DEF AddExisting
<1>3. ASSUME NEW s \in Source, UndoAdd(s) PROVE IInv'
  <2>1. incoming \in Data /\ RemoveFunction(s, incoming)
    BY <1>3, <1>p, <1>t DEF UndoAdd, Phases, TypeOK
  <2>2. Phases' /\ InService = todo /\ InService' = InService \ {s}
    BY <1>3, <1>p DEF UndoAdd, Phases, InService
  <2>3. PairedOn(InService \ {s}, registry', target')
    BY <1>p, <1>t, <2>1, RemovePairs
  <2>4. QED
    BY <1>s, <2>2, <2>3
<1>4. ASSUME NEW s \in Source, RemoveOld(s) PROVE IInv'
  BY <1>4, <1>p DEF RemoveOld, Phases
<1>5. CASE SetFails
  <2>1. Phases' /\ InService = {} /\ InService' = {}
    BY <1>5, <1>p DEF SetFails, Phases, InService
  <2>2. QED
    BY <1>5, <1>l, <1>u, <2>1 DEF SetFails
<1>6. CASE AllAdded
  <2>1. Phases' /\ InService = live /\ InService' = live
    BY <1>6, <1>p DEF AllAdded, Phases, InService
  <2>2. QED
    BY <1>6, <1>l, <1>u, <2>1 DEF AllAdded
<1>7. CASE SetSucceeds
  <2>1. Phases' /\ InService = live /\ InService' = live
    BY <1>7, <1>p DEF SetSucceeds, Phases, InService
  <2>2. QED
    BY <1>7, <1>l, <1>u, <2>1 DEF SetSucceeds
<1>8. ASSUME NEW s \in Source, NEW on \in BOOLEAN, NewSource(s, on)
      PROVE  IInv'
  <2>1. Phases'
    BY <1>8, <1>p DEF NewSource, Phases
  <2>2. CASE installed = NULL
    <3>1. UNCHANGED lua /\ InService = {} /\ InService' = {}
      BY <1>8, <2>2 DEF NewSource, InService
    <3>2. QED
      BY <1>l, <1>u, <2>1, <3>1
  <2>3. CASE installed # NULL /\ AddFunction(s, installed, TRUE, on)
             /\ live' = live \cup {s}
    <3>1. installed \in Data
      BY <1>t, <2>3 DEF TypeOK
    <3>2. InService = live /\ s \notin live /\ InService' = live \cup {s}
      BY <1>8, <2>3 DEF NewSource, InService
    <3>3. PairedOn(InService \cup {s}, registry', target')
      BY <1>p, <1>t, <2>3, <3>1, <3>2, AddPairs DEF Careful
    <3>4. QED
      BY <1>s, <2>1, <3>2, <3>3
  <2>4. CASE installed # NULL /\ AddFunction(s, installed, FALSE, on)
             /\ live' = live
    <3>1. UNCHANGED <<registry, target>>
      BY <2>4, <1>l DEF AddFunction, Careful
    <3>2. InService' = InService
      BY <1>8, <2>4 DEF NewSource, InService
    <3>3. QED
      BY <1>u, <2>1, <3>1, <3>2
  <2>5. QED
    BY <1>8, <2>2, <2>3, <2>4 DEF NewSource
<1>9. ASSUME NEW s \in Source, FreeSource(s) PROVE IInv'
  <2>1. Phases'
    BY <1>9, <1>p DEF FreeSource, Phases
  <2>2. CASE installed = NULL
    <3>1. UNCHANGED lua /\ InService = {} /\ InService' = {}
      BY <1>9, <2>2 DEF FreeSource, InService
    <3>2. QED
      BY <1>l, <1>u, <2>1, <3>1
  <2>3. CASE installed # NULL
    <3>1. installed \in Data /\ RemoveFunction(s, installed)
      BY <1>9, <1>t, <2>3 DEF FreeSource, TypeOK
    <3>2. InService' = InService \ {s}
      BY <1>9, <2>3 DEF FreeSource, InService
    <3>3. PairedOn(InService \ {s}, registry', target')
      BY <1>p, <1>t, <3>1, RemovePairs
    <3>4. QED
      BY <1>s, <2>1, <3>2, <3>3
  <2>4. QED
    BY <2>2, <2>3
<1>10. ASSUME NEW s \in Source, ToggleSource(s) PROVE IInv'
  <2>1. UNCHANGED <<registry, target>>
    BY <1>10, <1>l DEF ToggleSource, ToggledFunction
  <2>2. Phases' /\ InService' = InService
    BY <1>10, <1>p DEF ToggleSource, Phases, InService
  <2>3. QED
    BY <1>u, <2>1, <2>2
<1>11. ASSUME NEW s \in Source, BecomeReady(s) PROVE IInv'
  <2>1. Phases' /\ InService' = InService
    BY <1>11, <1>p DEF BecomeReady, Phases, InService
  <2>2. QED
    BY <1>11, <1>l, <1>u, <2>1 DEF BecomeReady
<1>12. CASE FreeConnection
  <2>1. Phases' /\ InService = {} /\ InService' = {}
    BY <1>12, <1>p DEF FreeConnection, Phases, InService
  <2>2. QED
    BY <1>12, <1>l, <1>u, <2>1 DEF FreeConnection
<1>13. ASSUME NEW h \in Handle, HandleSource(h) PROVE IInv'
  <2>1. Phases' /\ InService' = InService
    BY <1>13, <1>p DEF HandleSource, Phases, InService
  <2>2. QED
    BY <1>13, <1>l, <1>u, <2>1 DEF HandleSource
<1>14. CASE UNCHANGED vars
  <2>1. Phases' /\ InService' = InService
    BY <1>14, <1>p DEF vars, libdbus, Phases, InService
  <2>2. QED
    BY <1>14, <1>l, <1>u, <2>1 DEF vars
<1>15. QED
  BY <1>1, <1>2, <1>3, <1>4, <1>5, <1>6, <1>7, <1>8, <1>9, <1>10, <1>11,
     <1>12, <1>13, <1>14 DEF Next, Setting

(* While the application keeps its functions in place, a Lua handle never  *)
(* points to a source that libdbus has freed, and the registry knows the   *)
(* handle of every source in service: through installations that fail      *)
(* half-way and whatever errors the functions raise.                       *)
THEOREM HandlesNeverDangle ==
  ASSUME Careful
  PROVE  Spec => [](NoDanglingHandle /\ RegistryExact)
<1>1. Init => IInv
  <2> SUFFICES ASSUME Init PROVE IInv
    OBVIOUS
  <2>1. TypeOK
    BY TypeInit DEF TypeInv
  <2>2. Phases /\ InService = {}
    BY DEF Init, Phases, InService
  <2>3. Paired
    BY <2>2 DEF Init, Paired, PairedOn
  <2>4. QED
    BY <2>1, <2>2, <2>3 DEF IInv
<1>2. IInv => NoDanglingHandle
  <2> SUFFICES ASSUME IInv, NEW h \in Handle, target[h] # NULL
               PROVE  target[h] \in live
    BY DEF NoDanglingHandle
  <2>1. target[h] \in Source /\ registry[target[h]] = h
    BY DEF IInv, TypeOK, Paired, PairedOn
  <2>2. h # NULL
    BY NullAssumption
  <2>3. target[h] \in InService
    BY <2>1, <2>2 DEF IInv, Paired, PairedOn
  <2>4. InService \subseteq live
    BY DEF IInv, TypeOK, Phases, InService
  <2>5. QED
    BY <2>3, <2>4
<1>3. IInv => RegistryExact
  <2> SUFFICES ASSUME IInv, phase = "idle"
               PROVE  RegistryExact
    BY DEF RegistryExact
  <2>1. InService = IF installed = NULL THEN {} ELSE live
    BY DEF InService
  <2>2. QED
    BY <2>1 DEF IInv, Paired, PairedOn, RegistryExact
<1>4. QED
  BY <1>1, <1>2, <1>3, IInvStep, PTL DEF Spec

(* The same by itself: between calls the registry has one slot per source  *)
(* in service (src/src/watch.c, timeout.c).                                *)
THEOREM RegistryFollowsSources ==
  ASSUME Careful
  PROVE  Spec => []RegistryExact
<1>1. NoDanglingHandle /\ RegistryExact => RegistryExact
  OBVIOUS
<1>2. QED
  BY <1>1, HandlesNeverDangle, PTL

----------------------------------------------------------------------------
(* What holds when functions are replaced and run out of memory.           *)

(* Adding takes a fresh handle, and removing clears both ends.             *)
LEMMA SoundStep ==
  ASSUME TypeOK, RegistrySound, NEW s \in Source, NEW d, NEW ok, NEW on,
         \/ AddFunction(s, d, ok, on) \/ RemoveFunction(s, d)
         \/ ToggledFunction(s, on) \/ UNCHANGED lua
  PROVE  RegistrySound'
<1>1. CASE UNCHANGED <<registry, target>>
  BY <1>1 DEF RegistrySound
<1>2. CASE AddFunction(s, d, ok, on)
  <2>1. CASE UNCHANGED lua
    BY <1>1, <2>1 DEF lua
  <2>2. CASE \E h \in Handle :
               /\ Fresh(h)
               /\ registry' = [registry EXCEPT ![s] = h]
               /\ target' = [target EXCEPT ![h] = s]
    BY <2>2 DEF TypeOK, RegistrySound, Fresh
  <2>3. QED
    BY <1>2, <2>1, <2>2 DEF AddFunction
<1>3. CASE RemoveFunction(s, d)
  BY <1>3 DEF TypeOK, RegistrySound, RemoveFunction
<1>4. QED
  BY <1>1, <1>2, <1>3 DEF ToggledFunction, lua

(* A slot of the registry never holds the handle of another source, nor    *)
(* one that was invalidated: whatever the functions raise, however often   *)
(* they are replaced (src/src/watch.c, timeout.c).                         *)
THEOREM SlotsStaySound == Spec => []RegistrySound
<1>1. Init => RegistrySound
  BY DEF Init, RegistrySound
<1>2. TypeOK /\ RegistrySound /\ [Next]_vars => RegistrySound'
  <2> SUFFICES ASSUME TypeOK, RegistrySound, [Next]_vars PROVE RegistrySound'
    OBVIOUS
  <2>1. CASE UNCHANGED <<registry, target>>
    BY <2>1 DEF RegistrySound
  <2>2. ASSUME NEW s \in Source, AddExisting(s) PROVE RegistrySound'
    BY <2>2, SoundStep DEF AddExisting
  <2>3. ASSUME NEW s \in Source, UndoAdd(s) \/ RemoveOld(s)
        PROVE  RegistrySound'
    BY <2>3, SoundStep DEF UndoAdd, RemoveOld
  <2>4. ASSUME NEW s \in Source, NEW on \in BOOLEAN, NewSource(s, on)
        PROVE  RegistrySound'
    BY <2>4, SoundStep DEF NewSource
  <2>5. ASSUME NEW s \in Source, FreeSource(s) \/ ToggleSource(s)
        PROVE  RegistrySound'
    BY <2>5, SoundStep DEF FreeSource, ToggleSource
  <2>6. QED
    BY <2>1, <2>2, <2>3, <2>4, <2>5
       DEF Next, Setting, SetFunctions, SetFails, AllAdded, SetSucceeds,
           BecomeReady, FreeConnection, HandleSource, lua, vars
<1>3. QED
  BY <1>1, <1>2, TypeCorrect, PTL DEF Spec

----------------------------------------------------------------------------
(* What the main loop knows, when its functions raise no errors.           *)

(* The data whose functions are told of the sources in service.            *)
Owner == IF phase = "idle" THEN installed ELSE incoming

Handles(S, r) == {r[s] : s \in S}

LoopInv ==
  \A d \in Data :
    loop[d] = IF d = Owner THEN Handles(InService, registry) ELSE {}

SeenOn(S) ==
  PassToggle /\ Kind = "timeout"
    => \A s \in S : seen[registry[s]] = enabled[s]

FInv == IInv /\ LoopInv /\ SeenOn(InService)

(* The sources in service are sources.                                     *)
LEMMA ServiceInLive ==
  ASSUME IInv PROVE InService \subseteq live /\ InService \subseteq Source
  BY DEF IInv, TypeOK, Phases, InService

(* A source that goes is taken out of the loop.                            *)
LEMMA RemoveLoops ==
  ASSUME TypeOK, Faults = {}, NEW S \in SUBSET Source,
         PairedOn(S, registry, target), NEW s \in S, NEW d \in Data,
         RemoveFunction(s, d), loop[d] = Handles(S, registry)
  PROVE  /\ loop'[d] = Handles(S \ {s}, registry')
         /\ \A e \in Data \ {d} : loop'[e] = loop[e]
         /\ \A x \in S \ {s} : seen'[registry'[x]] = seen[registry[x]]
<1>1. /\ registry[s] # NULL /\ target[registry[s]] # NULL
      /\ \A x \in S \ {s} : registry[x] # registry[s]
  BY NullAssumption DEF PairedOn
<1>2. /\ registry' = [registry EXCEPT ![s] = NULL] /\ seen' = seen
      /\ loop' = [loop EXCEPT ![d] = @ \ {registry[s]}]
  BY <1>1 DEF RemoveFunction
<1>3. \A x \in S \ {s} : registry'[x] = registry[x]
  BY <1>2 DEF TypeOK
<1>4. loop'[d] = loop[d] \ {registry[s]}
      /\ \A e \in Data \ {d} : loop'[e] = loop[e]
  BY <1>2 DEF TypeOK
<1>5. Handles(S \ {s}, registry') = Handles(S, registry) \ {registry[s]}
  BY <1>1, <1>3 DEF Handles
<1>6. QED
  BY <1>2, <1>3, <1>4, <1>5


(* Each step keeps the loop in agreement with the registry.                *)
LEMMA FInvStep ==
  ASSUME Careful, Faults = {}
  PROVE  FInv /\ [Next]_vars => FInv'
<1> SUFFICES ASSUME FInv, [Next]_vars PROVE FInv'
  OBVIOUS
<1>t. TypeOK /\ Phases /\ PairedOn(InService, registry, target)
  BY DEF FInv, IInv, Paired
<1>i. IInv'
  BY IInvStep DEF FInv
<1>s. InService \subseteq live /\ InService \subseteq Source /\ live \subseteq Source
  BY <1>t, ServiceInLive DEF FInv, TypeOK
<1>n. ASSUME NEW d \in Data PROVE d # NULL
  BY NullAssumption
<1>l. LoopInv /\ SeenOn(InService)
  BY DEF FInv
<1>u. ASSUME UNCHANGED lua, InService' = InService, enabled' = enabled,
             Owner' = Owner \/ InService = {}
      PROVE  FInv'
  <2>1. LoopInv'
    <3>1. InService = {} => Handles(InService, registry) = {}
      BY DEF Handles
    <3>2. \A d \in Data : loop'[d] = loop[d]
      BY <1>u DEF lua
    <3>3. Handles(InService', registry') = Handles(InService, registry)
      BY <1>u DEF lua, Handles
    <3>4. QED
      BY <1>l, <1>u, <3>1, <3>2, <3>3 DEF LoopInv
  <2>2. SeenOn(InService)'
    BY <1>l, <1>u DEF SeenOn, lua
  <2>3. QED
    BY <1>i, <2>1, <2>2 DEF FInv
<1>a. ASSUME NEW s \in Source, s \notin InService, NEW d \in Data, NEW on \in BOOLEAN,
             d = Owner, Owner' = Owner, AddFunction(s, d, TRUE, on),
             InService' = InService \cup {s}, enabled'[s] = on,
             \A x \in Source \ {s} : enabled'[x] = enabled[x]
      PROVE  FInv'
  <2>1. InService \in SUBSET Source /\ loop[d] = Handles(InService, registry)
    BY <1>s, <1>l, <1>a DEF LoopInv
  <2>2. /\ loop'[d] = Handles(InService \cup {s}, registry')
        /\ \A e \in Data \ {d} : loop'[e] = loop[e]
        /\ seen'[registry'[s]] = on
        /\ \A x \in InService : seen'[registry'[x]] = seen[registry[x]]
    <3> DEFINE S == InService
    <3>1. PICK h \in Handle :
            /\ Fresh(h)
            /\ registry' = [registry EXCEPT ![s] = h]
            /\ seen' = [seen EXCEPT ![h] = on]
            /\ loop' = [loop EXCEPT ![d] = @ \cup {h}]
      BY <1>a DEF AddFunction
    <3>2. registry'[s] = h /\ \A x \in S : registry'[x] = registry[x]
      BY <1>a, <1>t, <1>s, <3>1 DEF TypeOK
    <3>3. \A x \in S : registry[x] # h /\ registry[x] \in Handle
      BY <1>t, <1>s, <3>1 DEF TypeOK, Fresh, PairedOn
    <3>4. loop'[d] = loop[d] \cup {h}
          /\ \A e \in Data \ {d} : loop'[e] = loop[e]
      BY <1>t, <3>1 DEF TypeOK
    <3>5. Handles(S \cup {s}, registry') = Handles(S, registry) \cup {h}
      BY <3>2 DEF Handles
    <3>6. seen'[h] = on /\ \A x \in S : seen'[registry[x]] = seen[registry[x]]
      BY <1>t, <3>1, <3>3 DEF TypeOK
    <3>7. QED
      BY <2>1, <3>2, <3>4, <3>5, <3>6
  <2>3. LoopInv'
    BY <1>l, <1>a, <2>2 DEF LoopInv
  <2>4. SeenOn(InService)'
    BY <1>l, <1>a, <1>s, <2>2 DEF SeenOn
  <2>5. QED
    BY <1>i, <2>3, <2>4 DEF FInv
<1>r. ASSUME NEW s \in InService, NEW d \in Data, d = Owner, Owner' = Owner,
             RemoveFunction(s, d), InService' = InService \ {s},
             enabled' = enabled
      PROVE  FInv'
  <2>1. InService \in SUBSET Source /\ loop[d] = Handles(InService, registry)
    BY <1>s, <1>l, <1>r DEF LoopInv
  <2>2. /\ loop'[d] = Handles(InService \ {s}, registry')
        /\ \A e \in Data \ {d} : loop'[e] = loop[e]
        /\ \A x \in InService \ {s} : seen'[registry'[x]] = seen[registry[x]]
    <3>1. TypeOK /\ PairedOn(InService, registry, target)
      BY <1>t
    <3>2. RemoveFunction(s, d)
      BY <1>r
    <3>3. QED
      BY <2>1, <3>1, <3>2, RemoveLoops
  <2>3. LoopInv'
    BY <1>l, <1>r, <2>2 DEF LoopInv
  <2>4. SeenOn(InService)'
    BY <1>l, <1>r, <2>2 DEF SeenOn
  <2>5. QED
    BY <1>i, <2>3, <2>4 DEF FInv
<1>1. ASSUME NEW d \in Data, SetFunctions(d) PROVE FInv'
  <2>1. InService = {} /\ InService' = {} /\ UNCHANGED lua /\ enabled' = enabled
    BY <1>1 DEF SetFunctions, InService, Careful
  <2>2. QED
    BY <1>u, <2>1
<1>2. ASSUME NEW s \in Source, AddExisting(s) PROVE FInv'
  <2>1. incoming \in Data /\ enabled[s] \in BOOLEAN /\ s \in live
        /\ incoming = Owner /\ enabled' = enabled /\ incoming' = incoming
        /\ phase = "adding"
    BY <1>2, <1>t DEF AddExisting, Phases, TypeOK, Owner
  <2>2. InService = live \ todo /\ s \notin InService
    BY <1>2 DEF AddExisting, InService
  <2>3. CASE AddFunction(s, incoming, TRUE, enabled[s])
             /\ phase' = phase /\ todo' = todo \ {s}
    <3>1. InService' = InService \cup {s} /\ Owner' = Owner
      BY <1>2, <2>1, <2>2, <2>3 DEF AddExisting, InService, Owner
    <3>2. QED
      BY <1>a, <2>1, <2>2, <2>3, <3>1
  <2>4. CASE AddFunction(s, incoming, FALSE, enabled[s])
             /\ phase' = "undoing" /\ todo' = live \ todo
    <3>1. InService' = InService /\ Owner' = Owner
      BY <1>2, <2>1, <2>2, <2>4 DEF AddExisting, InService, Owner
    <3>2. UNCHANGED lua
      BY <2>4 DEF AddFunction
    <3>3. QED
      BY <1>u, <2>1, <3>1, <3>2
  <2>5. QED
    BY <1>2, <2>3, <2>4 DEF AddExisting
<1>3. ASSUME NEW s \in Source, UndoAdd(s) PROVE FInv'
  <2>1. incoming \in Data /\ RemoveFunction(s, incoming) /\ incoming = Owner
        /\ Owner' = Owner /\ enabled' = enabled
    BY <1>3, <1>t DEF UndoAdd, Phases, TypeOK, Owner
  <2>2. s \in InService /\ InService' = InService \ {s}
    BY <1>3 DEF UndoAdd, InService
  <2>3. QED
    BY <1>r, <2>1, <2>2
<1>4. ASSUME NEW s \in Source, RemoveOld(s) PROVE FInv'
  BY <1>4, <1>t DEF RemoveOld, Phases
<1>5. CASE SetFails
  <2>1. InService = {} /\ InService' = {}
    BY <1>5, <1>t DEF SetFails, Phases, InService
  <2>2. QED
    BY <1>5, <1>u, <2>1 DEF SetFails
<1>6. CASE AllAdded
  <2>1. InService = live /\ InService' = live /\ Owner' = Owner
    BY <1>6, <1>t DEF AllAdded, Phases, InService, Owner
  <2>2. QED
    BY <1>6, <1>u, <2>1 DEF AllAdded
<1>7. CASE SetSucceeds
  <2>1. InService = live /\ InService' = live /\ Owner' = Owner
    BY <1>7, <1>t DEF SetSucceeds, Phases, InService, Owner
  <2>2. QED
    BY <1>7, <1>u, <2>1 DEF SetSucceeds
<1>8. ASSUME NEW s \in Source, NEW on \in BOOLEAN, NewSource(s, on)
      PROVE  FInv'
  <2>1. /\ s \notin live /\ s \notin InService /\ enabled'[s] = on
        /\ \A x \in Source \ {s} : enabled'[x] = enabled[x]
        /\ Owner' = Owner
    BY <1>8, <1>s, <1>t DEF NewSource, TypeOK, Owner
  <2>2. ASSUME UNCHANGED lua, InService' = InService PROVE FInv'
    <3>1. LoopInv'
      BY <1>l, <2>1, <2>2 DEF LoopInv, lua, Handles
    <3>2. SeenOn(InService)'
      BY <1>l, <1>s, <2>1, <2>2 DEF SeenOn, lua
    <3>3. QED
      BY <1>i, <3>1, <3>2 DEF FInv
  <2>3. CASE installed = NULL
    <3>1. UNCHANGED lua /\ InService' = InService
      BY <1>8, <2>3 DEF NewSource, InService
    <3>2. QED
      BY <2>2, <3>1
  <2>4. CASE installed # NULL /\ AddFunction(s, installed, TRUE, on)
             /\ live' = live \cup {s}
    <3>1. installed \in Data /\ installed = Owner
      BY <1>8, <1>t, <2>4 DEF TypeOK, NewSource, Owner
    <3>2. InService' = InService \cup {s}
      BY <1>8, <2>4 DEF NewSource, InService
    <3>3. QED
      BY <1>a, <2>1, <2>4, <3>1, <3>2
  <2>5. CASE installed # NULL /\ AddFunction(s, installed, FALSE, on)
             /\ live' = live
    <3>1. UNCHANGED lua /\ InService' = InService
      BY <1>8, <2>5 DEF NewSource, InService, AddFunction
    <3>2. QED
      BY <2>2, <3>1
  <2>6. QED
    BY <1>8, <2>3, <2>4, <2>5 DEF NewSource
<1>9. ASSUME NEW s \in Source, FreeSource(s) PROVE FInv'
  <2>1. CASE installed = NULL
    <3>1. UNCHANGED lua /\ InService = {} /\ InService' = {}
      BY <1>9, <2>1 DEF FreeSource, InService
    <3>2. QED
      BY <1>9, <1>u, <3>1 DEF FreeSource
  <2>2. CASE installed # NULL
    <3>1. installed \in Data /\ RemoveFunction(s, installed)
          /\ installed = Owner /\ Owner' = Owner /\ enabled' = enabled
      BY <1>9, <1>t, <2>2 DEF FreeSource, TypeOK, Owner
    <3>2. s \in InService /\ InService' = InService \ {s}
      BY <1>9, <2>2 DEF FreeSource, InService
    <3>3. QED
      BY <1>r, <3>1, <3>2
  <2>3. QED
    BY <2>1, <2>2
<1>10. ASSUME NEW s \in Source, ToggleSource(s) PROVE FInv'
  <2>1. /\ InService' = InService /\ Owner' = Owner
        /\ enabled'[s] = ~enabled[s]
        /\ \A x \in Source \ {s} : enabled'[x] = enabled[x]
    BY <1>10, <1>t DEF ToggleSource, TypeOK, InService, Owner
  <2>2. UNCHANGED <<registry, target, loop>>
    BY <1>10 DEF ToggleSource, ToggledFunction, lua
  <2>3. LoopInv'
    BY <1>l, <2>1, <2>2 DEF LoopInv, Handles
  <2>4. SeenOn(InService)'
    <3> SUFFICES ASSUME PassToggle, Kind = "timeout", NEW x \in InService
                 PROVE  seen'[registry[x]] = enabled'[x]
      BY <2>1, <2>2 DEF SeenOn
    <3>1. installed # NULL /\ ToggleInstalled /\ ToggleStored
      BY <1>10 DEF ToggleSource, InService, ToggleInstalled, ToggleStored
    <3>2. ToggledFunction(s, ~enabled[s])
      BY <1>10, <3>1 DEF ToggleSource
    <3>3. s \in InService
      BY <1>10, <3>1 DEF ToggleSource, InService
    <3>4. registry[s] # NULL /\ registry[s] \in Handle
      BY <1>t, <1>s, <3>3 DEF PairedOn, TypeOK
    <3>5. seen' = [seen EXCEPT ![registry[s]] = ~enabled[s]]
      BY <3>1, <3>2, <3>4 DEF ToggledFunction
    <3>6. CASE x = s
      BY <1>t, <2>1, <3>4, <3>5, <3>6 DEF TypeOK
    <3>7. CASE x # s
      <4>1. registry[x] # registry[s] /\ seen[registry[x]] = enabled[x]
        BY <1>l, <1>t, <1>s, <3>3, <3>7 DEF PairedOn, SeenOn
      <4>2. seen'[registry[x]] = seen[registry[x]]
        BY <1>t, <1>s, <3>4, <3>5, <4>1 DEF TypeOK, PairedOn
      <4>3. QED
        BY <1>s, <2>1, <3>7, <4>1, <4>2
    <3>8. QED
      BY <3>6, <3>7
  <2>5. QED
    BY <1>i, <2>3, <2>4 DEF FInv
<1>11. ASSUME NEW s \in Source, BecomeReady(s) PROVE FInv'
  BY <1>11, <1>u DEF BecomeReady, InService, Owner
<1>12. CASE FreeConnection
  <2>1. InService = {} /\ InService' = {}
    BY <1>12 DEF FreeConnection, InService
  <2>2. QED
    BY <1>12, <1>u, <2>1 DEF FreeConnection
<1>13. ASSUME NEW h \in Handle, HandleSource(h) PROVE FInv'
  BY <1>13, <1>u DEF HandleSource, InService, Owner
<1>14. CASE UNCHANGED vars
  BY <1>14, <1>u DEF vars, libdbus, InService, Owner
<1>15. QED
  BY <1>1, <1>2, <1>3, <1>4, <1>5, <1>6, <1>7, <1>8, <1>9, <1>10, <1>11,
     <1>12, <1>13, <1>14 DEF Next, Setting

LEMMA FInvariant ==
  ASSUME Careful, Faults = {}
  PROVE  Spec => []FInv
<1>1. Init => FInv
  <2> SUFFICES ASSUME Init PROVE FInv
    OBVIOUS
  <2>1. InService = {} /\ TypeOK
    BY TypeInit DEF Init, InService, TypeInv
  <2>2. IInv
    BY <2>1 DEF Init, IInv, Phases, Paired, PairedOn
  <2>3. LoopInv /\ SeenOn(InService)
    BY <2>1 DEF Init, LoopInv, SeenOn, Handles
  <2>4. QED
    BY <2>2, <2>3 DEF FInv
<1>2. FInv /\ [Next]_vars => FInv'
  BY FInvStep
<1>3. QED
  BY <1>1, <1>2, PTL DEF Spec

(* Between calls the main loop has the handles of the sources in service,  *)
(* in the functions that are installed, and no other: also after           *)
(* installations that ran out of stack and were undone                     *)
(* (src/src/watch.c, timeout.c).                                           *)
THEOREM LoopFollowsRegistry ==
  ASSUME Careful, Faults = {}
  PROVE  Spec => []LoopExact
<1>1. FInv => LoopExact
  <2> SUFFICES ASSUME FInv, phase = "idle", NEW d \in Data
               PROVE  loop[d] = IF d = installed
                                THEN {registry[s] : s \in live} ELSE {}
    BY DEF LoopExact
  <2>1. Owner = installed /\ d # NULL
    BY NullAssumption DEF Owner
  <2>2. installed # NULL => InService = live
    BY DEF InService
  <2>3. QED
    BY <2>1, <2>2 DEF FInv, LoopInv, Handles
<1>2. QED
  BY <1>1, FInvariant, PTL

(* A toggled function for timeouts hears of every change, so that the loop *)
(* knows which of its timeouts are enabled (src/src/timeout.c, and         *)
(* set_timeout_functions of src/src/connection.c).                         *)
THEOREM TimeoutTogglesSeen ==
  ASSUME Careful, Faults = {}, Kind = "timeout"
  PROVE  Spec => []ToggleSeen
<1>1. FInv => ToggleSeen
  <2> SUFFICES ASSUME FInv, PassToggle, phase = "idle", installed # NULL,
                      NEW h \in loop[installed], target[h] # NULL
               PROVE  seen[h] = enabled[target[h]]
    BY DEF ToggleSeen
  <2>1. Owner = installed /\ InService = live /\ installed \in Data
    BY DEF Owner, InService, FInv, IInv, TypeOK
  <2>2. PICK s \in live : h = registry[s]
    BY <2>1 DEF FInv, LoopInv, Handles
  <2>3. target[h] = s
    <3>1. s \in Source
      BY DEF FInv, IInv, TypeOK
    <3>2. QED
      BY <2>1, <2>2, <3>1 DEF FInv, IInv, Paired, PairedOn
  <2>4. QED
    BY <2>1, <2>2, <2>3 DEF FInv, SeenOn
<1>2. QED
  BY <1>1, FInvariant, PTL

=============================================================================
