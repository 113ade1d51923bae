---------------------------- MODULE EventSources ----------------------------
(***************************************************************************)
(* The event sources of one connection and the main loop that serves them: *)
(* src/src/watch.c, src/src/timeout.c, and set_watch_functions and         *)
(* set_timeout_functions of src/src/connection.c.                          *)
(*                                                                         *)
(* libdbus owns the sources (DBusWatch, DBusTimeout) and tells the         *)
(* application through an add, a remove and a toggled function which ones  *)
(* to serve.  ldbus keeps, for each source, the userdata (the handle) that *)
(* it gave to the Lua add function in the registry under the address of    *)
(* the source, and the three Lua functions in the registry under the       *)
(* address of a data block.                                                *)
(*                                                                         *)
(* libdbus calls the functions with the connection locked, so that they    *)
(* cannot call the connection.  Replacing the functions takes one call per *)
(* source, first to the new add function, then to the old remove function. *)
(***************************************************************************)
EXTENDS FiniteSets

CONSTANTS
  Source,      \* addresses of DBusWatch (or DBusTimeout) objects
  Data,        \* data blocks: the functions of one set_*_functions call
  Handle,      \* DBusWatch (or DBusTimeout) userdata
  NULL,        \* the null pointer, and Lua's nil
  Kind,        \* "watch" or "timeout"
  PassToggle,  \* whether the application passes a toggled function
  Reinstall,   \* whether it sets functions while others are in place
  Faults       \* what its functions may raise: "error", "memory"

ASSUME NullAssumption == NULL \notin Source \cup Data \cup Handle
ASSUME KindAssumption == Kind \in {"watch", "timeout"}
ASSUME ChoicesAssumption ==
  PassToggle \in BOOLEAN /\ Reinstall \in BOOLEAN
ASSUME FaultsAssumption == Faults \subseteq {"error", "memory"}

VARIABLES
  live,       \* libdbus: the sources in the connection's list
  enabled,    \* libdbus: whether each source is enabled
  installed,  \* libdbus: the data of the functions it calls, or NULL
  phase,      \* progress of a set_*_functions call
  incoming,   \* the data that this call installs, or NULL
  todo,       \* the sources that the present phase has still to visit
  anchored,   \* the data blocks in the Lua registry
  registry,   \* the handle in the Lua registry for each source, or NULL
  target,     \* the source that each handle points to, or NULL
  loop,       \* for each data block, the handles its Lua functions serve
  seen,       \* whether the loop takes the source of a handle for enabled
  ready       \* the sources with something to do

libdbus == <<live, enabled, installed, phase, incoming, todo, anchored, ready>>
lua == <<registry, target, loop, seen>>
vars == <<libdbus, lua>>

TypeOK ==
  /\ live \subseteq Source
  /\ enabled \in [Source -> BOOLEAN]
  /\ installed \in Data \cup {NULL}
  /\ phase \in {"idle", "adding", "undoing", "removing"}
  /\ incoming \in Data \cup {NULL}
  /\ todo \subseteq Source
  /\ anchored \subseteq Data
  /\ registry \in [Source -> Handle \cup {NULL}]
  /\ target \in [Handle -> Source \cup {NULL}]
  /\ loop \in [Data -> SUBSET Handle]
  /\ seen \in [Handle -> BOOLEAN]
  /\ ready \subseteq Source

Init ==
  /\ live = {} /\ ready = {} /\ todo = {} /\ anchored = {}
  /\ enabled = [s \in Source |-> FALSE]
  /\ installed = NULL /\ incoming = NULL
  /\ phase = "idle"
  /\ registry = [s \in Source |-> NULL]
  /\ target = [h \in Handle |-> NULL]
  /\ loop = [d \in Data |-> {}]
  /\ seen = [h \in Handle |-> FALSE]

----------------------------------------------------------------------------
(* The functions that ldbus gives to libdbus.                              *)

(* A userdata that nobody refers to: not allocated, or collected.          *)
Fresh(h) ==
  /\ target[h] = NULL
  /\ \A s \in Source : registry[s] # h
  /\ \A d \in Data : h \notin loop[d]

(* Bug: the slot in the registry gets the wrong value of the Lua stack. *)
AddFunctionWrongSlot(s, d, ok, on) ==
  /\ ok
  /\ \E h \in Handle :
       /\ Fresh(h)
       /\ target' = [target EXCEPT ![h] = s]
       /\ seen' = [seen EXCEPT ![h] = on]
       /\ loop' = [loop EXCEPT ![d] = @ \cup {h}]
  /\ registry' = [registry EXCEPT ![s] = d]

(* ldbus_watch_add_function and ldbus_timeout_add_function; ok is what     *)
(* they return.  Without stack space they refuse at once.  Otherwise a new *)
(* handle goes to the registry and to the Lua function, which asks it      *)
(* whether the source is on (get_enabled) and puts it into its loop, or    *)
(* raises an error before or after it did so.  Out of memory makes libdbus *)
(* drop the source; another error is ignored.                              *)
AddFunction(s, d, ok, on) ==
  \/ /\ ~ok
     /\ UNCHANGED lua
  \/ \E h \in Handle :
       /\ Fresh(h)
       /\ registry' = [registry EXCEPT ![s] = h]
       /\ target' = [target EXCEPT ![h] = s]
       /\ seen' = [seen EXCEPT ![h] = on]
       /\ \/ ok /\ loop' = [loop EXCEPT ![d] = @ \cup {h}]
          \/ /\ IF ok THEN "error" \in Faults ELSE "memory" \in Faults
             /\ loop' \in {loop, [loop EXCEPT ![d] = @ \cup {h}]}

(* Bug: the handle is not invalidated. *)
RemoveFunctionDangles(s, d) ==
  /\ registry' = [registry EXCEPT ![s] = NULL]
  /\ loop' = [loop EXCEPT ![d] = @ \ {registry[s]}]
  /\ UNCHANGED <<target, seen>>

(* Bug: the slot in the registry is not cleared. *)
RemoveFunctionKeepsSlot(s, d) ==
  LET h == registry[s]
  IN  /\ loop' = [loop EXCEPT ![d] = @ \ {h}]
      /\ target' = IF h = NULL THEN target ELSE [target EXCEPT ![h] = NULL]
      /\ UNCHANGED <<registry, seen>>

(* Bug: the handle is invalidated before the Lua function sees it. *)
RemoveFunctionEarly(s, d) ==
  LET h == registry[s]
  IN  /\ registry' = [registry EXCEPT ![s] = NULL]
      /\ target' = IF h = NULL THEN target ELSE [target EXCEPT ![h] = NULL]
      /\ UNCHANGED <<loop, seen>>

(* ldbus_watch_remove_function and ldbus_timeout_remove_function: the slot *)
(* in the registry is cleared, the Lua function is called with what was in *)
(* it, and only then is the handle invalidated: the loop finds the entry   *)
(* to drop by what the handle still points to.  Errors are ignored.        *)
RemoveFunction(s, d) ==
  LET h == registry[s]
      found == IF h # NULL /\ target[h] # NULL THEN {h} ELSE {}
  IN  /\ registry' = [registry EXCEPT ![s] = NULL]
      /\ \/ loop' = [loop EXCEPT ![d] = @ \ found]
         \/ Faults # {} /\ loop' = loop
      /\ target' = IF h = NULL THEN target ELSE [target EXCEPT ![h] = NULL]
      /\ UNCHANGED seen

(* What set_watch_functions takes for the presence of argument 4: that it  *)
(* is nil.  It decides what is stored and what libdbus gets, while         *)
(* set_timeout_functions stores and installs the argument whatever it is.  *)
(* (An argument left out is not nil either: a toggled function without a   *)
(* Lua function to call is installed then, which does nothing.)            *)
HasToggle == ~PassToggle

(* Bug: set_timeout_functions makes the same mistake. *)
ToggleNeverStored == PassToggle /\ HasToggle

ToggleStored == PassToggle /\ (Kind = "watch" => HasToggle)
ToggleInstalled == Kind = "watch" => ~HasToggle

(* Bug: the Lua function is not found. *)
ToggledFunctionSilent(s, on) == UNCHANGED lua

(* ldbus_watch_toggled_function and ldbus_timeout_toggled_function: the    *)
(* Lua function reads the handle it gets; calling an absent one is an      *)
(* error that is ignored.                                                  *)
ToggledFunction(s, on) ==
  /\ seen' = IF ToggleStored /\ registry[s] # NULL
             THEN [seen EXCEPT ![registry[s]] = on]
             ELSE seen
  /\ UNCHANGED <<registry, target, loop>>

(* Bug: the data stays in the registry. *)
FreeDataNever(d) == UNCHANGED anchored

(* ldbus_watch_free_data_function and ldbus_timeout_free_data_function.    *)
FreeData(d) == anchored' = anchored \ {d}

----------------------------------------------------------------------------
(* set_watch_functions and set_timeout_functions.                          *)

SetFunctions(d) ==
  /\ phase = "idle"
  /\ d \notin anchored
  /\ installed # NULL => Reinstall
  /\ anchored' = anchored \cup {d}
  /\ incoming' = d
  /\ phase' = "adding" /\ todo' = live
  /\ UNCHANGED <<live, enabled, installed, ready, lua>>

(* libdbus shows its sources to the new add function; when it fails, those *)
(* already shown are to be taken back.                                     *)
AddExisting(s) ==
  /\ phase = "adding" /\ s \in todo
  /\ \/ /\ AddFunction(s, incoming, TRUE, enabled[s])
        /\ phase' = phase /\ todo' = todo \ {s}
     \/ /\ AddFunction(s, incoming, FALSE, enabled[s])
        /\ phase' = "undoing" /\ todo' = live \ todo
  /\ UNCHANGED <<live, enabled, installed, incoming, anchored, ready>>

UndoAdd(s) ==
  /\ phase = "undoing" /\ s \in todo
  /\ RemoveFunction(s, incoming)
  /\ todo' = todo \ {s}
  /\ UNCHANGED <<live, enabled, installed, phase, incoming, anchored, ready>>

(* libdbus reports the failure; the data is freed and an error is thrown.  *)
SetFails ==
  /\ phase = "undoing" /\ todo = {}
  /\ FreeData(incoming)
  /\ incoming' = NULL /\ phase' = "idle"
  /\ UNCHANGED <<live, enabled, installed, todo, ready, lua>>

AllAdded ==
  /\ phase = "adding" /\ todo = {}
  /\ phase' = "removing"
  /\ todo' = IF installed = NULL THEN {} ELSE live
  /\ UNCHANGED <<live, enabled, installed, incoming, anchored, ready, lua>>

RemoveOld(s) ==
  /\ phase = "removing" /\ s \in todo
  /\ RemoveFunction(s, installed)
  /\ todo' = todo \ {s}
  /\ UNCHANGED <<live, enabled, installed, phase, incoming, anchored, ready>>

SetSucceeds ==
  /\ phase = "removing" /\ todo = {}
  /\ IF installed = NULL THEN UNCHANGED anchored ELSE FreeData(installed)
  /\ installed' = incoming /\ incoming' = NULL /\ phase' = "idle"
  /\ UNCHANGED <<live, enabled, todo, ready, lua>>

----------------------------------------------------------------------------
(* libdbus: sources come, go, and are switched on and off.                 *)

NewSource(s, on) ==
  /\ phase = "idle" /\ s \notin live
  /\ enabled' = [enabled EXCEPT ![s] = on]
  /\ \/ /\ installed = NULL
        /\ live' = live \cup {s}
        /\ UNCHANGED lua
     \/ /\ installed # NULL
        /\ \/ AddFunction(s, installed, TRUE, on) /\ live' = live \cup {s}
           \/ AddFunction(s, installed, FALSE, on) /\ live' = live
  /\ UNCHANGED <<installed, phase, incoming, todo, anchored, ready>>

FreeSource(s) ==
  /\ phase = "idle" /\ s \in live
  /\ IF installed = NULL THEN UNCHANGED lua ELSE RemoveFunction(s, installed)
  /\ live' = live \ {s} /\ ready' = ready \ {s}
  /\ UNCHANGED <<enabled, installed, phase, incoming, todo, anchored>>

ToggleSource(s) ==
  /\ phase = "idle" /\ s \in live
  /\ enabled' = [enabled EXCEPT ![s] = ~@]
  /\ IF installed # NULL /\ ToggleInstalled
     THEN ToggledFunction(s, ~enabled[s]) ELSE UNCHANGED lua
  /\ UNCHANGED <<live, installed, phase, incoming, todo, anchored, ready>>

(* The connection is finalized, which drops the functions. *)
FreeConnection ==
  /\ phase = "idle" /\ live = {} /\ installed # NULL
  /\ FreeData(installed)
  /\ installed' = NULL
  /\ UNCHANGED <<live, enabled, phase, incoming, todo, ready, lua>>

BecomeReady(s) ==
  /\ phase = "idle" /\ s \in live
  /\ ready' = ready \cup {s}
  /\ UNCHANGED <<live, enabled, installed, phase, incoming, todo, anchored, lua>>

----------------------------------------------------------------------------
(* The main loop serves what its functions were given.  With a toggled     *)
(* function it relies on that; without one it asks get_enabled each time.  *)
(* An invalidated handle is refused by watch:handle and ignored by         *)
(* timeout:handle.                                                         *)
HandleSource(h) ==
  LET s == target[h]
  IN  /\ phase = "idle" /\ installed # NULL
      /\ h \in loop[installed]
      /\ s # NULL /\ s \in ready
      /\ IF PassToggle THEN seen[h] ELSE enabled[s]
      /\ ready' = ready \ {s}
      /\ UNCHANGED <<live, enabled, installed, phase, incoming, todo, anchored,
                     lua>>

Setting ==
  \/ \E s \in Source : AddExisting(s) \/ UndoAdd(s) \/ RemoveOld(s)
  \/ SetFails \/ AllAdded \/ SetSucceeds

Next ==
  \/ \E d \in Data : SetFunctions(d)
  \/ Setting
  \/ \E s \in Source :
       \/ \E on \in BOOLEAN : NewSource(s, on)
       \/ FreeSource(s) \/ ToggleSource(s) \/ BecomeReady(s)
  \/ FreeConnection
  \/ \E h \in Handle : HandleSource(h)

Spec == Init /\ [][Next]_vars

(* A call of set_*_functions runs to its end, and the loop serves what is  *)
(* ready and enabled sooner or later.                                      *)
Serve(s) == \E h \in Handle : target[h] = s /\ HandleSource(h)

Fairness ==
  /\ WF_vars(Setting)
  /\ \A s \in Source : WF_vars(Serve(s))

FairSpec == Spec /\ Fairness

----------------------------------------------------------------------------
(* Properties.                                                             *)

(* A handle never outlives its source with its pointer still set: whatever *)
(* Lua code kept a handle, handle() on it never reaches a freed source.    *)
(* watch.c: "We need to keep a reference to userdata around so we can      *)
(* invalidate it".                                                         *)
NoDanglingHandle == \A h \in Handle : target[h] # NULL => target[h] \in live

(* Between calls, the registry has exactly one slot per source in service, *)
(* and it holds a handle that points back to the source.                   *)
RegistryExact ==
  phase = "idle" =>
    \A s \in Source :
      IF s \in live /\ installed # NULL
      THEN registry[s] # NULL /\ target[registry[s]] = s
      ELSE registry[s] = NULL

(* Even when functions are replaced, or fail, a slot never holds the       *)
(* handle of another source, nor one that was invalidated.                 *)
RegistrySound ==
  \A s \in Source : registry[s] # NULL => target[registry[s]] = s

(* Between calls, the loop serves exactly the handles of the sources in    *)
(* service, also after an installation that failed half-way.               *)
LoopExact ==
  phase = "idle" =>
    \A d \in Data :
      loop[d] = IF d = installed THEN {registry[s] : s \in live} ELSE {}

(* The data blocks kept alive in the registry are exactly those libdbus    *)
(* may still call with: none is collected too early, none is leaked.       *)
DataAnchored == anchored = {installed, incoming} \ {NULL}

(* Installations use the registry as module Anchoring says: the new data   *)
(* comes into use beside the old, and takes its place or is given back.    *)
Place == {"installed", "incoming"}

Anchors == INSTANCE Anchoring WITH
  Slot <- Place,
  Block <- Data,
  used <- [p \in Place |-> IF p = "installed" THEN installed ELSE incoming],
  kept <- anchored

AnchoringImplemented == Anchors!Spec

(* A loop that is told of toggles knows which of its sources are enabled.  *)
ToggleSeen ==
  PassToggle /\ phase = "idle" /\ installed # NULL =>
    \A h \in loop[installed] :
      target[h] # NULL => seen[h] = enabled[target[h]]

(* What is ready and stays enabled and installed gets served. *)
Served ==
  \A s \in Source :
    s \in ready ~> (s \notin ready \/ ~enabled[s] \/ installed = NULL)
=============================================================================
