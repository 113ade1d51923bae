------------------------------ MODULE ObjectPaths ------------------------------
(***************************************************************************)
(* Message handlers for object paths: register_object_path,                *)
(* register_fallback, unregister_object_path and message_function of       *)
(* src/src/connection.c, under libdbus' dispatch.                          *)
(*                                                                         *)
(* A handler is a Lua function in a data block in the Lua registry;        *)
(* libdbus has the address of the block in its tree of object paths.  It   *)
(* calls the handler of a message's path, then the fallbacks of the paths  *)
(* above it, until one handles the message.  The tree is unlocked while a  *)
(* handler runs, so that handlers register and unregister paths, their own *)
(* included, in the middle of a dispatch.                                  *)
(*                                                                         *)
(* A handler runs on the Lua thread that registered it.  What it leaves on *)
(* the stack of the thread that dispatches is dropped when dispatch        *)
(* returns to Lua; what it leaves on another thread stays.                 *)
(***************************************************************************)
EXTENDS Integers, Sequences

CONSTANTS
  Path,      \* object paths
  Up,        \* Up[p]: p and the paths above it
  Data,      \* data blocks of registrations
  Foreign,   \* the data blocks registered by a thread that does not dispatch
  NULL,      \* no path, no data
  MaxStack,  \* slots on the stack of that thread
  MaxQueue,  \* bound: messages in the queue
  Faults     \* what handlers and libdbus may run into: "error", "memory"

ASSUME NullAssumption == NULL \notin Path \cup Data
ASSUME UpAssumption ==
  /\ Up \in [Path -> SUBSET Path]
  /\ \A p \in Path : p \in Up[p] /\ \A q \in Up[p] : Up[q] \subseteq Up[p]
  /\ \A p, q \in Path : q \in Up[p] /\ p \in Up[q] => p = q
  /\ \A p \in Path : \A q, r \in Up[p] : q \in Up[r] \/ r \in Up[q]
ASSUME ForeignAssumption == Foreign \subseteq Data
ASSUME BoundsAssumption == MaxStack \in Nat /\ MaxQueue \in Nat
ASSUME FaultsAssumption == Faults \subseteq {"error", "memory"}

VARIABLES
  tree,      \* libdbus: the data of the handler of each path, or NULL
  fallback,  \* libdbus: whether that handler is a fallback
  queue,     \* libdbus: the paths of the messages to dispatch
  current,   \* libdbus: the path of the message being dispatched, or NULL
  chain,     \* libdbus: the paths left to try, with the data each had then
  calling,   \* the data of the handler that is running, or NULL
  anchored,  \* the data blocks in the Lua registry
  left,      \* values left on the stack of the thread of Foreign
  tried      \* history: the paths of the handlers called in this attempt

vars == <<tree, fallback, queue, current, chain, calling, anchored, left, tried>>

TypeOK ==
  /\ tree \in [Path -> Data \cup {NULL}]
  /\ fallback \in [Path -> BOOLEAN]
  /\ queue \in Seq(Path)
  /\ current \in Path \cup {NULL}
  /\ chain \subseteq Path \X Data
  /\ calling \in Data \cup {NULL}
  /\ anchored \subseteq Data
  /\ left \in 0 .. MaxStack
  /\ tried \in Seq(Path)

Init ==
  /\ tree = [p \in Path |-> NULL] /\ fallback = [p \in Path |-> FALSE]
  /\ queue = <<>> /\ current = NULL /\ chain = {} /\ calling = NULL
  /\ anchored = {} /\ left = 0 /\ tried = <<>>

----------------------------------------------------------------------------
(* Bug: the data is not taken out of the registry again. *)
RegisterLeaks(p, d, fb) ==
  /\ d \notin anchored
  /\ anchored' = anchored \cup {d}
  /\ IF tree[p] = NULL
     THEN /\ tree' = [tree EXCEPT ![p] = d]
          /\ fallback' = [fallback EXCEPT ![p] = fb]
     ELSE UNCHANGED <<tree, fallback>>
  /\ UNCHANGED <<queue, current, chain, calling, left, tried>>

(* Bug: the data taken out is that of the handler the path has already. *)
RegisterFreesOther(p, d, fb) ==
  /\ d \notin anchored
  /\ IF tree[p] = NULL
     THEN /\ tree' = [tree EXCEPT ![p] = d]
          /\ fallback' = [fallback EXCEPT ![p] = fb]
          /\ anchored' = anchored \cup {d}
     ELSE /\ anchored' = anchored \ {tree[p]}
          /\ UNCHANGED <<tree, fallback>>
  /\ UNCHANGED <<queue, current, chain, calling, left, tried>>

(* register_object_path and register_fallback (fb).  The data goes into    *)
(* the registry first; when libdbus refuses, because the path has a        *)
(* handler or for lack of memory, it is taken out again.                   *)
Register(p, d, fb) ==
  /\ d \notin anchored
  /\ \E ok \in BOOLEAN :
       /\ ok => tree[p] = NULL
       /\ ~ok => tree[p] # NULL \/ "memory" \in Faults
       /\ tree' = IF ok THEN [tree EXCEPT ![p] = d] ELSE tree
       /\ fallback' = IF ok THEN [fallback EXCEPT ![p] = fb] ELSE fallback
       /\ anchored' = IF ok THEN anchored \cup {d} ELSE anchored \ {d}
  /\ UNCHANGED <<queue, current, chain, calling, left, tried>>

(* unregister_function, which libdbus calls for a path that loses its      *)
(* handler.                                                                *)
UnregisterFunction(d) == anchored' = anchored \ {d}

UnregisterObjectPath(p) ==
  /\ tree[p] # NULL
  /\ UnregisterFunction(tree[p])
  /\ tree' = [tree EXCEPT ![p] = NULL]
  /\ fallback' = [fallback EXCEPT ![p] = FALSE]
  /\ UNCHANGED <<queue, current, chain, calling, left, tried>>

----------------------------------------------------------------------------
(* dispatch.                                                               *)

(* libdbus: the handlers for a message to p. *)
Handlers(p) ==
  {<<q, tree[q]>> : q \in {q \in Up[p] : tree[q] # NULL /\ (q = p \/ fallback[q])}}

MessageArrives(p) ==
  /\ calling = NULL /\ current = NULL
  /\ Len(queue) < MaxQueue
  /\ queue' = Append(queue, p)
  /\ UNCHANGED <<tree, fallback, current, chain, calling, anchored, left, tried>>

Dispatch ==
  /\ current = NULL /\ queue # <<>>
  /\ current' = Head(queue) /\ queue' = Tail(queue)
  /\ chain' = Handlers(Head(queue)) /\ tried' = <<>>
  /\ UNCHANGED <<tree, fallback, calling, anchored, left>>

(* libdbus puts a message back when a handler needs memory, to go through  *)
(* all its handlers again.                                                 *)
NeedMemory ==
  /\ queue' = <<current>> \o queue
  /\ current' = NULL /\ chain' = {} /\ calling' = NULL
  /\ left' = left

(* The most specific path left to try. *)
IsNext(c) == c \in chain /\ \A e \in chain : e[1] \in Up[c[1]]

(* Bug: no check for room on the stack. *)
CallHandlerUnchecked(c) ==
  /\ current # NULL /\ calling = NULL /\ IsNext(c)
  /\ tree[c[1]] # NULL
  /\ calling' = tree[c[1]] /\ chain' = chain \ {c}
  /\ tried' = Append(tried, c[1])
  /\ UNCHANGED <<tree, fallback, queue, current, anchored, left>>

(* Bug: more room is asked for than the Lua function needs. *)
CallHandlerGreedy(c) ==
  LET p == c[1]
      d == tree[p]
      full == d \in Foreign /\ left + 1 >= MaxStack
  IN  /\ current # NULL /\ calling = NULL /\ IsNext(c)
      /\ \/ /\ d # c[2]
            /\ chain' = chain \ {c}
            /\ UNCHANGED <<queue, current, calling, left, tried>>
         \/ d # NULL /\ full /\ NeedMemory /\ UNCHANGED tried
         \/ /\ d # NULL /\ ~full
            /\ calling' = d /\ chain' = chain \ {c}
            /\ tried' = Append(tried, p)
            /\ UNCHANGED <<queue, current, left>>
      /\ UNCHANGED <<tree, fallback, anchored>>

(* libdbus passes over a path unregistered in the meantime; one registered *)
(* again it calls or passes over, as it kept the node of the path or not.  *)
(* message_function calls the Lua function, if the stack of its thread has *)
(* room.                                                                   *)
CallHandler(c) ==
  LET p == c[1]
      d == tree[p]
      full == d \in Foreign /\ left = MaxStack
  IN  /\ current # NULL /\ calling = NULL /\ IsNext(c)
      /\ \/ /\ d # c[2]
            /\ chain' = chain \ {c}
            /\ UNCHANGED <<queue, current, calling, left, tried>>
         \/ d # NULL /\ full /\ NeedMemory /\ UNCHANGED tried
         \/ /\ d # NULL /\ ~full
            /\ calling' = d /\ chain' = chain \ {c}
            /\ tried' = Append(tried, p)
            /\ UNCHANGED <<queue, current, left>>
      /\ UNCHANGED <<tree, fallback, anchored>>

(* Bug: a handler that raises an error is called again. *)
HandlerReturnsAgain(result) ==
  /\ calling # NULL
  /\ calling' = NULL
  /\ current' = IF result = "true" THEN NULL ELSE current
  /\ chain' = IF result = "error" THEN chain \cup {<<tried[Len(tried)], calling>>}
              ELSE IF result = "true" THEN {} ELSE chain
  /\ UNCHANGED <<tree, fallback, queue, anchored, left, tried>>

(* message_function after the Lua function: a true result ends the         *)
(* dispatch, a false one and an error pass the message on.  The result     *)
(* stays on the stack; an error message is popped.                         *)
HandlerReturns(result) ==
  LET leaves == calling \in Foreign /\ result \in {"true", "false"}
  IN  /\ calling # NULL
      /\ \/ result = "memory" /\ NeedMemory
         \/ /\ result # "memory"
            /\ calling' = NULL
            /\ left' = IF leaves THEN left + 1 ELSE left
            /\ current' = IF result = "true" THEN NULL ELSE current
            /\ chain' = IF result = "true" THEN {} ELSE chain
            /\ UNCHANGED queue
      /\ UNCHANGED <<tree, fallback, anchored, tried>>

(* libdbus: nobody handled the message; a call is answered with an error.  *)
NotHandled ==
  /\ current # NULL /\ calling = NULL /\ chain = {}
  /\ current' = NULL
  /\ UNCHANGED <<tree, fallback, queue, chain, calling, anchored, left, tried>>

(* The thread of Foreign runs on in Lua, which drops what was left there.  *)
Resume ==
  /\ left > 0 /\ calling \notin Foreign
  /\ left' = 0
  /\ UNCHANGED <<tree, fallback, queue, current, chain, calling, anchored, tried>>

(* The connection is finalized: libdbus unregisters every path.            *)
FreeConnection ==
  /\ current = NULL
  /\ anchored' = anchored \ {tree[p] : p \in Path}
  /\ tree' = [p \in Path |-> NULL] /\ fallback' = [p \in Path |-> FALSE]
  /\ queue' = <<>>
  /\ UNCHANGED <<current, chain, calling, left, tried>>

Dispatching ==
  \/ Dispatch \/ NotHandled
  \/ \E c \in chain : CallHandler(c)
  \/ \E result \in {"true", "false"} \cup Faults : HandlerReturns(result)

Next ==
  \/ \E p \in Path :
       \/ \E d \in Data, fb \in BOOLEAN : Register(p, d, fb)
       \/ UnregisterObjectPath(p) \/ MessageArrives(p)
  \/ Dispatching
  \/ Resume \/ FreeConnection

Spec == Init /\ [][Next]_vars

(* The main loop goes on dispatching, and handlers return.                 *)
FairSpec == Spec /\ WF_vars(Dispatching)

----------------------------------------------------------------------------
(* Properties.                                                             *)

(* The handlers kept alive in the registry are those in libdbus' tree,     *)
(* also after a registration that failed and while handlers unregister     *)
(* each other: libdbus never calls with a block that was collected, and no *)
(* block is leaked.                                                        *)
HandlersAnchored == anchored = {tree[p] : p \in Path} \ {NULL}

(* Registrations that succeed, fail and end use the registry as module     *)
(* Anchoring says.                                                         *)
Anchors == INSTANCE Anchoring WITH
  Slot <- Path, Block <- Data, used <- tree, kept <- anchored

AnchoringImplemented == Anchors!Spec

(* message_function never starts on a data block that has left the         *)
(* registry since libdbus made its list of handlers.                       *)
NoStaleHandler ==
  [][calling' \notin {NULL, calling} => calling' \in anchored]_vars

(* In one attempt, the handlers called are those of ever higher paths, so  *)
(* none is called twice, whatever is registered and unregistered meanwhile.*)
MostSpecificFirst ==
  \A i, j \in DOMAIN tried :
    i < j => tried[i] # tried[j] /\ tried[j] \in Up[tried[i]]

(* Every message is dealt with in the end: the queue drains or messages go *)
(* on leaving it, as long as the stack of the thread that registered the   *)
(* handlers has room and handlers do not keep running out of memory, which *)
(* makes libdbus try a message again.                                      *)
Drains ==
  \/ []<>((queue = <<>> /\ current = NULL) \/ left = MaxStack)
  \/ []<><<NotHandled \/ HandlerReturns("true")>>_vars
  \/ []<><<HandlerReturns("memory")>>_vars
=============================================================================
