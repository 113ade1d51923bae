--------------------------- MODULE ObjectPathsProofs ---------------------------
(***************************************************************************)
(* Proofs about ObjectPaths, for every tree of paths, every number of      *)
(* handlers, every length of the queue and every size of the stack.        *)
(***************************************************************************)
EXTENDS ObjectPaths, TLAPS

(* No two paths have the same data block: it enters the tree only from     *)
(* outside the registry, and what is in the tree is in the registry.       *)
DataPrivate ==
  \A p, q \in Path : tree[p] = tree[q] /\ tree[p] # NULL => p = q

(* A handler is called only for a message being dispatched, and when the   *)
(* stack has room for its result.                                          *)
Room ==
  /\ calling # NULL => current # NULL
  /\ calling \in Foreign => left < MaxStack

(* What is left to try lies strictly above what was tried. *)
ChainAbove ==
  /\ \A c, e \in chain : c[1] = e[1] => c = e
  /\ \A i \in DOMAIN tried, c \in chain :
       tried[i] # c[1] /\ c[1] \in Up[tried[i]]

IInv ==
  TypeOK /\ HandlersAnchored /\ DataPrivate /\ Room /\ ChainAbove /\ MostSpecificFirst

(* The inductive invariant holds initially. *)
LEMMA InitIInv == Init => IInv
<1> SUFFICES ASSUME Init PROVE IInv
  OBVIOUS
<1>1. TypeOK /\ HandlersAnchored /\ DataPrivate
  BY BoundsAssumption DEF Init, TypeOK, HandlersAnchored, DataPrivate
<1>2. Room
  BY ForeignAssumption, NullAssumption DEF Init, Room
<1>3. ChainAbove /\ MostSpecificFirst
  BY DEF Init, ChainAbove, MostSpecificFirst
<1>4. QED
  BY <1>1, <1>2, <1>3 DEF IInv

(* Only registering and unregistering touch the tree and the registry; the *)
(* order of handlers depends on neither.                                   *)
LEMMA SameDispatch ==
  ASSUME IInv, UNCHANGED <<current, chain, calling, left, tried>>
  PROVE  Room' /\ ChainAbove' /\ MostSpecificFirst'
  BY DEF IInv, Room, ChainAbove, MostSpecificFirst

(* Registering a path keeps registry and tree in step, whether libdbus     *)
(* takes the handler or not.                                               *)
LEMMA RegisterIInv ==
  ASSUME IInv, NEW p \in Path, NEW d \in Data, NEW fb \in BOOLEAN,
         Register(p, d, fb)
  PROVE  IInv'
<1> USE NullAssumption
<1>1. PICK ok \in BOOLEAN :
        /\ ok => tree[p] = NULL
        /\ tree' = IF ok THEN [tree EXCEPT ![p] = d] ELSE tree
        /\ fallback' = IF ok THEN [fallback EXCEPT ![p] = fb] ELSE fallback
        /\ anchored' = IF ok THEN anchored \cup {d} ELSE anchored \ {d}
  BY DEF Register
<1>2. /\ d \notin anchored
      /\ UNCHANGED <<queue, current, chain, calling, left, tried>>
  BY DEF Register
<1>3. TypeOK'
  BY <1>1, <1>2 DEF IInv, TypeOK
<1>4. CASE ~ok
  <2>1. tree' = tree /\ anchored' = anchored
    BY <1>1, <1>2, <1>4
  <2>2. HandlersAnchored' /\ DataPrivate'
    BY <2>1 DEF IInv, HandlersAnchored, DataPrivate
  <2>3. QED
    BY <1>2, <1>3, <2>2, SameDispatch DEF IInv
<1>5. CASE ok
  <2>1. /\ tree' = [tree EXCEPT ![p] = d] /\ anchored' = anchored \cup {d}
        /\ tree[p] = NULL
    BY <1>1, <1>5
  <2>2. \A q \in Path : tree[q] # d
    BY <1>2 DEF IInv, TypeOK, HandlersAnchored
  <2>3. HandlersAnchored'
    BY <2>1 DEF IInv, TypeOK, HandlersAnchored
  <2>4. DataPrivate'
    BY <2>1, <2>2 DEF IInv, TypeOK, DataPrivate
  <2>5. QED
    BY <1>2, <1>3, <2>3, <2>4, SameDispatch DEF IInv
<1>6. QED
  BY <1>4, <1>5

(* So does unregistering one. *)
LEMMA UnregisterIInv ==
  ASSUME IInv, NEW p \in Path, UnregisterObjectPath(p)
  PROVE  IInv'
<1>1. /\ tree' = [tree EXCEPT ![p] = NULL]
      /\ fallback' = [fallback EXCEPT ![p] = FALSE]
      /\ anchored' = anchored \ {tree[p]} /\ tree[p] # NULL
      /\ UNCHANGED <<queue, current, chain, calling, left, tried>>
  BY DEF UnregisterObjectPath, UnregisterFunction
<1>2. TypeOK'
  BY <1>1 DEF IInv, TypeOK
<1>3. HandlersAnchored'
  BY <1>1 DEF IInv, TypeOK, HandlersAnchored, DataPrivate
<1>4. DataPrivate'
  BY <1>1 DEF IInv, TypeOK, DataPrivate
<1>5. QED
  BY <1>1, <1>2, <1>3, <1>4, SameDispatch DEF IInv

(* And dropping the connection. *)
LEMMA FreeConnectionIInv == IInv /\ FreeConnection => IInv'
<1> SUFFICES ASSUME IInv, FreeConnection PROVE IInv'
  OBVIOUS
<1>1. TypeOK'
  BY DEF IInv, TypeOK, FreeConnection
<1>2. HandlersAnchored' /\ DataPrivate'
  BY NullAssumption DEF IInv, TypeOK, HandlersAnchored, DataPrivate, FreeConnection
<1>3. QED
  BY <1>1, <1>2, SameDispatch DEF IInv, FreeConnection

(* The list of handlers made for a message. *)
LEMMA HandlersTyped ==
  ASSUME TypeOK, NEW p \in Path
  PROVE  /\ Handlers(p) \subseteq Path \X Data
         /\ \A c, e \in Handlers(p) : c[1] = e[1] => c = e
<1>1. \A q \in Up[p] : q \in Path
  BY UpAssumption
<1>2. \A c \in Handlers(p) : \E q \in Path : c = <<q, tree[q]>> /\ tree[q] # NULL
  BY <1>1 DEF Handlers
<1>3. \A c \in Handlers(p) : c = <<c[1], tree[c[1]]>> /\ c \in Path \X Data
  BY <1>2 DEF TypeOK
<1>4. QED
  BY <1>3

(* Putting a message back. *)
LEMMA NeedMemoryTyped ==
  ASSUME TypeOK, current # NULL, NeedMemory
  PROVE  /\ queue' \in Seq(Path) /\ current' = NULL /\ chain' = {}
         /\ calling' = NULL /\ left' = left
  BY DEF TypeOK, NeedMemory

(* Starting a dispatch, and going from one handler to the next. *)
LEMMA DispatchIInv == IInv /\ Dispatch => IInv'
<1> SUFFICES ASSUME IInv, Dispatch PROVE IInv'
  OBVIOUS
<1>1. /\ Head(queue) \in Path /\ Tail(queue) \in Seq(Path)
      /\ chain' = Handlers(Head(queue)) /\ tried' = <<>>
      /\ UNCHANGED <<tree, fallback, calling, anchored, left>>
  BY DEF IInv, TypeOK, Dispatch
<1>2. TypeOK'
  BY <1>1, HandlersTyped DEF IInv, TypeOK, Dispatch
<1>3. ChainAbove' /\ MostSpecificFirst'
  BY <1>1, HandlersTyped DEF IInv, ChainAbove, MostSpecificFirst
<1>4. Room'
  BY <1>1, <1>2, NullAssumption DEF IInv, TypeOK, Room, Dispatch
<1>5. QED
  BY <1>1, <1>2, <1>3, <1>4 DEF IInv, HandlersAnchored, DataPrivate

LEMMA CallHandlerIInv ==
  ASSUME IInv, NEW c \in chain, CallHandler(c)
  PROVE  IInv' /\ (calling' # NULL => calling' \in anchored)
<1> DEFINE p == c[1]
           d == tree[p]
           full == d \in Foreign /\ left = MaxStack
<1>1. /\ current # NULL /\ calling = NULL /\ IsNext(c)
      /\ UNCHANGED <<tree, fallback, anchored>>
      /\ p \in Path /\ d \in Data \cup {NULL}
  BY DEF CallHandler, IInv, TypeOK
<1>2. HandlersAnchored' /\ DataPrivate'
  BY <1>1 DEF IInv, HandlersAnchored, DataPrivate
<1>3. CASE /\ d # c[2] /\ chain' = chain \ {c}
           /\ UNCHANGED <<queue, current, calling, left, tried>>
  <2>1. TypeOK' /\ Room' /\ ChainAbove' /\ MostSpecificFirst'
    BY <1>1, <1>3 DEF IInv, TypeOK, Room, ChainAbove, MostSpecificFirst
  <2>2. QED
    BY <1>1, <1>2, <1>3, <2>1 DEF IInv
<1>4. CASE d # NULL /\ full /\ NeedMemory /\ UNCHANGED tried
  <2>1. /\ queue' \in Seq(Path) /\ current' = NULL /\ chain' = {}
        /\ calling' = NULL /\ left' = left
    BY <1>1, <1>4, NeedMemoryTyped DEF IInv
  <2>2. TypeOK' /\ ChainAbove' /\ MostSpecificFirst'
    BY <1>1, <1>4, <2>1 DEF IInv, TypeOK, ChainAbove, MostSpecificFirst
  <2>3. Room'
    BY <2>1, ForeignAssumption, NullAssumption DEF Room
  <2>4. QED
    BY <1>2, <2>1, <2>2, <2>3 DEF IInv
<1>5. CASE /\ d # NULL /\ ~full /\ calling' = d /\ chain' = chain \ {c}
           /\ tried' = Append(tried, p)
           /\ UNCHANGED <<queue, current, left>>
  <2>1. TypeOK'
    BY <1>1, <1>5 DEF IInv, TypeOK
  <2>2. Room'
    BY <1>1, <1>5, BoundsAssumption DEF IInv, TypeOK, Room
  <2>3. /\ tried \in Seq(Path) /\ tried' \in Seq(Path)
        /\ DOMAIN tried = 1 .. Len(tried)
        /\ DOMAIN tried' = 1 .. Len(tried) + 1
        /\ Len(tried) \in Nat
        /\ tried'[Len(tried) + 1] = p
        /\ \A i \in 1 .. Len(tried) : tried'[i] = tried[i]
    BY <1>1, <1>5 DEF IInv, TypeOK
  <2>4. \A i \in 1 .. Len(tried) : tried[i] # p /\ p \in Up[tried[i]]
    BY <2>3 DEF IInv, ChainAbove
  <2>5. \A e \in chain \ {c} : e[1] # p /\ e[1] \in Up[p]
    BY <1>1 DEF IsNext, IInv, ChainAbove
  <2>6. ASSUME NEW i \in DOMAIN tried', NEW e \in chain'
        PROVE  tried'[i] # e[1] /\ e[1] \in Up[tried'[i]]
    <3>1. CASE i = Len(tried) + 1
      BY <1>5, <2>3, <2>5, <3>1
    <3>2. CASE i \in 1 .. Len(tried)
      BY <1>5, <2>3, <3>2 DEF IInv, ChainAbove
    <3>3. QED
      BY <2>3, <3>1, <3>2
  <2>7. ChainAbove'
    BY <1>5, <2>6 DEF IInv, ChainAbove
  <2>8. ASSUME NEW i \in DOMAIN tried', NEW j \in DOMAIN tried', i < j
        PROVE  tried'[i] # tried'[j] /\ tried'[j] \in Up[tried'[i]]
    <3>1. i \in 1 .. Len(tried)
      BY <2>3, <2>8
    <3>2. CASE j = Len(tried) + 1
      BY <2>3, <2>4, <3>1, <3>2
    <3>3. CASE j \in 1 .. Len(tried)
      BY <2>3, <2>8, <3>1, <3>3 DEF IInv, MostSpecificFirst
    <3>4. QED
      BY <2>3, <3>2, <3>3
  <2>9. MostSpecificFirst'
    BY <2>8 DEF MostSpecificFirst
  <2>10. d \in anchored
    BY <1>1, <1>5 DEF IInv, HandlersAnchored
  <2>11. QED
    BY <1>2, <1>5, <2>1, <2>2, <2>7, <2>9, <2>10 DEF IInv
<1>6. QED
  BY <1>3, <1>4, <1>5 DEF CallHandler

LEMMA HandlerReturnsIInv ==
  ASSUME IInv, NEW result, HandlerReturns(result)
  PROVE  IInv' /\ calling' = NULL
<1>1. UNCHANGED <<tree, fallback, anchored, tried>> /\ calling # NULL
  BY DEF HandlerReturns
<1>2. HandlersAnchored' /\ DataPrivate' /\ MostSpecificFirst'
  BY <1>1 DEF IInv, HandlersAnchored, DataPrivate, MostSpecificFirst
<1>3. CASE result = "memory" /\ NeedMemory
  <2>1. /\ queue' \in Seq(Path) /\ current' = NULL /\ chain' = {}
        /\ calling' = NULL /\ left' = left
    BY <1>1, <1>3, NeedMemoryTyped DEF IInv, Room
  <2>2. TypeOK' /\ ChainAbove'
    BY <1>1, <2>1 DEF IInv, TypeOK, ChainAbove
  <2>3. Room'
    BY <2>1, ForeignAssumption, NullAssumption DEF Room
  <2>4. QED
    BY <1>2, <2>1, <2>2, <2>3 DEF IInv
<1>4. CASE /\ result # "memory"
           /\ calling' = NULL
           /\ left' \in {left, left + 1}
           /\ left' = left + 1 => calling \in Foreign
           /\ current' \in {NULL, current} /\ chain' \in {{}, chain}
           /\ UNCHANGED queue
  <2>1. left' \in 0 .. MaxStack
    BY <1>4, BoundsAssumption DEF IInv, TypeOK, Room
  <2>2. TypeOK'
    BY <1>1, <1>4, <2>1 DEF IInv, TypeOK
  <2>3. Room'
    BY <1>4, ForeignAssumption, NullAssumption DEF Room
  <2>4. ChainAbove'
    BY <1>1, <1>4 DEF IInv, ChainAbove
  <2>5. QED
    BY <1>2, <1>4, <2>2, <2>3, <2>4 DEF IInv
<1>5. ASSUME left \in Nat PROVE left + 1 # left
  BY <1>5
<1>6. QED
  BY <1>3, <1>4, <1>5 DEF HandlerReturns, IInv, TypeOK

(* Every step preserves the invariant, and calls only what is registered.  *)
LEMMA StepIInv ==
  IInv /\ [Next]_vars => IInv' /\ (calling' \notin {NULL, calling} => calling' \in anchored)
<1> SUFFICES ASSUME IInv, [Next]_vars
             PROVE  IInv' /\ (calling' \notin {NULL, calling} => calling' \in anchored)
  OBVIOUS
<1>1. ASSUME NEW p \in Path, NEW d \in Data, NEW fb \in BOOLEAN, Register(p, d, fb)
      PROVE  IInv' /\ calling' = calling
  BY <1>1, RegisterIInv DEF Register
<1>2. ASSUME NEW p \in Path, UnregisterObjectPath(p)
      PROVE  IInv' /\ calling' = calling
  BY <1>2, UnregisterIInv DEF UnregisterObjectPath
<1>3. ASSUME NEW p \in Path, MessageArrives(p) PROVE IInv' /\ calling' = calling
  <2>1. UNCHANGED <<tree, fallback, current, chain, calling, anchored, left, tried>>
        /\ queue' = Append(queue, p)
    BY <1>3 DEF MessageArrives
  <2>2. TypeOK'
    BY <2>1 DEF IInv, TypeOK
  <2>3. HandlersAnchored' /\ DataPrivate'
    BY <2>1 DEF IInv, HandlersAnchored, DataPrivate
  <2>4. QED
    BY <2>1, <2>2, <2>3, SameDispatch DEF IInv
<1>4. CASE Dispatch
  BY <1>4, DispatchIInv DEF Dispatch
<1>5. CASE \E c \in chain : CallHandler(c)
  BY <1>5, CallHandlerIInv
<1>6. CASE \E result \in {"true", "false"} \cup Faults : HandlerReturns(result)
  BY <1>6, HandlerReturnsIInv
<1>7. CASE NotHandled
  <2>1. UNCHANGED <<tree, fallback, queue, chain, calling, anchored, left, tried>>
        /\ current' = NULL /\ calling = NULL
    BY <1>7 DEF NotHandled
  <2>2. TypeOK' /\ HandlersAnchored' /\ DataPrivate'
    BY <2>1 DEF IInv, TypeOK, HandlersAnchored, DataPrivate
  <2>3. Room' /\ ChainAbove' /\ MostSpecificFirst'
    BY <2>1 DEF IInv, Room, ChainAbove, MostSpecificFirst
  <2>4. QED
    BY <2>1, <2>2, <2>3 DEF IInv
<1>8. CASE Resume
  <2>1. UNCHANGED <<tree, fallback, queue, current, chain, calling, anchored, tried>>
        /\ left' = 0 /\ calling \notin Foreign
    BY <1>8 DEF Resume
  <2>2. TypeOK'
    BY <2>1, BoundsAssumption DEF IInv, TypeOK
  <2>3. HandlersAnchored' /\ DataPrivate'
    BY <2>1 DEF IInv, HandlersAnchored, DataPrivate
  <2>4. Room' /\ ChainAbove' /\ MostSpecificFirst'
    BY <2>1 DEF IInv, Room, ChainAbove, MostSpecificFirst
  <2>5. QED
    BY <2>1, <2>2, <2>3, <2>4 DEF IInv
<1>9. CASE FreeConnection
  BY <1>9, FreeConnectionIInv DEF FreeConnection
<1>10. CASE UNCHANGED vars
  <2>1. TypeOK' /\ HandlersAnchored' /\ DataPrivate'
    BY <1>10 DEF IInv, TypeOK, HandlersAnchored, DataPrivate, vars
  <2>2. QED
    BY <1>10, <2>1, SameDispatch DEF IInv, vars
<1>11. QED
  BY <1>1, <1>2, <1>3, <1>4, <1>5, <1>6, <1>7, <1>8, <1>9, <1>10
     DEF Next, Dispatching

----------------------------------------------------------------------------
(* The variables of the handlers of object paths keep their types; the     *)
(* stack of a foreign thread never overflows.                              *)
THEOREM TypeCorrect == Spec => []TypeOK
<1>1. IInv => TypeOK
  BY DEF IInv
<1>2. QED
  BY <1>1, InitIInv, StepIInv, PTL DEF Spec

(* register_object_path, register_fallback and unregister_function keep    *)
(* the Lua registry equal to the tree of libdbus: no handler is collected  *)
(* while it can be called, and none is kept longer.                        *)
THEOREM HandlersStayAlive == Spec => []HandlersAnchored
<1>1. IInv => HandlersAnchored
  BY DEF IInv
<1>2. QED
  BY <1>1, InitIInv, StepIInv, PTL DEF Spec

(* message_function is only ever started on data that is in the registry,  *)
(* although handlers come and go while a message is dispatched.            *)
THEOREM NoHandlerAfterUnregister == Spec => NoStaleHandler
<1>1. IInv /\ [Next]_vars => [calling' \notin {NULL, calling} => calling' \in anchored]_vars
  BY StepIInv
<1>2. IInv /\ [Next]_vars => IInv'
  BY StepIInv
<1>3. QED
  BY <1>1, <1>2, InitIInv, PTL DEF Spec, NoStaleHandler

(* Handlers are tried upwards, each path once in an attempt, whatever is   *)
(* registered and unregistered in the middle of it.                        *)
THEOREM TriedUpwards == Spec => []MostSpecificFirst
<1>1. IInv => MostSpecificFirst
  BY DEF IInv
<1>2. QED
  BY <1>1, InitIInv, StepIInv, PTL DEF Spec

----------------------------------------------------------------------------
(* The registry.                                                           *)

(* Every step is one of module Anchoring, or leaves the registry alone.    *)
LEMMA AnchoringStep ==
  IInv /\ IInv' /\ [Next]_vars => [Anchors!Next]_(Anchors!vars)
<1> SUFFICES ASSUME IInv, IInv', [Next]_vars
             PROVE  [Anchors!Next]_(Anchors!vars)
  OBVIOUS
<1>k. anchored' = {tree'[p] : p \in Path} \ {NULL}
  BY DEF IInv, HandlersAnchored
<1>g. Anchors!GiveBack => Anchors!Next
  BY <1>k DEF Anchors!Next
<1>u. UNCHANGED <<tree, anchored>> => UNCHANGED Anchors!vars
  BY DEF Anchors!vars
<1>1. ASSUME NEW p \in Path, NEW d \in Data, NEW fb \in BOOLEAN,
             Register(p, d, fb)
      PROVE  [Anchors!Next]_(Anchors!vars)
  <2>1. d \notin anchored
    BY <1>1 DEF Register
  <2>2. \/ tree' = [tree EXCEPT ![p] = d]
        \/ tree' = tree /\ anchored' = anchored \ {d}
    BY <1>1 DEF Register
  <2>3. CASE tree' = [tree EXCEPT ![p] = d]
    <3>1. Anchors!Install(p, d)
      BY <2>1, <2>3 DEF Anchors!Install
    <3>2. QED
      BY <1>k, <3>1 DEF Anchors!Next
  <2>4. CASE tree' = tree /\ anchored' = anchored \ {d}
    BY <1>u, <2>1, <2>4
  <2>5. QED
    BY <2>2, <2>3, <2>4
<1>2. ASSUME NEW p \in Path, UnregisterObjectPath(p) PROVE Anchors!GiveBack
  <2>1. tree' = [tree EXCEPT ![p] = NULL] /\ tree \in [Path -> Data \cup {NULL}]
    BY <1>2 DEF UnregisterObjectPath, IInv, TypeOK
  <2>2. tree' = [q \in Path |-> IF q = p THEN NULL ELSE tree[q]]
    BY <2>1
  <2>3. \A q \in Path : (IF tree'[q] = NULL THEN NULL ELSE tree[q]) = tree'[q]
    BY <2>2
  <2>4. QED
    BY <2>2, <2>3 DEF Anchors!GiveBack
<1>3. CASE FreeConnection
  <2>1. tree' = [p \in Path |-> NULL]
    BY <1>3 DEF FreeConnection
  <2>2. Anchors!GiveBack
    BY <2>1 DEF Anchors!GiveBack
  <2>3. QED
    BY <1>g, <2>2
<1>4. ASSUME \/ Dispatching \/ Resume \/ UNCHANGED vars
             \/ \E p \in Path : MessageArrives(p)
      PROVE  UNCHANGED <<tree, anchored>>
  BY <1>4 DEF Dispatching, Dispatch, NotHandled, CallHandler, HandlerReturns,
              Resume, MessageArrives, vars
<1>5. QED
  BY <1>1, <1>2, <1>3, <1>4, <1>g, <1>u DEF Next

(* The handlers of object paths use the registry as blocks of data should: *)
(* they come into use fresh, never change from one path to another, and    *)
(* are anchored for as long as they are in use (register_object_path,      *)
(* register_fallback and unregister_function of src/src/connection.c).     *)
THEOREM ImplementsAnchoring == Spec => AnchoringImplemented
<1>1. Init => Anchors!Init
  BY DEF Init, Anchors!Init
<1>2. IInv /\ [Next]_vars => IInv'
  BY StepIInv
<1>3. QED
  BY <1>1, <1>2, InitIInv, AnchoringStep, PTL
  DEF Spec, AnchoringImplemented, Anchors!Spec
=============================================================================
