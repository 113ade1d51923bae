---------------------------- MODULE CallbacksProofs ----------------------------
(***************************************************************************)
(* Proofs about Callbacks, for every number of connections, userdata,      *)
(* blocks of data and messages.                                            *)
(***************************************************************************)
EXTENDS Callbacks, ConnectionsProofs

(* The types that the other parts rest on.                                 *)
Types ==
  /\ data \in [Conn -> [Slot -> Data \cup {NULL}]]
  /\ registry \subseteq Data
  /\ due \subseteq Conn /\ heard \subseteq Conn
  /\ incoming \in [Conn -> Nat]

(* The bounds of the queues: a connection that is down may have one more   *)
(* message, one that does not exist has none.                              *)
Bounded ==
  \A c \in Conn :
    /\ incoming[c] <= MaxIncoming + 1
    /\ c \in connected => incoming[c] <= MaxIncoming
    /\ refs[c] = 0 => incoming[c] = 0

(* What libdbus has announced, and what the application has read by        *)
(* itself, is on its list.                                                 *)
StatusKnown ==
  /\ status \in [Conn -> {DATA_REMAINS, COMPLETE}]
  /\ \A c \in Conn : status[c] = COMPLETE /\ incoming[c] > 0 => c \in due
  /\ \A c \in heard : status[c] = DATA_REMAINS => c \in due

(* Only connections that exist have functions.                             *)
LiveOnly == \A c \in Conn : data[c] # Nothing => refs[c] > 0

CInv ==
  IInv /\ Types /\ Bounded /\ StatusKnown /\ LiveOnly /\ AnchoredExact

----------------------------------------------------------------------------
(* Every step is one of module Connections, or none.                       *)
LEMMA IsConnectionStep == TypeOK /\ [CallbackNext]_callbackVars => [Next]_vars
<1> SUFFICES ASSUME TypeOK, [CallbackNext]_callbackVars PROVE [Next]_vars
  OBVIOUS
<1>1. ASSUME NEW w \in Wrapper, NEW s \in Slot, NEW d \in Data,
             SetFunction(w, s, d)
      PROVE  UNCHANGED vars
  BY <1>1 DEF SetFunction
<1>2. ASSUME NEW c \in Conn, Reads(c) PROVE [Next]_vars
  BY <1>2 DEF Reads, Next
<1>3. ASSUME NEW w \in Wrapper, ReadWrite(w) PROVE [Next]_vars
  <2>1. connection[w] \in Conn /\ Reads(connection[w])
    BY <1>3 DEF ReadWrite, TypeOK
  <2>2. QED
    BY <1>2, <2>1
<1>4. ASSUME NEW c \in Conn, WatchHandle(c) PROVE [Next]_vars
  BY <1>2, <1>4 DEF WatchHandle
<1>5. ASSUME NEW w \in Wrapper, NEW r \in BOOLEAN, Dispatch(w, r)
      PROVE  [Next]_vars
  BY <1>5 DEF Dispatch, Next
<1>6. ASSUME NEW w \in Wrapper, PopMessage(w) PROVE UNCHANGED vars
  BY <1>6 DEF PopMessage
<1>7. ASSUME NEW w \in Wrapper, CollectConnection(w) PROVE Next
  BY <1>7 DEF CollectConnection, Next
<1>8. UNCHANGED callbackVars => UNCHANGED vars
  BY DEF callbackVars
<1>9. QED
  BY <1>1, <1>3, <1>4, <1>5, <1>6, <1>7, <1>8 DEF CallbackNext, Next

(* What the end of an operation of libdbus does to the types.              *)
LEMMA UpdatedTypes ==
  ASSUME CInv, IInv', NEW C \in SUBSET Conn, NEW R \in SUBSET C,
         incoming' \in [Conn -> Nat], Updated(C, R)
  PROVE  Types' /\ LiveOnly'
<1>1. Nothing \in [Slot -> Data \cup {NULL}]
  BY DEF Nothing
<1>2. data' \in [Conn -> [Slot -> Data \cup {NULL}]]
  BY <1>1 DEF Updated, CInv, Types
<1>3. registry' \subseteq Data
  BY DEF Updated, CInv, Types, free_data_function
<1>4. due' \subseteq Conn /\ heard' \subseteq Conn
  <2>1. ASSUME NEW D \in SUBSET Conn PROVE Told(D) \subseteq Conn
    BY DEF Told, CInv, Types
  <2>2. \E D \in SUBSET Conn : due' \subseteq Told(D)
    BY DEF Updated
  <2>3. heard' \subseteq Conn
    BY DEF Updated
  <2>4. QED
    BY <2>1, <2>2, <2>3
<1>5. LiveOnly'
  BY DEF Updated, LiveOnly, IInv, TypeOK
<1>6. QED
  BY <1>2, <1>3, <1>4, <1>5 DEF Types

(* Exactly the blocks of the connections that were freed leave the registry.*)
LEMMA UpdatedAnchored ==
  ASSUME CInv, NEW C, NEW R, Updated(C, R)
  PROVE  AnchoredExact'
<1> DEFINE freed == {c \in Conn : refs'[c] = 0}
<1>1. data' = [c \in Conn |-> IF c \in freed THEN Nothing ELSE data[c]]
  BY DEF Updated
<1>2. registry' = registry \ Blocks(freed)
  BY DEF Updated, free_data_function
<1>3. ASSUME NEW c \in Conn, NEW s \in Slot, data'[c][s] # NULL
      PROVE  c \notin freed /\ data'[c][s] = data[c][s]
  BY <1>1, <1>3 DEF Nothing
<1>4. registry' = Blocks(Conn)'
  <2>1. Blocks(Conn)' = {data'[c][s] : c \in Conn, s \in Slot} \ {NULL}
    BY DEF Blocks
  <2>2. registry = {data[c][s] : c \in Conn, s \in Slot} \ {NULL}
    BY DEF CInv, AnchoredExact, Blocks
  <2>3. ASSUME NEW d, d \in registry' PROVE d \in Blocks(Conn)'
    <3>1. PICK c \in Conn, s \in Slot : d = data[c][s] /\ d # NULL
      BY <1>2, <2>2, <2>3
    <3>2. c \notin freed
      BY <1>2, <2>3, <3>1 DEF Blocks
    <3>3. data'[c][s] = d
      BY <1>1, <3>1, <3>2
    <3>4. QED
      BY <2>1, <3>1, <3>3
  <2>4. ASSUME NEW d, d \in Blocks(Conn)' PROVE d \in registry'
    <3>1. PICK c \in Conn, s \in Slot : d = data'[c][s] /\ d # NULL
      BY <2>1, <2>4
    <3>2. c \notin freed /\ d = data[c][s]
      BY <1>3, <3>1
    <3>3. ASSUME NEW b \in freed, NEW t \in Slot PROVE data[b][t] # d
      BY <3>1, <3>2 DEF CInv, AnchoredExact
    <3>4. d \notin Blocks(freed)
      BY <3>3 DEF Blocks
    <3>5. QED
      BY <1>2, <2>2, <3>1, <3>2, <3>4
  <2>5. QED
    BY <2>3, <2>4
<1>5. ASSUME NEW b \in Conn, NEW c \in Conn, NEW s \in Slot, NEW t \in Slot,
             data'[b][s] # NULL, data'[b][s] = data'[c][t]
      PROVE  b = c /\ s = t
  <2>1. data[b][s] # NULL /\ data[b][s] = data[c][t]
    BY <1>3, <1>5
  <2>2. QED
    BY <2>1 DEF CInv, AnchoredExact
<1>6. QED
  BY <1>4, <1>5 DEF AnchoredExact

(* A change of the status reaches the application, or the connection is    *)
(* not heard any more.                                                     *)
LEMMA UpdatedKnown ==
  ASSUME CInv, Bounded', incoming' \in [Conn -> Nat],
         NEW C \in SUBSET Conn, NEW R \in SUBSET C, Updated(C, R),
         \A c \in Conn \ C : incoming'[c] > 0 => incoming[c] > 0
  PROVE  StatusKnown'
<1> DEFINE freed == {c \in Conn : refs'[c] = 0}
           called == {c \in C \ freed : /\ data[c]["dispatch_status"] # NULL
                                        /\ status'[c] # status[c]}
<1>1. PICK failed \in BOOLEAN :
        /\ due' = Told(R \cup IF failed THEN {} ELSE called) \ freed
        /\ heard' = {c \in Conn \ freed :
                       /\ data'[c]["dispatch_status"] # NULL
                       /\ \/ c \in C /\ status'[c] = COMPLETE
                          \/ c \in heard /\ ~(failed /\ c \in called)}
  BY DEF Updated
<1> DEFINE told == R \cup IF failed THEN {} ELSE called
<1>2. /\ status' = [c \in Conn |-> IF c \in freed THEN COMPLETE
                                   ELSE IF c \in C THEN StatusOf(incoming'[c])
                                   ELSE status[c]]
      /\ status \in [Conn -> {DATA_REMAINS, COMPLETE}]
      /\ DATA_REMAINS # COMPLETE
  BY DEF Updated, CInv, StatusKnown, DATA_REMAINS, COMPLETE
<1>3. \A c \in Conn : StatusOf(incoming'[c]) \in {DATA_REMAINS, COMPLETE}
                      /\ (StatusOf(incoming'[c]) = COMPLETE => incoming'[c] = 0)
  BY <1>2 DEF StatusOf
<1>4. ASSUME NEW c \in Conn \ freed, c \in due,
             c \notin told \/ status'[c] = DATA_REMAINS
      PROVE  c \in due'
  <2>1. DispatchStatus_lst(DATA_REMAINS) = "data_remains"
    BY DEF DispatchStatus_lst, DATA_REMAINS
  <2>2. c \in Told(told)
    BY <1>4, <2>1 DEF Told
  <2>3. QED
    BY <1>1, <1>4, <2>2
<1>5. ASSUME NEW c \in Conn \ freed, c \in told, status'[c] = DATA_REMAINS
      PROVE  c \in due'
  <2>1. DispatchStatus_lst(status'[c]) = "data_remains"
    BY <1>5 DEF DispatchStatus_lst, DATA_REMAINS
  <2>2. c \in Told(told)
    BY <1>5, <2>1 DEF Told
  <2>3. QED
    BY <1>1, <1>5, <2>2
<1>6. status' \in [Conn -> {DATA_REMAINS, COMPLETE}]
  BY <1>2, <1>3
<1>7. ASSUME NEW c \in Conn, status'[c] = COMPLETE, incoming'[c] > 0
      PROVE  c \in due'
  <2>1. c \notin freed
    BY <1>7 DEF Bounded
  <2>2. c \notin C
    BY <1>2, <1>3, <1>7, <2>1
  <2>3. status[c] = COMPLETE /\ incoming[c] > 0
    BY <1>2, <1>7, <2>1, <2>2
  <2>4. c \in due /\ c \notin told
    BY <2>2, <2>3 DEF CInv, StatusKnown
  <2>5. QED
    BY <1>4, <2>1, <2>4
<1>8. ASSUME NEW c \in heard', status'[c] = DATA_REMAINS
      PROVE  c \in due'
  <2>1. /\ c \in Conn \ freed /\ c \in heard /\ ~(failed /\ c \in called)
        /\ data'[c]["dispatch_status"] # NULL
    BY <1>1, <1>2, <1>8
  <2>2. CASE c \in told
    BY <1>5, <1>8, <2>1, <2>2
  <2>3. CASE c \notin told
    <3>1. c \notin called
      BY <2>1, <2>3
    <3>2. data[c]["dispatch_status"] # NULL
      BY <2>1 DEF Updated
    <3>3. status[c] = DATA_REMAINS
      BY <1>2, <1>8, <2>1, <3>1, <3>2
    <3>4. c \in due
      BY <2>1, <3>3 DEF CInv, StatusKnown
    <3>5. QED
      BY <1>4, <2>1, <2>3, <3>4
  <2>4. QED
    BY <2>2, <2>3
<1>9. QED
  BY <1>6, <1>7, <1>8 DEF StatusKnown

----------------------------------------------------------------------------
(* The operations.                                                         *)

LEMMA InitCInv == CallbackInit => CInv
<1> SUFFICES ASSUME CallbackInit PROVE CInv
  OBVIOUS
<1>1. IInv
  BY InitIInv DEF CallbackInit
<1>2. Types
  <2>1. Nothing \in [Slot -> Data \cup {NULL}]
    BY DEF Nothing
  <2>2. QED
    BY <2>1 DEF CallbackInit, Types
<1>3. Bounded
  BY IncomingAssumption DEF CallbackInit, Bounded
<1>4. StatusKnown
  BY DEF CallbackInit, StatusKnown
<1>5. LiveOnly /\ AnchoredExact
  BY DEF CallbackInit, LiveOnly, AnchoredExact, Blocks, Nothing
<1>6. QED
  BY <1>1, <1>2, <1>3, <1>4, <1>5 DEF CInv

(* An operation of libdbus, whatever it does to the queues.                *)
LEMMA UpdatedCInv ==
  ASSUME CInv, IInv', NEW C \in SUBSET Conn, NEW R \in SUBSET C,
         incoming' \in [Conn -> Nat], Bounded', Updated(C, R),
         \A c \in Conn \ C : incoming'[c] > 0 => incoming[c] > 0
  PROVE  CInv'
  BY UpdatedTypes, UpdatedAnchored, UpdatedKnown DEF CInv

LEMMA FollowsCInv ==
  ASSUME CInv, IInv', NEW C \in SUBSET Conn, Follows(C),
         \A c \in connected' : c \in connected \/ refs[c] = 0,
         connected \ connected' \subseteq C
  PROVE  CInv'
<1>1. incoming' \in [Conn -> Nat]
  BY DEF Follows, CInv, Types
<1>2. \A c \in Conn : incoming'[c] =
          IF refs'[c] = 0 THEN 0
          ELSE incoming[c] + IF c \in connected \ connected' THEN 1 ELSE 0
  BY DEF Follows
<1>3. Bounded'
  <2> SUFFICES ASSUME NEW c \in Conn
               PROVE  /\ incoming'[c] <= MaxIncoming + 1
                      /\ c \in connected' => incoming'[c] <= MaxIncoming
                      /\ refs'[c] = 0 => incoming'[c] = 0
    BY DEF Bounded
  <2>1. /\ incoming[c] \in Nat /\ incoming[c] <= MaxIncoming + 1
        /\ c \in connected => incoming[c] <= MaxIncoming
        /\ refs[c] = 0 => incoming[c] = 0
    BY DEF CInv, Types, Bounded
  <2>2. QED
    BY <1>2, <2>1, IncomingAssumption
<1>4. \A c \in Conn \ C : incoming'[c] > 0 => incoming[c] > 0
  BY <1>2 DEF CInv, Types
<1>5. Updated(C, {}) /\ {} \in SUBSET C
  BY DEF Follows
<1>6. QED
  BY <1>1, <1>3, <1>4, <1>5, UpdatedCInv

LEMMA SetFunctionCInv ==
  ASSUME CInv, IInv', NEW w \in Wrapper, NEW s \in Slot, NEW d \in Data,
         SetFunction(w, s, d)
  PROVE  CInv'
<1> DEFINE c == connection[w]
<1>1. c \in Conn /\ refs[c] > 0
  <2>1. c \in Conn
    BY DEF SetFunction, CInv, IInv, TypeOK
  <2>2. QED
    BY <2>1, OwnedCounted DEF CInv, IInv
<1>2. /\ data' = [data EXCEPT ![c][s] = d]
      /\ registry' = (registry \cup {d}) \ {data[c][s]}
      /\ d \notin registry /\ d # NULL
      /\ UNCHANGED <<vars, incoming, status, due>>
      /\ heard' = IF s = "dispatch_status" /\ status[c] = COMPLETE
                  THEN heard \cup {c} ELSE heard
  BY DataAssumption DEF SetFunction
<1>3. /\ data \in [Conn -> [Slot -> Data \cup {NULL}]]
      /\ registry = {data[b][t] : b \in Conn, t \in Slot} \ {NULL}
  BY DEF CInv, Types, AnchoredExact, Blocks
<1>4. \A b \in Conn, t \in Slot :
        data'[b][t] = IF b = c /\ t = s THEN d ELSE data[b][t]
  BY <1>1, <1>2, <1>3
<1>5. Types'
  <2>1. heard' \subseteq Conn
    BY <1>1 DEF SetFunction, CInv, Types
  <2>2. data' \in [Conn -> [Slot -> Data \cup {NULL}]]
    BY <1>1, <1>2, <1>3
  <2>3. QED
    BY <1>2, <2>1, <2>2 DEF CInv, Types
<1>6. Bounded' /\ StatusKnown'
  <2>1. Bounded'
    BY <1>2 DEF CInv, Bounded, vars
  <2>2. DATA_REMAINS # COMPLETE
    BY DEF DATA_REMAINS, COMPLETE
  <2>3. \A b \in heard' : status[b] = DATA_REMAINS => b \in heard
    BY <1>2, <2>2
  <2>4. QED
    BY <1>2, <2>1, <2>3 DEF CInv, StatusKnown
<1>7. LiveOnly'
  BY <1>1, <1>2 DEF CInv, LiveOnly, vars
<1>8. AnchoredExact'
  <2>1. \A b \in Conn, t \in Slot : data[b][t] # d
    BY <1>2, <1>3
  <2>2. \A a, b \in Conn, t, u \in Slot :
          data[a][t] = data[b][u] /\ data[a][t] # NULL => a = b /\ t = u
    BY DEF CInv, AnchoredExact
  <2>3. \A a, b \in Conn, t, u \in Slot :
          data'[a][t] = data'[b][u] /\ data'[a][t] # NULL => a = b /\ t = u
    BY <1>4, <2>1, <2>2
  <2>4. ASSUME NEW e, e \in registry'
        PROVE  e \in {data'[b][t] : b \in Conn, t \in Slot} \ {NULL}
    BY <1>1, <1>2, <1>3, <1>4, <2>4
  <2>5. ASSUME NEW e, e \in {data'[b][t] : b \in Conn, t \in Slot} \ {NULL}
        PROVE  e \in registry'
    <3>1. PICK b \in Conn, t \in Slot : e = data'[b][t] /\ e # NULL
      BY <2>5
    <3>2. CASE b = c /\ t = s
      BY <1>1, <1>2, <1>4, <2>1, <3>1, <3>2
    <3>3. CASE ~(b = c /\ t = s)
      <4>1. e = data[b][t]
        BY <1>4, <3>1, <3>3
      <4>2. e # data[c][s]
        BY <1>1, <2>2, <3>1, <3>3, <4>1
      <4>3. QED
        BY <1>2, <1>3, <3>1, <4>1, <4>2
    <3>4. QED
      BY <3>2, <3>3
  <2>6. QED
    BY <2>3, <2>4, <2>5 DEF AnchoredExact, Blocks
<1>9. QED
  BY <1>5, <1>6, <1>7, <1>8 DEF CInv

(* What comes in fits into the queue.                                      *)
LEMMA ReadsBounded ==
  ASSUME CInv, NEW c \in Conn, Reads(c)
  PROVE  /\ incoming' = [incoming EXCEPT ![c] = @ + 1]
         /\ incoming' \in [Conn -> Nat]
         /\ Bounded' /\ refs' = refs
<1>1. /\ incoming' = [incoming EXCEPT ![c] = @ + 1]
      /\ incoming \in [Conn -> Nat]
  BY DEF Reads, CInv, Types
<1>2. c \in connected /\ refs' = refs /\ connected' \subseteq connected
      /\ (c \in connected' => incoming[c] < MaxIncoming)
  BY DEF Reads, PeerCloses, vars
<1>3. refs[c] > 0
  <2>1. refs[c] # 0 /\ refs[c] \in Nat
    BY <1>2, CloserCloses DEF CInv, IInv, TypeOK, ClosedBeforeFreed
  <2>2. QED
    BY <2>1
<1>4. Bounded'
  BY <1>1, <1>2, <1>3, IncomingAssumption DEF CInv, Bounded
<1>5. QED
  BY <1>1, <1>2, <1>4

LEMMA ReadWriteCInv ==
  ASSUME CInv, IInv', NEW w \in Wrapper, ReadWrite(w)
  PROVE  CInv'
<1> DEFINE c == connection[w]
<1>1. c \in Conn
  BY DEF ReadWrite, CInv, IInv, TypeOK
<1>2. /\ Reads(c) /\ due' = due \cup {c}
      /\ UNCHANGED <<data, registry, status, heard>>
  BY DEF ReadWrite
<1> HIDE DEF c
<1>3. /\ incoming' = [incoming EXCEPT ![c] = @ + 1]
      /\ incoming' \in [Conn -> Nat]
      /\ Bounded' /\ refs' = refs
  BY <1>1, <1>2, ReadsBounded
<1>4. Types' /\ LiveOnly' /\ AnchoredExact'
  BY <1>1, <1>2, <1>3 DEF CInv, Types, LiveOnly, AnchoredExact, Blocks
<1>5. StatusKnown'
  <2>1. \A b \in Conn \ {c} : incoming'[b] = incoming[b]
    BY <1>3 DEF CInv, Types
  <2>2. QED
    BY <1>1, <1>2, <2>1 DEF CInv, StatusKnown
<1>6. QED
  BY <1>3, <1>4, <1>5 DEF CInv

LEMMA WatchHandleCInv ==
  ASSUME CInv, IInv', NEW c \in Conn, WatchHandle(c)
  PROVE  CInv'
<1>1. Updated({c}, {}) /\ {c} \in SUBSET Conn /\ {} \in SUBSET {c}
  BY DEF WatchHandle
<1>2. /\ incoming' \in [Conn -> Nat] /\ Bounded'
      /\ \A b \in Conn \ {c} : incoming'[b] = incoming[b]
  <2>1. CASE Reads(c)
    <3>1. /\ incoming' = [incoming EXCEPT ![c] = @ + 1]
          /\ incoming' \in [Conn -> Nat] /\ Bounded'
      BY <2>1, ReadsBounded
    <3>2. QED
      BY <3>1 DEF CInv, Types
  <2>2. CASE UNCHANGED <<vars, incoming>>
    BY <2>2 DEF vars, CInv, Types, Bounded
  <2>3. QED
    BY <2>1, <2>2 DEF WatchHandle
<1>3. QED
  BY <1>1, <1>2, UpdatedCInv

LEMMA DispatchCInv ==
  ASSUME CInv, IInv', NEW w \in Wrapper, NEW returned \in BOOLEAN,
         Dispatch(w, returned)
  PROVE  CInv'
<1> DEFINE c == connection[w]
           left == IF incoming[c] > 0 THEN incoming[c] - 1 ELSE 0
           R == IF returned THEN {c} ELSE {}
<1>1. c \in Conn
  BY DEF Dispatch, CInv, IInv, TypeOK
<1>2. /\ incoming' = [incoming EXCEPT ![c] = left] /\ Updated({c}, R)
      /\ IF left = 0 /\ c \in shared \ connected
         THEN DispatchDisconnected(w) ELSE UNCHANGED vars
  BY DEF Dispatch
<1>3. /\ incoming \in [Conn -> Nat] /\ left \in Nat
      /\ left <= incoming[c]
  BY <1>1 DEF CInv, Types
<1>4. connected' = connected /\ (left = 0 \/ refs'[c] = refs[c])
      /\ \A b \in Conn \ {c} : refs'[b] = refs[b]
  BY <1>1, <1>2 DEF DispatchDisconnected, vars, CInv, IInv, TypeOK
<1> HIDE DEF c, left
<1>5. incoming' \in [Conn -> Nat] /\ \A b \in Conn \ {c} : incoming'[b] = incoming[b]
  BY <1>1, <1>2, <1>3
<1>6. Bounded'
  BY <1>1, <1>2, <1>3, <1>4, <1>5, IncomingAssumption DEF CInv, Bounded
<1>7. {c} \in SUBSET Conn /\ R \in SUBSET {c}
  BY <1>1
<1> HIDE DEF R
<1>8. QED
  BY <1>2, <1>5, <1>6, <1>7, UpdatedCInv

LEMMA PopMessageCInv ==
  ASSUME CInv, IInv', NEW w \in Wrapper, PopMessage(w)
  PROVE  CInv'
<1> DEFINE c == connection[w]
<1>1. /\ c \in Conn /\ incoming[c] > 0
      /\ incoming' = [incoming EXCEPT ![c] = @ - 1]
      /\ UNCHANGED <<vars, data, registry, status, due, heard>>
  BY DEF PopMessage, CInv, IInv, TypeOK
<1> HIDE DEF c
<1>2. /\ incoming' \in [Conn -> Nat]
      /\ \A b \in Conn : incoming'[b] <= incoming[b]
  BY <1>1 DEF CInv, Types
<1>3. Types' /\ LiveOnly' /\ AnchoredExact'
  BY <1>1, <1>2 DEF CInv, Types, LiveOnly, AnchoredExact, Blocks, vars
<1>4. Bounded'
  BY <1>1, <1>2, IncomingAssumption DEF CInv, Types, Bounded, vars
<1>5. StatusKnown'
  <2>1. \A b \in Conn : incoming'[b] > 0 => incoming[b] > 0
    BY <1>2 DEF CInv, Types
  <2>2. QED
    BY <1>1, <2>1 DEF CInv, StatusKnown
<1>6. QED
  BY <1>3, <1>4, <1>5 DEF CInv

LEMMA StepCInv == CInv /\ [CallbackNext]_callbackVars => CInv'
<1> SUFFICES ASSUME CInv, [CallbackNext]_callbackVars PROVE CInv'
  OBVIOUS
<1>1. [Next]_vars
  BY IsConnectionStep DEF CInv, IInv
<1>2. IInv'
  BY <1>1, StepIInv DEF CInv
<1>3. ASSUME NEW w \in Wrapper, NEW c \in Conn,
             OpenShared(w, c) \/ GetPrivate(w, c), Follows({})
      PROVE  CInv'
  <2>1. /\ \A b \in connected' : b \in connected \/ refs[b] = 0
        /\ connected \subseteq connected'
    BY <1>3 DEF OpenShared, GetPrivate, GetShared, Connect
  <2>2. {} \in SUBSET Conn /\ connected \ connected' \subseteq {}
    BY <2>1
  <2>3. QED
    BY <1>2, <1>3, <2>1, <2>2, FollowsCInv
<1>4. ASSUME NEW w \in Wrapper, SendWithReply(w), Follows({connection[w]})
      PROVE  CInv'
  <2>1. connected' = connected /\ {connection[w]} \in SUBSET Conn
    BY <1>4 DEF SendWithReply, CInv, IInv, TypeOK
  <2>2. QED
    BY <1>2, <1>4, <2>1, FollowsCInv
<1>5. ASSUME NEW c \in Conn, PendingCallFreed(c), Follows({})
      PROVE  CInv'
  <2>1. connected' = connected /\ {} \in SUBSET Conn
    BY <1>5 DEF PendingCallFreed
  <2>2. QED
    BY <1>2, <1>5, <2>1, FollowsCInv
<1>6. ASSUME NEW w \in Wrapper, CollectConnection(w)
      PROVE  CInv'
  <2> DEFINE C == IF close[w] THEN {connection[w]} ELSE {}
  <2>1. /\ connected' = IF close[w] THEN connected \ {connection[w]} ELSE connected
        /\ connection[w] \in Conn /\ Follows(C)
    BY <1>6 DEF CollectConnection, ConnectionGC, CInv, IInv, TypeOK
  <2>2. C \in SUBSET Conn /\ connected \ connected' \subseteq C
        /\ connected' \subseteq connected
    BY <2>1
  <2> HIDE DEF C
  <2>3. QED
    BY <1>2, <2>1, <2>2, FollowsCInv
<1>7. ASSUME UNCHANGED callbackVars PROVE CInv'
  BY <1>7 DEF callbackVars, callbacks, vars, CInv, IInv, TypeOK, RefsExact,
     Holders, ClosesAlone, HasCloser, SharedUp, NeverCutOff, Types, Bounded,
     StatusKnown, LiveOnly, AnchoredExact, Blocks
<1>8. QED
  BY <1>2, <1>3, <1>4, <1>5, <1>6, <1>7, SetFunctionCInv, ReadWriteCInv,
     WatchHandleCInv, DispatchCInv, PopMessageCInv
  DEF CallbackNext

----------------------------------------------------------------------------
(* The main results.                                                       *)

(* The connections with functions behave as module Connections says, so    *)
(* that everything proved of those holds here.                             *)
THEOREM CallbacksAreConnections == CallbackSpec => Spec
<1>1. CallbackInit => Init
  BY DEF CallbackInit
<1>2. CInv => TypeOK
  BY DEF CInv, IInv
<1>3. QED
  BY <1>1, <1>2, InitCInv, StepCInv, IsConnectionStep, PTL
  DEF CallbackSpec, Spec

(* The variables of Callbacks and Connections keep their types, and the    *)
(* queues their bounds.                                                    *)
THEOREM CallbackTypeCorrect == CallbackSpec => []CallbackTypeOK
<1>1. CInv => CallbackTypeOK
  <2> SUFFICES ASSUME CInv PROVE CallbackTypeOK
    OBVIOUS
  <2>1. incoming \in [Conn -> 0..(MaxIncoming + 1)]
    BY IncomingAssumption DEF CInv, Types, Bounded
  <2>2. QED
    BY <2>1 DEF CInv, IInv, Types, StatusKnown, CallbackTypeOK
<1>2. QED
  BY <1>1, InitCInv, StepCInv, PTL DEF CallbackSpec

(* free_data_function: the registry has the blocks that libdbus has, no    *)
(* more and no less, and no two functions share one.                       *)
THEOREM FunctionsAnchoredExactly == CallbackSpec => []AnchoredExact
<1>1. CInv => AnchoredExact
  BY DEF CInv
<1>2. QED
  BY <1>1, InitCInv, StepCInv, PTL DEF CallbackSpec

(* dispatch_status_function, dispatch and read_write: an application that  *)
(* goes by what they say knows of the messages in each connection whose    *)
(* function has missed no change since libdbus last found the queue empty. *)
(* Installed while messages wait, or after an error in it, it may not know.*)
THEOREM NoMessageForgotten == CallbackSpec => []DueKnown
<1>1. CInv => DueKnown
  BY DEF CInv, StatusKnown, DueKnown, Types
<1>2. QED
  BY <1>1, InitCInv, StepCInv, PTL DEF CallbackSpec

----------------------------------------------------------------------------
(* The registry.                                                           *)

(* The end of an operation gives back the blocks of what it freed.         *)
LEMMA UpdatedGivesBack ==
  ASSUME CInv, NEW C, NEW R, Updated(C, R)
  PROVE  Anchors!GiveBack
<1>1. data' = [c \in Conn |-> IF refs'[c] = 0 THEN Nothing ELSE data[c]]
  BY DEF Updated
<1>2. ASSUME NEW p \in Conn \X Slot
      PROVE  data'[p[1]][p[2]]
               = IF data'[p[1]][p[2]] = NULL THEN NULL ELSE data[p[1]][p[2]]
  BY <1>1 DEF Nothing
<1>3. QED
  BY <1>2 DEF Anchors!GiveBack

(* Every step is one of module Anchoring, or leaves the blocks alone.      *)
LEMMA AnchoringStep ==
  CInv /\ CInv' /\ [CallbackNext]_callbackVars => [Anchors!Next]_(Anchors!vars)
<1> SUFFICES ASSUME CInv, CInv', [CallbackNext]_callbackVars
             PROVE  [Anchors!Next]_(Anchors!vars)
  OBVIOUS
<1> DEFINE used == [p \in Conn \X Slot |-> data[p[1]][p[2]]]
<1>k. registry' = {used'[p] : p \in Conn \X Slot} \ {NULL}
  <2>1. registry' = {data'[c][s] : c \in Conn, s \in Slot} \ {NULL}
    BY DEF CInv, AnchoredExact, Blocks
  <2>2. {used'[p] : p \in Conn \X Slot} = {data'[c][s] : c \in Conn, s \in Slot}
    <3>1. ASSUME NEW p \in Conn \X Slot
          PROVE  used'[p] \in {data'[c][s] : c \in Conn, s \in Slot}
      <4>1. used'[p] = data'[p[1]][p[2]] /\ p[1] \in Conn /\ p[2] \in Slot
        OBVIOUS
      <4>2. QED
        BY <4>1
    <3>2. ASSUME NEW c \in Conn, NEW s \in Slot
          PROVE  data'[c][s] \in {used'[p] : p \in Conn \X Slot}
      <4>1. <<c, s>> \in Conn \X Slot /\ used'[<<c, s>>] = data'[c][s]
        OBVIOUS
      <4>2. QED
        BY <4>1
    <3>3. QED
      BY <3>1, <3>2
  <2> HIDE DEF used
  <2>3. QED
    BY <2>1, <2>2
<1>g. Anchors!GiveBack => Anchors!Next
  BY <1>k DEF Anchors!Next
<1>u. UNCHANGED <<data, registry>> => UNCHANGED Anchors!vars
  BY DEF Anchors!vars
<1>1. ASSUME NEW w \in Wrapper, NEW s \in Slot, NEW d \in Data,
             SetFunction(w, s, d)
      PROVE  Anchors!Next
  <2> DEFINE c == connection[w]
  <2>1. /\ c \in Conn /\ d \notin registry
        /\ data' = [data EXCEPT ![c][s] = d]
        /\ data \in [Conn -> [Slot -> Data \cup {NULL}]]
    BY <1>1 DEF SetFunction, CInv, Types, IInv, TypeOK, Pointers
  <2> HIDE DEF c
  <2>2. ASSUME NEW p \in Conn \X Slot
        PROVE  data'[p[1]][p[2]] = IF p = <<c, s>> THEN d ELSE data[p[1]][p[2]]
    <3>1. PICK b \in Conn, t \in Slot : p = <<b, t>>
      OBVIOUS
    <3>2. data'[b][t] = IF b = c /\ t = s THEN d ELSE data[b][t]
      BY <2>1
    <3>3. QED
      BY <3>1, <3>2
  <2>3. Anchors!Install(<<c, s>>, d)
    BY <2>1, <2>2 DEF Anchors!Install
  <2>4. <<c, s>> \in Conn \X Slot
    BY <2>1
  <2>5. QED
    BY <1>k, <2>3, <2>4 DEF Anchors!Next
<1>2. ASSUME NEW w \in Wrapper, NEW returned \in BOOLEAN, Dispatch(w, returned)
      PROVE  Anchors!GiveBack
  BY <1>2, UpdatedGivesBack DEF Dispatch
<1>3. ASSUME NEW c \in Conn, WatchHandle(c) PROVE Anchors!GiveBack
  BY <1>3, UpdatedGivesBack DEF WatchHandle
<1>4. ASSUME NEW C, Follows(C) PROVE Anchors!GiveBack
  BY <1>4, UpdatedGivesBack DEF Follows
<1>5. ASSUME NEW w \in Wrapper, CollectConnection(w) PROVE Anchors!GiveBack
  BY <1>4, <1>5 DEF CollectConnection
<1>6. ASSUME NEW w \in Wrapper, ReadWrite(w) \/ PopMessage(w)
      PROVE  UNCHANGED <<data, registry>>
  BY <1>6 DEF ReadWrite, PopMessage
<1>7. CASE UNCHANGED callbackVars
  BY <1>7, <1>u DEF callbackVars, callbacks
<1>8. QED
  BY <1>1, <1>2, <1>3, <1>4, <1>5, <1>6, <1>7, <1>g, <1>u DEF CallbackNext

(* The wakeup and dispatch-status functions use the registry as blocks of  *)
(* data should: they come into use fresh, stay in their place, and are     *)
(* anchored until they are replaced or their connection is freed           *)
(* (free_data_function of src/src/connection.c).                           *)
THEOREM ImplementsAnchoring == CallbackSpec => AnchoringImplemented
<1>1. CallbackInit => Anchors!Init
  BY DEF CallbackInit, Anchors!Init, Nothing
<1>2. QED
  BY <1>1, InitCInv, StepCInv, AnchoringStep, PTL
  DEF CallbackSpec, AnchoringImplemented, Anchors!Spec
=============================================================================
