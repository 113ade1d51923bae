--------------------------- MODULE ConnectionsProofs ---------------------------
(***************************************************************************)
(* Proofs about Connections, for every number of connections, userdata and *)
(* pending calls.                                                          *)
(***************************************************************************)
EXTENDS Connections, FiniteSetTheorems, TLAPS

Pointers == [Wrapper -> Conn \cup {NULL}]

(* 1 for the count that libdbus owns on c while it shares it. *)
Lib(s, c) == IF c \in s THEN 1 ELSE 0

(* A userdata that closes is the only one of its connection, which libdbus *)
(* does not share.                                                         *)
ClosesAlone ==
  \A w \in Wrapper : connection[w] # NULL /\ close[w] =>
    /\ connection[w] \notin shared
    /\ \A v \in Wrapper : connection[v] = connection[w] => v = w

(* A private connection that is up has the userdata that will close it. *)
HasCloser ==
  \A c \in connected \ shared :
    \E w \in Wrapper : connection[w] = c /\ close[w]

(* Only the other side ends a shared connection. *)
SharedUp == shared \subseteq connected \cup lost

IInv ==
  TypeOK /\ RefsExact /\ ClosesAlone /\ HasCloser /\ SharedUp /\ NeverCutOff

----------------------------------------------------------------------------
(* Counting the userdata of a connection.                                  *)

LEMMA HoldersFinite ==
  ASSUME NEW f, NEW c
  PROVE  IsFiniteSet(Holders(f, c)) /\ Cardinality(Holders(f, c)) \in Nat
<1>1. Holders(f, c) \in SUBSET Wrapper
  BY DEF Holders
<1>2. QED
  BY <1>1, WrapperAssumption, FS_Subset, FS_CardinalityType

LEMMA HolderCounted ==
  ASSUME NEW f, NEW w \in Wrapper
  PROVE  Cardinality(Holders(f, f[w])) > 0
<1>1. Holders(f, f[w]) # {}
  BY DEF Holders
<1>2. Cardinality(Holders(f, f[w])) # 0
  BY <1>1, HoldersFinite, FS_EmptySet
<1>3. QED
  BY <1>2, HoldersFinite

(* One holder more. *)
LEMMA HoldersAdd ==
  ASSUME NEW f \in Pointers, NEW w \in Wrapper, f[w] = NULL,
         NEW c \in Conn, NEW b \in Conn
  PROVE  Cardinality(Holders([f EXCEPT ![w] = c], b)) =
           Cardinality(Holders(f, b)) + (IF b = c THEN 1 ELSE 0)
<1> DEFINE g == [f EXCEPT ![w] = c]
<1>1. Holders(g, b) = IF b = c THEN Holders(f, b) \cup {w} ELSE Holders(f, b)
  BY NullAssumption DEF Holders, Pointers
<1>2. w \notin Holders(f, b)
  BY NullAssumption DEF Holders
<1>3. Cardinality(Holders(f, b) \cup {w}) = Cardinality(Holders(f, b)) + 1
  BY <1>2, HoldersFinite, FS_AddElement
<1>4. Cardinality(Holders(f, b)) \in Nat
  BY HoldersFinite
<1> HIDE DEF g
<1>5. Cardinality(Holders(g, b)) =
        Cardinality(Holders(f, b)) + (IF b = c THEN 1 ELSE 0)
  <2>1. CASE b = c
    BY <1>1, <1>3, <2>1
  <2>2. CASE b # c
    BY <1>1, <1>4, <2>2
  <2>3. QED
    BY <2>1, <2>2
<1>6. QED
  BY <1>5 DEF g

(* One holder less. *)
LEMMA HoldersRemove ==
  ASSUME NEW f \in Pointers, NEW w \in Wrapper, f[w] # NULL, NEW b \in Conn
  PROVE  Cardinality(Holders([f EXCEPT ![w] = NULL], b)) =
           Cardinality(Holders(f, b)) - (IF b = f[w] THEN 1 ELSE 0)
<1> DEFINE g == [f EXCEPT ![w] = NULL]
<1>1. Holders(g, b) = Holders(f, b) \ {w}
  BY NullAssumption DEF Holders, Pointers
<1>2. w \in Holders(f, b) <=> b = f[w]
  BY DEF Holders
<1>3. Cardinality(Holders(f, b) \ {w}) =
        IF w \in Holders(f, b) THEN Cardinality(Holders(f, b)) - 1
                               ELSE Cardinality(Holders(f, b))
  BY HoldersFinite, FS_RemoveElement
<1>4. Cardinality(Holders(f, b)) \in Nat
  BY HoldersFinite
<1> HIDE DEF g
<1>5. Cardinality(Holders(g, b)) =
        Cardinality(Holders(f, b)) - (IF b = f[w] THEN 1 ELSE 0)
  <2>1. CASE b = f[w]
    BY <1>1, <1>2, <1>3, <2>1
  <2>2. CASE b # f[w]
    BY <1>1, <1>2, <1>3, <1>4, <2>2
  <2>3. QED
    BY <2>1, <2>2
<1>6. QED
  BY <1>5 DEF g

(* A connection with a userdata, or a share of libdbus, has a count; one   *)
(* without a count has neither.                                            *)
LEMMA OwnedCounted ==
  ASSUME TypeOK, RefsExact, NEW c \in Conn,
         c \in shared \/ \E w \in Wrapper : connection[w] = c
  PROVE  refs[c] > 0
<1>1. /\ Cardinality(Holders(connection, c)) \in Nat /\ held[c] \in Nat
      /\ refs[c] = Cardinality(Holders(connection, c)) + held[c]
                     + (IF c \in shared THEN 1 ELSE 0)
  BY HoldersFinite DEF TypeOK, RefsExact
<1>2. CASE c \in shared
  BY <1>1, <1>2
<1>3. CASE \E w \in Wrapper : connection[w] = c
  <2>1. Cardinality(Holders(connection, c)) > 0
    BY <1>3, HolderCounted
  <2>2. QED
    BY <1>1, <2>1
<1>4. QED
  BY <1>2, <1>3

(* That a private connection has somebody to close it is what makes the    *)
(* last count safe to drop.                                                *)
LEMMA CloserCloses == IInv => ClosedBeforeFreed
<1> SUFFICES ASSUME IInv, NEW c \in Conn, refs[c] = 0, c \in connected PROVE FALSE
  BY DEF ClosedBeforeFreed
<1>1. c \in shared \/ \E w \in Wrapper : connection[w] = c
  BY DEF IInv, HasCloser
<1>2. refs[c] > 0
  BY <1>1, OwnedCounted DEF IInv
<1>3. QED
  BY <1>2

----------------------------------------------------------------------------
(* The inductive invariant.                                                *)

LEMMA InitIInv == Init => IInv
<1> SUFFICES ASSUME Init PROVE IInv
  OBVIOUS
<1>1. TypeOK /\ ClosesAlone /\ HasCloser /\ SharedUp /\ NeverCutOff
  BY DEF Init, TypeOK, ClosesAlone, HasCloser, SharedUp, NeverCutOff
<1>2. ASSUME NEW c \in Conn PROVE Holders(connection, c) = {}
  BY NullAssumption DEF Init, Holders
<1>3. RefsExact
  <2>1. \A c \in Conn : Cardinality(Holders(connection, c)) = 0
    BY <1>2, FS_EmptySet
  <2>2. /\ refs = [c \in Conn |-> 0] /\ held = [c \in Conn |-> 0]
        /\ shared = {}
    BY DEF Init
  <2>3. QED
    BY <2>1, <2>2 DEF RefsExact
<1>4. QED
  BY <1>1, <1>3 DEF IInv

(* A new userdata takes over one count of c, which libdbus made for it.    *)
LEMMA PushCounts ==
  ASSUME IInv, NEW w \in Wrapper, NEW c \in Conn, NEW closes \in BOOLEAN,
         PushConnection(w, c, closes), UNCHANGED held,
         refs' \in [Conn -> Nat], shared' \subseteq Conn,
         \A b \in Conn : refs'[b] = refs[b] + (IF b = c THEN 1 ELSE 0)
                                      + Lib(shared', b) - Lib(shared, b)
  PROVE  RefsExact'
<1>1. /\ connection' = [connection EXCEPT ![w] = c] /\ connection[w] = NULL
      /\ connection \in Pointers
  BY DEF PushConnection, IInv, TypeOK, Pointers
<1>2. ASSUME NEW b \in Conn
      PROVE  refs'[b] = Cardinality(Holders(connection', b)) + held'[b] + Lib(shared', b)
  <2>1. Cardinality(Holders(connection', b)) =
          Cardinality(Holders(connection, b)) + (IF b = c THEN 1 ELSE 0)
    BY <1>1, HoldersAdd
  <2>2. refs[b] = Cardinality(Holders(connection, b)) + held[b] + Lib(shared, b)
    BY DEF IInv, RefsExact, Lib
  <2>3. /\ Cardinality(Holders(connection, b)) \in Nat /\ held[b] \in Nat
        /\ Lib(shared, b) \in Nat /\ Lib(shared', b) \in Nat
    BY HoldersFinite DEF IInv, TypeOK, Lib
  <2>4. QED
    BY <2>1, <2>2, <2>3
<1>3. QED
  BY <1>2 DEF RefsExact, Lib

(* A connection at an address that has no count is nobody's. *)
LEMMA FreshUnowned ==
  ASSUME IInv, NEW c \in Conn, refs[c] = 0
  PROVE  /\ c \notin shared /\ c \notin connected
         /\ \A v \in Wrapper : connection[v] # c
<1>1. c \notin shared /\ \A v \in Wrapper : connection[v] # c
  BY OwnedCounted DEF IInv
<1>2. c \notin connected
  BY CloserCloses DEF ClosedBeforeFreed
<1>3. QED
  BY <1>1, <1>2

LEMMA OpenSharedIInv ==
  ASSUME IInv, NEW w \in Wrapper, NEW c \in Conn, OpenShared(w, c)
  PROVE  IInv'
<1>1. /\ connection' = [connection EXCEPT ![w] = c] /\ connection[w] = NULL
      /\ close' = [close EXCEPT ![w] = FALSE]
      /\ UNCHANGED held
  BY DEF OpenShared, PushConnection
<1>2. PushConnection(w, c, FALSE)
  BY DEF OpenShared
<1>3. CASE /\ c \in shared
           /\ refs' = [refs EXCEPT ![c] = @ + 1]
           /\ UNCHANGED <<connected, shared, lost>>
  <2>1. TypeOK'
    BY <1>1, <1>3 DEF IInv, TypeOK
  <2>2. RefsExact'
    <3>1. refs' \in [Conn -> Nat] /\ shared' \subseteq Conn
      BY <2>1 DEF TypeOK
    <3>2. ASSUME NEW b \in Conn
          PROVE  refs'[b] = refs[b] + (IF b = c THEN 1 ELSE 0)
                              + Lib(shared', b) - Lib(shared, b)
      BY <1>3 DEF IInv, TypeOK, Lib
    <3>3. QED
      BY <1>1, <1>2, <3>1, <3>2, PushCounts
  <2>3. ClosesAlone' /\ HasCloser' /\ SharedUp'
    BY <1>1, <1>3, NullAssumption DEF IInv, TypeOK, ClosesAlone, HasCloser,
        SharedUp
  <2>4. NeverCutOff'
    <3>1. c \in connected \cup lost
      BY <1>3 DEF IInv, SharedUp
    <3>2. QED
      BY <1>1, <1>3, <3>1 DEF IInv, TypeOK, NeverCutOff
  <2>5. QED
    BY <2>1, <2>2, <2>3, <2>4 DEF IInv
<1>4. CASE Connect(c, 2) /\ shared' = shared \cup {c}
  <2>1. /\ refs[c] = 0 /\ refs' = [refs EXCEPT ![c] = 2]
        /\ connected' = connected \cup {c} /\ lost' = lost \ {c}
    BY <1>4 DEF Connect
  <2>2. c \notin shared /\ c \notin connected /\ \A v \in Wrapper : connection[v] # c
    BY <2>1, FreshUnowned
  <2>3. TypeOK'
    BY <1>1, <1>4, <2>1 DEF IInv, TypeOK
  <2>4. RefsExact'
    <3>1. refs' \in [Conn -> Nat] /\ shared' \subseteq Conn
      BY <2>3 DEF TypeOK
    <3>2. ASSUME NEW b \in Conn
          PROVE  refs'[b] = refs[b] + (IF b = c THEN 1 ELSE 0)
                              + Lib(shared', b) - Lib(shared, b)
      BY <1>4, <2>1, <2>2 DEF IInv, TypeOK, Lib
    <3>3. QED
      BY <1>1, <1>2, <3>1, <3>2, PushCounts
  <2>5. ClosesAlone' /\ HasCloser' /\ SharedUp'
    BY <1>1, <1>4, <2>1, <2>2, NullAssumption DEF IInv, TypeOK, ClosesAlone, HasCloser,
        SharedUp
  <2>6. NeverCutOff'
    BY <1>1, <2>1, <2>2 DEF IInv, TypeOK, NeverCutOff
  <2>7. QED
    BY <2>3, <2>4, <2>5, <2>6 DEF IInv
<1>5. QED
  BY <1>3, <1>4 DEF OpenShared, GetShared

LEMMA GetPrivateIInv ==
  ASSUME IInv, NEW w \in Wrapper, NEW c \in Conn, GetPrivate(w, c)
  PROVE  IInv'
<1>1. /\ connection' = [connection EXCEPT ![w] = c] /\ connection[w] = NULL
      /\ close' = [close EXCEPT ![w] = TRUE]
      /\ refs[c] = 0 /\ refs' = [refs EXCEPT ![c] = 1]
      /\ connected' = connected \cup {c} /\ lost' = lost \ {c}
      /\ UNCHANGED <<shared, held>>
      /\ PushConnection(w, c, TRUE)
  BY DEF GetPrivate, PushConnection, Connect
<1>2. c \notin shared /\ c \notin connected /\ \A v \in Wrapper : connection[v] # c
  BY <1>1, FreshUnowned
<1>3. TypeOK'
  BY <1>1 DEF IInv, TypeOK
<1>4. RefsExact'
  <2>1. refs' \in [Conn -> Nat] /\ shared' \subseteq Conn
    BY <1>3 DEF TypeOK
  <2>2. ASSUME NEW b \in Conn
        PROVE  refs'[b] = refs[b] + (IF b = c THEN 1 ELSE 0)
                            + Lib(shared', b) - Lib(shared, b)
    BY <1>1 DEF IInv, TypeOK, Lib
  <2>3. QED
    BY <1>1, <2>1, <2>2, PushCounts
<1>5. ClosesAlone' /\ HasCloser' /\ SharedUp'
  BY <1>1, <1>2, NullAssumption DEF IInv, TypeOK, ClosesAlone, HasCloser,
        SharedUp
<1>6. NeverCutOff'
  BY <1>1, <1>2 DEF IInv, TypeOK, NeverCutOff
<1>7. QED
  BY <1>3, <1>4, <1>5, <1>6 DEF IInv

LEMMA ConnectionGCIInv ==
  ASSUME IInv, NEW w \in Wrapper, ConnectionGC(w)
  PROVE  IInv'
<1> DEFINE c == connection[w]
<1>1. /\ c # NULL /\ c \in Conn
      /\ connected' = IF close[w] THEN connected \ {c} ELSE connected
      /\ refs' = [refs EXCEPT ![c] = @ - 1]
      /\ connection' = [connection EXCEPT ![w] = NULL]
      /\ close' = [close EXCEPT ![w] = FALSE]
      /\ UNCHANGED <<shared, held, lost>>
      /\ connection \in Pointers
  BY DEF ConnectionGC, IInv, TypeOK, Pointers
<1>2. refs[c] > 0
  BY <1>1, OwnedCounted DEF IInv
<1>3. TypeOK'
  BY <1>1, <1>2 DEF IInv, TypeOK
<1>4. ASSUME NEW b \in Conn
      PROVE  refs'[b] = Cardinality(Holders(connection', b)) + held'[b] + Lib(shared', b)
  <2>1. Cardinality(Holders(connection', b)) =
          Cardinality(Holders(connection, b)) - (IF b = c THEN 1 ELSE 0)
    BY <1>1, HoldersRemove
  <2>2. refs[b] = Cardinality(Holders(connection, b)) + held[b] + Lib(shared, b)
    BY DEF IInv, RefsExact, Lib
  <2>3. refs'[b] = refs[b] - (IF b = c THEN 1 ELSE 0)
    BY <1>1 DEF IInv, TypeOK
  <2>4. /\ Cardinality(Holders(connection, b)) \in Nat /\ held[b] \in Nat
        /\ Lib(shared, b) \in Nat
    BY HoldersFinite DEF IInv, TypeOK, Lib
  <2>5. QED
    BY <1>1, <2>1, <2>2, <2>3, <2>4
<1>5. RefsExact'
  BY <1>4 DEF RefsExact, Lib
<1>6. ClosesAlone' /\ SharedUp'
  BY <1>1 DEF IInv, TypeOK, ClosesAlone, SharedUp
<1>7. HasCloser'
  <2> SUFFICES ASSUME NEW b \in connected' \ shared'
               PROVE  \E v \in Wrapper : connection'[v] = b /\ close'[v]
    BY DEF HasCloser
  <2>1. b \in connected \ shared
    BY <1>1
  <2>2. PICK v \in Wrapper : connection[v] = b /\ close[v]
    BY <2>1 DEF IInv, HasCloser
  <2>3. v # w
    BY <1>1, <2>2
  <2>4. QED
    BY <1>1, <2>2, <2>3 DEF IInv, TypeOK
<1>8. NeverCutOff'
  BY <1>1, NullAssumption DEF IInv, TypeOK, NeverCutOff, ClosesAlone
<1>9. QED
  BY <1>3, <1>5, <1>6, <1>7, <1>8 DEF IInv

(* Steps that leave the userdata alone keep the counts when refs follows   *)
(* held and shared.                                                        *)
LEMMA SameHolders ==
  ASSUME IInv, UNCHANGED connection, refs' \in [Conn -> Int],
         held' \in [Conn -> Nat],
         \A b \in Conn : refs'[b] - refs[b] =
           held'[b] - held[b] + Lib(shared', b) - Lib(shared, b)
  PROVE  RefsExact' /\ refs' \in [Conn -> Nat]
<1>1. ASSUME NEW b \in Conn
      PROVE  /\ refs'[b] = Cardinality(Holders(connection', b)) + held'[b] + Lib(shared', b)
             /\ refs'[b] \in Nat
  <2>1. refs[b] = Cardinality(Holders(connection, b)) + held[b] + Lib(shared, b)
    BY DEF IInv, RefsExact, Lib
  <2>2. /\ Cardinality(Holders(connection, b)) \in Nat
        /\ held[b] \in Nat /\ held'[b] \in Nat
        /\ Lib(shared, b) \in Nat /\ Lib(shared', b) \in Nat
        /\ refs'[b] \in Int /\ refs[b] \in Nat
    BY HoldersFinite DEF IInv, TypeOK, Lib
  <2>3. refs'[b] = Cardinality(Holders(connection, b)) + held'[b] + Lib(shared', b)
    BY <2>1, <2>2
  <2>4. QED
    BY <2>2, <2>3
<1>2. QED
  BY <1>1 DEF RefsExact, Lib

LEMMA StepIInv == IInv /\ [Next]_vars => IInv'
<1> SUFFICES ASSUME IInv, [Next]_vars PROVE IInv'
  OBVIOUS
<1>1. ASSUME NEW w \in Wrapper, NEW c \in Conn, OpenShared(w, c) PROVE IInv'
  BY <1>1, OpenSharedIInv
<1>2. ASSUME NEW w \in Wrapper, NEW c \in Conn, GetPrivate(w, c) PROVE IInv'
  BY <1>2, GetPrivateIInv
<1>3. ASSUME NEW w \in Wrapper, ConnectionGC(w) PROVE IInv'
  BY <1>3, ConnectionGCIInv
<1>4. ASSUME NEW w \in Wrapper, SendWithReply(w) PROVE IInv'
  <2> DEFINE c == connection[w]
  <2>1. /\ c \in Conn
        /\ held' = [held EXCEPT ![c] = @ + 1]
        /\ refs' = [refs EXCEPT ![c] = @ + 1]
        /\ UNCHANGED <<connected, shared, connection, close, lost>>
    BY <1>4 DEF SendWithReply, IInv, TypeOK
  <2>2. TypeOK'
    BY <2>1 DEF IInv, TypeOK
  <2>3. RefsExact'
    <3>1. refs' \in [Conn -> Int] /\ held' \in [Conn -> Nat]
      BY <2>2 DEF TypeOK
    <3>2. \A b \in Conn : refs'[b] - refs[b] =
            held'[b] - held[b] + Lib(shared', b) - Lib(shared, b)
      BY <2>1 DEF IInv, TypeOK, Lib
    <3>3. QED
      BY <2>1, <3>1, <3>2, SameHolders
  <2>4. ClosesAlone' /\ HasCloser' /\ SharedUp' /\ NeverCutOff'
    BY <2>1 DEF IInv, ClosesAlone, HasCloser, SharedUp, NeverCutOff
  <2>5. QED
    BY <2>2, <2>3, <2>4 DEF IInv
<1>5. ASSUME NEW c \in Conn, PendingCallFreed(c) PROVE IInv'
  <2>1. /\ held[c] > 0
        /\ held' = [held EXCEPT ![c] = @ - 1]
        /\ refs' = [refs EXCEPT ![c] = @ - 1]
        /\ UNCHANGED <<connected, shared, connection, close, lost>>
    BY <1>5 DEF PendingCallFreed
  <2>2. RefsExact' /\ refs' \in [Conn -> Nat]
    <3>1. refs' \in [Conn -> Int] /\ held' \in [Conn -> Nat]
      BY <2>1 DEF IInv, TypeOK
    <3>2. \A b \in Conn : refs'[b] - refs[b] =
            held'[b] - held[b] + Lib(shared', b) - Lib(shared, b)
      BY <2>1 DEF IInv, TypeOK, Lib
    <3>3. QED
      BY <2>1, <3>1, <3>2, SameHolders
  <2>3. TypeOK'
    BY <2>1, <2>2 DEF IInv, TypeOK
  <2>4. ClosesAlone' /\ HasCloser' /\ SharedUp' /\ NeverCutOff'
    BY <2>1 DEF IInv, ClosesAlone, HasCloser, SharedUp, NeverCutOff
  <2>5. QED
    BY <2>2, <2>3, <2>4 DEF IInv
<1>6. ASSUME NEW c \in Conn, PeerCloses(c) PROVE IInv'
  <2>1. /\ connected' = connected \ {c} /\ lost' = lost \cup {c}
        /\ UNCHANGED <<refs, shared, held, connection, close>>
    BY <1>6 DEF PeerCloses
  <2>2. TypeOK' /\ RefsExact'
    BY <2>1 DEF IInv, TypeOK, RefsExact
  <2>3. ClosesAlone' /\ HasCloser' /\ SharedUp' /\ NeverCutOff'
    BY <2>1 DEF IInv, ClosesAlone, HasCloser, SharedUp, NeverCutOff
  <2>4. QED
    BY <2>2, <2>3 DEF IInv
<1>7. ASSUME NEW w \in Wrapper, DispatchDisconnected(w) PROVE IInv'
  <2> DEFINE c == connection[w]
  <2>1. /\ c \in shared \ connected /\ c \in Conn
        /\ shared' = shared \ {c}
        /\ refs' = [refs EXCEPT ![c] = @ - 1]
        /\ UNCHANGED <<connected, held, connection, close, lost>>
    BY <1>7 DEF DispatchDisconnected, IInv, TypeOK
  <2>2. RefsExact' /\ refs' \in [Conn -> Nat]
    <3>1. refs' \in [Conn -> Int] /\ held' \in [Conn -> Nat]
      BY <2>1 DEF IInv, TypeOK
    <3>2. \A b \in Conn : refs'[b] - refs[b] =
            held'[b] - held[b] + Lib(shared', b) - Lib(shared, b)
      BY <2>1 DEF IInv, TypeOK, Lib
    <3>3. QED
      BY <2>1, <3>1, <3>2, SameHolders
  <2>3. TypeOK'
    BY <2>1, <2>2 DEF IInv, TypeOK
  <2>4. ClosesAlone' /\ HasCloser' /\ SharedUp' /\ NeverCutOff'
    BY <2>1 DEF IInv, ClosesAlone, HasCloser, SharedUp, NeverCutOff
  <2>5. QED
    BY <2>2, <2>3, <2>4 DEF IInv
<1>8. CASE UNCHANGED vars
  BY <1>8 DEF vars, IInv, TypeOK, RefsExact, ClosesAlone, HasCloser, SharedUp, NeverCutOff
<1>9. QED
  BY <1>1, <1>2, <1>3, <1>4, <1>5, <1>6, <1>7, <1>8 DEF Next

----------------------------------------------------------------------------
(* The variables of the connections keep their types; no count is negative.*)
THEOREM TypeCorrect == Spec => []TypeOK
<1>1. IInv => TypeOK
  BY DEF IInv
<1>2. QED
  BY <1>1, InitIInv, StepIInv, PTL DEF Spec

(* The count in each connection is the number of its owners.               *)
THEOREM Counting == Spec => []RefsExact
<1>1. IInv => RefsExact
  BY DEF IInv
<1>2. QED
  BY <1>1, InitIInv, StepIInv, PTL DEF Spec

(* ldbus_connection_gc never drops the last count of a connection that is  *)
(* up, nor does a pending call that outlives the userdata.                 *)
THEOREM NeverFreedOpen == Spec => []ClosedBeforeFreed
  BY CloserCloses, InitIInv, StepIInv, PTL DEF Spec

(* ldbus_connection_gc never closes the connection of another userdata.    *)
THEOREM OthersUndisturbed == Spec => []NeverCutOff
<1>1. IInv => NeverCutOff
  BY DEF IInv
<1>2. QED
  BY <1>1, InitIInv, StepIInv, PTL DEF Spec

----------------------------------------------------------------------------
(* Counting is shared ownership.                                           *)

(* What libdbus itself owns of each connection. *)
Lent == [c \in Conn |-> held[c] + (IF c \in shared THEN 1 ELSE 0)]

(* A count is positive exactly while there is an owner.                    *)
LEMMA AliveIsOwned ==
  IInv => {c \in Conn : refs[c] > 0}
            = {c \in Conn : Lifetime!Owned(c, connection, Lent)}
<1> SUFFICES ASSUME IInv, NEW c \in Conn
             PROVE  refs[c] > 0 <=> Lifetime!Owned(c, connection, Lent)
  OBVIOUS
<1> DEFINE n == Cardinality(Holders(connection, c))
<1>1. n \in Nat /\ Lent[c] \in Nat /\ refs[c] = n + Lent[c]
  BY HoldersFinite DEF IInv, TypeOK, RefsExact, Lent
<1>2. n > 0 <=> \E w \in Wrapper : connection[w] = c
  <2>1. ASSUME NEW w \in Wrapper, connection[w] = c PROVE n > 0
    BY <2>1, HolderCounted
  <2>2. ASSUME n > 0 PROVE \E w \in Wrapper : connection[w] = c
    <3>1. Holders(connection, c) # {}
      BY <2>2, FS_EmptySet
    <3>2. QED
      BY <3>1 DEF Holders
  <2>3. QED
    BY <2>1, <2>2
<1> HIDE DEF n
<1>3. QED
  BY <1>1, <1>2 DEF Lifetime!Owned

LEMMA OwnershipStep ==
  IInv /\ IInv' /\ [Next]_vars => [Lifetime!Next]_(Lifetime!vars)
<1> SUFFICES ASSUME IInv, IInv', [Next]_vars
             PROVE  [Lifetime!Next]_(Lifetime!vars)
  OBVIOUS
<1> DEFINE alive == {c \in Conn : refs[c] > 0}
           Moves == \/ \E h \in Wrapper, o \in Conn :
                         \/ Lifetime!Create(h, o) \/ Lifetime!Found(h, o)
                         \/ Lifetime!Share(h, o)
                    \/ \E h \in Wrapper : Lifetime!Release(h)
                    \/ \E o \in Conn : Lifetime!Lend(o) \/ Lifetime!GiveBack(o)
<1>a. alive' = {c \in Conn : Lifetime!Owned(c, connection', Lent')}
  <2>1. (IInv => alive = {c \in Conn : Lifetime!Owned(c, connection, Lent)})'
    BY AliveIsOwned, PTL
  <2>2. QED
    BY <2>1
<1>n. Moves => Lifetime!Next
  BY <1>a DEF Lifetime!Next, Lent
<1>u. UNCHANGED <<refs, connection, held, shared>> => UNCHANGED Lifetime!vars
  BY DEF Lifetime!vars
<1> HIDE DEF alive
<1>t. /\ refs \in [Conn -> Nat] /\ held \in [Conn -> Nat]
      /\ connection \in Pointers /\ shared \subseteq Conn
      /\ \A c \in Conn : Lent[c] \in Nat
      /\ \A c \in Conn : refs[c] = 0 => Lent[c] = 0
      /\ \A c \in shared : Lent[c] > 0
  <2>1. \A c \in Conn :
          refs[c] = Cardinality(Holders(connection, c)) + held[c]
                      + (IF c \in shared THEN 1 ELSE 0)
    BY DEF IInv, RefsExact
  <2>2. \A c \in Conn : Cardinality(Holders(connection, c)) \in Nat
    BY HoldersFinite
  <2>3. QED
    BY <2>1, <2>2 DEF IInv, TypeOK, Pointers, Lent
<1>e. ASSUME NEW c \in Conn, NEW v \in Nat, Lent'[c] = v,
             \A b \in Conn \ {c} : Lent'[b] = Lent[b]
      PROVE  Lent' = [Lent EXCEPT ![c] = v]
  BY <1>e DEF Lent
<1>1. ASSUME NEW w \in Wrapper, NEW c \in Conn, OpenShared(w, c)
      PROVE  Moves
  <2>1. connection[w] = NULL /\ connection' = [connection EXCEPT ![w] = c]
        /\ held' = held
    BY <1>1 DEF OpenShared, PushConnection
  <2>2. CASE c \in shared /\ shared' = shared
    <3>1. Lent' = Lent /\ Lent[c] > 0
      BY <1>t, <2>1, <2>2 DEF Lent
    <3>2. Lifetime!Share(w, c)
      BY <2>1, <3>1 DEF Lifetime!Share, Lent
    <3>3. QED
      BY <3>2
  <2>3. CASE refs[c] = 0 /\ shared' = shared \cup {c}
    <3>1. Lent[c] = 0 /\ Lent'[c] = 1 /\ \A b \in Conn \ {c} : Lent'[b] = Lent[b]
      BY <1>t, <2>1, <2>3 DEF Lent
    <3>2. Lent' = [Lent EXCEPT ![c] = 1]
      BY <1>e, <3>1
    <3>3. c \notin alive
      BY <2>3 DEF alive
    <3>4. Lifetime!Found(w, c)
      BY <2>1, <3>2, <3>3 DEF Lifetime!Found, Lent, alive
    <3>5. QED
      BY <3>4
  <2>4. QED
    BY <1>1, <2>2, <2>3 DEF OpenShared, GetShared, Connect
<1>2. ASSUME NEW w \in Wrapper, NEW c \in Conn, GetPrivate(w, c)
      PROVE  Moves
  <2>1. Lifetime!Create(w, c)
    BY <1>2 DEF GetPrivate, Connect, PushConnection, Lifetime!Create
  <2>2. QED
    BY <2>1
<1>3. ASSUME NEW w \in Wrapper, ConnectionGC(w)
      PROVE  Moves
  <2>1. Lifetime!Release(w)
    BY <1>3 DEF ConnectionGC, Lifetime!Release
  <2>2. QED
    BY <2>1
<1>l. ASSUME NEW c \in Conn, refs[c] > 0, Lent'[c] = Lent[c] + 1,
             \A b \in Conn \ {c} : Lent'[b] = Lent[b], connection' = connection
      PROVE  Moves
  <2>1. Lent' = [Lent EXCEPT ![c] = @ + 1]
    BY <1>e, <1>t, <1>l
  <2>2. Lifetime!Lend(c)
    BY <1>l, <2>1 DEF Lifetime!Lend, Lent
  <2>3. QED
    BY <2>2
<1>4. ASSUME NEW w \in Wrapper, SendWithReply(w)
      PROVE  Moves
  <2>1. connection[w] \in Conn /\ refs[connection[w]] > 0
    BY <1>4, <1>t, OwnedCounted DEF SendWithReply, IInv, Pointers
  <2>2. PICK c \in Conn : c = connection[w]
    BY <2>1
  <2>3. refs[c] > 0 /\ Lent'[c] = Lent[c] + 1 /\ connection' = connection
        /\ \A b \in Conn \ {c} : Lent'[b] = Lent[b]
    BY <1>4, <1>t, <2>1, <2>2 DEF SendWithReply, Lent
  <2>4. QED
    BY <1>l, <2>3
<1>5. ASSUME NEW c \in Conn, Lent[c] > 0, Lent'[c] = Lent[c] - 1,
             \A b \in Conn \ {c} : Lent'[b] = Lent[b], connection' = connection
      PROVE  Moves
  <2>1. Lent[c] - 1 \in Nat
    BY <1>t, <1>5
  <2>2. Lent' = [Lent EXCEPT ![c] = @ - 1]
    BY <1>e, <1>5, <2>1
  <2>3. Lifetime!GiveBack(c)
    BY <1>5, <2>2 DEF Lifetime!GiveBack, Lent
  <2>4. QED
    BY <2>3
<1>6. ASSUME NEW w \in Wrapper, DispatchDisconnected(w)
      PROVE  Moves
  <2> DEFINE c == connection[w]
  <2>1. c \in shared /\ c \in Conn /\ shared' = shared \ {c} /\ held' = held
        /\ connection' = connection
    BY <1>6, <1>t DEF DispatchDisconnected
  <2>2. Lent[c] > 0 /\ Lent'[c] = Lent[c] - 1
        /\ \A b \in Conn \ {c} : Lent'[b] = Lent[b]
    BY <1>t, <2>1 DEF Lent
  <2>3. QED
    BY <1>5, <2>1, <2>2
<1>7. ASSUME NEW c \in Conn, PendingCallFreed(c)
      PROVE  Moves
  <2>1. Lent[c] > 0 /\ Lent'[c] = Lent[c] - 1
        /\ \A b \in Conn \ {c} : Lent'[b] = Lent[b]
    BY <1>7, <1>t DEF PendingCallFreed, Lent
  <2>2. QED
    BY <1>5, <1>7, <2>1 DEF PendingCallFreed
<1>8. ASSUME NEW c \in Conn, PeerCloses(c)
      PROVE  UNCHANGED Lifetime!vars
  BY <1>8, <1>u DEF PeerCloses
<1>9. CASE UNCHANGED vars
  BY <1>9, <1>u DEF vars
<1>10. QED
  <2> HIDE DEF Moves
  <2>1. QED
    BY <1>n, <1>1, <1>2, <1>3, <1>4, <1>6, <1>7, <1>8, <1>9 DEF Next

(* The counts of connections implement shared ownership, with libdbus as   *)
(* the lender: a connection lives exactly as long as a userdata, a pending *)
(* call or libdbus itself owns it (open and __gc of                        *)
(* src/src/connection.c, get and get_private of src/src/bus.c).            *)
THEOREM ImplementsOwnership == Spec => OwnershipImplemented
<1>1. Init => Lifetime!Init
  BY DEF Init, Lifetime!Init
<1>2. QED
  BY <1>1, InitIInv, StepIInv, OwnershipStep, PTL
     DEF Spec, OwnershipImplemented, Lifetime!Spec

=============================================================================
