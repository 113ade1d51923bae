-------------------------- MODULE MessageRefsProofs --------------------------
(***************************************************************************)
(* Proofs about MessageRefs, for every number of messages, wrappers and    *)
(* iterators.                                                              *)
(***************************************************************************)
EXTENDS MessageRefs, FiniteSetTheorems, TLAPS

Pointers == [Userdata -> Message \cup {NULL}]

(* The table of counts that the userdata pointers f and the counts h of    *)
(* libdbus call for; RefsExact says that refs is Counts(message, held).    *)
Counts(f, h) == [m \in Message |-> Cardinality(Holders(f, m)) + h[m]]

----------------------------------------------------------------------------
(* Counting.                                                               *)

(* The owners of a message are finitely many, so their number is a natural *)
(* number.                                                                 *)
LEMMA HoldersFinite ==
  ASSUME NEW f, NEW m
  PROVE  /\ IsFiniteSet(Holders(f, m))
         /\ Cardinality(Holders(f, m)) \in Nat
<1>1. IsFiniteSet(Userdata)
  BY UserdataAssumption, FS_Union DEF Userdata
<1>2. Holders(f, m) \in SUBSET Userdata
  BY DEF Holders
<1>3. QED
  BY <1>1, <1>2, FS_Subset, FS_CardinalityType

(* The counts called for are natural numbers. *)
LEMMA CountsType ==
  ASSUME NEW f, NEW h \in [Message -> Nat]
  PROVE  Counts(f, h) \in [Message -> Nat]
BY HoldersFinite DEF Counts

(* An owned message has a positive count. *)
LEMMA OwnerCounted ==
  ASSUME NEW f \in Pointers, NEW h \in [Message -> Nat],
         NEW u \in Userdata, f[u] \in Message
  PROVE  Counts(f, h)[f[u]] > 0
<1>1. Holders(f, f[u]) # {}
  BY DEF Holders
<1>2. Cardinality(Holders(f, f[u])) # 0
  BY <1>1, HoldersFinite, FS_EmptySet
<1>3. QED
  BY <1>2, HoldersFinite DEF Counts

(* Letting go of the message of a userdata is one dbus_message_unref. *)
LEMMA ReleaseCounts ==
  ASSUME NEW f \in Pointers, NEW h \in [Message -> Nat], NEW u \in Userdata
  PROVE  Unref(Counts(f, h), f[u]) = Counts([f EXCEPT ![u] = NULL], h)
<1> DEFINE g == [f EXCEPT ![u] = NULL]
<1>1. f[u] \in Message \cup {NULL}
  BY DEF Pointers
<1>2. ASSUME NEW m \in Message
      PROVE  Holders(g, m) = Holders(f, m) \ {u}
  BY NullAssumption DEF Holders, Pointers
<1>3. ASSUME NEW m \in Message
      PROVE  Cardinality(Holders(g, m)) =
               IF f[u] = m THEN Cardinality(Holders(f, m)) - 1
                           ELSE Cardinality(Holders(f, m))
  <2>1. u \in Holders(f, m) <=> f[u] = m
    BY DEF Holders
  <2>2. IsFiniteSet(Holders(f, m))
    BY HoldersFinite
  <2>3. Cardinality(Holders(f, m) \ {u}) =
          IF u \in Holders(f, m) THEN Cardinality(Holders(f, m)) - 1
                                 ELSE Cardinality(Holders(f, m))
    BY <2>2, FS_RemoveElement
  <2>4. QED
    BY <1>2, <2>1, <2>3
<1>4. CASE f[u] = NULL
  BY <1>3, <1>4, NullAssumption DEF Unref, Counts
<1>5. CASE f[u] \in Message
  <2>1. Unref(Counts(f, h), f[u]) = [Counts(f, h) EXCEPT ![f[u]] = @ - 1]
    BY <1>5, NullAssumption DEF Unref
  <2>2. ASSUME NEW m \in Message
        PROVE  Unref(Counts(f, h), f[u])[m] = Counts(g, h)[m]
    <3>1. Cardinality(Holders(f, m)) \in Nat /\ h[m] \in Nat
      BY HoldersFinite
    <3>2. /\ Counts(f, h)[m] = Cardinality(Holders(f, m)) + h[m]
          /\ Counts(g, h)[m] = Cardinality(Holders(g, m)) + h[m]
      BY DEF Counts
    <3>3. Unref(Counts(f, h), f[u])[m] =
            IF m = f[u] THEN Counts(f, h)[m] - 1 ELSE Counts(f, h)[m]
      BY <1>5, <2>1 DEF Counts
    <3>4. Cardinality(Holders(g, m)) =
            IF f[u] = m THEN Cardinality(Holders(f, m)) - 1
                        ELSE Cardinality(Holders(f, m))
      BY <1>3
    <3> HIDE DEF g
    <3>5. CASE f[u] = m
      BY <3>1, <3>2, <3>3, <3>4, <3>5
    <3>6. CASE f[u] # m
      BY <3>2, <3>3, <3>4, <3>6
    <3>7. QED
      BY <3>5, <3>6
  <2>3. QED
    BY <2>1, <2>2 DEF Counts
<1>6. QED
  BY <1>1, <1>4, <1>5

(* Giving a message to a userdata that has none is one dbus_message_ref. *)
LEMMA TakeCounts ==
  ASSUME NEW f \in Pointers, NEW h \in [Message -> Nat], NEW u \in Userdata,
         f[u] = NULL, NEW x \in Message \cup {NULL}
  PROVE  Ref(Counts(f, h), x) = Counts([f EXCEPT ![u] = x], h)
<1> DEFINE g == [f EXCEPT ![u] = x]
<1>1. ASSUME NEW m \in Message
      PROVE  /\ m = x => Holders(g, m) = Holders(f, m) \cup {u}
             /\ m # x => Holders(g, m) = Holders(f, m)
  BY NullAssumption DEF Holders, Pointers
<1>2. ASSUME NEW m \in Message
      PROVE  Cardinality(Holders(g, m)) =
               IF m = x THEN Cardinality(Holders(f, m)) + 1
                        ELSE Cardinality(Holders(f, m))
  <2>1. u \notin Holders(f, m)
    BY NullAssumption DEF Holders
  <2>2. IsFiniteSet(Holders(f, m))
    BY HoldersFinite
  <2>3. Cardinality(Holders(f, m) \cup {u}) = Cardinality(Holders(f, m)) + 1
    BY <2>1, <2>2, FS_AddElement
  <2>4. QED
    BY <1>1, <2>3
<1>3. CASE x = NULL
  BY <1>2, <1>3, NullAssumption DEF Ref, Counts
<1>4. CASE x \in Message
  <2>1. Ref(Counts(f, h), x) = [Counts(f, h) EXCEPT ![x] = @ + 1]
    BY <1>4, NullAssumption DEF Ref
  <2>2. ASSUME NEW m \in Message
        PROVE  Ref(Counts(f, h), x)[m] = Counts(g, h)[m]
    <3>1. Cardinality(Holders(f, m)) \in Nat /\ h[m] \in Nat
      BY HoldersFinite
    <3>2. /\ Counts(f, h)[m] = Cardinality(Holders(f, m)) + h[m]
          /\ Counts(g, h)[m] = Cardinality(Holders(g, m)) + h[m]
      BY DEF Counts
    <3>3. Ref(Counts(f, h), x)[m] =
            IF m = x THEN Counts(f, h)[m] + 1 ELSE Counts(f, h)[m]
      BY <1>4, <2>1 DEF Counts
    <3>4. Cardinality(Holders(g, m)) =
            IF m = x THEN Cardinality(Holders(f, m)) + 1
                     ELSE Cardinality(Holders(f, m))
      BY <1>2
    <3> HIDE DEF g
    <3>5. CASE m = x
      BY <3>1, <3>2, <3>3, <3>4, <3>5
    <3>6. CASE m # x
      BY <3>2, <3>3, <3>4, <3>6
    <3>7. QED
      BY <3>5, <3>6
  <2>3. QED
    BY <2>1, <2>2 DEF Counts
<1>5. QED
  BY <1>3, <1>4

(* Releasing one message and taking another, as the methods that set up an *)
(* iterator do.                                                            *)
LEMMA RepointCounts ==
  ASSUME NEW f \in Pointers, NEW h \in [Message -> Nat], NEW u \in Userdata,
         NEW x \in Message \cup {NULL}
  PROVE  Ref(Unref(Counts(f, h), f[u]), x) = Counts([f EXCEPT ![u] = x], h)
<1> DEFINE g == [f EXCEPT ![u] = NULL]
<1>1. g \in Pointers /\ g[u] = NULL
  BY DEF Pointers
<1>2. [g EXCEPT ![u] = x] = [f EXCEPT ![u] = x]
  BY DEF Pointers
<1>3. Unref(Counts(f, h), f[u]) = Counts(g, h)
  BY ReleaseCounts
<1>4. Ref(Counts(g, h), x) = Counts([g EXCEPT ![u] = x], h)
  BY <1>1, TakeCounts
<1>5. QED
  BY <1>2, <1>3, <1>4

(* Each count that libdbus takes or drops for itself is one count: tables  *)
(* that change alike stay together.                                        *)
LEMMA HeldCounts ==
  ASSUME NEW f \in Pointers, NEW h \in [Message -> Nat],
         NEW g \in [Message -> Nat], NEW r \in [Message -> Int],
         \A x \in Message : r[x] - Counts(f, h)[x] = g[x] - h[x]
  PROVE  r = Counts(f, g)
<1> DEFINE c(x) == Cardinality(Holders(f, x))
<1>1. \A x \in Message : c(x) \in Nat
  BY HoldersFinite
<1>2. /\ Counts(f, h) = [x \in Message |-> c(x) + h[x]]
      /\ Counts(f, g) = [x \in Message |-> c(x) + g[x]]
  BY DEF Counts
<1> HIDE DEF c
<1>3. ASSUME NEW x \in Message PROVE r[x] = c(x) + g[x]
  <2>1. Counts(f, h)[x] = c(x) + h[x] /\ r[x] - Counts(f, h)[x] = g[x] - h[x]
    BY <1>2
  <2>2. c(x) \in Int /\ h[x] \in Int /\ g[x] \in Int /\ r[x] \in Int
    BY <1>1
  <2>3. QED
    BY <2>1, <2>2
<1>4. QED
  BY <1>2, <1>3

(* A message that some userdata owns outlives the release of what another  *)
(* userdata owns.                                                          *)
LEMMA OtherOwnerKeeps ==
  ASSUME NEW f \in Pointers, NEW h \in [Message -> Nat],
         NEW u \in Userdata, NEW v \in Userdata, v # u, f[v] \in Message
  PROVE  Valid(Unref(Counts(f, h), f[u]), f[v])
<1> DEFINE g == [f EXCEPT ![u] = NULL]
<1>1. g \in Pointers /\ g[v] = f[v]
  BY DEF Pointers
<1>2. Counts(g, h)[g[v]] > 0
  BY <1>1, OwnerCounted
<1>3. Unref(Counts(f, h), f[u]) = Counts(g, h)
  BY ReleaseCounts
<1>4. QED
  BY <1>1, <1>2, <1>3, NullAssumption DEF Valid

----------------------------------------------------------------------------
(* The inductive invariant.                                                *)

CountInv == TypeOK /\ refs = Counts(message, held)

(* CountInv is the type invariant and RefsExact.                           *)
LEMMA CountInvMeaning == CountInv <=> TypeOK /\ RefsExact
BY DEF CountInv, TypeOK, RefsExact, Counts

(* Nothing is owned and nothing is counted at the start.                   *)
LEMMA CountInit == Init => CountInv
<1> SUFFICES ASSUME Init PROVE CountInv
  OBVIOUS
<1>1. TypeOK
  BY DEF Init, TypeOK
<1>2. ASSUME NEW m \in Message PROVE Holders(message, m) = {}
  BY NullAssumption DEF Init, Holders
<1>3. RefsExact
  BY <1>2, FS_EmptySet DEF Init, RefsExact
<1>4. QED
  BY <1>1, <1>3, CountInvMeaning

(* Every action changes the counts by what it does to their owners.        *)
LEMMA CountStep == CountInv /\ [Next]_vars => CountInv'
<1> SUFFICES ASSUME CountInv, [Next]_vars PROVE CountInv'
  OBVIOUS
<1>t. /\ message \in Pointers /\ held \in [Message -> Nat]
      /\ cursor \in [Iter -> Message \cup {NULL}] /\ initialized \subseteq Iter
      /\ hasArgs \in [Message -> BOOLEAN] /\ misuse \in BOOLEAN
      /\ refs \in [Message -> Nat] /\ refs = Counts(message, held)
      /\ Wrapper \subseteq Userdata /\ Iter \subseteq Userdata
  BY DEF CountInv, TypeOK, Pointers, Userdata
<1>v. ASSUME NEW r, NEW m PROVE Valid(r, m) \in BOOLEAN
  BY DEF Valid
<1>s. /\ message' \in Pointers /\ held' \in [Message -> Nat]
      /\ cursor' \in [Iter -> Message \cup {NULL}] /\ initialized' \subseteq Iter
      /\ hasArgs' \in [Message -> BOOLEAN] /\ misuse' \in BOOLEAN
      /\ refs' = Counts(message', held')
      => CountInv'
  BY CountsType DEF CountInv, TypeOK, Pointers
<1>p. \A u \in Userdata, x \in Message \cup {NULL} :
        [message EXCEPT ![u] = x] \in Pointers
  BY <1>t DEF Pointers
<1>r. \A u \in Userdata :
        Unref(refs, message[u]) = Counts([message EXCEPT ![u] = NULL], held)
  BY <1>t, ReleaseCounts
<1>g. \A u \in Userdata, x \in Message \cup {NULL} :
        message[u] = NULL =>
          Ref(refs, x) = Counts([message EXCEPT ![u] = x], held)
  BY <1>t, TakeCounts
<1>m. \A u \in Userdata, x \in Message \cup {NULL} :
        Ref(Unref(refs, message[u]), x) = Counts([message EXCEPT ![u] = x], held)
  BY <1>t, RepointCounts
<1>a. \A m \in Message : refs[m] = 0 => [refs EXCEPT ![m] = 1] = Ref(refs, m)
  BY <1>t, NullAssumption DEF Ref
<1>1. ASSUME NEW w \in Wrapper, NEW m \in Message, NewMessage(w, m)
      PROVE  CountInv'
  BY <1>1, <1>s, <1>t, <1>p, <1>g, <1>a DEF NewMessage, Allocate, PushMessage
<1>2. ASSUME NEW v \in Wrapper, NEW w \in Wrapper, NEW m \in Message,
             NewMessageFrom(v, w, m)
      PROVE  CountInv'
  BY <1>2, <1>s, <1>t, <1>v, <1>p, <1>g, <1>a
     DEF NewMessageFrom, Allocate, PushMessage
<1>3. ASSUME NEW w \in Wrapper, NEW m \in Message, TakeMessage(w, m)
      PROVE  CountInv'
  <2>1. message' \in Pointers /\ Counts(message', held) = Ref(refs, m)
    BY <1>3, <1>t, <1>g, <1>p DEF TakeMessage, PushMessage
  <2>2. /\ held' \in [Message -> Nat] /\ refs' \in [Message -> Int]
    BY <1>3, <1>t DEF TakeMessage
  <2>3. \A x \in Message :
          refs'[x] - Counts(message', held)[x] = held'[x] - held[x]
    BY <1>3, <1>t, <2>1, NullAssumption DEF TakeMessage, Ref
  <2>4. refs' = Counts(message', held')
    BY <1>t, <2>1, <2>2, <2>3, HeldCounts
  <2>5. QED
    BY <1>3, <1>s, <1>t, <2>1, <2>2, <2>4 DEF TakeMessage
<1>4. ASSUME NEW w \in Wrapper, NEW m \in Message, MessageFunction(w, m)
      PROVE  CountInv'
  BY <1>4, <1>s, <1>t, <1>p, <1>g DEF MessageFunction, PushMessage
<1>5. ASSUME NEW w \in Wrapper, MessageGC(w)
      PROVE  CountInv'
  BY <1>5, <1>s, <1>t, <1>v, <1>p, <1>r DEF MessageGC
<1>6. ASSUME NEW w \in Wrapper, Send(w)
      PROVE  CountInv'
  <2>1. message[w] \in Message
    BY <1>6, <1>t DEF Send, Pointers
  <2>2. /\ held' \in [Message -> Nat] /\ refs' \in [Message -> Int]
        /\ \A x \in Message : refs'[x] - refs[x] = held'[x] - held[x]
    BY <1>6, <1>t, <2>1, NullAssumption DEF Send, Ref
  <2>3. refs' = Counts(message, held')
    BY <1>t, <2>1, <2>2, HeldCounts
  <2>4. QED
    BY <1>6, <1>s, <1>t, <1>v, <2>2, <2>3 DEF Send
<1>7. ASSUME NEW w \in Wrapper, NEW i \in Iter, IterInit(w, i)
      PROVE  CountInv'
  <2>1. message[w] \in Message
    BY <1>7, <1>t DEF IterInit, Pointers
  <2>2. refs' = Counts(message', held)
    BY <1>7, <1>t, <1>r, <1>m, <2>1 DEF IterInit, IterReleased
  <2>3. /\ cursor' \in [Iter -> Message \cup {NULL}] /\ initialized' \subseteq Iter
        /\ misuse' \in BOOLEAN
    BY <1>7, <1>t, <1>v, <2>1 DEF IterInit
  <2>4. message' \in Pointers
    BY <1>7, <1>t, <1>p, <2>1 DEF IterInit
  <2>5. QED
    BY <1>7, <1>s, <1>t, <2>2, <2>3, <2>4 DEF IterInit
<1>8. ASSUME NEW w \in Wrapper, NEW i \in Iter, IterInitAppend(w, i)
      PROVE  CountInv'
  <2>1. message[w] \in Message
    BY <1>8, <1>t DEF IterInitAppend, Pointers
  <2>2. refs' = Counts(message', held) /\ message' \in Pointers
    BY <1>8, <1>t, <1>m, <1>p, <2>1 DEF IterInitAppend, IterReleased
  <2>3. /\ cursor' \in [Iter -> Message \cup {NULL}] /\ initialized' \subseteq Iter
        /\ misuse' \in BOOLEAN
    BY <1>8, <1>t, <1>v, <2>1 DEF IterInitAppend
  <2>4. QED
    BY <1>8, <1>s, <1>t, <2>2, <2>3 DEF IterInitAppend
<1>9. ASSUME NEW i \in Iter, NEW j \in Iter, SetUpSub(i, j),
             UNCHANGED <<held, hasArgs>>
      PROVE  CountInv'
  <2> DEFINE m == IterReleased(j).message[i]
  <2>1. m \in Message \cup {NULL}
    BY <1>t, <1>p DEF IterReleased, Pointers
  <2>2. /\ refs' = Ref(Unref(refs, message[j]), m)
        /\ message' = [message EXCEPT ![j] = m]
    BY <1>9, <1>t DEF SetUpSub, IterReleased
  <2>3. /\ cursor' \in [Iter -> Message \cup {NULL}] /\ initialized' \subseteq Iter
        /\ misuse' \in BOOLEAN
    BY <1>9, <1>t, <1>v DEF SetUpSub, CursorFrom, InitializedFrom
  <2> HIDE DEF m
  <2>4. QED
    BY <1>9, <1>s, <1>t, <1>p, <1>m, <2>1, <2>2, <2>3
<1>10. ASSUME NEW i \in Iter, NEW j \in Iter, OpenContainerFails(i, j)
      PROVE  CountInv'
  <2>1. refs' = Counts(message', held) /\ message' \in Pointers
    BY <1>10, <1>t, <1>r, <1>p DEF OpenContainerFails, IterReleased
  <2>2. /\ cursor' \in [Iter -> Message \cup {NULL}] /\ initialized' \subseteq Iter
        /\ misuse' \in BOOLEAN
    BY <1>10, <1>t, <1>v DEF OpenContainerFails
  <2>3. QED
    BY <1>10, <1>s, <1>t, <2>1, <2>2 DEF OpenContainerFails
<1>11. ASSUME NEW i \in Iter, NEW j \in Iter, Clone(i, j)
      PROVE  CountInv'
  <2>1. message[i] \in Message \cup {NULL}
    BY <1>t DEF Pointers
  <2>2. refs' = Counts(message', held) /\ message' \in Pointers
    BY <1>11, <1>t, <1>g, <1>p, <2>1 DEF Clone
  <2>3. /\ cursor' \in [Iter -> Message \cup {NULL}] /\ initialized' \subseteq Iter
        /\ misuse' \in BOOLEAN
    BY <1>11, <1>t, <1>v DEF Clone, InitializedFrom
  <2>4. QED
    BY <1>11, <1>s, <1>t, <2>2, <2>3 DEF Clone
<1>12. ASSUME NEW i \in Iter, Append(i)
      PROVE  CountInv'
  <2>1. hasArgs' \in [Message -> BOOLEAN] /\ misuse' \in BOOLEAN
    BY <1>12, <1>t, <1>v DEF Append
  <2>2. QED
    BY <1>12, <1>s, <1>t, <2>1 DEF Append
<1>13. ASSUME NEW i \in Iter, IterGC(i)
      PROVE  CountInv'
  <2>1. refs' = Counts(message', held) /\ message' \in Pointers
    BY <1>13, <1>t, <1>r, <1>p DEF IterGC, IterReleased
  <2>2. /\ cursor' \in [Iter -> Message \cup {NULL}] /\ initialized' \subseteq Iter
        /\ misuse' \in BOOLEAN
    BY <1>13, <1>t, <1>v DEF IterGC
  <2>3. QED
    BY <1>13, <1>s, <1>t, <2>1, <2>2 DEF IterGC
<1>14. ASSUME NEW m \in Message, Arrive(m)
      PROVE  CountInv'
  <2>1. held[m] = 0
    BY <1>14, <1>t, HoldersFinite DEF Arrive, Allocate, Counts
  <2>2. /\ held' \in [Message -> Nat] /\ refs' \in [Message -> Int]
        /\ \A x \in Message : refs'[x] - refs[x] = held'[x] - held[x]
    BY <1>14, <1>t, <2>1 DEF Arrive, Allocate
  <2>3. refs' = Counts(message, held')
    BY <1>t, <2>2, HeldCounts
  <2>4. QED
    BY <1>14, <1>s, <1>t, <2>2, <2>3 DEF Arrive, Allocate
<1>15. ASSUME NEW m \in Message, Done(m)
      PROVE  CountInv'
  <2>1. /\ held' \in [Message -> Nat] /\ refs' \in [Message -> Int]
        /\ \A x \in Message : refs'[x] - refs[x] = held'[x] - held[x]
    BY <1>15, <1>t, NullAssumption DEF Done, Unref
  <2>2. refs' = Counts(message, held')
    BY <1>t, <2>1, HeldCounts
  <2>3. QED
    BY <1>15, <1>s, <1>t, <2>1, <2>2 DEF Done
<1>16. CASE UNCHANGED vars
  BY <1>16, <1>s, <1>t DEF vars
<1>17. QED
  BY <1>1, <1>2, <1>3, <1>4, <1>5, <1>6, <1>7, <1>8, <1>9, <1>10, <1>11,
     <1>12, <1>13, <1>14, <1>15, <1>16 DEF Next, Recurse, OpenContainer

----------------------------------------------------------------------------
(* Every variable keeps its type: in particular no count goes below zero,  *)
(* whatever the order of releases.                                         *)
THEOREM TypeCorrect == Spec => []TypeOK
<1>1. CountInv => TypeOK
  BY DEF CountInv
<1>2. QED
  BY <1>1, CountInit, CountStep, PTL DEF Spec

(* The count in every message is the number of its owners: no method, and  *)
(* no order in which methods, collector and libdbus interleave, frees a    *)
(* message under an owner or leaks one.  recurse and open_container keep   *)
(* this even when they get an iterator as its own sub-iterator.            *)
THEOREM Counting == Spec => []RefsExact
<1>1. CountInv => RefsExact
  BY CountInvMeaning
<1>2. QED
  BY <1>1, CountInit, CountStep, PTL DEF Spec

----------------------------------------------------------------------------
(* No use of a freed message.                                              *)

SafeInv == CountInv /\ CursorOwned /\ NoMisuse

(* When recurse and open_container are given an iterator other than the    *)
(* one they are called on, every action passes libdbus live messages only. *)
LEMMA SafeStep ==
  ASSUME DistinctSub
  PROVE  SafeInv /\ [Next]_vars => SafeInv'
<1> SUFFICES ASSUME SafeInv, [Next]_vars PROVE SafeInv'
  OBVIOUS
<1>c. CountInv'
  BY CountStep DEF SafeInv
<1>s. CursorOwned' /\ ~misuse' => SafeInv'
  BY <1>c DEF SafeInv, NoMisuse
<1>t. /\ message \in Pointers /\ held \in [Message -> Nat]
      /\ cursor \in [Iter -> Message \cup {NULL}] /\ initialized \subseteq Iter
      /\ refs \in [Message -> Nat] /\ refs = Counts(message, held)
      /\ Wrapper \subseteq Userdata /\ Iter \subseteq Userdata
      /\ Wrapper \cap Iter = {}
  BY UserdataAssumption DEF SafeInv, CountInv, TypeOK, Pointers, Userdata
<1>i. CursorOwned /\ ~misuse
  BY DEF SafeInv, NoMisuse
<1>o. \A u \in Userdata : message[u] # NULL => Valid(refs, message[u])
  BY <1>t, OwnerCounted DEF Pointers, Valid
<1>k. \A u, v \in Userdata :
        u # v /\ message[v] # NULL => Valid(Unref(refs, message[u]), message[v])
  BY <1>t, OtherOwnerKeeps DEF Pointers
<1>1. ASSUME NEW w \in Wrapper, NEW m \in Message, NewMessage(w, m)
      PROVE  SafeInv'
  BY <1>1, <1>s, <1>t, <1>i DEF NewMessage, PushMessage, CursorOwned, Pointers
<1>2. ASSUME NEW v \in Wrapper, NEW w \in Wrapper, NEW m \in Message,
             NewMessageFrom(v, w, m)
      PROVE  SafeInv'
  BY <1>2, <1>s, <1>t, <1>i, <1>o
     DEF NewMessageFrom, PushMessage, CursorOwned, Pointers
<1>3. ASSUME NEW w \in Wrapper, NEW m \in Message, TakeMessage(w, m)
      PROVE  SafeInv'
  BY <1>3, <1>s, <1>t, <1>i DEF TakeMessage, PushMessage, CursorOwned, Pointers
<1>4. ASSUME NEW w \in Wrapper, NEW m \in Message, MessageFunction(w, m)
      PROVE  SafeInv'
  BY <1>4, <1>s, <1>t, <1>i
     DEF MessageFunction, PushMessage, CursorOwned, Pointers
<1>5. ASSUME NEW w \in Wrapper, MessageGC(w)
      PROVE  SafeInv'
  BY <1>5, <1>s, <1>t, <1>i, <1>o DEF MessageGC, CursorOwned, Pointers
<1>6. ASSUME NEW w \in Wrapper, Send(w)
      PROVE  SafeInv'
  BY <1>6, <1>s, <1>t, <1>i, <1>o DEF Send, CursorOwned
<1>7. ASSUME NEW w \in Wrapper, NEW i \in Iter, IterInit(w, i)
      PROVE  SafeInv'
  <2>1. Valid(Unref(refs, message[i]), message[w])
    BY <1>7, <1>t, <1>k DEF IterInit
  <2>2. CursorOwned'
    BY <1>7, <1>t, <1>i DEF IterInit, CursorOwned, Pointers
  <2>3. QED
    BY <1>7, <1>s, <1>i, <2>1, <2>2 DEF IterInit, IterReleased
<1>8. ASSUME NEW w \in Wrapper, NEW i \in Iter, IterInitAppend(w, i)
      PROVE  SafeInv'
  <2>1. Valid(Unref(refs, message[i]), message[w])
    BY <1>8, <1>t, <1>k DEF IterInitAppend
  <2>2. CursorOwned'
    BY <1>8, <1>t, <1>i DEF IterInitAppend, CursorOwned, Pointers
  <2>3. QED
    BY <1>8, <1>s, <1>i, <2>1, <2>2 DEF IterInitAppend, IterReleased
<1>9. ASSUME NEW i \in Iter, NEW j \in Iter, SubAllowed(i, j), SetUpSub(i, j)
      PROVE  SafeInv'
  <2>1. i # j
    BY <1>9 DEF SubAllowed
  <2>2. IterReleased(j).message[i] = message[i]
    BY <1>t, <2>1 DEF IterReleased, Pointers
  <2>3. CASE i \in initialized
    <3>1. message[i] # NULL /\ message[i] = cursor[i]
      BY <1>i, <2>3 DEF CursorOwned
    <3>2. Valid(IterReleased(j).refs, message[i])
      BY <1>t, <1>k, <2>1, <3>1 DEF IterReleased
    <3>3. ~misuse'
      BY <1>9, <1>i, <2>2, <3>1, <3>2 DEF SetUpSub
    <3>4. CursorOwned'
      BY <1>9, <1>t, <1>i, <2>1, <2>2, <2>3, <3>1
         DEF SetUpSub, CursorFrom, InitializedFrom, CursorOwned, Pointers
    <3>5. QED
      BY <1>s, <3>3, <3>4
  <2>4. CASE i \notin initialized
    <3>1. ~misuse'
      BY <1>9, <1>i, <2>4 DEF SetUpSub
    <3>2. CursorOwned'
      BY <1>9, <1>t, <1>i, <2>4
         DEF SetUpSub, CursorFrom, InitializedFrom, CursorOwned, Pointers
    <3>3. QED
      BY <1>s, <3>1, <3>2
  <2>5. QED
    BY <2>3, <2>4
<1>10. ASSUME NEW i \in Iter, NEW j \in Iter, OpenContainerFails(i, j)
      PROVE  SafeInv'
  <2>1. i # j
    BY <1>10 DEF OpenContainerFails, SubAllowed
  <2>2. i \in initialized => message[i] # NULL /\ message[i] = cursor[i]
    BY <1>i DEF CursorOwned
  <2>3. ~misuse'
    BY <1>10, <1>t, <1>i, <1>k, <2>1, <2>2 DEF OpenContainerFails, IterReleased
  <2>4. CursorOwned'
    BY <1>10, <1>t, <1>i
       DEF OpenContainerFails, IterReleased, CursorOwned, Pointers
  <2>5. QED
    BY <1>s, <2>3, <2>4
<1>11. ASSUME NEW i \in Iter, NEW j \in Iter, Clone(i, j)
      PROVE  SafeInv'
  <2>1. ~misuse'
    BY <1>11, <1>t, <1>i, <1>o DEF Clone
  <2>2. CursorOwned'
    BY <1>11, <1>t, <1>i DEF Clone, InitializedFrom, CursorOwned, Pointers
  <2>3. QED
    BY <1>s, <2>1, <2>2
<1>12. ASSUME NEW i \in Iter, Append(i)
      PROVE  SafeInv'
  BY <1>12, <1>s, <1>t, <1>i, <1>o DEF Append, CursorOwned
<1>13. ASSUME NEW i \in Iter, IterGC(i)
      PROVE  SafeInv'
  BY <1>13, <1>s, <1>t, <1>i, <1>o
     DEF IterGC, IterReleased, CursorOwned, Pointers
<1>14. ASSUME NEW m \in Message, Arrive(m) \/ Done(m)
      PROVE  SafeInv'
  BY <1>14, <1>s, <1>i DEF Arrive, Done, CursorOwned
<1>15. CASE UNCHANGED vars
  BY <1>15, <1>s, <1>i DEF vars, CursorOwned
<1>16. QED
  BY <1>1, <1>2, <1>3, <1>4, <1>5, <1>6, <1>7, <1>8, <1>9, <1>10, <1>11,
     <1>12, <1>13, <1>14, <1>15 DEF Next, Recurse, OpenContainer

(* An iterator that was handed out as set up always owns the message that  *)
(* it walks, so that collecting the wrapper never frees that message; and  *)
(* no method passes libdbus a freed or NULL message through a wrapper or   *)
(* through such an iterator.  Both need that no iterator is made its own   *)
(* sub-iterator; iterators for which iter_init returned nil, and new ones, *)
(* may walk anything.                                                      *)
THEOREM NoUseAfterFree ==
  ASSUME DistinctSub
  PROVE  Spec => [](CursorOwned /\ NoMisuse)
<1>1. Init => SafeInv
  BY CountInit DEF SafeInv, Init, CursorOwned, NoMisuse
<1>2. SafeInv => CursorOwned /\ NoMisuse
  BY DEF SafeInv
<1>3. QED
  BY <1>1, <1>2, SafeStep, PTL DEF Spec

----------------------------------------------------------------------------
(* The counting implements shared ownership.                               *)

(* What is allocated is what somebody owns.                                *)
LEMMA AliveIsOwned ==
  CountInv => {m \in Message : refs[m] > 0} =
                {m \in Message : Lifetime!Owned(m, message, held)}
<1> SUFFICES ASSUME CountInv
             PROVE  {m \in Message : refs[m] > 0} =
                      {m \in Message : Lifetime!Owned(m, message, held)}
  OBVIOUS
<1>1. ASSUME NEW m \in Message
      PROVE  refs[m] > 0 <=> Lifetime!Owned(m, message, held)
  <2>1. refs[m] = Cardinality(Holders(message, m)) + held[m]
    BY DEF CountInv, Counts
  <2>2. Cardinality(Holders(message, m)) \in Nat /\ held[m] \in Nat
    BY HoldersFinite DEF CountInv, TypeOK
  <2>3. Cardinality(Holders(message, m)) = 0 <=> Holders(message, m) = {}
    BY HoldersFinite, FS_EmptySet
  <2>4. Holders(message, m) # {} <=> \E u \in Userdata : message[u] = m
    BY DEF Holders
  <2>5. QED
    BY <2>1, <2>2, <2>3, <2>4 DEF Lifetime!Owned
<1>2. QED
  BY <1>1

(* Every step of the methods, the collector and libdbus is a step of       *)
(* shared ownership, or changes no owner.                                  *)
LEMMA OwnershipStep ==
  CountInv /\ CountInv' /\ [Next]_vars => [Lifetime!Next]_(Lifetime!vars)
<1> SUFFICES ASSUME CountInv, CountInv', [Next]_vars
             PROVE  [Lifetime!Next]_(Lifetime!vars)
  OBVIOUS
<1> DEFINE alive == {m \in Message : refs[m] > 0}
           Moves == \/ \E h \in Userdata, o \in Message :
                         \/ Lifetime!Create(h, o) \/ Lifetime!Share(h, o)
                         \/ Lifetime!HandOver(h, o)
                    \/ \E h \in Userdata : Lifetime!Release(h)
                    \/ \E o \in Message :
                         \/ Lifetime!Borrow(o) \/ Lifetime!Lend(o)
                         \/ Lifetime!GiveBack(o)
<1>a. alive' = {m \in Message : Lifetime!Owned(m, message', held')}
  <2>1. (CountInv => alive = {m \in Message : Lifetime!Owned(m, message, held)})'
    BY AliveIsOwned, PTL
  <2>2. QED
    BY <2>1
<1>n. Moves => Lifetime!Next
  BY <1>a DEF Lifetime!Next
<1>u. UNCHANGED <<refs, message, held>> => UNCHANGED Lifetime!vars
  BY DEF Lifetime!vars
<1> HIDE DEF alive
<1>t. /\ message \in Pointers /\ held \in [Message -> Nat]
      /\ refs \in [Message -> Nat]
      /\ Wrapper \subseteq Userdata /\ Iter \subseteq Userdata
      /\ Wrapper \cap Iter = {}
  BY UserdataAssumption DEF CountInv, TypeOK, Pointers, Userdata
<1>1. ASSUME NEW w \in Wrapper, NEW m \in Message,
             NewMessage(w, m) \/ (\E v \in Wrapper : NewMessageFrom(v, w, m))
      PROVE  Moves
  <2>1. Lifetime!Create(w, m)
    BY <1>1, <1>t DEF NewMessage, NewMessageFrom, Allocate, PushMessage,
                      Lifetime!Create
  <2>2. QED
    BY <1>t, <2>1
<1>2. ASSUME NEW w \in Wrapper, NEW m \in Message, TakeMessage(w, m)
      PROVE  Moves
  <2>1. Lifetime!HandOver(w, m)
    BY <1>2 DEF TakeMessage, PushMessage, Lifetime!HandOver
  <2>2. QED
    BY <1>t, <2>1
<1>3. ASSUME NEW w \in Wrapper, NEW m \in Message, MessageFunction(w, m)
      PROVE  Moves
  <2>1. Lifetime!Share(w, m)
    BY <1>3 DEF MessageFunction, PushMessage, Lifetime!Share
  <2>2. QED
    BY <1>t, <2>1
<1>4. ASSUME NEW w \in Wrapper, MessageGC(w)
      PROVE  Moves
  <2>1. Lifetime!Release(w)
    BY <1>4 DEF MessageGC, Lifetime!Release
  <2>2. QED
    BY <1>t, <2>1
<1>5. ASSUME NEW w \in Wrapper, Send(w)
      PROVE  Moves
  <2>1. message[w] \in Message /\ refs[message[w]] > 0
    BY <1>5, <1>t, OwnerCounted DEF Send, Pointers, CountInv
  <2>2. Lifetime!Lend(message[w])
    BY <1>5, <2>1 DEF Send, Lifetime!Lend
  <2>3. QED
    BY <2>1, <2>2
<1>6. ASSUME NEW w \in Wrapper, NEW i \in Iter, IterInit(w, i)
      PROVE  Moves
  <2>1. message[w] \in Message /\ w \in Userdata \ {i}
    BY <1>6, <1>t DEF IterInit, Pointers
  <2>2. Lifetime!Share(i, message[w]) \/ Lifetime!Release(i)
    BY <1>6, <2>1 DEF IterInit, Lifetime!Share, Lifetime!Release
  <2>3. QED
    BY <1>t, <2>1, <2>2
<1>7. ASSUME NEW w \in Wrapper, NEW i \in Iter, IterInitAppend(w, i)
      PROVE  Moves
  <2>1. message[w] \in Message /\ w \in Userdata \ {i}
    BY <1>7, <1>t DEF IterInitAppend, Pointers
  <2>2. Lifetime!Share(i, message[w])
    BY <1>7, <2>1 DEF IterInitAppend, Lifetime!Share
  <2>3. QED
    BY <1>t, <2>1, <2>2
<1>8. ASSUME NEW i \in Iter, NEW j \in Iter, SetUpSub(i, j), UNCHANGED held
      PROVE  Moves
  <2> DEFINE m == IterReleased(j).message[i]
  <2>1. message' = [message EXCEPT ![j] = m]
    BY <1>8 DEF SetUpSub
  <2>2. /\ m \in Message \cup {NULL}
        /\ m # NULL => i # j /\ m = message[i]
    BY <1>t DEF IterReleased, Pointers
  <2> HIDE DEF m
  <2>3. CASE m = NULL
    <3>1. Lifetime!Release(j)
      BY <1>8, <2>1, <2>3 DEF Lifetime!Release
    <3>2. QED
      BY <1>t, <3>1
  <2>4. CASE m \in Message
    <3>1. i \in Userdata \ {j} /\ message[i] = m
      BY <1>t, <2>2, <2>4, NullAssumption
    <3>2. Lifetime!Share(j, m)
      BY <1>8, <2>1, <3>1 DEF Lifetime!Share
    <3>3. QED
      BY <1>t, <2>4, <3>2
  <2>5. QED
    BY <2>2, <2>3, <2>4
<1>9. ASSUME NEW i \in Iter, NEW j \in Iter, OpenContainerFails(i, j)
      PROVE  Moves
  <2>1. Lifetime!Release(j)
    BY <1>9 DEF OpenContainerFails, IterReleased, Lifetime!Release
  <2>2. QED
    BY <1>t, <2>1
<1>10. ASSUME NEW i \in Iter, NEW j \in Iter, Clone(i, j)
      PROVE  Moves
  <2>1. message[i] \in Message \cup {NULL}
    BY <1>t DEF Pointers
  <2>2. CASE message[i] = NULL
    <3>1. Lifetime!Release(j)
      BY <1>10, <2>2 DEF Clone, Lifetime!Release
    <3>2. QED
      BY <1>t, <3>1
  <2>3. CASE message[i] \in Message
    <3>1. i \in Userdata \ {j}
      BY <1>10, <1>t, <2>3, NullAssumption DEF Clone
    <3>2. Lifetime!Share(j, message[i])
      BY <1>10, <3>1 DEF Clone, Lifetime!Share
    <3>3. QED
      BY <1>t, <2>3, <3>2
  <2>4. QED
    BY <2>1, <2>2, <2>3
<1>11. ASSUME NEW i \in Iter, Append(i)
      PROVE  UNCHANGED Lifetime!vars
  BY <1>11, <1>u DEF Append
<1>12. ASSUME NEW i \in Iter, IterGC(i)
      PROVE  Moves
  <2>1. Lifetime!Release(i)
    BY <1>12 DEF IterGC, IterReleased, Lifetime!Release
  <2>2. QED
    BY <1>t, <2>1
<1>13. ASSUME NEW m \in Message, Arrive(m)
      PROVE  Moves
  <2>1. Lifetime!Borrow(m)
    BY <1>13, <1>t DEF Arrive, Allocate, Lifetime!Borrow
  <2>2. QED
    BY <2>1
<1>14. ASSUME NEW m \in Message, Done(m)
      PROVE  Moves
  <2>1. Lifetime!GiveBack(m)
    BY <1>14 DEF Done, Lifetime!GiveBack
  <2>2. QED
    BY <2>1
<1>15. CASE UNCHANGED vars
  BY <1>15, <1>u DEF vars
<1>16. QED
  <2> HIDE DEF Moves
  <2>1. QED
    BY <1>n, <1>1, <1>2, <1>3, <1>4, <1>5, <1>6, <1>7, <1>8, <1>9, <1>10,
       <1>11, <1>12, <1>13, <1>14, <1>15 DEF Next, Recurse, OpenContainer

(* While applications do not pass iterators to themselves, an iterator     *)
(* that was handed out as set up, or set up from one that was, has its     *)
(* count in the very message that it walks: iter_init, iter_init_append,   *)
(* recurse, open_container and clone (src/src/message_iter.c).             *)
THEOREM IteratorsKeepTheirMessage ==
  ASSUME DistinctSub
  PROVE  Spec => []CursorOwned
<1>1. CursorOwned /\ NoMisuse => CursorOwned
  OBVIOUS
<1>2. QED
  BY <1>1, NoUseAfterFree, PTL

(* The reference counting implements shared ownership: a message lives     *)
(* exactly as long as it has an owner, and gets a new owner only from one  *)
(* that keeps it throughout the step.                                      *)
THEOREM ImplementsOwnership == Spec => OwnershipImplemented
<1>1. Init => Lifetime!Init
  BY DEF Init, Lifetime!Init
<1>2. QED
  BY <1>1, CountInit, CountStep, OwnershipStep, PTL
     DEF Spec, OwnershipImplemented, Lifetime!Spec
=============================================================================
