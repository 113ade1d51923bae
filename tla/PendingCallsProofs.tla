-------------------------- MODULE PendingCallsProofs --------------------------
(***************************************************************************)
(* Proofs about PendingCalls, for any number of requests and data blocks,  *)
(* with requests sent again under one serial number and all other choices. *)
(***************************************************************************)
EXTENDS PendingCalls, SequenceTheorems, TLAPS

(* The connection waits for one request per serial number, and only for    *)
(* such as have no result yet; their timers are among them.                *)
AwaitedOnce ==
  /\ timer \subseteq attached
  /\ \A a, b \in attached : serial[a] = serial[b] => a = b
  /\ attached \cap completed = {}

(* No data block belongs to two calls, or to one that is freed.            *)
DataApart ==
  /\ \A b, c \in Call : notify[b] = notify[c] /\ notify[b] # NULL => b = c
  /\ \A c \in Call : notify[c] # NULL => refs[c] > 0

(* Only calls with a result have had their functions called.               *)
FiredCompleted ==
  /\ NotifiedOnce
  /\ \A c \in Call : fired[c] > 0 => c \in completed

(* The functions in progress are those of different calls, with results.   *)
FramesApart ==
  \A i \in DOMAIN notifying :
    /\ notifying[i].call \in completed
    /\ \A j \in DOMAIN notifying :
         notifying[i].call = notifying[j].call => i = j

(* What the application or a function refers to is a userdata that exists. *)
Referenced ==
  /\ held \subseteq wrapped
  /\ \A d \in anchored : captures[d] \subseteq wrapped
  /\ \A i \in DOMAIN notifying : notifying[i].captured \subseteq wrapped

IInv ==
  /\ TypeOK /\ RefsExact /\ FunctionsAnchored
  /\ AwaitedOnce /\ DataApart /\ FiredCompleted
  /\ FramesApart /\ Referenced

----------------------------------------------------------------------------
(* What UnrefAll does.                                                     *)

(* The counts and data of the calls of Call, with counts n.                *)
DataExact(n) ==
  /\ notify \in [Call -> Data \cup {NULL}]
  /\ FunctionsAnchored
  /\ \A b, c \in Call : notify[b] = notify[c] /\ notify[b] # NULL => b = c
  /\ \A c \in Call : notify[c] # NULL => n[c] > 0

(* Of the counts n one is gone for each of the calls C, with the data of   *)
(* those that are freed.                                                   *)
Dropped(n, C) ==
  /\ refs' \in [Call -> Nat]
  /\ \A c \in Call : refs'[c] = IF c \in C THEN n[c] - 1 ELSE n[c]
  /\ notify' \in [Call -> Data \cup {NULL}]
  /\ anchored' \subseteq Data
  /\ captures' \in [Data -> SUBSET Call]
  /\ \A d \in anchored' : d \in anchored /\ captures'[d] = captures[d]
  /\ FunctionsAnchored'
  /\ DataApart'

(* Letting go of counted calls leaves the others as they are, and takes    *)
(* the data of those that are freed, and no others, out of the registry.   *)
LEMMA Unrefs ==
  ASSUME NEW n \in [Call -> Nat], NEW C \in SUBSET Call,
         \A c \in C : n[c] > 0, DataExact(n), UnrefAll(n, C),
         captures \in [Data -> SUBSET Call]
  PROVE  Dropped(n, C)
<1> DEFINE freed == {c \in C : n[c] = 1}
<1>1. /\ refs' = [c \in Call |-> IF c \in C THEN n[c] - 1 ELSE n[c]]
      /\ anchored' = anchored \ {notify[c] : c \in freed}
      /\ notify' = [c \in Call |-> IF c \in freed THEN NULL ELSE notify[c]]
  BY DEF UnrefAll
<1>2. /\ refs' \in [Call -> Nat]
      /\ \A c \in Call : refs'[c] = IF c \in C THEN n[c] - 1 ELSE n[c]
  BY <1>1
<1>3. /\ notify' \in [Call -> Data \cup {NULL}]
      /\ \A c \in Call : notify'[c] = IF c \in freed THEN NULL ELSE notify[c]
  BY <1>1 DEF DataExact
<1>4. anchored' \subseteq Data /\ FunctionsAnchored'
  BY <1>1, <1>3 DEF DataExact, FunctionsAnchored
<1>5. DataApart'
  <2>1. \A b, c \in Call : notify'[b] = notify'[c] /\ notify'[b] # NULL => b = c
    BY <1>3 DEF DataExact
  <2>2. ASSUME NEW c \in Call, notify'[c] # NULL PROVE refs'[c] > 0
    <3>1. c \notin freed /\ n[c] > 0
      BY <1>3, <2>2 DEF DataExact
    <3>2. n[c] \in Nat /\ (c \in C => n[c] # 1)
      BY <3>1
    <3>3. QED
      BY <1>2, <3>1, <3>2
  <2>3. QED
    BY <2>1, <2>2 DEF DataApart
<1>6. /\ captures' \in [Data -> SUBSET Call]
      /\ \A d \in anchored' : d \in anchored /\ captures'[d] = captures[d]
  <2>1. captures' = [d \in Data |-> IF d \in anchored' THEN captures[d] ELSE {}]
    BY DEF UnrefAll
  <2>2. QED
    BY <1>1, <1>4, <2>1
<1>7. QED
  BY <1>2, <1>3, <1>4, <1>5, <1>6 DEF Dropped

(* The data is exact for the counts there are.                             *)
LEMMA DataIsExact ==
  ASSUME IInv PROVE DataExact(refs)
  BY DEF IInv, TypeOK, DataApart, DataExact

(* What the connection waits for is counted.                               *)
LEMMA AwaitedCounted ==
  ASSUME IInv, NEW c \in Call
  PROVE  /\ Awaited(c) \in SUBSET attached /\ Awaited(c) \in SUBSET Call
         /\ \A a \in attached : refs[a] > 0
         /\ c \in attached => Awaited(c) = {c}
<1>1. Awaited(c) \subseteq attached /\ attached \subseteq Call
  BY DEF IInv, TypeOK, Awaited
<1>2. ASSUME NEW a \in attached PROVE refs[a] > 0
  BY <1>1, <1>2 DEF IInv, RefsExact, Count
<1>3. ASSUME c \in attached PROVE Awaited(c) = {c}
  BY <1>3 DEF IInv, AwaitedOnce, Awaited
<1>4. QED
  BY <1>1, <1>2, <1>3

----------------------------------------------------------------------------
(* The functions in progress.                                              *)

(* A function is called: that of a call that had no result before.         *)
LEMMA FramePushed ==
  ASSUME notifying \in Seq(Frame), FramesApart, NEW f \in Frame,
         f.call \notin completed, completed' = completed \cup {f.call},
         notifying' = <<f>> \o notifying
  PROVE  /\ notifying' \in Seq(Frame)
         /\ FramesApart'
         /\ \A a \in Call : InCallback(a)' <=> InCallback(a) \/ a = f.call
         /\ \A i \in DOMAIN notifying' :
              notifying'[i] \in {f} \cup {notifying[j] : j \in DOMAIN notifying}
<1>1. <<f>> \in Seq(Frame) /\ Len(<<f>>) = 1 /\ <<f>>[1] = f
  OBVIOUS
<1>2. /\ notifying' \in Seq(Frame) /\ Len(notifying') = Len(notifying) + 1
      /\ \A i \in 1 .. Len(notifying) + 1 :
           notifying'[i] = IF i <= 1 THEN f ELSE notifying[i - 1]
  BY <1>1, ConcatProperties
<1>3. /\ Len(notifying) \in Nat /\ DOMAIN notifying = 1 .. Len(notifying)
      /\ DOMAIN notifying' = 1 .. Len(notifying) + 1
  BY <1>2, LenProperties
<1>4. /\ notifying'[1] = f
      /\ \A j \in DOMAIN notifying :
           j + 1 \in DOMAIN notifying' /\ notifying'[j + 1] = notifying[j]
      /\ \A i \in DOMAIN notifying' \ {1} :
           i - 1 \in DOMAIN notifying /\ notifying'[i] = notifying[i - 1]
  BY <1>2, <1>3
<1>5. \A j \in DOMAIN notifying : notifying[j].call # f.call
  BY DEF FramesApart
<1>6. FramesApart'
  <2> SUFFICES ASSUME NEW i \in DOMAIN notifying'
               PROVE  /\ notifying'[i].call \in completed'
                      /\ \A j \in DOMAIN notifying' :
                           notifying'[i].call = notifying'[j].call => i = j
    BY DEF FramesApart
  <2>1. CASE i = 1
    BY <1>4, <1>5, <2>1
  <2>2. CASE i # 1
    <3>1. i - 1 \in DOMAIN notifying /\ notifying'[i] = notifying[i - 1]
      BY <1>4, <2>2
    <3>2. ASSUME NEW j \in DOMAIN notifying',
                 notifying'[i].call = notifying'[j].call
          PROVE  i = j
      <4>1. j # 1
        BY <1>4, <1>5, <3>1, <3>2
      <4>2. j - 1 \in DOMAIN notifying /\ notifying'[j] = notifying[j - 1]
        BY <1>4, <4>1
      <4>3. i - 1 = j - 1
        BY <3>1, <3>2, <4>2 DEF FramesApart
      <4>4. QED
        BY <1>3, <4>3
    <3>3. QED
      BY <3>1, <3>2 DEF FramesApart
  <2>3. QED
    BY <2>1, <2>2
<1>7. ASSUME NEW a \in Call
      PROVE  InCallback(a)' <=> InCallback(a) \/ a = f.call
  <2>1. InCallback(a) <=> \E j \in DOMAIN notifying : notifying[j].call = a
    BY DEF InCallback, InProgress
  <2>2. InCallback(a)' <=> \E j \in DOMAIN notifying' : notifying'[j].call = a
    BY DEF InCallback, InProgress
  <2>3. 1 \in DOMAIN notifying'
    BY <1>3
  <2>4. QED
    BY <1>4, <2>1, <2>2, <2>3
<1>8. QED
  BY <1>2, <1>4, <1>6, <1>7

(* The innermost function returns.                                         *)
LEMMA FramePopped ==
  ASSUME notifying \in Seq(Frame), FramesApart, notifying # <<>>,
         completed' = completed, notifying' = Tail(notifying)
  PROVE  /\ notifying' \in Seq(Frame)
         /\ FramesApart'
         /\ Head(notifying).call \in Call /\ InCallback(Head(notifying).call)
         /\ \A a \in Call : InCallback(a)' <=>
                              InCallback(a) /\ a # Head(notifying).call
         /\ \A i \in DOMAIN notifying' :
              \E j \in DOMAIN notifying : notifying'[i] = notifying[j]
<1> DEFINE h == Head(notifying)
<1>1. /\ h \in Frame /\ notifying' \in Seq(Frame)
      /\ Len(notifying') = Len(notifying) - 1
      /\ \A i \in 1 .. Len(notifying') : notifying'[i] = notifying[i + 1]
  BY HeadTailProperties
<1>2. /\ Len(notifying) \in Nat \ {0} /\ DOMAIN notifying = 1 .. Len(notifying)
      /\ DOMAIN notifying' = 1 .. Len(notifying) - 1
      /\ h = notifying[1]
  BY <1>1, LenProperties, EmptySeq
<1> HIDE DEF h
<1>3. /\ 1 \in DOMAIN notifying
      /\ \A i \in DOMAIN notifying' : /\ i + 1 \in DOMAIN notifying /\ i + 1 # 1
                                     /\ notifying'[i] = notifying[i + 1]
      /\ \A j \in DOMAIN notifying \ {1} :
           j - 1 \in DOMAIN notifying' /\ notifying'[j - 1] = notifying[j]
  BY <1>1, <1>2
<1>4. FramesApart'
  <2> SUFFICES ASSUME NEW i \in DOMAIN notifying'
               PROVE  /\ notifying'[i].call \in completed
                      /\ \A j \in DOMAIN notifying' :
                           notifying'[i].call = notifying'[j].call => i = j
    BY DEF FramesApart
  <2>1. \A j \in DOMAIN notifying' :
          notifying'[i].call = notifying'[j].call => i + 1 = j + 1
    BY <1>3 DEF FramesApart
  <2>2. QED
    BY <1>2, <1>3, <2>1 DEF FramesApart
<1>5. ASSUME NEW a \in Call
      PROVE  InCallback(a)' <=> InCallback(a) /\ a # h.call
  <2>1. InCallback(a) <=> \E j \in DOMAIN notifying : notifying[j].call = a
    BY DEF InCallback, InProgress
  <2>2. InCallback(a)' <=> \E j \in DOMAIN notifying' : notifying'[j].call = a
    BY DEF InCallback, InProgress
  <2>3. \A j \in DOMAIN notifying : notifying[j].call = h.call <=> j = 1
    BY <1>2, <1>3 DEF FramesApart
  <2>4. ASSUME InCallback(a)' PROVE InCallback(a) /\ a # h.call
    BY <1>3, <2>1, <2>2, <2>3, <2>4
  <2>5. ASSUME InCallback(a), a # h.call PROVE InCallback(a)'
    <3>1. PICK j \in DOMAIN notifying : notifying[j].call = a
      BY <2>1, <2>5
    <3>2. j # 1
      BY <1>2, <2>5, <3>1
    <3>3. QED
      BY <1>3, <2>2, <3>1, <3>2
  <2>6. QED
    BY <2>4, <2>5
<1>6. h.call \in Call /\ InCallback(h.call)
  BY <1>1, <1>2, <1>3 DEF InCallback, InProgress, Frame
<1>7. \A i \in DOMAIN notifying' :
        \E j \in DOMAIN notifying : notifying'[i] = notifying[j]
  BY <1>3
<1>8. QED
  BY <1>1, <1>4, <1>5, <1>6, <1>7 DEF h

----------------------------------------------------------------------------
(* The invariant is inductive.                                             *)

LEMMA IInit ==
  ASSUME Init PROVE IInv
<1>1. TypeOK
  <2>1. <<>> \in Seq(Call) /\ <<>> \in Seq(Frame)
    BY EmptySeq
  <2>2. QED
    BY <2>1 DEF Init, TypeOK
<1>2. DOMAIN notifying = {}
  BY DEF Init
<1>3. RefsExact /\ FunctionsAnchored
  BY <1>2, NullAssumption
  DEF Init, RefsExact, InCallback, InProgress, FunctionsAnchored, Count
<1>4. AwaitedOnce /\ DataApart /\ FiredCompleted /\ FramesApart /\ Referenced
  BY <1>2 DEF Init, AwaitedOnce, DataApart, FiredCompleted, NotifiedOnce,
              FramesApart, Referenced
<1>5. QED
  BY <1>1, <1>3, <1>4 DEF IInv

(* No function begins or returns. *)
LEMMA FramesStay ==
  ASSUME IInv, UNCHANGED <<notifying, completed>>
  PROVE  FramesApart' /\ \A a \in Call : InCallback(a)' <=> InCallback(a)
BY DEF IInv, FramesApart, InCallback, InProgress

LEMMA RefsStay ==
  ASSUME IInv, UNCHANGED <<refs, attached, wrapped, notifying>>
  PROVE  RefsExact'
<1>1. \A c \in Call : InCallback(c)' = InCallback(c)
  BY DEF InCallback, InProgress
<1>2. QED
  BY <1>1 DEF IInv, RefsExact, Count

(* What is referred to stays, when no userdata goes and no block comes.    *)
LEMMA ReferencedStays ==
  ASSUME IInv, held' \subseteq held, wrapped' = wrapped, UNCHANGED notifying,
         \A d \in anchored' : d \in anchored /\ captures'[d] = captures[d]
  PROVE  Referenced'
BY DEF IInv, Referenced

(* A userdata that can be used exists, and is counted. *)
LEMMA UsableExists ==
  ASSUME IInv, NEW c \in Call, Usable(c)
  PROVE  c \in wrapped /\ refs[c] > 0
<1>1. c \in wrapped
  BY DEF IInv, Referenced, Usable, InProgress
<1>2. QED
  BY <1>1 DEF IInv, RefsExact, Count

(* A call that has no userdata, no connection and no callback is unused.   *)
LEMMA SendWithReplyKeeps ==
  ASSUME IInv, NEW c \in Call, NEW o \in Call, SendWithReply(c, o)
  PROVE  IInv'
<1> DEFINE n == [refs EXCEPT ![c] = 2]
           A == Awaited(o)
<1>t. TypeOK
  BY DEF IInv
<1>1. c \notin attached /\ c \notin wrapped /\ ~InCallback(c)
      /\ notify[c] = NULL /\ c \notin completed
  <2>1. refs[c] = 0 /\ c \notin completed
    BY DEF SendWithReply, Unused
  <2>2. refs[c] = Count(c \in attached) + Count(c \in wrapped)
                    + Count(InCallback(c))
    BY DEF IInv, RefsExact
  <2>3. c \notin attached /\ c \notin wrapped /\ ~InCallback(c)
    BY <2>1, <2>2 DEF Count
  <2>4. notify[c] = NULL
    BY <2>1 DEF IInv, DataApart
  <2>5. QED
    BY <2>1, <2>3, <2>4
<1>2. A \subseteq attached /\ A \subseteq Call /\ \A a \in A : refs[a] > 0
  BY AwaitedCounted
<1>3. n \in [Call -> Nat] /\ n[c] = 2 /\ \A a \in Call \ {c} : n[a] = refs[a]
  BY <1>t DEF TypeOK
<1>4. DataExact(n) /\ \A a \in A : n[a] > 0
  BY <1>1, <1>2, <1>3, DataIsExact DEF DataExact
<1>5. UnrefAll(n, A)
  BY DEF SendWithReply
<1> HIDE DEF n, A
<1>6. Dropped(n, A)
  BY <1>t, <1>2, <1>3, <1>4, <1>5, Unrefs DEF TypeOK
<1>7. /\ attached' = (attached \ A) \cup {c}
      /\ timer' = (timer \ A) \cup ({c} \ Endless)
      /\ wrapped' = wrapped \cup {c} /\ held' = held \cup {c}
      /\ serial' = [serial EXCEPT ![c] = serial[o]]
      /\ UNCHANGED <<completed, notifying, fired>>
  BY DEF SendWithReply, A
<1>8. TypeOK'
  BY <1>t, <1>2, <1>6 DEF TypeOK, Dropped, SendWithReply, A
<1>9. RefsExact'
  <2> SUFFICES ASSUME NEW a \in Call
               PROVE  refs'[a] = Count(a \in attached') + Count(a \in wrapped')
                                   + Count(InCallback(a)')
    BY DEF RefsExact
  <2>1. refs[a] = Count(a \in attached) + Count(a \in wrapped)
                    + Count(InCallback(a))
    BY DEF IInv, RefsExact
  <2>2. InCallback(a)' <=> InCallback(a)
    BY <1>7, FramesStay
  <2>3. QED
    BY <1>1, <1>2, <1>3, <1>6, <1>7, <2>1, <2>2 DEF Count, Dropped
<1>10. AwaitedOnce'
  <2>1. A = {a \in attached : serial[a] = serial[o]}
    BY DEF Awaited, A
  <2>2. timer \subseteq attached /\ attached \cap completed = {}
        /\ \A a, b \in attached : serial[a] = serial[b] => a = b
    BY DEF IInv, AwaitedOnce
  <2>3. serial'[c] = serial[o] /\ \A a \in attached : serial'[a] = serial[a]
    BY <1>t, <1>1, <1>7 DEF TypeOK
  <2>4. \A a, b \in attached' : serial'[a] = serial'[b] => a = b
    BY <1>7, <2>1, <2>2, <2>3
  <2>5. QED
    BY <1>1, <1>7, <2>2, <2>4 DEF AwaitedOnce
<1>11. FiredCompleted' /\ FramesApart'
  BY <1>7, FramesStay DEF IInv, FiredCompleted, NotifiedOnce
<1>12. Referenced'
  BY <1>6, <1>7 DEF IInv, Referenced, Dropped
<1>13. QED
  BY <1>6, <1>8, <1>9, <1>10, <1>11, <1>12 DEF IInv, Dropped

(* set_notify replaces the one data block by the other.                    *)
LEMMA SetNotifyKeeps ==
  ASSUME IInv, NEW c \in Call, NEW d \in Data, NEW captured \in SUBSET Call,
         SetNotify(c, d, captured)
  PROVE  IInv'
<1>t. TypeOK
  BY DEF IInv
<1>u. UNCHANGED <<libdbus, serial, refs, completed, wrapped, held,
                  notifying, fired, done>>
  BY DEF SetNotify
<1>1. TypeOK'
  <2>1. captures' \in [Data -> SUBSET Call]
    BY <1>t DEF TypeOK, SetNotify
  <2>2. notify' \in [Call -> Data \cup {NULL}]
    <3>1. notify \in [Call -> Data \cup {NULL}]
      BY <1>t DEF TypeOK
    <3>2. [notify EXCEPT ![c] = d] \in [Call -> Data \cup {NULL}]
      BY <3>1
    <3>3. QED
      BY <3>1, <3>2 DEF SetNotify
  <2>3. anchored' \subseteq Data
    BY <1>t DEF TypeOK, SetNotify
  <2>4. QED
    BY <1>t, <1>u, <2>1, <2>2, <2>3 DEF TypeOK, libdbus
<1>2. RefsExact' /\ AwaitedOnce' /\ FiredCompleted' /\ FramesApart'
  BY <1>u, FramesStay, RefsStay
  DEF IInv, AwaitedOnce, FiredCompleted, NotifiedOnce, libdbus
<1>3. refs[c] > 0 /\ captured \subseteq wrapped
  BY UsableExists DEF SetNotify
<1>4. anchored = {notify[a] : a \in Call} \ {NULL} /\ d # NULL
  BY NullAssumption DEF IInv, FunctionsAnchored
<1>5. CASE /\ anchored' = (anchored \cup {d}) \ {notify[c]}
           /\ notify' = [notify EXCEPT ![c] = d]
           /\ captures' = [b \in Data |-> IF b = d THEN captured
                                          ELSE IF b = notify[c] THEN {}
                                          ELSE captures[b]]
  <2>1. notify'[c] = d /\ \A a \in Call \ {c} : notify'[a] = notify[a]
    BY <1>t, <1>5 DEF TypeOK
  <2>2. \A a \in Call : notify[a] # d
    BY <1>4 DEF SetNotify
  <2>3. \A a, b \in Call : notify[a] = notify[b] /\ notify[a] # NULL => a = b
    BY DEF IInv, DataApart
  <2>4. FunctionsAnchored'
    <3>1. ASSUME NEW x \in anchored'
          PROVE  x \in {notify'[a] : a \in Call} \ {NULL}
      BY <1>4, <1>5, <2>1, <3>1
    <3>2. ASSUME NEW a \in Call, notify'[a] # NULL
          PROVE  notify'[a] \in anchored'
      BY <1>4, <1>5, <2>1, <2>2, <2>3, <3>2
    <3>3. ASSUME NEW x \in anchored' PROVE x # NULL
      BY <3>1, <3>3
    <3>4. QED
      BY <3>1, <3>2, <3>3 DEF FunctionsAnchored
  <2>5. DataApart'
    BY <1>3, <1>u, <2>1, <2>2 DEF IInv, DataApart
  <2>6. Referenced'
    <3>1. ASSUME NEW b \in anchored' PROVE captures'[b] \subseteq wrapped
      <4>1. b \in Data /\ b # notify[c] /\ (b = d \/ b \in anchored)
        BY <1>t, <1>5, <3>1 DEF TypeOK
      <4>2. captures'[b] = IF b = d THEN captured ELSE captures[b]
        BY <1>5, <4>1
      <4>3. QED
        BY <1>3, <4>1, <4>2 DEF IInv, Referenced
    <3>2. QED
      BY <1>u, <3>1 DEF IInv, Referenced
  <2>7. QED
    BY <1>1, <1>2, <2>4, <2>5, <2>6 DEF IInv
<1>6. CASE anchored' = (anchored \cup {d}) \ {d} /\ UNCHANGED <<notify, captures>>
  <2>1. anchored' = anchored
    BY <1>6 DEF SetNotify
  <2>2. FunctionsAnchored' /\ DataApart' /\ Referenced'
    BY <1>6, <1>u, <2>1 DEF IInv, FunctionsAnchored, DataApart, Referenced
  <2>3. QED
    BY <1>1, <1>2, <2>2 DEF IInv
<1>7. QED
  BY <1>5, <1>6 DEF SetNotify

(* cancel and the end of a connection: some calls are not waited for any   *)
(* more.                                                                   *)
LEMMA GivingUpKeeps ==
  ASSUME IInv, NEW A \in SUBSET attached,
         attached' = attached \ A, timer' = timer \ A, done' = done \cup A,
         UnrefAll(refs, A), connected' \in BOOLEAN,
         unanswered' \subseteq unanswered,
         UNCHANGED <<queue, serial, completed, wrapped, held,
                     notifying, fired>>
  PROVE  IInv'
<1>t. TypeOK
  BY DEF IInv
<1>1. A \subseteq Call /\ \A a \in A : refs[a] > 0
  <2>1. attached \subseteq Call
    BY <1>t DEF TypeOK
  <2>2. ASSUME NEW a \in A PROVE refs[a] > 0
    BY <2>1, <2>2 DEF IInv, RefsExact, Count
  <2>3. QED
    BY <2>1, <2>2
<1>2. refs \in [Call -> Nat] /\ DataExact(refs)
  BY <1>t, DataIsExact DEF TypeOK
<1>3. Dropped(refs, A)
  BY <1>t, <1>1, <1>2, Unrefs DEF TypeOK
<1>4. TypeOK'
  BY <1>t, <1>1, <1>3 DEF TypeOK, Dropped
<1>5. RefsExact'
  <2> SUFFICES ASSUME NEW a \in Call
               PROVE  refs'[a] = Count(a \in attached') + Count(a \in wrapped')
                                   + Count(InCallback(a)')
    BY DEF RefsExact
  <2>1. refs[a] = Count(a \in attached) + Count(a \in wrapped)
                    + Count(InCallback(a))
    BY DEF IInv, RefsExact
  <2>2. InCallback(a)' <=> InCallback(a)
    BY FramesStay
  <2>3. QED
    BY <1>2, <1>3, <2>1, <2>2 DEF Count, Dropped
<1>6. AwaitedOnce' /\ FiredCompleted' /\ FramesApart'
  BY FramesStay DEF IInv, AwaitedOnce, FiredCompleted, NotifiedOnce
<1>7. Referenced'
  BY <1>3, ReferencedStays DEF Dropped
<1>8. QED
  BY <1>3, <1>4, <1>5, <1>6, <1>7 DEF IInv, Dropped

(* The collector drops the userdata's count.                               *)
LEMMA PendingCallGCKeeps ==
  ASSUME IInv, NEW c \in Call, PendingCallGC(c)
  PROVE  IInv'
<1>t. TypeOK
  BY DEF IInv
<1>u. UNCHANGED <<libdbus, serial, completed, held, notifying, fired,
                  done>> /\ wrapped' = wrapped \ {c}
  BY DEF PendingCallGC
<1>1. /\ c \in wrapped /\ c \notin held
      /\ \A d \in anchored : c \notin captures[d]
      /\ \A i \in DOMAIN notifying : c \notin notifying[i].captured
  BY DEF PendingCallGC, Unreachable, InProgress
<1>2. \A a \in {c} : refs[a] > 0
  BY <1>1, <1>t DEF IInv, RefsExact, Count
<1>3. refs \in [Call -> Nat] /\ DataExact(refs) /\ UnrefAll(refs, {c})
  BY <1>t, DataIsExact DEF TypeOK, PendingCallGC, Unref
<1>4. Dropped(refs, {c})
  BY <1>t, <1>2, <1>3, Unrefs DEF TypeOK
<1>5. TypeOK'
  BY <1>t, <1>u, <1>4 DEF TypeOK, Dropped, libdbus
<1>6. RefsExact'
  <2> SUFFICES ASSUME NEW a \in Call
               PROVE  refs'[a] = Count(a \in attached') + Count(a \in wrapped')
                                   + Count(InCallback(a)')
    BY DEF RefsExact
  <2>1. refs[a] = Count(a \in attached) + Count(a \in wrapped)
                    + Count(InCallback(a))
    BY DEF IInv, RefsExact
  <2>2. (InCallback(a)' <=> InCallback(a)) /\ attached' = attached
    BY <1>u, FramesStay DEF libdbus
  <2>3. QED
    BY <1>1, <1>u, <1>3, <1>4, <2>1, <2>2 DEF Count, Dropped
<1>7. AwaitedOnce' /\ FiredCompleted' /\ FramesApart'
  BY <1>u, FramesStay DEF IInv, AwaitedOnce, FiredCompleted, NotifiedOnce,
                          libdbus
<1>8. Referenced'
  BY <1>1, <1>u, <1>4 DEF IInv, Referenced, Dropped
<1>9. QED
  BY <1>4, <1>5, <1>6, <1>7, <1>8 DEF IInv, Dropped

(* After the callback libdbus drops the count it had for it.               *)
LEMMA NotifyReturnsKeeps ==
  ASSUME IInv, NotifyReturns
  PROVE  IInv'
<1> DEFINE c == Head(notifying).call
<1>t. TypeOK
  BY DEF IInv
<1>u. UNCHANGED <<libdbus, serial, completed, wrapped, held, fired, done>>
  BY DEF NotifyReturns
<1>1. /\ notifying' \in Seq(Frame)
      /\ FramesApart'
      /\ c \in Call /\ InCallback(c)
      /\ \A a \in Call : InCallback(a)' <=> InCallback(a) /\ a # c
      /\ \A i \in DOMAIN notifying' :
           \E j \in DOMAIN notifying : notifying'[i] = notifying[j]
  BY <1>t, FramePopped DEF NotifyReturns, TypeOK, IInv
<1>2. UnrefAll(refs, {c})
  BY DEF NotifyReturns, Unref
<1> HIDE DEF c
<1>3. \A a \in {c} : refs[a] > 0
  BY <1>1, <1>t DEF IInv, RefsExact, Count
<1>4. refs \in [Call -> Nat] /\ DataExact(refs)
  BY <1>t, DataIsExact DEF TypeOK
<1>5. Dropped(refs, {c})
  BY <1>t, <1>1, <1>2, <1>3, <1>4, Unrefs DEF TypeOK
<1>6. TypeOK'
  BY <1>t, <1>u, <1>1, <1>5 DEF TypeOK, Dropped, libdbus
<1>7. RefsExact'
  <2> SUFFICES ASSUME NEW a \in Call
               PROVE  refs'[a] = Count(a \in attached') + Count(a \in wrapped')
                                   + Count(InCallback(a)')
    BY DEF RefsExact
  <2>1. refs[a] = Count(a \in attached) + Count(a \in wrapped)
                    + Count(InCallback(a))
    BY DEF IInv, RefsExact
  <2>2. (InCallback(a)' <=> InCallback(a) /\ a # c)
        /\ attached' = attached /\ wrapped' = wrapped
    BY <1>1, <1>u DEF libdbus
  <2>3. QED
    BY <1>1, <1>4, <1>5, <2>1, <2>2 DEF Count, Dropped
<1>8. AwaitedOnce' /\ FiredCompleted'
  BY <1>u DEF IInv, AwaitedOnce, FiredCompleted, NotifiedOnce, libdbus
<1>9. Referenced'
  BY <1>1, <1>u, <1>5 DEF IInv, Referenced, Dropped
<1>10. QED
  BY <1>1, <1>5, <1>6, <1>7, <1>8, <1>9 DEF IInv, Dropped

(* A call completes: dispatch and block.                                   *)
LEMMA CompleteKeeps ==
  ASSUME IInv, NEW c \in Call, c \notin completed,
         c \in attached \/ c \in wrapped, NEW by \in {"dispatch", "block"},
         Complete(c, by), queue' \in Seq(Call), unanswered' \subseteq Call,
         UNCHANGED <<connected, serial, wrapped, held>>
  PROVE  IInv'
<1> DEFINE A == Awaited(c)
           dropped == A \ {c}
           n == IF c \in attached THEN refs ELSE [refs EXCEPT ![c] = @ + 1]
           f == [call |-> c, captured |-> captures[notify[c]], by |-> by]
<1>t. TypeOK
  BY DEF IInv
<1>1. /\ A \in SUBSET attached /\ A \in SUBSET Call
      /\ \A a \in attached : refs[a] > 0
      /\ c \in attached => A = {c}
  BY AwaitedCounted
<1>2. /\ n \in [Call -> Nat] /\ refs \in [Call -> Nat]
      /\ n[c] = IF c \in attached THEN refs[c] ELSE refs[c] + 1
      /\ \A a \in Call \ {c} : n[a] = refs[a]
  BY <1>t DEF TypeOK
<1>3. DataExact(n) /\ DataExact(refs)
  <2>1. DataExact(refs)
    BY DataIsExact
  <2>2. \A a \in Call : refs[a] > 0 => n[a] > 0
    BY <1>2
  <2>3. QED
    BY <2>1, <2>2 DEF DataExact
<1>4. dropped \in SUBSET Call /\ \A a \in dropped : n[a] > 0
  BY <1>1, <1>2
<1>5. c \notin A => dropped = A
  OBVIOUS
<1>6. /\ completed' = completed \cup {c}
      /\ attached' = attached \ A /\ timer' = timer \ A
      /\ done' = done \cup dropped
  BY DEF Complete
<1>7. ~InCallback(c)
  BY DEF IInv, FramesApart, InCallback, InProgress
<1>8. CASE notify[c] # NULL /\ UnrefAll(n, dropped) /\ Notify(c, by)
  <2>1. notifying' = <<f>> \o notifying /\ fired' = [fired EXCEPT ![c] = @ + 1]
    BY <1>8 DEF Notify
  <2>2. f \in Frame /\ f.call = c
    <3>1. notify[c] \in Data /\ captures[notify[c]] \in SUBSET Call
      BY <1>t, <1>8 DEF TypeOK
    <3>2. QED
      BY <3>1 DEF Frame
  <2>3. f.captured \subseteq wrapped
    <3>1. notify[c] \in anchored
      BY <1>8 DEF IInv, FunctionsAnchored
    <3>2. QED
      BY <3>1 DEF IInv, Referenced
  <2> HIDE DEF f, A, n, dropped
  <2>4. /\ notifying' \in Seq(Frame)
        /\ FramesApart'
        /\ \A a \in Call : InCallback(a)' <=> InCallback(a) \/ a = c
        /\ \A i \in DOMAIN notifying' :
             notifying'[i] \in {f} \cup {notifying[j] : j \in DOMAIN notifying}
    BY <1>t, <1>6, <2>1, <2>2, FramePushed DEF TypeOK, IInv
  <2>5. Dropped(n, dropped)
    BY <1>t, <1>2, <1>3, <1>4, <1>8, Unrefs DEF TypeOK
  <2>6. fired' \in [Call -> Nat] /\ FiredCompleted'
    <3>1. fired \in [Call -> Nat] /\ \A a \in Call : fired[a] <= 1
      BY <1>t DEF TypeOK, IInv, FiredCompleted, NotifiedOnce
    <3>2. fired[c] = 0 /\ \A a \in Call : fired[a] > 0 => a \in completed
      BY <3>1 DEF IInv, FiredCompleted
    <3>3. \A a \in Call : fired'[a] = fired[a] \/ (a = c /\ fired'[a] = 1)
      BY <2>1, <3>1, <3>2
    <3>4. fired' \in [Call -> Nat]
      BY <2>1, <3>1
    <3>5. QED
      BY <1>6, <3>1, <3>2, <3>3, <3>4 DEF FiredCompleted, NotifiedOnce
  <2>7. TypeOK'
    BY <1>t, <1>1, <1>4, <1>6, <2>4, <2>5, <2>6 DEF TypeOK, Dropped
  <2>8. RefsExact'
    <3> SUFFICES ASSUME NEW a \in Call
                 PROVE  refs'[a] = Count(a \in attached') + Count(a \in wrapped')
                                     + Count(InCallback(a)')
      BY DEF RefsExact
    <3>1. /\ refs[a] = Count(a \in attached) + Count(a \in wrapped)
                         + Count(InCallback(a))
          /\ refs[a] \in Nat /\ wrapped' = wrapped
      BY <1>2 DEF IInv, RefsExact
    <3>2. CASE a = c
      <4>1. refs'[a] = n[c]
        BY <2>5, <3>2 DEF Dropped, dropped
      <4>2. a \notin attached' /\ InCallback(a)' /\ ~InCallback(a)
        BY <1>1, <1>6, <1>7, <2>4, <3>2
      <4>3. QED
        BY <1>2, <3>1, <3>2, <4>1, <4>2 DEF Count
    <3>3. CASE a # c
      <4>1. refs'[a] = IF a \in A THEN refs[a] - 1 ELSE refs[a]
        BY <1>2, <2>5, <3>3 DEF Dropped, dropped
      <4>2. (InCallback(a)' <=> InCallback(a))
            /\ (a \in attached' <=> a \in attached /\ a \notin A)
        BY <1>6, <2>4, <3>3
      <4>3. QED
        BY <1>1, <3>1, <4>1, <4>2 DEF Count
    <3>4. QED
      BY <3>2, <3>3
  <2>9. Referenced'
    <3>1. ASSUME NEW i \in DOMAIN notifying'
          PROVE  notifying'[i].captured \subseteq wrapped
      BY <2>3, <2>4, <3>1 DEF IInv, Referenced
    <3>2. QED
      BY <2>5, <3>1 DEF IInv, Referenced, Dropped
  <2>10. AwaitedOnce'
    <3>1. c \notin attached'
      BY <1>1, <1>6
    <3>2. QED
      BY <1>6, <3>1 DEF IInv, AwaitedOnce
  <2>11. QED
    BY <2>4, <2>5, <2>6, <2>7, <2>8, <2>9, <2>10 DEF IInv, Dropped
<1>9. CASE UnrefAll(refs, A) /\ UNCHANGED <<notifying, fired>>
  <2> HIDE DEF f, A, n, dropped
  <2>1. Dropped(refs, A)
    BY <1>t, <1>1, <1>2, <1>3, <1>9, Unrefs DEF TypeOK
  <2>2. FramesApart' /\ \A a \in Call : InCallback(a)' <=> InCallback(a)
    BY <1>6, <1>9 DEF IInv, FramesApart, InCallback, InProgress
  <2>3. TypeOK'
    BY <1>t, <1>1, <1>4, <1>6, <1>9, <2>1 DEF TypeOK, Dropped
  <2>4. RefsExact'
    <3> SUFFICES ASSUME NEW a \in Call
                 PROVE  refs'[a] = Count(a \in attached') + Count(a \in wrapped')
                                     + Count(InCallback(a)')
      BY DEF RefsExact
    <3>1. refs[a] = Count(a \in attached) + Count(a \in wrapped)
                      + Count(InCallback(a))
      BY DEF IInv, RefsExact
    <3>2. QED
      BY <1>1, <1>2, <1>6, <2>1, <2>2, <3>1 DEF Count, Dropped
  <2>5. FiredCompleted' /\ Referenced'
    BY <1>6, <1>9, <2>1
    DEF IInv, FiredCompleted, NotifiedOnce, Referenced, Dropped
  <2>6. AwaitedOnce'
    <3>1. c \notin attached'
      BY <1>1, <1>6
    <3>2. QED
      BY <1>6, <3>1 DEF IInv, AwaitedOnce
  <2>7. QED
    BY <2>1, <2>2, <2>3, <2>4, <2>5, <2>6 DEF IInv, Dropped
<1>10. QED
  BY <1>8, <1>9 DEF Complete

(* Parts of a queue are queues.                                            *)
LEMMA QueueParts ==
  ASSUME queue \in Seq(Call)
  PROVE  /\ queue # <<>> => Tail(queue) \in Seq(Call) /\ Head(queue) \in Call
         /\ \A i \in DOMAIN queue :
              SubSeq(queue, 1, i - 1) \o SubSeq(queue, i + 1, Len(queue))
                \in Seq(Call)
         /\ \A c \in Call : Append(queue, c) \in Seq(Call)
<1>1. queue # <<>> => Tail(queue) \in Seq(Call) /\ Head(queue) \in Call
  BY HeadTailProperties
<1>2. ASSUME NEW i \in DOMAIN queue
      PROVE  SubSeq(queue, 1, i - 1) \o SubSeq(queue, i + 1, Len(queue))
               \in Seq(Call)
  <2>1. SubSeq(queue, 1, i - 1) \in Seq(Call)
        /\ SubSeq(queue, i + 1, Len(queue)) \in Seq(Call)
    BY SubSeqProperties
  <2>2. QED
    BY <2>1, ConcatProperties
<1>3. \A c \in Call : Append(queue, c) \in Seq(Call)
  BY AppendProperties
<1>4. QED
  BY <1>1, <1>2, <1>3

LEMMA IStep ==
  ASSUME IInv, [Next]_vars
  PROVE  IInv'
<1>t. TypeOK
  BY DEF IInv
<1>q. /\ queue # <<>> => Tail(queue) \in Seq(Call) /\ Head(queue) \in Call
      /\ \A i \in DOMAIN queue :
           SubSeq(queue, 1, i - 1) \o SubSeq(queue, i + 1, Len(queue))
             \in Seq(Call)
      /\ \A c \in Call : Append(queue, c) \in Seq(Call)
  BY <1>t, QueueParts DEF TypeOK
<1>a. ASSUME /\ UNCHANGED <<calls, wrapped, anchored, captures, notifying, fired>>
             /\ held' \subseteq held /\ attached' = attached
             /\ timer' \subseteq timer /\ connected' = connected
             /\ queue' \in Seq(Call)
             /\ unanswered' \subseteq Call /\ done' \subseteq Call
      PROVE  IInv'
  <2>1. FramesApart'
    BY <1>a, FramesStay DEF calls
  <2>2. TypeOK'
    BY <1>t, <1>a DEF TypeOK, calls
  <2>3. RefsExact'
    BY <1>a, RefsStay DEF calls
  <2>4. FunctionsAnchored' /\ AwaitedOnce' /\ DataApart' /\ FiredCompleted'
        /\ Referenced'
    BY <1>a DEF IInv, calls, FunctionsAnchored, AwaitedOnce, DataApart,
                FiredCompleted, NotifiedOnce, Referenced
  <2>5. QED
    BY <2>1, <2>2, <2>3, <2>4 DEF IInv
<1>1. ASSUME NEW c \in Call, NEW o \in Call, SendWithReply(c, o)
      PROVE  IInv'
  BY <1>1, SendWithReplyKeeps
<1>2. ASSUME NEW c \in Call, Cancel(c)
      PROVE  IInv'
  <2> DEFINE A == Awaited(c)
  <2>1. A \in SUBSET attached
    BY AwaitedCounted
  <2>2. /\ attached' = attached \ A /\ timer' = timer \ A
        /\ done' = done \cup A /\ UnrefAll(refs, A) /\ connected' \in BOOLEAN
        /\ unanswered' \subseteq unanswered
        /\ UNCHANGED <<queue, serial, completed, wrapped, held,
                       notifying, fired>>
    BY <1>2, <1>t DEF Cancel, TypeOK
  <2> HIDE DEF A
  <2>3. QED
    BY <2>1, <2>2, GivingUpKeeps
<1>3. ASSUME NEW c \in Call, Forget(c)
      PROVE  IInv'
  BY <1>3, <1>t, <1>a DEF Forget, libdbus, TypeOK
<1>4. ASSUME NEW c \in Call, PendingCallGC(c)
      PROVE  IInv'
  BY <1>4, PendingCallGCKeeps
<1>5. ASSUME NEW c \in Call, ReplyArrives(c)
      PROVE  IInv'
  <2>1. timer' \subseteq timer /\ queue' \in Seq(Call)
    BY <1>5, <1>q DEF ReplyArrives
  <2>2. QED
    BY <1>5, <1>t, <1>a, <2>1 DEF ReplyArrives, lua, TypeOK
<1>6. ASSUME NEW c \in Call, TimerFires(c)
      PROVE  IInv'
  <2>1. timer' \subseteq timer /\ queue' \in Seq(Call)
    BY <1>6, <1>q DEF TimerFires
  <2>2. QED
    BY <1>6, <1>t, <1>a, <2>1 DEF TimerFires, lua, TypeOK
<1>7. ASSUME NEW c \in Call, BlockOn(c)
      PROVE  IInv'
  <2>1. /\ Usable(c) /\ c \notin completed /\ Complete(c, "block")
        /\ UNCHANGED <<connected, serial, wrapped, held>>
    BY <1>7 DEF BlockOn
  <2>2. queue' \in Seq(Call) /\ unanswered' \subseteq Call
    <3>1. unanswered' \subseteq Call
      BY <1>7, <1>t DEF BlockOn, TypeOK
    <3>2. queue' = queue \/ \E i \in DOMAIN queue :
             queue' = SubSeq(queue, 1, i - 1) \o SubSeq(queue, i + 1, Len(queue))
      BY <1>7 DEF BlockOn
    <3>3. QED
      BY <1>t, <1>q, <3>1, <3>2 DEF TypeOK
  <2>3. c \in wrapped
    BY <2>1, UsableExists
  <2>4. QED
    BY <2>1, <2>2, <2>3, CompleteKeeps
<1>8. ASSUME NEW c \in Call, NEW d \in Data, NEW captured \in SUBSET Call,
             SetNotify(c, d, captured)
      PROVE  IInv'
  BY <1>8, SetNotifyKeeps
<1>9. CASE NotifyReturns
  BY <1>9, NotifyReturnsKeeps
<1>10. CASE Dispatch
  <2>1. /\ queue # <<>> /\ queue' = Tail(queue)
        /\ UNCHANGED <<connected, unanswered, serial, wrapped, held>>
    BY <1>10 DEF Dispatch
  <2>2. queue' \in Seq(Call) /\ unanswered' \subseteq Call
        /\ Head(queue) \in Call
    BY <1>t, <1>q, <2>1 DEF TypeOK
  <2>3. CASE \E c \in Awaited(Head(queue)) : Complete(c, "dispatch")
    <3>1. PICK c \in Awaited(Head(queue)) : Complete(c, "dispatch")
      BY <2>3
    <3>2. c \in attached /\ c \in Call /\ c \notin completed
      BY <1>t DEF Awaited, TypeOK, IInv, AwaitedOnce
    <3>3. QED
      BY <2>1, <2>2, <3>1, <3>2, CompleteKeeps
  <2>4. CASE UNCHANGED <<attached, timer, refs, completed, notify,
                         anchored, captures, notifying, fired, done>>
    BY <1>t, <1>a, <2>1, <2>2, <2>4 DEF TypeOK, calls
  <2>5. QED
    BY <1>10, <2>3, <2>4 DEF Dispatch
<1>11. CASE PopMessage
  <2>1. queue' \in Seq(Call) /\ done' \subseteq Call
    BY <1>11, <1>t, <1>q DEF PopMessage, TypeOK, Awaited
  <2>2. QED
    BY <1>11, <1>t, <1>a, <2>1 DEF PopMessage, lua, TypeOK
<1>12. CASE Disconnect
  <2>1. PICK C \in SUBSET attached :
          /\ attached' = attached \ C /\ timer' = timer \ C
          /\ done' = done \cup C /\ UnrefAll(refs, C)
    BY <1>12 DEF Disconnect
  <2>2. /\ connected' \in BOOLEAN /\ unanswered' \subseteq unanswered
        /\ UNCHANGED <<queue, serial, completed, wrapped, held,
                       notifying, fired>>
    BY <1>12 DEF Disconnect
  <2>3. QED
    BY <2>1, <2>2, GivingUpKeeps
<1>13. CASE UNCHANGED vars
  BY <1>13, <1>t, <1>a DEF vars, libdbus, lua, TypeOK
<1>14. QED
  BY <1>1, <1>2, <1>3, <1>4, <1>5, <1>6, <1>7, <1>8, <1>9, <1>10,
     <1>11, <1>12, <1>13 DEF Next

LEMMA IInvariant == Spec => []IInv
<1>1. Init => IInv
  BY IInit
<1>2. IInv /\ [Next]_vars => IInv'
  BY IStep
<1>3. QED
  BY <1>1, <1>2, PTL DEF Spec

----------------------------------------------------------------------------
(* The theorems.                                                           *)

(* The variables of PendingCalls keep their types; no count goes below     *)
(* zero (src/src/pending_call.c).                                          *)
THEOREM TypeCorrect == Spec => []TypeOK
<1>1. IInv => TypeOK
  BY DEF IInv
<1>2. QED
  BY <1>1, IInvariant, PTL

(* A pending call is counted for the connection, its userdata and the      *)
(* callback in progress, once each: __gc, cancel, dispatch, block and      *)
(* requests sent again (src/src/pending_call.c, connection.c).             *)
THEOREM Counting == Spec => []RefsExact
<1>1. IInv => RefsExact
  BY DEF IInv
<1>2. QED
  BY <1>1, IInvariant, PTL

(* The registry has the functions of the pending calls that exist, and no  *)
(* others: set_notify and free_data_function (src/src/pending_call.c).     *)
THEOREM FunctionsStayAlive == Spec => []FunctionsAnchored
<1>1. IInv => FunctionsAnchored
  BY DEF IInv
<1>2. QED
  BY <1>1, IInvariant, PTL

(* No notify function is called twice for one call, in whatever order      *)
(* replies, timeouts, cancels, block and dispatch come                     *)
(* (src/src/pending_call.c, connection.c).                                 *)
THEOREM CalledAtMostOnce == Spec => []NotifiedOnce
<1>1. IInv => NotifiedOnce
  BY DEF IInv, FiredCompleted
<1>2. QED
  BY <1>1, IInvariant, PTL


----------------------------------------------------------------------------
(* The registry.                                                           *)

(* Dropping counts gives back the blocks of the calls that are freed.      *)
LEMMA UnrefsGiveBack ==
  ASSUME NEW n, NEW C, UnrefAll(n, C)
  PROVE  Anchors!GiveBack
<1> DEFINE freed == {c \in C : n[c] = 1}
<1>1. notify' = [c \in Call |-> IF c \in freed THEN NULL ELSE notify[c]]
  BY DEF UnrefAll
<1> HIDE DEF freed
<1>2. \A c \in Call : (IF notify'[c] = NULL THEN NULL ELSE notify[c]) = notify'[c]
  BY <1>1
<1>3. QED
  BY <1>1, <1>2 DEF Anchors!GiveBack

(* Every step is one of module Anchoring, or leaves the registry alone.    *)
LEMMA AnchoringStep ==
  IInv /\ IInv' /\ [Next]_vars => [Anchors!Next]_(Anchors!vars)
<1> SUFFICES ASSUME IInv, IInv', [Next]_vars
             PROVE  [Anchors!Next]_(Anchors!vars)
  OBVIOUS
<1>k. anchored' = {notify'[c] : c \in Call} \ {NULL}
  BY DEF IInv, FunctionsAnchored
<1>g. Anchors!GiveBack => Anchors!Next
  BY <1>k DEF Anchors!Next
<1>u. UNCHANGED <<notify, anchored>> => UNCHANGED Anchors!vars
  BY DEF Anchors!vars
<1>1. ASSUME NEW c \in Call, NEW o \in Call, SendWithReply(c, o)
      PROVE  Anchors!GiveBack
  BY <1>1, UnrefsGiveBack DEF SendWithReply
<1>2. ASSUME NEW c \in Call, Cancel(c) \/ PendingCallGC(c)
      PROVE  Anchors!GiveBack
  BY <1>2, UnrefsGiveBack DEF Cancel, PendingCallGC, Unref
<1>3. ASSUME NEW c \in Call, NEW by, Complete(c, by) PROVE Anchors!GiveBack
  BY <1>3, UnrefsGiveBack DEF Complete
<1>4. CASE NotifyReturns \/ Disconnect
  BY <1>4, <1>g, UnrefsGiveBack DEF NotifyReturns, Disconnect, Unref
<1>5. CASE Dispatch
  BY <1>5, <1>3, <1>g, <1>u, AwaitedCounted DEF Dispatch, Awaited, IInv, TypeOK
<1>6. ASSUME NEW c \in Call, BlockOn(c) PROVE Anchors!GiveBack
  BY <1>6, <1>3 DEF BlockOn
<1>7. ASSUME NEW c \in Call, NEW d \in Data, NEW captured,
             SetNotify(c, d, captured)
      PROVE  Anchors!Install(c, d) \/ UNCHANGED <<notify, anchored>>
  <2>1. d \notin anchored
    BY <1>7 DEF SetNotify
  <2>2. \/ notify' = [notify EXCEPT ![c] = d]
        \/ notify' = notify /\ anchored' = (anchored \cup {d}) \ {d}
    BY <1>7 DEF SetNotify
  <2>3. QED
    BY <2>1, <2>2 DEF Anchors!Install
<1>8. ASSUME NEW c \in Call,
             Forget(c) \/ ReplyArrives(c) \/ TimerFires(c)
      PROVE  UNCHANGED <<notify, anchored>>
  BY <1>8 DEF Forget, ReplyArrives, TimerFires, calls, lua
<1>9. CASE PopMessage \/ UNCHANGED vars
  BY <1>9, <1>u DEF PopMessage, vars, calls, lua
<1>10. ASSUME NEW c \in Call, NEW d \in Data, Anchors!Install(c, d)
       PROVE  Anchors!Next
  BY <1>10, <1>k DEF Anchors!Next
<1>11. QED
  BY <1>1, <1>2, <1>4, <1>5, <1>6, <1>7, <1>8, <1>9, <1>10, <1>g, <1>u DEF Next

(* Notify functions use the registry as blocks of data should: they come   *)
(* into use fresh, never change from one pending call to another, and are  *)
(* anchored for as long as they are in use (set_notify and                 *)
(* free_data_function of src/src/pending_call.c).                          *)
THEOREM ImplementsAnchoring == Spec => AnchoringImplemented
<1>1. Init => Anchors!Init
  BY DEF Init, Anchors!Init
<1>2. QED
  BY <1>1, IInvariant, AnchoringStep, PTL
  DEF Spec, AnchoringImplemented, Anchors!Spec
=============================================================================
