---------------------------- MODULE BusNamesProofs ----------------------------
(***************************************************************************)
(* Proofs about BusNames, for every number of connections, userdata and    *)
(* names.                                                                  *)
(***************************************************************************)
EXTENDS BusNames, ConnectionsProofs, SequenceTheorems

(* What the daemon knows of the options is what the program passed.        *)
FlagsExact == \A c \in Conn, n \in Name : flags[c][n] = Flags(asked[c][n])

(* A connection that does not exist has no news, and no names.             *)
NoneLeft == \A c \in Conn : refs[c] = 0 => inbox[c] = <<>> /\ believes[c] = {}

(* No signal about n waits in the connection c.                            *)
Silent(c, n) == \A i \in DOMAIN inbox[c] : inbox[c][i].name # n

(* The signal i of the connection c is the last one about n.               *)
Latest(c, n, i) ==
  /\ inbox[c][i].name = n
  /\ \A j \in DOMAIN inbox[c] : j > i => inbox[c][j].name # n

(* The last signal about a name tells who owns it.                         *)
Informed(c, n) ==
  /\ \A i \in DOMAIN inbox[c] :
       Latest(c, n, i) => (inbox[c][i].owner <=> OwnerIn(queue[n]) = c)
  /\ Silent(c, n) => (n \in believes[c] <=> OwnerIn(queue[n]) = c)

BusInv ==
  /\ IInv /\ BusTypeOK /\ FlagsExact /\ NoneLeft
  /\ \A c \in connected, n \in Name : Informed(c, n)

----------------------------------------------------------------------------
(* Queues.                                                                 *)

(* Taking one entry out of a queue takes out a connection, and leaves the  *)
(* order of the others as it is.                                           *)
LEMMA EntryRemoved ==
  ASSUME NEW S, NEW q \in Seq(S), IsInjective(q), NEW i \in 1..Len(q)
  PROVE  /\ RemoveAt(q, i) \in Seq(S) /\ IsInjective(RemoveAt(q, i))
         /\ \A e : Contains(RemoveAt(q, i), e) <=> Contains(q, e) /\ e # q[i]
         /\ i # 1 => RemoveAt(q, i) # <<>> /\ Head(RemoveAt(q, i)) = Head(q)
<1> DEFINE r == RemoveAt(q, i)
<1>1. /\ r \in Seq(S) /\ Len(r) = Len(q) - 1
      /\ \A j \in 1..Len(r) : r[j] = IF j < i THEN q[j] ELSE q[j + 1]
  <2>1. /\ SubSeq(q, 1, i - 1) \in Seq(S)
        /\ Len(SubSeq(q, 1, i - 1)) = i - 1
        /\ \A j \in 1..(i - 1) : SubSeq(q, 1, i - 1)[j] = q[j]
    <3>1. \A j \in 1..(i - 1) : q[j] \in S
      OBVIOUS
    <3>2. QED
      BY <3>1, SubSeqProperties
  <2>2. /\ SubSeq(q, i + 1, Len(q)) \in Seq(S)
        /\ Len(SubSeq(q, i + 1, Len(q))) = Len(q) - i
        /\ \A j \in 1..(Len(q) - i) : SubSeq(q, i + 1, Len(q))[j] = q[i + j]
    <3>1. \A j \in (i + 1)..Len(q) : q[j] \in S
      OBVIOUS
    <3>2. QED
      BY <3>1, SubSeqProperties
  <2> DEFINE s == SubSeq(q, 1, i - 1)
             t == SubSeq(q, i + 1, Len(q))
  <2>3. /\ s \o t \in Seq(S) /\ Len(s \o t) = Len(s) + Len(t)
        /\ \A j \in 1..(Len(s) + Len(t)) :
             (s \o t)[j] = IF j <= Len(s) THEN s[j] ELSE t[j - Len(s)]
    BY <2>1, <2>2, ConcatProperties
  <2>4. r = s \o t
    BY DEF RemoveAt
  <2> HIDE DEF s, t, r
  <2>5. Len(s) = i - 1 /\ Len(t) = Len(q) - i /\ Len(q) \in Nat
    BY <2>1, <2>2, LenProperties DEF s, t
  <2>6. Len(r) = Len(q) - 1
    BY <2>3, <2>4, <2>5
  <2>7. ASSUME NEW j \in 1..Len(r) PROVE r[j] = IF j < i THEN q[j] ELSE q[j + 1]
    <3>1. CASE j < i
      BY <2>1, <2>3, <2>4, <2>5, <2>6, <2>7, <3>1 DEF s
    <3>2. CASE ~(j < i)
      <4>1. r[j] = t[j - (i - 1)] /\ j - (i - 1) \in 1..(Len(q) - i)
        BY <2>3, <2>4, <2>5, <2>6, <2>7, <3>2
      <4>2. t[j - (i - 1)] = q[i + (j - (i - 1))]
        BY <2>2, <4>1 DEF t
      <4>3. i + (j - (i - 1)) = j + 1
        BY <2>7
      <4>4. QED
        BY <3>2, <4>1, <4>2, <4>3
    <3>3. QED
      BY <3>1, <3>2
  <2>8. QED
    BY <2>3, <2>4, <2>6, <2>7
<1>2. DOMAIN r = 1..Len(r) /\ DOMAIN q = 1..Len(q) /\ Len(q) \in Nat
  BY <1>1, LenProperties
<1> HIDE DEF r
<1>3. \A a, b \in 1..Len(q) : q[a] = q[b] => a = b
  BY <1>2 DEF IsInjective
<1>4. IsInjective(r)
  BY <1>1, <1>2, <1>3 DEF IsInjective
<1>5. ASSUME NEW e PROVE Contains(r, e) <=> Contains(q, e) /\ e # q[i]
  <2>1. ASSUME NEW j \in 1..Len(r), r[j] = e
        PROVE  Contains(q, e) /\ e # q[i]
    <3>1. \E k \in 1..Len(q) : k # i /\ r[j] = q[k]
      <4>1. CASE j < i
        BY <1>1, <1>2, <4>1
      <4>2. CASE ~(j < i)
        <5>1. j + 1 \in 1..Len(q) /\ j + 1 # i /\ r[j] = q[j + 1]
          BY <1>1, <1>2, <4>2
        <5>2. QED
          BY <5>1
      <4>3. QED
        BY <4>1, <4>2
    <3>2. PICK k \in 1..Len(q) : k # i /\ q[k] = e
      BY <2>1, <3>1
    <3>3. e # q[i]
      BY <1>3, <3>2
    <3>4. QED
      BY <3>2, <3>3 DEF Contains
  <2>2. ASSUME NEW j \in 1..Len(q), q[j] = e, e # q[i]
        PROVE  \E k \in 1..Len(r) : r[k] = e
    <3>1. CASE j < i
      <4>1. j \in 1..Len(r) /\ r[j] = e
        BY <1>1, <1>2, <2>2, <3>1
      <4>2. QED
        BY <4>1
    <3>2. CASE j > i
      <4>1. j - 1 \in 1..Len(r) /\ r[j - 1] = e
        BY <1>1, <1>2, <2>2, <3>2
      <4>2. QED
        BY <4>1
    <3>3. QED
      BY <2>2, <3>1, <3>2
  <2>3. QED
    BY <2>1, <2>2 DEF Contains
<1>6. ASSUME i # 1 PROVE r # <<>> /\ Head(r) = Head(q)
  <2>1. Len(r) >= 1 /\ r[1] = q[1]
    BY <1>1, <1>2, <1>6
  <2>2. QED
    BY <1>1, <2>1
<1>7. QED
  BY <1>1, <1>4, <1>5, <1>6 DEF r

(* RemoveFirst takes a connection out of a queue.                          *)
LEMMA Leaves ==
  ASSUME NEW S, NEW q \in Seq(S), IsInjective(q), NEW c
  PROVE  /\ RemoveFirst(q, c) \in Seq(S) /\ IsInjective(RemoveFirst(q, c))
         /\ \A e : Contains(RemoveFirst(q, c), e) <=> Contains(q, e) /\ e # c
         /\ q # <<>> /\ Head(q) # c =>
              RemoveFirst(q, c) # <<>> /\ Head(RemoveFirst(q, c)) = Head(q)
<1>1. CASE \A i \in 1..Len(q) : q[i] # c
  <2>1. RemoveFirst(q, c) = q
    BY <1>1 DEF RemoveFirst
  <2>2. QED
    BY <1>1, <2>1 DEF Contains
<1>2. CASE \E i \in 1..Len(q) : q[i] = c
  <2>1. PICK k \in 1..Len(q) : q[k] = c
    BY <1>2
  <2>2. {i \in 1..Len(q) : q[i] = c} = {k}
    BY <2>1 DEF IsInjective
  <2>3. SelectInSeq(q, LAMBDA v : v = c) = k
    <3>1. Min({k}) = k
      BY DEF Min
    <3>2. QED
      BY <2>2, <3>1 DEF SelectInSeq
  <2>4. RemoveFirst(q, c) = RemoveAt(q, k)
    BY <1>2, <2>3 DEF RemoveFirst
  <2>5. q # <<>> /\ Head(q) # c => k # 1
    BY <2>1
  <2>6. QED
    BY <2>1, <2>4, <2>5, EntryRemoved
<1>3. QED
  BY <1>1, <1>2

(* RemoveFirstMatch does so with the one that is down, if there is one.    *)
LEMMA DownLeaves ==
  ASSUME NEW S, NEW q \in Seq(S), IsInjective(q), NEW d,
         \A e : Contains(q, e) => e \in connected' \/ e = d,
         NEW r, r = RemoveFirstMatch(q, LAMBDA c : c \notin connected')
  PROVE  /\ r \in Seq(S) /\ IsInjective(r)
         /\ \A e : Contains(r, e) <=> Contains(q, e) /\ e \in connected'
         /\ q # <<>> /\ Head(q) \in connected' => r # <<>> /\ Head(r) = Head(q)
<1>1. CASE \A i \in 1..Len(q) : q[i] \in connected'
  <2>1. r = q
    BY <1>1 DEF RemoveFirstMatch
  <2>2. \A e : Contains(q, e) => e \in connected'
    BY <1>1 DEF Contains
  <2>3. QED
    BY <2>1, <2>2
<1>2. CASE \E i \in 1..Len(q) : q[i] \notin connected'
  <2>1. PICK k \in 1..Len(q) : q[k] \notin connected'
    BY <1>2
  <2>2. \A i \in 1..Len(q) : q[i] \notin connected' => q[i] = d
    BY DEF Contains
  <2>3. {i \in 1..Len(q) : q[i] \notin connected'} = {k}
    BY <2>1, <2>2 DEF IsInjective
  <2>4. SelectInSeq(q, LAMBDA c : c \notin connected') = k
    <3>1. Min({k}) = k
      BY DEF Min
    <3>2. QED
      BY <2>3, <3>1 DEF SelectInSeq
  <2>5. r = RemoveAt(q, k)
    BY <1>2, <2>4 DEF RemoveFirstMatch
  <2>6. q # <<>> /\ Head(q) \in connected' => k # 1
    BY <2>1
  <2>7. \A e : Contains(q, e) /\ e # q[k] <=> Contains(q, e) /\ e \in connected'
    BY <2>1, <2>2 DEF Contains
  <2>8. /\ RemoveAt(q, k) \in Seq(S) /\ IsInjective(RemoveAt(q, k))
        /\ \A e : Contains(RemoveAt(q, k), e) <=> Contains(q, e) /\ e # q[k]
        /\ k # 1 => RemoveAt(q, k) # <<>> /\ Head(RemoveAt(q, k)) = Head(q)
    BY EntryRemoved
  <2>9. \A e : Contains(r, e) <=> Contains(q, e) /\ e \in connected'
    BY <2>5, <2>7, <2>8, Zenon
  <2>10. QED
    BY <2>5, <2>6, <2>8, <2>9
<1>3. QED
  BY <1>1, <1>2

(* The head of a queue leaves it.                                          *)
LEMMA TailOfQueue ==
  ASSUME NEW S, NEW q \in Seq(S), IsInjective(q), q # <<>>
  PROVE  /\ Tail(q) \in Seq(S) /\ IsInjective(Tail(q))
         /\ \A e : Contains(Tail(q), e) <=> Contains(q, e) /\ e # Head(q)
<1> DEFINE r == Tail(q)
<1>1. /\ r \in Seq(S) /\ Len(r) = Len(q) - 1 /\ Head(q) = q[1]
      /\ \A j \in 1..Len(r) : r[j] = q[j + 1]
  BY HeadTailProperties
<1>2. /\ DOMAIN r = 1..Len(r) /\ DOMAIN q = 1..Len(q)
      /\ Len(q) \in Nat /\ Len(q) > 0
  BY <1>1, LenProperties, EmptySeq
<1> HIDE DEF r
<1>3. \A a, b \in 1..Len(q) : q[a] = q[b] => a = b
  BY <1>2 DEF IsInjective
<1>4. IsInjective(r)
  BY <1>1, <1>2, <1>3 DEF IsInjective
<1>5. ASSUME NEW e PROVE Contains(r, e) <=> Contains(q, e) /\ e # Head(q)
  <2>1. ASSUME NEW j \in 1..Len(r), r[j] = e
        PROVE  Contains(q, e) /\ e # Head(q)
    BY <1>1, <1>2, <1>3, <2>1 DEF Contains
  <2>2. ASSUME NEW j \in 1..Len(q), q[j] = e, e # Head(q)
        PROVE  \E k \in 1..Len(r) : r[k] = e
    <3>1. j - 1 \in 1..Len(r) /\ r[j - 1] = e
      BY <1>1, <1>2, <2>2
    <3>2. QED
      BY <3>1
  <2>3. QED
    BY <2>1, <2>2 DEF Contains
<1>6. QED
  BY <1>1, <1>4, <1>5 DEF r

(* A connection put first into a queue that it is not in.                  *)
LEMMA PutFirst ==
  ASSUME NEW S, NEW q \in Seq(S), IsInjective(q), NEW c \in S, ~Contains(q, c)
  PROVE  /\ <<c>> \o q \in Seq(S) /\ IsInjective(<<c>> \o q)
         /\ \A e : Contains(<<c>> \o q, e) <=> e = c \/ Contains(q, e)
         /\ <<c>> \o q # <<>> /\ Head(<<c>> \o q) = c
<1> DEFINE r == <<c>> \o q
<1>1. /\ r \in Seq(S) /\ Len(r) = 1 + Len(q) /\ r[1] = c
      /\ \A j \in 1..Len(q) : r[j + 1] = q[j]
  <2>1. <<c>> \in Seq(S) /\ Len(<<c>>) = 1 /\ <<c>>[1] = c
    OBVIOUS
  <2>2. /\ r \in Seq(S) /\ Len(r) = 1 + Len(q)
        /\ \A j \in 1..(1 + Len(q)) : r[j] = IF j <= 1 THEN <<c>>[j] ELSE q[j - 1]
    BY <2>1, ConcatProperties
  <2>3. Len(q) \in Nat
    BY LenProperties
  <2> HIDE DEF r
  <2>4. QED
    BY <2>1, <2>2, <2>3
<1>2. DOMAIN r = 1..Len(r) /\ DOMAIN q = 1..Len(q) /\ Len(q) \in Nat
  BY <1>1, LenProperties
<1> HIDE DEF r
<1>3. \A j \in 2..Len(r) : r[j] = q[j - 1] /\ j - 1 \in 1..Len(q)
  BY <1>1, <1>2
<1>4. \A j \in 1..Len(q) : q[j] # c
  BY DEF Contains
<1>5. IsInjective(r)
  <2>1. SUFFICES ASSUME NEW a \in 1..Len(r), NEW b \in 1..Len(r), r[a] = r[b]
                 PROVE  a = b
    BY <1>2 DEF IsInjective
  <2>2. a = 1 <=> b = 1
    BY <1>1, <1>2, <1>3, <1>4, <2>1
  <2>3. CASE a # 1
    <3>1. q[a - 1] = q[b - 1] /\ a - 1 \in DOMAIN q /\ b - 1 \in DOMAIN q
      BY <1>2, <1>3, <2>1, <2>2, <2>3
    <3>2. a - 1 = b - 1
      BY <3>1 DEF IsInjective
    <3>3. QED
      BY <3>2
  <2>4. QED
    BY <2>2, <2>3
<1>6. ASSUME NEW e PROVE Contains(r, e) <=> e = c \/ Contains(q, e)
  <2>1. ASSUME NEW j \in 1..Len(r), r[j] = e
        PROVE  e = c \/ Contains(q, e)
    <3>1. CASE j = 1
      BY <1>1, <2>1, <3>1
    <3>2. CASE j # 1
      <4>1. j - 1 \in 1..Len(q) /\ q[j - 1] = e
        BY <1>2, <1>3, <2>1, <3>2
      <4>2. QED
        BY <4>1 DEF Contains
    <3>3. QED
      BY <3>1, <3>2
  <2>2. 1 \in 1..Len(r)
    BY <1>1, <1>2
  <2>3. ASSUME NEW j \in 1..Len(q), q[j] = e
        PROVE  \E k \in 1..Len(r) : r[k] = e
    <3>1. j + 1 \in 1..Len(r) /\ r[j + 1] = e
      BY <1>1, <1>2, <2>3
    <3>2. QED
      BY <3>1
  <2>4. QED
    BY <1>1, <2>1, <2>2, <2>3 DEF Contains
<1>7. r # <<>> /\ Head(r) = c
  BY <1>1, <1>2
<1>8. QED
  BY <1>1, <1>5, <1>6, <1>7 DEF r

(* A connection that goes to the end of a queue changes nothing before it.  *)
LEMMA PutLast ==
  ASSUME NEW S, NEW q \in Seq(S), IsInjective(q), NEW c \in S, ~Contains(q, c),
         q # <<>>
  PROVE  /\ Append(q, c) \in Seq(S) /\ IsInjective(Append(q, c))
         /\ \A e : Contains(Append(q, c), e) <=> e = c \/ Contains(q, e)
         /\ Append(q, c) # <<>> /\ Head(Append(q, c)) = Head(q)
<1> DEFINE r == Append(q, c)
<1>1. /\ r \in Seq(S) /\ Len(r) = Len(q) + 1 /\ r[Len(q) + 1] = c /\ r # <<>>
      /\ \A j \in 1..Len(q) : r[j] = q[j]
  BY AppendProperties
<1>2. DOMAIN r = 1..Len(r) /\ DOMAIN q = 1..Len(q) /\ Len(q) \in Nat
  BY <1>1, LenProperties
<1>3. Head(r) = Head(q)
  BY HeadTailAppend
<1> HIDE DEF r
<1>4. \A j \in 1..Len(q) : q[j] # c
  BY DEF Contains
<1>5. \A j \in 1..Len(r) : j = Len(q) + 1 \/ j \in 1..Len(q)
  BY <1>1, <1>2
<1>6. IsInjective(r)
  BY <1>1, <1>2, <1>4, <1>5 DEF IsInjective
<1>7. ASSUME NEW e PROVE Contains(r, e) <=> e = c \/ Contains(q, e)
  <2>1. ASSUME NEW j \in 1..Len(r), r[j] = e
        PROVE  e = c \/ Contains(q, e)
    BY <1>1, <1>5, <2>1 DEF Contains
  <2>2. Len(q) + 1 \in 1..Len(r)
    BY <1>1, <1>2
  <2>3. ASSUME NEW j \in 1..Len(q), q[j] = e
        PROVE  j \in 1..Len(r) /\ r[j] = e
    BY <1>1, <1>2, <2>3
  <2>4. QED
    BY <1>1, <2>1, <2>2, <2>3 DEF Contains
<1>8. QED
  BY <1>1, <1>3, <1>6, <1>7 DEF r

----------------------------------------------------------------------------
(* The daemon.                                                             *)

(* An option is in force exactly when it was passed.                       *)
LEMMA FlagsKept ==
  ASSUME NEW o \in SUBSET Option
  PROVE  /\ Flags(o) \in 0..7
         /\ Has(Flags(o), ALLOW_REPLACEMENT) <=> "allow_replacement" \in o
         /\ Has(Flags(o), REPLACE_EXISTING) <=> "replace_existing" \in o
<1>1. CASE "allow_replacement" \in o /\ "replace_existing" \in o
  BY <1>1 DEF Flags, Has, ALLOW_REPLACEMENT, REPLACE_EXISTING, DO_NOT_QUEUE
<1>2. CASE "allow_replacement" \in o /\ "replace_existing" \notin o
  BY <1>2 DEF Flags, Has, ALLOW_REPLACEMENT, REPLACE_EXISTING, DO_NOT_QUEUE
<1>3. CASE "allow_replacement" \notin o /\ "replace_existing" \in o
  BY <1>3 DEF Flags, Has, ALLOW_REPLACEMENT, REPLACE_EXISTING, DO_NOT_QUEUE
<1>4. CASE "allow_replacement" \notin o /\ "replace_existing" \notin o
  BY <1>4 DEF Flags, Has, ALLOW_REPLACEMENT, REPLACE_EXISTING, DO_NOT_QUEUE
<1>5. QED
  BY <1>1, <1>2, <1>3, <1>4

(* Who asks for a name owns it exactly when the result says so, and the    *)
(* owner is replaced only when both sides passed the option for it.        *)
LEMMA Acquired ==
  ASSUME NEW S, NEW q \in Seq(S), IsInjective(q), NEW c \in S, NEW f, NEW g,
         NEW new, new = Acquire(q, c, f, g)
  PROVE  /\ new.queue \in Seq(S) /\ IsInjective(new.queue) /\ new.queue # <<>>
         /\ \A e : Contains(new.queue, e) => e = c \/ Contains(q, e)
         /\ \/ new.code \in {1, 4} /\ Head(new.queue) = c
            \/ new.code \in {2, 3} /\ Head(new.queue) # c
         /\ q # <<>> /\ Head(new.queue) # Head(q) =>
              /\ Head(new.queue) = c
              /\ Has(f, REPLACE_EXISTING) /\ Has(g, ALLOW_REPLACEMENT)
<1> DEFINE others == RemoveFirst(Tail(q), c)
           h == Head(q)
<1>0. /\ \A p, r : [queue |-> p, code |-> r].queue = p
      /\ \A p, r : [queue |-> p, code |-> r].code = r
  OBVIOUS
<1>1. CASE q = <<>>
  <2>1. new = [queue |-> <<c>>, code |-> 1]
    BY <1>1 DEF Acquire
  <2>2. <<c>> \in Seq(S) /\ IsInjective(<<c>>) /\ <<c>> # <<>> /\ Head(<<c>>) = c
    BY DEF IsInjective
  <2>3. \A e : Contains(<<c>>, e) => e = c
    BY DEF Contains
  <2>4. new.queue = <<c>> /\ new.code = 1
    BY <1>0, <2>1
  <2>5. QED
    BY <1>1, <2>2, <2>3, <2>4
<1>2. CASE q # <<>> /\ h = c
  <2>1. new = [queue |-> q, code |-> 4]
    BY <1>2 DEF Acquire
  <2>2. new.queue = q /\ new.code = 4
    BY <1>0, <2>1
  <2>3. QED
    BY <1>2, <2>2
<1>3. CASE q # <<>> /\ h # c
  <2>1. /\ Tail(q) \in Seq(S) /\ IsInjective(Tail(q)) /\ h \in S
        /\ \A e : Contains(Tail(q), e) <=> Contains(q, e) /\ e # h
    BY <1>3, TailOfQueue, HeadTailProperties
  <2>2. /\ others \in Seq(S) /\ IsInjective(others)
        /\ \A e : Contains(others, e) <=> Contains(Tail(q), e) /\ e # c
    BY <2>1, Leaves
  <2>3. Contains(q, h)
    BY <1>3, <2>1, EmptySeq, HeadTailProperties DEF Contains
  <2> HIDE DEF others, h
  <2>4. ~Contains(others, c) /\ ~Contains(others, h)
    BY <2>1, <2>2
  <2>5. \A e : Contains(others, e) => Contains(q, e)
    BY <2>1, <2>2
  <2>6. \A x, y : <<x, y>> \o others = <<x>> \o (<<y>> \o others)
    <3>1. SUFFICES ASSUME NEW x, NEW y
                   PROVE  <<x, y>> \o others = <<x>> \o (<<y>> \o others)
      OBVIOUS
    <3> DEFINE U == S \cup {x, y}
    <3>2. <<x>> \in Seq(U) /\ <<y>> \in Seq(U) /\ others \in Seq(U)
      BY <2>2, SeqMonotonic
    <3>3. <<x>> \o <<y>> = <<x, y>>
      <4> DEFINE s == <<x>> \o <<y>>
                 t == <<x, y>>
      <4>1. /\ s \in Seq(U) /\ Len(s) = 2
            /\ \A i \in 1..2 : s[i] = IF i <= 1 THEN <<x>>[i] ELSE <<y>>[i - 1]
        <5>1. Len(<<x>>) = 1 /\ Len(<<y>>) = 1
          OBVIOUS
        <5>2. QED
          BY <3>2, <5>1, ConcatProperties
      <4>2. s[1] = x /\ s[2] = y
        BY <4>1
      <4>3. t \in Seq(U) /\ Len(t) = 2 /\ t[1] = x /\ t[2] = y
        OBVIOUS
      <4> HIDE DEF s, t
      <4>4. \A i \in 1..Len(s) : s[i] = t[i]
        BY <4>1, <4>2, <4>3
      <4>5. s = t
        BY <4>1, <4>3, <4>4, SeqEqual
      <4>6. QED
        BY <4>5 DEF s, t
    <3>4. (<<x>> \o <<y>>) \o others = <<x>> \o (<<y>> \o others)
      BY <3>2, ConcatAssociative
    <3>5. QED
      BY <3>3, <3>4
  <2>7. CASE Has(f, REPLACE_EXISTING) /\ Has(g, ALLOW_REPLACEMENT)
    <3>1. new = [queue |-> IF Has(g, DO_NOT_QUEUE) THEN <<c>> \o others
                           ELSE <<c, h>> \o others, code |-> 1]
      BY <1>3, <2>7 DEF Acquire, others, h
    <3>2. CASE Has(g, DO_NOT_QUEUE)
      <4>1. new.queue = <<c>> \o others /\ new.code = 1
        BY <1>0, <3>1, <3>2
      <4>2. QED
        BY <1>3, <2>2, <2>4, <2>5, <2>7, <4>1, PutFirst
    <3>3. CASE ~Has(g, DO_NOT_QUEUE)
      <4> DEFINE t == <<h>> \o others
      <4>1. new.queue = <<c>> \o t /\ new.code = 1
        BY <1>0, <2>6, <3>1, <3>3
      <4>2. /\ t \in Seq(S) /\ IsInjective(t)
            /\ \A e : Contains(t, e) <=> e = h \/ Contains(others, e)
        BY <2>1, <2>2, <2>4, PutFirst
      <4>3. ~Contains(t, c)
        BY <1>3, <2>4, <4>2
      <4> HIDE DEF t
      <4>4. /\ new.queue \in Seq(S) /\ IsInjective(new.queue)
            /\ \A e : Contains(new.queue, e) <=> e = c \/ Contains(t, e)
            /\ new.queue # <<>> /\ Head(new.queue) = c
        BY <4>1, <4>2, <4>3, PutFirst
      <4>5. \A e : Contains(new.queue, e) => e = c \/ Contains(q, e)
        BY <2>3, <2>5, <4>2, <4>4
      <4>6. QED
        BY <2>7, <4>1, <4>4, <4>5
    <3>4. QED
      BY <3>2, <3>3
  <2>8. CASE ~(Has(f, REPLACE_EXISTING) /\ Has(g, ALLOW_REPLACEMENT))
    <3>1. SUFFICES /\ new.queue \in Seq(S) /\ IsInjective(new.queue)
                   /\ new.queue # <<>> /\ Head(new.queue) = h /\ new.code \in {2, 3}
                   /\ \A e : Contains(new.queue, e) => e = c \/ Contains(q, e)
      BY <1>3 DEF h
    <3>2. CASE Has(f, DO_NOT_QUEUE)
      <4>1. new = [queue |-> <<h>> \o others, code |-> 3]
        BY <1>3, <2>8, <3>2 DEF Acquire, others, h
      <4>2. new.queue = <<h>> \o others /\ new.code = 3
        BY <1>0, <4>1
      <4>3. QED
        BY <2>1, <2>2, <2>3, <2>4, <2>5, <4>2, PutFirst
    <3>3. CASE ~Has(f, DO_NOT_QUEUE) /\ Has(f, REPLACE_EXISTING)
      <4>1. new = [queue |-> <<h, c>> \o others, code |-> 2]
        BY <1>3, <2>8, <3>3 DEF Acquire, others, h
      <4> DEFINE t == <<c>> \o others
      <4>2. new.queue = <<h>> \o t /\ new.code = 2
        BY <1>0, <2>6, <4>1
      <4>3. /\ t \in Seq(S) /\ IsInjective(t)
            /\ \A e : Contains(t, e) <=> e = c \/ Contains(others, e)
        BY <2>2, <2>4, PutFirst
      <4>4. ~Contains(t, h)
        BY <1>3, <2>4, <4>3
      <4> HIDE DEF t
      <4>5. /\ new.queue \in Seq(S) /\ IsInjective(new.queue)
            /\ \A e : Contains(new.queue, e) <=> e = h \/ Contains(t, e)
            /\ new.queue # <<>> /\ Head(new.queue) = h
        BY <2>1, <4>2, <4>3, <4>4, PutFirst
      <4>6. \A e : Contains(new.queue, e) => e = c \/ Contains(q, e)
        BY <2>3, <2>5, <4>3, <4>5
      <4>7. QED
        BY <4>2, <4>5, <4>6
    <3>4. CASE ~Has(f, DO_NOT_QUEUE) /\ ~Has(f, REPLACE_EXISTING)
      <4>1. new = [queue |-> IF Contains(q, c) THEN q ELSE Append(q, c), code |-> 2]
        BY <1>3, <2>8, <3>4 DEF Acquire, others, h
      <4>2. new.queue = (IF Contains(q, c) THEN q ELSE Append(q, c)) /\ new.code = 2
        BY <1>0, <4>1
      <4>3. CASE Contains(q, c)
        BY <1>3, <4>2, <4>3 DEF h
      <4>4. CASE ~Contains(q, c)
        BY <1>3, <4>2, <4>4, PutLast DEF h
      <4>5. QED
        BY <4>3, <4>4
    <3>5. QED
      BY <3>2, <3>3, <3>4
  <2>9. QED
    BY <2>7, <2>8
<1>4. QED
  BY <1>1, <1>2, <1>3 DEF h

(* What the daemon makes of a queue that c leaves.                         *)
LEMMA Released ==
  ASSUME NEW S, NEW q \in Seq(S), IsInjective(q), NEW c,
         NEW new, new = Release(q, c)
  PROVE  /\ new.queue \in Seq(S) /\ IsInjective(new.queue) /\ new.code \in 1..3
         /\ \A e : Contains(new.queue, e) <=> Contains(q, e) /\ e # c
         /\ q # <<>> /\ Head(q) # c =>
              new.queue # <<>> /\ Head(new.queue) = Head(q)
<1>1. new.queue = RemoveFirst(q, c) /\ new.code \in 1..3
  BY DEF Release
<1>2. QED
  BY <1>1, Leaves

(* The owner of a name is in its queue.                                    *)
LEMMA OwnerQueues ==
  ASSUME NEW S, NEW q \in Seq(S), NULL \notin S
  PROVE  /\ q = <<>> <=> OwnerIn(q) = NULL
         /\ q # <<>> => OwnerIn(q) \in S /\ Contains(q, OwnerIn(q))
                          /\ OwnerIn(q) = Head(q)
<1>1. CASE q = <<>>
  BY <1>1 DEF OwnerIn
<1>2. CASE q # <<>>
  <2>1. OwnerIn(q) = Head(q) /\ Head(q) \in S /\ Len(q) \in Nat \ {0}
    BY <1>2, EmptySeq, HeadTailProperties DEF OwnerIn
  <2>2. Head(q) = q[1] /\ 1 \in 1..Len(q)
    BY <1>2, <2>1
  <2>3. QED
    BY <1>2, <2>1, <2>2 DEF Contains
<1>3. QED
  BY <1>1, <1>2

(* Only members of S are in a sequence of members of S.                    *)
LEMMA InQueue ==
  ASSUME NEW S, NEW q \in Seq(S), NEW e, Contains(q, e)
  PROVE  e \in S
BY ElementOfSeq DEF Contains

(* A signal tells whether c owns the name.                                 *)
LEMMA SignalTrue ==
  ASSUME NEW q, NEW c, NEW x \in Signals(q, c)
  PROVE  /\ x \in [name : Name, owner : BOOLEAN]
         /\ x.owner <=> OwnerIn(q[x.name]) = c
<1>1. PICK n \in Name : x = [name |-> n, owner |-> OwnerIn(q[n]) = c]
  BY Zenon DEF Signals
<1>2. \A b : [name |-> n, owner |-> b].owner = b /\ [name |-> n, owner |-> b].name = n
  OBVIOUS
<1>3. x.name = n /\ x.owner = (OwnerIn(q[n]) = c)
  BY <1>1, <1>2, Zenon
<1>4. (OwnerIn(q[n]) = c) \in BOOLEAN
  BY Zenon
<1>5. x \in [name : Name, owner : BOOLEAN]
  BY <1>1, <1>4, Zenon
<1>6. QED
  BY <1>3, <1>5, Zenon

(* Every signal to a connection is sent.                                   *)
LEMMA AllTold ==
  ASSUME NEW q, NEW c, NEW s \in SetToSeqs(Signals(q, c))
  PROVE  /\ s \in Seq(Signals(q, c))
         /\ \A x \in Signals(q, c) : \E i \in 1..Len(s) : s[i] = x
<1> DEFINE T == Signals(q, c)
           changed == {m \in Name : /\ OwnerIn(queue[m]) # OwnerIn(q[m])
                                    /\ c \in {OwnerIn(queue[m]), OwnerIn(q[m])}}
           F == [n \in changed |-> [name |-> n, owner |-> OwnerIn(q[n]) = c]]
<1>1. IsFiniteSet(T)
  <2>1. IsFiniteSet(changed)
    BY NameAssumption, FS_Subset
  <2>2. T = {F[n] : n \in changed}
    BY DEF Signals
  <2>3. F \in Surjection(changed, T)
    BY <2>2 DEF Surjection
  <2>4. QED
    BY <2>1, <2>3, FS_Surjection
<1> HIDE DEF T
<1>2. Cardinality(T) \in Nat
  BY <1>1, FS_CardinalityType
<1> DEFINE D == 1..Cardinality(T)
<1>3. s \in [D -> T] /\ \A i, j \in D : i # j => s[i] # s[j]
  BY DEF SetToSeqs, T
<1>4. s \in Injection(D, T)
  BY <1>3 DEF Injection, IsInjective
<1>5. IsFiniteSet(D) /\ Cardinality(D) = Cardinality(T)
  BY <1>2, FS_Interval
<1>6. s \in Surjection(D, T)
  BY <1>1, <1>4, <1>5, FS_Injection
<1>7. s \in Seq(T) /\ Len(s) = Cardinality(T)
  BY <1>2, <1>3
<1>8. \A x \in T : \E i \in 1..Len(s) : s[i] = x
  BY <1>6, <1>7 DEF Surjection
<1>9. QED
  BY <1>7, <1>8 DEF T

(* What a change of the queues leaves of types, flags and news.            *)
LEMMA QueuesSet ==
  ASSUME BusTypeOK, NEW q \in [Name -> Seq(registered')],
         \A n \in Name : IsInjective(q[n]),
         NEW f \in [Conn -> [Name -> 0..7]],
         NEW a \in [Conn -> [Name -> SUBSET Option]],
         \A c \in Conn, n \in Name : f[c][n] = Flags(a[c][n]),
         SetQueues(q, f, a), registered' \subseteq connected',
         believes' \in [Conn -> SUBSET Name],
         \A c \in Conn : refs'[c] = 0 => believes'[c] = {}
  PROVE  BusTypeOK' /\ FlagsExact' /\ NoneLeft'
<1>1. /\ queue' = q
      /\ flags' = [c \in Conn |-> [n \in Name |->
                     IF Contains(q[n], c) THEN f[c][n] ELSE 0]]
      /\ asked' = [c \in Conn |-> [n \in Name |->
                     IF Contains(q[n], c) THEN a[c][n] ELSE {}]]
  BY DEF SetQueues
<1>2. PICK told : /\ \A c \in Conn : told[c] \in SetToSeqs(Signals(q, c))
                  /\ inbox' = [c \in Conn |->
                       IF refs'[c] = 0 THEN <<>>
                       ELSE IF c \notin connected' THEN inbox[c]
                       ELSE inbox[c] \o told[c]]
  BY DEF SetQueues
<1> DEFINE News == [name : Name, owner : BOOLEAN]
<1>3. ASSUME NEW c \in Conn PROVE inbox'[c] \in Seq(News)
  <2>1. inbox[c] \in Seq(News)
    BY DEF BusTypeOK
  <2>2. told[c] \in Seq(News)
    <3>1. told[c] \in Seq(Signals(q, c))
      BY <1>2, AllTold
    <3>2. Signals(q, c) \subseteq News
      BY SignalTrue, Zenon
    <3> HIDE DEF News
    <3>3. QED
      BY <3>1, <3>2, SeqMonotonic
  <2> HIDE DEF News
  <2>3. inbox[c] \o told[c] \in Seq(News) /\ <<>> \in Seq(News)
    BY <2>1, <2>2, ConcatProperties, EmptySeq
  <2>4. QED
    BY <1>2, <2>1, <2>3
<1>4. inbox' \in [Conn -> Seq(News)]
  BY <1>2, <1>3
<1>5. flags' \in [Conn -> [Name -> 0..7]] /\ asked' \in [Conn -> [Name -> SUBSET Option]]
  BY <1>1
<1>6. BusTypeOK'
  BY <1>1, <1>4, <1>5 DEF BusTypeOK
<1>7. FlagsExact'
  <2>1. Flags({}) = 0
    BY DEF Flags
  <2>2. QED
    BY <1>1, <2>1 DEF FlagsExact
<1>8. NoneLeft'
  BY <1>2 DEF NoneLeft
<1>9. QED
  BY <1>6, <1>7, <1>8

(* The last signal stays true: whoever gains or loses a name gets one.     *)
LEMMA KeepsInformed ==
  ASSUME BusTypeOK, NEW q, NEW f, NEW a, SetQueues(q, f, a),
         NEW c \in Conn, NEW n \in Name, c \in connected', refs'[c] # 0,
         Informed(c, n),
         Silent(c, n) /\ (OwnerIn(queue[n]) = c <=> OwnerIn(q[n]) = c) =>
           (n \in believes'[c] <=> OwnerIn(q[n]) = c)
  PROVE  Informed(c, n)'
<1>1. queue' = q
  BY DEF SetQueues
<1>2. PICK s : s \in SetToSeqs(Signals(q, c)) /\ inbox'[c] = inbox[c] \o s
  BY DEF SetQueues
<1> DEFINE News == [name : Name, owner : BOOLEAN]
           r == inbox[c]
<1>3. /\ s \in Seq(Signals(q, c))
      /\ \A x \in Signals(q, c) : \E i \in 1..Len(s) : s[i] = x
  BY <1>2, AllTold
<1>4. Signals(q, c) \subseteq News
  BY SignalTrue, Zenon
<1>5. r \in Seq(News) /\ s \in Seq(News)
  BY <1>3, <1>4, SeqMonotonic DEF BusTypeOK
<1>6. \A i \in 1..Len(s) : s[i] \in Signals(q, c)
  BY <1>3, ElementOfSeq
<1> HIDE DEF News
<1>7. /\ DOMAIN r = 1..Len(r) /\ DOMAIN s = 1..Len(s)
      /\ Len(r) \in Nat /\ Len(s) \in Nat
      /\ DOMAIN (r \o s) = 1..(Len(r) + Len(s))
      /\ \A i \in 1..(Len(r) + Len(s)) :
           (r \o s)[i] = IF i <= Len(r) THEN r[i] ELSE s[i - Len(r)]
  BY <1>5, ConcatProperties, LenProperties
<1> DEFINE t == r \o s
<1>8. inbox'[c] = t
  BY <1>2
<1> HIDE DEF t, r
<1>9. /\ \A i \in 1..Len(r) : i \in DOMAIN t /\ t[i] = r[i]
      /\ \A i \in 1..Len(s) : Len(r) + i \in DOMAIN t /\ t[Len(r) + i] = s[i]
      /\ \A i \in DOMAIN t : i \in Nat
      /\ \A i \in DOMAIN t : i \in 1..Len(r) \/ i - Len(r) \in 1..Len(s)
  BY <1>7 DEF t
<1>10. CASE OwnerIn(queue[n]) = c <=> OwnerIn(q[n]) = c
  <2>1. \A i \in 1..Len(s) : s[i].name # n
    BY <1>6, <1>10 DEF Signals
  <2>2. ASSUME NEW i \in DOMAIN t, t[i].name = n
        PROVE  i \in 1..Len(r)
    <3>1. ASSUME i - Len(r) \in 1..Len(s) PROVE FALSE
      <4>1. t[i] = s[i - Len(r)]
        <5>1. Len(r) + (i - Len(r)) = i
          BY <1>7, <1>9
        <5>2. QED
          BY <1>9, <3>1, <5>1
      <4>2. QED
        BY <2>1, <2>2, <3>1, <4>1
    <3>2. QED
      BY <1>9, <2>2, <3>1
  <2>3. ASSUME NEW i \in DOMAIN t, Latest(c, n, i)'
        PROVE  t[i].owner <=> OwnerIn(q[n]) = c
    <3>1. t[i].name = n /\ \A j \in DOMAIN t : j > i => t[j].name # n
      BY <1>8, <2>3 DEF Latest
    <3>2. i \in 1..Len(r) /\ r[i] = t[i]
      BY <1>9, <2>2, <3>1
    <3>3. Latest(c, n, i)
      BY <1>7, <1>9, <3>1, <3>2 DEF Latest, r
    <3>4. r[i].owner <=> OwnerIn(queue[n]) = c
      BY <1>7, <3>2, <3>3 DEF Informed, r
    <3>5. QED
      BY <1>10, <3>2, <3>4
  <2>4. ASSUME Silent(c, n)' PROVE n \in believes'[c] <=> OwnerIn(q[n]) = c
    <3>1. \A i \in DOMAIN t : t[i].name # n
      BY <1>8, <2>4 DEF Silent
    <3>2. Silent(c, n)
      BY <1>7, <1>9, <3>1 DEF Silent, r
    <3>3. QED
      BY <1>10, <3>2
  <2>5. QED
    BY <1>1, <1>8, <2>3, <2>4 DEF Informed
<1>11. CASE ~(OwnerIn(queue[n]) = c <=> OwnerIn(q[n]) = c)
  <2> DEFINE x == [name |-> n, owner |-> OwnerIn(q[n]) = c]
  <2>1. x \in Signals(q, c)
    BY <1>11 DEF Signals
  <2>2. \A y \in Signals(q, c) : y.name = n => (y.owner <=> OwnerIn(q[n]) = c)
    <3>1. SUFFICES ASSUME NEW y \in Signals(q, c), y.name = n
                   PROVE  y.owner <=> OwnerIn(q[n]) = c
      OBVIOUS
    <3>2. y.owner <=> OwnerIn(q[y.name]) = c
      BY SignalTrue, Zenon
    <3>3. QED
      BY <3>1, <3>2, Zenon
  <2>3. PICK k \in 1..Len(s) : s[k].name = n
    BY <1>3, <2>1
  <2>4. Len(r) + k \in DOMAIN t /\ t[Len(r) + k].name = n
    BY <1>9, <2>3
  <2>5. ~Silent(c, n)'
    BY <1>8, <2>4 DEF Silent
  <2>6. ASSUME NEW i \in DOMAIN t, Latest(c, n, i)'
        PROVE  t[i].owner <=> OwnerIn(q[n]) = c
    <3>1. t[i].name = n /\ \A j \in DOMAIN t : j > i => t[j].name # n
      BY <1>8, <2>6 DEF Latest
    <3>2. i - Len(r) \in 1..Len(s)
      <4>1. ~(Len(r) + k > i)
        BY <2>4, <3>1
      <4>2. QED
        BY <1>7, <1>9, <2>3, <4>1
    <3>3. t[i] = s[i - Len(r)]
      <4>1. Len(r) + (i - Len(r)) = i
        BY <1>7, <1>9
      <4>2. QED
        BY <1>9, <3>2, <4>1
    <3>4. QED
      BY <1>6, <2>2, <3>1, <3>2, <3>3
  <2>7. QED
    BY <1>1, <1>8, <2>5, <2>6 DEF Informed
<1>12. QED
  BY <1>10, <1>11
----------------------------------------------------------------------------
(* The invariant.                                                          *)

(* Every step is one of module Connections, or none.                       *)
LEMMA IsStepOfConnections == [BusNext]_busVars => [Next]_vars
<1> SUFFICES ASSUME [BusNext]_busVars PROVE [Next]_vars
  OBVIOUS
<1>1. ASSUME NEW w \in Wrapper, NEW n \in Name,
             \/ \E o \in SUBSET Option : RequestName(w, n, o)
             \/ ReleaseName(w, n)
      PROVE  UNCHANGED vars
  BY <1>1 DEF RequestName, ReleaseName
<1>2. ASSUME NEW w \in Wrapper, Register(w) \/ DispatchNews(w)
      PROVE  UNCHANGED vars
  BY <1>2 DEF Register, DispatchNews
<1>3. ASSUME NEW w \in Wrapper, NEW c \in Conn, Get(w, c) \/ BusGetPrivate(w, c)
      PROVE  Next
  BY <1>3 DEF Get, BusGetPrivate, Next
<1>4. Unregistered => Next
  BY DEF Unregistered, Next
<1>5. UNCHANGED busVars => UNCHANGED vars
  BY DEF busVars
<1>6. QED
  BY <1>1, <1>2, <1>3, <1>4, <1>5 DEF BusNext

(* One connection at most goes down in a step, and only a new one comes up.*)
LEMMA UpAndDown ==
  ASSUME IInv, [Next]_vars
  PROVE  /\ connected' \subseteq connected \cup {c \in Conn : refs[c] = 0}
         /\ \E d : connected \ connected' \subseteq {d}
<1>1. ASSUME NEW w \in Wrapper, NEW c \in Conn,
             OpenShared(w, c) \/ GetPrivate(w, c)
      PROVE  /\ connected' \subseteq connected \cup {b \in Conn : refs[b] = 0}
             /\ connected \ connected' \subseteq {c}
  BY <1>1 DEF OpenShared, GetPrivate, GetShared, Connect
<1>2. ASSUME NEW w \in Wrapper, ConnectionGC(w)
      PROVE  /\ connected' \subseteq connected
             /\ connected \ connected' \subseteq {connection[w]}
  BY <1>2 DEF ConnectionGC
<1>3. ASSUME NEW w \in Wrapper, SendWithReply(w) \/ DispatchDisconnected(w)
      PROVE  connected' = connected
  BY <1>3 DEF SendWithReply, DispatchDisconnected
<1>4. ASSUME NEW c \in Conn, PendingCallFreed(c) \/ PeerCloses(c)
      PROVE  connected' \subseteq connected /\ connected \ connected' \subseteq {c}
  BY <1>4 DEF PendingCallFreed, PeerCloses
<1>5. CASE UNCHANGED vars
  BY <1>5 DEF vars
<1>6. CASE Next
  <2>1. ASSUME NEW d, /\ connected' \subseteq connected \cup {b \in Conn : refs[b] = 0}
                      /\ connected \ connected' \subseteq {d}
        PROVE  /\ connected' \subseteq connected \cup {c \in Conn : refs[c] = 0}
               /\ \E e : connected \ connected' \subseteq {e}
    BY <2>1
  <2>2. QED
    BY <1>1, <1>2, <1>3, <1>4, <1>6, <2>1 DEF Next
<1>7. QED
  BY <1>5, <1>6

(* What is up after a step was up and informed before it, or is new.       *)
LEMMA InformedBefore ==
  ASSUME BusInv, IInv', [Next]_vars, NEW c \in connected', NEW n \in Name
  PROVE  c \in Conn /\ refs'[c] # 0 /\ Informed(c, n)
<1>1. c \in Conn
  BY DEF IInv, TypeOK
<1>2. refs'[c] # 0
  <2>1. (IInv => ClosedBeforeFreed)'
    BY CloserCloses, PTL
  <2>2. QED
    BY <1>1, <2>1 DEF ClosedBeforeFreed
<1>3. CASE c \in connected
  BY <1>1, <1>2, <1>3 DEF BusInv
<1>4. CASE c \notin connected
  <2>1. refs[c] = 0
    BY <1>4, UpAndDown DEF BusInv
  <2>2. inbox[c] = <<>> /\ believes[c] = {}
    BY <1>1, <2>1 DEF BusInv, NoneLeft
  <2>3. OwnerIn(queue[n]) # c
    <3>1. queue[n] \in Seq(registered) /\ registered \subseteq connected
      BY DEF BusInv, BusTypeOK
    <3>2. NULL \notin registered /\ c \notin registered /\ c # NULL
      BY <1>1, <1>4, <3>1, NullAssumption DEF BusInv, IInv, TypeOK
    <3>3. QED
      BY <3>1, <3>2, OwnerQueues
  <2>4. DOMAIN inbox[c] = {}
    BY <2>2
  <2>5. QED
    BY <1>1, <1>2, <2>2, <2>3, <2>4 DEF Informed
<1>5. QED
  BY <1>3, <1>4

(* A queue is one of connections that are in it.                           *)
LEMMA QueueOf ==
  ASSUME NEW S, NEW q \in Seq(S), NEW T, \A e : Contains(q, e) => e \in T
  PROVE  q \in Seq(T)
<1>1. Len(q) \in Nat /\ q \in [1..Len(q) -> S] /\ \A i \in 1..Len(q) : q[i] \in T
  BY LenProperties DEF Contains
<1>2. q \in [1..Len(q) -> T]
  BY <1>1
<1>3. QED
  BY <1>1, <1>2, SeqDef

(* What the daemon does about connections that come and go.                *)
LEMMA FollowingInv ==
  ASSUME BusInv, IInv', [Next]_vars, NEW r, registered \subseteq r, Following(r)
  PROVE  BusInv'
<1> DEFINE q == [n \in Name |->
                   RemoveFirstMatch(queue[n], LAMBDA c : c \notin connected')]
<1>1. /\ registered' = r \cap connected' /\ SetQueues(q, flags, asked)
      /\ believes' = [c \in Conn |-> IF refs'[c] = 0 THEN {} ELSE believes[c]]
  BY DEF Following
<1>2. ASSUME NEW n \in Name
      PROVE  q[n] \in Seq(registered') /\ IsInjective(q[n])
  <2>1. PICK d : connected \ connected' \subseteq {d}
    BY UpAndDown DEF BusInv
  <2>2. /\ queue[n] \in Seq(registered) /\ IsInjective(queue[n])
        /\ registered \subseteq connected
    BY DEF BusInv, BusTypeOK
  <2>3. \A e : Contains(queue[n], e) => e \in registered
    BY <2>2, InQueue
  <2>4. \A e : Contains(queue[n], e) => e \in connected' \/ e = d
    BY <2>1, <2>2, <2>3
  <2>5. q[n] = RemoveFirstMatch(queue[n], LAMBDA c : c \notin connected')
    OBVIOUS
  <2> HIDE DEF q
  <2>6. /\ q[n] \in Seq(registered) /\ IsInjective(q[n])
        /\ \A e : Contains(q[n], e) <=> Contains(queue[n], e) /\ e \in connected'
    BY <2>2, <2>4, <2>5, DownLeaves
  <2>7. \A e : Contains(q[n], e) => e \in registered'
    BY <1>1, <2>3, <2>6
  <2>8. QED
    BY <2>6, <2>7, QueueOf
<1>3. q \in [Name -> Seq(registered')]
  BY <1>2
<1> HIDE DEF q
<1>4. BusTypeOK' /\ FlagsExact' /\ NoneLeft'
  <2>1. /\ BusTypeOK /\ registered' \subseteq connected'
        /\ \A c \in Conn, n \in Name : flags[c][n] = Flags(asked[c][n])
        /\ flags \in [Conn -> [Name -> 0..7]]
        /\ asked \in [Conn -> [Name -> SUBSET Option]]
    BY <1>1 DEF BusInv, BusTypeOK, FlagsExact
  <2>2. /\ believes' \in [Conn -> SUBSET Name]
        /\ \A c \in Conn : refs'[c] = 0 => believes'[c] = {}
    BY <1>1 DEF BusInv, BusTypeOK
  <2>3. QED
    BY <1>1, <1>2, <1>3, <2>1, <2>2, QueuesSet
<1>5. ASSUME NEW c \in connected', NEW n \in Name PROVE Informed(c, n)'
  <2>1. c \in Conn /\ refs'[c] # 0 /\ Informed(c, n)
    BY InformedBefore
  <2>2. believes'[c] = believes[c]
    BY <1>1, <2>1
  <2>3. Silent(c, n) /\ (OwnerIn(queue[n]) = c <=> OwnerIn(q[n]) = c) =>
          (n \in believes'[c] <=> OwnerIn(q[n]) = c)
    BY <2>1, <2>2 DEF Informed
  <2>4. QED
    BY <1>1, <2>1, <2>3, KeepsInformed DEF BusInv
<1>6. QED
  BY <1>4, <1>5 DEF BusInv

(* What the program makes of a result for n is true of the queue p.        *)
ToldTruly(c, n, p) ==
  \/ believes' = believes
  \/ OwnerIn(p) = c /\ believes' = [believes EXCEPT ![c] = @ \cup {n}]
  \/ OwnerIn(p) # c /\ believes' = [believes EXCEPT ![c] = @ \ {n}]

(* A name gets a new queue, and the program a result that is true of it.   *)
LEMMA ResultInv ==
  ASSUME BusInv, IInv', vars' = vars, registered' = registered,
         NEW c \in Conn, NEW n \in Name,
         NEW q \in [Name -> Seq(registered)],
         \A m \in Name : IsInjective(q[m]),
         \A m \in Name \ {n} : q[m] = queue[m],
         NEW f \in [Conn -> [Name -> 0..7]],
         NEW a \in [Conn -> [Name -> SUBSET Option]],
         \A b \in Conn, m \in Name : f[b][m] = Flags(a[b][m]),
         SetQueues(q, f, a), c \in connected, ToldTruly(c, n, q[n])
  PROVE  BusInv'
<1>1. /\ registered' = registered /\ connected' = connected /\ refs' = refs
      /\ registered \subseteq connected /\ connected \subseteq Conn
  BY DEF vars, BusInv, BusTypeOK, IInv, TypeOK
<1>2. q \in [Name -> Seq(registered')]
  BY <1>1
<1>4. /\ believes' \in [Conn -> SUBSET Name]
      /\ \A b \in Conn : refs'[b] = 0 => believes'[b] = {}
  <2>1. refs[c] # 0
    BY CloserCloses DEF BusInv, ClosedBeforeFreed
  <2>2. /\ believes \in [Conn -> SUBSET Name]
        /\ \A b \in Conn : refs[b] = 0 => believes[b] = {}
    BY DEF BusInv, BusTypeOK, NoneLeft
  <2>3. CASE believes' = believes
    BY <1>1, <2>2, <2>3
  <2>4. CASE believes' = [believes EXCEPT ![c] = @ \cup {n}]
    BY <1>1, <2>1, <2>2, <2>4
  <2>5. CASE believes' = [believes EXCEPT ![c] = @ \ {n}]
    BY <1>1, <2>1, <2>2, <2>5
  <2>6. QED
    BY <2>3, <2>4, <2>5 DEF ToldTruly
<1>5. BusTypeOK' /\ FlagsExact' /\ NoneLeft'
  <2>1. BusTypeOK /\ registered' \subseteq connected'
    BY <1>1 DEF BusInv
  <2>2. \A b \in Conn, m \in Name : f[b][m] = Flags(a[b][m])
    OBVIOUS
  <2>3. QED
    BY <1>2, <1>4, <2>1, <2>2, QueuesSet
<1>6. ASSUME NEW b \in connected', NEW m \in Name PROVE Informed(b, m)'
  <2>1. b \in Conn /\ refs'[b] # 0 /\ Informed(b, m)
    BY InformedBefore
  <2>2. CASE b = c /\ m = n /\ believes' # believes
    <3>1. n \in believes'[c] <=> OwnerIn(q[n]) = c
      BY <2>2 DEF BusInv, BusTypeOK, ToldTruly
    <3>2. m \in believes'[b] <=> OwnerIn(q[m]) = b
      BY <1>2, <2>2, <3>1
    <3>3. QED
      BY <2>1, <3>2, KeepsInformed DEF BusInv
  <2>3. CASE ~(b = c /\ m = n /\ believes' # believes)
    <3>1. m \in believes'[b] <=> m \in believes[b]
      BY <2>1, <2>3 DEF BusInv, BusTypeOK, ToldTruly
    <3>2. Silent(b, m) /\ (OwnerIn(queue[m]) = b <=> OwnerIn(q[m]) = b) =>
            (m \in believes'[b] <=> OwnerIn(q[m]) = b)
      BY <2>1, <3>1 DEF Informed
    <3>3. QED
      BY <2>1, <3>2, KeepsInformed DEF BusInv
  <2>4. QED
    BY <2>2, <2>3
<1>7. QED
  BY <1>5, <1>6 DEF BusInv

(* The code of a result of request_name says whether the caller is the     *)
(* owner, and the string that it is turned into says so too.               *)
LEMMA RequestNameInv ==
  ASSUME BusInv, IInv', NEW w \in Wrapper, NEW n \in Name,
         NEW options \in SUBSET Option,
         RequestName(w, n, options)
  PROVE  BusInv'
<1> DEFINE c == connection[w]
           new == Acquire(queue[n], c, Flags(options), flags[OwnerIn(queue[n])][n])
           q == [queue EXCEPT ![n] = new.queue]
           f == [flags EXCEPT ![c][n] = Flags(options)]
           a == [asked EXCEPT ![c][n] = options]
           result == Request_Name_Reply_lst(new.code)
<1>1. /\ c \in registered /\ vars' = vars /\ registered' = registered
      /\ SetQueues(q, f, a)
      /\ Told(c, n, result) \/ believes' = believes
  BY DEF RequestName
<1>2. /\ registered \subseteq connected /\ connected \subseteq Conn
      /\ queue \in [Name -> Seq(registered)]
      /\ \A m \in Name : IsInjective(queue[m])
      /\ flags \in [Conn -> [Name -> 0..7]]
      /\ asked \in [Conn -> [Name -> SUBSET Option]]
      /\ \A b \in Conn, m \in Name : flags[b][m] = Flags(asked[b][m])
  BY DEF BusInv, BusTypeOK, FlagsExact, IInv, TypeOK
<1>3. Flags(options) \in 0..7
  BY FlagsKept
<1> HIDE DEF new, c
<1>4. /\ new.queue \in Seq(registered) /\ IsInjective(new.queue)
      /\ new.queue # <<>>
      /\ \/ new.code \in {1, 4} /\ Head(new.queue) = c
         \/ new.code \in {2, 3} /\ Head(new.queue) # c
  BY <1>1, <1>2, Acquired DEF new
<1>5. /\ q \in [Name -> Seq(registered)] /\ q[n] = new.queue
      /\ \A m \in Name \ {n} : q[m] = queue[m]
  BY <1>2, <1>4
<1>6. \A m \in Name : IsInjective(q[m])
  <2> HIDE DEF q
  <2>1. QED
    BY <1>2, <1>4, <1>5
<1>7. /\ f \in [Conn -> [Name -> 0..7]]
      /\ a \in [Conn -> [Name -> SUBSET Option]]
      /\ \A b \in Conn, m \in Name : f[b][m] = Flags(a[b][m])
  BY <1>1, <1>2, <1>3
<1>8. ToldTruly(c, n, q[n])
  <2>1. result \in {"primary_owner", "already_owner"} <=> new.code \in {1, 4}
    BY <1>4 DEF Request_Name_Reply_lst
  <2>2. OwnerIn(q[n]) = c <=> new.code \in {1, 4}
    BY <1>4, <1>5 DEF OwnerIn
  <2> HIDE DEF q, result
  <2>3. QED
    BY <1>1, <2>1, <2>2 DEF Told, ToldTruly
<1> HIDE DEF q, f, a, result
<1>9. c \in Conn /\ c \in connected
  BY <1>1, <1>2
<1>10. QED
  BY <1>1, <1>5, <1>6, <1>7, <1>8, <1>9, ResultInv

(* After release_name the caller is not the owner, whatever the result.    *)
LEMMA ReleaseNameInv ==
  ASSUME BusInv, IInv', NEW w \in Wrapper, NEW n \in Name,
         ReleaseName(w, n)
  PROVE  BusInv'
<1> DEFINE c == connection[w]
           new == Release(queue[n], c)
           q == [queue EXCEPT ![n] = new.queue]
           result == Release_Name_Reply_lst(new.code)
<1>1. /\ c \in registered /\ vars' = vars /\ registered' = registered
      /\ SetQueues(q, flags, asked)
      /\ Told(c, n, result) \/ believes' = believes
  BY DEF ReleaseName
<1>2. /\ registered \subseteq connected /\ connected \subseteq Conn
      /\ queue \in [Name -> Seq(registered)]
      /\ \A m \in Name : IsInjective(queue[m])
      /\ flags \in [Conn -> [Name -> 0..7]]
      /\ asked \in [Conn -> [Name -> SUBSET Option]]
      /\ \A b \in Conn, m \in Name : flags[b][m] = Flags(asked[b][m])
  BY DEF BusInv, BusTypeOK, FlagsExact, IInv, TypeOK
<1> HIDE DEF new, c
<1>3. /\ new.queue \in Seq(registered) /\ IsInjective(new.queue)
      /\ new.code \in 1..3 /\ ~Contains(new.queue, c)
  <2>1. queue[n] \in Seq(registered) /\ IsInjective(queue[n])
    BY <1>2
  <2>2. new = Release(queue[n], c)
    BY DEF new
  <2>3. QED
    BY <2>1, <2>2, Released
<1>4. /\ q \in [Name -> Seq(registered)] /\ q[n] = new.queue
      /\ \A m \in Name \ {n} : q[m] = queue[m]
  BY <1>2, <1>3
<1>5. \A m \in Name : IsInjective(q[m])
  <2> HIDE DEF q
  <2>1. QED
    BY <1>2, <1>3, <1>4
<1>6. c \in Conn /\ c \in connected
  BY <1>1, <1>2
<1>7. ToldTruly(c, n, q[n])
  <2>1. result \notin {"primary_owner", "already_owner"}
    BY <1>3 DEF Release_Name_Reply_lst
  <2>2. OwnerIn(q[n]) # c
    <3> HIDE DEF q
    <3>1. NULL \notin registered /\ c # NULL
      BY <1>2, <1>6, NullAssumption
    <3>2. QED
      BY <1>3, <1>4, <3>1, OwnerQueues
  <2> HIDE DEF q, result
  <2>3. QED
    BY <1>1, <2>1, <2>2 DEF Told, ToldTruly
<1> HIDE DEF q, result
<1>8. QED
  BY <1>1, <1>2, <1>4, <1>5, <1>6, <1>7, ResultInv

(* The oldest signal is handed over: only what it says of its own name is  *)
(* new, and only when no later one waits.                                  *)
LEMMA DispatchNewsInv ==
  ASSUME BusInv, IInv', NEW w \in Wrapper, DispatchNews(w)
  PROVE  BusInv'
<1> DEFINE c == connection[w]
           news == Head(inbox[c])
           told == IF news.owner THEN believes[c] \cup {news.name}
                   ELSE believes[c] \ {news.name}
           News == [name : Name, owner : BOOLEAN]
<1>1. /\ c \in Conn /\ inbox[c] # <<>>
      /\ inbox' = [inbox EXCEPT ![c] = Tail(inbox[c])]
      /\ believes' = [believes EXCEPT ![c] = told]
      /\ UNCHANGED <<vars, registered, queue, flags, asked>>
  BY DEF DispatchNews, BusInv, IInv, TypeOK
<1>2. /\ refs' = refs /\ connected' = connected /\ registered' = registered
      /\ queue' = queue /\ flags' = flags /\ asked' = asked
  BY <1>1 DEF vars
<1>3. inbox \in [Conn -> Seq(News)] /\ believes \in [Conn -> SUBSET Name]
  BY DEF BusInv, BusTypeOK
<1> DEFINE r == inbox[c]
<1>4. r \in Seq(News) /\ r # <<>>
  BY <1>1, <1>3
<1> HIDE DEF News
<1>5. /\ news \in News /\ Tail(r) \in Seq(News) /\ news = r[1]
      /\ Len(Tail(r)) = Len(r) - 1 /\ Len(r) \in Nat \ {0}
      /\ DOMAIN r = 1..Len(r) /\ DOMAIN Tail(r) = 1..(Len(r) - 1)
      /\ \A i \in 1..(Len(r) - 1) : Tail(r)[i] = r[i + 1]
  BY <1>4, HeadTailProperties, EmptySeq, LenProperties
<1>6. told \in SUBSET Name
  BY <1>1, <1>3, <1>5 DEF News
<1>7. BusTypeOK'
  <2>1. inbox' \in [Conn -> Seq(News)]
    BY <1>1, <1>3, <1>5
  <2>2. believes' \in [Conn -> SUBSET Name]
    BY <1>1, <1>3, <1>6
  <2>3. QED
    BY <1>2, <2>1, <2>2 DEF BusInv, BusTypeOK, News
<1>8. FlagsExact'
  BY <1>2 DEF BusInv, FlagsExact
<1>9. NoneLeft'
  <2>1. refs[c] # 0
    BY <1>1 DEF BusInv, NoneLeft
  <2>2. QED
    BY <1>1, <1>2, <1>3, <2>1 DEF BusInv, NoneLeft
<1>10. ASSUME NEW b \in connected', NEW n \in Name PROVE Informed(b, n)'
  <2>1. b \in Conn /\ Informed(b, n)
    BY <1>2 DEF BusInv, IInv, TypeOK
  <2>2. CASE b # c
    <3>1. inbox'[b] = inbox[b] /\ believes'[b] = believes[b]
      BY <1>1, <1>3, <2>1, <2>2
    <3>2. QED
      BY <1>2, <2>1, <3>1 DEF Informed, Silent, Latest
  <2>3. CASE b = c
    <3> DEFINE t == Tail(r)
    <3>1. inbox'[b] = t /\ inbox[b] = r /\ believes'[b] = told
      BY <1>1, <1>3, <2>3
    <3> HIDE DEF t, r
    <3>2. /\ \A i \in DOMAIN t : i \in Nat \ {0} /\ i + 1 \in DOMAIN r /\ t[i] = r[i + 1]
          /\ \A i \in DOMAIN r : i = 1 \/ (i - 1 \in DOMAIN t /\ t[i - 1] = r[i])
          /\ 1 \in DOMAIN r /\ \A i \in DOMAIN r : i \in Nat \ {0}
      <4>1. \A i \in DOMAIN r : i # 1 => i - 1 \in 1..(Len(r) - 1) /\ (i - 1) + 1 = i
        BY <1>5
      <4>2. \A i \in DOMAIN t : i \in Nat \ {0} /\ i + 1 \in DOMAIN r /\ t[i] = r[i + 1]
        BY <1>5 DEF t
      <4>3. \A i \in DOMAIN r : i # 1 => i - 1 \in DOMAIN t /\ t[i - 1] = r[i]
        BY <1>5, <4>1 DEF t
      <4>4. QED
        BY <1>5, <4>2, <4>3
    <3>3. ASSUME NEW i \in DOMAIN t, Latest(b, n, i)'
          PROVE  t[i].owner <=> OwnerIn(queue[n]) = b
      <4>1. t[i].name = n /\ \A j \in DOMAIN t : j > i => t[j].name # n
        BY <3>1, <3>3 DEF Latest
      <4>2. r[i + 1].name = n /\ \A j \in DOMAIN r : j > i + 1 => r[j].name # n
        BY <3>2, <3>3, <4>1
      <4>3. Latest(b, n, i + 1)
        BY <3>1, <4>2 DEF Latest
      <4>4. r[i + 1].owner <=> OwnerIn(queue[n]) = b
        BY <2>1, <3>1, <3>2, <3>3, <4>3 DEF Informed
      <4>5. QED
        BY <3>2, <3>3, <4>4
    <3>4. ASSUME Silent(b, n)' PROVE n \in told <=> OwnerIn(queue[n]) = b
      <4>1. \A i \in DOMAIN t : t[i].name # n
        BY <3>1, <3>4 DEF Silent
      <4>2. \A i \in DOMAIN r : i # 1 => r[i].name # n
        BY <3>2, <4>1
      <4>3. CASE news.name = n
        <5>1. Latest(b, n, 1)
          BY <1>5, <3>1, <3>2, <4>2, <4>3 DEF Latest
        <5>2. news.owner <=> OwnerIn(queue[n]) = b
          BY <1>5, <2>1, <3>1, <3>2, <5>1 DEF Informed
        <5>3. QED
          BY <4>3, <5>2
      <4>4. CASE news.name # n
        <5>1. Silent(b, n)
          BY <1>5, <3>1, <3>2, <4>2, <4>4 DEF Silent
        <5>2. n \in believes[b] <=> OwnerIn(queue[n]) = b
          BY <2>1, <5>1 DEF Informed
        <5>3. QED
          BY <2>3, <4>4, <5>2
      <4>5. QED
        BY <4>3, <4>4
    <3>5. QED
      BY <1>2, <3>1, <3>3, <3>4 DEF Informed
  <2>4. QED
    BY <2>2, <2>3
<1>11. QED
  BY <1>7, <1>8, <1>9, <1>10 DEF BusInv

(* The invariant holds in the beginning, and every step keeps it.          *)
LEMMA BusInitInv == BusInit => BusInv
<1> SUFFICES ASSUME BusInit PROVE BusInv
  OBVIOUS
<1>1. IInv /\ connected = {} /\ registered = {}
  BY InitIInv DEF BusInit, Init
<1>2. BusTypeOK
  <2>1. IsInjective(<<>>)
    BY DEF IsInjective
  <2>2. <<>> \in Seq(registered) /\ <<>> \in Seq([name : Name, owner : BOOLEAN])
    BY EmptySeq
  <2>3. QED
    BY <1>1, <2>1, <2>2 DEF BusInit, BusTypeOK
<1>3. FlagsExact /\ NoneLeft
  BY DEF BusInit, FlagsExact, NoneLeft, Flags
<1>4. QED
  BY <1>1, <1>2, <1>3 DEF BusInv

LEMMA BusStepInv == BusInv /\ [BusNext]_busVars => BusInv'
<1> SUFFICES ASSUME BusInv, [BusNext]_busVars PROVE BusInv'
  OBVIOUS
<1>1. [Next]_vars /\ IInv'
  BY IsStepOfConnections, StepIInv DEF BusInv
<1>2. ASSUME NEW w \in Wrapper, NEW n \in Name,
             NEW options \in SUBSET Option, RequestName(w, n, options)
      PROVE  BusInv'
  BY <1>1, <1>2, RequestNameInv
<1>3. ASSUME NEW w \in Wrapper, NEW n \in Name,
             ReleaseName(w, n)
      PROVE  BusInv'
  BY <1>1, <1>3, ReleaseNameInv
<1>4. ASSUME NEW w \in Wrapper, DispatchNews(w) PROVE BusInv'
  BY <1>1, <1>4, DispatchNewsInv
<1>5. ASSUME registered \subseteq registered', registered' \subseteq connected',
             UNCHANGED <<vars, queue, flags, inbox, believes, asked>>
      PROVE  BusInv'
  <2>1. \A n \in Name : queue'[n] \in Seq(registered')
    <3>1. \A n \in Name : queue[n] \in Seq(registered)
      BY DEF BusInv, BusTypeOK
    <3>2. QED
      BY <1>5, <3>1, SeqMonotonic
  <2>2. BusTypeOK'
    BY <1>5, <2>1 DEF BusInv, BusTypeOK
  <2>3. FlagsExact' /\ NoneLeft'
    BY <1>5 DEF BusInv, FlagsExact, NoneLeft, vars
  <2>4. \A c \in connected', n \in Name : Informed(c, n)'
    BY <1>5 DEF BusInv, Informed, Silent, Latest, vars
  <2>5. QED
    BY <1>1, <2>2, <2>3, <2>4 DEF BusInv
<1>6. ASSUME NEW w \in Wrapper, Register(w) PROVE BusInv'
  <2>1. /\ registered \subseteq registered' /\ registered' \subseteq connected'
        /\ UNCHANGED <<vars, queue, flags, inbox, believes, asked>>
    BY <1>6 DEF Register, BusInv, BusTypeOK, vars
  <2>2. QED
    BY <1>5, <2>1
<1>7. ASSUME NEW w \in Wrapper, NEW c \in Conn, Get(w, c) \/ BusGetPrivate(w, c)
      PROVE  BusInv'
  <2>1. Following(registered \cup {c})
    BY <1>7 DEF Get, BusGetPrivate
  <2>2. QED
    BY <1>1, <2>1, FollowingInv
<1>8. ASSUME Following(registered) PROVE BusInv'
  BY <1>1, <1>8, FollowingInv
<1>9. CASE UNCHANGED busVars
  <2>1. /\ registered \subseteq registered' /\ registered' \subseteq connected'
        /\ UNCHANGED <<vars, queue, flags, inbox, believes, asked>>
    BY <1>9 DEF busVars, vars, BusInv, BusTypeOK
  <2>2. QED
    BY <1>5, <2>1
<1>10. QED
  BY <1>2, <1>3, <1>4, <1>6, <1>7, <1>8, <1>9 DEF BusNext
----------------------------------------------------------------------------
(* Theorems.                                                               *)

(* It holds in every state, whatever is dispatched and when.               *)
LEMMA BusInvariant == BusSpec => []BusInv
BY BusInitInv, BusStepInv, PTL DEF BusSpec

(* The names change nothing about the life of connections: what src/bus.c  *)
(* does with them is allowed by module Connections.                        *)
THEOREM NamesAreConnections == BusSpec => Spec
<1>1. BusInit => Init
  BY DEF BusInit
<1>2. QED
  BY <1>1, IsStepOfConnections, PTL DEF BusSpec, Spec

(* Queues hold registered connections that are up, each at most once.      *)
THEOREM BusTypeCorrect == BusSpec => []BusTypeOK
<1>1. BusInv => BusTypeOK
  BY DEF BusInv
<1>2. QED
  BY <1>1, BusInvariant, PTL

(* After its signals a program knows what it owns: results of request_name *)
(* and release_name (src/src/bus.c) may overtake signals, and may be lost. *)
THEOREM SignalsSettle == BusSpec => []NewsSettles
<1>1. BusInv => NewsSettles
  <2>1. SUFFICES ASSUME BusInv, NEW c \in connected, NEW n \in Name,
                        \A i \in DOMAIN inbox[c] : inbox[c][i].name # n
                 PROVE  (n \in believes[c]) = (OwnerIn(queue[n]) = c)
    BY DEF NewsSettles
  <2>2. n \in believes[c] <=> OwnerIn(queue[n]) = c
    BY <2>1 DEF BusInv, Informed, Silent
  <2>3. QED
    BY <2>2
<1>2. QED
  BY <1>1, BusInvariant, PTL

(* Nothing but a release, or the options of both sides, takes a name from  *)
(* an owner that is up (request_name of src/src/bus.c).                    *)
THEOREM NoneLostUnasked == BusSpec => LostByConsent
<1> DEFINE Consent(n, c) ==
      \/ \E w \in Wrapper :
           connection[w] = c /\ ReleaseName(w, n)
      \/ /\ "allow_replacement" \in asked[c][n]
         /\ \E d \in Conn : /\ OwnerIn(queue'[n]) = d
                            /\ "replace_existing" \in asked'[d][n]
<1>1. ASSUME BusInv, BusInv', [BusNext]_busVars,
             NEW n \in Name, NEW c \in connected',
             OwnerIn(queue[n]) = c, OwnerIn(queue'[n]) # c
      PROVE  Consent(n, c)
  <2>1. /\ connected \subseteq Conn /\ connected' \subseteq Conn
        /\ registered \subseteq connected
        /\ queue \in [Name -> Seq(registered)]
        /\ \A m \in Name : IsInjective(queue[m])
        /\ \A b \in Conn, m \in Name : flags[b][m] = Flags(asked[b][m])
        /\ asked \in [Conn -> [Name -> SUBSET Option]]
    BY <1>1 DEF BusInv, BusTypeOK, FlagsExact, IInv, TypeOK
  <2>2. c \in Conn /\ c # NULL /\ NULL \notin registered
    BY <1>1, <2>1, NullAssumption
  <2>3. /\ queue[n] \in Seq(registered) /\ IsInjective(queue[n])
        /\ queue[n] # <<>> /\ Head(queue[n]) = c /\ c \in registered
        /\ Contains(queue[n], c)
    BY <1>1, <2>1, <2>2, OwnerQueues
  <2>4. ASSUME NEW w \in Wrapper, NEW m \in Name,
               NEW options \in SUBSET Option, RequestName(w, m, options)
        PROVE  Consent(n, c)
    <3> DEFINE d == connection[w]
               new == Acquire(queue[m], d, Flags(options),
                              flags[OwnerIn(queue[m])][m])
               q == [queue EXCEPT ![m] = new.queue]
               a == [asked EXCEPT ![d][m] = options]
    <3>1. d \in registered /\ queue' = q
          /\ asked' = [b \in Conn |-> [k \in Name |->
                         IF Contains(q[k], b) THEN a[b][k] ELSE {}]]
      BY <2>4 DEF RequestName, SetQueues
    <3>2. m = n
      BY <1>1, <2>1, <3>1
    <3>3. queue'[n] = new.queue
      BY <2>1, <3>1, <3>2
    <3> HIDE DEF new, d
    <3>4. /\ new.queue \in Seq(registered) /\ new.queue # <<>>
          /\ Head(new.queue) # Head(queue[n]) =>
               /\ Head(new.queue) = d
               /\ Has(Flags(options), REPLACE_EXISTING)
               /\ Has(flags[c][n], ALLOW_REPLACEMENT)
      BY <1>1, <2>3, <3>1, <3>2, Acquired DEF new
    <3>5. OwnerIn(new.queue) = Head(new.queue) /\ Contains(new.queue, Head(new.queue))
      BY <2>2, <3>4, OwnerQueues
    <3>6. /\ Head(new.queue) = d /\ Contains(new.queue, d)
          /\ Has(Flags(options), REPLACE_EXISTING)
          /\ Has(Flags(asked[c][n]), ALLOW_REPLACEMENT)
      BY <1>1, <2>1, <2>2, <2>3, <3>3, <3>4, <3>5
    <3>7. "replace_existing" \in options /\ "allow_replacement" \in asked[c][n]
      <4>1. asked[c][n] \in SUBSET Option
        BY <2>1, <2>2
      <4>2. QED
        BY <3>6, <4>1, FlagsKept
    <3>8. asked'[d][n] = options /\ d \in Conn
      BY <2>1, <3>1, <3>2, <3>3, <3>6
    <3>9. QED
      BY <3>3, <3>5, <3>6, <3>7, <3>8
  <2>5. ASSUME NEW w \in Wrapper, NEW m \in Name,
               ReleaseName(w, m)
        PROVE  Consent(n, c)
    <3> DEFINE d == connection[w]
               new == Release(queue[m], d)
    <3>1. d \in registered /\ queue' = [queue EXCEPT ![m] = new.queue]
      BY <2>5 DEF ReleaseName, SetQueues
    <3>2. m = n
      BY <1>1, <2>1, <3>1
    <3>3. queue'[n] = new.queue
      BY <2>1, <3>1, <3>2
    <3> HIDE DEF new, d
    <3>4. d # c => new.queue # <<>> /\ Head(new.queue) = c
      BY <2>3, <3>2, Released DEF new
    <3>5. d = c
      BY <1>1, <3>3, <3>4 DEF OwnerIn
    <3>6. connection[w] = c /\ ReleaseName(w, n)
      BY <2>5, <3>2, <3>5 DEF d
    <3>7. QED
      BY <3>6
  <2>6. ASSUME queue' = queue PROVE FALSE
    BY <1>1, <2>6
  <2>7. ASSUME NEW r, Following(r) PROVE FALSE
    <3> DEFINE s == RemoveFirstMatch(queue[n], LAMBDA b : b \notin connected')
    <3>1. queue'[n] = s
      BY <2>7 DEF Following, SetQueues
    <3>2. PICK d : connected \ connected' \subseteq {d}
      BY <1>1, IsStepOfConnections, UpAndDown DEF BusInv
    <3>3. \A e : Contains(queue[n], e) => e \in connected' \/ e = d
      BY <2>1, <2>3, <3>2, InQueue
    <3>4. s = RemoveFirstMatch(queue[n], LAMBDA b : b \notin connected')
      OBVIOUS
    <3> HIDE DEF s
    <3>5. s # <<>> /\ Head(s) = c
      BY <1>1, <2>3, <3>3, <3>4, DownLeaves
    <3>6. QED
      BY <1>1, <3>1, <3>5 DEF OwnerIn
  <2>8. ASSUME NEW w \in Wrapper, Register(w) \/ DispatchNews(w) PROVE FALSE
    BY <2>6, <2>8 DEF Register, DispatchNews
  <2>9. ASSUME NEW w \in Wrapper, NEW b \in Conn, Get(w, b) \/ BusGetPrivate(w, b)
        PROVE  FALSE
    BY <2>7, <2>9 DEF Get, BusGetPrivate
  <2>10. CASE UNCHANGED busVars
    BY <2>6, <2>10 DEF busVars
  <2> HIDE DEF Consent
  <2>11. QED
    BY <1>1, <2>4, <2>5, <2>7, <2>8, <2>9, <2>10 DEF BusNext
<1>2. BusInv /\ BusInv' /\ [BusNext]_busVars =>
        [\A n \in Name, c \in connected' :
           OwnerIn(queue[n]) = c /\ OwnerIn(queue'[n]) # c
             => \/ \E w \in Wrapper :
                     connection[w] = c /\ ReleaseName(w, n)
                \/ /\ "allow_replacement" \in asked[c][n]
                   /\ \E d \in Conn : /\ OwnerIn(queue'[n]) = d
                                     /\ "replace_existing" \in asked'[d][n]]_busVars
  BY <1>1 DEF Consent
<1> HIDE DEF Consent
<1>3. QED
  BY <1>2, BusInvariant, PTL DEF BusSpec, LostByConsent

(* A result for n that the connection c got is true of the queue p.        *)
LEMMA ToldTrue ==
  ASSUME BusTypeOK, NEW c \in Conn, NEW n \in Name, NEW result, NEW p,
         Told(c, n, result),
         result \in {"primary_owner", "already_owner"} <=> OwnerIn(p) = c
  PROVE  n \in believes'[c] <=> OwnerIn(p) = c
<1>1. believes[c] \in SUBSET Name /\ believes \in [Conn -> SUBSET Name]
  BY DEF BusTypeOK
<1>2. believes'[c] = IF result \in {"primary_owner", "already_owner"}
                     THEN believes[c] \cup {n} ELSE believes[c] \ {n}
  BY <1>1 DEF Told
<1>3. QED
  BY <1>2

(* The calls whose answer comes in time: the program goes by the result.   *)
AnsweredRequest(w, n, options) ==
  LET q == queue[n]
      new == Acquire(q, connection[w], Flags(options), flags[OwnerIn(q)][n])
  IN  /\ RequestName(w, n, options)
      /\ Told(connection[w], n, Request_Name_Reply_lst(new.code))

AnsweredRelease(w, n) ==
  /\ ReleaseName(w, n)
  /\ Told(connection[w], n,
          Release_Name_Reply_lst(Release(queue[n], connection[w]).code))

(* The strings that request_name and release_name return say who owns the  *)
(* name after the daemon has done what it was asked: the tables of         *)
(* src/src/bus.c have the right string for each code, whatever the queue,  *)
(* the options of the caller and those of the owner.                       *)
THEOREM ResultsAreTrue ==
  BusSpec => [][\A w \in Wrapper, n \in Name :
                  \/ AnsweredRelease(w, n)
                  \/ \E options \in SUBSET Option : AnsweredRequest(w, n, options)
                  => (n \in believes'[connection[w]]
                        <=> OwnerIn(queue'[n]) = connection[w])]_busVars
<1>1. ASSUME BusInv, NEW w \in Wrapper, NEW n \in Name,
             \/ AnsweredRelease(w, n)
             \/ \E options \in SUBSET Option : AnsweredRequest(w, n, options)
      PROVE  n \in believes'[connection[w]] <=> OwnerIn(queue'[n]) = connection[w]
  <2> DEFINE c == connection[w]
             q == queue[n]
  <2>1. /\ c \in registered /\ registered \subseteq Conn /\ NULL \notin registered
        /\ q \in Seq(registered) /\ IsInjective(q)
        /\ BusTypeOK /\ queue \in [Name -> Seq(registered)]
    <3>1. c \in registered
      BY <1>1 DEF AnsweredRelease, AnsweredRequest, ReleaseName, RequestName
    <3>2. BusTypeOK /\ connected \subseteq Conn
      BY <1>1 DEF BusInv, IInv, TypeOK
    <3>3. QED
      BY <3>1, <3>2, NullAssumption DEF BusTypeOK
  <2>2. CASE AnsweredRelease(w, n)
    <3> DEFINE new == Release(q, c)
               result == Release_Name_Reply_lst(new.code)
    <3>1. queue' = [queue EXCEPT ![n] = new.queue] /\ Told(c, n, result)
      BY <2>2 DEF AnsweredRelease, ReleaseName, SetQueues
    <3>2. queue'[n] = new.queue
      BY <2>1, <3>1
    <3> HIDE DEF c, q, new
    <3>3. new.queue \in Seq(registered) /\ new.code \in 1..3
          /\ ~Contains(new.queue, c)
      BY <2>1, Released DEF new
    <3>4. result \notin {"primary_owner", "already_owner"}
      BY <3>3 DEF Release_Name_Reply_lst
    <3>5. OwnerIn(new.queue) # c
      BY <2>1, <3>3, OwnerQueues
    <3> HIDE DEF result
    <3>6. n \in believes'[c] <=> OwnerIn(new.queue) = c
      BY <2>1, <3>1, <3>4, <3>5, ToldTrue
    <3>7. QED
      BY <3>2, <3>6 DEF c
  <2>3. ASSUME NEW options \in SUBSET Option, AnsweredRequest(w, n, options)
        PROVE  n \in believes'[connection[w]]
                 <=> OwnerIn(queue'[n]) = connection[w]
    <3> DEFINE f == Flags(options)
               g == flags[OwnerIn(q)][n]
               new == Acquire(q, c, f, g)
               result == Request_Name_Reply_lst(new.code)
    <3>1. queue' = [queue EXCEPT ![n] = new.queue] /\ Told(c, n, result)
      BY <2>3 DEF AnsweredRequest, RequestName, SetQueues
    <3>2. queue'[n] = new.queue
      BY <2>1, <3>1
    <3> HIDE DEF c, q, f, g, new
    <3>3. /\ new.queue # <<>>
          /\ \/ new.code \in {1, 4} /\ Head(new.queue) = c
             \/ new.code \in {2, 3} /\ Head(new.queue) # c
      BY <2>1, Acquired DEF new
    <3>4. result \in {"primary_owner", "already_owner"} <=> new.code \in {1, 4}
      BY <3>3 DEF Request_Name_Reply_lst
    <3>5. OwnerIn(new.queue) = c <=> new.code \in {1, 4}
      BY <3>3 DEF OwnerIn
    <3> HIDE DEF result
    <3>6. n \in believes'[c] <=> OwnerIn(new.queue) = c
      BY <2>1, <3>1, <3>4, <3>5, ToldTrue
    <3>7. QED
      BY <3>2, <3>6 DEF c
  <2>4. QED
    BY <1>1, <2>2, <2>3
<1>2. BusInv => [\A w \in Wrapper, n \in Name :
                   \/ AnsweredRelease(w, n)
                   \/ \E options \in SUBSET Option : AnsweredRequest(w, n, options)
                   => (n \in believes'[connection[w]]
                         <=> OwnerIn(queue'[n]) = connection[w])]_busVars
  BY <1>1
<1>3. QED
  BY <1>2, BusInvariant, PTL DEF BusSpec
=============================================================================
