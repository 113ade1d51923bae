------------------------------ MODULE BusNames ------------------------------
(***************************************************************************)
(* Names on the message bus: request_name, release_name and register of    *)
(* src/src/bus.c, on the connections of module Connections.                *)
(*                                                                         *)
(* The daemon keeps a queue of connections for each name, whose head owns  *)
(* it, and tells a connection of gains and losses by signals.  ldbus turns *)
(* a table of options into flags, and a result code into a string.  The    *)
(* call waits for its own reply only: it overtakes signals that are in the *)
(* queue of the connection, which the program sees when it dispatches.     *)
(***************************************************************************)
EXTENDS Connections, Sequences, SequencesExt

CONSTANTS
  Name,      \* well-known names
  MaxNews    \* bound: signals that a connection has not dispatched

ASSUME NameAssumption == IsFiniteSet(Name)
ASSUME MaxNewsAssumption == MaxNews \in Nat

VARIABLES
  registered,  \* the daemon: connections that said Hello
  queue,       \* the daemon: who wants each name, the owner first
  flags,       \* the daemon: the flags of those in the queue
  inbox,       \* libdbus: signals not dispatched
  believes,    \* the program: the names it thinks each connection owns
  asked        \* history: the options passed by those in the queue

busVars == <<vars, registered, queue, flags, inbox, believes, asked>>

Option == {"allow_replacement", "do_not_queue", "replace_existing"}

(* Only connections that are up and said Hello are in a queue, once.       *)
BusTypeOK ==
  /\ registered \subseteq connected
  /\ queue \in [Name -> Seq(registered)]
  /\ \A n \in Name : IsInjective(queue[n])
  /\ flags \in [Conn -> [Name -> 0..7]]
  /\ inbox \in [Conn -> Seq([name : Name, owner : BOOLEAN])]
  /\ believes \in [Conn -> SUBSET Name]
  /\ asked \in [Conn -> [Name -> SUBSET Option]]

BusInit ==
  /\ Init
  /\ registered = {}
  /\ queue = [n \in Name |-> <<>>]
  /\ flags = [c \in Conn |-> [n \in Name |-> 0]]
  /\ inbox = [c \in Conn |-> <<>>]
  /\ believes = [c \in Conn |-> {}]
  /\ asked = [c \in Conn |-> [n \in Name |-> {}]]

----------------------------------------------------------------------------
(* The flags that request_name makes of the table of options: one bit for  *)
(* each option whose value is true.                                        *)

ALLOW_REPLACEMENT == 1
REPLACE_EXISTING == 2
DO_NOT_QUEUE == 4

(* Bug: the flags are numbered in the order in which the code reads them. *)
FlagsInOrder(options) ==
  (IF "allow_replacement" \in options THEN 1 ELSE 0)
    + (IF "do_not_queue" \in options THEN 2 ELSE 0)
    + (IF "replace_existing" \in options THEN 4 ELSE 0)

Flags(options) ==
  (IF "allow_replacement" \in options THEN ALLOW_REPLACEMENT ELSE 0)
    + (IF "do_not_queue" \in options THEN DO_NOT_QUEUE ELSE 0)
    + (IF "replace_existing" \in options THEN REPLACE_EXISTING ELSE 0)

Has(f, flag) == (f \div flag) % 2 = 1

----------------------------------------------------------------------------
(* The daemon.                                                             *)

OwnerIn(q) == IF q = <<>> THEN NULL ELSE Head(q)

(* The signals to c when the queues become q: NameLost tells the old owner *)
(* of a name, NameAcquired the new one.                                    *)
Signals(q, c) ==
  {[name |-> n, owner |-> OwnerIn(q[n]) = c] : n \in
     {m \in Name : /\ OwnerIn(queue[m]) # OwnerIn(q[m])
                   /\ c \in {OwnerIn(queue[m]), OwnerIn(q[m])}}}

(* c asks for a name that has the queue q, with the flags f, when its owner *)
(* has the flags g: the new queue and the result code.                     *)
Acquire(q, c, f, g) ==
  LET Result(p, r) == [queue |-> p, code |-> r]
      replaces == Has(f, REPLACE_EXISTING)
      others == RemoveFirst(Tail(q), c)
  IN  IF q = <<>> THEN Result(<<c>>, 1)
      ELSE IF Head(q) = c THEN Result(q, 4)
      ELSE IF replaces /\ Has(g, ALLOW_REPLACEMENT)
      THEN Result(IF Has(g, DO_NOT_QUEUE) THEN <<c>> \o others
                  ELSE <<c, Head(q)>> \o others, 1)
      ELSE IF Has(f, DO_NOT_QUEUE) THEN Result(<<Head(q)>> \o others, 3)
      ELSE IF replaces THEN Result(<<Head(q), c>> \o others, 2)
      ELSE Result(IF Contains(q, c) THEN q ELSE Append(q, c), 2)

(* c releases such a name.                                                 *)
Release(q, c) ==
  [queue |-> RemoveFirst(q, c),
   code |-> IF q = <<>> THEN 2 ELSE IF Contains(q, c) THEN 1 ELSE 3]

(* The queues become q, and the daemon tells the connections that are up,  *)
(* in whatever order of the names.  It remembers the flags f, and the program    *)
(* the options a, of those in the queues.                                  *)
SetQueues(q, f, a) ==
  LET Queued(g, none) ==
        [c \in Conn |-> [n \in Name |->
           IF Contains(q[n], c) THEN g[c][n] ELSE none]]
  IN  /\ queue' = q
      /\ flags' = Queued(f, 0)
      /\ asked' = Queued(a, {})
      /\ \E told \in [Conn -> UNION {SetToSeqs(Signals(q, c)) : c \in Conn}] :
           /\ \A c \in Conn : told[c] \in SetToSeqs(Signals(q, c))
           /\ inbox' = [c \in Conn |->
                IF refs'[c] = 0 THEN <<>>
                ELSE IF c \notin connected' THEN inbox[c]
                ELSE inbox[c] \o told[c]]
      /\ \A c \in Conn : Len(inbox'[c]) <= MaxNews

----------------------------------------------------------------------------
(* The program, which goes by the results and the signals it gets.         *)

(* Bug: no entry for the code 0. *)
Request_Name_Reply_lstShifted(code) ==
  << "in_queue", "exists", "already_owner", NULL >>[code]

Request_Name_Reply_lst(code) ==
  << "primary_owner", "in_queue", "exists", "already_owner" >>[code]

Release_Name_Reply_lst(code) ==
  << "released", "non_existent", "not_owner" >>[code]

Told(c, n, result) ==
  believes' = [believes EXCEPT ![c] =
                 IF result \in {"primary_owner", "already_owner"}
                 THEN @ \cup {n} ELSE @ \ {n}]

----------------------------------------------------------------------------
(* src/src/bus.c.                                                          *)

(* request_name waits for the answer to its own message, past the signals  *)
(* that are in the queue of the connection.  When none comes in time the   *)
(* program gets nil, whatever the daemon did; on a connection that is down *)
(* or not registered it gets nil, and nothing happens.                     *)
RequestName(w, n, options) ==
  LET c == connection[w]
      q == queue[n]
      f == Flags(options)
      new == Acquire(q, c, f, flags[OwnerIn(q)][n])
  IN  /\ c \in registered
      /\ UNCHANGED <<vars, registered>>
      /\ SetQueues([queue EXCEPT ![n] = new.queue],
                   [flags EXCEPT ![c][n] = f],
                   [asked EXCEPT ![c][n] = options])
      /\ Told(c, n, Request_Name_Reply_lst(new.code)) \/ UNCHANGED believes

ReleaseName(w, n) ==
  LET c == connection[w]
      new == Release(queue[n], c)
  IN  /\ c \in registered
      /\ UNCHANGED <<vars, registered>>
      /\ SetQueues([queue EXCEPT ![n] = new.queue], flags, asked)
      /\ Told(c, n, Release_Name_Reply_lst(new.code)) \/ UNCHANGED believes

(* On a connection that is registered, register does nothing.              *)
Register(w) ==
  LET c == connection[w]
  IN  /\ c \in connected
      /\ registered' = registered \cup {c}
      /\ UNCHANGED <<vars, queue, flags, inbox, believes, asked>>

(* Bug: what arrived behind the oldest signal is dropped. *)
DispatchNewsOnce(w) ==
  LET c == connection[w]
      news == Head(inbox[c])
  IN  /\ c # NULL /\ inbox[c] # <<>>
      /\ inbox' = [inbox EXCEPT ![c] = <<>>]
      /\ believes' = [believes EXCEPT ![c] =
           IF news.owner THEN @ \cup {news.name} ELSE @ \ {news.name}]
      /\ UNCHANGED <<vars, registered, queue, flags, asked>>

(* connection.dispatch hands the program the oldest signal.                *)
DispatchNews(w) ==
  LET c == connection[w]
      news == Head(inbox[c])
  IN  /\ c # NULL /\ inbox[c] # <<>>
      /\ inbox' = [inbox EXCEPT ![c] = Tail(@)]
      /\ believes' = [believes EXCEPT ![c] =
           IF news.owner THEN @ \cup {news.name} ELSE @ \ {news.name}]
      /\ UNCHANGED <<vars, registered, queue, flags, asked>>

----------------------------------------------------------------------------
(* Bug: the daemon keeps those that are no longer up in its queues. *)
FollowingKept(r) ==
  /\ registered' = r \cap connected'
  /\ SetQueues(queue, flags, asked)
  /\ believes' = [c \in Conn |-> IF refs'[c] = 0 THEN {} ELSE believes[c]]

(* The steps of module Connections, after which the connections in r have  *)
(* said Hello.  The daemon forgets the one that is no longer up, if any,   *)
(* and the address of one that was freed may be used again.                *)
Following(r) ==
  /\ registered' = r \cap connected'
  /\ SetQueues([n \in Name |->
                  RemoveFirstMatch(queue[n], LAMBDA c : c \notin connected')],
               flags, asked)
  /\ believes' = [c \in Conn |-> IF refs'[c] = 0 THEN {} ELSE believes[c]]

(* bus.get registers what it returns, connection.open does not.            *)
Get(w, c) == OpenShared(w, c) /\ Following(registered \cup {c})
BusGetPrivate(w, c) == GetPrivate(w, c) /\ Following(registered \cup {c})

Unregistered ==
  \/ \E w \in Wrapper :
       \/ \E c \in Conn : OpenShared(w, c)
       \/ ConnectionGC(w) \/ SendWithReply(w)
       \/ /\ DispatchDisconnected(w)
          /\ inbox[connection[w]] = <<>>
  \/ \E c \in Conn : PendingCallFreed(c) \/ PeerCloses(c)

BusNext ==
  \/ \E w \in Wrapper :
       \/ \E n \in Name :
            \/ \E options \in SUBSET Option : RequestName(w, n, options)
            \/ ReleaseName(w, n)
       \/ Register(w) \/ DispatchNews(w)
       \/ \E c \in Conn : Get(w, c) \/ BusGetPrivate(w, c)
  \/ Unregistered /\ Following(registered)

(* The program keeps dispatching each connection that it has. *)
DispatchFairness ==
  \A c \in Conn :
    WF_busVars(\E w \in Wrapper : connection[w] = c /\ DispatchNews(w))

BusSpec == BusInit /\ [][BusNext]_busVars /\ DispatchFairness

----------------------------------------------------------------------------
(* Properties.                                                             *)

(* Once the signals about a name are dispatched, the program knows whether *)
(* it owns it: a result may overtake older signals, and a call may get no  *)
(* answer at all, but what a signal says later is true.                    *)
NewsSettles ==
  \A c \in connected, n \in Name :
    (\A i \in DOMAIN inbox[c] : inbox[c][i].name # n)
      => (n \in believes[c]) = (OwnerIn(queue[n]) = c)

(* An owner that is up loses a name only when it releases it, or when it   *)
(* gave allow_replacement and someone else replace_existing.               *)
LostByConsent ==
  [][\A n \in Name, c \in connected' :
       OwnerIn(queue[n]) = c /\ OwnerIn(queue'[n]) # c
         => \/ \E w \in Wrapper : connection[w] = c /\ ReleaseName(w, n)
            \/ /\ "allow_replacement" \in asked[c][n]
               /\ \E d \in Conn : /\ OwnerIn(queue'[n]) = d
                                 /\ "replace_existing" \in asked'[d][n]]_busVars

(* The owner of a name gets to know it, while it has a userdata to hear it *)
(* from.                                                                   *)
Heard ==
  \A n \in Name, c \in Conn :
    OwnerIn(queue[n]) = c
      ~> \/ n \in believes[c] \/ OwnerIn(queue[n]) # c
         \/ Holders(connection, c) = {}
=============================================================================
