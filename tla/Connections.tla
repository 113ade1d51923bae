------------------------------ MODULE Connections ------------------------------
(***************************************************************************)
(* The life of DBusConnections: open and __gc of src/src/connection.c, get *)
(* and get_private of src/src/bus.c.                                       *)
(*                                                                         *)
(* libdbus gives the same shared connection to everyone who asks for the   *)
(* address, and owns a count on it until the application dispatches the    *)
(* news that it was disconnected.  A private connection belongs to whoever *)
(* made it.  Pending calls own counts on their connection.  Each userdata  *)
(* owns one count, and knows whether it has to close what it owns.         *)
(***************************************************************************)
EXTENDS Integers, FiniteSets

CONSTANTS
  Conn,     \* addresses of DBusConnection objects
  Wrapper,  \* DBusConnection userdata
  NULL,     \* the null pointer
  MaxHeld   \* bound: pending calls of one connection

ASSUME NullAssumption == NULL \notin Conn
ASSUME WrapperAssumption == IsFiniteSet(Wrapper)
ASSUME BoundAssumption == MaxHeld \in Nat

VARIABLES
  refs,       \* the count in each DBusConnection, 0 when not allocated
  connected,  \* libdbus: the connections that are up
  shared,     \* libdbus: the connections it shares, and owns a count on
  held,       \* how many pending calls own a count on each connection
  connection, \* the field `connection' of each userdata, or NULL
  close,      \* the field `close' of each userdata
  lost        \* history: the connections that the other side ended

vars == <<refs, connected, shared, held, connection, close, lost>>

TypeOK ==
  /\ refs \in [Conn -> Nat] /\ held \in [Conn -> Nat]
  /\ connected \subseteq Conn /\ shared \subseteq Conn /\ lost \subseteq Conn
  /\ connection \in [Wrapper -> Conn \cup {NULL}]
  /\ close \in [Wrapper -> BOOLEAN]

Init ==
  /\ refs = [c \in Conn |-> 0] /\ held = [c \in Conn |-> 0]
  /\ connected = {} /\ shared = {} /\ lost = {}
  /\ connection = [w \in Wrapper |-> NULL]
  /\ close = [w \in Wrapper |-> FALSE]

----------------------------------------------------------------------------
(* push_DBusConnection: the userdata takes over one count of c.            *)
PushConnection(w, c, closes) ==
  /\ connection[w] = NULL
  /\ connection' = [connection EXCEPT ![w] = c]
  /\ close' = [close EXCEPT ![w] = closes]

(* libdbus: a new connection, owned n times.                               *)
Connect(c, n) ==
  /\ refs[c] = 0
  /\ refs' = [refs EXCEPT ![c] = n]
  /\ connected' = connected \cup {c} /\ lost' = lost \ {c}

(* dbus_connection_open and dbus_bus_get: a connection that is shared      *)
(* already, which may be down without the application knowing, or a new    *)
(* one when none is up.                                                    *)
GetShared(c) ==
  \/ /\ c \in shared
     /\ refs' = [refs EXCEPT ![c] = @ + 1]
     /\ UNCHANGED <<connected, shared, lost>>
  \/ /\ shared \cap connected = {}
     /\ Connect(c, 2)
     /\ shared' = shared \cup {c}

(* connection.open and bus.get.  When they fail, as when get_private does, *)
(* nothing changes.                                                        *)
OpenShared(w, c) ==
  /\ GetShared(c)
  /\ PushConnection(w, c, FALSE)
  /\ UNCHANGED held

(* Bug: nobody closes a private connection. *)
GetPrivateUnclosed(w, c) ==
  /\ Connect(c, 1)
  /\ PushConnection(w, c, FALSE)
  /\ UNCHANGED <<shared, held>>

(* bus.get_private. *)
GetPrivate(w, c) ==
  /\ Connect(c, 1)
  /\ PushConnection(w, c, TRUE)
  /\ UNCHANGED <<shared, held>>

(* Bug: the comment of the field taken at its word: a shared connection is *)
(* closed, a private one is not.                                           *)
ConnectionGCSwapped(w) ==
  LET c == connection[w]
  IN  /\ c # NULL
      /\ connected' = IF close[w] THEN connected ELSE connected \ {c}
      /\ refs' = [refs EXCEPT ![c] = @ - 1]
      /\ connection' = [connection EXCEPT ![w] = NULL]
      /\ close' = [close EXCEPT ![w] = FALSE]
      /\ UNCHANGED <<shared, held, lost>>

(* Bug: the count is kept. *)
ConnectionGCLeaks(w) ==
  LET c == connection[w]
  IN  /\ c # NULL
      /\ connected' = IF close[w] THEN connected \ {c} ELSE connected
      /\ connection' = [connection EXCEPT ![w] = NULL]
      /\ close' = [close EXCEPT ![w] = FALSE]
      /\ UNCHANGED <<refs, shared, held, lost>>

(* Bug: the userdata keeps its pointer, and can be collected again. *)
ConnectionGCTwice(w) ==
  LET c == connection[w]
  IN  /\ c # NULL
      /\ connected' = IF close[w] THEN connected \ {c} ELSE connected
      /\ refs' = [refs EXCEPT ![c] = @ - 1]
      /\ UNCHANGED <<shared, held, connection, close, lost>>

(* ldbus_connection_gc: closes, if the userdata has to, and unreferences.  *)
(* The userdata is gone after that.  Closing may call the dispatch-status  *)
(* function before the count goes (CollectConnection of module Callbacks). *)
ConnectionGC(w) ==
  LET c == connection[w]
  IN  /\ c # NULL
      /\ connected' = IF close[w] THEN connected \ {c} ELSE connected
      /\ refs' = [refs EXCEPT ![c] = @ - 1]
      /\ connection' = [connection EXCEPT ![w] = NULL]
      /\ close' = [close EXCEPT ![w] = FALSE]
      /\ UNCHANGED <<shared, held, lost>>

----------------------------------------------------------------------------
(* libdbus.                                                                *)

(* send_with_reply: the pending call owns a count on the connection until  *)
(* its own last owner drops it.                                            *)
SendWithReply(w) ==
  LET c == connection[w]
  IN  /\ c # NULL /\ c \in connected
      /\ held[c] < MaxHeld
      /\ held' = [held EXCEPT ![c] = @ + 1]
      /\ refs' = [refs EXCEPT ![c] = @ + 1]
      /\ UNCHANGED <<connected, shared, connection, close, lost>>

PendingCallFreed(c) ==
  /\ held[c] > 0
  /\ held' = [held EXCEPT ![c] = @ - 1]
  /\ refs' = [refs EXCEPT ![c] = @ - 1]
  /\ UNCHANGED <<connected, shared, connection, close, lost>>

PeerCloses(c) ==
  /\ c \in connected
  /\ connected' = connected \ {c} /\ lost' = lost \cup {c}
  /\ UNCHANGED <<refs, shared, held, connection, close>>

(* The application dispatches the message that tells of the disconnection, *)
(* after which libdbus shares the connection no longer.                    *)
DispatchDisconnected(w) ==
  LET c == connection[w]
  IN  /\ c \in shared \ connected
      /\ shared' = shared \ {c}
      /\ refs' = [refs EXCEPT ![c] = @ - 1]
      /\ UNCHANGED <<connected, held, connection, close, lost>>

Next ==
  \/ \E w \in Wrapper :
       \/ \E c \in Conn : OpenShared(w, c) \/ GetPrivate(w, c)
       \/ ConnectionGC(w) \/ SendWithReply(w) \/ DispatchDisconnected(w)
  \/ \E c \in Conn : PendingCallFreed(c) \/ PeerCloses(c)

Spec == Init /\ [][Next]_vars

----------------------------------------------------------------------------
(* Properties.                                                             *)

(* The userdata that point to c through the pointers f. *)
Holders(f, c) == {w \in Wrapper : f[w] = c}

(* The count in a connection is the number of its owners. *)
RefsExact ==
  \A c \in Conn :
    refs[c] = Cardinality(Holders(connection, c)) + held[c]
                + (IF c \in shared THEN 1 ELSE 0)

(* connection.c: "You must close a connection prior to releasing the last  *)
(* reference to the connection": whatever the order in which userdata and  *)
(* pending calls go.                                                       *)
ClosedBeforeFreed == \A c \in Conn : refs[c] = 0 => c \notin connected

(* Collecting one userdata never closes the connection of another: what    *)
(* Lua has is up, unless the other side ended it.                          *)
NeverCutOff ==
  \A w \in Wrapper :
    connection[w] # NULL => connection[w] \in connected \cup lost

(* A connection lives exactly as long as it has an owner. *)
Lifetime == INSTANCE Ownership WITH
  Object <- Conn,
  Owner <- Wrapper,
  alive <- {c \in Conn : refs[c] > 0},
  owns <- connection,
  lent <- [c \in Conn |-> held[c] + (IF c \in shared THEN 1 ELSE 0)]

OwnershipImplemented == Lifetime!Spec
=============================================================================
