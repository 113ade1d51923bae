------------------------------- MODULE Callbacks -------------------------------
(***************************************************************************)
(* The functions that src/src/connection.c installs in a connection for    *)
(* wakeups and for changes of the dispatch status, on the connections of   *)
(* module Connections.                                                     *)
(*                                                                         *)
(* libdbus keeps a pointer to a block of data for each function, anchored  *)
(* in the registry of Lua, and gives it back to free_data_function when    *)
(* the function is replaced or the connection freed.  At the end of most   *)
(* operations, but not of read_write and pop_message, it compares the      *)
(* dispatch status with the last one, and calls the dispatch-status        *)
(* function when they differ: the application puts the connection on its   *)
(* list of those to dispatch, and takes it off when the function, or       *)
(* dispatch, says that nothing is left.                                    *)
(***************************************************************************)
EXTENDS Connections, Sequences

CONSTANTS
  Data,        \* addresses of blocks of data
  MaxIncoming  \* bound: messages that a connection has not dispatched

ASSUME DataAssumption == NULL \notin Data
ASSUME IncomingAssumption == MaxIncoming \in Nat

VARIABLES
  data,      \* libdbus: the block of each function of a connection, or NULL
  registry,  \* the blocks anchored in the registry of the Lua state
  incoming,  \* libdbus: the number of messages in each incoming queue
  status,    \* libdbus: the dispatch status of each connection when libdbus
             \* last compared it
  due,       \* the application: the connections it knows it must dispatch
  heard      \* history: connections whose function missed no change since
             \* the status was last known to be COMPLETE

callbacks == <<data, registry, incoming, status, due, heard>>
callbackVars == <<vars, callbacks>>

Slot == {"wakeup_main", "dispatch_status"}
DATA_REMAINS == 0
COMPLETE == 1

CallbackTypeOK ==
  /\ TypeOK
  /\ data \in [Conn -> [Slot -> Data \cup {NULL}]]
  /\ registry \subseteq Data
  /\ due \subseteq Conn /\ heard \subseteq Conn
  /\ incoming \in [Conn -> 0..(MaxIncoming + 1)]
  /\ status \in [Conn -> {DATA_REMAINS, COMPLETE}]

Nothing == [s \in Slot |-> NULL]

CallbackInit ==
  /\ Init
  /\ data = [c \in Conn |-> Nothing]
  /\ registry = {}
  /\ incoming = [c \in Conn |-> 0]
  /\ status = [c \in Conn |-> COMPLETE]
  /\ due = {} /\ heard = {}

----------------------------------------------------------------------------
(* Bug: no entry for DBUS_DISPATCH_DATA_REMAINS. *)
DispatchStatus_lstShifted(s) == << "complete", "need_memory" >>[s + 1]

DispatchStatus_lst(s) == << "data_remains", "complete" >>[s + 1]

StatusOf(n) == IF n > 0 THEN DATA_REMAINS ELSE COMPLETE

----------------------------------------------------------------------------
Blocks(C) == {data[c][s] : c \in C, s \in Slot} \ {NULL}

(* Bug: what libdbus gives back stays in the registry. *)
free_data_functionKept(C) == registry

(* What libdbus has for the connections in C is given back.                *)
free_data_function(C) == registry \ Blocks(C)

(* The application is told the status of the connections in C, as a string. *)
Told(C) ==
  LET remains == {c \in C : DispatchStatus_lst(status'[c]) = "data_remains"}
  IN  remains \cup (due \ C)

(* The end of an operation of libdbus: connections were freed, with their  *)
(* functions, and the status of the connections in C is compared with what *)
(* it was.  Their functions are called for a change, and an error in them  *)
(* is ignored; the operation returns the status of those in R.             *)
Updated(C, R) ==
  LET freed == {c \in Conn : refs'[c] = 0}
      called == {c \in C \ freed : /\ data[c]["dispatch_status"] # NULL
                                   /\ status'[c] # status[c]}
  IN  /\ status' = [c \in Conn |-> IF c \in freed THEN COMPLETE
                                   ELSE IF c \in C THEN StatusOf(incoming'[c])
                                   ELSE status[c]]
      /\ data' = [c \in Conn |-> IF c \in freed THEN Nothing ELSE data[c]]
      /\ registry' = free_data_function(freed)
      /\ \E failed \in BOOLEAN :
           /\ due' = Told(R \cup IF failed THEN {} ELSE called) \ freed
           /\ heard' =
                {c \in Conn \ freed :
                   /\ data'[c]["dispatch_status"] # NULL
                   /\ \/ c \in C /\ status'[c] = COMPLETE
                      \/ c \in heard /\ ~(failed /\ c \in called)}

(* After a step of module Connections: a connection that went down has the *)
(* message that says so at the end of its queue.                           *)
Follows(C) ==
  /\ incoming' =
       [c \in Conn |->
          IF refs'[c] = 0 THEN 0
          ELSE incoming[c] + IF c \in connected \ connected' THEN 1 ELSE 0]
  /\ Updated(C, {})

(* Something comes in from the other side: a message, or the end.          *)
Reads(c) ==
  /\ \/ /\ c \in connected /\ incoming[c] < MaxIncoming
        /\ UNCHANGED vars
     \/ PeerCloses(c)
  /\ incoming' = [incoming EXCEPT ![c] = @ + 1]

----------------------------------------------------------------------------
(* set_wakeup_main_function and set_dispatch_status_function.  A function  *)
(* that is installed while messages wait is not told of them.              *)
SetFunction(w, s, d) ==
  LET c == connection[w]
  IN  /\ c # NULL /\ d \notin registry
      /\ data' = [data EXCEPT ![c][s] = d]
      /\ registry' = (registry \cup {d}) \ {data[c][s]}
      /\ heard' = IF s = "dispatch_status" /\ status[c] = COMPLETE
                  THEN heard \cup {c} ELSE heard
      /\ UNCHANGED <<vars, incoming, status, due>>

(* The main loop handles a watch of c: something comes in, or it does not. *)
WatchHandle(c) ==
  /\ c \in connected
  /\ Reads(c) \/ UNCHANGED <<vars, incoming>>
  /\ Updated({c}, {})

(* read_write, and read_write_dispatch when nothing waits: whoever reads   *)
(* without the main loop has to look himself what there is to dispatch.    *)
ReadWrite(w) ==
  LET c == connection[w]
  IN  /\ c # NULL
      /\ Reads(c)
      /\ due' = due \cup {c}
      /\ UNCHANGED <<data, registry, status, heard>>

(* dispatch, which returns the status (returned), and read_write_dispatch  *)
(* when messages wait.  When the last message of a shared connection that  *)
(* is down has been taken, which is the one that says so, libdbus shares   *)
(* the connection no longer.                                               *)
Dispatch(w, returned) ==
  LET c == connection[w]
      left == IF incoming[c] > 0 THEN incoming[c] - 1 ELSE 0
  IN  /\ c # NULL /\ (returned \/ incoming[c] > 0)
      /\ incoming' = [incoming EXCEPT ![c] = left]
      /\ IF left = 0 /\ c \in shared \ connected
         THEN DispatchDisconnected(w) ELSE UNCHANGED vars
      /\ Updated({c}, IF returned THEN {c} ELSE {})

(* pop_message: what it takes is in no status, until libdbus looks again.  *)
PopMessage(w) ==
  LET c == connection[w]
  IN  /\ c # NULL /\ incoming[c] > 0
      /\ incoming' = [incoming EXCEPT ![c] = @ - 1]
      /\ UNCHANGED <<vars, data, registry, status, due, heard>>

(* A private connection is closed while its userdata still owns a count,   *)
(* so that its function may be called inside __gc; of one that is freed by *)
(* the next line that leaves no trace.                                     *)
CollectConnection(w) ==
  /\ ConnectionGC(w)
  /\ Follows(IF close[w] THEN {connection[w]} ELSE {})

CallbackNext ==
  \/ \E w \in Wrapper :
       \/ \E s \in Slot, d \in Data : SetFunction(w, s, d)
       \/ ReadWrite(w) \/ PopMessage(w)
       \/ \E returned \in BOOLEAN : Dispatch(w, returned)
       \/ SendWithReply(w) /\ Follows({connection[w]})
       \/ \E c \in Conn : (OpenShared(w, c) \/ GetPrivate(w, c)) /\ Follows({})
       \/ CollectConnection(w)
  \/ \E c \in Conn : WatchHandle(c) \/ (PendingCallFreed(c) /\ Follows({}))

CallbackSpec == CallbackInit /\ [][CallbackNext]_callbackVars

----------------------------------------------------------------------------
(* Properties.                                                             *)

(* The registry has exactly the blocks that libdbus may pass to a          *)
(* function, one for each: none is collected while it is in use, and none  *)
(* is left behind when its connection is freed, whoever dropped the last   *)
(* count.                                                                  *)
AnchoredExact ==
  /\ registry = Blocks(Conn)
  /\ \A b, c \in Conn, s, t \in Slot :
       data[b][s] = data[c][t] /\ data[b][s] # NULL => b = c /\ s = t

(* The two functions of each connection use the registry as module         *)
(* Anchoring says.                                                         *)
Anchors == INSTANCE Anchoring WITH
  Slot <- Conn \X Slot,
  Block <- Data,
  used <- [p \in Conn \X Slot |-> data[p[1]][p[2]]],
  kept <- registry

AnchoringImplemented == Anchors!Spec

(* A connection with messages to dispatch is on the list of the            *)
(* application, unless its function missed a change: it was installed when *)
(* messages were waiting, or raised an error, and since then libdbus has   *)
(* not found the queue empty.                                              *)
DueKnown == \A c \in heard : incoming[c] > 0 => c \in due
=============================================================================
