----------------------------- MODULE MessageRefs -----------------------------
(***************************************************************************)
(* Reference counting of DBusMessages by Lua userdata: src/src/message.c,  *)
(* src/src/message_iter.c and the places of src/src/connection.c and       *)
(* src/src/pending_call.c that hand a message from libdbus to Lua.         *)
(*                                                                         *)
(* A DBusMessage is freed when its count reaches 0.  Two kinds of userdata *)
(* own a count: the wrapper made by push_DBusMessage and the iterator of   *)
(* push_DBusMessageIter, through its field `message'.  libdbus owns counts *)
(* of its own for the messages in its queues and for the one it is         *)
(* dispatching.  The Lua collector runs a __gc metamethod at any moment at *)
(* which the userdata is not an argument of the running method.            *)
(*                                                                         *)
(* A freed DBusMessage's address may be handed out again, so a member of   *)
(* Message is an address: it is allocated iff refs[m] > 0.                 *)
(***************************************************************************)
EXTENDS Integers, FiniteSets

CONSTANTS
  Message,      \* addresses of DBusMessage objects
  Wrapper,      \* DBusMessage userdata
  Iter,         \* DBusMessageIter userdata
  NULL,         \* the null pointer
  MaxHeld,      \* bound: counts that libdbus itself owns on one message
  DistinctSub   \* TRUE: recurse and open_container never get the iterator
                \* itself as the iterator to set up

Userdata == Wrapper \cup Iter

ASSUME UserdataAssumption ==
  /\ IsFiniteSet(Wrapper) /\ IsFiniteSet(Iter)
  /\ Wrapper \cap Iter = {}
ASSUME NullAssumption == NULL \notin Message
ASSUME BoundAssumption == MaxHeld \in Nat
ASSUME DistinctAssumption == DistinctSub \in BOOLEAN

VARIABLES
  refs,     \* the count in each DBusMessage, 0 when it is not allocated
  message,  \* the message pointer in each userdata; NULL in a wrapper that
            \* does not exist (yet, or any more)
  cursor,   \* the message that the DBusMessageIter embedded in an iterator
            \* walks; NULL while libdbus has not set it up
  initialized, \* history: the iterators that a method handed out as set up,
            \* from a wrapper or from another such iterator
  held,     \* how many of the counts libdbus owns
  hasArgs,  \* whether the message carries at least one argument
  misuse    \* history: libdbus was passed a NULL or a freed message through a
            \* wrapper or an initialized iterator

vars == <<refs, message, cursor, initialized, held, hasArgs, misuse>>

TypeOK ==
  /\ refs \in [Message -> Nat]
  /\ message \in [Userdata -> Message \cup {NULL}]
  /\ cursor \in [Iter -> Message \cup {NULL}]
  /\ initialized \subseteq Iter
  /\ held \in [Message -> Nat]
  /\ hasArgs \in [Message -> BOOLEAN]
  /\ misuse \in BOOLEAN

Init ==
  /\ refs = [m \in Message |-> 0]
  /\ message = [u \in Userdata |-> NULL]
  /\ cursor = [i \in Iter |-> NULL]
  /\ initialized = {}
  /\ held = [m \in Message |-> 0]
  /\ hasArgs = [m \in Message |-> FALSE]
  /\ misuse = FALSE

----------------------------------------------------------------------------
(* dbus_message_ref and dbus_message_unref on a table of counts; both do   *)
(* nothing with NULL (libdbus checks its argument).                        *)
Ref(r, m) == IF m = NULL THEN r ELSE [r EXCEPT ![m] = @ + 1]
Unref(r, m) == IF m = NULL THEN r ELSE [r EXCEPT ![m] = @ - 1]

(* Whether m can be passed to libdbus while the counts are r. *)
Valid(r, m) == m # NULL /\ r[m] > 0

(* push_DBusMessage: a new userdata takes over one count of m. *)
PushMessage(w, m) ==
  /\ message[w] = NULL
  /\ message' = [message EXCEPT ![w] = m]

(* A constructor of libdbus returned m: a free address, with count 1. *)
Allocate(m, args) ==
  /\ refs[m] = 0
  /\ refs' = [refs EXCEPT ![m] = 1]
  /\ hasArgs' = [hasArgs EXCEPT ![m] = args]

----------------------------------------------------------------------------
(* message.c: constructors.  Out of memory they throw and change nothing.  *)

NewMessage(w, m) ==
  /\ Allocate(m, FALSE)
  /\ PushMessage(w, m)
  /\ UNCHANGED <<cursor, initialized, held, misuse>>

(* A message made from the one in the wrapper v: the arguments it starts   *)
(* with are none (new_method_return), an optional error text (new_error),  *)
(* or those of the original (copy).                                        *)
NewMessageFrom(v, w, m) ==
  /\ message[v] # NULL
  /\ \E args \in {FALSE, TRUE} : Allocate(m, args)
  /\ PushMessage(w, m)
  /\ misuse' = (misuse \/ ~Valid(refs, message[v]))
  /\ UNCHANGED <<cursor, initialized, held>>

(* Bug: __gc leaves the pointer in place, and could run again. *)
MessageGCTwice(w) ==
  /\ message[w] # NULL
  /\ refs' = Unref(refs, message[w])
  /\ misuse' = (misuse \/ ~Valid(refs, message[w]))
  /\ UNCHANGED <<message, cursor, initialized, held, hasArgs>>

MessageGC(w) ==
  /\ message[w] # NULL
  /\ refs' = Unref(refs, message[w])
  /\ message' = [message EXCEPT ![w] = NULL]
  /\ misuse' = (misuse \/ ~Valid(refs, message[w]))
  /\ UNCHANGED <<cursor, initialized, held, hasArgs>>

----------------------------------------------------------------------------
(* message.c and message_iter.c: iterators.                                *)

(* Bug: the pointer is cleared and the count is kept. *)
IterReleasedLeaks(i) ==
  [refs |-> refs, message |-> [message EXCEPT ![i] = NULL]]

(* unref_ldbus_message_iter on i, as the counts and the pointers it leaves.*)
IterReleased(i) ==
  [refs    |-> Unref(refs, message[i]),
   message |-> [message EXCEPT ![i] = NULL]]

(* iter_init: the old message of i is released before the new one is       *)
(* taken.  libdbus points i at the message in any case, and says whether   *)
(* there are arguments to walk: without any, nil is returned and i is left *)
(* without the message that it walks.  When the method makes the iterator  *)
(* itself, i is one that has no message.                                   *)
IterInit(w, i) ==
  LET m == message[w]
      r == IterReleased(i).refs
      start == hasArgs[m]
  IN  /\ m # NULL
      /\ refs' = IF start THEN Ref(r, m) ELSE r
      /\ message' = [message EXCEPT ![i] = IF start THEN m ELSE NULL]
      /\ cursor' = [cursor EXCEPT ![i] = m]
      /\ initialized' = IF start THEN initialized \cup {i} ELSE initialized \ {i}
      /\ misuse' = (misuse \/ ~Valid(r, m))
      /\ UNCHANGED <<held, hasArgs>>

IterInitAppend(w, i) ==
  LET m == message[w]
      r == IterReleased(i).refs
  IN  /\ m # NULL
      /\ refs' = Ref(r, m)
      /\ message' = [message EXCEPT ![i] = m]
      /\ cursor' = [cursor EXCEPT ![i] = m]
      /\ initialized' = initialized \cup {i}
      /\ misuse' = (misuse \/ ~Valid(r, m))
      /\ UNCHANGED <<held, hasArgs>>

(* What libdbus sets up in sub to walk what i walks.  An iterator that it  *)
(* has not set up itself, as ldbus.message.iter.new returns it, has memory *)
(* with anything in it: libdbus is taken to notice, and leaves sub alone.  *)
CursorFrom(i, sub) ==
  IF cursor[i] = NULL THEN cursor ELSE [cursor EXCEPT ![sub] = cursor[i]]

(* sub is as good as the iterator that it was set up from. *)
InitializedFrom(i, sub) ==
  IF i \in initialized THEN initialized \cup {sub} ELSE initialized \ {sub}

(* Bug: sub->message is never set. *)
SetUpSubUnowned(i, sub) ==
  /\ refs' = IterReleased(sub).refs
  /\ message' = IterReleased(sub).message
  /\ cursor' = CursorFrom(i, sub)
  /\ initialized' = InitializedFrom(i, sub)
  /\ misuse' = (misuse \/ (i \in initialized
                             /\ ~Valid(IterReleased(sub).refs, cursor[i])))

(* The part that recurse and open_container share: release what sub had,   *)
(* then let it walk what i walks, with a count of its own.  sub->message   *)
(* is read from i after sub was released.                                  *)
SetUpSub(i, sub) ==
  LET released == IterReleased(sub)
      m == released.message[i]
  IN  /\ refs' = Ref(released.refs, m)
      /\ message' = [message EXCEPT ![sub] = m]
      /\ cursor' = CursorFrom(i, sub)
      /\ initialized' = InitializedFrom(i, sub)
      /\ misuse' = (misuse \/ (i \in initialized
                                 /\ \/ ~Valid(released.refs, cursor[i])
                                    \/ ~Valid(released.refs, m)))

(* The methods take any two iterators, whether they were initialized or    *)
(* not; DistinctSub is what is asked of the program.                       *)
SubAllowed(i, sub) == DistinctSub => i # sub

Recurse(i, sub) ==
  /\ SubAllowed(i, sub)
  /\ SetUpSub(i, sub)
  /\ UNCHANGED <<held, hasArgs>>

(* libdbus opens a container only in an iterator that it has set up, and   *)
(* refuses any other (OpenContainerFails).                                 *)
OpenContainer(i, sub) ==
  /\ SubAllowed(i, sub)
  /\ cursor[i] # NULL
  /\ SetUpSub(i, sub)
  /\ UNCHANGED <<held, hasArgs>>

(* open_container when libdbus has no memory or refuses i: sub was         *)
(* released already and stays empty, and an error is thrown.  By its       *)
(* version, libdbus leaves in sub what was there or makes it invalid.      *)
OpenContainerFails(i, sub) ==
  LET released == IterReleased(sub)
  IN  /\ SubAllowed(i, sub)
      /\ refs' = released.refs
      /\ message' = released.message
      /\ \E m \in {NULL, cursor[sub]} : cursor' = [cursor EXCEPT ![sub] = m]
      /\ initialized' = initialized \ {sub}
      /\ misuse' = (misuse \/ (i \in initialized
                                 /\ ~Valid(released.refs, cursor[i])))
      /\ UNCHANGED <<held, hasArgs>>

(* append_basic and close_container may leave an argument in the message;  *)
(* the methods that read and advance the iterator leave it as it is.       *)
Append(i) ==
  /\ \/ /\ Valid(refs, cursor[i])
        /\ hasArgs' = [hasArgs EXCEPT ![cursor[i]] = TRUE]
     \/ UNCHANGED hasArgs
  /\ misuse' = (misuse \/ (i \in initialized /\ ~Valid(refs, cursor[i])))
  /\ UNCHANGED <<refs, message, cursor, initialized, held>>

(* clone copies the whole userdata of i, initialized or not, into a new    *)
(* iterator c.                                                             *)
Clone(i, c) ==
  /\ message[c] = NULL /\ cursor[c] = NULL
  /\ message' = [message EXCEPT ![c] = message[i]]
  /\ cursor' = [cursor EXCEPT ![c] = cursor[i]]
  /\ initialized' = InitializedFrom(i, c)
  /\ refs' = Ref(refs, message[i])
  /\ misuse' = (misuse \/ (message[i] # NULL /\ ~Valid(refs, message[i])))
  /\ UNCHANGED <<held, hasArgs>>

IterGC(i) ==
  /\ refs' = IterReleased(i).refs
  /\ message' = IterReleased(i).message
  /\ cursor' = [cursor EXCEPT ![i] = NULL]
  /\ initialized' = initialized \ {i}
  /\ misuse' = (misuse \/ (message[i] # NULL /\ ~Valid(refs, message[i])))
  /\ UNCHANGED <<held, hasArgs>>

----------------------------------------------------------------------------
(* Messages crossing between libdbus and Lua.                              *)

(* libdbus: a message comes in from the socket, or libdbus makes a reply.  *)
Arrive(m) ==
  /\ MaxHeld > 0
  /\ \E args \in BOOLEAN : Allocate(m, args)
  /\ held' = [held EXCEPT ![m] = 1]
  /\ UNCHANGED <<message, cursor, initialized, misuse>>

(* libdbus: one of its owners of m is done with it (it was written to the  *)
(* socket, its dispatch ended, the connection was closed).                 *)
Done(m) ==
  /\ held[m] > 0
  /\ held' = [held EXCEPT ![m] = @ - 1]
  /\ refs' = Unref(refs, m)
  /\ UNCHANGED <<message, cursor, initialized, hasArgs, misuse>>

(* Bug: the count that libdbus handed over is taken once more. *)
TakeMessageTwice(w, m) ==
  /\ held[m] > 0
  /\ held' = [held EXCEPT ![m] = @ - 1]
  /\ refs' = Ref(refs, m)
  /\ PushMessage(w, m)
  /\ UNCHANGED <<cursor, initialized, hasArgs, misuse>>

(* pop_message, steal_reply and send_with_reply_and_block: libdbus gives   *)
(* one of its counts to the caller, who wraps it.                          *)
TakeMessage(w, m) ==
  /\ held[m] > 0
  /\ held' = [held EXCEPT ![m] = @ - 1]
  /\ PushMessage(w, m)
  /\ UNCHANGED <<refs, cursor, initialized, hasArgs, misuse>>

(* Bug: the lent message is wrapped without a count of its own. *)
MessageFunctionNoRef(w, m) ==
  /\ held[m] > 0
  /\ PushMessage(w, m)
  /\ UNCHANGED <<refs, cursor, initialized, held, hasArgs, misuse>>

(* message_function: libdbus lends the message it dispatches, and keeps    *)
(* its count; the wrapper gets one of its own.                             *)
MessageFunction(w, m) ==
  /\ held[m] > 0
  /\ refs' = Ref(refs, m)
  /\ PushMessage(w, m)
  /\ UNCHANGED <<cursor, initialized, held, hasArgs, misuse>>

(* send and send_with_reply: libdbus queues the message with a count.      *)
Send(w) ==
  LET m == message[w]
  IN  /\ m # NULL
      /\ held[m] < MaxHeld
      /\ held' = [held EXCEPT ![m] = @ + 1]
      /\ refs' = Ref(refs, m)
      /\ misuse' = (misuse \/ ~Valid(refs, m))
      /\ UNCHANGED <<message, cursor, initialized, hasArgs>>

----------------------------------------------------------------------------
Next ==
  \/ \E w \in Wrapper, m \in Message :
       \/ NewMessage(w, m)
       \/ \E v \in Wrapper : NewMessageFrom(v, w, m)
       \/ TakeMessage(w, m)
       \/ MessageFunction(w, m)
  \/ \E w \in Wrapper : MessageGC(w) \/ Send(w)
  \/ \E w \in Wrapper, i \in Iter : IterInit(w, i) \/ IterInitAppend(w, i)
  \/ \E i, j \in Iter :
       \/ Recurse(i, j)
       \/ OpenContainer(i, j)
       \/ OpenContainerFails(i, j)
       \/ Clone(i, j)
  \/ \E i \in Iter : Append(i) \/ IterGC(i)
  \/ \E m \in Message : Arrive(m) \/ Done(m)

Spec == Init /\ [][Next]_vars

----------------------------------------------------------------------------
(* Properties.                                                             *)

(* The userdata that point to m through the message pointers f. *)
Holders(f, m) == {u \in Userdata : f[u] = m}

(* The count in a message is exactly the number of its owners: no path     *)
(* through the methods, the collector and libdbus drops a count (a message *)
(* freed under a live iterator) or leaks one (a message never freed).      *)
RefsExact ==
  \A m \in Message : refs[m] = Cardinality(Holders(message, m)) + held[m]

(* An iterator that a method set up and handed out walks the message on    *)
(* which it owns a count, so that the wrapper may be collected while the   *)
(* iterator is in use, however it was copied, reused and set up again.     *)
CursorOwned ==
  \A i \in initialized : cursor[i] # NULL /\ message[i] = cursor[i]

(* No method, in the middle of releasing one message and taking another,   *)
(* passes libdbus a message that has been freed or that is NULL, as long   *)
(* as the program goes on with iterators that were handed out to it.       *)
NoMisuse == ~misuse

(* message_iter.h says of the field: "NULL if this iterator hasn't been    *)
(* initialized with a message".                                            *)
NullOnlyIfUninitialized ==
  \A i \in Iter : message[i] = NULL => cursor[i] = NULL

(* What the counting is for: a message lives exactly as long as it has an  *)
(* owner, and it gets a new owner only from one that keeps it meanwhile.   *)
Lifetime == INSTANCE Ownership WITH
  Object <- Message,
  Owner <- Userdata,
  alive <- {m \in Message : refs[m] > 0},
  owns <- message,
  lent <- held

OwnershipImplemented == Lifetime!Spec
=============================================================================
