----------------------------- MODULE PendingCalls -----------------------------
(***************************************************************************)
(* Method calls waiting for a reply: src/src/pending_call.c and            *)
(* send_with_reply, dispatch and pop_message of src/src/connection.c.      *)
(*                                                                         *)
(* A DBusPendingCall is owned by its Lua userdata and, until it is         *)
(* completed or cancelled, by the connection.  The notify function lives   *)
(* in a data block in the Lua registry, which libdbus frees with the       *)
(* pending call.  Replies, and the errors that libdbus makes up when a     *)
(* call times out, wait in the queue of the connection until they are      *)
(* dispatched, which is when the call completes and Lua is called back.    *)
(*                                                                         *)
(* A member of Call is one request, never used twice, and a message is the *)
(* call it answers.  libdbus tells replies apart by serial number, which a *)
(* message gets when it is first sent and keeps when it is sent again, as  *)
(* a program that retries may do: then several requests have one serial.   *)
(*                                                                         *)
(* steal_reply moves nothing but a message, as TakeMessage of module       *)
(* MessageRefs does, and get_completed only looks.                         *)
(*                                                                         *)
(* On a connection that is down send_with_reply wraps a null pointer: any  *)
(* use of that userdata is undefined, and the model stops short of it.     *)
(***************************************************************************)
EXTENDS Integers, Sequences

CONSTANTS
  Call,     \* requests
  Data,     \* data blocks of set_notify
  Endless,  \* requests that are sent with the longest timeout, INT_MAX
            \* milliseconds, for which libdbus runs no timer
  NULL,     \* the null pointer
  UsesPop   \* whether the application takes messages with pop_message

ASSUME NullAssumption == NULL \notin Call \cup Data
ASSUME ChoicesAssumption == UsesPop \in BOOLEAN
ASSUME EndlessAssumption == Endless \subseteq Call

VARIABLES
  connected,  \* libdbus: whether the connection is up
  unanswered, \* the peer: requests that it may still reply to
  attached,   \* libdbus: calls that the connection waits for, with a count
  timer,      \* libdbus: calls whose timeout is running
  queue,      \* libdbus: messages to dispatch
  serial,     \* the first request sent with the message of each request
  refs,       \* the count in each pending call, 0 when it is not allocated
  completed,  \* calls that have a result
  notify,     \* the notify data of each pending call, or NULL
  notifying,  \* the notify functions that are running, the innermost first:
              \* for which call, referring to which, called by whom
  wrapped,    \* calls that have a userdata
  held,       \* calls whose userdata the application can reach by itself
  anchored,   \* the data blocks in the Lua registry
  captures,   \* the calls whose userdata the function in each block of the
              \* registry refers to
  fired,      \* history: how often each call's notify function was called
  done        \* history: calls given up: cancelled, cut off by another
              \* use of their serial, or by the end of the connection, or
              \* whose result the application took out of the queue

libdbus == <<connected, unanswered, attached, timer, queue>>
calls == <<serial, refs, completed, notify>>
lua == <<wrapped, held, anchored, captures>>
vars == <<libdbus, calls, lua, notifying, fired, done>>

Frame == [call : Call, captured : SUBSET Call, by : {"dispatch", "block"}]

TypeOK ==
  /\ connected \in BOOLEAN
  /\ unanswered \subseteq Call /\ attached \subseteq Call
  /\ timer \subseteq Call /\ completed \subseteq Call
  /\ wrapped \subseteq Call /\ held \subseteq Call /\ done \subseteq Call
  /\ queue \in Seq(Call)
  /\ serial \in [Call -> Call]
  /\ refs \in [Call -> Nat] /\ fired \in [Call -> Nat]
  /\ notify \in [Call -> Data \cup {NULL}]
  /\ notifying \in Seq(Frame)
  /\ anchored \subseteq Data
  /\ captures \in [Data -> SUBSET Call]

Init ==
  /\ connected = TRUE
  /\ unanswered = {} /\ attached = {} /\ timer = {} /\ queue = <<>>
  /\ serial = [c \in Call |-> c]
  /\ refs = [c \in Call |-> 0] /\ completed = {}
  /\ notify = [c \in Call |-> NULL]
  /\ notifying = <<>>
  /\ wrapped = {} /\ held = {} /\ anchored = {} /\ done = {}
  /\ captures = [d \in Data |-> {}]
  /\ fired = [c \in Call |-> 0]

----------------------------------------------------------------------------
(* dbus_pending_call_unref on each of the calls C, with the counts n: the  *)
(* last one frees the pending call, and with it the notify data, by        *)
(* free_data_function.                                                     *)
UnrefAll(n, C) ==
  LET freed == {c \in C : n[c] = 1}
  IN  /\ refs' = [c \in Call |-> IF c \in C THEN n[c] - 1 ELSE n[c]]
      /\ anchored' = anchored \ {notify[c] : c \in freed}
      /\ notify' = [c \in Call |-> IF c \in freed THEN NULL ELSE notify[c]]
      /\ captures' =
           [d \in Data |-> IF d \in anchored' THEN captures[d] ELSE {}]

Unref(c) == UnrefAll(refs, {c})

InProgress == {notifying[i] : i \in DOMAIN notifying}

InCallback(c) == \E f \in InProgress : f.call = c

(* The Lua code that runs has the userdata of c: as the application's own, *)
(* or because a notify function that is running refers to it.              *)
Usable(c) == c \in held \/ \E f \in InProgress : c \in f.captured

(* dispatch does not let another dispatch or pop_message in before it      *)
(* returns: a notify function that calls them would wait for itself.       *)
MayDispatch == \A f \in InProgress : f.by # "dispatch"

(* A request that was never made. *)
Unused(c) ==
  /\ refs[c] = 0 /\ c \notin completed \cup done \cup unanswered
  /\ \A i \in DOMAIN queue : queue[i] # c

(* The calls that the connection finds under the serial of c: one, or none.*)
Awaited(c) == {a \in attached : serial[a] = serial[c]}

(* Bug: libdbus gets the longest timeout whatever the program asked for. *)
SendWithReplyNoTimeout(c, o) ==
  /\ connected /\ Unused(c) /\ (o = c \/ ~Unused(o))
  /\ serial' = [serial EXCEPT ![c] = serial[o]]
  /\ attached' = (attached \ Awaited(o)) \cup {c}
  /\ timer' = timer \ Awaited(o)
  /\ done' = done \cup Awaited(o)
  /\ UnrefAll([refs EXCEPT ![c] = 2], Awaited(o))
  /\ unanswered' = unanswered \cup {c}
  /\ wrapped' = wrapped \cup {c} /\ held' = held \cup {c}
  /\ UNCHANGED <<connected, queue, completed, notifying, fired>>

(* send_with_reply of a new message (o is c) or of the one of o once more. *)
(* One count for the connection, one for the userdata.  Without a timeout  *)
(* libdbus gets -1, its own default, and a timer runs as well.  The        *)
(* connection drops what it waited for under the same serial.              *)
SendWithReply(c, o) ==
  /\ connected /\ Unused(c) /\ (o = c \/ ~Unused(o))
  /\ serial' = [serial EXCEPT ![c] = serial[o]]
  /\ attached' = (attached \ Awaited(o)) \cup {c}
  /\ timer' = (timer \ Awaited(o)) \cup ({c} \ Endless)
  /\ done' = done \cup Awaited(o)
  /\ UnrefAll([refs EXCEPT ![c] = 2], Awaited(o))
  /\ unanswered' = unanswered \cup {c}
  /\ wrapped' = wrapped \cup {c} /\ held' = held \cup {c}
  /\ UNCHANGED <<connected, queue, completed, notifying, fired>>

(* Bug: the data stays anchored when libdbus refuses it. *)
SetNotifyLeaks(c, d, captured) ==
  /\ Usable(c) /\ \A x \in captured : Usable(x)
  /\ d \notin anchored
  /\ captures' = [captures EXCEPT ![d] = captured]
  /\ \/ /\ notify' = [notify EXCEPT ![c] = d]
        /\ anchored' = (anchored \ {notify[c]}) \cup {d}
     \/ anchored' = anchored \cup {d} /\ UNCHANGED notify
  /\ UNCHANGED <<libdbus, serial, refs, completed, wrapped, held,
                 notifying, fired, done>>

(* set_notify: the new data is anchored, and libdbus drops the old one, or *)
(* refuses the new one for lack of memory, when it is freed again.  The    *)
(* function gets no arguments: what it has to reach (the reply, say) it    *)
(* must refer to, and it may refer to any userdata there is.               *)
SetNotify(c, d, captured) ==
  /\ Usable(c) /\ \A x \in captured : Usable(x)
  /\ d \notin anchored
  /\ \/ /\ anchored' = (anchored \cup {d}) \ {notify[c]}
        /\ notify' = [notify EXCEPT ![c] = d]
        /\ captures' = [b \in Data |-> IF b = d THEN captured
                                       ELSE IF b = notify[c] THEN {}
                                       ELSE captures[b]]
     \/ /\ anchored' = (anchored \cup {d}) \ {d}
        /\ UNCHANGED <<notify, captures>>
  /\ UNCHANGED <<libdbus, serial, refs, completed, wrapped, held,
                 notifying, fired, done>>

(* cancel: the connection forgets what it waits for under that serial and  *)
(* drops its count.                                                        *)
Cancel(c) ==
  /\ Usable(c)
  /\ attached' = attached \ Awaited(c) /\ timer' = timer \ Awaited(c)
  /\ done' = done \cup Awaited(c)
  /\ UnrefAll(refs, Awaited(c))
  /\ UNCHANGED <<connected, unanswered, queue, serial, completed,
                 wrapped, held, notifying, fired>>

(* The application drops its last own reference to the userdata, for good: *)
(* what a notify function refers to it may still use while it runs.        *)
Forget(c) ==
  /\ c \in held
  /\ held' = held \ {c}
  /\ UNCHANGED <<libdbus, calls, wrapped, anchored, captures, notifying,
                 fired, done>>

(* The collector frees a userdata that neither the application nor a       *)
(* function in the registry, or one that is running, refers to, and that   *)
(* no block in progress has as its argument (__gc).                        *)
Unreachable(c) ==
  /\ c \in wrapped \ held
  /\ \A d \in anchored : c \notin captures[d]
  /\ \A f \in InProgress :
       c \notin f.captured /\ ~(f.call = c /\ f.by = "block")

(* Bug: the userdata has no __gc. *)
PendingCallGCLeaks(c) ==
  /\ Unreachable(c)
  /\ wrapped' = wrapped \ {c}
  /\ UNCHANGED <<libdbus, calls, held, anchored, captures, notifying, fired,
                 done>>

(* Bug: a count is dropped that the userdata goes on to use. *)
PendingCallGCTwice(c) ==
  /\ Unreachable(c)
  /\ Unref(c)
  /\ UNCHANGED <<libdbus, serial, completed, wrapped, held, notifying,
                 fired, done>>

PendingCallGC(c) ==
  /\ Unreachable(c)
  /\ wrapped' = wrapped \ {c}
  /\ Unref(c)
  /\ UNCHANGED <<libdbus, serial, completed, held, notifying, fired,
                 done>>

----------------------------------------------------------------------------
(* libdbus: results come in, and are dispatched.                           *)

(* A reply is queued; the timeout of the call that waits for it stops.     *)
ReplyArrives(c) ==
  /\ c \in unanswered
  /\ unanswered' = unanswered \ {c}
  /\ queue' = Append(queue, c)
  /\ timer' = timer \ Awaited(c)
  /\ UNCHANGED <<connected, attached, calls, lua, notifying, fired, done>>

(* The main loop handles the timeout: an error is queued as the result.    *)
TimerFires(c) ==
  /\ c \in timer
  /\ timer' = timer \ {c}
  /\ queue' = Append(queue, c)
  /\ UNCHANGED <<connected, unanswered, attached, calls, lua, notifying, fired,
                 done>>

(* pending_notify_function calls the Lua function of c. *)
Notify(c, by) ==
  /\ notifying' = <<[call |-> c, captured |-> captures[notify[c]], by |-> by]>>
                    \o notifying
  /\ fired' = [fired EXCEPT ![c] = @ + 1]

(* Bug: the connection goes on waiting for a call that timed out. *)
CompleteOften(c, by) ==
  /\ completed' = completed \cup {c}
  /\ timer' = timer \ {c}
  /\ \/ /\ notify[c] # NULL
        /\ refs' = [refs EXCEPT ![c] = @ + 1]
        /\ Notify(c, by)
     \/ notify[c] = NULL /\ UNCHANGED <<refs, notifying, fired>>
  /\ UNCHANGED <<attached, notify, anchored, captures, done>>

(* Bug: the function is called only while the userdata exists. *)
CompleteIfWrapped(c, by) ==
  LET dropped == Awaited(c) \ {c}
  IN  /\ completed' = completed \cup {c}
      /\ attached' = attached \ Awaited(c) /\ timer' = timer \ Awaited(c)
      /\ done' = done \cup dropped
      /\ \/ /\ notify[c] # NULL /\ c \in wrapped
            /\ UnrefAll(IF c \in attached THEN refs
                        ELSE [refs EXCEPT ![c] = @ + 1], dropped)
            /\ Notify(c, by)
         \/ /\ notify[c] = NULL \/ c \notin wrapped
            /\ UnrefAll(refs, Awaited(c))
            /\ UNCHANGED <<notifying, fired>>

(* The call completes: its result is stored, and the connection lets go of *)
(* what it has under the serial.  If there is a Lua function, it is called *)
(* first: libdbus holds c during the callback, with the count that the     *)
(* connection had if that is what it waited for.                           *)
Complete(c, by) ==
  LET dropped == Awaited(c) \ {c}
  IN  /\ completed' = completed \cup {c}
      /\ attached' = attached \ Awaited(c) /\ timer' = timer \ Awaited(c)
      /\ done' = done \cup dropped
      /\ \/ /\ notify[c] # NULL
            /\ UnrefAll(IF c \in attached THEN refs
                        ELSE [refs EXCEPT ![c] = @ + 1], dropped)
            /\ Notify(c, by)
         \/ /\ notify[c] = NULL
            /\ UnrefAll(refs, Awaited(c))
            /\ UNCHANGED <<notifying, fired>>

(* The innermost notify function returns or raises an error, which is      *)
(* ignored.                                                                *)
NotifyReturns ==
  /\ notifying # <<>>
  /\ Unref(Head(notifying).call)
  /\ notifying' = Tail(notifying)
  /\ UNCHANGED <<libdbus, serial, completed, wrapped, held, fired, done>>

(* dispatch, for the message at the head; one that no call is waiting for  *)
(* goes to the message handlers.                                           *)
Dispatch ==
  /\ MayDispatch /\ queue # <<>>
  /\ queue' = Tail(queue)
  /\ \/ \E c \in Awaited(Head(queue)) : Complete(c, "dispatch")
     \/ /\ Awaited(Head(queue)) = {}
        /\ UNCHANGED <<attached, timer, refs, completed, notify,
                       anchored, captures, notifying, fired, done>>
  /\ UNCHANGED <<connected, unanswered, serial, wrapped, held>>

(* block, which a notify function may call as well: libdbus looks for the  *)
(* result in the queue, and goes on reading until it has it, the time is   *)
(* up or the connection is down; the call completes either way.            *)
BlockOn(c) ==
  LET answers(m) == serial[m] = serial[c]
  IN  /\ Usable(c) /\ c \notin completed
      /\ \/ \E i \in DOMAIN queue :
              /\ answers(queue[i])
              /\ \A j \in 1 .. (i - 1) : ~answers(queue[j])
              /\ queue' = SubSeq(queue, 1, i - 1)
                            \o SubSeq(queue, i + 1, Len(queue))
              /\ UNCHANGED unanswered
         \/ /\ \A i \in DOMAIN queue : ~answers(queue[i])
            /\ \/ (c \notin Endless \/ ~connected) /\ UNCHANGED unanswered
               \/ \E m \in unanswered :
                    answers(m) /\ unanswered' = unanswered \ {m}
            /\ UNCHANGED queue
      /\ Complete(c, "block")
      /\ UNCHANGED <<connected, serial, wrapped, held>>

(* pop_message hands the message at the head to the application instead,   *)
(* bypassing every handler and every pending call.                         *)
PopMessage ==
  /\ UsesPop /\ MayDispatch /\ queue # <<>>
  /\ queue' = Tail(queue)
  /\ done' = done \cup Awaited(Head(queue))
  /\ UNCHANGED <<connected, unanswered, attached, timer, calls, lua, notifying,
                 fired>>

(* The connection goes down: the peer replies no more, libdbus gives up    *)
(* some of its calls for good and leaves the others to their timeouts.     *)
Disconnect ==
  /\ connected
  /\ connected' = FALSE /\ unanswered' = {}
  /\ \E C \in SUBSET attached :
       /\ attached' = attached \ C /\ timer' = timer \ C
       /\ done' = done \cup C
       /\ UnrefAll(refs, C)
  /\ UNCHANGED <<queue, serial, completed, wrapped, held, notifying,
                 fired>>

Next ==
  \/ \E c \in Call :
       \/ \E o \in Call : SendWithReply(c, o)
       \/ Cancel(c) \/ Forget(c)
       \/ PendingCallGC(c) \/ ReplyArrives(c) \/ TimerFires(c) \/ BlockOn(c)
       \/ \E d \in Data, captured \in SUBSET Call : SetNotify(c, d, captured)
  \/ NotifyReturns \/ Dispatch \/ PopMessage \/ Disconnect

Spec == Init /\ [][Next]_vars

(* The main loop dispatches and handles timeouts, Lua functions return,    *)
(* and the collector finds what cannot be reached.                         *)
Fairness ==
  /\ WF_vars(Dispatch) /\ WF_vars(NotifyReturns)
  /\ \A c \in Call : WF_vars(TimerFires(c)) /\ WF_vars(PendingCallGC(c))

FairSpec == Spec /\ Fairness

----------------------------------------------------------------------------
(* Properties.                                                             *)

(* 1 if P, else 0. *)
Count(P) == IF P THEN 1 ELSE 0

(* A pending call is counted once for the connection that waits for it,    *)
(* once for its userdata and once for a callback in progress: it is freed  *)
(* neither under one of them (collected while its callback runs, cancelled *)
(* by its own callback) nor never.                                         *)
RefsExact ==
  \A c \in Call :
    refs[c] = Count(c \in attached) + Count(c \in wrapped)
                + Count(InCallback(c))

(* The Lua functions kept in the registry are those of the pending calls   *)
(* that exist: none is collected before libdbus could call it, none stays  *)
(* when it was replaced or its pending call is gone.                       *)
FunctionsAnchored == anchored = {notify[c] : c \in Call} \ {NULL}

(* set_notify, replacement and the end of a pending call use the registry  *)
(* as module Anchoring says.                                               *)
Anchors == INSTANCE Anchoring WITH
  Slot <- Call, Block <- Data, used <- notify, kept <- anchored

AnchoringImplemented == Anchors!Spec

(* A notify function is called once at most, also when a late reply        *)
(* follows the error of a timeout, when the application blocks on a call   *)
(* whose result is in the queue, and when a function is set in between.    *)
NotifiedOnce == \A c \in Call : fired[c] <= 1

(* The connection waits for c, and has something to wait for: a timeout,   *)
(* or a result that is in the queue already.  A request without a timeout  *)
(* that nobody answers waits for ever.                                     *)
Expected(c) ==
  /\ c \in attached
  /\ c \notin Endless \/ \E i \in DOMAIN queue : serial[queue[i]] = serial[c]

(* A call whose result is to come completes, unless it is cancelled or     *)
(* given up by libdbus, or the application pops its result itself.         *)
Completes == \A c \in Call : Expected(c) ~> c \in completed \cup done

(* ... and then the function set before that has been called. *)
Notifies ==
  \A c \in Call : Expected(c) /\ notify[c] # NULL
                    ~> fired[c] > 0 \/ c \in done

(* A completed call that the application has forgotten is freed, except    *)
(* while a function in the registry refers to its userdata: calls whose    *)
(* functions refer to their own or to each other's userdata keep           *)
(* themselves alive through the registry.                                  *)
Reclaimed ==
  \A c \in Call :
    c \in completed \ held
      ~> refs[c] = 0 \/ \E d \in anchored : c \in captures[d]
=============================================================================
