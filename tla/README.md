# A formal model of ldbus

ldbus binds libdbus to Lua: a dozen C files that wrap libdbus objects in Lua
userdata and route libdbus' callbacks to Lua functions.  The binding has little
code of its own and no threads, and yet most of what can go wrong with it takes
several actors: the Lua collector, which may run `__gc` at any allocation;
libdbus, which calls back in the middle of other operations and keeps counts and
data pointers of its own; the Lua functions called back, which may call the
binding again; and the peer and the clock, which decide when replies come.  This
directory models those interactions in TLA+, checks them with TLC on small
instances, and proves the main invariants with TLAPS for instances of any size.

Paths below are those of the repository: `src/connection.c` and so on.  (In
comments of the modules and in `PROJECT.json` they have the prefix `src/`.)

## 1. The system

| Part | State it keeps | Operations | Talks to |
|---|---|---|---|
| Messages (`src/message.c`) | userdata -> `DBusMessage*`, one count each | 5 constructors, `copy`, header setters and getters, `__gc` | iterators (share counts), connection (send, receive) |
| Iterators (`src/message_iter.c`) | embedded `DBusMessageIter`, pointer `message` with one count | `iter_init(_append)`, `recurse`, `open_container`, `close_container`, `clone`, `next`, `get_basic`, `append_basic`, `__gc` | messages |
| Watches (`src/watch.c`) | handle userdata -> `DBusWatch*` or NULL; registry slot per watch; data block with the Lua functions | add, remove and toggled callbacks, `handle`, `get_enabled`, ... | libdbus' list of watches, the application's main loop |
| Timeouts (`src/timeout.c`) | the same for `DBusTimeout` | the same, `get_interval` | the same |
| Pending calls (`src/pending_call.c`) | userdata -> `DBusPendingCall*`, one count; data block of the notify function | `set_notify`, `cancel`, `get_completed`, `steal_reply`, `block`, `__gc` | dispatch, timeouts, connection (owns a count until completion) |
| Object paths (`src/connection.c` 380-475) | data block per registration | `register_object_path`, `register_fallback`, `unregister_object_path`, `message_function` | dispatch, Lua threads |
| Connections (`src/connection.c`, `src/bus.c`) | userdata -> `DBusConnection*` with the flag `close` | `open`, `bus.get`, `bus.get_private`, `send*`, `dispatch`, `pop_message`, `read_write`, `set_*_functions`, `__gc` | everything |
| Wakeup and dispatch-status callbacks (`src/connection.c` 258-328) | a data block each | the two setters | libdbus' queue |
| Values (`src/message_iter.c` 111-304) | none | `append_basic`, `get_basic`; seconds to milliseconds (`src/connection.c` 108) | messages |
| Bus methods (`src/bus.c`) | none; the daemon keeps a queue of owners per name | `request_name`, `release_name`, `register`, queries, matches | the daemon, dispatch |
| Errors (`src/error.c`), tables (`src/ldbus.c`), `src/message/variant.lua` | none worth modelling | | |

What is hard about it, and which properties are about it, is listed line by line
under `hazards` in `PROJECT.json`.  In short: counts held by three kinds of
owner and moved by a dozen methods; handles that outlive what they point to;
callbacks that change what is being iterated over; results that race timeouts,
cancels and collections; installations and registrations that fail half-way;
and data blocks that must stay in the Lua registry exactly as long as libdbus
may call with them.

## 2. Modules

| Module | Models | Extends or instantiates |
|---|---|---|
| `Ownership` | abstract: an object lives exactly as long as somebody owns it, and gets new owners from owners only | |
| `Anchoring` | abstract: the registry has exactly the blocks of data that C uses; blocks come into use fresh | |
| `MessageRefs` | messages, iterators, hand-overs between Lua and libdbus | instantiates `Ownership` |
| `EventSources` | watches and timeouts: one protocol, two copies in C | instantiates `Anchoring` |
| `PendingCalls` | method calls waiting for a reply | instantiates `Anchoring` |
| `ObjectPaths` | registrations and dispatch to handlers | instantiates `Anchoring` |
| `Connections` | life of connections | instantiates `Ownership` |
| `Callbacks` | wakeup and dispatch-status functions, and the queue they tell of | extends `Connections`, instantiates `Anchoring` |
| `BusNames` | names on the bus: results, signals, and the daemon between them | extends `Connections` |
| `BasicValues` | what becomes of a Lua value on its way through a message | |
| `MC*` | what TLC needs in addition: symmetry sets, the tree of paths, the inputs | the module of that name |
| `*Proofs` | theorems and their proofs | the module of that name, `TLAPS`; `CallbacksProofs` and `BusNamesProofs` also `ConnectionsProofs` |

Definitions whose comment begins with "Bug:" stand before the definition they
distort.  No specification uses them; put in the place of the real one, each makes
TLC find a violation of the property that `PROJECT.json` lists with it under
`mutants`.  They show that the property depends on that part of the code.

Two abstract specifications say what ldbus has to achieve again and again.
`Ownership` is about counts: messages and connections live exactly as long as
somebody owns them.  `Anchoring` is about blocks of data, to which libdbus has
pointers that the Lua collector does not know of: a block is in the registry exactly
while it is in use, nobody else uses it, and it is new when it comes into use.  Four parts of
the code do the same with their blocks, each in its own way: watches and timeouts (where a
new block waits beside the old one and then takes its place), pending calls, object
paths, and the two functions of a connection.

Neither libdbus nor the daemon is part of the repository.  The models contain as
much of them as the binding relies on (counts, the lists of watches and timeouts,
the order of callbacks, the tree of object paths, the queues, the owners of
names), by the rules their callers in `src/` follow.  Such definitions are
marked `external` in the map.

### MessageRefs

`refs` is the count in each message, `message` the pointer in each userdata
(wrapper or iterator), `cursor` the message that the embedded `DBusMessageIter`
walks, `held` the counts libdbus owns.  An address is reused after its message
was freed.  The methods that accept an iterator to reuse are modelled with their
order of steps: what the iterator had is released (`IterReleased`), then the new
message is read and counted.  The collector's actions (`MessageGC`,
`IterGC`) are enabled whenever no method is running.

No method checks whether an iterator walks anything, and the actions do not either:
a fresh one from `ldbus.message.iter.new()` can be recursed into, appended to and cloned.
`initialized` has the iterators that a method handed out as set up: by `iter_init` and
`iter_init_append`, and by `recurse`, `open_container` and `clone` from another such iterator.
An iterator for which `iter_init` returned nil is not one of them, although libdbus has
pointed it at the message.  `misuse` records whether libdbus was ever handed a NULL or
freed message through a wrapper or an initialized iterator; what comes of the others, whose
memory may have anything in it, is left open.

The constant `DistinctSub` says whether an application refrains from passing an
iterator to its own `recurse` or `open_container`.  The runs and the theorem on `misuse`
assume it.

### EventSources

A source is a watch or a timeout, by `Kind`; the two differ in how the toggled
function is stored and installed (`ToggleStored`, `ToggleInstalled`).  A handle is the
userdata that the Lua add function got: `target` is its pointer, `registry` the
slot under the source's address, `loop` the handles that the Lua functions of a
data block have put into the main loop, `seen` what the loop believes about
their being enabled.  `AddFunction`, `RemoveFunction`, `ToggledFunction` and `FreeData`
are the C callbacks, with their results and the errors of the Lua functions
(`Faults`).  `SetFunctions` starts an installation, whose later steps are
libdbus': show every source to the new add function, take them back when one
fails, then call the old remove function for every source, then free the old data.

### PendingCalls

One member of `Call` is one request, and `serial` says with which message it was
first sent: a message keeps its serial number when it is sent again, so that
several requests may have the same one, of which the connection waits for the
last.  Whatever goes by the number (a reply, `cancel`, `block`, completion) finds that
one (`Awaited`).  `attached` are the calls the connection
waits for, `queue` the results not yet dispatched, `wrapped` the calls with a
userdata, `held` those the application can still reach by itself.
`captures` is what the notify function in each block refers to, any set of userdata that
the program could reach when it set the function, which is how a userdata stays
reachable through the registry; `PendingCallGC` is enabled for unreachable
userdata only.  `notifying` is the stack of notify functions that are running, the innermost
first.  Methods stay enabled while they run: a function may cancel, replace or forget its own
call, send a new one, and block on another, whose function then runs inside it (`Notify`).
Only what takes messages out of the queue is excluded inside a dispatch (`MayDispatch`),
because libdbus lets one dispatch run at a time.  `Complete` is what dispatch and `block` share.
The message that `steal_reply` takes is that of `TakeMessage` in `MessageRefs`.

A timeout of INT_MAX milliseconds is none for libdbus, and it is passed on like any other
(`src/connection.c` 108).  `Endless` has the requests that are sent with it: no timer
starts, and `block` waits for a reply or the end of the connection.

### ObjectPaths

`tree` has the data of each path's handler, `chain` what is left of the list of
handlers that libdbus made when dispatch began, `calling` the handler that is
running.  Registration and unregistration stay enabled while it runs.
`left` counts the values left on the stack of a Lua thread that registered
handlers (`Foreign`) without being the one that dispatches: `message_function`
leaves a true or false result there (`src/connection.c` 402-404), and refuses
with NEED_MEMORY when `lua_checkstack` fails.

### Connections

`close` is the userdata's flag; `shared` the connections that libdbus hands out
to everyone who asks, with a count of its own; `held` the counts of pending
calls; `lost` the connections that the other side ended.

### Callbacks

`Connections` with two functions per connection.  `data` has the blocks that
libdbus got, `registry` those anchored in Lua.  `incoming` and `status` are
libdbus' queue and the status it compared last: the dispatch-status function is
called for changes only.  `due` is what the application has made of it: the
connections to dispatch.

Not every operation ends with that comparison (`Updated`).  `read_write` puts messages into
the queue and announces nothing, so that whoever calls it has to look himself what there is to
dispatch; `pop_message` takes one and announces nothing either, and its nil takes no
connection off `due`.  `dispatch` and `get_dispatch_status` compare and return the status;
`read_write_dispatch` compares and does not return it.
An action of `Connections` is followed in the same step by what
libdbus does because of it (`Follows`): a connection that goes down has one more
message, one that is freed gives its blocks back.  Functions may raise errors,
which are ignored, and may be installed while messages wait; `heard` has the connections
whose function has missed nothing since libdbus last found the queue empty.
A function may be called inside `__gc`, by the closing of a private connection
(`CollectConnection`).

### BusNames

`Connections` with the daemon's `queue` of those who want a name, and their
`flags`.  A change of the queues comes with its `Signals`, in whatever order of the names;
`SetQueues` is what every change has in common, whether asked for (`Acquire`, `Release`)
or due to a connection that is gone (`Following`).  `request_name` and `release_name` take the answer past the signals that are in
`inbox`, or get none in time although the daemon did what it was asked.
`believes` is what a program concludes that follows results and signals as
they come.  `asked` remembers the options as the program wrote them, so that a
flag with the wrong bit shows.

### BasicValues

One step: a value of Lua is converted, stored into a member of the union and
read by libdbus through another (`AppendBasic`; `Converted` has nothing for what
`append_basic` refuses), or seconds become the C int of a
timeout (`SendWithReply`).  A byte has `Byte` values, so that TLC can try all integers of
"eight bytes" with bytes of one bit.  What C leaves undefined (a double out of
range, the rest of the union) may be anything.  Doubles are counted in halves,
which is enough to see what happens to fractions.

## 3. What TLC checks

| Run | Question | Instance | Result |
|---|---|---|---|
| `message_refs` | do counts equal owners through all methods, does an iterator own what it walks, is libdbus never handed a dead message through what ldbus set up, and is this shared ownership (`Ownership`)? | 3 messages, 2 wrappers, 3 iterators | holds |
| `iterator_no_args` | is `message` NULL only in an uninitialized iterator? | 2 messages, 2 wrappers, 2 iterators | violated |
| `timeouts` | do handles, registry, main loop and libdbus agree after every callback; is what is ready served? | 2 sources, 2 installations over time, 2 handles | holds |
| `watch_replaced` | does a slot keep to its source when functions are replaced, raise errors and run out of memory, and is the registry used as `Anchoring` says? | 2 sources, 2 data blocks, 3 handles | holds |
| `watch_reinstall` | does a handle outlive its watch when functions are replaced? | the same | violated |
| `watch_toggle` | does a toggled function given to `set_watch_functions` learn of toggles? | 2 sources | violated |
| `pending_calls` | are counts exact, is a function called at most once, also when a message is sent again, and are notify functions anchored as `Anchoring` says? | 2 calls, 2 functions | holds |
| `pending_live` | do calls complete, functions get called, forgotten calls get freed? | 2 calls, one without a timeout, 1 function, no `pop_message` | holds |
| `object_paths` | are handlers anchored as `Anchoring` says, no stale handler called, most specific first, every message dealt with? | 3 nested paths, 3 data blocks, 1 on another thread | holds |
| `connections` | are counts exact, connections closed before they are freed and never under another userdata; are functions anchored as `Anchoring` says; does the application know what to dispatch, as long as its function missed nothing? | 2 connections, 2 userdata, 3 data blocks, 1 message besides the one of the end | holds |
| `basic_values` | is what libdbus reads of the type it was told, an address only for a string, and what Lua reads back the value it wrote, where it fits, or its lower bits? | bytes of one bit, all integers, lowest byte first | holds |
| `bus_names` | does a program that follows results and signals know in the end what it owns, and lose names by consent only? | 2 connections, 2 userdata, 1 name, 2 signals | holds |

`AnchoringImplemented` contains the invariants `DataAnchored`, `FunctionsAnchored`,
`HandlersAnchored` and `AnchoredExact` (what is in the registry is what is in
use), on which the proofs rest; the runs check the refinement, which says more: where
a block may come from and go to.

**Bounds.**  Three messages are enough for an iterator to change from one to
another while a third is made or copied, three iterators for one to be set up from a second while a third
goes, and two wrappers for one to be made from the other.  Two sources let an installation fail between them.  Three handles let two
generations of handles exist beside a new one.  Two calls let one complete while
another's callback runs, and one function be called inside the other; two notify functions let
each call have one, or a callback replace itself.
Three nested paths give a fallback chain with a middle that can go while the
first runs.  Two connections let one go, or ask for a name, while the other stays;
two userdata
can be of one connection or of two, and three data blocks are one more than a connection has functions; one message
and the one that says that the connection is down leave something to dispatch after the first.  Two signals let a result
overtake one that says the contrary of the next.  The named bounds are `MaxHeld` (counts of libdbus on one message,
pending calls on one connection), `MaxQueue`, `MaxIncoming` and `MaxNews` (messages waiting) and `MaxStack`
(a Lua stack has thousands of slots; two show it filling up).  The theorems hold
for all values of all of these.

**Deadlock** is checked except for pending calls, where a request is never used twice and the instance comes to an end when all have been used, and for `BasicValues`,
where one value is one behaviour.

**Fairness.**  `EventSources`: an installation, which is one call of libdbus,
runs to its end, and the main loop serves a handle that stays servable.
`PendingCalls`: the main loop dispatches and handles due timeouts, notify
functions return, and the collector finds what stays unreachable.
`ObjectPaths`: the main loop goes on dispatching and handlers return.
`BusNames`: the program goes on dispatching each connection of which it has a
userdata.  These are
the application's part of the contract of `dispatch` and of the watch and
timeout functions.  Nothing is assumed of the peer, of new messages or of the
Lua program's other calls.

**Scope of single runs.**  `timeouts` assumes Lua functions without errors: with
errors the loop may miss what its function failed to add, which is the
application's doing.  `Served` is about sources that stay enabled and installed.
`Completes` and `Notifies` are about calls that have something to wait for (`Expected`), a timeout
or a result in the queue: a request without a timeout that nobody answers waits for ever,
in the code as in the model.  They let `cancel`, another use of the serial number and the end of the
connection take the result away; `pop_message`, which does so too, takes part in
`pending_calls` only (`UsesPop`).  In `pending_calls` every request has a timer (`Endless = {}`),
which need not go off: that includes what requests without one can do.
`Reclaimed` excludes calls to whose userdata a function in the registry refers: when it is
their own function, or functions refer to each other's userdata, registry, functions and
userdata keep each other alive for good.
As the callback gets no arguments (`README.md` 110) that is how most
programs will be written: a limitation of the interface rather than of a line of code.
`NoMisuse` and `CursorOwned` are about initialized iterators and `DistinctSub`, `DueKnown`
about connections whose function missed nothing (`heard`), as said above.
`Drains` excludes a handler that runs out of memory for ever, and a full stack.

### Disagreements between the code and its documentation

- `iterator_no_args`: `iter_init` with a message without arguments returns nil and sets `message` to
  NULL in the iterator it was given (`src/message.c` 147-149), but libdbus has set that iterator up to
  walk the message: it has no count on it, against the comment of the field (`src/message_iter.h` 14).
  Another way to the same: `it:recurse(it)` and `it:open_container(type, sig, it)` leave an
  initialized iterator without a message (`src/message_iter.c` 90-95), which
  `MessageRefs.cfg` with `DistinctSub = FALSE` shows as a violation of `CursorOwned`.
- `watch_reinstall`: replacing the functions on a connection with watches leaves the
  old handles valid, because old and new handle share one slot
  (`src/watch.c` 78, 99): they point to freed memory once the watch goes,
  against the comment at `src/watch.c` 98.  Moreover the new handles are
  invalidated although their watches are in service.  Timeouts have the same code.
  `WatchReplaced.cfg` with `NoDanglingHandle` and `Reinstall = FALSE` shows
  another way to the same: when an add function runs out of memory
  (`src/watch.c` 82-84), libdbus drops the watch and the handle stays valid.
- `watch_toggle`: `has_toggle` has the wrong sense (`src/connection.c` 194).

Others, for which there is no run:

- `send_with_reply` on a connection that is down succeeds and wraps a null
  pointer (`src/connection.c` 111-115), where `README.md` 49 promises a pending call.
- Without a timeout it passes -1 (`src/connection.c` 108), which is libdbus'
  default timeout; `README.md` 49 says that there will be none, which is what the longest timeout
  gives (`Endless`).
- `README.md` 28 has errors thrown on lack of memory, while `append_basic`,
  `close_container`, `send` and the setters of functions return `false`; after `false`, the
  serial number that `send` returns was never set (`src/connection.c` 98).
- `release_name` returns "non_existent" (`src/bus.c`), `README.md` 38 has "non_existant".
- `README.md` 41 has `add_match` return strings; the code returns `true`.
- `bus.get` and `bus.get_private` fail with `false`, not `nil` (`src/bus.c` 54 and 71,
  `README.md` 27); `open_container` throws rather than returning `nil`
  (`src/message_iter.c` 328, `README.md` 108).
- `set_timeout_functions` called with three arguments finds its own data block in the
  place of the toggled function (`src/connection.c` 241).
- The comment on the field `close` (`src/connection.h` 18) has the sense the wrong
  way round, which the mutant `ConnectionGCSwapped` shows to be no matter of taste.
- A boolean appended as a type wider than 32 bits, or as a narrower one on a
  machine with the highest byte first, is read in part from an uninitialized union
  (`src/message_iter.c` 258): `BooleanFits` is the condition under which it comes back.

## 4. What is proved

All proofs are checked by TLAPS to the last step, for all values of the
constants that satisfy the assumptions in the modules (finite sets of userdata
and of names, NULL outside the other sets, paths above a path form a chain).

| Module | Theorem | States |
|---|---|---|
| `MessageRefsProofs` | `TypeCorrect`, `Counting` | counts are natural numbers and equal the number of owners |
| | `NoUseAfterFree` | with `DistinctSub`, an initialized iterator owns what it walks, and libdbus is never handed a freed or NULL message through one or through a wrapper |
| | `ImplementsOwnership` | `Spec` implements `Ownership` |
| | `IteratorsKeepTheirMessage` | the first half of that by itself |
| `EventSourcesProofs` | `TypeCorrect`, `DataNeverDangles` | data blocks are in the registry exactly while libdbus may use them, replacements and failures included |
| | `HandlesNeverDangle`, `RegistryFollowsSources` | without replacement and lack of memory no handle outlives its source, and the registry has one slot per source, errors included |
| | `SlotsStaySound` | whatever happens, a slot never holds another source's handle |
| | `LoopFollowsRegistry`, `TimeoutTogglesSeen` | without errors either, the loop serves what is in service, and knows which timeouts are enabled |
| | `ImplementsAnchoring` | `Spec` implements `Anchoring`, in every configuration |
| `PendingCallsProofs` | `TypeCorrect`, `Counting` | a pending call is counted for the connection, the userdata and the running callback |
| | `FunctionsStayAlive` | the registry has the notify functions of the calls that exist, no more and no less |
| | `CalledAtMostOnce` | a notify function is called at most once, whatever races with what |
| | `ImplementsAnchoring` | `Spec` implements `Anchoring` |
| `ObjectPathsProofs` | `TypeCorrect`, `HandlersStayAlive` | the registry has the data of the handlers in the tree, no more and no less |
| | `NoHandlerAfterUnregister` | a handler called is still registered |
| | `TriedUpwards` | within an attempt, handlers go up the tree |
| | `ImplementsAnchoring` | `Spec` implements `Anchoring` |
| `ConnectionsProofs` | `TypeCorrect`, `Counting` | as for messages |
| | `NeverFreedOpen`, `OthersUndisturbed` | closed before freed, and never under another userdata |
| | `ImplementsOwnership` | `Spec` implements `Ownership` |
| `CallbacksProofs` | `CallbacksAreConnections` | the functions change nothing about the life of connections: all of the above holds for `Callbacks` |
| | `CallbackTypeCorrect`, `FunctionsAnchoredExactly` | blocks are in the registry exactly while libdbus may call with them |
| | `NoMessageForgotten` | what waits to be dispatched is known to the application, unless its function missed a change and the queue was not found empty since |
| | `ImplementsAnchoring` | `CallbackSpec` implements `Anchoring` |
| `BusNamesProofs` | `NamesAreConnections` | names change nothing about the life of connections: everything proved of `Spec` holds for `BusSpec` |
| | `BusTypeCorrect` | queues have registered connections that are up, each of them once |
| | `SignalsSettle` | a program that has dispatched its signals is right about what it owns |
| | `NoneLostUnasked` | an owner that is up loses a name by its own release, or by the options of both sides |
| | `ResultsAreTrue` | the string that `request_name` or `release_name` returns says who owns the name |
| `BasicValuesProofs` | `TypeCorrect`, `InRangeValuesComeBack`, `LowBitsSurvive` | the three properties of `basic_values`, for bytes of any even number of values (256 among them) and both orders of bytes |

**Arguments.**  *Counting* is inductive together with types: each action changes
the set of holders of at most two messages by one userdata, and the lemmas on
`Holders` say how its cardinality changes when a pointer moves.  *NoUseAfterFree* needs
in addition that an initialized iterator owns what it walks (`CursorOwned`): an owned
message has a positive count, by Counting, and releasing another userdata leaves
at least one.  *ImplementsOwnership* maps "alive" to a positive count; each action
is a step of `Ownership` or leaves its variables alone.  For connections what libdbus
owns is the sum of its pending calls and its own share (`Lent`): sending lends, and
`DispatchDisconnected` and the end of a pending call give back.

*HandlesNeverDangle* needs that every valid handle is the one in the slot of its
source and every slot holds a handle of that source (`PairedOn`), which is what
fails when functions are replaced.  *SlotsStaySound* needs only one direction of it, which
survives replacement.  *LoopFollowsRegistry* and *TimeoutTogglesSeen* follow the
sources in service through the phases of an installation (`InService`, `Owner`).
*DataNeverDangles* needs to know, for each phase, which of the two blocks is there and
that they differ.

For pending calls all goes into one invariant (`IInv`): the connection waits for
one request per serial number and for none that has a result (`AwaitedOnce`), no
block belongs to two calls or to a freed one (`DataApart`), only calls with
a result have been notified (`FiredCompleted`), no call is twice on the stack of functions that
run (`FramesApart`), and what they refer to has a userdata (`Referenced`).  The lemma `Unrefs` says what
dropping a set of counts does to counts, blocks and registry; `cancel`, the end of a
connection, sending again, collection and completion are instances of it.
`AwaitedOnce` is what makes completion drop the one count that it may drop.

*HandlersStayAlive* needs that different paths have different data.
*NeverFreedOpen* needs a witness: a connection that is up and not shared has a
userdata with `close` set, which owns a count (`HasCloser`), and it is the only
one (`ClosesAlone`), which gives *OthersUndisturbed*.  For `Callbacks` that
invariant is strengthened by what ties the list of the application to libdbus' status and
queue (`StatusKnown`) and the blocks to living connections (`LiveOnly`); each action is a step of `Connections` or leaves its
variables alone, so that the first half is inherited.

*ImplementsAnchoring* maps the places where libdbus keeps pointers to `used`.  That the
registry is what is in use after each step is the invariant of the component; what remains is
which action of `Anchoring` a step is: a block is put into one place (`Install`), the
blocks of what was freed are given back (`GiveBack`, by `UnrefAll` and `Updated`), or
the new data of an installation takes the place of the old (`Move`).

For names the invariant (`BusInv`) is that of `Connections`, the types, and three more parts.
`FlagsExact`: what the daemon knows of the options is what the program passed, which turns
the daemon's decision into *NoneLostUnasked*.  `NoneLeft`: an address that is used again
starts without signals and names.  `Informed`: of each connection that is up, the
last signal about a name that waits is true of the queue, and when none waits, so is what the
program believes.  That is what *SignalsSettle* lacks to be inductive: results overtake
signals, and calls without an answer leave only the signal behind.  A connection is told
of a name when its own part in it changes, and of every such name (`AllTold`, for which
the names must be finitely many), so that the last signal stays true; a result may be
believed because it is true of the new queue (`ToldTruly`).  Lemmas say what taking
an entry out of a queue, putting one in front and one at the end do to membership
and to its head (`EntryRemoved`, `PutFirst`, `PutLast`); `Acquired` and `Released` combine
them into what the two requests do.

The theorems on values rest on the uniqueness of quotient and remainder
(`DivModUnique`): what is stored into a member of the union is what that member
has (`RoundTrip`), an integer becomes its remainder (`IntegersAreCut`), and of a
boolean the lower bits are right where the lowest byte comes first.

**Only model-checked:** the liveness properties (`Served`, `Completes`, `Notifies`, `Reclaimed`,
`Drains`, `Heard`), which TLAPS cannot prove.  Every other property of a passing run
is stated by a theorem: the invariants, the action properties and the refinements.

## 5. What is not modelled, and the plan

What remains could be taken in this order:

1. `Containers`: nesting of open containers and the use of iterators out of turn,
   with `src/message/variant.lua` as a client.  libdbus keeps the nesting and leaves
   what happens out of turn undefined, so that a model needs rules of libdbus that
   no code in `src/` follows or states.
2. The end of a Lua state (`lua_close`): a shared connection outlives it, with pointers of libdbus to
   blocks that are gone, for nothing in ldbus takes the functions back.  What could be shown
   is only that nothing holds.

Left out for good: header setters and getters of messages, which touch nothing else;
`flush`, size limits and queries, `set_unique_name`, `start_service_by_name` and the match
rules, which are calls of libdbus and no more; finalizers of the Lua program that run after
those of the binding in `lua_close`; errors of Lua that jump over libdbus'
frames (the "XXX" comments), after which nothing is defined; functions that refer
to the userdata of their own connection, which keep it alive for good without
breaking any rule; Lua threads that are collected while a function runs on them;
`src/error.c`, whose userdata never get their metatable (the texts of errors are
leaked); the tables of `src/ldbus.c`; the vendored compat-5.3.

## 6. Running it

    tlc -config MessageRefs.cfg MCMessageRefs.tla
    tlapm MessageRefsProofs.tla

`PROJECT.json` lists every run with its module, configuration and properties,
and for each definition the lines of the source that it models.
