# Verification of whoa

whoa re-implements the WoW 3.3.5a client in C++. Most of `src/src` (graphics,
model rendering, sound) runs on one thread and computes on data. What is hard
to test is where threads, callbacks and messages meet: the file reader, the
loading of models, the network threads, the client's connection to the game
server and the login; and, on the one main thread, what calls back into itself
or keeps two structures in step by hand: frames and their scripts, the text of
an edit box, the dispatch of events, the client's copy of the server's objects,
and the bytes of the game connection. These TLA+ modules model those parts. TLC
checks them on small instances. For every size, TLAPS proves all the
safety properties but one (section 4), and that the loading of models and the
connections implement their abstract specifications.

    tlc -config WowConnection_safe.cfg MCWowConnection     # one run
    tlapm WowConnectionProofs.tla                          # the proofs of a module

`PROJECT.json` lists the runs, maps each definition to the lines it models, and
lists the hazards the properties are for.

## 1. The system

Paths are relative to `src/src`. Storm, common, bc and tempest are submodules
whose sources are not in the repository; what is used of them (intrusive lists,
events, semaphores, critical sections) is modelled from its use and marked
external where a definition stands for it.

| Component | State | Operations | Talks to | Hard behaviour | Correct means |
|---|---|---|---|---|---|
| `async/` file reader | free, read and post lists, `currentObject`, flags of each `CAsyncObject`, `s_asyncWaitObject` | allocate, submit, wait, cancel, destroy; reader thread; poll handler | reader thread under `s_queueLock`; user callbacks | cancelling during a read, waits that poll that call back, flags read without the lock | an object is in one place; no callback after a cancel; waits return; all requests are answered, by priority |
| `model/` loading | `CM2Shared`'s `asyncObject` and `m_...Loaded`, callback list, queued calls, loaded callback | create, load, finish, initialise, call, wait, release | users of the reader; `CSimpleModel` | two files in sequence, release during a read, calls before loading | no callback for a deleted model; calls in order, once; owners told |
| `net/connection` connections and threads | per connection: state, socket, references, service flags and count; list of connections; semaphore; workers | connect, disconnect, release; scan, signal; handlers | `WowConnectionResponse` callbacks on workers | scan against service, release against scan, late flags, 500 ms time-out | one server at a time; references counted; callbacks in order; disconnects happen |
| `net/connection` client | `m_netState`, `m_serverConnection`, event queue, `m_connected`, `m_statusCop` | connect, disconnect, poll; callbacks | worker writes, main thread reads, mostly without locks | every unlocked read | state follows the connection; queue in order; references match |
| `net/connection` framing | read buffer, cipher keys, `m_encrypt` | `DoMessageReads`, `Send`, `EnableEncryption` | connection; main thread and worker | short reads, headers of two sizes, encryption switched on in between | messages are the stream's; both ends stay in step |
| `net/grunt`, `net/login` | link state, login state, timer list | commands, answers, timer | connection, `ClientServices`, `CGlueMgr` | answers on the worker, calls on the main thread and the timer's | a session key is proved by both ends; a login ends |
| `glue/` | `m_idleState`, pending flags | `Idle`, polls, script calls | `ClientConnection` | operations replaced or cancelled while under way | the screen waits for what is done |
| `event/` | context, handler lists, ring of inputs, keys down | register, unregister, dispatch, synthesize, input | everything | handlers that change the list being dispatched; a full ring | every handler once, in order; no key stuck |
| `object/` | active and disabled objects, visible, reenabled and cleanup lists | two passes over updates, disable, reenable, collect | messages | objects that leave, come back, are created again or collected | the client sees what the server told |
| `ui/` frames | visibility, level, parent, event mask; strata lists; event queues; focus, captures | show, hide, level, parent, enable, input, update | scripts, which call any of it again | scripts in the middle of an operation | tree, strata, queues and focus agree |
| `ui/` edit boxes | text, `m_textInfo`, cursor, dirty flags | type, move, delete, set | scripts | codes without width, kept by hand | the info is that of the text |
| `gx`, `ui` layout and scripts, `sound`, `component`, `db`, `console`, `world`, `client`, `util` | see PROJECT.json | sequential | | | |

Reading, main thread only: `event` dispatches EVENT_ID_POLL, whose handlers are
`AsyncFileReadPollHandler` and `PollNet`; everything the other components do
on the main thread happens between two such polls or in their callbacks.

## 2. Modules

| Module | What | Uses |
|---|---|---|
| `IntrusiveList` | `TSList` as sequences: unlink, insert, members | |
| `AsyncFileRead` | the file reader with any user that keeps the discipline of the callers in `src/src` | `IntrusiveList` |
| `ModelLoading` | `CM2Shared`, `CM2Model`: the real users of the reader | `INSTANCE AsyncFileRead`, refined |
| `ConnectionCallbacks` | abstract: what a connection promises its owner | |
| `WowConnection` | connections, network thread, workers | refines `ConnectionCallbacks` |
| `NetClient` | the client over its connections | `INSTANCE ConnectionCallbacks` |
| `GruntLink` | the links to the login server, their timers and the worker | |
| `GlueLogin` | the login and character screens over the links and the game's connection | extends `GruntLink` |
| `Frames` | `CSimpleFrame`, `CFrameStrata`, `CSimpleTop`, with scripts that call back | |
| `EditText` | `CSimpleEditBox`'s text | |
| `EventDispatch` | a turn of the scheduler, handler lists, input | |
| `ObjectUpdates` | the object manager and update messages against a table of the server | |
| `MessageStream` | `DoMessageReads` and the switch to encryption, against a server | |
| `MCParts` | the last five, one in each behaviour | |
| `IntrusiveListLemmas` | lemmas about lists and sequences | TLAPS |
| `AsyncFileReadProofs`, `ModelLoadingProofs`, `WowConnectionProofs`, `NetClientProofs`, `GlueLoginProofs` | theorems about the module of that name | TLAPS |
| `FramesProofs` | theorems about `Frames` | TLAPS |
| `PartsProofs` | theorems about `MessageStream`, `ObjectUpdates`, `EventDispatch` and `EditText` | TLAPS |
| `MC...` | constants and symmetry for TLC | |

Two compositions go through an interface, so that neither side has to be
explored with the other:

* `ModelLoading` drives the reader's actions through `Reader == INSTANCE
  AsyncFileRead`, and `ReaderSpec` checks that every behaviour is one of
  `AsyncFileRead`. What is proved of the reader holds of the reader as models
  use it.
* `WowConnection` is shown to implement `ConnectionCallbacks`
  (`CallbacksSpec`), with what the owner was told, which connections it is
  being called back for, and which are to disconnect as the abstract state.
  `NetClient` takes its callbacks from the same module, with no stream
  connections and one worker. `ConnectsIdleConnection` is the other half of
  the contract: NetClient connects only connections that `MayConnect` allows.

### How state and actions correspond to the code

*AsyncFileRead.* Each section under `s_queueLock` is one step. The main thread
nests calls (a wait polls, a poll calls back, a callback waits), so its program
counter is `stack`, a sequence of frames. `freeList`, `readList`, `postList`
and `currentObject` are the code's; the file and its bytes are left out, as are
the streaming queues, since `SFile::IsStreamingMode` is constantly false.
`held` and `awaited` are history: the pointers users keep, and the objects that
active waits have not yet seen processed.

*ModelLoading.* `CreateModel` is the whole of `CM2Scene::CreateModel`,
`CreateShared`, `Load` and `CallbackWhenLoaded`. Callbacks are the reader's
user frames: `LoadSucceeded` then `LoadSkinProfile`, or `SkinProfileLoaded`.
Calls on a model are numbered; `applied` is what was done, `calls` what is
queued. A model with flag 0x20 (`deferred`) is initialised by `WaitForLoad`
only. `CreateShared` makes new shared data for each model, so there is one
`asyncObject` per model.

*WowConnection.* A section under `m_lock` is one step unless another thread
can see its middle: `StartConnect` is five steps, since the network thread
scans under `m_connectionsLock` and reads `m_connState` without `m_lock`.
`sock` is "stale" between `CloseSocket` and `m_sock = -1`. `Release` is two
steps, the decrement and `WowConnectionNet::Delete`. `polled` is the network
thread's array, with what `select` watched when it was filled: what is signalled
later may be about an older state, and the model allows any such outcome.
`fault` names undefined behaviour that was reached (use of a deleted
connection, a number closed twice, the stale pointer of a scan during
`StartConnect`, a socketless connection in a descriptor set); the model stops
there, and the properties say which of them cannot happen, or under which
condition. The sockets are non-blocking as the code makes them on macOS and
Windows; on Linux, which README.md lists as in progress, `StartConnect` sets no
such mode and `connect` blocks.

*NetClient.* One step per access to a variable the threads share: the
worker's `at` is its place in `ConnectToSelectedServer`, `Connect`,
`ConnectInternal` or a callback; the main thread's `giveUp` its place in
`Disconnect`. The event queue's lock is held by `Poll` for all of its events,
so `AddEvent` waits for `polling = 0`, and each event is still a step of its
own. Events carry their connection as history; the code does not store it.
`raced` records that one of two races happened after which nothing is
promised: an event of a connection that had been given up was handled (possible
because `WCDisconnected` does not compare the connection, and others compare
before the main thread replaces it), or a connection was given up while the
worker was connecting. What these races lead to is what `client_fatal` shows
and what `WowConnection`'s outcome "freed" stands for.

*GruntLink and GlueLogin.* Every login has a link of its own and none is ever
destroyed, so the links go on while the glue has a new one. Three threads: the
worker parses answers and reports, the timer calls `GetLogonMethod`, the main
thread goes round input, `PollNet`, `CGlueMgr::Idle`. `mixed`, `overtaken` and
`raced` are histories of the three unlocked meetings after which the screens
are not what they should be: a login that was replaced reports, HANDSHAKING
overwrites a later report, and the worker completes an operation that is not its
own or while `PollStatus` reads it. SRP6 is whether a proof is accepted.

*Frames.* One thread, but a script may call anything in the middle of anything,
so the call stack is state: `calls` holds what is left to do. `HideThis`
becomes `HideThis`, `Removed`, `HideChildren`, with OnLeave and OnHide scripts
between them; the loops over children and over a level are entries that push
themselves again. `SetParent` becomes `SetParent`, `Reparent` (the new parent and
level), `SetBeingScrolled` and `ScrollChildren` (which hide and show every frame
down the lists of children that is still visible, with their scripts) and
`Attach` (the new parent's list). All frames are in one strata and geometry is the set of
frames under the mouse. `quirks` records what a script did after which the code
does not restore its structures; each property names those it excepts, and
holds in every behaviour without them.

*EditText.* A byte is a token and its number in it; `info` is `m_textInfo`.
Tokens are letters of one and two bytes, and the starts and ends of colours and
links. The walks of `GetNumToLen` and of `DeleteSubstring` are written as the
sets of offsets they pass or stop at. The overlapping `memcpy` calls are taken
to do what `memmove` does, which is what the code means by them. `UpdateSizes`,
for a new size of the frame, may come at any time.

*EventDispatch.* One context and one scheduler thread, as `EventInitialize`
makes them, with any lists of handlers that are in order (`Initial`). `list` has
the marker node in it while an event is dispatched. The system puts input
between two turns; `device` is what the system knows of its keys, `dropped` the
keys whose last input the ring lost.

*ObjectUpdates.* A message is a sequence of updates, passed twice; `server.view`
is what the client was told and not told to forget, `server.parted` what it may
be told of again. Fields that are not sent in a creation are zero. The clock is
modulo `Width`, and the time of disabling is that of the world's last tick.

*MessageStream.* A byte carries the message it is of, its place there and how
far the server's cipher had been used before the message, so that deciphering is
legible or not; the worker reads
with `m_lock`, which it leaves around `WCMessageReady`. `NetClient::Send` is
three steps: the message, the keys without the lock, then the keys and
`m_encrypt` with it.

## 3. Runs

| Run | Instance | Shows |
|---|---|---|
| `async_nested` | 3 objects, 3 priorities, 3 requests, waits nested 2 deep | `OnePlace`, `NoNullPointer`, `NoLateCallback`, `FlagsMatchLists`, `KeepsOrder` |
| `async_live` | 2 objects, 3 requests, one wait at a time, fair | `WaitMeansProcessed`, `WaitReturns`, `RequestAnswered` |
| `model_safe` | 2 models, 2 objects, 2 calls each, 4 requests | `CallbackForLiveModel`, `ModelsComplete`, `CallsInOrder`, `ReaderSpec` (refinement), `WaitForLoadLoads` |
| `model_live` | the same without calls, fair | `LoadingEnds` |
| `conn_safe` | 1 stream and 2 message connections, 1 worker, 3 connects | `ConnectionsCounted`, `ReleasedOnce` |
| `conn_two` | 1 stream and 1 message connection, 2 workers, 2 connects, fair | `OneServer`, `WorkerForPermit`, `CallbacksSpec` (refinement), `EventuallyDisconnected` |
| `client_safe` | 2 connections, 3 connects, data while fewer than 2 events wait, fair | `ClientFollows`, `ConnectsIdleConnection`, `EventsInOrder`, `DisconnectingEnds` |
| `client_refs` | violated | `RefPerEvent` |
| `client_fatal` | violated | `NeverFatal` |
| `login_safe` | 2 logins, 3 actions of scripts or 2 and a fault, fair | `SessionsSound`, `OperationOfIdle`, `DisconnectExpected`, `SelectsAfterAccept`, `WaitsEnd` |
| `login_assert` | violated | `VersionAfterChallenge` |
| `parts` | frames: 3 frames and 2 script operations, or 2 and 3, or 4 and 5 of given kinds; text: 10 bytes, 5 texts of scripts; events: 6 handlers, 3 changes, 2 keys, ring of 3; objects: 3 of 2 types, 4 updates, 2 in a message, clock of 8; stream: 3 sizes of payload, 4 messages, 3 sends, 2 connections | `FramesAgree`, `NoEndlessRecursion`, `FocusAgrees`, `TextSound`, `DeletesOne`, `EventsSound`, `EachCalledOnce`, `ObjectsAgree`, `LeaveWhenDue`, `StreamInStep` |

A property of a run may be the conjunction of named parts that together say that
some structures agree; each part is a definition with its own comment, and each
has a mutant that breaks it:

| Property | Parts |
|---|---|
| `ModelsComplete` | `TypeOK`, `LoadedIsComplete` |
| `LoadingEnds` | `EventuallyLoaded`, `OwnerNotified` |
| `ConnectionsCounted` | `TypeOK`, `RefsCounted`, `LinkedIfOpen` |
| `ReleasedOnce` | `StreamsDeletedOnce`, `SocketClosedOnce` |
| `ClientFollows` | `TypeOK`, `StateOfConnection` |
| `EventsInOrder` | `ReplacedFirst`, `DataWhileConnected` |
| `SessionsSound` | `TypeOK`, `SessionProved`, `OneLogon` |
| `WaitsEnd` | `LoginEnds`, `ReconnectEnds` |
| `FramesAgree` | `FramesTypeOK`, `VisibleTree`, `ServedIfVisible`, `UpdatesTheRest` |
| `FocusAgrees` | `FocusOnTop`, `HighlightFollows`, `CapturesVisible` |
| `TextSound` | `EditTypeOK`, `InfoIsParse`, `CursorOnToken`, `ReadsInside`, `LinksWhole`, `NoLetterIntoLink`, `ChangeReported` |
| `EventsSound` | `EventTypeOK`, `Sorted`, `ModifiersAgree`, `NoStuckKeys` |
| `EachCalledOnce` | `CalledOnce`, `NoneSkipped`, `QuietAfterClose` |
| `ObjectsAgree` | `ObjectTypeOK`, `ViewAgrees`, `ActiveOrDisabled`, `SecondPassFinds`, `FreedAsAllocated` |
| `LeaveWhenDue` | `PlayerStays`, `CollectsOldest` |
| `StreamInStep` | `StreamTypeOK`, `InStep`, `DeliversWhole`, `AsksForBytes`, `ServerInStep` |

The five parts of `parts` share no variable, and the properties of one speak of it alone, so a
behaviour of `MCParts` runs one of them while the others stay as they began:
their state spaces are added, not multiplied.

Bounds. Three objects let one be read, one be posted and one be queued or in a
callback at a time; the free list hands objects out again, so requests exceed
objects in some runs. Two models exhibit everything models share, which is the
reader alone. In `conn_safe`, three connections are the login connection, a game
connection that is given up and its successor; in `client_safe`, a connection
that was given up is used again for its successor's successor. `MaxConnects`
allows a reconnection after each. In `conn_two` both connections connect once or
one of them twice. Waits are nested at most twice: no caller in `src/src` nests any, and
two deep suffices to overwrite `s_asyncWaitObject`. In `NetClient` only data
is bounded by `MaxQueue`, never the connection's own events. Two logins are the
one that is replaced and the one that replaces it; with three actions of scripts
one can log in, cancel and log in, or log in, change realm and leave; with two
actions and a fault, a connection fails in any of the waits that two actions lead to.

In `parts`: a window with a button and a label has a parent, children, frames
with and without mouse, and two under the mouse at once; two operations of
scripts nest an operation in one in an operation of the code, and the three that
a label and a button have make a level that has to be clamped. Four frames whose
five operations are fixed, but not where and in which script each is called, move one
frame below another and back while a script shows the first and hides its new
parent, which is what the quirk `unlisted` is for. Scripts ask for level 3, one
above what `MaxShift` (128 in the code, 2 here) allows a frame of level 0 in one step;
`MaxLevel` and `MaxDepth` are above what these operations reach without a loop. Ten bytes hold a
link in a colour and two letters more. A ring that keeps two inputs overflows at
the third. Two objects of one type with a clock that wraps distinguish the head
of a list from the rest. Payloads of 2, 3 and 6 bytes have headers of both
sizes, are at and above a buffer of 2 that doubles twice, and end at and behind
the part that is enciphered.

Deadlock checking is off where the system may stop: a fault ends
`WowConnection`, an assertion ends `NetClient` and `GlueLogin`, the program
ends in `EventDispatch`, a recursion without end and a read before an array end
`Frames` and `EditText`, and with all bounds used up there may be nothing left
to do.

### Fairness

* The reader thread and the main thread's calls are weakly fair: threads run
  and calls return when their locks are free. The event loop's poll is
  strongly fair: it is disabled during waits, but the loop comes back to
  EVENT_ID_POLL whatever its other handlers do. Users are not fair.
* Network thread and workers are weakly fair; a worker's reads end
  (`WorkerReads`, strong): a peer does not send without end, the premise under
  which `DoMessageReads` returns. In `conn_two` a worker is never busy for
  500 ms (`TimesOut` is false): if every wait for the semaphore timed out,
  nothing would ever be served.
* In `NetClient`, the callback "disconnected" of a connection that was told to
  disconnect is strongly fair: that is `EventuallyDisconnected` of
  `WowConnection`. The worker's steps are strongly fair because `Poll` holds
  the queue's lock again and again, but not for ever.

* In `GlueLogin` the main loop, the timer of each link, the worker, the login
  server's answers and the game server's are weakly fair: each of them runs
  whatever the others do. Scripts and faults are not.

`parts` assumes no fairness: its properties are about safety. That a program
which was asked to end does so needs handlers that return and no endless input,
which is not checked.

### What the three violations show

* `RefPerEvent`. `NETEVENTQUEUE::Poll` says its `DelRef` matches "1:1" the
  reference of `AddEvent`. `NetClient::Disconnect` of a client that is not
  connected clears the queue without `DelRef`. Nothing deletes clients today,
  so it is a leak.
* `NeverFatal`. `NetClient::Connect` ends the process if the state is not
  `NS_INITIALIZED`. The user's Cancel runs `NetClient::Disconnect` on the main
  thread; overlapping the worker's `Connect` it sets the state back to
  `NS_INITIALIZED` while the connection is connecting. A second login then
  passes the test in `ConnectToSelectedServer`, the first connection's
  NET_CONNECT is handled, and the assertion fails.

* `VersionAfterChallenge`. `ClientLink::ProveVersion` asserts that a challenge
  was answered. When the server closes the stream between its challenge and the
  frame that proves the version, `WCDisconnected` sets STATE_NONE and tells the
  glue nothing, so the login screen still proves the version.

### What the checked properties except

Some properties hold except after an event that the model records, because the
code does not provide for it. These are the places a change of the code should
look at first.

* Frames (`quirks`). `SetParent` (CSimpleFrame.cpp:1618) adds the frame to the
  new parent's `m_children` and never takes it from the former one's: hiding the
  former parent hides it (`orphaned`), and a frame made the child of its former
  child is shifted and walked over for ever (`looped`, then `overflow`). Between setting
  `m_parent` and that list, `SetBeingScrolled` (CSimpleFrame.cpp:1604) runs the
  OnHide and OnShow scripts of frames that are still visible; if one shows the
  frame and then hides the new parent, the hiding does not come to the frame, which
  stays visible under a hidden parent (`unlisted`). A script that shows a
  frame while it is being hidden, or while `SetParent` has it hidden, leaves it
  visible but not in its strata (`reshown`); one that changes its level then
  leaves `pendingFrame` at a frame of another level (`shifted`). `DisableEvent`
  clears the mask after OnLeave, so a frame registered by that script stays
  registered (`requeued`). `OnMouseMove` calls OnEnter for a frame that the
  OnLeave before it hid (`hasty`). `OnKeyDown` captures the key for a frame whose
  handler hid it (`escaped`). `pendingFrames` is never combined into `frames`:
  a frame added to a level while that level is updated is not updated or drawn
  (`late`).
* EditText (`oddities`). A colour that begins or ends in a link makes a deletion
  cut the link (`nested`, then `broken`). A text of a script that begins with an
  end code makes Backspace and Left behind it read before `m_textInfo`
  (`headless`, then `underrun`). By `PrevCharOffset`, typing is refused between a
  one-byte letter and a link behind it, and allowed in a link behind a letter
  of two bytes; Backspace of a one-byte letter before a link deletes the link
  too, and between two links both.
* EventDispatch. A handler that registers itself again is called again in the
  same dispatch. An input that the full ring drops makes its key wrong until the
  next input for it (`dropped`).
* ObjectUpdates (`missed`). An object that the client has collected is not
  created by an update "in range"; the client does not see it until the server
  creates it again.
* MessageStream (`mishaps`). The worker may read the answer to the first message
  before encryption is on (`raced`). `m_readBytes` is not reset between two
  connections of one object (`leftover`).
* GlueLogin (`mixed`, `overtaken`, `raced`) and NetClient (`raced`): section 2.

Without a property: `DoMessageReads` does not take the end of the stream
(WowConnection.cpp:457) for a disconnection; `HandleCantConnect`
(NetClient.cpp:243) leaves NS_CONNECTING until the user cancels; a model whose
file cannot be used tells nobody (CM2Shared.cpp:403); `m_realmList` is read by
scripts while the worker fills it (LoginResponse.cpp:12); `GarbageCollect` of
ID_OBJECT (MessageHandlers.cpp:576) indexes a list with -1;
Nothing in the repository promises more of
them, or what they do is undefined.

## 4. Proofs

Each theorem holds for every value of the constants that the module's
assumptions allow: any sets of objects, models, connections, workers, handlers
and keys, any sizes, and any values of the bounds.

| Theorem | States |
|---|---|
| *AsyncFileReadProofs* | |
| `TypeCorrect` | `Spec => []TypeOK` |
| `ObjectsInOnePlace` | `Spec => []OnePlace` |
| `FlagsAgree` | `Spec => []FlagsMatchLists` |
| `NoCallbackAfterCancel` | `Spec => []NoLateCallback` |
| `PointersNotNull` | `Spec => []NoNullPointer` |
| `OrderKept` | `Spec => KeepsOrder` |
| `WaitsUntilProcessed` | `Spec => []WaitMeansProcessed` if `MaxWaits <= 1` |
| *ModelLoadingProofs* | |
| `UsesReaderProperly` | `Spec => ReaderSpec`, the specification of `AsyncFileRead` |
| `LoadedModelsComplete` | `Spec => []ModelsComplete` |
| `CallbacksOfLive` | `Spec => []CallbackForLiveModel` |
| `CallsTakeEffectInOrder` | `Spec => []CallsInOrder` |
| `LoadedAfterWait` | `Spec => WaitForLoadLoads` |
| *WowConnectionProofs* | |
| `CountsHold` | `Spec => []ConnectionsCounted` |
| `ServedByOne` | `Spec => []OneServer` |
| `PermitMeansWorker` | `Spec => []WorkerForPermit` |
| `NothingReleasedTwice` | `Spec => []ReleasedOnce` if there is one worker |
| `CallbacksKept` | `Spec => CallbacksSpec`, the specification of `ConnectionCallbacks` |
| *NetClientProofs* | |
| `ClientInStep` | `Spec => []ClientFollows` |
| `ConnectsIdle` | `Spec => []ConnectsIdleConnection` |
| `QueueInOrder` | `Spec => []EventsInOrder` |
| *GlueLoginProofs* | |
| `SessionsAreSound` | `Spec => []SessionsSound` |
| `WaitsForItsOperation` | `Spec => []OperationOfIdle` |
| `DisconnectsExpected` | `Spec => []DisconnectExpected` |
| `SelectsAccepted` | `Spec => SelectsAfterAccept` |
| *FramesProofs* | |
| `FramesAlwaysAgree` | `FramesSpec => []FramesAgree` |
| `FocusAlwaysAgrees` | `FramesSpec => []FocusAgrees` |
| `FramesInvHolds` | `FramesSpec => []FramesInv`, the invariant of the two |
| *PartsProofs* | |
| `StaysInStep` | `StreamSpec => []StreamInStep` |
| `ObjectsAlwaysAgree` | `ObjectSpec => []ObjectsAgree` |
| `ObjectsLeaveWhenDue` | `ObjectSpec => LeaveWhenDue` |
| `HandlersAndKeys` | `EventSpec => []EventsSound` |
| `HandlersCalledOnce` | `EventSpec => EachCalledOnce` |
| `TextAlwaysSound` | `EditSpec => []TextSound` if the links in `ScriptTexts` are paired |
| `KeysDeleteOne` | `EditSpec => DeletesOne` under the same condition |

A theorem about `Spec` holds of `FairSpec` too, which implies it. Every proof
has an inductive invariant, kept by each action, at the head of its module. TLC
has checked each of them on the instance of the module's runs. What
they add to the properties:

* **AsyncFileRead**: `IInv == TypeOK /\ OnePlace /\ FlagsMatchLists`. That the
  thread's object is on no list when it is posted needs `isCurrent` to name it,
  that an object given back is in no callback needs the frames to agree with the
  flags, and that a cancelled object keeps its place needs to know which callback
  it carries. `FlagsMatchLists` says all of this: the flags place an object
  (`UnderWayFlags`), each frame of the main thread's stack names an object in the
  state its code expects (`FrameFlags`), the spin of a destroy is on top
  (`SpinsOnTop`), and users refer only to objects under way or in their callbacks
  (`References`). `KeepsOrder` adds that inserting keeps an ordered list ordered.
  `WaitMeansProcessed` holds when waits are not nested, since the second one
  overwrites `s_asyncWaitObject`; no caller in `src/src` nests them.
* **ModelLoading**: the reader's invariants, taken from `AsyncFileReadProofs`
  through `INSTANCE`, and `ModelInv`. Users keep only objects that a live model
  points to, and each knows which of the two files it reads (`Pointers`,
  `Stages`); `LoadSucceededCallback` has a live model that has no object
  (`GoesOn`); the callback list holds the models a callback is to initialise
  (`CallbackList`); each of the at most two waits of `WaitForLoad` is for one more
  file (`Waiting`). Two requests per model suffice (`RequestsCounted`), which is
  why the refinement assumes `2 * Cardinality(Models) <= MaxRequests`: the
  bound on requests of the reader must not stop it.
* **WowConnection**: a permit for each free worker that has started
  (`PermitsCounted`); one server for a connection, of which its counts and flags
  tell (`ServedOnce`); a connection once in the network thread's array
  (`PolledOnce`); a reference count that is the sum of three (`RefsAre`); nobody in
  the network threads knows a connection that its owner may connect
  (`QuietIfConnectable`), which is what makes the five steps of `StartConnect`
  safe (`CallsSound`). `StreamsReleased` and `StaleInCallback` are about release:
  the owner of a stream lets it go when it is no longer listed, and a socket is
  stale only while its owner hears of the disconnection. That no socket
  is closed twice needs that no other worker can run then, hence the assumption of one
  worker (`OneWorker`), which is what `NetClient::Initialize` asks of
  `WowConnection::InitOsNet` (NetClient.cpp:294). The refinement
  maps what the owner was told, for whom a worker is in a callback, and who is
  DISCONNECTING; its invariant (`CallbackInv`) ties these to the state, the worker's
  place and the flags on their way.
* **NetClient**: what the client takes its state for is what its connection told,
  but for the events that still wait (`StateFollows`, with what may wait in each
  state); a connection that was not created yet is unknown to everybody
  (`FreshUnknown`); events of a replaced connection come first, those about to be
  added included (`QueueOrdered`); `polling` and `giveUp` exclude each other
  (`MainSound`). All of it until a race happens (`raced`).
* **GlueLogin**: for the logins, that a link asks only what its state allows
  (`AskedOpen`, `NotLoggedOn`, `Reconnection`), that a login about to reconnect
  proves nothing meanwhile (`AboutToReconnect`), that who reports AUTHENTICATED has
  proved (`ReportsProved`), and that nothing comes of a session without
  a proved key (`NoSession`). For the game connection, what the connection does
  and the queue holds in each state (`Connection`), one handshake
  (`OneHandshake`), and that lists of characters belong to accepted sessions
  (`CharactersOfSession`, `AccountLogin`). The game server, which is not in the
  repository, is taken to send characters only in a session that it accepted.
* **EventDispatch**: handlers are listed under their event (`OfTheirEvent`), those
  behind the marker have not been called and those before it have, or were not
  there when the dispatch began (`Progress`), and the stage says what is dispatched
  (`RunsFor`, `DestroyedLast`); the ring follows the keys of the system but for
  dropped input (`KeysFollow`). It assumes lists that are in order at first.
* **MessageStream**: what is under way are whole messages one behind the other, in
  their places of the cipher (`WireInStep`); the buffer holds the first bytes of
  the next message and `m_receiveKey` is where the server's cipher was for the next
  byte (`BufferInStep`, `NextInStep`, `KeyInStep`), unless there was a mishap,
  after which nothing of the next message fits (`AfterMishap`); the messages of
  the client carry the keys the server will use (`ClientInStep`). The first read
  asks for two bytes and the buffer has room for them (`FirstSize >= 2`);
  payloads have an opcode (`Opcode > 0`).

* **ObjectUpdates**: a message is handled in two passes while the server's table is
  already that of its end, so the client's table is compared with a point of a
  *story* (`StoryOK`): tables of the server, one per update, each the one before
  as that update tells it (`Tells`), the last being the server's own. The client
  agrees with the point its first pass has come to (`Agrees`), and the tables,
  lists and flags of its objects with each other (`IsManager`, `Linked`). What the
  first pass created is active until the second has initialized it
  (`FullsActive`, `Initialized`); `Aged` keeps the ages of disabled objects in
  the order of each list on a clock that wraps. The assumption
  `MaxTime < Width` says that the clock does not come round during one
  behaviour; ages, types, fields and messages are any.
* **Frames**: in the middle of nested scripts nothing agrees, so `FramesInv` says of
  each frame what is wrong with it and which call that is left will put it right.
  `StackOK` gives the order of these calls: what an operation calls next is in
  front, and what waits for all scripts is behind. `Highlights`: the highlight and OnEnter agree
  with the focus but for a leave or enter script that is still to run. `Served`: the
  queues are in order and serve the visible frames, except one being disabled;
  focus and captures are on served frames, and the focus is the first under the
  mouse or a check is due. `Lists`: a frame is in one list of a level once, that of
  its level, and only while visible or about to be removed. `LoopKept`: what the
  loop of `OnLayerUpdate` has left is what its list has from `pendingFrame` on.
  `TreeKept`: a visible frame whose parent is hidden is ahead of a walk over the
  children of that parent, and a hidden one that should be visible ahead of a walk
  that shows, hidden by a `SetBeingScrolled` that will show it again, or between the
  halves of `SetParent`, where scripts run; a frame is in its parent's list or such an
  `Attach` is to come. Each part is excused by the
  quirk that the property names, and all of them once a level exceeds `MaxLevel`
  (`overflow`), when all calls are cut off.
* **EditText**: a text is made of whole tokens (`WholeTokens`) of which `info`
  has a record each (`Marked`); the cursor is behind a token and never in front
  of an end code (`Standing`). While no link is broken, `info` is what a parse
  gives and links open and close in turn (`LinksPaired`); while no script has set
  a colour that begins or ends in a link, none does (`ColoursOutside`), and
  unless one has set a text that begins with an end code, the text begins with
  none (`HeadPlain`). A deletion replaces a part of the text by nothing
  (`Spliced`). That `info` may be shifted instead of parsed again needs that a
  link is open on both sides of that part or on neither: where
  `DeleteSubstring` moves its two ends to (`Leftmost`, `Rightmost`) no link is
  open, since no colour lies across a link (`LeftmostLinks`, `RightmostLinks`);
  and then as many starts go as ends (`CountsFollow`), so no link breaks.
  `DeletesOne` follows since the part holds one letter outside links at most, and
  the letters that stay neither enter a link nor leave one. While OnTextChanged
  runs, a change that waits to be reported is one that it made (`ReportKept`); the
  report that `UpdateSizes` asks for without a change is none. The theorems assume
  `TextsPaired`: in a script's text each start of a link is followed by its end
  before another link begins, and each end is that of a start. Of other texts
  `LinksWhole` does not hold: of a link without an end, a deletion takes the
  start alone.

`IntrusiveListLemmas` says what unlinking, appending and inserting do to the
members, the repetitions and the order of a list, what replacing a part of a
sequence does to its elements, and how a sequence of sequences is flattened,
independently of their users.

Only model-checked: liveness and ENABLED, which TLAPS does not prove (`WaitReturns`,
`RequestAnswered`, `LoadingEnds`, `EventuallyDisconnected`, `DisconnectingEnds`,
`WaitsEnd`), and `NoEndlessRecursion`: whether shifting the levels of a tree
stays within `MaxLevel` depends on the levels that scripts ask for, so it is a
statement about one instance.

## 5. What is not modelled

Rendering, sound, the databases, the console, layout and the Lua bindings are
sequential computations or thin layers over libraries. Attachments of models
are left out because their loading state is a TODO in the source.
`WowConnection` leaves out the wakeup pipe (`select` also times out), listening
connections (nothing makes one) and stopping the network (`m_stop` is never
set). `NetClient` leaves out the redirect connection, suspension and deletion,
which nothing reaches at this commit.

* `Frames`: stratas other than one, layout, scale, alpha, regions, raising,
  dragging, the mouse wheel, characters, and the destruction of frames. Nothing is
  in a scroll frame (`CSimpleScrollFrame::SetScrollChild`), so the flags 0x2000 and
  0x4000 stay zero and the walks of `SetBeingScrolled` come to every child.
* `ModelLoading`: running out of memory, as in `CM2Shared::Initialize` after the
  skin profile has been requested (CM2Shared.cpp:418).
* `EditText`: selections (`DeleteHighlight` is a TODO), words, the limits on
  length (TODO), script insertion, and how the text is drawn.
* `EventDispatch`: timers, of which only the queue exists, other contexts and
  threads (one of each is made), `IEvtQueueDispatchAll` (empty), the mouse, and
  text input, which pass through without state.
* `ObjectUpdates`: what each type of object does with its fields, movement,
  models, masks of more than 42 blocks. `UPDATE_3` is taken as a full update.
  A new world leaks the manager of the old one with its objects.
* `MessageStream`: the bytes that `Send` writes (on Linux `written` is not
  initialised; elsewhere a split write fails an assertion), messages without a
  payload, and the part of the connection that `WowConnection` has.
* `GlueLogin`: Battle.net logins, patches, surveys, creating and deleting
  characters, and what the screens show.

## 6. Plan

Models still to write: layout dirtiness of `CLayoutFrame`, several stratas and
raising in `Frames`, the requests of `CCharacterComponent` as users of the
reader.

`parts` visits some two million states, every other run fewer, so
that all of them can be run again on a change.
