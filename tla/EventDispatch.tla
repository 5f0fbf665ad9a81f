---------------------------- MODULE EventDispatch ----------------------------
(***************************************************************************)
(* The scheduler of the main thread, the handlers that it calls for each   *)
(* kind of event, and the input that it takes from the system.  There is   *)
(* one context.  A turn synthesizes Initialize (once), Tick, one event for *)
(* each input, Poll, Idle and Paint; a handler may register and unregister *)
(* handlers, of the event being dispatched too, and ask for the end.  So   *)
(* IEvtQueueDispatch keeps its place in the list with a marker node.       *)
(***************************************************************************)
EXTENDS IntrusiveList, FiniteSets

CONSTANTS
    Handler,        \* handlers, each of one event
    Marker,         \* the node that marks a place in a list
    EventOf,        \* the event of each
    Priority,       \* and the priority that it registers with
    Initial,        \* the list of each event once the handler of Initialize has
                    \* registered the others: they are taken to be there from the
                    \* start, in the order that registering gives them
    MetaKeys,       \* keys that are modifiers
    OtherKeys,      \* and others
    QueueSize,      \* OS_QUEUE_SIZE: one more than the inputs that are kept
    MaxChanges      \* bound on registering and unregistering after that

KeyEvents == {"keydown", "repeat", "keyup"}
TurnEvents == {"tick", "poll", "idle", "paint"}
Ids == {"initialize", "focus", "close", "destroy"} \cup KeyEvents \cup TurnEvents
AllKeys == MetaKeys \cup OtherKeys

ASSUME EventDispatchAssumption ==
    /\ Marker \notin Handler
    /\ EventOf \in [Handler -> Ids] /\ Priority \in [Handler -> Int]
    /\ MetaKeys \cap OtherKeys = {} /\ "none" \notin MetaKeys \cup OtherKeys
    /\ QueueSize \in Nat /\ QueueSize > 1 /\ MaxChanges \in Nat

ASSUME InitialAssumption ==
    /\ Initial \in [Ids -> Seq(Handler)]
    /\ \A id \in Ids :
        /\ NoRepeats(Initial[id])
        /\ \A i, j \in DOMAIN Initial[id] :
            /\ EventOf[Initial[id][i]] = id
            /\ i < j => Priority[Initial[id][i]] >= Priority[Initial[id][j]]

VARIABLES
    list,           \* m_queueHandlerList
    running,        \* the event being dispatched, or "none"
    handler,        \* the handler being run, or Marker if none is
    stage,          \* what the turn does next
    context,        \* m_schedState and the flags of the context
    inputs,         \* Input::s_queue, oldest first
    keysDown,       \* m_queueSyncKeyDownList
    metaKeyState,   \* Input::s_metaKeyState
    left,           \* how many operations may follow
    device,         \* the keys pressed since the window has focus, if it has
    dropped,        \* history: keys whose last input was dropped
    called,         \* history: handlers that this dispatch has called, and
                    \* that were not registered again since
    steady          \* history: handlers registered since before this dispatch

keys == <<keysDown, metaKeyState>>
world == <<left, device, dropped>>
eventVars == <<list, running, handler, stage, context, inputs, keys, world, called, steady>>

-----------------------------------------------------------------------------
(* The lists of handlers.                                                  *)

(* Mutant: a marker counts as a handler of the lowest priority. *)
GoesFirstOrMarker(h, n) == ~ (n # Marker /\ Priority[n] > Priority[h])
(* IEvtQueueRegister passes markers and handlers of a higher priority, *)
GoesFirst(h, n) == n # Marker /\ Priority[n] <= Priority[h]

(* and links the handler before the first of the others, if there is one.  *)
IsPlace(q, h, i) ==
    /\ i <= Len(q) => GoesFirst(h, q[i])
    /\ \A j \in 1..(i - 1) : ~GoesFirst(h, q[j])

(* A handler is not registered twice: the callers unregister it first. *)
Register(h) ==
    LET q == list[EventOf[h]]
    IN  /\ h \notin Members(q)
        /\ \E i \in 1..(Len(q) + 1) :
            /\ IsPlace(q, h, i)
            /\ list' = [list EXCEPT ![EventOf[h]] = InsertAt(q, i, h)]
        /\ called' = called \ {h}
        /\ UNCHANGED steady

(* IEvtQueueUnregister, with all that must match. *)
Unregister(h) ==
    /\ h \in Members(list[EventOf[h]])
    /\ list' = [list EXCEPT ![EventOf[h]] = Unlink(@, h)]
    /\ steady' = steady \ {h}
    /\ UNCHANGED called

(* IEvtQueueDispatch begins: the marker is in front. *)
Dispatch(id) ==
    /\ running' = id
    /\ list' = [list EXCEPT ![id] = LinkToHead(@, Marker)]
    /\ called' = {} /\ steady' = Members(list[id])

NoDispatch == UNCHANGED <<list, running, called, steady>>

Dispatching == running # "none" /\ handler = Marker
MarkedAt(q) == CHOOSE i \in DOMAIN q : q[i] = Marker

(* Mutants: the marker is linked in front of the handler to be called, or  *)
(* behind the one after it.                                                *)
AdvanceBefore(q) == q
AdvanceTwo(q) ==
    LET i == MarkedAt(q)
        to == IF i + 2 > Len(q) THEN Len(q) ELSE i + 2
    IN  InsertAt(RemoveAt(q, i), to, Marker)
(* The marker is linked behind the handler to be called. *)
Advance(q) == LET i == MarkedAt(q) IN InsertAt(RemoveAt(q, i), i + 1, Marker)

CallNext ==
    /\ Dispatching
    /\ LET q == list[running]
           i == MarkedAt(q)
       IN  /\ i < Len(q)
           /\ handler' = q[i + 1]
           /\ list' = [list EXCEPT ![running] = Advance(q)]
           /\ called' = called \cup {q[i + 1]}
    /\ UNCHANGED <<running, stage, context, inputs, keys, world, steady>>

EndDispatch ==
    /\ running' = "none"
    /\ list' = [list EXCEPT ![running] = Unlink(@, Marker)]

AllCalled ==
    /\ Dispatching
    /\ MarkedAt(list[running]) = Len(list[running])
    /\ EndDispatch
    /\ UNCHANGED <<handler, stage, context, inputs, keys, world, called, steady>>

(* A handler returns; with zero, no other is called. *)
HandlerReturns ==
    /\ handler # Marker
    /\ handler' = Marker
    /\ EndDispatch \/ UNCHANGED <<running, list>>
    /\ UNCHANGED <<stage, context, inputs, keys, world, called, steady>>

(* What a handler may do: EventRegister, EventUnregister, EventPostClose. *)
HandlerRegisters ==
    /\ handler # Marker /\ left > 0
    /\ left' = left - 1
    /\ \E h \in Handler : Register(h) \/ Unregister(h)
    /\ UNCHANGED <<running, handler, stage, context, inputs, keys, device, dropped>>

Closed(c) == [c EXCEPT !.state = IF @ = "active" THEN "closed" ELSE @]

PostClose ==
    /\ handler # Marker
    /\ context' = Closed(context)
    /\ UNCHANGED <<list, running, handler, stage, inputs, keys, world, called, steady>>

-----------------------------------------------------------------------------
(* Input. *)

(* Mutant: the queue takes one input more than its indices can tell. *)
FullLater == Len(inputs) = QueueSize
Full == Len(inputs) = QueueSize - 1
(* Mutant: an input that finds the queue full is dropped itself. *)
QueuedUnlessFull(input) == IF Full THEN inputs ELSE Append(inputs, input)
(* OsQueuePut drops the oldest input if the queue is full. *)
WithInput(input) == Append(IF Full THEN Tail(inputs) ELSE inputs, input)

Put(input) ==
    LET Of(k, i) == i.id = "focus" \/ i.key = k
        gone == {k \in AllKeys : Full /\ Of(k, Head(inputs))}
        later == WithInput(input)
    IN  /\ inputs' = later
        /\ dropped' = {k \in dropped \cup gone : \A i \in DOMAIN later : ~Of(k, later[i])}

(* The system reports keys between two turns, while the window has focus;  *)
(* also again while they are held down.                                    *)
KeyGoesDown ==
    /\ stage = "start" /\ device.focus
    /\ \E k \in AllKeys :
        /\ device' = [device EXCEPT !.down = @ \cup {k}]
        /\ Put([id |-> "keydown", key |-> k])
    /\ UNCHANGED <<list, running, handler, stage, context, keys, left, called, steady>>

KeyGoesUp ==
    /\ stage = "start" /\ device.focus
    /\ \E k \in AllKeys :
        /\ device' = [device EXCEPT !.down = @ \ {k}]
        /\ Put([id |-> "keyup", key |-> k])
    /\ UNCHANGED <<list, running, handler, stage, context, keys, left, called, steady>>

FocusChanges ==
    /\ stage = "start"
    /\ device' = [down |-> {}, focus |-> ~device.focus]
    /\ Put([id |-> "focus", key |-> "none"])
    /\ UNCHANGED <<list, running, handler, stage, context, keys, left, called, steady>>

WindowCloses ==
    /\ stage = "start"
    /\ Put([id |-> "shutdown", key |-> "none"])
    /\ UNCHANGED <<list, running, handler, stage, context, keys, left, device, called, steady>>

(* UpdateSyncKeyState. *)
SyncKey(k, id) == IF id = "keydown" THEN keysDown \cup {k} ELSE keysDown \ {k}

(* PostKeyDown and PostKeyUp: a modifier that is down, or up, already. *)
Known(k, id) == k \in MetaKeys /\ (k \in metaKeyState <=> id = "keydown")

(* Mutant: the modifiers stay as they are. *)
MetaAsIs == metaKeyState
(* PostFocus. *)
NoMeta == {}

Posts(input) ==
    LET k == input.key
        id == input.id
    IN  \/ /\ id = "shutdown"
           /\ context' = [context EXCEPT !.shutdown = TRUE]
           /\ NoDispatch /\ UNCHANGED keys
        \/ /\ id = "focus"
           /\ metaKeyState' = NoMeta /\ keysDown' = {}
           /\ Dispatch("focus") /\ UNCHANGED context
        \/ /\ id \in KeyEvents /\ Known(k, id)
           /\ NoDispatch /\ UNCHANGED <<keys, context>>
        \/ /\ id \in KeyEvents /\ ~Known(k, id)
           /\ metaKeyState' = IF k \notin MetaKeys THEN metaKeyState
                              ELSE IF id = "keydown" THEN metaKeyState \cup {k}
                              ELSE metaKeyState \ {k}
           /\ keysDown' = SyncKey(k, id)
           /\ Dispatch(IF id = "keydown" /\ k \in keysDown THEN "repeat" ELSE id)
           /\ UNCHANGED context

-----------------------------------------------------------------------------
(* A turn: SchedulerThreadProcProcess. *)

InStage(s) == stage = s /\ running = "none"
Turn == UNCHANGED <<handler, world>>

(* The first turn is cut short: attaching the context set the wake event.  *)
Wake ==
    /\ InStage("start")
    /\ stage' = IF context.woken THEN "end" ELSE "initialize"
    /\ context' = [context EXCEPT !.woken = FALSE]
    /\ NoDispatch /\ Turn /\ UNCHANGED <<inputs, keys>>

SynthesizeInitialize ==
    /\ InStage("initialize")
    /\ stage' = "tick"
    /\ context' = [context EXCEPT !.initialized = TRUE]
    /\ IF context.initialized THEN NoDispatch ELSE Dispatch("initialize")
    /\ Turn /\ UNCHANGED <<inputs, keys>>

(* Mutant: Poll and the others are synthesized whatever the state. *)
EvenClosed == TRUE
(* What the Synthesize functions ask first. *)
Active == context.state # "closed"

SynthesizeTick ==
    /\ InStage("tick")
    /\ stage' = "input"
    /\ IF Active THEN Dispatch("tick") ELSE NoDispatch
    /\ Turn /\ UNCHANGED <<context, inputs, keys>>

(* IEvtInputProcess: all the inputs, and then perhaps the end. *)
ProcessInput ==
    /\ InStage("input") /\ inputs # <<>>
    /\ inputs' = Tail(inputs)
    /\ Posts(Head(inputs))
    /\ Turn /\ UNCHANGED stage

InputProcessed ==
    /\ InStage("input") /\ inputs = <<>>
    /\ stage' = "poll"
    /\ context' = [(IF context.shutdown THEN Closed(context) ELSE context)
                        EXCEPT !.shutdown = FALSE]
    /\ NoDispatch /\ Turn /\ UNCHANGED <<inputs, keys>>

SynthesizePoll ==
    /\ InStage("poll")
    /\ stage' = "idle"
    /\ IF Active THEN Dispatch("poll") ELSE NoDispatch
    /\ Turn /\ UNCHANGED <<context, inputs, keys>>

SynthesizeIdle ==
    /\ InStage("idle")
    /\ stage' = "paint"
    /\ IF Active
       THEN Dispatch("idle") /\ context' = [context EXCEPT !.paint = TRUE]
       ELSE NoDispatch /\ UNCHANGED context
    /\ Turn /\ UNCHANGED <<inputs, keys>>

SynthesizePaint ==
    /\ InStage("paint")
    /\ stage' = "end"
    /\ IF Active /\ context.paint
       THEN Dispatch("paint") /\ context' = [context EXCEPT !.paint = FALSE]
       ELSE NoDispatch /\ UNCHANGED context
    /\ Turn /\ UNCHANGED <<inputs, keys>>

(* PutContext, or SynthesizeDestroy, which ends the program. *)
EndOfTurn ==
    /\ InStage("end")
    /\ IF context.state = "closed"
       THEN stage' = "destroy" /\ Dispatch("close")
       ELSE stage' = "start" /\ NoDispatch
    /\ Turn /\ UNCHANGED <<context, inputs, keys>>

SynthesizeDestroy ==
    /\ InStage("destroy")
    /\ stage' = "exit"
    /\ context' = [context EXCEPT !.state = "destroyed"]
    /\ Dispatch("destroy")
    /\ Turn /\ UNCHANGED <<inputs, keys>>

EventInit ==
    /\ list = Initial
    /\ running = "none" /\ handler = Marker /\ stage = "start"
    /\ context = [state |-> "active", woken |-> TRUE, initialized |-> FALSE,
                  paint |-> FALSE, shutdown |-> FALSE]
    /\ inputs = <<>> /\ keysDown = {} /\ metaKeyState = {}
    /\ left = MaxChanges
    /\ device = [down |-> {}, focus |-> TRUE]
    /\ dropped = {} /\ called = {} /\ steady = {}

EventNext ==
    \/ CallNext \/ AllCalled \/ HandlerReturns
    \/ HandlerRegisters \/ PostClose
    \/ KeyGoesDown \/ KeyGoesUp \/ FocusChanges \/ WindowCloses
    \/ Wake \/ SynthesizeInitialize \/ SynthesizeTick
    \/ ProcessInput \/ InputProcessed
    \/ SynthesizePoll \/ SynthesizeIdle \/ SynthesizePaint
    \/ EndOfTurn \/ SynthesizeDestroy

EventSpec == EventInit /\ [][EventNext]_eventVars

-----------------------------------------------------------------------------
(* Properties. *)

Inputs == [id : {"keydown", "keyup"}, key : AllKeys]
          \cup [id : {"focus", "shutdown"}, key : {"none"}]
Stages == {"start", "initialize", "tick", "input", "poll", "idle", "paint", "end",
           "destroy", "exit"}

(* The members have their types; the queue of inputs never fills up, which *)
(* OsQueueGet would take for empty.                                        *)
EventTypeOK ==
    /\ list \in [Ids -> Seq(Handler \cup {Marker})]
    /\ running \in Ids \cup {"none"} /\ handler \in Handler \cup {Marker}
    /\ stage \in Stages
    /\ context \in [state : {"active", "closed", "destroyed"}, woken : BOOLEAN,
                    initialized : BOOLEAN, paint : BOOLEAN, shutdown : BOOLEAN]
    /\ inputs \in Seq(Inputs) /\ Len(inputs) < QueueSize
    /\ keysDown \subseteq AllKeys /\ metaKeyState \subseteq MetaKeys
    /\ left \in 0..MaxChanges
    /\ device \in [down : SUBSET AllKeys, focus : BOOLEAN]
    /\ dropped \subseteq AllKeys
    /\ called \subseteq Handler /\ steady \subseteq Handler

(* However handlers are registered and unregistered while a list is being  *)
(* dispatched, it is sorted by priority, marker aside, and the marker is   *)
(* in the list of the running event only.                                  *)
Sorted ==
    \A id \in Ids :
        LET q == list[id]
        IN  /\ NoRepeats(q)
            /\ Marker \in Members(q) <=> running = id
            /\ \A i, j \in DOMAIN q : i < j /\ Marker \notin {q[i], q[j]} =>
                Priority[q[i]] >= Priority[q[j]]

(* No handler is called twice for one event, unless it was registered      *)
(* again in between.                                                       *)
CalledOnce == [][handler = Marker /\ handler' # Marker => handler' \notin called]_eventVars

(* When all handlers of an event have been called, so was every one that   *)
(* has been registered since before, whatever the others did to the list.  *)
NoneSkipped == [][Dispatching /\ running' = "none" => steady \subseteq called]_eventVars

(* EventIsKeyDown and the modifiers that come with an event agree: a       *)
(* modifier that PostKeyDown or PostKeyUp takes for known is so.           *)
ModifiersAgree == metaKeyState = keysDown \cap MetaKeys

(* With all input processed, the keys are what the system reported since   *)
(* the window has the focus.  An input dropped from the full queue makes   *)
(* its key wrong only until the next input for that key.                   *)
NoStuckKeys ==
    inputs = <<>> /\ running = "none" => keysDown \ dropped = device.down \ dropped

(* Once a handler or the window asked for the end, no more events of the   *)
(* turn are dispatched, in this turn either.                               *)
QuietAfterClose ==
    [][running = "none" /\ running' \in TurnEvents => context.state = "active"]_eventVars

(* The handlers of each event are in order, and the keys and modifiers are *)
(* the system's as far as the queue kept its input.                        *)
EventsSound == EventTypeOK /\ Sorted /\ ModifiersAgree /\ NoStuckKeys

(* A dispatch calls every handler once, and none after the end.            *)
EachCalledOnce == CalledOnce /\ NoneSkipped /\ QuietAfterClose

=============================================================================
