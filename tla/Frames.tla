------------------------------- MODULE Frames -------------------------------
(***************************************************************************)
(* The frames of the user interface: CSimpleFrame, the CFrameStrata they   *)
(* are updated and drawn from, and CSimpleTop, which dispatches input to   *)
(* them.  One thread runs it all, but nearly every operation calls scripts *)
(* (OnShow, OnHide, OnEnter, OnLeave, OnUpdate, OnKeyDown, ...) and a      *)
(* script may call any operation again, on any frame, in the middle of the *)
(* one that called it.  So the call stack is the state: calls holds what   *)
(* is left to do, the innermost call first, an action is what the first    *)
(* entry does up to its next call, and a script is an entry that may push  *)
(* operations before it returns.                                           *)
(*                                                                         *)
(* All frames are in one strata.  The geometry is a set: hits holds the    *)
(* frames whose rectangle contains the mouse.                              *)
(***************************************************************************)
EXTENDS IntrusiveList

CONSTANTS
    Frame,          \* frames, created and never destroyed
    Nil,            \* no frame
    Scenes,         \* the frames there are, in the order of their creation, the
                    \* first being the parent of the others, and the bound on
                    \* the calls of scripts: what each may be, on which frames
    Enabled,        \* the events that each frame is enabled for at first
    Buttons,        \* the frames that are buttons
    KeyHandlers,    \* frames with an OnKeyDown or OnKeyUp script
    Places,         \* the sets of frames that a place of the mouse is inside
    AskedLevels,    \* levels that scripts ask for
    MaxShift,       \* the most that a level rises at once: 128
    MaxLevel,       \* bound: a higher level is taken as endless recursion
    MaxDepth        \* bound: more walks of SetBeingScrolled are taken as that too

ScriptOps == {"Show", "Hide", "EnableEvent", "DisableEvent", "SetFrameLevel", "SetParent",
              "LockHighlight"}

ASSUME FramesAssumption ==
    /\ Nil \notin Frame
    /\ \A scene \in Scenes :
        /\ scene.created \in Seq(Frame) /\ scene.created # <<>>
        /\ NoRepeats(scene.created)
        /\ scene.ops \in Seq(SUBSET (ScriptOps \X Frame))
    /\ Enabled \in [Frame -> SUBSET {"key", "mouse"}]
    /\ KeyHandlers \subseteq Frame /\ Buttons \subseteq Frame /\ Places \subseteq SUBSET Frame
    /\ MaxLevel \in Nat \ {0} /\ MaxShift \in Nat \ {0} /\ MaxDepth \in Nat \ {0}
    /\ AskedLevels \subseteq 0..MaxLevel

Events == {"key", "mouse"}
Levels == 0..MaxLevel

VARIABLES
    frame,      \* the frames' members
    node,       \* m_strata[s]->levels
    queue,      \* m_eventqueue
    top,        \* the other members of CSimpleTop, and the keyboard and mouse
    calls,      \* the call stack, innermost first
    ops,        \* what scripts may still call, on which frames: a set for each call
    entered,    \* history: frames whose last cursor script was OnEnter
    quirks,     \* history: what scripts did that the code does not cope with
    due         \* history: frames still to be updated by the loop that runs

Made == DOMAIN frame
framesVars == <<frame, node, queue, top, calls, ops, entered, quirks, due>>
drawn == <<node, queue, top>>
histories == <<entered, quirks, due>>

(* What scripts can do that leaves a frame in a state nobody meant:        *)
(* "reshown"   shows a frame that is being hidden, or that SetParent hid   *)
(* "orphaned"  hides a frame's former parent, which still lists it         *)
(* "unlisted"  hides a frame's new parent, which does not list it yet      *)
(* "looped"    makes a frame the child of one that it still lists          *)
(* "requeued"  queues a frame again for the event that is being disabled   *)
(* "hasty"     takes the mouse focus from a frame before OnEnter           *)
(* "escaped"   hides the frame that its key handler belongs to             *)
(* "late"      shows or moves a frame while its level is being updated     *)
Quirks == {"reshown", "orphaned", "unlisted", "looped", "requeued", "hasty", "escaped",
           "late", "shifted", "overflow"}

Call(op, f, arg) == [op |-> op, frame |-> f, arg |-> arg]
Run(cs) == calls' = cs \o Tail(calls)
Return == calls' = Tail(calls)
Running(op) == calls # <<>> /\ calls[1].op = op
Pending(op, f) == \E i \in DOMAIN calls : calls[i].op = op /\ calls[i].frame = f
Script(f) == Call("Script", f, 0)

Queued(f, event) == \E i \in DOMAIN queue[event] : queue[event][i].frame = f
(* The frame after f in the list it is linked to, Nil at the end. *)
NextFrame(f) ==
    LET lists == {node[l].frames : l \in Levels} \cup {node[l].pendingFrames : l \in Levels}
        after == UNION {{list[i + 1] : i \in {j \in 1..(Len(list) - 1) : list[j] = f}} :
                            list \in lists}
    IN  IF after = {} THEN Nil ELSE CHOOSE g \in after : TRUE

-----------------------------------------------------------------------------
(* CFrameStrata and the event queues. *)

(* CFrameStrata::AddFrame: to the list that waits, if the level is being   *)
(* updated and has not come to its last frame.                             *)
AddFrame(nodes, f, l) ==
    IF \E k \in Levels : Contains(nodes[k].frames \o nodes[k].pendingFrames, f)
    THEN nodes
    ELSE IF nodes[l].pendingFrame # Nil
    THEN [nodes EXCEPT ![l].pendingFrames = Append(@, f)]
    ELSE [nodes EXCEPT ![l].frames = Append(@, f)]

Waits(f, nodes) == \E l \in Levels : Contains(nodes[l].pendingFrames, f)

(* Mutant: the loop of OnLayerUpdate keeps a frame that is gone. *)
RemoveAndKeepNext(f, l) ==
    [k \in Levels |->
        [frames |-> Unlink(node[k].frames, f),
         pendingFrames |-> Unlink(node[k].pendingFrames, f),
         pendingFrame |-> node[k].pendingFrame]]

(* CFrameStrataNode::RemoveFrame unlinks the frame wherever it is; the     *)
(* loop of OnLayerUpdate goes on behind a frame it was about to update, if *)
(* the frame is still of that level.                                       *)
RemoveFrame(f, l) ==
    [k \in Levels |->
        [frames |-> Unlink(node[k].frames, f),
         pendingFrames |-> Unlink(node[k].pendingFrames, f),
         pendingFrame |-> IF k = l /\ node[k].pendingFrame = f
                          THEN NextFrame(f) ELSE node[k].pendingFrame]]

(* The sorted array inserts by priority; where among equals is its affair. *)
Insertions(q, entry) ==
    {InsertAt(q, i, entry) : i \in
        {j \in 1..(Len(q) + 1) :
            /\ j > 1 => q[j - 1].priority >= entry.priority
            /\ j <= Len(q) => q[j].priority <= entry.priority}}

(* The queues after CSimpleTop::RegisterForEvent for each event of E. *)
Registered(q, f, E, l) ==
    LET New(e) == IF e \in E THEN Insertions(q[e], [frame |-> f, priority |-> l])
                  ELSE {q[e]}
    IN  {[e \in Events |-> IF e = "key" THEN k ELSE m] :
            k \in New("key"), m \in New("mouse")}

(* Mutant: only the mouse events are taken back. *)
UnqueueMouse(f, E) ==
    [queue EXCEPT !["mouse"] =
        IF "mouse" \in E THEN SelectSeq(@, LAMBDA entry : entry.frame # f) ELSE @]

(* CSimpleTop::UnregisterForEvent removes the first entry of the frame. *)
Unqueue(f, E) ==
    [e \in Events |->
        IF e \in E /\ Queued(f, e)
        THEN RemoveAt(queue[e], CHOOSE i \in DOMAIN queue[e] :
                /\ queue[e][i].frame = f
                /\ \A j \in 1..(i - 1) : queue[e][j].frame # f)
        ELSE queue[e]]
(* Mutants: nobody looks for another focus; the capture stays. *)
ForgetQuietly(f, E) ==
    [top EXCEPT
        !.keydownCapture = IF "key" \in E /\ Queued(f, "key") /\ @ = f THEN Nil ELSE @,
        !.mouseCapture = IF "mouse" \in E /\ Queued(f, "mouse") /\ @ = f THEN Nil ELSE @,
        !.mouseFocus = IF "mouse" \in E /\ Queued(f, "mouse") /\ @ = f THEN Nil ELSE @]
ForgetFocus(f, E) ==
    LET mouse == "mouse" \in E /\ Queued(f, "mouse") /\ top.mouseFocus = f
    IN  [top EXCEPT !.mouseFocus = IF mouse THEN Nil ELSE @,
                    !.checkFocus = @ \/ mouse]

(* What CSimpleTop forgets of a frame that it took from the queues of E. *)
Forget(f, E) ==
    LET key == "key" \in E /\ Queued(f, "key")
        mouse == "mouse" \in E /\ Queued(f, "mouse")
        Without(g, took) == IF took /\ g = f THEN Nil ELSE g
    IN  [top EXCEPT
            !.keydownCapture = Without(@, key),
            !.mouseCapture = Without(@, mouse),
            !.mouseFocus = Without(@, mouse),
            !.checkFocus = @ \/ (mouse /\ top.mouseFocus = f)]
(* Mutant: a frame that loses the focus is not told. *)
LeavesUntold(f, E) == <<>>
(* The leave script that goes with it. *)
Leaves(f, E) ==
    IF "mouse" \in E /\ Queued(f, "mouse") /\ top.mouseFocus = f
    THEN <<Call("CursorExit", f, 0)>> ELSE <<>>

-----------------------------------------------------------------------------
(* CSimpleFrame. *)

InitScene(scene) ==
    LET root == scene.created[1]
        children == Tail(scene.created)
        Level(f) == IF f = root THEN 0 ELSE 1
    IN  /\ frame = [f \in ToSet(scene.created) |->
                [parent |-> IF f = root THEN Nil ELSE root,
                 children |-> IF f = root THEN children ELSE <<>>,
                 shown |-> TRUE, visible |-> TRUE,
                 level |-> Level(f), eventmask |-> Enabled[f],
                 highlight |-> FALSE, locked |-> FALSE]]
        /\ node = [l \in Levels |->
                [frames |-> IF l = 0 THEN <<root>> ELSE IF l = 1 THEN children ELSE <<>>,
                 pendingFrames |-> <<>>, pendingFrame |-> Nil]]
        /\ queue = [e \in Events |->
                LET fs == UnlinkAll(Append(children, root), {f \in Frame : e \notin Enabled[f]})
                IN  [i \in DOMAIN fs |-> [frame |-> fs[i], priority |-> Level(fs[i])]]]
        /\ ops = scene.ops

FramesInit ==
    /\ \E scene \in Scenes : InitScene(scene)
    /\ top = [mouseFocus |-> Nil, mouseCapture |-> Nil, keydownCapture |-> Nil,
              checkFocus |-> TRUE, hits |-> {}]
    /\ calls = <<>>
    /\ entered = {} /\ quirks = {} /\ due = {}

(* Hide: shown is cleared whatever HideThis finds. *)
Hide ==
    /\ Running("Hide")
    /\ LET f == calls[1].frame
       IN  /\ frame' = [frame EXCEPT ![f].shown = FALSE]
           /\ Run(<<Call("HideThis", f, 0)>>)
    /\ UNCHANGED <<drawn, ops, histories>>

(* A visible child that the walk over f's list will not find. *)
LeavesBehind(f) ==
    \E g \in Made : /\ frame[g].parent = f /\ frame[g].visible
                    /\ ~Contains(frame[f].children, g)

(* HideThis up to the first script it calls: the frame is invisible and    *)
(* no longer registered for events; if it had the mouse focus, OnLeave     *)
(* runs before the frame is taken from its strata.                         *)
HideThis ==
    /\ Running("HideThis")
    /\ LET f == calls[1].frame
           E == frame[f].eventmask
       IN  IF ~frame[f].visible
           THEN Return /\ UNCHANGED <<frame, queue, top, quirks>>
           ELSE /\ frame' = [frame EXCEPT ![f].visible = FALSE]
                /\ queue' = Unqueue(f, E)
                /\ top' = Forget(f, E)
                /\ quirks' = quirks \cup {q \in {"unlisted"} : LeavesBehind(f)}
                /\ Run(Leaves(f, E) \o <<Call("RemoveFrame", f, 0)>>)
    /\ UNCHANGED <<node, ops, entered, due>>

(* HideThis goes on: the frame leaves its strata, then its children hide.  *)
Removed ==
    /\ Running("RemoveFrame")
    /\ LET f == calls[1].frame
       IN  /\ node' = RemoveFrame(f, frame[f].level)
           /\ due' = due \ {f}
           /\ Run(<<Call("HideChildren", f, 1)>>)
    /\ UNCHANGED <<frame, queue, top, ops, entered, quirks>>

HideChildren ==
    /\ Running("HideChildren")
    /\ LET f == calls[1].frame
           n == calls[1].arg
           child == frame[f].children[n]
       IN  IF n > Len(frame[f].children)
           THEN Run(<<Script(f)>>) /\ UNCHANGED quirks
           ELSE /\ Run(<<Call("HideThis", child, 0), Call("HideChildren", f, n + 1)>>)
                /\ quirks' = IF frame[child].parent # f /\ frame[child].visible
                             THEN quirks \cup {"orphaned"} ELSE quirks
    /\ UNCHANGED <<frame, drawn, ops, entered, due>>

Show ==
    /\ Running("Show")
    /\ LET f == calls[1].frame
       IN  /\ frame' = [frame EXCEPT ![f].shown = TRUE]
           /\ Run(<<Call("ShowThis", f, 0)>>)
    /\ UNCHANGED <<drawn, ops, histories>>

(* Mutant: a frame is shown whether its parent is visible or not. *)
ShowsAnyway(f) == frame[f].shown /\ ~frame[f].visible
MayShow(f) ==
    /\ frame[f].shown /\ ~frame[f].visible
    /\ frame[f].parent # Nil => frame[frame[f].parent].visible
BeingHidden(f) == Pending("RemoveFrame", f) \/ Pending("HideChildren", f)

ShowThis ==
    /\ Running("ShowThis")
    /\ LET f == calls[1].frame
           l == frame[f].level
       IN  IF ~MayShow(f)
           THEN Return /\ UNCHANGED <<frame, node, queue, top, quirks>>
           ELSE /\ frame' = [frame EXCEPT ![f].visible = TRUE]
                /\ node' = AddFrame(node, f, l)
                /\ queue' \in Registered(queue, f, frame[f].eventmask, l)
                /\ top' = [top EXCEPT !.checkFocus = @ \/ frame[f].eventmask # {}]
                /\ quirks' = quirks
                        \cup {q \in {"reshown"} : BeingHidden(f)}
                        \cup {q \in {"late"} : Waits(f, node')}
                        \cup {q \in {"requeued"} : Pending("Disabled", f)}
                /\ Run(<<Call("ShowChildren", f, 1)>>)
    /\ UNCHANGED <<ops, entered, due>>

ShowChildren ==
    /\ Running("ShowChildren")
    /\ LET f == calls[1].frame
           n == calls[1].arg
       IN  IF n > Len(frame[f].children)
           THEN Run(<<Script(f)>>)
           ELSE Run(<<Call("ShowThis", frame[f].children[n], 0),
                      Call("ShowChildren", f, n + 1)>>)
    /\ UNCHANGED <<frame, drawn, ops, histories>>

(* Mutant: a level may become negative. *)
AsIs(l, level) == level
(* The level that a frame of level l gets. *)
Clamped(l, level) ==
    IF level < 0 THEN 0 ELSE IF level > l + MaxShift THEN l + MaxShift ELSE level

(* SetFrameLevel: CSimpleTop::HideFrame and ShowFrame without the effects  *)
(* of hiding on focus and captures.  The children follow.                  *)
SetFrameLevel ==
    /\ Running("SetFrameLevel")
    /\ LET f == calls[1].frame
           l == frame[f].level
           n == Clamped(l, calls[1].arg)
           E == frame[f].eventmask
           gone == RemoveFrame(f, l)
       IN  \/ /\ n = l
              /\ Return
              /\ UNCHANGED <<frame, drawn, quirks, due>>
           \/ /\ n > MaxLevel
              /\ quirks' = quirks \cup {"overflow"}
              /\ calls' = <<>>
              /\ UNCHANGED <<frame, drawn, due>>
           \/ /\ n # l /\ n <= MaxLevel
              /\ frame' = [frame EXCEPT ![f].level = n]
              /\ Run(<<Call("ShiftChildren", f, <<1, n - l>>)>>)
              /\ IF ~frame[f].visible
                 THEN /\ quirks' = quirks \cup {q \in {"shifted"} : BeingHidden(f)}
                      /\ UNCHANGED <<drawn, due>>
                 ELSE /\ node' = AddFrame(gone, f, n)
                      /\ queue' \in Registered(Unqueue(f, E), f, E, n)
                      /\ top' = [top EXCEPT !.checkFocus = @ \/ "mouse" \in E]
                      /\ due' = due \ {f}
                      /\ quirks' = quirks
                            \cup {q \in {"late"} : Waits(f, node')}
                            \cup {q \in {"requeued"} : Pending("Disabled", f)}
    /\ UNCHANGED <<ops, entered>>

ShiftChildren ==
    /\ Running("ShiftChildren")
    /\ LET f == calls[1].frame
           i == calls[1].arg[1]
           delta == calls[1].arg[2]
           child == frame[f].children[i]
       IN  IF i > Len(frame[f].children)
           THEN Return
           ELSE Run(<<Call("SetFrameLevel", child, frame[child].level + delta),
                      Call("ShiftChildren", f, <<i + 1, delta>>)>>)
    /\ UNCHANGED <<frame, drawn, ops, histories>>

(* SetParent: hide, change the parent and the level, take over that it is  *)
(* scrolled, be listed by the new parent (the former one keeps its entry)  *)
(* and show if it is visible.                                              *)
SetParent ==
    /\ Running("SetParent")
    /\ LET f == calls[1].frame
           p == calls[1].arg
       IN  IF frame[f].parent = p
           THEN Return
           ELSE Run(<<Call("HideThis", f, 0), Call("Reparent", f, p)>>)
    /\ UNCHANGED <<frame, drawn, ops, histories>>

Reparent ==
    /\ Running("Reparent")
    /\ LET f == calls[1].frame
           p == calls[1].arg
       IN  /\ frame' = [frame EXCEPT ![f].parent = p]
           /\ quirks' = quirks \cup {q \in {"reshown"} : frame[f].visible}
           /\ Run(<<Call("SetFrameLevel", f, IF p = Nil THEN 0 ELSE frame[p].level + 1),
                    Call("SetBeingScrolled", f, 0), Call("Attach", f, 0)>>)
    /\ UNCHANGED <<drawn, ops, entered, due>>

(* SetBeingScrolled hides a frame, walks over its list and shows it again  *)
(* if it was visible: whether anything is scrolled or not.                 *)
SetBeingScrolled ==
    /\ Running("SetBeingScrolled")
    /\ LET f == calls[1].frame
           walks == {i \in DOMAIN calls : calls[i].op = "ScrollChildren"}
       IN  IF Cardinality(walks) >= MaxDepth
           THEN calls' = <<>> /\ quirks' = quirks \cup {"overflow"}
           ELSE /\ Run(<<Call("HideThis", f, 0),
                         Call("ScrollChildren", f, <<1, frame[f].visible>>)>>)
                /\ UNCHANGED quirks
    /\ UNCHANGED <<frame, drawn, ops, entered, due>>

(* Mutant: nobody shows the frame again. *)
ScrollsHidden ==
    /\ Running("ScrollChildren")
    /\ LET f == calls[1].frame
           i == calls[1].arg[1]
       IN  IF i > Len(frame[f].children)
           THEN Return
           ELSE Run(<<Call("SetBeingScrolled", frame[f].children[i], 0),
                      Call("ScrollChildren", f, <<i + 1, calls[1].arg[2]>>)>>)
    /\ UNCHANGED <<frame, drawn, ops, histories>>
ScrollChildren ==
    /\ Running("ScrollChildren")
    /\ LET f == calls[1].frame
           i == calls[1].arg[1]
           again == calls[1].arg[2]
       IN  IF i > Len(frame[f].children)
           THEN IF again THEN Run(<<Call("ShowThis", f, 0)>>) ELSE Return
           ELSE Run(<<Call("SetBeingScrolled", frame[f].children[i], 0),
                      Call("ScrollChildren", f, <<i + 1, again>>)>>)
    /\ UNCHANGED <<frame, drawn, ops, histories>>

(* The frames that f lists, or one that it lists does, and so on. *)
Listed(f) ==
    LET L[n \in 0..Cardinality(Made)] ==
            IF n = 0 THEN ToSet(frame[f].children)
            ELSE L[n - 1] \cup UNION {ToSet(frame[g].children) : g \in L[n - 1]}
    IN  L[Cardinality(Made)]

(* The parent is the one the frame has now, after the scripts. *)
Attach ==
    /\ Running("Attach")
    /\ LET f == calls[1].frame
           p == frame[f].parent
       IN  /\ frame' = IF p = Nil THEN frame
                       ELSE [frame EXCEPT ![p].children = Append(@, f)]
           /\ quirks' = quirks \cup {q \in {"looped"} : p # Nil /\ p \in Listed(f)}
           /\ Run(<<Call("ShowThis", f, 0)>>)
    /\ UNCHANGED <<drawn, ops, entered, due>>

(* EnableMouse of a script: EnableEvent or DisableEvent. *)
EnableEvent ==
    /\ Running("EnableEvent")
    /\ LET f == calls[1].frame
           new == "mouse" \notin frame[f].eventmask
       IN  /\ frame' = [frame EXCEPT ![f].eventmask = @ \cup {"mouse"}]
           /\ quirks' = quirks \cup {q \in {"requeued"} : Pending("Disabled", f)}
           /\ IF new /\ frame[f].visible
              THEN /\ queue' \in Registered(queue, f, {"mouse"}, frame[f].level)
                   /\ top' = [top EXCEPT !.checkFocus = TRUE]
              ELSE UNCHANGED <<queue, top>>
    /\ Return
    /\ UNCHANGED <<node, ops, entered, due>>

DisableEvent ==
    /\ Running("DisableEvent")
    /\ LET f == calls[1].frame
       IN  IF "mouse" \notin frame[f].eventmask
           THEN Return /\ UNCHANGED <<queue, top>>
           ELSE IF ~frame[f].visible
           THEN Run(<<Call("Disabled", f, 0)>>) /\ UNCHANGED <<queue, top>>
           ELSE /\ queue' = Unqueue(f, {"mouse"})
                /\ top' = Forget(f, {"mouse"})
                /\ Run(Leaves(f, {"mouse"}) \o <<Call("Disabled", f, 0)>>)
    /\ UNCHANGED <<frame, node, ops, histories>>

(* The event leaves the mask after the scripts have run. *)
Disabled ==
    /\ Running("Disabled")
    /\ frame' = [frame EXCEPT ![calls[1].frame].eventmask = @ \ {"mouse"}]
    /\ Return
    /\ UNCHANGED <<drawn, ops, histories>>

LockHighlight ==
    /\ Running("LockHighlight")
    /\ LET f == calls[1].frame
           lock == calls[1].arg
       IN  frame' = IF frame[f].locked = lock THEN frame
                    ELSE [frame EXCEPT ![f].locked = lock,
                                       ![f].highlight = lock \/ top.mouseFocus = f]
    /\ Return
    /\ UNCHANGED <<drawn, ops, histories>>

CursorEnter ==
    /\ Running("CursorEnter")
    /\ LET f == calls[1].frame
       IN  /\ frame' = [frame EXCEPT ![f].highlight = @ \/ ~frame[f].locked]
           /\ entered' = entered \cup {f}
           /\ quirks' = quirks \cup {q \in {"hasty"} : top.mouseFocus # f}
           /\ Run(<<Script(f)>>)
    /\ UNCHANGED <<drawn, ops, due>>

CursorExit ==
    /\ Running("CursorExit")
    /\ LET f == calls[1].frame
       IN  /\ frame' = [frame EXCEPT ![f].highlight = @ /\ frame[f].locked]
           /\ entered' = entered \ {f}
           /\ Run(<<Script(f)>>)
    /\ UNCHANGED <<drawn, ops, quirks, due>>

-----------------------------------------------------------------------------
(* Scripts, called by a frame or by the game. *)

(* Mutant: the search for a loop begins one parent too late. *)
LoopsAbove(f, p) ==
    LET A[n \in 0..Cardinality(Made)] ==
            IF n = 0 THEN {frame[g].parent : g \in {p} \ {Nil}}
            ELSE A[n - 1] \cup {frame[g].parent : g \in A[n - 1] \ {Nil}}
    IN  f \in A[Cardinality(Made)]
(* CScriptRegion_SetParent refuses a loop of parents. *)
WouldLoop(f, p) ==
    LET A[n \in 0..Cardinality(Made)] ==
            IF n = 0 THEN {p} ELSE A[n - 1] \cup {frame[g].parent : g \in A[n - 1] \ {Nil}}
    IN  f \in A[Cardinality(Made)]

Operations(f) ==
    {Call(op, f, 0) : op \in {"Show", "Hide", "EnableEvent", "DisableEvent"}}
    \cup {Call("SetFrameLevel", f, l) : l \in AskedLevels}
    \cup {Call("SetParent", f, p) : p \in {q \in Made \cup {Nil} : ~WouldLoop(f, q)}}
    \cup {Call("LockHighlight", f, b) : b \in {lock \in BOOLEAN : f \in Buttons}}

ScriptCalls ==
    /\ calls = <<>> \/ Running("Script")
    /\ ops # <<>>
    /\ ops' = Tail(ops)
    /\ \E f \in Made : \E c \in Operations(f) :
        <<c.op, f>> \in Head(ops) /\ calls' = <<c>> \o calls
    /\ UNCHANGED <<frame, drawn, histories>>

ScriptReturns ==
    /\ Running("Script")
    /\ Return
    /\ UNCHANGED <<frame, drawn, ops, histories>>

-----------------------------------------------------------------------------
(* CSimpleTop: input and updates. *)

(* OnMouseMove: the first registered frame under the mouse gets the focus; *)
(* the scripts run when m_mouseFocus has changed.                          *)
FocusChange(hits) ==
    LET under == {i \in DOMAIN queue["mouse"] : queue["mouse"][i].frame \in hits}
        next == IF under = {} THEN Nil ELSE queue["mouse"][Min(under)].frame
        last == top.mouseFocus
    IN  [focus |-> next,
         scripts |-> IF next = last THEN <<>>
                     ELSE (IF last = Nil THEN <<>> ELSE <<Call("CursorExit", last, 0)>>)
                       \o (IF next = Nil THEN <<>> ELSE <<Call("CursorEnter", next, 0)>>)]

OnMouseMove ==
    /\ calls = <<>>
    /\ \E hits \in {place \cap Made : place \in Places} :
        /\ top' = [top EXCEPT !.hits = hits, !.mouseFocus = FocusChange(hits).focus]
        /\ calls' = FocusChange(hits).scripts
    /\ UNCHANGED <<frame, node, queue, ops, histories>>

OnMouseDown ==
    /\ calls = <<>>
    /\ LET target == IF top.mouseCapture # Nil THEN top.mouseCapture ELSE top.mouseFocus
       IN  /\ target # Nil
           /\ top' = [top EXCEPT !.mouseCapture = target]
           /\ calls' = <<Script(target)>>
    /\ UNCHANGED <<frame, node, queue, ops, histories>>

(* OnMouseUp; the capture ends with the last button. *)
OnMouseUp ==
    /\ calls = <<>>
    /\ top.mouseCapture # Nil
    /\ \E last \in BOOLEAN :
        calls' = <<Script(top.mouseCapture), Call("MouseReleased", Nil, last)>>
    /\ UNCHANGED <<frame, drawn, ops, histories>>

MouseReleased ==
    /\ Running("MouseReleased")
    /\ top' = [top EXCEPT !.mouseCapture = IF calls[1].arg THEN Nil ELSE @]
    /\ Return
    /\ UNCHANGED <<frame, node, queue, ops, histories>>

OnKeyDown ==
    /\ calls = <<>>
    /\ calls' = <<Call("Key", Nil, 1)>>
    /\ UNCHANGED <<frame, drawn, ops, histories>>

(* The loop of OnKeyDown over the queue; a visible frame with a handler    *)
(* eats the key, and is captured when the handler has returned.            *)
KeyLoop ==
    /\ Running("Key")
    /\ LET i == calls[1].arg
           f == queue["key"][i].frame
       IN  IF i > Len(queue["key"])
           THEN Return
           ELSE IF frame[f].visible /\ f \in KeyHandlers
           THEN Run(<<Script(f), Call("KeyEaten", f, 0)>>)
           ELSE Run(<<Call("Key", Nil, i + 1)>>)
    /\ UNCHANGED <<frame, drawn, ops, histories>>

KeyEaten ==
    /\ Running("KeyEaten")
    /\ LET f == calls[1].frame
       IN  /\ top' = [top EXCEPT !.keydownCapture = f]
           /\ quirks' = quirks \cup {q \in {"escaped"} : ~frame[f].visible}
    /\ Return
    /\ UNCHANGED <<frame, node, queue, ops, entered, due>>

OnKeyUp ==
    /\ calls = <<>>
    /\ LET f == top.keydownCapture
       IN  /\ f # Nil
           /\ calls' = (IF frame[f].visible /\ f \in KeyHandlers THEN <<Script(f)>> ELSE <<>>)
                        \o <<Call("KeyReleased", f, 0)>>
    /\ UNCHANGED <<frame, drawn, ops, histories>>

KeyReleased ==
    /\ Running("KeyReleased")
    /\ top' = [top EXCEPT !.keydownCapture = Nil]
    /\ Return
    /\ UNCHANGED <<frame, node, queue, ops, histories>>

(* CSimpleTop::OnLayerUpdate, once a frame is drawn: level by level, the   *)
(* empty ones passed over.                                                 *)
OnLayerUpdate ==
    /\ calls = <<>>
    /\ calls' = <<Call("UpdateLevel", Nil, 0)>>
    /\ UNCHANGED <<frame, drawn, ops, histories>>

LevelsLeft == {l \in Levels : l >= calls[1].arg /\ node[l].frames # <<>>}

UpdateLevel ==
    /\ Running("UpdateLevel")
    /\ LevelsLeft # {}
    /\ LET l == Min(LevelsLeft)
       IN  /\ node' = [node EXCEPT ![l].pendingFrame = Head(node[l].frames)]
           /\ due' = ToSet(node[l].frames)
           /\ Run(<<Call("UpdateNode", Nil, l)>>)
    /\ UNCHANGED <<frame, queue, top, ops, entered, quirks>>

(* The loop of CFrameStrataNode::OnLayerUpdate; pendingFrame is the frame  *)
(* to go on with, whatever the script of this one does to the list.        *)
UpdateNode ==
    /\ Running("UpdateNode")
    /\ LET l == calls[1].arg
           f == node[l].pendingFrame
       IN  IF f = Nil
           THEN Run(<<Call("UpdateLevel", Nil, l + 1)>>) /\ UNCHANGED <<node, due>>
           ELSE /\ node' = [node EXCEPT ![l].pendingFrame = NextFrame(f)]
                /\ due' = due \ {f}
                /\ Run(<<Script(f), Call("UpdateNode", Nil, l)>>)
    /\ UNCHANGED <<frame, queue, top, ops, entered, quirks>>

(* ... and at the end the focus is looked for again if something changed.  *)
CheckFocus ==
    /\ Running("UpdateLevel")
    /\ LevelsLeft = {}
    /\ IF top.checkFocus
       THEN /\ top' = [top EXCEPT !.checkFocus = FALSE,
                                  !.mouseFocus = FocusChange(top.hits).focus]
            /\ Run(FocusChange(top.hits).scripts)
       ELSE Return /\ UNCHANGED top
    /\ UNCHANGED <<frame, node, queue, ops, histories>>

FramesNext ==
    /\ "overflow" \notin quirks
    /\ \/ ScriptCalls \/ ScriptReturns
       \/ Hide \/ HideThis \/ Removed \/ HideChildren
       \/ Show \/ ShowThis \/ ShowChildren
       \/ SetFrameLevel \/ ShiftChildren
       \/ SetParent \/ Reparent \/ SetBeingScrolled \/ ScrollChildren \/ Attach
       \/ EnableEvent \/ DisableEvent \/ Disabled
       \/ LockHighlight \/ CursorEnter \/ CursorExit
       \/ OnMouseMove \/ OnMouseDown \/ OnMouseUp \/ MouseReleased
       \/ OnKeyDown \/ KeyLoop \/ KeyEaten \/ OnKeyUp \/ KeyReleased
       \/ OnLayerUpdate \/ UpdateLevel \/ UpdateNode \/ CheckFocus

FramesSpec == FramesInit /\ [][FramesNext]_framesVars

-----------------------------------------------------------------------------
(* Properties. *)

(* No call is left, and none was cut off. *)
Idle == calls = <<>> /\ "overflow" \notin quirks

FrameRecords ==
    [parent : Made \cup {Nil}, children : Seq(Made), shown : BOOLEAN, visible : BOOLEAN,
     level : Levels, eventmask : SUBSET Events, highlight : BOOLEAN, locked : BOOLEAN]
NodeRecords ==
    [frames : Seq(Made), pendingFrames : Seq(Made), pendingFrame : Made \cup {Nil}]
QueueEntries == [frame : Made, priority : Levels]
TopRecords ==
    [mouseFocus : Made \cup {Nil}, mouseCapture : Made \cup {Nil},
     keydownCapture : Made \cup {Nil}, checkFocus : BOOLEAN, hits : SUBSET Frame]

(* The members have their types: in particular a level is never negative,  *)
(* whatever levels the children of a frame are shifted to.                 *)
FramesTypeOK ==
    /\ Made \subseteq Frame /\ frame \in [Made -> FrameRecords]
    /\ node \in [Levels -> NodeRecords]
    /\ queue \in [Events -> Seq(QueueEntries)]
    /\ top \in TopRecords
    /\ ops \in Seq(SUBSET (ScriptOps \X Frame))
    /\ entered \subseteq Made /\ due \subseteq Made /\ quirks \subseteq Quirks

(* When no call is left, a frame is visible if it is shown and its parent  *)
(* is, through any nesting of shows and hides in the scripts that the walk *)
(* over the children calls: unless a script showed a frame that was being  *)
(* hidden, or hid a former parent that still lists the frame, or a new one *)
(* that does not list it yet (HideThis, ShowThis, SetParent).              *)
VisibleTree ==
    Idle /\ quirks \cap {"reshown", "orphaned", "unlisted"} = {} =>
        \A f \in Made :
            frame[f].visible <=>
                /\ frame[f].shown
                /\ frame[f].parent # Nil => frame[frame[f].parent].visible

(* When no call is left, a frame is in the list of its level, and in each  *)
(* queue of the events it is enabled for, exactly once and with its level  *)
(* as priority, if it is visible; and nowhere if it is not.  A frame shown *)
(* while its level is updated stays in pendingFrames, which nobody reads.  *)
Entries(f, e) == {i \in DOMAIN queue[e] : queue[e][i].frame = f}
ServedIfVisible ==
    Idle /\ quirks \cap {"reshown", "requeued", "shifted"} = {} =>
        \A f \in Made :
            /\ \A l \in Levels :
                /\ node[l].pendingFrames = <<>> \/ "late" \in quirks
                /\ Contains(node[l].frames \o node[l].pendingFrames, f)
                       <=> frame[f].visible /\ l = frame[f].level
            /\ \A e \in Events :
                IF frame[f].visible /\ e \in frame[f].eventmask
                THEN \E i \in 1..Len(queue[e]) :
                        Entries(f, e) = {i} /\ queue[e][i].priority = frame[f].level
                ELSE Entries(f, e) = {}

(* Unless a check is due, the mouse focus is what a search would find, and *)
(* no registered frame under the mouse has a higher level: showing,        *)
(* hiding, enabling, disabling and shifting frames all ask for the check.  *)
FocusOnTop ==
    Idle /\ ~top.checkFocus /\ "requeued" \notin quirks =>
        /\ top.mouseFocus = FocusChange(top.hits).focus
        /\ top.mouseFocus # Nil =>
            \A f \in top.hits \cap Made : Queued(f, "mouse") =>
                frame[f].level <= frame[top.mouseFocus].level

(* When no call is left, exactly the frame with the mouse focus has had    *)
(* OnEnter without OnLeave, and the highlight is drawn on it and on locked *)
(* buttons: however the focus was lost.  OnMouseMove calls OnEnter for a   *)
(* frame that the OnLeave script just hid (quirk hasty).                   *)
HighlightFollows ==
    Idle /\ "hasty" \notin quirks =>
        /\ entered = {top.mouseFocus} \ {Nil}
        /\ \A f \in Made :
            frame[f].highlight <=> (frame[f].locked \/ top.mouseFocus = f)

(* The mouse and the keys are never captured by an invisible frame, nor    *)
(* the mouse by one it is disabled for; except that OnKeyDown captures the *)
(* key for the frame whose handler hid it (quirk escaped).                 *)
CapturesVisible ==
    Idle /\ "requeued" \notin quirks =>
        /\ \A f \in {top.mouseCapture, top.mouseFocus} \ {Nil} :
            frame[f].visible /\ "mouse" \in frame[f].eventmask
        /\ top.keydownCapture # Nil /\ "escaped" \notin quirks =>
            frame[top.keydownCapture].visible

(* While a level is updated, what is left to update is what was in the     *)
(* level at the start and has not left it: no frame is skipped, updated    *)
(* twice or updated after it was hidden, whatever the OnUpdate scripts do. *)
Ahead(list, f) ==
    {list[i] : i \in {j \in DOMAIN list : \E k \in 1..j : list[k] = f}}
UpdatesTheRest ==
    calls # <<>> /\ calls[Len(calls)].op = "UpdateNode" /\ "shifted" \notin quirks =>
        LET l == calls[Len(calls)].arg
            next == node[l].pendingFrame
        IN  /\ due = Ahead(node[l].frames, next)
            /\ next # Nil => next \in due

(* The walks over the children end: CScriptRegion_SetParent refuses loops  *)
(* of parents.  It does not see those of m_children, which a frame never   *)
(* leaves: the walks from a frame made the child of its former child do    *)
(* not end.                                                                *)
NoEndlessRecursion == "overflow" \in quirks => "looped" \in quirks

(* However scripts nest: a frame's flags, its parent's, its level, and the *)
(* lists and queues that serve it agree, and a list whose frames come and  *)
(* go while it is walked is walked to its end.                             *)
FramesAgree == FramesTypeOK /\ VisibleTree /\ ServedIfVisible /\ UpdatesTheRest

(* However scripts nest: the mouse and the keys belong to visible frames,  *)
(* the focus to the one on top, and the highlight follows it.              *)
FocusAgrees == FocusOnTop /\ HighlightFollows /\ CapturesVisible

=============================================================================
