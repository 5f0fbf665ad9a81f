----------------------------- MODULE ObjectUpdates -----------------------------
(***************************************************************************)
(* The objects of the game world: the manager ClntObjMgr and the handlers  *)
(* of the server's update messages.  An object that leaves the client's    *)
(* range is disabled and kept for a while; it is enabled again when the    *)
(* server speaks of it, or collected.  A message is a list of updates and  *)
(* is handled in two passes over it, the first for the objects' fields and *)
(* tables, the second for what depends on them.                            *)
(*                                                                         *)
(* The server is a table of what it has told the client.  Locking an       *)
(* object is left out: SetObjectLocked has no caller, nothing reads        *)
(* m_disablePending.  Everything runs on the main thread.                  *)
(***************************************************************************)
EXTENDS IntrusiveList, Functions

CONSTANTS
    Guid,           \* the objects of the server's world
    Nobody,         \* no guid: 0
    Player,         \* the one that is the client's own
    TypeOf,         \* the type of each
    Field,          \* the fields of an object, each 0 or 1
    Short, Long,    \* the collection ages: 10 s and 120 s
    Width,          \* times are modulo Width, 2^32 in the code
    Start,          \* the time at first
    MaxTime,        \* bound: how much time passes
    MaxUpdates,     \* bound: updates in a message
    MaxSent         \* bound: updates in all

Types == {TypeOf[g] : g \in Guid}
FieldValues == [Field -> 0..1]
Blank == [f \in Field |-> 0]

ASSUME ObjectUpdatesAssumption ==
    /\ IsFiniteSet(Guid) /\ Player \in Guid /\ Nobody \notin Guid
    /\ DOMAIN TypeOf = Guid
    /\ Short \in Nat /\ Long \in Nat /\ Short <= Long
    /\ Width \in Nat /\ MaxTime \in Nat /\ MaxTime < Width /\ Long < Width
    /\ Start \in 0..(Width - 1)
    /\ MaxUpdates \in Nat \ {0} /\ MaxSent \in Nat

VARIABLES
    mgr,            \* the tables and lists of s_curMgr
    activePlayer,   \* m_activePlayer
    clock,          \* the time, and the time that the world last ticked
    message,        \* the updates of the message that is sent, then handled
    pass,           \* "none", "first" or "second"
    index,          \* the update that the pass has come to
    server,         \* what the server has told: view, parted, sent
    missed          \* history: in the server's view, but the client had
                    \* collected them when they came in range again

objectVars == <<mgr, activePlayer, clock, message, pass, index, server, missed>>

Without(table, S) == Restrict(table, DOMAIN table \ S)
With(table, more) ==
    [g \in DOMAIN table \cup DOMAIN more |->
        IF g \in DOMAIN more THEN more[g] ELSE table[g]]

-----------------------------------------------------------------------------
(* The manager.  An object is in a table by its guid, and by m_link in one *)
(* list: visible, reenabled, or the fifo of its type.                      *)

Manager(objects, lazy, visible, reenabled, fifo) ==
    [objects |-> objects, lazy |-> lazy, visible |-> visible, reenabled |-> reenabled,
     fifo |-> fifo]
NoObjects == Manager(<<>>, <<>>, <<>>, <<>>, [t \in Types |-> <<>>])

Unlinked(m, S) ==
    Manager(m.objects, m.lazy, UnlinkAll(m.visible, S), UnlinkAll(m.reenabled, S),
            [t \in Types |-> UnlinkAll(m.fifo[t], S)])

Now == (Start + clock.now) % Width
Tick == (Start + clock.tick) % Width

(* Mutant: the difference is taken the other way round. *)
AgeBackwards(object) == (object.disableTime - Now) % Width
(* The difference of two unsigned times. *)
Age(object) == (Now - object.disableTime) % Width

(* GarbageCollect looks at the head of each type's list only. *)
Collectable(m, types, collectAge) ==
    {Head(m.fifo[t]) : t \in {u \in types :
        m.fifo[u] # <<>> /\ Age(m.lazy[Head(m.fifo[u])]) >= collectAge}}
GarbageCollect(m, types, collectAge) ==
    LET gone == Collectable(m, types, collectAge)
        rest == Unlinked(m, gone)
    IN  Manager(m.objects, Without(m.lazy, gone), rest.visible, rest.reenabled, rest.fifo)

Activated(m, S) ==
    [g \in S |-> [m.lazy[g] EXCEPT !.disabled = FALSE, !.inReenable = TRUE]]
(* Mutant: the objects stay in the lists of their types too. *)
StaysLinked(m, S) ==
    Manager(With(m.objects, Activated(m, S)), Without(m.lazy, S), m.visible,
            m.reenabled \o SetToSeq(S), m.fifo)
(* Disabled objects become active again. *)
Reenable(m, S) ==
    LET rest == Unlinked(m, S)
    IN  Manager(With(m.objects, Activated(m, S)), Without(m.lazy, S), rest.visible,
                rest.reenabled \o SetToSeq(S), rest.fifo)

HasObject(m, g) == g \in DOMAIN m.objects \cup DOMAIN m.lazy
(* Mutant: only active objects are looked for. *)
ActiveOnly(m, S) == m
(* GetUpdateObject for each of S, with the call of Reenable that follows. *)
GetUpdateObject(m, S) == Reenable(m, (S \cap DOMAIN m.lazy) \ DOMAIN m.objects)

(* Mutant: what is not sent stays. *)
FillsSent(fields, sent, zeroZeroBits) ==
    [f \in Field |-> IF f \in DOMAIN sent THEN sent[f] ELSE fields[f]]
(* FillInPartialObjectData; for an object that exists and is created again *)
(* by the server, the fields that are not sent are zero.                   *)
FillIn(fields, sent, zeroZeroBits) ==
    [f \in Field |-> IF f \in DOMAIN sent THEN sent[f]
                     ELSE IF zeroZeroBits THEN 0 ELSE fields[f]]

(* HandleObjectOutOfRangePass1 and Pass2 for the objects of S. *)
Disabling(m, S) ==
    LET gone == S \cap DOMAIN m.objects
        disabled == [g \in gone |->
            [m.objects[g] EXCEPT !.disabled = TRUE, !.disableTime = Tick]]
        rest == Unlinked(m, gone)
    IN  Manager(Without(m.objects, gone), With(m.lazy, disabled), rest.visible,
                rest.reenabled,
                [t \in Types |-> rest.fifo[t] \o SetToSeq({g \in gone : TypeOf[g] = t})])

-----------------------------------------------------------------------------
(* The server.  It creates an object again only if it has left the view or *)
(* to refresh it; it changes those in view; objects leave the view, or     *)
(* come back with the fields they left with, or are destroyed.             *)

Nonzero(fields) == Restrict(fields, {f \in Field : fields[f] # 0})

Adds(update) ==
    /\ pass = "none" /\ server.sent < MaxSent /\ Len(message) < MaxUpdates
    /\ message # <<>> => message[1].type # "destroy"
    /\ message' = Append(message, update)
    /\ UNCHANGED <<mgr, activePlayer, clock, pass, index, missed>>

Told(view, parted) ==
    server' = [view |-> view, parted |-> parted, sent |-> server.sent + 1]

SendsFull ==
    \E g \in Guid, fields \in FieldValues :
        /\ Adds([type |-> "full", guids |-> {g}, fields |-> Nonzero(fields)])
        /\ Told(With(server.view, [h \in {g} |-> fields]), Without(server.parted, {g}))

SendsPartial ==
    \E g \in DOMAIN server.view, f \in Field, value \in 0..1 :
        /\ server.view[g][f] # value
        /\ Adds([type |-> "partial", guids |-> {g}, fields |-> [h \in {f} |-> value]])
        /\ Told([server.view EXCEPT ![g][f] = value], server.parted)

SendsMovement ==
    \E g \in DOMAIN server.view :
        /\ Adds([type |-> "movement", guids |-> {g}, fields |-> <<>>])
        /\ Told(server.view, server.parted)

(* Only the first update takes objects out of range. *)
SendsOutOfRange ==
    \E S \in SUBSET DOMAIN server.view \ {{}} :
        /\ message = <<>>
        /\ Adds([type |-> "out", guids |-> S, fields |-> <<>>])
        /\ LET gone == S \ {Player}
           IN  Told(Without(server.view, gone),
                    With(server.parted, Restrict(server.view, gone)))

SendsInRange ==
    \E S \in SUBSET DOMAIN server.parted \ {{}} :
        /\ Adds([type |-> "in", guids |-> S, fields |-> <<>>])
        /\ Told(With(server.view, Restrict(server.parted, S)), Without(server.parted, S))

(* SMSG_DESTROY_OBJECT, a message of its own. *)
SendsDestroy ==
    \E g \in DOMAIN server.view \cup DOMAIN server.parted :
        /\ message = <<>>
        /\ Adds([type |-> "destroy", guids |-> {g}, fields |-> <<>>])
        /\ Told(Without(server.view, {g}), Without(server.parted, {g}))

-----------------------------------------------------------------------------
(* The handlers. *)

Update == message[index]
TheGuid(update) == CHOOSE g \in update.guids : TRUE
NextUpdate == index' = index + 1
Handling(p, type) == pass = p /\ index <= Len(message) /\ Update.type = type

(* OnObjectDestroy. *)
OnObjectDestroy ==
    /\ pass = "none" /\ message # <<>> /\ message[1].type = "destroy"
    /\ mgr' = Disabling(mgr, message[1].guids)
    /\ missed' = missed \ message[1].guids
    /\ message' = <<>>
    /\ UNCHANGED <<activePlayer, clock, pass, index, server>>

(* Mutant: the player is treated like the others. *)
AlsoPlayer(guids) == guids
NotPlayer(guids) == guids \ {activePlayer}

(* ObjectUpdateHandler begins, with UpdateOutOfRangeObjects. *)
ObjectUpdateHandler ==
    /\ pass = "none" /\ message # <<>> /\ message[1].type # "destroy"
    /\ pass' = "first"
    /\ IF message[1].type = "out"
       THEN /\ mgr' = Disabling(mgr, NotPlayer(message[1].guids))
            /\ missed' = missed \ message[1].guids
            /\ index' = 2
       ELSE /\ index' = 1
            /\ UNCHANGED <<mgr, missed>>
    /\ UNCHANGED <<activePlayer, clock, message, server>>

(* UpdateObject; an object that is not known is skipped. *)
UpdateObject ==
    /\ Handling("first", "partial")
    /\ LET g == TheGuid(Update)
           m == GetUpdateObject(mgr, {g})
       IN  mgr' = IF ~HasObject(mgr, g) THEN mgr
                  ELSE [m EXCEPT !.objects[g].fields = FillIn(@, Update.fields, FALSE)]
    /\ NextUpdate
    /\ UNCHANGED <<activePlayer, clock, message, pass, server, missed>>

SkipMovement ==
    /\ Handling("first", "movement")
    /\ NextUpdate
    /\ UNCHANGED <<mgr, activePlayer, clock, message, pass, server, missed>>

UpdateInRangeObjects ==
    /\ Handling("first", "in")
    /\ LET guids == NotPlayer(Update.guids)
       IN  /\ mgr' = GetUpdateObject(mgr, guids)
           /\ missed' = missed \cup {g \in guids : ~HasObject(mgr, g)}
    /\ NextUpdate
    /\ UNCHANGED <<activePlayer, clock, message, pass, server>>

(* CreateObject for an object that exists. *)
CreateExisting ==
    /\ Handling("first", "full")
    /\ LET g == TheGuid(Update)
       IN  /\ HasObject(mgr, g)
           /\ mgr' = [GetUpdateObject(mgr, {g}) EXCEPT
                        !.objects[g].fields = FillIn(@, Update.fields, TRUE)]
    /\ NextUpdate
    /\ UNCHANGED <<activePlayer, clock, message, pass, server, missed>>

(* Mutant: memory is allocated before the player is known. *)
HeapIfKnown(g) == IF g = activePlayer THEN "heap" ELSE "pool"
(* ClntObjMgrAllocObject, after ClntObjMgrSetActivePlayer. *)
MemoryOf(g) == IF g = activePlayer' THEN "heap" ELSE "pool"

(* CreateObject for a new one: a player's memory is from the heap; before  *)
(* another is allocated, an old disabled object of its type is collected.  *)
CreateNew ==
    /\ Handling("first", "full")
    /\ LET g == TheGuid(Update)
           collected == IF g = Player THEN mgr
                        ELSE GarbageCollect(mgr, {TypeOf[g]}, Short)
       IN  /\ ~HasObject(mgr, g)
           /\ activePlayer' = IF g = Player THEN g ELSE activePlayer
           /\ mgr' = Manager(
                With(collected.objects, [h \in {g} |->
                    [fields |-> FillIn(Blank, Update.fields, FALSE),
                     disabled |-> FALSE, inReenable |-> FALSE, postInited |-> FALSE,
                     disableTime |-> 0, memory |-> MemoryOf(g)]]),
                collected.lazy, Append(collected.visible, g), collected.reenabled,
                collected.fifo)
           /\ missed' = missed \ {g}
    /\ NextUpdate
    /\ UNCHANGED <<clock, message, pass, server>>

(* Mutant: the second pass skips the first update. *)
FromSecond == 2
SecondPassFrom == 1

SecondPass ==
    /\ pass = "first" /\ index > Len(message)
    /\ pass' = "second" /\ index' = SecondPassFrom
    /\ UNCHANGED <<mgr, activePlayer, clock, message, server, missed>>

(* CallMirrorHandlers reads the fields only, SkipSetOfObjects skips. *)
SkipInSecondPass ==
    /\ pass = "second" /\ index <= Len(message)
    /\ Update.type \in {"partial", "in", "out"}
    /\ NextUpdate
    /\ UNCHANGED <<mgr, activePlayer, clock, message, pass, server, missed>>

(* PostMovementUpdate; s_activeMover is nobody. *)
PostMovementUpdate ==
    /\ Handling("second", "movement")
    /\ mgr' = GetUpdateObject(mgr, {TheGuid(Update)})
    /\ NextUpdate
    /\ UNCHANGED <<activePlayer, clock, message, pass, server, missed>>

Handled(m) ==
    /\ mgr' = GarbageCollect(m, Types, Long)
    /\ pass' = "none" /\ index' = 0 /\ message' = <<>>
    /\ UNCHANGED <<activePlayer, clock, server, missed>>

(* PostInitObject; an object that is not found ends the second pass, with  *)
(* all that follows.                                                       *)
PostInitObject ==
    /\ Handling("second", "full")
    /\ IF TheGuid(Update) \in DOMAIN mgr.objects
       THEN /\ mgr' = [mgr EXCEPT !.objects[TheGuid(Update)].postInited = TRUE]
            /\ NextUpdate
            /\ UNCHANGED <<activePlayer, clock, message, pass, server, missed>>
       ELSE Handled(mgr)

(* The end of the second pass: reenabled objects become visible. *)
FinishReenabling ==
    /\ pass = "second" /\ index > Len(message)
    /\ LET done == ToSet(mgr.reenabled)
           Shown(g) == IF g \in done THEN [mgr.objects[g] EXCEPT !.inReenable = FALSE]
                       ELSE mgr.objects[g]
       IN  Handled(Manager([g \in DOMAIN mgr.objects |-> Shown(g)], mgr.lazy,
                           mgr.visible \o mgr.reenabled, <<>>, mgr.fifo))

(* LoginVerifyWorldHandler for another map: a new manager. *)
LoadNewWorld ==
    /\ pass = "none" /\ message = <<>>
    /\ DOMAIN mgr.objects # {}
    /\ mgr' = NoObjects /\ activePlayer' = Nobody /\ missed' = {}
    /\ server' = [server EXCEPT !.view = <<>>, !.parted = <<>>]
    /\ UNCHANGED <<clock, message, pass, index>>

(* The clock runs; the world ticks between messages. *)
TimePasses ==
    /\ clock.now < MaxTime
    /\ clock' = [clock EXCEPT !.now = @ + 1]
    /\ UNCHANGED <<mgr, activePlayer, message, pass, index, server, missed>>

WorldTicks ==
    /\ pass = "none"
    /\ clock.tick # clock.now
    /\ clock' = [clock EXCEPT !.tick = clock.now]
    /\ UNCHANGED <<mgr, activePlayer, message, pass, index, server, missed>>

ObjectInit ==
    /\ mgr = NoObjects /\ activePlayer = Nobody
    /\ clock = [now |-> 0, tick |-> 0]
    /\ message = <<>> /\ pass = "none" /\ index = 0
    /\ server = [view |-> <<>>, parted |-> <<>>, sent |-> 0]
    /\ missed = {}

ObjectNext ==
    \/ SendsFull \/ SendsPartial \/ SendsMovement
    \/ SendsOutOfRange \/ SendsInRange \/ SendsDestroy
    \/ OnObjectDestroy \/ ObjectUpdateHandler
    \/ UpdateObject \/ SkipMovement \/ UpdateInRangeObjects
    \/ CreateExisting \/ CreateNew
    \/ SecondPass \/ SkipInSecondPass \/ PostMovementUpdate
    \/ PostInitObject \/ FinishReenabling
    \/ LoadNewWorld \/ TimePasses \/ WorldTicks

ObjectSpec == ObjectInit /\ [][ObjectNext]_objectVars

-----------------------------------------------------------------------------
(* Properties. *)

Between == pass = "none" /\ message = <<>>
AllObjects == [fields : FieldValues, disabled : BOOLEAN, inReenable : BOOLEAN,
               postInited : BOOLEAN, disableTime : 0..(Width - 1),
               memory : {"heap", "pool"}]

(* The tables and lists have their types, and the lists hold only objects  *)
(* that a table holds: none that was freed.                                *)
ObjectTypeOK ==
    /\ IsInjective(mgr.visible) /\ IsInjective(mgr.reenabled)
    /\ DOMAIN mgr.objects \subseteq Guid /\ Range(mgr.objects) \subseteq AllObjects
    /\ DOMAIN mgr.lazy \subseteq Guid /\ Range(mgr.lazy) \subseteq AllObjects
    /\ ToSet(mgr.visible \o mgr.reenabled) \subseteq DOMAIN mgr.objects
    /\ \A t \in Types : ToSet(mgr.fifo[t]) \subseteq DOMAIN mgr.lazy
    /\ activePlayer \in Guid \cup {Nobody}
    /\ clock.now \in 0..MaxTime /\ clock.tick \in 0..clock.now
    /\ pass \in {"none", "first", "second"} /\ index \in 0..(MaxUpdates + 1)
    /\ missed \subseteq Guid

(* Between messages the client's active objects are what the server has    *)
(* told it of, with the same fields, however they were disabled, enabled   *)
(* again, created again and collected; but for those that the client had   *)
(* collected when the server said they were in range again.                *)
ViewAgrees ==
    Between =>
        /\ DOMAIN mgr.objects = DOMAIN server.view \ missed
        /\ \A g \in DOMAIN mgr.objects : mgr.objects[g].fields = server.view[g]

(* Between messages an object is either active, initialized to the end,    *)
(* and visible, or disabled, and waits in the list of its type.            *)
ActiveOrDisabled ==
    Between =>
        /\ DOMAIN mgr.objects \cap DOMAIN mgr.lazy = {}
        /\ ToSet(mgr.visible) = DOMAIN mgr.objects /\ mgr.reenabled = <<>>
        /\ \A g \in DOMAIN mgr.objects :
            LET object == mgr.objects[g]
            IN  object.postInited /\ ~object.disabled /\ ~object.inReenable
        /\ \A g \in DOMAIN mgr.lazy :
            mgr.lazy[g].disabled /\ Contains(mgr.fifo[TypeOf[g]], g)

(* What the first pass created or found is still there in the second, so   *)
(* that no update ends the pass before its time.                           *)
SecondPassFinds ==
    pass = "second" =>
        \A i \in DOMAIN message :
            message[i].type = "full" => message[i].guids \subseteq DOMAIN mgr.objects

(* The player's object leaves the world only when it is destroyed, or with *)
(* the world.                                                              *)
PlayerStays ==
    [][(Player \in DOMAIN mgr.objects /\ Player \notin DOMAIN mgr.objects') =>
        OnObjectDestroy \/ LoadNewWorld]_objectVars

(* An object is freed when it has been disabled for the collection age, on *)
(* a clock that wraps: the short one for a new object of its type, else    *)
(* the long one; and no other of its type was disabled before it.          *)
Elapsed(object) ==
    CHOOSE n \in 0..MaxTime : (Start + clock.now - n) % Width = object.disableTime
CollectsOldest ==
    [][\A g \in DOMAIN mgr.lazy :
        ~LoadNewWorld /\ ~(g \in DOMAIN mgr.lazy' \cup DOMAIN mgr.objects') =>
            /\ Elapsed(mgr.lazy[g]) >= (IF pass = "first" THEN Short ELSE Long)
            /\ \A h \in DOMAIN mgr.lazy : TypeOf[h] = TypeOf[g] =>
                Elapsed(mgr.lazy[g]) >= Elapsed(mgr.lazy[h])]_objectVars

(* An object is freed as it was allocated: ClntObjMgrFreeObject takes the  *)
(* active player's memory for the heap's, all others' for the pool's.      *)
FreedAsAllocated ==
    \A g \in DOMAIN mgr.lazy : mgr.lazy[g].memory = "heap" <=> g = activePlayer

(* The client's objects are the server's: as they are told between         *)
(* messages, each in the table and list of its state, all there when the   *)
(* second pass comes to them, and allocated as they will be freed.         *)
ObjectsAgree ==
    /\ ObjectTypeOK
    /\ ViewAgrees /\ ActiveOrDisabled
    /\ SecondPassFinds /\ FreedAsAllocated

(* Objects leave when they are due: the player's never for being out of    *)
(* range, a disabled one when it is the oldest and old enough.             *)
LeaveWhenDue == PlayerStays /\ CollectsOldest

=============================================================================
