---------------------------- MODULE AsyncFileRead ----------------------------
(***************************************************************************)
(* The asynchronous file reader of src/src/async: one read queue, one      *)
(* reader thread (AsyncFileReadThread) and the main thread, which          *)
(* allocates, submits, waits for, cancels and destroys request objects     *)
(* (CAsyncObject) and runs their callbacks from AsyncFileReadPollHandler.  *)
(*                                                                         *)
(* Every section under AsyncFileRead::s_queueLock is one step.  The main   *)
(* thread's calls nest (a wait polls, a poll runs a callback, a callback   *)
(* may wait again), so its control state is a stack of frames.             *)
(*                                                                         *)
(* The code that uses the reader is the action set under "users" below;    *)
(* it follows the discipline all callers in src/src keep: an object is     *)
(* submitted right after it is allocated, its own callback destroys it,    *)
(* and it is neither cancelled nor destroyed by anyone else from the       *)
(* moment its callback starts or while a wait for it is in progress.       *)
(* ModelLoading.tla replaces it with the real users.                       *)
(*                                                                         *)
(* Left out: the streaming queues (SFile::IsStreamingMode is constantly    *)
(* false), s_waiting and s_progressCount (written, never read), the files  *)
(* and the bytes read.                                                     *)
(***************************************************************************)
EXTENDS IntrusiveList, FiniteSets

CONSTANTS
    Objects,      \* the CAsyncObjects the process can ever allocate
    NULL,         \* the null pointer
    Priorities,   \* the priorities users set (125, 126 and (uint8_t)-126)
    MaxRequests,  \* bound: requests submitted in a behaviour
    MaxWaits      \* bound: AsyncFileReadWait calls active at once

ASSUME NullAssumption == NULL \notin Objects
ASSUME PrioritiesAssumption == Priorities \subseteq 0..255
ASSUME BoundsAssumption == MaxRequests \in Nat /\ MaxWaits \in Nat

VARIABLES
    fresh,            \* objects not yet created by NewNode
    freeList,         \* s_asyncFileReadFreeList
    readList,         \* s_asyncQueues[0]->readList
    postList,         \* s_asyncFileReadPostList
    currentObject,    \* the reader thread's thread->currentObject
    isProcessed, isRead, isCurrent, \* the objects' flags
    queued,           \* object->queue # nullptr
    priority,         \* object->priority
    callback,         \* object->userPostloadCallback: none, user's, cleanup's
    asyncWaitObject,  \* s_asyncWaitObject
    stack,            \* the main thread's active calls, innermost last
    held,             \* objects whose pointer a user keeps
    awaited,          \* objects some active wait has not seen processed
    requests          \* number of requests so far

vars == <<fresh, freeList, readList, postList, currentObject, isProcessed,
          isRead, isCurrent, queued, priority, callback, asyncWaitObject,
          stack, held, awaited, requests>>

flagVars == <<isProcessed, isRead, isCurrent>>
objectVars == <<isProcessed, isRead, isCurrent, queued, priority, callback>>
userVars == <<held, requests>>

----------------------------------------------------------------------------
(* The read list.                                                          *)

\* The same with the priorities compared as signed bytes.
LinksBeforeSigned(p, a2, e) ==
    LET Signed(q) == IF q > 127 THEN q - 256 ELSE q
    IN Signed(p) <= Signed(priority[e]) /\ (a2 \/ p # priority[e])

\* AsyncFileReadLinkObject links an object of priority p before entry e?
LinksBefore(p, a2, e) == p <= priority[e] /\ (a2 \/ p # priority[e])

\* i is where AsyncFileReadLinkObject inserts an object of priority p.
IsLinkPosition(i, p, a2) ==
    /\ i <= Len(readList) => LinksBefore(p, a2, readList[i])
    /\ \A j \in 1..(i - 1) : ~ LinksBefore(p, a2, readList[j])

----------------------------------------------------------------------------
(* The main thread's call stack.                                           *)

\* op: "poll"    AsyncFileReadPollHandler at the top of its loop
\*     "check"   the same after a callback, before the time limit is checked
\*     "user"    the postload callback of obj
\*     "after"   the same once it has destroyed obj
\*     "cleanup" the callback Cancel put in its place
\*     "none"    a null callback
\*     "wait"    AsyncFileReadWait(obj)
\*     "destroy" AsyncFileReadDestroyObject(obj) spinning on isCurrent
Frame ==
    [op : {"poll", "check"}, obj : {NULL}]
    \cup [op : {"user", "after", "cleanup", "none", "wait", "destroy"},
          obj : Objects]

Call(op, o) == [op |-> op, obj |-> o]
Top == stack[Len(stack)]
OnTop(op) == stack # <<>> /\ Top.op = op
Push(f) == stack' = Append(stack, f)
Pop == stack' = SubSeq(stack, 1, Len(stack) - 1)
Resume(op) == stack' = [stack EXCEPT ![Len(stack)] = Call(op, Top.obj)]

\* Code outside the reader runs: the event loop, or a user's callback.
UserRuns == stack = <<>> \/ OnTop("user") \/ OnTop("after")

ActiveWaits == Cardinality({i \in DOMAIN stack : stack[i].op = "wait"})

----------------------------------------------------------------------------
Init ==
    /\ fresh = Objects
    /\ freeList = <<>> /\ readList = <<>> /\ postList = <<>>
    /\ currentObject = NULL
    /\ isProcessed = [o \in Objects |-> FALSE]
    /\ isRead = [o \in Objects |-> FALSE]
    /\ isCurrent = [o \in Objects |-> FALSE]
    /\ queued = [o \in Objects |-> FALSE]
    /\ priority = [o \in Objects |-> 126]
    /\ callback = [o \in Objects |-> "none"]
    /\ asyncWaitObject = NULL
    /\ stack = <<>>
    /\ held = {}
    /\ awaited = {}
    /\ requests = 0

----------------------------------------------------------------------------
(* Users.                                                                  *)

\* AsyncFileReadAllocObject takes the head of the free list or a new node.
Allocated(o) ==
    \/ /\ freeList # <<>>
       /\ o = Head(freeList)
       /\ freeList' = Tail(freeList)
       /\ UNCHANGED fresh
    \/ /\ freeList = <<>>
       /\ o \in fresh
       /\ fresh' = fresh \ {o}
       /\ UNCHANGED freeList

\* Allocate an object, fill it in and submit it with AsyncFileReadObject.
\* Nothing observes the gap between the two locked sections: the object is
\* on no list and its fields are the caller's until it is linked.
Request(o, p, a2) ==
    /\ Allocated(o)
    /\ priority' = [priority EXCEPT ![o] =
                      IF asyncWaitObject # o THEN p
                      ELSE IF p > 127 THEN 128 ELSE 0]
    /\ IF asyncWaitObject = o
         THEN UNCHANGED readList
         ELSE \E i \in 1..(Len(readList) + 1) :
                 /\ IsLinkPosition(i, p, a2)
                 /\ readList' = InsertAt(readList, i, o)
    /\ queued' = [queued EXCEPT ![o] = TRUE]
    /\ callback' = [callback EXCEPT ![o] = "user"]
    /\ isProcessed' = [isProcessed EXCEPT ![o] = FALSE]
    /\ isRead' = [isRead EXCEPT ![o] = FALSE]
    /\ isCurrent' = [isCurrent EXCEPT ![o] = FALSE]
    /\ held' = held \cup {o}
    /\ UNCHANGED <<postList, currentObject, asyncWaitObject>>

UserRequest(o, p, a2) ==
    /\ UserRuns
    /\ requests < MaxRequests
    /\ requests' = requests + 1
    /\ Request(o, p, a2)
    /\ UNCHANGED <<stack, awaited>>

\* AsyncFileReadWait up to its polling loop; it returns at once, and
\* changes nothing, if the object is processed.
WaitBegin(o) ==
    /\ ~ isProcessed[o]
    /\ asyncWaitObject' = o
    /\ readList' = IF ~ isCurrent[o] /\ ~ isRead[o]
                     THEN LinkToHead(Unlink(readList, o), o)
                     ELSE readList
    /\ Push(Call("wait", o))
    /\ awaited' = awaited \cup {o}
    /\ UNCHANGED <<fresh, freeList, postList, currentObject>>
    /\ UNCHANGED objectVars

UserWait(o) ==
    /\ UserRuns /\ o \in held
    /\ ActiveWaits < MaxWaits
    /\ WaitBegin(o)
    /\ UNCHANGED userVars

\* Cancel that leaves the pointer null, or the user's callback, in place.
NoCleanup == "none"
UserCleanup == "user"

\* The callback Cancel installs: the caller's, or the default one.
CleanupCallback == "cleanup"

\* AsyncFileReadCancel: an object being read keeps its place and gets the
\* cleanup callback, any other goes to the free list at once.
Cancel(o) ==
    /\ IF isCurrent[o]
         THEN /\ callback' = [callback EXCEPT ![o] = CleanupCallback]
              /\ UNCHANGED <<freeList, readList, postList>>
         ELSE /\ freeList' = LinkToHead(Unlink(freeList, o), o)
              /\ readList' = Unlink(readList, o)
              /\ postList' = Unlink(postList, o)
              /\ UNCHANGED callback
    /\ UNCHANGED <<fresh, currentObject, queued, priority, asyncWaitObject>>
    /\ UNCHANGED flagVars

UserCancel(o) ==
    /\ UserRuns /\ o \in held
    /\ ~ isProcessed[o] /\ o \notin awaited
    /\ Cancel(o)
    /\ held' = held \ {o}
    /\ UNCHANGED <<stack, awaited, requests>>

\* The locked part of AsyncFileReadDestroyObject once o is not current.
GiveBack(o) ==
    /\ freeList' = LinkToHead(Unlink(freeList, o), o)
    /\ readList' = Unlink(readList, o)
    /\ postList' = Unlink(postList, o)
    /\ held' = held \ {o}
    /\ UNCHANGED <<fresh, currentObject, asyncWaitObject, awaited, requests>>
    /\ UNCHANGED objectVars

\* A callback destroys the object it was called for: LoadSucceededCallback,
\* SkinProfileLoadedCallback and LoadSuccessCallback at some point of their
\* run, LoadCanceledCallback as all it does.
CallbackDestroy ==
    /\ OnTop("user")
    /\ ~ isCurrent[Top.obj]
    /\ GiveBack(Top.obj)
    /\ Resume("after")

CleanupDestroy ==
    /\ OnTop("cleanup")
    /\ ~ isCurrent[Top.obj]
    /\ GiveBack(Top.obj)
    /\ Pop

\* A user destroys an object it still waits to hear about.
UserDestroy(o) ==
    /\ UserRuns /\ o \in held
    /\ ~ isProcessed[o] /\ o \notin awaited
    /\ IF isCurrent[o]
         THEN /\ Push(Call("destroy", o))
              /\ held' = held \ {o}
              /\ UNCHANGED <<fresh, freeList, readList, postList,
                             currentObject, asyncWaitObject, awaited,
                             requests>>
              /\ UNCHANGED objectVars
         ELSE GiveBack(o) /\ UNCHANGED stack

\* DestroyObject leaves its loop: the reader thread is done with the object.
DestroyEnd ==
    /\ OnTop("destroy")
    /\ ~ isCurrent[Top.obj]
    /\ GiveBack(Top.obj)
    /\ Pop

CallbackReturn ==
    /\ OnTop("after")
    /\ Pop
    /\ UNCHANGED <<fresh, freeList, readList, postList, currentObject,
                   asyncWaitObject, awaited>>
    /\ UNCHANGED objectVars /\ UNCHANGED userVars

----------------------------------------------------------------------------
(* AsyncFileReadPollHandler, from EVENT_ID_POLL or from a wait.            *)

readerVars == <<fresh, freeList, readList, currentObject>>

\* A handler that only waits run, for want of EventRegisterEx.
PolledByWaits == OnTop("wait") /\ asyncWaitObject # NULL

\* AsyncFileReadInitialize registers the handler for EVENT_ID_POLL, and
\* AsyncFileReadWait calls it until s_asyncWaitObject is null.
PollDue == stack = <<>> \/ (OnTop("wait") /\ asyncWaitObject # NULL)

PollEnter ==
    /\ PollDue
    /\ Push(Call("poll", NULL))
    /\ UNCHANGED <<postList, asyncWaitObject, awaited>>
    /\ UNCHANGED readerVars /\ UNCHANGED objectVars /\ UNCHANGED userVars

\* Any request ends the wait; no request does.
EndsAnyWait(o) == TRUE
EndsNoWait(o) == FALSE

\* Processing o ends the wait in progress.
EndsWait(o) == asyncWaitObject = o

\* Take the head of the post list and call its callback.
PollPost ==
    /\ OnTop("poll")
    /\ postList # <<>>
    /\ LET o == Head(postList)
       IN /\ postList' = Tail(postList)
          /\ asyncWaitObject' =
               IF EndsWait(o) THEN NULL ELSE asyncWaitObject
          /\ isProcessed' = [isProcessed EXCEPT ![o] = TRUE]
          /\ awaited' = awaited \ {o}
          /\ stack' = Append([stack EXCEPT ![Len(stack)] = Call("check", NULL)],
                             Call(callback[o], o))
    /\ UNCHANGED <<isRead, isCurrent, queued, priority, callback>>
    /\ UNCHANGED readerVars /\ UNCHANGED userVars

\* After a callback: go on while the time limit has not passed.
PollContinue ==
    /\ OnTop("check")
    /\ Resume("poll")
    /\ UNCHANGED <<postList, asyncWaitObject, awaited>>
    /\ UNCHANGED readerVars /\ UNCHANGED objectVars /\ UNCHANGED userVars

\* Leave: the post list is empty, or the time limit has passed.
PollReturn ==
    /\ \/ OnTop("poll") /\ postList = <<>>
       \/ OnTop("check")
    /\ Pop
    /\ UNCHANGED <<postList, asyncWaitObject, awaited>>
    /\ UNCHANGED readerVars /\ UNCHANGED objectVars /\ UNCHANGED userVars

\* AsyncFileReadWait returns once s_asyncWaitObject is null.
WaitEnd ==
    /\ OnTop("wait")
    /\ asyncWaitObject = NULL
    /\ Pop
    /\ awaited' = awaited \ {Top.obj}
    /\ UNCHANGED <<postList, asyncWaitObject>>
    /\ UNCHANGED readerVars /\ UNCHANGED objectVars /\ UNCHANGED userVars

----------------------------------------------------------------------------
(* AsyncFileReadThread.                                                    *)

ThreadTake ==
    /\ currentObject = NULL
    /\ readList # <<>>
    /\ LET o == Head(readList)
       IN /\ readList' = Tail(readList)
          /\ queued' = [queued EXCEPT ![o] = FALSE]
          /\ isCurrent' = [isCurrent EXCEPT ![o] = TRUE]
          /\ currentObject' = o
    /\ UNCHANGED <<fresh, freeList, postList, isProcessed, isRead, priority,
                   callback, asyncWaitObject, stack, awaited>>
    /\ UNCHANGED userVars

\* Posting without having read anything.
AlwaysReading == TRUE

Reading == currentObject # NULL

\* The read is over, whether it succeeded or failed ten times.
ThreadPost ==
    /\ Reading
    /\ postList' = Append(postList, currentObject)
    /\ isCurrent' = [isCurrent EXCEPT ![currentObject] = FALSE]
    /\ isRead' = [isRead EXCEPT ![currentObject] = TRUE]
    /\ currentObject' = NULL
    /\ UNCHANGED <<fresh, freeList, readList, isProcessed, queued, priority,
                   callback, asyncWaitObject, stack, awaited>>
    /\ UNCHANGED userVars

----------------------------------------------------------------------------
MainSystem == \/ PollEnter \/ PollPost \/ PollContinue \/ PollReturn
              \/ WaitEnd \/ DestroyEnd
              \/ CallbackDestroy \/ CleanupDestroy \/ CallbackReturn

Thread == ThreadTake \/ ThreadPost

User == \E o \in Objects :
            \/ \E p \in Priorities, a2 \in BOOLEAN : UserRequest(o, p, a2)
            \/ UserWait(o)
            \/ UserCancel(o)
            \/ UserDestroy(o)

Next == MainSystem \/ Thread \/ User

Spec == Init /\ [][Next]_vars

\* The reader thread runs, and the main thread runs its event loop and
\* returns from its callbacks.  Nobody is obliged to request anything.
Fairness == WF_vars(Thread) /\ WF_vars(MainSystem)

FairSpec == Spec /\ Fairness

----------------------------------------------------------------------------
(* Properties.                                                             *)

\* Every variable holds a value of its type.
TypeOK ==
    /\ fresh \subseteq Objects
    /\ freeList \in Seq(Objects)
    /\ readList \in Seq(Objects)
    /\ postList \in Seq(Objects)
    /\ currentObject \in Objects \cup {NULL}
    /\ isProcessed \in [Objects -> BOOLEAN]
    /\ isRead \in [Objects -> BOOLEAN]
    /\ isCurrent \in [Objects -> BOOLEAN]
    /\ queued \in [Objects -> BOOLEAN]
    /\ priority \in [Objects -> 0..255]
    /\ callback \in [Objects -> {"none", "user", "cleanup"}]
    /\ asyncWaitObject \in Objects \cup {NULL}
    /\ stack \in Seq(Frame)
    /\ held \subseteq Objects
    /\ awaited \subseteq Objects
    /\ requests \in Nat

\* The objects of the callbacks that have not given theirs back yet, in a
\* stack, and whether each belongs to one such callback.
OpenOps == {"user", "cleanup", "none"}
OpenObjects(s) == {s[i].obj : i \in {j \in DOMAIN s : s[j].op \in OpenOps}}
OpenOnce(s) ==
    \A i, j \in DOMAIN s :
        s[i].op \in OpenOps /\ s[j].op \in OpenOps /\ s[i].obj = s[j].obj
            => i = j

InCallback == OpenObjects(stack)

Places == <<fresh, Members(freeList), Members(readList), Members(postList),
            {currentObject} \ {NULL}, InCallback>>

\* An object is in exactly one place: it cannot be free while the reader
\* thread writes its buffer, be linked on two lists, or be handed out again
\* while its callback still has to destroy it; and none is lost.
OnePlace ==
    /\ NoRepeats(freeList) /\ NoRepeats(readList) /\ NoRepeats(postList)
    /\ OpenOnce(stack)
    /\ \A i, j \in 1..6 : i # j => Places[i] \cap Places[j] = {}
    /\ UNION {Places[i] : i \in 1..6} = Objects

\* AsyncFileReadWait follows object->queue of an object that is neither
\* current nor read, and the poll handler calls through the callback of any
\* posted object: neither pointer is ever null.
NoNullPointer ==
    /\ \A o \in held : ~ isProcessed[o] /\ ~ isCurrent[o] /\ ~ isRead[o]
                          => queued[o]
    /\ \A o \in Members(postList) : callback[o] # "none"

\* The objects on their way to a callback.
UnderWay == Members(readList) \cup Members(postList)
              \cup ({currentObject} \ {NULL})

\* The object AsyncFileReadDestroyObject is spinning on, if any.
Spinning(o) == OnTop("destroy") /\ Top.obj = o

\* After AsyncFileReadCancel or AsyncFileReadDestroyObject the user's
\* callback is not called for that request, whatever the thread was doing:
\* every request on its way with the user's callback is still the user's.
NoLateCallback ==
    \A o \in UnderWay : callback[o] = "user" => o \in held \/ Spinning(o)

\* The flags of an object say where it is and its callback who is called.
UnderWayFlags ==
    /\ \A o \in Objects : isCurrent[o] <=> o = currentObject
    /\ \A o \in Members(readList) : queued[o] /\ callback[o] = "user"
    /\ \A o \in UnderWay :
         /\ isRead[o] <=> o \in Members(postList)
         /\ ~ isProcessed[o]
         /\ \/ callback[o] = "user" /\ (o \in held \/ Spinning(o))
            \/ callback[o] = "cleanup" /\ o \notin held

\* What the frames of the main thread's calls assume of their objects.
FrameFlags ==
    \A f \in Members(stack) :
        /\ f.op \in OpenOps => isProcessed[f.obj]
        /\ f.op # "none"
        /\ f.op = "cleanup" => f.obj \notin held
        /\ f.op = "destroy" => /\ f.obj \notin held
                               /\ f.obj \in UnderWay \ Members(readList)

\* Nothing is called from the loop of AsyncFileReadDestroyObject.
SpinsOnTop(s) == \A i \in DOMAIN s : s[i].op = "destroy" => i = Len(s)

\* What users and waits refer to is under way or in its callback.
References ==
    /\ held \subseteq UnderWay \cup InCallback
    /\ awaited \subseteq held
    /\ \A o \in awaited : ~ isProcessed[o]
    /\ asyncWaitObject \in awaited \cup {NULL}

\* The flags, the lists and the callers' pointers never disagree.
FlagsMatchLists ==
    UnderWayFlags /\ FrameFlags /\ SpinsOnTop(stack) /\ References

\* A wait returns only when the request it waited for has been processed.
WaitMeansProcessed ==
    OnTop("wait") /\ asyncWaitObject = NULL => Top.obj \notin awaited

\* The read list is in the order of the priorities.
Sorted ==
    \A i, j \in DOMAIN readList :
        i < j => priority[readList[i]] <= priority[readList[j]]

\* Whatever is submitted, read, cancelled and destroyed keeps the read list
\* in the order of the priorities; only a wait, which puts its object first,
\* may disturb it.
KeepsOrder ==
    [][Sorted => Sorted' \/ (OnTop("wait")' /\ stack' # stack)]_vars

\* The main thread always comes back to its event loop: no wait, and no
\* destroy of an object being read, keeps it for ever.
WaitReturns == []<>(stack = <<>>)

\* Every request is called back unless it is cancelled or destroyed.
RequestAnswered ==
    \A o \in Objects : o \in Members(readList)
                         ~> o \in InCallback \/ o \in Members(freeList)

=============================================================================
