---------------------------- MODULE ModelLoading ----------------------------
(***************************************************************************)
(* Loading M2 models: CM2Scene::CreateModel, CM2Shared, CM2Model, and the  *)
(* asynchronous file reader they load through.                             *)
(*                                                                         *)
(* CreateModel makes a CM2Shared of its own for every model, so a model    *)
(* and its shared data are one thing here.  The file is read first; its    *)
(* callback asks for the skin profile, whose callback initialises the      *)
(* model.  Calls made to a model before that are queued and replayed.  A   *)
(* model created with flag 0x20 is initialised only by WaitForLoad.        *)
(*                                                                         *)
(* The reader's actions are those of AsyncFileRead, and ModelLoading must  *)
(* be one of the users AsyncFileRead assumes: it implements its Spec.      *)
(*                                                                         *)
(* Left out: attachments (their loading state is a TODO in the source) and *)
(* the contents of the files, reduced to whether they can be used.         *)
(***************************************************************************)
EXTENDS Integers, Sequences, FiniteSets

CONSTANTS
    Models,       \* the models created in a behaviour
    MaxCalls,     \* bound: calls made to a model
    Objects, NULL, Priorities, MaxRequests, MaxWaits   \* AsyncFileRead's

ASSUME ModelsAssumption == NULL \notin Models
ASSUME PrioritiesUsed == {125, 126} \subseteq Priorities
ASSUME CallsAssumption == MaxCalls \in Nat

\* AsyncFileRead's, whose bounds leave room for what is asked of it: each model
\* reads two files, and waits are not nested.
ASSUME ReaderAssumption ==
    /\ NULL \notin Objects /\ Priorities \subseteq 0..255
    /\ MaxWaits \in Nat \ {0} /\ MaxRequests \in Nat
    /\ IsFiniteSet(Models) /\ 2 * Cardinality(Models) <= MaxRequests

VARIABLES
    fresh, freeList, readList, postList, currentObject, isProcessed, isRead,
    isCurrent, queued, priority, callback, asyncWaitObject, stack, held,
    awaited, requests      \* AsyncFileRead's

VARIABLES
    userArg,         \* object->userArg: the model to call back for
    loads,           \* which file an object loads, so which callback it has
    life,            \* of a model: none, live, deleted
    deferred,        \* model->m_flags & 0x20
    asyncObject,     \* shared->asyncObject
    m2DataLoaded,    \* models whose shared->m_m2DataLoaded is set
    skinProfileLoaded,
    linked,          \* models on shared->m_callbackList
    loaded,          \* models with m_loaded set
    calls,           \* model->m_modelCallList
    applied,         \* the calls that have taken effect, in that order
    made,            \* the number of calls made to each model (history)
    loadedCallback,  \* models with m_loadedCallback set
    notified,        \* models whose m_loadedCallback has run
    broken,          \* models whose files turned out unusable
    loading,         \* the model whose LoadSucceededCallback is running
    waitForLoad      \* the call of CM2Model::WaitForLoad in progress

readerVars == <<fresh, freeList, readList, postList, currentObject,
                isProcessed, isRead, isCurrent, queued, priority, callback,
                asyncWaitObject, stack, held, awaited, requests>>

objectVars == <<userArg, loads, asyncObject>>
statusVars == <<life, deferred, m2DataLoaded, skinProfileLoaded, linked, loaded,
                broken>>
callVars == <<calls, applied, made, loadedCallback, notified>>
modelVars == <<objectVars, statusVars, callVars, loading, waitForLoad>>

vars == <<readerVars, modelVars>>

Reader == INSTANCE AsyncFileRead

Live == {m \in Models : life[m] = "live"}

\* The event loop runs: no callback, no poll and no wait is in progress.
MainFree == stack = <<>> /\ waitForLoad = NULL

----------------------------------------------------------------------------
Init ==
    /\ Reader!Init
    /\ userArg = [o \in Objects |-> NULL]
    /\ loads = [o \in Objects |-> "nothing"]
    /\ life = [m \in Models |-> "none"]
    /\ deferred = [m \in Models |-> FALSE]
    /\ asyncObject = [m \in Models |-> NULL]
    /\ m2DataLoaded = {} /\ skinProfileLoaded = {}
    /\ linked = {} /\ loaded = {} /\ broken = {}
    /\ calls = [m \in Models |-> <<>>]
    /\ applied = [m \in Models |-> <<>>]
    /\ made = [m \in Models |-> 0]
    /\ loadedCallback = {} /\ notified = {}
    /\ loading = NULL
    /\ waitForLoad = NULL

----------------------------------------------------------------------------
(* Requests.                                                               *)

\* A request that does not say whom to call back for.
NoUserArg(m) == NULL

\* object->userArg is the CM2Shared that asks.
UserArg(m) == m

\* Ask for a file on behalf of m, with m's callback for that file.
Read(m, file, o, p, a2) ==
    /\ Reader!Request(o, p, a2)
    /\ requests' = requests + 1
    /\ userArg' = [userArg EXCEPT ![o] = UserArg(m)]
    /\ loads' = [loads EXCEPT ![o] = file]
    /\ asyncObject' = [asyncObject EXCEPT ![m] = o]
    /\ UNCHANGED <<stack, awaited>>

\* A callback that leaves the pointer to the object it destroys.
KeepsObject(m) == UNCHANGED asyncObject

\* Each callback sets asyncObject to null when its object is destroyed.
ForgetsObject(m) == asyncObject' = [asyncObject EXCEPT ![m] = NULL]

\* CallbackWhenLoaded for the models with flag 0x20 instead of the others.
ListsDeferred(isDeferred) == isDeferred

\* CreateModel asks to be called back for all models but those.
ListsOthers(isDeferred) == ~ isDeferred

\* CM2Scene::CreateModel, CM2Cache::CreateShared, CM2Shared::Load and
\* CallbackWhenLoaded: nothing is loaded yet, so a model without flag 0x20
\* goes on the callback list.
CreateModel(m, isDeferred, o) ==
    /\ MainFree
    /\ life[m] = "none"
    /\ Read(m, "model", o, 126, FALSE)
    /\ life' = [life EXCEPT ![m] = "live"]
    /\ deferred' = [deferred EXCEPT ![m] = isDeferred]
    /\ linked' = IF ListsOthers(isDeferred) THEN linked \cup {m} ELSE linked
    /\ UNCHANGED <<m2DataLoaded, skinProfileLoaded, loaded, broken, loading,
                   waitForLoad>>
    /\ UNCHANGED callVars

\* LoadSucceededCallback destroys its object and forgets it.
LoadSucceeded ==
    /\ Reader!CallbackDestroy
    /\ LET o == Reader!Top.obj
       IN /\ loads[o] = "model"
          /\ loading' = userArg[o]
          /\ ForgetsObject(userArg[o])
    /\ UNCHANGED <<userArg, loads, waitForLoad>>
    /\ UNCHANGED statusVars /\ UNCHANGED callVars

\* It goes on to Initialize, which asks for the skin profile.
LoadSkinProfile(o) ==
    /\ loading # NULL
    /\ Read(loading, "skin", o, 125, TRUE)
    /\ m2DataLoaded' = m2DataLoaded \cup {loading}
    /\ loading' = NULL
    /\ UNCHANGED <<life, deferred, skinProfileLoaded, linked, loaded, broken,
                   waitForLoad>>
    /\ UNCHANGED callVars

\* M2Init rejects the file, or there is no skin profile to open.
LoadSkinProfileFails ==
    /\ loading # NULL
    /\ broken' = broken \cup {loading}
    /\ loading' = NULL
    /\ UNCHANGED <<life, deferred, m2DataLoaded, skinProfileLoaded, linked,
                   loaded, waitForLoad>>
    /\ UNCHANGED readerVars /\ UNCHANGED objectVars /\ UNCHANGED callVars

----------------------------------------------------------------------------
(* Initialising a model.                                                   *)

\* Replays that forget the queue, or run it backwards.
ReplaysNothing(m) == applied[m]

\* InitializeLoaded sets m_loaded and then replays the queued calls.
Replays(m) == applied[m] \o calls[m]

\* Owners told of a loaded model: none, or the one that asked for it.
TellsNobody(m) == {}
TellsOwner(m) == {m} \cap loadedCallback

\* Going ahead with one file.
OneFile(m, m2, skin) == m \in m2 \cup skin

\* The files a model needs are there.
BothFiles(m, m2, skin) == m \in m2 \cap skin

\* CM2Model::InitializeLoaded followed by UpdateLoaded, given which models'
\* data are loaded.  The loaded callback, CSimpleModel::ModelLoaded, makes
\* no call to the reader.
InitializeLoaded(m, m2, skin) ==
    IF BothFiles(m, m2, skin)
      THEN /\ loaded' = loaded \cup {m}
           /\ applied' = [applied EXCEPT ![m] = Replays(m)]
           /\ calls' = [calls EXCEPT ![m] = <<>>]
           /\ notified' = notified \cup TellsOwner(m)
           /\ loadedCallback' = loadedCallback \ TellsOwner(m)
           /\ UNCHANGED made
      ELSE UNCHANGED loaded /\ UNCHANGED callVars

\* SkinProfileLoadedCallback: FinishLoadingSkinProfile, which initialises
\* the model on the callback list, then the object is destroyed.
SkinProfileLoaded ==
    /\ Reader!CallbackDestroy
    /\ LET o == Reader!Top.obj
           m == userArg[o]
       IN /\ loads[o] = "skin"
          /\ ForgetsObject(m)
          /\ \/ /\ broken' = broken \cup {m}
                /\ UNCHANGED <<skinProfileLoaded, linked, loaded>>
                /\ UNCHANGED callVars
             \/ /\ skinProfileLoaded' = skinProfileLoaded \cup {m}
                /\ linked' = linked \ {m}
                /\ IF m \in linked
                     THEN InitializeLoaded(m, m2DataLoaded, skinProfileLoaded')
                     ELSE UNCHANGED loaded /\ UNCHANGED callVars
                /\ UNCHANGED broken
    /\ UNCHANGED <<userArg, loads, life, deferred, m2DataLoaded, loading,
                   waitForLoad>>

\* A callback returns, unless it still has a skin profile to ask for.
CallbackReturn ==
    /\ Reader!CallbackReturn
    /\ loading = NULL
    /\ UNCHANGED modelVars

----------------------------------------------------------------------------
(* Calls to models.                                                        *)

\* ReplaceTexture, SetGeometryVisible and SetBoneSequence: queued while the
\* model is not loaded, done at once when it is.  Calls are numbered.
CallModel(m) ==
    /\ MainFree
    /\ m \in Live
    /\ made[m] < MaxCalls
    /\ made' = [made EXCEPT ![m] = @ + 1]
    /\ IF m \in loaded
         THEN /\ applied' = [applied EXCEPT ![m] = Append(@, made[m] + 1)]
              /\ UNCHANGED calls
         ELSE /\ calls' = [calls EXCEPT ![m] = Append(@, made[m] + 1)]
              /\ UNCHANGED applied
    /\ UNCHANGED <<loadedCallback, notified, loading, waitForLoad>>
    /\ UNCHANGED readerVars /\ UNCHANGED objectVars /\ UNCHANGED statusVars

\* SetLoadedCallback calls UpdateLoaded: a loaded model is reported at once.
SetLoadedCallback(m) ==
    /\ MainFree
    /\ m \in Live \ (loadedCallback \cup notified)
    /\ IF m \in loaded
         THEN notified' = notified \cup {m} /\ UNCHANGED loadedCallback
         ELSE loadedCallback' = loadedCallback \cup {m} /\ UNCHANGED notified
    /\ UNCHANGED <<calls, applied, made, loading, waitForLoad>>
    /\ UNCHANGED readerVars /\ UNCHANGED objectVars /\ UNCHANGED statusVars

\* A destructor that leaves the request to its callback.
LeavesRequest(m) == UNCHANGED readerVars

\* ~CM2Shared cancels the request it still waits for.
CancelsRequest(m) ==
    IF asyncObject[m] # NULL
      THEN /\ Reader!Cancel(asyncObject[m])
           /\ held' = held \ {asyncObject[m]}
           /\ UNCHANGED <<stack, awaited, requests>>
      ELSE UNCHANGED readerVars

\* The last Release of a model deletes it and its CM2Shared.
Release(m) ==
    /\ MainFree
    /\ m \in Live
    /\ CancelsRequest(m)
    /\ life' = [life EXCEPT ![m] = "deleted"]
    /\ linked' = linked \ {m}
    /\ UNCHANGED <<deferred, m2DataLoaded, skinProfileLoaded, loaded, broken,
                   loading, waitForLoad>>
    /\ UNCHANGED objectVars /\ UNCHANGED callVars

----------------------------------------------------------------------------
(* CM2Model::WaitForLoad.                                                  *)

\* Called for a model that is not loaded.
WaitForLoad(m) ==
    /\ MainFree
    /\ m \in Live \ loaded
    /\ waitForLoad' = [model |-> m, waits |-> 0]
    /\ UNCHANGED readerVars
    /\ UNCHANGED <<objectVars, statusVars, callVars, loading>>

InWaitForLoad == waitForLoad # NULL /\ stack = <<>>

\* Waiting for the model only.
OneWait == 1

\* WaitForLoad waits at most once for each of the two files.
WaitCount == 2

ASSUME WaitAssumption == NULL \notin [model : Models, waits : 0..WaitCount]

\* The next of its waits: for the object the shared data hold now, if any.
\* AsyncFileReadWait does nothing for an object that has been processed.
WaitForFile ==
    /\ InWaitForLoad
    /\ waitForLoad.waits < WaitCount
    /\ LET o == asyncObject[waitForLoad.model]
       IN IF o = NULL \/ (o # NULL /\ isProcessed[o])
            THEN UNCHANGED readerVars
            ELSE Reader!WaitBegin(o) /\ UNCHANGED <<held, requests>>
    /\ waitForLoad' = [waitForLoad EXCEPT !.waits = @ + 1]
    /\ UNCHANGED <<objectVars, statusVars, callVars, loading>>

\* A model with flag 0x20 is initialised here.
WaitForLoadReturn ==
    /\ InWaitForLoad
    /\ waitForLoad.waits = WaitCount
    /\ IF deferred[waitForLoad.model]
         THEN InitializeLoaded(waitForLoad.model, m2DataLoaded, skinProfileLoaded)
         ELSE UNCHANGED loaded /\ UNCHANGED callVars
    /\ waitForLoad' = NULL
    /\ UNCHANGED readerVars
    /\ UNCHANGED <<objectVars, life, deferred, m2DataLoaded, skinProfileLoaded,
                   linked, broken, loading>>

----------------------------------------------------------------------------
\* The reader's own steps; the event loop polls only when it is free.
Poll ==
    /\ \/ Reader!PollEnter /\ (stack = <<>> => MainFree)
       \/ Reader!PollPost \/ Reader!PollContinue \/ Reader!PollReturn
       \/ Reader!WaitEnd \/ Reader!CleanupDestroy
    /\ UNCHANGED modelVars

Thread == Reader!Thread /\ UNCHANGED modelVars

MainSystem ==
    \/ Poll
    \/ LoadSucceeded \/ (\E o \in Objects : LoadSkinProfile(o))
    \/ LoadSkinProfileFails \/ SkinProfileLoaded \/ CallbackReturn
    \/ WaitForFile \/ WaitForLoadReturn

User ==
    \E m \in Models :
        \/ \E d \in BOOLEAN, o \in Objects : CreateModel(m, d, o)
        \/ CallModel(m)
        \/ SetLoadedCallback(m)
        \/ WaitForLoad(m)
        \/ Release(m)

Next == MainSystem \/ Thread \/ User

Spec == Init /\ [][Next]_vars

\* The reader thread and the event loop run, and the event loop dispatches
\* EVENT_ID_POLL over and over, however often its other handlers wait for a
\* model.  Users may do nothing.
EventPoll == Poll /\ stack = <<>>
FairSpec ==
    Spec /\ WF_vars(Thread) /\ WF_vars(MainSystem) /\ SF_vars(EventPoll)

----------------------------------------------------------------------------
(* Properties.                                                             *)

\* Every variable holds a value of its type, and an object that loads a file
\* names the model to call back for (userArg).
TypeOK ==
    /\ Reader!TypeOK
    /\ userArg \in [Objects -> Models \cup {NULL}]
    /\ loads \in [Objects -> {"nothing", "model", "skin"}]
    /\ \A o \in Objects : loads[o] # "nothing" => userArg[o] \in Models
    /\ life \in [Models -> {"none", "live", "deleted"}]
    /\ deferred \in [Models -> BOOLEAN]
    /\ asyncObject \in [Models -> Objects \cup {NULL}]
    /\ m2DataLoaded \cup skinProfileLoaded \cup linked \cup loaded \cup broken
         \cup loadedCallback \cup notified \subseteq Models
    /\ calls \in [Models -> Seq(1..MaxCalls)]
    /\ applied \in [Models -> Seq(1..MaxCalls)]
    /\ made \in [Models -> 0..MaxCalls]
    /\ loading \in Models \cup {NULL}
    /\ waitForLoad \in [model : Models, waits : 0..WaitCount] \cup {NULL}

\* Model loading uses the reader as AsyncFileRead assumes of its users.
ReaderSpec == Reader!Spec

\* No callback runs for a deleted model, and the object a callback destroys
\* is the one its model points to, so none is destroyed twice.
CallbackForLiveModel ==
    Reader!OnTop("user") =>
        /\ userArg[Reader!Top.obj] \in Live
        /\ asyncObject[userArg[Reader!Top.obj]] = Reader!Top.obj

\* A model is initialised only with both files, is then off the callback
\* list, and has no call waiting.
LoadedIsComplete ==
    \A m \in loaded : /\ m \in m2DataLoaded \cap skinProfileLoaded
                      /\ m \notin linked
                      /\ calls[m] = <<>>

\* Calls take effect in the order they were made, none lost or repeated,
\* whether they were made before or after the model was loaded.
CallsInOrder ==
    \A m \in Models : applied[m] \o calls[m] = [i \in 1..made[m] |-> i]

\* When WaitForLoad returns the model is loaded, unless its files are broken:
\* its callers go on to use the model's data at once.
WaitForLoadLoads ==
    [][waitForLoad # NULL /\ waitForLoad' = NULL
         => waitForLoad.model \in loaded' \cup broken]_vars

\* A model without flag 0x20 gets loaded by itself, and its owner hears of
\* it, unless its files are broken or it is deleted first.
EventuallyLoaded ==
    \A m \in Models :
        life[m] = "live" /\ ~ deferred[m]
            ~> m \in loaded \cup broken \/ life[m] = "deleted"

OwnerNotified ==
    \A m \in Models :
        m \in loadedCallback /\ ~ deferred[m]
            ~> m \in notified \cup broken \/ life[m] = "deleted"

\* The models agree with what has been read: the variables have their types,
\* and whoever is loaded has both files, no call left and no callback to come
\* (CM2Model::Initialize, CM2Shared's callbacks and WaitForLoad may each do it).
ModelsComplete == TypeOK /\ LoadedIsComplete

\* Loading ends, for the model and for its owner.
LoadingEnds == EventuallyLoaded /\ OwnerNotified

=============================================================================
