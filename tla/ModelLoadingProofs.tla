-------------------------- MODULE ModelLoadingProofs --------------------------
(***************************************************************************)
(* Theorems about ModelLoading, for any number of models and objects: that *)
(* it uses the reader as AsyncFileRead assumes, and what models rely on.   *)
(***************************************************************************)
EXTENDS ModelLoading, FiniteSetTheorems, SequenceTheorems, TLAPS

\* What is proved of the reader.
Facts == INSTANCE AsyncFileReadProofs

----------------------------------------------------------------------------
(* The inductive invariant.                                                *)

Created == {m \in Models : life[m] # "none"}

\* A model asks for its two files once.
RequestsCounted == requests <= Cardinality(Created) + Cardinality(m2DataLoaded)

\* The users of the reader keep the objects that live models point to.
Pointers ==
    /\ \A o \in held :
        /\ userArg[o] \in Live /\ asyncObject[userArg[o]] = o
        /\ loads[o] \in {"model", "skin"}
    /\ \A m \in Live : asyncObject[m] # NULL =>
        asyncObject[m] \in held /\ userArg[asyncObject[m]] = m

\* LoadSucceededCallback goes on once it has destroyed its object.
GoesOn ==
    loading # NULL =>
        /\ Reader!OnTop("after")
        /\ loading \in Live /\ asyncObject[loading] = NULL
        /\ loading \notin m2DataLoaded \cup broken

\* A model reads its file, then its skin profile, and then has both unless one
\* was of no use.
Stages ==
    /\ skinProfileLoaded \subseteq m2DataLoaded
    /\ \A o \in held : loads[o] = "model" => userArg[o] \notin m2DataLoaded \cup broken
    /\ \A o \in held : loads[o] = "skin" =>
        userArg[o] \in m2DataLoaded \ (skinProfileLoaded \cup broken)
    /\ \A m \in Live : asyncObject[m] = NULL /\ loading # m =>
        m \in skinProfileLoaded \cup broken

NotCreated ==
    \A m \in Models \ Created : m \notin m2DataLoaded \cup broken \cup linked

\* The callback list holds the models that are to be initialised by a callback.
CallbackList ==
    /\ \A m \in linked : m \in Live /\ ~ deferred[m] /\ m \notin skinProfileLoaded
    /\ \A m \in Live : ~ deferred[m] => m \in linked \cup skinProfileLoaded
    /\ \A m \in skinProfileLoaded : ~ deferred[m] => m \in loaded

\* The file of the model has been read, and the skin profile too.
Past(m, waits) ==
    /\ waits >= 1 => asyncObject[m] = NULL \/ loads[asyncObject[m]] # "model"
    /\ waits >= 2 => asyncObject[m] = NULL /\ loading # m

\* The file that the model reads is waited for, or its callback runs.
IsAwaited(m) ==
    /\ asyncObject[m] # NULL
    /\ asyncWaitObject = asyncObject[m] \/ asyncObject[m] \in Facts!CalledBack

\* Each of the waits is for one more file.
Waiting ==
    waitForLoad # NULL =>
        /\ waitForLoad.model \in Live
        /\ \/ Past(waitForLoad.model, waitForLoad.waits)
           \/ /\ waitForLoad.waits >= 1
              /\ Past(waitForLoad.model, waitForLoad.waits - 1)
              /\ IsAwaited(waitForLoad.model)

ModelInv ==
    /\ RequestsCounted /\ Pointers /\ GoesOn /\ Stages /\ NotCreated
    /\ CallbackList /\ LoadedIsComplete /\ CallsInOrder /\ Waiting

Inv == TypeOK /\ Facts!Invariants /\ ModelInv

----------------------------------------------------------------------------
(* The reader's steps, which both instances of AsyncFileRead define.       *)

LEMMA SameStep == [Reader!Next]_(Reader!vars) <=> [Facts!Next]_(Facts!vars)
<1>1. Reader!PollEnter <=> Facts!PollEnter
  BY DEF
    Facts!PollEnter, Reader!PollEnter, Facts!PollDue, Reader!PollDue, Facts!OnTop,
    Reader!OnTop, Facts!Top, Reader!Top, Facts!Push, Reader!Push, Facts!Call,
    Reader!Call, Facts!readerVars, Reader!readerVars, Facts!objectVars,
    Reader!objectVars, Facts!userVars, Reader!userVars
<1>2. Reader!PollPost <=> Facts!PollPost
  BY DEF
    Facts!PollPost, Reader!PollPost, Facts!OnTop, Reader!OnTop, Facts!Top, Reader!Top,
    Facts!Call, Reader!Call, Facts!EndsWait, Reader!EndsWait, Facts!readerVars,
    Reader!readerVars, Facts!userVars, Reader!userVars
<1>3. Reader!PollContinue <=> Facts!PollContinue
  BY DEF
    Facts!PollContinue, Reader!PollContinue, Facts!OnTop, Reader!OnTop, Facts!Top,
    Reader!Top, Facts!Resume, Reader!Resume, Facts!Call, Reader!Call,
    Facts!readerVars, Reader!readerVars, Facts!objectVars, Reader!objectVars,
    Facts!userVars, Reader!userVars
<1>4. Reader!PollReturn <=> Facts!PollReturn
  BY DEF
    Facts!PollReturn, Reader!PollReturn, Facts!OnTop, Reader!OnTop, Facts!Top,
    Reader!Top, Facts!Pop, Reader!Pop, Facts!readerVars, Reader!readerVars,
    Facts!objectVars, Reader!objectVars, Facts!userVars, Reader!userVars
<1>5. Reader!WaitEnd <=> Facts!WaitEnd
  BY DEF
    Facts!WaitEnd, Reader!WaitEnd, Facts!OnTop, Reader!OnTop, Facts!Top, Reader!Top,
    Facts!Pop, Reader!Pop, Facts!readerVars, Reader!readerVars, Facts!objectVars,
    Reader!objectVars, Facts!userVars, Reader!userVars
<1>6. Reader!DestroyEnd <=> Facts!DestroyEnd
  BY DEF
    Facts!DestroyEnd, Reader!DestroyEnd, Facts!OnTop, Reader!OnTop, Facts!Top,
    Reader!Top, Facts!Pop, Reader!Pop, Facts!GiveBack, Reader!GiveBack,
    Facts!objectVars, Reader!objectVars, Facts!LinkToHead, Reader!LinkToHead,
    Facts!Unlink, Reader!Unlink, Facts!RemoveAt, Reader!RemoveAt
<1>7. Reader!CallbackDestroy <=> Facts!CallbackDestroy
  BY DEF
    Facts!CallbackDestroy, Reader!CallbackDestroy, Facts!OnTop, Reader!OnTop,
    Facts!Top, Reader!Top, Facts!Resume, Reader!Resume, Facts!Call, Reader!Call,
    Facts!GiveBack, Reader!GiveBack, Facts!objectVars, Reader!objectVars,
    Facts!LinkToHead, Reader!LinkToHead, Facts!Unlink, Reader!Unlink, Facts!RemoveAt,
    Reader!RemoveAt
<1>8. Reader!CleanupDestroy <=> Facts!CleanupDestroy
  BY DEF
    Facts!CleanupDestroy, Reader!CleanupDestroy, Facts!OnTop, Reader!OnTop, Facts!Top,
    Reader!Top, Facts!Pop, Reader!Pop, Facts!GiveBack, Reader!GiveBack,
    Facts!objectVars, Reader!objectVars, Facts!LinkToHead, Reader!LinkToHead,
    Facts!Unlink, Reader!Unlink, Facts!RemoveAt, Reader!RemoveAt
<1>9. Reader!CallbackReturn <=> Facts!CallbackReturn
  BY DEF
    Facts!CallbackReturn, Reader!CallbackReturn, Facts!OnTop, Reader!OnTop, Facts!Top,
    Reader!Top, Facts!Pop, Reader!Pop, Facts!userVars, Reader!userVars,
    Facts!objectVars, Reader!objectVars
<1>10. Reader!ThreadTake <=> Facts!ThreadTake
  BY DEF
    Facts!ThreadTake, Reader!ThreadTake, Facts!userVars, Reader!userVars
<1>11. Reader!ThreadPost <=> Facts!ThreadPost
  BY DEF
    Facts!ThreadPost, Reader!ThreadPost, Facts!Reading, Reader!Reading,
    Facts!userVars, Reader!userVars
<1>12. Reader!ActiveWaits = Facts!ActiveWaits
  BY DEF Reader!ActiveWaits, Facts!ActiveWaits, Reader!Cardinality, Facts!Cardinality
<1>13. ASSUME NEW o, NEW p, NEW a2
       PROVE  Reader!UserRequest(o, p, a2) <=> Facts!UserRequest(o, p, a2)
  BY DEF
    Facts!UserRequest, Reader!UserRequest, Facts!UserRuns, Reader!UserRuns,
    Facts!OnTop, Reader!OnTop, Facts!Top, Reader!Top, Facts!Request, Reader!Request,
    Facts!Allocated, Reader!Allocated, Facts!IsLinkPosition, Reader!IsLinkPosition,
    Facts!LinksBefore, Reader!LinksBefore, Facts!InsertAt, Reader!InsertAt
<1>14. ASSUME NEW o
       PROVE  Reader!UserWait(o) <=> Facts!UserWait(o)
  BY <1>12 DEF
    Facts!UserWait, Reader!UserWait, Facts!UserRuns, Reader!UserRuns, Facts!OnTop,
    Reader!OnTop, Facts!Top, Reader!Top, Facts!WaitBegin, Reader!WaitBegin,
    Facts!Push, Reader!Push, Facts!Call, Reader!Call, Facts!LinkToHead,
    Reader!LinkToHead, Facts!Unlink, Reader!Unlink, Facts!RemoveAt, Reader!RemoveAt,
    Facts!objectVars, Reader!objectVars, Facts!userVars, Reader!userVars
<1>15. ASSUME NEW o
       PROVE  Reader!UserCancel(o) <=> Facts!UserCancel(o)
  BY DEF
    Facts!UserCancel, Reader!UserCancel, Facts!UserRuns, Reader!UserRuns, Facts!OnTop,
    Reader!OnTop, Facts!Top, Reader!Top, Facts!Cancel, Reader!Cancel,
    Facts!CleanupCallback, Reader!CleanupCallback, Facts!LinkToHead,
    Reader!LinkToHead, Facts!Unlink, Reader!Unlink, Facts!RemoveAt, Reader!RemoveAt,
    Facts!flagVars, Reader!flagVars
<1>16. ASSUME NEW o
       PROVE  Reader!UserDestroy(o) <=> Facts!UserDestroy(o)
  BY DEF
    Facts!UserDestroy, Reader!UserDestroy, Facts!UserRuns, Reader!UserRuns,
    Facts!OnTop, Reader!OnTop, Facts!Top, Reader!Top, Facts!Push, Reader!Push,
    Facts!Call, Reader!Call, Facts!GiveBack, Reader!GiveBack, Facts!objectVars,
    Reader!objectVars, Facts!LinkToHead, Reader!LinkToHead, Facts!Unlink,
    Reader!Unlink, Facts!RemoveAt, Reader!RemoveAt
<1>17. UNCHANGED Reader!vars <=> UNCHANGED Facts!vars
  BY DEF Reader!vars, Facts!vars
<1>18. Reader!MainSystem <=> Facts!MainSystem
  BY <1>1, <1>2, <1>3, <1>4, <1>5, <1>6, <1>7, <1>8, <1>9
  DEF Reader!MainSystem, Facts!MainSystem
<1>19. Reader!Thread <=> Facts!Thread
  BY <1>10, <1>11 DEF Reader!Thread, Facts!Thread
<1>20. Reader!User <=> Facts!User
  BY <1>13, <1>14, <1>15, <1>16 DEF Reader!User, Facts!User
<1>21. Reader!Next <=> Facts!Next
  BY <1>18, <1>19, <1>20 DEF Reader!Next, Facts!Next
<1>. QED  BY <1>17, <1>21


LEMMA SameInit == Reader!Init <=> Facts!Init
BY DEF Reader!Init, Facts!Init

LEMMA SameTypes == Reader!TypeOK <=> Facts!TypeOK
BY DEF Reader!TypeOK, Facts!TypeOK, Reader!Frame, Facts!Frame

\* What AsyncFileRead assumes of its constants.
LEMMA Assumed ==
    /\ Facts!NullAssumption /\ Facts!PrioritiesAssumption /\ Facts!BoundsAssumption
BY ReaderAssumption
DEF Facts!NullAssumption, Facts!PrioritiesAssumption, Facts!BoundsAssumption

LEMMA FactsInit == Reader!Init => Facts!Invariants
BY SameInit, Facts!InvariantsInit, Assumed

----------------------------------------------------------------------------
(* What the models can rely on, of the reader.                             *)

LEMMA Keeping ==
    ASSUME Inv
    PROVE  /\ held \subseteq Objects /\ Facts!CalledBack \subseteq held
           /\ asyncWaitObject \in held \cup {NULL}
BY Facts!KeptObjects, Assumed DEF Inv

LEMMA WhenEventLoopRuns ==
    ASSUME Inv, stack = <<>>
    PROVE  /\ \A o \in held : ~ isProcessed[o]
           /\ awaited = {} /\ asyncWaitObject = NULL /\ Facts!CalledBack = {}
BY Facts!WhenFree, Assumed DEF Inv

LEMMA AllocatesNew ==
    ASSUME Inv, NEW o, Reader!Allocated(o)
    PROVE  o \in Objects /\ o \notin held /\ o # asyncWaitObject
<1>1. Facts!Allocated(o)
  BY DEF Reader!Allocated, Facts!Allocated
<1>. QED  BY <1>1, Facts!AllocatedIsNew, Assumed DEF Inv

LEMMA CallsBack ==
    ASSUME Inv, Reader!PollPost, Head(postList) \in held
    PROVE  Head(postList) \in Facts!CalledBack'
<1>1. Facts!PollPost
  BY DEF
    Facts!PollPost, Reader!PollPost, Facts!OnTop, Reader!OnTop, Facts!Top, Reader!Top,
    Facts!Call, Reader!Call, Facts!EndsWait, Reader!EndsWait, Facts!readerVars,
    Reader!readerVars, Facts!userVars, Reader!userVars
<1>. QED  BY <1>1, Facts!PostsHeld, Assumed DEF Inv

LEMMA TopIsCalledBack ==
    ASSUME Inv, Reader!OnTop("user")
    PROVE  Reader!Top.obj \in Facts!CalledBack
<1>1. Facts!OnTop("user") /\ Facts!Top = Reader!Top
  BY DEF Reader!OnTop, Facts!OnTop, Reader!Top, Facts!Top
<1>. QED  BY <1>1, Facts!TopCalledBack, Assumed DEF Inv

LEMMA CleansUp ==
    ASSUME Inv, Reader!CleanupDestroy
    PROVE  held' = held
<1>1. Facts!CleanupDestroy
  BY DEF
    Facts!CleanupDestroy, Reader!CleanupDestroy, Facts!OnTop, Reader!OnTop, Facts!Top,
    Reader!Top, Facts!Pop, Reader!Pop, Facts!GiveBack, Reader!GiveBack,
    Facts!objectVars, Reader!objectVars, Facts!LinkToHead, Reader!LinkToHead,
    Facts!Unlink, Reader!Unlink, Facts!RemoveAt, Reader!RemoveAt
<1>. QED  BY <1>1, Facts!CleanupKeepsHeld, Assumed DEF Inv

LEMMA CallsOnlyWhatIsKept ==
    ASSUME Inv, [Reader!Next]_(Reader!vars)
    PROVE  \A o \in Facts!CalledBack :
              o \in Facts!CalledBack' \/ (Reader!CallbackDestroy /\ o = Reader!Top.obj)
<1>1. [Facts!Next]_(Facts!vars)
  BY SameStep
<1>2. Facts!CallbackDestroy => Reader!CallbackDestroy
  BY DEF
    Facts!CallbackDestroy, Reader!CallbackDestroy, Facts!OnTop, Reader!OnTop,
    Facts!Top, Reader!Top, Facts!Resume, Reader!Resume, Facts!Call, Reader!Call,
    Facts!GiveBack, Reader!GiveBack, Facts!objectVars, Reader!objectVars,
    Facts!LinkToHead, Reader!LinkToHead, Facts!Unlink, Reader!Unlink, Facts!RemoveAt,
    Reader!RemoveAt
<1>3. Facts!Top = Reader!Top
  BY DEF Facts!Top, Reader!Top
<1>. QED  BY <1>1, <1>2, <1>3, Facts!CallbacksStay, Assumed DEF Inv

LEMMA ReaderInvariants ==
    ASSUME Inv, [Reader!Next]_(Reader!vars)
    PROVE  Facts!Invariants' /\ Reader!TypeOK'
<1>1. Facts!Invariants'
  BY SameStep, Facts!InvariantsStep, Assumed DEF Inv
<1>2. Facts!Invariants' => Facts!TypeOK'
  BY DEF Facts!Invariants, Facts!IInv
<1>3. Facts!TypeOK' => Reader!TypeOK'
  BY DEF Reader!TypeOK, Facts!TypeOK, Reader!Frame, Facts!Frame
<1>. QED  BY <1>1, <1>2, <1>3

----------------------------------------------------------------------------
(* Every step is one that the reader allows its users.                     *)

LEMMA NotYetAskedFor ==
    ASSUME TypeOK, RequestsCounted, NEW m \in Models,
           m \notin Created \/ m \notin m2DataLoaded
    PROVE  requests < MaxRequests
<1>1. IsFiniteSet(Models) /\ Cardinality(Models) \in Nat
  BY ReaderAssumption, FS_CardinalityType
<1>2. Created \in SUBSET Models /\ m2DataLoaded \in SUBSET Models
  BY DEF Created, TypeOK
<1>3. \A S \in SUBSET Models :
        /\ Cardinality(S) \in Nat /\ Cardinality(S) <= Cardinality(Models)
        /\ m \notin S => Cardinality(S) < Cardinality(Models)
  <2>. TAKE S \in SUBSET Models
  <2>1. IsFiniteSet(S) /\ Cardinality(S) <= Cardinality(Models)
    BY <1>1, FS_Subset
  <2>2. Cardinality(Models) = Cardinality(S) => Models = S
    BY <1>1, FS_Subset
  <2>3. Cardinality(S) \in Nat
    BY <2>1, FS_CardinalityType
  <2>. QED  BY <1>1, <2>1, <2>2, <2>3
<1>4. requests \in Nat /\ MaxRequests \in Nat
  BY ReaderAssumption DEF TypeOK, Reader!TypeOK
<1>5. requests <= Cardinality(Created) + Cardinality(m2DataLoaded)
  BY DEF RequestsCounted
<1>. QED  BY <1>1, <1>2, <1>3, <1>4, <1>5, ReaderAssumption

\* A file that a model asks for is requested as the reader expects.
LEMMA ReadsAsUser ==
    ASSUME Inv, NEW m \in Models, m \notin Created \/ m \notin m2DataLoaded,
           NEW file, NEW o, NEW p \in {125, 126}, NEW a2 \in BOOLEAN,
           Reader!UserRuns, Read(m, file, o, p, a2)
    PROVE  Reader!Next
<1>1. requests < MaxRequests
  BY NotYetAskedFor DEF Inv, ModelInv
<1>2. Reader!UserRequest(o, p, a2)
  BY <1>1 DEF Read, Reader!UserRequest
<1>3. o \in Objects
  BY AllocatesNew DEF Read, Reader!Request
<1>4. Reader!User
  BY <1>2, <1>3, PrioritiesUsed DEF Reader!User
<1>. QED  BY <1>4 DEF Reader!Next

\* The last release of a model cancels what it keeps, outside any callback.
LEMMA ReleasesAsUser ==
    ASSUME Inv, NEW m \in Models, Release(m), asyncObject[m] # NULL
    PROVE  Reader!Next
<1>1. asyncObject[m] \in held /\ stack = <<>>
  BY DEF Release, MainFree, Inv, ModelInv, Pointers
<1>2. Reader!UserCancel(asyncObject[m])
  BY <1>1, WhenEventLoopRuns
  DEF Release, CancelsRequest, Reader!UserCancel, Reader!UserRuns
<1>3. asyncObject[m] \in Objects
  BY <1>1, Keeping
<1>. QED  BY <1>2, <1>3 DEF Reader!User, Reader!Next

\* So does a wait for the file of a model.
LEMMA WaitsAsUser ==
    ASSUME Inv, WaitForFile, asyncObject[waitForLoad.model] # NULL
    PROVE  Reader!Next
<1>. DEFINE o == asyncObject[waitForLoad.model]
<1>1. stack = <<>> /\ waitForLoad # NULL
  BY DEF WaitForFile, InWaitForLoad
<1>2. waitForLoad.model \in Live
  BY <1>1 DEF Inv, ModelInv, Waiting
<1>3. o \in held /\ ~ isProcessed[o]
  BY <1>1, <1>2, WhenEventLoopRuns DEF Inv, ModelInv, Pointers
<1>4. Reader!WaitBegin(o) /\ UNCHANGED <<held, requests>>
  BY <1>3 DEF WaitForFile
<1>5. Reader!ActiveWaits = 0
  BY <1>1, FS_EmptySet DEF Reader!ActiveWaits, Reader!Cardinality, Cardinality
<1>6. Reader!UserWait(o)
  BY <1>1, <1>3, <1>4, <1>5, ReaderAssumption
  DEF Reader!UserWait, Reader!UserRuns, Reader!userVars
<1>7. o \in Objects
  BY <1>3, Keeping
<1>. QED  BY <1>6, <1>7 DEF Reader!User, Reader!Next

LEMMA UsesReader == Inv /\ [Next]_vars => [Reader!Next]_(Reader!vars)
<1>. SUFFICES ASSUME Inv, [Next]_vars
     PROVE  [Reader!Next]_(Reader!vars)
  OBVIOUS
<1>1. UNCHANGED readerVars => UNCHANGED Reader!vars
  BY DEF readerVars, Reader!vars
<1>2. ASSUME NEW m \in Models, NEW d \in BOOLEAN, NEW o \in Objects, CreateModel(m, d, o)
      PROVE  Reader!Next
  <2>1. m \notin Created /\ Reader!UserRuns /\ Read(m, "model", o, 126, FALSE)
    BY <1>2 DEF CreateModel, Created, MainFree, Reader!UserRuns
  <2>. QED  BY ZenonT(40), <2>1, ReadsAsUser
<1>3. LoadSucceeded \/ SkinProfileLoaded => Reader!Next
  BY DEF LoadSucceeded, SkinProfileLoaded, Reader!Next, Reader!MainSystem
<1>4. ASSUME NEW o \in Objects, LoadSkinProfile(o)
      PROVE  Reader!Next
  <2>1. loading # NULL /\ Read(loading, "skin", o, 125, TRUE)
    BY <1>4 DEF LoadSkinProfile
  <2>2. loading \in Models
    BY <2>1 DEF Inv, TypeOK
  <2>3. Reader!OnTop("after") /\ loading \notin m2DataLoaded
    BY <2>1 DEF Inv, ModelInv, GoesOn
  <2>. QED  BY <2>1, <2>2, <2>3, ReadsAsUser DEF Reader!UserRuns
<1>5. CallbackReturn => Reader!Next
  BY DEF CallbackReturn, Reader!Next, Reader!MainSystem
<1>6. Poll => Reader!Next
  BY DEF Poll, Reader!Next, Reader!MainSystem
<1>7. Thread => Reader!Next
  BY DEF Thread, Reader!Next
<1>8. ASSUME NEW m \in Models, Release(m)
      PROVE  [Reader!Next]_(Reader!vars)
  <2>1. CASE asyncObject[m] = NULL
    BY <1>1, <1>8, <2>1 DEF Release, CancelsRequest
  <2>2. CASE asyncObject[m] # NULL
    BY <1>8, <2>2, ReleasesAsUser
  <2>. QED  BY <2>1, <2>2
<1>9. WaitForFile => [Reader!Next]_(Reader!vars)
  <2>1. asyncObject[waitForLoad.model] = NULL /\ WaitForFile => UNCHANGED readerVars
    BY DEF WaitForFile
  <2>. QED  BY <1>1, <2>1, WaitsAsUser
<1>10. ASSUME NEW m \in Models, CallModel(m) \/ SetLoadedCallback(m) \/ WaitForLoad(m)
       PROVE  UNCHANGED readerVars
  BY <1>10 DEF CallModel, SetLoadedCallback, WaitForLoad
<1>11. LoadSkinProfileFails \/ WaitForLoadReturn \/ UNCHANGED vars => UNCHANGED readerVars
  BY DEF LoadSkinProfileFails, WaitForLoadReturn, vars
<1>12. MainSystem => [Reader!Next]_(Reader!vars)
  BY <1>1, <1>3, <1>4, <1>5, <1>6, <1>9, <1>11 DEF MainSystem
<1>13. User => [Reader!Next]_(Reader!vars)
  BY <1>1, <1>2, <1>8, <1>10 DEF User
<1>. QED  BY <1>1, <1>7, <1>11, <1>12, <1>13 DEF Next

----------------------------------------------------------------------------
(* What steps change.                                                      *)

\* A step that leaves alone who loads what, and how far each model is.
Quiet ==
    /\ UNCHANGED <<held, requests, userArg, loads, asyncObject, life, deferred,
                   m2DataLoaded, skinProfileLoaded, linked, broken, loading>>
    /\ loading # NULL => stack' = stack

LEMMA ReaderQuiet ==
    ASSUME Inv, Poll \/ Thread
    PROVE  Quiet
<1>1. UNCHANGED <<userArg, loads, asyncObject, life, deferred, m2DataLoaded,
                  skinProfileLoaded, linked, broken, loading>>
  BY DEF Poll, Thread, modelVars, objectVars, statusVars
<1>2. CASE Thread
  BY <1>1, <1>2
  DEF Thread, Reader!Thread, Reader!ThreadTake, Reader!ThreadPost, Reader!userVars, Quiet
<1>3. CASE Poll
  <2>1. UNCHANGED <<held, requests>>
    <3>1. Reader!PollEnter \/ Reader!PollPost \/ Reader!PollContinue
            \/ Reader!PollReturn \/ Reader!WaitEnd => UNCHANGED <<held, requests>>
      BY DEF Reader!PollEnter, Reader!PollPost, Reader!PollContinue,
             Reader!PollReturn, Reader!WaitEnd, Reader!userVars
    <3>2. Reader!CleanupDestroy => UNCHANGED <<held, requests>>
      BY CleansUp DEF Reader!CleanupDestroy, Reader!GiveBack
    <3>. QED  BY <1>3, <3>1, <3>2 DEF Poll
  <2>2. ASSUME loading # NULL
        PROVE  FALSE
    <3>1. Reader!OnTop("after")
      BY <2>2 DEF Inv, ModelInv, GoesOn
    <3>2. ~ Reader!PollEnter
      BY <3>1 DEF Reader!PollEnter, Reader!PollDue, Reader!OnTop
    <3>3. ~ Reader!PollPost /\ ~ Reader!PollContinue /\ ~ Reader!PollReturn
            /\ ~ Reader!WaitEnd /\ ~ Reader!CleanupDestroy
      BY <3>1 DEF Reader!PollPost, Reader!PollContinue, Reader!PollReturn,
                  Reader!WaitEnd, Reader!CleanupDestroy, Reader!OnTop
    <3>. QED  BY <1>3, <3>2, <3>3 DEF Poll
  <2>. QED  BY <1>1, <2>1, <2>2 DEF Quiet
<1>. QED  BY <1>2, <1>3

\* CM2Model::WaitForLoad waits in the event loop, never in a callback.
LEMMA WaitQuiet ==
    ASSUME Inv, WaitForFile
    PROVE  Quiet
<1>1. UNCHANGED <<userArg, loads, asyncObject, life, deferred, m2DataLoaded,
                  skinProfileLoaded, linked, broken, loading>>
  BY DEF WaitForFile, objectVars, statusVars
<1>2. UNCHANGED <<held, requests>>
  BY DEF WaitForFile, readerVars
<1>3. loading = NULL
  BY DEF WaitForFile, InWaitForLoad, Inv, ModelInv, GoesOn, Reader!OnTop
<1>. QED  BY <1>1, <1>2, <1>3 DEF Quiet

LEMMA Kinds ==
    ASSUME Inv, [Next]_vars
    PROVE  \/ \E m \in Models, d \in BOOLEAN, o \in Objects : CreateModel(m, d, o)
           \/ \E m \in Models : Release(m)
           \/ \E o \in Objects : LoadSkinProfile(o)
           \/ LoadSucceeded \/ LoadSkinProfileFails \/ SkinProfileLoaded
           \/ Quiet
<1>1. CallbackReturn => Quiet
  BY DEF CallbackReturn, Reader!CallbackReturn, Reader!userVars, modelVars,
         objectVars, statusVars, Quiet
<1>2. ASSUME NEW m \in Models, CallModel(m) \/ SetLoadedCallback(m) \/ WaitForLoad(m)
      PROVE  Quiet
  BY <1>2 DEF CallModel, SetLoadedCallback, WaitForLoad, readerVars, objectVars,
              statusVars, Quiet
<1>3. WaitForLoadReturn => Quiet
  BY DEF WaitForLoadReturn, readerVars, objectVars, Quiet
<1>4. UNCHANGED vars => Quiet
  BY DEF vars, readerVars, modelVars, objectVars, statusVars, Quiet
<1>. QED  BY <1>1, <1>2, <1>3, <1>4, ReaderQuiet, WaitQuiet DEF Next, MainSystem, User

\* Which models are initialised, and which calls they have had.
LEMMA CallKinds ==
    ASSUME Inv, [Next]_vars
    PROVE  \/ UNCHANGED loaded /\ UNCHANGED callVars
           \/ \E m \in Models : CallModel(m)
           \/ \E m \in Models : SetLoadedCallback(m)
           \/ SkinProfileLoaded
           \/ WaitForLoadReturn
<1>1. Poll \/ Thread \/ CallbackReturn => UNCHANGED <<loaded, callVars>>
  BY DEF Poll, Thread, CallbackReturn, modelVars, statusVars
<1>2. LoadSucceeded \/ LoadSkinProfileFails \/ WaitForFile => UNCHANGED <<loaded, callVars>>
  BY DEF LoadSucceeded, LoadSkinProfileFails, WaitForFile, statusVars
<1>3. ASSUME NEW o \in Objects, LoadSkinProfile(o)
      PROVE  UNCHANGED <<loaded, callVars>>
  BY <1>3 DEF LoadSkinProfile
<1>4. ASSUME NEW m \in Models
      PROVE  /\ Release(m) \/ WaitForLoad(m) => UNCHANGED <<loaded, callVars>>
             /\ \A d \in BOOLEAN, o \in Objects :
                    CreateModel(m, d, o) => UNCHANGED <<loaded, callVars>>
  BY DEF Release, WaitForLoad, CreateModel, statusVars
<1>5. UNCHANGED vars => UNCHANGED <<loaded, callVars>>
  BY DEF vars, modelVars, statusVars
<1>6. UNCHANGED <<loaded, callVars>> => UNCHANGED loaded /\ UNCHANGED callVars
  OBVIOUS
<1>. QED  BY <1>1, <1>2, <1>3, <1>4, <1>5, <1>6 DEF Next, MainSystem, User

LEMMA Asks ==
    ASSUME Inv, NEW m, NEW file, NEW o, NEW p, NEW a2, Read(m, file, o, p, a2)
    PROVE  /\ o \in Objects /\ o \notin held /\ o # asyncWaitObject
           /\ held' = held \cup {o} /\ requests' = requests + 1 /\ stack' = stack
           /\ userArg' = [userArg EXCEPT ![o] = m]
           /\ loads' = [loads EXCEPT ![o] = file]
           /\ asyncObject' = [asyncObject EXCEPT ![m] = o]
BY AllocatesNew DEF Read, Reader!Request, UserArg

\* The same, field by field.
Asked(m, file, o) ==
    /\ held' = held \cup {o} /\ o \notin held
    /\ userArg'[o] = m /\ loads'[o] = file /\ asyncObject'[m] = o
    /\ \A q \in held : userArg'[q] = userArg[q] /\ loads'[q] = loads[q]
    /\ \A k \in Models : k # m => asyncObject'[k] = asyncObject[k]

LEMMA AsksFields ==
    ASSUME Inv, NEW m \in Models, NEW file, NEW o, NEW p, NEW a2,
           Read(m, file, o, p, a2)
    PROVE  Asked(m, file, o)
<1>1. /\ DOMAIN userArg = Objects /\ DOMAIN loads = Objects
      /\ DOMAIN asyncObject = Models
  BY DEF Inv, TypeOK
<1>2. held \subseteq Objects
  BY Keeping
<1>3. /\ o \in Objects /\ o \notin held
      /\ userArg' = [userArg EXCEPT ![o] = m]
      /\ loads' = [loads EXCEPT ![o] = file]
      /\ asyncObject' = [asyncObject EXCEPT ![m] = o]
      /\ held' = held \cup {o}
  BY Asks
<1>. QED  BY <1>1, <1>2, <1>3 DEF Asked

\* A callback destroys the object its model points to.
LEMMA GivesBack ==
    ASSUME Inv, Reader!CallbackDestroy
    PROVE  /\ Reader!Top.obj \in held /\ held' = held \ {Reader!Top.obj}
           /\ userArg[Reader!Top.obj] \in Live
           /\ asyncObject[userArg[Reader!Top.obj]] = Reader!Top.obj
           /\ requests' = requests /\ asyncWaitObject' = asyncWaitObject
           /\ Reader!OnTop("after")'
           /\ loading = NULL
<1>1. Reader!OnTop("user")
  BY DEF Reader!CallbackDestroy
<1>2. Reader!Top.obj \in held
  BY <1>1, TopIsCalledBack, Keeping
<1>3. Pointers
  BY DEF Inv, ModelInv
<1>4. UNCHANGED <<requests, asyncWaitObject>> /\ held' = held \ {Reader!Top.obj}
  BY DEF Reader!CallbackDestroy, Reader!GiveBack
<1>5. Reader!OnTop("after")'
  <2>1. stack \in Seq(Reader!Frame) /\ stack # <<>>
    BY <1>1 DEF Inv, TypeOK, Reader!TypeOK, Reader!OnTop
  <2>2. Len(stack) \in DOMAIN stack
    BY <2>1
  <2>3. stack' = [stack EXCEPT ![Len(stack)] = Reader!Call("after", Reader!Top.obj)]
    BY DEF Reader!CallbackDestroy, Reader!Resume
  <2>4. Len(stack') = Len(stack) /\ stack' # <<>>
          /\ stack'[Len(stack)] = Reader!Call("after", Reader!Top.obj)
    BY <2>1, <2>2, <2>3
  <2>. QED  BY <2>4 DEF Reader!OnTop, Reader!Top, Reader!Call
<1>6. loading = NULL
  BY <1>1 DEF Inv, ModelInv, GoesOn, Reader!OnTop
<1>. QED  BY <1>2, <1>3, <1>4, <1>5, <1>6 DEF Pointers

----------------------------------------------------------------------------
(* Types.                                                                  *)

ObjectTypes ==
    /\ userArg \in [Objects -> Models \cup {NULL}]
    /\ loads \in [Objects -> {"nothing", "model", "skin"}]
    /\ \A o \in Objects : loads[o] # "nothing" => userArg[o] \in Models
    /\ asyncObject \in [Models -> Objects \cup {NULL}]

LEMMA ObjectTypesStep ==
    ASSUME Inv, [Next]_vars
    PROVE  ObjectTypes'
<1>1. ObjectTypes /\ loading \in Models \cup {NULL}
  BY DEF Inv, TypeOK, ObjectTypes
<1>2. ASSUME NEW m \in Models, NEW file \in {"model", "skin"}, NEW o, NEW p, NEW a2,
             Read(m, file, o, p, a2)
      PROVE  ObjectTypes'
  BY <1>1, <1>2, Asks DEF ObjectTypes
<1>3. ASSUME NEW m, UNCHANGED <<userArg, loads>>, ForgetsObject(m)
      PROVE  ObjectTypes'
  BY <1>1, <1>3 DEF ObjectTypes, ForgetsObject
<1>4. UNCHANGED <<userArg, loads, asyncObject>> => ObjectTypes'
  BY <1>1 DEF ObjectTypes
<1>5. ASSUME NEW m \in Models, NEW d \in BOOLEAN, NEW o \in Objects, CreateModel(m, d, o)
      PROVE  ObjectTypes'
  BY <1>2, <1>5 DEF CreateModel
<1>6. ASSUME NEW o \in Objects, LoadSkinProfile(o)
      PROVE  ObjectTypes'
  BY <1>1, <1>2, <1>6 DEF LoadSkinProfile
<1>7. LoadSucceeded \/ SkinProfileLoaded => ObjectTypes'
  BY <1>3 DEF LoadSucceeded, SkinProfileLoaded
<1>8. (\E m \in Models : Release(m)) \/ LoadSkinProfileFails \/ Quiet => ObjectTypes'
  BY <1>4 DEF Release, LoadSkinProfileFails, objectVars, Quiet
<1>. QED  BY <1>5, <1>6, <1>7, <1>8, Kinds

StatusTypes ==
    /\ life \in [Models -> {"none", "live", "deleted"}]
    /\ deferred \in [Models -> BOOLEAN]
    /\ m2DataLoaded \cup skinProfileLoaded \cup linked \cup broken \subseteq Models
    /\ loading \in Models \cup {NULL}

LEMMA StatusTypesStep ==
    ASSUME Inv, [Next]_vars
    PROVE  StatusTypes'
<1>1. StatusTypes
  BY DEF Inv, TypeOK, StatusTypes
<1>2. ASSUME NEW m \in Models, NEW d \in BOOLEAN, NEW o \in Objects, CreateModel(m, d, o)
      PROVE  StatusTypes'
  BY <1>1, <1>2 DEF StatusTypes, CreateModel
<1>3. ASSUME NEW m \in Models, Release(m)
      PROVE  StatusTypes'
  BY <1>1, <1>3 DEF StatusTypes, Release
<1>4. ASSUME NEW o \in Objects, LoadSkinProfile(o)
      PROVE  StatusTypes'
  BY <1>1, <1>4 DEF StatusTypes, LoadSkinProfile
<1>5. ASSUME Reader!CallbackDestroy
      PROVE  userArg[Reader!Top.obj] \in Models
  BY <1>5, GivesBack DEF Live
<1>6. LoadSucceeded => StatusTypes'
  BY <1>1, <1>5 DEF StatusTypes, LoadSucceeded, statusVars
<1>7. LoadSkinProfileFails => StatusTypes'
  BY <1>1 DEF StatusTypes, LoadSkinProfileFails
<1>8. SkinProfileLoaded => StatusTypes'
  BY <1>1, <1>5 DEF StatusTypes, SkinProfileLoaded
<1>9. Quiet => StatusTypes'
  BY <1>1 DEF StatusTypes, Quiet
<1>. QED  BY <1>2, <1>3, <1>4, <1>6, <1>7, <1>8, <1>9, Kinds

CallTypes ==
    /\ loaded \cup loadedCallback \cup notified \subseteq Models
    /\ calls \in [Models -> Seq(1..MaxCalls)]
    /\ applied \in [Models -> Seq(1..MaxCalls)]
    /\ made \in [Models -> 0..MaxCalls]

LEMMA InitializeTypes ==
    ASSUME CallTypes, NEW m \in Models, NEW m2, NEW skin, InitializeLoaded(m, m2, skin)
    PROVE  CallTypes'
<1>1. CASE BothFiles(m, m2, skin)
  <2>1. applied[m] \o calls[m] \in Seq(1..MaxCalls)
    BY ConcatProperties DEF CallTypes
  <2>2. <<>> \in Seq(1..MaxCalls)
    OBVIOUS
  <2>3. /\ applied' = [applied EXCEPT ![m] = applied[m] \o calls[m]]
        /\ calls' = [calls EXCEPT ![m] = <<>>]
        /\ loaded' = loaded \cup {m} /\ made' = made
        /\ notified' \subseteq notified \cup {m} /\ loadedCallback' \subseteq loadedCallback
    BY <1>1 DEF InitializeLoaded, Replays, TellsOwner
  <2>. QED  BY <2>1, <2>2, <2>3 DEF CallTypes
<1>2. CASE ~ BothFiles(m, m2, skin)
  BY <1>2 DEF InitializeLoaded, CallTypes, callVars
<1>. QED  BY <1>1, <1>2

LEMMA CallTypesStep ==
    ASSUME Inv, [Next]_vars
    PROVE  CallTypes'
<1>1. CallTypes
  BY DEF Inv, TypeOK, CallTypes
<1>2. UNCHANGED loaded /\ UNCHANGED callVars => CallTypes'
  BY <1>1 DEF CallTypes, callVars
<1>3. ASSUME NEW m \in Models, CallModel(m)
      PROVE  CallTypes'
  <2>1. made[m] + 1 \in 1..MaxCalls /\ made' = [made EXCEPT ![m] = made[m] + 1]
    BY <1>1, <1>3, CallsAssumption DEF CallTypes, CallModel
  <2>2. made' \in [Models -> 0..MaxCalls]
    BY <1>1, <2>1, CallsAssumption DEF CallTypes
  <2>3. /\ \/ applied' = [applied EXCEPT ![m] = Append(applied[m], made[m] + 1)]
           \/ applied' = applied
        /\ \/ calls' = [calls EXCEPT ![m] = Append(calls[m], made[m] + 1)]
           \/ calls' = calls
    BY <1>3 DEF CallModel
  <2>4. /\ Append(applied[m], made[m] + 1) \in Seq(1..MaxCalls)
        /\ Append(calls[m], made[m] + 1) \in Seq(1..MaxCalls)
    BY <1>1, <2>1, AppendProperties DEF CallTypes
  <2>. QED  BY <1>1, <1>3, <2>2, <2>3, <2>4 DEF CallTypes, CallModel, statusVars
<1>4. ASSUME NEW m \in Models, SetLoadedCallback(m)
      PROVE  CallTypes'
  BY <1>1, <1>4 DEF CallTypes, SetLoadedCallback, statusVars
<1>5. ASSUME SkinProfileLoaded
      PROVE  CallTypes'
  <2>. DEFINE m == userArg[Reader!Top.obj]
  <2>1. m \in Models
    BY <1>5, GivesBack DEF Live, SkinProfileLoaded
  <2>2. \/ UNCHANGED loaded /\ UNCHANGED callVars
        \/ InitializeLoaded(m, m2DataLoaded, skinProfileLoaded')
    BY <1>5 DEF SkinProfileLoaded
  <2>. QED  BY <1>1, <1>2, <2>1, <2>2, InitializeTypes
<1>6. ASSUME WaitForLoadReturn
      PROVE  CallTypes'
  <2>1. waitForLoad.model \in Models
    BY <1>6 DEF WaitForLoadReturn, InWaitForLoad, Inv, TypeOK
  <2>2. \/ UNCHANGED loaded /\ UNCHANGED callVars
        \/ InitializeLoaded(waitForLoad.model, m2DataLoaded, skinProfileLoaded)
    BY <1>6 DEF WaitForLoadReturn
  <2>. QED  BY <1>1, <1>2, <2>1, <2>2, InitializeTypes
<1>. QED  BY <1>2, <1>3, <1>4, <1>5, <1>6, CallKinds

\* How a call of WaitForLoad begins, goes on and ends.
LEMMA WaitKinds ==
    ASSUME [Next]_vars
    PROVE  \/ UNCHANGED waitForLoad
           \/ \E m \in Models : WaitForLoad(m)
           \/ WaitForFile \/ WaitForLoadReturn
BY DEF Next, MainSystem, User, Poll, Thread, LoadSucceeded, LoadSkinProfile,
       LoadSkinProfileFails, SkinProfileLoaded, CallbackReturn, CreateModel, CallModel,
       SetLoadedCallback, Release, modelVars, vars

LEMMA WaitTypeStep ==
    ASSUME Inv, [Next]_vars
    PROVE  waitForLoad' \in [model : Models, waits : 0..WaitCount] \cup {NULL}
<1>1. waitForLoad \in [model : Models, waits : 0..WaitCount] \cup {NULL}
  BY DEF Inv, TypeOK
<1>2. ASSUME NEW m \in Models, WaitForLoad(m)
      PROVE  waitForLoad' \in [model : Models, waits : 0..WaitCount]
  BY <1>2 DEF WaitForLoad, WaitCount
<1>3. ASSUME WaitForFile
      PROVE  waitForLoad' \in [model : Models, waits : 0..WaitCount]
  <2>1. waitForLoad \in [model : Models, waits : 0..WaitCount] /\ waitForLoad.waits < WaitCount
    BY <1>1, <1>3 DEF WaitForFile, InWaitForLoad
  <2>2. waitForLoad' = [waitForLoad EXCEPT !.waits = waitForLoad.waits + 1]
    BY <1>3 DEF WaitForFile
  <2>. QED  BY <2>1, <2>2 DEF WaitCount
<1>4. WaitForLoadReturn => waitForLoad' = NULL
  BY DEF WaitForLoadReturn
<1>. QED  BY <1>1, <1>2, <1>3, <1>4, WaitKinds

LEMMA TypeStep ==
    ASSUME Inv, [Next]_vars
    PROVE  TypeOK'
<1>1. Reader!TypeOK'
  BY UsesReader, ReaderInvariants
<1>2. ObjectTypes' /\ StatusTypes' /\ CallTypes'
  BY ObjectTypesStep, StatusTypesStep, CallTypesStep
<1>3. waitForLoad' \in [model : Models, waits : 0..WaitCount] \cup {NULL}
  BY WaitTypeStep
<1>. QED  BY <1>1, <1>2, <1>3 DEF TypeOK, ObjectTypes, StatusTypes, CallTypes

----------------------------------------------------------------------------
(* What models have asked for, and where they are.                         *)

LEMMA RequestsStep ==
    ASSUME Inv, [Next]_vars
    PROVE  RequestsCounted'
<1>1. StatusTypes /\ RequestsCounted /\ requests \in Nat
  BY DEF Inv, ModelInv, TypeOK, StatusTypes, Reader!TypeOK
<1>2. IsFiniteSet(Created) /\ IsFiniteSet(m2DataLoaded)
  <2>1. Created \in SUBSET Models /\ m2DataLoaded \in SUBSET Models
    BY <1>1 DEF Created, StatusTypes
  <2>. QED  BY <2>1, ReaderAssumption, FS_Subset
<1>3. Cardinality(Created) \in Nat /\ Cardinality(m2DataLoaded) \in Nat
  BY <1>2, FS_CardinalityType
<1>4. ASSUME UNCHANGED <<requests, m2DataLoaded>>, Created' = Created
      PROVE  RequestsCounted'
  BY <1>1, <1>4 DEF RequestsCounted
<1>5. ASSUME NEW m \in Models, NEW d \in BOOLEAN, NEW o \in Objects, CreateModel(m, d, o)
      PROVE  RequestsCounted'
  <2>1. m \notin Created /\ Created' = Created \cup {m} /\ m2DataLoaded' = m2DataLoaded
    BY <1>1, <1>5 DEF CreateModel, Created, StatusTypes
  <2>2. Cardinality(Created') = Cardinality(Created) + 1
    BY <1>2, <2>1, FS_AddElement
  <2>3. requests' = requests + 1
    BY <1>5 DEF CreateModel, Read
  <2>. QED  BY <1>1, <1>3, <2>1, <2>2, <2>3 DEF RequestsCounted
<1>6. ASSUME NEW o \in Objects, LoadSkinProfile(o)
      PROVE  RequestsCounted'
  <2>1. loading \notin m2DataLoaded
    BY <1>6 DEF LoadSkinProfile, Inv, ModelInv, GoesOn
  <2>2. m2DataLoaded' = m2DataLoaded \cup {loading} /\ requests' = requests + 1
    BY <1>6 DEF LoadSkinProfile, Read
  <2>3. Created' = Created
    BY <1>6 DEF LoadSkinProfile, Created
  <2>4. Cardinality(m2DataLoaded') = Cardinality(m2DataLoaded) + 1
    BY <1>2, <2>1, <2>2, FS_AddElement
  <2>. QED  BY <1>1, <1>3, <2>2, <2>3, <2>4 DEF RequestsCounted
<1>7. ASSUME NEW m \in Models, Release(m)
      PROVE  RequestsCounted'
  <2>1. Created' = Created /\ m2DataLoaded' = m2DataLoaded
    BY <1>1, <1>7 DEF Release, Created, Live, StatusTypes
  <2>2. requests' = requests
    BY <1>7 DEF Release, CancelsRequest, readerVars
  <2>. QED  BY <1>4, <2>1, <2>2
<1>8. LoadSucceeded \/ SkinProfileLoaded => RequestsCounted'
  BY <1>4, GivesBack DEF LoadSucceeded, SkinProfileLoaded, statusVars, Created
<1>9. LoadSkinProfileFails \/ Quiet => RequestsCounted'
  BY <1>4 DEF LoadSkinProfileFails, Quiet, readerVars, Created
<1>. QED  BY <1>5, <1>6, <1>7, <1>8, <1>9, Kinds

LEMMA PointersStep ==
    ASSUME Inv, [Next]_vars
    PROVE  Pointers'
<1>1. ObjectTypes /\ StatusTypes /\ Pointers /\ GoesOn
  BY DEF Inv, ModelInv, TypeOK, ObjectTypes, StatusTypes
<1>2. held \subseteq Objects
  BY Keeping
<1>3. ASSUME NEW m \in Models, NEW file \in {"model", "skin"}, NEW o, NEW p, NEW a2,
             Read(m, file, o, p, a2), m \in Live', Live' = Live \cup {m},
             m \in Live => asyncObject[m] = NULL
      PROVE  Pointers'
  <2>1. o \in Objects /\ o \notin held /\ held' = held \cup {o} /\ Live \subseteq Models
    BY <1>3, Asks DEF Live
  <2>2. userArg'[o] = m /\ loads'[o] = file /\ asyncObject'[m] = o
    BY <1>1, <1>3, <2>1, Asks DEF ObjectTypes
  <2>3. \A q \in held : userArg'[q] = userArg[q] /\ loads'[q] = loads[q] /\ userArg[q] # m
    BY <1>1, <1>2, <1>3, <2>1, Asks, ReaderAssumption DEF ObjectTypes, Pointers
  <2>4. \A k \in Models : k # m => asyncObject'[k] = asyncObject[k]
    BY <1>1, <1>3, Asks DEF ObjectTypes
  <2>. QED  BY <1>1, <1>3, <2>1, <2>2, <2>3, <2>4 DEF Pointers
<1>4. ASSUME NEW m \in Models, NEW d \in BOOLEAN, NEW o \in Objects, CreateModel(m, d, o)
      PROVE  Pointers'
  <2>1. Live' = Live \cup {m} /\ m \notin Live
    BY <1>1, <1>4 DEF CreateModel, Live, StatusTypes
  <2>. QED  BY <1>3, <1>4, <2>1 DEF CreateModel
<1>5. ASSUME NEW o \in Objects, LoadSkinProfile(o)
      PROVE  Pointers'
  <2>1. loading \in Models /\ loading \in Live /\ asyncObject[loading] = NULL
    BY <1>1, <1>5 DEF LoadSkinProfile, GoesOn, Live
  <2>2. Live' = Live
    BY <1>5 DEF LoadSkinProfile, Live
  <2>. QED  BY <1>3, <1>5, <2>1, <2>2 DEF LoadSkinProfile
<1>6. ASSUME NEW m \in Models, Release(m)
      PROVE  Pointers'
  <2>1. Live' = Live \ {m} /\ m \in Live
    BY <1>1, <1>6 DEF Release, Live, StatusTypes
  <2>2. UNCHANGED <<userArg, loads, asyncObject>>
    BY <1>6 DEF Release, objectVars
  <2>3. CASE asyncObject[m] = NULL
    <3>1. held' = held
      BY <1>6, <2>3 DEF Release, CancelsRequest, readerVars
    <3>2. \A o \in held : userArg[o] # m
      BY <1>1, <1>2, <2>3, ReaderAssumption DEF Pointers
    <3>. QED  BY <1>1, <2>1, <2>2, <3>1, <3>2 DEF Pointers
  <2>4. CASE asyncObject[m] # NULL
    <3>1. held' = held \ {asyncObject[m]}
      BY <1>6, <2>4 DEF Release, CancelsRequest
    <3>2. \A o \in held \ {asyncObject[m]} : userArg[o] # m
      BY <1>1 DEF Pointers
    <3>3. \A k \in Live \ {m} : asyncObject[k] # NULL => asyncObject[k] # asyncObject[m]
      BY <1>1, <2>1, <2>4 DEF Pointers
    <3>. QED  BY <1>1, <2>1, <2>2, <3>1, <3>2, <3>3 DEF Pointers
  <2>. QED  BY <2>3, <2>4
<1>7. ASSUME Reader!CallbackDestroy, UNCHANGED <<userArg, loads, life>>,
             ForgetsObject(userArg[Reader!Top.obj])
      PROVE  Pointers'
  <2>. DEFINE o == Reader!Top.obj
              m == userArg[o]
  <2>1. held' = held \ {o} /\ o \in held /\ m \in Live /\ asyncObject[m] = o
    BY <1>7, GivesBack
  <2>2. Live' = Live /\ m \in Models
    BY <1>7, <2>1 DEF Live
  <2>3. asyncObject'[m] = NULL /\ \A k \in Models : k # m => asyncObject'[k] = asyncObject[k]
    BY <1>1, <1>7, <2>2 DEF ForgetsObject, ObjectTypes
  <2>4. \A q \in held \ {o} : userArg[q] # m
    BY <1>1, <2>1 DEF Pointers
  <2>5. \A k \in Live : k # m /\ asyncObject[k] # NULL => asyncObject[k] # o
    BY <1>1, <2>1 DEF Pointers
  <2>. QED  BY <1>1, <1>7, <2>1, <2>2, <2>3, <2>4, <2>5 DEF Pointers, Live
<1>8. LoadSucceeded \/ SkinProfileLoaded => Pointers'
  BY <1>7 DEF LoadSucceeded, SkinProfileLoaded, statusVars
<1>9. LoadSkinProfileFails \/ Quiet => Pointers'
  BY <1>1 DEF LoadSkinProfileFails, Quiet, readerVars, objectVars, Pointers, Live
<1>. QED  BY <1>4, <1>5, <1>6, <1>8, <1>9, Kinds

LEMMA GoesOnStep ==
    ASSUME Inv, [Next]_vars
    PROVE  GoesOn'
<1>1. ObjectTypes /\ StatusTypes /\ GoesOn /\ Pointers /\ Stages
  BY DEF Inv, ModelInv, TypeOK, ObjectTypes, StatusTypes
<1>2. LoadSucceeded => GoesOn'
  <2>. SUFFICES ASSUME LoadSucceeded
       PROVE  GoesOn'
    OBVIOUS
  <2>. DEFINE o == Reader!Top.obj
              m == userArg[o]
  <2>1. Reader!CallbackDestroy /\ loads[o] = "model" /\ loading' = m
    BY DEF LoadSucceeded
  <2>2. o \in held /\ m \in Live /\ Reader!OnTop("after")'
    BY <2>1, GivesBack
  <2>3. m \notin m2DataLoaded \cup broken
    BY <1>1, <2>1, <2>2 DEF Stages
  <2>4. asyncObject'[m] = NULL
    BY <1>1, <2>2 DEF LoadSucceeded, ForgetsObject, ObjectTypes, Live
  <2>5. UNCHANGED <<life, m2DataLoaded, broken>>
    BY DEF LoadSucceeded, statusVars
  <2>. QED  BY <2>1, <2>2, <2>3, <2>4, <2>5 DEF GoesOn, Live
<1>3. SkinProfileLoaded => loading' = NULL
  BY GivesBack DEF SkinProfileLoaded
<1>4. ASSUME NEW o \in Objects, LoadSkinProfile(o)
      PROVE  loading' = NULL
  BY <1>4 DEF LoadSkinProfile
<1>5. LoadSkinProfileFails => loading' = NULL
  BY DEF LoadSkinProfileFails
<1>6. ASSUME stack = <<>>
      PROVE  loading = NULL
  BY <1>1, <1>6 DEF GoesOn, Reader!OnTop
<1>7. ASSUME NEW m \in Models, NEW d \in BOOLEAN, NEW o \in Objects, CreateModel(m, d, o)
      PROVE  loading' = NULL
  BY <1>6, <1>7 DEF CreateModel, MainFree
<1>8. ASSUME NEW m \in Models, Release(m)
      PROVE  loading' = NULL
  BY <1>6, <1>8 DEF Release, MainFree
<1>9. Quiet => GoesOn'
  BY <1>1 DEF Quiet, GoesOn, Live, Reader!OnTop, Reader!Top
<1>10. loading' = NULL => GoesOn'
  BY DEF GoesOn
<1>. QED  BY <1>2, <1>3, <1>4, <1>5, <1>7, <1>8, <1>9, <1>10, Kinds

LEMMA NotCreatedStep ==
    ASSUME Inv, [Next]_vars
    PROVE  NotCreated'
<1>1. StatusTypes /\ NotCreated /\ GoesOn
  BY DEF Inv, ModelInv, TypeOK, StatusTypes
<1>2. ASSUME NEW m \in Models, NEW d \in BOOLEAN, NEW o \in Objects, CreateModel(m, d, o)
      PROVE  NotCreated'
  <2>1. Created' = Created \cup {m}
    BY <1>1, <1>2 DEF CreateModel, Created, StatusTypes
  <2>2. linked' \subseteq linked \cup {m} /\ UNCHANGED <<m2DataLoaded, broken>>
    BY <1>2 DEF CreateModel
  <2>. QED  BY <1>1, <2>1, <2>2 DEF NotCreated
<1>3. ASSUME NEW m \in Models, Release(m)
      PROVE  NotCreated'
  <2>1. Created' = Created /\ linked' \subseteq linked /\ UNCHANGED <<m2DataLoaded, broken>>
    BY <1>1, <1>3 DEF Release, Created, Live, StatusTypes
  <2>. QED  BY <1>1, <2>1 DEF NotCreated
<1>4. ASSUME NEW o \in Objects, LoadSkinProfile(o)
      PROVE  NotCreated'
  <2>1. loading \in Created /\ Created' = Created /\ UNCHANGED <<linked, broken>>
          /\ m2DataLoaded' = m2DataLoaded \cup {loading}
    BY <1>1, <1>4 DEF LoadSkinProfile, GoesOn, Live, Created
  <2>. QED  BY <1>1, <2>1 DEF NotCreated
<1>5. LoadSkinProfileFails => NotCreated'
  <2>1. LoadSkinProfileFails =>
          /\ loading \in Created /\ Created' = Created /\ UNCHANGED <<linked, m2DataLoaded>>
          /\ broken' = broken \cup {loading}
    BY <1>1 DEF LoadSkinProfileFails, GoesOn, Live, Created
  <2>. QED  BY <1>1, <2>1 DEF NotCreated
<1>6. SkinProfileLoaded => NotCreated'
  <2>. DEFINE m == userArg[Reader!Top.obj]
  <2>1. SkinProfileLoaded =>
          /\ m \in Created /\ Created' = Created /\ UNCHANGED m2DataLoaded
          /\ linked' \subseteq linked /\ broken' \subseteq broken \cup {m}
    BY GivesBack DEF SkinProfileLoaded, Live, Created
  <2>. QED  BY <1>1, <2>1 DEF NotCreated
<1>7. LoadSucceeded \/ Quiet => NotCreated'
  BY <1>1 DEF LoadSucceeded, Quiet, statusVars, NotCreated, Created
<1>. QED  BY <1>2, <1>3, <1>4, <1>5, <1>6, <1>7, Kinds

LEMMA StagesStep ==
    ASSUME Inv, [Next]_vars
    PROVE  Stages'
<1>1. ObjectTypes /\ StatusTypes /\ Stages /\ Pointers /\ GoesOn /\ NotCreated
  BY DEF Inv, ModelInv, TypeOK, ObjectTypes, StatusTypes
<1>2. held \subseteq Objects
  BY Keeping
<1>3. ASSUME NEW m \in Models, NEW d \in BOOLEAN, NEW o \in Objects, CreateModel(m, d, o)
      PROVE  Stages'
  <2>1. /\ Live' = Live \cup {m} /\ m \notin Live
        /\ m \notin m2DataLoaded \cup broken
    BY <1>1, <1>3 DEF CreateModel, Live, Created, NotCreated, StatusTypes
  <2>2. UNCHANGED <<m2DataLoaded, skinProfileLoaded, broken, loading>>
    BY <1>3 DEF CreateModel
  <2>3. /\ held' = held \cup {o} /\ o \notin held
        /\ userArg'[o] = m /\ loads'[o] = "model" /\ asyncObject'[m] = o
        /\ \A q \in held : userArg'[q] = userArg[q] /\ loads'[q] = loads[q]
        /\ \A k \in Models : k # m => asyncObject'[k] = asyncObject[k]
    <3>1. Read(m, "model", o, 126, FALSE)
      BY <1>3 DEF CreateModel
    <3>2. Asked(m, "model", o)
      BY <3>1, AsksFields
    <3>. QED  BY <3>2 DEF Asked
  <2>4. o # NULL /\ Live \subseteq Models
    BY ReaderAssumption DEF Live
  <2>. QED  BY <1>1, <2>1, <2>2, <2>3, <2>4 DEF Stages
<1>4. ASSUME NEW o \in Objects, LoadSkinProfile(o)
      PROVE  Stages'
  <2>1. /\ loading \in Live /\ loading \in Models
        /\ loading \notin m2DataLoaded \cup broken /\ asyncObject[loading] = NULL
        /\ loading # NULL /\ loading' = NULL
    BY <1>1, <1>4 DEF LoadSkinProfile, GoesOn, Live
  <2>2. /\ m2DataLoaded' = m2DataLoaded \cup {loading}
        /\ UNCHANGED <<skinProfileLoaded, broken>> /\ Live' = Live
    BY <1>4 DEF LoadSkinProfile, Live
  <2>3. /\ held' = held \cup {o} /\ o \notin held
        /\ userArg'[o] = loading /\ loads'[o] = "skin" /\ asyncObject'[loading] = o
        /\ \A q \in held : userArg'[q] = userArg[q] /\ loads'[q] = loads[q]
        /\ \A k \in Models : k # loading => asyncObject'[k] = asyncObject[k]
    <3>1. Read(loading, "skin", o, 125, TRUE)
      BY <1>4 DEF LoadSkinProfile
    <3>2. Asked(loading, "skin", o)
      BY <2>1, <3>1, AsksFields
    <3>. QED  BY <3>2 DEF Asked
  <2>4. \A q \in held : userArg[q] # loading
    BY <1>1, <1>2, <2>1, ReaderAssumption DEF Pointers
  <2>5. o # NULL /\ Live \subseteq Models
    BY ReaderAssumption DEF Live
  <2>. QED  BY <1>1, <2>1, <2>2, <2>3, <2>4, <2>5 DEF Stages
<1>5. ASSUME NEW m \in Models, Release(m)
      PROVE  Stages'
  <2>1. Live' \subseteq Live /\ held' \subseteq held
    BY <1>1, <1>5 DEF Release, Live, StatusTypes, CancelsRequest, readerVars
  <2>2. UNCHANGED <<userArg, loads, asyncObject, m2DataLoaded, skinProfileLoaded, broken, loading>>
    BY <1>5 DEF Release, objectVars
  <2>. QED  BY <1>1, <2>1, <2>2 DEF Stages
<1>6. LoadSucceeded => Stages'
  <2>. SUFFICES ASSUME LoadSucceeded
       PROVE  Stages'
    OBVIOUS
  <2>1. held' \subseteq held /\ userArg[Reader!Top.obj] \in Models /\ loading = NULL
    BY GivesBack DEF LoadSucceeded, Live
  <2>2. UNCHANGED <<userArg, loads, m2DataLoaded, skinProfileLoaded, broken>> /\ Live' = Live
    BY DEF LoadSucceeded, statusVars, Live
  <2>3. \A k \in Models : k # loading' => asyncObject'[k] = asyncObject[k]
    BY <1>1, <2>1 DEF LoadSucceeded, ForgetsObject, ObjectTypes
  <2>4. Live \subseteq Models /\ NULL \notin Models
    BY ModelsAssumption DEF Live
  <2>. QED  BY <1>1, <2>1, <2>2, <2>3, <2>4 DEF Stages
<1>7. LoadSkinProfileFails => Stages'
  <2>. SUFFICES ASSUME LoadSkinProfileFails
       PROVE  Stages'
    OBVIOUS
  <2>1. /\ loading \in Live /\ asyncObject[loading] = NULL /\ loading \notin m2DataLoaded
        /\ broken' = broken \cup {loading} /\ loading' = NULL
    BY <1>1 DEF LoadSkinProfileFails, GoesOn
  <2>2. UNCHANGED <<held, userArg, loads, asyncObject, m2DataLoaded, skinProfileLoaded>>
          /\ Live' = Live
    BY DEF LoadSkinProfileFails, readerVars, objectVars, Live
  <2>3. \A q \in held : userArg[q] # loading
    BY <1>1, <1>2, <2>1, ReaderAssumption DEF Pointers
  <2>. QED  BY <1>1, <2>1, <2>2, <2>3 DEF Stages
<1>8. SkinProfileLoaded => Stages'
  <2>. SUFFICES ASSUME SkinProfileLoaded
       PROVE  Stages'
    OBVIOUS
  <2>. DEFINE o == Reader!Top.obj
              m == userArg[o]
  <2>1. /\ held' = held \ {o} /\ o \in held /\ m \in Live /\ m \in Models /\ loading = NULL
        /\ asyncObject[m] = o
    BY GivesBack DEF SkinProfileLoaded, Live
  <2>2. UNCHANGED <<userArg, loads, m2DataLoaded, loading>> /\ Live' = Live
    BY DEF SkinProfileLoaded, Live
  <2>3. \/ skinProfileLoaded' = skinProfileLoaded \cup {m} /\ broken' = broken
        \/ broken' = broken \cup {m} /\ skinProfileLoaded' = skinProfileLoaded
    BY DEF SkinProfileLoaded
  <2>4. \A k \in Models : k # m => asyncObject'[k] = asyncObject[k]
    BY <1>1, <2>1 DEF SkinProfileLoaded, ForgetsObject, ObjectTypes
  <2>5. \A q \in held \ {o} : userArg[q] # m
    BY <1>1, <2>1 DEF Pointers
  <2>6. m \in m2DataLoaded
    BY <1>1, <2>1 DEF SkinProfileLoaded, Stages
  <2>7. Live \subseteq Models
    BY DEF Live
  <2>. QED  BY <1>1, <2>1, <2>2, <2>3, <2>4, <2>5, <2>6, <2>7 DEF Stages
<1>9. Quiet => Stages'
  BY <1>1 DEF Quiet, Stages, Live
<1>. QED  BY <1>3, <1>4, <1>5, <1>6, <1>7, <1>8, <1>9, Kinds

----------------------------------------------------------------------------
(* Who is initialised, and with which calls.                               *)

\* Initialisation, as far as the data allow.
LEMMA Initialises ==
    ASSUME CallTypes, NEW m \in Models, NEW m2, NEW skin, InitializeLoaded(m, m2, skin)
    PROVE  /\ loaded' = IF m \in m2 \cap skin THEN loaded \cup {m} ELSE loaded
           /\ \A k \in Models : k # m => calls'[k] = calls[k] /\ applied'[k] = applied[k]
           /\ calls'[m] = IF m \in m2 \cap skin THEN <<>> ELSE calls[m]
           /\ applied'[m] = IF m \in m2 \cap skin
                              THEN applied[m] \o calls[m] ELSE applied[m]
           /\ made' = made
BY DEF InitializeLoaded, BothFiles, Replays, CallTypes, callVars

\* The skin profile initialises a model on the callback list.
LEMMA SkinInitialises ==
    ASSUME Inv, SkinProfileLoaded
    PROVE  \E m \in Live :
              /\ m \in m2DataLoaded \ (skinProfileLoaded \cup broken) /\ Live' = Live
              /\ UNCHANGED <<m2DataLoaded, deferred>>
              /\ \/ /\ UNCHANGED <<skinProfileLoaded, linked, loaded>>
                    /\ UNCHANGED callVars
                 \/ /\ skinProfileLoaded' = skinProfileLoaded \cup {m}
                    /\ linked' = linked \ {m}
                    /\ IF m \in linked
                         THEN InitializeLoaded(m, m2DataLoaded, skinProfileLoaded')
                         ELSE UNCHANGED loaded /\ UNCHANGED callVars
<1>. DEFINE o == Reader!Top.obj
            m == userArg[o]
<1>1. o \in held /\ m \in Live /\ loads[o] = "skin"
  BY GivesBack DEF SkinProfileLoaded
<1>2. m \in m2DataLoaded \ (skinProfileLoaded \cup broken)
  BY <1>1 DEF Inv, ModelInv, Stages
<1>3. Live' = Live /\ UNCHANGED <<m2DataLoaded, deferred>>
  BY DEF SkinProfileLoaded, Live
<1>4. \/ /\ UNCHANGED <<skinProfileLoaded, linked, loaded>>
         /\ UNCHANGED callVars
      \/ /\ skinProfileLoaded' = skinProfileLoaded \cup {m}
         /\ linked' = linked \ {m}
         /\ IF m \in linked
              THEN InitializeLoaded(m, m2DataLoaded, skinProfileLoaded')
              ELSE UNCHANGED loaded /\ UNCHANGED callVars
  BY DEF SkinProfileLoaded
<1>. HIDE DEF m
<1>. QED  BY <1>1, <1>2, <1>3, <1>4

\* So does WaitForLoad for a model that is not on it.
LEMMA WaitInitialises ==
    ASSUME Inv, WaitForLoadReturn
    PROVE  LET m == waitForLoad.model
           IN /\ m \in Live
              /\ UNCHANGED <<life, m2DataLoaded, skinProfileLoaded, linked, deferred>>
              /\ IF deferred[m]
                   THEN m \notin linked
                          /\ InitializeLoaded(m, m2DataLoaded, skinProfileLoaded)
                   ELSE UNCHANGED loaded /\ UNCHANGED callVars
<1>1. waitForLoad.model \in Live
  BY DEF WaitForLoadReturn, InWaitForLoad, Inv, ModelInv, Waiting
<1>2. deferred[waitForLoad.model] => waitForLoad.model \notin linked
  BY DEF Inv, ModelInv, CallbackList
<1>. QED  BY <1>1, <1>2 DEF WaitForLoadReturn

LEMMA LoadedStep ==
    ASSUME Inv, [Next]_vars
    PROVE  LoadedIsComplete'
<1>1. StatusTypes /\ CallTypes /\ LoadedIsComplete /\ NotCreated
  BY DEF Inv, ModelInv, TypeOK, StatusTypes, CallTypes
<1>2. /\ m2DataLoaded \subseteq m2DataLoaded' /\ skinProfileLoaded \subseteq skinProfileLoaded'
      /\ \A m \in linked' : m \in linked \/ m \notin m2DataLoaded
  <2>1. ASSUME NEW m \in Models, NEW d \in BOOLEAN, NEW o \in Objects, CreateModel(m, d, o)
        PROVE  /\ linked' \subseteq linked \cup {m} /\ m \notin m2DataLoaded
               /\ UNCHANGED <<m2DataLoaded, skinProfileLoaded>>
    BY <1>1, <2>1 DEF CreateModel, NotCreated, Created
  <2>2. ASSUME NEW m \in Models, Release(m)
        PROVE  linked' \subseteq linked /\ UNCHANGED <<m2DataLoaded, skinProfileLoaded>>
    BY <2>2 DEF Release
  <2>3. ASSUME NEW o \in Objects, LoadSkinProfile(o)
        PROVE  m2DataLoaded \subseteq m2DataLoaded' /\ UNCHANGED <<linked, skinProfileLoaded>>
    BY <2>3 DEF LoadSkinProfile
  <2>4. SkinProfileLoaded => /\ UNCHANGED m2DataLoaded /\ linked' \subseteq linked
                             /\ skinProfileLoaded \subseteq skinProfileLoaded'
    BY DEF SkinProfileLoaded
  <2>5. LoadSucceeded \/ LoadSkinProfileFails \/ Quiet =>
          UNCHANGED <<m2DataLoaded, skinProfileLoaded, linked>>
    BY DEF LoadSucceeded, LoadSkinProfileFails, Quiet, statusVars
  <2>. QED  BY <2>1, <2>2, <2>3, <2>4, <2>5, Kinds
<1>3. ASSUME loaded' = loaded, \A m \in loaded : calls'[m] = calls[m]
      PROVE  LoadedIsComplete'
  BY <1>1, <1>2, <1>3 DEF LoadedIsComplete
<1>4. UNCHANGED loaded /\ UNCHANGED callVars => LoadedIsComplete'
  BY <1>3 DEF callVars
<1>5. ASSUME NEW m \in Models, CallModel(m)
      PROVE  LoadedIsComplete'
  <2>1. loaded' = loaded /\ \A k \in loaded : calls'[k] = calls[k]
    BY <1>1, <1>5 DEF CallModel, statusVars, CallTypes
  <2>. QED  BY <1>3, <2>1
<1>6. ASSUME NEW m \in Models, SetLoadedCallback(m)
      PROVE  LoadedIsComplete'
  BY <1>3, <1>6 DEF SetLoadedCallback, statusVars
<1>7. ASSUME NEW m \in Models, NEW m2, NEW skin, InitializeLoaded(m, m2, skin),
             m2 = m2DataLoaded', skin = skinProfileLoaded', m \notin linked'
      PROVE  LoadedIsComplete'
  <2>1. /\ loaded' = IF m \in m2 \cap skin THEN loaded \cup {m} ELSE loaded
        /\ \A k \in Models : k # m => calls'[k] = calls[k]
        /\ calls'[m] = IF m \in m2 \cap skin THEN <<>> ELSE calls[m]
    BY <1>1, <1>7, Initialises
  <2>2. loaded \subseteq Models
    BY <1>1 DEF CallTypes
  <2>. QED  BY <1>1, <1>2, <1>7, <2>1, <2>2 DEF LoadedIsComplete
<1>8. SkinProfileLoaded => LoadedIsComplete'
  <2>. SUFFICES ASSUME SkinProfileLoaded
       PROVE  LoadedIsComplete'
    OBVIOUS
  <2>1. \E m \in Live :
          \/ UNCHANGED loaded /\ UNCHANGED callVars
          \/ m \notin linked' /\ InitializeLoaded(m, m2DataLoaded', skinProfileLoaded')
    BY SkinInitialises
  <2>. QED  BY <1>4, <1>7, <2>1 DEF Live
<1>9. WaitForLoadReturn => LoadedIsComplete'
  BY <1>4, <1>7, WaitInitialises DEF Live
<1>. QED  BY <1>4, <1>5, <1>6, <1>8, <1>9, CallKinds

LEMMA CallbackListStep ==
    ASSUME Inv, [Next]_vars
    PROVE  CallbackList'
<1>1. StatusTypes /\ CallTypes /\ CallbackList /\ NotCreated /\ Stages
  BY DEF Inv, ModelInv, TypeOK, StatusTypes, CallTypes
<1>2. ASSUME loaded \subseteq loaded',
             UNCHANGED <<life, deferred, skinProfileLoaded, linked>>
      PROVE  CallbackList'
  BY <1>1, <1>2 DEF CallbackList, Live
<1>3. UNCHANGED loaded /\ UNCHANGED callVars => loaded \subseteq loaded'
  OBVIOUS
<1>4. ASSUME NEW m \in Models, NEW d \in BOOLEAN, NEW o \in Objects, CreateModel(m, d, o)
      PROVE  CallbackList'
  <2>1. /\ m \notin Live /\ Live' = Live \cup {m}
        /\ m \notin skinProfileLoaded
    BY <1>1, <1>4 DEF CreateModel, Live, Created, NotCreated, Stages, StatusTypes
  <2>2. /\ deferred'[m] = d /\ \A k \in Models : k # m => deferred'[k] = deferred[k]
        /\ linked' = IF ~ d THEN linked \cup {m} ELSE linked
        /\ UNCHANGED <<skinProfileLoaded, loaded>>
    BY <1>1, <1>4 DEF CreateModel, ListsOthers, StatusTypes
  <2>3. Live \subseteq Models /\ linked \subseteq Models /\ skinProfileLoaded \subseteq Models
    BY <1>1 DEF Live, StatusTypes
  <2>. QED  BY <1>1, <2>1, <2>2, <2>3 DEF CallbackList
<1>5. ASSUME NEW m \in Models, Release(m)
      PROVE  CallbackList'
  <2>1. /\ Live' = Live \ {m} /\ linked' = linked \ {m}
        /\ UNCHANGED <<deferred, skinProfileLoaded, loaded>>
    BY <1>1, <1>5 DEF Release, Live, StatusTypes
  <2>. QED  BY <1>1, <2>1 DEF CallbackList
<1>6. ASSUME SkinProfileLoaded
      PROVE  CallbackList'
  <2>1. ASSUME NEW m \in Live, Live' = Live, UNCHANGED deferred,
               UNCHANGED <<skinProfileLoaded, linked, loaded>>
        PROVE  CallbackList'
    BY <1>1, <2>1 DEF CallbackList
  <2>2. ASSUME NEW m \in Live, Live' = Live, UNCHANGED <<m2DataLoaded, deferred>>,
               m \in m2DataLoaded \ (skinProfileLoaded \cup broken),
               skinProfileLoaded' = skinProfileLoaded \cup {m}, linked' = linked \ {m},
               IF m \in linked
                 THEN InitializeLoaded(m, m2DataLoaded, skinProfileLoaded')
                 ELSE UNCHANGED loaded /\ UNCHANGED callVars
        PROVE  CallbackList'
    <3>1. m \in linked => loaded' = loaded \cup {m}
      BY <1>1, <2>2, Initialises DEF Live
    <3>2. m \notin linked => loaded' = loaded
      BY <2>2
    <3>3. m \notin linked => deferred[m]
      BY <1>1, <2>2 DEF CallbackList
    <3>. QED  BY <1>1, <2>2, <3>1, <3>2, <3>3 DEF CallbackList
  <2>. QED  BY <1>6, <2>1, <2>2, SkinInitialises
<1>7. ASSUME WaitForLoadReturn
      PROVE  CallbackList'
  <2>1. loaded \subseteq loaded'
    BY <1>1, <1>3, <1>7, WaitInitialises, Initialises DEF Live
  <2>. QED  BY <1>2, <1>7, <2>1, WaitInitialises
<1>8. ASSUME ~ SkinProfileLoaded, ~ WaitForLoadReturn
      PROVE  loaded' = loaded
  BY <1>8, CallKinds DEF CallModel, SetLoadedCallback, statusVars
<1>9. ASSUME NEW o \in Objects, LoadSkinProfile(o)
      PROVE  UNCHANGED <<life, deferred, skinProfileLoaded, linked>>
  BY <1>9 DEF LoadSkinProfile
<1>10. LoadSucceeded \/ LoadSkinProfileFails \/ Quiet =>
         UNCHANGED <<life, deferred, skinProfileLoaded, linked>>
  BY DEF LoadSucceeded, LoadSkinProfileFails, Quiet, statusVars
<1>. QED  BY <1>2, <1>4, <1>5, <1>6, <1>7, <1>8, <1>9, <1>10, Kinds

----------------------------------------------------------------------------
(* The calls.                                                              *)

Numbers(n) == [i \in 1..n |-> i]

LEMMA NextNumber ==
    ASSUME NEW n \in Nat
    PROVE  Append(Numbers(n), n + 1) = Numbers(n + 1)
BY DEF Numbers

LEMMA AppendToConcat ==
    ASSUME NEW s \in Seq(1..MaxCalls), NEW t \in Seq(1..MaxCalls), NEW e \in 1..MaxCalls
    PROVE  s \o Append(t, e) = Append(s \o t, e)
OBVIOUS

LEMMA CallsStep ==
    ASSUME Inv, [Next]_vars
    PROVE  CallsInOrder'
<1>1. StatusTypes /\ CallTypes /\ LoadedIsComplete /\ CallsInOrder
  BY DEF Inv, ModelInv, TypeOK, StatusTypes, CallTypes
<1>2. UNCHANGED callVars => CallsInOrder'
  BY <1>1 DEF callVars, CallsInOrder
<1>3. \A k \in Models : /\ applied[k] \o calls[k] = Numbers(made[k]) /\ made[k] \in Nat
                        /\ applied[k] \in Seq(1..MaxCalls) /\ calls[k] \in Seq(1..MaxCalls)
  <2>1. \A k \in Models : applied[k] \o calls[k] = Numbers(made[k])
    BY <1>1 DEF CallsInOrder, Numbers
  <2>2. \A k \in Models : made[k] \in 0..MaxCalls
    BY <1>1 DEF CallTypes
  <2>3. \A k \in Models :
          applied[k] \in Seq(1..MaxCalls) /\ calls[k] \in Seq(1..MaxCalls)
    BY <1>1 DEF CallTypes
  <2>4. \A k \in Models : made[k] \in Nat
    BY <2>2, CallsAssumption
  <2>. QED  BY <2>1, <2>3, <2>4
<1>4. ASSUME \A k \in Models : applied'[k] \o calls'[k] = Numbers(made'[k])
      PROVE  CallsInOrder'
  BY <1>4 DEF CallsInOrder, Numbers
<1>5. ASSUME NEW m \in Models, CallModel(m)
      PROVE  CallsInOrder'
  <2>1. /\ made'[m] = made[m] + 1 /\ made[m] + 1 \in 1..MaxCalls
        /\ \A k \in Models : k # m =>
              made'[k] = made[k] /\ applied'[k] = applied[k] /\ calls'[k] = calls[k]
    BY <1>1, <1>5, CallsAssumption DEF CallModel, CallTypes
  <2>2. applied'[m] \o calls'[m] = Append(applied[m] \o calls[m], made[m] + 1)
    <3>1. CASE m \in loaded
      <4>1. calls'[m] = <<>> /\ calls[m] = <<>>
              /\ applied'[m] = Append(applied[m], made[m] + 1)
        BY <1>1, <1>5, <3>1 DEF CallModel, CallTypes, LoadedIsComplete
      <4>. QED  BY <1>3, <2>1, <4>1, ConcatEmptySeq, AppendProperties
    <3>2. CASE m \notin loaded
      <4>1. applied'[m] = applied[m] /\ calls'[m] = Append(calls[m], made[m] + 1)
        BY <1>1, <1>5, <3>2 DEF CallModel, CallTypes
      <4>2. applied[m] \in Seq(1..MaxCalls) /\ calls[m] \in Seq(1..MaxCalls)
        BY <1>3
      <4>3. \A n \in 1..MaxCalls :
              applied[m] \o Append(calls[m], n) = Append(applied[m] \o calls[m], n)
        BY <4>2, AppendToConcat
      <4>. QED  BY <2>1, <4>1, <4>3
    <3>. QED  BY <3>1, <3>2
  <2>3. applied'[m] \o calls'[m] = Numbers(made'[m])
    BY <1>3, <2>1, <2>2, NextNumber
  <2>. QED  BY <1>3, <1>4, <2>1, <2>3
<1>6. ASSUME NEW m \in Models, SetLoadedCallback(m)
      PROVE  CallsInOrder'
  BY <1>1, <1>6 DEF SetLoadedCallback, CallsInOrder
<1>7. ASSUME NEW m \in Models, NEW m2, NEW skin, InitializeLoaded(m, m2, skin)
      PROVE  CallsInOrder'
  <2>1. /\ \A k \in Models : k # m => calls'[k] = calls[k] /\ applied'[k] = applied[k]
        /\ \/ calls'[m] = <<>> /\ applied'[m] = applied[m] \o calls[m]
           \/ calls'[m] = calls[m] /\ applied'[m] = applied[m]
        /\ made' = made
    BY <1>1, <1>7, Initialises
  <2>2. (applied[m] \o calls[m]) \o <<>> = applied[m] \o calls[m]
    BY <1>3, ConcatEmptySeq, ConcatProperties
  <2>. QED  BY <1>3, <1>4, <2>1, <2>2
<1>8. SkinProfileLoaded => CallsInOrder'
  BY <1>2, <1>7, SkinInitialises DEF Live
<1>9. WaitForLoadReturn => CallsInOrder'
  BY <1>2, <1>7, WaitInitialises DEF Live
<1>. QED  BY <1>2, <1>5, <1>6, <1>8, <1>9, CallKinds

----------------------------------------------------------------------------
(* CM2Model::WaitForLoad.                                                  *)

\* Only the end of a wait, and another one, change what is waited for.
WaitObjectKept ==
    \/ asyncWaitObject' = asyncWaitObject
    \/ Reader!PollPost /\ asyncWaitObject = Head(postList)

LEMMA WaitObject ==
    ASSUME Inv, [Next]_vars, ~ WaitForFile
    PROVE  WaitObjectKept
<1>1. Poll => WaitObjectKept
  <2>1. Reader!PollPost => WaitObjectKept
    BY DEF Reader!PollPost, Reader!EndsWait, WaitObjectKept
  <2>2. Reader!PollEnter \/ Reader!PollContinue \/ Reader!PollReturn
          \/ Reader!WaitEnd \/ Reader!CleanupDestroy => WaitObjectKept
    BY DEF Reader!PollEnter, Reader!PollContinue, Reader!PollReturn, Reader!WaitEnd,
           Reader!CleanupDestroy, Reader!GiveBack, WaitObjectKept
  <2>. QED  BY <2>1, <2>2 DEF Poll
<1>2. Thread => WaitObjectKept
  BY DEF Thread, Reader!Thread, Reader!ThreadTake, Reader!ThreadPost, WaitObjectKept
<1>3. LoadSucceeded \/ SkinProfileLoaded \/ CallbackReturn => WaitObjectKept
  BY DEF LoadSucceeded, SkinProfileLoaded, CallbackReturn, Reader!CallbackDestroy,
         Reader!GiveBack, Reader!CallbackReturn, WaitObjectKept
<1>4. LoadSkinProfileFails \/ WaitForLoadReturn \/ UNCHANGED vars => WaitObjectKept
  BY DEF LoadSkinProfileFails, WaitForLoadReturn, vars, readerVars, WaitObjectKept
<1>5. ASSUME NEW o \in Objects, LoadSkinProfile(o)
      PROVE  WaitObjectKept
  BY <1>5 DEF LoadSkinProfile, Read, Reader!Request, WaitObjectKept
<1>6. ASSUME NEW m \in Models, NEW d \in BOOLEAN, NEW o \in Objects, CreateModel(m, d, o)
      PROVE  WaitObjectKept
  BY <1>6 DEF CreateModel, Read, Reader!Request, WaitObjectKept
<1>7. ASSUME NEW m \in Models, CallModel(m) \/ SetLoadedCallback(m) \/ WaitForLoad(m)
      PROVE  WaitObjectKept
  BY <1>7 DEF CallModel, SetLoadedCallback, WaitForLoad, readerVars, WaitObjectKept
<1>8. ASSUME NEW m \in Models, Release(m)
      PROVE  WaitObjectKept
  BY <1>8 DEF Release, CancelsRequest, Reader!Cancel, readerVars, WaitObjectKept
<1>. QED  BY <1>1, <1>2, <1>3, <1>4, <1>5, <1>6, <1>7, <1>8 DEF Next, MainSystem, User

\* What is waited for is called back, and then its callback destroys it.
LEMMA AwaitedStays ==
    ASSUME Inv, [Next]_vars, ~ WaitForFile, NEW m \in Live, IsAwaited(m),
           asyncObject'[m] = asyncObject[m],
           ~ (Reader!CallbackDestroy /\ asyncObject[m] = Reader!Top.obj)
    PROVE  IsAwaited(m)'
<1>1. asyncObject[m] # NULL /\ asyncObject[m] \in held
  BY DEF IsAwaited, Inv, ModelInv, Pointers
<1>2. asyncObject[m] \in Facts!CalledBack => asyncObject[m] \in Facts!CalledBack'
  BY CallsOnlyWhatIsKept, UsesReader
<1>3. asyncWaitObject = asyncObject[m] =>
        asyncWaitObject' = asyncObject[m] \/ asyncObject[m] \in Facts!CalledBack'
  BY <1>1, WaitObject, CallsBack DEF WaitObjectKept
<1>. QED  BY <1>1, <1>2, <1>3 DEF IsAwaited

\* One wait after the other, for the model m.
WaitingFor(m, waits) ==
    \/ Past(m, waits)
    \/ waits >= 1 /\ Past(m, waits - 1) /\ IsAwaited(m)

LEMMA NotAwaited ==
    ASSUME Inv, stack = <<>>, NEW m \in Live, NEW waits, WaitingFor(m, waits)
    PROVE  Past(m, waits) /\ loading = NULL
<1>1. loading = NULL
  BY DEF Inv, ModelInv, GoesOn, Reader!OnTop
<1>2. ~ IsAwaited(m)
  BY WhenEventLoopRuns DEF IsAwaited
<1>. QED  BY <1>1, <1>2 DEF WaitingFor

\* The wait goes on while others' files are loaded, and m's.
LEMMA WaitingStep ==
    ASSUME Inv, [Next]_vars, ~ WaitForFile, waitForLoad # NULL,
           NEW m \in Live, NEW waits \in 0..WaitCount, WaitingFor(m, waits)
    PROVE  m \in Live' /\ WaitingFor(m, waits)'
<1>1. ObjectTypes /\ StatusTypes /\ Pointers /\ GoesOn /\ m \in Models /\ m # NULL
  BY ModelsAssumption DEF Inv, ModelInv, TypeOK, ObjectTypes, StatusTypes, Live
<1>2. waits \in Nat /\ waits <= 2
  BY DEF WaitCount
<1>3. ASSUME asyncObject'[m] = asyncObject[m], loading' = m => loading = m,
             asyncObject[m] # NULL => loads'[asyncObject[m]] = loads[asyncObject[m]],
             ~ (Reader!CallbackDestroy /\ asyncObject[m] = Reader!Top.obj)
      PROVE  WaitingFor(m, waits)'
  <2>1. ASSUME NEW w \in {waits, waits - 1}, Past(m, w)
        PROVE  Past(m, w)'
    BY <1>3, <2>1 DEF Past
  <2>2. IsAwaited(m) => IsAwaited(m)'
    BY <1>3, AwaitedStays
  <2>. QED  BY <2>1, <2>2 DEF WaitingFor
<1>4. ASSUME NEW k \in Models, NEW d \in BOOLEAN, NEW o \in Objects, CreateModel(k, d, o)
      PROVE  FALSE
  BY <1>4 DEF CreateModel, MainFree
<1>5. ASSUME NEW k \in Models, Release(k)
      PROVE  FALSE
  BY <1>5 DEF Release, MainFree
<1>6. ASSUME NEW o \in Objects, LoadSkinProfile(o)
      PROVE  m \in Live' /\ WaitingFor(m, waits)'
  <2>1. loading # NULL /\ Reader!OnTop("after") /\ loading \in Models
          /\ asyncObject[loading] = NULL
    BY <1>1, <1>6 DEF LoadSkinProfile, GoesOn, Live
  <2>2. ~ Reader!CallbackDestroy
    BY <2>1 DEF Reader!CallbackDestroy, Reader!OnTop
  <2>3. Asked(loading, "skin", o)
    <3>1. Read(loading, "skin", o, 125, TRUE)
      BY <1>6 DEF LoadSkinProfile
    <3>. QED  BY <2>1, <3>1, AsksFields
  <2>4. loading' = NULL /\ Live' = Live
    BY <1>6 DEF LoadSkinProfile, Live
  <2>5. CASE loading = m
    <3>1. Past(m, waits) /\ waits <= 1
      BY <1>1, <1>2, <2>1, <2>5 DEF WaitingFor, IsAwaited, Past
    <3>2. asyncObject'[m] = o /\ loads'[o] = "skin"
      BY <2>3, <2>5 DEF Asked
    <3>3. Past(m, waits)'
      BY <1>2, <3>1, <3>2 DEF Past
    <3>. QED  BY <2>4, <3>3 DEF WaitingFor
  <2>6. CASE loading # m
    <3>1. asyncObject'[m] = asyncObject[m]
      BY <1>1, <2>3, <2>6 DEF Asked
    <3>2. asyncObject[m] # NULL => asyncObject[m] \in held
      BY <1>1 DEF Pointers
    <3>3. asyncObject[m] # NULL => loads'[asyncObject[m]] = loads[asyncObject[m]]
      BY <2>3, <3>2 DEF Asked
    <3>. QED  BY <1>1, <1>3, <2>2, <2>4, <3>1, <3>3
  <2>. QED  BY <2>5, <2>6
<1>7. ASSUME LoadSkinProfileFails
      PROVE  m \in Live' /\ WaitingFor(m, waits)'
  <2>1. loading # NULL /\ Reader!OnTop("after") /\ loading' = NULL
    BY <1>1, <1>7 DEF LoadSkinProfileFails, GoesOn
  <2>2. ~ Reader!CallbackDestroy
    BY <2>1 DEF Reader!CallbackDestroy, Reader!OnTop
  <2>3. UNCHANGED <<asyncObject, loads>> /\ Live' = Live
    BY <1>7 DEF LoadSkinProfileFails, objectVars, Live
  <2>. QED  BY <1>1, <1>3, <2>1, <2>2, <2>3
<1>8. ASSUME Reader!CallbackDestroy, ForgetsObject(userArg[Reader!Top.obj]),
             UNCHANGED <<loads, life>>, userArg[Reader!Top.obj] # m,
             loading' \in {loading, userArg[Reader!Top.obj]}
      PROVE  m \in Live' /\ WaitingFor(m, waits)'
  <2>1. userArg[Reader!Top.obj] \in Models
    BY <1>8, GivesBack DEF Live
  <2>2. asyncObject'[m] = asyncObject[m]
    BY <1>1, <1>8, <2>1 DEF ForgetsObject, ObjectTypes
  <2>3. asyncObject[m] = Reader!Top.obj => asyncObject[m] \in held
    BY <1>8, GivesBack
  <2>4. Reader!Top.obj \in held /\ Reader!Top.obj # NULL
    BY <1>8, GivesBack, Keeping, ReaderAssumption
  <2>5. asyncObject[m] # Reader!Top.obj
    BY <1>1, <1>8, <2>4 DEF Pointers
  <2>6. Live' = Live
    BY <1>8 DEF Live
  <2>. QED  BY <1>3, <1>8, <2>2, <2>5, <2>6
<1>9. ASSUME LoadSucceeded
      PROVE  m \in Live' /\ WaitingFor(m, waits)'
  <2>. DEFINE k == userArg[Reader!Top.obj]
  <2>1. /\ Reader!CallbackDestroy /\ ForgetsObject(k) /\ loading' = k
        /\ UNCHANGED <<loads, life>> /\ loads[Reader!Top.obj] = "model"
    BY <1>9 DEF LoadSucceeded, statusVars
  <2>2. CASE k = m
    <3>1. asyncObject[m] = Reader!Top.obj /\ asyncObject[m] # NULL
      BY <2>1, <2>2, GivesBack, Keeping, ReaderAssumption
    <3>2. waits <= 1
      BY <1>2, <2>1, <3>1 DEF WaitingFor, Past
    <3>3. asyncObject'[m] = NULL
      BY <1>1, <2>1, <2>2 DEF ForgetsObject, ObjectTypes
    <3>4. Past(m, waits)'
      BY <1>2, <3>2, <3>3 DEF Past
    <3>. QED  BY <2>1, <3>4 DEF WaitingFor, Live
  <2>3. CASE k # m
    BY <1>8, <2>1, <2>3
  <2>. QED  BY <2>2, <2>3
<1>10. ASSUME SkinProfileLoaded
       PROVE  m \in Live' /\ WaitingFor(m, waits)'
  <2>. DEFINE k == userArg[Reader!Top.obj]
  <2>1. /\ Reader!CallbackDestroy /\ ForgetsObject(k) /\ loading' = loading
        /\ UNCHANGED <<loads, life>>
    BY <1>10 DEF SkinProfileLoaded
  <2>2. CASE k = m
    <3>1. asyncObject'[m] = NULL /\ loading' = NULL
      BY <1>1, <2>1, <2>2, GivesBack DEF ForgetsObject, ObjectTypes
    <3>2. Past(m, waits)'
      BY <1>1, <3>1 DEF Past
    <3>. QED  BY <2>1, <3>2 DEF WaitingFor, Live
  <2>3. CASE k # m
    BY <1>8, <2>1, <2>3
  <2>. QED  BY <2>2, <2>3
<1>11. ASSUME Quiet
       PROVE  m \in Live' /\ WaitingFor(m, waits)'
  <2>1. UNCHANGED <<asyncObject, loads, loading, held>> /\ Live' = Live
    BY <1>11 DEF Quiet, Live
  <2>2. ~ Reader!CallbackDestroy
    BY <2>1, GivesBack
  <2>. QED  BY <1>3, <2>1, <2>2
<1>. QED  BY <1>4, <1>5, <1>6, <1>7, <1>9, <1>10, <1>11, Kinds

\* Each of its waits gets it past one more file.
LEMMA WaitsForFile ==
    ASSUME Inv, WaitForFile,
           NEW m, m = waitForLoad.model, NEW waits, waits = waitForLoad.waits
    PROVE  /\ waitForLoad'.model = m /\ waitForLoad'.waits = waits + 1
           /\ m \in Live' /\ waits \in Nat /\ WaitingFor(m, waits + 1)'
<1>. DEFINE o == asyncObject[m]
<1>1. stack = <<>> /\ waitForLoad # NULL /\ waits < WaitCount
  BY DEF WaitForFile, InWaitForLoad
<1>2. waitForLoad \in [model : Models, waits : 0..WaitCount]
  BY <1>1 DEF Inv, TypeOK
<1>3. m \in Live /\ WaitingFor(m, waits)
  BY <1>1 DEF Inv, ModelInv, Waiting, WaitingFor
<1>4. Past(m, waits) /\ loading = NULL /\ m # NULL
  BY <1>1, <1>2, <1>3, NotAwaited, ModelsAssumption
<1>5. waitForLoad'.model = m /\ waitForLoad'.waits = waits + 1
  BY <1>2 DEF WaitForFile
<1>6. UNCHANGED <<asyncObject, loads, loading>> /\ Live' = Live
  BY DEF WaitForFile, objectVars, statusVars, Live
<1>7. waits \in Nat /\ waits + 1 <= 2 /\ waits + 1 - 1 = waits /\ waits + 1 >= 1
  BY <1>1, <1>2 DEF WaitCount
<1>8. CASE o = NULL
  <2>1. \A w : Past(m, w)'
    BY <1>4, <1>6, <1>8 DEF Past
  <2>. QED  BY <1>3, <1>5, <1>6, <1>7, <2>1 DEF WaitingFor
<1>9. CASE o # NULL
  <2>1. o \in held /\ ~ isProcessed[o]
    BY <1>1, <1>3, <1>9, WhenEventLoopRuns DEF Inv, ModelInv, Pointers
  <2>2. asyncWaitObject' = o
    BY <1>9, <2>1 DEF WaitForFile, Reader!WaitBegin
  <2>3. Past(m, waits)' /\ IsAwaited(m)'
    BY <1>4, <1>6, <1>9, <2>2 DEF Past, IsAwaited
  <2>. QED  BY <1>3, <1>5, <1>6, <1>7, <2>3 DEF WaitingFor
<1>. QED  BY <1>8, <1>9

LEMMA WaitingForStep ==
    ASSUME Inv, [Next]_vars
    PROVE  Waiting'
<1>1. CASE WaitForFile
  <2>1. PICK m, waits : m = waitForLoad.model /\ waits = waitForLoad.waits
    OBVIOUS
  <2>2. /\ waitForLoad'.model = m /\ waitForLoad'.waits = waits + 1
        /\ m \in Live' /\ waits \in Nat /\ WaitingFor(m, waits + 1)'
    BY <1>1, <2>1, WaitsForFile
  <2>. QED  BY <2>2 DEF Waiting, WaitingFor, Past, IsAwaited
<1>2. ASSUME NEW m \in Models, WaitForLoad(m)
      PROVE  Waiting'
  <2>1. m \in Live' /\ waitForLoad' = [model |-> m, waits |-> 0]
    BY <1>2 DEF WaitForLoad, Live, statusVars
  <2>2. Past(m, 0)'
    BY DEF Past
  <2>3. waitForLoad'.model = m /\ waitForLoad'.waits = 0
    BY <2>1
  <2>. QED  BY <2>1, <2>2, <2>3 DEF Waiting
<1>3. WaitForLoadReturn => Waiting'
  BY DEF WaitForLoadReturn, Waiting
<1>4. CASE ~ WaitForFile /\ UNCHANGED waitForLoad /\ waitForLoad # NULL
  <2>. DEFINE m == waitForLoad.model
              waits == waitForLoad.waits
  <2>1. waits \in 0..WaitCount
    BY <1>4 DEF Inv, TypeOK
  <2>2. m \in Live /\ WaitingFor(m, waits)
    BY <1>4 DEF Inv, ModelInv, Waiting, WaitingFor
  <2>3. m \in Live' /\ WaitingFor(m, waits)'
    BY <1>4, <2>1, <2>2, WaitingStep
  <2>. QED  BY <1>4, <2>3 DEF Waiting, WaitingFor
<1>5. UNCHANGED waitForLoad /\ waitForLoad = NULL => Waiting'
  BY DEF Waiting
<1>. QED  BY <1>1, <1>2, <1>3, <1>4, <1>5, WaitKinds

----------------------------------------------------------------------------
(* Theorems.                                                               *)

LEMMA InvStep == Inv /\ [Next]_vars => Inv'
<1>. SUFFICES ASSUME Inv, [Next]_vars
     PROVE  Inv'
  OBVIOUS
<1>1. Facts!Invariants'
  BY UsesReader, ReaderInvariants
<1>. QED  BY <1>1, TypeStep, RequestsStep, PointersStep, GoesOnStep, StagesStep,
             NotCreatedStep, CallbackListStep, LoadedStep, CallsStep, WaitingForStep
          DEF Inv, ModelInv

LEMMA InvInit == Init => Inv
<1>. SUFFICES ASSUME Init
     PROVE  Inv
  OBVIOUS
<1>1. Facts!Invariants
  BY FactsInit DEF Init
<1>2. Facts!TypeOK /\ Reader!TypeOK
  BY <1>1, SameTypes DEF Facts!Invariants, Facts!IInv
<1>3. TypeOK
  <2>1. \A m \in Models : <<>> \in Seq(1..MaxCalls) /\ 0 \in 0..MaxCalls
    BY CallsAssumption
  <2>. QED  BY <1>2, <2>1 DEF Init, TypeOK
<1>4. Created = {} /\ Live = {}
  BY DEF Init, Created, Live
<1>5. RequestsCounted
  BY <1>4, FS_EmptySet DEF Init, Reader!Init, RequestsCounted
<1>6. Pointers /\ GoesOn /\ Stages /\ NotCreated /\ CallbackList
  BY <1>4 DEF Init, Reader!Init, Pointers, GoesOn, Stages, NotCreated, CallbackList
<1>7. LoadedIsComplete /\ Waiting
  BY DEF Init, LoadedIsComplete, Waiting
<1>8. CallsInOrder
  <2>1. ASSUME NEW m \in Models
        PROVE  applied[m] \o calls[m] = [i \in 1..made[m] |-> i]
    <3>1. applied[m] = <<>> /\ calls[m] = <<>> /\ made[m] = 0
      BY DEF Init
    <3>. QED  BY <3>1
  <2>. QED  BY <2>1 DEF CallsInOrder
<1>. QED  BY <1>1, <1>3, <1>5, <1>6, <1>7, <1>8 DEF Inv, ModelInv

LEMMA AlwaysInv == Spec => []Inv
BY InvInit, InvStep, PTL DEF Spec

\* ModelLoading is one of the users that AsyncFileRead assumes: every call that
\* CM2Shared and CM2Model make to the reader keeps its discipline.
THEOREM UsesReaderProperly == Spec => ReaderSpec
<1>1. Init => Reader!Init
  BY DEF Init
<1>. QED  BY <1>1, UsesReader, AlwaysInv, PTL DEF Spec, ReaderSpec, Reader!Spec

\* The models agree with what has been read, and whoever is loaded has both
\* files, no call left and no callback to come.
THEOREM LoadedModelsComplete == Spec => []ModelsComplete
<1>1. Inv => ModelsComplete
  BY DEF Inv, ModelInv, ModelsComplete
<1>. QED  BY <1>1, AlwaysInv, PTL

\* No callback runs for a deleted model: ~CM2Shared cancels what it waits for.
THEOREM CallbacksOfLive == Spec => []CallbackForLiveModel
<1>1. Inv => CallbackForLiveModel
  <2>. SUFFICES ASSUME Inv, Reader!OnTop("user")
       PROVE  /\ userArg[Reader!Top.obj] \in Live
              /\ asyncObject[userArg[Reader!Top.obj]] = Reader!Top.obj
    BY DEF CallbackForLiveModel
  <2>1. Reader!Top.obj \in held
    BY TopIsCalledBack, Keeping
  <2>. QED  BY <2>1 DEF Inv, ModelInv, Pointers
<1>. QED  BY <1>1, AlwaysInv, PTL

\* Calls made to a model take effect once each and in their order, before and
\* after InitializeLoaded replays those that had to wait.
THEOREM CallsTakeEffectInOrder == Spec => []CallsInOrder
<1>1. Inv => CallsInOrder
  BY DEF Inv, ModelInv
<1>. QED  BY <1>1, AlwaysInv, PTL

\* When CM2Model::WaitForLoad returns, the model is loaded or broken.
THEOREM LoadedAfterWait == Spec => WaitForLoadLoads
<1>1. Inv /\ [Next]_vars =>
        [waitForLoad # NULL /\ waitForLoad' = NULL
           => waitForLoad.model \in loaded' \cup broken]_vars
  <2>. SUFFICES ASSUME Inv, [Next]_vars, waitForLoad # NULL, waitForLoad' = NULL
       PROVE  waitForLoad.model \in loaded' \cup broken
    OBVIOUS
  <2>. DEFINE m == waitForLoad.model
  <2>1. ~ WaitForFile
    <3>1. WaitForFile => waitForLoad' \in [model : Models, waits : 0..WaitCount]
      <4>1. waitForLoad \in [model : Models, waits : 0..WaitCount]
        BY DEF Inv, TypeOK
      <4>2. WaitForFile => /\ waitForLoad.waits < WaitCount
                           /\ waitForLoad' = [waitForLoad EXCEPT !.waits = waitForLoad.waits + 1]
        BY DEF WaitForFile
      <4>. QED  BY <4>1, <4>2 DEF WaitCount
    <3>. QED  BY <3>1, WaitAssumption
  <2>2. WaitForLoadReturn
    BY <2>1, WaitKinds DEF WaitForLoad, MainFree
  <2>3. stack = <<>> /\ waitForLoad.waits = 2
    BY <2>2 DEF WaitForLoadReturn, InWaitForLoad, WaitCount
  <2>4. m \in Live /\ WaitingFor(m, 2)
    BY <2>3 DEF Inv, ModelInv, Waiting, WaitingFor
  <2>5. asyncObject[m] = NULL /\ loading # m
    BY <2>3, <2>4, NotAwaited DEF Past
  <2>6. m \in skinProfileLoaded \cup broken /\ skinProfileLoaded \subseteq m2DataLoaded
    BY <2>4, <2>5 DEF Inv, ModelInv, Stages
  <2>7. CASE m \in skinProfileLoaded /\ deferred[m]
    <3>1. InitializeLoaded(m, m2DataLoaded, skinProfileLoaded)
      BY <2>2, <2>7, WaitInitialises
    <3>2. loaded' = loaded \cup {m}
      BY <2>6, <2>7, <3>1 DEF InitializeLoaded, BothFiles
    <3>. QED  BY <3>2
  <2>8. CASE m \in skinProfileLoaded /\ ~ deferred[m]
    <3>1. m \in loaded
      BY <2>8 DEF Inv, ModelInv, CallbackList
    <3>2. loaded' = loaded
      BY <2>2, <2>8, WaitInitialises
    <3>. QED  BY <3>1, <3>2
  <2>. QED  BY <2>6, <2>7, <2>8
<1>. QED  BY <1>1, AlwaysInv, PTL DEF Spec, WaitForLoadLoads

=============================================================================
