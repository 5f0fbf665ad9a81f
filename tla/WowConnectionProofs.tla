------------------------- MODULE WowConnectionProofs -------------------------
(***************************************************************************)
(* Theorems about WowConnection, for any connections, any finite set of    *)
(* worker threads and any bound.                                           *)
(***************************************************************************)
EXTENDS WowConnection, IntrusiveListLemmas, FiniteSetTheorems

----------------------------------------------------------------------------
(* The inductive invariant, in parts.                                      *)

Busy == {w \in Workers : serviceConn[w] # NULL}
Started == {w \in Workers : workerPC[w] # "starting"}

\* The semaphore has a permit for each worker that has started and is free:
\* one that was signalled before it started owes its permit.
PermitsCounted ==
    /\ permits + Cardinality(Busy) = Cardinality(Started)
    /\ \A w \in Workers :
          serviceConn[w] = NULL => workerPC[w] \in {"starting", "idle"}

\* A connection has one server, which its counts say; flags that are set wait
\* for a server that has not taken them.
ServedOnce ==
    \A c \in Connections :
        /\ \A v, w \in Servers(c) : v = w
        /\ serviceCount[c] = IF Servers(c) = {} THEN 0 ELSE 1
        /\ responseRef[c] =
              IF \E w \in Servers(c) : workerPC[w] \in Events THEN 1 ELSE 0
        /\ serviceFlags[c] # {} =>
              \E w \in Servers(c) : workerPC[w] \in {"starting", "idle"}

\* The network thread polls a connection once and examines the first of its
\* list; nobody serves what it has not examined.
PolledOnce ==
    /\ \A i, j \in DOMAIN polled : polled[i].conn = polled[j].conn => i = j
    /\ \A i \in DOMAIN polled :
          IF polled[i].examined THEN i = 1 ELSE Servers(polled[i].conn) = {}

\* The references of RefsCounted, none of which is held twice.
RefsAre ==
    \A c \in Connections :
        /\ refCount[c] = (IF Entries(c) = {} THEN 0 ELSE 1)
                           + (IF Servers(c) = {} THEN 0 ELSE 1)
                           + (IF c \in held THEN 1 ELSE 0)
        /\ c \in deleted => refCount[c] = 0

Linked == LinkedIfOpen /\ Members(connections) \cap deleted = {}

\* A connection that is not created yet has left no trace.
UnbornUnused ==
    \A c \in Connections :
        connState[c] = "unborn" =>
            /\ refCount[c] = 0 /\ c \notin held \cup deleted
            /\ told[c] = "nothing"
            /\ \A t \in Threads : deleting[t] # c

\* Nothing that the network threads still have to do for c can link it or
\* call its owner back.
Quiet(c) ==
    /\ c \notin Members(connections)
    /\ \A i \in DOMAIN polled : polled[i].conn = c => polled[i].examined
    /\ \A w \in Servers(c) :
          workerPC[w] \in {"disconnected", "serve"} /\ todo[w] = {}

Unserviced(c) == sock[c] = "none" /\ Servers(c) = {}

\* An owner that may connect a connection has heard the last of it, unless it
\* is a stream, which is connected once.
QuietIfConnectable ==
    \A c \in Connections :
        /\ told[c] = "nothing" => Quiet(c) /\ Unserviced(c)
        /\ told[c] = "disconnected" /\ c \notin Streams => Quiet(c)

\* StartConnect, from its first step to its last: there is one for a
\* connection, and none of its owner's callbacks before it has returned.
CallsSound ==
    \A t \in Threads :
        call[t] # NULL =>
            LET c == call[t].conn
            IN CASE call[t].at = "release" ->
                      t = "app" /\ c \in held \ Streams
                 [] OTHER ->
                      /\ told[c] = "connecting"
                      /\ IF c \in Streams THEN t = "app"
                         ELSE /\ t \in Workers /\ workerPC[t] = "ready"
                              /\ serviceConn[t] \in Streams
                      /\ \A u \in Threads :
                            call[u] # NULL /\ call[u].conn = c
                               /\ call[u].at # "release" => u = t
                      /\ call[t].at \in {"close", "lock"} =>
                            Quiet(c) /\ (c \in Streams => Unserviced(c) /\ c \in held)
                      /\ call[t].at = "lock" => sock[c] = "none"
                      /\ call[t].at \in {"state", "connect"} => sock[c] = "open"

\* A socket is stale while its owner hears of the disconnection.
StaleInCallback ==
    /\ fault = "none" =>
          \A w \in Workers :
              workerPC[w] = "disconnected" => sock[serviceConn[w]] = "stale"
    /\ \A c \in Connections :
          sock[c] = "stale" => \E w \in Servers(c) : workerPC[w] = "disconnected"

\* The owner of a stream lets it go after it was unlinked, so one thread
\* drops its last reference.
StreamsReleased ==
    /\ \A c \in Streams :
          connState[c] # "unborn" /\ c \notin held => c \notin Members(connections)
    /\ \A t \in Threads :
          deleting[t] \in Streams =>
              /\ refCount[deleting[t]] = 0 /\ deleting[t] \notin deleted
              /\ \A u \in Threads : deleting[u] = deleting[t] => u = t
    /\ fault # "noSocket"

IInv ==
    /\ TypeOK /\ PermitsCounted /\ ServedOnce /\ PolledOnce /\ RefsAre /\ Linked
    /\ UnbornUnused /\ QuietIfConnectable /\ CallsSound /\ StaleInCallback
    /\ StreamsReleased

----------------------------------------------------------------------------
(* Types.                                                                  *)

\* The scan's order of places is a sequence without repetitions.
LEMMA AscendingPlaces ==
    ASSUME TypeOK, NEW places \in Ascending(Unserved)
    PROVE  /\ places \in Seq(Unserved)
           /\ \A i, j \in DOMAIN places : places[i] = places[j] => i = j
           /\ \A i \in DOMAIN places :
                 /\ places[i] \in DOMAIN connections
                 /\ connections[places[i]] \in Connections \cap Members(connections)
                 /\ serviceCount[connections[places[i]]] = 0
<1>1. Unserved \subseteq 1..Len(connections) /\ Len(connections) \in Nat
  BY DEF Unserved, TypeOK
<1>2. Cardinality(Unserved) \in Nat
  <2>1. IsFiniteSet(1..Len(connections))
    BY <1>1, FS_Interval
  <2>2. IsFiniteSet(Unserved)
    BY <1>1, <2>1, FS_Subset
  <2>. QED  BY <2>2, FS_CardinalityType
<1>3. /\ places \in [1..Cardinality(Unserved) -> Unserved]
      /\ \A i, j \in DOMAIN places : i < j => places[i] < places[j]
  BY DEF Ascending
<1>4. places \in Seq(Unserved)
  BY <1>2, <1>3, IsASeq
<1>5. \A i \in DOMAIN places : places[i] \in Unserved /\ i \in Nat
  BY <1>2, <1>3
<1>6. ASSUME NEW i \in DOMAIN places, NEW j \in DOMAIN places, places[i] = places[j]
      PROVE  i = j
  <2>1. i \in Nat /\ j \in Nat /\ places[i] \in Nat /\ places[j] \in Nat
    <3>1. places[i] \in 1..Len(connections) /\ places[j] \in 1..Len(connections)
      BY <1>1, <1>5
    <3>. QED  BY <1>5, <3>1
  <2>2. ~ i < j /\ ~ j < i
    BY <1>3, <1>6, <2>1
  <2>. QED  BY <2>1, <2>2
<1>. QED  BY <1>4, <1>5, <1>6 DEF Unserved, NotInService, Members, TypeOK

LEMMA CallType ==
    ASSUME TypeOK, NEW t \in Threads, NEW at \in CallPCs, call[t] # NULL
    PROVE  /\ GoesTo(t, at) =>
                call' \in [Threads -> [conn : Connections, at : CallPCs] \cup {NULL}]
           /\ CallReturns(t) =>
                call' \in [Threads -> [conn : Connections, at : CallPCs] \cup {NULL}]
           /\ call[t].conn \in Connections /\ call[t].at \in CallPCs
BY ZenonT(40) DEF TypeOK, GoesTo, CallReturns

\* The threads and what they are not.
LEMMA ThreadNames == "app" \in Threads /\ "net" \in Threads /\ Workers \subseteq Threads
BY DEF Threads

\* The actions of the threads, one by one.
LEMMA Actions ==
    ASSUME Next
    PROVE  /\ fault = "none"
           /\ \/ \E c \in Connections : New(c) \/ Disconnect(c) \/ GiveUp(c)
              \/ \E t \in Threads, c \in Connections : StartConnect(t, c)
              \/ \E t \in Threads :
                    \/ StartConnectDeleted(t) \/ StartConnectClose(t)
                    \/ StartConnectAdd(t) \/ StartConnectState(t)
                    \/ StartConnectEnd(t) \/ Delete(t)
              \/ GiveUpRelease \/ Scan \/ NotReady \/ PollRelease
              \/ \E flags \in SUBSET Flags, w \in Workers : Signal(flags, w)
              \/ \E w \in Workers :
                    \/ WorkerStart(w) \/ WorkerTake(w)
                    \/ \E flag \in {"write", "except"} : CheckConnect(w, flag)
                    \/ DoReads(w) \/ ReadsEnd(w) \/ EndOfStream(w)
                    \/ DoDisconnect(w) \/ OwnerDisconnects(w) \/ OwnerReleases(w)
                    \/ CallbackEnd(w) \/ WorkerLeave(w) \/ WorkerFree(w)
BY ThreadNames DEF Next, App, AppGoesOn, CallGoesOn, Network, Worker

\* A release changes one count and one thread's duty to delete.
LEMMA ReleaseType ==
    ASSUME TypeOK, NEW t \in Threads, NEW c \in Connections, refCount[c] >= 1,
           Release(t, c)
    PROVE  /\ refCount' \in [Connections -> Nat]
           /\ deleting' \in [Threads -> Connections \cup {NULL}]
           /\ deleted' = deleted
BY DEF Release, TypeOK

\* What a handler does before it calls back.
LEMMA CallBackType ==
    ASSUME TypeOK, NEW w \in Workers, NEW event \in Events,
           serviceConn[w] \in Connections, CallBack(w, event)
    PROVE  /\ workerPC' \in [Workers -> WorkerPCs]
           /\ responseRef' \in [Connections -> Nat]
           /\ told' \in [Connections -> {"nothing", "connecting", "connected",
                                         "cantConnect", "disconnected"}]
BY DEF CallBack, TypeOK, Events, WorkerPCs

\* A worker that is serving has a connection.
LEMMA ServingHasConn ==
    ASSUME TypeOK, PermitsCounted, NEW w \in Workers,
           workerPC[w] \notin {"starting", "idle"}
    PROVE  serviceConn[w] \in Connections
BY NullAssumption DEF TypeOK, PermitsCounted

\* The first entry of the network thread's list.
LEMMA HeadEntry ==
    ASSUME TypeOK, polled # <<>>
    PROVE  /\ Head(polled) = polled[1] /\ Head(polled) \in Entry
           /\ Head(polled).conn \in Connections
           /\ 1 \in DOMAIN polled /\ 1 \in Entries(Head(polled).conn)
           /\ Entries(Head(polled).conn) # {}
           /\ Tail(polled) \in Seq(Entry)
           /\ Len(Tail(polled)) = Len(polled) - 1
           /\ \A i \in 1..(Len(polled) - 1) : Tail(polled)[i] = polled[i + 1]
<1>1. polled \in Seq(Entry)
  BY DEF TypeOK
<1>2. /\ Head(polled) = polled[1] /\ Head(polled) \in Entry
      /\ Tail(polled) \in Seq(Entry) /\ Len(Tail(polled)) = Len(polled) - 1
      /\ \A i \in 1..Len(Tail(polled)) : Tail(polled)[i] = polled[i + 1]
  BY <1>1, HeadTailProperties
<1>3. 1 \in DOMAIN polled
  BY <1>1
<1>. QED  BY <1>2, <1>3 DEF Entries, Entry

LEMMA EntryTypes ==
    ASSUME TypeOK, NEW i \in DOMAIN polled
    PROVE  /\ polled[i] \in Entry /\ polled[i].conn \in Connections
           /\ polled[i].examined \in BOOLEAN
<1>1. polled[i] \in Entry
  BY ElementOfSeq DEF TypeOK
<1>. QED  BY <1>1 DEF Entry

LEMMA ExamineType ==
    ASSUME TypeOK, polled # <<>>
    PROVE  /\ [polled EXCEPT ![1].examined = TRUE] \in Seq(Entry)
           /\ DOMAIN [polled EXCEPT ![1].examined = TRUE] = DOMAIN polled
           /\ \A i \in DOMAIN polled :
                LET e == [polled EXCEPT ![1].examined = TRUE][i]
                IN /\ e.conn = polled[i].conn /\ e.watched = polled[i].watched
                   /\ e.examined = (i = 1 \/ polled[i].examined)
<1>. DEFINE e == [polled[1] EXCEPT !.examined = TRUE]
<1>1. polled \in Seq(Entry) /\ 1 \in DOMAIN polled /\ polled[1] \in Entry
  BY HeadEntry DEF TypeOK
<1>2. e \in Entry /\ e.conn = polled[1].conn /\ e.watched = polled[1].watched
      /\ e.examined = TRUE
  BY <1>1 DEF Entry
<1>3. [polled EXCEPT ![1].examined = TRUE] = [polled EXCEPT ![1] = e]
  BY <1>1
<1>. HIDE DEF e
<1>4. [polled EXCEPT ![1] = e] \in Seq(Entry)
  BY <1>1, <1>2, ExceptSeq
<1>5. \A i \in DOMAIN polled : polled[i].examined \in BOOLEAN
  <2>1. \A i \in DOMAIN polled : polled[i] \in Entry
    BY <1>1, ElementOfSeq
  <2>. QED  BY <2>1 DEF Entry
<1>6. ASSUME NEW i \in DOMAIN polled
      PROVE  LET d == [polled EXCEPT ![1] = e][i]
             IN /\ d.conn = polled[i].conn /\ d.watched = polled[i].watched
                /\ d.examined = (i = 1 \/ polled[i].examined)
  <2>1. CASE i = 1
    BY <1>1, <1>2, <2>1
  <2>2. CASE i # 1
    <3>1. [polled EXCEPT ![1] = e][i] = polled[i]
      BY <2>2
    <3>. QED  BY <1>5, <2>2, <3>1
  <2>. QED  BY <2>1, <2>2
<1>. QED  BY <1>1, <1>3, <1>4, <1>6

LEMMA ServerOfItsConn ==
    ASSUME NEW w \in Workers
    PROVE  workerPC[w] # "done" <=> w \in Servers(serviceConn[w])
BY DEF Servers

LEMMA Referenced ==
    ASSUME TypeOK, RefsAre, NEW c \in Connections,
           Entries(c) # {} \/ Servers(c) # {} \/ c \in held
    PROVE  refCount[c] >= 1 /\ c \notin deleted
BY DEF RefsAre

LEMMA WorkerCounts ==
    ASSUME TypeOK
    PROVE  /\ IsFiniteSet(Workers) /\ IsFiniteSet(Busy) /\ IsFiniteSet(Started)
           /\ Cardinality(Workers) \in Nat
           /\ Cardinality(Busy) \in Nat /\ Cardinality(Started) \in Nat
           /\ Cardinality(Started) <= Cardinality(Workers)
<1>1. IsFiniteSet(Workers)
  BY WorkersAssumption
<1>2. Busy \subseteq Workers /\ Started \subseteq Workers
  BY DEF Busy, Started
<1>. QED  BY <1>1, <1>2, FS_Subset, FS_CardinalityType

\* There is room in the semaphore for one more permit when a worker starts or
\* is done.
LEMMA RoomForPermit ==
    ASSUME TypeOK, PermitsCounted, NEW w \in Workers,
           workerPC[w] = "starting" \/ serviceConn[w] # NULL
    PROVE  permits + 1 \in 0..Cardinality(Workers)
<1>1. CASE workerPC[w] = "starting"
  <2>1. Started \subseteq Workers \ {w}
    BY <1>1 DEF Started
  <2>2. Cardinality(Workers \ {w}) = Cardinality(Workers) - 1
    BY WorkerCounts, FS_RemoveElement
  <2>3. IsFiniteSet(Workers \ {w})
    BY WorkerCounts, FS_RemoveElement
  <2>4. Cardinality(Started) <= Cardinality(Workers) - 1
    BY <2>1, <2>2, <2>3, FS_Subset
  <2>. QED  BY <2>4, WorkerCounts DEF PermitsCounted, TypeOK
<1>2. CASE serviceConn[w] # NULL
  <2>1. w \in Busy
    BY <1>2 DEF Busy
  <2>2. Cardinality(Busy) >= 1
    BY <2>1, WorkerCounts, FS_EmptySet
  <2>. QED  BY <2>2, WorkerCounts DEF PermitsCounted, TypeOK
<1>. QED  BY <1>1, <1>2

\* Every step preserves the types.
LEMMA TypeStep == IInv /\ [Next]_vars => TypeOK'
<1>. SUFFICES ASSUME IInv, [Next]_vars
              PROVE  TypeOK'
  OBVIOUS
<1>. USE DEF connVars, serviceVars, workerVars, refVars, ownerVars
<1>0. TypeOK /\ PermitsCounted /\ ServedOnce /\ RefsAre
  BY DEF IInv
<1>1. CASE UNCHANGED vars
  BY <1>0, <1>1 DEF vars, TypeOK
<1>2. ASSUME NEW c \in Connections, New(c)
      PROVE  TypeOK'
  BY <1>0, <1>2 DEF New, TypeOK, States
<1>3. ASSUME NEW c \in Connections, Disconnect(c)
      PROVE  TypeOK'
  BY <1>0, <1>3 DEF Disconnect, Disconnected, AfterDisconnect, TypeOK, States
<1>4. ASSUME NEW c \in Connections, GiveUp(c)
      PROVE  TypeOK'
  BY <1>0, <1>4, ThreadNames DEF GiveUp, AfterDisconnect, TypeOK, States, CallPCs
<1>5. ASSUME NEW t \in Threads, NEW c \in Connections, StartConnect(t, c)
      PROVE  TypeOK'
  BY <1>0, <1>5 DEF StartConnect, TypeOK, CallPCs
<1>6. ASSUME NEW t \in Threads, StartConnectDeleted(t)
      PROVE  TypeOK'
  BY <1>0, <1>6 DEF StartConnectDeleted, TypeOK
<1>7. ASSUME NEW t \in Threads, StartConnectClose(t)
      PROVE  TypeOK'
  <2>1. call[t] # NULL /\ "lock" \in CallPCs
    BY <1>7 DEF StartConnectClose, At, CallPCs
  <2>2. /\ call' \in [Threads -> [conn : Connections, at : CallPCs] \cup {NULL}]
        /\ call[t].conn \in Connections
    BY <1>0, <1>7, <2>1, CallType DEF StartConnectClose
  <2>3. connections' \in Seq(Connections)
    BY <1>0, <1>7, UnlinkProperties DEF StartConnectClose, Removed, TypeOK
  <2>4. sock' \in [Connections -> {"none", "open", "stale"}]
    BY <1>0, <1>7, <2>2 DEF StartConnectClose, TypeOK
  <2>. QED  BY <1>0, <1>7, <2>2, <2>3, <2>4 DEF StartConnectClose, TypeOK
<1>8. ASSUME NEW t \in Threads, StartConnectAdd(t)
      PROVE  TypeOK'
  <2>1. call[t] # NULL /\ "state" \in CallPCs
    BY <1>8 DEF StartConnectAdd, At, CallPCs
  <2>2. /\ call' \in [Threads -> [conn : Connections, at : CallPCs] \cup {NULL}]
        /\ call[t].conn \in Connections
    BY <1>0, <1>8, <2>1, CallType DEF StartConnectAdd
  <2>3. connections' \in Seq(Connections)
    <3>1. Append(connections, call[t].conn) \in Seq(Connections)
      BY <1>0, <2>2, AppendProperties DEF TypeOK
    <3>. QED  BY <1>0, <1>8, <3>1 DEF StartConnectAdd, TypeOK
  <2>4. sock' \in [Connections -> {"none", "open", "stale"}]
    BY <1>0, <1>8, <2>2 DEF StartConnectAdd, TypeOK
  <2>5. connState' \in [Connections -> States]
    BY <1>0, <1>8, <2>2 DEF StartConnectAdd, TypeOK, States
  <2>. QED  BY <1>0, <1>8, <2>2, <2>3, <2>4, <2>5 DEF StartConnectAdd, TypeOK
<1>9. ASSUME NEW t \in Threads, StartConnectState(t)
      PROVE  TypeOK'
  <2>1. call[t] # NULL /\ "connect" \in CallPCs
    BY <1>9 DEF StartConnectState, At, CallPCs
  <2>2. /\ call' \in [Threads -> [conn : Connections, at : CallPCs] \cup {NULL}]
        /\ call[t].conn \in Connections
    BY <1>0, <1>9, <2>1, CallType DEF StartConnectState
  <2>. QED  BY <1>0, <1>9, <2>2 DEF StartConnectState, TypeOK, States
<1>10. ASSUME NEW t \in Threads, StartConnectEnd(t)
       PROVE  TypeOK'
  <2>1. call[t] # NULL /\ "connect" \in CallPCs
    BY <1>10 DEF StartConnectEnd, At, CallPCs
  <2>2. /\ call' \in [Threads -> [conn : Connections, at : CallPCs] \cup {NULL}]
        /\ call[t].conn \in Connections
    BY <1>0, <1>10, <2>1, CallType DEF StartConnectEnd
  <2>3. connections' \in Seq(Connections)
    BY <1>0, <1>10, UnlinkProperties DEF StartConnectEnd, Removed, TypeOK
  <2>4. sock' \in [Connections -> {"none", "open", "stale"}]
    BY <1>0, <1>10, <2>2 DEF StartConnectEnd, TypeOK
  <2>5. connState' \in [Connections -> States]
    BY <1>0, <1>10, <2>2 DEF StartConnectEnd, TypeOK, States
  <2>. QED  BY <1>0, <1>10, <2>2, <2>3, <2>4, <2>5 DEF StartConnectEnd, TypeOK
<1>11. ASSUME NEW t \in Threads, Delete(t)
       PROVE  TypeOK'
  <2>. DEFINE c == deleting[t]
  <2>1. c \in Connections
    BY <1>0, <1>11 DEF Delete, TypeOK
  <2>2. connections' \in Seq(Connections)
    BY <1>0, <1>11, UnlinkProperties DEF Delete, TypeOK
  <2>3. deleted' \subseteq Connections /\ fault' \in {"none", "freed", "closedTwice", "stalePointer", "noSocket"}
    BY <1>0, <1>11, <2>1 DEF Delete, TypeOK
  <2>. QED  BY <1>0, <1>11, <2>2, <2>3 DEF Delete, TypeOK
<1>12. CASE GiveUpRelease
  <2>. DEFINE c == call["app"].conn
  <2>1. c \in Connections /\ c \in held /\ call["app"] # NULL
    BY <1>0, <1>12, ThreadNames DEF GiveUpRelease, At, IInv, CallsSound, TypeOK
  <2>2. /\ refCount' \in [Connections -> Nat]
        /\ deleting' \in [Threads -> Connections \cup {NULL}]
        /\ deleted' = deleted
    <3>1. refCount[c] >= 1
      BY <1>0, <2>1, Referenced
    <3>. QED  BY <1>0, <1>12, <2>1, <3>1, ReleaseType, ThreadNames DEF GiveUpRelease
  <2>3. call' \in [Threads -> [conn : Connections, at : CallPCs] \cup {NULL}]
    BY <1>0, <1>12 DEF GiveUpRelease, CallReturns, TypeOK
  <2>. QED  BY <1>0, <1>12, <2>2, <2>3 DEF GiveUpRelease, TypeOK
<1>13. CASE Scan
  <2>1. PICK places \in Ascending(Unserved) :
          /\ \/ UNCHANGED <<polled, refCount>>
             \/ /\ polled' = [i \in DOMAIN places |->
                     [conn |-> connections[places[i]],
                      watched |-> Watched(connections[places[i]]),
                      examined |-> FALSE]]
                /\ refCount' = [c \in Connections |->
                     IF c \in Members([i \in DOMAIN places |-> connections[places[i]]])
                       THEN refCount[c] + 1 ELSE refCount[c]]
          /\ fault' \in {"stalePointer", "noSocket", fault}
    BY <1>13 DEF Scan, Members
  <2>2. polled' \in Seq(Entry)
    <3>1. /\ places \in Seq(Unserved)
          /\ \A i \in DOMAIN places : connections[places[i]] \in Connections
      BY <1>0, <2>1, AscendingPlaces
    <3>2. \A i \in DOMAIN places : Watched(connections[places[i]]) \in SUBSET Flags
      BY DEF Watched, Flags
    <3>3. DOMAIN places = 1..Len(places) /\ Len(places) \in Nat
      BY <3>1, LenProperties
    <3>4. ASSUME UNCHANGED polled
          PROVE  polled' \in Seq(Entry)
      BY <1>0, <3>4 DEF TypeOK
    <3>. DEFINE entry(i) == [conn |-> connections[places[i]],
                             watched |-> Watched(connections[places[i]]),
                             examined |-> FALSE]
    <3>5. \A i \in 1..Len(places) : entry(i) \in Entry
      BY <3>1, <3>2, <3>3 DEF Entry
    <3>6. [i \in 1..Len(places) |-> entry(i)] \in Seq(Entry)
      <4>. HIDE DEF entry
      <4>. QED  BY <3>3, <3>5, IsASeq
    <3>. QED  BY <2>1, <3>3, <3>4, <3>6
  <2>3. refCount' \in [Connections -> Nat]
    <3>. DEFINE found == Members([i \in DOMAIN places |-> connections[places[i]]])
    <3>1. \/ UNCHANGED refCount
          \/ refCount' = [c \in Connections |->
                            IF c \in found THEN refCount[c] + 1 ELSE refCount[c]]
      BY <2>1
    <3>2. refCount \in [Connections -> Nat]
      BY <1>0 DEF TypeOK
    <3>. HIDE DEF found
    <3>. QED  BY <3>1, <3>2
  <2>4. fault' \in {"none", "freed", "closedTwice", "stalePointer", "noSocket"}
    BY <1>0, <2>1 DEF TypeOK
  <2>5. UNCHANGED <<connVars, serviceVars, workerVars, ownerVars, deleted, deleting>>
    BY <1>13 DEF Scan
  <2>. QED  BY <1>0, <2>2, <2>3, <2>4, <2>5 DEF TypeOK
<1>14. CASE NotReady
  <2>1. polled' \in Seq(Entry)
    BY <1>0, <1>14, ExamineType DEF NotReady
  <2>. QED  BY <1>0, <1>14, <2>1 DEF NotReady, TypeOK
<1>15. CASE PollRelease
  <2>1. polled # <<>> /\ Release("net", Head(polled).conn)
    BY <1>15 DEF PollRelease
  <2>2. /\ Head(polled).conn \in Connections
        /\ Entries(Head(polled).conn) # {}
        /\ Tail(polled) \in Seq(Entry)
    BY <1>0, <2>1, HeadEntry
  <2>3. refCount[Head(polled).conn] >= 1
    BY <1>0, <2>2, Referenced
  <2>4. /\ refCount' \in [Connections -> Nat]
        /\ deleting' \in [Threads -> Connections \cup {NULL}]
        /\ deleted' = deleted
    BY <1>0, <2>1, <2>2, <2>3, ReleaseType, ThreadNames
  <2>. QED  BY <1>0, <1>15, <2>2, <2>4 DEF PollRelease, TypeOK
<1>16. ASSUME NEW flags \in SUBSET Flags, NEW w \in Workers, Signal(flags, w)
       PROVE  TypeOK'
  <2>1. polled # <<>>
    BY <1>16 DEF Signal
  <2>2. Head(polled).conn \in Connections
    BY <1>0, <2>1, HeadEntry
  <2>3. polled' \in Seq(Entry)
    BY <1>0, <1>16, ExamineType DEF Signal
  <2>4. permits' \in 0..Cardinality(Workers)
    BY SMTT(30), <1>0, <1>16, WorkerCounts DEF Signal, TypeOK
  <2>5. /\ refCount' \in [Connections -> Nat]
        /\ serviceCount' \in [Connections -> Nat]
    BY SMTT(30), <1>0, <1>16, <2>2 DEF Signal, TypeOK
  <2>6. /\ serviceFlags' \in [Connections -> SUBSET Flags]
        /\ serviceConn' \in [Workers -> Connections \cup {NULL}]
    BY <1>0, <1>16, <2>2 DEF Signal, TypeOK
  <2>. QED  BY <1>0, <1>16, <2>3, <2>4, <2>5, <2>6 DEF Signal, TypeOK
<1>17. ASSUME NEW w \in Workers, WorkerStart(w)
       PROVE  TypeOK'
  BY <1>0, <1>17, RoomForPermit DEF WorkerStart, TypeOK, WorkerPCs
<1>18. ASSUME NEW w \in Workers, WorkerTake(w)
       PROVE  TypeOK'
  <2>1. serviceConn[w] \in Connections
    BY <1>0, <1>18 DEF WorkerTake, TypeOK
  <2>. QED  BY <1>0, <1>18, <2>1 DEF WorkerTake, TypeOK, WorkerPCs
<1>19. ASSUME NEW w \in Workers, NEW flag \in {"write", "except"}, CheckConnect(w, flag)
       PROVE  TypeOK'
  <2>. DEFINE c == serviceConn[w]
  <2>1. c \in Connections
    BY <1>0, <1>19, ServingHasConn DEF CheckConnect, Serving
  <2>2. CASE Skip(w, flag)
    BY <1>0, <2>2 DEF Skip, Served, TypeOK, WorkerPCs
  <2>3. CASE /\ connState' = [connState EXCEPT ![c] = "CONNECTED"]
             /\ UNCHANGED <<sock, connections>>
             /\ CallBack(w, "connected") /\ Served(w, flag)
    <3>1. /\ workerPC' \in [Workers -> WorkerPCs]
          /\ responseRef' \in [Connections -> Nat]
          /\ told' \in [Connections -> {"nothing", "connecting", "connected",
                                        "cantConnect", "disconnected"}]
      BY <1>0, <2>1, <2>3, CallBackType DEF Events
    <3>. QED  BY <1>0, <2>1, <2>3, <3>1 DEF CallBack, Served, TypeOK, States
  <2>4. CASE /\ connState' = [connState EXCEPT ![c] = "DISCONNECTED"]
             /\ sock' = [sock EXCEPT ![c] = "none"]
             /\ connections' = Removed(c)
             /\ CallBack(w, "cantConnect") /\ Served(w, flag)
    <3>1. /\ workerPC' \in [Workers -> WorkerPCs]
          /\ responseRef' \in [Connections -> Nat]
          /\ told' \in [Connections -> {"nothing", "connecting", "connected",
                                        "cantConnect", "disconnected"}]
      BY <1>0, <2>1, <2>4, CallBackType DEF Events
    <3>2. connections' \in Seq(Connections)
      BY <1>0, <2>4, UnlinkProperties DEF Removed, TypeOK
    <3>. QED  BY <1>0, <2>1, <2>4, <3>1, <3>2 DEF CallBack, Served, TypeOK, States
  <2>. QED  BY <1>19, <2>2, <2>3, <2>4 DEF CheckConnect
<1>20. ASSUME NEW w \in Workers, DoReads(w)
       PROVE  TypeOK'
  <2>1. serviceConn[w] \in Connections
    BY <1>0, <1>20, ServingHasConn DEF DoReads, Serving
  <2>2. /\ workerPC' \in [Workers -> WorkerPCs]
        /\ responseRef' \in [Connections -> Nat]
        /\ told' \in [Connections -> {"nothing", "connecting", "connected",
                                      "cantConnect", "disconnected"}]
    BY <1>0, <1>20, <2>1, CallBackType DEF DoReads, Events
  <2>. QED  BY <1>0, <1>20, <2>2 DEF DoReads, CallBack, TypeOK
<1>21. ASSUME NEW w \in Workers, ReadsEnd(w)
       PROVE  TypeOK'
  BY <1>0, <1>21 DEF ReadsEnd, Skip, Served, TypeOK, WorkerPCs
<1>22. ASSUME NEW w \in Workers, EndOfStream(w)
       PROVE  TypeOK'
  <2>1. serviceConn[w] \in Connections
    BY <1>0, <1>22, ServingHasConn DEF EndOfStream, Serving
  <2>2. /\ workerPC' \in [Workers -> WorkerPCs]
        /\ responseRef' \in [Connections -> Nat]
        /\ told' \in [Connections -> {"nothing", "connecting", "connected",
                                      "cantConnect", "disconnected"}]
    BY <1>0, <1>22, <2>1, CallBackType DEF EndOfStream, Events
  <2>3. connections' \in Seq(Connections)
    BY <1>0, <1>22, UnlinkProperties DEF EndOfStream, Removed, TypeOK
  <2>. QED  BY <1>0, <1>22, <2>1, <2>2, <2>3
            DEF EndOfStream, CallBack, Served, TypeOK, States
<1>23. ASSUME NEW w \in Workers, DoDisconnect(w)
       PROVE  TypeOK'
  <2>1. serviceConn[w] \in Connections
    BY <1>0, <1>23, ServingHasConn DEF DoDisconnect, Serving
  <2>2. CASE HasSocket(serviceConn[w])
    <3>1. /\ workerPC' \in [Workers -> WorkerPCs]
          /\ responseRef' \in [Connections -> Nat]
          /\ told' \in [Connections -> {"nothing", "connecting", "connected",
                                        "cantConnect", "disconnected"}]
      BY <1>0, <1>23, <2>1, <2>2, CallBackType DEF DoDisconnect, Events
    <3>2. connections' \in Seq(Connections)
      BY <1>0, <1>23, <2>2, UnlinkProperties DEF DoDisconnect, Removed, TypeOK
    <3>. QED  BY <1>0, <1>23, <2>1, <2>2, <3>1, <3>2
              DEF DoDisconnect, CallBack, Served, TypeOK, States
  <2>3. CASE ~ HasSocket(serviceConn[w])
    BY <1>0, <1>23, <2>1, <2>3 DEF DoDisconnect, Served, TypeOK, States
  <2>. QED  BY <2>2, <2>3
<1>24. ASSUME NEW w \in Workers, OwnerDisconnects(w)
       PROVE  TypeOK'
  <2>1. serviceConn[w] \in Connections
    BY <1>0, <1>24, ServingHasConn DEF OwnerDisconnects
  <2>. QED  BY <1>0, <1>24, <2>1
            DEF OwnerDisconnects, Disconnected, AfterDisconnect, TypeOK, States
<1>25. ASSUME NEW w \in Workers, OwnerReleases(w)
       PROVE  TypeOK'
  <2>1. serviceConn[w] \in Connections /\ serviceConn[w] \in held
    BY <1>0, <1>25, ServingHasConn DEF OwnerReleases
  <2>2. refCount[serviceConn[w]] >= 1
    BY <1>0, <2>1, Referenced
  <2>3. /\ refCount' \in [Connections -> Nat]
        /\ deleting' \in [Threads -> Connections \cup {NULL}]
        /\ deleted' = deleted
    BY <1>0, <1>25, <2>1, <2>2, ReleaseType, ThreadNames DEF OwnerReleases
  <2>. QED  BY <1>0, <1>25, <2>3 DEF OwnerReleases, TypeOK
<1>26. ASSUME NEW w \in Workers, CallbackEnd(w)
       PROVE  TypeOK'
  <2>1. serviceConn[w] \in Connections
    BY <1>0, <1>26, ServingHasConn DEF CallbackEnd, Events
  <2>2. responseRef[serviceConn[w]] = 1
    BY <1>0, <1>26, <2>1, ServerOfItsConn DEF CallbackEnd, ServedOnce, Events
  <2>. QED  BY <1>0, <1>26, <2>1, <2>2 DEF CallbackEnd, TypeOK, WorkerPCs
<1>27. ASSUME NEW w \in Workers, WorkerLeave(w)
       PROVE  TypeOK'
  <2>. DEFINE c == serviceConn[w]
  <2>1. c \in Connections
    BY <1>0, <1>27, ServingHasConn DEF WorkerLeave
  <2>2. CASE serviceFlags[c] # {}
    <3>1. /\ todo \in [Workers -> SUBSET Flags]
          /\ serviceFlags \in [Connections -> SUBSET Flags]
      BY <1>0 DEF TypeOK
    <3>2. /\ todo' = [todo EXCEPT ![w] = serviceFlags[c]]
          /\ serviceFlags' = [serviceFlags EXCEPT ![c] = {}]
      BY <1>27, <2>2 DEF WorkerLeave
    <3>3. /\ todo' \in [Workers -> SUBSET Flags]
          /\ serviceFlags' \in [Connections -> SUBSET Flags]
      BY <2>1, <3>1, <3>2
    <3>. QED  BY <1>0, <1>27, <2>2, <3>3 DEF WorkerLeave, TypeOK
  <2>3. CASE serviceFlags[c] = {}
    <3>1. w \in Servers(c)
      BY <1>27, <2>1, ServerOfItsConn DEF WorkerLeave
    <3>2. serviceCount[c] = 1 /\ refCount[c] >= 1
      BY <1>0, <2>1, <3>1, Referenced DEF ServedOnce
    <3>3. /\ refCount' \in [Connections -> Nat]
          /\ deleting' \in [Threads -> Connections \cup {NULL}]
          /\ deleted' = deleted
      BY <1>0, <1>27, <2>1, <2>3, <3>2, ReleaseType, ThreadNames DEF WorkerLeave
    <3>4. /\ serviceCount' = [serviceCount EXCEPT ![c] = @ - 1]
          /\ workerPC' = [workerPC EXCEPT ![w] = "done"]
      BY <1>27, <2>3 DEF WorkerLeave
    <3>5. serviceCount' \in [Connections -> Nat]
      BY <1>0, <2>1, <3>2, <3>4 DEF TypeOK
    <3>6. workerPC' \in [Workers -> WorkerPCs]
      BY <1>0, <3>4 DEF TypeOK, WorkerPCs
    <3>. QED  BY <1>0, <1>27, <2>3, <3>3, <3>5, <3>6 DEF WorkerLeave, TypeOK
  <2>. QED  BY <2>2, <2>3
<1>28. ASSUME NEW w \in Workers, WorkerFree(w)
       PROVE  TypeOK'
  <2>1. serviceConn[w] \in Connections
    BY <1>0, <1>28, ServingHasConn DEF WorkerFree
  <2>2. permits + 1 \in 0..Cardinality(Workers)
    BY <1>0, <2>1, NullAssumption, RoomForPermit
  <2>. QED  BY <1>0, <1>28, <2>2 DEF WorkerFree, TypeOK, WorkerPCs
<1>. QED
  BY <1>1, <1>2, <1>3, <1>4, <1>5, <1>6, <1>7, <1>8, <1>9, <1>10, <1>11, <1>12, <1>13,
     <1>14, <1>15, <1>16, <1>17, <1>18, <1>19, <1>20, <1>21, <1>22, <1>23, <1>24,
     <1>25, <1>26, <1>27, <1>28, Actions

----------------------------------------------------------------------------
(* What the steps do to the workers.                                       *)

\* The steps in which a worker serves its connection.
Handles(w) ==
    \/ WorkerTake(w)
    \/ \E flag \in {"write", "except"} : CheckConnect(w, flag)
    \/ DoReads(w) \/ ReadsEnd(w) \/ EndOfStream(w) \/ DoDisconnect(w)
    \/ CallbackEnd(w)

\* Only these steps change what the network thread and the workers share.
LEMMA WorkerSteps ==
    ASSUME Next
    PROVE  \/ UNCHANGED <<serviceVars, workerVars>>
           \/ \E flags \in SUBSET Flags, w \in Workers : Signal(flags, w)
           \/ \E w \in Workers : \/ WorkerStart(w) \/ Handles(w)
                                 \/ WorkerLeave(w) \/ WorkerFree(w)
<1>1. ASSUME NEW c \in Connections, New(c) \/ Disconnect(c) \/ GiveUp(c)
      PROVE  UNCHANGED <<serviceVars, workerVars>>
  BY <1>1 DEF New, Disconnect, Disconnected, GiveUp
<1>2. ASSUME NEW t \in Threads, NEW c \in Connections, StartConnect(t, c)
      PROVE  UNCHANGED <<serviceVars, workerVars>>
  BY <1>2 DEF StartConnect
<1>3. ASSUME NEW t \in Threads,
             \/ StartConnectDeleted(t) \/ StartConnectClose(t) \/ StartConnectAdd(t)
             \/ StartConnectState(t) \/ StartConnectEnd(t) \/ Delete(t)
      PROVE  UNCHANGED <<serviceVars, workerVars>>
  BY <1>3 DEF StartConnectDeleted, StartConnectClose, StartConnectAdd,
              StartConnectState, StartConnectEnd, Delete
<1>4. ASSUME GiveUpRelease \/ Scan \/ NotReady \/ PollRelease
      PROVE  UNCHANGED <<serviceVars, workerVars>>
  BY <1>4 DEF GiveUpRelease, Scan, NotReady, PollRelease
<1>5. ASSUME NEW w \in Workers, OwnerDisconnects(w) \/ OwnerReleases(w)
      PROVE  UNCHANGED <<serviceVars, workerVars>>
  BY <1>5 DEF OwnerDisconnects, Disconnected, OwnerReleases
<1>. QED
  BY <1>1, <1>2, <1>3, <1>4, <1>5, Actions DEF Handles

\* A handler's step leaves everybody at the connection he serves.
LEMMA HandlersStay ==
    ASSUME TypeOK, PermitsCounted, NEW w \in Workers, Handles(w)
    PROVE  /\ serviceConn[w] \in Connections
           /\ w \in Servers(serviceConn[w])
           /\ workerPC[w] \notin {"starting", "done"}
           /\ \E pc \in WorkerPCs \ {"starting", "done"} :
                 workerPC' = [workerPC EXCEPT ![w] = pc]
           /\ UNCHANGED <<serviceConn, permits, serviceCount, polled, fault>>
           /\ UNCHANGED <<refCount, deleted, deleting, held, call, connects>>
           /\ \A v \in Workers : v # w => todo'[v] = todo[v]
           /\ \A c : Servers(c)' = Servers(c)
           /\ Busy' = Busy /\ Started' = Started
<1>. USE DEF connVars, serviceVars, workerVars, refVars, ownerVars
<1>1. workerPC[w] \notin {"starting", "done"} /\ serviceConn[w] \in Connections
  <2>1. CASE WorkerTake(w)
    BY <2>1 DEF WorkerTake, TypeOK
  <2>2. CASE ~ WorkerTake(w)
    <3>1. workerPC[w] \notin {"starting", "done", "idle"}
      BY <2>2 DEF Handles, CheckConnect, DoReads, ReadsEnd, EndOfStream, DoDisconnect,
                  CallbackEnd, Serving, Events
    <3>. QED  BY <3>1, ServingHasConn
  <2>. QED  BY <2>1, <2>2
<1>2. PICK pc \in WorkerPCs \ {"starting", "done"} :
         /\ workerPC' = [workerPC EXCEPT ![w] = pc]
         /\ UNCHANGED <<serviceConn, permits, serviceCount, polled, fault>>
         /\ UNCHANGED <<refCount, deleted, deleting, held, call, connects>>
  <2>0. workerPC = [workerPC EXCEPT ![w] = workerPC[w]] /\ workerPC[w] \in WorkerPCs
    BY DEF TypeOK
  <2>1. CASE WorkerTake(w)
    BY <2>1 DEF WorkerTake, WorkerPCs
  <2>2. ASSUME NEW flag \in {"write", "except"}, CheckConnect(w, flag)
        PROVE  \E pc \in WorkerPCs \ {"starting", "done"} :
         /\ workerPC' = [workerPC EXCEPT ![w] = pc]
         /\ UNCHANGED <<serviceConn, permits, serviceCount, polled, fault>>
         /\ UNCHANGED <<refCount, deleted, deleting, held, call, connects>>
    BY <2>2 DEF CheckConnect, Skip, CallBack, WorkerPCs, Events
  <2>3. CASE DoReads(w)
    BY <2>3 DEF DoReads, CallBack, WorkerPCs, Events
  <2>4. CASE ReadsEnd(w)
    BY <2>4 DEF ReadsEnd, Skip, WorkerPCs
  <2>5. CASE EndOfStream(w)
    BY <2>5 DEF EndOfStream, CallBack, WorkerPCs, Events
  <2>6. CASE DoDisconnect(w)
    BY <1>1, <2>0, <2>6 DEF DoDisconnect, CallBack, WorkerPCs, Events
  <2>7. CASE CallbackEnd(w)
    <3>1. CASE workerPC[w] = "ready"
      BY <2>7, <3>1 DEF CallbackEnd, WorkerPCs
    <3>2. CASE workerPC[w] # "ready"
      BY <2>7, <3>2 DEF CallbackEnd, WorkerPCs
    <3>. QED  BY <3>1, <3>2
  <2>. QED  BY <2>1, <2>2, <2>3, <2>4, <2>5, <2>6, <2>7 DEF Handles
<1>3. \A v \in Workers : v # w => todo'[v] = todo[v]
  <2>1. UNCHANGED todo \/ \E flags : todo' = [todo EXCEPT ![w] = flags]
    BY DEF Handles, WorkerTake, CheckConnect, Skip, CallBack, Served, DoReads, ReadsEnd,
           EndOfStream, DoDisconnect, CallbackEnd
  <2>. QED  BY <2>1 DEF TypeOK
<1>4. \A v \in Workers : (workerPC'[v] = "done") = (workerPC[v] = "done")
  BY <1>1, <1>2 DEF TypeOK
<1>5. \A v \in Workers : (workerPC'[v] = "starting") = (workerPC[v] = "starting")
  BY <1>1, <1>2 DEF TypeOK
<1>6. \A c : Servers(c)' = Servers(c)
  BY <1>2, <1>4 DEF Servers
<1>7. Busy' = Busy /\ Started' = Started
  BY <1>2, <1>5 DEF Busy, Started
<1>. QED  BY <1>1, <1>2, <1>6, <1>7, <1>3 DEF Servers

LEMMA PermitsStep == IInv /\ [Next]_vars => PermitsCounted'
<1>. SUFFICES ASSUME IInv, [Next]_vars
              PROVE  PermitsCounted'
  OBVIOUS
<1>0. TypeOK /\ PermitsCounted
  BY DEF IInv
<1>1. CASE UNCHANGED <<serviceVars, workerVars>>
  BY <1>0, <1>1 DEF serviceVars, workerVars, PermitsCounted, Busy, Started
<1>2. ASSUME NEW flags \in SUBSET Flags, NEW w \in Workers, Signal(flags, w)
      PROVE  PermitsCounted'
  <2>1. Head(polled).conn \in Connections
    BY <1>0, <1>2, HeadEntry DEF Signal
  <2>2. Busy' = Busy \cup {w} /\ w \notin Busy
    BY <1>0, <1>2, <2>1, NullAssumption DEF Signal, Busy, TypeOK
  <2>3. Cardinality(Busy') = Cardinality(Busy) + 1
    BY <1>0, <2>2, WorkerCounts, FS_AddElement
  <2>4. Started' = Started
    BY <1>2 DEF Signal, Started
  <2>5. permits' + Cardinality(Busy') = Cardinality(Started')
    <3>1. permits \in Nat /\ permits' = permits - 1
      BY <1>0, <1>2, WorkerCounts DEF Signal, TypeOK
    <3>. QED  BY <1>0, <2>3, <2>4, <3>1, WorkerCounts DEF PermitsCounted
  <2>6. \A v \in Workers : serviceConn'[v] = NULL => workerPC'[v] \in {"starting", "idle"}
    BY <1>0, <1>2, <2>1, NullAssumption DEF Signal, PermitsCounted, TypeOK
  <2>. QED  BY <2>5, <2>6 DEF PermitsCounted
<1>3. ASSUME NEW w \in Workers, WorkerStart(w)
      PROVE  PermitsCounted'
  <2>1. Started' = Started \cup {w} /\ w \notin Started
    BY <1>0, <1>3 DEF WorkerStart, Started, TypeOK
  <2>2. Cardinality(Started') = Cardinality(Started) + 1
    BY <1>0, <2>1, WorkerCounts, FS_AddElement
  <2>3. Busy' = Busy
    BY <1>3 DEF WorkerStart, Busy
  <2>4. permits' + Cardinality(Busy') = Cardinality(Started')
    <3>1. permits \in Nat /\ permits' = permits + 1
      BY <1>0, <1>3, WorkerCounts DEF WorkerStart, TypeOK
    <3>. QED  BY <1>0, <2>2, <2>3, <3>1, WorkerCounts DEF PermitsCounted
  <2>5. \A v \in Workers : serviceConn'[v] = NULL => workerPC'[v] \in {"starting", "idle"}
    BY <1>0, <1>3 DEF WorkerStart, PermitsCounted, TypeOK
  <2>. QED  BY <2>4, <2>5 DEF PermitsCounted
<1>4. ASSUME NEW w \in Workers, Handles(w)
      PROVE  PermitsCounted'
  <2>1. /\ Busy' = Busy /\ Started' = Started
        /\ UNCHANGED <<serviceConn, permits>>
        /\ serviceConn[w] # NULL
        /\ \E pc : workerPC' = [workerPC EXCEPT ![w] = pc]
    BY <1>0, <1>4, HandlersStay, NullAssumption
  <2>2. \A v \in Workers : serviceConn'[v] = NULL => workerPC'[v] \in {"starting", "idle"}
    BY <1>0, <2>1 DEF PermitsCounted, TypeOK
  <2>. QED  BY <1>0, <2>1, <2>2 DEF PermitsCounted
<1>5. ASSUME NEW w \in Workers, WorkerLeave(w)
      PROVE  PermitsCounted'
  <2>1. serviceConn[w] # NULL
    BY <1>0, <1>5 DEF WorkerLeave, PermitsCounted
  <2>2. /\ UNCHANGED <<serviceConn, permits>>
        /\ UNCHANGED workerPC \/ workerPC' = [workerPC EXCEPT ![w] = "done"]
        /\ workerPC[w] = "serve"
    BY <1>5 DEF WorkerLeave
  <2>3. Busy' = Busy /\ Started' = Started
    BY <1>0, <2>2 DEF Busy, Started, TypeOK
  <2>4. \A v \in Workers : serviceConn'[v] = NULL => workerPC'[v] \in {"starting", "idle"}
    BY <1>0, <2>1, <2>2 DEF PermitsCounted, TypeOK
  <2>. QED  BY <1>0, <2>2, <2>3, <2>4 DEF PermitsCounted
<1>6. ASSUME NEW w \in Workers, WorkerFree(w)
      PROVE  PermitsCounted'
  <2>1. serviceConn[w] # NULL
    BY <1>0, <1>6 DEF WorkerFree, PermitsCounted
  <2>2. Busy' = Busy \ {w} /\ w \in Busy
    BY <1>0, <1>6, <2>1 DEF WorkerFree, Busy, TypeOK
  <2>3. Cardinality(Busy') = Cardinality(Busy) - 1
    BY <1>0, <2>2, WorkerCounts, FS_RemoveElement
  <2>4. Started' = Started
    BY <1>0, <1>6 DEF WorkerFree, Started, TypeOK
  <2>5. permits' + Cardinality(Busy') = Cardinality(Started')
    <3>1. permits \in Nat /\ permits' = permits + 1
      BY <1>0, <1>6, WorkerCounts DEF WorkerFree, TypeOK
    <3>. QED  BY <1>0, <2>3, <2>4, <3>1, WorkerCounts DEF PermitsCounted
  <2>6. \A v \in Workers : serviceConn'[v] = NULL => workerPC'[v] \in {"starting", "idle"}
    BY <1>0, <1>6 DEF WorkerFree, PermitsCounted, TypeOK
  <2>. QED  BY <2>5, <2>6 DEF PermitsCounted
<1>7. UNCHANGED vars => UNCHANGED <<serviceVars, workerVars>>
  BY DEF vars
<1>. QED
  BY <1>1, <1>2, <1>3, <1>4, <1>5, <1>6, <1>7, WorkerSteps

\* A connection has one server, so what it does decides the connection's
\* counts.
LEMMA TheServer ==
    ASSUME TypeOK, ServedOnce, NEW w \in Workers, workerPC[w] # "done",
           serviceConn[w] \in Connections
    PROVE  /\ Servers(serviceConn[w]) = {w}
           /\ serviceCount[serviceConn[w]] = 1
           /\ responseRef[serviceConn[w]] = IF workerPC[w] \in Events THEN 1 ELSE 0
           /\ serviceFlags[serviceConn[w]] # {} => workerPC[w] \in {"starting", "idle"}
<1>1. w \in Servers(serviceConn[w])
  BY ServerOfItsConn
<1>2. \A v \in Servers(serviceConn[w]) : v = w
  BY <1>1 DEF ServedOnce
<1>3. Servers(serviceConn[w]) = {w}
  BY <1>1, <1>2
<1>. QED  BY <1>3 DEF ServedOnce

\* The counts of a connection follow its server's step.
LEMMA ServedByStep ==
    ASSUME TypeOK, ServedOnce, NEW w \in Workers, NEW c \in Connections,
           serviceConn[w] = c, workerPC[w] # "done",
           NEW pc, workerPC' = [workerPC EXCEPT ![w] = pc],
           \A d \in Connections : Servers(d)' = Servers(d), UNCHANGED serviceCount,
           \/ UNCHANGED responseRef /\ (pc \in Events <=> workerPC[w] \in Events)
           \/ /\ responseRef' = [responseRef EXCEPT ![c] = @ + 1]
              /\ workerPC[w] \notin Events /\ pc \in Events
           \/ /\ responseRef' = [responseRef EXCEPT ![c] = @ - 1]
              /\ workerPC[w] \in Events /\ pc \notin Events,
           \/ UNCHANGED serviceFlags /\ workerPC[w] \notin {"starting", "idle"}
           \/ serviceFlags' = [serviceFlags EXCEPT ![c] = {}]
    PROVE  ServedOnce'
<1>1. /\ Servers(c) = {w}
      /\ responseRef[c] = IF workerPC[w] \in Events THEN 1 ELSE 0
      /\ serviceFlags[c] # {} => workerPC[w] \in {"starting", "idle"}
  BY TheServer
<1>2. /\ responseRef \in [Connections -> Nat] /\ workerPC \in [Workers -> WorkerPCs]
      /\ serviceFlags \in [Connections -> SUBSET Flags]
  BY DEF TypeOK
<1>3. responseRef'[c] = IF workerPC'[w] \in Events THEN 1 ELSE 0
  BY <1>1, <1>2
<1>4. serviceFlags'[c] = {}
  BY <1>1, <1>2
<1>5. ASSUME NEW d \in Connections, d # c
      PROVE  /\ w \notin Servers(d)
             /\ responseRef'[d] = responseRef[d] /\ serviceFlags'[d] = serviceFlags[d]
             /\ \A v \in Servers(d) : v \in Workers /\ workerPC'[v] = workerPC[v]
  BY <1>2, <1>5 DEF Servers
<1>6. ASSUME NEW d \in Connections
      PROVE  /\ responseRef'[d] =
                   IF \E v \in Servers(d) : workerPC'[v] \in Events THEN 1 ELSE 0
             /\ serviceFlags'[d] # {} =>
                   \E v \in Servers(d) : workerPC'[v] \in {"starting", "idle"}
  <2>1. CASE d = c
    BY <1>1, <1>3, <1>4, <2>1
  <2>2. CASE d # c
    BY <1>5, <2>2 DEF ServedOnce
  <2>. QED  BY <2>1, <2>2
<1>. QED  BY <1>6 DEF ServedOnce

\* A connection that the network thread signals gets its only server...
LEMMA SignalServers ==
    ASSUME TypeOK, PermitsCounted, PolledOnce, NEW flags, NEW w \in Workers,
           Signal(flags, w)
    PROVE  \E c \in Connections :
              /\ c = Head(polled).conn /\ c = polled[1].conn /\ polled # <<>>
              /\ 1 \in DOMAIN polled /\ ~ polled[1].examined
              /\ workerPC[w] \in {"starting", "idle"} /\ serviceConn[w] = NULL
              /\ serviceConn' = [serviceConn EXCEPT ![w] = c]
              /\ serviceCount' = [serviceCount EXCEPT ![c] = @ + 1]
              /\ refCount' = [refCount EXCEPT ![c] = @ + 1]
              /\ serviceFlags' = [serviceFlags EXCEPT ![c] = flags]
              /\ polled' = [polled EXCEPT ![1].examined = TRUE]
              /\ UNCHANGED <<responseRef, workerPC, todo, deleted, deleting, fault>>
              /\ UNCHANGED <<connVars, ownerVars>>
              /\ Servers(c) = {} /\ Servers(c)' = {w}
              /\ \A d \in Connections : d # c => Servers(d)' = Servers(d)
<1>1. PICK c \in Connections :
         /\ c = Head(polled).conn /\ c = polled[1].conn
         /\ polled # <<>> /\ ~ polled[1].examined /\ 1 \in DOMAIN polled
  BY HeadEntry DEF Signal
<1>2. Servers(c) = {}
  BY <1>1 DEF PolledOnce
<1>3. workerPC[w] \in {"starting", "idle"} /\ serviceConn[w] = NULL
  BY DEF Signal, PermitsCounted
<1>4. /\ serviceConn' = [serviceConn EXCEPT ![w] = c]
      /\ serviceCount' = [serviceCount EXCEPT ![c] = @ + 1]
      /\ refCount' = [refCount EXCEPT ![c] = @ + 1]
      /\ serviceFlags' = [serviceFlags EXCEPT ![c] = flags]
      /\ polled' = [polled EXCEPT ![1].examined = TRUE]
      /\ UNCHANGED <<responseRef, workerPC, todo, deleted, deleting, fault>>
      /\ UNCHANGED <<connVars, ownerVars>>
  BY <1>1 DEF Signal
<1>5. Servers(c)' = {w}
  BY <1>2, <1>3, <1>4 DEF Servers, TypeOK
<1>6. \A d \in Connections : d # c => Servers(d)' = Servers(d)
  BY <1>3, <1>4, NullAssumption DEF Servers, TypeOK
<1>. QED  BY <1>1, <1>2, <1>3, <1>4, <1>5, <1>6

\* ... who leaves it when no flags are waiting.
LEMMA LeaveServers ==
    ASSUME TypeOK, PermitsCounted, ServedOnce, NEW w \in Workers, WorkerLeave(w)
    PROVE  \E c \in Connections :
              /\ c = serviceConn[w] /\ workerPC[w] = "serve" /\ todo[w] = {}
              /\ serviceCount[c] = 1 /\ responseRef[c] = 0 /\ serviceFlags[c] = {}
              /\ serviceCount' = [serviceCount EXCEPT ![c] = @ - 1]
              /\ Release(w, c)
              /\ workerPC' = [workerPC EXCEPT ![w] = "done"]
              /\ UNCHANGED <<serviceFlags, responseRef, serviceConn, todo, permits>>
              /\ UNCHANGED <<polled, fault, connVars, ownerVars>>
              /\ Servers(c) = {w} /\ Servers(c)' = {}
              /\ \A d \in Connections : d # c => Servers(d)' = Servers(d)
<1>1. PICK c \in Connections : c = serviceConn[w] /\ workerPC[w] = "serve"
  BY ServingHasConn DEF WorkerLeave
<1>2. serviceFlags[c] = {} /\ Servers(c) = {w} /\ serviceCount[c] = 1 /\ responseRef[c] = 0
  BY <1>1, TheServer DEF Events
<1>3. /\ serviceCount' = [serviceCount EXCEPT ![c] = @ - 1]
      /\ workerPC' = [workerPC EXCEPT ![w] = "done"]
      /\ Release(w, c) /\ todo[w] = {}
      /\ UNCHANGED <<serviceFlags, responseRef, serviceConn, todo, permits>>
      /\ UNCHANGED <<polled, fault, connVars, ownerVars>>
  BY <1>1, <1>2 DEF WorkerLeave
<1>4. Servers(c)' = {}
  BY <1>1, <1>2, <1>3 DEF Servers, TypeOK
<1>5. \A d \in Connections : d # c => Servers(d)' = Servers(d)
  BY <1>1, <1>3 DEF Servers, TypeOK
<1>. QED  BY <1>1, <1>2, <1>3, <1>4, <1>5

LEMMA ServedStep == IInv /\ [Next]_vars => ServedOnce'
<1>. SUFFICES ASSUME IInv, [Next]_vars
              PROVE  ServedOnce'
  OBVIOUS
<1>. USE DEF connVars, serviceVars, workerVars, refVars, ownerVars
<1>0. TypeOK /\ PermitsCounted /\ ServedOnce /\ PolledOnce
  BY DEF IInv
<1>1. CASE UNCHANGED <<serviceVars, workerVars>>
  BY <1>0, <1>1 DEF ServedOnce, Servers
<1>2. ASSUME NEW flags \in SUBSET Flags, NEW w \in Workers, Signal(flags, w)
      PROVE  ServedOnce'
  <2>1. PICK c \in Connections :
           /\ workerPC[w] \in {"starting", "idle"}
           /\ serviceCount' = [serviceCount EXCEPT ![c] = @ + 1]
           /\ serviceFlags' = [serviceFlags EXCEPT ![c] = flags]
           /\ UNCHANGED <<responseRef, workerPC>>
           /\ Servers(c) = {} /\ Servers(c)' = {w}
           /\ \A d \in Connections : d # c => Servers(d)' = Servers(d)
    BY <1>0, <1>2, SignalServers
  <2>2. serviceCount[c] = 0 /\ responseRef[c] = 0
    BY <1>0, <2>1 DEF ServedOnce
  <2>3. \A d \in Connections :
           d # c => serviceCount'[d] = serviceCount[d] /\ serviceFlags'[d] = serviceFlags[d]
    BY <1>0, <2>1 DEF TypeOK
  <2>4. serviceCount'[c] = 1
    BY <1>0, <2>1, <2>2 DEF TypeOK
  <2>5. responseRef'[c] =
            IF \E v \in Servers(c)' : workerPC'[v] \in Events THEN 1 ELSE 0
    BY <2>1, <2>2 DEF Events
  <2>6. serviceFlags'[c] # {} => \E v \in Servers(c)' : workerPC'[v] \in {"starting", "idle"}
    BY <2>1
  <2>7. ASSUME NEW d \in Connections
         PROVE  /\ \A u, v \in Servers(d)' : u = v
                /\ serviceCount'[d] = IF Servers(d)' = {} THEN 0 ELSE 1
                /\ responseRef'[d] =
                      IF \E v \in Servers(d)' : workerPC'[v] \in Events THEN 1 ELSE 0
                /\ serviceFlags'[d] # {} =>
                      \E v \in Servers(d)' : workerPC'[v] \in {"starting", "idle"}
    <3>1. CASE d = c
      BY <2>1, <2>4, <2>5, <2>6, <3>1
    <3>2. CASE d # c
      BY <1>0, <2>1, <2>3, <3>2 DEF ServedOnce
    <3>. QED  BY <3>1, <3>2
  <2>. QED  BY <2>7 DEF ServedOnce
<1>3. ASSUME NEW w \in Workers, WorkerStart(w)
      PROVE  ServedOnce'
  <2>1. /\ workerPC' = [workerPC EXCEPT ![w] = "idle"] /\ workerPC[w] = "starting"
        /\ UNCHANGED <<serviceVars, serviceConn>>
    BY <1>3 DEF WorkerStart
  <2>2. \A v \in Workers : /\ (workerPC'[v] = "done") = (workerPC[v] = "done")
                           /\ (workerPC'[v] \in Events) = (workerPC[v] \in Events)
                           /\ (workerPC'[v] \in {"starting", "idle"}) =
                                (workerPC[v] \in {"starting", "idle"})
    BY <1>0, <2>1 DEF TypeOK, Events
  <2>3. \A d \in Connections : Servers(d)' = Servers(d) /\ Servers(d) \subseteq Workers
    BY <2>1, <2>2 DEF Servers
  <2>. QED  BY <1>0, <2>1, <2>2, <2>3 DEF ServedOnce
<1>4. ASSUME NEW w \in Workers, Handles(w)
      PROVE  ServedOnce'
  <2>. DEFINE c == serviceConn[w]
  <2>1. /\ c \in Connections /\ workerPC[w] # "done"
        /\ \A d \in Connections : Servers(d)' = Servers(d)
        /\ UNCHANGED serviceCount
    BY <1>0, <1>4, HandlersStay
  <2>2. ASSUME Skip(w, "write") \/ Skip(w, "read") \/ Skip(w, "except"),
               workerPC[w] \in {"serve", "reading"}
        PROVE  ServedOnce'
    <3>1. /\ workerPC' = [workerPC EXCEPT ![w] = "serve"]
          /\ UNCHANGED <<responseRef, serviceFlags>>
      BY <2>2 DEF Skip
    <3>. QED  BY <1>0, <2>1, <2>2, <3>1, ServedByStep DEF Events
  <2>3. ASSUME NEW event \in Events, CallBack(w, event), workerPC[w] \in {"serve", "reading"}
        PROVE  ServedOnce'
    <3>1. /\ workerPC' = [workerPC EXCEPT ![w] = event]
          /\ responseRef' = [responseRef EXCEPT ![c] = @ + 1]
          /\ UNCHANGED serviceFlags
      BY <2>3 DEF CallBack
    <3>. QED  BY <1>0, <2>1, <2>3, <3>1, ServedByStep DEF Events
  <2>4. CASE WorkerTake(w)
    <3>1. /\ workerPC' = [workerPC EXCEPT ![w] = "serve"] /\ workerPC[w] = "idle"
          /\ serviceFlags' = [serviceFlags EXCEPT ![c] = {}]
          /\ UNCHANGED responseRef
      BY <2>4 DEF WorkerTake
    <3>. QED  BY <1>0, <2>1, <3>1, ServedByStep DEF Events
  <2>5. ASSUME NEW flag \in {"write", "except"}, CheckConnect(w, flag)
        PROVE  ServedOnce'
    <3>1. workerPC[w] \in {"serve", "reading"}
      BY <2>5 DEF CheckConnect, Serving
    <3>2. Skip(w, flag) \/ CallBack(w, "connected") \/ CallBack(w, "cantConnect")
      BY <2>5 DEF CheckConnect
    <3>. QED  BY <2>2, <2>3, <3>1, <3>2 DEF Events
  <2>6. CASE DoReads(w) \/ ReadsEnd(w) \/ EndOfStream(w)
    <3>1. workerPC[w] \in {"serve", "reading"}
      BY <2>6 DEF DoReads, ReadsEnd, EndOfStream, Serving
    <3>2. Skip(w, "read") \/ CallBack(w, "ready") \/ CallBack(w, "disconnected")
      BY <2>6 DEF DoReads, ReadsEnd, EndOfStream
    <3>. QED  BY <2>2, <2>3, <3>1, <3>2 DEF Events
  <2>7. CASE DoDisconnect(w)
    <3>1. workerPC[w] \in {"serve", "reading"}
      BY <2>7 DEF DoDisconnect, Serving
    <3>2. CASE HasSocket(c)
      BY <2>3, <2>7, <3>1, <3>2 DEF DoDisconnect, Events
    <3>3. CASE ~ HasSocket(c)
      BY <1>0, <2>1, <2>7, <3>3 DEF DoDisconnect, ServedOnce
    <3>. QED  BY <3>2, <3>3
  <2>8. CASE CallbackEnd(w)
    <3>1. PICK pc \in {"reading", "serve"} : workerPC' = [workerPC EXCEPT ![w] = pc]
      BY <2>8 DEF CallbackEnd
    <3>2. /\ workerPC[w] \in Events
          /\ responseRef' = [responseRef EXCEPT ![c] = @ - 1]
          /\ UNCHANGED serviceFlags
      BY <2>8 DEF CallbackEnd
    <3>. QED  BY <1>0, <2>1, <3>1, <3>2, ServedByStep DEF Events
  <2>. QED  BY <1>4, <2>4, <2>5, <2>6, <2>7, <2>8 DEF Handles
<1>5. ASSUME NEW w \in Workers, WorkerLeave(w)
      PROVE  ServedOnce'
  <2>1. PICK c \in Connections :
           /\ serviceConn[w] = c /\ serviceCount[c] = 1
           /\ responseRef[c] = 0 /\ serviceFlags[c] = {}
           /\ serviceCount' = [serviceCount EXCEPT ![c] = @ - 1]
           /\ workerPC' = [workerPC EXCEPT ![w] = "done"]
           /\ UNCHANGED <<serviceFlags, responseRef, serviceConn>>
           /\ Servers(c)' = {}
           /\ \A d \in Connections : d # c => Servers(d)' = Servers(d)
    BY <1>0, <1>5, LeaveServers
  <2>2. serviceCount'[c] = 0
    BY <1>0, <2>1 DEF TypeOK
  <2>3. ASSUME NEW d \in Connections, d # c
        PROVE  /\ serviceCount'[d] = serviceCount[d]
               /\ \A v \in Servers(d) : workerPC'[v] = workerPC[v]
    BY <1>0, <2>1, <2>3 DEF Servers, TypeOK
  <2>4. ASSUME NEW d \in Connections
        PROVE  /\ \A u, v \in Servers(d)' : u = v
               /\ serviceCount'[d] = IF Servers(d)' = {} THEN 0 ELSE 1
               /\ responseRef'[d] =
                     IF \E v \in Servers(d)' : workerPC'[v] \in Events THEN 1 ELSE 0
               /\ serviceFlags'[d] # {} =>
                     \E v \in Servers(d)' : workerPC'[v] \in {"starting", "idle"}
    <3>1. CASE d = c
      BY <2>1, <2>2, <3>1
    <3>2. CASE d # c
      BY <1>0, <2>1, <2>3, <3>2 DEF ServedOnce
    <3>. QED  BY <3>1, <3>2
  <2>. QED  BY <2>4 DEF ServedOnce
<1>6. ASSUME NEW w \in Workers, WorkerFree(w)
      PROVE  ServedOnce'
  <2>1. /\ workerPC[w] = "done" /\ workerPC' = [workerPC EXCEPT ![w] = "idle"]
        /\ serviceConn' = [serviceConn EXCEPT ![w] = NULL]
        /\ UNCHANGED serviceVars
    BY <1>6 DEF WorkerFree
  <2>2. \A d \in Connections :
           /\ Servers(d)' = Servers(d)
           /\ \A v \in Servers(d) : v # w /\ workerPC'[v] = workerPC[v]
    BY <1>0, <2>1, NullAssumption DEF Servers, TypeOK
  <2>. QED  BY <1>0, <2>1, <2>2 DEF ServedOnce
<1>7. UNCHANGED vars => UNCHANGED <<serviceVars, workerVars>>
  BY DEF vars
<1>. QED
  BY <1>1, <1>2, <1>3, <1>4, <1>5, <1>6, <1>7, WorkerSteps

----------------------------------------------------------------------------
(* References.                                                             *)

\* Only these steps change references, or who holds them.
LEMMA RefSteps ==
    ASSUME TypeOK, PermitsCounted, Next
    PROVE  \/ /\ UNCHANGED <<refVars, held, polled>>
              /\ \A d \in Connections : Servers(d)' = Servers(d)
           \/ (\E c \in Connections : New(c)) \/ (\E t \in Threads : Delete(t))
           \/ GiveUpRelease \/ Scan \/ NotReady \/ PollRelease
           \/ \E flags \in SUBSET Flags, w \in Workers : Signal(flags, w)
           \/ \E w \in Workers : OwnerReleases(w) \/ WorkerLeave(w)
<1>. DEFINE Same == UNCHANGED <<refVars, held, polled>>
                      /\ \A d \in Connections : Servers(d)' = Servers(d)
<1>. USE DEF connVars, serviceVars, workerVars, refVars, ownerVars
<1>1. ASSUME UNCHANGED <<workerPC, serviceConn>>
      PROVE  \A d \in Connections : Servers(d)' = Servers(d)
  BY <1>1 DEF Servers
<1>2. ASSUME NEW c \in Connections, Disconnect(c) \/ GiveUp(c)
      PROVE  Same
  BY <1>1, <1>2 DEF Disconnect, Disconnected, GiveUp
<1>3. ASSUME NEW t \in Threads, NEW c \in Connections, StartConnect(t, c)
      PROVE  Same
  BY <1>1, <1>3 DEF StartConnect
<1>4. ASSUME NEW t \in Threads,
             \/ StartConnectDeleted(t) \/ StartConnectClose(t) \/ StartConnectAdd(t)
             \/ StartConnectState(t) \/ StartConnectEnd(t)
      PROVE  Same
  BY <1>1, <1>4 DEF StartConnectDeleted, StartConnectClose, StartConnectAdd,
                    StartConnectState, StartConnectEnd
<1>5. ASSUME NEW w \in Workers, Handles(w)
      PROVE  Same
  BY <1>5, HandlersStay
<1>6. ASSUME NEW w \in Workers, OwnerDisconnects(w)
      PROVE  Same
  BY <1>1, <1>6 DEF OwnerDisconnects, Disconnected
<1>7. ASSUME NEW w \in Workers, WorkerStart(w)
      PROVE  Same
  <2>1. \A v \in Workers : (workerPC'[v] = "done") = (workerPC[v] = "done")
    BY <1>7 DEF WorkerStart, TypeOK
  <2>. QED  BY <1>7, <2>1 DEF WorkerStart, Servers
<1>8. ASSUME NEW w \in Workers, WorkerFree(w)
      PROVE  Same
  BY <1>8, NullAssumption DEF WorkerFree, Servers, TypeOK
<1>. QED
  BY <1>2, <1>3, <1>4, <1>5, <1>6, <1>7, <1>8, Actions DEF Handles

\* What the scan puts on the network thread's list.  Each entry is a linked
\* connection that nobody serves, so it has a socket.
LEMMA ScanResult ==
    ASSUME TypeOK, ServedOnce, Linked, Scan
    PROVE  /\ polled = <<>> /\ (fault' # "noSocket" \/ UNCHANGED fault)
           /\ \/ UNCHANGED <<polled, refCount>>
              \/ /\ \A i, j \in DOMAIN polled' :
                       polled'[i].conn = polled'[j].conn => i = j
                 /\ \A i \in DOMAIN polled' :
                       /\ ~ polled'[i].examined
                       /\ polled'[i].conn \in Connections \cap Members(connections)
                       /\ Polls(polled'[i].conn)
                       /\ Servers(polled'[i].conn) = {}
                 /\ \A c \in Connections :
                       refCount'[c] = refCount[c] + IF Entries(c)' = {} THEN 0 ELSE 1
<1>1. PICK places \in Ascending(Unserved) :
        LET found == [i \in DOMAIN places |-> connections[places[i]]]
            entry(i) == [conn |-> found[i], watched |-> Watched(found[i]),
                         examined |-> FALSE]
        IN IF \E c \in Members(found) : ~ Polls(c)
             THEN fault' = "stalePointer" /\ UNCHANGED <<polled, refCount>>
           ELSE IF \E c \in Members(found) :
                      sock[c] = "none" /\ connState[c] # "DISCONNECTING"
             THEN fault' = "noSocket" /\ UNCHANGED <<polled, refCount>>
           ELSE /\ polled' = [i \in DOMAIN found |-> entry(i)]
                /\ refCount' = [c \in Connections |->
                                  IF c \in Members(found) THEN refCount[c] + 1
                                  ELSE refCount[c]]
                /\ UNCHANGED fault
  BY DEF Scan
<1>. DEFINE found == [i \in DOMAIN places |-> connections[places[i]]]
<1>2. /\ \A i, j \in DOMAIN places : places[i] = places[j] => i = j
      /\ \A i \in DOMAIN places :
            /\ places[i] \in DOMAIN connections
            /\ connections[places[i]] \in Connections \cap Members(connections)
            /\ serviceCount[connections[places[i]]] = 0
  BY AscendingPlaces
<1>3. \A c \in Members(found) : sock[c] # "none"
  BY <1>2 DEF Members, Linked, LinkedIfOpen
<1>4. \/ fault' = "stalePointer" /\ UNCHANGED <<polled, refCount>>
      \/ /\ \A c \in Members(found) : Polls(c)
         /\ polled' = [i \in DOMAIN found |->
                         [conn |-> found[i], watched |-> Watched(found[i]),
                          examined |-> FALSE]]
         /\ refCount' = [c \in Connections |->
                           IF c \in Members(found) THEN refCount[c] + 1
                           ELSE refCount[c]]
         /\ UNCHANGED fault
  BY <1>1, <1>3
<1>5. \A i, j \in DOMAIN places : found[i] = found[j] => i = j
  BY <1>2 DEF Linked, LinkedIfOpen, NoRepeats
<1>6. \A i \in DOMAIN places :
         /\ found[i] \in Connections \cap Members(connections)
         /\ Servers(found[i]) = {}
  BY <1>2 DEF ServedOnce
<1>7. CASE fault' = "stalePointer" /\ UNCHANGED <<polled, refCount>>
  BY <1>7 DEF Scan
<1>8. CASE /\ \A c \in Members(found) : Polls(c)
           /\ polled' = [i \in DOMAIN found |->
                           [conn |-> found[i], watched |-> Watched(found[i]),
                            examined |-> FALSE]]
           /\ refCount' = [c \in Connections |->
                             IF c \in Members(found) THEN refCount[c] + 1
                             ELSE refCount[c]]
           /\ UNCHANGED fault
  <2>1. /\ DOMAIN polled' = DOMAIN places /\ DOMAIN found = DOMAIN places
        /\ \A i \in DOMAIN places : polled'[i].conn = found[i] /\ ~ polled'[i].examined
    BY <1>8
  <2>. HIDE DEF found
  <2>2. ASSUME NEW c \in Connections
        PROVE  refCount'[c] = refCount[c] + IF Entries(c)' = {} THEN 0 ELSE 1
    <3>1. c \in Members(found) <=> Entries(c)' # {}
      BY <2>1 DEF Members, Entries
    <3>2. refCount[c] \in Nat
      BY DEF TypeOK
    <3>. QED  BY <1>8, <3>1, <3>2
  <2>3. \A i \in DOMAIN places : Polls(found[i])
    BY <1>8, <2>1 DEF Members
  <2>. QED  BY <1>5, <1>6, <1>8, <2>1, <2>2, <2>3 DEF Scan
<1>. QED  BY <1>4, <1>7, <1>8

\* Examining an entry, and taking the first one off the list.
LEMMA PolledSteps ==
    ASSUME TypeOK, polled # <<>>
    PROVE  /\ polled' = [polled EXCEPT ![1].examined = TRUE] =>
                /\ \A c : Entries(c)' = Entries(c)
                /\ DOMAIN polled' = DOMAIN polled
                /\ \A i \in DOMAIN polled :
                      /\ polled'[i].conn = polled[i].conn
                      /\ polled'[i].watched = polled[i].watched
                      /\ polled'[i].examined = (i = 1 \/ polled[i].examined)
           /\ polled' = Tail(polled) =>
                /\ DOMAIN polled' \subseteq DOMAIN polled
                /\ \A i \in DOMAIN polled' :
                      /\ i \in Nat /\ i + 1 \in DOMAIN polled /\ i + 1 # 1
                      /\ polled'[i] = polled[i + 1]
                /\ PolledOnce =>
                     \A c : Entries(c)' = {} <=>
                               Entries(c) = {} \/ c = Head(polled).conn
<1>1. ASSUME polled' = [polled EXCEPT ![1].examined = TRUE]
      PROVE  /\ DOMAIN polled' = DOMAIN polled
             /\ \A i \in DOMAIN polled :
                   /\ polled'[i].conn = polled[i].conn
                   /\ polled'[i].watched = polled[i].watched
                   /\ polled'[i].examined = (i = 1 \/ polled[i].examined)
  BY <1>1, ExamineType
<1>2. ASSUME polled' = [polled EXCEPT ![1].examined = TRUE]
      PROVE  \A c : Entries(c)' = Entries(c)
  BY <1>1, <1>2 DEF Entries
<1>3. ASSUME polled' = Tail(polled)
      PROVE  /\ DOMAIN polled' = 1..(Len(polled) - 1) /\ DOMAIN polled = 1..Len(polled)
             /\ Len(polled) \in Nat
             /\ \A i \in 1..(Len(polled) - 1) : polled'[i] = polled[i + 1]
  <2>1. /\ Tail(polled) \in Seq(Entry) /\ Len(Tail(polled)) = Len(polled) - 1
        /\ \A i \in 1..(Len(polled) - 1) : Tail(polled)[i] = polled[i + 1]
        /\ polled \in Seq(Entry)
    BY HeadEntry DEF TypeOK
  <2>. QED  BY <1>3, <2>1
<1>4. ASSUME polled' = Tail(polled), PolledOnce, NEW c
      PROVE  Entries(c)' = {} <=> Entries(c) = {} \/ c = Head(polled).conn
  <2>1. Head(polled) = polled[1] /\ 1 \in DOMAIN polled
    BY HeadEntry
  <2>2. \A i \in DOMAIN polled : i # 1 => i - 1 \in DOMAIN polled' /\ polled'[i - 1] = polled[i]
    BY <1>3, <1>4
  <2>3. \A i \in DOMAIN polled' : i + 1 \in DOMAIN polled /\ i + 1 # 1 /\ polled'[i] = polled[i + 1]
    BY <1>3, <1>4
  <2>4. CASE c = Head(polled).conn
    BY <1>4, <2>1, <2>3, <2>4 DEF Entries, PolledOnce
  <2>5. CASE c # Head(polled).conn
    BY <2>1, <2>2, <2>3, <2>5 DEF Entries
  <2>. QED  BY <2>4, <2>5
<1>. QED  BY <1>1, <1>2, <1>3, <1>4

LEMMA PolledStep == IInv /\ [Next]_vars => PolledOnce'
<1>. SUFFICES ASSUME IInv, [Next]_vars
              PROVE  PolledOnce'
  OBVIOUS
<1>0. TypeOK /\ PermitsCounted /\ ServedOnce /\ PolledOnce /\ Linked
  BY DEF IInv
<1>1. ASSUME UNCHANGED polled, \A d \in Connections : Servers(d)' \subseteq Servers(d)
      PROVE  PolledOnce'
  <2>1. \A i \in DOMAIN polled : polled[i].conn \in Connections
    BY <1>0, EntryTypes
  <2>. QED  BY <1>0, <1>1, <2>1 DEF PolledOnce
<1>2. ASSUME UNCHANGED polled, UNCHANGED workerVars
      PROVE  PolledOnce'
  BY <1>1, <1>2 DEF workerVars, Servers
<1>3. ASSUME \/ \E c \in Connections : New(c)
             \/ \E t \in Threads : Delete(t)
             \/ GiveUpRelease \/ \E w \in Workers : OwnerReleases(w)
      PROVE  PolledOnce'
  BY <1>2, <1>3 DEF New, Delete, GiveUpRelease, OwnerReleases
<1>4. CASE Scan
  <2>1. \A d : Servers(d)' = Servers(d)
    BY <1>4 DEF Scan, workerVars, Servers
  <2>2. CASE UNCHANGED polled
    BY <1>1, <2>1, <2>2
  <2>. QED  BY <1>0, <1>4, <2>1, <2>2, ScanResult DEF PolledOnce
<1>5. CASE NotReady
  <2>1. \A d : Servers(d)' = Servers(d)
    BY <1>5 DEF NotReady, workerVars, Servers
  <2>2. polled # <<>> /\ polled' = [polled EXCEPT ![1].examined = TRUE]
    BY <1>5 DEF NotReady
  <2>3. /\ DOMAIN polled' = DOMAIN polled
        /\ \A i \in DOMAIN polled :
              /\ polled'[i].conn = polled[i].conn
              /\ polled'[i].examined = (i = 1 \/ polled[i].examined)
    BY <1>0, <2>2, PolledSteps
  <2>. QED  BY <1>0, <2>1, <2>3 DEF PolledOnce
<1>6. CASE PollRelease
  <2>1. \A d : Servers(d)' = Servers(d)
    BY <1>6 DEF PollRelease, workerVars, Servers
  <2>2. polled # <<>> /\ polled' = Tail(polled)
    BY <1>6 DEF PollRelease
  <2>3. \A i \in DOMAIN polled' :
           /\ i \in Nat /\ i + 1 \in DOMAIN polled /\ i + 1 # 1
           /\ polled'[i] = polled[i + 1]
    BY <1>0, <2>2, PolledSteps
  <2>4. ASSUME NEW i \in DOMAIN polled', NEW j \in DOMAIN polled',
               polled'[i].conn = polled'[j].conn
        PROVE  i = j
    <3>1. i + 1 = j + 1
      BY <1>0, <2>3, <2>4 DEF PolledOnce
    <3>. QED  BY <2>3, <3>1
  <2>5. \A i \in DOMAIN polled' : ~ polled'[i].examined /\ Servers(polled[i].conn)' = {}
    BY <1>0, <2>1, <2>3 DEF PolledOnce
  <2>. QED  BY <2>4, <2>5 DEF PolledOnce
<1>7. ASSUME NEW flags \in SUBSET Flags, NEW w \in Workers, Signal(flags, w)
      PROVE  PolledOnce'
  <2>1. PICK c \in Connections :
           c = polled[1].conn /\ serviceConn' = [serviceConn EXCEPT ![w] = c]
    BY <1>0, <1>7, HeadEntry DEF Signal
  <2>2. /\ polled # <<>> /\ polled' = [polled EXCEPT ![1].examined = TRUE]
        /\ UNCHANGED workerPC
    BY <1>7 DEF Signal
  <2>3. \A d \in Connections : d # c => Servers(d)' \subseteq Servers(d)
    BY <1>0, <2>1, <2>2 DEF Servers, TypeOK
  <2>4. /\ DOMAIN polled' = DOMAIN polled /\ 1 \in DOMAIN polled
        /\ \A i \in DOMAIN polled :
              /\ polled'[i].conn = polled[i].conn
              /\ polled'[i].examined = (i = 1 \/ polled[i].examined)
    BY <1>0, <2>2, HeadEntry, PolledSteps
  <2>5. ASSUME NEW i \in DOMAIN polled, ~ polled'[i].examined
        PROVE  Servers(polled[i].conn)' = {}
    <3>1. i # 1 /\ ~ polled[i].examined
      BY <2>4, <2>5
    <3>2. Servers(polled[i].conn) = {} /\ polled[i].conn # c
      BY <1>0, <2>1, <2>4, <3>1 DEF PolledOnce
    <3>. QED  BY <1>0, <2>3, <2>4, <3>2, EntryTypes
  <2>. QED  BY <1>0, <2>4, <2>5 DEF PolledOnce
<1>8. ASSUME NEW w \in Workers, WorkerLeave(w)
      PROVE  PolledOnce'
  <2>1. /\ UNCHANGED <<polled, serviceConn>>
        /\ UNCHANGED workerPC \/ workerPC' = [workerPC EXCEPT ![w] = "done"]
    BY <1>8 DEF WorkerLeave
  <2>2. \A d \in Connections : Servers(d)' \subseteq Servers(d)
    BY <1>0, <2>1 DEF Servers, TypeOK
  <2>. QED  BY <1>1, <2>1, <2>2
<1>9. CASE UNCHANGED vars
  BY <1>2, <1>9 DEF vars
<1>10. ASSUME UNCHANGED <<refVars, held, polled>>,
              \A d \in Connections : Servers(d)' = Servers(d)
       PROVE  PolledOnce'
  BY <1>1, <1>10
<1>. QED
  BY <1>0, <1>3, <1>4, <1>5, <1>6, <1>7, <1>8, <1>9, <1>10, RefSteps

\* A reference that is dropped was counted.
LEMMA RefsStep == IInv /\ [Next]_vars => RefsAre'
<1>. SUFFICES ASSUME IInv, [Next]_vars
              PROVE  RefsAre'
  OBVIOUS
<1>. USE DEF connVars, serviceVars, workerVars, refVars, ownerVars
<1>0. /\ TypeOK /\ PermitsCounted /\ ServedOnce /\ PolledOnce /\ RefsAre /\ Linked
      /\ UnbornUnused /\ CallsSound
  BY DEF IInv
<1>. DEFINE Refs(c) == (IF Entries(c) = {} THEN 0 ELSE 1)
                         + (IF Servers(c) = {} THEN 0 ELSE 1)
                         + (IF c \in held THEN 1 ELSE 0)
<1>a. ASSUME \A c \in Connections : Entries(c)' = Entries(c) /\ Servers(c)' = Servers(c),
             UNCHANGED <<refCount, deleted, held>>
      PROVE  RefsAre'
  BY <1>0, <1>a DEF RefsAre
<1>b. ASSUME UNCHANGED <<polled, serviceConn, workerPC>>
      PROVE  \A c \in Connections : Entries(c)' = Entries(c) /\ Servers(c)' = Servers(c)
  BY <1>b DEF Entries, Servers
<1>c. ASSUME NEW t \in Threads, NEW c \in Connections, Release(t, c),
             Refs(c)' = Refs(c) - 1, Refs(c) >= 1,
             \A d \in Connections : d # c => Refs(d)' = Refs(d)
      PROVE  RefsAre'
  <2>1. refCount[c] = Refs(c) /\ c \notin deleted
    BY <1>0, <1>c DEF RefsAre
  <2>2. refCount' = [refCount EXCEPT ![c] = @ - 1] /\ UNCHANGED deleted
    BY <1>c DEF Release
  <2>3. \A d \in Connections : d # c => refCount'[d] = refCount[d]
    BY <1>0, <2>2 DEF TypeOK
  <2>4. refCount'[c] = refCount[c] - 1
    BY <1>0, <2>2 DEF TypeOK
  <2>. HIDE DEF Refs
  <2>5. ASSUME NEW d \in Connections
        PROVE  refCount'[d] = Refs(d)' /\ (d \in deleted' => refCount'[d] = 0)
    <3>1. refCount[d] = Refs(d) /\ (d \in deleted => refCount[d] = 0)
      BY <1>0 DEF RefsAre, Refs
    <3>. QED  BY <1>c, <2>1, <2>2, <2>3, <2>4, <3>1
  <2>. QED  BY <2>5 DEF RefsAre, Refs
<1>1. CASE UNCHANGED vars
  BY <1>a, <1>b, <1>1 DEF vars
<1>2. ASSUME UNCHANGED <<refVars, held, polled>>,
             \A d \in Connections : Servers(d)' = Servers(d)
      PROVE  RefsAre'
  <2>1. \A d \in Connections : Entries(d)' = Entries(d)
    BY <1>2 DEF Entries
  <2>. QED  BY <1>a, <1>2, <2>1
<1>3. ASSUME NEW c \in Connections, New(c)
      PROVE  RefsAre'
  <2>1. /\ refCount' = [refCount EXCEPT ![c] = 1] /\ held' = held \cup {c}
        /\ UNCHANGED <<polled, serviceConn, workerPC, deleted>>
        /\ connState[c] = "unborn"
    BY <1>3 DEF New
  <2>2. refCount[c] = 0 /\ c \notin held \cup deleted
    BY <1>0, <2>1 DEF UnbornUnused
  <2>3. Entries(c) = {} /\ Servers(c) = {}
    BY <1>0, <2>2, Referenced
  <2>4. \A d \in Connections : d # c => refCount'[d] = refCount[d]
    BY <1>0, <2>1 DEF TypeOK
  <2>5. refCount'[c] = 1
    BY <1>0, <2>1 DEF TypeOK
  <2>. QED  BY <1>0, <1>b, <2>1, <2>2, <2>3, <2>4, <2>5 DEF RefsAre
<1>4. ASSUME NEW t \in Threads, Delete(t)
      PROVE  RefsAre'
  <2>1. /\ UNCHANGED <<polled, serviceConn, workerPC, refCount, held>>
        /\ \A d \in deleted' : d \in deleted \/ refCount[d] = 0
    BY <1>4 DEF Delete, StillUnreferenced
  <2>. QED  BY <1>0, <1>b, <2>1 DEF RefsAre
<1>5. CASE GiveUpRelease
  <2>1. PICK c \in Connections : c \in held /\ held' = held \ {c} /\ Release("app", c)
    BY <1>0, <1>5, ThreadNames DEF GiveUpRelease, At, CallsSound, TypeOK
  <2>2. \A d \in Connections : Entries(d)' = Entries(d) /\ Servers(d)' = Servers(d)
    BY <1>b, <1>5 DEF GiveUpRelease
  <2>3. /\ Refs(c)' = Refs(c) - 1 /\ Refs(c) >= 1
        /\ \A d \in Connections : d # c => Refs(d)' = Refs(d)
    BY <2>1, <2>2
  <2>. QED  BY <1>c, <2>1, <2>3, ThreadNames
<1>6. CASE Scan
  <2>1. polled = <<>> /\ UNCHANGED <<deleted, held, serviceConn, workerPC>>
    BY <1>6 DEF Scan
  <2>2. CASE UNCHANGED <<polled, refCount>>
    BY <1>a, <1>b, <2>1, <2>2
  <2>3. CASE ~ UNCHANGED <<polled, refCount>>
    <3>1. /\ \A c \in Connections :
                refCount'[c] = refCount[c] + IF Entries(c)' = {} THEN 0 ELSE 1
          /\ \A i \in DOMAIN polled' : polled'[i].conn \in Members(connections)
      BY <1>0, <1>6, <2>3, ScanResult
    <3>2. \A c \in Connections : Entries(c) = {} /\ Servers(c)' = Servers(c)
      BY <2>1 DEF Entries, Servers
    <3>3. \A c \in deleted : Entries(c)' = {}
      BY <1>0, <3>1 DEF Entries, Linked
    <3>. QED  BY <1>0, <2>1, <3>1, <3>2, <3>3 DEF RefsAre
  <2>. QED  BY <2>2, <2>3
<1>7. CASE NotReady
  <2>1. /\ polled # <<>> /\ polled' = [polled EXCEPT ![1].examined = TRUE]
        /\ UNCHANGED <<serviceConn, workerPC, refCount, deleted, held>>
    BY <1>7 DEF NotReady
  <2>2. \A c \in Connections : Entries(c)' = Entries(c) /\ Servers(c)' = Servers(c)
    BY <1>0, <2>1, PolledSteps DEF Servers
  <2>. QED  BY <1>a, <2>1, <2>2
<1>8. CASE PollRelease
  <2>1. PICK c \in Connections :
           /\ c = Head(polled).conn /\ Entries(c) # {} /\ polled # <<>>
           /\ Release("net", c) /\ polled' = Tail(polled)
           /\ UNCHANGED <<serviceConn, workerPC, held>>
    BY <1>0, <1>8, HeadEntry DEF PollRelease
  <2>2. \A d : Entries(d)' = {} <=> Entries(d) = {} \/ d = c
    BY <1>0, <2>1, PolledSteps
  <2>3. \A d : Servers(d)' = Servers(d)
    BY <2>1 DEF Servers
  <2>4. /\ Refs(c)' = Refs(c) - 1 /\ Refs(c) >= 1
        /\ \A d \in Connections : d # c => Refs(d)' = Refs(d)
    BY <2>1, <2>2, <2>3
  <2>. QED  BY <1>c, <2>1, <2>4, ThreadNames
<1>9. ASSUME NEW flags \in SUBSET Flags, NEW w \in Workers, Signal(flags, w)
      PROVE  RefsAre'
  <2>1. PICK c \in Connections :
           /\ c = Head(polled).conn /\ polled # <<>>
           /\ polled' = [polled EXCEPT ![1].examined = TRUE]
           /\ refCount' = [refCount EXCEPT ![c] = @ + 1]
           /\ UNCHANGED <<deleted, held>>
           /\ Servers(c) = {} /\ Servers(c)' = {w}
           /\ \A d \in Connections : d # c => Servers(d)' = Servers(d)
    BY <1>0, <1>9, SignalServers
  <2>2. \A d : Entries(d)' = Entries(d)
    BY <1>0, <2>1, PolledSteps
  <2>3. Entries(c) # {} /\ c \notin deleted
    BY <1>0, <2>1, HeadEntry, Referenced
  <2>4. \A d \in Connections : d # c => refCount'[d] = refCount[d]
    BY <1>0, <2>1 DEF TypeOK
  <2>5. refCount'[c] = refCount[c] + 1
    BY <1>0, <2>1 DEF TypeOK
  <2>6. ASSUME NEW d \in Connections
        PROVE  refCount'[d] = Refs(d)' /\ (d \in deleted' => refCount'[d] = 0)
    <3>1. CASE d = c
      BY <1>0, <2>1, <2>2, <2>3, <2>5, <3>1 DEF RefsAre
    <3>2. CASE d # c
      BY <1>0, <2>1, <2>2, <2>4, <3>2 DEF RefsAre
    <3>. QED  BY <3>1, <3>2
  <2>. QED  BY <2>6 DEF RefsAre
<1>10. ASSUME NEW w \in Workers, OwnerReleases(w)
       PROVE  RefsAre'
  <2>1. PICK c \in Connections : c \in held /\ held' = held \ {c} /\ Release(w, c)
    BY <1>0, <1>10, ServingHasConn DEF OwnerReleases
  <2>2. \A d \in Connections : Entries(d)' = Entries(d) /\ Servers(d)' = Servers(d)
    BY <1>b, <1>10 DEF OwnerReleases
  <2>3. /\ Refs(c)' = Refs(c) - 1 /\ Refs(c) >= 1
        /\ \A d \in Connections : d # c => Refs(d)' = Refs(d)
    BY <2>1, <2>2
  <2>. QED  BY <1>c, <2>1, <2>3, ThreadNames
<1>11. ASSUME NEW w \in Workers, WorkerLeave(w)
       PROVE  RefsAre'
  <2>1. PICK c \in Connections :
           /\ Release(w, c) /\ UNCHANGED <<polled, held>>
           /\ Servers(c) = {w} /\ Servers(c)' = {}
           /\ \A d \in Connections : d # c => Servers(d)' = Servers(d)
    BY <1>0, <1>11, LeaveServers
  <2>2. \A d : Entries(d)' = Entries(d)
    BY <2>1 DEF Entries
  <2>3. /\ Refs(c)' = Refs(c) - 1 /\ Refs(c) >= 1
        /\ \A d \in Connections : d # c => Refs(d)' = Refs(d)
    BY <2>1, <2>2
  <2>. QED  BY <1>c, <2>1, <2>3, ThreadNames
<1>. QED
  BY <1>0, <1>1, <1>2, <1>3, <1>4, <1>5, <1>6, <1>7, <1>8, <1>9, <1>10, <1>11, RefSteps

----------------------------------------------------------------------------
(* The list of connections and their sockets.                              *)

LEMMA UnlinkOutsider ==
    ASSUME NEW list, NEW o, o \notin Members(list)
    PROVE  Unlink(list, o) = list
BY DEF Unlink, Members

\* The steps of StartConnect after which there is no socket.
Closes(t, c) ==
    /\ call[t] # NULL /\ call[t].conn = c
    /\ StartConnectClose(t) \/ StartConnectAdd(t) \/ StartConnectEnd(t)

\* A handler closes the socket and is about to call the owner back.
BecomesStale(w, c) ==
    /\ todo[w] # {}
    /\ workerPC'[w] = "disconnected" /\ serviceConn'[w] = c

\* A connection is added to the list with its socket, and leaves it when it
\* loses the socket or is deleted.
LEMMA LinkSteps ==
    ASSUME IInv, Next
    PROVE  \/ UNCHANGED <<connections, sock, deleted>>
           \/ \E t \in Threads, c \in Connections :
                 /\ StartConnectAdd(t)
                 /\ call[t] # NULL /\ call[t].conn = c /\ call[t].at = "lock"
                 /\ c \notin deleted
                 /\ connections' = Append(connections, c) /\ c \notin Members(connections)
                 /\ sock' = [sock EXCEPT ![c] = "open"]
                 /\ UNCHANGED deleted
           \/ \E c \in Connections, s \in {"none", "stale"} :
                 /\ connections' = Unlink(connections, c)
                 /\ sock' = [sock EXCEPT ![c] = s]
                 /\ s = "stale" => \E w \in Servers(c) : BecomesStale(w, c)
                 /\ \/ \E t \in Threads : Closes(t, c)
                    \/ ~ Locked(c) /\ \E w \in Servers(c) : Handles(w)
                 /\ UNCHANGED deleted
           \/ \E t \in Threads, c \in Connections :
                 /\ deleting[t] = c
                 /\ connections' = Unlink(connections, c)
                 /\ deleted' = deleted \cup {c}
                 /\ UNCHANGED sock
<1>. USE DEF connVars, serviceVars, workerVars, refVars, ownerVars
<1>0. TypeOK /\ PermitsCounted /\ Linked /\ CallsSound /\ StaleInCallback
  BY DEF IInv
<1>. DEFINE Same == UNCHANGED <<connections, sock, deleted>>
            Loses == \E c \in Connections, s \in {"none", "stale"} :
                        /\ connections' = Unlink(connections, c)
                        /\ sock' = [sock EXCEPT ![c] = s]
                        /\ s = "stale" => \E w \in Servers(c) : BecomesStale(w, c)
                        /\ \/ \E t \in Threads : Closes(t, c)
                           \/ ~ Locked(c) /\ \E w \in Servers(c) : Handles(w)
                        /\ UNCHANGED deleted
<1>1. ASSUME NEW c \in Connections, New(c) \/ Disconnect(c) \/ GiveUp(c)
      PROVE  Same
  BY <1>1 DEF New, Disconnect, Disconnected, GiveUp
<1>2. ASSUME NEW t \in Threads,
             \/ \E c \in Connections : StartConnect(t, c)
             \/ StartConnectDeleted(t) \/ StartConnectState(t)
      PROVE  Same
  BY <1>2 DEF StartConnect, StartConnectDeleted, StartConnectState
<1>3. ASSUME GiveUpRelease \/ Scan \/ NotReady \/ PollRelease
      PROVE  Same
  BY <1>3 DEF GiveUpRelease, Scan, NotReady, PollRelease, Release
<1>4. ASSUME NEW w \in Workers,
             \/ (\E flags \in SUBSET Flags : Signal(flags, w))
             \/ WorkerStart(w) \/ WorkerTake(w) \/ DoReads(w) \/ ReadsEnd(w)
             \/ OwnerDisconnects(w) \/ OwnerReleases(w) \/ WorkerLeave(w) \/ WorkerFree(w)
      PROVE  Same
  BY <1>4 DEF Signal, WorkerStart, WorkerTake, DoReads, CallBack, ReadsEnd, Skip,
              OwnerDisconnects, Disconnected, OwnerReleases, Release, WorkerLeave, WorkerFree
<1>5. ASSUME NEW t \in Threads, StartConnectClose(t)
      PROVE  Loses
  <2>1. call[t] # NULL /\ call[t].conn \in Connections /\ call[t].conn \notin deleted
    BY <1>0, <1>5 DEF StartConnectClose, At, TypeOK
  <2>2. sock[call[t].conn] = "none" => call[t].conn \notin Members(connections)
    BY <1>0, <2>1 DEF Linked, LinkedIfOpen
  <2>3. /\ sock' = [sock EXCEPT ![call[t].conn] = "none"] /\ UNCHANGED deleted
        /\ connections' = Unlink(connections, call[t].conn)
    BY <1>5, <2>2, UnlinkOutsider DEF StartConnectClose, Removed
  <2>. QED  BY <1>5, <2>1, <2>3 DEF Closes
<1>6. ASSUME NEW t \in Threads, StartConnectAdd(t)
      PROVE  \/ Loses
             \/ \E c \in Connections :
                   /\ call[t] # NULL /\ call[t].conn = c /\ call[t].at = "lock"
                   /\ c \notin deleted
                   /\ connections' = Append(connections, c)
                   /\ c \notin Members(connections)
                   /\ sock' = [sock EXCEPT ![c] = "open"]
                   /\ UNCHANGED deleted
  <2>1. PICK c \in Connections :
           call[t] # NULL /\ call[t].conn = c /\ call[t].at = "lock" /\ c \notin deleted
    BY <1>0, <1>6 DEF StartConnectAdd, At, TypeOK
  <2>2. sock[c] = "none"
    BY <1>0, <2>1 DEF CallsSound
  <2>3. c \notin Members(connections) /\ UNCHANGED deleted
    BY <1>0, <1>6, <2>1, <2>2 DEF Linked, LinkedIfOpen, StartConnectAdd
  <2>4. CASE sock' = [sock EXCEPT ![c] = "none"] /\ UNCHANGED connections
    BY <1>6, <2>1, <2>3, <2>4, UnlinkOutsider DEF Closes
  <2>5. CASE /\ sock' = [sock EXCEPT ![c] = "open"]
             /\ connections' = Append(connections, c)
    BY <2>1, <2>3, <2>5
  <2>. QED  BY <1>6, <2>1, <2>3, <2>4, <2>5 DEF StartConnectAdd
<1>7. ASSUME NEW t \in Threads, StartConnectEnd(t)
      PROVE  Same \/ Loses
  <2>1. call[t] # NULL /\ call[t].conn \in Connections
    BY <1>0, <1>7 DEF StartConnectEnd, At, TypeOK
  <2>. QED  BY <1>7, <2>1 DEF StartConnectEnd, Removed, Closes
<1>8. ASSUME NEW t \in Threads, Delete(t)
      PROVE  \/ Same
             \/ \E c \in Connections :
                   /\ deleting[t] = c
                   /\ connections' = Unlink(connections, c)
                   /\ deleted' = deleted \cup {c}
                   /\ UNCHANGED sock
  BY <1>0, <1>8 DEF Delete, TypeOK
<1>9. ASSUME NEW w \in Workers, NEW flag \in {"write", "except"}, CheckConnect(w, flag)
      PROVE  Same \/ Loses
  <2>1. /\ serviceConn[w] \in Connections /\ ~ Locked(serviceConn[w])
        /\ w \in Servers(serviceConn[w]) /\ Handles(w)
    BY <1>0, <1>9, HandlersStay DEF Handles, CheckConnect, Serving
  <2>. QED  BY <1>9, <2>1 DEF CheckConnect, Skip, CallBack, Removed
<1>10. ASSUME NEW w \in Workers, EndOfStream(w) \/ DoDisconnect(w)
       PROVE  Same \/ Loses
  <2>1. /\ serviceConn[w] \in Connections /\ ~ Locked(serviceConn[w])
        /\ w \in Servers(serviceConn[w]) /\ Handles(w) /\ todo[w] # {}
    BY <1>0, <1>10, HandlersStay DEF Handles, EndOfStream, DoDisconnect, Serving
  <2>2. CallBack(w, "disconnected") => BecomesStale(w, serviceConn[w])
    BY <1>0, <2>1 DEF CallBack, BecomesStale, TypeOK
  <2>3. \/ UNCHANGED <<connections, sock, deleted>>
        \/ /\ sock' = [sock EXCEPT ![serviceConn[w]] = "stale"] /\ UNCHANGED deleted
           /\ connections' = Unlink(connections, serviceConn[w])
           /\ CallBack(w, "disconnected")
    BY <1>10 DEF EndOfStream, DoDisconnect, CallBack, Removed
  <2>. QED  BY <2>1, <2>2, <2>3
<1>11. ASSUME NEW w \in Workers, CallbackEnd(w), fault = "none"
       PROVE  Same \/ Loses
  <2>1. /\ serviceConn[w] \in Connections /\ ~ Locked(serviceConn[w])
        /\ w \in Servers(serviceConn[w]) /\ Handles(w)
        /\ UNCHANGED <<deleted, connections>>
    BY <1>0, <1>11, HandlersStay DEF Handles, CallbackEnd
  <2>2. CASE workerPC[w] = "disconnected"
    <3>1. sock[serviceConn[w]] = "stale"
      BY <1>0, <1>11, <2>2 DEF StaleInCallback
    <3>2. serviceConn[w] \notin Members(connections)
      BY <1>0, <2>1, <3>1 DEF Linked, LinkedIfOpen
    <3>3. sock' = [sock EXCEPT ![serviceConn[w]] = "none"]
      BY <1>11, <2>2 DEF CallbackEnd
    <3>. QED  BY <2>1, <3>2, <3>3, UnlinkOutsider
  <2>3. CASE workerPC[w] # "disconnected"
    <3>1. sock' = sock
      BY <1>0, <1>11, <2>3 DEF CallbackEnd, TypeOK
    <3>. QED  BY <2>1, <3>1
  <2>. QED  BY <2>2, <2>3
<1>12. fault = "none"
  BY Actions
<1>13. \/ Same \/ Loses
       \/ \E t \in Threads : StartConnectAdd(t) \/ Delete(t)
  <2>. HIDE DEF Same, Loses
  <2>. QED
    BY <1>1, <1>2, <1>3, <1>4, <1>5, <1>7, <1>9, <1>10, <1>11, <1>12, Actions
<1>. QED  BY <1>6, <1>8, <1>13

LEMMA LinkedStep == IInv /\ [Next]_vars => Linked'
<1>. SUFFICES ASSUME IInv, [Next]_vars
              PROVE  Linked'
  OBVIOUS
<1>0. TypeOK /\ Linked
  BY DEF IInv
<1>1. connections \in Seq(Connections) /\ NoRepeats(connections)
      /\ sock \in [Connections -> {"none", "open", "stale"}]
  BY <1>0 DEF TypeOK, Linked, LinkedIfOpen
<1>2. CASE UNCHANGED <<connections, sock, deleted>>
  BY <1>0, <1>2 DEF Linked, LinkedIfOpen
<1>3. ASSUME NEW c \in Connections, c \notin deleted, c \notin Members(connections),
             connections' = Append(connections, c),
             sock' = [sock EXCEPT ![c] = "open"], UNCHANGED deleted
      PROVE  Linked'
  <2>1. Members(connections)' = Members(connections) \cup {c} /\ NoRepeats(connections)'
    BY <1>1, <1>3, AppendMembers
  <2>. QED  BY <1>0, <1>1, <1>3, <2>1 DEF Linked, LinkedIfOpen
<1>4. ASSUME NEW c \in Connections, NEW s \in {"none", "stale"},
             connections' = Unlink(connections, c),
             sock' = [sock EXCEPT ![c] = s], UNCHANGED deleted
      PROVE  Linked'
  <2>1. Members(connections)' = Members(connections) \ {c} /\ NoRepeats(connections)'
    BY <1>1, <1>4, UnlinkProperties
  <2>. QED  BY <1>0, <1>1, <1>4, <2>1 DEF Linked, LinkedIfOpen
<1>5. ASSUME NEW c \in Connections,
             connections' = Unlink(connections, c),
             deleted' = deleted \cup {c}, UNCHANGED sock
      PROVE  Linked'
  <2>1. Members(connections)' = Members(connections) \ {c} /\ NoRepeats(connections)'
    BY <1>1, <1>5, UnlinkProperties
  <2>. QED  BY <1>0, <1>1, <1>5, <2>1 DEF Linked, LinkedIfOpen
<1>6. UNCHANGED vars => UNCHANGED <<connections, sock, deleted>>
  BY DEF vars, connVars, refVars
<1>. QED  BY <1>2, <1>3, <1>4, <1>5, <1>6, LinkSteps

----------------------------------------------------------------------------
(* What owners know.                                                       *)

\* A connection that was created stays so.
LEMMA BornStays ==
    ASSUME IInv, Next, NEW c \in Connections, connState'[c] = "unborn"
    PROVE  connState[c] = "unborn" /\ ~ New(c)
<1>. USE DEF connVars, serviceVars, workerVars, refVars, ownerVars
<1>0. TypeOK /\ PermitsCounted
  BY DEF IInv
<1>1. connState \in [Connections -> States]
  BY <1>0 DEF TypeOK
<1>. DEFINE Born == connState[c] = "unborn"
            Set(d, s) == connState' = [connState EXCEPT ![d] = s]
<1>2. ASSUME NEW d \in Connections, NEW s, Set(d, s), s = "unborn" => d = c /\ Born
      PROVE  Born
  BY <1>1, <1>2
<1>3. ASSUME UNCHANGED connState
      PROVE  Born
  BY <1>3
<1>4. ~ New(c)
  BY <1>1 DEF New
<1>5. ASSUME NEW d \in Connections, New(d)
      PROVE  Born
  BY <1>2, <1>5 DEF New
<1>6. ASSUME NEW d \in Connections,
             connState' = [connState EXCEPT ![d] = AfterDisconnect(d)]
      PROVE  Born
  BY <1>1, <1>6 DEF AfterDisconnect
<1>7. ASSUME NEW d \in Connections, Disconnect(d) \/ GiveUp(d)
      PROVE  Born
  BY <1>6, <1>7 DEF Disconnect, Disconnected, GiveUp
<1>8. ASSUME NEW t \in Threads,
             \/ \E d \in Connections : StartConnect(t, d)
             \/ StartConnectDeleted(t) \/ StartConnectClose(t) \/ Delete(t)
      PROVE  Born
  BY <1>3, <1>8 DEF StartConnect, StartConnectDeleted, StartConnectClose, Delete
<1>9. ASSUME NEW t \in Threads,
             StartConnectAdd(t) \/ StartConnectState(t) \/ StartConnectEnd(t)
      PROVE  Born
  <2>1. call[t].conn \in Connections
    BY <1>0, <1>9 DEF StartConnectAdd, StartConnectState, StartConnectEnd, At, TypeOK
  <2>2. \/ UNCHANGED connState \/ Set(call[t].conn, "ERROR")
        \/ Set(call[t].conn, "CONNECTING")
    BY <1>9 DEF StartConnectAdd, StartConnectState, StartConnectEnd
  <2>. QED  BY <1>2, <1>3, <2>1, <2>2
<1>10. ASSUME GiveUpRelease \/ Scan \/ NotReady \/ PollRelease
       PROVE  Born
  BY <1>3, <1>10 DEF GiveUpRelease, Scan, NotReady, PollRelease
<1>11. ASSUME NEW w \in Workers,
             \/ (\E flags \in SUBSET Flags : Signal(flags, w))
             \/ WorkerStart(w) \/ WorkerTake(w) \/ DoReads(w) \/ ReadsEnd(w)
             \/ OwnerReleases(w) \/ CallbackEnd(w) \/ WorkerLeave(w) \/ WorkerFree(w)
       PROVE  Born
  BY <1>3, <1>11 DEF Signal, WorkerStart, WorkerTake, DoReads, ReadsEnd, Skip,
                     OwnerReleases, CallbackEnd, WorkerLeave, WorkerFree
<1>12. ASSUME NEW w \in Workers, OwnerDisconnects(w)
       PROVE  Born
  <2>1. serviceConn[w] \in Connections
    BY <1>0, <1>12, ServingHasConn DEF OwnerDisconnects
  <2>. QED  BY <1>6, <1>12, <2>1 DEF OwnerDisconnects, Disconnected
<1>13. ASSUME NEW w \in Workers,
              \/ \E flag \in {"write", "except"} : CheckConnect(w, flag)
              \/ EndOfStream(w) \/ DoDisconnect(w)
       PROVE  Born
  <2>1. serviceConn[w] \in Connections
    BY <1>0, <1>13, HandlersStay DEF Handles
  <2>2. \/ UNCHANGED connState \/ Set(serviceConn[w], "CONNECTED")
        \/ Set(serviceConn[w], "DISCONNECTED")
    BY <1>13 DEF CheckConnect, Skip, EndOfStream, DoDisconnect
  <2>. QED  BY <1>2, <1>3, <2>1, <2>2
<1>. HIDE DEF Born
<1>14. Born
  BY <1>5, <1>7, <1>8, <1>9, <1>10, <1>11, <1>12, <1>13, Actions
<1>. QED  BY <1>4, <1>14 DEF Born

\* What an owner knows changes when it connects, and when it is called back.
LEMMA ToldSteps ==
    ASSUME TypeOK, PermitsCounted, Next
    PROVE  \/ UNCHANGED told
           \/ \E t \in Threads, c \in Connections :
                 /\ StartConnect(t, c)
                 /\ told' = [told EXCEPT ![c] = "connecting"]
           \/ \E w \in Workers, c \in Connections :
                 /\ c = serviceConn[w] /\ w \in Servers(c)
                 /\ \/ /\ \E flag \in {"write", "except"} : CheckConnect(w, flag)
                       /\ \/ told' = [told EXCEPT ![c] = "connected"]
                          \/ told' = [told EXCEPT ![c] = "cantConnect"]
                    \/ /\ EndOfStream(w) \/ (DoDisconnect(w) /\ HasSocket(c))
                       /\ told' = [told EXCEPT ![c] = "disconnected"]
<1>. USE DEF connVars, serviceVars, workerVars, refVars, ownerVars
<1>1. ASSUME NEW c \in Connections, New(c) \/ Disconnect(c) \/ GiveUp(c)
      PROVE  UNCHANGED told
  BY <1>1 DEF New, Disconnect, Disconnected, GiveUp
<1>2. ASSUME NEW t \in Threads, NEW c \in Connections, StartConnect(t, c)
      PROVE  told' = [told EXCEPT ![c] = "connecting"]
  BY <1>2 DEF StartConnect
<1>3. ASSUME NEW t \in Threads,
             \/ StartConnectDeleted(t) \/ StartConnectClose(t) \/ StartConnectAdd(t)
             \/ StartConnectState(t) \/ StartConnectEnd(t) \/ Delete(t)
      PROVE  UNCHANGED told
  BY <1>3 DEF StartConnectDeleted, StartConnectClose, StartConnectAdd,
              StartConnectState, StartConnectEnd, Delete
<1>4. ASSUME GiveUpRelease \/ Scan \/ NotReady \/ PollRelease
      PROVE  UNCHANGED told
  BY <1>4 DEF GiveUpRelease, Scan, NotReady, PollRelease
<1>5. ASSUME NEW w \in Workers,
             \/ (\E flags \in SUBSET Flags : Signal(flags, w))
             \/ WorkerStart(w) \/ WorkerTake(w) \/ ReadsEnd(w) \/ CallbackEnd(w)
             \/ OwnerDisconnects(w) \/ OwnerReleases(w) \/ WorkerLeave(w) \/ WorkerFree(w)
      PROVE  UNCHANGED told
  BY <1>5 DEF Signal, WorkerStart, WorkerTake, ReadsEnd, Skip, CallbackEnd,
              OwnerDisconnects, Disconnected, OwnerReleases, WorkerLeave, WorkerFree
<1>6. ASSUME NEW w \in Workers, DoReads(w)
      PROVE  UNCHANGED told
  BY <1>6 DEF DoReads, CallBack, TypeOK
<1>7. ASSUME NEW w \in Workers, NEW flag \in {"write", "except"}, CheckConnect(w, flag)
      PROVE  \/ UNCHANGED told
             \/ told' = [told EXCEPT ![serviceConn[w]] = "connected"]
             \/ told' = [told EXCEPT ![serviceConn[w]] = "cantConnect"]
  BY <1>7 DEF CheckConnect, Skip, CallBack
<1>8. ASSUME NEW w \in Workers, EndOfStream(w) \/ DoDisconnect(w)
      PROVE  \/ UNCHANGED told
             \/ /\ EndOfStream(w) \/ HasSocket(serviceConn[w])
                /\ told' = [told EXCEPT ![serviceConn[w]] = "disconnected"]
  BY <1>8 DEF EndOfStream, DoDisconnect, CallBack
<1>9. ASSUME NEW w \in Workers,
             \/ \E flag \in {"write", "except"} : CheckConnect(w, flag)
             \/ EndOfStream(w) \/ DoDisconnect(w)
      PROVE  serviceConn[w] \in Connections /\ w \in Servers(serviceConn[w])
  BY <1>9, HandlersStay DEF Handles
<1>. QED
  BY <1>1, <1>2, <1>3, <1>4, <1>5, <1>6, <1>7, <1>8, <1>9, Actions

LEMMA UnbornStep == IInv /\ [Next]_vars => UnbornUnused'
<1>. SUFFICES ASSUME IInv, [Next]_vars
              PROVE  UnbornUnused'
  OBVIOUS
<1>0. /\ TypeOK /\ PermitsCounted /\ ServedOnce /\ PolledOnce /\ RefsAre /\ Linked
      /\ UnbornUnused /\ CallsSound
  BY DEF IInv
<1>1. CASE UNCHANGED vars
  BY <1>0, <1>1 DEF vars, connVars, refVars, ownerVars, UnbornUnused
<1>2. CASE Next
  <2>. SUFFICES ASSUME NEW c \in Connections, connState'[c] = "unborn"
                PROVE  /\ refCount'[c] = 0 /\ c \notin held' \cup deleted'
                       /\ told'[c] = "nothing"
                       /\ \A t \in Threads : deleting'[t] # c
    BY DEF UnbornUnused
  <2>1. connState[c] = "unborn" /\ ~ New(c)
    BY <1>2, BornStays
  <2>2. /\ refCount[c] = 0 /\ c \notin held \cup deleted /\ told[c] = "nothing"
        /\ \A t \in Threads : deleting[t] # c
    BY <1>0, <2>1 DEF UnbornUnused
  <2>3. Entries(c) = {} /\ Servers(c) = {}
    BY <1>0, <2>2, Referenced
  <2>4. told'[c] = "nothing"
    BY <1>0, <1>2, <2>2, <2>3, ToldSteps DEF StartConnect, MayConnect, TypeOK
  <2>. DEFINE Unused == /\ refCount'[c] = 0 /\ c \notin held' \cup deleted'
                        /\ \A t \in Threads : deleting'[t] # c
  <2>5. ASSUME UNCHANGED refVars, UNCHANGED held
        PROVE  Unused
    BY <2>2, <2>5 DEF refVars
  <2>6. ASSUME NEW t \in Threads, NEW d \in Connections, Release(t, d), d # c,
               held' \subseteq held
        PROVE  Unused
    BY <1>0, <2>2, <2>6, NullAssumption DEF Release, TypeOK
  <2>7. ASSUME NEW d \in Connections, New(d)
        PROVE  Unused
    <3>1. d # c
      BY <2>1, <2>7
    <3>. QED  BY <1>0, <2>2, <2>7, <3>1 DEF New, TypeOK
  <2>8. ASSUME NEW t \in Threads, Delete(t)
        PROVE  Unused
    <3>1. /\ UNCHANGED <<refCount, held>> /\ deleted' \subseteq deleted \cup {deleting[t]}
          /\ deleting' = [deleting EXCEPT ![t] = NULL]
      BY <2>8 DEF Delete, ownerVars
    <3>. QED  BY <1>0, <2>2, <3>1, NullAssumption DEF TypeOK
  <2>9. ASSUME GiveUpRelease
        PROVE  Unused
    <3>1. PICK d \in Connections : d \in held /\ held' = held \ {d} /\ Release("app", d)
      BY <1>0, <2>9, ThreadNames DEF GiveUpRelease, At, CallsSound, TypeOK
    <3>. QED  BY <2>2, <2>6, <3>1, ThreadNames
  <2>10. ASSUME Scan
         PROVE  Unused
    <3>1. UNCHANGED <<held, deleted, deleting>>
      BY <2>10 DEF Scan, ownerVars
    <3>2. ASSUME UNCHANGED refCount
          PROVE  Unused
      BY <2>2, <3>1, <3>2
    <3>3. ASSUME ~ UNCHANGED refCount
          PROVE  Unused
      <4>1. /\ refCount'[c] = refCount[c] + IF Entries(c)' = {} THEN 0 ELSE 1
            /\ \A i \in DOMAIN polled' : Polls(polled'[i].conn)
        BY <1>0, <2>10, <3>3, ScanResult
      <4>2. ~ Polls(c)
        BY <2>1 DEF Polls
      <4>3. Entries(c)' = {}
        BY <4>1, <4>2 DEF Entries
      <4>. QED  BY <2>2, <3>1, <4>1, <4>3
    <3>. QED  BY <3>2, <3>3
  <2>11. ASSUME NotReady
         PROVE  Unused
    BY <2>5, <2>11 DEF NotReady, ownerVars
  <2>12. ASSUME PollRelease
         PROVE  Unused
    <3>1. /\ Head(polled).conn \in Connections /\ Entries(Head(polled).conn) # {}
          /\ Release("net", Head(polled).conn) /\ UNCHANGED held
      BY <1>0, <2>12, HeadEntry DEF PollRelease, ownerVars
    <3>. QED  BY <2>3, <2>6, <3>1, ThreadNames
  <2>13. ASSUME NEW flags \in SUBSET Flags, NEW w \in Workers, Signal(flags, w)
         PROVE  Unused
    <3>1. PICK d \in Connections :
             /\ Entries(d) # {} /\ refCount' = [refCount EXCEPT ![d] = @ + 1]
             /\ UNCHANGED <<deleted, deleting, held>>
      BY <1>0, <2>13, SignalServers, HeadEntry DEF ownerVars
    <3>2. refCount'[c] = refCount[c]
      BY <1>0, <2>3, <3>1 DEF TypeOK
    <3>. QED  BY <2>2, <3>1, <3>2
  <2>14. ASSUME NEW w \in Workers, OwnerReleases(w)
         PROVE  Unused
    <3>1. PICK d \in Connections : d \in held /\ held' = held \ {d} /\ Release(w, d)
      BY <1>0, <2>14, ServingHasConn DEF OwnerReleases
    <3>. QED  BY <2>2, <2>6, <3>1, ThreadNames
  <2>15. ASSUME NEW w \in Workers, WorkerLeave(w)
         PROVE  Unused
    <3>1. PICK d \in Connections :
             /\ Release(w, d) /\ UNCHANGED held /\ Servers(d) = {w}
      BY <1>0, <2>15, LeaveServers DEF ownerVars
    <3>. QED  BY <2>3, <2>6, <3>1, ThreadNames
  <2>16. Unused
    <3>. HIDE DEF Unused
    <3>. QED
      BY <1>0, <1>2, <2>5, <2>7, <2>8, <2>9, <2>10, <2>11, <2>12, <2>13, <2>14, <2>15,
         RefSteps
  <2>. QED  BY <2>4, <2>16
<1>. QED  BY <1>1, <1>2

\* Nothing disturbs a quiet connection but its owner.
LEMMA QuietStep ==
    ASSUME IInv, Next, NEW c \in Connections, Quiet(c),
           \A t \in Threads : StartConnectAdd(t) => call[t].conn # c
    PROVE  Quiet(c)' /\ (Unserviced(c) => Unserviced(c)')
<1>. USE DEF connVars, serviceVars, workerVars, refVars, ownerVars
<1>0. TypeOK /\ PermitsCounted /\ ServedOnce /\ PolledOnce /\ Linked
  BY DEF IInv
<1>1. /\ c \notin Members(connections)
      /\ \A i \in DOMAIN polled : polled[i].conn = c => polled[i].examined
      /\ \A w \in Servers(c) :
            workerPC[w] \in {"disconnected", "serve"} /\ todo[w] = {}
  BY DEF Quiet
<1>2. c \notin Members(connections)' /\ (sock[c] = "none" /\ Servers(c) = {} => sock'[c] = "none")
  <2>1. connections \in Seq(Connections) /\ NoRepeats(connections)
        /\ sock \in [Connections -> {"none", "open", "stale"}]
    BY <1>0 DEF TypeOK, Linked, LinkedIfOpen
  <2>2. CASE UNCHANGED <<connections, sock, deleted>>
    BY <1>1, <2>2
  <2>3. ASSUME NEW t \in Threads, NEW d \in Connections, StartConnectAdd(t),
               call[t].conn = d, connections' = Append(connections, d),
               sock' = [sock EXCEPT ![d] = "open"]
        PROVE  c \notin Members(connections)' /\ (sock[c] = "none" => sock'[c] = "none")
    <3>1. d # c
      BY <2>3
    <3>2. Members(connections)' = Members(connections) \cup {d}
      BY <2>1, <2>3, AppendMembers
    <3>. QED  BY <1>1, <2>1, <2>3, <3>1, <3>2
  <2>4. ASSUME NEW d, connections' = Unlink(connections, d)
        PROVE  c \notin Members(connections)'
    <3>1. Members(connections)' = Members(connections) \ {d}
      BY <2>1, <2>4, UnlinkProperties
    <3>. QED  BY <1>1, <3>1
  <2>5. ASSUME NEW d \in Connections, NEW s \in {"none", "stale"},
               sock' = [sock EXCEPT ![d] = s],
               s = "stale" => Servers(d) # {}
        PROVE  sock[c] = "none" /\ Servers(c) = {} => sock'[c] = "none"
    BY <2>1, <2>5
  <2>. QED  BY <2>2, <2>3, <2>4, <2>5, LinkSteps
<1>3. \A i \in DOMAIN polled' : polled'[i].conn = c => polled'[i].examined
  <2>1. CASE UNCHANGED polled
    BY <1>1, <2>1
  <2>2. ASSUME polled # <<>>, polled' = [polled EXCEPT ![1].examined = TRUE]
        PROVE  \A i \in DOMAIN polled' : polled'[i].conn = c => polled'[i].examined
    BY <1>0, <1>1, <2>2, PolledSteps
  <2>3. CASE Scan
    BY <1>0, <1>1, <2>1, <2>3, ScanResult
  <2>4. CASE PollRelease
    <3>1. polled # <<>> /\ polled' = Tail(polled)
      BY <2>4 DEF PollRelease
    <3>2. \A i \in DOMAIN polled' : i + 1 \in DOMAIN polled /\ polled'[i] = polled[i + 1]
      BY <1>0, <3>1, PolledSteps
    <3>. QED  BY <1>1, <3>2
  <2>5. CASE NotReady \/ \E flags \in SUBSET Flags, w \in Workers : Signal(flags, w)
    BY <2>2, <2>5 DEF NotReady, Signal
  <2>6. ASSUME \/ \E d \in Connections : New(d)
               \/ \E t \in Threads : Delete(t)
               \/ GiveUpRelease \/ \E w \in Workers : OwnerReleases(w) \/ WorkerLeave(w)
        PROVE  UNCHANGED polled
    BY <2>6 DEF New, Delete, GiveUpRelease, OwnerReleases, WorkerLeave
  <2>. QED  BY <1>0, <2>1, <2>3, <2>4, <2>5, <2>6, RefSteps
<1>4. /\ \A w \in Servers(c)' :
            workerPC'[w] \in {"disconnected", "serve"} /\ todo'[w] = {}
      /\ Servers(c) = {} => Servers(c)' = {}
  <2>1. ASSUME \A w \in Servers(c) : workerPC'[w] = workerPC[w] /\ todo'[w] = todo[w],
               Servers(c)' \subseteq Servers(c)
        PROVE  /\ \A w \in Servers(c)' :
                     workerPC'[w] \in {"disconnected", "serve"} /\ todo'[w] = {}
               /\ Servers(c) = {} => Servers(c)' = {}
    BY <1>1, <2>1
  <2>2. CASE UNCHANGED <<serviceVars, workerVars>>
    BY <2>1, <2>2 DEF Servers
  <2>3. ASSUME NEW flags \in SUBSET Flags, NEW w \in Workers, Signal(flags, w)
        PROVE  /\ \A v \in Servers(c) : workerPC'[v] = workerPC[v] /\ todo'[v] = todo[v]
               /\ Servers(c)' \subseteq Servers(c)
    <3>1. PICK d \in Connections :
             /\ d = polled[1].conn /\ 1 \in DOMAIN polled /\ ~ polled[1].examined
             /\ UNCHANGED <<workerPC, todo>>
             /\ \A e \in Connections : e # d => Servers(e)' = Servers(e)
      BY <1>0, <2>3, SignalServers
    <3>2. d # c
      BY <1>1, <3>1
    <3>. QED  BY <3>1, <3>2
  <2>4. ASSUME NEW w \in Workers, WorkerStart(w) \/ WorkerFree(w)
        PROVE  /\ \A v \in Servers(c) : workerPC'[v] = workerPC[v] /\ todo'[v] = todo[v]
               /\ Servers(c)' \subseteq Servers(c)
    <3>1. w \notin Servers(c)
      BY <1>1, <2>4 DEF WorkerStart, WorkerFree, Servers
    <3>2. /\ UNCHANGED todo
          /\ \A v \in Workers : v # w => /\ workerPC'[v] = workerPC[v]
                                        /\ serviceConn'[v] = serviceConn[v]
      BY <1>0, <2>4 DEF WorkerStart, WorkerFree, TypeOK
    <3>3. serviceConn'[w] # c
      BY <1>0, <2>4, <3>1, NullAssumption DEF WorkerStart, WorkerFree, Servers, TypeOK
    <3>. QED  BY <3>1, <3>2, <3>3 DEF Servers
  <2>5. ASSUME NEW w \in Workers, Handles(w)
        PROVE  /\ \A v \in Servers(c)' :
                     workerPC'[v] \in {"disconnected", "serve"} /\ todo'[v] = {}
               /\ Servers(c) = {} => Servers(c)' = {}
    <3>1. /\ \A v \in Workers : v # w => todo'[v] = todo[v] /\ workerPC'[v] = workerPC[v]
          /\ Servers(c)' = Servers(c) /\ Servers(c) \subseteq Workers
      BY SMTT(30), <1>0, <2>5, HandlersStay DEF Servers, TypeOK
    <3>2. CASE w \notin Servers(c)
      BY <2>1, <3>1, <3>2
    <3>3. CASE w \in Servers(c)
      <4>1. workerPC[w] \in {"disconnected", "serve"} /\ todo[w] = {}
        BY <1>1, <3>3
      <4>2. CallbackEnd(w) /\ workerPC[w] = "disconnected"
        BY <2>5, <4>1 DEF Handles, WorkerTake, CheckConnect, DoReads, ReadsEnd, EndOfStream,
                          DoDisconnect, CallbackEnd, Serving, Events
      <4>3. workerPC'[w] = "serve" /\ todo'[w] = {}
        BY <1>0, <4>1, <4>2 DEF CallbackEnd, TypeOK
      <4>. QED  BY <1>1, <3>1, <4>3
    <3>. QED  BY <3>2, <3>3
  <2>6. ASSUME NEW w \in Workers, WorkerLeave(w)
        PROVE  /\ \A v \in Servers(c)' : workerPC'[v] = workerPC[v] /\ todo'[v] = todo[v]
               /\ Servers(c)' \subseteq Servers(c)
    <3>1. /\ workerPC' = [workerPC EXCEPT ![w] = "done"] /\ UNCHANGED <<serviceConn, todo>>
      BY <1>0, <2>6, LeaveServers
    <3>. QED  BY <1>0, <3>1 DEF Servers, TypeOK
  <2>7. ASSUME NEW w \in Workers, WorkerLeave(w)
        PROVE  /\ \A v \in Servers(c)' :
                     workerPC'[v] \in {"disconnected", "serve"} /\ todo'[v] = {}
               /\ Servers(c) = {} => Servers(c)' = {}
    BY <1>1, <2>6, <2>7
  <2>. QED  BY <2>1, <2>2, <2>3, <2>4, <2>5, <2>7, WorkerSteps
<1>. QED  BY <1>2, <1>3, <1>4 DEF Quiet, Unserviced

LEMMA QuietIfConnectableStep == IInv /\ [Next]_vars => QuietIfConnectable'
<1>. SUFFICES ASSUME IInv, [Next]_vars
              PROVE  QuietIfConnectable'
  OBVIOUS
<1>0. /\ TypeOK /\ PermitsCounted /\ ServedOnce /\ PolledOnce /\ Linked
      /\ QuietIfConnectable /\ CallsSound
  BY DEF IInv
<1>1. CASE UNCHANGED vars
  BY <1>0, <1>1 DEF vars, connVars, serviceVars, workerVars, refVars, ownerVars,
                    QuietIfConnectable, Quiet, Unserviced, Servers
<1>2. CASE Next
  <2>. SUFFICES ASSUME NEW c \in Connections
                PROVE  /\ told'[c] = "nothing" => Quiet(c)' /\ Unserviced(c)'
                       /\ told'[c] = "disconnected" /\ c \notin Streams => Quiet(c)'
    BY DEF QuietIfConnectable
  <2>1. ASSUME told'[c] = told[c]
        PROVE  /\ told'[c] = "nothing" => Quiet(c)' /\ Unserviced(c)'
               /\ told'[c] = "disconnected" /\ c \notin Streams => Quiet(c)'
    <3>1. ASSUME NEW t \in Threads, StartConnectAdd(t)
          PROVE  told[call[t].conn] = "connecting"
      BY <1>0, <3>1 DEF StartConnectAdd, At, CallsSound
    <3>2. told[c] # "connecting" => \A t \in Threads : StartConnectAdd(t) => call[t].conn # c
      BY <3>1
    <3>3. told[c] = "nothing" => Quiet(c)' /\ Unserviced(c)'
      BY <1>0, <1>2, <3>2, QuietStep DEF QuietIfConnectable
    <3>4. told[c] = "disconnected" /\ c \notin Streams => Quiet(c)'
      BY <1>0, <1>2, <3>2, QuietStep DEF QuietIfConnectable
    <3>. QED  BY <2>1, <3>3, <3>4
  <2>2. ASSUME NEW w \in Workers, c = serviceConn[w], DoDisconnect(w), HasSocket(c)
        PROVE  Quiet(c)'
    <3>1. /\ workerPC' = [workerPC EXCEPT ![w] = "disconnected"]
          /\ todo' = [todo EXCEPT ![w] = @ \ {"disconnect"}]
          /\ connections' = Unlink(connections, c)
          /\ todo[w] \cap {"write", "read", "except"} = {}
          /\ workerPC[w] # "done"
      BY <2>2 DEF DoDisconnect, CallBack, Served, Removed, Serving
    <3>2. Servers(c) = {w} /\ Servers(c)' = Servers(c) /\ UNCHANGED polled
      BY <1>0, <2>2, <3>1, TheServer, HandlersStay DEF Handles
    <3>3. c \notin Members(connections)'
      BY <1>0, <3>1, UnlinkProperties DEF Linked, LinkedIfOpen, TypeOK
    <3>4. \A i \in DOMAIN polled' : polled'[i].conn = c => polled'[i].examined
      BY <1>0, <3>2 DEF PolledOnce
    <3>5. todo[w] \subseteq Flags
      BY <1>0 DEF TypeOK
    <3>6. workerPC'[w] = "disconnected" /\ todo'[w] = {}
      BY <1>0, <3>1, <3>5 DEF TypeOK, Flags
    <3>. QED  BY <3>2, <3>3, <3>4, <3>6 DEF Quiet
  <2>3. told \in [Connections -> {"nothing", "connecting", "connected",
                                  "cantConnect", "disconnected"}]
    BY <1>0 DEF TypeOK
  <2>4. ASSUME NEW w \in Workers, EndOfStream(w)
        PROVE  serviceConn[w] \in Streams
    BY <2>4 DEF EndOfStream
  <2>5. CASE told'[c] # told[c]
    <3>1. \/ told'[c] \in {"connecting", "connected", "cantConnect"}
          \/ \E w \in Workers : /\ c = serviceConn[w] /\ told'[c] = "disconnected"
                                /\ EndOfStream(w) \/ (DoDisconnect(w) /\ HasSocket(c))
      BY <1>0, <1>2, <2>3, <2>5, ToldSteps
    <3>. QED  BY <2>2, <2>4, <3>1
  <2>. QED  BY <2>1, <2>5
<1>. QED  BY <1>1, <1>2

----------------------------------------------------------------------------
(* Calls of StartConnect.                                                  *)

\* Thread u is in a StartConnect of connection c.
Connecting(u, c) == call[u] # NULL /\ call[u].conn = c /\ call[u].at # "release"

\* A step of a call of thread t, which is its own call.
CallStep(t) ==
    /\ \A u \in Threads : u # t => call'[u] = call[u]
    /\ \/ \E c \in Connections :
             StartConnect(t, c) /\ call'[t].conn = c /\ call'[t].at = "close"
       \/ /\ call[t] # NULL
          /\ call'[t] # NULL => call'[t].conn = call[t].conn
          /\ \/ /\ StartConnectClose(t)
                /\ call[t].at = "close" /\ call'[t].at = "lock"
             \/ /\ StartConnectAdd(t) /\ call[t].at = "lock"
                /\ call'[t] # NULL => call'[t].at = "state"
             \/ /\ StartConnectState(t)
                /\ call[t].at = "state" /\ call'[t].at = "connect"
             \/ (StartConnectEnd(t) \/ GiveUpRelease) /\ call'[t] = NULL
       \/ /\ t = "app"
          /\ \E c \in held \ Streams :
                GiveUp(c) /\ call'[t].conn = c /\ call'[t].at = "release"

LEMMA CallSteps ==
    ASSUME TypeOK, PermitsCounted, Next
    PROVE  UNCHANGED call \/ \E t \in Threads : CallStep(t)
<1>. USE DEF connVars, serviceVars, workerVars, refVars, ownerVars
<1>0. call \in [Threads -> [conn : Connections, at : CallPCs] \cup {NULL}]
  BY DEF TypeOK
<1>1. ASSUME NEW c \in Connections, New(c) \/ Disconnect(c)
      PROVE  UNCHANGED call
  BY <1>1 DEF New, Disconnect, Disconnected
<1>2. ASSUME NEW t \in Threads, StartConnectDeleted(t) \/ Delete(t)
      PROVE  UNCHANGED call
  BY <1>2 DEF StartConnectDeleted, Delete
<1>3. ASSUME Scan \/ NotReady \/ PollRelease
      PROVE  UNCHANGED call
  BY <1>3 DEF Scan, NotReady, PollRelease
<1>4. ASSUME NEW w \in Workers,
             \/ (\E flags \in SUBSET Flags : Signal(flags, w))
             \/ WorkerStart(w) \/ OwnerDisconnects(w) \/ OwnerReleases(w)
             \/ WorkerLeave(w) \/ WorkerFree(w)
      PROVE  UNCHANGED call
  BY <1>4 DEF Signal, WorkerStart, OwnerDisconnects, Disconnected, OwnerReleases,
              WorkerLeave, WorkerFree
<1>5. ASSUME NEW w \in Workers, Handles(w)
      PROVE  UNCHANGED call
  BY <1>5, HandlersStay
<1>6. ASSUME NEW t \in Threads, NEW c \in Connections, StartConnect(t, c)
      PROVE  /\ \A u \in Threads : u # t => call'[u] = call[u]
             /\ call'[t].conn = c /\ call'[t].at = "close"
  BY <1>0, <1>6 DEF StartConnect
<1>7. ASSUME NEW t \in Threads, NEW at \in CallPCs, call[t] # NULL, GoesTo(t, at)
      PROVE  /\ \A u \in Threads : u # t => call'[u] = call[u]
             /\ call'[t].conn = call[t].conn /\ call'[t].at = at
  BY <1>0, <1>7 DEF GoesTo
<1>8. ASSUME NEW t \in Threads, CallReturns(t)
      PROVE  /\ \A u \in Threads : u # t => call'[u] = call[u]
             /\ call'[t] = NULL
  BY <1>0, <1>8 DEF CallReturns
<1>9. ASSUME NEW t \in Threads, StartConnectClose(t)
      PROVE  /\ \A u \in Threads : u # t => call'[u] = call[u]
             /\ call[t] # NULL /\ call'[t].conn = call[t].conn
             /\ call[t].at = "close" /\ call'[t].at = "lock"
  BY <1>7, <1>9 DEF StartConnectClose, At, CallPCs
<1>10. ASSUME NEW t \in Threads, StartConnectAdd(t)
       PROVE  /\ \A u \in Threads : u # t => call'[u] = call[u]
              /\ call[t] # NULL /\ call[t].at = "lock"
              /\ call'[t] # NULL => call'[t].conn = call[t].conn /\ call'[t].at = "state"
  BY <1>7, <1>8, <1>10 DEF StartConnectAdd, At, CallPCs
<1>11. ASSUME NEW t \in Threads, StartConnectState(t)
       PROVE  /\ \A u \in Threads : u # t => call'[u] = call[u]
              /\ call[t] # NULL /\ call'[t].conn = call[t].conn
              /\ call[t].at = "state" /\ call'[t].at = "connect"
  BY <1>7, <1>11 DEF StartConnectState, At, CallPCs
<1>12. ASSUME NEW t \in Threads, StartConnectEnd(t)
       PROVE  /\ \A u \in Threads : u # t => call'[u] = call[u]
              /\ call[t] # NULL /\ call'[t] = NULL
  BY <1>8, <1>12 DEF StartConnectEnd, At
<1>13. ASSUME GiveUpRelease
       PROVE  /\ \A u \in Threads : u # "app" => call'[u] = call[u]
              /\ call["app"] # NULL /\ call'["app"] = NULL
  BY <1>8, <1>13, ThreadNames DEF GiveUpRelease, At
<1>14. ASSUME NEW c \in Connections, GiveUp(c)
       PROVE  /\ \A u \in Threads : u # "app" => call'[u] = call[u]
              /\ c \in held \ Streams
              /\ call'["app"].conn = c /\ call'["app"].at = "release"
  BY <1>0, <1>14, ThreadNames DEF GiveUp
<1>15. \/ UNCHANGED call
       \/ \E t \in Threads : \/ \E c \in Connections : StartConnect(t, c)
                             \/ StartConnectClose(t) \/ StartConnectAdd(t)
                             \/ StartConnectState(t) \/ StartConnectEnd(t)
       \/ GiveUpRelease \/ \E c \in Connections : GiveUp(c)
  BY <1>1, <1>2, <1>3, <1>4, <1>5, Actions DEF Handles
<1>16. CASE GiveUpRelease \/ \E c \in Connections : GiveUp(c)
  BY <1>13, <1>14, <1>16, ThreadNames DEF CallStep
<1>17. ASSUME NEW t \in Threads,
              StartConnectClose(t) \/ StartConnectState(t) \/ StartConnectEnd(t)
       PROVE  CallStep(t)
  BY <1>0, <1>9, <1>11, <1>12, <1>17 DEF CallStep
<1>18. ASSUME NEW t \in Threads,
              StartConnectAdd(t) \/ \E c \in Connections : StartConnect(t, c)
       PROVE  CallStep(t)
  BY <1>6, <1>10, <1>18 DEF CallStep
<1>. QED  BY <1>15, <1>16, <1>17, <1>18

\* A worker that connects stays in its callback.
LEMMA CallersStay ==
    ASSUME TypeOK, PermitsCounted, Next, NEW w \in Workers,
           workerPC[w] = "ready", call[w] # NULL
    PROVE  workerPC'[w] = "ready" /\ serviceConn'[w] = serviceConn[w]
<1>. USE DEF connVars, serviceVars, workerVars, refVars, ownerVars
<1>1. serviceConn[w] # NULL
  BY DEF PermitsCounted
<1>2. CASE UNCHANGED <<serviceVars, workerVars>>
  BY <1>2
<1>3. ASSUME NEW flags \in SUBSET Flags, NEW v \in Workers, Signal(flags, v)
      PROVE  workerPC'[w] = "ready" /\ serviceConn'[w] = serviceConn[w]
  BY <1>1, <1>3 DEF Signal, TypeOK
<1>4. ASSUME NEW v \in Workers, WorkerStart(v) \/ WorkerLeave(v) \/ WorkerFree(v)
      PROVE  workerPC'[w] = "ready" /\ serviceConn'[w] = serviceConn[w]
  <2>1. v # w
    BY <1>4 DEF WorkerStart, WorkerLeave, WorkerFree
  <2>. QED  BY <1>4, <2>1 DEF WorkerStart, WorkerLeave, WorkerFree, TypeOK
<1>5. ASSUME NEW v \in Workers, Handles(v)
      PROVE  workerPC'[w] = "ready" /\ serviceConn'[w] = serviceConn[w]
  <2>1. v # w
    BY <1>5 DEF Handles, WorkerTake, CheckConnect, DoReads, ReadsEnd, EndOfStream,
                DoDisconnect, CallbackEnd, Serving
  <2>2. UNCHANGED serviceConn /\ \E pc : workerPC' = [workerPC EXCEPT ![v] = pc]
    BY <1>5, HandlersStay
  <2>. QED  BY <2>1, <2>2 DEF TypeOK
<1>. QED  BY <1>2, <1>3, <1>4, <1>5, WorkerSteps

\* An owner that connects is not called back, and keeps its connection if it
\* is a stream.
LEMMA ConnectingOwner ==
    ASSUME IInv, Next, NEW t \in Threads, NEW c \in Connections, Connecting(t, c)
    PROVE  /\ told[c] = "connecting" /\ told'[c] = "connecting"
           /\ \A u \in Threads : Connecting(u, c) => u = t
           /\ \A u \in Threads : ~ StartConnect(u, c)
           /\ ~ Locked(c) => Quiet(c) /\ (c \in Streams => Unserviced(c) /\ c \in held)
<1>1. TypeOK /\ PermitsCounted /\ CallsSound
  BY DEF IInv
<1>2. /\ told[c] = "connecting"
      /\ \A u \in Threads : Connecting(u, c) => u = t
      /\ call[t].at \in {"close", "lock"} =>
           Quiet(c) /\ (c \in Streams => Unserviced(c) /\ c \in held)
  BY <1>1 DEF CallsSound, Connecting
<1>3. call[t].at \in CallPCs
  BY <1>1 DEF Connecting, TypeOK
<1>4. ~ Locked(c) => Quiet(c) /\ (c \in Streams => Unserviced(c) /\ c \in held)
  BY <1>2, <1>3 DEF Locked, Connecting, CallPCs
<1>5. \A u \in Threads : ~ StartConnect(u, c)
  BY <1>1, <1>2 DEF StartConnect, MayConnect, QuietIfConnectable, IInv, UnbornUnused
<1>6. ASSUME NEW w \in Workers, c = serviceConn[w], w \in Servers(c),
             \/ \E flag \in {"write", "except"} : CheckConnect(w, flag)
             \/ EndOfStream(w) \/ DoDisconnect(w)
      PROVE  FALSE
  <2>1. ~ Locked(c) /\ todo[w] # {}
    BY <1>6 DEF CheckConnect, EndOfStream, DoDisconnect, Serving
  <2>. QED  BY <1>4, <1>6, <2>1 DEF Quiet
<1>7. told'[c] = "connecting"
  BY <1>1, <1>2, <1>5, <1>6, ToldSteps DEF TypeOK
<1>. QED  BY <1>2, <1>4, <1>5, <1>7

LEMMA CallsStep == IInv /\ [Next]_vars => CallsSound'
<1>. SUFFICES ASSUME IInv, [Next]_vars
              PROVE  CallsSound'
  OBVIOUS
<1>. USE DEF connVars, serviceVars, workerVars, refVars, ownerVars
<1>0. /\ TypeOK /\ PermitsCounted /\ ServedOnce /\ PolledOnce /\ Linked
      /\ QuietIfConnectable /\ CallsSound
  BY DEF IInv
<1>1. CASE UNCHANGED vars
  BY <1>0, <1>1 DEF vars, CallsSound, Quiet, Unserviced, Servers
<1>2. CASE Next
  <2>1. /\ sock \in [Connections -> {"none", "open", "stale"}]
        /\ call \in [Threads -> [conn : Connections, at : CallPCs] \cup {NULL}]
    BY <1>0 DEF TypeOK
  \* Who is connecting has been before, or starts now.
  <2>2. ASSUME NEW u \in Threads, NEW c, Connecting(u, c)'
        PROVE  Connecting(u, c) \/ StartConnect(u, c)
    <3>1. CASE call'[u] = call[u]
      BY <2>2, <3>1 DEF Connecting
    <3>2. CASE call'[u] # call[u]
      <4>1. CallStep(u)
        BY <1>0, <1>2, <3>2, CallSteps DEF CallStep
      <4>2. call'[u] # NULL /\ call'[u].conn = c /\ call'[u].at # "release"
        BY <2>2 DEF Connecting
      <4>3. \/ StartConnect(u, c)
            \/ /\ call[u] # NULL /\ call[u].conn = c
               /\ call[u].at \in {"close", "lock", "state"}
        BY <4>1, <4>2 DEF CallStep
      <4>. QED  BY <4>3 DEF Connecting
    <3>. QED  BY <3>1, <3>2
  <2>3. ASSUME NEW t \in Threads, call'[t] # NULL, call'[t].at = "release"
        PROVE  t = "app" /\ call'[t].conn \in held' \ Streams
    <3>1. t = "app" /\ call'[t].conn \in held \ Streams
      <4>1. CASE call'[t] = call[t]
        BY <1>0, <2>3, <4>1 DEF CallsSound
      <4>2. CASE call'[t] # call[t]
        <5>1. CallStep(t)
          BY <1>0, <1>2, <4>2, CallSteps DEF CallStep
        <5>2. t = "app" /\ \E c \in held \ Streams : call'[t].conn = c
          BY <2>3, <5>1 DEF CallStep
        <5>. QED  BY <5>2
      <4>. QED  BY <4>1, <4>2
    <3>2. CASE held \subseteq held'
      BY <3>1, <3>2
    <3>3. CASE ~ held \subseteq held'
      <4>1. GiveUpRelease \/ \E w \in Workers : OwnerReleases(w)
        BY <1>0, <1>2, <3>3, RefSteps
           DEF New, Delete, Scan, NotReady, PollRelease, Signal, WorkerLeave
      <4>2. ~ GiveUpRelease
        BY <2>1, <2>3, <3>1, ThreadNames DEF GiveUpRelease, CallReturns
      <4>. QED  BY <3>1, <4>1, <4>2 DEF OwnerReleases
    <3>. QED  BY <3>2, <3>3
  <2>. SUFFICES ASSUME NEW t \in Threads, NEW c \in Connections, Connecting(t, c)'
                PROVE  /\ told'[c] = "connecting"
                       /\ IF c \in Streams THEN t = "app"
                          ELSE /\ t \in Workers /\ workerPC'[t] = "ready"
                               /\ serviceConn'[t] \in Streams
                       /\ \A u \in Threads : Connecting(u, c)' => u = t
                       /\ call'[t].at \in {"close", "lock"} =>
                             /\ Quiet(c)'
                             /\ c \in Streams => Unserviced(c)' /\ c \in held'
                       /\ call'[t].at = "lock" => sock'[c] = "none"
                       /\ call'[t].at \in {"state", "connect"} => sock'[c] = "open"
    <3>1. call' \in [Threads -> [conn : Connections, at : CallPCs] \cup {NULL}]
      BY <1>2, TypeStep DEF TypeOK
    <3>. QED  BY <2>3, <3>1 DEF CallsSound, Connecting
  <2>4. CASE StartConnect(t, c)
    <3>1. /\ MayConnect(c) /\ Connects(t, c)
          /\ told' = [told EXCEPT ![c] = "connecting"]
          /\ call'[t] = [conn |-> c, at |-> "close"]
          /\ UNCHANGED <<sock, held, workerPC, serviceConn>>
      BY <2>1, <2>4 DEF StartConnect
    <3>2. told[c] # "connecting" /\ c \in held
      BY <3>1 DEF MayConnect
    <3>3. \A u \in Threads : ~ Connecting(u, c)
      BY <1>2, <3>2, ConnectingOwner
    <3>4. ASSUME NEW u \in Threads, StartConnect(u, c)
          PROVE  u = t
      <4>1. /\ call' = [call EXCEPT ![u] = [conn |-> c, at |-> "close"]]
            /\ call' = [call EXCEPT ![t] = [conn |-> c, at |-> "close"]]
            /\ call'[t] # NULL
        BY <2>4, <3>4 DEF StartConnect, Connecting
      <4>2. u # t => call[u] = [conn |-> c, at |-> "close"] /\ call[u] # NULL
        BY <2>1, <4>1
      <4>3. u # t => Connecting(u, c)
        BY <4>2 DEF Connecting
      <4>. QED  BY <3>3, <4>3
    <3>5. Quiet(c) /\ (c \in Streams => Unserviced(c))
      BY <1>0, <3>1 DEF MayConnect, QuietIfConnectable
    <3>6. \A u \in Threads : StartConnectAdd(u) => call[u].conn # c
      BY <3>3 DEF StartConnectAdd, At, Connecting
    <3>7. Quiet(c)' /\ (c \in Streams => Unserviced(c)')
      BY <1>2, <3>5, <3>6, QuietStep
    <3>8. told'[c] = "connecting"
      BY <1>0, <3>1 DEF TypeOK
    <3>9. IF c \in Streams THEN t = "app"
          ELSE t \in Workers /\ workerPC'[t] = "ready" /\ serviceConn'[t] \in Streams
      BY <3>1 DEF Connects, AppConnects
    <3>10. call'[t].at = "close"
      BY <3>1
    <3>. QED  BY <2>2, <3>1, <3>2, <3>3, <3>4, <3>7, <3>8, <3>9, <3>10
  <2>5. CASE Connecting(t, c)
    <3>1. /\ told[c] = "connecting" /\ told'[c] = "connecting"
          /\ \A u \in Threads : Connecting(u, c) => u = t
          /\ \A u \in Threads : ~ StartConnect(u, c)
          /\ ~ Locked(c) => Quiet(c) /\ (c \in Streams => Unserviced(c) /\ c \in held)
      BY <1>2, <2>5, ConnectingOwner
    <3>2. IF c \in Streams THEN t = "app"
          ELSE t \in Workers /\ workerPC[t] = "ready" /\ serviceConn[t] \in Streams
      BY <1>0, <2>5 DEF CallsSound, Connecting
    <3>3. IF c \in Streams THEN t = "app"
          ELSE t \in Workers /\ workerPC'[t] = "ready" /\ serviceConn'[t] \in Streams
      BY <1>0, <1>2, <2>5, <3>2, CallersStay DEF Connecting
    <3>4. \A u \in Threads : Connecting(u, c)' => u = t
      BY <2>2, <3>1
    <3>5. /\ call[t] # NULL /\ call[t].conn = c /\ call[t].at # "release"
          /\ call'[t] # NULL /\ call'[t].conn = c /\ call'[t].at # "release"
      BY <2>5 DEF Connecting
    <3>6. ASSUME call'[t].at \in {"close", "lock"}
          PROVE  /\ call[t].at \in {"close", "lock"} /\ ~ Locked(c)
                 /\ ~ StartConnectAdd(t)
                 /\ call'[t].at = "lock" => StartConnectClose(t) \/ call[t].at = "lock"
      <4>1. \/ call'[t] = call[t] \/ CallStep(t)
        BY <1>0, <1>2, CallSteps DEF CallStep
      <4>0. CallStep(t) => StartConnectClose(t) /\ call[t].at = "close"
        BY <3>1, <3>5, <3>6 DEF CallStep
      <4>2. /\ call[t].at \in {"close", "lock"}
            /\ call'[t].at = "lock" => StartConnectClose(t) \/ call[t].at = "lock"
        BY <3>6, <4>0, <4>1
      <4>3. ~ Locked(c)
        BY <3>1, <3>5, <4>2 DEF Locked, Connecting
      <4>4. ~ StartConnectAdd(t)
        BY <2>1, <3>5, <3>6 DEF StartConnectAdd, GoesTo, CallReturns
      <4>. QED  BY <4>2, <4>3, <4>4
    <3>7. ASSUME call'[t].at \in {"close", "lock"}
          PROVE  /\ Quiet(c)' /\ (c \in Streams => Unserviced(c)' /\ c \in held')
                 /\ call'[t].at = "lock" => sock'[c] = "none"
      <4>1. \A u \in Threads : StartConnectAdd(u) => call[u].conn # c
        BY <3>1, <3>6, <3>7 DEF StartConnectAdd, At, Connecting
      <4>2. Quiet(c) /\ (c \in Streams => Unserviced(c) /\ c \in held)
        BY <3>1, <3>6, <3>7
      <4>3. Quiet(c)' /\ (c \in Streams => Unserviced(c)')
        BY <1>2, <4>1, <4>2, QuietStep
      <4>4. c \in Streams => c \in held'
        <5>1. ASSUME c \in Streams, c \notin held'
              PROVE  FALSE
          <6>1. GiveUpRelease \/ \E w \in Workers : OwnerReleases(w)
            BY <1>0, <1>2, <4>2, <5>1, RefSteps
               DEF New, Delete, Scan, NotReady, PollRelease, Signal, WorkerLeave
          <6>2. ~ GiveUpRelease
            BY <1>0, <4>2, <5>1, ThreadNames DEF GiveUpRelease, At, CallsSound
          <6>3. PICK w \in Workers : OwnerReleases(w) /\ serviceConn[w] = c
            BY <4>2, <5>1, <6>1, <6>2 DEF OwnerReleases
          <6>4. w \in Servers(c)
            BY <6>3 DEF OwnerReleases, Servers
          <6>. QED  BY <4>2, <5>1, <6>4 DEF Unserviced
        <5>. QED  BY <5>1
      <4>5. ASSUME call'[t].at = "lock"
            PROVE  sock'[c] = "none"
        <5>1. CASE StartConnectClose(t)
          BY <2>1, <3>5, <5>1 DEF StartConnectClose
        <5>2. CASE call[t].at = "lock"
          <6>1. sock[c] = "none"
            BY <1>0, <2>5, <5>2 DEF CallsSound, Connecting
          <6>2. \A w \in Servers(c) : todo[w] = {}
            BY <4>2 DEF Quiet
          <6>. QED  BY <1>2, <2>1, <4>1, <6>1, <6>2, LinkSteps DEF BecomesStale
        <5>. QED  BY <3>6, <3>7, <4>5, <5>1, <5>2
      <4>. QED  BY <4>3, <4>4, <4>5
    <3>8. ASSUME call'[t].at \in {"state", "connect"}
          PROVE  sock'[c] = "open"
      <4>1. call'[t] = call[t] \/ CallStep(t)
        BY <1>0, <1>2, CallSteps DEF CallStep
      <4>2. CASE StartConnectAdd(t)
        <5>1. sock' = [sock EXCEPT ![c] = "open"]
          BY <2>1, <3>5, <4>2 DEF StartConnectAdd, CallReturns
        <5>. QED  BY <2>1, <5>1
      <4>3. CASE ~ StartConnectAdd(t)
        <5>0. CallStep(t) => call[t].at = "state"
          BY <3>1, <3>5, <3>8, <4>3 DEF CallStep
        <5>1. call[t].at \in {"state", "connect"}
          BY <3>8, <4>1, <5>0
        <5>2. sock[c] = "open" /\ Locked(c)
          BY <1>0, <2>5, <3>5, <5>1 DEF CallsSound, Connecting, Locked
        <5>3. \A u \in Threads : ~ Closes(u, c)
          <6>. SUFFICES ASSUME NEW u \in Threads, Closes(u, c)
                        PROVE  FALSE
            OBVIOUS
          <6>1. Connecting(u, c)
            BY DEF Closes, StartConnectClose, StartConnectAdd, StartConnectEnd, At, Connecting
          <6>2. u = t
            BY <3>1, <6>1
          <6>3. StartConnectEnd(t)
            BY <5>1, <6>2, <4>3 DEF Closes, StartConnectClose, At
          <6>. QED  BY <2>1, <3>5, <6>3 DEF StartConnectEnd, CallReturns
        <5>. QED  BY <1>2, <2>1, <5>2, <5>3, LinkSteps
      <4>. QED  BY <4>2, <4>3
    <3>9. call'[t].at \in CallPCs
      BY <1>2, <3>5, TypeStep DEF TypeOK
    <3>. QED  BY <3>1, <3>3, <3>4, <3>7, <3>8
  <2>. QED  BY <2>2, <2>4, <2>5
<1>. QED  BY <1>1, <1>2

----------------------------------------------------------------------------
(* Stale sockets.                                                          *)

\* An owner hears of a disconnection from a worker that stays until it has
\* returned.
HearsOfIt(w) ==
    /\ workerPC'[w] = "disconnected" =>
         /\ serviceConn'[w] = serviceConn[w]
         /\ \/ workerPC[w] = "disconnected"
            \/ sock' = [sock EXCEPT ![serviceConn[w]] = "stale"]
    /\ workerPC[w] = "disconnected" =>
         \/ workerPC'[w] = "disconnected" /\ serviceConn'[w] = serviceConn[w]
         \/ CallbackEnd(w)

LEMMA DisconnectedSteps ==
    ASSUME TypeOK, PermitsCounted, ServedOnce, PolledOnce, Next, NEW w \in Workers
    PROVE  HearsOfIt(w)
<1>. USE DEF connVars, serviceVars, workerVars, refVars, ownerVars, HearsOfIt
<1>0. ASSUME workerPC'[w] = workerPC[w], serviceConn'[w] = serviceConn[w]
      PROVE  HearsOfIt(w)
  BY <1>0
<1>1. CASE UNCHANGED <<serviceVars, workerVars>>
  BY <1>0, <1>1
<1>2. ASSUME NEW flags \in SUBSET Flags, NEW v \in Workers, Signal(flags, v)
      PROVE  HearsOfIt(w)
  <2>1. /\ workerPC[v] \in {"starting", "idle"} /\ UNCHANGED workerPC
        /\ \E c : serviceConn' = [serviceConn EXCEPT ![v] = c]
    BY <1>2, SignalServers
  <2>. QED  BY <2>1 DEF TypeOK
<1>3. ASSUME NEW v \in Workers, WorkerStart(v) \/ WorkerLeave(v) \/ WorkerFree(v)
      PROVE  HearsOfIt(w)
  <2>1. CASE v # w
    BY <1>0, <1>3, <2>1 DEF WorkerStart, WorkerLeave, WorkerFree, TypeOK
  <2>2. CASE v = w
    BY <1>3, <2>2 DEF WorkerStart, WorkerLeave, WorkerFree, TypeOK
  <2>. QED  BY <2>1, <2>2
<1>4. ASSUME NEW v \in Workers, Handles(v), v # w
      PROVE  HearsOfIt(w)
  <2>1. UNCHANGED serviceConn /\ \E pc : workerPC' = [workerPC EXCEPT ![v] = pc]
    BY <1>4, HandlersStay
  <2>. QED  BY <1>0, <1>4, <2>1 DEF TypeOK
<1>5. CASE Handles(w)
  <2>1. UNCHANGED serviceConn
    BY <1>5, HandlersStay
  <2>2. workerPC[w] = "disconnected" => CallbackEnd(w)
    BY <1>5 DEF Handles, WorkerTake, CheckConnect, DoReads, ReadsEnd, EndOfStream,
                DoDisconnect, CallbackEnd, Serving
  <2>3. \/ workerPC'[w] # "disconnected" \/ workerPC[w] = "disconnected"
        \/ sock' = [sock EXCEPT ![serviceConn[w]] = "stale"]
    BY <1>5 DEF Handles, WorkerTake, CheckConnect, DoReads, ReadsEnd, EndOfStream,
                DoDisconnect, CallbackEnd, Skip, CallBack, TypeOK
  <2>. QED  BY <2>1, <2>2, <2>3
<1>. QED  BY <1>1, <1>2, <1>3, <1>4, <1>5, WorkerSteps

LEMMA StaleStep == IInv /\ [Next]_vars => StaleInCallback'
<1>. SUFFICES ASSUME IInv, [Next]_vars
              PROVE  StaleInCallback'
  OBVIOUS
<1>. USE DEF connVars, serviceVars, workerVars, refVars, ownerVars
<1>0. /\ TypeOK /\ PermitsCounted /\ ServedOnce /\ PolledOnce /\ Linked
      /\ CallsSound /\ StaleInCallback
  BY DEF IInv
<1>1. CASE UNCHANGED vars
  BY <1>0, <1>1 DEF vars, StaleInCallback, Servers
<1>2. CASE Next
  <2>1. sock \in [Connections -> {"none", "open", "stale"}] /\ fault = "none"
    BY <1>0, <1>2, Actions DEF TypeOK
  <2>2. ASSUME fault' = "none", NEW w \in Workers, workerPC'[w] = "disconnected"
        PROVE  sock'[serviceConn'[w]] = "stale"
    <3>1. PICK c \in Connections : serviceConn[w] = c /\ serviceConn'[w] = c
      <4>1. serviceConn[w] \in Connections
        BY ZenonT(40), <1>0, <1>2, <2>2, DisconnectedSteps, ServingHasConn, TypeStep, PermitsStep,
           NullAssumption DEF TypeOK, PermitsCounted, HearsOfIt
      <4>. QED  BY <1>0, <1>2, <2>2, <4>1, DisconnectedSteps DEF HearsOfIt
    <3>2. CASE sock' = [sock EXCEPT ![c] = "stale"]
      BY <2>1, <3>1, <3>2
    <3>3. CASE workerPC[w] = "disconnected"
      <4>1. sock[c] = "stale" /\ w \in Servers(c)
        BY <1>0, <2>1, <3>1, <3>3 DEF StaleInCallback, Servers
      <4>2. \A t \in Threads : StartConnectAdd(t) => call[t].conn # c
        BY <1>0, <4>1 DEF StartConnectAdd, At, CallsSound
      <4>3. \A t \in Threads : ~ Closes(t, c)
        BY <1>0, <2>2, <4>1, <4>2
           DEF Closes, StartConnectClose, StartConnectEnd, At, CallsSound
      <4>4. \A v \in Servers(c) : v = w
        BY <1>0, <4>1 DEF ServedOnce
      <4>5. Handles(w) => CallbackEnd(w)
        BY <3>3 DEF Handles, WorkerTake, CheckConnect, DoReads, ReadsEnd, EndOfStream,
                    DoDisconnect, CallbackEnd, Serving
      <4>6. ~ CallbackEnd(w)
        BY <1>0, <2>2, <3>3 DEF CallbackEnd, TypeOK
      <4>. QED  BY <1>2, <2>1, <3>1, <4>1, <4>2, <4>3, <4>4, <4>5, <4>6, LinkSteps
    <3>. QED  BY <1>0, <1>2, <2>2, <3>1, <3>2, <3>3, DisconnectedSteps DEF HearsOfIt
  <2>3. ASSUME NEW c \in Connections, sock'[c] = "stale"
        PROVE  \E w \in Servers(c)' : workerPC'[w] = "disconnected"
    <3>1. ASSUME NEW w \in Workers, workerPC'[w] = "disconnected", serviceConn'[w] = c
          PROVE  \E v \in Servers(c)' : workerPC'[v] = "disconnected"
      BY <3>1 DEF Servers
    <3>2. CASE sock[c] = "stale"
      <4>1. PICK w \in Servers(c) : workerPC[w] = "disconnected"
        BY <1>0, <3>2 DEF StaleInCallback
      <4>2. w \in Workers /\ serviceConn[w] = c
        BY DEF Servers
      <4>3. ~ CallbackEnd(w)
        BY <2>1, <2>3, <4>1, <4>2 DEF CallbackEnd
      <4>. QED  BY <1>0, <1>2, <3>1, <4>1, <4>2, <4>3, DisconnectedSteps DEF HearsOfIt
    <3>3. CASE sock[c] # "stale"
      <4>1. \E w \in Servers(c) : BecomesStale(w, c)
        BY <1>2, <2>1, <2>3, <3>3, LinkSteps
      <4>. QED  BY <3>1, <4>1 DEF BecomesStale, Servers
    <3>. QED  BY <3>2, <3>3
  <2>. QED  BY <2>2, <2>3 DEF StaleInCallback
<1>. QED  BY <1>1, <1>2

----------------------------------------------------------------------------
(* Deletions.                                                              *)

\* Only the scan finds a linked connection without a socket.
LEMMA FaultSteps ==
    ASSUME TypeOK, PermitsCounted, ServedOnce, Linked, Next
    PROVE  fault' # "noSocket"
<1>. USE DEF connVars, serviceVars, workerVars, refVars, ownerVars
<1>1. ASSUME NEW c \in Connections, New(c) \/ Disconnect(c) \/ GiveUp(c)
      PROVE  UNCHANGED fault
  BY <1>1 DEF New, Disconnect, Disconnected, GiveUp
<1>2. ASSUME NEW t \in Threads,
             \/ \E c \in Connections : StartConnect(t, c)
             \/ StartConnectAdd(t) \/ StartConnectState(t) \/ StartConnectEnd(t)
      PROVE  UNCHANGED fault
  BY <1>2 DEF StartConnect, StartConnectAdd, StartConnectState, StartConnectEnd
<1>3. ASSUME NEW t \in Threads, StartConnectClose(t) \/ StartConnectDeleted(t) \/ Delete(t)
      PROVE  fault' \in {fault, "closedTwice", "freed"}
  BY <1>3 DEF StartConnectClose, StartConnectDeleted, Delete
<1>4. ASSUME GiveUpRelease \/ NotReady \/ PollRelease
      PROVE  UNCHANGED fault
  BY <1>4 DEF GiveUpRelease, NotReady, PollRelease
<1>5. ASSUME NEW w \in Workers,
             \/ (\E flags \in SUBSET Flags : Signal(flags, w))
             \/ WorkerStart(w) \/ OwnerDisconnects(w) \/ OwnerReleases(w)
             \/ WorkerLeave(w) \/ WorkerFree(w)
      PROVE  UNCHANGED fault
  BY <1>5 DEF Signal, WorkerStart, OwnerDisconnects, Disconnected, OwnerReleases,
              WorkerLeave, WorkerFree
<1>6. ASSUME NEW w \in Workers, Handles(w)
      PROVE  UNCHANGED fault
  BY <1>6, HandlersStay
<1>7. CASE Scan
  BY <1>7, ScanResult, Actions
<1>8. fault = "none"
  BY Actions
<1>. QED
  BY <1>1, <1>2, <1>3, <1>4, <1>5, <1>6, <1>7, <1>8, Actions DEF Handles

\* Only its constructor changes the state of a connection nobody knows.
LEMMA UnbornStays ==
    ASSUME TypeOK, PermitsCounted, Next, NEW c \in Connections,
           connState[c] = "unborn", ~ New(c), Servers(c) = {},
           \A t \in Threads : ~ Connecting(t, c)
    PROVE  connState'[c] = "unborn"
<1>. USE DEF connVars, serviceVars, workerVars, refVars, ownerVars
<1>1. connState \in [Connections -> States]
  BY DEF TypeOK
<1>. DEFINE Unborn == connState'[c] = "unborn"
            Set(d, s) == connState' = [connState EXCEPT ![d] = s]
<1>2. ASSUME NEW d \in Connections, NEW s, Set(d, s), d # c
      PROVE  Unborn
  BY <1>1, <1>2
<1>3. ASSUME UNCHANGED connState
      PROVE  Unborn
  BY <1>3
<1>4. ASSUME NEW d \in Connections, New(d)
      PROVE  Unborn
  BY <1>2, <1>4 DEF New
<1>5. ASSUME NEW d \in Connections,
             connState' = [connState EXCEPT ![d] = AfterDisconnect(d)]
      PROVE  Unborn
  BY <1>1, <1>5 DEF AfterDisconnect
<1>6. ASSUME NEW d \in Connections, Disconnect(d) \/ GiveUp(d)
      PROVE  Unborn
  BY <1>5, <1>6 DEF Disconnect, Disconnected, GiveUp
<1>7. ASSUME NEW t \in Threads,
             \/ \E d \in Connections : StartConnect(t, d)
             \/ StartConnectDeleted(t) \/ StartConnectClose(t) \/ Delete(t)
      PROVE  Unborn
  BY <1>3, <1>7 DEF StartConnect, StartConnectDeleted, StartConnectClose, Delete
<1>8. ASSUME NEW t \in Threads,
             StartConnectAdd(t) \/ StartConnectState(t) \/ StartConnectEnd(t)
      PROVE  Unborn
  <2>1. Connecting(t, call[t].conn) /\ call[t].conn \in Connections
    BY <1>8 DEF StartConnectAdd, StartConnectState, StartConnectEnd, At, Connecting, TypeOK
  <2>2. call[t].conn # c
    BY <2>1
  <2>3. \/ UNCHANGED connState \/ Set(call[t].conn, "ERROR")
        \/ Set(call[t].conn, "CONNECTING")
    BY <1>8 DEF StartConnectAdd, StartConnectState, StartConnectEnd
  <2>. QED  BY <1>2, <1>3, <2>1, <2>2, <2>3
<1>9. ASSUME GiveUpRelease \/ Scan \/ NotReady \/ PollRelease
      PROVE  Unborn
  BY <1>3, <1>9 DEF GiveUpRelease, Scan, NotReady, PollRelease
<1>10. ASSUME NEW w \in Workers,
              \/ (\E flags \in SUBSET Flags : Signal(flags, w))
              \/ WorkerStart(w) \/ WorkerTake(w) \/ DoReads(w) \/ ReadsEnd(w)
              \/ OwnerReleases(w) \/ CallbackEnd(w) \/ WorkerLeave(w) \/ WorkerFree(w)
       PROVE  Unborn
  BY <1>3, <1>10 DEF Signal, WorkerStart, WorkerTake, DoReads, ReadsEnd, Skip,
                     OwnerReleases, CallbackEnd, WorkerLeave, WorkerFree
<1>11. ASSUME NEW w \in Workers, OwnerDisconnects(w)
       PROVE  Unborn
  <2>1. serviceConn[w] \in Connections
    BY <1>11, ServingHasConn DEF OwnerDisconnects
  <2>. QED  BY <1>5, <1>11, <2>1 DEF OwnerDisconnects, Disconnected
<1>12. ASSUME NEW w \in Workers,
              \/ \E flag \in {"write", "except"} : CheckConnect(w, flag)
              \/ EndOfStream(w) \/ DoDisconnect(w)
       PROVE  Unborn
  <2>1. serviceConn[w] \in Connections /\ w \in Servers(serviceConn[w])
    BY <1>12, HandlersStay DEF Handles
  <2>2. serviceConn[w] # c
    BY <2>1
  <2>3. \/ UNCHANGED connState \/ Set(serviceConn[w], "CONNECTED")
        \/ Set(serviceConn[w], "DISCONNECTED")
    BY <1>12 DEF CheckConnect, Skip, EndOfStream, DoDisconnect
  <2>. QED  BY <1>2, <1>3, <2>1, <2>2, <2>3
<1>. HIDE DEF Unborn
<1>13. Unborn
  BY <1>4, <1>6, <1>7, <1>8, <1>9, <1>10, <1>11, <1>12, Actions
<1>. QED  BY <1>13 DEF Unborn

LEMMA StreamsStep == IInv /\ [Next]_vars => StreamsReleased'
<1>. SUFFICES ASSUME IInv, [Next]_vars
              PROVE  StreamsReleased'
  OBVIOUS
<1>. USE DEF connVars, serviceVars, workerVars, refVars, ownerVars
<1>0. /\ TypeOK /\ PermitsCounted /\ ServedOnce /\ PolledOnce /\ RefsAre /\ Linked
      /\ UnbornUnused /\ CallsSound /\ StaleInCallback /\ StreamsReleased
  BY DEF IInv
<1>1. CASE UNCHANGED vars
  BY <1>0, <1>1 DEF vars, StreamsReleased
<1>2. CASE Next
  <2>0. /\ NULL \notin Streams /\ fault = "none"
        /\ refCount \in [Connections -> Nat]
        /\ deleting \in [Threads -> Connections \cup {NULL}]
    BY <1>0, <1>2, NullAssumption, StreamsAssumption, Actions DEF TypeOK
  <2>1. ASSUME NEW c \in Streams, connState'[c] # "unborn", c \notin held'
        PROVE  c \notin Members(connections)'
    <3>0. c \in Connections
      BY StreamsAssumption
    <3>1. c \notin Members(connections)
      <4>1. CASE c \in held
        <5>1. GiveUpRelease \/ \E w \in Workers : OwnerReleases(w)
          BY <1>0, <1>2, <2>1, <4>1, RefSteps
             DEF New, Delete, Scan, NotReady, PollRelease, Signal, WorkerLeave
        <5>2. ~ GiveUpRelease
          BY <1>0, <2>1, <4>1, ThreadNames DEF GiveUpRelease, At, CallsSound
        <5>3. PICK w \in Workers : OwnerReleases(w) /\ serviceConn[w] = c
          BY <2>1, <4>1, <5>1, <5>2 DEF OwnerReleases
        <5>4. sock[c] = "stale"
          BY <1>0, <2>0, <5>3 DEF OwnerReleases, StaleInCallback
        <5>. QED  BY <1>0, <3>0, <5>4 DEF Linked, LinkedIfOpen
      <4>2. CASE c \notin held
        <5>1. connState[c] # "unborn"
          <6>1. ASSUME connState[c] = "unborn"
                PROVE  FALSE
            <7>1. c \notin held /\ told[c] = "nothing" /\ Entries(c) = {} /\ Servers(c) = {}
              BY <1>0, <3>0, <6>1, Referenced DEF UnbornUnused
            <7>2. ~ New(c)
              BY <2>1 DEF New
            <7>3. \A t \in Threads : ~ Connecting(t, c)
              BY <1>2, <3>0, <7>1, ConnectingOwner
            <7>4. connState'[c] = "unborn"
              BY <1>0, <1>2, <3>0, <6>1, <7>1, <7>2, <7>3, UnbornStays
            <7>. QED  BY <2>1, <7>4
          <6>. QED  BY <6>1
        <5>. QED  BY <1>0, <4>2, <5>1 DEF StreamsReleased
      <4>. QED  BY <4>1, <4>2
    <3>2. ASSUME NEW t \in Threads, StartConnectAdd(t)
          PROVE  call[t].conn # c
      <4>1. call[t].conn = c => c \in held /\ ~ GiveUpRelease
        BY <1>0, <3>2 DEF StartConnectAdd, At, CallsSound, GiveUpRelease
      <4>2. UNCHANGED held
        BY <3>2 DEF StartConnectAdd
      <4>. QED  BY <2>1, <4>1, <4>2
    <3>3. connections \in Seq(Connections) /\ NoRepeats(connections)
      BY <1>0 DEF TypeOK, Linked, LinkedIfOpen
    <3>4. ASSUME NEW d \in Connections, connections' = Append(connections, d), d # c
          PROVE  c \notin Members(connections)'
      <4>1. Members(connections)' = Members(connections) \cup {d}
        BY <3>3, <3>4, AppendMembers
      <4>. QED  BY <3>1, <3>4, <4>1
    <3>5. ASSUME NEW d, connections' = Unlink(connections, d)
          PROVE  c \notin Members(connections)'
      <4>1. Members(connections)' = Members(connections) \ {d}
        BY <3>3, <3>5, UnlinkProperties
      <4>. QED  BY <3>1, <4>1
    <3>6. \A t \in Threads : call[t] # NULL => call[t].conn \in Connections
      BY <1>0 DEF TypeOK
    <3>. QED  BY <1>2, <3>1, <3>2, <3>4, <3>5, <3>6, LinkSteps
  <2>. DEFINE Once == \A t \in Threads :
                         deleting'[t] \in Streams =>
                            /\ refCount'[deleting'[t]] = 0
                            /\ deleting'[t] \notin deleted'
                            /\ \A u \in Threads : deleting'[u] = deleting'[t] => u = t
  <2>2. ASSUME UNCHANGED <<deleting, deleted>>,
               \A c \in Streams : refCount[c] = 0 => refCount'[c] = 0
                                    \/ \A t \in Threads : deleting[t] # c
        PROVE  Once
    BY <1>0, <2>2 DEF StreamsReleased
  <2>3. ASSUME NEW t \in Threads, NEW c \in Connections, Release(t, c), refCount[c] >= 1,
               c \notin deleted
        PROVE  Once
    <3>1. /\ refCount' = [refCount EXCEPT ![c] = @ - 1] /\ UNCHANGED deleted
          /\ deleting' = [deleting EXCEPT ![t] = IF refCount[c] = 1 THEN c ELSE NULL]
      BY <2>3 DEF Release, LastReference
    <3>2. \A u \in Threads : deleting[u] \in Streams => deleting[u] # c
      BY <1>0, <2>3 DEF StreamsReleased
    <3>3. ASSUME NEW u \in Threads, deleting'[u] \in Streams
          PROVE  /\ refCount'[deleting'[u]] = 0 /\ deleting'[u] \notin deleted'
                 /\ \A v \in Threads : deleting'[v] = deleting'[u] => v = u
      <4>1. CASE u = t
        <5>1. deleting'[t] = c /\ refCount[c] = 1
          BY <2>0, <3>1, <3>3, <4>1
        <5>2. refCount'[c] = 0 /\ c \notin deleted'
          BY <2>0, <2>3, <3>1, <5>1
        <5>3. \A v \in Threads : v # t => deleting'[v] = deleting[v] /\ deleting[v] # c
          BY <2>0, <3>1, <3>2, <3>3, <4>1, <5>1
        <5>. QED  BY <4>1, <5>1, <5>2, <5>3
      <4>2. CASE u # t
        <5>1. deleting'[u] = deleting[u] /\ deleting[u] # c /\ deleting[u] \in Connections
          BY <2>0, <3>1, <3>2, <3>3, <4>2, StreamsAssumption
        <5>2. refCount'[deleting[u]] = refCount[deleting[u]]
          BY <2>0, <3>1, <5>1
        <5>3. deleting'[t] # deleting[u]
          BY <2>0, <3>1, <3>3, <5>1
        <5>4. \A v \in Threads : v # t => deleting'[v] = deleting[v]
          BY <2>0, <3>1
        <5>. QED  BY <1>0, <3>1, <3>3, <5>1, <5>2, <5>3, <5>4 DEF StreamsReleased
      <4>. QED  BY <4>1, <4>2
    <3>. QED  BY <3>3
  <2>4. ASSUME NEW c \in Connections, New(c)
        PROVE  Once
    <3>1. UNCHANGED <<deleting, deleted>> /\ refCount' = [refCount EXCEPT ![c] = 1]
          /\ \A t \in Threads : deleting[t] # c
      BY <1>0, <2>4 DEF New, UnbornUnused
    <3>2. \A d \in Connections : d # c => refCount'[d] = refCount[d]
      BY <2>0, <3>1
    <3>. QED  BY <2>2, <3>1, <3>2, StreamsAssumption
  <2>5. ASSUME NEW t \in Threads, Delete(t)
        PROVE  Once
    <3>1. /\ deleting' = [deleting EXCEPT ![t] = NULL] /\ UNCHANGED refCount
          /\ deleted' \subseteq deleted \cup {deleting[t]}
      BY <2>5 DEF Delete
    <3>2. deleting'[t] = NULL /\ \A u \in Threads : u # t => deleting'[u] = deleting[u]
      BY <2>0, <3>1
    <3>. QED  BY <1>0, <2>0, <3>1, <3>2 DEF StreamsReleased
  <2>6. ASSUME GiveUpRelease
        PROVE  Once
    <3>1. PICK c \in Connections : c \in held /\ Release("app", c)
      BY <1>0, <2>6, ThreadNames DEF GiveUpRelease, At, CallsSound, TypeOK
    <3>. QED  BY <1>0, <2>3, <3>1, ThreadNames, Referenced
  <2>7. ASSUME Scan
        PROVE  Once
    <3>1. UNCHANGED <<deleting, deleted>>
      BY <2>7 DEF Scan
    <3>2. CASE UNCHANGED <<polled, refCount>>
      BY <2>2, <3>1, <3>2
    <3>3. CASE ~ UNCHANGED <<polled, refCount>>
      <4>1. /\ \A i \in DOMAIN polled' :
                  /\ polled'[i].conn \in Members(connections)
                  /\ Polls(polled'[i].conn)
            /\ \A c \in Connections :
                  refCount'[c] = refCount[c] + IF Entries(c)' = {} THEN 0 ELSE 1
        BY <1>0, <2>7, <3>3, ScanResult
      <4>2. ASSUME NEW c \in Streams, refCount[c] = 0
            PROVE  refCount'[c] = 0
        <5>1. c \in Connections /\ c \notin held
          BY <1>0, <4>2, StreamsAssumption, Referenced
        <5>2. ~ (c \in Members(connections) /\ Polls(c))
          BY <1>0, <4>2, <5>1 DEF StreamsReleased, Polls
        <5>3. Entries(c)' = {}
          BY <4>1, <5>2 DEF Entries
        <5>. QED  BY <4>1, <4>2, <5>1, <5>3
      <4>. QED  BY <2>2, <3>1, <4>2
    <3>. QED  BY <3>2, <3>3
  <2>8. ASSUME NotReady
        PROVE  Once
    BY <2>2, <2>8 DEF NotReady
  <2>9. ASSUME PollRelease
        PROVE  Once
    <3>1. PICK c \in Connections : Entries(c) # {} /\ Release("net", c)
      BY <1>0, <2>9, HeadEntry DEF PollRelease
    <3>. QED  BY <1>0, <2>3, <3>1, ThreadNames, Referenced
  <2>10. ASSUME NEW flags \in SUBSET Flags, NEW w \in Workers, Signal(flags, w)
         PROVE  Once
    <3>1. PICK c \in Connections :
             /\ Entries(c) # {} /\ refCount' = [refCount EXCEPT ![c] = @ + 1]
             /\ UNCHANGED <<deleted, deleting>>
      BY <1>0, <2>10, SignalServers, HeadEntry
    <3>2. refCount[c] # 0
      BY <1>0, <3>1, Referenced
    <3>. QED  BY <2>0, <2>2, <3>1, <3>2, StreamsAssumption
  <2>11. ASSUME NEW w \in Workers, OwnerReleases(w)
         PROVE  Once
    <3>1. PICK c \in Connections : c \in held /\ Release(w, c)
      BY <1>0, <2>11, ServingHasConn DEF OwnerReleases
    <3>. QED  BY <1>0, <2>3, <3>1, ThreadNames, Referenced
  <2>12. ASSUME NEW w \in Workers, WorkerLeave(w)
         PROVE  Once
    <3>1. PICK c \in Connections : Release(w, c) /\ Servers(c) = {w}
      BY <1>0, <2>12, LeaveServers
    <3>. QED  BY <1>0, <2>3, <3>1, ThreadNames, Referenced
  <2>13. ASSUME UNCHANGED refVars
         PROVE  Once
    BY <2>2, <2>13
  <2>14. Once
    <3>. HIDE DEF Once
    <3>. QED
      BY <1>0, <1>2, <2>4, <2>5, <2>6, <2>7, <2>8, <2>9, <2>10, <2>11, <2>12, <2>13,
         RefSteps
  <2>15. fault' # "noSocket"
    BY <1>0, <1>2, FaultSteps
  <2>. QED  BY <2>1, <2>14, <2>15 DEF StreamsReleased
<1>. QED  BY <1>1, <1>2

----------------------------------------------------------------------------
(* The theorems.                                                           *)

LEMMA InitInv == Init => IInv
<1>. SUFFICES ASSUME Init
              PROVE  IInv
  OBVIOUS
<1>. USE DEF Init
<1>0. IsFiniteSet(Workers) /\ Cardinality(Workers) \in Nat
  BY WorkersAssumption, FS_CardinalityType
<1>1. Busy = {} /\ Started = {} /\ \A c \in Connections : Servers(c) = {}
  BY NullAssumption DEF Busy, Started, Servers
<1>2. Members(connections) = {} /\ \A c \in Connections : Entries(c) = {}
  BY DEF Members, Entries
<1>3. TypeOK
  <2>1. connections \in Seq(Connections) /\ polled \in Seq(Entry)
    OBVIOUS
  <2>2. permits \in 0..Cardinality(Workers)
    BY <1>0 DEF InitialPermits
  <2>. QED  BY <2>1, <2>2 DEF TypeOK, States, WorkerPCs
<1>4. PermitsCounted
  BY <1>1, FS_EmptySet DEF PermitsCounted, InitialPermits
<1>5. ServedOnce /\ PolledOnce /\ RefsAre
  BY <1>1, <1>2 DEF ServedOnce, PolledOnce, RefsAre
<1>6. Linked
  BY <1>2 DEF Linked, LinkedIfOpen, NoRepeats
<1>7. UnbornUnused
  BY NullAssumption DEF UnbornUnused
<1>8. QuietIfConnectable
  BY <1>1, <1>2 DEF QuietIfConnectable, Quiet, Unserviced
<1>9. CallsSound /\ StaleInCallback
  BY DEF CallsSound, StaleInCallback
<1>10. StreamsReleased
  BY StreamsAssumption, NullAssumption DEF StreamsReleased
<1>. QED  BY <1>3, <1>4, <1>5, <1>6, <1>7, <1>8, <1>9, <1>10 DEF IInv

LEMMA InvStep == IInv /\ [Next]_vars => IInv'
BY TypeStep, PermitsStep, ServedStep, PolledStep, RefsStep, LinkedStep, UnbornStep,
   QuietIfConnectableStep, CallsStep, StaleStep, StreamsStep
   DEF IInv

LEMMA Invariant == Spec => []IInv
BY InitInv, InvStep, PTL DEF Spec

\* The counts of TLC's cardinalities: at most one entry and one server.
LEMMA AtMostOne ==
    ASSUME NEW S, \A v, w \in S : v = w
    PROVE  Cardinality(S) = IF S = {} THEN 0 ELSE 1
<1>1. CASE S = {}
  BY <1>1, FS_EmptySet
<1>2. CASE S # {}
  <2>1. PICK v : S = {v}
    BY <1>2
  <2>. QED  BY <1>2, <2>1, FS_Singleton
<1>. QED  BY <1>1, <1>2

\* The reference count is the number of references, deleted connections have
\* none, and the list holds the connections with an open socket, for any
\* connections and any workers.
THEOREM CountsHold == Spec => []ConnectionsCounted
<1>1. ASSUME IInv
      PROVE  ConnectionsCounted
  <2>1. TypeOK /\ ServedOnce /\ PolledOnce /\ RefsAre /\ LinkedIfOpen
    BY <1>1 DEF IInv, Linked
  <2>2. ASSUME NEW c \in Connections
        PROVE  /\ Cardinality(Entries(c)) = IF Entries(c) = {} THEN 0 ELSE 1
               /\ Cardinality(Servers(c)) = IF Servers(c) = {} THEN 0 ELSE 1
    <3>1. \A i, j \in Entries(c) : i = j
      BY <2>1 DEF PolledOnce, Entries
    <3>2. \A v, w \in Servers(c) : v = w
      BY <2>1 DEF ServedOnce
    <3>. QED  BY <3>1, <3>2, AtMostOne
  <2>3. RefsCounted
    BY <2>1, <2>2 DEF RefsCounted, RefsAre
  <2>. QED  BY <2>1, <2>3 DEF ConnectionsCounted
<1>. QED  BY <1>1, Invariant, PTL

\* A connection is served by one worker at a time and its owner is called
\* back by it alone.
THEOREM ServedByOne == Spec => []OneServer
<1>1. ASSUME IInv
      PROVE  OneServer
  <2>1. ServedOnce
    BY <1>1 DEF IInv
  <2>. QED  BY <2>1, AtMostOne DEF ServedOnce, OneServer
<1>. QED  BY <1>1, Invariant, PTL

\* Who takes a permit of the semaphore finds a free worker, and no worker is
\* handed a connection that another one has.
THEOREM PermitMeansWorker == Spec => []WorkerForPermit
<1>1. ASSUME IInv
      PROVE  WorkerForPermit
  <2>1. TypeOK /\ PermitsCounted /\ PolledOnce
    BY <1>1 DEF IInv
  <2>2. ASSUME permits > 0
        PROVE  \E w \in Workers : serviceConn[w] = NULL
    <3>1. SUFFICES ASSUME Busy = Workers
                   PROVE  FALSE
      BY DEF Busy
    <3>2. /\ Cardinality(Started) <= Cardinality(Workers)
          /\ Cardinality(Workers) \in Nat /\ Cardinality(Started) \in Nat
      BY <2>1, WorkerCounts
    <3>3. permits + Cardinality(Workers) = Cardinality(Started) /\ permits \in Nat
      BY <2>1, <3>1, <3>2 DEF PermitsCounted, TypeOK
    <3>. QED  BY <2>2, <3>2, <3>3
  <2>3. ASSUME NEW w \in Workers, polled # <<>>, ~ Head(polled).examined,
               serviceConn[w] = Head(polled).conn
        PROVE  workerPC[w] = "done"
    <3>1. 1 \in DOMAIN polled /\ Head(polled) = polled[1]
      BY <2>1, <2>3, HeadEntry
    <3>2. Servers(serviceConn[w]) = {}
      BY <2>1, <2>3, <3>1 DEF PolledOnce
    <3>. QED  BY <3>2, ServerOfItsConn
  <2>. QED  BY <2>2, <2>3 DEF WorkerForPermit
<1>. QED  BY <1>1, Invariant, PTL

\* InitOsNet starts one worker.
OneWorker == \A v, w \in Workers : v = w

\* A socket is stale while its owner hears of the disconnection, and the only
\* worker is busy with that.
LEMMA NotClosedTwice ==
    ASSUME OneWorker, IInv, SocketClosedOnce, [Next]_vars
    PROVE  SocketClosedOnce'
<1>. USE DEF SocketClosedOnce, connVars, serviceVars, workerVars, refVars, ownerVars
<1>0. TypeOK /\ PermitsCounted /\ ServedOnce /\ Linked /\ CallsSound /\ StaleInCallback
  BY DEF IInv
<1>1. CASE UNCHANGED vars
  BY <1>1 DEF vars
<1>2. CASE Next
  <2>1. ASSUME NEW c \in Connections, New(c) \/ Disconnect(c) \/ GiveUp(c)
        PROVE  UNCHANGED fault
    BY <2>1 DEF New, Disconnect, Disconnected, GiveUp
  <2>2. ASSUME NEW t \in Threads,
               \/ \E c \in Connections : StartConnect(t, c)
               \/ StartConnectAdd(t) \/ StartConnectState(t) \/ StartConnectEnd(t)
        PROVE  UNCHANGED fault
    BY <2>2 DEF StartConnect, StartConnectAdd, StartConnectState, StartConnectEnd
  <2>3. ASSUME NEW t \in Threads, StartConnectDeleted(t) \/ Delete(t)
        PROVE  fault' \in {fault, "freed"}
    BY <2>3 DEF StartConnectDeleted, Delete
  <2>4. ASSUME NEW t \in Threads, StartConnectClose(t)
        PROVE  UNCHANGED fault
    <3>1. PICK c \in Connections : c = call[t].conn
      BY <1>0, <2>4 DEF StartConnectClose, At, TypeOK
    <3>2. ASSUME sock[c] = "stale"
          PROVE  FALSE
      <4>1. PICK w \in Servers(c) : workerPC[w] = "disconnected"
        BY <1>0, <3>2 DEF StaleInCallback
      <4>2. w \in Workers /\ Servers(c) # {}
        BY DEF Servers
      <4>3. c \notin Streams
        BY <1>0, <2>4, <3>1, <4>2 DEF StartConnectClose, At, CallsSound, Unserviced
      <4>4. t \in Workers /\ workerPC[t] = "ready"
        BY <1>0, <2>4, <3>1, <4>3 DEF StartConnectClose, At, CallsSound
      <4>. QED  BY <4>1, <4>2, <4>4 DEF OneWorker
    <3>. QED  BY <2>4, <3>1, <3>2 DEF StartConnectClose
  <2>5. ASSUME GiveUpRelease \/ NotReady \/ PollRelease
        PROVE  UNCHANGED fault
    BY <2>5 DEF GiveUpRelease, NotReady, PollRelease
  <2>6. ASSUME NEW w \in Workers,
               \/ (\E flags \in SUBSET Flags : Signal(flags, w))
               \/ WorkerStart(w) \/ OwnerDisconnects(w) \/ OwnerReleases(w)
               \/ WorkerLeave(w) \/ WorkerFree(w)
        PROVE  UNCHANGED fault
    BY <2>6 DEF Signal, WorkerStart, OwnerDisconnects, Disconnected, OwnerReleases,
                WorkerLeave, WorkerFree
  <2>7. ASSUME NEW w \in Workers, Handles(w)
        PROVE  UNCHANGED fault
    BY <1>0, <2>7, HandlersStay
  <2>8. ASSUME Scan
        PROVE  fault' \in {fault, "stalePointer", "noSocket"}
    BY <2>8 DEF Scan
  <2>. QED
    BY <1>0, <1>2, <2>1, <2>2, <2>3, <2>4, <2>5, <2>6, <2>7, <2>8, Actions DEF Handles
<1>. QED  BY <1>1, <1>2

\* With the one worker that InitOsNet starts, no connection of a link is
\* deleted twice and no socket is closed twice.
THEOREM NothingReleasedTwice ==
    ASSUME OneWorker
    PROVE  Spec => []ReleasedOnce
<1>1. Init => SocketClosedOnce
  BY DEF Init, SocketClosedOnce
<1>2. IInv /\ SocketClosedOnce /\ [Next]_vars => SocketClosedOnce'
  BY NotClosedTwice
<1>3. Spec => []SocketClosedOnce
  BY <1>1, <1>2, Invariant, PTL DEF Spec
<1>4. ASSUME IInv, SocketClosedOnce
      PROVE  ReleasedOnce
  BY <1>4 DEF IInv, StreamsReleased, ReleasedOnce, StreamsDeletedOnce
<1>. QED  BY <1>3, <1>4, Invariant, PTL

----------------------------------------------------------------------------
(* The promise of ConnectionCallbacks.                                     *)

\* What an owner knows agrees with the state of its connection, which has
\* its socket until it is closed.
StateAgrees ==
    \A c \in Connections :
        /\ connState[c] = "CONNECTING" => told[c] = "connecting"
        /\ connState[c] \in {"CONNECTED", "DISCONNECTING"} => told[c] = "connected"
        /\ connState[c] = "DISCONNECTING" => sock[c] # "none"
        /\ sock[c] = "stale" => connState[c] = "DISCONNECTED"

\* Data comes to owners that are connected; a worker without a connection has
\* nothing to do.
WorkersAgree ==
    \A w \in Workers :
        /\ workerPC[w] \in {"ready", "reading"} => told[serviceConn[w]] = "connected"
        /\ workerPC[w] \in {"starting", "idle", "done"} => todo[w] = {}

\* Somebody is going to serve the flag for c.
Pending(flag, c) ==
    flag \in serviceFlags[c] \/ \E w \in Servers(c) : flag \in todo[w]

\* A worker that is going to disconnect has been told so, unless it met the
\* end of the stream first.
DisconnectsAgree ==
    \A c \in Connections :
        Pending("disconnect", c) /\ connState[c] # "DISCONNECTING" =>
            c \in Streams /\ connState[c] = "DISCONNECTED" /\ sock[c] # "open"

CallbackInv == StateAgrees /\ WorkersAgree /\ DisconnectsAgree

\* The variables of ConnectionCallbacks.
Calling == {serviceConn[w] : w \in {v \in Workers : workerPC[v] \in Events}}
Ending == {c \in Connections : connState[c] = "DISCONNECTING"}

\* The abstract step.
Promise == [Callbacks!Next]_(Callbacks!callbackVars)

Kept == CallbackInv' /\ Promise

Stutters == told' = told /\ Calling' = Calling /\ Ending' = Ending

LEMMA StutterPromised == Stutters => Promise
BY DEF Stutters, Promise, Callbacks!callbackVars, Calling, Ending

LEMMA ConnectPromised ==
    ASSUME NEW c \in Connections, told[c] \in {"nothing", "disconnected"},
           told' = [told EXCEPT ![c] = "connecting"],
           Ending' = Ending \ {c}, Calling' = Calling
    PROVE  Promise
BY DEF Promise, Callbacks!Next, Callbacks!MayConnect, Callbacks!Connect, Calling, Ending

LEMMA DisconnectPromised ==
    ASSUME NEW c \in Connections, told[c] = "connected",
           told' = told, Ending' = Ending \cup {c}, Calling' = Calling
    PROVE  Promise
BY DEF Promise, Callbacks!Next, Callbacks!Disconnect, Calling, Ending

LEMMA CallBackPromised ==
    ASSUME NEW c \in Connections, c \notin Calling, Calling' = Calling \cup {c},
           NEW event \in Events,
           event \in {"connected", "cantConnect"} => told[c] = "connecting",
           event \in {"ready", "disconnected"} => told[c] = "connected",
           event = "disconnected" => c \in Streams \cup Ending,
           told' = [told EXCEPT ![c] = IF event = "ready" THEN @ ELSE event],
           Ending' = IF event = "disconnected" THEN Ending \ {c} ELSE Ending
    PROVE  Promise
<1>1. Callbacks!CallBack(c, event)
  BY DEF Callbacks!CallBack, Calling, Ending, Events
<1>. QED  BY <1>1 DEF Promise, Callbacks!Next, Events

LEMMA ReturnPromised ==
    ASSUME NEW c \in Connections, c \in Calling, Calling' = Calling \ {c},
           told' = told, Ending' = Ending
    PROVE  Promise
BY DEF Promise, Callbacks!Next, Callbacks!Return, Calling, Ending

\* Connection c gets this state and socket, and its owner knows this.
Becomes(c, s, k, m) ==
    /\ connState' = [connState EXCEPT ![c] = s]
    /\ sock' = [sock EXCEPT ![c] = k]
    /\ told' = [told EXCEPT ![c] = m]

\* They agree.
Agree(s, k, m) ==
    /\ s = "CONNECTING" => m = "connecting"
    /\ s \in {"CONNECTED", "DISCONNECTING"} => m = "connected"
    /\ s = "DISCONNECTING" => k # "none"
    /\ k = "stale" => s = "DISCONNECTED"

LEMMA BecomesAgrees ==
    ASSUME TypeOK, StateAgrees, NEW c \in Connections, NEW s, NEW k, NEW m,
           Becomes(c, s, k, m), Agree(s, k, m)
    PROVE  /\ StateAgrees'
           /\ Ending' = IF s = "DISCONNECTING" THEN Ending \cup {c} ELSE Ending \ {c}
           /\ connState'[c] = s /\ sock'[c] = k /\ told'[c] = m
           /\ \A d \in Connections \ {c} :
                 connState'[d] = connState[d] /\ sock'[d] = sock[d] /\ told'[d] = told[d]
<1>1. /\ connState'[c] = s /\ sock'[c] = k /\ told'[c] = m
      /\ \A d \in Connections \ {c} :
            connState'[d] = connState[d] /\ sock'[d] = sock[d] /\ told'[d] = told[d]
  BY DEF Becomes, TypeOK
<1>2. StateAgrees'
  <2>. SUFFICES ASSUME NEW d \in Connections
                PROVE  Agree(connState'[d], sock'[d], told'[d])
    BY DEF StateAgrees, Agree
  <2>1. CASE d = c
    BY <1>1, <2>1
  <2>2. CASE d # c
    BY <1>1, <2>2 DEF StateAgrees, Agree
  <2>. QED  BY <2>1, <2>2
<1>3. Ending' = IF s = "DISCONNECTING" THEN Ending \cup {c} ELSE Ending \ {c}
  BY <1>1 DEF Ending
<1>. QED  BY <1>1, <1>2, <1>3

\* The owner's threads change a connection's state and leave its server alone.
LEMMA OwnerChanges ==
    ASSUME TypeOK, PermitsCounted, CallbackInv, NEW c \in Connections,
           NEW s, NEW k, NEW m, Becomes(c, s, k, m), Agree(s, k, m),
           UNCHANGED <<serviceFlags, serviceConn, workerPC, todo>>,
           told[c] = "connected" => m = "connected",
           Pending("disconnect", c) /\ s # "DISCONNECTING" =>
              c \in Streams /\ s = "DISCONNECTED" /\ k # "open"
    PROVE  /\ CallbackInv' /\ Calling' = Calling
           /\ Ending' = IF s = "DISCONNECTING" THEN Ending \cup {c} ELSE Ending \ {c}
<1>0. StateAgrees /\ WorkersAgree /\ DisconnectsAgree
  BY DEF CallbackInv
<1>1. /\ StateAgrees'
      /\ Ending' = IF s = "DISCONNECTING" THEN Ending \cup {c} ELSE Ending \ {c}
      /\ connState'[c] = s /\ sock'[c] = k /\ told'[c] = m
      /\ \A d \in Connections \ {c} :
            connState'[d] = connState[d] /\ sock'[d] = sock[d] /\ told'[d] = told[d]
  BY <1>0, BecomesAgrees
<1>2. Calling' = Calling /\ \A d \in Connections : Pending("disconnect", d)' <=> Pending("disconnect", d)
  BY DEF Calling, Pending, Servers
<1>3. WorkersAgree'
  <2>1. \A w \in Workers : workerPC[w] \in {"ready", "reading"} => serviceConn[w] \in Connections
    BY DEF PermitsCounted, TypeOK
  <2>2. \A d \in Connections : told[d] = "connected" => told'[d] = "connected"
    BY <1>1
  <2>. QED  BY <1>0, <2>1, <2>2 DEF WorkersAgree
<1>4. DisconnectsAgree'
  <2>. SUFFICES ASSUME NEW d \in Connections, Pending("disconnect", d),
                       connState'[d] # "DISCONNECTING"
                PROVE  d \in Streams /\ connState'[d] = "DISCONNECTED" /\ sock'[d] # "open"
    BY <1>2 DEF DisconnectsAgree
  <2>1. CASE d = c
    BY <1>1, <2>1
  <2>2. CASE d # c
    BY <1>0, <1>1, <2>2 DEF DisconnectsAgree
  <2>. QED  BY <2>1, <2>2
<1>. QED  BY <1>1, <1>2, <1>3, <1>4 DEF CallbackInv

\* The server w of connection c changes its state, goes on to pc and leaves
\* these flags to be served.
Serves(w, c, s, k, m, pc, rest) ==
    /\ c = serviceConn[w] /\ workerPC[w] \notin {"starting", "idle", "done"}
    /\ Becomes(c, s, k, m) /\ Agree(s, k, m)
    /\ pc \in Events \cup {"serve", "reading"}
    /\ pc \in {"ready", "reading"} => m = "connected"
    /\ workerPC' = [workerPC EXCEPT ![w] = pc]
    /\ rest \in SUBSET todo[w] /\ todo' = [todo EXCEPT ![w] = rest]
    /\ UNCHANGED <<serviceFlags, serviceConn>>
    /\ "disconnect" \in rest /\ s # "DISCONNECTING" =>
          c \in Streams /\ s = "DISCONNECTED" /\ k # "open"

LEMMA ServerChanges ==
    ASSUME TypeOK, PermitsCounted, ServedOnce, CallbackInv, NEW w \in Workers,
           NEW c \in Connections, NEW s, NEW k, NEW m, NEW pc, NEW rest,
           Serves(w, c, s, k, m, pc, rest)
    PROVE  /\ CallbackInv'
           /\ c \in Calling <=> workerPC[w] \in Events
           /\ Calling' = IF pc \in Events THEN Calling \cup {c} ELSE Calling \ {c}
           /\ Ending' = IF s = "DISCONNECTING" THEN Ending \cup {c} ELSE Ending \ {c}
<1>0. StateAgrees /\ WorkersAgree /\ DisconnectsAgree
  BY DEF CallbackInv
<1>. USE DEF Serves
<1>1. /\ StateAgrees'
      /\ Ending' = IF s = "DISCONNECTING" THEN Ending \cup {c} ELSE Ending \ {c}
      /\ connState'[c] = s /\ sock'[c] = k /\ told'[c] = m
      /\ \A d \in Connections \ {c} :
            connState'[d] = connState[d] /\ sock'[d] = sock[d] /\ told'[d] = told[d]
  BY <1>0, BecomesAgrees
<1>2. Servers(c) = {w} /\ serviceFlags[c] = {}
  BY TheServer
<1>3. /\ workerPC'[w] = pc /\ todo'[w] = rest
      /\ \A v \in Workers : v # w => workerPC'[v] = workerPC[v] /\ todo'[v] = todo[v]
  BY DEF TypeOK
<1>4. \A v \in Workers : v # w /\ workerPC[v] # "done" => serviceConn[v] # c
  BY <1>2 DEF Servers
<1>5. \A d : Servers(d)' = Servers(d)
  BY <1>3 DEF Servers, Events
<1>6. WorkersAgree'
  <2>. SUFFICES ASSUME NEW v \in Workers
                PROVE  /\ workerPC'[v] \in {"ready", "reading"} =>
                             told'[serviceConn[v]] = "connected"
                       /\ workerPC'[v] \in {"starting", "idle", "done"} => todo'[v] = {}
    BY DEF WorkersAgree
  <2>1. CASE v = w
    BY <1>1, <1>3, <2>1 DEF Events
  <2>2. CASE v # w
    <3>1. workerPC[v] \in {"ready", "reading"} => serviceConn[v] \in Connections \ {c}
      BY <1>4, <2>2 DEF PermitsCounted, TypeOK
    <3>. QED  BY <1>0, <1>1, <1>3, <2>2, <3>1 DEF WorkersAgree
  <2>. QED  BY <2>1, <2>2
<1>7. DisconnectsAgree'
  <2>. SUFFICES ASSUME NEW d \in Connections, Pending("disconnect", d)',
                       connState'[d] # "DISCONNECTING"
                PROVE  d \in Streams /\ connState'[d] = "DISCONNECTED" /\ sock'[d] # "open"
    BY DEF DisconnectsAgree
  <2>1. CASE d = c
    <3>1. "disconnect" \in rest
      BY <1>2, <1>3, <1>5, <2>1 DEF Pending
    <3>. QED  BY <1>1, <2>1, <3>1
  <2>2. CASE d # c
    <3>1. \A v \in Servers(d) : v \in Workers /\ v # w
      BY <2>2 DEF Servers
    <3>2. Pending("disconnect", d)
      BY <1>3, <1>5, <2>2, <3>1 DEF Pending
    <3>. QED  BY <1>0, <1>1, <2>2, <3>2 DEF DisconnectsAgree
  <2>. QED  BY <2>1, <2>2
<1>8. /\ c \in Calling <=> workerPC[w] \in Events
      /\ Calling' = IF pc \in Events THEN Calling \cup {c} ELSE Calling \ {c}
  BY <1>3, <1>4 DEF Calling, Events
<1>. QED  BY <1>1, <1>6, <1>7, <1>8 DEF CallbackInv

\* A worker goes on without a word to an owner.
LEMMA WorkerChanges ==
    ASSUME TypeOK, CallbackInv, UNCHANGED <<connState, sock, told>>,
           NEW w \in Workers, workerPC[w] \notin Events,
           NEW pc \in {"idle", "serve", "done"},
           UNCHANGED workerPC \/ workerPC' = [workerPC EXCEPT ![w] = pc],
           workerPC[w] # "reading" \/ ~ UNCHANGED workerPC,
           \A v \in Workers : v # w => serviceConn'[v] = serviceConn[v] /\ todo'[v] = todo[v],
           workerPC'[w] \in {"starting", "idle", "done"} => todo'[w] = {},
           \A d \in Connections :
              Pending("disconnect", d)' /\ connState[d] # "DISCONNECTING"
                 => Pending("disconnect", d)
    PROVE  Kept
<1>0. StateAgrees /\ WorkersAgree /\ DisconnectsAgree
  BY DEF CallbackInv
<1>1. /\ workerPC'[w] \notin Events \cup {"reading"}
      /\ \A v \in Workers : v # w => workerPC'[v] = workerPC[v]
  BY DEF TypeOK, Events
<1>2. StateAgrees' /\ DisconnectsAgree' /\ Ending' = Ending
  BY <1>0 DEF StateAgrees, DisconnectsAgree, Ending
<1>3. WorkersAgree'
  BY <1>0, <1>1 DEF WorkersAgree, Events
<1>4. Calling' = Calling
  BY <1>1 DEF Calling
<1>. QED  BY <1>2, <1>3, <1>4, StutterPromised DEF Kept, CallbackInv, Stutters

\* Steps that are no business of the owners.
LEMMA SilentKeeps ==
    ASSUME CallbackInv, UNCHANGED <<connState, sock, told>>,
           UNCHANGED <<serviceFlags, serviceConn, workerPC, todo>>
    PROVE  Kept
<1>1. CallbackInv'
  <2>1. StateAgrees' /\ WorkersAgree'
    BY DEF CallbackInv, StateAgrees, WorkersAgree
  <2>2. DisconnectsAgree'
    BY DEF CallbackInv, DisconnectsAgree, Pending, Servers
  <2>. QED  BY <2>1, <2>2 DEF CallbackInv
<1>2. Stutters
  BY DEF Stutters, Calling, Ending
<1>. QED  BY <1>1, <1>2, StutterPromised DEF Kept

LEMMA NewKeeps ==
    ASSUME IInv, CallbackInv, NEW c \in Connections, New(c)
    PROVE  Kept
<1>1. /\ TypeOK /\ PermitsCounted /\ StateAgrees
      /\ told[c] = "nothing" /\ sock[c] = "none" /\ Servers(c) = {}
      /\ c \notin Ending
  BY DEF IInv, CallbackInv, New, UnbornUnused, QuietIfConnectable, Unserviced, Ending
<1>2. Becomes(c, "INITIALIZED", sock[c], told[c])
  BY <1>1 DEF New, Becomes, TypeOK
<1>3. serviceFlags[c] = {}
  BY <1>1 DEF IInv, ServedOnce
<1>4. CallbackInv' /\ Calling' = Calling /\ Ending' = Ending \ {c}
  BY <1>1, <1>2, <1>3, OwnerChanges
     DEF Agree, New, Pending, serviceVars, workerVars
<1>5. Stutters
  BY <1>1, <1>4 DEF Stutters, New
<1>. QED  BY <1>4, <1>5, StutterPromised DEF Kept

LEMMA StartConnectKeeps ==
    ASSUME IInv, CallbackInv, NEW t \in Threads, NEW c \in Connections, StartConnect(t, c)
    PROVE  Kept
<1>1. /\ TypeOK /\ PermitsCounted /\ StateAgrees /\ DisconnectsAgree
      /\ told[c] \in {"nothing", "disconnected"}
      /\ connState[c] \notin {"CONNECTING", "CONNECTED", "DISCONNECTING"}
      /\ told' = [told EXCEPT ![c] = "connecting"]
  BY DEF IInv, CallbackInv, StartConnect, MayConnect, StateAgrees
<1>2. Becomes(c, connState[c], sock[c], "connecting")
  BY <1>1 DEF StartConnect, Becomes, TypeOK, connVars
<1>3. Agree(connState[c], sock[c], "connecting")
  BY <1>1 DEF Agree, StateAgrees
<1>4. UNCHANGED <<serviceFlags, serviceConn, workerPC, todo>>
  BY DEF StartConnect, serviceVars, workerVars
<1>5. Pending("disconnect", c) =>
         c \in Streams /\ connState[c] = "DISCONNECTED" /\ sock[c] # "open"
  BY <1>1 DEF DisconnectsAgree
<1>6. CallbackInv' /\ Calling' = Calling /\ Ending' = Ending \ {c}
  BY <1>1, <1>2, <1>3, <1>4, <1>5, OwnerChanges
<1>. QED  BY <1>1, <1>6, ConnectPromised DEF Kept

\* The steps of StartConnect: no disconnection is pending when its
\* connection gets a new state.
LEMMA CallGoesOnKeeps ==
    ASSUME IInv, CallbackInv, NEW t \in Threads, NEW c \in Connections,
           NEW s, NEW k, Becomes(c, s, k, told[c]),
           Connecting(t, c), UNCHANGED <<serviceFlags, serviceConn, workerPC, todo>>,
           s \notin {"CONNECTED", "DISCONNECTING"}, k # "stale",
           \/ s = connState[c] /\ k = "none"
           \/ call[t].at = "lock" \/ sock[c] = "open"
    PROVE  Kept
<1>1. /\ TypeOK /\ PermitsCounted /\ StateAgrees /\ DisconnectsAgree /\ ServedOnce
      /\ connState[c] \notin {"CONNECTED", "DISCONNECTING"} /\ told[c] = "connecting"
      /\ call[t].at = "lock" /\ c \in Streams => Servers(c) = {}
  BY DEF IInv, CallbackInv, StateAgrees, CallsSound, Connecting, Unserviced
<1>2. Pending("disconnect", c) =>
         c \in Streams /\ connState[c] = "DISCONNECTED" /\ sock[c] # "open"
               /\ Servers(c) # {}
  BY <1>1 DEF DisconnectsAgree, Pending, ServedOnce
<1>3. Agree(s, k, told[c])
  BY <1>1 DEF Agree
<1>4. CallbackInv' /\ Calling' = Calling /\ Ending' = Ending \ {c}
  BY <1>1, <1>2, <1>3, OwnerChanges
<1>5. Stutters
  BY <1>1, <1>4 DEF Stutters, Becomes, TypeOK, Ending
<1>. QED  BY <1>4, <1>5, StutterPromised DEF Kept

LEMMA CallsKeep ==
    ASSUME IInv, CallbackInv, NEW t \in Threads,
           \/ StartConnectClose(t) \/ StartConnectAdd(t)
           \/ StartConnectState(t) \/ StartConnectEnd(t)
    PROVE  Kept
<1>. USE DEF connVars, serviceVars, workerVars, refVars, ownerVars
<1>0. TypeOK /\ CallsSound
  BY DEF IInv
<1>1. PICK c \in Connections : call[t] # NULL /\ call[t].conn = c
  BY <1>0 DEF StartConnectClose, StartConnectAdd, StartConnectState, StartConnectEnd, At, TypeOK
<1>2. Connecting(t, c)
  BY <1>1 DEF StartConnectClose, StartConnectAdd, StartConnectState, StartConnectEnd, At,
              Connecting
<1>3. /\ UNCHANGED <<serviceFlags, serviceConn, workerPC, todo>>
      /\ told' = [told EXCEPT ![c] = told[c]]
  BY <1>0 DEF StartConnectClose, StartConnectAdd, StartConnectState, StartConnectEnd, TypeOK
<1>4. /\ connState = [connState EXCEPT ![c] = connState[c]]
      /\ sock = [sock EXCEPT ![c] = sock[c]]
      /\ connState[c] \notin {"CONNECTED", "DISCONNECTING"}
  BY <1>0, <1>2 DEF TypeOK, CallbackInv, StateAgrees, CallsSound, Connecting
<1>. DEFINE Step(s, k) == /\ Becomes(c, s, k, told[c])
                          /\ s \notin {"CONNECTED", "DISCONNECTING"} /\ k # "stale"
                          /\ \/ s = connState[c] /\ k = "none"
                             \/ call[t].at = "lock" \/ sock[c] = "open"
<1>5. ASSUME NEW s, NEW k, Step(s, k)
      PROVE  Kept
  BY <1>2, <1>3, <1>5, CallGoesOnKeeps
<1>6. CASE StartConnectClose(t)
  <2>1. Step(connState[c], "none")
    BY <1>1, <1>3, <1>4, <1>6 DEF StartConnectClose, Becomes
  <2>. QED  BY <1>5, <2>1
<1>7. CASE StartConnectAdd(t)
  <2>1. Step(connState[c], "open") \/ Step("ERROR", "none")
    BY <1>1, <1>3, <1>4, <1>7 DEF StartConnectAdd, Becomes, At
  <2>. QED  BY <1>5, <2>1
<1>8. CASE StartConnectState(t) \/ StartConnectEnd(t)
  <2>1. sock[c] = "open"
    BY <1>0, <1>1, <1>8 DEF StartConnectState, StartConnectEnd, At, CallsSound
  <2>2. Step("CONNECTING", sock[c]) \/ Step(connState[c], sock[c]) \/ Step("ERROR", "none")
    BY <1>1, <1>3, <1>4, <1>8, <2>1 DEF StartConnectState, StartConnectEnd, Becomes
  <2>. QED  BY <1>5, <2>2
<1>. QED  BY <1>6, <1>7, <1>8

LEMMA DisconnectKeeps ==
    ASSUME IInv, CallbackInv, NEW c \in Connections,
           connState' = [connState EXCEPT ![c] = AfterDisconnect(c)],
           UNCHANGED <<sock, told, serviceFlags, serviceConn, workerPC, todo>>
    PROVE  Kept
<1>0. /\ TypeOK /\ PermitsCounted /\ StateAgrees
      /\ connState = [connState EXCEPT ![c] = connState[c]]
      /\ sock' = [sock EXCEPT ![c] = sock[c]] /\ told' = [told EXCEPT ![c] = told[c]]
  BY DEF IInv, TypeOK, CallbackInv
<1>1. CASE connState[c] = "CONNECTED" /\ sock[c] # "none"
  <2>1. Becomes(c, "DISCONNECTING", sock[c], told[c])
    BY <1>0, <1>1 DEF AfterDisconnect, HasSocket, Becomes
  <2>2. told[c] = "connected" /\ sock[c] # "stale"
    BY <1>0, <1>1 DEF StateAgrees
  <2>3. CallbackInv' /\ Calling' = Calling /\ Ending' = Ending \cup {c}
    BY <1>0, <1>1, <2>1, <2>2, OwnerChanges DEF Agree
  <2>. QED  BY <2>2, <2>3, DisconnectPromised DEF Kept
<1>2. CASE ~ (connState[c] = "CONNECTED" /\ sock[c] # "none")
  <2>1. UNCHANGED connState
    BY <1>0, <1>2 DEF AfterDisconnect, HasSocket
  <2>. QED  BY <2>1, SilentKeeps
<1>. QED  BY <1>1, <1>2

LEMMA SignalKeeps ==
    ASSUME IInv, CallbackInv, NEW flags \in SUBSET Flags, NEW w \in Workers,
           Signal(flags, w)
    PROVE  Kept
<1>0. TypeOK /\ PermitsCounted /\ PolledOnce /\ WorkersAgree
  BY DEF IInv, CallbackInv
<1>1. PICK c \in Connections :
         /\ c = Head(polled).conn
         /\ workerPC[w] \in {"starting", "idle"}
         /\ serviceConn' = [serviceConn EXCEPT ![w] = c]
         /\ serviceFlags' = [serviceFlags EXCEPT ![c] = flags]
         /\ UNCHANGED <<workerPC, todo, connVars, ownerVars>>
         /\ Servers(c)' = {w}
         /\ \A d \in Connections : d # c => Servers(d)' = Servers(d)
  BY <1>0, SignalServers
<1>2. "disconnect" \in flags => connState[c] = "DISCONNECTING"
  BY <1>1 DEF Signal, Signals, ToDisconnect
<1>3. todo'[w] = {} /\ serviceFlags'[c] = flags
  BY <1>0, <1>1 DEF WorkersAgree, TypeOK
<1>4. ASSUME NEW d \in Connections, Pending("disconnect", d)', connState[d] # "DISCONNECTING"
      PROVE  Pending("disconnect", d)
  <2>1. CASE d = c
    BY <1>1, <1>2, <1>3, <1>4, <2>1 DEF Pending
  <2>2. CASE d # c
    <3>1. serviceFlags'[d] = serviceFlags[d] /\ Servers(d)' = Servers(d) /\ todo' = todo
      BY <1>0, <1>1, <2>2 DEF TypeOK
    <3>. QED  BY <1>4, <3>1 DEF Pending
  <2>. QED  BY <2>1, <2>2
<1>5. /\ workerPC[w] \notin Events \cup {"reading"}
      /\ \A v \in Workers : v # w => serviceConn'[v] = serviceConn[v] /\ todo'[v] = todo[v]
  BY <1>0, <1>1 DEF Events, TypeOK
<1>6. UNCHANGED <<connState, sock, told>>
  BY <1>1 DEF connVars, ownerVars
<1>. QED  BY <1>0, <1>1, <1>3, <1>4, <1>5, <1>6, WorkerChanges

LEMMA StartKeeps ==
    ASSUME IInv, CallbackInv, NEW w \in Workers, WorkerStart(w)
    PROVE  Kept
<1>0. TypeOK /\ WorkersAgree
  BY DEF IInv, CallbackInv
<1>1. /\ workerPC[w] = "starting" /\ workerPC' = [workerPC EXCEPT ![w] = "idle"]
      /\ UNCHANGED <<serviceConn, serviceFlags, todo, connState, sock, told>>
  BY DEF WorkerStart, connVars, serviceVars, ownerVars
<1>2. \A d \in Connections : Servers(d)' = Servers(d)
  BY <1>0, <1>1 DEF Servers, TypeOK
<1>. QED
  BY <1>0, <1>1, <1>2, WorkerChanges DEF Pending, WorkersAgree, Events

LEMMA TakeKeeps ==
    ASSUME IInv, CallbackInv, NEW w \in Workers, WorkerTake(w)
    PROVE  Kept
<1>0. TypeOK /\ PermitsCounted
  BY DEF IInv
<1>1. PICK c \in Connections : c = serviceConn[w] /\ w \in Servers(c)
  BY <1>0, HandlersStay DEF Handles
<1>2. /\ workerPC[w] = "idle" /\ workerPC' = [workerPC EXCEPT ![w] = "serve"]
      /\ todo' = [todo EXCEPT ![w] = serviceFlags[c]]
      /\ serviceFlags' = [serviceFlags EXCEPT ![c] = {}]
      /\ UNCHANGED <<serviceConn, connState, sock, told>>
  BY <1>1 DEF WorkerTake, connVars, ownerVars
<1>3. \A d \in Connections : Servers(d)' = Servers(d)
  BY <1>0, HandlersStay DEF Handles
<1>4. /\ todo'[w] = serviceFlags[c] /\ \A v \in Workers : v # w => todo'[v] = todo[v]
      /\ \A d \in Connections : serviceFlags'[d] \subseteq serviceFlags[d]
      /\ \A d \in Connections : w \in Servers(d) => d = c
      /\ \A d \in Connections : Servers(d) \subseteq Workers
  BY <1>0, <1>1, <1>2 DEF TypeOK, Servers
<1>5. \A d \in Connections : Pending("disconnect", d)' => Pending("disconnect", d)
  BY <1>1, <1>3, <1>4 DEF Pending
<1>6. workerPC[w] \notin Events /\ workerPC'[w] = "serve"
  BY <1>0, <1>2 DEF Events, TypeOK
<1>. QED  BY <1>0, <1>2, <1>4, <1>5, <1>6, WorkerChanges

LEMMA SkipKeeps ==
    ASSUME IInv, CallbackInv, NEW w \in Workers, workerPC[w] \in {"serve", "reading"},
           NEW flag, Skip(w, flag)
    PROVE  Kept
<1>0. TypeOK /\ PermitsCounted
  BY DEF IInv
<1>1. /\ workerPC' = [workerPC EXCEPT ![w] = "serve"]
      /\ todo' = [todo EXCEPT ![w] = @ \ {flag}]
      /\ UNCHANGED <<serviceConn, serviceFlags, connState, sock, told>>
  BY DEF Skip, Served, connVars, serviceVars, ownerVars
<1>2. /\ workerPC'[w] = "serve" /\ \A v \in Workers : todo'[v] \subseteq todo[v]
      /\ \A v \in Workers : v # w => todo'[v] = todo[v]
      /\ \A v \in Workers : workerPC'[v] = "done" <=> workerPC[v] = "done"
  BY <1>0, <1>1 DEF TypeOK
<1>3. \A d \in Connections : Servers(d)' = Servers(d) /\ Servers(d) \subseteq Workers
  BY <1>1, <1>2 DEF Servers
<1>4. \A d \in Connections : Pending("disconnect", d)' => Pending("disconnect", d)
  BY <1>1, <1>2, <1>3 DEF Pending
<1>5. workerPC[w] \notin Events /\ (workerPC[w] # "reading" \/ ~ UNCHANGED workerPC)
  BY <1>2 DEF Events
<1>. QED  BY <1>0, <1>1, <1>2, <1>4, <1>5, WorkerChanges

LEMMA LeaveKeeps ==
    ASSUME IInv, CallbackInv, NEW w \in Workers, WorkerLeave(w)
    PROVE  Kept
<1>0. TypeOK /\ PermitsCounted /\ ServedOnce
  BY DEF IInv
<1>1. PICK c \in Connections :
         /\ c = serviceConn[w] /\ workerPC[w] = "serve" /\ todo[w] = {}
         /\ workerPC' = [workerPC EXCEPT ![w] = "done"]
         /\ UNCHANGED <<serviceFlags, serviceConn, todo, connVars, ownerVars>>
         /\ Servers(c)' = {} /\ serviceFlags[c] = {}
         /\ \A d \in Connections : d # c => Servers(d)' = Servers(d)
  BY <1>0, LeaveServers
<1>2. \A d \in Connections : Pending("disconnect", d)' => Pending("disconnect", d)
  BY <1>1 DEF Pending
<1>3. workerPC[w] \notin Events \cup {"reading"} /\ UNCHANGED <<connState, sock, told>>
  BY <1>1 DEF Events, connVars, ownerVars
<1>. QED  BY <1>0, <1>1, <1>2, <1>3, WorkerChanges

LEMMA FreeKeeps ==
    ASSUME IInv, CallbackInv, NEW w \in Workers, WorkerFree(w)
    PROVE  Kept
<1>0. TypeOK /\ WorkersAgree
  BY DEF IInv, CallbackInv
<1>1. /\ workerPC[w] = "done" /\ workerPC' = [workerPC EXCEPT ![w] = "idle"]
      /\ serviceConn' = [serviceConn EXCEPT ![w] = NULL]
      /\ UNCHANGED <<serviceFlags, todo, connState, sock, told>>
  BY DEF WorkerFree, connVars, serviceVars, ownerVars
<1>2. \A d \in Connections : Servers(d)' = Servers(d)
  BY <1>0, <1>1, NullAssumption DEF Servers, TypeOK
<1>3. /\ \A v \in Workers : v # w => serviceConn'[v] = serviceConn[v]
      /\ todo'[w] = {}
  BY <1>0, <1>1 DEF TypeOK, WorkersAgree
<1>4. workerPC[w] \notin Events \cup {"reading"}
  BY <1>1 DEF Events
<1>. QED  BY <1>0, <1>1, <1>2, <1>3, <1>4, WorkerChanges DEF Pending

\* What a worker that is serving a connection relies on.
LEMMA WhenServing ==
    ASSUME IInv, CallbackInv, fault = "none", NEW w \in Workers,
           workerPC[w] \in Events \cup {"serve", "reading"}
    PROVE  \E c \in Connections :
              /\ c = serviceConn[w]
              /\ connState = [connState EXCEPT ![c] = connState[c]]
              /\ sock = [sock EXCEPT ![c] = sock[c]]
              /\ told = [told EXCEPT ![c] = told[c]]
              /\ todo = [todo EXCEPT ![w] = todo[w]]
              /\ Agree(connState[c], sock[c], told[c])
              /\ sock[c] = "stale" <=> workerPC[w] = "disconnected"
              /\ \A flag \in todo[w] : Pending(flag, c)
              /\ workerPC[w] \notin {"starting", "idle", "done"}
<1>0. TypeOK /\ PermitsCounted /\ ServedOnce /\ StaleInCallback /\ StateAgrees
  BY DEF IInv, CallbackInv
<1>1. PICK c \in Connections : c = serviceConn[w]
  BY <1>0 DEF PermitsCounted, TypeOK, Events
<1>2. workerPC[w] \notin {"starting", "idle", "done"} /\ w \in Servers(c)
  BY <1>1, ServerOfItsConn DEF Events
<1>3. \A v \in Servers(c) : v = w
  BY <1>0, <1>2 DEF ServedOnce
<1>4. /\ connState = [connState EXCEPT ![c] = connState[c]]
      /\ sock = [sock EXCEPT ![c] = sock[c]]
      /\ told = [told EXCEPT ![c] = told[c]]
      /\ todo = [todo EXCEPT ![w] = todo[w]]
  BY <1>0 DEF TypeOK
<1>5. Agree(connState[c], sock[c], told[c])
  BY <1>0 DEF StateAgrees, Agree
<1>6. sock[c] = "stale" <=> workerPC[w] = "disconnected"
  BY <1>0, <1>1, <1>2, <1>3 DEF StaleInCallback
<1>7. \A flag \in todo[w] : Pending(flag, c)
  BY <1>2 DEF Pending
<1>. QED  BY <1>1, <1>2, <1>4, <1>5, <1>6, <1>7

LEMMA CheckConnectKeeps ==
    ASSUME IInv, CallbackInv, fault = "none", NEW w \in Workers,
           NEW flag \in {"write", "except"}, CheckConnect(w, flag)
    PROVE  Kept
<1>0. /\ TypeOK /\ PermitsCounted /\ ServedOnce /\ DisconnectsAgree
      /\ workerPC[w] \in {"serve", "reading"}
  BY DEF IInv, CallbackInv, CheckConnect, Serving
<1>1. PICK c \in Connections :
         /\ c = serviceConn[w]
         /\ sock = [sock EXCEPT ![c] = sock[c]]
         /\ Agree(connState[c], sock[c], told[c]) /\ sock[c] # "stale"
         /\ \A f \in todo[w] : Pending(f, c)
         /\ workerPC[w] \notin {"starting", "idle", "done"}
  BY <1>0, WhenServing
<1>2. CASE Skip(w, flag)
  BY <1>0, <1>1, <1>2, SkipKeeps
<1>3. CASE ~ Skip(w, flag)
  <2>0. connState[c] = "CONNECTING"
    BY <1>1, <1>3 DEF CheckConnect
  <2>1. told[c] = "connecting" /\ "disconnect" \notin todo[w] /\ c \notin Ending
    BY <1>0, <1>1, <2>0 DEF Agree, DisconnectsAgree, Ending
  <2>2. \/ Becomes(c, "CONNECTED", sock[c], "connected") /\ CallBack(w, "connected")
        \/ Becomes(c, "DISCONNECTED", "none", "cantConnect") /\ CallBack(w, "cantConnect")
    BY <1>1, <1>3 DEF CheckConnect, CallBack, Becomes
  <2>. DEFINE rest == todo[w] \ {flag}
  <2>3. /\ todo' = [todo EXCEPT ![w] = rest] /\ rest \in SUBSET todo[w]
        /\ "disconnect" \notin rest
    BY <1>1, <1>3, <2>1 DEF CheckConnect, Served
  <2>. HIDE DEF rest
  <2>4. ASSUME NEW s \in {"CONNECTED", "DISCONNECTED"}, NEW k,
               NEW event \in {"connected", "cantConnect"},
               Becomes(c, s, k, event), Agree(s, k, event), CallBack(w, event)
        PROVE  Kept
    <3>1. /\ workerPC' = [workerPC EXCEPT ![w] = event]
          /\ UNCHANGED <<serviceFlags, serviceConn>> /\ event \in Events
          /\ event \notin {"ready", "reading"} /\ s # "DISCONNECTING"
      BY <2>4 DEF CallBack, Events
    <3>2. Serves(w, c, s, k, event, event, rest)
      BY <1>1, <2>3, <2>4, <3>1 DEF Serves
    <3>3. /\ CallbackInv'
          /\ c \in Calling <=> workerPC[w] \in Events
          /\ Calling' = Calling \cup {c}
          /\ Ending' = Ending \ {c}
      BY <1>0, <3>1, <3>2, ServerChanges
    <3>4. c \notin Calling /\ Calling' = Calling \cup {c} /\ Ending' = Ending
      BY <1>0, <2>1, <3>1, <3>3 DEF Events
    <3>5. told' = [told EXCEPT ![c] = IF event = "ready" THEN @ ELSE event]
      BY <2>4 DEF Becomes
    <3>6. Promise
      BY <2>1, <2>4, <3>1, <3>4, <3>5, CallBackPromised
    <3>. QED  BY <3>3, <3>6 DEF Kept
  <2>5. Agree("CONNECTED", sock[c], "connected") /\ Agree("DISCONNECTED", "none", "cantConnect")
    BY <1>1 DEF Agree
  <2>. QED  BY <2>2, <2>4, <2>5
<1>. QED  BY <1>2, <1>3

LEMMA DoReadsKeeps ==
    ASSUME IInv, CallbackInv, fault = "none", NEW w \in Workers, DoReads(w)
    PROVE  Kept
<1>0. /\ TypeOK /\ PermitsCounted /\ ServedOnce /\ DisconnectsAgree /\ WorkersAgree
      /\ workerPC[w] \in {"serve", "reading"}
  BY DEF IInv, CallbackInv, DoReads, Serving
<1>1. PICK c \in Connections :
         /\ c = serviceConn[w]
         /\ connState = [connState EXCEPT ![c] = connState[c]]
         /\ sock = [sock EXCEPT ![c] = sock[c]]
         /\ told = [told EXCEPT ![c] = told[c]]
         /\ todo = [todo EXCEPT ![w] = todo[w]]
         /\ Agree(connState[c], sock[c], told[c])
         /\ \A f \in todo[w] : Pending(f, c)
         /\ workerPC[w] \notin {"starting", "idle", "done"}
  BY <1>0, WhenServing
<1>2. told[c] = "connected"
  BY <1>0, <1>1 DEF DoReads, MayRead, Agree, WorkersAgree
<1>3. /\ UNCHANGED <<connState, sock, todo, serviceFlags, serviceConn>>
      /\ told' = [told EXCEPT ![c] = told[c]]
      /\ workerPC' = [workerPC EXCEPT ![w] = "ready"]
  BY <1>1 DEF DoReads, CallBack, connVars
<1>4. Becomes(c, connState[c], sock[c], told[c])
  BY <1>1, <1>3 DEF Becomes
<1>5. "disconnect" \in todo[w] /\ connState[c] # "DISCONNECTING" =>
         c \in Streams /\ connState[c] = "DISCONNECTED" /\ sock[c] # "open"
  BY <1>0, <1>1 DEF DisconnectsAgree
<1>6. todo' = [todo EXCEPT ![w] = todo[w]] /\ todo[w] \in SUBSET todo[w] /\ "ready" \in Events
  BY <1>1, <1>3 DEF Events
<1>7. Serves(w, c, connState[c], sock[c], told[c], "ready", todo[w])
  BY <1>1, <1>2, <1>3, <1>4, <1>5, <1>6 DEF Serves
<1>8. /\ CallbackInv'
      /\ c \in Calling <=> workerPC[w] \in Events
      /\ Calling' = Calling \cup {c}
  BY <1>0, <1>6, <1>7, ServerChanges
<1>9. c \notin Calling /\ Ending' = Ending
  BY <1>0, <1>3, <1>8 DEF Events, Ending
<1>10. Promise
  BY <1>2, <1>3, <1>6, <1>8, <1>9, CallBackPromised
<1>. QED  BY <1>8, <1>10 DEF Kept

\* Both ways to a disconnection: the owner was connected, and to a stream or
\* to a connection told to disconnect.
LEMMA ClosesKeeps ==
    ASSUME IInv, CallbackInv, fault = "none", NEW w \in Workers, NEW c \in Connections,
           c = serviceConn[w], workerPC[w] \in {"serve", "reading"},
           Becomes(c, "DISCONNECTED", "stale", "disconnected"), CallBack(w, "disconnected"),
           NEW rest \in SUBSET todo[w], todo' = [todo EXCEPT ![w] = rest],
           told[c] = "connected", c \in Streams \cup Ending, "disconnect" \in rest => c \in Streams
    PROVE  Kept
<1>0. /\ TypeOK /\ PermitsCounted /\ ServedOnce
      /\ workerPC[w] \notin Events \cup {"starting", "idle", "done"}
  BY DEF IInv, Events
<1>1. /\ workerPC' = [workerPC EXCEPT ![w] = "disconnected"]
      /\ UNCHANGED <<serviceFlags, serviceConn>> /\ "disconnected" \in Events
      /\ Agree("DISCONNECTED", "stale", "disconnected")
  BY DEF CallBack, Events, Agree
<1>2. Serves(w, c, "DISCONNECTED", "stale", "disconnected", "disconnected", rest)
  BY <1>0, <1>1 DEF Serves
<1>3. /\ CallbackInv' /\ c \notin Calling
      /\ Calling' = Calling \cup {c} /\ Ending' = Ending \ {c}
  BY <1>0, <1>1, <1>2, ServerChanges
<1>4. told' = [told EXCEPT ![c] = "disconnected"]
  BY DEF Becomes
<1>5. Promise
  BY <1>1, <1>3, <1>4, CallBackPromised
<1>. QED  BY <1>3, <1>5 DEF Kept

LEMMA EndOfStreamKeeps ==
    ASSUME IInv, CallbackInv, fault = "none", NEW w \in Workers, EndOfStream(w)
    PROVE  Kept
<1>0. workerPC[w] \in {"serve", "reading"} /\ WorkersAgree
  BY DEF EndOfStream, Serving, CallbackInv
<1>1. PICK c \in Connections :
         c = serviceConn[w] /\ Agree(connState[c], sock[c], told[c])
  BY <1>0, WhenServing
<1>2. told[c] = "connected"
  BY <1>0, <1>1 DEF EndOfStream, MayRead, Agree, WorkersAgree
<1>3. /\ Becomes(c, "DISCONNECTED", "stale", "disconnected")
      /\ CallBack(w, "disconnected") /\ c \in Streams
      /\ todo' = [todo EXCEPT ![w] = todo[w] \ {"read"}]
  BY <1>1 DEF EndOfStream, CallBack, Served, Becomes
<1>. QED  BY <1>0, <1>1, <1>2, <1>3, ClosesKeeps

LEMMA DoDisconnectKeeps ==
    ASSUME IInv, CallbackInv, fault = "none", NEW w \in Workers, DoDisconnect(w)
    PROVE  Kept
<1>0. /\ TypeOK /\ PermitsCounted /\ ServedOnce /\ DisconnectsAgree
      /\ workerPC[w] = "serve" /\ "disconnect" \in todo[w]
  BY DEF IInv, CallbackInv, DoDisconnect, Serving
<1>1. PICK c \in Connections :
         /\ c = serviceConn[w]
         /\ sock = [sock EXCEPT ![c] = sock[c]]
         /\ told = [told EXCEPT ![c] = told[c]]
         /\ Agree(connState[c], sock[c], told[c]) /\ sock[c] # "stale"
         /\ Pending("disconnect", c)
         /\ workerPC[w] \notin {"starting", "idle", "done"}
  BY <1>0, WhenServing DEF Events
<1>2. sock[c] \in {"none", "open"}
  BY <1>0, <1>1 DEF TypeOK
<1>3. todo' = [todo EXCEPT ![w] = todo[w] \ {"disconnect"}]
  BY DEF DoDisconnect, Served
<1>4. CASE HasSocket(c)
  <2>1. connState[c] = "DISCONNECTING" /\ told[c] = "connected" /\ c \in Ending
    BY <1>0, <1>1, <1>2, <1>4 DEF HasSocket, DisconnectsAgree, Agree, Ending
  <2>2. Becomes(c, "DISCONNECTED", "stale", "disconnected") /\ CallBack(w, "disconnected")
    BY <1>1, <1>4 DEF DoDisconnect, Becomes, CallBack
  <2>. QED  BY <1>0, <1>1, <1>3, <2>1, <2>2, ClosesKeeps
<1>5. CASE ~ HasSocket(c)
  <2>1. /\ UNCHANGED <<sock, told, workerPC, serviceConn, serviceFlags>>
        /\ connState' = [connState EXCEPT ![c] = "DISCONNECTED"]
        /\ sock[c] = "none"
    BY <1>1, <1>5 DEF DoDisconnect, HasSocket, serviceVars
  <2>2. Becomes(c, "DISCONNECTED", sock[c], told[c]) /\ workerPC' = [workerPC EXCEPT ![w] = "serve"]
    BY <1>0, <1>1, <2>1 DEF Becomes, TypeOK
  <2>3. Agree("DISCONNECTED", sock[c], told[c]) /\ c \notin Ending
    BY <1>1, <2>1 DEF Agree, Ending
  <2>4. Serves(w, c, "DISCONNECTED", sock[c], told[c], "serve", todo[w] \ {"disconnect"})
    BY <1>1, <1>3, <2>1, <2>2, <2>3 DEF Serves
  <2>5. CallbackInv' /\ Ending' = Ending \ {c}
    BY <1>0, <2>4, ServerChanges
  <2>6. Stutters
    BY <2>1, <2>3, <2>5 DEF Stutters, Calling
  <2>. QED  BY <2>5, <2>6, StutterPromised DEF Kept
<1>. QED  BY <1>4, <1>5

LEMMA CallbackEndKeeps ==
    ASSUME IInv, CallbackInv, fault = "none", NEW w \in Workers, CallbackEnd(w)
    PROVE  Kept
<1>0. /\ TypeOK /\ PermitsCounted /\ ServedOnce /\ DisconnectsAgree /\ WorkersAgree
      /\ workerPC[w] \in Events
  BY DEF IInv, CallbackInv, CallbackEnd
<1>1. PICK c \in Connections :
         /\ c = serviceConn[w]
         /\ connState = [connState EXCEPT ![c] = connState[c]]
         /\ told = [told EXCEPT ![c] = told[c]]
         /\ todo = [todo EXCEPT ![w] = todo[w]]
         /\ Agree(connState[c], sock[c], told[c])
         /\ sock[c] = "stale" <=> workerPC[w] = "disconnected"
         /\ \A f \in todo[w] : Pending(f, c)
         /\ workerPC[w] \notin {"starting", "idle", "done"}
  BY <1>0, WhenServing
<1>. DEFINE k == IF workerPC[w] = "disconnected" THEN "none" ELSE sock[c]
            pc == IF workerPC[w] = "ready" THEN "reading" ELSE "serve"
<1>2. /\ UNCHANGED <<connState, todo, told, serviceFlags, serviceConn>>
      /\ workerPC' = [workerPC EXCEPT ![w] = pc] /\ sock' = [sock EXCEPT ![c] = k]
  BY <1>1 DEF CallbackEnd, refVars, ownerVars
<1>3. Becomes(c, connState[c], k, told[c])
  BY <1>1, <1>2 DEF Becomes
<1>4. /\ Agree(connState[c], k, told[c])
      /\ pc \in {"serve", "reading"} /\ pc \notin Events
      /\ pc \in {"ready", "reading"} => told[c] = "connected"
  BY <1>0, <1>1 DEF Agree, WorkersAgree, Events
<1>5. "disconnect" \in todo[w] /\ connState[c] # "DISCONNECTING" =>
         c \in Streams /\ connState[c] = "DISCONNECTED" /\ k # "open"
  BY <1>0, <1>1 DEF DisconnectsAgree
<1>6. todo' = [todo EXCEPT ![w] = todo[w]] /\ todo[w] \in SUBSET todo[w]
  BY <1>1, <1>2
<1>. HIDE DEF k, pc
<1>7. Serves(w, c, connState[c], k, told[c], pc, todo[w])
  BY <1>1, <1>2, <1>3, <1>4, <1>5, <1>6 DEF Serves
<1>8. CallbackInv' /\ c \in Calling /\ Calling' = Calling \ {c}
  BY <1>0, <1>4, <1>7, ServerChanges
<1>9. Ending' = Ending
  BY <1>2 DEF Ending
<1>. QED  BY <1>2, <1>8, <1>9, ReturnPromised DEF Kept

LEMMA CallbackStep == IInv /\ CallbackInv /\ [Next]_vars => Kept
<1>. SUFFICES ASSUME IInv, CallbackInv, [Next]_vars
              PROVE  Kept
  OBVIOUS
<1>. USE DEF connVars, serviceVars, workerVars, refVars, ownerVars
<1>0. TypeOK /\ PermitsCounted
  BY DEF IInv
<1>1. CASE UNCHANGED vars
  BY <1>1, SilentKeeps DEF vars
<1>2. CASE Next
  <2>0. fault = "none"
    BY <1>2, Actions
  <2>1. ASSUME NEW c \in Connections, Disconnect(c) \/ GiveUp(c)
        PROVE  Kept
    BY <2>1, DisconnectKeeps DEF Disconnect, Disconnected, GiveUp
  <2>2. ASSUME NEW w \in Workers, OwnerDisconnects(w)
        PROVE  Kept
    <3>1. serviceConn[w] \in Connections
      BY <1>0, <2>2, ServingHasConn DEF OwnerDisconnects
    <3>. QED  BY <2>2, <3>1, DisconnectKeeps DEF OwnerDisconnects, Disconnected
  <2>3. ASSUME \/ GiveUpRelease \/ Scan \/ NotReady \/ PollRelease
               \/ \E t \in Threads : StartConnectDeleted(t) \/ Delete(t)
               \/ \E w \in Workers : OwnerReleases(w)
        PROVE  Kept
    <3>1. /\ UNCHANGED <<connState, sock, told>>
          /\ UNCHANGED <<serviceFlags, serviceConn, workerPC, todo>>
      BY <2>3 DEF GiveUpRelease, Scan, NotReady, PollRelease, StartConnectDeleted, Delete,
                  OwnerReleases
    <3>. QED  BY <3>1, SilentKeeps
  <2>4. ASSUME NEW w \in Workers, ReadsEnd(w)
        PROVE  Kept
    BY <2>4, SkipKeeps DEF ReadsEnd, Serving
  <2>. QED
    BY <1>2, <2>0, <2>1, <2>2, <2>3, <2>4, Actions, NewKeeps, StartConnectKeeps, CallsKeep,
       SignalKeeps, StartKeeps, TakeKeeps, CheckConnectKeeps, DoReadsKeeps,
       EndOfStreamKeeps, DoDisconnectKeeps, CallbackEndKeeps, LeaveKeeps, FreeKeeps
<1>. QED  BY <1>1, <1>2

\* Connections and the threads that serve them implement ConnectionCallbacks:
\* what the owner of a connection sees is one callback at a time, one outcome
\* for each connect, data while connected, and one disconnection.
THEOREM CallbacksKept == Spec => CallbacksSpec
<1>1. Init => Callbacks!Init /\ CallbackInv
  <2>. SUFFICES ASSUME Init
                PROVE  Callbacks!Init /\ CallbackInv
    OBVIOUS
  <2>1. Callbacks!Init
    BY DEF Init, Callbacks!Init, Events
  <2>2. CallbackInv
    BY DEF Init, CallbackInv, StateAgrees, WorkersAgree, DisconnectsAgree, Pending, Servers
  <2>. QED  BY <2>1, <2>2
<1>2. IInv /\ CallbackInv /\ [Next]_vars
        => CallbackInv' /\ [Callbacks!Next]_(Callbacks!callbackVars)
  BY CallbackStep DEF Kept, Promise
<1>. QED  BY <1>1, <1>2, Invariant, PTL DEF Spec, CallbacksSpec, Callbacks!Spec

=============================================================================
