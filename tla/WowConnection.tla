---------------------------- MODULE WowConnection ----------------------------
(***************************************************************************)
(* Connections (WowConnection) and the threads that serve them             *)
(* (WowConnectionNet, the select loop of bsd/WowConnectionNet.cpp): the    *)
(* application thread connects, disconnects and releases connections, the  *)
(* network thread polls the linked ones and hands those that are ready to  *)
(* worker threads, and a worker runs the handlers that call back the       *)
(* connection's owner.                                                     *)
(*                                                                         *)
(* A section under a connection's m_lock is one step, unless the lock is   *)
(* held across a section another thread can see (StartConnect); so is one  *)
(* under m_connectionsLock or a worker's lock.  Callbacks run without      *)
(* m_lock.  SInterlocked operations are steps of their own.                *)
(*                                                                         *)
(* Some races of the code end in undefined behaviour.  The variable fault  *)
(* names the one that happened; nothing is modelled after it.              *)
(*                                                                         *)
(* Left out: the bytes read and sent, encryption, the wakeup pipe (select  *)
(* also times out), listening connections (no code makes one), the         *)
(* references taken and dropped within one handler while the worker's own  *)
(* keeps the connection, and stopping the network (m_stop is never set).   *)
(***************************************************************************)
EXTENDS IntrusiveList, FiniteSets

CONSTANTS
    Connections,   \* the WowConnections the process can ever create
    Streams,       \* those of type WOWC_TYPE_STREAM (Grunt::ClientLink's)
    Workers,       \* the worker threads; InitOsNet is called with one
    NULL,
    TimesOut,      \* whether a worker may be busy for more than 500 ms
    MaxConnects    \* bound: calls of StartConnect

ASSUME StreamsAssumption == Streams \subseteq Connections
ASSUME WorkersAssumption == IsFiniteSet(Workers) /\ {"app", "net"} \cap Workers = {}
ASSUME NullAssumption == NULL \notin Connections \cup Workers
ASSUME TimesOutAssumption == TimesOut \in BOOLEAN
ASSUME BoundAssumption == MaxConnects \in Nat

VARIABLES
    connState,     \* m_connState; "unborn" before the connection is created
    sock,          \* m_sock: "none", "open", or "stale": closed, not yet -1
    refCount,      \* m_refCount
    deleted,       \* connections that have been deleted
    serviceFlags,  \* m_serviceFlags
    serviceCount,  \* m_serviceCount
    responseRef,   \* m_responseRef
    connections,   \* m_connections, by m_netlink
    polled,        \* the network thread's copy of the list, being examined
    permits,       \* m_workerSem
    serviceConn,   \* of a worker
    workerPC,      \* of a worker: where it is, or the callback it makes
    todo,          \* of a worker: the flags it still has to serve
    call,          \* of a thread: its StartConnect or GiveUp, or NULL
    connects,      \* number of calls of StartConnect so far
    deleting,      \* of a thread: a connection whose last reference it dropped
    held,          \* connections whose owner has a reference
    told,          \* of a connection: the last thing that its owner knows
    fault          \* the undefined behaviour that happened, if any

connVars == <<connState, sock, connections>>
serviceVars == <<serviceFlags, serviceCount, responseRef>>
workerVars == <<permits, serviceConn, workerPC, todo>>
refVars == <<refCount, deleted, deleting>>
ownerVars == <<call, connects, held, told>>

vars == <<connVars, serviceVars, workerVars, refVars, ownerVars, polled, fault>>

Threads == {"app", "net"} \cup Workers

Flags == {"write", "read", "except", "disconnect"}

\* The callbacks of WowConnectionResponse, WCMessageReady and WCDataReady
\* both being "ready".
Events == {"connected", "cantConnect", "ready", "disconnected"}

WorkerPCs == {"starting", "idle", "serve", "reading", "done"} \cup Events

CallPCs == {"close", "lock", "state", "connect", "release"}

States == {"unborn", "INITIALIZED", "CONNECTING", "CONNECTED",
           "DISCONNECTING", "DISCONNECTED", "ERROR"}

\* An entry of the network thread's list: what select watches for it, and
\* whether the thread has looked at the outcome.
Entry == [conn : Connections, watched : SUBSET Flags, examined : BOOLEAN]

\* The connection whose m_lock StartConnect holds.
Locked(c) ==
    \E t \in Threads : /\ call[t] # NULL
                       /\ call[t].conn = c
                       /\ call[t].at \in {"state", "connect"}

\* As if the workers were ready when the network is created.
PermitsForAll == Cardinality(Workers)

\* m_workerSem is created with no permits; each worker brings its own.
InitialPermits == 0

----------------------------------------------------------------------------
Init ==
    /\ connState = [c \in Connections |-> "unborn"]
    /\ sock = [c \in Connections |-> "none"]
    /\ refCount = [c \in Connections |-> 0]
    /\ deleted = {}
    /\ serviceFlags = [c \in Connections |-> {}]
    /\ serviceCount = [c \in Connections |-> 0]
    /\ responseRef = [c \in Connections |-> 0]
    /\ connections = <<>>
    /\ polled = <<>>
    /\ permits = InitialPermits
    /\ serviceConn = [w \in Workers |-> NULL]
    /\ workerPC = [w \in Workers |-> "starting"]
    /\ todo = [w \in Workers |-> {}]
    /\ call = [t \in Threads |-> NULL]
    /\ connects = 0
    /\ deleting = [t \in Threads |-> NULL]
    /\ held = {}
    /\ told = [c \in Connections |-> "nothing"]
    /\ fault = "none"

----------------------------------------------------------------------------
(* References.                                                             *)

\* Testing for the last two references.
LastTwo(c) == refCount[c] \in {1, 2}

LastReference(c) == refCount[c] = 1

\* Release by thread t up to the test of the decremented count.
Release(t, c) ==
    /\ refCount' = [refCount EXCEPT ![c] = @ - 1]
    /\ deleting' = [deleting EXCEPT ![t] =
                    IF LastReference(c) THEN c ELSE NULL]
    /\ UNCHANGED deleted

\* Deleting whatever was handed over.
DeletesAlways(c) == TRUE

\* Leaving the connection linked.
KeepsLinked(c) == connections

\* WowConnectionNet::Remove.
Removed(c) == Unlink(connections, c)

\* WowConnectionNet::Delete looks at the count again, under its lock.
StillUnreferenced(c) == refCount[c] = 0

\* The rest of Release: Delete.  A connection that is deleted leaves the
\* list; one that another thread has deleted is freed memory.
Delete(t) ==
    /\ deleting[t] # NULL
    /\ deleting' = [deleting EXCEPT ![t] = NULL]
    /\ LET c == deleting[t]
       IN CASE c \in deleted ->
                 fault' = "freed" /\ UNCHANGED <<deleted, connections>>
            [] c \notin deleted /\ StillUnreferenced(c) ->
                 /\ deleted' = deleted \cup {c}
                 /\ connections' = Unlink(connections, c)
                 /\ UNCHANGED fault
            [] OTHER -> UNCHANGED <<deleted, connections, fault>>
    /\ UNCHANGED <<connState, sock, refCount, polled>>
    /\ UNCHANGED serviceVars /\ UNCHANGED workerVars /\ UNCHANGED ownerVars

----------------------------------------------------------------------------
(* The application thread: the owners NetClient and Grunt::ClientLink.     *)

AppFree == call["app"] = NULL /\ deleting["app"] = NULL

\* The constructor: INITIALIZED with one reference, the owner's.
New(c) ==
    /\ AppFree
    /\ connState[c] = "unborn"
    /\ connState' = [connState EXCEPT ![c] = "INITIALIZED"]
    /\ refCount' = [refCount EXCEPT ![c] = 1]
    /\ held' = held \cup {c}
    /\ UNCHANGED <<sock, connections, deleted, deleting, call, connects,
                   told, polled, fault>>
    /\ UNCHANGED serviceVars /\ UNCHANGED workerVars

\* An owner connects a new connection, and NetClient also one it was told
\* is disconnected (NS_INITIALIZED again).
MayConnect(c) ==
    /\ c \in held
    /\ \/ told[c] = "nothing" /\ connState[c] = "INITIALIZED"
       \/ told[c] = "disconnected" /\ c \notin Streams

\* Everything connected by the application thread.
AppConnects(t, c) == t = "app" /\ AppFree

\* The application thread connects ClientLink's connections, but NetClient's
\* are connected by the worker that received the list of realms, from
\* ClientLink's WCDataReady (RealmEnumCallback, ConnectToSelectedServer).
Connects(t, c) ==
    IF c \in Streams THEN AppConnects(t, c)
    ELSE /\ t \in Workers
         /\ workerPC[t] = "ready" /\ serviceConn[t] \in Streams
         /\ call[t] = NULL

\* StartConnect before it takes m_lock: the old socket is dropped.  A stale
\* socket is closed a second time.
StartConnect(t, c) ==
    /\ connects < MaxConnects
    /\ MayConnect(c)
    /\ Connects(t, c)
    /\ connects' = connects + 1
    /\ call' = [call EXCEPT ![t] = [conn |-> c, at |-> "close"]]
    /\ told' = [told EXCEPT ![c] = "connecting"]
    /\ UNCHANGED <<held, polled, fault>>
    /\ UNCHANGED connVars /\ UNCHANGED refVars
    /\ UNCHANGED serviceVars /\ UNCHANGED workerVars

\* Thread t is at this point of its call, and the connection still exists.
At(t, at) ==
    /\ call[t] # NULL
    /\ call[t].at = at
    /\ call[t].conn \notin deleted

GoesTo(t, at) == call' = [call EXCEPT ![t].at = at]

CallReturns(t) == call' = [call EXCEPT ![t] = NULL]

\* The application gave the connection up while a worker connects it.
StartConnectDeleted(t) ==
    /\ call[t] # NULL
    /\ call[t].conn \in deleted
    /\ fault' = "freed"
    /\ UNCHANGED polled
    /\ UNCHANGED connVars /\ UNCHANGED refVars /\ UNCHANGED serviceVars
    /\ UNCHANGED workerVars /\ UNCHANGED ownerVars

StartConnectClose(t) ==
    /\ At(t, "close")
    /\ LET c == call[t].conn
       IN /\ fault' = IF sock[c] = "stale" THEN "closedTwice" ELSE fault
          /\ sock' = [sock EXCEPT ![c] = "none"]
          /\ connections' = IF sock[c] = "none" THEN connections
                            ELSE Removed(c)
    /\ GoesTo(t, "lock")
    /\ UNCHANGED <<connState, connects, held, told, polled>>
    /\ UNCHANGED refVars /\ UNCHANGED serviceVars /\ UNCHANGED workerVars

\* Under m_lock: the socket is created and the connection added to the list
\* (or there is no socket), before its state is set.
StartConnectAdd(t) ==
    /\ At(t, "lock")
    /\ LET c == call[t].conn
       IN \/ /\ sock' = [sock EXCEPT ![c] = "open"]
             /\ connections' = IF c \in Members(connections) THEN connections
                               ELSE Append(connections, c)
             /\ GoesTo(t, "state")
             /\ UNCHANGED connState
          \/ /\ connState' = [connState EXCEPT ![c] = "ERROR"]
             /\ sock' = [sock EXCEPT ![c] = "none"]
             /\ CallReturns(t)
             /\ UNCHANGED connections
    /\ UNCHANGED <<connects, held, told, polled, fault>>
    /\ UNCHANGED refVars /\ UNCHANGED serviceVars /\ UNCHANGED workerVars

StartConnectState(t) ==
    /\ At(t, "state")
    /\ connState' = [connState EXCEPT ![call[t].conn] = "CONNECTING"]
    /\ GoesTo(t, "connect")
    /\ UNCHANGED <<sock, connections, connects, held, told, polled, fault>>
    /\ UNCHANGED refVars /\ UNCHANGED serviceVars /\ UNCHANGED workerVars

\* connect() is done or in progress, or fails at once.
StartConnectEnd(t) ==
    /\ At(t, "connect")
    /\ CallReturns(t)
    /\ LET c == call[t].conn
       IN \/ UNCHANGED connVars
          \/ /\ connState' = [connState EXCEPT ![c] = "ERROR"]
             /\ sock' = [sock EXCEPT ![c] = "none"]
             /\ connections' = Removed(c)
    /\ UNCHANGED <<connects, held, told, polled, fault>>
    /\ UNCHANGED refVars /\ UNCHANGED serviceVars /\ UNCHANGED workerVars

\* m_sock >= 0.
HasSocket(c) == sock[c] # "none"

\* Disconnect, by the application or from a callback: only a connected
\* connection is told to disconnect.
AfterDisconnect(c) ==
    IF connState[c] = "CONNECTED" /\ HasSocket(c) THEN "DISCONNECTING"
    ELSE connState[c]

Disconnected(c) ==
    /\ ~ Locked(c)
    /\ connState' = [connState EXCEPT ![c] = AfterDisconnect(c)]
    /\ UNCHANGED <<sock, connections, polled, fault>>
    /\ UNCHANGED refVars /\ UNCHANGED serviceVars /\ UNCHANGED workerVars
    /\ UNCHANGED ownerVars

Disconnect(c) == AppFree /\ c \in held /\ Disconnected(c)

\* NetClient::Disconnect gives up a connection it does not take for
\* connected: Disconnect, then Release.
GiveUp(c) ==
    /\ AppFree
    /\ c \in held \ Streams
    /\ ~ Locked(c)
    /\ connState' = [connState EXCEPT ![c] = AfterDisconnect(c)]
    /\ call' = [call EXCEPT !["app"] = [conn |-> c, at |-> "release"]]
    /\ UNCHANGED <<sock, connections, connects, held, told, polled, fault>>
    /\ UNCHANGED refVars /\ UNCHANGED serviceVars /\ UNCHANGED workerVars

GiveUpRelease ==
    /\ At("app", "release")
    /\ held' = held \ {call["app"].conn}
    /\ Release("app", call["app"].conn)
    /\ CallReturns("app")
    /\ UNCHANGED <<connects, told, polled, fault>>
    /\ UNCHANGED connVars /\ UNCHANGED serviceVars /\ UNCHANGED workerVars

----------------------------------------------------------------------------
(* The network thread: WowConnectionNet::PlatformRun.                      *)

Polls(c) == connState[c] \in {"CONNECTING", "CONNECTED", "DISCONNECTING"}

\* What select waits for on behalf of a connection.
Watched(c) ==
    CASE connState[c] = "CONNECTING" -> {"write", "except"}
      [] connState[c] = "CONNECTED" -> {"read", "except"}
      [] OTHER -> {}

\* Every linked connection, in service or not.
PollsAll(c) == TRUE

\* A connection in service is passed over.
NotInService(c) == serviceCount[c] = 0

\* The places of the list that the scan does not pass over.
Unserved == {i \in DOMAIN connections : NotInService(connections[i])}

\* A set of places from the first to the last.
Ascending(S) ==
    {s \in [1..Cardinality(S) -> S] : \A i, j \in DOMAIN s : i < j => s[i] < s[j]}

\* The scan of the list.  A linked connection in a state it does not expect
\* is counted but not stored, so an old pointer is used in its place; one
\* without a socket corrupts the descriptor sets.
Scan ==
    /\ polled = <<>> /\ deleting["net"] = NULL
    /\ Unserved # {}
    /\ \E places \in Ascending(Unserved) :
         LET found == [i \in DOMAIN places |-> connections[places[i]]]
             entry(i) == [conn |-> found[i], watched |-> Watched(found[i]),
                          examined |-> FALSE]
         IN IF \E c \in Members(found) : ~ Polls(c)
              THEN /\ fault' = "stalePointer"
                   /\ UNCHANGED <<polled, refCount>>
            ELSE IF \E c \in Members(found) :
                       sock[c] = "none" /\ connState[c] # "DISCONNECTING"
              THEN /\ fault' = "noSocket"
                   /\ UNCHANGED <<polled, refCount>>
            ELSE /\ polled' = [i \in DOMAIN found |-> entry(i)]
                 /\ refCount' = [c \in Connections |->
                                   IF c \in Members(found) THEN refCount[c] + 1
                                   ELSE refCount[c]]
                 /\ UNCHANGED fault
    /\ UNCHANGED <<deleted, deleting>>
    /\ UNCHANGED connVars /\ UNCHANGED serviceVars /\ UNCHANGED workerVars
    /\ UNCHANGED ownerVars

\* Forgetting the connections that select does not watch.
NeverToDisconnect(c) == FALSE

ToDisconnect(c) == connState[c] = "DISCONNECTING"

\* What is signalled for a connection that was watched for some events:
\* any of them may have happened, and it may be disconnecting by now.
Signals(e, flags) ==
    /\ flags # {}
    /\ flags \ {"disconnect"} \subseteq
         (IF sock[e.conn] = "none" THEN {} ELSE e.watched)
    /\ "disconnect" \in flags <=> ToDisconnect(e.conn)

\* SignalWorker: with a permit of the semaphore, the connection goes to
\* the first worker that has none.
Signal(flags, w) ==
    /\ polled # <<>> /\ deleting["net"] = NULL
    /\ LET e == Head(polled)
       IN /\ ~ e.examined
          /\ Signals(e, flags)
          /\ permits > 0
          /\ serviceConn[w] = NULL
          /\ permits' = permits - 1
          /\ refCount' = [refCount EXCEPT ![e.conn] = @ + 1]
          /\ serviceFlags' = [serviceFlags EXCEPT ![e.conn] = flags]
          /\ serviceCount' = [serviceCount EXCEPT ![e.conn] = @ + 1]
          /\ serviceConn' = [serviceConn EXCEPT ![w] = e.conn]
    /\ polled' = [polled EXCEPT ![1].examined = TRUE]
    /\ UNCHANGED <<responseRef, workerPC, todo, deleted, deleting, fault>>
    /\ UNCHANGED connVars /\ UNCHANGED ownerVars

\* No event for the connection, or no worker for 500 ms.
NotReady ==
    /\ polled # <<>> /\ deleting["net"] = NULL
    /\ ~ Head(polled).examined
    /\ \/ ~ ToDisconnect(Head(polled).conn)
       \/ TimesOut /\ permits = 0
    /\ polled' = [polled EXCEPT ![1].examined = TRUE]
    /\ UNCHANGED fault
    /\ UNCHANGED connVars /\ UNCHANGED serviceVars /\ UNCHANGED workerVars
    /\ UNCHANGED refVars /\ UNCHANGED ownerVars

\* Done with an entry.
PollRelease ==
    /\ polled # <<>> /\ deleting["net"] = NULL
    /\ Head(polled).examined
    /\ Release("net", Head(polled).conn)
    /\ polled' = Tail(polled)
    /\ UNCHANGED fault
    /\ UNCHANGED connVars /\ UNCHANGED serviceVars /\ UNCHANGED workerVars
    /\ UNCHANGED ownerVars

----------------------------------------------------------------------------
(* A worker thread: RunWorker, Service, and the connection's handlers.     *)

WorkerStart(w) ==
    /\ workerPC[w] = "starting"
    /\ workerPC' = [workerPC EXCEPT ![w] = "idle"]
    /\ permits' = permits + 1
    /\ UNCHANGED <<serviceConn, todo, polled, fault>>
    /\ UNCHANGED connVars /\ UNCHANGED serviceVars /\ UNCHANGED refVars
    /\ UNCHANGED ownerVars

\* The worker's event is set: take the flags.
WorkerTake(w) ==
    /\ workerPC[w] = "idle"
    /\ serviceConn[w] # NULL
    /\ workerPC' = [workerPC EXCEPT ![w] = "serve"]
    /\ todo' = [todo EXCEPT ![w] = serviceFlags[serviceConn[w]]]
    /\ serviceFlags' = [serviceFlags EXCEPT ![serviceConn[w]] = {}]
    /\ UNCHANGED <<serviceCount, responseRef, permits, serviceConn, polled, fault>>
    /\ UNCHANGED connVars /\ UNCHANGED refVars /\ UNCHANGED ownerVars

\* Service serves the flags in this order.
Serving(w, flag) ==
    /\ workerPC[w] = "serve" \/ (workerPC[w] = "reading" /\ flag = "read")
    /\ ~ Locked(serviceConn[w])
    /\ flag \in todo[w]
    /\ LET before == CASE flag = "write" -> {}
                       [] flag = "read" -> {"write"}
                       [] flag = "except" -> {"write", "read"}
                       [] flag = "disconnect" -> {"write", "read", "except"}
       IN todo[w] \cap before = {}

\* The handler takes a response reference, leaves m_lock and calls the
\* owner back.
CallBack(w, event) ==
    /\ workerPC' = [workerPC EXCEPT ![w] = event]
    /\ responseRef' = [responseRef EXCEPT ![serviceConn[w]] = @ + 1]
    /\ told' = [told EXCEPT ![serviceConn[w]] =
                  IF event = "ready" THEN @ ELSE event]
    /\ UNCHANGED <<serviceFlags, serviceCount, call, connects, held,
                   polled, fault, permits, serviceConn>>
    /\ UNCHANGED refVars

Served(w, flag) == todo' = [todo EXCEPT ![w] = @ \ {flag}]

\* Nothing to do for this flag.
Skip(w, flag) ==
    /\ Served(w, flag)
    /\ workerPC' = [workerPC EXCEPT ![w] = "serve"]
    /\ UNCHANGED <<permits, serviceConn, polled, fault>>
    /\ UNCHANGED connVars /\ UNCHANGED serviceVars /\ UNCHANGED refVars
    /\ UNCHANGED ownerVars

\* DoWrites and DoExceptions look whether the connection is connected; it
\* stays as it is when it is not CONNECTING, or when getsockopt fails.
CheckConnect(w, flag) ==
    /\ Serving(w, flag) /\ flag \in {"write", "except"}
    /\ LET c == serviceConn[w]
       IN \/ Skip(w, flag)
          \/ /\ connState[c] = "CONNECTING"
             /\ connState' = [connState EXCEPT ![c] = "CONNECTED"]
             /\ UNCHANGED <<sock, connections>>
             /\ CallBack(w, "connected") /\ Served(w, flag)
          \/ /\ connState[c] = "CONNECTING"
             /\ connState' = [connState EXCEPT ![c] = "DISCONNECTED"]
             /\ sock' = [sock EXCEPT ![c] = "none"]
             /\ connections' = Removed(c)
             /\ CallBack(w, "cantConnect") /\ Served(w, flag)

\* DoReads serves a connected connection.  In its loop, DoStreamReads stops
\* when the connection has been told to disconnect; DoMessageReads does not.
MayRead(w) ==
    LET c == serviceConn[w]
    IN CASE workerPC[w] = "serve" -> connState[c] = "CONNECTED"
         [] workerPC[w] = "reading" ->
              c \in Streams => connState[c] # "DISCONNECTING"
         [] OTHER -> FALSE

\* A message or a block of data is handed over, and more may follow.
DoReads(w) ==
    /\ Serving(w, "read") /\ MayRead(w)
    /\ CallBack(w, "ready")
    /\ UNCHANGED todo
    /\ UNCHANGED connVars

\* There is no more to read.  DoMessageReads does not mind the end of the
\* stream, so a peer that goes away leaves the connection connected.
ReadsEnd(w) ==
    /\ Serving(w, "read")
    /\ Skip(w, "read")

\* DoStreamReads at the end of the stream: closed, but m_sock is kept until
\* the owner has been called back.
EndOfStream(w) ==
    /\ Serving(w, "read") /\ MayRead(w)
    /\ LET c == serviceConn[w]
       IN /\ c \in Streams
          /\ connState' = [connState EXCEPT ![c] = "DISCONNECTED"]
          /\ sock' = [sock EXCEPT ![c] = "stale"]
          /\ connections' = Removed(c)
    /\ CallBack(w, "disconnected")
    /\ Served(w, "read")

\* DoDisconnect: likewise, and the owner hears of it only if there was a
\* socket.
DoDisconnect(w) ==
    /\ Serving(w, "disconnect")
    /\ LET c == serviceConn[w]
       IN /\ connState' = [connState EXCEPT ![c] = "DISCONNECTED"]
          /\ IF ~ HasSocket(c)
               THEN /\ UNCHANGED <<sock, connections, workerPC, told, call,
                                   connects, held, permits, serviceConn>>
                    /\ UNCHANGED serviceVars /\ UNCHANGED refVars
                    /\ UNCHANGED <<polled, fault>>
               ELSE /\ sock' = [sock EXCEPT ![c] = "stale"]
                    /\ connections' = Removed(c)
                    /\ CallBack(w, "disconnected")
    /\ Served(w, "disconnect")

\* The owner's callbacks: WCMessageReady and WCDataReady may disconnect...
OwnerDisconnects(w) ==
    /\ workerPC[w] \in {"connected", "ready"}
    /\ call[w] = NULL
    /\ Disconnected(serviceConn[w])

\* ... and ClientLink::WCDisconnected releases the connection (Shutdown).
OwnerReleases(w) ==
    /\ workerPC[w] = "disconnected"
    /\ serviceConn[w] \in Streams \cap held
    /\ held' = held \ {serviceConn[w]}
    /\ Release(w, serviceConn[w])
    /\ UNCHANGED <<call, connects, told, polled, fault>>
    /\ UNCHANGED connVars /\ UNCHANGED serviceVars /\ UNCHANGED workerVars

\* The callback returns: m_lock is taken again, m_sock becomes -1 after a
\* disconnection, and the response reference is dropped.
CallbackEnd(w) ==
    /\ workerPC[w] \in Events
    /\ call[w] = NULL /\ deleting[w] = NULL
    /\ LET c == serviceConn[w]
       IN /\ ~ Locked(c)
          /\ workerPC[w] = "disconnected" => c \notin Streams \cap held
          /\ sock' = [sock EXCEPT ![c] =
                        IF workerPC[w] = "disconnected" THEN "none" ELSE @]
          /\ responseRef' = [responseRef EXCEPT ![c] = @ - 1]
    /\ workerPC' = [workerPC EXCEPT ![w] =
                      IF @ = "ready" THEN "reading" ELSE "serve"]
    /\ UNCHANGED <<connState, connections, serviceFlags, serviceCount, permits,
                   serviceConn, todo, polled, fault>>
    /\ UNCHANGED refVars /\ UNCHANGED ownerVars

\* All flags are served: take those that came meanwhile, or leave the
\* connection, under the worker's lock.
WorkerLeave(w) ==
    /\ workerPC[w] = "serve" /\ todo[w] = {}
    /\ LET c == serviceConn[w]
       IN IF serviceFlags[c] # {}
            THEN /\ todo' = [todo EXCEPT ![w] = serviceFlags[c]]
                 /\ serviceFlags' = [serviceFlags EXCEPT ![c] = {}]
                 /\ UNCHANGED <<serviceCount, workerPC>>
                 /\ UNCHANGED refVars
            ELSE /\ serviceCount' = [serviceCount EXCEPT ![c] = @ - 1]
                 /\ Release(w, c)
                 /\ workerPC' = [workerPC EXCEPT ![w] = "done"]
                 /\ UNCHANGED <<serviceFlags, todo>>
    /\ UNCHANGED <<responseRef, permits, serviceConn, polled, fault>>
    /\ UNCHANGED connVars /\ UNCHANGED ownerVars

\* The worker is free, lets go of its lock and signals the semaphore.
WorkerFree(w) ==
    /\ workerPC[w] = "done" /\ deleting[w] = NULL
    /\ workerPC' = [workerPC EXCEPT ![w] = "idle"]
    /\ serviceConn' = [serviceConn EXCEPT ![w] = NULL]
    /\ permits' = permits + 1
    /\ UNCHANGED <<todo, polled, fault>>
    /\ UNCHANGED connVars /\ UNCHANGED serviceVars /\ UNCHANGED refVars
    /\ UNCHANGED ownerVars

----------------------------------------------------------------------------
CallGoesOn(t) ==
    \/ StartConnectDeleted(t) \/ StartConnectClose(t) \/ StartConnectAdd(t)
    \/ StartConnectState(t) \/ StartConnectEnd(t)

AppGoesOn == CallGoesOn("app") \/ GiveUpRelease \/ Delete("app")

App ==
    \/ \E c \in Connections :
           New(c) \/ StartConnect("app", c) \/ Disconnect(c) \/ GiveUp(c)
    \/ AppGoesOn

Network ==
    \/ Scan \/ NotReady \/ PollRelease \/ Delete("net")
    \/ \E flags \in SUBSET Flags, w \in Workers : Signal(flags, w)

Worker(w) ==
    \/ WorkerStart(w) \/ WorkerTake(w)
    \/ \E flag \in {"write", "except"} : CheckConnect(w, flag)
    \/ DoReads(w) \/ ReadsEnd(w) \/ EndOfStream(w) \/ DoDisconnect(w)
    \/ OwnerDisconnects(w) \/ OwnerReleases(w) \/ CallbackEnd(w)
    \/ WorkerLeave(w) \/ WorkerFree(w) \/ Delete(w)
    \/ (\E c \in Connections : StartConnect(w, c)) \/ CallGoesOn(w)

Next == fault = "none" /\ (App \/ Network \/ \E w \in Workers : Worker(w))

Spec == Init /\ [][Next]_vars

WorkerReads(w) == ReadsEnd(w) \/ EndOfStream(w)

\* The threads run, the application comes back from its calls, and a peer
\* does not send without end.
FairSpec ==
    /\ Spec
    /\ WF_vars(fault = "none" /\ AppGoesOn)
    /\ WF_vars(fault = "none" /\ Network)
    /\ \A w \in Workers : /\ WF_vars(fault = "none" /\ Worker(w))
                         /\ SF_vars(fault = "none" /\ WorkerReads(w))

----------------------------------------------------------------------------
(* Properties.                                                             *)

\* Every variable holds a value of its type; there are never more permits of
\* m_workerSem than workers.
TypeOK ==
    /\ connState \in [Connections -> States]
    /\ sock \in [Connections -> {"none", "open", "stale"}]
    /\ refCount \in [Connections -> Nat]
    /\ deleted \subseteq Connections
    /\ serviceFlags \in [Connections -> SUBSET Flags]
    /\ serviceCount \in [Connections -> Nat]
    /\ responseRef \in [Connections -> Nat]
    /\ connections \in Seq(Connections)
    /\ polled \in Seq(Entry)
    /\ permits \in 0..Cardinality(Workers)
    /\ serviceConn \in [Workers -> Connections \cup {NULL}]
    /\ workerPC \in [Workers -> WorkerPCs]
    /\ todo \in [Workers -> SUBSET Flags]
    /\ call \in [Threads -> [conn : Connections, at : CallPCs] \cup {NULL}]
    /\ connects \in Nat
    /\ deleting \in [Threads -> Connections \cup {NULL}]
    /\ held \subseteq Connections
    /\ told \in [Connections -> {"nothing", "connecting", "connected",
                                 "cantConnect", "disconnected"}]
    /\ fault \in {"none", "freed", "closedTwice", "stalePointer", "noSocket"}

\* Who holds a reference to a connection: its owner, the network thread
\* for each entry of its list, and the worker that serves it.
Entries(c) == {i \in DOMAIN polled : polled[i].conn = c}
Servers(c) == {w \in Workers : serviceConn[w] = c /\ workerPC[w] # "done"}

\* The reference count is the number of references, so a connection is
\* deleted when nobody uses it, and never before.
RefsCounted ==
    \A c \in Connections :
        /\ refCount[c] = Cardinality(Entries(c)) + Cardinality(Servers(c))
                           + (IF c \in held THEN 1 ELSE 0)
        /\ c \in deleted => refCount[c] = 0

\* One worker serves a connection at a time, so its owner gets one callback
\* at a time: the assertion of AcquireResponseRef.
OneServer ==
    \A c \in Connections :
        /\ Cardinality(Servers(c)) = serviceCount[c]
        /\ serviceCount[c] <= 1
        /\ responseRef[c] <= 1

\* The assertions of SignalWorker: who gets a permit finds a free worker,
\* and no worker has the connection already.
WorkerForPermit ==
    /\ permits > 0 => \E w \in Workers : serviceConn[w] = NULL
    /\ \A w \in Workers :
          polled # <<>> /\ ~ Head(polled).examined
             /\ serviceConn[w] = Head(polled).conn => workerPC[w] = "done"

\* The network thread's list holds the connections with an open socket.
LinkedIfOpen ==
    /\ NoRepeats(connections)
    /\ \A c \in Connections \ deleted :
          c \in Members(connections) <=> sock[c] = "open"

\* A connection of Grunt::ClientLink is never deleted a second time: the
\* race in Release needs a linked connection without references, which only
\* NetClient::Disconnect makes.  No socketless connection is polled.
StreamsDeletedOnce ==
    /\ \A t \in Threads : deleting[t] \in Streams => deleting[t] \notin deleted
    /\ fault # "noSocket"

Callbacks == INSTANCE ConnectionCallbacks WITH
    calling <- {serviceConn[w] : w \in {v \in Workers : workerPC[v] \in Events}},
    ending <- {c \in Connections : connState[c] = "DISCONNECTING"}

\* An owner hears that a connection is connected or cannot connect once for
\* each connect, gets data only in between, and hears of the disconnection
\* once, one callback at a time: flags that are served late repeat nothing.
CallbacksSpec == Callbacks!Spec

\* With the one worker InitOsNet starts, no socket is closed twice: whoever
\* connects a disconnected connection again runs on that worker, so its
\* WCDisconnected callback has returned and m_sock is -1.
SocketClosedOnce == fault # "closedTwice"

\* A connection that is told to disconnect gets disconnected, whatever the
\* other connections do, unless its owner gives it up.
EventuallyDisconnected ==
    \A c \in Connections :
        connState[c] = "DISCONNECTING"
            ~> connState[c] = "DISCONNECTED" \/ c \in deleted \/ fault # "none"

\* References, the list of connections and their sockets agree while the
\* network thread scans, workers serve and owners connect and release.
ConnectionsCounted == TypeOK /\ RefsCounted /\ LinkedIfOpen

\* Nothing is given back twice: neither a connection of a link nor a socket.
ReleasedOnce == StreamsDeletedOnce /\ SocketClosedOnce

=============================================================================
