------------------------------ MODULE NetClient ------------------------------
(***************************************************************************)
(* The connection to the game server: NetClient and ClientConnection, and  *)
(* the queue (NETEVENTQUEUE) through which the network's one worker thread *)
(* tells the main thread what happens to m_serverConnection.               *)
(*                                                                         *)
(* The worker runs the WowConnection's callbacks and, when a list of       *)
(* realms arrives for a client that wants to connect, NetClient::Connect.  *)
(* The main thread polls the queue, asks for a connection and disconnects. *)
(* They share m_netState, m_serverConnection, m_statusCop and byte2F5A     *)
(* without a lock; only the queue has one (m_critSect), which Poll holds   *)
(* throughout.  The connections are ConnectionCallbacks.                   *)
(*                                                                         *)
(* The history variable raced records that one of the two races happened   *)
(* after which nothing is promised: an event of a connection that had been *)
(* given up was handled, or a connection was given up while the worker was *)
(* connecting.                                                             *)
(*                                                                         *)
(* Left out: the redirect connection (always null), suspension (never      *)
(* set), deletion (nothing posts EVENT_ID_NET_DESTROY), what messages say, *)
(* and the outcome of operations (m_statusComplete).                       *)
(***************************************************************************)
EXTENDS Integers, Sequences, FiniteSets

CONSTANTS
    Connections,  \* the WowConnections NetClient can ever create
    MaxConnects,  \* bound: calls of ClientConnection::Connect
    MaxQueue      \* bound: no data is received while as many events wait

ASSUME ConnectionsAssumption == Connections # {} /\ IsFiniteSet(Connections)
ASSUME BoundsAssumption == MaxConnects \in Nat /\ MaxQueue \in Nat

VARIABLES
    told, ending,      \* ConnectionCallbacks'
    worker,            \* what the worker thread is doing
    asked,             \* lists of realms asked for that may still arrive
    statusCop,         \* m_statusCop: none, connect or other
    realmJoined,       \* byte2F5A: a list of realms has been used to connect
    netState,          \* m_netState
    serverConnection,  \* m_serverConnection
    replaced,          \* connections that were given up
    connected,         \* m_connected
    queue,             \* m_eventQueue: the event and, for history, its source
    polling,           \* the event Poll is at, or 0
    refCount,          \* m_refCount of the client
    giveUp,            \* where the main thread is in Disconnect
    connects,          \* number of calls of ClientConnection::Connect so far
    raced,             \* whether one of the two races happened
    fatal              \* SErrDisplayAppFatal ended the process

callbackVars == <<told, ending>>
operationVars == <<asked, statusCop, realmJoined, connects>>
queueVars == <<queue, polling, refCount>>
clientVars == <<netState, serverConnection, replaced, connected>>

vars == <<callbackVars, worker, operationVars, clientVars, queueVars, giveUp,
          raced, fatal>>

Events == {"connected", "cantConnect", "ready", "disconnected"}

\* at: "idle"     waiting for a connection to serve
\*     "select"   in ConnectToSelectedServer, before it looks at the state
\*     "connect"  in Connect, before it looks at the state
\*     "reset"    the same, before it sets the state to NS_INITIALIZED
\*     "internal" in ConnectInternal, before it looks at the state
\*     "start"    the same, before it connects m_serverConnection
\*     "check"    called back for an event, before it looks at the connection
\*     "add"      the same, before it adds the event to the queue
Worker ==
    [at : {"idle", "select", "connect", "reset", "internal", "start"}]
    \cup [at : {"check", "add"}, conn : Connections, event : Events]

Connecting == worker.at \in {"connect", "reset", "internal", "start"}

Calling == IF worker.at \in {"check", "add"} THEN {worker.conn} ELSE {}

Callbacks == INSTANCE ConnectionCallbacks WITH
    Streams <- {}, calling <- Calling

\* The main thread is in neither Poll nor Disconnect.
MainFree == polling = 0 /\ giveUp = "no"

----------------------------------------------------------------------------
Init ==
    /\ worker = [at |-> "idle"]
    /\ Callbacks!Init
    /\ asked = 0
    /\ statusCop = "none"
    /\ realmJoined = FALSE
    /\ netState = "INITIALIZED"
    /\ serverConnection \in Connections
    /\ replaced = {}
    /\ connected = FALSE
    /\ queue = <<>> /\ polling = 0 /\ refCount = 0
    /\ giveUp = "no"
    /\ connects = 0
    /\ raced = FALSE
    /\ fatal = FALSE

----------------------------------------------------------------------------
(* The main thread: ClientConnection's operations.                         *)

\* ClientConnection::Connect: start the operation and ask for the realms.
AsksToConnect ==
    /\ connects < MaxConnects
    /\ connects' = connects + 1
    /\ realmJoined' = FALSE
    /\ statusCop' = "connect"
    /\ asked' = asked + 1

Connect ==
    /\ MainFree
    /\ AsksToConnect
    /\ UNCHANGED <<callbackVars, worker, clientVars, queueVars, giveUp, raced,
                   fatal>>

\* Any other operation: AccountLogin, GetRealmList, GetCharacterList, ...
OtherOperation ==
    /\ MainFree
    /\ statusCop' = "other"
    /\ UNCHANGED <<asked, realmJoined, connects>>
    /\ UNCHANGED <<callbackVars, worker, clientVars, queueVars, giveUp, raced,
                   fatal>>

\* Disconnect that leaves the flag of ClientConnection alone.
StaysConnected == connected

\* ClientConnection::Disconnect resets m_connected.
AfterDisconnect == FALSE

\* NetClient::Disconnect of a client that is connected: the connection is
\* told, and NET_DISCONNECT will follow.
Disconnect ==
    /\ MainFree
    /\ netState = "CONNECTED"
    /\ netState' = "DISCONNECTING"
    /\ UNCHANGED worker /\ Callbacks!Disconnect(serverConnection)
    /\ connected' = AfterDisconnect
    /\ UNCHANGED <<operationVars, serverConnection, replaced,
                   queueVars, giveUp, raced, fatal>>

\* Of one that is not: the connection is told as well...
GiveUp ==
    /\ MainFree
    /\ netState # "CONNECTED"
    /\ replaced \cup {serverConnection} # Connections
    /\ UNCHANGED worker /\ Callbacks!Disconnect(serverConnection)
    /\ giveUp' = "clear"
    /\ raced' = (raced \/ Connecting)
    /\ UNCHANGED <<operationVars, clientVars, queueVars, fatal>>

\* ... the queue is cleared, without a DelRef for the events ...
GiveUpClear ==
    /\ giveUp = "clear"
    /\ queue' = <<>>
    /\ giveUp' = "replace"
    /\ UNCHANGED <<callbackVars, worker, operationVars, clientVars, polling,
                   refCount, raced, fatal>>

\* Going on with the connection that was given up.
Same(c) == c = serverConnection

\* A connection that is created now.
New(c) == c \notin replaced \cup {serverConnection}

\* ... the connection is released and a new one takes its place ...
GiveUpReplace ==
    /\ giveUp = "replace"
    /\ \E c \in Connections : New(c) /\ serverConnection' = c
    /\ replaced' = replaced \cup {serverConnection}
    /\ giveUp' = "state"
    /\ UNCHANGED <<callbackVars, worker, operationVars, netState, connected,
                   queueVars, raced, fatal>>

\* ... and the client is as after Initialize.
GiveUpState ==
    /\ giveUp = "state"
    /\ netState' = "INITIALIZED"
    /\ connected' = AfterDisconnect
    /\ giveUp' = "no"
    /\ UNCHANGED <<callbackVars, worker, operationVars, serverConnection,
                   replaced, queueVars, raced, fatal>>

----------------------------------------------------------------------------
(* The main thread: NETEVENTQUEUE::Poll.                                   *)

PollBegin ==
    /\ MainFree
    /\ queue # <<>>
    /\ polling' = 1
    /\ refCount' = refCount + 1
    /\ UNCHANGED <<callbackVars, worker, operationVars, clientVars, queue,
                   giveUp, raced, fatal>>

\* HandleDisconnect without a state of its own.
StaysDisconnecting == "DISCONNECTING"

\* HandleDisconnect makes the client ready to connect again.
AfterNetDisconnect == "INITIALIZED"

HandleConnect ==
    /\ netState' = "CONNECTED"
    /\ connected' = TRUE
    /\ UNCHANGED operationVars

\* NetDisconnectHandler connects again after a change of realm.
HandleDisconnect ==
    /\ netState' = AfterNetDisconnect
    /\ UNCHANGED connected
    /\ AsksToConnect \/ UNCHANGED operationVars

\* HandleCantConnect is empty; messages go to their handlers.
Handle(event) ==
    CASE event = "connected" -> HandleConnect
      [] event = "disconnected" -> HandleDisconnect
      [] OTHER -> UNCHANGED <<netState, connected, operationVars>>

\* One event: its handler, and the DelRef that matches AddEvent's AddRef.
PollNode ==
    /\ polling \in DOMAIN queue
    /\ Handle(queue[polling].event)
    /\ raced' = (raced \/ queue[polling].conn # serverConnection)
    /\ polling' = polling + 1
    /\ refCount' = refCount - 1
    /\ UNCHANGED <<callbackVars, worker, serverConnection, replaced, queue,
                   giveUp, fatal>>

PollEnd ==
    /\ polling = Len(queue) + 1 /\ queue # <<>>
    /\ polling' = 0
    /\ queue' = <<>>
    /\ refCount' = refCount - 1
    /\ UNCHANGED <<callbackVars, worker, operationVars, clientVars, giveUp,
                   raced, fatal>>

----------------------------------------------------------------------------
(* The worker thread: connecting.                                          *)

\* RealmEnumCallback connects once for each Connect.
Joins == statusCop = "connect" /\ ~ realmJoined

\* RealmEnumCallback, for a list of realms or a failure to get one.
RealmList ==
    /\ worker.at = "idle"
    /\ asked > 0
    /\ asked' = asked - 1
    /\ \/ /\ Joins
          /\ realmJoined' = TRUE
          /\ worker' = [at |-> "select"]
       \/ UNCHANGED <<realmJoined, worker>>
    /\ UNCHANGED <<statusCop, connects>>
    /\ UNCHANGED <<callbackVars, clientVars, queueVars, giveUp, raced, fatal>>

\* ConnectToSelectedServer: no realm is selected, or the client is not ready
\* to connect; else Connect.
Select ==
    /\ worker.at = "select"
    /\ \/ worker' = [at |-> "idle"] /\ UNCHANGED raced
       \/ /\ netState = "INITIALIZED"
          /\ worker' = [at |-> "connect"]
          /\ raced' = (raced \/ giveUp # "no")
    /\ UNCHANGED <<callbackVars, operationVars, clientVars, queueVars, giveUp,
                   fatal>>

\* The worker looks at m_netState once more, which may end the process.
Looks(at, next) ==
    /\ worker.at = at
    /\ IF netState = "INITIALIZED"
         THEN worker' = [at |-> next] /\ UNCHANGED fatal
         ELSE fatal' = TRUE /\ UNCHANGED worker

NetConnect ==
    /\ Looks("connect", "reset")
    /\ UNCHANGED <<callbackVars, operationVars, clientVars, queueVars, giveUp,
                   raced>>

NetConnectReset ==
    /\ worker.at = "reset"
    /\ worker' = [at |-> "internal"]
    /\ netState' = "INITIALIZED"
    /\ UNCHANGED <<callbackVars, operationVars, serverConnection, replaced,
                   connected, queueVars, giveUp, raced, fatal>>

ConnectInternal ==
    /\ Looks("internal", "start")
    /\ netState' = IF fatal' THEN netState ELSE "CONNECTING"
    /\ UNCHANGED <<callbackVars, operationVars, serverConnection, replaced,
                   connected, queueVars, giveUp, raced>>

ConnectStart ==
    /\ worker.at = "start"
    /\ worker' = [at |-> "idle"]
    /\ Callbacks!Connect(serverConnection)
    /\ UNCHANGED <<operationVars, clientVars, queueVars, giveUp, raced, fatal>>

----------------------------------------------------------------------------
(* The worker thread: the connections' callbacks.                          *)

\* WCDisconnected does not look at the connection.
CallBack(c, event) ==
    /\ worker.at = "idle"
    /\ event = "ready" => Len(queue) < MaxQueue
    /\ worker' = [at |-> IF event = "disconnected" THEN "add" ELSE "check",
                  conn |-> c, event |-> event]
    /\ Callbacks!CallBack(c, event)
    /\ UNCHANGED <<operationVars, clientVars, queueVars, giveUp, raced, fatal>>

\* Callbacks that take events of any connection.
AnyConnection(c) == TRUE

\* The others take events of m_serverConnection only.
Expected(c) == c = serverConnection

\* WCConnected, WCCantConnect, WCMessageReady and AuthChallengeHandler.  A
\* message of another connection disconnects it.
CallBackCheck ==
    /\ worker.at = "check"
    /\ IF Expected(worker.conn)
         THEN worker' = [worker EXCEPT !.at = "add"] /\ UNCHANGED callbackVars
         ELSE /\ worker' = [at |-> "idle"]
              /\ IF worker.event = "ready"
                   THEN ending' = ending \cup {worker.conn} /\ UNCHANGED told
                   ELSE UNCHANGED callbackVars
    /\ UNCHANGED <<operationVars, clientVars, queueVars, giveUp, raced, fatal>>

\* A queue whose last event is handled first.
LinkedAtHead(event) == <<event>> \o queue

\* NewNode links the event at the tail.
LinkedAtTail(event) == Append(queue, event)

\* An event that does not keep its client.
WithoutRef == refCount

\* The client's AddRef for the event.
WithRef == refCount + 1

\* AddEvent, which waits while the main thread polls.
AddEvent ==
    /\ worker.at = "add"
    /\ polling = 0
    /\ queue' = LinkedAtTail([event |-> worker.event, conn |-> worker.conn])
    /\ refCount' = WithRef
    /\ worker' = [at |-> "idle"]
    /\ UNCHANGED <<callbackVars, operationVars, clientVars, polling, giveUp,
                   raced, fatal>>

----------------------------------------------------------------------------
Poll == PollBegin \/ PollNode \/ PollEnd

Main ==
    \/ Connect \/ OtherOperation \/ Disconnect \/ GiveUp
    \/ GiveUpClear \/ GiveUpReplace \/ GiveUpState \/ Poll

WorkerGoesOn ==
    \/ Select \/ NetConnect \/ NetConnectReset \/ ConnectInternal
    \/ ConnectStart \/ CallBackCheck \/ AddEvent

WorkerStep ==
    \/ RealmList \/ WorkerGoesOn
    \/ \E c \in Connections, event \in Events : CallBack(c, event)

Next == ~ fatal /\ (Main \/ WorkerStep)

Spec == Init /\ [][Next]_vars

\* The event loop polls, the worker comes back from its callbacks, and a
\* connection told to disconnect does so (EventuallyDisconnected).
FairSpec ==
    /\ Spec
    /\ SF_vars(~ fatal /\ PollBegin)
    /\ WF_vars(~ fatal /\ (PollNode \/ PollEnd))
    /\ WF_vars(~ fatal /\ (GiveUpClear \/ GiveUpReplace \/ GiveUpState))
    /\ SF_vars(~ fatal /\ WorkerGoesOn)
    /\ \A c \in Connections : SF_vars(~ fatal /\ CallBack(c, "disconnected"))

----------------------------------------------------------------------------
(* Properties.                                                             *)

\* Every variable holds a value of its type; the client's reference count
\* never falls below zero, and Poll stays within its queue.
TypeOK ==
    /\ told \in [Connections -> {"nothing", "connecting", "connected",
                                 "cantConnect", "disconnected"}]
    /\ ending \subseteq Connections
    /\ worker \in Worker
    /\ asked \in Nat
    /\ statusCop \in {"none", "connect", "other"}
    /\ realmJoined \in BOOLEAN
    /\ netState \in {"INITIALIZED", "CONNECTING", "CONNECTED", "DISCONNECTING"}
    /\ serverConnection \in Connections
    /\ replaced \subseteq Connections
    /\ connected \in BOOLEAN
    /\ queue \in Seq([event : Events, conn : Connections])
    /\ polling \in 0..(Len(queue) + 1)
    /\ refCount \in Nat
    /\ giveUp \in {"no", "clear", "replace", "state"}
    /\ connects \in 0..MaxConnects
    /\ raced \in BOOLEAN
    /\ fatal \in BOOLEAN

\* Nothing is under way: no event, no callback, no call.
Settled == queue = <<>> /\ worker.at = "idle" /\ MainFree

\* Once everything that happened has been handled, the client's state is
\* the connection's.
StateOfConnection ==
    Settled /\ ~ raced =>
        /\ told[serverConnection] \in
             (CASE netState = "INITIALIZED" -> {"nothing", "disconnected"}
                [] netState = "CONNECTING" -> {"connecting", "cantConnect"}
                [] OTHER -> {"connected"})
        /\ netState = "DISCONNECTING" <=> serverConnection \in ending
        /\ connected <=> netState = "CONNECTED"

\* NetClient keeps to the protocol of its connections: none is connected
\* that is connected or connecting already.
ConnectsIdleConnection ==
    worker.at = "start" /\ ~ raced => Callbacks!MayConnect(serverConnection)

\* Clearing the queue and comparing connections keep the events of a
\* replaced connection from mixing with the new one's: those that slip
\* through come first.  WCDisconnected does not compare.
ReplacedFirst ==
    \A i, j \in DOMAIN queue :
        i < j /\ queue[i].conn = serverConnection
            => \/ queue[j].conn = serverConnection
               \/ queue[j].event = "disconnected"

\* Messages of the current connection are handled while the client takes
\* itself for connected to it.
DataWhileConnected ==
    \/ polling \notin DOMAIN queue \/ raced
    \/ queue[polling] # [event |-> "ready", conn |-> serverConnection]
    \/ netState \in {"CONNECTED", "DISCONNECTING"}

\* Disconnecting comes to an end, and the client can connect again.
DisconnectingEnds ==
    netState = "DISCONNECTING" ~> netState # "DISCONNECTING" \/ raced \/ fatal

\* Each reference of the client is matched by an event of its queue, or is
\* Poll's own (the comment in NETEVENTQUEUE::Poll).
RefPerEvent ==
    refCount = IF polling = 0 THEN Len(queue) ELSE Len(queue) - polling + 2

\* NetClient::Connect and ConnectInternal find the client in the state they
\* expect.
NeverFatal == ~ fatal

\* The client's variables have their types, and once all is handled they are
\* those of its connection.
ClientFollows == TypeOK /\ StateOfConnection

\* The queue keeps apart the events of a connection that was replaced from
\* those of its successor, and data comes while the client is connected.
EventsInOrder == ReplacedFirst /\ DataWhileConnected

=============================================================================
