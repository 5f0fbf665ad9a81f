--------------------------- MODULE NetClientProofs ---------------------------
(***************************************************************************)
(* Theorems about NetClient, for any connections and any bounds.           *)
(***************************************************************************)
EXTENDS NetClient, SequenceTheorems, TLAPS

----------------------------------------------------------------------------
(* The inductive invariant, in parts.                                      *)

\* The main thread polls or gives a connection up, and the client has its
\* references for the events that are still to be handled.
MainSound ==
    /\ polling = 0 \/ giveUp = "no"
    /\ refCount >= IF polling = 0 THEN Len(queue) ELSE Len(queue) - polling + 2

\* A callback or an event of connection c is under way.
Brings(c) == worker.at \in {"check", "add"} /\ worker.conn = c
Mentions(c) == Brings(c) \/ \E i \in DOMAIN queue : queue[i].conn = c

Unknown(c) == told[c] = "nothing" /\ c \notin ending /\ ~ Mentions(c)

\* The connections that were not created yet are unknown to everybody.
FreshUnknown == \A c \in Connections : New(c) => Unknown(c)

\* The order of ReplacedFirst, which an event about to be added keeps.
QueueOrdered ==
    /\ ReplacedFirst
    /\ worker.at = "add" /\ worker.event # "disconnected"
          /\ worker.conn # serverConnection
         => \A i \in DOMAIN queue : queue[i].conn # serverConnection

\* An event of the client's connection that is not handled yet.
Waits(i) ==
    i \in DOMAIN queue /\ i >= polling /\ queue[i].conn = serverConnection

AllWaitingAre(event) ==
    /\ \A i \in DOMAIN queue : Waits(i) => queue[i].event = event
    /\ Brings(serverConnection) => worker.event = event

NoneWaits ==
    /\ \A i \in DOMAIN queue : ~ Waits(i)
    /\ ~ Brings(serverConnection)

\* The connection's success comes first, then data.
ConnectedWaits ==
    \/ /\ Brings(serverConnection) /\ worker.event = "connected"
       /\ \A i \in DOMAIN queue : ~ Waits(i)
    \/ /\ Brings(serverConnection) => worker.event = "ready"
       /\ \E i \in DOMAIN queue :
             /\ Waits(i) /\ queue[i].event = "connected"
             /\ \A j \in DOMAIN queue :
                   Waits(j) /\ j # i => j > i /\ queue[j].event = "ready"

\* The data comes first, then the end.
DisconnectedWaits ==
    \/ /\ Brings(serverConnection) /\ worker.event = "disconnected"
       /\ \A i \in DOMAIN queue : Waits(i) => queue[i].event = "ready"
    \/ /\ ~ Brings(serverConnection)
       /\ \E i \in DOMAIN queue :
             /\ Waits(i) /\ queue[i].event = "disconnected"
             /\ \A j \in DOMAIN queue :
                   Waits(j) /\ j # i => j < i /\ queue[j].event = "ready"

\* The client's state is what its connection told, but for the events that
\* still wait.
StateFollows ==
    LET known == told[serverConnection]
        ended == serverConnection \in ending
    IN CASE netState = "INITIALIZED" ->
              known \in {"nothing", "disconnected"} /\ ~ ended /\ NoneWaits
         [] netState = "CONNECTING" ->
              /\ ~ ended
              /\ CASE known \in {"nothing", "disconnected"} ->
                        worker.at = "start" /\ NoneWaits
                   [] known = "connecting" -> worker.at # "start" /\ NoneWaits
                   [] known = "cantConnect" ->
                        worker.at # "start" /\ AllWaitingAre("cantConnect")
                   [] OTHER -> worker.at # "start" /\ ConnectedWaits
         [] netState = "CONNECTED" ->
              known = "connected" /\ ~ ended /\ AllWaitingAre("ready")
         [] OTHER ->
              \/ known = "connected" /\ ended /\ AllWaitingAre("ready")
              \/ known = "disconnected" /\ ~ ended /\ DisconnectedWaits

Follows ==
    /\ connected <=> netState = "CONNECTED"
    /\ giveUp # "no" => ~ Connecting /\ netState # "CONNECTED"
    /\ giveUp = "state" => Unknown(serverConnection)
    /\ giveUp = "no" => StateFollows
    /\ worker.at \in {"connect", "reset", "internal"} => netState = "INITIALIZED"
    /\ worker.at = "start" => netState = "CONNECTING"

\* Until a race happens.
Undisturbed == ~ raced => Follows

IInv ==
    TypeOK /\ MainSound /\ FreshUnknown /\ QueueOrdered /\ Undisturbed

----------------------------------------------------------------------------
(* Types.                                                                  *)

LEMMA WorkerType ==
    ASSUME TypeOK, worker.at \in {"check", "add"}
    PROVE  worker.conn \in Connections /\ worker.event \in Events
BY DEF TypeOK, Worker

LEMMA WorkerIs ==
    /\ \A at \in {"idle", "select", "connect", "reset", "internal", "start"} :
          [at |-> at] \in Worker /\ [at |-> at].at = at
    /\ \A at \in {"check", "add"}, c \in Connections, event \in Events :
          [at |-> at, conn |-> c, event |-> event] \in Worker
BY DEF Worker

\* A callback that goes on to add its event.
LEMMA GoesOnToAdd ==
    ASSUME TypeOK, worker.at = "check"
    PROVE  /\ [worker EXCEPT !.at = "add"] \in Worker
           /\ [worker EXCEPT !.at = "add"].at = "add"
           /\ [worker EXCEPT !.at = "add"].conn = worker.conn
           /\ [worker EXCEPT !.at = "add"].event = worker.event
BY DEF TypeOK, Worker

LEMMA QueueElements ==
    ASSUME TypeOK, NEW i \in DOMAIN queue
    PROVE  queue[i] \in [event : Events, conn : Connections] /\ i \in 1..Len(queue)
<1>. DEFINE E == [event : Events, conn : Connections]
<1>. HIDE DEF E
<1>1. queue \in Seq(E)
  BY DEF TypeOK, E
<1>2. i \in 1..Len(queue)
  BY <1>1
<1>3. queue[i] \in E
  BY <1>1, <1>2, ElementOfSeq
<1>. QED  BY <1>2, <1>3 DEF E

LEMMA Appends ==
    ASSUME TypeOK, NEW e \in [event : Events, conn : Connections], queue' = Append(queue, e)
    PROVE  /\ queue' \in Seq([event : Events, conn : Connections])
           /\ Len(queue') = Len(queue) + 1 /\ DOMAIN queue' = DOMAIN queue \cup {Len(queue) + 1}
           /\ \A i \in DOMAIN queue : queue'[i] = queue[i] /\ i < Len(queue) + 1
           /\ queue'[Len(queue) + 1] = e /\ Len(queue) \in Nat
BY DEF TypeOK

\* The queue with the worker's event at its end.
LEMMA AddedEvent ==
    ASSUME TypeOK, AddEvent
    PROVE  /\ queue' \in Seq([event : Events, conn : Connections])
           /\ Len(queue') = Len(queue) + 1 /\ Len(queue) \in Nat
           /\ DOMAIN queue = 1..Len(queue) /\ DOMAIN queue' = 1..(Len(queue) + 1)
           /\ \A i \in DOMAIN queue : queue'[i] = queue[i]
           /\ queue'[Len(queue) + 1].conn = worker.conn
           /\ queue'[Len(queue) + 1].event = worker.event
<1>. DEFINE e == [event |-> worker.event, conn |-> worker.conn]
<1>1. e \in [event : Events, conn : Connections]
  BY WorkerType DEF AddEvent
<1>2. queue' = Append(queue, e)
  BY DEF AddEvent, LinkedAtTail
<1>3. e.conn = worker.conn /\ e.event = worker.event
  OBVIOUS
<1>. HIDE DEF e
<1>. QED  BY <1>1, <1>2, <1>3, Appends DEF TypeOK

LEMMA AsksType ==
    ASSUME TypeOK, AsksToConnect
    PROVE  asked' \in Nat /\ connects' \in 0..MaxConnects
<1>1. MaxConnects \in Nat /\ connects \in 0..MaxConnects /\ asked \in Nat
  BY BoundsAssumption DEF TypeOK
<1>. QED  BY <1>1 DEF AsksToConnect

LEMMA TypeStep == IInv /\ [Next]_vars => TypeOK'
<1>. SUFFICES ASSUME IInv, [Next]_vars
              PROVE  TypeOK'
  OBVIOUS
<1>. USE DEF callbackVars, operationVars, clientVars, queueVars
<1>0. TypeOK /\ MainSound
  BY DEF IInv
<1>1. MaxConnects \in Nat
  BY BoundsAssumption
<1>2. CASE UNCHANGED vars
  BY <1>0, <1>2 DEF vars, TypeOK
<1>3. CASE Connect
  <2>1. asked' \in Nat /\ connects' \in 0..MaxConnects
    BY <1>0, <1>3, AsksType DEF Connect
  <2>. QED  BY <1>0, <1>3, <2>1 DEF Connect, AsksToConnect, TypeOK
<1>4. CASE OtherOperation
  BY <1>0, <1>4 DEF OtherOperation, TypeOK
<1>5. CASE Disconnect
  BY <1>0, <1>5 DEF Disconnect, AfterDisconnect, Callbacks!Disconnect, TypeOK
<1>6. CASE GiveUp
  BY <1>0, <1>6 DEF GiveUp, Callbacks!Disconnect, TypeOK
<1>7. CASE GiveUpClear
  <2>1. polling' = 0 /\ queue' = <<>>
    BY <1>0, <1>7 DEF GiveUpClear, MainSound
  <2>2. queue' \in Seq([event : Events, conn : Connections]) /\ polling' \in 0..(Len(queue') + 1)
    BY <2>1
  <2>. QED  BY <1>0, <1>7, <2>2 DEF GiveUpClear, TypeOK
<1>8. CASE GiveUpReplace
  BY <1>0, <1>8 DEF GiveUpReplace, TypeOK
<1>9. CASE GiveUpState
  BY <1>0, <1>9 DEF GiveUpState, AfterDisconnect, TypeOK
<1>10. CASE PollBegin
  <2>1. Len(queue) \in Nat
    BY <1>0 DEF TypeOK
  <2>. QED  BY <1>0, <1>10, <2>1 DEF PollBegin, TypeOK
<1>11. CASE PollNode
  <2>1. /\ polling \in 1..Len(queue) /\ Len(queue) \in Nat
        /\ refCount' = refCount - 1 /\ polling' = polling + 1 /\ UNCHANGED queue
    BY <1>0, <1>11, QueueElements DEF PollNode, TypeOK
  <2>2. refCount' \in Nat /\ polling' \in 0..(Len(queue') + 1)
    BY <1>0, <2>1 DEF MainSound, TypeOK
  <2>3. /\ netState' \in {"INITIALIZED", "CONNECTING", "CONNECTED", "DISCONNECTING"}
        /\ connected' \in BOOLEAN
    BY <1>0, <1>11 DEF PollNode, Handle, HandleConnect, HandleDisconnect, AfterNetDisconnect,
                       TypeOK
  <2>4. /\ asked' \in Nat /\ connects' \in 0..MaxConnects /\ realmJoined' \in BOOLEAN
        /\ statusCop' \in {"none", "connect", "other"}
    <3>1. AsksToConnect \/ UNCHANGED operationVars
      BY <1>11 DEF PollNode, Handle, HandleConnect, HandleDisconnect
    <3>2. CASE AsksToConnect
      BY <1>0, <3>2, AsksType DEF AsksToConnect
    <3>3. CASE UNCHANGED operationVars
      BY <1>0, <3>3 DEF TypeOK
    <3>. QED  BY <3>1, <3>2, <3>3
  <2>5. raced' \in BOOLEAN
    BY <1>0, <1>11 DEF PollNode, TypeOK
  <2>. QED  BY <1>0, <1>11, <2>1, <2>2, <2>3, <2>4, <2>5 DEF PollNode, TypeOK
<1>12. CASE PollEnd
  <2>1. /\ polling' = 0 /\ queue' = <<>> /\ refCount' = refCount - 1
        /\ polling = Len(queue) + 1 /\ Len(queue) \in Nat
    BY <1>0, <1>12 DEF PollEnd, TypeOK
  <2>2. refCount' \in Nat
    BY <1>0, <2>1 DEF MainSound, TypeOK
  <2>3. queue' \in Seq([event : Events, conn : Connections]) /\ polling' \in 0..(Len(queue') + 1)
    BY <2>1
  <2>. QED  BY <1>0, <1>12, <2>2, <2>3 DEF PollEnd, TypeOK
<1>13. CASE RealmList
  <2>1. worker' \in Worker
    BY <1>0, <1>13, WorkerIs DEF RealmList, TypeOK
  <2>2. asked' \in Nat
    BY <1>0, <1>13 DEF RealmList, TypeOK
  <2>3. realmJoined' \in BOOLEAN
    BY <1>0, <1>13 DEF RealmList, TypeOK
  <2>. QED  BY <1>0, <1>13, <2>1, <2>2, <2>3 DEF RealmList, TypeOK
<1>14. CASE Select
  <2>1. worker' \in Worker /\ raced' \in BOOLEAN
    BY <1>0, <1>14, WorkerIs DEF Select, TypeOK
  <2>. QED  BY <1>0, <1>14, <2>1 DEF Select, TypeOK
<1>15. CASE NetConnect
  <2>1. worker' \in Worker /\ fatal' \in BOOLEAN
    BY <1>0, <1>15, WorkerIs DEF NetConnect, Looks, TypeOK
  <2>. QED  BY <1>0, <1>15, <2>1 DEF NetConnect, TypeOK
<1>16. CASE NetConnectReset
  <2>1. worker' \in Worker
    BY <1>16, WorkerIs DEF NetConnectReset
  <2>. QED  BY <1>0, <1>16, <2>1 DEF NetConnectReset, TypeOK
<1>17. CASE ConnectInternal
  <2>1. worker' \in Worker /\ fatal' \in BOOLEAN
    BY <1>0, <1>17, WorkerIs DEF ConnectInternal, Looks, TypeOK
  <2>. QED  BY <1>0, <1>17, <2>1 DEF ConnectInternal, TypeOK
<1>18. CASE ConnectStart
  <2>1. worker' \in Worker
    BY <1>18, WorkerIs DEF ConnectStart
  <2>. QED  BY <1>0, <1>18, <2>1 DEF ConnectStart, Callbacks!Connect, TypeOK
<1>19. CASE CallBackCheck
  <2>1. worker' \in Worker
    BY <1>0, <1>19, WorkerIs, GoesOnToAdd DEF CallBackCheck, TypeOK
  <2>2. ending' \subseteq Connections /\ UNCHANGED told
    BY <1>0, <1>19, WorkerType DEF CallBackCheck, TypeOK
  <2>. QED  BY <1>0, <1>19, <2>1, <2>2 DEF CallBackCheck, TypeOK
<1>20. CASE AddEvent
  <2>. DEFINE e == [event |-> worker.event, conn |-> worker.conn]
  <2>1. e \in [event : Events, conn : Connections]
    BY <1>0, <1>20, WorkerType DEF AddEvent
  <2>2. queue' = Append(queue, e)
    BY <1>20 DEF AddEvent, LinkedAtTail
  <2>. HIDE DEF e
  <2>5. /\ queue' \in Seq([event : Events, conn : Connections])
        /\ Len(queue') = Len(queue) + 1 /\ Len(queue) \in Nat
    BY <1>0, <2>1, <2>2, Appends
  <2>6. polling' = 0
    BY <1>20 DEF AddEvent
  <2>3. /\ queue' \in Seq([event : Events, conn : Connections])
        /\ polling' \in 0..(Len(queue') + 1)
    BY <2>5, <2>6
  <2>4. worker' \in Worker /\ refCount' \in Nat
    BY <1>0, <1>20, WorkerIs DEF AddEvent, WithRef, TypeOK
  <2>. QED  BY <1>0, <1>20, <2>3, <2>4 DEF AddEvent, TypeOK
<1>21. ASSUME NEW c \in Connections, NEW event \in Events, CallBack(c, event)
       PROVE  TypeOK'
  <2>1. worker' \in Worker
    BY <1>21, WorkerIs DEF CallBack
  <2>2. /\ told' \in [Connections -> {"nothing", "connecting", "connected",
                                      "cantConnect", "disconnected"}]
        /\ ending' \subseteq Connections
    BY <1>0, <1>21 DEF CallBack, Callbacks!CallBack, TypeOK, Events
  <2>. QED  BY <1>0, <1>21, <2>1, <2>2 DEF CallBack, TypeOK
<1>. QED
  BY <1>2, <1>3, <1>4, <1>5, <1>6, <1>7, <1>8, <1>9, <1>10, <1>11, <1>12, <1>13, <1>14,
     <1>15, <1>16, <1>17, <1>18, <1>19, <1>20, <1>21
     DEF Next, Main, Poll, WorkerStep, WorkerGoesOn

LEMMA MainStep == IInv /\ [Next]_vars => MainSound'
<1>. SUFFICES ASSUME IInv, [Next]_vars
              PROVE  MainSound'
  OBVIOUS
<1>. USE DEF callbackVars, operationVars, clientVars, queueVars, MainSound
<1>0. TypeOK /\ MainSound /\ Len(queue) \in Nat
  BY DEF IInv, TypeOK
<1>1. CASE UNCHANGED <<queueVars, giveUp>>
  BY <1>0, <1>1
<1>2. CASE GiveUp \/ GiveUpReplace \/ GiveUpState
  BY <1>0, <1>2 DEF GiveUp, GiveUpReplace, GiveUpState, MainFree
<1>3. CASE GiveUpClear
  <2>1. polling' = 0 /\ Len(queue') = 0 /\ refCount' \in Nat
    BY <1>0, <1>3 DEF GiveUpClear, TypeOK
  <2>. QED  BY <2>1
<1>4. CASE PollBegin
  BY <1>0, <1>4 DEF PollBegin, MainFree, TypeOK
<1>5. CASE PollNode
  BY <1>0, <1>5, QueueElements DEF PollNode, TypeOK
<1>6. CASE PollEnd
  <2>1. polling' = 0 /\ Len(queue') = 0 /\ refCount >= 1 /\ refCount' = refCount - 1
    BY <1>0, <1>6 DEF PollEnd, TypeOK
  <2>. QED  BY <1>0, <2>1 DEF TypeOK
<1>7. CASE AddEvent
  <2>1. /\ [event |-> worker.event, conn |-> worker.conn] \in [event : Events, conn : Connections]
        /\ queue' = Append(queue, [event |-> worker.event, conn |-> worker.conn])
    BY <1>0, <1>7, WorkerType DEF AddEvent, LinkedAtTail
  <2>2. Len(queue') = Len(queue) + 1 /\ polling' = 0 /\ refCount' = refCount + 1
    BY <1>0, <1>7, <2>1, Appends DEF AddEvent, WithRef
  <2>. QED  BY <1>0, <1>7, <2>2 DEF AddEvent, TypeOK
<1>. QED
  BY <1>1, <1>2, <1>3, <1>4, <1>5, <1>6, <1>7
     DEF vars, Next, Main, Poll, WorkerStep, WorkerGoesOn, Connect, OtherOperation, Disconnect,
         RealmList, Select, NetConnect, NetConnectReset, ConnectInternal, ConnectStart,
         CallBackCheck, CallBack

----------------------------------------------------------------------------
(* Connections that were given up, and those still to come.                *)

\* Nothing happens to a connection that is not the client's, or that the
\* worker does not connect.
LEMMA UnknownStays ==
    ASSUME TypeOK, Next, NEW c \in Connections, Unknown(c),
           worker.at = "start" => c # serverConnection
    PROVE  Unknown(c)'
<1>. USE DEF callbackVars, operationVars, clientVars, queueVars
<1>1. /\ told[c] = "nothing" /\ c \notin ending
      /\ worker.at \in {"check", "add"} => worker.conn # c
      /\ \A i \in DOMAIN queue : queue[i].conn # c
  BY DEF Unknown, Mentions, Brings
<1>2. told'[c] = "nothing" /\ c \notin ending'
  <2>1. CASE UNCHANGED <<told, ending>>
    BY <1>1, <2>1
  <2>2. CASE Disconnect \/ GiveUp
    BY <1>1, <2>2 DEF Disconnect, GiveUp, Callbacks!Disconnect
  <2>3. CASE ConnectStart
    BY <1>1, <2>3 DEF ConnectStart, Callbacks!Connect, TypeOK
  <2>4. CASE CallBackCheck
    BY <1>1, <2>4 DEF CallBackCheck
  <2>5. ASSUME NEW d \in Connections, NEW event \in Events, CallBack(d, event)
        PROVE  told'[c] = "nothing" /\ c \notin ending'
    <3>1. d # c
      BY <1>1, <2>5 DEF CallBack, Callbacks!CallBack, Events
    <3>. QED  BY <1>1, <2>5, <3>1 DEF CallBack, Callbacks!CallBack, TypeOK
  <2>. QED
    BY <2>1, <2>2, <2>3, <2>4, <2>5
       DEF Next, Main, Poll, WorkerStep, WorkerGoesOn, Connect, OtherOperation,
           GiveUpClear, GiveUpReplace, GiveUpState, PollBegin, PollNode, PollEnd,
           RealmList, Select, NetConnect, NetConnectReset, ConnectInternal, AddEvent
<1>3. worker'.at \in {"check", "add"} => worker'.conn # c
  <2>1. CASE UNCHANGED worker \/ worker'.at \notin {"check", "add"}
    BY <1>1, <2>1
  <2>2. ASSUME NEW d \in Connections, NEW event \in Events, CallBack(d, event)
        PROVE  worker'.conn = d /\ d # c
    BY <1>1, <2>2 DEF CallBack, Callbacks!CallBack, Events
  <2>3. CASE CallBackCheck
    <3>1. worker.at = "check"
      BY <2>3 DEF CallBackCheck
    <3>2. worker'.conn = worker.conn \/ worker'.at = "idle"
      BY <2>3, <3>1, GoesOnToAdd, WorkerIs DEF CallBackCheck
    <3>. QED  BY <1>1, <3>1, <3>2
  <2>4. CASE \/ RealmList \/ Select \/ NetConnect \/ NetConnectReset \/ ConnectInternal
             \/ ConnectStart \/ AddEvent
    <3>1. \/ UNCHANGED worker
          \/ \E at \in {"idle", "select", "connect", "reset", "internal", "start"} :
                worker' = [at |-> at]
      BY <2>4 DEF RealmList, Select, NetConnect, NetConnectReset, ConnectInternal,
                  ConnectStart, AddEvent, Looks
    <3>. QED  BY <2>1, <3>1, WorkerIs
  <2>. QED
    BY <2>1, <2>2, <2>3, <2>4
       DEF Next, Main, Poll, WorkerStep, WorkerGoesOn, Connect, OtherOperation, Disconnect,
           GiveUp, GiveUpClear, GiveUpReplace, GiveUpState, PollBegin, PollNode, PollEnd
<1>4. \A i \in DOMAIN queue' : queue'[i].conn # c
  <2>1. CASE UNCHANGED queue
    BY <1>1, <2>1
  <2>2. CASE GiveUpClear \/ PollEnd
    BY <2>2 DEF GiveUpClear, PollEnd
  <2>3. CASE AddEvent
    BY <1>1, <2>3, AddedEvent DEF AddEvent
  <2>. QED
    BY <2>1, <2>2, <2>3
       DEF Next, Main, Poll, WorkerStep, WorkerGoesOn, Connect, OtherOperation, Disconnect,
           GiveUp, GiveUpReplace, GiveUpState, PollBegin, PollNode,
           RealmList, Select, NetConnect, NetConnectReset, ConnectInternal, ConnectStart,
           CallBackCheck, CallBack
<1>. QED  BY <1>2, <1>3, <1>4 DEF Unknown, Mentions, Brings

LEMMA FreshStep == IInv /\ [Next]_vars => FreshUnknown'
<1>. SUFFICES ASSUME IInv, [Next]_vars, NEW c \in Connections, New(c)'
              PROVE  Unknown(c)'
  BY DEF FreshUnknown
<1>0. TypeOK /\ FreshUnknown
  BY DEF IInv
<1>. USE DEF callbackVars, operationVars, clientVars, queueVars
<1>1. replaced \cup {serverConnection} \subseteq replaced' \cup {serverConnection'}
  <2>1. CASE UNCHANGED <<replaced, serverConnection>>
    BY <2>1
  <2>2. CASE GiveUpReplace
    BY <2>2 DEF GiveUpReplace
  <2>. QED
    BY <2>1, <2>2
       DEF vars, Next, Main, Poll, WorkerStep, WorkerGoesOn, Connect, OtherOperation, Disconnect,
           GiveUp, GiveUpClear, GiveUpState, PollBegin, PollNode, PollEnd,
           RealmList, Select, NetConnect, NetConnectReset, ConnectInternal, ConnectStart,
           CallBackCheck, CallBack, AddEvent
<1>2. New(c)
  BY <1>1 DEF New
<1>3. Unknown(c) /\ c # serverConnection
  BY <1>0, <1>2 DEF FreshUnknown, New
<1>4. CASE UNCHANGED vars
  BY <1>3, <1>4 DEF vars, Unknown, Mentions, Brings
<1>. QED  BY <1>0, <1>3, <1>4, UnknownStays

LEMMA OrderStep == IInv /\ [Next]_vars => QueueOrdered'
<1>. SUFFICES ASSUME IInv, [Next]_vars
              PROVE  QueueOrdered'
  OBVIOUS
<1>. USE DEF callbackVars, operationVars, clientVars, queueVars
<1>0. TypeOK /\ FreshUnknown /\ QueueOrdered
  BY DEF IInv
<1>1. CASE UNCHANGED <<queue, worker, serverConnection>>
  BY <1>0, <1>1 DEF QueueOrdered, ReplacedFirst
<1>2. CASE GiveUpClear \/ PollEnd
  BY <1>2 DEF GiveUpClear, PollEnd, QueueOrdered, ReplacedFirst
<1>3. CASE GiveUpReplace
  <2>1. Unknown(serverConnection') /\ UNCHANGED <<queue, worker>>
    BY <1>0, <1>3 DEF GiveUpReplace, FreshUnknown
  <2>. QED  BY <2>1 DEF Unknown, Mentions, QueueOrdered, ReplacedFirst
<1>4. CASE AddEvent
  <2>1. UNCHANGED serverConnection /\ worker'.at = "idle" /\ worker.at = "add"
    BY <1>4, WorkerIs DEF AddEvent
  <2>2. ASSUME NEW i \in DOMAIN queue', NEW j \in DOMAIN queue', i < j,
               queue'[i].conn = serverConnection, queue'[j].conn # serverConnection
        PROVE  queue'[j].event = "disconnected"
    <3>1. i \in DOMAIN queue
      BY <1>0, <1>4, <2>2, AddedEvent
    <3>2. CASE j \in DOMAIN queue
      BY <1>0, <1>4, <2>2, <3>1, <3>2, AddedEvent DEF QueueOrdered, ReplacedFirst
    <3>3. CASE j \notin DOMAIN queue
      BY <1>0, <1>4, <2>1, <2>2, <3>1, <3>3, AddedEvent DEF QueueOrdered
    <3>. QED  BY <3>2, <3>3
  <2>. QED  BY <2>1, <2>2 DEF QueueOrdered, ReplacedFirst
<1>5. ASSUME UNCHANGED <<queue, serverConnection>>,
             worker'.at = "add" => worker'.event = "disconnected"
                                     \/ worker'.conn = serverConnection
      PROVE  QueueOrdered'
  BY <1>0, <1>5 DEF QueueOrdered, ReplacedFirst
<1>6. CASE CallBackCheck
  BY <1>0, <1>5, <1>6, GoesOnToAdd, WorkerIs DEF CallBackCheck, Expected
<1>7. ASSUME NEW c \in Connections, NEW event \in Events, CallBack(c, event)
      PROVE  QueueOrdered'
  BY <1>5, <1>7 DEF CallBack
<1>8. CASE \/ RealmList \/ Select \/ NetConnect \/ NetConnectReset \/ ConnectInternal
           \/ ConnectStart
  <2>1. /\ UNCHANGED <<queue, serverConnection>>
        /\ \/ UNCHANGED worker
           \/ \E at \in {"idle", "select", "connect", "reset", "internal", "start"} :
                 worker' = [at |-> at]
    BY <1>8 DEF RealmList, Select, NetConnect, NetConnectReset, ConnectInternal,
                ConnectStart, Looks
  <2>. QED  BY <1>1, <1>5, <2>1, WorkerIs
<1>. QED
  BY <1>1, <1>2, <1>3, <1>4, <1>6, <1>7, <1>8
     DEF vars, Next, Main, Poll, WorkerStep, WorkerGoesOn, Connect, OtherOperation, Disconnect,
         GiveUp, GiveUpState, PollBegin, PollNode

----------------------------------------------------------------------------
(* The client's state.                                                     *)

\* A worker that serves no connection, or connects, brings nothing.
LEMMA BringsNothing ==
    ASSUME worker.at \notin {"check", "add"}
    PROVE  \A c : ~ Brings(c)
BY DEF Brings

\* What StateFollows looks at stays the same.
LEMMA SameFollows ==
    ASSUME StateFollows, UNCHANGED <<serverConnection, netState>>,
           told'[serverConnection] = told[serverConnection],
           serverConnection \in ending' <=> serverConnection \in ending,
           worker'.at = "start" <=> worker.at = "start",
           Brings(serverConnection)' <=> Brings(serverConnection),
           Brings(serverConnection) => worker'.event = worker.event,
           UNCHANGED queue, \A i \in DOMAIN queue : Waits(i)' <=> Waits(i)
    PROVE  StateFollows'
<1>1. NoneWaits' <=> NoneWaits
  BY DEF NoneWaits
<1>2. \A event : AllWaitingAre(event)' <=> AllWaitingAre(event)
  BY DEF AllWaitingAre
<1>3. ConnectedWaits' <=> ConnectedWaits
  BY DEF ConnectedWaits
<1>4. DisconnectedWaits' <=> DisconnectedWaits
  BY DEF DisconnectedWaits
<1>. QED  BY <1>1, <1>2, <1>3, <1>4 DEF StateFollows

\* Steps that change nothing that StateFollows looks at.
LEMMA QuietFollows ==
    ASSUME StateFollows, UNCHANGED <<serverConnection, netState, queue, polling, told>>,
           serverConnection \in ending' <=> serverConnection \in ending,
           \/ UNCHANGED worker
           \/ worker.at \notin {"check", "add", "start"} /\ worker'.at \notin {"check", "add", "start"}
    PROVE  StateFollows'
<1>1. \A i \in DOMAIN queue : Waits(i)' <=> Waits(i)
  BY DEF Waits
<1>2. Brings(serverConnection)' <=> Brings(serverConnection)
  BY DEF Brings
<1>3. Brings(serverConnection) => worker'.event = worker.event
  BY DEF Brings
<1>. QED  BY <1>1, <1>2, <1>3, SameFollows

\* All that waits has been handled.
LEMMA PollEndFollows ==
    ASSUME TypeOK, StateFollows, PollEnd
    PROVE  StateFollows'
<1>. USE DEF callbackVars, operationVars, clientVars, queueVars
<1>1. /\ UNCHANGED <<serverConnection, netState, told, ending, worker>>
      /\ queue' = <<>> /\ polling = Len(queue) + 1 /\ DOMAIN queue = 1..Len(queue)
      /\ Len(queue) \in Nat
  BY DEF PollEnd, TypeOK
<1>2. \A i \in DOMAIN queue : ~ Waits(i)
  BY <1>1 DEF Waits
<1>3. DOMAIN queue' = {} /\ Brings(serverConnection)' = Brings(serverConnection)
  BY <1>1 DEF Brings
<1>4. /\ NoneWaits => NoneWaits'
      /\ \A event : AllWaitingAre(event) => AllWaitingAre(event)'
  BY <1>1, <1>3 DEF NoneWaits, AllWaitingAre
<1>5. ConnectedWaits => ConnectedWaits'
  BY <1>1, <1>2, <1>3 DEF ConnectedWaits
<1>6. DisconnectedWaits => DisconnectedWaits'
  BY <1>1, <1>2, <1>3 DEF DisconnectedWaits
<1>. QED  BY <1>1, <1>4, <1>5, <1>6 DEF StateFollows

\* An event waits whether the worker brings it or the queue holds it.
LEMMA AddEventFollows ==
    ASSUME TypeOK, StateFollows, AddEvent
    PROVE  StateFollows'
<1>. USE DEF callbackVars, operationVars, clientVars, queueVars
<1>1. /\ UNCHANGED <<serverConnection, netState, told, ending, polling>>
      /\ worker.at = "add" /\ worker'.at = "idle" /\ polling = 0
  BY WorkerIs DEF AddEvent, clientVars
<1>0. PICK n : n = Len(queue) + 1
  OBVIOUS
<1>2. /\ Len(queue) \in Nat /\ DOMAIN queue = 1..Len(queue) /\ DOMAIN queue' = 1..n
      /\ \A i \in DOMAIN queue : queue'[i] = queue[i]
      /\ queue'[n].conn = worker.conn /\ queue'[n].event = worker.event
  BY <1>0, AddedEvent
<1>3. /\ n \in DOMAIN queue'
      /\ \A i \in DOMAIN queue' : i \in DOMAIN queue \/ i = n
      /\ \A i \in DOMAIN queue : i < n /\ i # n /\ i \in DOMAIN queue'
  BY <1>0, <1>2
<1>4. /\ \A i \in DOMAIN queue : Waits(i)' <=> Waits(i)
      /\ \A i \in DOMAIN queue : queue'[i].event = queue[i].event
  BY <1>1, <1>2, <1>3 DEF Waits
<1>5. /\ Waits(n)' <=> Brings(serverConnection)
      /\ ~ Brings(serverConnection)'
  BY <1>0, <1>1, <1>2, <1>3 DEF Waits, Brings
<1>6. NoneWaits => NoneWaits'
  BY <1>3, <1>4, <1>5 DEF NoneWaits
<1>7. \A event : AllWaitingAre(event) => AllWaitingAre(event)'
  BY <1>2, <1>3, <1>4, <1>5 DEF AllWaitingAre
<1>8. ConnectedWaits => ConnectedWaits'
  <2>1. CASE /\ Brings(serverConnection) /\ worker.event = "connected"
             /\ \A i \in DOMAIN queue : ~ Waits(i)
    <3>1. /\ Waits(n)' /\ queue'[n].event = "connected" /\ n \in DOMAIN queue'
          /\ ~ Brings(serverConnection)'
      BY <1>2, <1>3, <1>5, <2>1
    <3>2. \A j \in DOMAIN queue' : Waits(j)' => j = n
      BY <1>3, <1>4, <2>1
    <3>. QED  BY <3>1, <3>2 DEF ConnectedWaits
  <2>2. ASSUME Brings(serverConnection) => worker.event = "ready",
               NEW i \in DOMAIN queue, Waits(i), queue[i].event = "connected",
               \A j \in DOMAIN queue : Waits(j) /\ j # i => j > i /\ queue[j].event = "ready"
        PROVE  ConnectedWaits'
    <3>1. ASSUME NEW j \in DOMAIN queue', Waits(j)', j # i
          PROVE  j > i /\ queue'[j].event = "ready"
      <4>1. CASE j = n
        BY <1>0, <1>2, <1>3, <1>5, <2>2, <3>1, <4>1
      <4>2. CASE j \in DOMAIN queue
        BY <1>4, <2>2, <3>1, <4>2
      <4>. QED  BY <1>3, <4>1, <4>2
    <3>2. Waits(i)' /\ queue'[i].event = "connected" /\ i \in DOMAIN queue'
      BY <1>3, <1>4, <2>2
    <3>. QED  BY <1>5, <3>1, <3>2 DEF ConnectedWaits
  <2>. QED  BY <2>1, <2>2 DEF ConnectedWaits
<1>9. DisconnectedWaits => DisconnectedWaits'
  <2>1. CASE /\ Brings(serverConnection) /\ worker.event = "disconnected"
             /\ \A i \in DOMAIN queue : Waits(i) => queue[i].event = "ready"
    <3>1. /\ Waits(n)' /\ queue'[n].event = "disconnected" /\ n \in DOMAIN queue'
          /\ ~ Brings(serverConnection)'
      BY <1>2, <1>3, <1>5, <2>1
    <3>2. \A j \in DOMAIN queue' : Waits(j)' /\ j # n => j < n /\ queue'[j].event = "ready"
      BY <1>3, <1>4, <2>1
    <3>. QED  BY <3>1, <3>2 DEF DisconnectedWaits
  <2>2. ASSUME ~ Brings(serverConnection), NEW i \in DOMAIN queue,
               Waits(i), queue[i].event = "disconnected",
               \A j \in DOMAIN queue : Waits(j) /\ j # i => j < i /\ queue[j].event = "ready"
        PROVE  DisconnectedWaits'
    <3>1. \A j \in DOMAIN queue' : Waits(j)' /\ j # i => j < i /\ queue'[j].event = "ready"
      BY <1>3, <1>4, <1>5, <2>2
    <3>2. Waits(i)' /\ queue'[i].event = "disconnected" /\ i \in DOMAIN queue'
      BY <1>3, <1>4, <2>2
    <3>. QED  BY <1>5, <3>1, <3>2 DEF DisconnectedWaits
  <2>. QED  BY <2>1, <2>2 DEF DisconnectedWaits
<1>. QED  BY <1>1, <1>6, <1>7, <1>8, <1>9 DEF StateFollows

\* One event is handled, which is the client's connection's.
LEMMA PollNodeFollows ==
    ASSUME TypeOK, StateFollows, PollNode, ~ raced',
           connected <=> netState = "CONNECTED",
           worker.at = "start" => netState = "CONNECTING"
    PROVE  /\ StateFollows' /\ netState # "INITIALIZED" /\ worker.at # "start"
           /\ connected' <=> netState' = "CONNECTED"
<1>. USE DEF callbackVars, operationVars, clientVars, queueVars
<1>0. PICK event : event = queue[polling].event
  OBVIOUS
<1>1. /\ UNCHANGED <<serverConnection, told, ending, worker, queue>>
      /\ polling' = polling + 1 /\ polling \in DOMAIN queue
      /\ queue[polling].conn = serverConnection
  BY DEF PollNode
<1>2. DOMAIN queue = 1..Len(queue) /\ Len(queue) \in Nat
  BY DEF TypeOK
<1>3. /\ Waits(polling)
      /\ \A i \in DOMAIN queue : Waits(i)' <=> Waits(i) /\ i # polling
      /\ \A i \in DOMAIN queue : Waits(i) => i >= polling
      /\ Brings(serverConnection)' <=> Brings(serverConnection)
  <2>1. Waits(polling)
    BY <1>1, <1>2 DEF Waits
  <2>2. \A i \in DOMAIN queue : Waits(i)' <=> Waits(i) /\ i # polling
    BY <1>1, <1>2 DEF Waits
  <2>. QED  BY <1>1, <2>1, <2>2 DEF Waits, Brings
<1>4. event \in Events
  BY <1>0, <1>1, QueueElements
<1>5. Handle(event)
  BY <1>0 DEF PollNode
<1>6. /\ event = "connected" => netState' = "CONNECTED" /\ connected'
      /\ event = "disconnected" => netState' = "INITIALIZED" /\ UNCHANGED connected
      /\ event \in {"cantConnect", "ready"} => UNCHANGED <<netState, connected>>
  BY <1>5 DEF Handle, HandleConnect, HandleDisconnect, AfterNetDisconnect
<1>7. ~ NoneWaits
  BY <1>1, <1>3 DEF NoneWaits
<1>8. \A e : AllWaitingAre(e) => event = e /\ AllWaitingAre(e)'
  BY <1>0, <1>1, <1>3 DEF AllWaitingAre
<1>9. ConnectedWaits => event = "connected" /\ AllWaitingAre("ready")'
  BY <1>0, <1>1, <1>2, <1>3 DEF ConnectedWaits, AllWaitingAre
<1>10. DisconnectedWaits => \/ event = "ready" /\ DisconnectedWaits'
                            \/ event = "disconnected" /\ NoneWaits'
  <2>1. CASE /\ Brings(serverConnection) /\ worker.event = "disconnected"
             /\ \A i \in DOMAIN queue : Waits(i) => queue[i].event = "ready"
    BY <1>0, <1>1, <1>3, <2>1 DEF DisconnectedWaits
  <2>2. ASSUME ~ Brings(serverConnection), NEW i \in DOMAIN queue,
               Waits(i), queue[i].event = "disconnected",
               \A j \in DOMAIN queue : Waits(j) /\ j # i => j < i /\ queue[j].event = "ready"
        PROVE  \/ event = "ready" /\ DisconnectedWaits'
               \/ event = "disconnected" /\ NoneWaits'
    <3>1. CASE i = polling
      <4>1. \A j \in DOMAIN queue : ~ Waits(j)'
        BY <1>1, <1>2, <1>3, <2>2, <3>1
      <4>. QED  BY <1>0, <1>1, <1>3, <2>2, <3>1, <4>1 DEF NoneWaits
    <3>2. CASE i # polling
      BY <1>0, <1>1, <1>3, <2>2, <3>2 DEF DisconnectedWaits
    <3>. QED  BY <3>1, <3>2
  <2>. QED  BY <2>1, <2>2 DEF DisconnectedWaits
<1>11. /\ netState \in {"INITIALIZED", "CONNECTING", "CONNECTED", "DISCONNECTING"}
       /\ told[serverConnection] \in {"nothing", "connecting", "connected",
                                      "cantConnect", "disconnected"}
  BY DEF TypeOK
<1>12. CASE netState = "INITIALIZED"
  BY <1>7, <1>12 DEF StateFollows
<1>13. CASE netState = "CONNECTING"
  <2>1. CASE told[serverConnection] = "cantConnect"
    BY <1>1, <1>6, <1>8, <1>13, <2>1 DEF StateFollows
  <2>2. CASE told[serverConnection] = "connected"
    BY <1>1, <1>6, <1>9, <1>13, <2>2 DEF StateFollows
  <2>. QED  BY <1>7, <1>11, <1>13, <2>1, <2>2 DEF StateFollows
<1>14. CASE netState = "CONNECTED"
  <2>1. /\ told[serverConnection] = "connected" /\ serverConnection \notin ending
        /\ AllWaitingAre("ready")
    BY <1>14 DEF StateFollows
  <2>2. event = "ready" /\ AllWaitingAre("ready")'
    BY <1>8, <2>1
  <2>. QED  BY <1>1, <1>6, <1>14, <2>1, <2>2 DEF StateFollows
<1>15. CASE netState = "DISCONNECTING"
  <2>1. CASE /\ told[serverConnection] = "connected" /\ serverConnection \in ending
             /\ AllWaitingAre("ready")
    <3>1. event = "ready" /\ AllWaitingAre("ready")'
      BY <1>8, <2>1
    <3>. QED  BY <1>1, <1>6, <1>15, <2>1, <3>1 DEF StateFollows
  <2>2. CASE /\ told[serverConnection] = "disconnected" /\ serverConnection \notin ending
             /\ DisconnectedWaits
    <3>1. CASE event = "ready" /\ DisconnectedWaits'
      BY <1>1, <1>6, <1>15, <2>2, <3>1 DEF StateFollows
    <3>2. CASE event = "disconnected" /\ NoneWaits'
      BY <1>1, <1>6, <1>15, <2>2, <3>2 DEF StateFollows
    <3>. QED  BY <1>10, <2>2, <3>1, <3>2
  <2>. QED  BY <1>15, <2>1, <2>2 DEF StateFollows
<1>. QED  BY <1>11, <1>12, <1>13, <1>14, <1>15

\* The end that the client asked for.
LEMMA DisconnectFollows ==
    ASSUME TypeOK, Follows, Disconnect
    PROVE  Follows'
<1>. USE DEF callbackVars, operationVars, clientVars, queueVars
<1>1. /\ giveUp = "no" /\ netState = "CONNECTED" /\ netState' = "DISCONNECTING"
      /\ connected' = FALSE
      /\ UNCHANGED <<worker, queue, polling, giveUp, serverConnection, told>>
      /\ ending' = IF told[serverConnection] = "connected"
                     THEN ending \cup {serverConnection} ELSE ending
  BY DEF Disconnect, AfterDisconnect, MainFree, Callbacks!Disconnect
<1>2. /\ told[serverConnection] = "connected" /\ AllWaitingAre("ready")
      /\ ~ Connecting
  BY <1>1 DEF Follows, StateFollows, Connecting
<1>3. AllWaitingAre("ready")' /\ serverConnection \in ending'
  BY <1>1, <1>2 DEF AllWaitingAre, Waits, Brings
<1>. QED  BY <1>1, <1>2, <1>3 DEF Follows, StateFollows, Connecting

\* The steps of giving a connection up.
LEMMA GiveUpFollows ==
    ASSUME TypeOK, FreshUnknown, Follows, ~ raced',
           GiveUp \/ GiveUpClear \/ GiveUpReplace \/ GiveUpState
    PROVE  Follows'
<1>. USE DEF callbackVars, operationVars, clientVars, queueVars
<1>1. CASE GiveUp
  BY <1>1 DEF GiveUp, Follows, Connecting, MainFree
<1>2. CASE GiveUpClear
  BY <1>2 DEF GiveUpClear, Follows, Connecting
<1>3. CASE GiveUpReplace
  <2>1. Unknown(serverConnection')
    BY <1>3 DEF GiveUpReplace, FreshUnknown
  <2>2. Unknown(serverConnection)'
    BY <1>3, <2>1 DEF GiveUpReplace, Unknown, Mentions, Brings
  <2>. QED  BY <1>3, <2>2 DEF GiveUpReplace, Follows, Connecting
<1>4. CASE GiveUpState
  <2>1. Unknown(serverConnection) /\ ~ Connecting
    BY <1>4 DEF GiveUpState, Follows
  <2>2. /\ netState' = "INITIALIZED" /\ connected' = FALSE /\ giveUp' = "no"
        /\ UNCHANGED <<told, ending, worker, queue, polling, serverConnection>>
    BY <1>4 DEF GiveUpState, AfterDisconnect
  <2>3. NoneWaits'
    BY <2>1, <2>2 DEF Unknown, Mentions, Brings, NoneWaits, Waits
  <2>4. StateFollows'
    BY <2>1, <2>2, <2>3 DEF Unknown, StateFollows
  <2>. QED  BY <2>1, <2>2, <2>4 DEF Follows, Connecting
<1>. QED  BY <1>1, <1>2, <1>3, <1>4

\* The worker goes on while the main thread gives a connection up.
LEMMA GivingUpFollows ==
    ASSUME TypeOK, Follows, Next, WorkerStep, ~ raced', giveUp # "no"
    PROVE  Follows'
<1>. USE DEF callbackVars, operationVars, clientVars, queueVars
<1>1. ~ Connecting
  BY DEF Follows
<1>2. UNCHANGED <<serverConnection, netState, connected, giveUp>>
  BY <1>1 DEF WorkerStep, WorkerGoesOn, RealmList, Select, NetConnect, NetConnectReset,
              ConnectInternal, ConnectStart, CallBackCheck, CallBack, AddEvent, Connecting, Looks
<1>3. ASSUME giveUp = "state"
      PROVE  Unknown(serverConnection)'
  <2>1. PICK c \in Connections : c = serverConnection
    BY DEF TypeOK
  <2>2. Unknown(c) /\ worker.at # "start"
    BY <1>1, <1>3, <2>1 DEF Follows, Connecting
  <2>3. Unknown(c)'
    BY <2>2, UnknownStays
  <2>. QED  BY <1>2, <2>1, <2>3 DEF Unknown, Mentions, Brings
<1>4. ~ Connecting'
  <2>1. CASE RealmList
    BY <1>1, <2>1 DEF RealmList, Connecting
  <2>2. CASE Select
    <3>1. worker' = [at |-> "idle"] \/ raced' = (raced \/ giveUp # "no")
      BY <2>2 DEF Select
    <3>2. worker' = [at |-> "idle"]
      BY <3>1
    <3>. QED  BY <3>2, WorkerIs DEF Connecting
  <2>3. CASE CallBackCheck
    BY <2>3, GoesOnToAdd, WorkerIs DEF CallBackCheck, Connecting
  <2>4. CASE AddEvent
    BY <2>4, WorkerIs DEF AddEvent, Connecting
  <2>5. ASSUME NEW c \in Connections, NEW event \in Events, CallBack(c, event)
        PROVE  ~ Connecting'
    BY <2>5 DEF CallBack, Connecting
  <2>6. ~ (NetConnect \/ NetConnectReset \/ ConnectInternal \/ ConnectStart)
    BY <1>1 DEF NetConnect, NetConnectReset, ConnectInternal, ConnectStart, Looks, Connecting
  <2>. QED  BY <2>1, <2>2, <2>3, <2>4, <2>5, <2>6 DEF WorkerStep, WorkerGoesOn
<1>. QED  BY <1>2, <1>3, <1>4 DEF Follows, Connecting

\* The worker connects.
LEMMA ConnectingFollows ==
    ASSUME TypeOK, Follows, ~ fatal, ~ raced', giveUp = "no",
           Select \/ NetConnect \/ NetConnectReset \/ ConnectInternal \/ ConnectStart
    PROVE  Follows'
<1>. USE DEF callbackVars, operationVars, clientVars, queueVars
<1>0. StateFollows
  BY DEF Follows
<1>1. CASE Select
  <2>1. StateFollows'
    BY <1>0, <1>1, QuietFollows, WorkerIs DEF Select
  <2>. QED  BY <1>1, <2>1 DEF Select, Follows, Connecting
<1>2. CASE NetConnect
  <2>1. StateFollows'
    BY <1>0, <1>2, QuietFollows, WorkerIs DEF NetConnect, Looks
  <2>. QED  BY <1>2, <2>1 DEF NetConnect, Looks, Follows, Connecting
<1>3. CASE NetConnectReset
  <2>1. netState = "INITIALIZED"
    BY <1>3 DEF NetConnectReset, Follows
  <2>2. StateFollows'
    BY <1>0, <1>3, <2>1, QuietFollows, WorkerIs DEF NetConnectReset
  <2>. QED  BY <1>3, <2>1, <2>2 DEF NetConnectReset, Follows, Connecting
<1>4. CASE ConnectInternal
  <2>1. netState = "INITIALIZED" /\ worker.at = "internal"
    BY <1>4 DEF ConnectInternal, Looks, Follows
  <2>2. worker' = [at |-> "start"] /\ UNCHANGED fatal
    BY <1>4, <2>1 DEF ConnectInternal, Looks
  <2>3. /\ UNCHANGED <<told, ending, queue, polling, serverConnection, connected, giveUp>>
        /\ worker'.at = "start"
    BY <1>4, <2>2, WorkerIs DEF ConnectInternal
  <2>4. NoneWaits /\ told[serverConnection] \in {"nothing", "disconnected"}
        /\ serverConnection \notin ending
    BY <1>0, <2>1 DEF StateFollows
  <2>5. NoneWaits'
    BY <2>3, <2>4 DEF NoneWaits, Waits, Brings
  <2>6. netState' = "CONNECTING"
    BY <1>4, <2>2 DEF ConnectInternal
  <2>7. StateFollows'
    BY <2>3, <2>4, <2>5, <2>6 DEF StateFollows
  <2>. QED  BY <2>1, <2>3, <2>6, <2>7 DEF Follows, Connecting
<1>5. CASE ConnectStart
  <2>1. /\ netState = "CONNECTING" /\ worker'.at = "idle" /\ worker.at = "start"
        /\ UNCHANGED <<netState, connected, giveUp, queue, polling, serverConnection>>
    BY <1>5, WorkerIs DEF ConnectStart, Follows
  <2>2. told'[serverConnection] = "connecting" /\ serverConnection \notin ending'
    BY <1>5 DEF ConnectStart, Callbacks!Connect, TypeOK
  <2>3. NoneWaits
    BY <1>0, <2>1 DEF StateFollows
  <2>4. NoneWaits'
    BY <2>1, <2>3 DEF NoneWaits, Waits, Brings
  <2>5. StateFollows'
    BY <2>1, <2>2, <2>4 DEF StateFollows
  <2>. QED  BY <2>1, <2>5 DEF Follows, Connecting
<1>. QED  BY <1>1, <1>2, <1>3, <1>4, <1>5

\* The worker looks at the connection that calls back.
LEMMA CheckFollows ==
    ASSUME TypeOK, Follows, giveUp = "no", CallBackCheck
    PROVE  Follows'
<1>. USE DEF callbackVars, operationVars, clientVars, queueVars
<1>0. StateFollows
  BY DEF Follows
<1>1. /\ worker.at = "check"
      /\ UNCHANGED <<serverConnection, netState, connected, giveUp, queue, polling, told>>
  BY DEF CallBackCheck
<1>2. worker'.at \in {"add", "idle"}
  BY <1>1, GoesOnToAdd, WorkerIs DEF CallBackCheck
<1>3. \A i \in DOMAIN queue : Waits(i)' <=> Waits(i)
  BY <1>1 DEF Waits
<1>4. CASE worker.conn = serverConnection
  <2>1. /\ worker'.conn = worker.conn /\ worker'.event = worker.event /\ worker'.at = "add"
        /\ UNCHANGED ending
    BY <1>1, <1>4, GoesOnToAdd DEF CallBackCheck, Expected
  <2>2. Brings(serverConnection)' <=> Brings(serverConnection)
    BY <1>1, <2>1 DEF Brings
  <2>3. StateFollows'
    BY <1>0, <1>1, <1>3, <2>1, <2>2, SameFollows
  <2>. QED  BY <1>1, <1>2, <2>3 DEF Follows, Connecting
<1>5. CASE worker.conn # serverConnection
  <2>1. worker'.at = "idle" /\ (serverConnection \in ending' <=> serverConnection \in ending)
    BY <1>1, <1>5, WorkerIs DEF CallBackCheck, Expected
  <2>2. ~ Brings(serverConnection)' /\ ~ Brings(serverConnection)
    BY <1>1, <1>5, <2>1 DEF Brings
  <2>3. StateFollows'
    BY <1>0, <1>1, <1>3, <2>1, <2>2, SameFollows
  <2>. QED  BY <1>1, <1>2, <2>3 DEF Follows, Connecting
<1>. QED  BY <1>4, <1>5

\* A connection calls back: the client's, for what it can tell next, or
\* another.
LEMMA CallBackFollows ==
    ASSUME TypeOK, Follows, giveUp = "no",
           NEW c \in Connections, NEW event \in Events, CallBack(c, event)
    PROVE  Follows'
<1>. USE DEF callbackVars, operationVars, clientVars, queueVars
<1>0. StateFollows
  BY DEF Follows
<1>1. /\ worker.at = "idle" /\ worker'.at \in {"check", "add"} /\ worker'.conn = c
      /\ worker'.event = event
      /\ UNCHANGED <<serverConnection, netState, connected, giveUp, queue, polling>>
  BY DEF CallBack
<1>2. /\ event \in {"connected", "cantConnect"} => told[c] = "connecting"
      /\ event = "ready" => told[c] = "connected"
      /\ event = "disconnected" => told[c] = "connected" /\ c \in ending
      /\ told' = [told EXCEPT ![c] = IF event = "ready" THEN @ ELSE event]
      /\ ending' = IF event = "disconnected" THEN ending \ {c} ELSE ending
  BY DEF CallBack, Callbacks!CallBack
<1>3. /\ told'[c] = IF event = "ready" THEN told[c] ELSE event
      /\ c # serverConnection => told'[serverConnection] = told[serverConnection]
  BY <1>2 DEF TypeOK
<1>4. \A i \in DOMAIN queue : Waits(i)' <=> Waits(i)
  BY <1>1 DEF Waits
<1>5. ~ Brings(serverConnection) /\ (Brings(serverConnection)' <=> c = serverConnection)
  BY <1>1 DEF Brings
<1>6. NoneWaits => /\ event = "connected" /\ c = serverConnection => ConnectedWaits'
                   /\ event = "cantConnect" => AllWaitingAre("cantConnect")'
  BY <1>1, <1>4, <1>5 DEF NoneWaits, ConnectedWaits, AllWaitingAre
<1>7. ASSUME event = "ready"
      PROVE  /\ ConnectedWaits => ConnectedWaits'
             /\ AllWaitingAre("ready") => AllWaitingAre("ready")'
  BY <1>1, <1>4, <1>5, <1>7 DEF ConnectedWaits, AllWaitingAre
<1>8. ASSUME event = "disconnected", c = serverConnection, AllWaitingAre("ready")
      PROVE  DisconnectedWaits'
  BY <1>1, <1>4, <1>5, <1>8 DEF DisconnectedWaits, AllWaitingAre
<1>9. netState \in {"INITIALIZED", "CONNECTING", "CONNECTED", "DISCONNECTING"}
  BY DEF TypeOK
<1>10. StateFollows'
  <2>1. CASE c # serverConnection
    <3>1. serverConnection \in ending' <=> serverConnection \in ending
      BY <1>2, <2>1
    <3>. QED  BY <1>0, <1>1, <1>3, <1>4, <1>5, <2>1, <3>1, SameFollows
  <2>2. CASE c = serverConnection /\ event \in {"connected", "cantConnect"}
    <3>1. /\ netState = "CONNECTING" /\ c \notin ending /\ NoneWaits
      BY <1>0, <1>2, <1>9, <2>2 DEF StateFollows
    <3>2. c \notin ending' /\ told'[c] = event /\ worker'.at # "start"
      BY <1>1, <1>2, <1>3, <2>2, <3>1
    <3>. QED  BY <1>1, <1>6, <2>2, <3>1, <3>2 DEF StateFollows
  <2>3. CASE c = serverConnection /\ event = "ready"
    <3>1. told[c] = "connected" /\ told'[c] = "connected" /\ UNCHANGED ending
      BY <1>2, <1>3, <2>3
    <3>2. \/ netState = "CONNECTING" /\ c \notin ending /\ ConnectedWaits
          \/ netState = "CONNECTED" /\ c \notin ending /\ AllWaitingAre("ready")
          \/ netState = "DISCONNECTING" /\ c \in ending /\ AllWaitingAre("ready")
      BY <1>0, <1>9, <2>3, <3>1 DEF StateFollows
    <3>. QED  BY <1>1, <1>7, <2>3, <3>1, <3>2 DEF StateFollows
  <2>4. CASE c = serverConnection /\ event = "disconnected"
    <3>1. /\ told[c] = "connected" /\ c \in ending /\ told'[c] = "disconnected"
          /\ c \notin ending'
      BY <1>2, <1>3, <2>4
    <3>2. netState = "DISCONNECTING" /\ AllWaitingAre("ready")
      BY <1>0, <1>9, <2>4, <3>1 DEF StateFollows
    <3>. QED  BY <1>1, <1>8, <2>4, <3>1, <3>2 DEF StateFollows
  <2>. QED  BY <2>1, <2>2, <2>3, <2>4 DEF Events
<1>. QED  BY <1>1, <1>10 DEF Follows, Connecting

LEMMA UndisturbedStep == IInv /\ [Next]_vars => Undisturbed'
<1>. SUFFICES ASSUME IInv, [Next]_vars, ~ raced'
              PROVE  Follows'
  BY DEF Undisturbed
<1>. USE DEF callbackVars, operationVars, clientVars, queueVars
<1>1. CASE UNCHANGED vars
  <2>1. Follows
    BY <1>1 DEF IInv, Undisturbed, vars
  <2>2. giveUp = "no" => StateFollows'
    BY <1>1, <2>1, QuietFollows DEF Follows, vars
  <2>3. giveUp = "state" => Unknown(serverConnection)'
    BY <1>1, <2>1 DEF Follows, Unknown, Mentions, Brings, vars
  <2>. QED  BY <1>1, <2>1, <2>2, <2>3 DEF Follows, Connecting, vars
<1>2. CASE Next
  <2>0. ~ raced
    BY <1>2 DEF Next, Main, Poll, WorkerStep, WorkerGoesOn, Connect, OtherOperation, Disconnect,
         GiveUp, GiveUpClear, GiveUpReplace, GiveUpState, PollBegin, PollNode, PollEnd,
         RealmList, Select, NetConnect, NetConnectReset, ConnectInternal, ConnectStart,
         CallBackCheck, CallBack, AddEvent
  <2>1. TypeOK /\ MainSound /\ FreshUnknown /\ Follows /\ ~ fatal
    BY <1>2, <2>0 DEF IInv, Undisturbed, Next
  <2>2. CASE Connect \/ OtherOperation
    <3>1. giveUp = "no" /\ StateFollows
      BY <2>1, <2>2 DEF Connect, OtherOperation, MainFree, Follows
    <3>2. StateFollows'
      BY <2>2, <3>1, QuietFollows DEF Connect, OtherOperation
    <3>. QED  BY <2>1, <2>2, <3>1, <3>2 DEF Connect, OtherOperation, Follows, Connecting
  <2>3. CASE Disconnect
    BY <2>1, <2>3, DisconnectFollows
  <2>4. CASE GiveUp \/ GiveUpClear \/ GiveUpReplace \/ GiveUpState
    BY <2>1, <2>4, GiveUpFollows
  <2>5. CASE PollBegin
    <3>1. giveUp = "no" /\ StateFollows /\ polling = 0 /\ polling' = 1
      BY <2>1, <2>5 DEF PollBegin, MainFree, Follows
    <3>2. \A i \in DOMAIN queue : Waits(i)' <=> Waits(i)
      <4>1. DOMAIN queue = 1..Len(queue) /\ Len(queue) \in Nat
        BY <2>1 DEF TypeOK
      <4>. QED  BY <2>5, <3>1, <4>1 DEF PollBegin, Waits
    <3>3. Brings(serverConnection)' <=> Brings(serverConnection)
      BY <2>5 DEF PollBegin, Brings
    <3>4. StateFollows'
      BY <2>5, <3>1, <3>2, <3>3, SameFollows DEF PollBegin
    <3>. QED  BY <2>1, <2>5, <3>1, <3>4 DEF PollBegin, Follows, Connecting
  <2>6. CASE PollNode
    <3>1. giveUp = "no" /\ UNCHANGED <<giveUp, worker>>
      BY <2>1, <2>6, QueueElements DEF PollNode, MainSound
    <3>2. /\ StateFollows' /\ netState # "INITIALIZED" /\ worker.at # "start"
          /\ connected' <=> netState' = "CONNECTED"
      BY <2>1, <2>6, <3>1, PollNodeFollows DEF Follows
    <3>. QED  BY <2>1, <3>1, <3>2 DEF Follows, Connecting
  <2>7. CASE PollEnd
    <3>1. polling # 0
      BY <2>1, <2>7 DEF PollEnd, TypeOK
    <3>2. giveUp = "no" /\ StateFollows
      BY <2>1, <3>1 DEF MainSound, Follows
    <3>3. StateFollows'
      BY <2>1, <2>7, <3>2, PollEndFollows
    <3>. QED  BY <2>1, <2>7, <3>2, <3>3 DEF PollEnd, Follows, Connecting
  <2>8. CASE WorkerStep /\ giveUp # "no"
    BY <1>2, <2>1, <2>8, GivingUpFollows
  <2>9. ASSUME giveUp = "no", WorkerStep
        PROVE  Follows'
    <3>1. CASE RealmList
      <4>1. StateFollows'
        BY <2>1, <2>9, <3>1, QuietFollows, WorkerIs DEF RealmList, Follows
      <4>. QED  BY <2>1, <2>9, <3>1, <4>1 DEF RealmList, Follows, Connecting
    <3>2. CASE Select \/ NetConnect \/ NetConnectReset \/ ConnectInternal \/ ConnectStart
      BY <2>1, <2>9, <3>2, ConnectingFollows
    <3>3. CASE CallBackCheck
      BY <2>1, <2>9, <3>3, CheckFollows
    <3>4. CASE AddEvent
      <4>1. StateFollows'
        BY <2>1, <2>9, <3>4, AddEventFollows DEF Follows
      <4>. QED  BY <2>1, <2>9, <3>4, <4>1, WorkerIs DEF AddEvent, Follows, Connecting
    <3>5. ASSUME NEW c \in Connections, NEW event \in Events, CallBack(c, event)
          PROVE  Follows'
      BY <2>1, <2>9, <3>5, CallBackFollows
    <3>. QED  BY <2>9, <3>1, <3>2, <3>3, <3>4, <3>5 DEF WorkerStep, WorkerGoesOn
  <2>. QED
    BY <1>2, <2>2, <2>3, <2>4, <2>5, <2>6, <2>7, <2>8, <2>9 DEF Next, Main, Poll
<1>. QED  BY <1>1, <1>2

----------------------------------------------------------------------------
(* The theorems.                                                           *)

LEMMA InitInv == Init => IInv
<1>. SUFFICES ASSUME Init
              PROVE  IInv
  OBVIOUS
<1>1. /\ queue = <<>> /\ DOMAIN queue = {} /\ Len(queue) = 0 /\ polling = 0
      /\ worker.at = "idle" /\ worker \in Worker
      /\ queue \in Seq([event : Events, conn : Connections])
  BY WorkerIs DEF Init
<1>2. TypeOK
  <2>1. connects \in 0..MaxConnects /\ polling \in 0..(Len(queue) + 1) /\ refCount \in Nat
        /\ asked \in Nat
    BY <1>1, BoundsAssumption DEF Init
  <2>2. told \in [Connections -> {"nothing", "connecting", "connected", "cantConnect",
                                  "disconnected"}]
        /\ ending \subseteq Connections
    BY DEF Init, Callbacks!Init
  <2>. QED  BY <1>1, <2>1, <2>2 DEF Init, TypeOK
<1>3. MainSound
  BY <1>1 DEF Init, MainSound
<1>4. \A c \in Connections : Unknown(c)
  BY <1>1 DEF Init, Callbacks!Init, Unknown, Mentions, Brings
<1>5. QueueOrdered
  BY <1>1 DEF QueueOrdered, ReplacedFirst
<1>6. NoneWaits
  BY <1>1 DEF NoneWaits, Brings
<1>7. Follows
  BY <1>1, <1>4, <1>6 DEF Init, Follows, StateFollows, Unknown, Connecting
<1>. QED  BY <1>2, <1>3, <1>4, <1>5, <1>7 DEF IInv, FreshUnknown, Undisturbed

LEMMA Invariant == Spec => []IInv
<1>1. IInv /\ [Next]_vars => IInv'
  BY TypeStep, MainStep, FreshStep, OrderStep, UndisturbedStep DEF IInv
<1>. QED  BY InitInv, <1>1, PTL DEF Spec

\* Every variable of the client keeps its type, and once nothing is under way
\* m_netState and m_connected say what the connection said last.
THEOREM ClientInStep == Spec => []ClientFollows
<1>1. IInv => ClientFollows
  <2>. SUFFICES ASSUME IInv, Settled, ~ raced
                PROVE  /\ told[serverConnection] \in
                            (CASE netState = "INITIALIZED" -> {"nothing", "disconnected"}
                               [] netState = "CONNECTING" -> {"connecting", "cantConnect"}
                               [] OTHER -> {"connected"})
                       /\ netState = "DISCONNECTING" <=> serverConnection \in ending
                       /\ connected <=> netState = "CONNECTED"
    BY DEF IInv, ClientFollows, StateOfConnection
  <2>1. /\ TypeOK /\ StateFollows /\ (connected <=> netState = "CONNECTED")
        /\ worker.at = "idle" /\ queue = <<>>
    BY DEF IInv, Undisturbed, Follows, Settled, MainFree
  <2>2. DOMAIN queue = {} /\ ~ Brings(serverConnection)
    BY <2>1 DEF Brings
  <2>3. ~ ConnectedWaits /\ ~ DisconnectedWaits
    BY <2>2 DEF ConnectedWaits, DisconnectedWaits
  <2>4. /\ netState \in {"INITIALIZED", "CONNECTING", "CONNECTED", "DISCONNECTING"}
        /\ told[serverConnection] \in {"nothing", "connecting", "connected",
                                       "cantConnect", "disconnected"}
    BY <2>1 DEF TypeOK
  <2>. QED  BY <2>1, <2>3, <2>4 DEF StateFollows
<1>. QED  BY Invariant, <1>1, PTL

\* The worker connects the client's connection only when that is not connected
\* and not connecting, as a WowConnection asks of its owner.
THEOREM ConnectsIdle == Spec => []ConnectsIdleConnection
<1>1. IInv => ConnectsIdleConnection
  <2>. SUFFICES ASSUME IInv, worker.at = "start", ~ raced
                PROVE  told[serverConnection] \in {"nothing", "disconnected"}
    BY DEF ConnectsIdleConnection, Callbacks!MayConnect
  <2>1. /\ netState = "CONNECTING" /\ StateFollows
        /\ told[serverConnection] \in {"nothing", "connecting", "connected",
                                       "cantConnect", "disconnected"}
    BY DEF IInv, Undisturbed, Follows, Connecting, TypeOK
  <2>. QED  BY <2>1 DEF StateFollows
<1>. QED  BY Invariant, <1>1, PTL

\* Events of a connection that was replaced come before those of its
\* successor, and a message of the client's connection is handled while the
\* client takes itself for connected.
THEOREM QueueInOrder == Spec => []EventsInOrder
<1>1. IInv => EventsInOrder
  <2>. SUFFICES ASSUME IInv, ~ raced, polling \in DOMAIN queue,
                       queue[polling] = [event |-> "ready", conn |-> serverConnection]
                PROVE  netState \in {"CONNECTED", "DISCONNECTING"}
    BY DEF EventsInOrder, DataWhileConnected, IInv, QueueOrdered
  <2>1. TypeOK /\ MainSound /\ Follows
    BY DEF IInv, Undisturbed
  <2>2. DOMAIN queue = 1..Len(queue) /\ Len(queue) \in Nat
    BY <2>1 DEF TypeOK
  <2>3. StateFollows
    BY <2>1, <2>2 DEF MainSound, Follows
  <2>4. Waits(polling) /\ queue[polling].event = "ready"
    BY <2>2 DEF Waits
  <2>5. ~ NoneWaits /\ ~ AllWaitingAre("cantConnect")
    BY <2>4 DEF NoneWaits, AllWaitingAre
  <2>6. ~ ConnectedWaits
    <3>1. \A i \in DOMAIN queue : Waits(i) => i >= polling
      BY DEF Waits
    <3>. QED  BY <2>2, <2>4, <3>1 DEF ConnectedWaits
  <2>7. netState \in {"INITIALIZED", "CONNECTING", "CONNECTED", "DISCONNECTING"}
    BY <2>1 DEF TypeOK
  <2>. QED  BY <2>3, <2>5, <2>6, <2>7 DEF StateFollows
<1>. QED  BY Invariant, <1>1, PTL

=============================================================================
