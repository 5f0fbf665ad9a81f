------------------------------ MODULE GlueLogin ------------------------------
(***************************************************************************)
(* The login and character screens (CGlueMgr) over the login server        *)
(* (GruntLink) and the game server's connection (ClientConnection).        *)
(*                                                                         *)
(* The main thread goes round: scripts run on input, then PollNet handles  *)
(* the events of the game's connection, then CGlueMgr::Idle polls the      *)
(* operation that m_idleState waits for.  An operation of ClientConnection *)
(* is started by Initiate and ended by Complete, which the worker of the   *)
(* network calls too, when realms arrive (RealmEnumCallback); neither has  *)
(* a lock, and Complete does not look at which operation it ends.          *)
(*                                                                         *)
(* The scripts are external: a status dialog is modal, so a script starts  *)
(* nothing while an operation is in progress, and it can cancel one at any *)
(* time.  The connection is reduced to what the screens can tell; NetClient*)
(* has its races, and what a connection that was given up still reports.   *)
(*                                                                         *)
(* Left out: Battle.net logins, reloading, and what never happens in this  *)
(* code (IDLE_CREATE_CHARACTER, IDLE_DELETE_CHARACTER, IDLE_WORLD_LOGIN).  *)
(***************************************************************************)
EXTENDS GruntLink, FiniteSets

CONSTANTS
    MaxActs,    \* bound: what scripts start and cancel, and what fails
    MaxFaults   \* bound: connections that fail, closed streams, useless answers

ASSUME MaxAssumption == MaxActs \in Nat /\ MaxFaults \in Nat

VARIABLES
    scripts,            \* what scripts have started and cancelled so far
    faults,             \* what has gone wrong so far
    main,               \* where the main thread is in its loop
    idleState,          \* m_idleState
    disconnectPending, reconnect, suspended,
    selectValid,        \* s_selectRealmInfoValid
    statusCop, statusComplete, statusResult, errorCode,
    realmJoined,        \* byte2F5A: a list of realms has been used to connect
    connected,          \* m_connected
    netState,           \* NetClient::m_netState
    conn,               \* NetClient::m_serverConnection
    due,                \* what the game server has yet to send
    queue,              \* NETEVENTQUEUE::m_eventQueue
    accepted,           \* history: the game server accepted the session
    overtaken,          \* history: HANDSHAKING replaced a later report
    raced,              \* history: the worker ended an operation that was not
                        \* its own, or while PollStatus looked at it
    fatal               \* history: an assertion failed

statusOpVars == <<statusCop, statusComplete, statusResult, errorCode>>
netVars == <<connected, netState, conn, due, queue, accepted>>
glueVars == <<idleState, disconnectPending, reconnect, suspended>>
gameVars == <<selectValid, statusOpVars, realmJoined, netVars>>

histories == <<overtaken, raced, fatal>>

vars == <<gruntVars, main, glueVars, gameVars, histories, scripts, faults>>

IdleStates == {"NONE", "LOGIN_SERVER_LOGIN", "ACCOUNT_LOGIN",
               "CHARACTER_LIST", "REALM_LIST", "ENTER_WORLD"}

Operations == {"NONE", "CONNECT", "AUTHENTICATE", "WAIT_QUEUE", "GET_REALMS",
               "GET_CHARACTERS", "LOGIN_CHARACTER"}

\* The codes of s_errorCodeTokens that are told apart: RESPONSE_CANCELLED,
\* AUTH_FAILED, AUTH_WAIT_QUEUE, REALM_LIST_SUCCESS, and any other.
Codes == {"CANCELLED", "AUTH_FAILED", "QUEUED", "REALMS", "other"}

\* "admission" is the second answer to a session that had to queue.
Sent == {"challenge", "session", "admission", "characters"}

\* An event tells the main thread what came, and a code if it brings one.
Events == {[is |-> "connect"], [is |-> "disconnect"], [is |-> "challenge"]}
          \cup [is : {"session"}, code : {"other", "AUTH_FAILED", "QUEUED"}]
          \cup [is : {"admission"}, code : {"other", "AUTH_FAILED"}]
          \cup [is : {"characters"}, result : {0, 1}]

\* at: "input", "poll", "idle": the parts of an iteration
\*     "polled"    in PollStatus, before m_statusComplete is read
\*     "prove"     in GruntLogin::ProveVersion, before HANDSHAKING
\*     "reconnect" in GetRealmList, before Login::Reconnect
Mains == [at : {"input", "poll", "idle", "prove", "reconnect"}]
         \cup [at : {"polled"}, op : Operations, result : {0, 1}, code : Codes]

At(place) == main.at = place
GoesTo(place) == main' = [at |-> place]

GlueInit ==
    /\ Init
    /\ main = [at |-> "input"]
    /\ idleState = "NONE"
    /\ disconnectPending = FALSE /\ reconnect = FALSE /\ suspended = FALSE
    /\ selectValid = FALSE
    /\ statusCop = "NONE" /\ statusComplete = TRUE
    /\ statusResult = 1 /\ errorCode = "other"
    /\ realmJoined = FALSE
    /\ connected = FALSE
    /\ netState = "INITIALIZED" /\ conn = "none" /\ due = {} /\ queue = <<>>
    /\ accepted = FALSE
    /\ overtaken = FALSE /\ raced = FALSE /\ fatal = FALSE
    /\ scripts = 0 /\ faults = 0

----------------------------------------------------------------------------
(* Operations of ClientConnection.                                         *)

\* Mutant: the operation is not noted.
InitiateUnnoted(op, code) ==
    /\ errorCode' = code
    /\ statusComplete' = FALSE
    /\ UNCHANGED <<statusCop, statusResult>>

Initiate(op, code) ==
    /\ statusCop' = op
    /\ errorCode' = code
    /\ statusComplete' = FALSE
    /\ UNCHANGED statusResult

Complete(result, code) ==
    /\ statusResult' = result
    /\ errorCode' = code
    /\ statusComplete' = TRUE
    /\ UNCHANGED statusCop

\* Mutant: a session that has to queue is complete.
QueuedAsDone(code) == Complete(1, code)

\* ClientConnection::Queued
Queued(code) == Initiate("WAIT_QUEUE", code)

\* Initiate, and Complete at once.
InitiateAndComplete(op, result, code) ==
    /\ statusCop' = op
    /\ statusResult' = result
    /\ errorCode' = code
    /\ statusComplete' = TRUE

\* ClientConnection::Connect
StartConnect ==
    /\ realmJoined' = FALSE
    /\ IF connected THEN InitiateAndComplete("CONNECT", 1, "other")
       ELSE Initiate("CONNECT", "other")
    /\ GetRealmList

\* Mutant: the connection is left open.
DisconnectLater ==
    /\ connected' = FALSE
    /\ accepted' = FALSE
    /\ netState' = "DISCONNECTING"
    /\ UNCHANGED <<conn, due, queue>>

\* ClientConnection::Disconnect and NetClient::Disconnect
Disconnect ==
    /\ connected' = FALSE
    /\ accepted' = FALSE
    /\ IF netState = "CONNECTED"
       THEN /\ netState' = "DISCONNECTING"
            /\ conn' = IF conn = "open" THEN "closing" ELSE conn
            /\ UNCHANGED <<due, queue>>
       ELSE /\ netState' = "INITIALIZED"
            /\ conn' = "none" /\ due' = {} /\ queue' = <<>>

\* Mutant: nothing is pending.
GivesUpSilently == Disconnect /\ UNCHANGED disconnectPending

\* CGlueMgr disconnects, and waits for it.
GivesUp == disconnectPending' = TRUE /\ Disconnect

\* What is asked of the game server, by a client that is connected to it.
AskGame(what) == due' = IF conn = "open" THEN due \cup {what} ELSE due

\* CGlueMgr::GetRealmList and ClientConnection::GetRealmList.  Whether the
\* login is logged on is read before it is used.
AskRealms ==
    /\ idleState' = "REALM_LIST"
    /\ Initiate("GET_REALMS", "other")
    /\ IF loggedOn[login]
       THEN GetRealmList /\ GoesTo("input")
       ELSE GoesTo("reconnect") /\ UNCHANGED asked

----------------------------------------------------------------------------
(* The worker, when realms arrived: ClientServices::RealmEnumCallback.     *)

\* Complete, by the worker, of an operation that it takes for one of these.
WorkerCompletes(operations, result, code) ==
    /\ Complete(result, code)
    /\ raced' = (raced \/ At("polled") \/ statusCop \notin operations)
    /\ UNCHANGED <<overtaken, fatal>>

\* Mutant: there is always another code.
MoreCodes == [worker EXCEPT !.codes = Tail(@)]

NextCode == IF Len(worker.codes) = 1 THEN Idle
            ELSE [worker EXCEPT !.codes = Tail(@)]

EnumFailed ==
    /\ worker.at = "enum" /\ Head(worker.codes) # 0
    /\ worker' = NextCode
    /\ WorkerCompletes({"CONNECT", "GET_REALMS"}, 0, "other")
    /\ UNCHANGED <<login, linkVars, statusVars, realms, main, glueVars,
                   selectValid, realmJoined, netVars>>

\* A list of realms is for the operation that is in progress, if any.
EnumRealms ==
    /\ worker.at = "enum" /\ Head(worker.codes) = 0
    /\ IF statusCop = "CONNECT" /\ ~realmJoined
       THEN worker' = [at |-> "join"] /\ realmJoined' = TRUE
       ELSE /\ worker' = IF statusCop = "GET_REALMS" THEN [at |-> "listed"]
                         ELSE Idle
            /\ UNCHANGED realmJoined
    /\ UNCHANGED <<login, linkVars, statusVars, realms, main, glueVars,
                   selectValid, statusOpVars, netVars, histories>>

\* ClientServices::ConnectToSelectedServer
MayJoin == netState = "INITIALIZED"

Join ==
    /\ worker.at = "join"
    /\ worker' = Idle
    /\ selectValid' = (selectValid \/ realms = "selected")
    /\ IF selectValid' /\ MayJoin
       THEN /\ netState' = "CONNECTING"
            /\ conn' = "connecting"
            /\ accepted' = FALSE
            /\ UNCHANGED <<statusOpVars, histories>>
       ELSE /\ WorkerCompletes({"CONNECT"}, 0, "other")
            /\ UNCHANGED <<netState, conn, accepted>>
    /\ UNCHANGED <<login, linkVars, statusVars, realms, main, glueVars,
                   realmJoined, connected, due, queue>>

Listed ==
    /\ worker.at = "listed"
    /\ worker' = Idle
    /\ WorkerCompletes({"GET_REALMS"}, 1, "REALMS")
    /\ UNCHANGED <<login, linkVars, statusVars, realms, main, glueVars,
                   selectValid, realmJoined, netVars>>

----------------------------------------------------------------------------
(* The worker, for the connection to the game server.  Poll holds the      *)
(* queue's lock while it handles the events.                               *)

Tells(event) ==
    /\ worker = Idle
    /\ main.at # "poll"
    /\ queue' = Append(queue, event)
    /\ UNCHANGED <<gruntVars, main, glueVars, selectValid, statusOpVars,
                   realmJoined, connected, netState, accepted, histories>>

\* The server begins with a challenge.
GameConnected ==
    /\ conn = "connecting"
    /\ Tells([is |-> "connect"])
    /\ conn' = "open"
    /\ due' = {"challenge"}

\* HandleCantConnect does nothing.
GameCantConnect ==
    /\ worker = Idle
    /\ conn = "connecting"
    /\ conn' = "failed"
    /\ UNCHANGED <<gruntVars, main, glueVars, selectValid, statusOpVars,
                   realmJoined, connected, netState, due, queue, accepted,
                   histories>>

GameDisconnected ==
    /\ conn = "closing"
    /\ Tells([is |-> "disconnect"])
    /\ conn' = "none"
    /\ due' = {}

\* An answer that accepts the session.
Accepts(event) == event.is \in {"session", "admission"} /\ event.code = "other"

\* Characters are listed in a session that the server accepted.
GameSends ==
    /\ conn = "open"
    /\ \E event \in Events :
        /\ event.is \in due
        /\ event.is = "characters" =>
            accepted \/ \E i \in DOMAIN queue : Accepts(queue[i])
        /\ Tells(event)
        /\ due' = (due \ {event.is})
                  \cup (IF event.is = "session" /\ event.code = "QUEUED"
                        THEN {"admission"} ELSE {})
    /\ UNCHANGED conn

----------------------------------------------------------------------------
(* The main thread: scripts.                                               *)

Script == At("input") /\ ~suspended

\* Nothing is in progress that a dialog would hide.
Modal == Script /\ idleState = "NONE"

\* The other screens are shown after a login has been started.
AfterLogin == Modal /\ login # 0

\* CGlueMgr::LoginServerLogin, with a name and a password.
LoginServerLogin ==
    /\ Modal
    /\ Logon
    /\ idleState' = "LOGIN_SERVER_LOGIN"
    /\ loginState' = "CONNECTING"
    /\ authenticated' = FALSE
    /\ UNCHANGED <<loginData, mixed, realms, worker, main, disconnectPending,
                   reconnect, suspended, gameVars, histories>>

\* CGlueMgr::StatusDialogClick, and CancelRealmListQuery.
CancelLogin ==
    /\ Script /\ idleState = "LOGIN_SERVER_LOGIN"
    /\ idleState' = "NONE"
    /\ Logoff
    /\ UNCHANGED <<login, link, asked, loggedOn, isReconnect, password, logons,
                   proved, statusVars, realms, worker, main, disconnectPending,
                   reconnect, suspended, gameVars, histories>>

CancelOperation ==
    /\ Script /\ idleState \notin {"NONE", "LOGIN_SERVER_LOGIN"}
    /\ Complete(0, "CANCELLED")
    /\ idleState' = IF idleState \in {"ACCOUNT_LOGIN", "CHARACTER_LIST"}
                    THEN idleState ELSE "NONE"
    /\ UNCHANGED <<gruntVars, main, disconnectPending, reconnect, suspended,
                   selectValid, realmJoined, netVars, histories>>

\* CGlueMgr::ChangeRealm, to a realm of the list.
ChangeRealm ==
    /\ AfterLogin
    /\ realms # "empty"
    /\ realms' = "selected"
    /\ selectValid' = TRUE
    /\ IF connected
       THEN /\ GivesUp /\ reconnect' = TRUE
            /\ UNCHANGED <<idleState, asked, realmJoined, statusOpVars>>
       ELSE /\ idleState' = "ACCOUNT_LOGIN"
            /\ StartConnect
            /\ UNCHANGED <<disconnectPending, reconnect, netVars>>
    /\ UNCHANGED <<login, link, stream, loggedOn, isReconnect, password, logons,
                   proved, statusVars, worker, main, suspended, histories>>

\* Script_RequestRealmList
RequestRealmList ==
    /\ AfterLogin
    /\ AskRealms
    /\ UNCHANGED <<login, link, stream, loggedOn, isReconnect, password, logons,
                   proved, statusVars, realms, worker, disconnectPending,
                   reconnect, suspended, selectValid, realmJoined, netVars,
                   histories>>

\* CGlueMgr::GetCharacterList
GetCharacterList ==
    /\ AfterLogin
    /\ idleState' = "CHARACTER_LIST"
    /\ IF connected
       THEN /\ Initiate("GET_CHARACTERS", "other")
            /\ AskGame("characters")
       ELSE /\ InitiateAndComplete("GET_CHARACTERS", 0, "other")
            /\ UNCHANGED due
    /\ UNCHANGED <<gruntVars, main, disconnectPending, reconnect, suspended,
                   selectValid, realmJoined, connected, netState, conn, queue,
                   accepted, histories>>

\* CGlueMgr::EnterWorld, with a character that may enter.
EnterWorld ==
    /\ AfterLogin /\ connected
    /\ Logoff
    /\ idleState' = "ENTER_WORLD"
    /\ UNCHANGED <<login, link, asked, loggedOn, isReconnect, password, logons,
                   proved, statusVars, realms, worker, main, disconnectPending,
                   reconnect, suspended, gameVars, histories>>

\* Script_DisconnectFromServer, and RealmListDialogCancelled, which only
\* logs off.
DisconnectFromServer ==
    /\ AfterLogin
    /\ IF connected THEN GivesUp
       ELSE UNCHANGED <<disconnectPending, netVars>>
    /\ Logoff
    /\ UNCHANGED <<login, link, asked, loggedOn, isReconnect, password, logons,
                   proved, statusVars, realms, worker, main, idleState,
                   reconnect, suspended, selectValid, statusOpVars, realmJoined,
                   histories>>

RealmListDialogCancelled ==
    /\ AfterLogin
    /\ Logoff
    /\ UNCHANGED <<login, link, asked, loggedOn, isReconnect, password, logons,
                   proved, statusVars, realms, worker, main, glueVars, gameVars,
                   histories>>

----------------------------------------------------------------------------
(* The main thread: PollNet, one event of the queue at a time.             *)

Polls(is) ==
    /\ At("poll")
    /\ queue # <<>> /\ Head(queue).is = is
    /\ queue' = Tail(queue)
    /\ UNCHANGED <<main, suspended, selectValid, histories>>

HandleConnect ==
    /\ Polls("connect")
    /\ Complete(1, "other")
    /\ connected' = TRUE
    /\ netState' = "CONNECTED"
    /\ UNCHANGED <<gruntVars, idleState, disconnectPending, reconnect,
                   realmJoined, conn, due, accepted>>

\* RealmConnection::HandleAuthChallenge sends the session's proof, and the
\* server will answer it.
HandleAuthChallenge ==
    /\ Polls("challenge")
    /\ IF netState = "CONNECTED" THEN AskGame("session") ELSE UNCHANGED due
    /\ UNCHANGED <<gruntVars, idleState, disconnectPending, reconnect,
                   statusOpVars, realmJoined, connected, netState, conn,
                   accepted>>

HandleAuthResponse ==
    /\ Polls("session") \/ Polls("admission")
    /\ LET code == Head(queue).code IN
        IF code = "QUEUED" THEN Queued(code)
        ELSE Complete(IF code = "other" THEN 1 ELSE 0, code)
    /\ accepted' = (Head(queue).code = "other")
    /\ UNCHANGED <<gruntVars, idleState, disconnectPending, reconnect,
                   realmJoined, connected, netState, conn, due>>

HandleCharEnum ==
    /\ Polls("characters")
    /\ Complete(Head(queue).result, "other")
    /\ UNCHANGED <<gruntVars, idleState, disconnectPending, reconnect,
                   realmJoined, connected, netState, conn, due, accepted>>

\* NetClient::HandleDisconnect and CGlueMgr::NetDisconnectHandler.  Only a
\* connection that was told to disconnect does, so a disconnect is pending.
HandleDisconnect ==
    /\ Polls("disconnect")
    /\ netState' = "INITIALIZED"
    /\ disconnectPending' = FALSE
    /\ IF disconnectPending /\ reconnect
       THEN /\ reconnect' = FALSE
            /\ idleState' = "ACCOUNT_LOGIN"
            /\ StartConnect
            /\ UNCHANGED stream
       ELSE /\ idleState' = "NONE"
            /\ IF disconnectPending THEN UNCHANGED stream ELSE Logoff
            /\ UNCHANGED <<reconnect, asked, realmJoined, statusOpVars>>
    /\ UNCHANGED <<login, link, loggedOn, isReconnect, password, logons, proved,
                   statusVars, realms, worker, connected, conn, due, accepted>>

\* PollNet has events to handle; then the iteration goes on with Idle.
NextPart ==
    /\ \/ At("input") /\ queue # <<>> /\ GoesTo("poll")
       \/ At("poll") /\ queue = <<>> /\ GoesTo("idle")
       \/ At("idle") /\ idleState = "NONE" /\ GoesTo("input")
    /\ UNCHANGED <<gruntVars, glueVars, gameVars, histories>>

----------------------------------------------------------------------------
(* The main thread: CGlueMgr::Idle.                                        *)

\* PollStatus reads the operation, its code and its result, and only then
\* whether it is complete.
PollStatus ==
    /\ At("idle") \/ (At("input") /\ queue = <<>>)
    /\ idleState # "NONE"
    /\ main' = [at |-> "polled", op |-> statusCop, result |-> statusResult,
                code |-> errorCode]
    /\ UNCHANGED <<gruntVars, glueVars, gameVars, histories>>

Polled(idle) == At("polled") /\ idleState = idle

\* Nothing came of the poll.
PolledNothing ==
    /\ At("polled")
    /\ IF idleState = "LOGIN_SERVER_LOGIN"
       THEN /\ ~authenticated
            /\ loginState \notin {"FAILED", "CHECKINGVERSIONS"}
       ELSE idleState # "ENTER_WORLD" /\ ~statusComplete
    /\ GoesTo("input")
    /\ UNCHANGED <<gruntVars, glueVars, gameVars, histories>>

\* PollLoginServerLogin: what the login server said of the login.
LoginSucceeded ==
    /\ Polled("LOGIN_SERVER_LOGIN") /\ authenticated
    /\ GoesTo("input")
    /\ idleState' = "ACCOUNT_LOGIN"
    /\ StartConnect
    /\ authenticated' = FALSE
    /\ UNCHANGED <<login, link, stream, loggedOn, isReconnect, password, logons,
                   proved, loginState, loginData, mixed, realms, worker,
                   disconnectPending, reconnect, suspended, selectValid,
                   netVars, histories>>

LoginFailed ==
    /\ Polled("LOGIN_SERVER_LOGIN") /\ ~authenticated /\ loginState = "FAILED"
    /\ GoesTo("input")
    /\ idleState' = "NONE"
    /\ Logoff
    /\ UNCHANGED <<login, link, asked, loggedOn, isReconnect, password, logons,
                   proved, statusVars, realms, worker, disconnectPending,
                   reconnect, suspended, gameVars, histories>>

\* GruntLogin::ProveVersion, up to the report.
CheckVersions ==
    /\ Polled("LOGIN_SERVER_LOGIN")
    /\ ~authenticated /\ loginState = "CHECKINGVERSIONS"
    /\ IF loggedOn[login]
       THEN /\ fatal' = ~MayProve(login)
            /\ IF MayProve(login) THEN ProveVersion ELSE UNCHANGED asked
            /\ GoesTo("prove")
       ELSE GoesTo("input") /\ UNCHANGED <<asked, fatal>>
    /\ UNCHANGED <<overtaken, raced>>
    /\ UNCHANGED <<login, link, stream, loggedOn, isReconnect, password, logons,
                   proved, statusVars, realms, worker, glueVars, gameVars>>

\* The report, which may replace one that the answer already brought.
Handshakes ==
    /\ At("prove")
    /\ Report(login, "HANDSHAKING")
    /\ overtaken' = (loginState # "CHECKINGVERSIONS")
    /\ GoesTo("input")
    /\ UNCHANGED <<login, linkVars, realms, worker, glueVars, gameVars, raced,
                   fatal>>

\* PollAccountLogin of an operation that failed.  The realms are shown, or
\* asked for, so that another one can be chosen.
AccountLoginFailed ==
    /\ Polled("ACCOUNT_LOGIN") /\ statusComplete /\ main.result = 0
    /\ IF main.code = "CANCELLED"
       THEN GivesUp
       ELSE UNCHANGED <<disconnectPending, netVars>>
    /\ IF main.code # "AUTH_FAILED" /\ realms = "empty"
       THEN AskRealms
       ELSE /\ idleState' = "NONE"
            /\ GoesTo("input")
            /\ UNCHANGED <<asked, statusOpVars>>
    /\ UNCHANGED <<login, link, stream, loggedOn, isReconnect, password, logons,
                   proved, statusVars, realms, worker, reconnect, suspended,
                   selectValid, realmJoined, histories>>

\* PollAccountLogin of an operation that succeeded: a connection is followed
\* by ClientConnection::AccountLogin.
AccountLoginSucceeded ==
    /\ Polled("ACCOUNT_LOGIN") /\ statusComplete /\ main.result = 1
    /\ GoesTo("input")
    /\ IF main.op = "CONNECT"
       THEN Initiate("AUTHENTICATE", "other") /\ UNCHANGED idleState
       ELSE idleState' = "NONE" /\ UNCHANGED statusOpVars
    /\ UNCHANGED <<gruntVars, disconnectPending, reconnect, suspended,
                   selectValid, realmJoined, netVars, histories>>

\* PollCharacterList of one that was cancelled asks for the realms.
CharacterListCancelled ==
    /\ Polled("CHARACTER_LIST") /\ statusComplete
    /\ main.result = 0 /\ main.code = "CANCELLED"
    /\ AskRealms
    /\ UNCHANGED <<login, link, stream, loggedOn, isReconnect, password, logons,
                   proved, statusVars, realms, worker, disconnectPending,
                   reconnect, suspended, selectValid, realmJoined, netVars,
                   histories>>

\* PollRealmList, and PollCharacterList otherwise.
ListDone ==
    /\ At("polled") /\ statusComplete
    /\ \/ idleState = "REALM_LIST"
       \/ /\ idleState = "CHARACTER_LIST"
          /\ ~(main.result = 0 /\ main.code = "CANCELLED")
    /\ GoesTo("input")
    /\ idleState' = "NONE"
    /\ UNCHANGED <<gruntVars, disconnectPending, reconnect, suspended, gameVars,
                   histories>>

\* PollEnterWorld: the screens are suspended, and then the character logs in.
SuspendGlue ==
    /\ Polled("ENTER_WORLD") /\ ~suspended
    /\ GoesTo("input")
    /\ suspended' = TRUE
    /\ UNCHANGED <<gruntVars, idleState, disconnectPending, reconnect, gameVars,
                   histories>>

CharacterLogin ==
    /\ Polled("ENTER_WORLD") /\ suspended
    /\ GoesTo("input")
    /\ idleState' = "NONE"
    /\ IF connected THEN Initiate("LOGIN_CHARACTER", "other")
       ELSE InitiateAndComplete("LOGIN_CHARACTER", 0, "other")
    /\ UNCHANGED <<gruntVars, disconnectPending, reconnect, suspended,
                   selectValid, realmJoined, netVars, histories>>

\* ClientConnection::GetRealmList of a login that was not logged on.
Reconnects ==
    /\ At("reconnect")
    /\ Reconnect
    /\ GoesTo("input")
    /\ UNCHANGED <<login, asked, loggedOn, password, logons, proved, statusVars,
                   realms, worker, glueVars, gameVars, histories>>

----------------------------------------------------------------------------
Scripts ==
    \/ LoginServerLogin \/ CancelLogin \/ CancelOperation
    \/ ChangeRealm \/ RequestRealmList \/ GetCharacterList \/ EnterWorld
    \/ DisconnectFromServer \/ RealmListDialogCancelled

MainLoop ==
    \/ NextPart
    \/ HandleConnect \/ HandleAuthChallenge \/ HandleAuthResponse
    \/ HandleCharEnum \/ HandleDisconnect
    \/ PollStatus \/ PolledNothing
    \/ LoginSucceeded \/ LoginFailed \/ CheckVersions \/ Handshakes
    \/ AccountLoginFailed \/ AccountLoginSucceeded
    \/ CharacterListCancelled \/ ListDone
    \/ SuspendGlue \/ CharacterLogin \/ Reconnects

\* What the links do leaves the screens alone.
Glue == <<main, glueVars, gameVars, histories>>

Grunt == GruntNext /\ UNCHANGED Glue

Realms == EnumFailed \/ EnumRealms \/ Join \/ Listed

Game == GameConnected \/ GameDisconnected \/ GameSends

Faults ==
    \/ GameCantConnect
    \/ GruntFaults /\ UNCHANGED Glue

Bounded ==
    \/ Scripts /\ scripts + faults < MaxActs /\ scripts' = scripts + 1
       /\ UNCHANGED faults
    \/ Faults /\ scripts + faults < MaxActs
       /\ faults < MaxFaults /\ faults' = faults + 1
       /\ UNCHANGED scripts
    \/ (MainLoop \/ Grunt \/ Realms \/ Game) /\ UNCHANGED <<scripts, faults>>

\* A failed assertion ends the process.
Next == ~fatal /\ Bounded

Spec == GlueInit /\ [][Next]_vars

\* The main loop goes round, the timer of every link goes off, the worker is
\* scheduled and every stream that has something for it is served, the login
\* server answers every question, and the game server sends what is due.
FairSpec ==
    /\ Spec
    /\ WF_vars(~fatal /\ MainLoop /\ UNCHANGED <<scripts, faults>>)
    /\ WF_vars(~fatal /\ Realms /\ UNCHANGED <<scripts, faults>>)
    /\ WF_vars(~fatal /\ Game /\ UNCHANGED <<scripts, faults>>)
    /\ WF_vars(~fatal /\ (GivesReport \/ ParsesRealms) /\ UNCHANGED <<Glue, scripts, faults>>)
    /\ \A l \in Logins :
        /\ WF_vars(~fatal /\ Callbacks(l) /\ UNCHANGED <<Glue, scripts, faults>>)
        /\ WF_vars(~fatal /\ Call(l) /\ UNCHANGED <<Glue, scripts, faults>>)

----------------------------------------------------------------------------
(* Properties.                                                             *)

\* The variables have their types.
TypeOK ==
    /\ GruntTypeOK
    /\ main \in Mains
    /\ idleState \in IdleStates
    /\ {disconnectPending, reconnect, suspended, selectValid, statusComplete,
        realmJoined, connected, accepted, overtaken, raced,
        fatal} \subseteq BOOLEAN
    /\ statusCop \in Operations /\ statusResult \in {0, 1}
    /\ errorCode \in Codes
    /\ netState \in {"INITIALIZED", "CONNECTING", "CONNECTED", "DISCONNECTING"}
    /\ conn \in {"none", "connecting", "open", "closing", "failed"}
    /\ due \subseteq Sent
    /\ queue \in Seq(Events)
    /\ scripts \in 0 .. MaxActs /\ faults \in 0 .. MaxFaults

\* As long as no login but the current one has reported: when the glue is told
\* that the login succeeded, and ever after when the game's connection is in
\* use, the session key that NetClient got is one that both ends proved
\* (ClientServices::LoginServerStatus copies it, whoever it is called for).
SessionProved ==
    ~mixed => (authenticated \/ netState # "INITIALIZED" => loginData = "proved")

\* A password is used for one logon: GetLogonMethod, which the timer calls again
\* whenever the link is back in STATE_CONNECTED, forgets it.
OneLogon == \A l \in Logins : logons[l] <= 1

\* What CGlueMgr::Idle waits for is what ClientConnection does: no operation is
\* replaced by another one's while the screen waits, whatever the events, the
\* worker and the scripts do in between.
OperationOfIdle ==
    /\ idleState = "REALM_LIST" => statusCop \in {"GET_REALMS", "WAIT_QUEUE"}
    /\ idleState = "ACCOUNT_LOGIN" =>
        statusCop \in {"CONNECT", "AUTHENTICATE", "WAIT_QUEUE"}
    /\ idleState = "CHARACTER_LIST" =>
        statusCop \in {"GET_CHARACTERS", "WAIT_QUEUE"}

\* Every disconnection that will reach CGlueMgr::NetDisconnectHandler is one
\* that the glue started: it never logs off or leaves a screen for a connection
\* that it had already given up.
DisconnectExpected ==
    conn = "closing" \/ (\E i \in 1 .. Len(queue) : queue[i].is = "disconnect")
        => disconnectPending

\* The character screen is shown for a session that the game server accepted,
\* unless the worker ended an operation of another kind or changed the status
\* while PollStatus was reading it.
SelectsAfterAccept ==
    [][~raced /\ AccountLoginSucceeded /\ main.op # "CONNECT" => accepted]_vars

\* ClientLink::ProveVersion asserts that a challenge was answered and that the
\* link is still in the state that the answer left.
VersionAfterChallenge == ~fatal

\* A login ends: the dialog leaves LOGIN_SERVER_LOGIN, unless something went
\* wrong with a connection or an answer, a login before it reported in its
\* place, HANDSHAKING replaced a later state, or the state is one that
\* PollLoginServerLogin does not know.
LoginEnds ==
    idleState = "LOGIN_SERVER_LOGIN" ~>
        \/ idleState # "LOGIN_SERVER_LOGIN"
        \/ faults > 0 \/ mixed \/ overtaken \/ loginState = "other" \/ fatal

\* A change of realm reconnects: the disconnection that ChangeRealm waits for
\* comes and is handled.
ReconnectEnds == reconnect ~> ~reconnect \/ fatal

\* Logins are sound: the variables have their types, the session key in use is
\* proved by both ends, and no password is used twice.
SessionsSound == TypeOK /\ SessionProved /\ OneLogon

\* What the screens wait for comes: the end of a login, and the disconnection
\* before a change of realm.
WaitsEnd == LoginEnds /\ ReconnectEnds

=============================================================================
