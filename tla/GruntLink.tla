------------------------------ MODULE GruntLink ------------------------------
(***************************************************************************)
(* Logging in to the login server: every LoginServerLogin makes a          *)
(* GruntLogin with a ClientLink of its own, and replaces s_loginObj with   *)
(* it; the logins before it are never destroyed, and their links go on.    *)
(*                                                                         *)
(* Three threads meet here.  The worker of the network runs the callbacks  *)
(* of the links' streams: it parses the server's answers, sets m_state and *)
(* then reports to the glue (UpdateLoginStatus).  The timer of a link runs *)
(* ClientLink::Call every 100 ms.  The main thread, in GlueLogin, starts   *)
(* logins, proves the version, asks for realms and logs off.               *)
(*                                                                         *)
(* The stream of a link is what ConnectionCallbacks promises of a          *)
(* connection in Streams.  The login server is external: it answers the    *)
(* questions in their order, may refuse, may answer nonsense, and may      *)
(* close.  SRP6 is abstracted to whether a proof is accepted.              *)
(***************************************************************************)
EXTENDS Integers, Sequences

CONSTANTS
    MaxLogins,  \* bound: logins that are started
    MaxAsked    \* bound: no realms are asked for while as many answers are due

ASSUME LoginsAssumption == MaxLogins \in Nat \ {0}
ASSUME AskedAssumption == MaxAsked \in Nat \ {0}

Logins == 1 .. MaxLogins

VARIABLES
    login,          \* s_loginObj, or 0 before the first login
    link,           \* of a login: m_state of its ClientLink
    stream,         \* of a login: the connection of its link
    asked,          \* of a login: the questions the server has to answer
    loggedOn,       \* of a login: m_loggedOn
    isReconnect,    \* of a login: m_reconnect
    password,       \* of a login: m_password is in memory
    logons,         \* history: of a login, the passwords it has proved to know
    proved,         \* history: of a login, both ends proved the session key
    loginState,     \* CGlueMgr::m_loginState
    authenticated,  \* CGlueMgr::m_authenticated
    loginData,      \* the session key NetClient was given: none, proved or not
    mixed,          \* history: a login other than s_loginObj has reported
    realms,         \* LoginResponse::m_realmList
    worker          \* what the network's worker is doing

linkVars == <<link, stream, asked, loggedOn, isReconnect, password, logons,
              proved>>
statusVars == <<loginState, authenticated, loginData, mixed>>
gruntVars == <<login, linkVars, statusVars, realms, worker>>

LinkStates == {"NONE", "CONNECTING", "CONNECTED", "AUTH_CHALLENGE",
               "CONNECT_VERSION", "RECONNECT_VERSION", "AUTHENTICATED"}

LoginStates == {"unset", "CONNECTING", "CONNECTED", "AUTHENTICATING",
                "CHECKINGVERSIONS", "HANDSHAKING", "AUTHENTICATED", "other",
                "FAILED"}

Questions == {"challenge", "proof", "reconnectChallenge", "reconnectProof",
              "realms"}

\* What a list of realms may tell: nothing, realms without the selected one,
\* or realms with it.
RealmLists == {"empty", "others", "selected"}

\* at: "idle"   waiting for a connection to serve
\*     "report" before UpdateLoginStatus; locked: it holds m_critSect
\*     "parse"  HandleRealmData cleared the list and is filling it
\*     "enum"   before RealmEnumCallback with each of codes
\*     "join"   in it, before ConnectToSelectedServer
\*     "listed" in it, before the operation is completed
Workers ==
    [at : {"idle", "join", "listed"}]
    \cup [at : {"report"}, by : Logins, state : LoginStates, locked : BOOLEAN]
    \cup [at : {"parse"}, list : RealmLists, fits : BOOLEAN]
    \cup [at : {"enum"}, codes : {<<0>>, <<1>>, <<4, 0>>}]

Idle == [at |-> "idle"]

----------------------------------------------------------------------------
Init ==
    /\ login = 0
    /\ link = [l \in Logins |-> "NONE"]
    /\ stream = [l \in Logins |-> "none"]
    /\ asked = [l \in Logins |-> <<>>]
    /\ loggedOn = [l \in Logins |-> FALSE]
    /\ isReconnect = [l \in Logins |-> FALSE]
    /\ password = [l \in Logins |-> FALSE]
    /\ logons = [l \in Logins |-> 0]
    /\ proved = [l \in Logins |-> FALSE]
    /\ loginState = "unset"
    /\ authenticated = FALSE
    /\ loginData = "none"
    /\ mixed = FALSE
    /\ realms = "empty"
    /\ worker = Idle

----------------------------------------------------------------------------
(* What the threads have in common.                                        *)

\* LoginResponse::UpdateLoginStatus, ClientServices::LoginServerStatus and
\* CGlueMgr::SetLoginStateAndResult.  The key that is copied is s_loginObj's,
\* whoever reports.
Report(l, state) ==
    /\ loginState' = state
    /\ mixed' = (mixed \/ l # login)
    /\ IF state = "AUTHENTICATED"
       THEN /\ authenticated' = TRUE
            /\ loginData' = IF proved[login] THEN "proved" ELSE "unproved"
       ELSE UNCHANGED <<authenticated, loginData>>

\* ClientLink::Send: what a stream that is not connected is given is lost.
Ask(l, question) ==
    asked' = IF stream[l] = "open"
             THEN [asked EXCEPT ![l] = Append(@, question)] ELSE asked

\* ClientLink::Disconnect has an effect on a connected stream only.
Drop(l) == stream' = IF stream[l] = "open"
                     THEN [stream EXCEPT ![l] = "closing"] ELSE stream

SetState(l, state) == link' = [link EXCEPT ![l] = state]

\* Whether the worker holds m_critSect of a link.
Locked(l) == worker.at = "report" /\ worker.locked /\ worker.by = l

----------------------------------------------------------------------------
(* The worker: callbacks of the streams.                                   *)

WorkerReports(l, state, locked) ==
    worker' = [at |-> "report", by |-> l, state |-> state, locked |-> locked]

\* ClientLink::WCConnected and GruntLogin::Connected, up to the report.
WCConnected(l) ==
    /\ worker = Idle
    /\ stream[l] = "connecting"
    /\ stream' = [stream EXCEPT ![l] = "open"]
    /\ SetState(l, "CONNECTED")
    /\ loggedOn' = [loggedOn EXCEPT ![l] = TRUE]
    /\ WorkerReports(l, "CONNECTED", TRUE)
    /\ UNCHANGED <<login, asked, isReconnect, password, logons, proved,
                   statusVars, realms>>

\* ClientLink::WCCantConnect does nothing: the link stays CONNECTING.
WCCantConnect(l) ==
    /\ worker = Idle
    /\ stream[l] = "connecting"
    /\ stream' = [stream EXCEPT ![l] = "failed"]
    /\ UNCHANGED <<login, link, asked, loggedOn, isReconnect, password, logons,
                   proved, statusVars, realms, worker>>

\* ClientLink::WCDisconnected: the glue is not told, and what was asked stays
\* unanswered.
WCDisconnected(l) ==
    /\ worker = Idle
    /\ stream[l] = "closing"
    /\ stream' = [stream EXCEPT ![l] = "closed"]
    /\ asked' = [asked EXCEPT ![l] = <<>>]
    /\ SetState(l, "NONE")
    /\ UNCHANGED <<login, loggedOn, isReconnect, password, logons,
                   proved, statusVars, realms, worker>>

\* The report that a callback ends with.
GivesReport ==
    /\ worker.at = "report"
    /\ Report(worker.by, worker.state)
    /\ worker' = Idle
    /\ UNCHANGED <<login, linkVars, realms>>

\* The next answer of the server, to WCDataReady and Command::Process.
Answers(l, question) ==
    /\ worker = Idle
    /\ stream[l] = "open"
    /\ asked[l] # <<>> /\ Head(asked[l]) = question

Answered(l) == asked' = [asked EXCEPT ![l] = Tail(@)]

\* A callback that answers the answer.
AnsweredWith(l, question) ==
    asked' = [asked EXCEPT ![l] = Append(Tail(@), question)]

\* An answer that cannot be read disconnects.
BadAnswer(l) ==
    /\ worker = Idle
    /\ stream[l] = "open"
    /\ asked[l] # <<>>
    /\ Drop(l)
    /\ Answered(l)
    /\ UNCHANGED <<login, link, loggedOn, isReconnect, password, logons, proved,
                   statusVars, realms, worker>>

\* GruntLogin::LogonResult: a login that was told to reconnect fails the
\* operation that wanted the realms and disconnects, whatever the result.
LogonResult(l, state) ==
    IF isReconnect[l]
    THEN /\ realms' = "empty"
         /\ worker' = [at |-> "enum", codes |-> <<1>>]
         /\ Drop(l)
    ELSE /\ WorkerReports(l, state, FALSE)
         /\ UNCHANGED <<stream, realms>>

\* Mutant: a login whose server was not verified may succeed.
LogonMaySucceed == {"FAILED", "other", "AUTHENTICATED"}

LogonFails == {"FAILED", "other"}

\* GruntLogin::GetVersionProof, when the link is ready to prove the version.
\* NextSecurityState is always CHECKINGVERSIONS, for SetPinInfo,
\* SetMatrixInfo and SetTokenInfo do nothing.
GetVersionProof(l, question) ==
    IF isReconnect[l]
    THEN AnsweredWith(l, question) /\ UNCHANGED worker
    ELSE Answered(l) /\ WorkerReports(l, "CHECKINGVERSIONS", FALSE)

CmdAuthLogonChallenge(l) ==
    /\ Answers(l, "challenge")
    /\ \/ /\ SetState(l, "CONNECT_VERSION")
          /\ GetVersionProof(l, "proof")
          /\ UNCHANGED <<stream, realms>>
       \/ /\ SetState(l, "CONNECTED")
          /\ Answered(l)
          /\ LogonResult(l, "FAILED")
    /\ UNCHANGED <<login, loggedOn, isReconnect, password, logons, proved,
                   statusVars>>

\* The state of the link after the server's proof was verified.
VerifiedState == "AUTHENTICATED"

\* The same for a server whose proof was not verified.
UnverifiedState == "CONNECTED"

CmdAuthLogonProof(l) ==
    /\ Answers(l, "proof")
    /\ Answered(l)
    /\ \/ /\ SetState(l, VerifiedState)
          /\ proved' = [proved EXCEPT ![l] = TRUE]
          /\ \E state \in {"AUTHENTICATED", "other"} : LogonResult(l, state)
       \/ /\ SetState(l, UnverifiedState)
          /\ \E state \in LogonFails : LogonResult(l, state)
          /\ UNCHANGED proved
    /\ UNCHANGED <<login, loggedOn, isReconnect, password, logons, statusVars>>

\* An answer with result 10 is read and ignored.
IgnoredLogonProof(l) ==
    /\ Answers(l, "proof")
    /\ Answered(l)
    /\ UNCHANGED <<login, link, stream, loggedOn, isReconnect, password, logons,
                   proved, statusVars, realms, worker>>

\* A refusal is a bad answer.
CmdAuthReconnectChallenge(l) ==
    /\ Answers(l, "reconnectChallenge")
    /\ SetState(l, "RECONNECT_VERSION")
    /\ GetVersionProof(l, "reconnectProof")
    /\ UNCHANGED <<login, stream, loggedOn, isReconnect, password, logons,
                   proved, statusVars, realms>>

\* GruntLogin::ReconnectResult does nothing.  The server accepts the key of
\* a session that it has.
CmdAuthReconnectProof(l) ==
    /\ Answers(l, "reconnectProof")
    /\ Answered(l)
    /\ SetState(l, IF proved[l] THEN "AUTHENTICATED" ELSE "CONNECTED")
    /\ UNCHANGED <<login, stream, loggedOn, isReconnect, password, logons,
                   proved, statusVars, realms, worker>>

\* CmdRealmList and HandleRealmData, which clears the list before it fills
\* it.  The list does not fit what was received if the next answer was
\* received with it.
CmdRealmList(l) ==
    /\ Answers(l, "realms")
    /\ Answered(l)
    /\ realms' = "empty"
    /\ \E list \in RealmLists, fits \in BOOLEAN :
        /\ fits \/ Len(asked[l]) > 1
        /\ worker' = [at |-> "parse", list |-> list, fits |-> fits]
    /\ UNCHANGED <<login, link, stream, loggedOn, isReconnect, password, logons,
                   proved, statusVars>>

\* The rest of HandleRealmData: a list that does not fit is a failure, and
\* then a success.
ParsesRealms ==
    /\ worker.at = "parse"
    /\ realms' = IF worker.fits THEN worker.list ELSE "empty"
    /\ worker' = [at |-> "enum",
                  codes |-> IF worker.fits THEN <<0>> ELSE <<4, 0>>]
    /\ UNCHANGED <<login, linkVars, statusVars>>

----------------------------------------------------------------------------
(* The timer of a link: ClientLink::Call and GruntLogin::GetLogonMethod.   *)

\* Mutant: the password is kept.
Remembers(l) == password' = password

\* A password is forgotten when it has been used.
Forgets(l) == password' = [password EXCEPT ![l] = FALSE]

Call(l) ==
    /\ ~Locked(l)
    /\ link[l] = "CONNECTED"
    /\ IF isReconnect[l]
       THEN /\ Ask(l, "reconnectChallenge")
            /\ UNCHANGED <<password, logons, statusVars>>
       ELSE /\ password[l]
            /\ Report(l, "AUTHENTICATING")
            /\ Ask(l, "challenge")
            /\ Forgets(l)
            /\ logons' = [logons EXCEPT ![l] = IF @ < 2 THEN @ + 1 ELSE @]
    /\ SetState(l, "AUTH_CHALLENGE")
    /\ UNCHANGED <<login, stream, loggedOn, isReconnect, proved, realms, worker>>

----------------------------------------------------------------------------
(* What the main thread does with a login.                                 *)

\* ClientServices::Logon: a GruntLogin and its ClientLink are made, and
\* connect.
Logon ==
    /\ login < MaxLogins
    /\ login' = login + 1
    /\ password' = [password EXCEPT ![login + 1] = TRUE]
    /\ SetState(login + 1, "CONNECTING")
    /\ stream' = [stream EXCEPT ![login + 1] = "connecting"]
    /\ UNCHANGED <<asked, loggedOn, isReconnect, logons, proved>>

\* GruntLogin::Logoff
Logoff == IF login # 0 /\ loggedOn[login] THEN Drop(login)
          ELSE UNCHANGED stream

\* ClientLink::GetRealmList: nothing is asked of a link that is not ready.
AsksRealms == link[login] = "AUTHENTICATED" /\ stream[login] = "open"

GetRealmList ==
    /\ AsksRealms => Len(asked[login]) < MaxAsked
    /\ IF AsksRealms THEN Ask(login, "realms") ELSE UNCHANGED asked

\* GruntLogin::Reconnect: a link that was left connecting is not connected
\* again.
Reconnect ==
    /\ isReconnect' = [isReconnect EXCEPT ![login] = TRUE]
    /\ IF link[login] = "NONE"
       THEN /\ SetState(login, "CONNECTING")
            /\ stream' = [stream EXCEPT ![login] = "connecting"]
       ELSE UNCHANGED <<link, stream>>

\* ClientLink::ProveVersion, which asserts that a challenge was answered.
MayProve(l) == link[l] \in {"CONNECT_VERSION", "RECONNECT_VERSION"}

\* Mutant: only a reconnection is proved.
ProveReconnection ==
    IF link[login] = "CONNECT_VERSION" THEN UNCHANGED asked
    ELSE Ask(login, "reconnectProof")

ProveVersion ==
    Ask(login, IF link[login] = "CONNECT_VERSION" THEN "proof"
               ELSE "reconnectProof")

\* The server, or what is between, closes a stream.
ServerCloses(l) ==
    /\ stream[l] = "open"
    /\ stream' = [stream EXCEPT ![l] = "closing"]
    /\ UNCHANGED <<login, link, asked, loggedOn, isReconnect, password, logons,
                   proved, statusVars, realms, worker>>

----------------------------------------------------------------------------
Callbacks(l) ==
    \/ WCConnected(l) \/ WCDisconnected(l)
    \/ CmdAuthLogonChallenge(l) \/ CmdAuthLogonProof(l)
    \/ CmdAuthReconnectChallenge(l) \/ CmdAuthReconnectProof(l)
    \/ CmdRealmList(l)

GruntNext ==
    \/ \E l \in Logins : Callbacks(l) \/ Call(l)
    \/ GivesReport
    \/ ParsesRealms

GruntFaults ==
    \E l \in Logins :
        \/ WCCantConnect(l) \/ BadAnswer(l) \/ IgnoredLogonProof(l)
        \/ ServerCloses(l)

GruntTypeOK ==
    /\ login \in 0 .. MaxLogins
    /\ link \in [Logins -> LinkStates]
    /\ stream \in [Logins -> {"none", "connecting", "open", "closing",
                              "closed", "failed"}]
    /\ asked \in [Logins -> Seq(Questions)]
    /\ {loggedOn, isReconnect, password, proved} \subseteq [Logins -> BOOLEAN]
    /\ logons \in [Logins -> 0 .. 2]
    /\ loginState \in LoginStates
    /\ authenticated \in BOOLEAN /\ mixed \in BOOLEAN
    /\ loginData \in {"none", "proved", "unproved"}
    /\ realms \in RealmLists
    /\ worker \in Workers
=============================================================================
