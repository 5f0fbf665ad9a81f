--------------------------- MODULE GlueLoginProofs ---------------------------
(***************************************************************************)
(* Theorems about GlueLogin, for any number of logins and any bounds.      *)
(***************************************************************************)
EXTENDS GlueLogin, SequenceTheorems, TLAPS

----------------------------------------------------------------------------
(* The inductive invariant: the logins.                                    *)

\* A login that was not started has nothing.
NotStarted ==
    \A l \in Logins : l > login =>
        /\ link[l] = "NONE" /\ stream[l] = "none" /\ asked[l] = <<>>
        /\ ~ loggedOn[l] /\ ~ isReconnect[l] /\ ~ password[l] /\ ~ proved[l]
        /\ logons[l] = 0

\* Before the first login nothing has begun.
NoneBegun ==
    login = 0 => /\ idleState = "NONE" /\ netState = "INITIALIZED"
                 /\ worker = Idle /\ main.at # "reconnect"

OnePassword == \A l \in Logins : logons[l] <= 1 /\ (password[l] => logons[l] = 0)

\* What was asked can be answered, and a link without a state has no stream.
AskedOpen ==
    \A l \in Logins :
        /\ stream[l] \notin {"open", "closing"} => asked[l] = <<>>
        /\ link[l] = "NONE" => stream[l] \in {"none", "closed"}

\* Before its stream has connected, a login has asked and proved nothing.
NotLoggedOn ==
    \A l \in Logins : ~ loggedOn[l] =>
        /\ asked[l] = <<>> /\ ~ proved[l]
        /\ stream[l] \notin {"open", "closing", "closed"}
        /\ link[l] \in {"NONE", "CONNECTING"}

Asks(l, question) == \E i \in DOMAIN asked[l] : asked[l][i] = question

\* Only a login that reconnects is asked to prove an earlier session, and its
\* stream is dropped once it has proved a new one.
Reconnection ==
    \A l \in Logins :
        /\ link[l] = "RECONNECT_VERSION" => isReconnect[l]
        /\ Asks(l, "reconnectChallenge") \/ Asks(l, "reconnectProof") => isReconnect[l]
        /\ proved[l] /\ isReconnect[l] => stream[l] \notin {"connecting", "open"}

\* A login that is about to reconnect proves nothing in the meantime.
AboutToReconnect ==
    main.at = "reconnect" =>
        /\ ~ proved[login] /\ ~ Asks(login, "proof")
        /\ isReconnect[login] =>
            ~ Asks(login, "challenge") /\ link[login] # "CONNECT_VERSION"

ReportsProved ==
    worker.at = "report" /\ worker.state = "AUTHENTICATED" => proved[worker.by]

\* Until NetClient has the key of a session, nothing comes of one.
NoSession ==
    ~ mixed /\ loginData # "proved" =>
        /\ ~ authenticated /\ netState = "INITIALIZED"
        /\ worker.at \notin {"parse", "join", "listed"}
        /\ worker.at = "enum" => worker.codes = <<1>>
        /\ \A l \in Logins : ~ Asks(l, "realms")
        /\ login # 0 /\ stream[login] = "open" /\ idleState # "LOGIN_SERVER_LOGIN" =>
            /\ link[login] # "AUTHENTICATED"
            /\ Asks(login, "proof") => isReconnect[login]

----------------------------------------------------------------------------
(* The inductive invariant: the connection to the game server.             *)

Handshake == {"challenge", "session", "admission"}

Queues(is) == \E i \in DOMAIN queue : queue[i].is = is

HandshakeQueued == \E i \in DOMAIN queue : queue[i].is \in Handshake

\* What the connection does and what the queue holds, in each of the states.
Connection ==
    /\ connected => netState = "CONNECTED"
    /\ netState = "INITIALIZED" => conn = "none" /\ due = {} /\ queue = <<>>
    /\ netState = "CONNECTING" =>
        /\ conn \in {"connecting", "open", "failed"} /\ ~ accepted
        /\ conn # "open" => due = {} /\ queue = <<>>
        /\ conn = "open" => queue # <<>> /\ Head(queue).is = "connect"
        /\ due \subseteq {"challenge"}
        /\ \A i \in DOMAIN queue : queue[i].is \in {"connect", "challenge"}
    /\ netState = "CONNECTED" => conn = "open" /\ ~ Queues("disconnect")
    /\ netState = "DISCONNECTING" =>
        /\ disconnectPending
        /\ conn \in {"closing", "none"}
        /\ conn = "closing" => ~ Queues("disconnect")
        /\ conn = "none" => due = {} /\ queue # <<>> /\ queue[Len(queue)].is = "disconnect"
        /\ \A i \in DOMAIN queue : queue[i].is = "disconnect" => i = Len(queue)
    /\ \A i \in DOMAIN queue :
        queue[i].is = "connect" => i = 1 /\ netState = "CONNECTING"

ToCome(is) == is \in due \/ Queues(is)

\* There is one challenge, one session that answers it and, if that has to
\* queue, one admission after it.
OneHandshake ==
    /\ \A i, j \in DOMAIN queue :
        queue[i].is \in Handshake /\ queue[j].is = queue[i].is => i = j
    /\ \A is \in Handshake : Queues(is) => is \notin due
    /\ ToCome("challenge") => ~ ToCome("session") /\ ~ ToCome("admission")
    /\ "session" \in due => ~ ToCome("admission")
    /\ \A i \in DOMAIN queue : queue[i].is = "session" /\ ToCome("admission") =>
        /\ queue[i].code = "QUEUED"
        /\ \A j \in DOMAIN queue : queue[j].is = "admission" => i < j
    /\ accepted => \A is \in Handshake : ~ ToCome(is)

\* The session of every character list was accepted, or will be when its turn
\* comes.
AcceptedBefore(i) == accepted \/ \E j \in 1 .. (i - 1) : Accepts(queue[j])

CharactersAccepted ==
    \A i \in DOMAIN queue : queue[i].is = "characters" => AcceptedBefore(i)

\* A connection that is given up forgets that its session was accepted.
CharactersOfSession ==
    CharactersAccepted \/ (netState = "DISCONNECTING" /\ ~ HandshakeQueued)

----------------------------------------------------------------------------
(* The inductive invariant: the account login.                             *)

Authenticates == idleState = "ACCOUNT_LOGIN" /\ statusCop \in {"AUTHENTICATE", "WAIT_QUEUE"}

Succeeded == statusComplete /\ statusResult = 1

\* All events have been handled before the screens are polled.
HandledBeforePoll ==
    main.at \in {"idle", "polled"} /\ netState = "DISCONNECTING" =>
        \A i \in DOMAIN queue : queue[i].is = "disconnect"

\* PollStatus reads what is there, and no other thread changes it.
PolledAsIs ==
    main.at = "polled" =>
        /\ main.op = statusCop
        /\ ~ raced => main.result = statusResult /\ main.code = errorCode

AccountLogin ==
    ~ raced =>
        /\ idleState = "ACCOUNT_LOGIN" /\ statusCop = "CONNECT" /\ Succeeded =>
            netState \in {"CONNECTED", "DISCONNECTING"}
        /\ Authenticates =>
            /\ netState \in {"CONNECTED", "DISCONNECTING"}
            /\ CharactersAccepted
            /\ Succeeded => accepted

LoginInv ==
    /\ NotStarted /\ NoneBegun /\ OnePassword /\ AskedOpen /\ NotLoggedOn
    /\ Reconnection /\ AboutToReconnect /\ ReportsProved /\ NoSession

GameInv ==
    /\ Connection /\ OneHandshake /\ CharactersOfSession
    /\ HandledBeforePoll /\ PolledAsIs /\ AccountLogin

IInv == TypeOK /\ OperationOfIdle /\ LoginInv /\ GameInv

----------------------------------------------------------------------------
(* Types.                                                                  *)

LEMMA MainIs ==
    \A at \in {"input", "poll", "idle", "prove", "reconnect"} :
        [at |-> at] \in Mains /\ [at |-> at].at = at
BY DEF Mains

LEMMA WorkerIs ==
    /\ Idle \in Workers /\ Idle.at = "idle"
    /\ \A at \in {"join", "listed"} : [at |-> at] \in Workers /\ [at |-> at].at = at
    /\ \A l \in Logins, state \in LoginStates, locked \in BOOLEAN :
        [at |-> "report", by |-> l, state |-> state, locked |-> locked] \in Workers
    /\ \A list \in RealmLists, fits \in BOOLEAN :
        [at |-> "parse", list |-> list, fits |-> fits] \in Workers
    /\ \A codes \in {<<0>>, <<1>>, <<4, 0>>} :
        [at |-> "enum", codes |-> codes] \in Workers
BY DEF Workers, Idle

\* The codes of a list of realms are reported one after the other.
LEMMA NextCodeIs ==
    ASSUME worker \in Workers, worker.at = "enum"
    PROVE  /\ worker.codes \in {<<0>>, <<1>>, <<4, 0>>}
           /\ NextCode \in {Idle, [at |-> "enum", codes |-> <<0>>]}
           /\ worker.codes = <<1>> => NextCode = Idle
<1>1. PICK codes \in {<<0>>, <<1>>, <<4, 0>>} : worker = [at |-> "enum", codes |-> codes]
  BY DEF Workers
<1>2. /\ Len(<<0>>) = 1 /\ Len(<<1>>) = 1 /\ Len(<<4, 0>>) = 2 /\ Tail(<<4, 0>>) = <<0>>
  OBVIOUS
<1>3. worker.codes = codes
  BY <1>1
<1>4. CASE codes = <<4, 0>>
  <2>1. [worker EXCEPT !.codes = Tail(@)] = [at |-> "enum", codes |-> <<0>>]
    <3>1. [worker EXCEPT !.codes = Tail(@)] = [worker EXCEPT !.codes = <<0>>]
      BY <1>2, <1>3, <1>4
    <3>. QED  BY <3>1, <1>1
  <2>2. Len(worker.codes) # 1 /\ codes # <<1>>
    BY <1>2, <1>3, <1>4
  <2>. QED  BY <1>1, <1>3, <2>1, <2>2 DEF NextCode
<1>5. CASE codes # <<4, 0>>
  BY <1>1, <1>2, <1>3, <1>5 DEF NextCode
<1>. QED  BY <1>4, <1>5

\* A question is asked of an open stream only.
LEMMA AskType ==
    ASSUME GruntTypeOK, NEW l \in Logins, NEW q \in Questions, Ask(l, q)
    PROVE  /\ asked' \in [Logins -> Seq(Questions)]
           /\ \A k \in Logins : k # l \/ stream[k] # "open" => asked'[k] = asked[k]
           /\ \A k \in Logins : \A question : Asks(k, question)' =>
                Asks(k, question) \/ (k = l /\ question = q /\ stream[k] = "open")
<1>1. asked \in [Logins -> Seq(Questions)]
  BY DEF GruntTypeOK
<1>2. CASE stream[l] # "open"
  BY <1>1, <1>2 DEF Ask, Asks
<1>3. CASE stream[l] = "open"
  <2>1. asked' = [asked EXCEPT ![l] = Append(asked[l], q)]
    BY <1>3 DEF Ask
  <2>2. PICK s \in Seq(Questions) : s = asked[l]
    BY <1>1
  <2>3. /\ Append(s, q) \in Seq(Questions)
        /\ \A i \in DOMAIN Append(s, q) :
            (i \in DOMAIN s /\ Append(s, q)[i] = s[i]) \/ Append(s, q)[i] = q
    BY <2>2
  <2>4. asked'[l] = Append(s, q) /\ \A k \in Logins : k # l => asked'[k] = asked[k]
    BY <1>1, <2>1, <2>2
  <2>5. asked' \in [Logins -> Seq(Questions)]
    BY <1>1, <2>1, <2>2, <2>3
  <2>6. ASSUME NEW k \in Logins, NEW question, Asks(k, question)'
        PROVE  Asks(k, question) \/ (k = l /\ question = q)
    BY <2>2, <2>3, <2>4, <2>6 DEF Asks
  <2>. QED  BY <1>3, <2>4, <2>5, <2>6
<1>. QED  BY <1>2, <1>3

LEMMA AnsweredType ==
    ASSUME GruntTypeOK, NEW l \in Logins, asked[l] # <<>>, Answered(l)
    PROVE  /\ asked' \in [Logins -> Seq(Questions)]
           /\ \A k \in Logins : k # l => asked'[k] = asked[k]
           /\ \A k \in Logins : \A question : Asks(k, question)' => Asks(k, question)
<1>1. asked \in [Logins -> Seq(Questions)]
  BY DEF GruntTypeOK
<1>2. PICK s \in Seq(Questions) : s = asked[l] /\ s # <<>>
  BY <1>1
<1>3. asked' = [asked EXCEPT ![l] = Tail(s)]
  BY <1>2 DEF Answered
<1>4. /\ Tail(s) \in Seq(Questions)
      /\ \A i \in DOMAIN Tail(s) : i + 1 \in DOMAIN s /\ Tail(s)[i] = s[i + 1]
  BY <1>2
<1>5. asked'[l] = Tail(s) /\ \A k \in Logins : k # l => asked'[k] = asked[k]
  BY <1>1, <1>3
<1>6. ASSUME NEW k \in Logins, NEW question, Asks(k, question)'
      PROVE  Asks(k, question)
  <2>1. CASE k # l
    BY <1>5, <1>6, <2>1 DEF Asks
  <2>2. CASE k = l
    <3>1. PICK i \in DOMAIN Tail(s) : Tail(s)[i] = question
      BY <1>5, <1>6, <2>2 DEF Asks
    <3>. QED  BY <1>2, <1>4, <2>2, <3>1 DEF Asks
  <2>. QED  BY <2>1, <2>2
<1>7. asked' \in [Logins -> Seq(Questions)]
  BY <1>1, <1>3, <1>4
<1>. QED  BY <1>5, <1>6, <1>7

LEMMA AnsweredWithType ==
    ASSUME GruntTypeOK, NEW l \in Logins, NEW q \in Questions, asked[l] # <<>>,
           AnsweredWith(l, q)
    PROVE  /\ asked' \in [Logins -> Seq(Questions)]
           /\ \A k \in Logins : k # l => asked'[k] = asked[k]
           /\ \A k \in Logins : \A question : Asks(k, question)' =>
                Asks(k, question) \/ (k = l /\ question = q)
<1>1. asked \in [Logins -> Seq(Questions)]
  BY DEF GruntTypeOK
<1>2. PICK s \in Seq(Questions) : s = asked[l] /\ s # <<>>
  BY <1>1
<1>3. PICK t \in Seq(Questions) : t = Tail(s)
  <2>1. Tail(s) \in Seq(Questions)
    BY <1>2
  <2>. QED  BY <2>1
<1>4. asked' = [asked EXCEPT ![l] = Append(t, q)]
  BY <1>2, <1>3 DEF AnsweredWith
<1>5. \A i \in DOMAIN t : i + 1 \in DOMAIN s /\ t[i] = s[i + 1]
  BY <1>2, <1>3
<1>6. /\ Append(t, q) \in Seq(Questions)
      /\ \A i \in DOMAIN Append(t, q) :
          (i \in DOMAIN t /\ Append(t, q)[i] = t[i]) \/ Append(t, q)[i] = q
  BY <1>3
<1>7. asked'[l] = Append(t, q) /\ \A k \in Logins : k # l => asked'[k] = asked[k]
  BY <1>1, <1>4
<1>8. ASSUME NEW k \in Logins, NEW question, Asks(k, question)'
      PROVE  Asks(k, question) \/ (k = l /\ question = q)
  BY ZenonT(40), <1>2, <1>5, <1>6, <1>7, <1>8 DEF Asks
<1>9. asked' \in [Logins -> Seq(Questions)]
  BY <1>1, <1>4, <1>6
<1>. QED  BY <1>7, <1>8, <1>9

\* The question that is answered was asked.
LEMMA AnswersAsked ==
    ASSUME GruntTypeOK, NEW l \in Logins, NEW q, Answers(l, q)
    PROVE  Asks(l, q) /\ asked[l] # <<>> /\ stream[l] = "open"
<1>1. PICK s \in Seq(Questions) : s = asked[l]
  BY DEF GruntTypeOK
<1>2. s # <<>> /\ Head(s) = q
  BY <1>1 DEF Answers
<1>3. 1 \in DOMAIN s /\ s[1] = q
  BY <1>2
<1>. QED  BY <1>1, <1>3 DEF Asks, Answers

----------------------------------------------------------------------------
(* Which actions change what.                                              *)

\* What a callback or the timer of a link, or what fails, does to a login.
LinkActs(l) ==
    \/ WCConnected(l) \/ WCCantConnect(l) \/ WCDisconnected(l)
    \/ CmdAuthLogonChallenge(l) \/ CmdAuthLogonProof(l) \/ IgnoredLogonProof(l)
    \/ CmdAuthReconnectChallenge(l) \/ CmdAuthReconnectProof(l)
    \/ CmdRealmList(l) \/ BadAnswer(l) \/ ServerCloses(l) \/ Call(l)

LEMMA Steps ==
    ASSUME Next
    PROVE  \/ Scripts \/ MainLoop \/ Realms \/ Game \/ GameCantConnect
           \/ UNCHANGED Glue /\ (GivesReport \/ ParsesRealms)
           \/ UNCHANGED Glue /\ \E l \in Logins : LinkActs(l)
BY DEF Next, Bounded, Faults, Grunt, GruntNext, GruntFaults, Callbacks, LinkActs

\* The actions that change the connection to the game server.
NetActs ==
    \/ GameConnected \/ GameCantConnect \/ GameDisconnected \/ GameSends \/ Join
    \/ ChangeRealm \/ GetCharacterList \/ DisconnectFromServer
    \/ HandleConnect \/ HandleAuthChallenge \/ HandleAuthResponse
    \/ HandleCharEnum \/ HandleDisconnect \/ AccountLoginFailed

LEMMA NetStep ==
    ASSUME Next
    PROVE  NetActs \/ UNCHANGED netVars
<1>1. CASE Scripts
  BY <1>1 DEF Scripts, NetActs, LoginServerLogin, CancelLogin, CancelOperation,
    RequestRealmList, EnterWorld, RealmListDialogCancelled, gameVars
<1>2. CASE MainLoop
  BY <1>2 DEF MainLoop, NetActs, NextPart, PollStatus, PolledNothing,
    LoginSucceeded, LoginFailed, CheckVersions, Handshakes,
    AccountLoginSucceeded, CharacterListCancelled, ListDone, SuspendGlue,
    CharacterLogin, Reconnects, gameVars
<1>3. CASE Realms
  BY <1>3 DEF Realms, NetActs, EnumFailed, EnumRealms, Listed
<1>4. CASE Game \/ GameCantConnect
  BY <1>4 DEF Game, NetActs
<1>5. CASE UNCHANGED Glue
  BY <1>5 DEF Glue, gameVars
<1>. QED  BY <1>1, <1>2, <1>3, <1>4, <1>5, Steps

\* The current login is logged off, or asked for realms or for a proof.
LogsOff ==
    /\ login # 0 /\ loggedOn[login]
    /\ Drop(login)
    /\ UNCHANGED <<login, link, asked, loggedOn, isReconnect, password, logons,
                   proved>>

AsksServer(question) ==
    /\ login # 0
    /\ Ask(login, question)
    /\ UNCHANGED <<login, link, stream, loggedOn, isReconnect, password, logons,
                   proved>>

AsksForRealms ==
    /\ idleState # "LOGIN_SERVER_LOGIN" \/ authenticated \/ netState # "INITIALIZED"
    /\ AsksRealms
    /\ AsksServer("realms")

AsksToProve(question) ==
    /\ At("polled") /\ idleState = "LOGIN_SERVER_LOGIN"
    /\ link[login] = IF question = "proof" THEN "CONNECT_VERSION"
                     ELSE "RECONNECT_VERSION"
    /\ AsksServer(question)

ReconnectsLogin ==
    /\ At("reconnect") /\ main'.at = "input"
    /\ Reconnect
    /\ UNCHANGED <<login, asked, loggedOn, password, logons, proved>>

LEMMA LogoffIs ==
    ASSUME Logoff,
           UNCHANGED <<login, link, asked, loggedOn, isReconnect, password,
                       logons, proved>>
    PROVE  LogsOff \/ UNCHANGED <<login, linkVars>>
BY DEF Logoff, LogsOff, linkVars

LEMMA GetRealmListIs ==
    ASSUME login # 0, GetRealmList,
           idleState # "LOGIN_SERVER_LOGIN" \/ authenticated \/ netState # "INITIALIZED",
           UNCHANGED <<login, link, stream, loggedOn, isReconnect, password,
                       logons, proved>>
    PROVE  AsksForRealms \/ UNCHANGED <<login, linkVars>>
BY DEF GetRealmList, AsksForRealms, AsksServer, linkVars

LEMMA ProveVersionIs ==
    ASSUME login # 0, Polled("LOGIN_SERVER_LOGIN"), MayProve(login), ProveVersion,
           UNCHANGED <<login, link, stream, loggedOn, isReconnect, password,
                       logons, proved>>
    PROVE  \E question \in {"proof", "reconnectProof"} : AsksToProve(question)
BY DEF Polled, MayProve, ProveVersion, AsksToProve, AsksServer

\* Every step does one of these to the logins.
LEMMA LinkStep ==
    ASSUME Next, NoneBegun, Connection
    PROVE  \/ UNCHANGED <<login, linkVars>>
           \/ \E l \in Logins : LinkActs(l)
           \/ Logon
           \/ LogsOff
           \/ AsksForRealms
           \/ \E question \in {"proof", "reconnectProof"} : AsksToProve(question)
           \/ ReconnectsLogin
<1>. DEFINE Others == UNCHANGED <<login, linkVars>>
            Rest == UNCHANGED <<login, link, stream, loggedOn, isReconnect,
                                password, logons, proved>>
<1>1. ASSUME ChangeRealm \/ RequestRealmList
      PROVE  Others \/ AsksForRealms
  <2>1. login # 0 /\ Rest /\ idleState # "LOGIN_SERVER_LOGIN"
    BY <1>1 DEF ChangeRealm, RequestRealmList, AfterLogin, Modal
  <2>2. GetRealmList \/ asked' = asked
    BY <1>1 DEF ChangeRealm, RequestRealmList, StartConnect, AskRealms
  <2>. QED  BY <2>1, <2>2, GetRealmListIs DEF linkVars
<1>2. ASSUME LoginSucceeded \/ AccountLoginFailed \/ CharacterListCancelled
      PROVE  Others \/ AsksForRealms
  <2>1. login # 0 /\ (idleState # "LOGIN_SERVER_LOGIN" \/ authenticated)
    BY <1>2 DEF LoginSucceeded, AccountLoginFailed, CharacterListCancelled,
      Polled, NoneBegun
  <2>2. Rest
    BY <1>2 DEF LoginSucceeded, AccountLoginFailed, CharacterListCancelled
  <2>3. GetRealmList \/ asked' = asked
    BY <1>2 DEF LoginSucceeded, AccountLoginFailed, CharacterListCancelled,
      StartConnect, AskRealms
  <2>. QED  BY <2>1, <2>2, <2>3, GetRealmListIs DEF linkVars
<1>3. ASSUME HandleDisconnect
      PROVE  Others \/ AsksForRealms \/ LogsOff
  <2>1. login # 0 /\ netState # "INITIALIZED"
    BY <1>3 DEF HandleDisconnect, Polls, NoneBegun, Connection
  <2>2. \/ GetRealmList /\ UNCHANGED stream
        \/ asked' = asked /\ (Logoff \/ UNCHANGED stream)
    BY <1>3 DEF HandleDisconnect, StartConnect
  <2>3. UNCHANGED <<login, link, loggedOn, isReconnect, password, logons, proved>>
    BY <1>3 DEF HandleDisconnect
  <2>. QED  BY <2>1, <2>2, <2>3, GetRealmListIs, LogoffIs DEF linkVars
<1>4. ASSUME CheckVersions
      PROVE  Others \/ \E question \in {"proof", "reconnectProof"} : AsksToProve(question)
  <2>1. login # 0
    BY <1>4 DEF CheckVersions, Polled, NoneBegun
  <2>2. asked' = asked \/ (Polled("LOGIN_SERVER_LOGIN") /\ MayProve(login) /\ ProveVersion)
    BY <1>4 DEF CheckVersions
  <2>3. Rest
    BY <1>4 DEF CheckVersions
  <2>. QED  BY <2>1, <2>2, <2>3, ProveVersionIs DEF linkVars
<1>5. ASSUME CancelLogin \/ EnterWorld \/ DisconnectFromServer
             \/ RealmListDialogCancelled \/ LoginFailed
      PROVE  Others \/ LogsOff
  <2>1. Logoff
    BY <1>5 DEF CancelLogin, EnterWorld, DisconnectFromServer,
      RealmListDialogCancelled, LoginFailed
  <2>2. UNCHANGED <<login, link, asked, loggedOn, isReconnect, password, logons,
                    proved>>
    BY <1>5 DEF CancelLogin, EnterWorld, DisconnectFromServer,
      RealmListDialogCancelled, LoginFailed
  <2>. QED  BY <2>1, <2>2, LogoffIs
<1>6. CASE Scripts
  <2>1. LoginServerLogin => Logon
    BY DEF LoginServerLogin
  <2>2. CancelOperation \/ GetCharacterList => Others
    BY DEF CancelOperation, GetCharacterList, gruntVars
  <2>. QED  BY <1>1, <1>5, <1>6, <2>1, <2>2 DEF Scripts
<1>7. CASE MainLoop
  <2>1. Reconnects => ReconnectsLogin
    BY DEF Reconnects, ReconnectsLogin, GoesTo
  <2>2. NextPart \/ HandleConnect \/ HandleAuthChallenge \/ HandleAuthResponse
          \/ HandleCharEnum \/ PollStatus \/ PolledNothing \/ Handshakes
          \/ AccountLoginSucceeded \/ ListDone \/ SuspendGlue \/ CharacterLogin
          => Others
    BY DEF NextPart, HandleConnect, HandleAuthChallenge, HandleAuthResponse,
      HandleCharEnum, PollStatus, PolledNothing, Handshakes,
      AccountLoginSucceeded, ListDone, SuspendGlue, CharacterLogin, gruntVars
  <2>. QED  BY <1>2, <1>3, <1>4, <1>5, <1>7, <2>1, <2>2 DEF MainLoop
<1>8. CASE Realms
  BY <1>8 DEF Realms, EnumFailed, EnumRealms, Join, Listed, linkVars
<1>9. CASE Game \/ GameCantConnect
  BY <1>9 DEF Game, GameConnected, GameDisconnected, GameSends, Tells,
    GameCantConnect, gruntVars
<1>10. CASE GivesReport \/ ParsesRealms
  BY <1>10 DEF GivesReport, ParsesRealms, linkVars
<1>. QED  BY <1>6, <1>7, <1>8, <1>9, <1>10, Steps

----------------------------------------------------------------------------
(* The types of the logins.                                                *)

LinkTypes ==
    /\ login \in 0 .. MaxLogins
    /\ link \in [Logins -> LinkStates]
    /\ stream \in [Logins -> {"none", "connecting", "open", "closing",
                              "closed", "failed"}]
    /\ loggedOn \in [Logins -> BOOLEAN] /\ isReconnect \in [Logins -> BOOLEAN]
    /\ password \in [Logins -> BOOLEAN] /\ proved \in [Logins -> BOOLEAN]
    /\ logons \in [Logins -> 0 .. 2]

AskedTypes == asked \in [Logins -> Seq(Questions)]

ReportTypes ==
    /\ loginState \in LoginStates
    /\ authenticated \in BOOLEAN /\ mixed \in BOOLEAN
    /\ loginData \in {"none", "proved", "unproved"}
    /\ realms \in RealmLists
    /\ worker \in Workers

LEMMA GruntTypesAre == GruntTypeOK <=> LinkTypes /\ AskedTypes /\ ReportTypes
BY DEF GruntTypeOK, LinkTypes, AskedTypes, ReportTypes

LEMMA GruntTypesAre2 == GruntTypeOK' <=> LinkTypes' /\ AskedTypes' /\ ReportTypes'
BY DEF GruntTypeOK, LinkTypes, AskedTypes, ReportTypes

\* What a login may be asked next, and when.
AsksNext(l, question) ==
    \/ question = "challenge" /\ Call(l) /\ ~ isReconnect[l]
    \/ question = "reconnectChallenge" /\ Call(l) /\ isReconnect[l]
    \/ question = "proof" /\ CmdAuthLogonChallenge(l) /\ isReconnect[l]
    \/ question = "reconnectProof" /\ CmdAuthReconnectChallenge(l) /\ isReconnect[l]

LEMMA AskedStep ==
    ASSUME GruntTypeOK, NEW l \in Logins, LinkActs(l)
    PROVE  /\ AskedTypes'
           /\ \A k \in Logins : k # l => asked'[k] = asked[k]
           /\ stream[l] \notin {"open", "closing"} => asked'[l] = asked[l]
           /\ WCDisconnected(l) => asked'[l] = <<>>
           /\ \A k \in Logins : \A question : Asks(k, question)' =>
                Asks(k, question) \/ (k = l /\ AsksNext(l, question))
<1>. DEFINE Goal ==
         /\ AskedTypes'
         /\ \A k \in Logins : k # l => asked'[k] = asked[k]
         /\ stream[l] \notin {"open", "closing"} => asked'[l] = asked[l]
         /\ WCDisconnected(l) => asked'[l] = <<>>
         /\ \A k \in Logins : \A question : Asks(k, question)' =>
              Asks(k, question) \/ (k = l /\ AsksNext(l, question))
<1>1. AskedTypes
  BY GruntTypesAre
<1>2. CASE asked' = asked /\ ~ WCDisconnected(l)
  BY <1>1, <1>2 DEF AskedTypes, Asks
<1>3. CASE WCDisconnected(l)
  <2>1. asked' = [asked EXCEPT ![l] = <<>>] /\ stream[l] = "closing"
    BY <1>3 DEF WCDisconnected
  <2>2. asked'[l] = <<>> /\ AskedTypes' /\ \A k \in Logins : k # l => asked'[k] = asked[k]
    BY <1>1, <2>1 DEF AskedTypes
  <2>3. \A question : ~ Asks(l, question)'
    BY <2>2 DEF Asks
  <2>4. \A k \in Logins : \A question : k # l => (Asks(k, question)' <=> Asks(k, question))
    BY <2>2 DEF Asks
  <2>. QED  BY <2>1, <2>2, <2>3, <2>4
<1>4. ASSUME NEW q \in Questions, Ask(l, q), AsksNext(l, q), ~ WCDisconnected(l)
      PROVE  Goal
  BY <1>1, <1>4, AskType DEF AskedTypes
<1>5. ASSUME NEW q \in Questions, stream[l] = "open", asked[l] # <<>>,
             AnsweredWith(l, q), AsksNext(l, q), ~ WCDisconnected(l)
      PROVE  Goal
  BY <1>1, <1>5, AnsweredWithType DEF AskedTypes
<1>6. ASSUME stream[l] = "open", asked[l] # <<>>, Answered(l), ~ WCDisconnected(l)
      PROVE  Goal
  BY <1>1, <1>6, AnsweredType DEF AskedTypes
<1>7. CASE Call(l)
  <2>1. ~ WCDisconnected(l)
    BY <1>7, <1>1 DEF Call, WCDisconnected, SetState, GruntTypeOK, LinkStates
  <2>2. \E q \in {"challenge", "reconnectChallenge"} : Ask(l, q) /\ AsksNext(l, q)
    BY <1>7 DEF Call, AsksNext
  <2>. QED  BY <2>1, <2>2, <1>4 DEF Questions
<1>8. CASE CmdAuthLogonChallenge(l) \/ CmdAuthReconnectChallenge(l)
  <2>1. stream[l] = "open" /\ asked[l] # <<>>
    BY <1>8 DEF CmdAuthLogonChallenge, CmdAuthReconnectChallenge, Answers
  <2>2. ~ WCDisconnected(l)
    BY <2>1 DEF WCDisconnected
  <2>3. \/ Answered(l)
        \/ AnsweredWith(l, "proof") /\ AsksNext(l, "proof")
        \/ AnsweredWith(l, "reconnectProof") /\ AsksNext(l, "reconnectProof")
    BY <1>8 DEF CmdAuthLogonChallenge, CmdAuthReconnectChallenge,
      GetVersionProof, AsksNext
  <2>. QED  BY <2>1, <2>2, <2>3, <1>5, <1>6 DEF Questions
<1>9. CASE CmdAuthLogonProof(l) \/ IgnoredLogonProof(l)
             \/ CmdAuthReconnectProof(l) \/ CmdRealmList(l) \/ BadAnswer(l)
  <2>1. stream[l] = "open" /\ asked[l] # <<>> /\ Answered(l)
    BY <1>9 DEF CmdAuthLogonProof, IgnoredLogonProof, CmdAuthReconnectProof,
      CmdRealmList, BadAnswer, Answers
  <2>2. ~ WCDisconnected(l)
    BY <2>1 DEF WCDisconnected
  <2>. QED  BY <2>1, <2>2, <1>6
<1>10. CASE WCConnected(l) \/ WCCantConnect(l) \/ ServerCloses(l)
  <2>1. asked' = asked /\ stream[l] # "closing"
    BY <1>10 DEF WCConnected, WCCantConnect, ServerCloses
  <2>. QED  BY <2>1, <1>2 DEF WCDisconnected
<1>. QED  BY <1>3, <1>7, <1>8, <1>9, <1>10 DEF LinkActs

\* The other logins stay as they are, and so does the current one.
LEMMA LinkOthers ==
    ASSUME GruntTypeOK, NEW l \in Logins, LinkActs(l)
    PROVE  /\ login' = login /\ isReconnect' = isReconnect
           /\ LinkTypes'
           /\ \A k \in Logins : k # l =>
                /\ link'[k] = link[k] /\ stream'[k] = stream[k]
                /\ loggedOn'[k] = loggedOn[k] /\ password'[k] = password[k]
                /\ logons'[k] = logons[k] /\ proved'[k] = proved[k]
<1>1. LinkTypes
  BY GruntTypesAre
<1>2. login' = login /\ isReconnect' = isReconnect
  BY DEF LinkActs, WCConnected, WCCantConnect, WCDisconnected,
    CmdAuthLogonChallenge, CmdAuthLogonProof, IgnoredLogonProof,
    CmdAuthReconnectChallenge, CmdAuthReconnectProof, CmdRealmList, BadAnswer,
    ServerCloses, Call
<1>3. link' = link \/ \E state \in LinkStates : link' = [link EXCEPT ![l] = state]
  BY DEF LinkActs, WCConnected, WCCantConnect, WCDisconnected,
    CmdAuthLogonChallenge, CmdAuthLogonProof, IgnoredLogonProof,
    CmdAuthReconnectChallenge, CmdAuthReconnectProof, CmdRealmList, BadAnswer,
    ServerCloses, Call, SetState, LinkStates, VerifiedState, UnverifiedState
<1>4. \/ stream' = stream
      \/ \E state \in {"open", "closing", "closed", "failed"} :
          stream' = [stream EXCEPT ![l] = state]
  BY DEF LinkActs, WCConnected, WCCantConnect, WCDisconnected,
    CmdAuthLogonChallenge, CmdAuthLogonProof, IgnoredLogonProof,
    CmdAuthReconnectChallenge, CmdAuthReconnectProof, CmdRealmList, BadAnswer,
    ServerCloses, Call, LogonResult, Drop
<1>5. loggedOn' = loggedOn \/ loggedOn' = [loggedOn EXCEPT ![l] = TRUE]
  BY DEF LinkActs, WCConnected, WCCantConnect, WCDisconnected,
    CmdAuthLogonChallenge, CmdAuthLogonProof, IgnoredLogonProof,
    CmdAuthReconnectChallenge, CmdAuthReconnectProof, CmdRealmList, BadAnswer,
    ServerCloses, Call
<1>6. proved' = proved \/ proved' = [proved EXCEPT ![l] = TRUE]
  BY DEF LinkActs, WCConnected, WCCantConnect, WCDisconnected,
    CmdAuthLogonChallenge, CmdAuthLogonProof, IgnoredLogonProof,
    CmdAuthReconnectChallenge, CmdAuthReconnectProof, CmdRealmList, BadAnswer,
    ServerCloses, Call
<1>7. /\ password' = password \/ password' = [password EXCEPT ![l] = FALSE]
      /\ logons' = logons \/ \E n \in 0 .. 2 : logons' = [logons EXCEPT ![l] = n]
  <2>1. CASE Call(l)
    <3>1. logons[l] \in 0 .. 2
      BY <1>1 DEF LinkTypes
    <3>2. PICK n \in 0 .. 2 : n = IF logons[l] < 2 THEN logons[l] + 1 ELSE logons[l]
      BY <3>1
    <3>3. \/ password' = password /\ logons' = logons
          \/ /\ password' = [password EXCEPT ![l] = FALSE]
             /\ logons' = [logons EXCEPT ![l] = IF @ < 2 THEN @ + 1 ELSE @]
      BY <2>1 DEF Call, Forgets
    <3>. QED  BY <3>2, <3>3
  <2>2. CASE ~ Call(l)
    BY <2>2 DEF LinkActs, WCConnected, WCCantConnect, WCDisconnected,
      CmdAuthLogonChallenge, CmdAuthLogonProof, IgnoredLogonProof,
      CmdAuthReconnectChallenge, CmdAuthReconnectProof, CmdRealmList, BadAnswer,
      ServerCloses
  <2>. QED  BY <2>1, <2>2
<1>8. LinkTypes'
  <2>1. link' \in [Logins -> LinkStates]
    BY <1>1, <1>3 DEF LinkTypes
  <2>2. stream' \in [Logins -> {"none", "connecting", "open", "closing",
                                "closed", "failed"}]
    BY <1>1, <1>4 DEF LinkTypes
  <2>3. /\ loggedOn' \in [Logins -> BOOLEAN] /\ proved' \in [Logins -> BOOLEAN]
        /\ password' \in [Logins -> BOOLEAN]
    BY <1>1, <1>5, <1>6, <1>7 DEF LinkTypes
  <2>4. logons' \in [Logins -> 0 .. 2]
    BY <1>1, <1>7 DEF LinkTypes
  <2>. QED  BY <1>1, <1>2, <2>1, <2>2, <2>3, <2>4 DEF LinkTypes
<1>9. ASSUME NEW k \in Logins, k # l
      PROVE  /\ link'[k] = link[k] /\ stream'[k] = stream[k]
             /\ loggedOn'[k] = loggedOn[k] /\ password'[k] = password[k]
             /\ logons'[k] = logons[k] /\ proved'[k] = proved[k]
  BY <1>1, <1>3, <1>4, <1>5, <1>6, <1>7, <1>9 DEF LinkTypes
<1>. QED  BY <1>2, <1>8, <1>9

LEMMA LinkTypesStep ==
    ASSUME GruntTypeOK, NoneBegun, Connection, Next
    PROVE  LinkTypes' /\ AskedTypes'
<1>1. LinkTypes /\ AskedTypes
  BY GruntTypesAre
<1>2. login # 0 => login \in Logins
  BY <1>1 DEF LinkTypes, Logins
<1>3. CASE UNCHANGED <<login, linkVars>>
  BY <1>1, <1>3 DEF LinkTypes, AskedTypes, linkVars
<1>4. ASSUME NEW l \in Logins, LinkActs(l)
      PROVE  LinkTypes' /\ AskedTypes'
  BY <1>4, AskedStep, LinkOthers
<1>5. CASE Logon
  <2>1. login + 1 \in Logins
    BY <1>1, <1>5, LoginsAssumption DEF Logon, LinkTypes, Logins
  <2>2. /\ login' = login + 1
        /\ password' = [password EXCEPT ![login + 1] = TRUE]
        /\ link' = [link EXCEPT ![login + 1] = "CONNECTING"]
        /\ stream' = [stream EXCEPT ![login + 1] = "connecting"]
        /\ UNCHANGED <<asked, loggedOn, isReconnect, logons, proved>>
    BY <1>5 DEF Logon, SetState
  <2>3. login' \in 0 .. MaxLogins
    BY <2>1, <2>2, LoginsAssumption DEF Logins
  <2>. QED  BY <1>1, <2>1, <2>2, <2>3 DEF LinkTypes, AskedTypes, LinkStates
<1>6. CASE LogsOff
  <2>1. /\ stream' = stream \/ stream' = [stream EXCEPT ![login] = "closing"]
        /\ UNCHANGED <<login, link, asked, loggedOn, isReconnect, password,
                       logons, proved>>
        /\ login \in Logins
    BY <1>2, <1>6 DEF LogsOff, Drop
  <2>. QED  BY <1>1, <2>1 DEF LinkTypes, AskedTypes
<1>7. ASSUME NEW question \in Questions, AsksServer(question)
      PROVE  LinkTypes' /\ AskedTypes'
  <2>1. login \in Logins /\ Ask(login, question)
    BY <1>2, <1>7 DEF AsksServer
  <2>2. AskedTypes'
    BY <2>1, AskType DEF AskedTypes
  <2>. QED  BY <1>1, <1>7, <2>2 DEF LinkTypes, AsksServer
<1>8. CASE AsksForRealms
  BY <1>7, <1>8 DEF AsksForRealms, Questions
<1>9. ASSUME NEW question \in {"proof", "reconnectProof"}, AsksToProve(question)
      PROVE  LinkTypes' /\ AskedTypes'
  BY <1>7, <1>9 DEF AsksToProve, Questions
<1>10. CASE ReconnectsLogin
  <2>1. login \in Logins
    BY <1>2, <1>10 DEF ReconnectsLogin, NoneBegun, At
  <2>2. /\ isReconnect' = [isReconnect EXCEPT ![login] = TRUE]
        /\ link' = link \/ link' = [link EXCEPT ![login] = "CONNECTING"]
        /\ stream' = stream \/ stream' = [stream EXCEPT ![login] = "connecting"]
        /\ UNCHANGED <<login, asked, loggedOn, password, logons, proved>>
    BY <1>10 DEF ReconnectsLogin, Reconnect, SetState
  <2>. QED  BY <1>1, <2>1, <2>2 DEF LinkTypes, AskedTypes, LinkStates
<1>. QED  BY <1>3, <1>4, <1>5, <1>6, <1>8, <1>9, <1>10, LinkStep

\* Only the links and the screens change the rest.
LEMMA ReportIs ==
    ASSUME NEW l, NEW state \in LoginStates, Report(l, state), ReportTypes
    PROVE  /\ loginState' \in LoginStates /\ authenticated' \in BOOLEAN
           /\ mixed' \in BOOLEAN /\ loginData' \in {"none", "proved", "unproved"}
BY DEF Report, ReportTypes

LEMMA WorkerReportsIs ==
    ASSUME NEW l \in Logins, NEW state \in LoginStates, NEW locked \in BOOLEAN,
           WorkerReports(l, state, locked)
    PROVE  worker' \in Workers
BY WorkerIs DEF WorkerReports

LEMMA WorkerFields ==
    ASSUME worker \in Workers
    PROVE  /\ worker.at = "report" =>
                worker.by \in Logins /\ worker.state \in LoginStates
           /\ worker.at = "parse" =>
                worker.list \in RealmLists /\ worker.fits \in BOOLEAN
BY DEF Workers

\* What a callback leaves the worker with.
LEMMA LinkReports ==
    ASSUME GruntTypeOK, NEW l \in Logins, LinkActs(l)
    PROVE  ReportTypes'
<1>1. ReportTypes
  BY GruntTypesAre
<1>2. CASE Call(l)
  <2>1. /\ UNCHANGED <<realms, worker>>
        /\ UNCHANGED statusVars \/ Report(l, "AUTHENTICATING")
    BY <1>2 DEF Call
  <2>. QED  BY <1>1, <2>1, ReportIs DEF ReportTypes, LoginStates, statusVars
<1>3. CASE ~ Call(l)
  <2>1. UNCHANGED statusVars
    BY <1>3 DEF LinkActs, WCConnected, WCCantConnect, WCDisconnected,
      CmdAuthLogonChallenge, CmdAuthLogonProof, IgnoredLogonProof,
      CmdAuthReconnectChallenge, CmdAuthReconnectProof, CmdRealmList, BadAnswer,
      ServerCloses
  <2>2. realms' = realms \/ realms' = "empty"
    BY <1>3 DEF LinkActs, WCConnected, WCCantConnect, WCDisconnected,
      CmdAuthLogonChallenge, CmdAuthLogonProof, IgnoredLogonProof,
      CmdAuthReconnectChallenge, CmdAuthReconnectProof, CmdRealmList, BadAnswer,
      ServerCloses, LogonResult
  <2>3. \/ worker' = worker
        \/ worker' = [at |-> "enum", codes |-> <<1>>]
        \/ \E list \in RealmLists, fits \in BOOLEAN :
            worker' = [at |-> "parse", list |-> list, fits |-> fits]
        \/ \E state \in LoginStates, locked \in BOOLEAN : WorkerReports(l, state, locked)
    BY <1>3 DEF LinkActs, WCConnected, WCCantConnect, WCDisconnected,
      CmdAuthLogonChallenge, CmdAuthLogonProof, IgnoredLogonProof,
      CmdAuthReconnectChallenge, CmdAuthReconnectProof, CmdRealmList, BadAnswer,
      ServerCloses, LogonResult, GetVersionProof, LogonFails, LoginStates
  <2>4. worker' \in Workers
    BY <1>1, <2>3, WorkerIs, WorkerReportsIs DEF ReportTypes
  <2>. QED  BY <1>1, <2>1, <2>2, <2>4 DEF ReportTypes, statusVars, RealmLists
<1>. QED  BY <1>2, <1>3

LEMMA ReportTypesStep ==
    ASSUME GruntTypeOK, Next
    PROVE  ReportTypes'
<1>1. ReportTypes
  BY GruntTypesAre
<1>2. CASE Scripts
  BY <1>1, <1>2 DEF Scripts, LoginServerLogin, CancelLogin, CancelOperation,
    ChangeRealm, RequestRealmList, GetCharacterList, EnterWorld,
    DisconnectFromServer, RealmListDialogCancelled, gruntVars, statusVars,
    ReportTypes, LoginStates, RealmLists
<1>3. CASE MainLoop
  <2>1. Handshakes => ReportTypes'
    <3>1. ASSUME Handshakes
          PROVE  Report(login, "HANDSHAKING") /\ UNCHANGED <<realms, worker>>
      BY <3>1 DEF Handshakes
    <3>. QED  BY <1>1, <3>1, ReportIs DEF ReportTypes, LoginStates
  <2>2. LoginSucceeded => ReportTypes'
    BY <1>1 DEF LoginSucceeded, ReportTypes
  <2>3. Handshakes \/ LoginSucceeded \/ UNCHANGED <<statusVars, realms, worker>>
    BY <1>3 DEF MainLoop, NextPart, HandleConnect, HandleAuthChallenge,
      HandleAuthResponse, HandleCharEnum, HandleDisconnect, PollStatus,
      PolledNothing, LoginFailed, CheckVersions, AccountLoginFailed,
      AccountLoginSucceeded, CharacterListCancelled, ListDone, SuspendGlue,
      CharacterLogin, Reconnects, gruntVars
  <2>. QED  BY <1>1, <2>1, <2>2, <2>3 DEF ReportTypes, statusVars
<1>4. CASE Realms
  <2>1. UNCHANGED <<statusVars, realms>>
    BY <1>4 DEF Realms, EnumFailed, EnumRealms, Join, Listed
  <2>2. \/ worker' = Idle
        \/ worker.at = "enum" /\ worker' = NextCode
        \/ \E at \in {"join", "listed"} : worker' = [at |-> at]
    BY <1>4 DEF Realms, EnumFailed, EnumRealms, Join, Listed
  <2>3. worker' \in Workers
    BY <1>1, <2>2, WorkerIs, NextCodeIs DEF ReportTypes
  <2>. QED  BY <1>1, <2>1, <2>3 DEF ReportTypes, statusVars
<1>5. CASE Game \/ GameCantConnect
  BY <1>1, <1>5 DEF Game, GameConnected, GameDisconnected, GameSends, Tells,
    GameCantConnect, gruntVars, statusVars, ReportTypes
<1>6. CASE GivesReport
  <2>1. worker.by \in Logins /\ worker.state \in LoginStates
    BY <1>1, <1>6, WorkerFields DEF GivesReport, ReportTypes
  <2>2. Report(worker.by, worker.state) /\ worker' = Idle /\ realms' = realms
    BY <1>6 DEF GivesReport
  <2>. QED  BY <1>1, <2>1, <2>2, ReportIs, WorkerIs DEF ReportTypes
<1>7. CASE ParsesRealms
  <2>1. worker.list \in RealmLists /\ worker.fits \in BOOLEAN
    BY <1>1, <1>7, WorkerFields DEF ParsesRealms, ReportTypes
  <2>2. realms' \in RealmLists
    BY <1>7, <2>1 DEF ParsesRealms, RealmLists
  <2>3. \E codes \in {<<0>>, <<1>>, <<4, 0>>} : worker' = [at |-> "enum", codes |-> codes]
    BY <1>7 DEF ParsesRealms
  <2>4. UNCHANGED statusVars
    BY <1>7 DEF ParsesRealms
  <2>. QED  BY <1>1, <2>2, <2>3, <2>4, WorkerIs DEF ReportTypes, statusVars
<1>8. ASSUME NEW l \in Logins, LinkActs(l)
      PROVE  ReportTypes'
  BY <1>8, LinkReports
<1>. QED  BY <1>2, <1>3, <1>4, <1>5, <1>6, <1>7, <1>8, Steps

----------------------------------------------------------------------------
(* The types of the screens and of the game's connection.                  *)

StatusTypes ==
    /\ statusCop \in Operations /\ statusResult \in {0, 1}
    /\ errorCode \in Codes /\ statusComplete \in BOOLEAN

NetTypes ==
    /\ connected \in BOOLEAN /\ accepted \in BOOLEAN
    /\ netState \in {"INITIALIZED", "CONNECTING", "CONNECTED", "DISCONNECTING"}
    /\ conn \in {"none", "connecting", "open", "closing", "failed"}
    /\ due \subseteq Sent
    /\ queue \in Seq(Events)

ScreenTypes ==
    /\ main \in Mains
    /\ idleState \in IdleStates
    /\ disconnectPending \in BOOLEAN /\ reconnect \in BOOLEAN
    /\ suspended \in BOOLEAN /\ selectValid \in BOOLEAN
    /\ realmJoined \in BOOLEAN

HistoryTypes ==
    /\ overtaken \in BOOLEAN /\ raced \in BOOLEAN /\ fatal \in BOOLEAN
    /\ scripts \in 0 .. MaxActs /\ faults \in 0 .. MaxFaults

LEMMA TypesAre ==
    TypeOK <=> GruntTypeOK /\ StatusTypes /\ NetTypes /\ ScreenTypes /\ HistoryTypes
<1>1. {disconnectPending, reconnect, suspended, selectValid, statusComplete,
       realmJoined, connected, accepted, overtaken, raced, fatal} \subseteq BOOLEAN
      <=> /\ disconnectPending \in BOOLEAN /\ reconnect \in BOOLEAN
          /\ suspended \in BOOLEAN /\ selectValid \in BOOLEAN
          /\ statusComplete \in BOOLEAN /\ realmJoined \in BOOLEAN
          /\ connected \in BOOLEAN /\ accepted \in BOOLEAN
          /\ overtaken \in BOOLEAN /\ raced \in BOOLEAN /\ fatal \in BOOLEAN
  OBVIOUS
<1>. QED  BY <1>1 DEF TypeOK, StatusTypes, NetTypes, ScreenTypes, HistoryTypes

LEMMA TypesAre2 ==
    TypeOK' <=> GruntTypeOK' /\ StatusTypes' /\ NetTypes' /\ ScreenTypes' /\ HistoryTypes'
<1>1. {disconnectPending', reconnect', suspended', selectValid', statusComplete',
       realmJoined', connected', accepted', overtaken', raced', fatal'} \subseteq BOOLEAN
      <=> /\ disconnectPending' \in BOOLEAN /\ reconnect' \in BOOLEAN
          /\ suspended' \in BOOLEAN /\ selectValid' \in BOOLEAN
          /\ statusComplete' \in BOOLEAN /\ realmJoined' \in BOOLEAN
          /\ connected' \in BOOLEAN /\ accepted' \in BOOLEAN
          /\ overtaken' \in BOOLEAN /\ raced' \in BOOLEAN /\ fatal' \in BOOLEAN
  OBVIOUS
<1>. QED  BY <1>1 DEF TypeOK, StatusTypes, NetTypes, ScreenTypes, HistoryTypes

LEMMA EventFields ==
    ASSUME NEW event \in Events
    PROVE  /\ event.is \in {"connect", "disconnect", "challenge", "session",
                            "admission", "characters"}
           /\ event.is = "session" => event.code \in {"other", "AUTH_FAILED", "QUEUED"}
           /\ event.is = "admission" => event.code \in {"other", "AUTH_FAILED"}
           /\ event.is = "characters" => event.result \in {0, 1}
BY DEF Events

\* What handling an event and telling one do to the queue.
LEMMA PollsQueue ==
    ASSUME queue \in Seq(Events), NEW is, Polls(is)
    PROVE  /\ queue' \in Seq(Events) /\ queue # <<>>
           /\ queue[1] \in Events /\ Head(queue) = queue[1] /\ queue[1].is = is
           /\ Len(queue) \in Nat /\ Len(queue) > 0 /\ Len(queue') = Len(queue) - 1
           /\ DOMAIN queue = 1 .. Len(queue) /\ DOMAIN queue' = 1 .. (Len(queue) - 1)
           /\ \A i \in DOMAIN queue' : i + 1 \in DOMAIN queue /\ queue'[i] = queue[i + 1]
<1>1. queue # <<>> /\ Head(queue).is = is /\ queue' = Tail(queue)
  BY DEF Polls
<1>2. PICK q \in Seq(Events) : q = queue
  OBVIOUS
<1>3. /\ Tail(q) \in Seq(Events) /\ q[1] \in Events /\ Head(q) = q[1]
      /\ Len(q) \in Nat /\ Len(q) > 0 /\ Len(Tail(q)) = Len(q) - 1
      /\ DOMAIN q = 1 .. Len(q) /\ DOMAIN Tail(q) = 1 .. (Len(q) - 1)
      /\ \A i \in DOMAIN Tail(q) : i + 1 \in DOMAIN q /\ Tail(q)[i] = q[i + 1]
  BY <1>1, <1>2
<1>. QED  BY <1>1, <1>2, <1>3

LEMMA TellsQueue ==
    ASSUME queue \in Seq(Events), NEW event \in Events, Tells(event)
    PROVE  /\ queue' \in Seq(Events) /\ Len(queue) \in Nat /\ Len(queue') = Len(queue) + 1
           /\ DOMAIN queue = 1 .. Len(queue) /\ DOMAIN queue' = 1 .. (Len(queue) + 1)
           /\ queue'[Len(queue) + 1] = event
           /\ \A i \in DOMAIN queue : i \in DOMAIN queue' /\ queue'[i] = queue[i]
<1>1. queue' = Append(queue, event)
  BY DEF Tells
<1>. QED  BY <1>1

LEMMA NetTypesStep ==
    ASSUME NetTypes, Next
    PROVE  NetTypes'
<1>1. CASE UNCHANGED netVars
  BY <1>1 DEF NetTypes, netVars
<1>2. CASE GameConnected
  <2>1. Tells([is |-> "connect"]) /\ [is |-> "connect"] \in Events
    BY <1>2 DEF GameConnected, Events
  <2>2. queue' \in Seq(Events)
    BY <2>1, TellsQueue DEF NetTypes
  <2>. QED  BY <1>2, <2>2 DEF NetTypes, GameConnected, Tells, Sent
<1>3. CASE GameDisconnected
  <2>1. Tells([is |-> "disconnect"]) /\ [is |-> "disconnect"] \in Events
    BY <1>3 DEF GameDisconnected, Events
  <2>2. queue' \in Seq(Events)
    BY <2>1, TellsQueue DEF NetTypes
  <2>. QED  BY <1>3, <2>2 DEF NetTypes, GameDisconnected, Tells, Sent
<1>4. CASE GameSends
  <2>1. PICK event \in Events :
          /\ Tells(event)
          /\ due' = (due \ {event.is})
                    \cup (IF event.is = "session" /\ event.code = "QUEUED"
                          THEN {"admission"} ELSE {})
    BY <1>4 DEF GameSends
  <2>2. queue' \in Seq(Events)
    BY <2>1, TellsQueue DEF NetTypes
  <2>3. due' \subseteq Sent
    BY <2>1 DEF NetTypes, Sent
  <2>4. UNCHANGED <<connected, accepted, netState, conn>>
    BY <1>4, <2>1 DEF GameSends, Tells
  <2>. QED  BY <2>2, <2>3, <2>4 DEF NetTypes
<1>5. CASE GameCantConnect \/ Join
  BY <1>5 DEF NetTypes, GameCantConnect, Join
<1>6. CASE ChangeRealm \/ GetCharacterList \/ DisconnectFromServer \/ AccountLoginFailed
  <2>1. ASSUME Disconnect
        PROVE  NetTypes'
    <3>1. connected' = FALSE /\ accepted' = FALSE
      BY <2>1 DEF Disconnect
    <3>2. CASE netState = "CONNECTED"
      <4>1. /\ netState' = "DISCONNECTING"
            /\ conn' = conn \/ conn' = "closing"
            /\ due' = due /\ queue' = queue
        BY <2>1, <3>2 DEF Disconnect
      <4>. QED  BY <3>1, <4>1 DEF NetTypes
    <3>3. CASE netState # "CONNECTED"
      <4>1. /\ netState' = "INITIALIZED"
            /\ conn' = "none" /\ due' = {} /\ queue' = <<>>
        BY <2>1, <3>3 DEF Disconnect
      <4>2. <<>> \in Seq(Events)
        OBVIOUS
      <4>. QED  BY <3>1, <4>1, <4>2 DEF NetTypes
    <3>. QED  BY <3>2, <3>3
  <2>2. UNCHANGED netVars => NetTypes'
    BY DEF NetTypes, netVars
  <2>3. GetCharacterList => NetTypes'
    BY DEF GetCharacterList, NetTypes, AskGame, Sent
  <2>4. GetCharacterList \/ Disconnect \/ UNCHANGED netVars
    BY <1>6 DEF ChangeRealm, DisconnectFromServer, AccountLoginFailed, GivesUp
  <2>. QED  BY <2>1, <2>2, <2>3, <2>4
<1>7. CASE \E is : Polls(is)
  <2>1. queue' \in Seq(Events)
    BY <1>7, PollsQueue DEF NetTypes
  <2>2. At("poll")
    BY <1>7 DEF Polls
  <2>3. CASE HandleConnect \/ HandleAuthChallenge \/ HandleAuthResponse
               \/ HandleCharEnum \/ HandleDisconnect
    BY <2>1, <2>3 DEF NetTypes, HandleConnect, HandleAuthChallenge,
      HandleAuthResponse, HandleCharEnum, HandleDisconnect, AskGame, Sent
  <2>. QED  BY <1>1, <1>2, <1>3, <1>4, <1>5, <1>6, <2>3, NetStep DEF NetActs
<1>8. HandleConnect \/ HandleAuthChallenge \/ HandleAuthResponse
        \/ HandleCharEnum \/ HandleDisconnect => \E is : Polls(is)
  BY DEF HandleConnect, HandleAuthChallenge, HandleAuthResponse, HandleCharEnum,
    HandleDisconnect
<1>. QED  BY <1>1, <1>2, <1>3, <1>4, <1>5, <1>6, <1>7, <1>8, NetStep DEF NetActs

\* Every step that changes the status does it by one of these.
StatusSet ==
    \/ UNCHANGED statusOpVars
    \/ \E op \in Operations, code \in Codes : Initiate(op, code)
    \/ \E result \in {0, 1}, code \in Codes : Complete(result, code)
    \/ \E op \in Operations, result \in {0, 1}, code \in Codes :
        InitiateAndComplete(op, result, code)

LEMMA StatusStep ==
    ASSUME NetTypes, Next
    PROVE  StatusSet
<1>1. StartConnect \/ AskRealms => StatusSet
  BY DEF StartConnect, AskRealms, StatusSet, Operations, Codes
<1>2. CASE Scripts
  BY <1>1, <1>2 DEF Scripts, LoginServerLogin, CancelLogin, CancelOperation,
    ChangeRealm, RequestRealmList, GetCharacterList, EnterWorld,
    DisconnectFromServer, RealmListDialogCancelled, gameVars,
    StatusSet, Operations, Codes
<1>3. CASE MainLoop
  <2>1. HandleConnect => StatusSet
    BY DEF HandleConnect, StatusSet, Codes
  <2>2. HandleCharEnum => StatusSet
    <3>1. ASSUME HandleCharEnum
          PROVE  \E result \in {0, 1} : Complete(result, "other")
      BY <3>1, PollsQueue, EventFields DEF HandleCharEnum, NetTypes
    <3>. QED  BY <3>1 DEF StatusSet, Codes
  <2>3. HandleAuthResponse => StatusSet
    <3>1. ASSUME HandleAuthResponse
          PROVE  Head(queue).code \in {"other", "AUTH_FAILED", "QUEUED"}
      BY <3>1, PollsQueue, EventFields DEF HandleAuthResponse, NetTypes
    <3>. QED  BY <3>1 DEF HandleAuthResponse, Queued, StatusSet, Operations, Codes
  <2>4. HandleDisconnect \/ LoginSucceeded \/ AccountLoginFailed
          \/ CharacterListCancelled => StatusSet
    BY <1>1 DEF HandleDisconnect, LoginSucceeded, AccountLoginFailed,
      CharacterListCancelled, StatusSet
  <2>5. AccountLoginSucceeded \/ CharacterLogin => StatusSet
    BY DEF AccountLoginSucceeded, CharacterLogin, StatusSet, Operations, Codes
  <2>6. NextPart \/ HandleAuthChallenge \/ PollStatus \/ PolledNothing
          \/ LoginFailed \/ CheckVersions \/ Handshakes \/ ListDone
          \/ SuspendGlue \/ Reconnects => StatusSet
    BY DEF NextPart, HandleAuthChallenge, PollStatus, PolledNothing,
      LoginFailed, CheckVersions, Handshakes, ListDone, SuspendGlue, Reconnects,
      gameVars, StatusSet
  <2>. QED  BY <1>3, <2>1, <2>2, <2>3, <2>4, <2>5, <2>6 DEF MainLoop
<1>4. CASE Realms
  BY <1>4 DEF Realms, EnumFailed, EnumRealms, Join, Listed, WorkerCompletes,
    StatusSet, Codes
<1>5. CASE Game \/ GameCantConnect
  BY <1>5 DEF Game, GameConnected, GameDisconnected, GameSends, Tells,
    GameCantConnect, StatusSet
<1>6. CASE UNCHANGED Glue
  BY <1>6 DEF Glue, gameVars, StatusSet
<1>. QED  BY <1>2, <1>3, <1>4, <1>5, <1>6, Steps

LEMMA StatusTypesStep ==
    ASSUME NetTypes, StatusTypes, Next
    PROVE  StatusTypes'
BY StatusStep DEF StatusSet, StatusTypes, statusOpVars, Initiate, Complete,
  InitiateAndComplete

LEMMA PolledIs ==
    ASSUME NEW op \in Operations, NEW result \in {0, 1}, NEW code \in Codes
    PROVE  [at |-> "polled", op |-> op, result |-> result, code |-> code] \in Mains
BY DEF Mains

LEMMA ScreenTypesStep ==
    ASSUME ScreenTypes, StatusTypes, Next
    PROVE  ScreenTypes'
<1>. DEFINE Main == main' = main
                    \/ \E at \in {"input", "poll", "idle", "prove", "reconnect"} : GoesTo(at)
            Idles == idleState' \in IdleStates
            Flags == /\ disconnectPending' \in BOOLEAN /\ reconnect' \in BOOLEAN
                     /\ suspended' \in BOOLEAN /\ selectValid' \in BOOLEAN
                     /\ realmJoined' \in BOOLEAN
<1>1. Main => main' \in Mains
  BY MainIs DEF GoesTo, ScreenTypes
<1>2. CASE Scripts
  <2>1. Main
    BY <1>2 DEF Scripts, LoginServerLogin, CancelLogin, CancelOperation,
      ChangeRealm, RequestRealmList, GetCharacterList, EnterWorld,
      DisconnectFromServer, RealmListDialogCancelled, AskRealms
  <2>2. Idles
    BY <1>2 DEF Scripts, LoginServerLogin, CancelLogin, CancelOperation,
      ChangeRealm, RequestRealmList, GetCharacterList, EnterWorld,
      DisconnectFromServer, RealmListDialogCancelled, AskRealms, ScreenTypes,
      IdleStates, glueVars
  <2>3. Flags
    BY <1>2 DEF Scripts, LoginServerLogin, CancelLogin, CancelOperation,
      ChangeRealm, RequestRealmList, GetCharacterList, EnterWorld,
      DisconnectFromServer, RealmListDialogCancelled, GivesUp, StartConnect,
      ScreenTypes, glueVars, gameVars
  <2>. QED  BY <1>1, <2>1, <2>2, <2>3 DEF ScreenTypes
<1>3. CASE MainLoop
  <2>1. main' \in Mains
    <3>1. CASE PollStatus
      BY <3>1, PolledIs DEF PollStatus, StatusTypes
    <3>2. CASE ~ PollStatus
      <4>1. Main
        BY <1>3, <3>2 DEF MainLoop, NextPart, HandleConnect,
          HandleAuthChallenge, HandleAuthResponse, HandleCharEnum,
          HandleDisconnect, Polls, PolledNothing, LoginSucceeded, LoginFailed,
          CheckVersions, Handshakes, AccountLoginFailed, AccountLoginSucceeded,
          CharacterListCancelled, ListDone, SuspendGlue, CharacterLogin,
          Reconnects, AskRealms
      <4>. QED  BY <1>1, <4>1
    <3>. QED  BY <3>1, <3>2
  <2>2. Idles
    BY <1>3 DEF MainLoop, NextPart, HandleConnect,
      HandleAuthChallenge, HandleAuthResponse, HandleCharEnum,
      HandleDisconnect, PollStatus, PolledNothing, LoginSucceeded, LoginFailed,
      CheckVersions, Handshakes, AccountLoginFailed, AccountLoginSucceeded,
      CharacterListCancelled, ListDone, SuspendGlue, CharacterLogin,
      Reconnects, AskRealms, ScreenTypes, IdleStates, glueVars
  <2>3. Flags
    BY <1>3 DEF MainLoop, NextPart, HandleConnect,
      HandleAuthChallenge, HandleAuthResponse, HandleCharEnum, Polls,
      HandleDisconnect, PollStatus, PolledNothing, LoginSucceeded, LoginFailed,
      CheckVersions, Handshakes, AccountLoginFailed, AccountLoginSucceeded,
      CharacterListCancelled, ListDone, SuspendGlue, CharacterLogin,
      Reconnects, GivesUp, StartConnect, ScreenTypes, glueVars, gameVars
  <2>. QED  BY <2>1, <2>2, <2>3 DEF ScreenTypes
<1>4. CASE Realms
  <2>1. UNCHANGED <<main, glueVars>>
    BY <1>4 DEF Realms, EnumFailed, EnumRealms, Join, Listed
  <2>2. realmJoined' \in BOOLEAN
    BY <1>4 DEF Realms, EnumFailed, EnumRealms, Join, Listed, ScreenTypes
  <2>3. selectValid' = selectValid \/ selectValid' = (selectValid \/ realms = "selected")
    BY <1>4 DEF Realms, EnumFailed, EnumRealms, Join, Listed
  <2>. QED  BY <2>1, <2>2, <2>3 DEF ScreenTypes, glueVars
<1>5. CASE Game \/ GameCantConnect
  BY <1>5 DEF Game, GameConnected, GameDisconnected, GameSends, Tells,
    GameCantConnect, ScreenTypes, glueVars
<1>6. CASE UNCHANGED Glue
  BY <1>6 DEF Glue, gameVars, glueVars, ScreenTypes
<1>. QED  BY <1>2, <1>3, <1>4, <1>5, <1>6, Steps

\* The worker marks an operation that it ends although it is not its own, and
\* one that is being polled; nothing takes the mark back.
LEMMA RacedStep ==
    ASSUME Next
    PROVE  raced' = raced \/ \E operations : raced' =
                (raced \/ At("polled") \/ statusCop \notin operations)
<1>1. CASE Scripts
  BY <1>1 DEF Scripts, LoginServerLogin, CancelLogin, CancelOperation,
    ChangeRealm, RequestRealmList, GetCharacterList, EnterWorld,
    DisconnectFromServer, RealmListDialogCancelled, histories
<1>2. CASE MainLoop
  BY <1>2 DEF MainLoop, NextPart, HandleConnect, HandleAuthChallenge,
    HandleAuthResponse, HandleCharEnum, HandleDisconnect, Polls, PollStatus,
    PolledNothing, LoginSucceeded, LoginFailed, CheckVersions, Handshakes,
    AccountLoginFailed, AccountLoginSucceeded, CharacterListCancelled, ListDone,
    SuspendGlue, CharacterLogin, Reconnects, histories
<1>3. CASE Realms
  BY <1>3 DEF Realms, EnumFailed, EnumRealms, Join, Listed, WorkerCompletes,
    histories
<1>4. CASE Game \/ GameCantConnect
  BY <1>4 DEF Game, GameConnected, GameDisconnected, GameSends, Tells,
    GameCantConnect, histories
<1>5. CASE UNCHANGED Glue
  BY <1>5 DEF Glue, histories
<1>. QED  BY <1>1, <1>2, <1>3, <1>4, <1>5, Steps

LEMMA HistoryTypesStep ==
    ASSUME HistoryTypes, Next
    PROVE  HistoryTypes'
<1>1. raced' \in BOOLEAN
  BY RacedStep DEF HistoryTypes
<1>2. overtaken' \in BOOLEAN /\ fatal' \in BOOLEAN
  <2>1. CASE Handshakes \/ CheckVersions
    BY <2>1 DEF HistoryTypes, Handshakes, CheckVersions, MayProve
  <2>2. CASE ~ (Handshakes \/ CheckVersions)
    <3>1. overtaken' = overtaken /\ fatal' = fatal
      BY <2>2, Steps DEF Scripts, LoginServerLogin, CancelLogin, CancelOperation,
        ChangeRealm, RequestRealmList, GetCharacterList, EnterWorld,
        DisconnectFromServer, RealmListDialogCancelled, histories,
        MainLoop, NextPart, HandleConnect, HandleAuthChallenge,
        HandleAuthResponse, HandleCharEnum, HandleDisconnect, Polls, PollStatus,
        PolledNothing, LoginSucceeded, LoginFailed, AccountLoginFailed,
        AccountLoginSucceeded, CharacterListCancelled, ListDone, SuspendGlue,
        CharacterLogin, Reconnects, Realms, EnumFailed, EnumRealms, Join,
        Listed, WorkerCompletes, Game, GameConnected, GameDisconnected,
        GameSends, Tells, GameCantConnect, Glue
    <3>. QED  BY <3>1 DEF HistoryTypes
  <2>. QED  BY <2>1, <2>2
<1>3. scripts' \in 0 .. MaxActs /\ faults' \in 0 .. MaxFaults
  BY MaxAssumption DEF HistoryTypes, Next, Bounded
<1>. QED  BY <1>1, <1>2, <1>3 DEF HistoryTypes

LEMMA TypeStep ==
    ASSUME TypeOK, NoneBegun, Connection, Next
    PROVE  TypeOK'
BY TypesAre, TypesAre2, GruntTypesAre2, LinkTypesStep, ReportTypesStep, NetTypesStep,
  StatusTypesStep, ScreenTypesStep, HistoryTypesStep

----------------------------------------------------------------------------
(* What the screens wait for.                                              *)

LEMMA OperationStep ==
    ASSUME OperationOfIdle, Next
    PROVE  OperationOfIdle'
<1>1. UNCHANGED <<idleState, statusCop>> => OperationOfIdle'
  BY DEF OperationOfIdle
<1>2. CASE Scripts
  <2>1. CASE LoginServerLogin \/ CancelLogin \/ CancelOperation \/ EnterWorld
               \/ DisconnectFromServer \/ RealmListDialogCancelled
    BY <2>1 DEF LoginServerLogin, CancelLogin, CancelOperation, EnterWorld,
      DisconnectFromServer, RealmListDialogCancelled, Complete, statusOpVars,
      gameVars, glueVars, OperationOfIdle
  <2>2. CASE ChangeRealm \/ RequestRealmList \/ GetCharacterList
    BY <2>2 DEF ChangeRealm, RequestRealmList, GetCharacterList, StartConnect,
      AskRealms, Initiate, InitiateAndComplete, statusOpVars, OperationOfIdle
  <2>. QED  BY <1>2, <2>1, <2>2 DEF Scripts
<1>3. CASE MainLoop
  <2>1. CASE HandleConnect \/ HandleAuthResponse \/ HandleCharEnum
    BY <2>1 DEF HandleConnect, HandleAuthResponse, HandleCharEnum, Queued,
      Initiate, Complete, OperationOfIdle
  <2>2. CASE HandleDisconnect \/ LoginSucceeded \/ AccountLoginFailed
               \/ CharacterListCancelled
    BY <2>2 DEF HandleDisconnect, LoginSucceeded, AccountLoginFailed,
      CharacterListCancelled, StartConnect, AskRealms, Initiate,
      InitiateAndComplete, statusOpVars, OperationOfIdle
  <2>3. CASE AccountLoginSucceeded \/ CharacterLogin \/ LoginFailed \/ ListDone
    BY <2>3 DEF AccountLoginSucceeded, CharacterLogin, LoginFailed, ListDone,
      Polled, Initiate, statusOpVars, OperationOfIdle
  <2>4. CASE NextPart \/ HandleAuthChallenge \/ PollStatus \/ PolledNothing
               \/ CheckVersions \/ Handshakes \/ SuspendGlue \/ Reconnects
    BY <2>4, <1>1 DEF NextPart, HandleAuthChallenge, PollStatus, PolledNothing,
      CheckVersions, Handshakes, SuspendGlue, Reconnects, gameVars, glueVars,
      statusOpVars
  <2>. QED  BY <1>3, <2>1, <2>2, <2>3, <2>4 DEF MainLoop
<1>4. CASE Realms
  BY <1>1, <1>4 DEF Realms, EnumFailed, EnumRealms, Join, Listed,
    WorkerCompletes, Complete, glueVars, statusOpVars
<1>5. CASE Game \/ GameCantConnect
  BY <1>1, <1>5 DEF Game, GameConnected, GameDisconnected, GameSends, Tells,
    GameCantConnect, glueVars, statusOpVars
<1>6. CASE UNCHANGED Glue
  BY <1>1, <1>6 DEF Glue, gameVars, glueVars, statusOpVars
<1>. QED  BY <1>2, <1>3, <1>4, <1>5, <1>6, Steps

----------------------------------------------------------------------------
(* The connection to the game server.                                      *)

\* A disconnection that is not expected by a connection does not come, so what
\* waits for one goes on waiting unless it is handled.
LEMMA PendingStep ==
    ASSUME Next
    PROVE  disconnectPending => disconnectPending' \/ HandleDisconnect
<1>1. CASE Scripts
  BY <1>1 DEF Scripts, LoginServerLogin, CancelLogin, CancelOperation,
    ChangeRealm, RequestRealmList, GetCharacterList, EnterWorld,
    DisconnectFromServer, RealmListDialogCancelled, GivesUp, glueVars
<1>2. CASE MainLoop
  BY <1>2 DEF MainLoop, NextPart, HandleConnect, HandleAuthChallenge,
    HandleAuthResponse, HandleCharEnum, PollStatus, PolledNothing,
    LoginSucceeded, LoginFailed, CheckVersions, Handshakes, AccountLoginFailed,
    AccountLoginSucceeded, CharacterListCancelled, ListDone, SuspendGlue,
    CharacterLogin, Reconnects, GivesUp, glueVars
<1>3. CASE Realms
  BY <1>3 DEF Realms, EnumFailed, EnumRealms, Join, Listed, glueVars
<1>4. CASE Game \/ GameCantConnect
  BY <1>4 DEF Game, GameConnected, GameDisconnected, GameSends, Tells,
    GameCantConnect, glueVars
<1>5. CASE UNCHANGED Glue
  BY <1>5 DEF Glue, glueVars
<1>. QED  BY <1>1, <1>2, <1>3, <1>4, <1>5, Steps

\* A connection is given up.
LEMMA DisconnectIs ==
    ASSUME Connection, Disconnect
    PROVE  /\ ~ connected' /\ ~ accepted'
           /\ netState = "CONNECTED" =>
                /\ netState' = "DISCONNECTING" /\ conn = "open" /\ conn' = "closing"
                /\ due' = due /\ queue' = queue
           /\ netState # "CONNECTED" =>
                /\ netState' = "INITIALIZED" /\ conn' = "none"
                /\ due' = {} /\ queue' = <<>>
BY DEF Connection, Disconnect

LEMMA EmptyQueue == DOMAIN <<>> = {}
OBVIOUS

LEMMA GivesUpConnection ==
    ASSUME NetTypes, Connection, GivesUp
    PROVE  Connection'
<1>. USE DisconnectIs, EmptyQueue DEF GivesUp
<1>1. CASE netState = "CONNECTED"
  BY <1>1 DEF Connection, Queues
<1>2. CASE netState # "CONNECTED"
  BY <1>2 DEF Connection, Queues
<1>. QED  BY <1>1, <1>2

\* What the event that is handled says of the connection.
LEMMA HeadIs ==
    ASSUME NetTypes, Connection, NEW is, Polls(is)
    PROVE  /\ netState # "INITIALIZED"
           /\ is = "connect" <=> netState = "CONNECTING"
           /\ netState = "CONNECTING" => conn = "open"
           /\ is = "disconnect" =>
                /\ netState = "DISCONNECTING" /\ conn = "none" /\ due = {}
                /\ Len(queue) = 1 /\ queue' = <<>> /\ ~ connected
<1>1. /\ queue \in Seq(Events) /\ queue # <<>> /\ Head(queue) = queue[1]
      /\ queue[1].is = is /\ DOMAIN queue = 1 .. Len(queue)
      /\ Len(queue) \in Nat /\ Len(queue) > 0 /\ 1 \in DOMAIN queue
      /\ queue' \in Seq(Events) /\ DOMAIN queue' = 1 .. (Len(queue) - 1)
  BY PollsQueue DEF NetTypes
<1>2. netState # "INITIALIZED"
  BY <1>1 DEF Connection
<1>3. netState = "CONNECTING" => conn = "open" /\ is = "connect"
  BY <1>1 DEF Connection, NetTypes
<1>4. is = "connect" => netState = "CONNECTING"
  BY <1>1 DEF Connection
<1>5. ASSUME is = "disconnect"
      PROVE  /\ netState = "DISCONNECTING" /\ conn = "none" /\ due = {}
             /\ Len(queue) = 1 /\ queue' = <<>> /\ ~ connected
  <2>1. Queues("disconnect")
    BY <1>1, <1>5 DEF Queues
  <2>2. netState = "DISCONNECTING"
    BY <1>2, <1>3, <1>5, <2>1 DEF Connection, NetTypes
  <2>3. Len(queue) = 1
    BY <1>1, <1>5, <2>2 DEF Connection
  <2>4. DOMAIN queue' = {}
    BY <1>1, <2>3
  <2>5. queue' = <<>>
    BY <1>1, <2>4
  <2>. QED  BY <2>1, <2>2, <2>3, <2>5 DEF Connection, NetTypes
<1>. QED  BY <1>2, <1>3, <1>4, <1>5

\* An event is handled in a connection that goes on as it was.
LEMMA HandledInConnection ==
    ASSUME NetTypes, Connection, NEW is, Polls(is), is \notin {"connect", "disconnect"},
           UNCHANGED <<connected, netState, conn, disconnectPending>>,
           due' = due \/ (conn = "open" /\ netState # "CONNECTING")
    PROVE  Connection'
<1>1. /\ queue \in Seq(Events) /\ queue # <<>> /\ Head(queue) = queue[1]
      /\ queue[1].is = is /\ DOMAIN queue = 1 .. Len(queue)
      /\ Len(queue) \in Nat /\ Len(queue) > 0 /\ 1 \in DOMAIN queue
      /\ Len(queue') = Len(queue) - 1
      /\ queue' \in Seq(Events) /\ DOMAIN queue' = 1 .. (Len(queue) - 1)
      /\ \A i \in DOMAIN queue' : i + 1 \in DOMAIN queue /\ queue'[i] = queue[i + 1]
  BY PollsQueue DEF NetTypes
<1>2. netState \in {"CONNECTED", "DISCONNECTING"} /\ netState' = netState
  BY HeadIs DEF NetTypes
<1>3. \A i \in DOMAIN queue' : queue'[i].is # "connect"
  BY <1>1, <1>2 DEF Connection
<1>4. CASE netState = "CONNECTED"
  BY <1>1, <1>2, <1>3, <1>4 DEF Connection, Queues
<1>5. CASE netState = "DISCONNECTING"
  <2>1. disconnectPending' /\ conn' \in {"closing", "none"} /\ (connected' => FALSE)
    BY <1>5 DEF Connection
  <2>2. conn' = "closing" => ~ Queues("disconnect")'
    BY <1>1, <1>5 DEF Connection, Queues
  <2>3. ASSUME conn' = "none"
        PROVE  due' = {} /\ queue' # <<>> /\ queue'[Len(queue')].is = "disconnect"
    <3>1. due' = {} /\ queue[Len(queue)].is = "disconnect"
      BY <1>5, <2>3 DEF Connection
    <3>2. Len(queue) # 1
      BY <1>1, <3>1
    <3>3. Len(queue') = Len(queue) - 1 /\ Len(queue') \in DOMAIN queue'
      BY <1>1, <3>2
    <3>4. queue'[Len(queue')] = queue[Len(queue)]
      BY <1>1, <3>3
    <3>5. queue' # <<>>
      BY <3>3
    <3>. QED  BY <3>1, <3>4, <3>5
  <2>4. Len(queue') = Len(queue) - 1
    BY <1>1
  <2>5. \A i \in DOMAIN queue' : queue'[i].is = "disconnect" => i = Len(queue')
    BY <1>1, <1>5, <2>4 DEF Connection
  <2>. QED  BY <1>2, <1>3, <1>5, <2>1, <2>2, <2>3, <2>5 DEF Connection
<1>. QED  BY <1>2, <1>4, <1>5

LEMMA ConnectionStep ==
    ASSUME NetTypes, Connection, Next
    PROVE  Connection'
<1>1. CASE UNCHANGED netVars
  <2>1. UNCHANGED <<connected, netState, conn, due, queue, accepted>>
    BY <1>1 DEF netVars
  <2>2. netState = "DISCONNECTING" => disconnectPending'
    <3>1. ~ HandleDisconnect \/ netState # "DISCONNECTING"
      BY <2>1 DEF HandleDisconnect
    <3>. QED  BY <3>1, PendingStep DEF Connection
  <2>. QED  BY <2>1, <2>2 DEF Connection, Queues
<1>2. CASE GameConnected
  <2>1. /\ Tells([is |-> "connect"]) /\ [is |-> "connect"] \in Events
        /\ conn = "connecting" /\ conn' = "open" /\ due' = {"challenge"}
        /\ UNCHANGED <<connected, netState, accepted>>
    BY <1>2 DEF GameConnected, Tells, Events
  <2>2. netState = "CONNECTING" /\ queue = <<>> /\ ~ accepted
    BY <2>1 DEF Connection, NetTypes
  <2>3. queue' = <<[is |-> "connect"]>>
    BY <2>1, <2>2 DEF Tells
  <2>4. DOMAIN queue' = {1} /\ queue'[1].is = "connect" /\ queue' # <<>> /\ Head(queue') = queue'[1]
    BY <2>3
  <2>. QED  BY <2>1, <2>2, <2>4 DEF Connection
<1>3. CASE GameCantConnect \/ Join
  <2>1. CASE GameCantConnect
    <3>1. /\ conn = "connecting" /\ conn' = "failed"
          /\ UNCHANGED <<connected, netState, due, queue, accepted>>
      BY <2>1 DEF GameCantConnect
    <3>2. netState = "CONNECTING"
      BY <3>1 DEF Connection, NetTypes
    <3>. QED  BY <3>1, <3>2 DEF Connection
  <2>2. CASE Join
    <3>1. CASE UNCHANGED netVars
      BY <1>1, <3>1
    <3>2. CASE ~ UNCHANGED netVars
      <4>1. /\ netState = "INITIALIZED" /\ netState' = "CONNECTING"
            /\ conn' = "connecting" /\ accepted' = FALSE
            /\ UNCHANGED <<connected, due, queue>>
        BY <2>2, <3>2 DEF Join, MayJoin, netVars
      <4>. QED  BY <4>1, EmptyQueue DEF Connection
    <3>. QED  BY <3>1, <3>2
  <2>. QED  BY <1>3, <2>1, <2>2
<1>4. CASE GameDisconnected
  <2>1. /\ Tells([is |-> "disconnect"]) /\ [is |-> "disconnect"] \in Events
        /\ conn = "closing" /\ conn' = "none" /\ due' = {}
        /\ UNCHANGED <<connected, netState, accepted, disconnectPending>>
    BY <1>4 DEF GameDisconnected, Tells, Events, glueVars
  <2>2. /\ netState = "DISCONNECTING" /\ disconnectPending /\ ~ connected
        /\ ~ Queues("disconnect")
    BY <2>1 DEF Connection, NetTypes
  <2>3. /\ queue' \in Seq(Events) /\ Len(queue) \in Nat /\ Len(queue') = Len(queue) + 1
        /\ DOMAIN queue = 1 .. Len(queue) /\ DOMAIN queue' = 1 .. (Len(queue) + 1)
        /\ queue'[Len(queue) + 1].is = "disconnect"
        /\ \A i \in DOMAIN queue : queue'[i] = queue[i]
    BY <2>1, TellsQueue DEF NetTypes
  <2>4. queue' # <<>>
    BY <2>3
  <2>5. \A i \in DOMAIN queue' : i # Len(queue') => i \in DOMAIN queue /\ queue'[i] = queue[i]
    BY <2>3
  <2>6. \A i \in DOMAIN queue' : queue'[i].is # "connect"
    BY <2>2, <2>3, <2>5 DEF Connection
  <2>7. \A i \in DOMAIN queue' : queue'[i].is = "disconnect" => i = Len(queue')
    BY <2>2, <2>5 DEF Queues
  <2>. QED  BY <2>1, <2>2, <2>3, <2>4, <2>6, <2>7 DEF Connection
<1>5. CASE GameSends
  <2>1. PICK event \in Events :
          /\ Tells(event) /\ event.is \in due
          /\ due' = (due \ {event.is})
                    \cup (IF event.is = "session" /\ event.code = "QUEUED"
                          THEN {"admission"} ELSE {})
    BY <1>5 DEF GameSends
  <2>2. /\ conn = "open" /\ conn' = conn
        /\ UNCHANGED <<connected, netState, accepted, disconnectPending>>
    BY <1>5, <2>1 DEF GameSends, Tells, glueVars
  <2>3. /\ queue' \in Seq(Events) /\ Len(queue) \in Nat
        /\ DOMAIN queue = 1 .. Len(queue) /\ DOMAIN queue' = 1 .. (Len(queue) + 1)
        /\ queue'[Len(queue) + 1] = event
        /\ \A i \in DOMAIN queue : queue'[i] = queue[i]
    BY <2>1, TellsQueue DEF NetTypes
  <2>4. event.is \notin {"connect", "disconnect"}
    BY <2>1 DEF NetTypes, Sent
  <2>5. \A i \in DOMAIN queue' : queue'[i] = event \/ (i \in DOMAIN queue /\ queue'[i] = queue[i])
    BY <2>3
  <2>6. CASE netState = "CONNECTED"
    BY <2>2, <2>4, <2>5, <2>6 DEF Connection, Queues
  <2>7. CASE netState = "CONNECTING"
    <3>1. event.is = "challenge" /\ due' = {}
      BY <2>1, <2>7 DEF Connection
    <3>2. queue # <<>> /\ Head(queue).is = "connect"
      BY <2>2, <2>7 DEF Connection
    <3>3. queue[1].is = "connect" /\ queue'[1] = queue[1] /\ queue' # <<>> /\ Head(queue') = queue'[1]
      BY <2>3, <3>2 DEF NetTypes
    <3>. QED  BY <2>2, <2>4, <2>5, <2>7, <3>1, <3>3 DEF Connection
  <2>8. netState \in {"CONNECTED", "CONNECTING"}
    BY <2>2 DEF Connection, NetTypes
  <2>. QED  BY <2>6, <2>7, <2>8
<1>6. CASE ChangeRealm \/ DisconnectFromServer \/ AccountLoginFailed
  <2>1. GivesUp \/ UNCHANGED netVars
    BY <1>6 DEF ChangeRealm, DisconnectFromServer, AccountLoginFailed
  <2>. QED  BY <1>1, <2>1, GivesUpConnection
<1>7. CASE GetCharacterList
  <2>1. /\ UNCHANGED <<connected, netState, conn, queue, accepted, disconnectPending>>
        /\ due' = due \/ connected
    BY <1>7 DEF GetCharacterList
  <2>. QED  BY <2>1 DEF Connection, Queues
<1>8. CASE HandleConnect
  <2>1. /\ Polls("connect") /\ connected' = TRUE /\ netState' = "CONNECTED"
        /\ conn' = conn
    BY <1>8 DEF HandleConnect
  <2>2. netState = "CONNECTING" /\ conn = "open"
    BY <2>1, HeadIs
  <2>3. \A i \in DOMAIN queue' : i + 1 \in DOMAIN queue /\ queue'[i] = queue[i + 1]
                                 /\ i + 1 # 1
    BY <2>1, PollsQueue DEF NetTypes
  <2>4. \A i \in DOMAIN queue' : queue'[i].is \notin {"connect", "disconnect"}
    BY <2>2, <2>3 DEF Connection
  <2>. QED  BY <2>1, <2>2, <2>4 DEF Connection, Queues
<1>9. CASE HandleAuthChallenge
  <2>1. /\ Polls("challenge")
        /\ UNCHANGED <<connected, netState, conn, disconnectPending>>
        /\ due' = due \/ (conn = "open" /\ netState # "CONNECTING")
    BY <1>9 DEF HandleAuthChallenge, AskGame
  <2>. QED  BY <2>1, HandledInConnection
<1>10. CASE HandleAuthResponse \/ HandleCharEnum
  <2>1. /\ Polls("session") \/ Polls("admission") \/ Polls("characters")
        /\ UNCHANGED <<connected, netState, conn, disconnectPending, due>>
    BY <1>10 DEF HandleAuthResponse, HandleCharEnum
  <2>. QED  BY <2>1, HandledInConnection
<1>11. CASE HandleDisconnect
  <2>1. /\ Polls("disconnect") /\ netState' = "INITIALIZED"
        /\ UNCHANGED <<connected, conn, due>>
    BY <1>11 DEF HandleDisconnect
  <2>2. ~ connected /\ conn = "none" /\ due = {} /\ queue' = <<>>
    BY <2>1, HeadIs
  <2>. QED  BY <2>1, <2>2, EmptyQueue DEF Connection
<1>. QED  BY <1>1, <1>2, <1>3, <1>4, <1>5, <1>6, <1>7, <1>8, <1>9, <1>10, <1>11,
           NetStep DEF NetActs

----------------------------------------------------------------------------
(* The handshake with the game server.                                     *)

\* What is left when an event has been handled was there before.
LEMMA PollsLeaves ==
    ASSUME NetTypes, NEW is, Polls(is)
    PROVE  /\ Queues(is)
           /\ \A other : Queues(other)' => Queues(other)
           /\ OneHandshake /\ is \in Handshake => ~ Queues(is)'
<1>1. /\ DOMAIN queue = 1 .. Len(queue) /\ Len(queue) \in Nat /\ Len(queue) > 0
      /\ queue[1].is = is
      /\ \A i \in DOMAIN queue' :
          i + 1 \in DOMAIN queue /\ queue'[i] = queue[i + 1] /\ i + 1 # 1
      /\ 1 \in DOMAIN queue
  BY PollsQueue DEF NetTypes
<1>2. \A other : Queues(other)' => Queues(other)
  BY <1>1 DEF Queues
<1>3. OneHandshake /\ is \in Handshake => ~ Queues(is)'
  BY <1>1 DEF Queues, OneHandshake
<1>. QED  BY <1>1, <1>2, <1>3 DEF Queues

\* The order and the uniqueness of the answers stay when one is handled.
LEMMA PollsInOrder ==
    ASSUME NetTypes, OneHandshake, NEW is, Polls(is), due' = due
    PROVE  /\ \A i, j \in DOMAIN queue' :
                queue'[i].is \in Handshake /\ queue'[j].is = queue'[i].is => i = j
           /\ ToCome("admission")' => ToCome("admission")
           /\ \A i \in DOMAIN queue' : queue'[i].is = "session" /\ ToCome("admission")' =>
                /\ queue'[i].code = "QUEUED"
                /\ \A j \in DOMAIN queue' : queue'[j].is = "admission" => i < j
<1>1. /\ DOMAIN queue = 1 .. Len(queue) /\ Len(queue) \in Nat /\ Len(queue) > 0
      /\ \A i \in DOMAIN queue' :
          i \in Nat /\ i + 1 \in DOMAIN queue /\ queue'[i] = queue[i + 1]
  BY PollsQueue DEF NetTypes
<1>2. \A i, j \in DOMAIN queue' :
        queue'[i].is \in Handshake /\ queue'[j].is = queue'[i].is => i = j
  <2>1. \A i, j \in DOMAIN queue :
          queue[i].is \in Handshake /\ queue[j].is = queue[i].is => i = j
    BY DEF OneHandshake
  <2>2. \A i, j \in DOMAIN queue' : i + 1 = j + 1 => i = j
    BY <1>1
  <2>. QED  BY <1>1, <2>1, <2>2
<1>3. ToCome("admission")' => ToCome("admission")
  <2>1. Queues("admission")' => Queues("admission")
    BY PollsLeaves
  <2>. QED  BY <2>1 DEF ToCome
<1>4. ASSUME NEW i \in DOMAIN queue', queue'[i].is = "session", ToCome("admission")'
      PROVE  /\ queue'[i].code = "QUEUED"
             /\ \A j \in DOMAIN queue' : queue'[j].is = "admission" => i < j
  <2>1. i + 1 \in DOMAIN queue /\ queue[i + 1].is = "session" /\ queue'[i] = queue[i + 1]
    BY <1>1, <1>4
  <2>2. /\ queue[i + 1].code = "QUEUED"
        /\ \A j \in DOMAIN queue : queue[j].is = "admission" => i + 1 < j
    BY <1>3, <1>4, <2>1 DEF OneHandshake
  <2>3. ASSUME NEW j \in DOMAIN queue', queue'[j].is = "admission"
        PROVE  i < j
    BY <1>1, <2>2, <2>3
  <2>. QED  BY <2>1, <2>2, <2>3
<1>. QED  BY <1>2, <1>3, <1>4

\* An event that belongs to no handshake is handled.
LEMMA HandledBesides ==
    ASSUME NetTypes, OneHandshake, NEW is, Polls(is), UNCHANGED <<due, accepted>>
    PROVE  OneHandshake'
<1>1. \A other : Queues(other)' => Queues(other)
  BY PollsLeaves
<1>2. \A other : ToCome(other)' => ToCome(other)
  BY <1>1 DEF ToCome
<1>3. /\ \A i, j \in DOMAIN queue' :
          queue'[i].is \in Handshake /\ queue'[j].is = queue'[i].is => i = j
      /\ \A i \in DOMAIN queue' : queue'[i].is = "session" /\ ToCome("admission")' =>
          /\ queue'[i].code = "QUEUED"
          /\ \A j \in DOMAIN queue' : queue'[j].is = "admission" => i < j
  BY PollsInOrder
<1>4. \A other \in Handshake : Queues(other)' => other \notin due'
  BY <1>1 DEF OneHandshake
<1>5. /\ ToCome("challenge")' => ~ ToCome("session")' /\ ~ ToCome("admission")'
      /\ "session" \in due' => ~ ToCome("admission")'
      /\ accepted' => \A other \in Handshake : ~ ToCome(other)'
  BY <1>2 DEF OneHandshake
<1>. QED  BY <1>3, <1>4, <1>5 DEF OneHandshake

LEMMA NothingToCome ==
    ASSUME due' = {}, queue' = <<>>
    PROVE  /\ OneHandshake' /\ \A is : ~ ToCome(is)'
           /\ DOMAIN queue' = {}
BY EmptyQueue DEF OneHandshake, ToCome, Queues

\* What the server sends was due.
LEMMA SendsIs ==
    ASSUME NetTypes, GameSends
    PROVE  \E event \in Events :
             /\ Tells(event) /\ event.is \in due
             /\ event.is \in {"challenge", "session", "admission", "characters"}
             /\ event.is = "characters" =>
                  accepted \/ \E i \in DOMAIN queue : Accepts(queue[i])
             /\ due' = (due \ {event.is})
                       \cup (IF event.is = "session" /\ event.code = "QUEUED"
                             THEN {"admission"} ELSE {})
             /\ UNCHANGED <<netState, accepted, conn>> /\ conn = "open"
BY DEF GameSends, NetTypes, Sent, Tells

LEMMA HandshakeStep ==
    ASSUME NetTypes, Connection, OneHandshake, Next
    PROVE  OneHandshake'
<1>1. CASE UNCHANGED <<due, queue>> /\ (accepted' = accepted \/ accepted' = FALSE)
  BY <1>1 DEF OneHandshake, ToCome, Queues
<1>2. CASE UNCHANGED netVars
  BY <1>1, <1>2 DEF netVars
<1>3. CASE GameConnected
  <2>1. /\ Tells([is |-> "connect"]) /\ conn = "connecting" /\ due' = {"challenge"}
        /\ UNCHANGED <<netState, accepted>>
    BY <1>3 DEF GameConnected, Tells
  <2>2. netState = "CONNECTING" /\ queue = <<>> /\ ~ accepted
    BY <2>1 DEF Connection, NetTypes
  <2>3. queue' = <<[is |-> "connect"]>>
    BY <2>1, <2>2 DEF Tells
  <2>4. DOMAIN queue' = {1} /\ queue'[1].is = "connect"
    BY <2>3
  <2>. QED  BY <2>1, <2>2, <2>4 DEF OneHandshake, ToCome, Queues, Handshake
<1>4. CASE GameCantConnect \/ Join
  BY <1>1, <1>4 DEF GameCantConnect, Join
<1>5. ASSUME NEW event \in Events, Tells(event)
      PROVE  /\ \A i \in DOMAIN queue' :
                  \/ i \in DOMAIN queue /\ queue'[i] = queue[i] /\ i < Len(queue')
                  \/ i = Len(queue') /\ queue'[i] = event
             /\ \A other : Queues(other)' => Queues(other) \/ event.is = other
  <2>1. /\ Len(queue) \in Nat /\ Len(queue') = Len(queue) + 1
        /\ DOMAIN queue = 1 .. Len(queue) /\ DOMAIN queue' = 1 .. (Len(queue) + 1)
        /\ queue'[Len(queue) + 1] = event
        /\ \A i \in DOMAIN queue : queue'[i] = queue[i]
    BY <1>5, TellsQueue DEF NetTypes
  <2>2. \A i \in DOMAIN queue' :
          \/ i \in DOMAIN queue /\ queue'[i] = queue[i] /\ i < Len(queue')
          \/ i = Len(queue') /\ queue'[i] = event
    BY <2>1
  <2>. QED  BY <2>2 DEF Queues
<1>6. CASE GameDisconnected
  <2>1. /\ Tells([is |-> "disconnect"]) /\ [is |-> "disconnect"] \in Events
        /\ due' = {} /\ accepted' = accepted
    BY <1>6 DEF GameDisconnected, Tells, Events
  <2>2. \A i \in DOMAIN queue' :
          \/ i \in DOMAIN queue /\ queue'[i] = queue[i]
          \/ queue'[i].is = "disconnect"
    BY <1>5, <2>1
  <2>3. \A other \in Handshake : ToCome(other)' => Queues(other)
    <3>1. \A other : Queues(other)' => Queues(other) \/ other = "disconnect"
      BY <1>5, <2>1
    <3>. QED  BY <3>1, <2>1 DEF ToCome, Handshake
  <2>4. \A other \in Handshake : ToCome(other)' => ToCome(other)
    BY <2>3 DEF ToCome
  <2>5. \A i, j \in DOMAIN queue' :
          queue'[i].is \in Handshake /\ queue'[j].is = queue'[i].is => i = j
    BY <2>2 DEF OneHandshake, Handshake
  <2>6. \A i \in DOMAIN queue' : queue'[i].is = "session" /\ ToCome("admission")' =>
          /\ queue'[i].code = "QUEUED"
          /\ \A j \in DOMAIN queue' : queue'[j].is = "admission" => i < j
    BY <2>2, <2>4 DEF OneHandshake, Handshake
  <2>7. /\ ToCome("challenge")' => ~ ToCome("session")' /\ ~ ToCome("admission")'
        /\ accepted' => \A other \in Handshake : ~ ToCome(other)'
    BY <2>1, <2>4 DEF OneHandshake, Handshake
  <2>. QED  BY <2>1, <2>5, <2>6, <2>7 DEF OneHandshake
<1>7. CASE GameSends
  <2>1. PICK event \in Events :
          /\ Tells(event) /\ event.is \in due
          /\ event.is \in {"challenge", "session", "admission", "characters"}
          /\ due' = (due \ {event.is})
                    \cup (IF event.is = "session" /\ event.code = "QUEUED"
                          THEN {"admission"} ELSE {})
          /\ accepted' = accepted
    BY <1>7, SendsIs
  <2>2. /\ \A i \in DOMAIN queue' :
            \/ i \in DOMAIN queue /\ queue'[i] = queue[i] /\ i < Len(queue')
            \/ i = Len(queue') /\ queue'[i] = event
        /\ \A other : Queues(other)' => Queues(other) \/ event.is = other
    BY <1>5, <2>1
  <2>3. event.is \in Handshake => ~ Queues(event.is)
    BY <2>1 DEF OneHandshake
  <2>4. \A other \in Handshake : ToCome(other)' =>
          ToCome(other) \/ (other = "admission" /\ event.is = "session" /\ event.code = "QUEUED")
    BY <2>1, <2>2 DEF ToCome
  <2>5. \A i, j \in DOMAIN queue' :
          queue'[i].is \in Handshake /\ queue'[j].is = queue'[i].is => i = j
    <3>1. \A i \in DOMAIN queue : queue[i].is \in Handshake => queue[i].is # event.is
      BY <2>3 DEF Queues
    <3>. QED  BY <2>2, <3>1 DEF OneHandshake
  <2>6. \A other \in Handshake : Queues(other)' => other \notin due'
    <3>1. ASSUME NEW other \in Handshake, Queues(other)', other \in due'
          PROVE  FALSE
      <4>1. CASE other = event.is
        <5>1. other # "session" \/ event.code # "QUEUED" \/ other # "admission"
          OBVIOUS
        <5>. QED  BY <2>1, <3>1, <4>1
      <4>2. CASE other # event.is
        <5>1. Queues(other)
          BY <2>2, <3>1, <4>2
        <5>2. other \notin due
          BY <5>1 DEF OneHandshake
        <5>3. other = "admission" /\ event.is = "session"
          BY <2>1, <3>1, <5>2
        <5>4. ToCome("admission") /\ "session" \in due
          BY <2>1, <5>1, <5>3 DEF ToCome
        <5>. QED  BY <5>4 DEF OneHandshake
      <4>. QED  BY <4>1, <4>2
    <3>. QED  BY <3>1
  <2>7. /\ ToCome("challenge")' => ~ ToCome("session")' /\ ~ ToCome("admission")'
        /\ accepted' => \A other \in Handshake : ~ ToCome(other)'
    <3>1. event.is = "session" => ToCome("session")
      BY <2>1 DEF ToCome
    <3>. QED  BY <2>1, <2>4, <3>1 DEF OneHandshake, Handshake
  <2>8. "session" \in due' => ~ ToCome("admission")'
    <3>1. "session" \in due' => "session" \in due /\ event.is # "session"
      BY <2>1
    <3>. QED  BY <2>4, <3>1 DEF OneHandshake, Handshake
  <2>9. ASSUME NEW i \in DOMAIN queue', queue'[i].is = "session", ToCome("admission")'
        PROVE  /\ queue'[i].code = "QUEUED"
               /\ \A j \in DOMAIN queue' : queue'[j].is = "admission" => i < j
    <3>1. CASE i \in DOMAIN queue /\ queue'[i] = queue[i] /\ i < Len(queue')
      <4>1. Queues("session") /\ event.is # "session"
        BY <2>3, <2>9, <3>1 DEF Queues, Handshake
      <4>2. ToCome("admission")
        BY <2>4, <2>9, <4>1 DEF Handshake
      <4>3. /\ queue[i].code = "QUEUED"
            /\ \A j \in DOMAIN queue : queue[j].is = "admission" => i < j
        BY <2>9, <3>1, <4>2 DEF OneHandshake
      <4>. QED  BY <2>2, <3>1, <4>3
    <3>2. CASE i = Len(queue') /\ queue'[i] = event
      <4>1. event.is = "session" /\ "session" \in due /\ ~ ToCome("admission")
        BY <2>1, <2>9, <3>2 DEF OneHandshake
      <4>2. event.code = "QUEUED"
        BY <2>4, <2>9, <4>1 DEF Handshake
      <4>3. \A j \in DOMAIN queue' : queue'[j].is # "admission"
        BY <2>2, <4>1 DEF ToCome, Queues
      <4>. QED  BY <3>2, <4>2, <4>3
    <3>. QED  BY <2>2, <3>1, <3>2
  <2>. QED  BY <2>5, <2>6, <2>7, <2>8, <2>9 DEF OneHandshake
<1>8. CASE ChangeRealm \/ DisconnectFromServer \/ AccountLoginFailed
  <2>1. Disconnect \/ UNCHANGED netVars
    BY <1>8 DEF ChangeRealm, DisconnectFromServer, AccountLoginFailed, GivesUp
  <2>2. ASSUME Disconnect
        PROVE  OneHandshake'
    <3>1. accepted' = FALSE
      BY <2>2 DEF Disconnect
    <3>. QED  BY <1>1, <2>2, <3>1, DisconnectIs, NothingToCome
  <2>. QED  BY <1>2, <2>1, <2>2
<1>9. CASE GetCharacterList
  <2>1. /\ UNCHANGED <<queue, accepted>>
        /\ due' = due \/ due' = due \cup {"characters"}
    BY <1>9 DEF GetCharacterList, AskGame
  <2>. QED  BY <2>1 DEF OneHandshake, ToCome, Queues, Handshake
<1>10. CASE HandleConnect \/ HandleCharEnum \/ HandleDisconnect
  <2>1. (\E is : Polls(is)) /\ UNCHANGED <<due, accepted>>
    BY <1>10 DEF HandleConnect, HandleCharEnum, HandleDisconnect
  <2>. QED  BY <2>1, HandledBesides
<1>11. CASE HandleAuthChallenge
  <2>1. /\ Polls("challenge") /\ accepted' = accepted
        /\ due' = due \/ due' = due \cup {"session"}
    BY <1>11 DEF HandleAuthChallenge, AskGame
  <2>2. /\ Queues("challenge") /\ ~ Queues("challenge")'
        /\ \A other : Queues(other)' => Queues(other)
    BY <2>1, PollsLeaves DEF Handshake
  <2>3. /\ ~ ToCome("session") /\ ~ ToCome("admission") /\ "challenge" \notin due
        /\ ~ accepted
    BY <2>2 DEF OneHandshake, ToCome, Handshake
  <2>4. /\ ~ ToCome("challenge")' /\ ~ ToCome("admission")' /\ ~ Queues("session")'
    BY <2>1, <2>2, <2>3 DEF ToCome
  <2>5. \A i, j \in DOMAIN queue' :
          queue'[i].is \in Handshake /\ queue'[j].is = queue'[i].is => i = j
    <3>1. \A i, j \in DOMAIN queue' : i + 1 = j + 1 => i = j
      BY <2>1, PollsQueue DEF NetTypes
    <3>2. \A i \in DOMAIN queue' : i + 1 \in DOMAIN queue /\ queue'[i] = queue[i + 1]
      BY <2>1, PollsQueue DEF NetTypes
    <3>. QED  BY <3>1, <3>2 DEF OneHandshake
  <2>. QED  BY <2>1, <2>3, <2>4, <2>5 DEF OneHandshake, ToCome, Queues, Handshake
<1>12. CASE HandleAuthResponse
  <2>1. PICK is \in {"session", "admission"} : Polls(is)
    BY <1>12 DEF HandleAuthResponse
  <2>2. due' = due /\ accepted' = (Head(queue).code = "other")
    BY <1>12 DEF HandleAuthResponse
  <2>3. /\ Queues(is) /\ ~ Queues(is)'
        /\ \A other : Queues(other)' => Queues(other)
    BY <2>1, PollsLeaves DEF Handshake
  <2>4. \A other : ToCome(other)' => ToCome(other)
    BY <2>2, <2>3 DEF ToCome
  <2>5. ~ ToCome("challenge") /\ ~ ToCome(is)'
    BY <2>1, <2>2, <2>3 DEF OneHandshake, ToCome, Handshake
  <2>6. accepted' => ~ ToCome("session")' /\ ~ ToCome("admission")'
    <3>1. /\ DOMAIN queue = 1 .. Len(queue) /\ Len(queue) \in Nat /\ Len(queue) > 0
          /\ Head(queue) = queue[1] /\ queue[1].is = is /\ 1 \in DOMAIN queue
      BY <2>1, PollsQueue DEF NetTypes
    <3>2. CASE is = "session"
      <4>1. accepted' => ~ ToCome("admission")
        BY <2>2, <3>1, <3>2 DEF OneHandshake
      <4>. QED  BY <2>4, <2>5, <3>2, <4>1
    <3>3. CASE is = "admission"
      <4>1. ~ Queues("session")
        <5>1. ASSUME NEW i \in DOMAIN queue, queue[i].is = "session"
              PROVE  FALSE
          <6>1. ToCome("admission")
            BY <2>3, <3>3 DEF ToCome
          <6>2. i < 1
            BY <3>1, <3>3, <5>1, <6>1 DEF OneHandshake
          <6>. QED  BY <3>1, <6>2
        <5>. QED  BY <5>1 DEF Queues
      <4>2. "session" \notin due
        BY <2>3, <3>3 DEF OneHandshake, ToCome
      <4>. QED  BY <2>4, <2>5, <3>3, <4>1, <4>2 DEF ToCome
    <3>. QED  BY <2>1, <3>2, <3>3
  <2>7. /\ \A i, j \in DOMAIN queue' :
            queue'[i].is \in Handshake /\ queue'[j].is = queue'[i].is => i = j
        /\ \A i \in DOMAIN queue' : queue'[i].is = "session" /\ ToCome("admission")' =>
            /\ queue'[i].code = "QUEUED"
            /\ \A j \in DOMAIN queue' : queue'[j].is = "admission" => i < j
    BY <2>1, <2>2, PollsInOrder
  <2>8. \A other \in Handshake : Queues(other)' => other \notin due'
    BY <2>2, <2>3 DEF OneHandshake
  <2>9. "session" \in due' => ~ ToCome("admission")'
    BY <2>2, <2>4 DEF OneHandshake
  <2>. QED  BY <2>4, <2>5, <2>6, <2>7, <2>8, <2>9 DEF OneHandshake, Handshake
<1>. QED  BY <1>2, <1>3, <1>4, <1>6, <1>7, <1>8, <1>9, <1>10, <1>11, <1>12,
           NetStep DEF NetActs

----------------------------------------------------------------------------
(* The character lists.                                                    *)

\* What the queue keeps keeps the session that it belongs to.
LEMMA PollsAccepted ==
    ASSUME NetTypes, NEW is, Polls(is), CharactersAccepted, accepted => accepted',
           Accepts(queue[1]) => accepted'
    PROVE  CharactersAccepted'
<1>1. /\ DOMAIN queue = 1 .. Len(queue) /\ Len(queue) \in Nat
      /\ DOMAIN queue' = 1 .. (Len(queue) - 1)
      /\ \A i \in DOMAIN queue' :
          i \in Nat /\ i + 1 \in DOMAIN queue /\ queue'[i] = queue[i + 1]
  BY PollsQueue DEF NetTypes
<1>2. SUFFICES ASSUME NEW i \in DOMAIN queue', queue'[i].is = "characters", ~ accepted'
               PROVE  \E j \in 1 .. (i - 1) : Accepts(queue'[j])
  BY DEF CharactersAccepted, AcceptedBefore, Accepts
<1>3. i \in Nat /\ i + 1 \in DOMAIN queue /\ queue[i + 1].is = "characters" /\ ~ accepted
  BY <1>1, <1>2
<1>4. PICK j \in 1 .. ((i + 1) - 1) : Accepts(queue[j])
  BY <1>3 DEF CharactersAccepted, AcceptedBefore
<1>5. j # 1 /\ j - 1 \in 1 .. (i - 1) /\ j - 1 \in DOMAIN queue' /\ (j - 1) + 1 = j
  BY <1>1, <1>2, <1>3, <1>4
<1>6. queue'[j - 1] = queue[j]
  BY <1>1, <1>5
<1>. QED  BY <1>4, <1>5, <1>6

LEMMA TellsAccepted ==
    ASSUME NetTypes, NEW event \in Events, Tells(event), CharactersAccepted,
           event.is = "characters" =>
                accepted \/ \E i \in DOMAIN queue : Accepts(queue[i])
    PROVE  CharactersAccepted'
<1>1. /\ DOMAIN queue = 1 .. Len(queue) /\ Len(queue) \in Nat
      /\ DOMAIN queue' = 1 .. (Len(queue) + 1)
      /\ queue'[Len(queue) + 1] = event
      /\ \A i \in DOMAIN queue : queue'[i] = queue[i]
  BY TellsQueue DEF NetTypes
<1>2. accepted' = accepted
  BY DEF Tells
<1>3. SUFFICES ASSUME NEW i \in DOMAIN queue', queue'[i].is = "characters", ~ accepted
               PROVE  \E j \in 1 .. (i - 1) : Accepts(queue'[j])
  BY <1>2 DEF CharactersAccepted, AcceptedBefore, Accepts
<1>4. CASE i \in DOMAIN queue
  <2>1. queue[i].is = "characters" /\ i \in Nat
    BY <1>1, <1>3, <1>4
  <2>2. PICK j \in 1 .. (i - 1) : Accepts(queue[j])
    BY <1>3, <1>4, <2>1 DEF CharactersAccepted, AcceptedBefore
  <2>3. j \in DOMAIN queue
    BY <1>1, <1>4, <2>2
  <2>. QED  BY <1>1, <2>2, <2>3
<1>5. CASE i = Len(queue) + 1
  <2>1. PICK j \in DOMAIN queue : Accepts(queue[j])
    BY <1>1, <1>3, <1>5
  <2>2. j \in 1 .. (i - 1) /\ queue'[j] = queue[j]
    BY <1>1, <1>5, <2>1
  <2>. QED  BY <2>1, <2>2
<1>. QED  BY <1>1, <1>4, <1>5

\* The answer that is handled is the session's, which was not accepted before.
LEMMA AnswerIs ==
    ASSUME NetTypes, OneHandshake, HandleAuthResponse
    PROVE  /\ ~ accepted /\ HandshakeQueued
           /\ Accepts(queue[1]) <=> accepted'
           /\ queue[1].code \in {"other", "AUTH_FAILED", "QUEUED"}
           /\ Head(queue) = queue[1]
<1>1. PICK is \in {"session", "admission"} : Polls(is)
  BY DEF HandleAuthResponse
<1>2. /\ queue[1] \in Events /\ Head(queue) = queue[1] /\ queue[1].is = is
      /\ 1 \in DOMAIN queue
  BY <1>1, PollsQueue DEF NetTypes
<1>3. accepted' = (Head(queue).code = "other")
  BY DEF HandleAuthResponse
<1>4. ~ accepted
  BY <1>1, <1>2 DEF OneHandshake, ToCome, Queues, Handshake
<1>. QED  BY <1>2, <1>3, <1>4, EventFields DEF Accepts, HandshakeQueued, Handshake

LEMMA AcceptedStep ==
    ASSUME NetTypes, Connection, OneHandshake, CharactersAccepted, Next
    PROVE  CharactersAccepted' \/ Disconnect
<1>1. CASE UNCHANGED <<queue, accepted>>
  BY <1>1 DEF CharactersAccepted, AcceptedBefore, Accepts
<1>2. CASE UNCHANGED netVars
  BY <1>1, <1>2 DEF netVars
<1>3. CASE GameConnected
  BY <1>3, TellsAccepted DEF GameConnected, Events
<1>4. CASE GameDisconnected
  BY <1>4, TellsAccepted DEF GameDisconnected, Events
<1>5. CASE GameSends
  BY <1>5, SendsIs, TellsAccepted
<1>6. CASE GameCantConnect \/ GetCharacterList
  BY <1>1, <1>6 DEF GameCantConnect, GetCharacterList
<1>7. CASE Join
  <2>1. (netState = "INITIALIZED" /\ queue' = queue) \/ UNCHANGED netVars
    BY <1>7 DEF Join, MayJoin, netVars
  <2>2. netState = "INITIALIZED" => queue = <<>>
    BY DEF Connection
  <2>. QED  BY <1>2, <2>1, <2>2, EmptyQueue DEF CharactersAccepted
<1>8. CASE ChangeRealm \/ DisconnectFromServer \/ AccountLoginFailed
  BY <1>2, <1>8 DEF ChangeRealm, DisconnectFromServer, AccountLoginFailed, GivesUp
<1>9. CASE HandleConnect \/ HandleAuthChallenge \/ HandleCharEnum \/ HandleDisconnect
  <2>1. PICK is \in {"connect", "challenge", "characters", "disconnect"} : Polls(is)
    BY <1>9 DEF HandleConnect, HandleAuthChallenge, HandleCharEnum, HandleDisconnect
  <2>2. accepted' = accepted
    BY <1>9 DEF HandleConnect, HandleAuthChallenge, HandleCharEnum, HandleDisconnect
  <2>3. queue[1].is = is
    BY <2>1, PollsQueue DEF NetTypes
  <2>4. ~ Accepts(queue[1])
    BY <2>3 DEF Accepts
  <2>. QED  BY <2>1, <2>2, <2>4, PollsAccepted
<1>10. CASE HandleAuthResponse
  <2>1. \E is : Polls(is)
    BY <1>10 DEF HandleAuthResponse
  <2>. QED  BY <1>10, <2>1, AnswerIs, PollsAccepted
<1>. QED  BY <1>2, <1>3, <1>4, <1>5, <1>6, <1>7, <1>8, <1>9, <1>10, NetStep DEF NetActs

\* A connection that was given up only has its disconnection to tell.
LEMMA DisconnectingStep ==
    ASSUME NetTypes, Connection, Next, netState = "DISCONNECTING"
    PROVE  \/ queue' = <<>>
           \/ /\ netState' = "DISCONNECTING"
              /\ \A i \in DOMAIN queue' :
                  \/ queue'[i].is = "disconnect"
                  \/ \E j \in DOMAIN queue : queue'[i] = queue[j]
<1>1. CASE UNCHANGED netVars
  BY <1>1 DEF netVars
<1>2. /\ ~ connected /\ conn \in {"closing", "none"}
      /\ ~ MayJoin
  BY DEF Connection, MayJoin
<1>3. CASE GameConnected \/ GameCantConnect \/ GameSends
  BY <1>2, <1>3 DEF GameConnected, GameCantConnect, GameSends
<1>4. CASE GameDisconnected
  <2>1. /\ Tells([is |-> "disconnect"]) /\ [is |-> "disconnect"] \in Events
        /\ netState' = netState
    BY <1>4 DEF GameDisconnected, Tells, Events
  <2>2. /\ DOMAIN queue = 1 .. Len(queue) /\ Len(queue) \in Nat
        /\ DOMAIN queue' = 1 .. (Len(queue) + 1)
        /\ queue'[Len(queue) + 1].is = "disconnect"
        /\ \A i \in DOMAIN queue : queue'[i] = queue[i]
    BY <2>1, TellsQueue DEF NetTypes
  <2>. QED  BY <2>1, <2>2
<1>5. CASE Join \/ GetCharacterList
  BY <1>2, <1>5 DEF Join, GetCharacterList
<1>6. CASE ChangeRealm \/ DisconnectFromServer \/ AccountLoginFailed
  <2>1. Disconnect \/ UNCHANGED netVars
    BY <1>6 DEF ChangeRealm, DisconnectFromServer, AccountLoginFailed, GivesUp
  <2>. QED  BY <1>1, <2>1, DisconnectIs
<1>7. ASSUME NEW is, Polls(is), netState' = netState
      PROVE  \A i \in DOMAIN queue' : \E j \in DOMAIN queue : queue'[i] = queue[j]
  BY <1>7, PollsQueue DEF NetTypes
<1>8. CASE HandleAuthChallenge \/ HandleAuthResponse \/ HandleCharEnum
  <2>1. (\E is : Polls(is)) /\ netState' = netState
    BY <1>8 DEF HandleAuthChallenge, HandleAuthResponse, HandleCharEnum
  <2>. QED  BY <1>7, <2>1
<1>9. CASE HandleConnect \/ HandleDisconnect
  <2>1. Polls("connect") \/ Polls("disconnect")
    BY <1>9 DEF HandleConnect, HandleDisconnect
  <2>. QED  BY <2>1, HeadIs
<1>. QED  BY <1>1, <1>3, <1>4, <1>5, <1>6, <1>8, <1>9, NetStep DEF NetActs

LEMMA CharactersStep ==
    ASSUME NetTypes, Connection, OneHandshake, CharactersOfSession, Next
    PROVE  CharactersOfSession'
<1>1. CASE queue' = <<>>
  BY <1>1, EmptyQueue DEF CharactersOfSession, CharactersAccepted
<1>2. CASE netState = "DISCONNECTING" /\ ~ HandshakeQueued
  <2>1. CASE queue' # <<>>
    <3>1. /\ netState' = "DISCONNECTING"
          /\ \A i \in DOMAIN queue' :
              \/ queue'[i].is = "disconnect"
              \/ \E j \in DOMAIN queue : queue'[i] = queue[j]
      BY <1>2, <2>1, DisconnectingStep
    <3>2. ~ HandshakeQueued'
      BY <1>2, <3>1 DEF HandshakeQueued, Handshake
    <3>. QED  BY <3>1, <3>2 DEF CharactersOfSession
  <2>. QED  BY <1>1, <2>1
<1>3. CASE CharactersAccepted /\ Disconnect
  <2>1. CASE netState = "CONNECTED"
    <3>1. netState' = "DISCONNECTING" /\ queue' = queue
      BY <1>3, <2>1, DisconnectIs
    <3>2. CASE accepted
      <4>1. ~ HandshakeQueued'
        BY <3>1, <3>2 DEF OneHandshake, ToCome, Queues, HandshakeQueued
      <4>. QED  BY <3>1, <4>1 DEF CharactersOfSession
    <3>3. CASE ~ accepted
      BY <1>3, <3>1, <3>3 DEF CharactersOfSession, CharactersAccepted,
        AcceptedBefore, Accepts
    <3>. QED  BY <3>2, <3>3
  <2>. QED  BY <1>1, <1>3, <2>1, DisconnectIs
<1>4. CASE CharactersAccepted /\ ~ Disconnect
  BY <1>4, AcceptedStep DEF CharactersOfSession
<1>. QED  BY <1>2, <1>3, <1>4 DEF CharactersOfSession

----------------------------------------------------------------------------
(* The account login.                                                      *)

\* The main thread comes to poll with nothing left in the queue, and notes the
\* status as it is.
LEMMA MainStep ==
    ASSUME Next
    PROVE  \/ main' = main
           \/ main'.at \in {"input", "poll", "prove", "reconnect"}
           \/ NextPart /\ main'.at = "idle" /\ queue = <<>>
           \/ PollStatus /\ main'.at = "polled" /\ (At("idle") \/ queue = <<>>)
<1>1. CASE Scripts
  BY <1>1 DEF Scripts, LoginServerLogin, CancelLogin, CancelOperation,
    ChangeRealm, RequestRealmList, GetCharacterList, EnterWorld,
    DisconnectFromServer, RealmListDialogCancelled, AskRealms, GoesTo
<1>2. CASE MainLoop
  <2>1. CASE NextPart
    BY <2>1 DEF NextPart, GoesTo
  <2>2. CASE PollStatus
    <3>1. main'.at = "polled"
      BY <2>2 DEF PollStatus
    <3>. QED  BY <2>2, <3>1 DEF PollStatus
  <2>3. CASE ~ (NextPart \/ PollStatus)
    BY <1>2, <2>3 DEF MainLoop, HandleConnect,
      HandleAuthChallenge, HandleAuthResponse, HandleCharEnum,
      HandleDisconnect, Polls, PolledNothing, LoginSucceeded, LoginFailed,
      CheckVersions, Handshakes, AccountLoginFailed, AccountLoginSucceeded,
      CharacterListCancelled, ListDone, SuspendGlue, CharacterLogin,
      Reconnects, AskRealms, GoesTo
  <2>. QED  BY <2>1, <2>2, <2>3
<1>3. CASE Realms
  BY <1>3 DEF Realms, EnumFailed, EnumRealms, Join, Listed
<1>4. CASE Game \/ GameCantConnect
  BY <1>4 DEF Game, GameConnected, GameDisconnected, GameSends, Tells,
    GameCantConnect
<1>5. CASE UNCHANGED Glue
  BY <1>5 DEF Glue
<1>. QED  BY <1>1, <1>2, <1>3, <1>4, <1>5, Steps

LEMMA GivesUpStep ==
    ASSUME NetTypes, Connection, Next, netState # "DISCONNECTING", netState' = "DISCONNECTING"
    PROVE  main'.at \in {"input", "reconnect"}
<1>1. CASE ChangeRealm \/ DisconnectFromServer
  BY <1>1 DEF ChangeRealm, DisconnectFromServer, AfterLogin, Modal, Script, At
<1>2. CASE AccountLoginFailed
  BY <1>2 DEF AccountLoginFailed, AskRealms, GoesTo
<1>3. ~ UNCHANGED netVars
  BY DEF netVars
<1>4. CASE GameConnected \/ GameCantConnect \/ GameDisconnected \/ GameSends
             \/ Join \/ GetCharacterList
  BY <1>4 DEF GameConnected, GameCantConnect, GameDisconnected, GameSends, Join,
    GetCharacterList, Tells
<1>5. CASE HandleConnect \/ HandleAuthChallenge \/ HandleAuthResponse
             \/ HandleCharEnum \/ HandleDisconnect
  BY <1>5 DEF HandleConnect, HandleAuthChallenge, HandleAuthResponse,
    HandleCharEnum, HandleDisconnect
<1>. QED  BY <1>1, <1>2, <1>3, <1>4, <1>5, NetStep DEF NetActs

LEMMA HandledStep ==
    ASSUME NetTypes, Connection, HandledBeforePoll, Next
    PROVE  HandledBeforePoll'
<1>. SUFFICES ASSUME main'.at \in {"idle", "polled"}, netState' = "DISCONNECTING",
                     queue' # <<>>
              PROVE  \A i \in DOMAIN queue' : queue'[i].is = "disconnect"
  BY EmptyQueue DEF HandledBeforePoll
<1>1. netState = "DISCONNECTING"
  BY GivesUpStep
<1>2. \A i \in DOMAIN queue' :
        \/ queue'[i].is = "disconnect"
        \/ \E j \in DOMAIN queue : queue'[i] = queue[j]
  BY <1>1, DisconnectingStep
<1>3. main.at \in {"idle", "polled"} \/ queue = <<>>
  BY MainStep DEF At
<1>4. \A i \in DOMAIN queue : queue[i].is = "disconnect"
  BY <1>1, <1>3, EmptyQueue DEF HandledBeforePoll
<1>. QED  BY <1>2, <1>4

LEMMA PolledStep ==
    ASSUME PolledAsIs, Next
    PROVE  PolledAsIs'
<1>1. CASE PollStatus
  <2>1. main' = [at |-> "polled", op |-> statusCop, result |-> statusResult,
                 code |-> errorCode]
    BY <1>1 DEF PollStatus
  <2>2. /\ main'.op = statusCop /\ main'.result = statusResult
        /\ main'.code = errorCode
    BY <2>1
  <2>3. UNCHANGED statusOpVars
    BY <1>1 DEF PollStatus, gameVars
  <2>. QED  BY <2>2, <2>3 DEF PolledAsIs, statusOpVars
<1>2. CASE ~ PollStatus /\ main'.at = "polled"
  <2>1. main' = main /\ At("polled")
    BY <1>2, MainStep DEF At
  <2>2. CASE Scripts
    BY <2>1, <2>2 DEF Scripts, LoginServerLogin, CancelLogin, CancelOperation,
      ChangeRealm, RequestRealmList, GetCharacterList, EnterWorld,
      DisconnectFromServer, RealmListDialogCancelled, AfterLogin, Modal, Script, At
  <2>3. CASE MainLoop
    BY <1>2, <2>1, <2>3 DEF MainLoop, NextPart, HandleConnect,
      HandleAuthChallenge, HandleAuthResponse, HandleCharEnum,
      HandleDisconnect, Polls, PolledNothing, LoginSucceeded, LoginFailed,
      CheckVersions, Handshakes, AccountLoginFailed, AccountLoginSucceeded,
      CharacterListCancelled, ListDone, SuspendGlue, CharacterLogin,
      Reconnects, AskRealms, GoesTo, At
  <2>4. CASE Realms
    <3>1. statusCop' = statusCop /\ (raced' \/ UNCHANGED <<statusOpVars, raced>>)
      BY <2>1, <2>4 DEF Realms, EnumFailed, EnumRealms, Join, Listed,
        WorkerCompletes, Complete, statusOpVars, histories
    <3>. QED  BY <2>1, <3>1 DEF PolledAsIs, statusOpVars
  <2>5. CASE Game \/ GameCantConnect
    <3>1. UNCHANGED <<statusOpVars, raced>>
      BY <2>5 DEF Game, GameConnected, GameDisconnected, GameSends, Tells,
        GameCantConnect, histories
    <3>. QED  BY <2>1, <3>1 DEF PolledAsIs, statusOpVars
  <2>6. CASE UNCHANGED Glue
    BY <2>6 DEF Glue, gameVars, statusOpVars, histories, PolledAsIs
  <2>. QED  BY <2>2, <2>3, <2>4, <2>5, <2>6, Steps
<1>3. CASE main'.at # "polled"
  BY <1>3 DEF PolledAsIs
<1>. QED  BY <1>1, <1>2, <1>3

LEMMA AccountLoginKept ==
    ASSUME AccountLogin, raced => raced',
           UNCHANGED <<idleState, statusOpVars, netState, accepted>>,
           CharactersAccepted => CharactersAccepted'
    PROVE  AccountLogin'
BY DEF AccountLogin, Authenticates, Succeeded, statusOpVars

LEMMA StartConnectIs ==
    ASSUME Connection, StartConnect, StatusTypes
    PROVE  /\ statusCop' = "CONNECT"
           /\ Succeeded' => netState = "CONNECTED" /\ connected
BY DEF StartConnect, Initiate, InitiateAndComplete, Succeeded, Connection

\* The worker ends no operation of the account login but a connection that
\* fails, unless it marks it.
LEMMA CompletedByWorker ==
    ASSUME AccountLogin, UNCHANGED <<idleState, netState>>,
           NEW operations \in {{"CONNECT"}, {"CONNECT", "GET_REALMS"}, {"GET_REALMS"}},
           NEW result \in {0, 1}, NEW code,
           result = 1 => operations = {"GET_REALMS"},
           WorkerCompletes(operations, result, code)
    PROVE  AccountLogin'
<1>1. ~ raced' => statusCop \in {"CONNECT", "GET_REALMS"} /\ (result = 1 => statusCop = "GET_REALMS")
  BY DEF WorkerCompletes
<1>2. statusCop' = statusCop /\ statusResult' = result
  BY DEF WorkerCompletes, Complete
<1>. QED  BY <1>1, <1>2 DEF AccountLogin, Authenticates, Succeeded

LEMMA AccountLoginStep ==
    ASSUME NetTypes, StatusTypes, Connection, OneHandshake, CharactersOfSession,
           HandledBeforePoll, PolledAsIs, AccountLogin, Next
    PROVE  AccountLogin'
<1>1. raced => raced'
  BY RacedStep
<1>2. idleState' # "ACCOUNT_LOGIN" => AccountLogin'
  BY DEF AccountLogin, Authenticates
<1>3. UNCHANGED <<queue, accepted>> => (CharactersAccepted => CharactersAccepted')
  BY DEF CharactersAccepted, AcceptedBefore, Accepts
<1>4. CASE UNCHANGED <<idleState, statusOpVars, netVars>>
  BY <1>1, <1>3, <1>4, AccountLoginKept DEF netVars
<1>5. CASE Scripts
  <2>1. CASE CancelOperation
    <3>1. /\ UNCHANGED <<netState, queue, accepted>> /\ statusResult' = 0
          /\ statusCop' = statusCop
          /\ idleState' = "ACCOUNT_LOGIN" => idleState = "ACCOUNT_LOGIN"
      BY <2>1 DEF CancelOperation, Complete, netVars
    <3>. QED  BY <1>1, <1>3, <3>1 DEF AccountLogin, Authenticates, Succeeded
  <2>2. CASE ChangeRealm
    <3>1. CASE connected
      BY <1>2, <2>2, <3>1 DEF ChangeRealm, AfterLogin, Modal
    <3>2. CASE ~ connected
      <4>1. StartConnect /\ netState' = netState
        BY <2>2, <3>2 DEF ChangeRealm, netVars
      <4>. QED  BY <3>2, <4>1, StartConnectIs DEF AccountLogin, Authenticates
    <3>. QED  BY <3>1, <3>2
  <2>3. CASE ~ (CancelOperation \/ ChangeRealm)
    <3>1. idleState' # "ACCOUNT_LOGIN"
      BY <1>5, <2>3 DEF Scripts, LoginServerLogin, CancelLogin, RequestRealmList,
        GetCharacterList, EnterWorld, DisconnectFromServer, AskRealms,
        RealmListDialogCancelled, AfterLogin, Modal, glueVars
    <3>. QED  BY <1>2, <3>1
  <2>. QED  BY <2>1, <2>2, <2>3
<1>6. CASE HandleConnect
  <2>1. /\ Polls("connect") /\ netState' = "CONNECTED" /\ idleState' = idleState
        /\ statusCop' = statusCop
    BY <1>6 DEF HandleConnect, Complete
  <2>2. netState = "CONNECTING"
    BY <2>1, HeadIs
  <2>. QED  BY <1>1, <2>1, <2>2 DEF AccountLogin, Authenticates
<1>7. CASE HandleAuthChallenge
  <2>1. /\ Polls("challenge")
        /\ UNCHANGED <<idleState, statusOpVars, netState, accepted>>
    BY <1>7 DEF HandleAuthChallenge
  <2>2. ~ Accepts(queue[1])
    BY <2>1, PollsQueue DEF NetTypes, Accepts
  <2>. QED  BY <1>1, <2>1, <2>2, PollsAccepted, AccountLoginKept
<1>8. CASE HandleAuthResponse
  <2>1. (\E is : Polls(is)) /\ UNCHANGED <<idleState, netState, connected>>
    BY <1>8 DEF HandleAuthResponse
  <2>2. netState \in {"CONNECTED", "DISCONNECTING"}
    <3>1. PICK is \in {"session", "admission"} : Polls(is)
      BY <1>8 DEF HandleAuthResponse
    <3>. QED  BY <3>1, HeadIs DEF NetTypes
  <2>3. CharactersAccepted
    BY <1>8, AnswerIs DEF CharactersOfSession
  <2>4. CharactersAccepted'
    BY <1>8, <2>1, <2>3, AnswerIs, PollsAccepted
  <2>5. Succeeded' => accepted'
    <3>1. IF Head(queue).code = "QUEUED" THEN ~ statusComplete'
          ELSE statusResult' = IF Head(queue).code = "other" THEN 1 ELSE 0
      BY <1>8 DEF HandleAuthResponse, Queued, Initiate, Complete
    <3>2. Head(queue).code = "other" => accepted'
      BY <1>8 DEF HandleAuthResponse
    <3>3. Succeeded' => Head(queue).code = "other"
      BY <3>1 DEF Succeeded
    <3>. QED  BY <3>2, <3>3
  <2>. QED  BY <2>1, <2>2, <2>4, <2>5 DEF AccountLogin, Authenticates
<1>9. CASE HandleCharEnum
  <2>1. /\ Polls("characters") /\ UNCHANGED <<idleState, netState, accepted>>
        /\ statusCop' = statusCop
    BY <1>9 DEF HandleCharEnum, Complete
  <2>2. /\ queue[1].is = "characters" /\ 1 \in DOMAIN queue
        /\ ~ Accepts(queue[1])
    BY <2>1, PollsQueue DEF NetTypes, Accepts
  <2>3. netState \in {"CONNECTED", "DISCONNECTING"}
    BY <2>1, HeadIs DEF NetTypes
  <2>4. CharactersAccepted => CharactersAccepted' /\ accepted
    <3>1. 1 .. (1 - 1) = {}
      OBVIOUS
    <3>2. CharactersAccepted => accepted
      BY <2>2, <3>1 DEF CharactersAccepted, AcceptedBefore
    <3>. QED  BY <2>1, <2>2, <3>2, PollsAccepted
  <2>. QED  BY <1>1, <2>1, <2>3, <2>4 DEF AccountLogin, Authenticates
<1>10. CASE HandleDisconnect
  <2>1. ~ connected
    BY <1>10, HeadIs DEF HandleDisconnect
  <2>2. idleState' # "ACCOUNT_LOGIN" \/ StartConnect
    BY <1>10 DEF HandleDisconnect
  <2>. QED  BY <1>2, <2>1, <2>2, StartConnectIs DEF AccountLogin, Authenticates
<1>11. CASE LoginSucceeded
  <2>1. StartConnect /\ netState' = netState
    BY <1>11 DEF LoginSucceeded, netVars
  <2>. QED  BY <2>1, StartConnectIs DEF AccountLogin, Authenticates
<1>12. CASE AccountLoginSucceeded
  <2>1. CASE main.op = "CONNECT" /\ ~ raced'
    <3>1. /\ At("polled") /\ idleState = "ACCOUNT_LOGIN" /\ statusComplete
          /\ main.result = 1 /\ ~ raced
      BY <1>1, <1>12, <2>1 DEF AccountLoginSucceeded, Polled
    <3>2. statusCop = "CONNECT" /\ statusResult = 1
      BY <2>1, <3>1 DEF PolledAsIs, At
    <3>3. netState \in {"CONNECTED", "DISCONNECTING"}
      BY <3>1, <3>2 DEF AccountLogin, Succeeded
    <3>4. CharactersAccepted
      <4>1. netState = "DISCONNECTING" =>
              \A i \in DOMAIN queue : queue[i].is = "disconnect"
        BY <3>1 DEF HandledBeforePoll, At
      <4>. QED  BY <4>1 DEF CharactersOfSession, CharactersAccepted
    <3>5. UNCHANGED <<netState, queue, accepted>> /\ ~ statusComplete'
      BY <1>12, <2>1 DEF AccountLoginSucceeded, Initiate, netVars
    <3>. QED  BY <1>3, <3>3, <3>4, <3>5 DEF AccountLogin, Authenticates, Succeeded,
      StatusTypes
  <2>2. CASE main.op # "CONNECT"
    BY <1>2, <1>12, <2>2 DEF AccountLoginSucceeded
  <2>3. CASE raced'
    BY <2>3 DEF AccountLogin
  <2>. QED  BY <2>1, <2>2, <2>3
<1>13. CASE LoginFailed \/ AccountLoginFailed \/ CharacterListCancelled
              \/ ListDone \/ CharacterLogin
  BY <1>2, <1>13 DEF LoginFailed, AccountLoginFailed, CharacterListCancelled,
    ListDone, CharacterLogin, AskRealms
<1>14. CASE NextPart \/ PollStatus \/ PolledNothing \/ CheckVersions
              \/ Handshakes \/ SuspendGlue \/ Reconnects
  BY <1>4, <1>14 DEF NextPart, PollStatus, PolledNothing, CheckVersions,
    Handshakes, SuspendGlue, Reconnects, gameVars, glueVars
<1>15. CASE EnumFailed \/ Listed
  <2>1. UNCHANGED <<idleState, netState>>
    BY <1>15 DEF EnumFailed, Listed, glueVars, netVars
  <2>. QED  BY <1>15, <2>1, CompletedByWorker DEF EnumFailed, Listed
<1>16. CASE EnumRealms
  BY <1>4, <1>16 DEF EnumRealms, glueVars
<1>17. CASE Join
  <2>1. CASE netState' = netState
    <3>1. WorkerCompletes({"CONNECT"}, 0, "other") /\ idleState' = idleState
      BY <1>17, <2>1 DEF Join, MayJoin, glueVars
    <3>. QED  BY <2>1, <3>1, CompletedByWorker
  <2>2. CASE netState' # netState
    <3>1. netState = "INITIALIZED" /\ UNCHANGED <<idleState, statusOpVars>>
      BY <1>17, <2>2 DEF Join, MayJoin, glueVars
    <3>. QED  BY <1>1, <3>1 DEF AccountLogin, Authenticates, Succeeded, statusOpVars
  <2>. QED  BY <2>1, <2>2
<1>18. CASE Game \/ GameCantConnect
  <2>1. UNCHANGED <<idleState, statusOpVars, netState, accepted>>
    BY <1>18 DEF Game, GameConnected, GameDisconnected, GameSends, Tells,
      GameCantConnect, glueVars
  <2>2. CharactersAccepted => CharactersAccepted'
    <3>1. CASE GameConnected
      BY <3>1, TellsAccepted DEF GameConnected, Events
    <3>2. CASE GameDisconnected
      BY <3>2, TellsAccepted DEF GameDisconnected, Events
    <3>3. CASE GameSends
      BY <3>3, SendsIs, TellsAccepted
    <3>4. CASE GameCantConnect
      BY <1>3, <3>4 DEF GameCantConnect
    <3>. QED  BY <1>18, <3>1, <3>2, <3>3, <3>4 DEF Game
  <2>. QED  BY <1>1, <2>1, <2>2, AccountLoginKept
<1>19. CASE UNCHANGED Glue
  BY <1>4, <1>19 DEF Glue, gameVars, glueVars
<1>. QED  BY <1>5, <1>6, <1>7, <1>8, <1>9, <1>10, <1>11, <1>12, <1>13, <1>14,
           <1>15, <1>16, <1>17, <1>18, <1>19, Steps DEF MainLoop, Realms

----------------------------------------------------------------------------
(* The logins.                                                             *)

\* What happens to the login of a callback, or of the timer.
Connects(l) ==
    /\ WCConnected(l)
    /\ stream[l] = "connecting" /\ stream'[l] = "open"
    /\ link'[l] = "CONNECTED" /\ loggedOn'[l]
    /\ asked'[l] = asked[l] /\ password'[l] = password[l]
    /\ logons'[l] = logons[l] /\ proved'[l] = proved[l]

CannotConnect(l) ==
    /\ stream[l] = "connecting" /\ stream'[l] = "failed"
    /\ link'[l] = link[l] /\ loggedOn'[l] = loggedOn[l]
    /\ asked'[l] = asked[l] /\ password'[l] = password[l]
    /\ logons'[l] = logons[l] /\ proved'[l] = proved[l]

Closes(l) ==
    /\ stream[l] = "closing" /\ stream'[l] = "closed"
    /\ link'[l] = "NONE" /\ loggedOn'[l] = loggedOn[l]
    /\ asked'[l] = <<>> /\ password'[l] = password[l]
    /\ logons'[l] = logons[l] /\ proved'[l] = proved[l]

\* The timer asks, and takes the password.
Calls(l) ==
    /\ Call(l)
    /\ link[l] = "CONNECTED" /\ link'[l] = "AUTH_CHALLENGE"
    /\ stream'[l] = stream[l] /\ loggedOn'[l] = loggedOn[l]
    /\ stream[l] \notin {"open", "closing"} => asked'[l] = asked[l]
    /\ proved'[l] = proved[l]
    /\ \/ password'[l] = password[l] /\ logons'[l] = logons[l]
       \/ /\ password[l] /\ ~ password'[l]
          /\ logons'[l] = IF logons[l] < 2 THEN logons[l] + 1 ELSE logons[l]

\* An answer is read, or the stream is closed.
Serves(l) ==
    /\ stream[l] = "open" /\ stream'[l] \in {"open", "closing"}
    /\ loggedOn'[l] = loggedOn[l] /\ password'[l] = password[l]
    /\ logons'[l] = logons[l]
    /\ \/ link'[l] = link[l] /\ proved'[l] = proved[l]
       \/ /\ link'[l] \in {"CONNECT_VERSION", "CONNECTED"} /\ Asks(l, "challenge")
          /\ proved'[l] = proved[l]
       \/ /\ link'[l] = "AUTHENTICATED" /\ Asks(l, "proof") /\ proved'[l]
          /\ isReconnect[l] => stream'[l] = "closing"
       \/ /\ link'[l] = "CONNECTED" /\ Asks(l, "proof") /\ proved'[l] = proved[l]
       \/ /\ link'[l] = "RECONNECT_VERSION" /\ Asks(l, "reconnectChallenge")
          /\ proved'[l] = proved[l]
       \/ /\ link'[l] = IF proved[l] THEN "AUTHENTICATED" ELSE "CONNECTED"
          /\ Asks(l, "reconnectProof") /\ proved'[l] = proved[l]

LEMMA LinkActsAt ==
    ASSUME GruntTypeOK, NEW l \in Logins, LinkActs(l)
    PROVE  Connects(l) \/ CannotConnect(l) \/ Closes(l) \/ Calls(l) \/ Serves(l)
<1>1. LinkTypes
  BY GruntTypesAre
<1>2. CASE WCConnected(l)
  BY <1>1, <1>2 DEF WCConnected, SetState, Connects, LinkTypes
<1>3. CASE WCCantConnect(l)
  BY <1>1, <1>3 DEF WCCantConnect, CannotConnect, LinkTypes
<1>4. CASE WCDisconnected(l)
  <2>1. asked'[l] = <<>>
    BY <1>4, AskedStep
  <2>. QED  BY <1>1, <1>4, <2>1 DEF WCDisconnected, SetState, Closes, LinkTypes
<1>5. CASE Call(l)
  <2>1. /\ link[l] = "CONNECTED" /\ link'[l] = "AUTH_CHALLENGE"
        /\ UNCHANGED <<stream, loggedOn, proved>>
    BY <1>1, <1>5 DEF Call, SetState, LinkTypes
  <2>2. \/ UNCHANGED <<password, logons>>
        \/ /\ password[l] /\ password' = [password EXCEPT ![l] = FALSE]
           /\ logons' = [logons EXCEPT ![l] = IF @ < 2 THEN @ + 1 ELSE @]
    BY <1>5 DEF Call, Forgets
  <2>3. \/ password'[l] = password[l] /\ logons'[l] = logons[l]
        \/ /\ password[l] /\ ~ password'[l]
           /\ logons'[l] = IF logons[l] < 2 THEN logons[l] + 1 ELSE logons[l]
    BY <1>1, <2>2 DEF LinkTypes
  <2>4. stream[l] \notin {"open", "closing"} => asked'[l] = asked[l]
    BY AskedStep
  <2>. QED  BY <1>5, <2>1, <2>3, <2>4 DEF Calls
<1>6. CASE BadAnswer(l) \/ IgnoredLogonProof(l) \/ ServerCloses(l) \/ CmdRealmList(l)
  <2>1. stream[l] = "open" /\ UNCHANGED <<link, loggedOn, password, logons, proved>>
    BY <1>6 DEF BadAnswer, IgnoredLogonProof, ServerCloses, CmdRealmList, Answers
  <2>2. stream' = stream \/ stream' = [stream EXCEPT ![l] = "closing"]
    BY <1>6 DEF BadAnswer, IgnoredLogonProof, ServerCloses, CmdRealmList, Drop
  <2>3. stream'[l] \in {"open", "closing"}
    BY <1>1, <2>1, <2>2 DEF LinkTypes
  <2>. QED  BY <2>1, <2>3 DEF Serves
<1>7. ASSUME NEW state, LogonResult(l, state)
      PROVE  \/ stream' = stream /\ ~ isReconnect[l]
             \/ stream' = [stream EXCEPT ![l] = "closing"]
             \/ stream' = stream /\ stream[l] # "open"
  BY <1>7 DEF LogonResult, Drop
<1>8. CASE CmdAuthLogonChallenge(l)
  <2>1. /\ Asks(l, "challenge") /\ stream[l] = "open"
        /\ UNCHANGED <<loggedOn, password, logons, proved>>
    BY <1>8, AnswersAsked DEF CmdAuthLogonChallenge
  <2>2. /\ \/ link' = [link EXCEPT ![l] = "CONNECT_VERSION"]
           \/ link' = [link EXCEPT ![l] = "CONNECTED"]
        /\ stream' = stream \/ stream' = [stream EXCEPT ![l] = "closing"]
    BY <1>7, <1>8 DEF CmdAuthLogonChallenge, SetState
  <2>3. link'[l] \in {"CONNECT_VERSION", "CONNECTED"} /\ stream'[l] \in {"open", "closing"}
    BY <1>1, <2>1, <2>2 DEF LinkTypes
  <2>. QED  BY <2>1, <2>3 DEF Serves
<1>9. CASE CmdAuthLogonProof(l)
  <2>1. /\ Asks(l, "proof") /\ stream[l] = "open"
        /\ UNCHANGED <<loggedOn, password, logons>>
    BY <1>9, AnswersAsked DEF CmdAuthLogonProof
  <2>2. /\ \/ /\ link' = [link EXCEPT ![l] = "AUTHENTICATED"]
              /\ proved' = [proved EXCEPT ![l] = TRUE]
           \/ link' = [link EXCEPT ![l] = "CONNECTED"] /\ proved' = proved
        /\ \/ stream' = stream /\ ~ isReconnect[l]
           \/ stream' = [stream EXCEPT ![l] = "closing"]
    BY <1>7, <1>9, <2>1 DEF CmdAuthLogonProof, SetState, VerifiedState, UnverifiedState
  <2>3. /\ stream'[l] \in {"open", "closing"}
        /\ isReconnect[l] => stream'[l] = "closing"
        /\ \/ link'[l] = "AUTHENTICATED" /\ proved'[l]
           \/ (link'[l] = "CONNECTED" /\ proved'[l] = proved[l])
    BY <1>1, <2>1, <2>2 DEF LinkTypes
  <2>. QED  BY <2>1, <2>3 DEF Serves
<1>10. CASE CmdAuthReconnectChallenge(l)
  <2>1. /\ Asks(l, "reconnectChallenge") /\ stream[l] = "open"
        /\ UNCHANGED <<stream, loggedOn, password, logons, proved>>
        /\ link' = [link EXCEPT ![l] = "RECONNECT_VERSION"]
    BY <1>10, AnswersAsked DEF CmdAuthReconnectChallenge, SetState
  <2>2. link'[l] = "RECONNECT_VERSION"
    BY <1>1, <2>1 DEF LinkTypes
  <2>. QED  BY <2>1, <2>2 DEF Serves
<1>11. CASE CmdAuthReconnectProof(l)
  <2>1. /\ Asks(l, "reconnectProof") /\ stream[l] = "open"
        /\ UNCHANGED <<stream, loggedOn, password, logons, proved>>
        /\ link' = [link EXCEPT ![l] = IF proved[l] THEN "AUTHENTICATED" ELSE "CONNECTED"]
    BY <1>11, AnswersAsked DEF CmdAuthReconnectProof, SetState
  <2>2. link'[l] = IF proved[l] THEN "AUTHENTICATED" ELSE "CONNECTED"
    BY <1>1, <2>1 DEF LinkTypes
  <2>. QED  BY <2>1, <2>2 DEF Serves
<1>. QED  BY <1>2, <1>3, <1>4, <1>5, <1>6, <1>8, <1>9, <1>10, <1>11 DEF LinkActs

\* What else may happen to a login in a step.
Stays(k) ==
    /\ link'[k] = link[k] /\ stream'[k] = stream[k] /\ asked'[k] = asked[k]
    /\ loggedOn'[k] = loggedOn[k] /\ isReconnect'[k] = isReconnect[k]
    /\ password'[k] = password[k] /\ logons'[k] = logons[k]
    /\ proved'[k] = proved[k]

\* It is started,
Begins(k) ==
    /\ k = login + 1 /\ login' = k
    /\ link'[k] = "CONNECTING" /\ stream'[k] = "connecting" /\ asked'[k] = asked[k]
    /\ loggedOn'[k] = loggedOn[k] /\ isReconnect'[k] = isReconnect[k]
    /\ logons'[k] = logons[k] /\ proved'[k] = proved[k]

\* is logged off,
IsLoggedOff(k) ==
    /\ k = login /\ login' = login /\ stream[k] = "open" /\ stream'[k] = "closing"
    /\ link'[k] = link[k] /\ asked'[k] = asked[k]
    /\ loggedOn'[k] = loggedOn[k] /\ isReconnect'[k] = isReconnect[k]
    /\ password'[k] = password[k] /\ logons'[k] = logons[k]
    /\ proved'[k] = proved[k]

\* is asked for realms or a proof by the main thread,
IsAsked(k) ==
    /\ k = login /\ login' = login /\ stream[k] = "open"
    /\ link'[k] = link[k] /\ stream'[k] = stream[k]
    /\ loggedOn'[k] = loggedOn[k] /\ isReconnect'[k] = isReconnect[k]
    /\ password'[k] = password[k] /\ logons'[k] = logons[k]
    /\ proved'[k] = proved[k]

\* or is told to reconnect.
IsReconnected(k) ==
    /\ At("reconnect") /\ main'.at = "input"
    /\ k = login /\ login' = login /\ isReconnect'[k]
    /\ \/ link[k] = "NONE" /\ link'[k] = "CONNECTING" /\ stream'[k] = "connecting"
       \/ link'[k] = link[k] /\ stream'[k] = stream[k]
    /\ asked'[k] = asked[k] /\ loggedOn'[k] = loggedOn[k]
    /\ password'[k] = password[k] /\ logons'[k] = logons[k]
    /\ proved'[k] = proved[k]

IsServed(k) ==
    /\ login' = login /\ isReconnect'[k] = isReconnect[k]
    /\ Connects(k) \/ CannotConnect(k) \/ Closes(k) \/ Calls(k) \/ Serves(k)

\* Where a question comes from.
NewQuestion(k, question) ==
    \/ LinkActs(k) /\ AsksNext(k, question)
    \/ k = login /\ question = "realms" /\ AsksForRealms
    \/ k = login /\ question \in {"proof", "reconnectProof"} /\ AsksToProve(question)

LEMMA LoginStep ==
    ASSUME GruntTypeOK, NoneBegun, Connection, Next
    PROVE  /\ login' \in {login, login + 1}
           /\ \A k \in Logins :
                /\ Stays(k) \/ Begins(k) \/ IsLoggedOff(k) \/ IsAsked(k)
                   \/ IsReconnected(k) \/ IsServed(k)
                /\ \A question : Asks(k, question)' =>
                    Asks(k, question) \/ NewQuestion(k, question)
<1>. DEFINE Goal ==
         /\ login' \in {login, login + 1}
         /\ \A k \in Logins :
              /\ Stays(k) \/ Begins(k) \/ IsLoggedOff(k) \/ IsAsked(k)
                 \/ IsReconnected(k) \/ IsServed(k)
              /\ \A question : Asks(k, question)' =>
                  Asks(k, question) \/ NewQuestion(k, question)
<1>1. LinkTypes /\ AskedTypes
  BY GruntTypesAre
<1>2. login # 0 => login \in Logins
  BY <1>1 DEF LinkTypes, Logins
<1>3. asked' = asked => \A k \in Logins : \A question : Asks(k, question)' => Asks(k, question)
  BY DEF Asks
<1>4. CASE UNCHANGED <<login, linkVars>>
  <2>1. /\ login' = login /\ asked' = asked
        /\ \A k \in Logins : Stays(k)
    BY <1>4 DEF linkVars, Stays
  <2>. QED  BY <1>3, <2>1
<1>5. ASSUME NEW l \in Logins, LinkActs(l)
      PROVE  Goal
  <2>1. /\ login' = login /\ isReconnect' = isReconnect
        /\ \A k \in Logins : k # l => Stays(k)
    BY <1>5, LinkOthers, AskedStep DEF Stays
  <2>2. IsServed(l)
    BY <1>5, <2>1, LinkActsAt DEF IsServed
  <2>3. \A k \in Logins : \A question : Asks(k, question)' =>
          Asks(k, question) \/ (k = l /\ AsksNext(l, question))
    BY <1>5, AskedStep
  <2>. QED  BY <1>5, <2>1, <2>2, <2>3 DEF NewQuestion
<1>6. CASE Logon
  <2>1. login + 1 \in Logins
    BY <1>1, <1>6, LoginsAssumption DEF Logon, LinkTypes, Logins
  <2>2. /\ login' = login + 1
        /\ password' = [password EXCEPT ![login + 1] = TRUE]
        /\ link' = [link EXCEPT ![login + 1] = "CONNECTING"]
        /\ stream' = [stream EXCEPT ![login + 1] = "connecting"]
        /\ UNCHANGED <<asked, loggedOn, isReconnect, logons, proved>>
    BY <1>6 DEF Logon, SetState
  <2>3. Begins(login + 1)
    BY <1>1, <2>1, <2>2 DEF LinkTypes, Begins
  <2>4. \A k \in Logins : k # login + 1 => Stays(k)
    BY <1>1, <2>2 DEF LinkTypes, Stays
  <2>. QED  BY <1>3, <2>2, <2>3, <2>4
<1>7. CASE LogsOff
  <2>1. /\ login \in Logins
        /\ UNCHANGED <<login, link, asked, loggedOn, isReconnect, password,
                       logons, proved>>
        /\ \/ stream' = stream
           \/ stream[login] = "open" /\ stream' = [stream EXCEPT ![login] = "closing"]
    BY <1>2, <1>7 DEF LogsOff, Drop
  <2>2. \A k \in Logins : Stays(k) \/ IsLoggedOff(k)
    BY <1>1, <2>1 DEF LinkTypes, Stays, IsLoggedOff
  <2>. QED  BY <1>3, <2>1, <2>2
<1>8. ASSUME NEW question \in Questions, AsksServer(question)
      PROVE  /\ login' = login
             /\ \A k \in Logins : Stays(k) \/ IsAsked(k)
             /\ \A k \in Logins : \A other : Asks(k, other)' =>
                  Asks(k, other) \/ (k = login /\ other = question)
  <2>1. /\ login \in Logins /\ Ask(login, question)
        /\ UNCHANGED <<login, link, stream, loggedOn, isReconnect, password,
                       logons, proved>>
    BY <1>2, <1>8 DEF AsksServer
  <2>2. /\ \A k \in Logins : k # login \/ stream[k] # "open" => asked'[k] = asked[k]
        /\ \A k \in Logins : \A other : Asks(k, other)' =>
             Asks(k, other) \/ (k = login /\ other = question)
    BY <2>1, AskType
  <2>3. \A k \in Logins : Stays(k) \/ IsAsked(k)
    BY <2>1, <2>2 DEF Stays, IsAsked
  <2>. QED  BY <2>1, <2>2, <2>3
<1>9. CASE AsksForRealms
  <2>1. AsksServer("realms") /\ "realms" \in Questions
    BY <1>9 DEF AsksForRealms, Questions
  <2>. QED  BY <1>8, <1>9, <2>1 DEF NewQuestion
<1>10. ASSUME NEW question \in {"proof", "reconnectProof"}, AsksToProve(question)
       PROVE  Goal
  <2>1. AsksServer(question) /\ question \in Questions
    BY <1>10 DEF AsksToProve, Questions
  <2>. QED  BY <1>8, <1>10, <2>1 DEF NewQuestion
<1>11. CASE ReconnectsLogin
  <2>1. login \in Logins /\ At("reconnect") /\ main'.at = "input"
    BY <1>2, <1>11 DEF ReconnectsLogin, NoneBegun, At
  <2>2. /\ isReconnect' = [isReconnect EXCEPT ![login] = TRUE]
        /\ \/ /\ link[login] = "NONE"
              /\ link' = [link EXCEPT ![login] = "CONNECTING"]
              /\ stream' = [stream EXCEPT ![login] = "connecting"]
           \/ link' = link /\ stream' = stream
        /\ UNCHANGED <<login, asked, loggedOn, password, logons, proved>>
    BY <1>11 DEF ReconnectsLogin, Reconnect, SetState
  <2>3. IsReconnected(login)
    BY <1>1, <2>1, <2>2 DEF LinkTypes, IsReconnected
  <2>4. \A k \in Logins : k # login => Stays(k)
    BY <1>1, <2>2 DEF LinkTypes, Stays
  <2>. QED  BY <1>3, <2>1, <2>2, <2>3, <2>4
<1>. QED  BY <1>4, <1>5, <1>6, <1>7, <1>9, <1>10, <1>11, LinkStep

LEMMA NotStartedStep ==
    ASSUME GruntTypeOK, NoneBegun, Connection, NotStarted, Next
    PROVE  NotStarted'
<1>1. login \in Nat /\ login' \in {login, login + 1}
  BY LoginStep DEF GruntTypeOK
<1>2. ASSUME NEW k \in Logins, k > login'
      PROVE  Stays(k)
  <2>1. k > login /\ k # login /\ login' # k
    BY <1>1, <1>2 DEF Logins
  <2>2. stream[k] = "none" /\ link[k] = "NONE"
    BY <2>1 DEF NotStarted
  <2>. QED  BY <2>1, <2>2, LoginStep DEF Begins, IsLoggedOff, IsAsked,
    IsReconnected, IsServed, Connects, CannotConnect, Closes, Calls, Serves
<1>3. \A k \in Logins : k > login' => k > login
  BY <1>1 DEF Logins
<1>. QED  BY <1>2, <1>3 DEF NotStarted, Stays

LEMMA OnePasswordStep ==
    ASSUME GruntTypeOK, NoneBegun, Connection, NotStarted, OnePassword, Next
    PROVE  OnePassword'
<1>1. SUFFICES ASSUME NEW k \in Logins
               PROVE  logons'[k] <= 1 /\ (password'[k] => logons'[k] = 0)
  BY DEF OnePassword
<1>2. logons[k] \in 0 .. 2 /\ login \in Nat
  BY DEF GruntTypeOK
<1>3. logons[k] <= 1 /\ (password[k] => logons[k] = 0)
  BY DEF OnePassword
<1>4. CASE Stays(k) \/ IsLoggedOff(k) \/ IsAsked(k) \/ IsReconnected(k)
  BY <1>3, <1>4 DEF Stays, IsLoggedOff, IsAsked, IsReconnected
<1>5. CASE Begins(k)
  <2>1. logons[k] = 0 /\ logons'[k] = logons[k]
    BY <1>2, <1>5 DEF Begins, NotStarted
  <2>. QED  BY <2>1
<1>6. CASE IsServed(k)
  BY <1>2, <1>3, <1>6 DEF IsServed, Connects, CannotConnect, Closes, Calls, Serves
<1>. QED  BY <1>4, <1>5, <1>6, LoginStep

LEMMA AskedOpenStep ==
    ASSUME GruntTypeOK, NoneBegun, Connection, NotStarted, AskedOpen, Next
    PROVE  AskedOpen'
<1>1. SUFFICES ASSUME NEW k \in Logins
               PROVE  /\ stream'[k] \notin {"open", "closing"} => asked'[k] = <<>>
                      /\ link'[k] = "NONE" => stream'[k] \in {"none", "closed"}
  BY DEF AskedOpen
<1>2. /\ stream[k] \notin {"open", "closing"} => asked[k] = <<>>
      /\ link[k] = "NONE" => stream[k] \in {"none", "closed"}
  BY DEF AskedOpen
<1>3. CASE Stays(k) \/ IsLoggedOff(k) \/ IsAsked(k)
  BY <1>2, <1>3 DEF Stays, IsLoggedOff, IsAsked
<1>4. CASE IsReconnected(k)
  BY <1>2, <1>4 DEF IsReconnected
<1>5. CASE Begins(k)
  <2>1. k > login
    BY <1>5 DEF Begins, GruntTypeOK
  <2>. QED  BY <1>5, <2>1 DEF Begins, NotStarted
<1>6. CASE IsServed(k)
  BY <1>2, <1>6 DEF IsServed, Connects, CannotConnect, Closes, Calls, Serves
<1>. QED  BY <1>3, <1>4, <1>5, <1>6, LoginStep

LEMMA NotLoggedOnStep ==
    ASSUME GruntTypeOK, NoneBegun, Connection, NotStarted, AskedOpen, NotLoggedOn, Next
    PROVE  NotLoggedOn'
<1>1. SUFFICES ASSUME NEW k \in Logins, ~ loggedOn'[k]
               PROVE  /\ asked'[k] = <<>> /\ ~ proved'[k]
                      /\ stream'[k] \notin {"open", "closing", "closed"}
                      /\ link'[k] \in {"NONE", "CONNECTING"}
  BY DEF NotLoggedOn
<1>2. ~ loggedOn[k] =>
        /\ asked[k] = <<>> /\ ~ proved[k]
        /\ stream[k] \notin {"open", "closing", "closed"}
        /\ link[k] \in {"NONE", "CONNECTING"}
  BY DEF NotLoggedOn
<1>3. CASE Stays(k) \/ IsLoggedOff(k) \/ IsAsked(k) \/ IsReconnected(k)
  BY <1>1, <1>2, <1>3 DEF Stays, IsLoggedOff, IsAsked, IsReconnected
<1>4. CASE Begins(k)
  BY <1>1, <1>2, <1>4 DEF Begins
<1>5. CASE IsServed(k)
  BY <1>1, <1>2, <1>5 DEF IsServed, Connects, CannotConnect, Closes, Calls, Serves
<1>. QED  BY <1>3, <1>4, <1>5, LoginStep

\* A question that leads to another one was asked.
LEMMA NextQuestions ==
    ASSUME GruntTypeOK, NEW l \in Logins, NEW question, NewQuestion(l, question)
    PROVE  /\ question = "reconnectChallenge" => isReconnect[l]
           /\ question = "challenge" => ~ isReconnect[l]
           /\ question = "proof" =>
                \/ isReconnect[l] /\ Asks(l, "challenge")
                \/ At("polled") /\ idleState = "LOGIN_SERVER_LOGIN"
           /\ question = "reconnectProof" =>
                isReconnect[l] \/ link[l] = "RECONNECT_VERSION"
           /\ question = "realms" => l = login /\ AsksForRealms
<1>1. CASE LinkActs(l) /\ AsksNext(l, question)
  <2>1. CmdAuthLogonChallenge(l) => Asks(l, "challenge")
    BY AnswersAsked DEF CmdAuthLogonChallenge
  <2>. QED  BY <1>1, <2>1 DEF AsksNext
<1>2. CASE l = login /\ question = "realms" /\ AsksForRealms
  BY <1>2
<1>3. CASE l = login /\ question \in {"proof", "reconnectProof"} /\ AsksToProve(question)
  BY <1>3 DEF AsksToProve
<1>. QED  BY <1>1, <1>2, <1>3 DEF NewQuestion

LEMMA ReconnectionStep ==
    ASSUME GruntTypeOK, NoneBegun, Connection, NotStarted, NotLoggedOn, Reconnection,
           AboutToReconnect, Next
    PROVE  Reconnection'
<1>1. SUFFICES ASSUME NEW k \in Logins
               PROVE  /\ link'[k] = "RECONNECT_VERSION" => isReconnect'[k]
                      /\ Asks(k, "reconnectChallenge")' \/ Asks(k, "reconnectProof")'
                           => isReconnect'[k]
                      /\ proved'[k] /\ isReconnect'[k] =>
                           stream'[k] \notin {"connecting", "open"}
  BY DEF Reconnection
<1>2. /\ link[k] = "RECONNECT_VERSION" => isReconnect[k]
      /\ Asks(k, "reconnectChallenge") \/ Asks(k, "reconnectProof") => isReconnect[k]
      /\ proved[k] /\ isReconnect[k] => stream[k] \notin {"connecting", "open"}
  BY DEF Reconnection
<1>3. Asks(k, "reconnectChallenge")' \/ Asks(k, "reconnectProof")' => isReconnect[k]
  <2>1. \A question : Asks(k, question)' => Asks(k, question) \/ NewQuestion(k, question)
    BY LoginStep
  <2>2. NewQuestion(k, "reconnectChallenge") => isReconnect[k]
    BY NextQuestions
  <2>3. NewQuestion(k, "reconnectProof") => isReconnect[k]
    BY <1>2, NextQuestions
  <2>. QED  BY <1>2, <2>1, <2>2, <2>3
<1>4. CASE Stays(k) \/ IsLoggedOff(k) \/ IsAsked(k)
  BY <1>2, <1>3, <1>4 DEF Stays, IsLoggedOff, IsAsked
<1>5. CASE IsReconnected(k)
  <2>1. ~ proved[k]
    BY <1>5 DEF IsReconnected, AboutToReconnect, At
  <2>. QED  BY <1>2, <1>3, <1>5, <2>1 DEF IsReconnected
<1>6. CASE Begins(k)
  <2>1. k > login
    BY <1>6 DEF Begins, GruntTypeOK
  <2>2. ~ proved[k]
    BY <2>1 DEF NotStarted
  <2>. QED  BY <1>2, <1>3, <1>6, <2>2 DEF Begins
<1>7. CASE IsServed(k)
  BY <1>2, <1>3, <1>7 DEF IsServed, Connects, CannotConnect, Closes, Calls, Serves
<1>. QED  BY <1>4, <1>5, <1>6, <1>7, LoginStep

\* Only a login that is not logged on is about to be reconnected.
LEMMA ReconnectsLater ==
    ASSUME NoneBegun, Next, main'.at = "reconnect"
    PROVE  \/ main' = main /\ login' = login
           \/ login # 0 /\ ~ loggedOn[login] /\ UNCHANGED <<login, linkVars>>
<1>1. CASE Scripts
  <2>1. CASE RequestRealmList
    BY <2>1 DEF RequestRealmList, AfterLogin, AskRealms, GoesTo, linkVars
  <2>2. CASE ~ RequestRealmList
    <3>1. main' = main /\ At("input")
      BY <1>1, <2>2 DEF Scripts, LoginServerLogin, CancelLogin, CancelOperation,
        ChangeRealm, GetCharacterList, EnterWorld, DisconnectFromServer,
        RealmListDialogCancelled, AfterLogin, Modal, Script
    <3>. QED  BY <3>1 DEF At
  <2>. QED  BY <2>1, <2>2
<1>2. CASE MainLoop
  <2>1. CASE AccountLoginFailed \/ CharacterListCancelled
    BY <2>1 DEF AccountLoginFailed, CharacterListCancelled, Polled, AskRealms,
      GoesTo, linkVars, NoneBegun
  <2>2. CASE ~ (AccountLoginFailed \/ CharacterListCancelled)
    <3>1. (main' = main /\ At("poll")) \/ main'.at # "reconnect"
      BY <1>2, <2>2 DEF MainLoop, NextPart, HandleConnect, HandleAuthChallenge,
        HandleAuthResponse, HandleCharEnum, HandleDisconnect, Polls, PollStatus,
        PolledNothing, LoginSucceeded, LoginFailed, CheckVersions, Handshakes,
        AccountLoginSucceeded, ListDone, SuspendGlue, CharacterLogin,
        Reconnects, GoesTo
    <3>. QED  BY <3>1 DEF At
  <2>. QED  BY <2>1, <2>2
<1>3. CASE Realms
  BY <1>3 DEF Realms, EnumFailed, EnumRealms, Join, Listed
<1>4. CASE Game \/ GameCantConnect
  BY <1>4 DEF Game, GameConnected, GameDisconnected, GameSends, Tells,
    GameCantConnect, gruntVars
<1>5. CASE UNCHANGED Glue /\ (GivesReport \/ ParsesRealms)
  BY <1>5 DEF Glue, GivesReport, ParsesRealms
<1>6. ASSUME NEW l \in Logins, LinkActs(l), UNCHANGED Glue
      PROVE  main' = main /\ login' = login
  BY <1>6 DEF Glue, LinkActs, WCConnected, WCCantConnect, WCDisconnected,
    CmdAuthLogonChallenge, CmdAuthLogonProof, IgnoredLogonProof,
    CmdAuthReconnectChallenge, CmdAuthReconnectProof, CmdRealmList, BadAnswer,
    ServerCloses, Call
<1>. QED  BY <1>1, <1>2, <1>3, <1>4, <1>5, <1>6, Steps

LEMMA AboutToReconnectStep ==
    ASSUME GruntTypeOK, NoneBegun, Connection, NotLoggedOn, AboutToReconnect, Next
    PROVE  AboutToReconnect'
<1>. SUFFICES ASSUME main'.at = "reconnect"
              PROVE  /\ ~ proved'[login'] /\ ~ Asks(login, "proof")'
                     /\ isReconnect'[login'] =>
                          ~ Asks(login, "challenge")' /\ link'[login'] # "CONNECT_VERSION"
  BY DEF AboutToReconnect
<1>1. CASE login # 0 /\ ~ loggedOn[login] /\ UNCHANGED <<login, linkVars>>
  <2>1. login \in Logins
    BY <1>1 DEF GruntTypeOK, Logins
  <2>2. asked[login] = <<>> /\ ~ proved[login] /\ link[login] \in {"NONE", "CONNECTING"}
    BY <1>1, <2>1 DEF NotLoggedOn
  <2>. QED  BY <1>1, <2>2, EmptyQueue DEF Asks, linkVars
<1>2. CASE main' = main /\ login' = login
  <2>1. At("reconnect") /\ login \in Logins
    BY <1>2 DEF At, NoneBegun, GruntTypeOK, Logins
  <2>2. /\ ~ proved[login] /\ ~ Asks(login, "proof")
        /\ isReconnect[login] =>
             ~ Asks(login, "challenge") /\ link[login] # "CONNECT_VERSION"
    BY <2>1 DEF AboutToReconnect, At
  <2>3. \A question : Asks(login, question)' =>
          Asks(login, question) \/ NewQuestion(login, question)
    <3>1. PICK l \in Logins : l = login
      BY <2>1
    <3>2. \A question : Asks(l, question)' => Asks(l, question) \/ NewQuestion(l, question)
      BY LoginStep
    <3>. QED  BY <1>2, <3>1, <3>2 DEF Asks
  <2>4. ~ NewQuestion(login, "proof")
    BY <2>1, <2>2, NextQuestions DEF At
  <2>5. NewQuestion(login, "challenge") => ~ isReconnect[login]
    BY <2>1, NextQuestions
  <2>6. \/ Stays(login) \/ IsLoggedOff(login) \/ IsAsked(login) \/ IsServed(login)
    <3>1. ~ Begins(login) /\ ~ IsReconnected(login)
      BY <1>2, <2>1 DEF Begins, IsReconnected, At, GruntTypeOK
    <3>. QED  BY <2>1, <3>1, LoginStep
  <2>7. /\ isReconnect'[login] = isReconnect[login]
        /\ ~ proved'[login]
        /\ isReconnect[login] => link'[login] # "CONNECT_VERSION"
    BY <2>2, <2>6 DEF Stays, IsLoggedOff, IsAsked, IsServed, Connects,
      CannotConnect, Closes, Calls, Serves
  <2>. QED  BY <1>2, <2>2, <2>3, <2>4, <2>5, <2>7
<1>. QED  BY <1>1, <1>2, ReconnectsLater

----------------------------------------------------------------------------
(* The session.                                                            *)

LEMMA NoneBegunStep ==
    ASSUME GruntTypeOK, NetTypes, NoneBegun, Connection, NotStarted, Next
    PROVE  NoneBegun'
<1>1. SUFFICES ASSUME login' = 0
               PROVE  /\ idleState' = "NONE" /\ netState' = "INITIALIZED"
                      /\ worker' = Idle /\ main'.at # "reconnect"
  BY DEF NoneBegun
<1>2. login = 0
  BY <1>1, LoginStep DEF GruntTypeOK
<1>3. /\ idleState = "NONE" /\ netState = "INITIALIZED" /\ queue = <<>> /\ conn = "none"
      /\ worker = Idle /\ main.at # "reconnect" /\ worker.at = "idle"
  BY <1>2 DEF NoneBegun, Connection, Idle
<1>4. CASE Scripts
  BY <1>1, <1>2, <1>3, <1>4 DEF Scripts, LoginServerLogin, Logon, CancelLogin,
    CancelOperation, ChangeRealm, RequestRealmList, GetCharacterList, EnterWorld,
    DisconnectFromServer, RealmListDialogCancelled, AfterLogin
<1>5. CASE MainLoop
  <2>1. CASE NextPart \/ PollStatus \/ PolledNothing \/ Handshakes
    BY <1>3, <2>1 DEF NextPart, PollStatus, PolledNothing, Handshakes, GoesTo,
      gruntVars, glueVars, gameVars, netVars
  <2>2. ~ (HandleConnect \/ HandleAuthChallenge \/ HandleAuthResponse
           \/ HandleCharEnum \/ HandleDisconnect \/ Reconnects)
    BY <1>3 DEF HandleConnect, HandleAuthChallenge, HandleAuthResponse,
      HandleCharEnum, HandleDisconnect, Polls, Reconnects, At
  <2>3. ~ (LoginSucceeded \/ LoginFailed \/ CheckVersions \/ AccountLoginFailed
           \/ AccountLoginSucceeded \/ CharacterListCancelled \/ ListDone
           \/ SuspendGlue \/ CharacterLogin)
    BY <1>3 DEF LoginSucceeded, LoginFailed, CheckVersions, AccountLoginFailed,
      AccountLoginSucceeded, CharacterListCancelled, ListDone, SuspendGlue,
      CharacterLogin, Polled
  <2>. QED  BY <1>5, <2>1, <2>2, <2>3 DEF MainLoop
<1>6. CASE Realms
  BY <1>3, <1>6 DEF Realms, EnumFailed, EnumRealms, Join, Listed
<1>7. CASE Game \/ GameCantConnect
  BY <1>3, <1>7 DEF Game, GameConnected, GameDisconnected, GameSends, Tells,
    GameCantConnect, gruntVars, glueVars
<1>8. ASSUME NEW l \in Logins
      PROVE  ~ LinkActs(l)
  <2>1. stream[l] = "none" /\ link[l] = "NONE"
    BY <1>2 DEF NotStarted, Logins
  <2>. QED  BY <2>1, LinkActsAt DEF Connects, CannotConnect, Closes, Calls, Serves
<1>9. CASE GivesReport \/ ParsesRealms
  BY <1>3, <1>9 DEF GivesReport, ParsesRealms
<1>. QED  BY <1>4, <1>5, <1>6, <1>7, <1>8, <1>9, Steps

\* What the worker does after a callback of a link.
LEMMA LinkWorker ==
    ASSUME GruntTypeOK, NEW l \in Logins, LinkActs(l)
    PROVE  \/ worker' = worker
           \/ worker' = [at |-> "enum", codes |-> <<1>>]
           \/ /\ Asks(l, "realms")
              /\ \E list, fits : worker' = [at |-> "parse", list |-> list, fits |-> fits]
           \/ \E state, locked :
                /\ worker' = [at |-> "report", by |-> l, state |-> state, locked |-> locked]
                /\ state = "AUTHENTICATED" => proved'[l]
<1>1. CASE CmdRealmList(l)
  BY <1>1, AnswersAsked DEF CmdRealmList
<1>2. CASE CmdAuthLogonProof(l)
  <2>1. proved \in [Logins -> BOOLEAN]
    BY GruntTypesAre DEF LinkTypes
  <2>2. \/ /\ proved' = [proved EXCEPT ![l] = TRUE]
           /\ \E state \in {"AUTHENTICATED", "other"} : LogonResult(l, state)
        \/ \E state \in {"FAILED", "other"} : LogonResult(l, state)
    BY <1>2 DEF CmdAuthLogonProof, LogonFails
  <2>3. PICK state : LogonResult(l, state) /\ (state = "AUTHENTICATED" => proved'[l])
    BY <2>1, <2>2
  <2>. QED  BY <2>3 DEF LogonResult, WorkerReports
<1>3. CASE CmdAuthLogonChallenge(l)
  <2>1. \/ worker' = worker
        \/ WorkerReports(l, "CHECKINGVERSIONS", FALSE)
        \/ LogonResult(l, "FAILED")
    BY <1>3 DEF CmdAuthLogonChallenge, GetVersionProof
  <2>. QED  BY <2>1 DEF LogonResult, WorkerReports
<1>4. CASE CmdAuthReconnectChallenge(l) \/ WCConnected(l)
  <2>1. \/ worker' = worker
        \/ \E state \in {"CONNECTED", "CHECKINGVERSIONS"}, locked \in BOOLEAN :
            WorkerReports(l, state, locked)
    BY <1>4 DEF CmdAuthReconnectChallenge, GetVersionProof, WCConnected
  <2>. QED  BY <2>1 DEF WorkerReports
<1>5. CASE WCCantConnect(l) \/ WCDisconnected(l) \/ IgnoredLogonProof(l)
             \/ CmdAuthReconnectProof(l) \/ BadAnswer(l) \/ ServerCloses(l) \/ Call(l)
  BY <1>5 DEF WCCantConnect, WCDisconnected, IgnoredLogonProof,
    CmdAuthReconnectProof, BadAnswer, ServerCloses, Call
<1>. QED  BY <1>1, <1>2, <1>3, <1>4, <1>5 DEF LinkActs

\* Otherwise only the worker itself changes what it does.
LEMMA WorkerStep ==
    ASSUME Next
    PROVE  \/ worker' = worker \/ Realms \/ GivesReport \/ ParsesRealms
           \/ \E l \in Logins : LinkActs(l)
<1>1. CASE Scripts
  BY <1>1 DEF Scripts, LoginServerLogin, CancelLogin, CancelOperation,
    ChangeRealm, RequestRealmList, GetCharacterList, EnterWorld,
    DisconnectFromServer, RealmListDialogCancelled, gruntVars
<1>2. CASE MainLoop
  BY <1>2 DEF MainLoop, NextPart, HandleConnect, HandleAuthChallenge,
    HandleAuthResponse, HandleCharEnum, HandleDisconnect, PollStatus,
    PolledNothing, LoginSucceeded, LoginFailed, CheckVersions, Handshakes,
    AccountLoginFailed, AccountLoginSucceeded, CharacterListCancelled, ListDone,
    SuspendGlue, CharacterLogin, Reconnects, gruntVars
<1>3. CASE Game \/ GameCantConnect
  BY <1>3 DEF Game, GameConnected, GameDisconnected, GameSends, Tells,
    GameCantConnect, gruntVars
<1>. QED  BY <1>1, <1>2, <1>3, Steps

LEMMA ProvedStays ==
    ASSUME GruntTypeOK, NoneBegun, Connection, Next, NEW k \in Logins, proved[k]
    PROVE  proved'[k]
BY LoginStep DEF Stays, Begins, IsLoggedOff, IsAsked, IsReconnected, IsServed,
  Connects, CannotConnect, Closes, Calls, Serves

LEMMA ReportsProvedStep ==
    ASSUME GruntTypeOK, NoneBegun, Connection, ReportsProved, Next
    PROVE  ReportsProved'
<1>1. SUFFICES ASSUME worker'.at = "report", worker'.state = "AUTHENTICATED"
               PROVE  proved'[worker'.by]
  BY DEF ReportsProved
<1>2. worker \in Workers
  BY DEF GruntTypeOK
<1>3. CASE worker' = worker
  <2>1. worker.by \in Logins /\ proved[worker.by]
    BY <1>1, <1>2, <1>3, WorkerFields DEF ReportsProved
  <2>. QED  BY <1>3, <2>1, ProvedStays
<1>4. ASSUME NEW l \in Logins, LinkActs(l)
      PROVE  worker' = worker \/ proved'[worker'.by]
  BY <1>1, <1>4, LinkWorker
<1>5. CASE Realms \/ GivesReport \/ ParsesRealms
  <2>1. \/ worker' = Idle
        \/ worker.at = "enum" /\ worker' = NextCode
        \/ \E at \in {"join", "listed"} : worker' = [at |-> at]
        \/ \E codes : worker' = [at |-> "enum", codes |-> codes]
    BY <1>5 DEF Realms, EnumFailed, EnumRealms, Join, Listed, GivesReport, ParsesRealms
  <2>2. worker'.at # "report"
    BY <1>2, <2>1, NextCodeIs DEF Idle
  <2>. QED  BY <1>1, <2>2
<1>. QED  BY <1>3, <1>4, <1>5, WorkerStep

\* NetClient keeps the key of a session, unless an earlier login reports.
LEMMA KeyStep ==
    ASSUME GruntTypeOK, ReportsProved, Next, ~ mixed', loginData' # "proved"
    PROVE  ~ mixed /\ loginData # "proved" /\ (authenticated' => authenticated)
<1>1. worker \in Workers
  BY DEF GruntTypeOK
<1>2. CASE UNCHANGED <<mixed, loginData, authenticated>>
  BY <1>2
<1>3. ASSUME NEW l, NEW state, Report(l, state), state # "AUTHENTICATED"
      PROVE  ~ mixed /\ loginData # "proved" /\ authenticated' = authenticated
  BY <1>3 DEF Report
<1>4. CASE Scripts
  <2>1. CASE LoginServerLogin
    BY <2>1 DEF LoginServerLogin
  <2>2. CASE ~ LoginServerLogin
    BY <1>2, <1>4, <2>2 DEF Scripts, CancelLogin, CancelOperation,
      ChangeRealm, RequestRealmList, GetCharacterList, EnterWorld,
      DisconnectFromServer, RealmListDialogCancelled, gruntVars, statusVars
  <2>. QED  BY <2>1, <2>2
<1>5. CASE MainLoop
  <2>1. CASE LoginSucceeded
    BY <2>1 DEF LoginSucceeded
  <2>2. CASE Handshakes
    BY <1>3, <2>2 DEF Handshakes
  <2>3. CASE ~ (LoginSucceeded \/ Handshakes)
    <3>1. UNCHANGED statusVars
      BY <1>5, <2>3 DEF MainLoop, NextPart, HandleConnect, HandleAuthChallenge,
        HandleAuthResponse, HandleCharEnum, HandleDisconnect, PollStatus,
        PolledNothing, LoginFailed, CheckVersions, AccountLoginFailed,
        AccountLoginSucceeded, CharacterListCancelled, ListDone, SuspendGlue,
        CharacterLogin, Reconnects, gruntVars
    <3>. QED  BY <1>2, <3>1 DEF statusVars
  <2>. QED  BY <2>1, <2>2, <2>3
<1>6. CASE Realms
  BY <1>2, <1>6 DEF Realms, EnumFailed, EnumRealms, Join, Listed, statusVars
<1>7. CASE Game \/ GameCantConnect
  BY <1>2, <1>7 DEF Game, GameConnected, GameDisconnected, GameSends, Tells,
    GameCantConnect, gruntVars, statusVars
<1>8. CASE GivesReport
  <2>1. worker.at = "report" /\ Report(worker.by, worker.state)
    BY <1>8 DEF GivesReport
  <2>2. CASE worker.state = "AUTHENTICATED"
    <3>1. worker.by = login /\ proved[worker.by]
      BY <2>1, <2>2 DEF Report, ReportsProved
    <3>2. loginData' = "proved"
      BY <2>1, <2>2, <3>1 DEF Report
    <3>. QED  BY <3>2
  <2>. QED  BY <1>3, <2>1, <2>2
<1>9. CASE ParsesRealms
  BY <1>2, <1>9 DEF ParsesRealms, statusVars
<1>10. ASSUME NEW l \in Logins, LinkActs(l)
       PROVE  ~ mixed /\ loginData # "proved" /\ (authenticated' => authenticated)
  <2>1. CASE Call(l)
    <3>1. UNCHANGED statusVars \/ Report(l, "AUTHENTICATING")
      BY <2>1 DEF Call
    <3>. QED  BY <1>2, <1>3, <3>1 DEF statusVars
  <2>2. CASE ~ Call(l)
    <3>1. UNCHANGED statusVars
      BY <1>10, <2>2 DEF LinkActs, WCConnected, WCCantConnect, WCDisconnected,
        CmdAuthLogonChallenge, CmdAuthLogonProof, IgnoredLogonProof,
        CmdAuthReconnectChallenge, CmdAuthReconnectProof, CmdRealmList, BadAnswer,
        ServerCloses
    <3>. QED  BY <1>2, <3>1 DEF statusVars
  <2>. QED  BY <2>1, <2>2
<1>. QED  BY <1>4, <1>5, <1>6, <1>7, <1>8, <1>9, <1>10, Steps

\* Nothing but a report that it succeeded takes the screen from a login whose
\* stream stays open.
LEMMA LeavesLogin ==
    ASSUME Next, idleState = "LOGIN_SERVER_LOGIN", idleState' # "LOGIN_SERVER_LOGIN"
    PROVE  authenticated \/ queue # <<>> \/ (Logoff /\ login' = login)
<1>1. CASE Scripts
  BY <1>1 DEF Scripts, LoginServerLogin, CancelLogin, CancelOperation,
    ChangeRealm, RequestRealmList, GetCharacterList, EnterWorld,
    DisconnectFromServer, RealmListDialogCancelled, AfterLogin, Modal
<1>2. CASE MainLoop
  BY <1>2 DEF MainLoop, NextPart, HandleConnect, HandleAuthChallenge,
    HandleAuthResponse, HandleCharEnum, HandleDisconnect, Polls, PollStatus,
    PolledNothing, LoginSucceeded, LoginFailed, CheckVersions, Handshakes,
    AccountLoginFailed, AccountLoginSucceeded, CharacterListCancelled, ListDone,
    SuspendGlue, CharacterLogin, Reconnects, Polled, glueVars
<1>3. CASE Realms
  BY <1>3 DEF Realms, EnumFailed, EnumRealms, Join, Listed, glueVars
<1>4. CASE Game \/ GameCantConnect
  BY <1>4 DEF Game, GameConnected, GameDisconnected, GameSends, Tells,
    GameCantConnect, glueVars
<1>5. CASE UNCHANGED Glue
  BY <1>5 DEF Glue, glueVars
<1>. QED  BY <1>1, <1>2, <1>3, <1>4, <1>5, Steps

\* Without a list of realms, the game server is not connected to.
LEMMA StaysInitialized ==
    ASSUME Connection, Next, netState = "INITIALIZED", worker.at # "join"
    PROVE  netState' = "INITIALIZED"
<1>1. conn = "none" /\ queue = <<>> /\ ~ connected
  BY DEF Connection
<1>2. CASE UNCHANGED netVars
  BY <1>2 DEF netVars
<1>3. ~ (GameConnected \/ GameCantConnect \/ GameDisconnected \/ GameSends \/ Join)
  BY <1>1 DEF GameConnected, GameCantConnect, GameDisconnected, GameSends, Join
<1>4. ~ (HandleConnect \/ HandleAuthChallenge \/ HandleAuthResponse
         \/ HandleCharEnum \/ HandleDisconnect)
  BY <1>1 DEF HandleConnect, HandleAuthChallenge, HandleAuthResponse,
    HandleCharEnum, HandleDisconnect, Polls
<1>5. CASE ChangeRealm \/ DisconnectFromServer
  BY <1>1, <1>5 DEF ChangeRealm, DisconnectFromServer, netVars
<1>6. CASE GetCharacterList
  BY <1>6 DEF GetCharacterList
<1>7. CASE AccountLoginFailed
  BY <1>2, <1>7 DEF AccountLoginFailed, GivesUp, Disconnect
<1>. QED  BY <1>2, <1>3, <1>4, <1>5, <1>6, <1>7, NetStep DEF NetActs

LEMMA NoSessionStep ==
    ASSUME GruntTypeOK, NoneBegun, Connection, NotStarted, AskedOpen, NotLoggedOn,
           Reconnection, ReportsProved, NoSession, Next
    PROVE  NoSession'
<1>. SUFFICES ASSUME ~ mixed', loginData' # "proved"
              PROVE  /\ ~ authenticated' /\ netState' = "INITIALIZED"
                     /\ worker'.at \notin {"parse", "join", "listed"}
                     /\ worker'.at = "enum" => worker'.codes = <<1>>
                     /\ \A l \in Logins : ~ Asks(l, "realms")'
                     /\ /\ login' # 0 /\ stream'[login'] = "open"
                        /\ idleState' # "LOGIN_SERVER_LOGIN"
                        => /\ link'[login'] # "AUTHENTICATED"
                           /\ Asks(login, "proof")' => isReconnect'[login']
  BY DEF NoSession
<1>1. ~ mixed /\ loginData # "proved" /\ (authenticated' => authenticated)
  BY KeyStep
<1>2. /\ ~ authenticated /\ netState = "INITIALIZED"
      /\ worker.at \notin {"parse", "join", "listed"}
      /\ worker.at = "enum" => worker.codes = <<1>>
      /\ \A l \in Logins : ~ Asks(l, "realms")
  BY <1>1 DEF NoSession
<1>3. /\ login # 0 /\ stream[login] = "open" /\ idleState # "LOGIN_SERVER_LOGIN"
      => /\ link[login] # "AUTHENTICATED"
         /\ Asks(login, "proof") => isReconnect[login]
  BY <1>1 DEF NoSession
<1>4. netState' = "INITIALIZED"
  BY <1>2, StaysInitialized
<1>5. /\ worker'.at \notin {"parse", "join", "listed"}
      /\ worker'.at = "enum" => worker'.codes = <<1>>
  <2>1. worker \in Workers
    BY DEF GruntTypeOK
  <2>2. CASE worker' = worker
    BY <1>2, <2>2
  <2>3. CASE Realms
    <3>1. EnumFailed
      <4>1. Head(<<1>>) = 1
        OBVIOUS
      <4>2. ~ (EnumRealms \/ Join \/ Listed)
        BY <1>2, <4>1 DEF EnumRealms, Join, Listed
      <4>. QED  BY <2>3, <4>2 DEF Realms
    <3>2. worker' = Idle
      BY <1>2, <2>1, <3>1, NextCodeIs DEF EnumFailed
    <3>. QED  BY <3>2 DEF Idle
  <2>4. CASE GivesReport
    BY <2>4 DEF GivesReport, Idle
  <2>5. CASE ParsesRealms
    BY <1>2, <2>5 DEF ParsesRealms
  <2>6. ASSUME NEW l \in Logins, LinkActs(l)
        PROVE  /\ worker'.at \notin {"parse", "join", "listed"}
               /\ worker'.at = "enum" => worker'.codes = <<1>>
    <3>1. ~ Asks(l, "realms")
      BY <1>2
    <3>2. CASE worker' = worker
      BY <1>2, <3>2
    <3>3. CASE worker' = [at |-> "enum", codes |-> <<1>>]
      BY <3>3
    <3>4. ASSUME NEW state, NEW locked,
                 worker' = [at |-> "report", by |-> l, state |-> state, locked |-> locked]
          PROVE  worker'.at = "report"
      BY <3>4
    <3>. QED  BY <2>6, <3>1, <3>2, <3>3, <3>4, LinkWorker
  <2>. QED  BY <2>2, <2>3, <2>4, <2>5, <2>6, WorkerStep
<1>6. ASSUME NEW l \in Logins, Asks(l, "realms")'
      PROVE  FALSE
  <2>1. NewQuestion(l, "realms")
    BY <1>2, <1>6, LoginStep
  <2>2. l = login /\ AsksForRealms
    BY <2>1, NextQuestions
  <2>3. /\ login # 0 /\ stream[login] = "open" /\ idleState # "LOGIN_SERVER_LOGIN"
        /\ link[login] = "AUTHENTICATED"
    BY <1>2, <2>2 DEF AsksForRealms, AsksRealms, AsksServer
  <2>. QED  BY <1>3, <2>3
<1>7. ASSUME login' # 0, stream'[login'] = "open", idleState' # "LOGIN_SERVER_LOGIN"
      PROVE  /\ link'[login'] # "AUTHENTICATED"
             /\ Asks(login, "proof")' => isReconnect'[login']
  <2>1. PICK k : k = login'
    OBVIOUS
  <2>2. k \in Logins
    BY <1>7, <2>1, LinkTypesStep DEF LinkTypes, Logins
  <2>3. /\ Stays(k) \/ Begins(k) \/ IsLoggedOff(k) \/ IsAsked(k)
           \/ IsReconnected(k) \/ IsServed(k)
        /\ Asks(k, "proof")' => Asks(k, "proof") \/ NewQuestion(k, "proof")
    BY <2>2, LoginStep
  <2>4. stream'[k] = "open"
    BY <1>7, <2>1
  <2>5. k = login
    <3>1. login \in Nat /\ login' \in {login, login + 1}
      BY LoginStep DEF GruntTypeOK
    <3>2. ASSUME k = login + 1
          PROVE  FALSE
      <4>1. k > login
        BY <3>1, <3>2
      <4>2. stream[k] = "none" /\ link[k] = "NONE"
        BY <2>2, <4>1 DEF NotStarted
      <4>. QED  BY <2>3, <2>4, <3>1, <3>2, <4>2 DEF Stays, Begins, IsLoggedOff,
        IsAsked, IsReconnected, IsServed, Connects, CannotConnect, Closes, Calls, Serves
    <3>. QED  BY <2>1, <3>1, <3>2
  <2>6. CASE idleState # "LOGIN_SERVER_LOGIN"
    <3>1. stream[k] = "open" =>
            /\ link[k] # "AUTHENTICATED"
            /\ Asks(k, "proof") => isReconnect[k]
      BY <1>3, <2>2, <2>5, <2>6 DEF Logins
    <3>2. stream[k] # "open" => ~ Asks(k, "proof") \/ stream[k] = "closing"
      BY <2>2, EmptyQueue DEF AskedOpen, Asks
    <3>3. NewQuestion(k, "proof") => isReconnect[k]
      <4>1. NewQuestion(k, "proof") =>
              (isReconnect[k] /\ Asks(k, "challenge"))
              \/ (At("polled") /\ idleState = "LOGIN_SERVER_LOGIN")
        BY <2>2, NextQuestions
      <4>. QED  BY <2>6, <4>1
    <3>4. /\ Asks(k, "reconnectProof") => isReconnect[k]
          /\ proved[k] /\ isReconnect[k] => stream[k] # "open"
      BY <2>2 DEF Reconnection
    <3>5. /\ link'[k] # "AUTHENTICATED"
          /\ Asks(k, "proof")' => isReconnect'[k]
      <4>1. CASE Stays(k) \/ IsAsked(k)
        BY <2>3, <2>4, <3>1, <3>3, <4>1 DEF Stays, IsAsked
      <4>2. CASE Begins(k) \/ IsLoggedOff(k)
        BY <2>4, <4>2 DEF Begins, IsLoggedOff
      <4>3. CASE IsReconnected(k)
        BY <2>4, <3>1, <4>3 DEF IsReconnected
      <4>4. CASE IsServed(k)
        <5>1. CASE Connects(k)
          BY <2>3, <3>2, <3>3, <4>4, <5>1 DEF IsServed, Connects
        <5>2. CASE CannotConnect(k) \/ Closes(k)
          BY <2>4, <5>2 DEF CannotConnect, Closes
        <5>3. CASE Calls(k)
          BY <2>3, <2>4, <3>1, <3>3, <4>4, <5>3 DEF IsServed, Calls
        <5>4. CASE Serves(k)
          BY <2>3, <2>4, <3>1, <3>3, <3>4, <4>4, <5>4 DEF IsServed, Serves
        <5>. QED  BY <4>4, <5>1, <5>2, <5>3, <5>4 DEF IsServed
      <4>. QED  BY <2>3, <4>1, <4>2, <4>3, <4>4
    <3>. QED  BY <2>1, <3>5 DEF Asks
  <2>7. CASE idleState = "LOGIN_SERVER_LOGIN"
    <3>1. queue = <<>>
      BY <1>2 DEF Connection
    <3>2. Logoff /\ login' = login
      BY <1>2, <1>7, <2>7, <3>1, LeavesLogin
    <3>3. login # 0 /\ login \in Logins
      BY <1>7, <2>2, <2>5, <3>2
    <3>4. CASE loggedOn[login]
      <4>1. stream'[login] # "open"
        <5>1. Drop(login) /\ stream \in [Logins -> {"none", "connecting", "open",
                                                    "closing", "closed", "failed"}]
          BY <3>2, <3>3, <3>4 DEF Logoff, GruntTypeOK
        <5>. QED  BY <3>3, <5>1 DEF Drop
      <4>. QED  BY <1>7, <3>2, <4>1
    <3>5. CASE ~ loggedOn[login]
      <4>1. stream[login] # "open" /\ stream' = stream
        BY <3>2, <3>3, <3>5 DEF NotLoggedOn, Logoff
      <4>. QED  BY <1>7, <3>2, <4>1
    <3>. QED  BY <3>4, <3>5
  <2>. QED  BY <2>6, <2>7
<1>. QED  BY <1>1, <1>2, <1>4, <1>5, <1>6, <1>7

----------------------------------------------------------------------------
(* The invariant, and the theorems.                                        *)

LEMMA InitTypes == GlueInit => TypeOK
<1>. SUFFICES ASSUME GlueInit
              PROVE  TypeOK
  OBVIOUS
<1>1. LinkTypes
  BY LoginsAssumption DEF GlueInit, Init, LinkTypes, LinkStates
<1>2. AskedTypes
  <2>1. <<>> \in Seq(Questions)
    OBVIOUS
  <2>. QED  BY <2>1 DEF GlueInit, Init, AskedTypes
<1>3. ReportTypes
  BY WorkerIs DEF GlueInit, Init, ReportTypes, LoginStates, RealmLists
<1>4. StatusTypes
  BY DEF GlueInit, StatusTypes, Operations, Codes
<1>5. NetTypes
  <2>1. <<>> \in Seq(Events) /\ {} \subseteq Sent
    OBVIOUS
  <2>. QED  BY <2>1 DEF GlueInit, NetTypes
<1>6. ScreenTypes
  BY MainIs DEF GlueInit, ScreenTypes, IdleStates
<1>7. HistoryTypes
  <2>1. 0 \in 0 .. MaxActs /\ 0 \in 0 .. MaxFaults
    BY MaxAssumption
  <2>. QED  BY <2>1 DEF GlueInit, HistoryTypes
<1>. QED  BY <1>1, <1>2, <1>3, <1>4, <1>5, <1>6, <1>7, TypesAre, GruntTypesAre

LEMMA InitInv == GlueInit => IInv
<1>. SUFFICES ASSUME GlueInit
              PROVE  IInv
  OBVIOUS
<1>1. TypeOK
  BY InitTypes
<1>2. OperationOfIdle
  BY DEF GlueInit, OperationOfIdle
<1>3. \A l \in Logins :
        /\ link[l] = "NONE" /\ stream[l] = "none" /\ asked[l] = <<>>
        /\ ~ loggedOn[l] /\ ~ isReconnect[l] /\ ~ password[l] /\ ~ proved[l]
        /\ logons[l] = 0
  BY DEF GlueInit, Init
<1>4. \A l \in Logins : \A question : ~ Asks(l, question)
  BY <1>3, EmptyQueue DEF Asks
<1>5. worker = Idle /\ Idle.at = "idle" /\ main.at = "input" /\ login = 0
  BY WorkerIs DEF GlueInit, Init
<1>6. NotStarted /\ OnePassword /\ AskedOpen /\ NotLoggedOn
  BY <1>3 DEF NotStarted, OnePassword, AskedOpen, NotLoggedOn
<1>7. NoneBegun
  BY <1>5 DEF GlueInit, NoneBegun
<1>8. Reconnection
  BY <1>3, <1>4 DEF Reconnection
<1>9. AboutToReconnect /\ ReportsProved
  BY <1>5 DEF AboutToReconnect, ReportsProved
<1>10. NoSession
  BY <1>4, <1>5 DEF NoSession, GlueInit, Init
<1>11. queue = <<>> /\ DOMAIN queue = {} /\ due = {} /\ conn = "none"
       /\ netState = "INITIALIZED" /\ connected = FALSE /\ accepted = FALSE
  BY EmptyQueue DEF GlueInit
<1>12. Connection
  BY <1>11 DEF Connection
<1>13. OneHandshake /\ CharactersOfSession
  BY <1>11 DEF OneHandshake, ToCome, Queues, CharactersOfSession, CharactersAccepted
<1>14. HandledBeforePoll /\ PolledAsIs
  BY <1>5 DEF HandledBeforePoll, PolledAsIs
<1>15. AccountLogin
  BY DEF GlueInit, AccountLogin, Authenticates
<1>. QED
  BY <1>1, <1>2, <1>6, <1>7, <1>8, <1>9, <1>10, <1>12, <1>13, <1>14, <1>15
  DEF IInv, LoginInv, GameInv

LEMMA InvStep == IInv /\ [Next]_vars => IInv'
<1>. SUFFICES ASSUME IInv, [Next]_vars
              PROVE  IInv'
  OBVIOUS
<1>1. CASE UNCHANGED vars
  <2>1. UNCHANGED gruntVars /\ UNCHANGED <<main, idleState, disconnectPending, reconnect,
           suspended, selectValid, statusOpVars, realmJoined, netVars, histories, scripts,
           faults>>
    BY <1>1 DEF vars, glueVars, gameVars
  <2>2. /\ UNCHANGED login /\ UNCHANGED linkVars /\ UNCHANGED statusVars
        /\ UNCHANGED <<realms, worker>>
    BY <2>1 DEF gruntVars
  <2>3. TypeOK'
    BY <2>1, <2>2 DEF IInv, TypeOK, GruntTypeOK, linkVars, statusVars, statusOpVars, netVars,
       histories
  <2>4. OperationOfIdle'
    BY <2>1 DEF IInv, OperationOfIdle, statusOpVars
  <2>5. NotStarted' /\ NoneBegun' /\ OnePassword' /\ AskedOpen' /\ NotLoggedOn'
    BY <2>1, <2>2 DEF IInv, LoginInv, NotStarted, NoneBegun, OnePassword, AskedOpen,
       NotLoggedOn, linkVars, netVars
  <2>6. Reconnection' /\ AboutToReconnect' /\ ReportsProved' /\ NoSession'
    BY <2>1, <2>2 DEF IInv, LoginInv, Reconnection, AboutToReconnect, ReportsProved,
       NoSession, Asks, linkVars, statusVars, netVars
  <2>7. Connection' /\ OneHandshake' /\ CharactersOfSession'
    BY <2>1 DEF IInv, GameInv, Connection, OneHandshake, CharactersOfSession,
       CharactersAccepted, AcceptedBefore, HandshakeQueued, ToCome, Queues, netVars
  <2>8. HandledBeforePoll' /\ PolledAsIs'
    BY <2>1 DEF IInv, GameInv, HandledBeforePoll, PolledAsIs, statusOpVars, netVars, histories
  <2>9. AccountLogin'
    BY <2>1 DEF IInv, GameInv, AccountLogin, Authenticates, Succeeded, CharactersAccepted,
       AcceptedBefore, statusOpVars, netVars, histories
  <2>. QED  BY <2>3, <2>4, <2>5, <2>6, <2>7, <2>8, <2>9 DEF IInv, LoginInv, GameInv
<1>2. CASE Next
  <2>1. GruntTypeOK /\ StatusTypes /\ NetTypes
    BY TypesAre DEF IInv
  <2>2. LoginInv'
    BY <1>2, <2>1, NotStartedStep, NoneBegunStep, OnePasswordStep, AskedOpenStep,
       NotLoggedOnStep, ReconnectionStep, AboutToReconnectStep, ReportsProvedStep,
       NoSessionStep
    DEF IInv, LoginInv, GameInv
  <2>3. GameInv'
    BY <1>2, <2>1, ConnectionStep, HandshakeStep, CharactersStep, HandledStep, PolledStep,
       AccountLoginStep
    DEF IInv, GameInv
  <2>. QED  BY <1>2, <2>2, <2>3, TypeStep, OperationStep DEF IInv, LoginInv, GameInv
<1>. QED  BY <1>1, <1>2

LEMMA Invariant == Spec => []IInv
BY InitInv, InvStep, PTL DEF Spec

\* Logins are sound: a session key is used only if both ends proved it, as long
\* as no login but the current one has reported, and no password is used for
\* two logons, whatever the timers, the scripts and the servers do.
THEOREM SessionsAreSound == Spec => []SessionsSound
<1>1. IInv => SessionsSound
  BY DEF IInv, LoginInv, SessionsSound, SessionProved, OneLogon, NoSession, OnePassword
<1>. QED  BY <1>1, Invariant, PTL

\* What CGlueMgr::Idle waits for is the operation of ClientConnection that is in
\* progress.
THEOREM WaitsForItsOperation == Spec => []OperationOfIdle
<1>1. IInv => OperationOfIdle
  BY DEF IInv
<1>. QED  BY <1>1, Invariant, PTL

\* CGlueMgr::NetDisconnectHandler is called for disconnections that the glue
\* started, and for no other.
THEOREM DisconnectsExpected == Spec => []DisconnectExpected
<1>1. IInv => DisconnectExpected
  <2>. SUFFICES ASSUME IInv,
                       conn = "closing" \/ \E i \in 1 .. Len(queue) :
                                                queue[i].is = "disconnect"
                PROVE  disconnectPending
    BY DEF DisconnectExpected
  <2>1. NetTypes /\ Connection
    BY TypesAre DEF IInv, GameInv
  <2>2. DOMAIN queue = 1 .. Len(queue)
    BY <2>1 DEF NetTypes
  <2>3. netState = "DISCONNECTING"
    <3>1. CASE conn = "closing"
      BY <2>1, <3>1 DEF NetTypes, Connection
    <3>2. CASE \E i \in 1 .. Len(queue) : queue[i].is = "disconnect"
      <4>1. PICK i \in DOMAIN queue : queue[i].is = "disconnect"
        BY <2>2, <3>2
      <4>. QED  BY <2>1, <4>1, EmptyQueue DEF NetTypes, Connection, Queues
    <3>. QED  BY <3>1, <3>2
  <2>. QED  BY <2>1, <2>3 DEF Connection
<1>. QED  BY <1>1, Invariant, PTL

\* The character screen is shown for a session that the game server accepted,
\* unless the worker ended an operation of another kind or changed the status
\* while PollStatus was reading it.
THEOREM SelectsAccepted == Spec => SelectsAfterAccept
<1>1. IInv /\ [Next]_vars
        => [~raced /\ AccountLoginSucceeded /\ main.op # "CONNECT" => accepted]_vars
  <2>. SUFFICES ASSUME IInv, ~ raced, AccountLoginSucceeded, main.op # "CONNECT"
                PROVE  accepted
    OBVIOUS
  <2>1. main.at = "polled" /\ idleState = "ACCOUNT_LOGIN" /\ statusComplete
        /\ main.result = 1
    BY DEF AccountLoginSucceeded, Polled, At
  <2>2. statusCop \in {"AUTHENTICATE", "WAIT_QUEUE"} /\ statusResult = 1
    BY <2>1 DEF IInv, GameInv, PolledAsIs, OperationOfIdle
  <2>. QED  BY <2>1, <2>2 DEF IInv, GameInv, AccountLogin, Authenticates, Succeeded
<1>. QED  BY <1>1, Invariant, PTL DEF Spec, SelectsAfterAccept

=============================================================================
