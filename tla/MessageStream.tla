----------------------------- MODULE MessageStream -----------------------------
(***************************************************************************)
(* The bytes of the game connection: WowConnection::DoMessageReads, which  *)
(* cuts what the server sends into messages, and the encryption that       *)
(* NetClient::Send switches on after its first message.  A message has a   *)
(* header with the size of its payload, of 2 bytes or, when it is large,   *)
(* of 3; encrypted are the header and the first bytes of the payload.      *)
(*                                                                         *)
(* The network thread reads with m_lock held, which it leaves while it     *)
(* hands a message over.  A byte is known by its message and its place in  *)
(* it, and by how far the server's cipher had been used before the message.*)
(* The bytes from the client to the server are left out but for the cipher *)
(* of each message.                                                        *)
(***************************************************************************)
EXTENDS Integers, Sequences, FiniteSets, SequencesExt, FiniteSetsExt

CONSTANTS
    Payloads,       \* sizes of payloads
    LargeFrom,      \* a payload of this size has a header of 3 bytes: 2^15
    FirstSize,      \* the size of the read buffer at first: 1024
    SizeLimit,      \* and the size it may not exceed: 32000000
    Opcode,         \* bytes of a payload that are encrypted: 2
    MaxMessages,    \* bound: messages of the server on a connection
    MaxSends,       \* bound: messages of the client on a connection
    MaxConnects     \* bound: connections, one after the other

Plain == -1
HeaderSize(payload) == IF payload >= LargeFrom THEN 3 ELSE 2
Size(payload) == HeaderSize(payload) + payload

ASSUME MessageStreamAssumption ==
    /\ Payloads \subseteq Nat /\ Payloads # {}
    /\ Opcode \in Nat \ {0} /\ \A p \in Payloads : p >= Opcode
    /\ LargeFrom \in Nat /\ SizeLimit \in Nat /\ FirstSize \in 2..SizeLimit
    /\ \A p \in Payloads : 2 * Size(p) <= SizeLimit
    /\ MaxMessages \in Nat /\ MaxSends \in Nat /\ MaxConnects \in Nat \ {0}

VARIABLES
    wire,       \* the bytes that the server sent and recv has not returned
    readBuffer, \* the first m_readBytes bytes of m_readBuffer
    bufferSize, \* m_readBufferSize
    worker,     \* "waits", "reads", "delivers", or "lost" when what it reads
                \* is not what was sent
    encrypt,    \* m_encrypt
    receiveKey, \* how far m_receiveKey and m_sendKey have been used
    sendKey,
    sender,     \* where the main thread is in NetClient::Send
    toServer,   \* the cipher of each message of the client under way
    peer,       \* the server: whether it encrypts, its keys, what it sent
    link,       \* the number of this connection, and whether it is up
    delivered,  \* how many messages were handed over
    mishaps     \* history: what the code does not provide for

cipherVars == <<encrypt, receiveKey, sendKey>>
readVars == <<readBuffer, bufferSize, worker>>
streamVars == <<wire, readVars, cipherVars, sender, toServer, peer, link,
                delivered, mishaps>>

Byte == [id : 1..MaxMessages, payload : Payloads, place : Nat \ {0},
         key : Nat \cup {Plain}]

(* The bytes of a message that are enciphered, and where in the cipher a   *)
(* byte is, if it is.                                                      *)
Ciphered(payload) == HeaderSize(payload) + Opcode
Cipher(b) ==
    IF b.key # Plain /\ b.place <= Ciphered(b.payload) THEN b.key + b.place - 1 ELSE Plain

-----------------------------------------------------------------------------
(* DoMessageReads. *)

(* The header's size, which is taken to be 2 until as many bytes are there, *)
(* and the size of the message once the header is, or -1.                  *)
ReadHeader == IF Len(readBuffer) < 2 THEN 2 ELSE HeaderSize(readBuffer[1].payload)
SizeKnown ==
    IF Len(readBuffer) < 2 \/ Len(readBuffer) < ReadHeader THEN -1
    ELSE Size(readBuffer[1].payload)

(* Mutant: the buffer grows when it would overflow, not when it is full. *)
FullIsEnough(n) == IF n > bufferSize THEN 2 * bufferSize ELSE bufferSize
Grown(n) == IF n >= bufferSize THEN 2 * bufferSize ELSE bufferSize

(* Mutant: the rest of the message, whatever room there is. *)
BytesMissing ==
    IF SizeKnown >= 0 THEN SizeKnown - Len(readBuffer) ELSE ReadHeader - Len(readBuffer)
BytesToRead ==
    IF SizeKnown >= 0 THEN Min({SizeKnown, Grown(Len(readBuffer))}) - Len(readBuffer)
    ELSE ReadHeader - Len(readBuffer)

(* Mutant: the part of the payload is that of the client's messages. *)
DecryptsMore(n) ==
    IF encrypt THEN Min({n, Max({0, ReadHeader + 2 * Opcode - Len(readBuffer)})}) ELSE 0
(* How many of n new bytes are decrypted. *)
Decrypts(n) ==
    IF encrypt THEN Min({n, Max({0, ReadHeader + Opcode - Len(readBuffer)})}) ELSE 0

(* Mutant: the header is not counted. *)
WholePayload(n) == SizeKnown >= 0 /\ Len(readBuffer) + n >= SizeKnown - ReadHeader
Whole(n) == SizeKnown >= 0 /\ Len(readBuffer) + n >= SizeKnown

(* Byte i of the new ones is deciphered as it was enciphered, and is the   *)
(* one after those in the buffer.                                          *)
Legible(new, i) ==
    LET n == Len(readBuffer) + i
        first == IF readBuffer = <<>> THEN new[1] ELSE readBuffer[1]
    IN  /\ Cipher(new[i]) = IF i <= Decrypts(Len(new)) THEN receiveKey + i - 1 ELSE Plain
        /\ new[i].place = n /\ new[i].id = first.id /\ new[i].payload = first.payload

(* The worker wakes when bytes can be read, and takes m_lock. *)
BeginReads ==
    /\ worker = "waits" /\ link.up /\ wire # <<>>
    /\ worker' = "reads"
    /\ UNCHANGED <<wire, readBuffer, bufferSize, cipherVars, sender, toServer, peer,
                   link, delivered, mishaps>>

(* One turn of the loop in which recv returns n bytes, and the test for a  *)
(* whole message after it.                                                 *)
Receive ==
    /\ worker = "reads" /\ wire # <<>>
    /\ \E n \in 1..Min({BytesToRead, Len(wire)}) :
        LET new == SubSeq(wire, 1, n)
        IN  /\ wire' = SubSeq(wire, n + 1, Len(wire))
            /\ receiveKey' = receiveKey + Decrypts(n)
            /\ IF \A i \in 1..n : Legible(new, i)
               THEN /\ readBuffer' = readBuffer \o new
                    /\ worker' = IF Whole(n) THEN "delivers" ELSE "reads"
               ELSE /\ worker' = "lost"
                    /\ UNCHANGED readBuffer
            /\ mishaps' = mishaps \cup
                {o \in {"raced"} : ~encrypt /\ \E i \in 1..n : Cipher(new[i]) # Plain}
    /\ bufferSize' = Grown(Len(readBuffer))
    /\ UNCHANGED <<encrypt, sendKey, sender, toServer, peer, link, delivered>>

(* WCMessageReady, called without m_lock; then the buffer is empty. *)
WCMessageReady ==
    /\ worker = "delivers"
    /\ delivered' = delivered + 1
    /\ readBuffer' = <<>>
    /\ worker' = "reads"
    /\ UNCHANGED <<wire, bufferSize, cipherVars, sender, toServer, peer, link, mishaps>>

(* recv finds nothing: what was sent has not arrived. *)
EndReads ==
    /\ worker = "reads"
    /\ worker' = "waits"
    /\ bufferSize' = Grown(Len(readBuffer))
    /\ UNCHANGED <<wire, readBuffer, cipherVars, sender, toServer, peer, link,
                   delivered, mishaps>>

Locked == worker = "reads"

-----------------------------------------------------------------------------
(* The main thread. *)

(* Mutant: the message is sent with encryption on, the first one too. *)
AlwaysCiphered == sendKey
SendCipher == IF encrypt THEN sendKey ELSE Plain

(* NetClient::Send, once the server's challenge has been handled. *)
Send ==
    /\ sender = "none" /\ link.up /\ delivered > 0 /\ ~Locked
    /\ link.sends < MaxSends
    /\ link' = [link EXCEPT !.sends = @ + 1]
    /\ toServer' = Append(toServer, SendCipher)
    /\ sendKey' = IF encrypt THEN sendKey + 1 ELSE sendKey
    /\ sender' = IF encrypt THEN "none" ELSE "sent"
    /\ UNCHANGED <<wire, readVars, encrypt, receiveKey, peer, delivered, mishaps>>

(* EnableEncryption sets the keys without m_lock, *)
SetEncryptionKey ==
    /\ sender = "sent"
    /\ sender' = "keyed"
    /\ receiveKey' = 0 /\ sendKey' = 0
    /\ UNCHANGED <<wire, readVars, encrypt, toServer, peer, link, delivered, mishaps>>

(* and sets them again with it. *)
SetEncryption ==
    /\ sender = "keyed" /\ ~Locked
    /\ sender' = "none"
    /\ encrypt' = TRUE /\ receiveKey' = 0 /\ sendKey' = 0
    /\ UNCHANGED <<wire, readVars, toServer, peer, link, delivered, mishaps>>

(* The connection is closed, by the worker when it waits. *)
Disconnect ==
    /\ link.up /\ sender = "none" /\ worker \in {"waits", "lost"}
    /\ link' = [link EXCEPT !.up = FALSE]
    /\ wire' = <<>> /\ toServer' = <<>>
    /\ UNCHANGED <<readVars, cipherVars, sender, peer, delivered, mishaps>>

(* NetClient::Connect on the same object: encryption is off, the keys are  *)
(* as before the first use; what was read of a message stays.              *)
Connect ==
    /\ ~link.up /\ link.number < MaxConnects
    /\ link' = [number |-> link.number + 1, up |-> TRUE, sends |-> 0]
    /\ encrypt' = FALSE /\ receiveKey' = 0 /\ sendKey' = 0
    /\ worker' = "waits" /\ delivered' = 0
    /\ peer' = [encrypts |-> FALSE, receives |-> 0, cipher |-> 0, sent |-> 0]
    /\ mishaps' = {o \in {"leftover"} : readBuffer # <<>>}
    /\ UNCHANGED <<wire, readBuffer, bufferSize, sender, toServer>>

-----------------------------------------------------------------------------
(* The server: a challenge, and more once it has the client's answer. *)

ServerSends ==
    /\ link.up /\ peer.sent < MaxMessages
    /\ peer.encrypts \/ peer.sent = 0
    /\ \E p \in Payloads :
        /\ wire' = wire \o
                [i \in 1..Size(p) |-> [id |-> peer.sent + 1, payload |-> p, place |-> i,
                    key |-> IF peer.encrypts THEN peer.cipher ELSE Plain]]
        /\ peer' = [peer EXCEPT !.sent = @ + 1,
                        !.cipher = IF peer.encrypts THEN @ + Ciphered(p) ELSE @]
    /\ UNCHANGED <<readVars, cipherVars, sender, toServer, link, delivered, mishaps>>

ServerReceives ==
    /\ toServer # <<>>
    /\ toServer' = Tail(toServer)
    /\ peer' = [peer EXCEPT !.encrypts = TRUE,
                            !.receives = IF peer.encrypts THEN @ + 1 ELSE @]
    /\ UNCHANGED <<wire, readVars, cipherVars, sender, link, delivered, mishaps>>

StreamInit ==
    /\ wire = <<>> /\ readBuffer = <<>> /\ bufferSize = FirstSize /\ worker = "waits"
    /\ encrypt = FALSE /\ receiveKey = 0 /\ sendKey = 0
    /\ sender = "none" /\ toServer = <<>>
    /\ peer = [encrypts |-> FALSE, receives |-> 0, cipher |-> 0, sent |-> 0]
    /\ link = [number |-> 1, up |-> TRUE, sends |-> 0]
    /\ delivered = 0 /\ mishaps = {}

StreamNext ==
    \/ BeginReads \/ Receive \/ WCMessageReady \/ EndReads
    \/ Send \/ SetEncryptionKey \/ SetEncryption \/ Disconnect \/ Connect
    \/ ServerSends \/ ServerReceives

StreamSpec == StreamInit /\ [][StreamNext]_streamVars

-----------------------------------------------------------------------------
(* Properties. *)

(* The members have their types, and the buffer holds what was read. *)
StreamTypeOK ==
    /\ wire \in Seq(Byte) /\ readBuffer \in Seq(Byte)
    /\ bufferSize \in FirstSize..SizeLimit /\ Len(readBuffer) <= bufferSize
    /\ worker \in {"waits", "reads", "delivers", "lost"}
    /\ encrypt \in BOOLEAN /\ receiveKey \in Nat /\ sendKey \in Nat
    /\ sender \in {"none", "sent", "keyed"}
    /\ toServer \in Seq(Nat \cup {Plain})
    /\ peer \in [encrypts : BOOLEAN, receives : Nat, cipher : Nat, sent : 0..MaxMessages]
    /\ link \in [number : 1..MaxConnects, up : BOOLEAN, sends : 0..MaxSends]
    /\ delivered \in 0..MaxMessages
    /\ mishaps \subseteq {"raced", "leftover"}

(* The client reads what the server sent, however recv cuts it, and        *)
(* whether headers are short or long: unless it read an answer to its      *)
(* first message before it had switched encryption on, or the connection   *)
(* before was closed in the middle of a message.                           *)
InStep == worker = "lost" => mishaps # {}

(* A message that is handed over is whole, and the next one of the server. *)
DeliversWhole ==
    worker = "delivers" =>
        /\ readBuffer # <<>> /\ readBuffer[1].id = delivered + 1
        /\ Len(readBuffer) = Size(readBuffer[1].payload)
        /\ \A i \in DOMAIN readBuffer : readBuffer[i].place = i

(* While it reads, there are bytes to ask for: else DoMessageReads would   *)
(* return, be called again at once, and so on.                             *)
AsksForBytes == worker = "reads" => BytesToRead > 0

(* The server takes the first message as it is and deciphers the others in *)
(* their order.                                                            *)
ServerInStep ==
    toServer # <<>> =>
        Head(toServer) = IF peer.encrypts THEN peer.receives ELSE Plain

(* Client and server stay in step, byte by byte and message by message, in *)
(* both directions, however the stream is cut.                             *)
StreamInStep ==
    /\ StreamTypeOK
    /\ InStep /\ DeliversWhole /\ AsksForBytes
    /\ ServerInStep

=============================================================================
