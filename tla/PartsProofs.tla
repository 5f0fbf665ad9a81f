---------------------------- MODULE PartsProofs ----------------------------
(***************************************************************************)
(* Theorems about four parts of the client that stand alone: how the       *)
(* server's messages are cut out of the stream of bytes (MessageStream),   *)
(* for any sizes of payloads, headers and buffers and any number of        *)
(* messages and connections; what the update messages make of the client's *)
(* objects (ObjectUpdates), for any objects, types, fields, ages and       *)
(* messages and a clock of any width; how events are dispatched            *)
(* (EventDispatch), for any handlers, priorities and keys and any size of  *)
(* the queue; and what typing, deleting and scripts make of the text of an *)
(* edit box (EditText), for any limits and any texts in which the links    *)
(* are paired.                                                             *)
(***************************************************************************)
EXTENDS MessageStream, ObjectUpdates, EventDispatch, EditText, SequenceTheorems,
        IntrusiveListLemmas, FiniteSetTheorems, TLAPS

----------------------------------------------------------------------------
(* The inductive invariant of MessageStream.                               *)

\* Where the cipher is behind the message of a byte.
NextKey(b) == IF b.key = Plain THEN 0 ELSE b.key + Ciphered(b.payload)

SameMessage(b, c) == c.id = b.id /\ c.payload = b.payload /\ c.key = b.key

\* Byte c succeeds byte b at a distance of d in the stream of the server.
Succeeds(b, c, d) ==
    /\ b.place + d <= Size(b.payload) => SameMessage(b, c) /\ c.place = b.place + d
    /\ b.place + d = Size(b.payload) + 1 =>
        c.place = 1 /\ c.id = b.id + 1 /\ c.key = NextKey(b)

\* The rest of the message of byte b is the first of n bytes behind it; and all of them
\* if it is the last message.
RestIsThere(b, n) ==
    IF b.id = peer.sent THEN n = Size(b.payload) - b.place /\ peer.cipher = NextKey(b)
    ELSE n > Size(b.payload) - b.place

\* What is under way are whole messages, but for the first, one behind the other.
WireInStep ==
    /\ \A i, j \in DOMAIN wire : i < j => Succeeds(wire[i], wire[j], j - i)
    /\ \A i \in DOMAIN wire :
        LET b == wire[i]
        IN  /\ b.place <= Size(b.payload) /\ b.id <= peer.sent
            /\ b.key = Plain <=> b.id = 1
            /\ RestIsThere(b, Len(wire) - i)

\* A message in the buffer is not whole yet unless it is being delivered.
BufferPartial ==
    /\ readBuffer # <<>> /\ worker # "delivers" => Len(readBuffer) < Size(readBuffer[1].payload)
    /\ worker = "delivers" => link.up /\ mishaps = {} /\ readBuffer # <<>>
    /\ worker = "reads" => link.up

\* The buffer holds the beginning of the message after the delivered ones.
BufferInStep ==
    readBuffer # <<>> =>
        LET b == readBuffer[1]
            n == Len(readBuffer)
        IN  /\ \A i \in DOMAIN readBuffer :
                SameMessage(b, readBuffer[i]) /\ readBuffer[i].place = i
            /\ b.id = delivered + 1 /\ b.id <= peer.sent
            /\ b.key = Plain <=> b.id = 1
            /\ worker = "delivers" => n = Size(b.payload)
            /\ \A j \in DOMAIN wire : Succeeds(b, wire[j], n - 1 + j)
            /\ RestIsThere(b, Len(wire) + n - 1)

\* Without one, the next message is the first under way.
NextInStep ==
    readBuffer = <<>> =>
        IF wire = <<>> THEN peer.sent = delivered
        ELSE wire[1].place = 1 /\ wire[1].id = delivered + 1

\* The key is where the server's cipher was for the next byte.
KeyInStep ==
    /\ encrypt => delivered > 0
    /\ ~ encrypt => receiveKey = 0 /\ (delivered > 0 => readBuffer = <<>>)
    /\ delivered > 0 =>
        IF readBuffer # <<>>
        THEN IF Len(readBuffer) <= Ciphered(readBuffer[1].payload)
             THEN receiveKey = readBuffer[1].key + Len(readBuffer)
             ELSE receiveKey = NextKey(readBuffer[1])
        ELSE receiveKey = IF wire # <<>> THEN wire[1].key ELSE peer.cipher

ReadsInStep ==
    link.up /\ worker # "lost" /\ mishaps = {} => BufferInStep /\ NextInStep /\ KeyInStep

\* After a mishap, what is read next is not what was sent.
AfterMishap ==
    /\ InStep
    /\ mishaps # {} =>
        \/ worker = "lost"
        \/ /\ worker # "delivers" /\ readBuffer # <<>>
           /\ link.up => delivered = 0 /\ (wire # <<>> => wire[1].place = 1)

\* Who has sent what first.
Handshake ==
    /\ peer.sent = 0 => wire = <<>> /\ peer.cipher = 0
    /\ link.up /\ peer.sent = 0 =>
        ~ peer.encrypts /\ toServer = <<>> /\ sender = "none" /\ delivered = 0
    /\ link.up /\ ~ peer.encrypts => peer.sent <= 1 /\ peer.cipher = 0
    /\ ~ link.up => wire = <<>> /\ toServer = <<>> /\ sender = "none"
    /\ sender # "none" => delivered > 0
    /\ ~ peer.encrypts => peer.receives = 0

\* The ciphers of the messages of the client under way.
ClientInStep ==
    link.up =>
        /\ ~ encrypt /\ sender = "none" => ~ peer.encrypts /\ toServer = <<>>
        /\ ~ encrypt => sendKey = 0
        /\ ~ encrypt /\ sender # "none" =>
            \/ ~ peer.encrypts /\ toServer = <<Plain>>
            \/ peer.encrypts /\ toServer = <<>> /\ peer.receives = 0
        /\ encrypt => sender = "none"
        /\ encrypt /\ peer.encrypts =>
            /\ sendKey = peer.receives + Len(toServer)
            /\ \A i \in DOMAIN toServer : toServer[i] = peer.receives + i - 1
        /\ encrypt /\ ~ peer.encrypts =>
            /\ toServer # <<>> /\ peer.receives = 0 /\ sendKey = Len(toServer) - 1
            /\ \A i \in DOMAIN toServer : toServer[i] = IF i = 1 THEN Plain ELSE i - 2

StreamInv ==
    /\ StreamTypeOK
    /\ WireInStep
    /\ BufferPartial /\ ReadsInStep /\ AfterMishap /\ Handshake /\ ClientInStep

----------------------------------------------------------------------------
(* Sizes.                                                                  *)

LEMMA Sizes ==
    ASSUME NEW p \in Payloads
    PROVE  /\ p \in Nat /\ HeaderSize(p) \in {2, 3} /\ Size(p) = HeaderSize(p) + p
           /\ Ciphered(p) = HeaderSize(p) + Opcode
           /\ HeaderSize(p) < Ciphered(p) /\ Ciphered(p) <= Size(p)
           /\ 2 * Size(p) <= SizeLimit
           /\ Size(p) \in Nat /\ Ciphered(p) \in Nat
BY MessageStreamAssumption DEF HeaderSize, Size, Ciphered

LEMMA Constants ==
    /\ Opcode \in Nat \ {0} /\ SizeLimit \in Nat /\ FirstSize \in 2..SizeLimit
    /\ MaxMessages \in Nat /\ MaxSends \in Nat /\ MaxConnects \in Nat \ {0}
    /\ Plain = -1
BY MessageStreamAssumption DEF Plain

----------------------------------------------------------------------------
(* What one read may ask for.                                              *)

BufferTypes ==
    /\ readBuffer \in Seq(Byte)
    /\ bufferSize \in FirstSize..SizeLimit /\ Len(readBuffer) <= bufferSize

LEMMA ByteFields ==
    ASSUME NEW b \in Byte
    PROVE  /\ b.payload \in Payloads /\ b.place \in Nat \ {0} /\ b.id \in 1..MaxMessages
           /\ b.key \in Nat \cup {Plain}
BY DEF Byte

LEMMA FirstOfBuffer ==
    ASSUME BufferTypes, readBuffer # <<>>
    PROVE  /\ readBuffer[1] \in Byte /\ readBuffer[1].payload \in Payloads
           /\ Len(readBuffer) \in Nat /\ Len(readBuffer) >= 1 /\ 1 \in DOMAIN readBuffer
<1>1. readBuffer \in Seq(Byte)
  BY DEF BufferTypes
<1>2. Len(readBuffer) \in Nat /\ Len(readBuffer) >= 1 /\ DOMAIN readBuffer = 1..Len(readBuffer)
  BY <1>1, EmptySeq
<1>3. readBuffer[1] \in Byte
  BY <1>1, <1>2, ElementOfSeq
<1>. QED  BY <1>2, <1>3, ByteFields

\* While a message is not whole, the buffer has room for what is asked for, and no more
\* is asked for than belongs to the message.
LEMMA ReadLimits ==
    ASSUME BufferTypes,
           readBuffer # <<>> => Len(readBuffer) < Size(readBuffer[1].payload)
    PROVE  LET n == Len(readBuffer)
           IN  /\ BytesToRead \in Nat \ {0}
               /\ Grown(n) \in FirstSize..SizeLimit /\ n <= Grown(n)
               /\ n + BytesToRead <= Grown(n)
               /\ n < 2 => ReadHeader = 2 /\ SizeKnown = -1 /\ BytesToRead = 2 - n
               /\ readBuffer = <<>> => n = 0
               /\ readBuffer # <<>> =>
                    LET p == readBuffer[1].payload
                    IN  /\ n >= 2 => ReadHeader = HeaderSize(p)
                        /\ SizeKnown \in {-1, Size(p)}
                        /\ n + BytesToRead <= Size(p)
                        /\ SizeKnown = -1 => n + BytesToRead <= HeaderSize(p)
<1>. DEFINE n == Len(readBuffer)
<1>c. FirstSize >= 2 /\ FirstSize \in Nat /\ SizeLimit \in Nat
  BY Constants
<1>n. n \in Nat /\ (readBuffer = <<>> <=> n = 0) /\ bufferSize \in Nat /\ n <= bufferSize
      /\ bufferSize >= FirstSize /\ bufferSize <= SizeLimit
  BY <1>c, EmptySeq DEF BufferTypes
<1>1. CASE readBuffer = <<>>
  <2>1. n = 0 /\ Grown(n) = bufferSize /\ ReadHeader = 2 /\ SizeKnown = -1 /\ BytesToRead = 2
    BY <1>1, <1>n, <1>c DEF Grown, ReadHeader, SizeKnown, BytesToRead
  <2>. QED  BY <1>1, <1>n, <1>c, <2>1
<1>2. CASE readBuffer # <<>>
  <2>. DEFINE p == readBuffer[1].payload
  <2>1. p \in Payloads /\ n >= 1 /\ n < Size(p)
    BY <1>2, FirstOfBuffer
  <2>2. /\ HeaderSize(p) \in {2, 3} /\ HeaderSize(p) < Size(p) /\ 2 * Size(p) <= SizeLimit
        /\ Size(p) \in Nat
    BY <2>1, Sizes
  <2>. HIDE DEF p, n
  <2>3. Grown(n) = IF n >= bufferSize THEN 2 * bufferSize ELSE bufferSize
    BY DEF Grown
  <2>4. Grown(n) \in FirstSize..SizeLimit /\ n < Grown(n) /\ Grown(n) >= 2
        /\ (n >= 2 => Grown(n) >= 3)
    BY <1>n, <1>c, <2>1, <2>2, <2>3
  <2>5. CASE n < 2
    <3>1. ReadHeader = 2 /\ SizeKnown = -1 /\ BytesToRead = 2 - n
      BY <2>5 DEF ReadHeader, SizeKnown, BytesToRead, n
    <3>2. n = 1 /\ BytesToRead = 1
      BY <1>n, <2>1, <2>5, <3>1
    <3>3. 2 <= HeaderSize(p) /\ 2 <= Size(p)
      BY <2>2
    <3>4. n + BytesToRead <= Grown(n) /\ n + BytesToRead <= Size(p)
          /\ n + BytesToRead <= HeaderSize(p)
      BY <1>c, <2>2, <2>4, <3>2, <3>3
    <3>. QED  BY <1>2, <1>n, <2>4, <3>1, <3>2, <3>4 DEF p, n
  <2>6. CASE n >= 2
    <3>1. ReadHeader = HeaderSize(p)
      BY <1>n, <2>6 DEF ReadHeader, n, p
    <3>2. CASE n < HeaderSize(p)
      <4>1. SizeKnown = -1
        BY <3>1, <3>2 DEF SizeKnown, n
      <4>2. BytesToRead = HeaderSize(p) - n
        BY <3>1, <4>1 DEF BytesToRead, n
      <4>. QED  BY <1>2, <1>n, <2>1, <2>2, <2>4, <2>6, <3>1, <3>2, <4>1, <4>2 DEF p, n
    <3>3. CASE n >= HeaderSize(p)
      <4>1. SizeKnown = Size(p)
        <5>1. ~ (n < 2 \/ n < ReadHeader)
          BY <1>n, <2>2, <2>6, <3>1, <3>3
        <5>. QED  BY <5>1 DEF SizeKnown, n, p
      <4>2. BytesToRead = Min({Size(p), Grown(n)}) - n
        BY <2>2, <4>1 DEF BytesToRead, n
      <4>3. Min({Size(p), Grown(n)}) = IF Size(p) <= Grown(n) THEN Size(p) ELSE Grown(n)
        BY <2>2, <2>4, <1>c, MinOfTwo
      <4>. QED  BY <1>2, <1>n, <2>1, <2>2, <2>4, <2>6, <3>1, <3>3, <4>1, <4>2, <4>3 DEF p, n
    <3>. QED  BY <1>n, <2>2, <3>2, <3>3
  <2>. QED  BY <1>n, <2>5, <2>6
<1>. QED  BY <1>1, <1>2

\* The bytes of a read that are deciphered are the first ones.
LEMMA DecryptsFirst ==
    ASSUME BufferTypes, encrypt \in BOOLEAN, NEW k \in Nat,
           readBuffer # <<>> => Len(readBuffer) < Size(readBuffer[1].payload)
    PROVE  /\ ~ encrypt => Decrypts(k) = 0
           /\ encrypt =>
                LET rest == ReadHeader + Opcode - Len(readBuffer)
                IN  Decrypts(k) = IF rest <= 0 THEN 0 ELSE IF k <= rest THEN k ELSE rest
           /\ Decrypts(k) \in Nat
<1>. DEFINE rest == ReadHeader + Opcode - Len(readBuffer)
<1>1. rest \in Int
  <2>1. ReadHeader \in Int
    <3>1. CASE Len(readBuffer) < 2
      BY <3>1, ReadLimits
    <3>2. CASE Len(readBuffer) >= 2
      <4>1. readBuffer # <<>>
        BY <3>2, EmptySeq DEF BufferTypes
      <4>. QED  BY <3>2, <4>1, ReadLimits, FirstOfBuffer, Sizes
    <3>. QED  BY <3>1, <3>2 DEF BufferTypes
  <2>. QED  BY <2>1, Constants DEF BufferTypes
<1>2. encrypt => Decrypts(k) = Min({k, Max({0, rest})})
  BY DEF Decrypts
<1>. HIDE DEF rest
<1>3. Max({0, rest}) = IF 0 >= rest THEN 0 ELSE rest
  BY <1>1, MaxOfTwo
<1>4. Max({0, rest}) \in Int
  BY <1>1, <1>3
<1>5. Min({k, Max({0, rest})}) = IF k <= Max({0, rest}) THEN k ELSE Max({0, rest})
  <2>1. PICK m \in Int : m = Max({0, rest})
    BY <1>4
  <2>2. Min({k, m}) = IF k <= m THEN k ELSE m
    BY MinOfTwo
  <2>. QED  BY <2>1, <2>2
<1>6. ~ encrypt => Decrypts(k) = 0
  BY DEF Decrypts
<1>7. encrypt => Decrypts(k) = IF rest <= 0 THEN 0 ELSE IF k <= rest THEN k ELSE rest
  BY <1>1, <1>2, <1>3, <1>5
<1>8. Decrypts(k) \in Nat
  BY <1>1, <1>6, <1>7
<1>. QED  BY <1>6, <1>7, <1>8 DEF rest

----------------------------------------------------------------------------
(* A read.                                                                 *)

\* The wire without its first n bytes.
Took(n) ==
    /\ wire' \in Seq(Byte) /\ Len(wire') = Len(wire) - n
    /\ \A j \in 1..(Len(wire) - n) : wire'[j] = wire[n + j]

FirstByte == IF readBuffer = <<>> THEN wire[1] ELSE readBuffer[1]

\* Byte i of n new ones can be read as the next of the message.
Fits(n, i) ==
    /\ Cipher(wire[i]) = IF i <= Decrypts(n) THEN receiveKey + i - 1 ELSE Plain
    /\ wire[i].place = Len(readBuffer) + i
    /\ wire[i].id = FirstByte.id /\ wire[i].payload = FirstByte.payload

\* The n new ones are put into the buffer, or cannot be read.
Reads(n) ==
    /\ \A i \in 1..n : Fits(n, i)
    /\ readBuffer' \in Seq(Byte) /\ Len(readBuffer') = Len(readBuffer) + n
    /\ \A j \in 1..Len(readBuffer) : readBuffer'[j] = readBuffer[j]
    /\ \A i \in 1..n : readBuffer'[Len(readBuffer) + i] = wire[i]
    /\ worker' = IF Whole(n) THEN "delivers" ELSE "reads"
Loses(n) ==
    /\ \E i \in 1..n : ~ Fits(n, i)
    /\ worker' = "lost" /\ UNCHANGED readBuffer

Raced(n) == ~ encrypt /\ \E i \in 1..n : Cipher(wire[i]) # Plain

LEMMA ReceiveReads ==
    ASSUME Receive, BufferTypes, wire \in Seq(Byte), BytesToRead \in Nat \ {0}
    PROVE  /\ wire # <<>> /\ worker = "reads"
           /\ \E n \in 1..Len(wire) :
                /\ n <= BytesToRead /\ Took(n)
                /\ receiveKey' = receiveKey + Decrypts(n)
                /\ Reads(n) \/ Loses(n)
                /\ IF Raced(n) THEN mishaps' = mishaps \cup {"raced"} ELSE mishaps' = mishaps
           /\ bufferSize' = Grown(Len(readBuffer))
           /\ UNCHANGED <<encrypt, sendKey, sender, toServer, peer, link, delivered>>
<1>w. Len(wire) \in Nat
  OBVIOUS
<1>0. /\ wire # <<>> /\ worker = "reads" /\ bufferSize' = Grown(Len(readBuffer))
      /\ UNCHANGED <<encrypt, sendKey, sender, toServer, peer, link, delivered>>
  BY DEF Receive
<1>1. PICK n \in 1..Min({BytesToRead, Len(wire)}) :
        LET new == SubSeq(wire, 1, n)
        IN  /\ wire' = SubSeq(wire, n + 1, Len(wire))
            /\ receiveKey' = receiveKey + Decrypts(n)
            /\ IF \A i \in 1..n : Legible(new, i)
               THEN /\ readBuffer' = readBuffer \o new
                    /\ worker' = IF Whole(n) THEN "delivers" ELSE "reads"
               ELSE /\ worker' = "lost"
                    /\ UNCHANGED readBuffer
            /\ mishaps' = mishaps \cup
                {o \in {"raced"} : ~encrypt /\ \E i \in 1..n : Cipher(new[i]) # Plain}
  BY DEF Receive
<1>2. n \in 1..Len(wire) /\ n <= BytesToRead /\ n \in Nat /\ n >= 1
  <2>1. Min({BytesToRead, Len(wire)}) = IF BytesToRead <= Len(wire) THEN BytesToRead ELSE Len(wire)
    BY <1>w, MinOfTwo
  <2>. QED  BY <1>w, <1>1, <2>1
<1>. DEFINE new == SubSeq(wire, 1, n)
<1>3. new \in Seq(Byte) /\ Len(new) = n /\ (\A i \in 1..n : new[i] = wire[i])
  BY <1>2, <1>w, SubSeqProperties, ElementOfSeq
<1>4. Took(n)
  BY SMTT(30), <1>1, <1>2, <1>w, SubSeqProperties, ElementOfSeq DEF Took
<1>. HIDE DEF new
<1>5. \A i \in 1..n : Legible(new, i) <=> Fits(n, i)
  BY <1>2, <1>3 DEF Legible, Fits, FirstByte
<1>6. Reads(n) \/ Loses(n)
  <2>1. CASE \A i \in 1..n : Legible(new, i)
    <3>1. readBuffer' = readBuffer \o new /\ worker' = IF Whole(n) THEN "delivers" ELSE "reads"
      BY <1>1, <2>1 DEF new
    <3>2. readBuffer \in Seq(Byte) /\ Len(readBuffer) \in Nat
      BY DEF BufferTypes
    <3>3. /\ readBuffer \o new \in Seq(Byte) /\ Len(readBuffer \o new) = Len(readBuffer) + n
          /\ \A j \in 1..Len(readBuffer) : (readBuffer \o new)[j] = readBuffer[j]
          /\ \A i \in 1..n : (readBuffer \o new)[Len(readBuffer) + i] = new[i]
      <4>1. /\ readBuffer \o new \in Seq(Byte) /\ Len(readBuffer \o new) = Len(readBuffer) + n
            /\ \A j \in 1..(Len(readBuffer) + n) :
                (readBuffer \o new)[j] = IF j <= Len(readBuffer) THEN readBuffer[j]
                                        ELSE new[j - Len(readBuffer)]
        BY <1>2, <1>3, <3>2, ConcatProperties
      <4>2. ASSUME NEW i \in 1..n
            PROVE  (readBuffer \o new)[Len(readBuffer) + i] = new[i]
        <5>1. PICK j : j = Len(readBuffer) + i
          OBVIOUS
        <5>2. j \in 1..(Len(readBuffer) + n) /\ ~ (j <= Len(readBuffer))
              /\ j - Len(readBuffer) = i
          BY <1>2, <3>2, <5>1
        <5>. QED  BY <4>1, <5>1, <5>2
      <4>3. ASSUME NEW j \in 1..Len(readBuffer)
            PROVE  (readBuffer \o new)[j] = readBuffer[j]
        BY <1>2, <3>2, <4>1
      <4>. QED  BY <4>1, <4>2, <4>3
    <3>. QED  BY <1>3, <1>5, <2>1, <3>1, <3>3 DEF Reads
  <2>2. CASE ~ \A i \in 1..n : Legible(new, i)
    BY <1>1, <1>5, <2>2 DEF new, Loses
  <2>. QED  BY <2>1, <2>2
<1>7. IF Raced(n) THEN mishaps' = mishaps \cup {"raced"} ELSE mishaps' = mishaps
  <2>1. mishaps' = mishaps \cup
            {o \in {"raced"} : ~encrypt /\ \E i \in 1..n : Cipher(new[i]) # Plain}
    BY <1>1 DEF new
  <2>2. Raced(n) <=> ~encrypt /\ \E i \in 1..n : Cipher(new[i]) # Plain
    BY <1>3 DEF Raced
  <2>. QED  BY <2>1, <2>2
<1>. QED  BY <1>0, <1>1, <1>2, <1>4, <1>6, <1>7

\* The message that is read: from its first byte on, the bytes of the buffer and of the
\* wire succeed each other.
LEMMA FirstByteInStep ==
    ASSUME BufferTypes, wire \in Seq(Byte), wire # <<>>, peer.sent \in Nat,
           WireInStep, BufferInStep, NextInStep
    PROVE  /\ FirstByte \in Byte
           /\ FirstByte.id = delivered + 1 /\ FirstByte.id <= peer.sent
           /\ FirstByte.key = Plain <=> FirstByte.id = 1
           /\ readBuffer # <<>> =>
                \A i \in DOMAIN readBuffer :
                    SameMessage(FirstByte, readBuffer[i]) /\ readBuffer[i].place = i
           /\ readBuffer = <<>> => FirstByte = wire[1] /\ FirstByte.place = 1
           /\ FirstByte.place = 1
           /\ \A j \in DOMAIN wire : Succeeds(FirstByte, wire[j], Len(readBuffer) - 1 + j)
           /\ RestIsThere(FirstByte, Len(wire) + Len(readBuffer) - 1)
<1>1. 1 \in DOMAIN wire /\ wire[1] \in Byte /\ Len(wire) \in Nat /\ DOMAIN wire = 1..Len(wire)
  <2>1. Len(wire) \in Nat /\ Len(wire) >= 1 /\ DOMAIN wire = 1..Len(wire)
    BY EmptySeq
  <2>. QED  BY <2>1, ElementOfSeq
<1>2. CASE readBuffer = <<>>
  <2>1. FirstByte = wire[1] /\ Len(readBuffer) = 0
    BY <1>2 DEF FirstByte
  <2>2. wire[1].place = 1 /\ wire[1].id = delivered + 1
    BY <1>1, <1>2 DEF NextInStep
  <2>3. /\ wire[1].id <= peer.sent /\ (wire[1].key = Plain <=> wire[1].id = 1)
        /\ RestIsThere(wire[1], Len(wire) - 1)
    BY <1>1 DEF WireInStep
  <2>4. ASSUME NEW j \in DOMAIN wire
        PROVE  Succeeds(wire[1], wire[j], 0 - 1 + j)
    <3>1. CASE j = 1
      <4>1. wire[1].payload \in Payloads
        BY <1>1, ByteFields
      <4>2. Size(wire[1].payload) >= 1 /\ Size(wire[1].payload) \in Nat
        BY <4>1, Sizes, Constants
      <4>. QED  BY <2>2, <3>1, <4>2 DEF Succeeds, SameMessage
    <3>2. CASE j # 1
      <4>1. 1 < j /\ 0 - 1 + j = j - 1
        BY <1>1, <3>2
      <4>. QED  BY <1>1, <4>1 DEF WireInStep
    <3>. QED  BY <3>1, <3>2
  <2>5. RestIsThere(wire[1], Len(wire) + 0 - 1)
    <3>1. Len(wire) + 0 - 1 = Len(wire) - 1
      BY <1>1
    <3>. QED  BY <2>3, <3>1
  <2>. QED  BY <1>1, <1>2, <2>1, <2>2, <2>3, <2>4, <2>5
<1>3. CASE readBuffer # <<>>
  <2>1. FirstByte = readBuffer[1]
    BY <1>3 DEF FirstByte
  <2>2. readBuffer[1] \in Byte /\ 1 \in DOMAIN readBuffer
    BY <1>3, FirstOfBuffer
  <2>3. readBuffer[1].place = 1
    BY <1>3, <2>2 DEF BufferInStep
  <2>4. /\ \A i \in DOMAIN readBuffer :
                SameMessage(readBuffer[1], readBuffer[i]) /\ readBuffer[i].place = i
        /\ readBuffer[1].id = delivered + 1 /\ readBuffer[1].id <= peer.sent
        /\ readBuffer[1].key = Plain <=> readBuffer[1].id = 1
        /\ \A j \in DOMAIN wire : Succeeds(readBuffer[1], wire[j], Len(readBuffer) - 1 + j)
        /\ RestIsThere(readBuffer[1], Len(wire) + Len(readBuffer) - 1)
    BY <1>3 DEF BufferInStep
  <2>. QED  BY <1>3, <2>1, <2>2, <2>3, <2>4
<1>. QED  BY <1>2, <1>3

\* The bytes that a read asks for are the next ones of the message.
LEMMA NextBytes ==
    ASSUME BufferTypes, wire \in Seq(Byte), wire # <<>>, peer.sent \in Nat,
           WireInStep, BufferInStep, NextInStep,
           readBuffer # <<>> => Len(readBuffer) < Size(readBuffer[1].payload),
           NEW n \in 1..Len(wire), n <= BytesToRead
    PROVE  /\ Len(readBuffer) + n <= Size(FirstByte.payload)
           /\ \A i \in 1..n : /\ wire[i] \in Byte
                              /\ SameMessage(FirstByte, wire[i])
                              /\ wire[i].place = Len(readBuffer) + i
           /\ Whole(n) <=> Len(readBuffer) + n = Size(FirstByte.payload)
<1>. DEFINE L == Len(readBuffer)
<1>1. L \in Nat /\ n \in Nat /\ n >= 1 /\ Len(wire) \in Nat /\ DOMAIN wire = 1..Len(wire)
  BY DEF BufferTypes
<1>2. FirstByte.payload \in Payloads /\ FirstByte.place = 1
  BY FirstByteInStep, ByteFields
<1>3. /\ HeaderSize(FirstByte.payload) \in {2, 3} /\ Size(FirstByte.payload) \in Nat
      /\ HeaderSize(FirstByte.payload) < Size(FirstByte.payload)
  BY <1>2, Sizes
<1>4. /\ BytesToRead \in Nat \ {0}
      /\ L < 2 => SizeKnown = -1 /\ BytesToRead = 2 - L
      /\ readBuffer = <<>> => L = 0
      /\ readBuffer # <<>> =>
            /\ SizeKnown \in {-1, Size(readBuffer[1].payload)}
            /\ L + BytesToRead <= Size(readBuffer[1].payload)
            /\ SizeKnown = -1 => L + BytesToRead <= HeaderSize(readBuffer[1].payload)
  BY ReadLimits
<1>. HIDE DEF L
<1>5. /\ L + n <= Size(FirstByte.payload)
      /\ (SizeKnown >= 0 /\ L + n >= SizeKnown) <=> L + n = Size(FirstByte.payload)
  <2>1. CASE readBuffer = <<>>
    <3>1. L + n <= 2 /\ SizeKnown = -1 /\ L + n < Size(FirstByte.payload)
      BY <1>1, <1>3, <1>4, <2>1
    <3>. QED  BY <1>1, <1>3, <3>1
  <2>2. CASE readBuffer # <<>>
    <3>1. FirstByte = readBuffer[1]
      BY <2>2 DEF FirstByte
    <3>. DEFINE total == Size(FirstByte.payload)
                header == HeaderSize(FirstByte.payload)
    <3>2. /\ SizeKnown \in {-1, total} /\ L + BytesToRead <= total
          /\ SizeKnown = -1 => L + BytesToRead <= header
          /\ header < total /\ total \in Nat /\ header \in Nat
      BY <1>3, <1>4, <2>2, <3>1
    <3>. HIDE DEF total, header
    <3>3. L + n <= L + BytesToRead
      BY <1>1, <1>4
    <3>4. L + n <= total /\ ((SizeKnown >= 0 /\ L + n >= SizeKnown) <=> L + n = total)
      <4>1. CASE SizeKnown = -1
        BY <1>1, <1>4, <3>2, <3>3, <4>1
      <4>2. CASE SizeKnown = total
        BY <1>1, <1>4, <3>2, <3>3, <4>2
      <4>. QED  BY <3>2, <4>1, <4>2
    <3>. QED  BY <3>4 DEF total
  <2>. QED  BY <2>1, <2>2
<1>6. ASSUME NEW i \in 1..n
      PROVE  /\ wire[i] \in Byte /\ SameMessage(FirstByte, wire[i])
             /\ wire[i].place = L + i
  <2>1. i \in DOMAIN wire /\ i \in Nat
    BY <1>1
  <2>2. wire[i] \in Byte
    BY <2>1, <1>1, ElementOfSeq
  <2>3. Succeeds(FirstByte, wire[i], L - 1 + i)
    BY <2>1, FirstByteInStep DEF L
  <2>4. FirstByte.place + (L - 1 + i) = L + i
    BY <1>1, <1>2, <2>1
  <2>5. L + i <= Size(FirstByte.payload)
    BY <1>1, <1>3, <1>5
  <2>. QED  BY <2>2, <2>3, <2>4, <2>5 DEF Succeeds
<1>. QED  BY <1>5, <1>6 DEF Whole, L

LEMMA TypesOfStream ==
    ASSUME StreamTypeOK
    PROVE  /\ BufferTypes /\ wire \in Seq(Byte) /\ encrypt \in BOOLEAN
           /\ receiveKey \in Nat /\ sendKey \in Nat
           /\ peer.sent \in 0..MaxMessages /\ peer.cipher \in Nat /\ peer.receives \in Nat
           /\ peer.encrypts \in BOOLEAN /\ peer.sent \in Nat
           /\ link.up \in BOOLEAN /\ delivered \in Nat
BY Constants DEF StreamTypeOK, BufferTypes

\* What the cipher has to be at for the bytes of a message.
KeyFor(b, n) == IF n <= Ciphered(b.payload) THEN b.key + n ELSE NextKey(b)

\* Deciphering the bytes of a read moves the key on to the next byte.
LEMMA KeyMovesOn ==
    ASSUME BufferTypes, encrypt = TRUE,
           readBuffer # <<>> => Len(readBuffer) < Size(readBuffer[1].payload),
           FirstByte \in Byte, FirstByte.key # Plain,
           NEW n \in Nat \ {0}, n <= BytesToRead,
           receiveKey = KeyFor(FirstByte, Len(readBuffer))
    PROVE  /\ receiveKey + Decrypts(n) = KeyFor(FirstByte, Len(readBuffer) + n)
           /\ \A i \in 1..n : i <= Decrypts(n) <=>
                                Len(readBuffer) + i <= Ciphered(FirstByte.payload)
           /\ \A i \in 1..n : i <= Decrypts(n) =>
                                receiveKey + i - 1 = FirstByte.key + (Len(readBuffer) + i) - 1
<1>. DEFINE L == Len(readBuffer)
            coded == Ciphered(FirstByte.payload)
            base == FirstByte.key
            d == Decrypts(n)
<1>1. /\ L \in Nat /\ coded \in Nat /\ base \in Nat /\ d \in Nat /\ coded >= 3
      /\ NextKey(FirstByte) = base + coded
      /\ coded = HeaderSize(FirstByte.payload) + Opcode
      /\ HeaderSize(FirstByte.payload) \in {2, 3} /\ Opcode \in Nat
  <2>1. FirstByte.payload \in Payloads /\ base \in Nat
    BY ByteFields
  <2>2. d \in Nat
    BY DecryptsFirst
  <2>. QED  BY SMTT(30), <2>1, <2>2, Sizes, Constants DEF BufferTypes, NextKey
<1>2. d = IF coded <= L THEN 0 ELSE IF n <= coded - L THEN n ELSE coded - L
  <2>1. LET rest == ReadHeader + Opcode - L
        IN  d = IF rest <= 0 THEN 0 ELSE IF n <= rest THEN n ELSE rest
    BY DecryptsFirst
  <2>2. CASE L < 2
    <3>1. ReadHeader = 2 /\ n <= 2 - L
      BY <2>2, ReadLimits
    <3>. HIDE DEF L, coded, d
    <3>. QED  BY <1>1, <2>1, <2>2, <3>1, Constants
  <2>3. CASE L >= 2
    <3>1. readBuffer # <<>>
      BY <2>3, EmptySeq
    <3>2. ReadHeader = HeaderSize(FirstByte.payload)
      BY <2>3, <3>1, ReadLimits DEF FirstByte
    <3>3. ReadHeader + Opcode - L = coded - L
      BY <1>1, <3>2
    <3>. HIDE DEF L, coded, d
    <3>. QED  BY <1>1, <2>1, <3>3
  <2>. QED  BY <1>1, <2>2, <2>3
<1>3. receiveKey = base + (IF L <= coded THEN L ELSE coded)
  BY <1>1 DEF KeyFor
<1>4. KeyFor(FirstByte, L + n) = base + (IF L + n <= coded THEN L + n ELSE coded)
  BY <1>1 DEF KeyFor
<1>. HIDE DEF L, coded, d, base
<1>5. receiveKey + d = KeyFor(FirstByte, L + n)
  <2>1. CASE coded <= L
    BY <1>1, <1>2, <1>3, <1>4, <2>1
  <2>2. CASE coded > L /\ n <= coded - L
    <3>1. d = n /\ L <= coded /\ L + n <= coded
      BY <1>1, <1>2, <2>2
    <3>. QED  BY <1>1, <1>3, <1>4, <3>1
  <2>3. CASE coded > L /\ n > coded - L
    <3>1. d = coded - L /\ L <= coded /\ ~ L + n <= coded
      BY SMTT(30), <1>1, <1>2, <2>3
    <3>. QED  BY <1>1, <1>3, <1>4, <3>1
  <2>. QED  BY <1>1, <2>1, <2>2, <2>3
<1>6. ASSUME NEW i \in 1..n
      PROVE  i <= d <=> L + i <= coded
  BY <1>1, <1>2
<1>7. ASSUME NEW i \in 1..n, i <= d
      PROVE  receiveKey + i - 1 = base + (L + i) - 1
  <2>1. L + i <= coded
    BY <1>6, <1>7
  <2>. QED  BY <1>1, <1>3, <1>7, <2>1
<1>. QED  BY <1>5, <1>6, <1>7 DEF L, coded, d, base

\* Before anything went wrong, a read fits, unless it is raced by the server's cipher.
LEMMA ReadFits ==
    ASSUME StreamTypeOK, WireInStep, BufferPartial, BufferInStep, NextInStep, KeyInStep,
           worker = "reads", wire # <<>>, NEW n \in 1..Len(wire), n <= BytesToRead
    PROVE  /\ ~ Raced(n) => \A i \in 1..n : Fits(n, i)
           /\ Raced(n) => \E i \in 1..n : ~ Fits(n, i)
           /\ ~ encrypt /\ delivered > 0 => Raced(n)
           /\ encrypt => receiveKey + Decrypts(n) = KeyFor(FirstByte, Len(readBuffer) + n)
<1>1. /\ BufferTypes /\ wire \in Seq(Byte) /\ encrypt \in BOOLEAN /\ peer.sent \in Nat
      /\ delivered \in Nat /\ receiveKey \in Nat /\ peer.cipher \in Nat
  BY TypesOfStream
<1>2. readBuffer # <<>> => Len(readBuffer) < Size(readBuffer[1].payload)
  BY DEF BufferPartial
<1>3. \A i \in 1..n : /\ wire[i] \in Byte
                      /\ SameMessage(FirstByte, wire[i])
                      /\ wire[i].place = Len(readBuffer) + i
  BY <1>1, <1>2, NextBytes
<1>4. /\ FirstByte \in Byte /\ FirstByte.id = delivered + 1
      /\ (FirstByte.key = Plain <=> FirstByte.id = 1)
      /\ (readBuffer = <<>> => FirstByte = wire[1] /\ FirstByte.place = 1)
  BY <1>1, FirstByteInStep
<1>n. n \in Nat \ {0} /\ Len(readBuffer) \in Nat
  BY <1>1 DEF BufferTypes
<1>5. CASE ~ encrypt
  <2>1. Decrypts(n) = 0
    BY <1>1, <1>2, <1>5, <1>n, DecryptsFirst
  <2>2. \A i \in 1..n : Fits(n, i) <=> Cipher(wire[i]) = Plain
    BY <1>3, <2>1 DEF Fits, SameMessage
  <2>3. ASSUME delivered > 0
        PROVE  Raced(n)
    <3>1. readBuffer = <<>> /\ FirstByte.key # Plain
      BY <1>1, <1>4, <1>5, <2>3 DEF KeyInStep
    <3>2. wire[1].key \in Nat /\ wire[1].place = 1 /\ wire[1].payload \in Payloads
      BY <1>4, <3>1, ByteFields, Constants
    <3>3. 1 <= Ciphered(wire[1].payload)
      BY <3>2, Sizes
    <3>4. Cipher(wire[1]) # Plain
      BY <3>2, <3>3, Constants DEF Cipher
    <3>. QED  BY <1>5, <1>n, <3>4 DEF Raced
  <2>. QED  BY <1>5, <2>2, <2>3 DEF Raced
<1>6. CASE encrypt
  <2>1. delivered > 0 /\ FirstByte.key # Plain
    BY <1>1, <1>4, <1>6 DEF KeyInStep
  <2>2. receiveKey = KeyFor(FirstByte, Len(readBuffer))
    <3>1. CASE readBuffer = <<>>
      <4>1. receiveKey = wire[1].key /\ Len(readBuffer) = 0 /\ FirstByte = wire[1]
        BY <1>4, <2>1, <3>1 DEF KeyInStep
      <4>2. FirstByte.payload \in Payloads /\ FirstByte.key \in Nat
        BY <1>4, <2>1, ByteFields
      <4>. QED  BY <4>1, <4>2, Sizes DEF KeyFor
    <3>2. CASE readBuffer # <<>>
      BY <2>1, <3>2 DEF KeyInStep, KeyFor, FirstByte
    <3>. QED  BY <3>1, <3>2
  <2>3. /\ receiveKey + Decrypts(n) = KeyFor(FirstByte, Len(readBuffer) + n)
        /\ \A i \in 1..n : i <= Decrypts(n) <=>
                             Len(readBuffer) + i <= Ciphered(FirstByte.payload)
        /\ \A i \in 1..n : i <= Decrypts(n) =>
                             receiveKey + i - 1 = FirstByte.key + (Len(readBuffer) + i) - 1
    BY <1>1, <1>2, <1>4, <1>6, <1>n, <2>1, <2>2, KeyMovesOn
  <2>4. ASSUME NEW i \in 1..n
        PROVE  Fits(n, i)
    <3>1. /\ wire[i].key = FirstByte.key /\ wire[i].payload = FirstByte.payload
          /\ wire[i].place = Len(readBuffer) + i /\ wire[i].id = FirstByte.id
      BY <1>3 DEF SameMessage
    <3>2. Cipher(wire[i]) = IF Len(readBuffer) + i <= Ciphered(FirstByte.payload)
                            THEN FirstByte.key + (Len(readBuffer) + i) - 1 ELSE Plain
      BY <2>1, <3>1 DEF Cipher
    <3>3. Cipher(wire[i]) = IF i <= Decrypts(n) THEN receiveKey + i - 1 ELSE Plain
      BY <2>3, <3>2
    <3>. QED  BY <3>1, <3>3 DEF Fits
  <2>. QED  BY <1>6, <2>3, <2>4 DEF Raced
<1>. QED  BY <1>1, <1>5, <1>6

LEMMA TookKeepsWire ==
    ASSUME wire \in Seq(Byte), WireInStep, NEW n \in 1..Len(wire), Took(n), UNCHANGED peer
    PROVE  WireInStep'
<1>1. /\ Len(wire) \in Nat /\ DOMAIN wire = 1..Len(wire)
      /\ DOMAIN wire' = 1..(Len(wire) - n) /\ Len(wire') = Len(wire) - n
  BY DEF Took
<1>2. \A j \in DOMAIN wire' : n + j \in DOMAIN wire /\ wire'[j] = wire[n + j]
  BY <1>1 DEF Took
<1>3. ASSUME NEW i \in DOMAIN wire', NEW j \in DOMAIN wire', i < j
      PROVE  Succeeds(wire'[i], wire'[j], j - i)
  <2>1. n + i < n + j /\ (n + j) - (n + i) = j - i
    BY <1>1, <1>3
  <2>2. Succeeds(wire[n + i], wire[n + j], (n + j) - (n + i))
    BY <1>2, <2>1 DEF WireInStep
  <2>. QED  BY <1>2, <2>1, <2>2
<1>4. ASSUME NEW i \in DOMAIN wire'
      PROVE  /\ wire'[i].place <= Size(wire'[i].payload) /\ wire'[i].id <= peer.sent
             /\ wire'[i].key = Plain <=> wire'[i].id = 1
             /\ RestIsThere(wire'[i], Len(wire') - i)
  <2>1. Len(wire') - i = Len(wire) - (n + i)
    BY <1>1
  <2>2. /\ wire[n + i].place <= Size(wire[n + i].payload) /\ wire[n + i].id <= peer.sent
        /\ wire[n + i].key = Plain <=> wire[n + i].id = 1
        /\ RestIsThere(wire[n + i], Len(wire) - (n + i))
    BY <1>2 DEF WireInStep
  <2>. QED  BY <1>2, <2>1, <2>2
<1>. QED  BY <1>3, <1>4 DEF WireInStep, RestIsThere, Succeeds, SameMessage, NextKey

\* What is in the buffer after a read.
LEMMA ReadsKeepsBuffer ==
    ASSUME StreamTypeOK, WireInStep, BufferPartial, BufferInStep, NextInStep, KeyInStep,
           worker = "reads", wire # <<>>, NEW n \in 1..Len(wire), n <= BytesToRead,
           Took(n), Reads(n), receiveKey' = receiveKey + Decrypts(n),
           UNCHANGED <<encrypt, peer, delivered>>
    PROVE  /\ ~ Raced(n)
           /\ BufferInStep' /\ NextInStep' /\ KeyInStep'
           /\ readBuffer' # <<>> /\ readBuffer'[1] = FirstByte
           /\ Len(readBuffer') <= Size(FirstByte.payload)
           /\ Len(readBuffer') = Size(FirstByte.payload) <=> worker' = "delivers"
<1>1. /\ BufferTypes /\ wire \in Seq(Byte) /\ encrypt \in BOOLEAN /\ peer.sent \in Nat
      /\ delivered \in Nat /\ receiveKey \in Nat /\ peer.cipher \in Nat
  BY TypesOfStream
<1>2. readBuffer # <<>> => Len(readBuffer) < Size(readBuffer[1].payload)
  BY DEF BufferPartial
<1>. DEFINE L == Len(readBuffer)
            b == FirstByte
<1>3. /\ L + n <= Size(b.payload)
      /\ \A i \in 1..n : /\ wire[i] \in Byte
                         /\ SameMessage(b, wire[i])
                         /\ wire[i].place = L + i
      /\ Whole(n) <=> L + n = Size(b.payload)
  BY <1>1, <1>2, NextBytes
<1>4. /\ b \in Byte /\ b.id = delivered + 1 /\ b.id <= peer.sent
      /\ (b.key = Plain <=> b.id = 1)
      /\ readBuffer # <<>> =>
            \A i \in DOMAIN readBuffer : SameMessage(b, readBuffer[i]) /\ readBuffer[i].place = i
      /\ readBuffer = <<>> => b = wire[1]
      /\ \A j \in DOMAIN wire : Succeeds(b, wire[j], L - 1 + j)
      /\ RestIsThere(b, Len(wire) + L - 1)
  BY <1>1, FirstByteInStep
<1>5. /\ ~ Raced(n) /\ (encrypt \/ delivered = 0)
      /\ encrypt => receiveKey + Decrypts(n) = KeyFor(b, L + n)
  <2>1. ~ Raced(n)
    BY ReadFits DEF Reads
  <2>. QED  BY <1>1, <2>1, ReadFits
<1>6. /\ readBuffer' \in Seq(Byte) /\ Len(readBuffer') = L + n
      /\ DOMAIN readBuffer' = 1..(L + n) /\ DOMAIN readBuffer = 1..L
      /\ L \in Nat /\ n \in Nat /\ n >= 1 /\ Len(wire) \in Nat /\ DOMAIN wire = 1..Len(wire)
      /\ \A j \in 1..L : readBuffer'[j] = readBuffer[j]
      /\ \A i \in 1..n : readBuffer'[L + i] = wire[i]
      /\ readBuffer' # <<>> /\ (readBuffer = <<>> <=> L = 0)
  <2>1. L \in Nat /\ readBuffer \in Seq(Byte) /\ n \in Nat /\ n >= 1
    BY <1>1 DEF BufferTypes
  <2>2. readBuffer' \in Seq(Byte) /\ Len(readBuffer') = L + n
    BY DEF Reads
  <2>. QED  BY <1>1, <2>1, <2>2, EmptySeq DEF Reads
<1>7. readBuffer'[1] = b
  <2>1. CASE L = 0
    <3>1. readBuffer'[L + 1] = wire[1] /\ L + 1 = 1
      BY <1>6, <2>1
    <3>. QED  BY <1>4, <1>6, <2>1, <3>1
  <2>2. CASE L # 0
    BY <1>6, <2>2 DEF FirstByte
  <2>. QED  BY <2>1, <2>2
<1>8. ASSUME NEW i \in DOMAIN readBuffer'
      PROVE  SameMessage(b, readBuffer'[i]) /\ readBuffer'[i].place = i
  <2>1. CASE i <= L
    BY <1>4, <1>6, <2>1
  <2>2. CASE i > L
    <3>1. PICK k \in 1..n : i = L + k
      <4>1. i - L \in 1..n /\ i = L + (i - L)
        BY <1>6, <2>2
      <4>. QED  BY <4>1
    <3>2. readBuffer'[i] = wire[k]
      BY <1>6, <3>1
    <3>. QED  BY <1>3, <3>1, <3>2
  <2>. QED  BY <1>6, <2>1, <2>2
<1>9. /\ Len(wire') = Len(wire) - n /\ DOMAIN wire' = 1..(Len(wire) - n)
      /\ \A j \in DOMAIN wire' : wire'[j] = wire[n + j]
  BY DEF Took
<1>10. \A j \in DOMAIN wire' : Succeeds(b, wire'[j], (L + n) - 1 + j)
  <2>. SUFFICES ASSUME NEW j \in DOMAIN wire'
                PROVE  Succeeds(b, wire'[j], (L + n) - 1 + j)
    OBVIOUS
  <2>1. n + j \in DOMAIN wire /\ L - 1 + (n + j) = (L + n) - 1 + j
    BY <1>6, <1>9
  <2>2. Succeeds(b, wire[n + j], L - 1 + (n + j))
    BY <1>4, <2>1
  <2>. QED  BY <1>9, <2>1, <2>2
<1>11. RestIsThere(b, Len(wire') + (L + n) - 1)
  <2>1. Len(wire') + (L + n) - 1 = Len(wire) + L - 1
    BY <1>6, <1>9
  <2>. QED  BY <1>4, <2>1
<1>12. worker' = "delivers" <=> L + n = Size(b.payload)
  BY <1>3 DEF Reads
<1>. HIDE DEF L, b
<1>13. BufferInStep'
  <2>1. LET k == Len(wire') + Len(readBuffer') - 1
        IN  IF b.id = peer'.sent THEN k = Size(b.payload) - b.place /\ peer'.cipher = NextKey(b)
            ELSE k > Size(b.payload) - b.place
    BY <1>6, <1>11 DEF RestIsThere
  <2>2. \A j \in DOMAIN wire' : Succeeds(b, wire'[j], Len(readBuffer') - 1 + j)
    BY <1>6, <1>10
  <2>. QED  BY <1>4, <1>6, <1>7, <1>8, <1>12, <2>1, <2>2 DEF BufferInStep, SameMessage, Succeeds,
            RestIsThere, NextKey
<1>14. NextInStep'
  BY <1>6 DEF NextInStep
<1>15. KeyInStep'
  <2>1. ~ encrypt => receiveKey' = 0 /\ delivered = 0
    BY <1>1, <1>2, <1>5, <1>6, DecryptsFirst DEF KeyInStep
  <2>2. encrypt => receiveKey' = KeyFor(b, L + n) /\ delivered > 0
    BY <1>5 DEF KeyInStep
  <2>3. CASE ~ encrypt
    BY <2>1, <2>3 DEF KeyInStep
  <2>4. CASE encrypt
    BY <1>1, <1>6, <1>7, <2>2, <2>4 DEF KeyInStep, KeyFor, NextKey
  <2>. QED  BY <2>3, <2>4
<1>. QED  BY <1>3, <1>5, <1>6, <1>7, <1>12, <1>13, <1>14, <1>15 DEF L, b

----------------------------------------------------------------------------
(* The steps of the worker.                                                *)

LEMMA ReceiveKeepsTypes ==
    ASSUME StreamTypeOK, BufferPartial, Receive
    PROVE  StreamTypeOK'
<1>1. BufferTypes /\ wire \in Seq(Byte) /\ encrypt \in BOOLEAN /\ receiveKey \in Nat
  BY TypesOfStream
<1>2. worker = "reads"
  BY DEF Receive
<1>3. readBuffer # <<>> => Len(readBuffer) < Size(readBuffer[1].payload)
  BY <1>2 DEF BufferPartial
<1>4. /\ BytesToRead \in Nat \ {0} /\ Grown(Len(readBuffer)) \in FirstSize..SizeLimit
      /\ Len(readBuffer) <= Grown(Len(readBuffer))
      /\ Len(readBuffer) + BytesToRead <= Grown(Len(readBuffer))
  BY <1>1, <1>3, ReadLimits
<1>5. PICK n \in 1..Len(wire) :
        /\ n <= BytesToRead /\ Took(n)
        /\ receiveKey' = receiveKey + Decrypts(n)
        /\ Reads(n) \/ Loses(n)
        /\ IF Raced(n) THEN mishaps' = mishaps \cup {"raced"} ELSE mishaps' = mishaps
  BY <1>1, <1>4, ReceiveReads
<1>6. /\ bufferSize' = Grown(Len(readBuffer))
      /\ UNCHANGED <<encrypt, sendKey, sender, toServer, peer, link, delivered>>
  BY <1>1, <1>4, ReceiveReads
<1>7. receiveKey' \in Nat
  <2>1. n \in Nat
    BY <1>1
  <2>2. Decrypts(n) \in Nat
    BY <1>1, <1>3, <2>1, DecryptsFirst
  <2>. QED  BY <1>1, <1>5, <2>2
<1>8. readBuffer' \in Seq(Byte) /\ Len(readBuffer') <= bufferSize'
  <2>1. Len(readBuffer) \in Nat /\ n \in Nat /\ bufferSize' \in Int
    BY <1>1, <1>4, <1>6, Constants DEF BufferTypes
  <2>2. CASE Reads(n)
    BY <1>4, <1>5, <1>6, <2>1, <2>2 DEF Reads
  <2>3. CASE Loses(n)
    BY <1>1, <1>4, <1>6, <2>3 DEF Loses, BufferTypes
  <2>. QED  BY <1>5, <2>2, <2>3
<1>9. worker' \in {"waits", "reads", "delivers", "lost"}
  BY <1>5 DEF Reads, Loses
<1>10. mishaps' \subseteq {"raced", "leftover"}
  BY <1>5 DEF StreamTypeOK
<1>. QED
  BY <1>4, <1>5, <1>6, <1>7, <1>8, <1>9, <1>10 DEF StreamTypeOK, Took

LEMMA ReceiveKeepsInStep ==
    ASSUME StreamInv, Receive
    PROVE  WireInStep' /\ BufferPartial' /\ ReadsInStep' /\ AfterMishap'
<1>1. /\ StreamTypeOK /\ WireInStep /\ BufferPartial /\ ReadsInStep /\ AfterMishap
      /\ BufferTypes /\ wire \in Seq(Byte) /\ Len(readBuffer) \in Nat
      /\ worker = "reads" /\ link.up /\ wire # <<>>
  BY TypesOfStream DEF StreamInv, Receive, BufferPartial, BufferTypes
<1>2. readBuffer # <<>> => Len(readBuffer) < Size(readBuffer[1].payload)
  BY <1>1 DEF BufferPartial
<1>3. BytesToRead \in Nat \ {0}
  BY <1>1, <1>2, ReadLimits
<1>4. PICK n \in 1..Len(wire) :
        /\ n <= BytesToRead /\ Took(n)
        /\ receiveKey' = receiveKey + Decrypts(n)
        /\ Reads(n) \/ Loses(n)
        /\ IF Raced(n) THEN mishaps' = mishaps \cup {"raced"} ELSE mishaps' = mishaps
  BY <1>1, <1>3, ReceiveReads
<1>5. UNCHANGED <<encrypt, peer, link, delivered>>
  BY <1>1, <1>3, ReceiveReads
<1>6. WireInStep'
  BY <1>1, <1>4, <1>5, TookKeepsWire
<1>7. CASE mishaps = {}
  <2>1. BufferInStep /\ NextInStep /\ KeyInStep
    BY <1>1, <1>7 DEF ReadsInStep
  <2>2. CASE Reads(n)
    <3>1. /\ ~ Raced(n)
          /\ BufferInStep' /\ NextInStep' /\ KeyInStep'
          /\ readBuffer' # <<>> /\ readBuffer'[1] = FirstByte
          /\ Len(readBuffer') <= Size(FirstByte.payload)
          /\ Len(readBuffer') = Size(FirstByte.payload) <=> worker' = "delivers"
      BY <1>1, <1>4, <1>5, <2>1, <2>2, ReadsKeepsBuffer
    <3>2. mishaps' = {} /\ link'.up
      BY <1>1, <1>4, <1>5, <1>7, <3>1
    <3>3. Len(readBuffer') \in Nat /\ Size(FirstByte.payload) \in Nat
      <4>1. FirstByte \in Byte
        BY <1>1, <2>1, FirstByteInStep, TypesOfStream
      <4>2. FirstByte.payload \in Payloads
        BY <4>1, ByteFields
      <4>. QED  BY <2>2, <4>2, Sizes DEF Reads
    <3>4. BufferPartial'
      BY <3>1, <3>2, <3>3 DEF BufferPartial
    <3>5. worker' # "lost"
      BY <2>2 DEF Reads
    <3>. QED  BY <1>6, <3>1, <3>2, <3>4, <3>5 DEF ReadsInStep, AfterMishap, InStep
  <2>3. CASE Loses(n)
    <3>1. Raced(n)
      BY <1>1, <1>4, <2>1, <2>3, ReadFits DEF Loses
    <3>2. worker' = "lost" /\ readBuffer' = readBuffer /\ mishaps' # {} /\ link'.up
      BY <1>1, <1>4, <1>5, <2>3, <3>1 DEF Loses
    <3>. QED  BY <1>2, <1>6, <3>2 DEF BufferPartial, ReadsInStep, AfterMishap, InStep
  <2>. QED  BY <1>4, <2>2, <2>3
<1>8. CASE mishaps # {}
  <2>1. readBuffer # <<>> /\ wire[1].place = 1
    BY <1>1, <1>8 DEF AfterMishap
  <2>2. Len(readBuffer) >= 1
    BY <1>1, <2>1, EmptySeq DEF BufferTypes
  <2>3. ~ Fits(n, 1)
    BY <1>1, <2>1, <2>2 DEF Fits
  <2>4. 1 \in 1..n
    BY <1>1
  <2>5. Loses(n) /\ mishaps' # {}
    BY <1>4, <1>8, <2>3, <2>4 DEF Reads
  <2>. QED  BY <1>1, <1>2, <1>5, <1>6, <2>5 DEF Loses, BufferPartial, ReadsInStep, AfterMishap, InStep
<1>. QED  BY <1>7, <1>8

LEMMA ReceiveKeeps ==
    ASSUME StreamInv, Receive
    PROVE  StreamInv'
<1>1. /\ StreamTypeOK /\ BufferPartial /\ Handshake /\ ClientInStep
      /\ worker = "reads" /\ link.up /\ wire # <<>>
  BY DEF StreamInv, Receive, BufferPartial
<1>2. UNCHANGED <<encrypt, sendKey, sender, toServer, peer, link, delivered>>
  BY DEF Receive
<1>3. StreamTypeOK'
  BY <1>1, ReceiveKeepsTypes
<1>4. Handshake'
  BY <1>1, <1>2 DEF Handshake
<1>5. ClientInStep'
  BY <1>1, <1>2 DEF ClientInStep
<1>. QED  BY <1>3, <1>4, <1>5, ReceiveKeepsInStep DEF StreamInv

LEMMA WCMessageReadyKeeps ==
    ASSUME StreamInv, WCMessageReady
    PROVE  StreamInv'
<1>1. /\ StreamTypeOK /\ WireInStep /\ BufferPartial /\ ReadsInStep
      /\ Handshake /\ ClientInStep
      /\ BufferTypes /\ wire \in Seq(Byte) /\ peer.sent \in 0..MaxMessages /\ delivered \in Nat
      /\ encrypt \in BOOLEAN /\ peer.sent \in Nat
  BY TypesOfStream DEF StreamInv
<1>2. /\ worker = "delivers" /\ worker' = "reads" /\ delivered' = delivered + 1
      /\ readBuffer' = <<>>
      /\ UNCHANGED <<wire, bufferSize, cipherVars, sender, toServer, peer, link, mishaps>>
  BY DEF WCMessageReady
<1>3. /\ link.up /\ mishaps = {} /\ readBuffer # <<>>
      /\ BufferInStep /\ NextInStep /\ KeyInStep
  BY <1>1, <1>2 DEF BufferPartial, ReadsInStep
<1>. DEFINE b == readBuffer[1]
            n == Len(readBuffer)
<1>4. /\ b \in Byte /\ b.payload \in Payloads /\ n \in Nat /\ n >= 1 /\ 1 \in DOMAIN readBuffer
      /\ b.key \in Nat \cup {Plain}
  BY <1>1, <1>3, FirstOfBuffer, ByteFields
<1>5. /\ b.place = 1 /\ n = Size(b.payload) /\ b.id = delivered + 1 /\ b.id <= peer.sent
      /\ b.key = Plain <=> b.id = 1
      /\ \A j \in DOMAIN wire : Succeeds(b, wire[j], n - 1 + j)
      /\ RestIsThere(b, Len(wire) + n - 1)
  BY <1>2, <1>3, <1>4 DEF BufferInStep
<1>6. /\ Len(wire) \in Nat /\ DOMAIN wire = 1..Len(wire) /\ (wire = <<>> <=> Len(wire) = 0)
  BY <1>1, EmptySeq
<1>. HIDE DEF b, n
<1>7. wire # <<>> => wire[1].place = 1 /\ wire[1].id = delivered + 2 /\ wire[1].key = NextKey(b)
  <2>. SUFFICES ASSUME wire # <<>>
                PROVE  wire[1].place = 1 /\ wire[1].id = delivered + 2
                       /\ wire[1].key = NextKey(b)
    OBVIOUS
  <2>1. 1 \in DOMAIN wire /\ n - 1 + 1 = n /\ Size(b.payload) \in Nat
    BY <1>4, <1>6, Sizes
  <2>2. Succeeds(b, wire[1], n)
    BY <1>5, <2>1
  <2>3. b.place + n = Size(b.payload) + 1
    BY <1>4, <1>5
  <2>. QED  BY <1>1, <1>5, <2>1, <2>2, <2>3 DEF Succeeds
<1>8. wire = <<>> => peer.sent = delivered + 1 /\ peer.cipher = NextKey(b)
  <2>. SUFFICES ASSUME wire = <<>>
                PROVE  peer.sent = delivered + 1 /\ peer.cipher = NextKey(b)
    OBVIOUS
  <2>1. Len(wire) + n - 1 = Size(b.payload) - b.place
    BY <1>4, <1>5, <1>6
  <2>2. ~ (Len(wire) + n - 1 > Size(b.payload) - b.place)
    BY <1>4, <1>6, <2>1
  <2>. QED  BY <1>5, <2>2 DEF RestIsThere
<1>9. receiveKey = NextKey(b) /\ (~ encrypt => receiveKey = 0)
  <2>1. CASE delivered = 0
    <3>1. b.key = Plain /\ receiveKey = 0
      BY <1>3, <1>5, <2>1 DEF KeyInStep
    <3>. QED  BY <3>1 DEF NextKey
  <2>2. CASE delivered # 0
    <3>1. b.key # Plain /\ delivered > 0
      BY <1>1, <1>5, <2>2
    <3>2. receiveKey = IF n <= Ciphered(b.payload) THEN b.key + n ELSE NextKey(b)
      BY <1>3, <3>1 DEF KeyInStep, b, n
    <3>3. n >= Ciphered(b.payload) /\ Ciphered(b.payload) \in Nat
      BY <1>4, <1>5, Sizes
    <3>4. receiveKey = NextKey(b)
      BY <1>4, <3>1, <3>2, <3>3 DEF NextKey
    <3>. QED  BY <1>3, <3>4 DEF KeyInStep
  <2>. QED  BY <2>1, <2>2
<1>10. StreamTypeOK'
  <2>1. delivered' \in 0..MaxMessages
    BY <1>1, <1>2, <1>5, Constants
  <2>2. readBuffer' \in Seq(Byte) /\ Len(readBuffer') <= bufferSize'
    BY <1>1, <1>2, Constants DEF BufferTypes
  <2>. QED  BY <1>1, <1>2, <2>1, <2>2 DEF StreamTypeOK, cipherVars
<1>11. WireInStep'
  BY <1>1, <1>2 DEF WireInStep, RestIsThere
<1>12. BufferPartial' /\ AfterMishap'
  BY <1>2, <1>3 DEF BufferPartial, AfterMishap, InStep
<1>13. BufferInStep' /\ NextInStep'
  BY <1>1, <1>2, <1>7, <1>8 DEF BufferInStep, NextInStep
<1>14. KeyInStep'
  BY <1>1, <1>2, <1>3, <1>7, <1>8, <1>9 DEF KeyInStep, cipherVars
<1>15. Handshake'
  BY <1>1, <1>2, <1>5 DEF Handshake
<1>16. ClientInStep'
  BY <1>1, <1>2 DEF ClientInStep, cipherVars
<1>. QED
  BY <1>10, <1>11, <1>12, <1>13, <1>14, <1>15, <1>16 DEF StreamInv, ReadsInStep

LEMMA BeginReadsKeeps ==
    ASSUME StreamInv, BeginReads
    PROVE  StreamInv'
<1>1. /\ worker = "waits" /\ link.up /\ worker' = "reads"
      /\ UNCHANGED <<wire, readBuffer, bufferSize, cipherVars, sender, toServer, peer,
                     link, delivered, mishaps>>
  BY DEF BeginReads
<1>2. /\ StreamTypeOK /\ WireInStep /\ BufferPartial /\ ReadsInStep /\ AfterMishap
      /\ Handshake /\ ClientInStep
  BY DEF StreamInv
<1>3. StreamTypeOK'
  BY <1>1, <1>2 DEF StreamTypeOK, cipherVars
<1>4. WireInStep' /\ Handshake' /\ ClientInStep'
  BY <1>1, <1>2 DEF WireInStep, RestIsThere, Handshake, ClientInStep, cipherVars
<1>5. BufferPartial' /\ AfterMishap'
  BY <1>1, <1>2 DEF BufferPartial, AfterMishap, InStep
<1>6. ReadsInStep'
  BY <1>1, <1>2 DEF ReadsInStep, BufferInStep, NextInStep, KeyInStep, RestIsThere, cipherVars
<1>. QED  BY <1>3, <1>4, <1>5, <1>6 DEF StreamInv

LEMMA EndReadsKeeps ==
    ASSUME StreamInv, EndReads
    PROVE  StreamInv'
<1>1. /\ worker = "reads" /\ worker' = "waits"
      /\ bufferSize' = Grown(Len(readBuffer))
      /\ UNCHANGED <<wire, readBuffer, cipherVars, sender, toServer, peer, link,
                     delivered, mishaps>>
  BY DEF EndReads
<1>2. /\ StreamTypeOK /\ WireInStep /\ BufferPartial /\ ReadsInStep /\ AfterMishap
      /\ Handshake /\ ClientInStep /\ BufferTypes
  BY TypesOfStream DEF StreamInv
<1>3. StreamTypeOK'
  <2>1. readBuffer # <<>> => Len(readBuffer) < Size(readBuffer[1].payload)
    BY <1>1, <1>2 DEF BufferPartial
  <2>2. bufferSize' \in FirstSize..SizeLimit /\ Len(readBuffer) <= bufferSize'
    BY <1>1, <1>2, <2>1, ReadLimits
  <2>. QED  BY <1>1, <1>2, <2>2 DEF StreamTypeOK, cipherVars
<1>4. WireInStep' /\ Handshake' /\ ClientInStep'
  BY <1>1, <1>2 DEF WireInStep, RestIsThere, Handshake, ClientInStep, cipherVars
<1>5. BufferPartial' /\ AfterMishap'
  BY <1>1, <1>2 DEF BufferPartial, AfterMishap, InStep
<1>6. ReadsInStep'
  BY <1>1, <1>2 DEF ReadsInStep, BufferInStep, NextInStep, KeyInStep, RestIsThere, cipherVars
<1>. QED  BY <1>3, <1>4, <1>5, <1>6 DEF StreamInv

LEMMA SendKeeps ==
    ASSUME StreamInv, Send
    PROVE  StreamInv'
<1>1. /\ sender = "none" /\ link.up /\ delivered > 0 /\ link.sends < MaxSends
      /\ link' = [link EXCEPT !.sends = @ + 1]
      /\ toServer' = Append(toServer, SendCipher)
      /\ sendKey' = IF encrypt THEN sendKey + 1 ELSE sendKey
      /\ sender' = IF encrypt THEN "none" ELSE "sent"
      /\ UNCHANGED <<wire, readVars, encrypt, receiveKey, peer, delivered, mishaps>>
  BY DEF Send
<1>2. /\ StreamTypeOK /\ WireInStep /\ BufferPartial /\ ReadsInStep /\ AfterMishap
      /\ Handshake /\ ClientInStep /\ encrypt \in BOOLEAN /\ sendKey \in Nat
      /\ peer.receives \in Nat /\ peer.encrypts \in BOOLEAN
  BY TypesOfStream DEF StreamInv
<1>3. /\ link \in [number : 1..MaxConnects, up : BOOLEAN, sends : 0..MaxSends]
      /\ toServer \in Seq(Nat \cup {Plain}) /\ Len(toServer) \in Nat
  BY <1>2 DEF StreamTypeOK
<1>4. /\ link' \in [number : 1..MaxConnects, up : BOOLEAN, sends : 0..MaxSends]
      /\ link'.up = link.up
  <2>1. link.sends + 1 \in 0..MaxSends
    BY <1>1, <1>3, Constants
  <2>. QED  BY <1>1, <1>3, <2>1
<1>5. SendCipher \in Nat \cup {Plain}
  BY <1>2 DEF SendCipher
<1>6. /\ toServer' \in Seq(Nat \cup {Plain}) /\ Len(toServer') = Len(toServer) + 1
      /\ \A i \in 1..Len(toServer) : toServer'[i] = toServer[i]
      /\ toServer'[Len(toServer) + 1] = SendCipher
      /\ DOMAIN toServer' = 1..(Len(toServer) + 1)
      /\ DOMAIN toServer = 1..Len(toServer) /\ toServer' # <<>>
  <2>1. /\ toServer' \in Seq(Nat \cup {Plain}) /\ Len(toServer') = Len(toServer) + 1
        /\ \A i \in 1..Len(toServer) : toServer'[i] = toServer[i]
        /\ toServer'[Len(toServer) + 1] = SendCipher
    BY <1>1, <1>3, <1>5, AppendProperties
  <2>. QED  BY <1>3, <2>1, EmptySeq
<1>7. StreamTypeOK'
  <2>1. sendKey' \in Nat /\ sender' \in {"none", "sent", "keyed"}
    BY <1>1, <1>2
  <2>2. toServer' \in Seq(Nat \cup {Plain})
    BY <1>6
  <2>. QED  BY <1>1, <1>2, <1>4, <2>1, <2>2 DEF StreamTypeOK, readVars
<1>8. WireInStep'
  BY <1>1, <1>2 DEF WireInStep, RestIsThere
<1>9. BufferPartial' /\ AfterMishap'
  BY <1>1, <1>2, <1>4 DEF BufferPartial, AfterMishap, InStep, readVars
<1>10. ReadsInStep'
  BY <1>1, <1>2, <1>4 DEF ReadsInStep, BufferInStep, NextInStep, KeyInStep, RestIsThere, readVars
<1>11. Handshake'
  BY <1>1, <1>2, <1>4 DEF Handshake
<1>12. ClientInStep'
  <2>1. CASE encrypt
    <3>1. SendCipher = sendKey /\ encrypt' /\ sender' = "none" /\ sendKey' = sendKey + 1
          /\ peer' = peer
      BY <1>1, <2>1 DEF SendCipher
    <3>2. CASE peer.encrypts
      <4>1. /\ sendKey = peer.receives + Len(toServer)
            /\ \A i \in 1..Len(toServer) : toServer[i] = peer.receives + i - 1
        BY <1>1, <1>2, <1>6, <2>1, <3>2 DEF ClientInStep
      <4>2. sendKey' = peer.receives + Len(toServer')
        BY <1>2, <1>3, <1>6, <3>1, <4>1
      <4>3. ASSUME NEW i \in DOMAIN toServer'
            PROVE  toServer'[i] = peer.receives + i - 1
        <5>1. CASE i \in 1..Len(toServer)
          BY <1>6, <4>1, <5>1
        <5>2. CASE i = Len(toServer) + 1
          BY <1>2, <1>3, <1>6, <3>1, <4>1, <5>2
        <5>. QED  BY <1>3, <1>6, <5>1, <5>2
      <4>. QED  BY <1>6, <3>1, <3>2, <4>2, <4>3 DEF ClientInStep
    <3>3. CASE ~ peer.encrypts
      <4>1. /\ toServer # <<>> /\ peer.receives = 0 /\ sendKey = Len(toServer) - 1
            /\ \A i \in 1..Len(toServer) : toServer[i] = IF i = 1 THEN Plain ELSE i - 2
        BY <1>1, <1>2, <1>6, <2>1, <3>3 DEF ClientInStep
      <4>2. Len(toServer) >= 1
        BY <1>3, <4>1, EmptySeq
      <4>3. sendKey' = Len(toServer') - 1
        BY <1>2, <1>3, <1>6, <3>1, <4>1
      <4>4. \A i \in DOMAIN toServer' : toServer'[i] = IF i = 1 THEN Plain ELSE i - 2
        BY SMTT(30), <1>2, <1>3, <1>6, <3>1, <4>1, <4>2
      <4>. QED  BY <1>6, <3>1, <3>3, <4>1, <4>3, <4>4 DEF ClientInStep
    <3>. QED  BY <3>2, <3>3
  <2>2. CASE ~ encrypt
    <3>1. /\ ~ peer.encrypts /\ toServer = <<>> /\ sendKey = 0 /\ SendCipher = Plain
      BY <1>1, <1>2, <2>2 DEF ClientInStep, SendCipher
    <3>2. toServer' = <<Plain>>
      BY <1>1, <3>1
    <3>. QED  BY <1>1, <1>2, <2>2, <3>1, <3>2 DEF ClientInStep
  <2>. QED  BY <2>1, <2>2
<1>. QED  BY <1>7, <1>8, <1>9, <1>10, <1>11, <1>12 DEF StreamInv

\* The cipher is set anew when nothing has been read with it.
LEMMA SetEncryptionKeyKeeps ==
    ASSUME StreamInv, SetEncryptionKey
    PROVE  StreamInv'
<1>1. /\ sender = "sent" /\ sender' = "keyed" /\ receiveKey' = 0 /\ sendKey' = 0
      /\ UNCHANGED <<wire, readVars, encrypt, toServer, peer, link, delivered, mishaps>>
  BY DEF SetEncryptionKey
<1>2. /\ StreamTypeOK /\ WireInStep /\ BufferPartial /\ ReadsInStep /\ AfterMishap
      /\ Handshake /\ ClientInStep
  BY DEF StreamInv
<1>3. link.up /\ ~ encrypt /\ sendKey = 0
  BY <1>1, <1>2 DEF Handshake, ClientInStep
<1>4. StreamTypeOK'
  BY <1>1, <1>2 DEF StreamTypeOK, readVars
<1>5. WireInStep' /\ BufferPartial' /\ AfterMishap' /\ Handshake'
  BY <1>1, <1>2 DEF WireInStep, RestIsThere, BufferPartial, AfterMishap, InStep, Handshake, readVars
<1>6. ReadsInStep'
  BY <1>1, <1>2, <1>3 DEF ReadsInStep, BufferInStep, NextInStep, KeyInStep, RestIsThere, readVars
<1>7. ClientInStep'
  BY <1>1, <1>2, <1>3 DEF ClientInStep
<1>. QED  BY <1>4, <1>5, <1>6, <1>7 DEF StreamInv

LEMMA SetEncryptionKeeps ==
    ASSUME StreamInv, SetEncryption
    PROVE  StreamInv'
<1>1. /\ sender = "keyed" /\ sender' = "none" /\ encrypt' = TRUE
      /\ receiveKey' = 0 /\ sendKey' = 0
      /\ UNCHANGED <<wire, readVars, toServer, peer, link, delivered, mishaps>>
  BY DEF SetEncryption
<1>2. /\ StreamTypeOK /\ WireInStep /\ BufferPartial /\ ReadsInStep /\ AfterMishap
      /\ Handshake /\ ClientInStep
  BY DEF StreamInv
<1>3. link.up /\ ~ encrypt /\ sendKey = 0 /\ delivered > 0
  BY <1>1, <1>2 DEF Handshake, ClientInStep
<1>4. StreamTypeOK'
  BY <1>1, <1>2 DEF StreamTypeOK, readVars
<1>5. WireInStep' /\ BufferPartial' /\ AfterMishap' /\ Handshake'
  BY <1>1, <1>2 DEF WireInStep, RestIsThere, BufferPartial, AfterMishap, InStep, Handshake, readVars
<1>6. ReadsInStep'
  BY <1>1, <1>2, <1>3 DEF ReadsInStep, BufferInStep, NextInStep, KeyInStep, RestIsThere, readVars
<1>7. ClientInStep'
  <2>1. CASE ~ peer.encrypts /\ toServer = <<Plain>>
    <3>1. Len(toServer) = 1 /\ DOMAIN toServer = {1} /\ toServer[1] = Plain /\ toServer # <<>>
      BY <2>1
    <3>2. peer.receives = 0
      BY <1>2, <2>1 DEF Handshake
    <3>. QED  BY <1>1, <2>1, <3>1, <3>2 DEF ClientInStep
  <2>2. CASE peer.encrypts /\ toServer = <<>> /\ peer.receives = 0
    BY <1>1, <2>2 DEF ClientInStep
  <2>. QED  BY <1>1, <1>2, <1>3, <2>1, <2>2 DEF ClientInStep
<1>. QED  BY <1>4, <1>5, <1>6, <1>7 DEF StreamInv

LEMMA DisconnectKeeps ==
    ASSUME StreamInv, Disconnect
    PROVE  StreamInv'
<1>1. /\ link.up /\ sender = "none" /\ worker \in {"waits", "lost"}
      /\ link' = [link EXCEPT !.up = FALSE] /\ wire' = <<>> /\ toServer' = <<>>
      /\ UNCHANGED <<readVars, cipherVars, sender, peer, delivered, mishaps>>
  BY DEF Disconnect
<1>2. /\ StreamTypeOK /\ WireInStep /\ BufferPartial /\ ReadsInStep /\ AfterMishap
      /\ Handshake /\ ClientInStep
  BY DEF StreamInv
<1>3. /\ link' \in [number : 1..MaxConnects, up : BOOLEAN, sends : 0..MaxSends]
      /\ ~ link'.up
  BY <1>1, <1>2 DEF StreamTypeOK
<1>4. StreamTypeOK'
  BY <1>1, <1>2, <1>3 DEF StreamTypeOK, readVars, cipherVars
<1>5. WireInStep'
  BY <1>1 DEF WireInStep
<1>6. BufferPartial' /\ AfterMishap' /\ Handshake'
  BY <1>1, <1>2, <1>3 DEF BufferPartial, AfterMishap, InStep, Handshake, readVars
<1>7. ReadsInStep' /\ ClientInStep'
  BY <1>3 DEF ReadsInStep, ClientInStep
<1>. QED  BY <1>4, <1>5, <1>6, <1>7 DEF StreamInv

LEMMA ConnectKeeps ==
    ASSUME StreamInv, Connect
    PROVE  StreamInv'
<1>1. /\ ~ link.up /\ link.number < MaxConnects
      /\ link' = [number |-> link.number + 1, up |-> TRUE, sends |-> 0]
      /\ encrypt' = FALSE /\ receiveKey' = 0 /\ sendKey' = 0
      /\ worker' = "waits" /\ delivered' = 0
      /\ peer' = [encrypts |-> FALSE, receives |-> 0, cipher |-> 0, sent |-> 0]
      /\ mishaps' = {o \in {"leftover"} : readBuffer # <<>>}
      /\ UNCHANGED <<wire, readBuffer, bufferSize, sender, toServer>>
  BY DEF Connect
<1>2. /\ StreamTypeOK /\ WireInStep /\ BufferPartial /\ ReadsInStep /\ AfterMishap
      /\ Handshake /\ ClientInStep
  BY DEF StreamInv
<1>3. wire = <<>> /\ toServer = <<>> /\ sender = "none" /\ worker # "delivers"
  BY <1>1, <1>2 DEF Handshake, BufferPartial
<1>4. link'.up /\ ~ peer'.encrypts /\ peer'.sent = 0 /\ peer'.cipher = 0 /\ peer'.receives = 0
      /\ (mishaps' = {} <=> readBuffer = <<>>)
  BY <1>1
<1>5. StreamTypeOK'
  <2>1. link.number \in 1..MaxConnects
    BY <1>2 DEF StreamTypeOK
  <2>2. link' \in [number : 1..MaxConnects, up : BOOLEAN, sends : 0..MaxSends]
    BY <1>1, <2>1, Constants
  <2>3. peer' \in [encrypts : BOOLEAN, receives : Nat, cipher : Nat, sent : 0..MaxMessages]
    BY <1>1, Constants
  <2>4. delivered' \in 0..MaxMessages /\ mishaps' \subseteq {"raced", "leftover"}
    BY <1>1, Constants
  <2>. QED  BY <1>1, <1>2, <2>2, <2>3, <2>4 DEF StreamTypeOK
<1>6. WireInStep'
  BY <1>1, <1>3 DEF WireInStep
<1>7. BufferPartial' /\ AfterMishap' /\ Handshake'
  BY <1>1, <1>2, <1>3, <1>4 DEF BufferPartial, AfterMishap, InStep, Handshake
<1>8. ReadsInStep'
  BY <1>1, <1>3, <1>4 DEF ReadsInStep, BufferInStep, NextInStep, KeyInStep
<1>9. ClientInStep'
  BY <1>1, <1>3, <1>4 DEF ClientInStep
<1>. QED  BY <1>5, <1>6, <1>7, <1>8, <1>9 DEF StreamInv

LEMMA ServerReceivesKeeps ==
    ASSUME StreamInv, ServerReceives
    PROVE  StreamInv'
<1>1. /\ toServer # <<>> /\ toServer' = Tail(toServer)
      /\ peer' = [peer EXCEPT !.encrypts = TRUE,
                              !.receives = IF peer.encrypts THEN @ + 1 ELSE @]
      /\ UNCHANGED <<wire, readVars, cipherVars, sender, link, delivered, mishaps>>
  BY DEF ServerReceives
<1>2. /\ StreamTypeOK /\ WireInStep /\ BufferPartial /\ ReadsInStep /\ AfterMishap
      /\ Handshake /\ ClientInStep /\ peer.receives \in Nat /\ peer.encrypts \in BOOLEAN
      /\ encrypt \in BOOLEAN /\ sendKey \in Nat
  BY TypesOfStream DEF StreamInv
<1>3. /\ peer' \in [encrypts : BOOLEAN, receives : Nat, cipher : Nat, sent : 0..MaxMessages]
      /\ peer'.sent = peer.sent /\ peer'.cipher = peer.cipher /\ peer'.encrypts
      /\ peer'.receives = IF peer.encrypts THEN peer.receives + 1 ELSE peer.receives
  <2>1. PICK r \in Nat : r = IF peer.encrypts THEN peer.receives + 1 ELSE peer.receives
    BY <1>2
  <2>2. peer' = [peer EXCEPT !.encrypts = TRUE, !.receives = r]
    BY <1>1, <2>1
  <2>3. peer \in [encrypts : BOOLEAN, receives : Nat, cipher : Nat, sent : 0..MaxMessages]
    BY <1>2 DEF StreamTypeOK
  <2>. QED  BY <2>1, <2>2, <2>3
<1>4. link.up /\ peer.sent # 0
  BY <1>1, <1>2 DEF Handshake
<1>5. /\ toServer' \in Seq(Nat \cup {Plain}) /\ Len(toServer) \in Nat /\ Len(toServer) >= 1
      /\ Len(toServer') = Len(toServer) - 1
      /\ DOMAIN toServer' = 1..(Len(toServer) - 1) /\ DOMAIN toServer = 1..Len(toServer)
      /\ \A i \in 1..(Len(toServer) - 1) : toServer'[i] = toServer[i + 1]
  <2>1. toServer \in Seq(Nat \cup {Plain})
    BY <1>2 DEF StreamTypeOK
  <2>. QED  BY <1>1, <2>1, EmptySeq
<1>6. StreamTypeOK'
  BY <1>1, <1>2, <1>3, <1>5 DEF StreamTypeOK, readVars, cipherVars
<1>7. WireInStep' /\ BufferPartial' /\ AfterMishap' /\ Handshake'
  BY <1>1, <1>2, <1>3, <1>4
  DEF WireInStep, RestIsThere, BufferPartial, AfterMishap, InStep, Handshake, readVars
<1>8. ReadsInStep'
  BY <1>1, <1>2, <1>3
  DEF ReadsInStep, BufferInStep, NextInStep, KeyInStep, RestIsThere, readVars, cipherVars
<1>9. ClientInStep'
  <2>0. encrypt' = encrypt /\ sendKey' = sendKey /\ sender' = sender /\ link' = link
    BY <1>1 DEF cipherVars
  <2>1. CASE ~ encrypt
    <3>1. sender # "none" /\ ~ peer.encrypts /\ toServer = <<Plain>> /\ sendKey = 0
      BY <1>1, <1>2, <1>4, <2>1 DEF ClientInStep
    <3>2. toServer' = <<>> /\ peer'.receives = 0
      BY <1>1, <1>2, <1>3, <3>1 DEF Handshake
    <3>. QED  BY <1>3, <2>0, <2>1, <3>1, <3>2 DEF ClientInStep
  <2>2. CASE encrypt /\ peer.encrypts
    <3>1. /\ sender = "none" /\ sendKey = peer.receives + Len(toServer)
          /\ \A i \in 1..Len(toServer) : toServer[i] = peer.receives + i - 1
      BY <1>2, <1>4, <1>5, <2>2 DEF ClientInStep
    <3>2. /\ sendKey = peer'.receives + Len(toServer')
          /\ \A i \in 1..(Len(toServer) - 1) : toServer'[i] = peer'.receives + i - 1
      <4>1. peer'.receives = peer.receives + 1
        BY <1>3, <2>2
      <4>2. sendKey = peer'.receives + Len(toServer')
        BY <1>2, <1>5, <3>1, <4>1
      <4>3. ASSUME NEW i \in 1..(Len(toServer) - 1)
            PROVE  toServer'[i] = peer'.receives + i - 1
        <5>1. i + 1 \in 1..Len(toServer) /\ toServer'[i] = toServer[i + 1]
          BY <1>5
        <5>2. toServer[i + 1] = peer.receives + (i + 1) - 1
          BY <3>1, <5>1
        <5>. QED  BY <1>2, <4>1, <5>1, <5>2
      <4>. QED  BY <4>2, <4>3
    <3>. QED  BY <1>3, <1>5, <2>0, <2>2, <3>1, <3>2 DEF ClientInStep
  <2>3. CASE encrypt /\ ~ peer.encrypts
    <3>1. /\ sender = "none" /\ peer.receives = 0 /\ sendKey = Len(toServer) - 1
          /\ \A i \in 1..Len(toServer) : toServer[i] = IF i = 1 THEN Plain ELSE i - 2
      BY <1>2, <1>4, <1>5, <2>3 DEF ClientInStep
    <3>2. /\ sendKey = peer'.receives + Len(toServer')
          /\ \A i \in 1..(Len(toServer) - 1) : toServer'[i] = peer'.receives + i - 1
      BY <1>2, <1>3, <1>5, <2>3, <3>1
    <3>. QED  BY <1>3, <1>5, <2>0, <2>3, <3>1, <3>2 DEF ClientInStep
  <2>. QED  BY <1>2, <2>1, <2>2, <2>3
<1>. QED  BY <1>6, <1>7, <1>8, <1>9 DEF StreamInv

----------------------------------------------------------------------------
(* The server sends a message.                                             *)

\* The bytes of a message of the server.
KeySent == IF peer.encrypts THEN peer.cipher ELSE Plain
Sent(p) ==
    [i \in 1..Size(p) |-> [id |-> peer.sent + 1, payload |-> p, place |-> i, key |-> KeySent]]

\* The server has sent a message with a payload of size p.
HasSent(p) ==
    /\ wire' = wire \o Sent(p)
    /\ peer' = [peer EXCEPT !.sent = @ + 1,
                            !.cipher = IF peer.encrypts THEN @ + Ciphered(p) ELSE @]

\* The message behind the others: wire' is wire and n bytes more.
LEMMA SentBytes ==
    ASSUME StreamTypeOK, Handshake, link.up, peer.sent < MaxMessages,
           peer.encrypts \/ peer.sent = 0, NEW p \in Payloads, HasSent(p)
    PROVE  /\ wire' \in Seq(Byte) /\ Len(wire) \in Nat /\ Len(wire') = Len(wire) + Size(p)
           /\ \A i \in 1..Len(wire) : wire'[i] = wire[i]
           /\ \A i \in 1..Size(p) :
                LET b == wire'[Len(wire) + i]
                IN  /\ b \in Byte /\ b.id = peer.sent + 1 /\ b.payload = p /\ b.place = i
                    /\ b.key = KeySent
           /\ KeySent = Plain <=> peer.sent = 0
           /\ peer' \in [encrypts : BOOLEAN, receives : Nat, cipher : Nat, sent : 0..MaxMessages]
           /\ peer'.sent = peer.sent + 1 /\ peer'.encrypts = peer.encrypts
           /\ peer'.receives = peer.receives
           /\ peer'.cipher = IF KeySent = Plain THEN 0 ELSE KeySent + Ciphered(p)
           /\ KeySent = Plain => peer.cipher = 0
           /\ KeySent # Plain => peer.cipher = KeySent
<1>1. /\ wire \in Seq(Byte) /\ Len(wire) \in Nat
      /\ peer.encrypts \in BOOLEAN /\ peer.cipher \in Nat /\ peer.sent \in Nat
      /\ peer.receives \in Nat
      /\ peer \in [encrypts : BOOLEAN, receives : Nat, cipher : Nat, sent : 0..MaxMessages]
      /\ MaxMessages \in Nat /\ Plain = -1
  BY TypesOfStream, Constants DEF StreamTypeOK
<1>2. Size(p) \in Nat /\ Ciphered(p) \in Nat /\ p \in Payloads
  BY Sizes
<1>3. /\ KeySent \in Nat \cup {Plain} /\ (KeySent = Plain <=> ~ peer.encrypts)
      /\ (KeySent = Plain <=> peer.sent = 0)
      /\ (KeySent = Plain => peer.cipher = 0)
      /\ (KeySent # Plain => peer.cipher = KeySent)
  BY <1>1 DEF KeySent, Handshake
<1>4. ASSUME NEW i \in 1..Size(p)
      PROVE  Sent(p)[i] = [id |-> peer.sent + 1, payload |-> p, place |-> i, key |-> KeySent]
             /\ Sent(p)[i] \in Byte
  <2>1. Sent(p)[i] = [id |-> peer.sent + 1, payload |-> p, place |-> i, key |-> KeySent]
    BY DEF Sent
  <2>2. peer.sent + 1 \in 1..MaxMessages /\ i \in Nat \ {0}
    BY <1>1, <1>2
  <2>. QED  BY <1>3, <2>1, <2>2 DEF Byte
<1>5. Sent(p) \in Seq(Byte) /\ Len(Sent(p)) = Size(p)
  <2>1. Sent(p) \in [1..Size(p) -> Byte]
    BY <1>4 DEF Sent
  <2>2. Sent(p) \in Seq(Byte)
    BY <1>2, <2>1, SeqDef
  <2>3. DOMAIN Sent(p) = 1..Size(p)
    BY <2>1
  <2>. QED  BY <1>2, <2>2, <2>3, LenProperties
<1>6. /\ wire' \in Seq(Byte) /\ Len(wire') = Len(wire) + Size(p)
      /\ \A i \in 1..Len(wire) : wire'[i] = wire[i]
      /\ \A i \in 1..Size(p) : wire'[Len(wire) + i] = Sent(p)[i]
  <2>. DEFINE s == Sent(p)
  <2>1. wire' = wire \o s /\ s \in Seq(Byte) /\ Len(s) = Size(p)
    BY <1>5 DEF HasSent
  <2>. HIDE DEF s
  <2>2. wire \o s \in Seq(Byte) /\ Len(wire \o s) = Len(wire) + Len(s)
    BY <1>1, <2>1, ConcatProperties
  <2>3. \A i \in 1..(Len(wire) + Len(s)) :
            (wire \o s)[i] = IF i <= Len(wire) THEN wire[i] ELSE s[i - Len(wire)]
    BY <1>1, <2>1, ConcatProperties
  <2>4. ASSUME NEW i \in 1..Len(wire) PROVE wire'[i] = wire[i]
    <3>1. i \in 1..(Len(wire) + Len(s)) /\ i <= Len(wire)
      BY <1>1, <1>2, <2>1
    <3>. QED  BY <2>1, <2>3, <3>1
  <2>5. ASSUME NEW i \in 1..Size(p) PROVE wire'[Len(wire) + i] = s[i]
    <3>1. PICK j \in Int : j = Len(wire) + i
      BY <1>1
    <3>2. j \in 1..(Len(wire) + Len(s)) /\ ~ (j <= Len(wire)) /\ j - Len(wire) = i
      BY <1>1, <1>2, <2>1, <3>1
    <3>3. (wire \o s)[j] = s[j - Len(wire)]
      BY <2>3, <3>2
    <3>. QED  BY <2>1, <3>1, <3>2, <3>3
  <2>. QED  BY <2>1, <2>2, <2>4, <2>5 DEF s
<1>7. /\ peer' \in [encrypts : BOOLEAN, receives : Nat, cipher : Nat, sent : 0..MaxMessages]
      /\ peer'.sent = peer.sent + 1 /\ peer'.encrypts = peer.encrypts
      /\ peer'.receives = peer.receives
      /\ peer'.cipher = IF KeySent = Plain THEN 0 ELSE KeySent + Ciphered(p)
  <2>1. PICK c \in Nat : c = IF peer.encrypts THEN peer.cipher + Ciphered(p) ELSE peer.cipher
    BY <1>1, <1>2
  <2>2. PICK m \in 0..MaxMessages : m = peer.sent + 1
    BY <1>1
  <2>3. peer' = [peer EXCEPT !.sent = m, !.cipher = c]
    BY <2>1, <2>2 DEF HasSent
  <2>4. c = IF KeySent = Plain THEN 0 ELSE KeySent + Ciphered(p)
    BY <1>3, <2>1
  <2>. QED  BY <1>1, <2>2, <2>3, <2>4
<1>8. ASSUME NEW i \in 1..Size(p)
      PROVE  LET b == wire'[Len(wire) + i]
             IN  /\ b \in Byte /\ b.id = peer.sent + 1 /\ b.payload = p /\ b.place = i
                 /\ b.key = KeySent
  <2>1. PICK b : b = Sent(p)[i]
    OBVIOUS
  <2>2. /\ b = [id |-> peer.sent + 1, payload |-> p, place |-> i, key |-> KeySent]
        /\ b \in Byte
    BY <1>4, <2>1
  <2>3. wire'[Len(wire) + i] = b
    BY <1>6, <2>1
  <2>4. /\ b.id = peer.sent + 1 /\ b.payload = p /\ b.place = i /\ b.key = KeySent
    BY <2>2
  <2>. QED  BY <2>2, <2>3, <2>4
<1>. QED  BY <1>1, <1>3, <1>6, <1>7, <1>8

\* What RestIsThere says of the stream once the message has been sent.
RestIsSent(b, n) ==
    IF b.id = peer'.sent THEN n = Size(b.payload) - b.place /\ peer'.cipher = NextKey(b)
    ELSE n > Size(b.payload) - b.place

\* A byte that had the rest of its message behind it still has it; and the message that was
\* sent comes next if it was the last one.
LEMMA SentIsNext ==
    ASSUME StreamTypeOK, Handshake, link.up, peer.sent < MaxMessages,
           peer.encrypts \/ peer.sent = 0, NEW p \in Payloads, HasSent(p),
           NEW b \in Byte, b.id <= peer.sent, NEW m \in Nat, RestIsThere(b, m),
           NEW n \in Nat, n = m + Size(p)
    PROVE  /\ RestIsSent(b, n)
           /\ \A j \in 1..Size(p) : Succeeds(b, wire'[Len(wire) + j], m + j)
<1>1. /\ b.id \in 1..MaxMessages /\ b.place \in Nat \ {0} /\ b.payload \in Payloads
      /\ Size(b.payload) \in Nat /\ Size(p) \in Nat /\ Size(p) >= 2
      /\ peer.sent \in Nat /\ MaxMessages \in Nat
  <2>1. /\ b.id \in 1..MaxMessages /\ b.place \in Nat \ {0} /\ b.payload \in Payloads
    BY ByteFields
  <2>2. Size(b.payload) \in Nat
    BY <2>1, Sizes
  <2>3. Size(p) \in Nat /\ Size(p) >= 2
    BY Sizes
  <2>. QED  BY <2>1, <2>2, <2>3, TypesOfStream, Constants
<1>2. /\ peer'.sent = peer.sent + 1 /\ (KeySent = Plain <=> peer.sent = 0)
      /\ (KeySent # Plain => peer.cipher = KeySent)
      /\ \A j \in 1..Size(p) : /\ wire'[Len(wire) + j].id = peer.sent + 1
                               /\ wire'[Len(wire) + j].place = j
                               /\ wire'[Len(wire) + j].key = KeySent
  BY SentBytes
<1>3. peer.cipher = KeySent
  BY <1>1, <1>2
<1>4. IF b.id = peer.sent THEN m = Size(b.payload) - b.place /\ peer.cipher = NextKey(b)
      ELSE m > Size(b.payload) - b.place
  BY DEF RestIsThere
<1>5. RestIsSent(b, n)
  <2>1. b.id # peer'.sent
    BY <1>1, <1>2
  <2>2. n > Size(b.payload) - b.place
    BY <1>1, <1>4
  <2>. QED  BY <2>1, <2>2 DEF RestIsSent
<1>6. ASSUME NEW j \in 1..Size(p)
      PROVE  Succeeds(b, wire'[Len(wire) + j], m + j)
  <2>1. PICK c : c = wire'[Len(wire) + j]
    OBVIOUS
  <2>2. c.id = peer.sent + 1 /\ c.place = j /\ c.key = KeySent
    BY <1>2, <2>1
  <2>3. ~ (b.place + (m + j) <= Size(b.payload))
    BY <1>1, <1>4
  <2>4. ASSUME b.place + (m + j) = Size(b.payload) + 1
        PROVE  c.place = 1 /\ c.id = b.id + 1 /\ c.key = NextKey(b)
    <3>1. j = 1 /\ b.id = peer.sent
      BY <1>1, <1>4, <2>4
    <3>. QED  BY <1>3, <1>4, <2>2, <3>1
  <2>5. Succeeds(b, c, m + j)
    BY <2>3, <2>4 DEF Succeeds
  <2>. QED  BY <2>1, <2>5
<1>. QED  BY <1>5, <1>6

LEMMA SentKeepsWire ==
    ASSUME StreamTypeOK, Handshake, WireInStep, link.up, peer.sent < MaxMessages,
           peer.encrypts \/ peer.sent = 0, NEW p \in Payloads, HasSent(p)
    PROVE  WireInStep'
<1>. DEFINE L == Len(wire)
            w == Size(p)
<1>1. /\ L \in Nat /\ w \in Nat /\ w >= 2 /\ DOMAIN wire = 1..L /\ wire \in Seq(Byte)
      /\ peer.sent \in Nat /\ peer.sent \in 0..MaxMessages /\ Ciphered(p) \in Nat
  BY TypesOfStream, Sizes
<1>2. /\ wire' \in Seq(Byte) /\ Len(wire') = L + w /\ DOMAIN wire' = 1..(L + w)
      /\ \A i \in 1..L : wire'[i] = wire[i]
  BY <1>1, SentBytes
<1>3. \A i \in 1..w : /\ wire'[L + i] \in Byte
                      /\ wire'[L + i].id = peer.sent + 1 /\ wire'[L + i].payload = p
                      /\ wire'[L + i].place = i /\ wire'[L + i].key = KeySent
  BY SentBytes
<1>4. /\ KeySent = Plain <=> peer.sent = 0
      /\ peer'.sent = peer.sent + 1
      /\ peer'.cipher = IF KeySent = Plain THEN 0 ELSE KeySent + Ciphered(p)
  BY SentBytes
<1>. HIDE DEF L, w
\* The bytes that were there.
<1>5. ASSUME NEW i \in 1..L
      PROVE  /\ wire'[i].place <= Size(wire'[i].payload) /\ wire'[i].id <= peer'.sent
             /\ wire'[i].key = Plain <=> wire'[i].id = 1
             /\ RestIsSent(wire'[i], L + w - i)
             /\ \A j \in 1..w : Succeeds(wire'[i], wire'[L + j], L + j - i)
  <2>1. PICK b \in Byte : b = wire[i] /\ b = wire'[i]
    BY <1>1, <1>2, ElementOfSeq DEF L
  <2>2. PICK m \in Nat : m = L - i
    BY <1>1
  <2>3. PICK n \in Nat : n = m + w
    BY <1>1, <2>2
  <2>4. /\ b.place <= Size(b.payload) /\ b.id <= peer.sent
        /\ b.key = Plain <=> b.id = 1
        /\ RestIsThere(b, m)
    BY <1>1, <2>1, <2>2 DEF WireInStep, L
  <2>5. /\ RestIsSent(b, n)
        /\ \A j \in 1..w : Succeeds(b, wire'[L + j], m + j)
    BY <2>3, <2>4, SentIsNext DEF L, w
  <2>6. b.id <= peer'.sent
    BY <1>1, <1>4, <2>4, ByteFields
  <2>7. ASSUME NEW j \in 1..w
        PROVE  Succeeds(wire'[i], wire'[L + j], L + j - i)
    <3>1. m + j = L + j - i
      BY <1>1, <2>2
    <3>. QED  BY <2>1, <2>5, <3>1
  <2>8. n = L + w - i
    BY <1>1, <2>2, <2>3
  <2>. QED  BY <2>1, <2>4, <2>5, <2>6, <2>7, <2>8
\* Those that are new.
<1>6. ASSUME NEW i \in 1..w
      PROVE  /\ wire'[L + i].place <= Size(wire'[L + i].payload)
             /\ wire'[L + i].id <= peer'.sent
             /\ wire'[L + i].key = Plain <=> wire'[L + i].id = 1
             /\ RestIsSent(wire'[L + i], w - i)
             /\ \A j \in 1..w : i < j => Succeeds(wire'[L + i], wire'[L + j], j - i)
  <2>1. PICK b : b = wire'[L + i]
    OBVIOUS
  <2>2. /\ b.id = peer.sent + 1 /\ b.payload = p /\ b.place = i /\ b.key = KeySent
        /\ Size(b.payload) = w
    BY <1>3, <2>1 DEF w
  <2>3. b.place <= Size(b.payload) /\ b.id <= peer'.sent
    BY <1>1, <1>4, <2>2
  <2>4. b.key = Plain <=> b.id = 1
    BY <1>1, <1>4, <2>2
  <2>5. RestIsSent(b, w - i)
    <3>1. peer'.cipher = NextKey(b)
      BY <1>4, <2>2 DEF NextKey
    <3>2. b.id = peer'.sent /\ w - i = Size(b.payload) - b.place
      BY <1>4, <2>2
    <3>. QED  BY <3>1, <3>2 DEF RestIsSent
  <2>6. ASSUME NEW j \in 1..w, i < j
        PROVE  Succeeds(wire'[L + i], wire'[L + j], j - i)
    <3>1. PICK c : c = wire'[L + j]
      OBVIOUS
    <3>2. c.id = peer.sent + 1 /\ c.payload = p /\ c.place = j /\ c.key = KeySent
      BY <1>3, <3>1
    <3>3. b.place + (j - i) = j /\ j # w + 1
      BY <1>1, <2>2
    <3>4. Succeeds(b, c, j - i)
      BY <2>2, <3>2, <3>3 DEF Succeeds, SameMessage
    <3>. QED  BY <2>1, <3>1, <3>4
  <2>. QED  BY <2>1, <2>3, <2>4, <2>5, <2>6
<1>7. ASSUME NEW i \in 1..(L + w)
      PROVE  /\ wire'[i].place <= Size(wire'[i].payload) /\ wire'[i].id <= peer'.sent
             /\ wire'[i].key = Plain <=> wire'[i].id = 1
             /\ RestIsSent(wire'[i], L + w - i)
             /\ \A j \in 1..(L + w) : i < j => Succeeds(wire'[i], wire'[j], j - i)
  <2>1. CASE i \in 1..L
    <3>1. ASSUME NEW j \in 1..(L + w), i < j
          PROVE  Succeeds(wire'[i], wire'[j], j - i)
      <4>1. CASE j \in 1..L
        <5>1. Succeeds(wire[i], wire[j], j - i)
          BY <1>1, <2>1, <3>1, <4>1 DEF WireInStep
        <5>. QED  BY <1>2, <2>1, <4>1, <5>1
      <4>2. CASE j \notin 1..L
        <5>1. PICK k \in 1..w : L + k = j
          <6>1. j - L \in 1..w /\ L + (j - L) = j
            BY <1>1, <4>2
          <6>. QED  BY <6>1
        <5>2. Succeeds(wire'[i], wire'[L + k], L + k - i)
          BY <1>5, <2>1
        <5>3. PICK d : d = L + k - i
          OBVIOUS
        <5>4. d = j - i /\ wire'[L + k] = wire'[j]
          BY <1>1, <5>1, <5>3
        <5>. QED  BY <5>2, <5>3, <5>4
      <4>. QED  BY <4>1, <4>2
    <3>. QED  BY <1>5, <2>1, <3>1
  <2>2. CASE i \notin 1..L
    <3>1. PICK k \in 1..w : L + k = i
      <4>1. i - L \in 1..w /\ L + (i - L) = i
        BY <1>1, <2>2
      <4>. QED  BY <4>1
    <3>2. L + w - i = w - k
      BY <1>1, <3>1
    <3>3. ASSUME NEW j \in 1..(L + w), i < j
          PROVE  Succeeds(wire'[i], wire'[j], j - i)
      <4>1. PICK l \in 1..w : L + l = j
        <5>1. j - L \in 1..w /\ L + (j - L) = j
          BY <1>1, <3>1, <3>3
        <5>. QED  BY <5>1
      <4>2. k < l /\ j - i = l - k
        BY <1>1, <3>1, <3>3, <4>1
      <4>3. Succeeds(wire'[L + k], wire'[L + l], l - k)
        BY <1>6, <4>2
      <4>. QED  BY <3>1, <4>1, <4>2, <4>3
    <3>. QED  BY <1>6, <3>1, <3>2, <3>3
  <2>. QED  BY <2>1, <2>2
<1>8. WireInStep'
  <2>1. DOMAIN wire' = 1..(L + w) /\ Len(wire') = L + w
    BY <1>2
  <2>2. ASSUME NEW i \in DOMAIN wire'
        PROVE  /\ wire'[i].place <= Size(wire'[i].payload) /\ wire'[i].id <= peer'.sent
               /\ wire'[i].key = Plain <=> wire'[i].id = 1
               /\ RestIsThere(wire[i], Len(wire) - i)'
    <3>1. RestIsSent(wire'[i], Len(wire') - i)
      <4>1. i \in 1..(L + w) /\ Len(wire') - i = L + w - i
        BY <1>1, <2>1
      <4>2. RestIsSent(wire'[i], L + w - i)
        BY <1>7, <4>1
      <4>. QED  BY <4>1, <4>2
    <3>2. RestIsThere(wire[i], Len(wire) - i)'
      BY <3>1 DEF RestIsThere, RestIsSent, NextKey
    <3>. QED  BY <1>7, <2>1, <3>2
  <2>3. ASSUME NEW i \in DOMAIN wire', NEW j \in DOMAIN wire', i < j
        PROVE  Succeeds(wire[i], wire[j], j - i)'
    <3>1. Succeeds(wire'[i], wire'[j], j - i)
      BY <1>7, <2>1, <2>3
    <3>. QED  BY <3>1 DEF Succeeds, SameMessage, NextKey
  <2>. QED  BY <2>2, <2>3 DEF WireInStep
<1>. QED  BY <1>8

LEMMA ServerSendsKeeps ==
    ASSUME StreamInv, ServerSends
    PROVE  StreamInv'
<1>1. /\ link.up /\ peer.sent < MaxMessages /\ (peer.encrypts \/ peer.sent = 0)
      /\ UNCHANGED <<readVars, cipherVars, sender, toServer, link, delivered, mishaps>>
  BY DEF ServerSends
<1>2. PICK p \in Payloads : HasSent(p)
  BY DEF ServerSends, HasSent, Sent, KeySent
<1>3. /\ StreamTypeOK /\ WireInStep /\ BufferPartial /\ ReadsInStep /\ AfterMishap
      /\ Handshake /\ ClientInStep /\ BufferTypes
      /\ wire \in Seq(Byte) /\ Len(wire) \in Nat /\ (wire = <<>> <=> Len(wire) = 0)
      /\ DOMAIN wire = 1..Len(wire) /\ delivered \in Nat
      /\ peer.sent \in Nat /\ peer.sent \in 0..MaxMessages
  BY TypesOfStream, EmptySeq DEF StreamInv
<1>4. /\ wire' \in Seq(Byte) /\ Len(wire') = Len(wire) + Size(p)
      /\ \A i \in 1..Len(wire) : wire'[i] = wire[i]
      /\ \A i \in 1..Size(p) : /\ wire'[Len(wire) + i].id = peer.sent + 1
                                /\ wire'[Len(wire) + i].place = i
                                /\ wire'[Len(wire) + i].key = KeySent
      /\ KeySent = Plain <=> peer.sent = 0
      /\ peer' \in [encrypts : BOOLEAN, receives : Nat, cipher : Nat, sent : 0..MaxMessages]
      /\ peer'.sent = peer.sent + 1 /\ peer'.encrypts = peer.encrypts
      /\ peer'.receives = peer.receives
      /\ peer'.cipher = IF KeySent = Plain THEN 0 ELSE KeySent + Ciphered(p)
      /\ KeySent # Plain => peer.cipher = KeySent
  BY <1>1, <1>2, <1>3, SentBytes
<1>5. /\ Size(p) \in Nat /\ Size(p) >= 2 /\ wire' # <<>>
      /\ DOMAIN wire' = 1..(Len(wire) + Size(p))
  <2>1. Size(p) \in Nat /\ Size(p) >= 2
    BY Sizes
  <2>2. Len(wire') # 0
    BY <1>3, <1>4, <2>1
  <2>. QED  BY <1>4, <2>1, <2>2, EmptySeq
<1>6. /\ wire # <<>> => wire'[1] = wire[1]
      /\ wire = <<>> => /\ wire'[1].id = peer.sent + 1 /\ wire'[1].place = 1
                        /\ wire'[1].key = KeySent
  <2>1. CASE wire # <<>>
    <3>1. 1 \in 1..Len(wire)
      BY <1>3, <2>1
    <3>. QED  BY <1>4, <2>1, <3>1
  <2>2. CASE wire = <<>>
    <3>1. 1 \in 1..Size(p) /\ Len(wire) + 1 = 1
      BY <1>3, <1>5, <2>2
    <3>. QED  BY <1>4, <2>2, <3>1
  <2>. QED  BY <2>1, <2>2
<1>7. StreamTypeOK'
  BY <1>1, <1>3, <1>4 DEF StreamTypeOK, readVars, cipherVars
<1>8. WireInStep'
  BY <1>1, <1>2, <1>3, SentKeepsWire
<1>9. BufferPartial'
  BY <1>1, <1>3 DEF BufferPartial, readVars
<1>10. AfterMishap'
  BY <1>1, <1>3, <1>6 DEF AfterMishap, InStep, readVars
<1>11. Handshake'
  BY <1>1, <1>3, <1>4 DEF Handshake
<1>12. ClientInStep'
  BY <1>1, <1>3, <1>4 DEF ClientInStep, cipherVars
<1>13. ReadsInStep'
  <2>. SUFFICES ASSUME ReadsInStep, worker # "lost", mishaps = {}
                PROVE  BufferInStep' /\ NextInStep' /\ KeyInStep'
    BY <1>1, <1>3 DEF ReadsInStep, readVars
  <2>1. BufferInStep /\ NextInStep /\ KeyInStep
    BY <1>1 DEF ReadsInStep
  <2>2. BufferInStep'
    <3>. SUFFICES ASSUME readBuffer # <<>>
                  PROVE  BufferInStep'
      BY <1>1 DEF BufferInStep, readVars
    <3>. DEFINE n == Len(readBuffer)
    <3>1. PICK b \in Byte : b = readBuffer[1]
      BY <1>3, FirstOfBuffer
    <3>2. n \in Nat /\ n >= 1
      BY <1>3, FirstOfBuffer
    <3>3. /\ \A i \in DOMAIN readBuffer : SameMessage(b, readBuffer[i]) /\ readBuffer[i].place = i
          /\ b.id = delivered + 1 /\ b.id <= peer.sent
          /\ b.key = Plain <=> b.id = 1
          /\ worker = "delivers" => n = Size(b.payload)
          /\ \A j \in DOMAIN wire : Succeeds(b, wire[j], n - 1 + j)
          /\ RestIsThere(b, Len(wire) + n - 1)
      BY <2>1, <3>1 DEF BufferInStep
    <3>. HIDE DEF n
    <3>4. PICK m \in Nat : m = Len(wire) + n - 1
      BY SMTT(30), <1>3, <3>2
    <3>5. PICK k \in Nat : k = m + Size(p)
      BY <1>5
    <3>6. /\ RestIsSent(b, k)
          /\ \A j \in 1..Size(p) : Succeeds(b, wire'[Len(wire) + j], m + j)
      BY <1>1, <1>2, <1>3, <3>3, <3>4, <3>5, SentIsNext
    <3>7. k = Len(wire') + n - 1
      BY SMTT(30), <1>3, <1>4, <1>5, <3>2, <3>4, <3>5
    <3>8. ASSUME NEW j \in DOMAIN wire'
          PROVE  Succeeds(b, wire'[j], n - 1 + j)
      <4>1. CASE j \in 1..Len(wire)
        BY <1>3, <1>4, <3>3, <4>1
      <4>2. CASE j \notin 1..Len(wire)
        <5>1. PICK i \in 1..Size(p) : Len(wire) + i = j
          <6>1. j - Len(wire) \in 1..Size(p) /\ Len(wire) + (j - Len(wire)) = j
            BY <1>3, <1>5, <4>2
          <6>. QED  BY <6>1
        <5>2. m + i = n - 1 + j
          BY <1>3, <3>2, <3>4, <5>1
        <5>. QED  BY <3>6, <5>1, <5>2
      <4>. QED  BY <4>1, <4>2
    <3>9. b.id <= peer'.sent
      BY <1>3, <1>4, <3>3, ByteFields
    <3>10. /\ readBuffer' = readBuffer /\ worker' = worker /\ delivered' = delivered
      BY <1>1 DEF readVars
    <3>. QED
      BY <3>1, <3>3, <3>6, <3>7, <3>8, <3>9, <3>10
      DEF BufferInStep, RestIsThere, RestIsSent, Succeeds, SameMessage, NextKey, n
  <2>3. NextInStep'
    BY <1>1, <1>3, <1>5, <1>6, <2>1 DEF NextInStep, readVars
  <2>4. KeyInStep'
    <3>1. delivered > 0 => peer.sent # 0
      BY <1>1, <1>3 DEF Handshake
    <3>2. delivered > 0 /\ wire = <<>> => wire'[1].key = peer.cipher
      BY <1>4, <1>6, <3>1
    <3>. QED  BY <1>1, <1>5, <1>6, <2>1, <3>2 DEF KeyInStep, readVars, cipherVars
  <2>. QED  BY <2>2, <2>3, <2>4
<1>. QED
  BY <1>7, <1>8, <1>9, <1>10, <1>11, <1>12, <1>13 DEF StreamInv

----------------------------------------------------------------------------
(* The stream.                                                             *)

LEMMA InvAtFirst ==
    ASSUME StreamInit
    PROVE  StreamInv
<1>1. StreamTypeOK
  <2>1. peer \in [encrypts : BOOLEAN, receives : Nat, cipher : Nat, sent : 0..MaxMessages]
    BY Constants DEF StreamInit
  <2>2. link \in [number : 1..MaxConnects, up : BOOLEAN, sends : 0..MaxSends]
    BY Constants DEF StreamInit
  <2>3. bufferSize \in FirstSize..SizeLimit /\ Len(readBuffer) <= bufferSize
    BY Constants DEF StreamInit
  <2>4. delivered \in 0..MaxMessages /\ mishaps \subseteq {"raced", "leftover"}
        /\ toServer \in Seq(Nat \cup {Plain}) /\ wire \in Seq(Byte) /\ readBuffer \in Seq(Byte)
    BY Constants DEF StreamInit
  <2>. QED  BY <2>1, <2>2, <2>3, <2>4 DEF StreamInit, StreamTypeOK
<1>2. WireInStep /\ BufferPartial /\ AfterMishap /\ Handshake
  BY DEF StreamInit, WireInStep, BufferPartial, AfterMishap, InStep, Handshake
<1>3. ReadsInStep
  BY DEF StreamInit, ReadsInStep, BufferInStep, NextInStep, KeyInStep
<1>4. ClientInStep
  BY DEF StreamInit, ClientInStep
<1>. QED  BY <1>1, <1>2, <1>3, <1>4 DEF StreamInv

LEMMA StepKeeps ==
    ASSUME StreamInv, [StreamNext]_streamVars
    PROVE  StreamInv'
<1>1. CASE UNCHANGED streamVars
  BY <1>1
  DEF StreamInv, StreamTypeOK, WireInStep, BufferPartial, ReadsInStep, AfterMishap, Handshake,
      ClientInStep, BufferInStep, NextInStep, KeyInStep, RestIsThere, InStep,
      streamVars, readVars, cipherVars
<1>2. CASE StreamNext
  BY <1>2, BeginReadsKeeps, ReceiveKeeps, WCMessageReadyKeeps, EndReadsKeeps, SendKeeps,
     SetEncryptionKeyKeeps, SetEncryptionKeeps, DisconnectKeeps, ConnectKeeps,
     ServerSendsKeeps, ServerReceivesKeeps
  DEF StreamNext
<1>. QED  BY <1>1, <1>2

\* What the properties say of a state follows from the invariant.
LEMMA InvSuffices ==
    ASSUME StreamInv
    PROVE  StreamInStep
<1>1. /\ StreamTypeOK /\ BufferPartial /\ ReadsInStep /\ AfterMishap /\ Handshake /\ ClientInStep
      /\ BufferTypes /\ peer.receives \in Nat /\ encrypt \in BOOLEAN /\ peer.encrypts \in BOOLEAN
  BY TypesOfStream DEF StreamInv
<1>2. InStep
  BY <1>1 DEF AfterMishap
<1>3. DeliversWhole
  <2>. SUFFICES ASSUME worker = "delivers"
                PROVE  /\ readBuffer # <<>> /\ readBuffer[1].id = delivered + 1
                       /\ Len(readBuffer) = Size(readBuffer[1].payload)
                       /\ \A i \in DOMAIN readBuffer : readBuffer[i].place = i
    BY DEF DeliversWhole
  <2>1. readBuffer # <<>> /\ BufferInStep
    BY <1>1 DEF BufferPartial, ReadsInStep
  <2>. QED  BY <2>1 DEF BufferInStep
<1>4. AsksForBytes
  <2>. SUFFICES ASSUME worker = "reads"
                PROVE  BytesToRead > 0
    BY DEF AsksForBytes
  <2>1. readBuffer # <<>> => Len(readBuffer) < Size(readBuffer[1].payload)
    BY <1>1 DEF BufferPartial
  <2>2. BytesToRead \in Nat \ {0}
    BY <1>1, <2>1, ReadLimits
  <2>. QED  BY <2>2
<1>5. ServerInStep
  <2>. SUFFICES ASSUME toServer # <<>>
                PROVE  Head(toServer) = IF peer.encrypts THEN peer.receives ELSE Plain
    BY DEF ServerInStep
  <2>1. link.up
    BY <1>1 DEF Handshake
  <2>2. toServer \in Seq(Nat \cup {Plain}) /\ 1 \in DOMAIN toServer /\ Head(toServer) = toServer[1]
    <3>1. toServer \in Seq(Nat \cup {Plain})
      BY <1>1 DEF StreamTypeOK
    <3>. QED  BY <3>1, EmptySeq
  <2>3. CASE ~ encrypt
    <3>1. ~ peer.encrypts /\ toServer = <<Plain>>
      BY <1>1, <2>1, <2>3 DEF ClientInStep
    <3>. QED  BY <2>2, <3>1
  <2>4. CASE encrypt /\ peer.encrypts
    <3>1. toServer[1] = peer.receives + 1 - 1
      BY <1>1, <2>1, <2>2, <2>4 DEF ClientInStep
    <3>. QED  BY <1>1, <2>2, <2>4, <3>1
  <2>5. CASE encrypt /\ ~ peer.encrypts
    BY <1>1, <2>1, <2>2, <2>5 DEF ClientInStep
  <2>. QED  BY <1>1, <2>3, <2>4, <2>5
<1>. QED  BY <1>1, <1>2, <1>3, <1>4, <1>5 DEF StreamInStep

\* For any sizes of messages and of the buffer, and however recv cuts the stream: the client
\* reads what the server sent, but for the two mishaps; a message is handed over whole and in
\* its place; the worker always has bytes to ask for; and the server can decipher every
\* message of the client (WowConnection::DoMessageReads, NetClient::Send).
THEOREM StaysInStep == StreamSpec => []StreamInStep
<1>1. StreamInit => StreamInv
  BY InvAtFirst
<1>2. StreamInv /\ [StreamNext]_streamVars => StreamInv'
  BY StepKeeps
<1>3. StreamInv => StreamInStep
  BY InvSuffices
<1>. QED  BY <1>1, <1>2, <1>3, PTL DEF StreamSpec


-----------------------------------------------------------------------------
(* Tables: functions on some of the guids. *)

IsTable(t, V) == DOMAIN t \subseteq Guid /\ t \in [DOMAIN t -> V]

LEMMA WithTable ==
    ASSUME NEW V, NEW t, NEW u, IsTable(t, V), IsTable(u, V)
    PROVE  IsTable(With(t, u), V)
BY DEF IsTable, With

LEMMA WithValues ==
    ASSUME NEW t, NEW u
    PROVE  /\ DOMAIN With(t, u) = DOMAIN t \cup DOMAIN u
           /\ \A g \in DOMAIN u : With(t, u)[g] = u[g]
           /\ \A g \in DOMAIN t \ DOMAIN u : With(t, u)[g] = t[g]
BY DEF With

LEMMA WithoutTable ==
    ASSUME NEW V, NEW t, NEW S, IsTable(t, V)
    PROVE  IsTable(Without(t, S), V)
BY DEF IsTable, Without, Restrict

LEMMA WithoutValues ==
    ASSUME NEW t, NEW S
    PROVE  /\ DOMAIN Without(t, S) = DOMAIN t \ S
           /\ \A g \in DOMAIN t \ S : Without(t, S)[g] = t[g]
BY DEF Without, Restrict

LEMMA RestrictTable ==
    ASSUME NEW V, NEW t, NEW S \in SUBSET DOMAIN t, IsTable(t, V)
    PROVE  IsTable(Restrict(t, S), V)
BY DEF IsTable, Restrict

LEMMA RestrictedTo ==
    ASSUME NEW t, NEW S
    PROVE  /\ DOMAIN Restrict(t, S) = S
           /\ \A g \in S : Restrict(t, S)[g] = t[g]
BY DEF Restrict

LEMMA FieldTypes ==
    ASSUME NEW fields \in FieldValues, NEW sent, NEW zero,
           \A f \in DOMAIN sent : sent[f] \in 0..1
    PROVE  /\ FillIn(fields, sent, zero) \in FieldValues
           /\ Blank \in FieldValues
BY DEF FieldValues, FillIn, Blank

-----------------------------------------------------------------------------
(* The manager. *)

IsManager(m) ==
    /\ m = Manager(m.objects, m.lazy, m.visible, m.reenabled, m.fifo)
    /\ IsTable(m.objects, AllObjects) /\ IsTable(m.lazy, AllObjects)
    /\ m.visible \in Seq(Guid) /\ m.reenabled \in Seq(Guid)
    /\ m.fifo \in [Types -> Seq(Guid)]

\* Each object is in the list of its state, once, and its flags say so.
Linked(m) ==
    /\ NoRepeats(m.visible) /\ NoRepeats(m.reenabled)
    /\ Members(m.visible) \cap Members(m.reenabled) = {}
    /\ Members(m.visible) \cup Members(m.reenabled) = DOMAIN m.objects
    /\ DOMAIN m.objects \cap DOMAIN m.lazy = {}
    /\ \A g \in DOMAIN m.objects :
        /\ ~ m.objects[g].disabled
        /\ m.objects[g].inReenable <=> g \in Members(m.reenabled)
    /\ \A g \in DOMAIN m.lazy :
        /\ m.lazy[g].disabled /\ ~ m.lazy[g].inReenable /\ m.lazy[g].postInited
        /\ g \in Members(m.fifo[TypeOf[g]])
    /\ \A t \in Types : \A g \in Members(m.fifo[t]) : g \in DOMAIN m.lazy /\ TypeOf[g] = t

\* When an object was disabled, on the clock that does not wrap.
IsTimeOf(object, t) == (Start + t) % Width = object.disableTime
DisabledAt(object) == CHOOSE t \in 0..MaxTime : IsTimeOf(object, t)
InOrder(line, lazy) ==
    \A i, j \in DOMAIN line :
        i < j => DisabledAt(lazy[line[i]]) <= DisabledAt(lazy[line[j]])
\* The disabled objects of a type are in the order in which they were disabled.
Aged(m) ==
    /\ \A g \in DOMAIN m.lazy : \E t \in 0..clock.tick : IsTimeOf(m.lazy[g], t)
    /\ \A t \in Types : InOrder(m.fifo[t], m.lazy)

ClockOK ==
    /\ clock = [now |-> clock.now, tick |-> clock.tick]
    /\ clock.now \in 0..MaxTime /\ clock.tick \in 0..clock.now

-----------------------------------------------------------------------------
(* Times that wrap. *)

LEMMA WidthPositive == Width \in Nat /\ Width > 0 /\ MaxTime \in Nat /\ MaxTime < Width
                       /\ Start \in Int
BY ObjectUpdatesAssumption

LEMMA TimesDiffer ==
    ASSUME NEW a \in Int, NEW b \in Int, a - b <= MaxTime, b - a <= MaxTime,
           a % Width = b % Width
    PROVE  a = b
<1>1. ASSUME NEW x \in Int, NEW d \in 0..MaxTime, (x + d) % Width = x % Width
      PROVE  d = 0
  <2>1. d \in 0..(Width - 1) /\ 0 \in 0..(Width - 1)
    BY WidthPositive
  <2>2. (((x + d) % Width) - (x % Width)) % Width = d
    BY <2>1, WidthPositive, WrappedDifference
  <2>3. (((x + 0) % Width) - (x % Width)) % Width = 0
    BY <2>1, WidthPositive, WrappedDifference
  <2>4. ((x % Width) - (x % Width)) % Width = 0
    BY <2>3
  <2>. QED  BY <1>1, <2>2, <2>4
<1>2. CASE a <= b
  <2>1. b - a \in 0..MaxTime /\ a + (b - a) = b
    BY <1>2, WidthPositive
  <2>. QED  BY <1>1, <2>1
<1>3. CASE b <= a
  <2>1. a - b \in 0..MaxTime /\ b + (a - b) = a
    BY <1>3, WidthPositive
  <2>. QED  BY <1>1, <2>1
<1>. QED  BY <1>2, <1>3

LEMMA DisabledAtIs ==
    ASSUME ClockOK, NEW object, NEW t \in 0..clock.tick, IsTimeOf(object, t)
    PROVE  DisabledAt(object) = t
<1>1. t \in 0..MaxTime
  BY WidthPositive DEF ClockOK
<1>2. ASSUME NEW u \in 0..MaxTime, IsTimeOf(object, u)
      PROVE  u = t
  <2>1. (Start + u) % Width = (Start + t) % Width
    BY <1>2 DEF IsTimeOf
  <2>2. Start + u = Start + t
    BY <1>1, <2>1, WidthPositive, TimesDiffer
  <2>. QED  BY <1>1, <2>2, WidthPositive
<1>. QED  BY <1>1, <1>2 DEF DisabledAt

\* The age, as it is computed and as a clock that does not wrap has it.
LEMMA AgeIs ==
    ASSUME ClockOK, NEW object, NEW t \in 0..clock.tick, IsTimeOf(object, t)
    PROVE  Age(object) = clock.now - t /\ Elapsed(object) = clock.now - t
<1>1. t \in 0..MaxTime /\ clock.now - t \in 0..MaxTime /\ clock.now \in Int
  BY WidthPositive DEF ClockOK
<1>2. object.disableTime = (Start + t) % Width
  BY DEF IsTimeOf
<1>3. Age(object) = clock.now - t
  <2>1. Start + t \in Int /\ clock.now - t \in 0..(Width - 1)
        /\ (Start + t) + (clock.now - t) = Start + clock.now
    BY <1>1, WidthPositive
  <2>2. (((Start + clock.now) % Width) - ((Start + t) % Width)) % Width = clock.now - t
    BY <2>1, WidthPositive, WrappedDifference
  <2>. QED  BY <1>2, <2>2 DEF Age, Now
<1>4. Elapsed(object) = clock.now - t
  <2>1. ASSUME NEW n \in 0..MaxTime, (Start + clock.now - n) % Width = object.disableTime
        PROVE  n = clock.now - t
    <3>1. Start + clock.now - n = Start + t
      <4>1. Start + clock.now - n \in Int /\ Start + t \in Int
            /\ (Start + clock.now - n) - (Start + t) <= MaxTime
            /\ (Start + t) - (Start + clock.now - n) <= MaxTime
        BY <1>1, WidthPositive
      <4>. QED  BY <1>2, <2>1, <4>1, TimesDiffer
    <3>. QED  BY <1>1, <3>1, WidthPositive
  <2>2. Start + clock.now - (clock.now - t) = Start + t
    BY <1>1, WidthPositive
  <2>. QED  BY <1>1, <1>2, <2>1, <2>2 DEF Elapsed
<1>. QED  BY <1>3, <1>4

-----------------------------------------------------------------------------
(* What the operations on the manager keep. *)

LEMMA GuidsFinite == ASSUME NEW S \in SUBSET Guid PROVE IsFiniteSet(S)
BY FS_Subset, ObjectUpdatesAssumption

LEMMA TypesOfGuids == \A g \in Guid : TypeOf[g] \in Types
BY DEF Types

LEMMA ManagerFields ==
    ASSUME NEW o, NEW z, NEW v, NEW e, NEW f, NEW m, m = Manager(o, z, v, e, f)
    PROVE  /\ m.objects = o /\ m.lazy = z /\ m.visible = v /\ m.reenabled = e
           /\ m.fifo = f
BY DEF Manager

LEMMA UnlinkedLists ==
    ASSUME NEW m, IsManager(m), NEW S \in SUBSET Guid
    PROVE  /\ IsManager(Unlinked(m, S))
           /\ Unlinked(m, S).objects = m.objects /\ Unlinked(m, S).lazy = m.lazy
           /\ Unlinked(m, S).visible = UnlinkAll(m.visible, S)
           /\ Unlinked(m, S).reenabled = UnlinkAll(m.reenabled, S)
           /\ Unlinked(m, S).fifo = [t \in Types |-> UnlinkAll(m.fifo[t], S)]
<1>. DEFINE v == UnlinkAll(m.visible, S)
            e == UnlinkAll(m.reenabled, S)
            f == [t \in Types |-> UnlinkAll(m.fifo[t], S)]
<1>1. v \in Seq(Guid) /\ e \in Seq(Guid) /\ f \in [Types -> Seq(Guid)]
  BY UnlinkAllProperties DEF IsManager
<1>2. Unlinked(m, S) = Manager(m.objects, m.lazy, v, e, f)
  BY DEF Unlinked
<1>. HIDE DEF v, e, f
<1>3. IsManager(Unlinked(m, S))
  BY <1>1, <1>2, ManagerFields DEF IsManager
<1>. QED  BY <1>2, <1>3, ManagerFields DEF v, e, f

\* What is left of a list in order is in order.
LEMMA UnlinkInOrder ==
    ASSUME NEW line \in Seq(Guid), NEW S, NEW lazy, NEW table, InOrder(line, lazy),
           \A g \in Members(line) \ S : table[g] = lazy[g]
    PROVE  InOrder(UnlinkAll(line, S), table)
<1>. DEFINE rest == UnlinkAll(line, S)
<1>1. IsSubsequence(rest, line)
  BY UnlinkAllProperties
<1>. PICK place \in [DOMAIN rest -> DOMAIN line] :
        /\ \A n \in DOMAIN place : rest[n] = line[place[n]]
        /\ \A m, n \in DOMAIN place : m < n => place[m] < place[n]
  BY <1>1 DEF IsSubsequence
<1>2. Members(rest) = Members(line) \ S
  BY UnlinkAllProperties
<1>. HIDE DEF rest
<1>3. \A n \in DOMAIN rest : table[rest[n]] = lazy[line[place[n]]]
  <2>. TAKE n \in DOMAIN rest
  <2>1. rest[n] \in Members(rest) /\ rest[n] = line[place[n]]
    BY <1>1 DEF Members
  <2>. QED  BY <1>2, <2>1
<1>4. InOrder(rest, table)
  BY <1>1, <1>3 DEF InOrder
<1>. QED  BY <1>4 DEF rest

\* Objects that are enabled again leave the disabled ones for the list of the
\* reenabled.
LEMMA ReenableKeeps ==
    ASSUME NEW m, IsManager(m), Linked(m), Aged(m), NEW T \in SUBSET DOMAIN m.lazy,
           NEW r, r = Reenable(m, T)
    PROVE  /\ IsManager(r) /\ Linked(r) /\ Aged(r)
           /\ DOMAIN r.objects = DOMAIN m.objects \cup T
           /\ DOMAIN r.lazy = DOMAIN m.lazy \ T
           /\ \A g \in DOMAIN m.objects : r.objects[g] = m.objects[g]
           /\ \A g \in DOMAIN r.lazy : r.lazy[g] = m.lazy[g]
           /\ \A g \in T : /\ r.objects[g].fields = m.lazy[g].fields
                           /\ r.objects[g].postInited
                           /\ r.objects[g].memory = m.lazy[g].memory
<1>1. T \in SUBSET Guid /\ T \cap DOMAIN m.objects = {}
  BY DEF IsManager, IsTable, Linked
<1>. DEFINE A == Activated(m, T)
            o == With(m.objects, A)
            z == Without(m.lazy, T)
            v == UnlinkAll(m.visible, T)
            e == UnlinkAll(m.reenabled, T) \o SetToSeq(T)
            f == [t \in Types |-> UnlinkAll(m.fifo[t], T)]
<1>4. r = Manager(o, z, v, e, f)
  BY <1>1, UnlinkedLists DEF Reenable
<1>5. /\ r.objects = o /\ r.lazy = z /\ r.visible = v /\ r.reenabled = e /\ r.fifo = f
      /\ r = Manager(r.objects, r.lazy, r.visible, r.reenabled, r.fifo)
  <2>. HIDE DEF o, z, v, e, f
  <2>. QED  BY <1>4, ManagerFields
<1>6. IsTable(A, AllObjects) /\ DOMAIN A = T
      /\ \A g \in T : /\ A[g].fields = m.lazy[g].fields /\ A[g].postInited
                      /\ A[g].memory = m.lazy[g].memory
                      /\ ~ A[g].disabled /\ A[g].inReenable
  <2>1. \A g \in T : m.lazy[g] \in AllObjects /\ m.lazy[g].postInited
    BY <1>1 DEF IsManager, IsTable, Linked
  <2>2. \A g \in T : LET a == [m.lazy[g] EXCEPT !.disabled = FALSE, !.inReenable = TRUE]
                     IN  /\ a \in AllObjects /\ a.fields = m.lazy[g].fields
                         /\ a.postInited = m.lazy[g].postInited
                         /\ a.memory = m.lazy[g].memory
                         /\ ~ a.disabled /\ a.inReenable
    BY <2>1 DEF AllObjects
  <2>. QED  BY <1>1, <2>1, <2>2 DEF Activated, IsTable
<1>7. SetToSeq(T) \in Seq(T) /\ Members(SetToSeq(T)) = T /\ NoRepeats(SetToSeq(T))
  BY <1>1, GuidsFinite, SetToSeqProperties
<1>. HIDE DEF A, v, f
<1>8. IsManager(r)
  <2>1. IsTable(o, AllObjects) /\ IsTable(z, AllObjects)
    BY <1>6, WithTable, WithoutTable DEF IsManager
  <2>2. v \in Seq(Guid) /\ f \in [Types -> Seq(Guid)] /\ e \in Seq(Guid)
    <3>1. UnlinkAll(m.reenabled, T) \in Seq(Guid) /\ SetToSeq(T) \in Seq(Guid)
      BY <1>1, <1>7, UnlinkAllProperties DEF IsManager
    <3>. QED  BY <3>1, UnlinkAllProperties DEF IsManager, v, f
  <2>. QED  BY <1>5, <2>1, <2>2 DEF IsManager
<1>9. /\ DOMAIN r.objects = DOMAIN m.objects \cup T
      /\ DOMAIN r.lazy = DOMAIN m.lazy \ T
      /\ \A g \in DOMAIN m.objects : r.objects[g] = m.objects[g]
      /\ \A g \in T : r.objects[g] = A[g]
      /\ \A g \in DOMAIN r.lazy : r.lazy[g] = m.lazy[g]
  <2>1. IsTable(m.objects, AllObjects) /\ IsTable(m.lazy, AllObjects)
    BY DEF IsManager
  <2>2. /\ DOMAIN o = DOMAIN m.objects \cup T
        /\ \A g \in T : o[g] = A[g]
        /\ \A g \in DOMAIN m.objects : o[g] = m.objects[g]
    <3>1. /\ DOMAIN o = DOMAIN m.objects \cup DOMAIN A
          /\ \A g \in DOMAIN A : o[g] = A[g]
          /\ \A g \in DOMAIN m.objects \ DOMAIN A : o[g] = m.objects[g]
      BY WithValues
    <3>. HIDE DEF o
    <3>. QED  BY <1>1, <1>6, <3>1
  <2>3. DOMAIN z = DOMAIN m.lazy \ T /\ \A g \in DOMAIN z : z[g] = m.lazy[g]
    <3>1. /\ DOMAIN z = DOMAIN m.lazy \ T
          /\ \A g \in DOMAIN m.lazy \ T : z[g] = m.lazy[g]
      BY WithoutValues
    <3>. HIDE DEF z
    <3>. QED  BY <3>1
  <2>. HIDE DEF o, z
  <2>. QED  BY <1>5, <2>2, <2>3
<1>10. /\ Members(v) = Members(m.visible) \ T /\ NoRepeats(v)
       /\ Members(e) = Members(m.reenabled) \cup T /\ NoRepeats(e)
       /\ \A t \in Types : Members(f[t]) = Members(m.fifo[t]) \ T
  <2>1. Members(v) = Members(m.visible) \ T /\ NoRepeats(v)
    BY UnlinkAllProperties DEF IsManager, Linked, v
  <2>2. \A t \in Types : Members(f[t]) = Members(m.fifo[t]) \ T
    BY UnlinkAllProperties DEF IsManager, Linked, f
  <2>. DEFINE w == UnlinkAll(m.reenabled, T)
              n == SetToSeq(T)
  <2>3. w \in Seq(Guid) /\ Members(w) = Members(m.reenabled) \ T /\ NoRepeats(w)
    BY UnlinkAllProperties DEF IsManager, Linked
  <2>4. Members(m.reenabled) \cap T = {}
    BY <1>1 DEF Linked
  <2>5. n \in Seq(Guid) /\ Members(n) = T /\ NoRepeats(n)
    BY <1>1, <1>7
  <2>6. e = w \o n
    OBVIOUS
  <2>. HIDE DEF w, n, e
  <2>7. Members(e) = Members(w) \cup Members(n)
    BY <2>3, <2>5, <2>6, ConcatMembers
  <2>8. Members(w) \cap Members(n) = {}
    BY <2>3, <2>5
  <2>9. NoRepeats(e)
    BY <2>3, <2>5, <2>6, <2>8, ConcatMembers
  <2>. QED  BY <2>1, <2>2, <2>3, <2>3, <2>4, <2>5, <2>7, <2>9
<1>11. Linked(r)
  <2>1. Members(r.visible) \cap Members(r.reenabled) = {}
        /\ Members(r.visible) \cup Members(r.reenabled) = DOMAIN r.objects
        /\ DOMAIN r.objects \cap DOMAIN r.lazy = {}
    BY <1>1, <1>5, <1>9, <1>10 DEF Linked
  <2>2. ASSUME NEW g \in DOMAIN r.objects
        PROVE  /\ ~ r.objects[g].disabled
               /\ r.objects[g].inReenable <=> g \in Members(r.reenabled)
    <3>1. CASE g \in T
      BY <1>5, <1>6, <1>9, <1>10, <3>1
    <3>2. CASE g \notin T
      <4>1. g \in DOMAIN m.objects /\ r.objects[g] = m.objects[g]
        BY <1>9, <3>2
      <4>. QED  BY <1>5, <1>10, <3>2, <4>1 DEF Linked
    <3>. QED  BY <3>1, <3>2
  <2>3. ASSUME NEW g \in DOMAIN r.lazy
        PROVE  /\ r.lazy[g].disabled /\ ~ r.lazy[g].inReenable /\ r.lazy[g].postInited
               /\ g \in Members(r.fifo[TypeOf[g]])
    <3>1. g \in DOMAIN m.lazy \ T /\ g \in Guid /\ r.lazy[g] = m.lazy[g]
      BY <1>9 DEF IsManager, IsTable
    <3>. QED  BY <1>5, <1>10, <3>1, TypesOfGuids DEF Linked
  <2>4. \A t \in Types : \A g \in Members(r.fifo[t]) : g \in DOMAIN r.lazy /\ TypeOf[g] = t
    BY <1>5, <1>9, <1>10 DEF Linked
  <2>. QED  BY <1>5, <1>10, <2>1, <2>2, <2>3, <2>4 DEF Linked
<1>12. Aged(r)
  <2>1. \A t \in Types : InOrder(f[t], r.lazy)
    <3>. TAKE t \in Types
    <3>1. \A g \in Members(m.fifo[t]) \ T : r.lazy[g] = m.lazy[g]
      BY <1>9 DEF Linked
    <3>2. m.fifo[t] \in Seq(Guid) /\ InOrder(m.fifo[t], m.lazy)
          /\ f[t] = UnlinkAll(m.fifo[t], T)
      BY DEF IsManager, Aged, f
    <3>. QED  BY <3>1, <3>2, UnlinkInOrder
  <2>. QED  BY <1>5, <1>9, <2>1 DEF Aged
<1>. QED  BY <1>6, <1>8, <1>9, <1>11, <1>12

LEMMA EmptyList ==
    ASSUME NEW S, NEW line \in Seq(S), Members(line) = {}
    PROVE  line = <<>>
<1>1. ASSUME Len(line) # 0
      PROVE  FALSE
  <2>1. 1 \in DOMAIN line
    BY <1>1
  <2>. QED  BY <2>1 DEF Members
<1>. QED  BY <1>1

\* Objects that are collected were disabled, first of their types, and for the
\* collection age; all others stay as they were.
LEMMA CollectKeeps ==
    ASSUME ClockOK, NEW m, IsManager(m), Linked(m), Aged(m),
           NEW types \in SUBSET Types, NEW age,
           NEW r, r = GarbageCollect(m, types, age)
    PROVE  /\ IsManager(r) /\ Linked(r) /\ Aged(r)
           /\ r.objects = m.objects /\ Members(r.reenabled) = Members(m.reenabled)
           /\ DOMAIN r.lazy \subseteq DOMAIN m.lazy
           /\ \A g \in DOMAIN r.lazy : r.lazy[g] = m.lazy[g]
           /\ \A g \in DOMAIN m.lazy \ DOMAIN r.lazy :
                /\ Age(m.lazy[g]) >= age
                /\ \A h \in DOMAIN m.lazy : TypeOf[h] = TypeOf[g] =>
                        DisabledAt(m.lazy[g]) <= DisabledAt(m.lazy[h])
<1>. DEFINE gone == Collectable(m, types, age)
            z == Without(m.lazy, gone)
            v == UnlinkAll(m.visible, gone)
            e == UnlinkAll(m.reenabled, gone)
            f == [t \in Types |-> UnlinkAll(m.fifo[t], gone)]
<1>1. ASSUME NEW g \in gone
      PROVE  /\ g \in DOMAIN m.lazy /\ Age(m.lazy[g]) >= age
             /\ TypeOf[g] \in Types /\ m.fifo[TypeOf[g]] # <<>>
             /\ g = m.fifo[TypeOf[g]][1]
  <2>1. PICK t \in types : m.fifo[t] # <<>> /\ g = Head(m.fifo[t]) /\ Age(m.lazy[g]) >= age
    BY DEF Collectable
  <2>2. m.fifo[t] \in Seq(Guid) /\ t \in Types
    BY DEF IsManager
  <2>3. g \in Members(m.fifo[t]) /\ g = m.fifo[t][1]
    BY <2>1, <2>2 DEF Members
  <2>. QED  BY <2>1, <2>2, <2>3 DEF Linked
<1>. HIDE DEF gone
<1>2. gone \in SUBSET Guid /\ gone \cap DOMAIN m.objects = {}
  BY <1>1 DEF IsManager, IsTable, Linked
<1>3. r = Manager(m.objects, z, v, e, f)
  BY <1>2, UnlinkedLists DEF GarbageCollect, gone
<1>4. /\ r.objects = m.objects /\ r.lazy = z /\ r.visible = v /\ r.reenabled = e
      /\ r.fifo = f /\ r = Manager(r.objects, r.lazy, r.visible, r.reenabled, r.fifo)
  <2>. HIDE DEF z, v, e, f
  <2>. QED  BY <1>3, ManagerFields
<1>5. IsTable(z, AllObjects) /\ DOMAIN z = DOMAIN m.lazy \ gone
      /\ \A g \in DOMAIN z : z[g] = m.lazy[g]
  <2>1. DOMAIN z = DOMAIN m.lazy \ gone /\ \A g \in DOMAIN m.lazy \ gone : z[g] = m.lazy[g]
    BY WithoutValues
  <2>2. IsTable(z, AllObjects)
    BY WithoutTable DEF IsManager
  <2>. HIDE DEF z
  <2>. QED  BY <2>1, <2>2
<1>6. /\ v \in Seq(Guid) /\ Members(v) = Members(m.visible) \ gone /\ NoRepeats(v)
      /\ e \in Seq(Guid) /\ Members(e) = Members(m.reenabled) \ gone /\ NoRepeats(e)
  BY UnlinkAllProperties DEF IsManager, Linked
<1>7. f \in [Types -> Seq(Guid)]
      /\ \A t \in Types : Members(f[t]) = Members(m.fifo[t]) \ gone
  BY UnlinkAllProperties DEF IsManager
<1>. HIDE DEF z, v, e
<1>8. Members(v) = Members(m.visible) /\ Members(e) = Members(m.reenabled)
  BY <1>2, <1>6 DEF Linked
<1>9. IsManager(r)
  BY <1>4, <1>5, <1>6, <1>7 DEF IsManager
<1>10. Linked(r)
  <2>1. ASSUME NEW g \in DOMAIN r.lazy
        PROVE  /\ r.lazy[g].disabled /\ ~ r.lazy[g].inReenable /\ r.lazy[g].postInited
               /\ g \in Members(r.fifo[TypeOf[g]])
    <3>1. g \in DOMAIN m.lazy \ gone /\ g \in Guid /\ r.lazy[g] = m.lazy[g]
      BY <1>4, <1>5 DEF IsManager, IsTable
    <3>. QED  BY <1>4, <1>7, <3>1, TypesOfGuids DEF Linked
  <2>2. ASSUME NEW t \in Types, NEW g \in Members(r.fifo[t])
        PROVE  g \in DOMAIN r.lazy /\ TypeOf[g] = t
    <3>1. g \in Members(m.fifo[t]) \ gone
      BY <1>4, <1>7
    <3>. QED  BY <1>4, <1>5, <3>1 DEF Linked
  <2>. HIDE DEF f
  <2>. QED  BY <1>4, <1>5, <1>6, <1>8, <2>1, <2>2 DEF Linked
<1>11. Aged(r)
  <2>1. ASSUME NEW t \in Types
        PROVE  InOrder(f[t], r.lazy)
    <3>1. \A g \in Members(m.fifo[t]) \ gone : r.lazy[g] = m.lazy[g]
      BY <1>4, <1>5 DEF Linked
    <3>2. m.fifo[t] \in Seq(Guid) /\ InOrder(m.fifo[t], m.lazy)
          /\ f[t] = UnlinkAll(m.fifo[t], gone)
      BY DEF IsManager, Aged
    <3>. QED  BY <3>1, <3>2, UnlinkInOrder
  <2>. HIDE DEF f
  <2>. QED  BY <1>4, <1>5, <2>1 DEF Aged
<1>12. ASSUME NEW g \in DOMAIN m.lazy \ DOMAIN r.lazy, NEW h \in DOMAIN m.lazy,
              TypeOf[h] = TypeOf[g]
       PROVE  DisabledAt(m.lazy[g]) <= DisabledAt(m.lazy[h])
  <2>1. g \in gone
    BY <1>4, <1>5
  <2>. DEFINE line == m.fifo[TypeOf[g]]
  <2>2. line \in Seq(Guid) /\ line # <<>> /\ g = line[1] /\ InOrder(line, m.lazy)
    BY <1>1, <2>1 DEF IsManager, Aged
  <2>3. PICK j \in DOMAIN line : line[j] = h
    BY <1>12 DEF Linked, Members
  <2>4. ASSUME NEW k \in DOMAIN m.lazy
        PROVE  DisabledAt(m.lazy[k]) \in Nat
    <3>1. PICK t \in 0..clock.tick : IsTimeOf(m.lazy[k], t)
      BY DEF Aged
    <3>. QED  BY <3>1, DisabledAtIs DEF ClockOK
  <2>. HIDE DEF line
  <2>5. 1 \in DOMAIN line /\ j \in 1..Len(line)
    BY <2>2, <2>3
  <2>. QED  BY <2>2, <2>3, <2>4, <2>5 DEF InOrder
<1>13. \A g \in DOMAIN m.lazy \ DOMAIN r.lazy : Age(m.lazy[g]) >= age
  BY <1>1, <1>4, <1>5
<1>. QED  BY <1>4, <1>5, <1>8, <1>9, <1>10, <1>11, <1>12, <1>13

\* Objects that are disabled leave the visible ones for the ends of the lists
\* of their types, with the time of the world's last tick.
LEMMA DisablingKeeps ==
    ASSUME ClockOK, NEW m, IsManager(m), Linked(m), Aged(m), m.reenabled = <<>>,
           \A g \in DOMAIN m.objects : m.objects[g].postInited,
           NEW S, NEW r, r = Disabling(m, S)
    PROVE  /\ IsManager(r) /\ Linked(r) /\ Aged(r) /\ r.reenabled = <<>>
           /\ DOMAIN r.objects = DOMAIN m.objects \ S
           /\ \A g \in DOMAIN r.objects : r.objects[g] = m.objects[g]
           /\ DOMAIN r.lazy = DOMAIN m.lazy \cup (S \cap DOMAIN m.objects)
           /\ \A g \in DOMAIN m.lazy : r.lazy[g] = m.lazy[g]
           /\ \A g \in S \cap DOMAIN m.objects :
                /\ r.lazy[g].fields = m.objects[g].fields
                /\ r.lazy[g].memory = m.objects[g].memory
<1>. DEFINE gone == S \cap DOMAIN m.objects
            D == [g \in gone |->
                    [m.objects[g] EXCEPT !.disabled = TRUE, !.disableTime = Tick]]
            o == Without(m.objects, gone)
            z == With(m.lazy, D)
            v == UnlinkAll(m.visible, gone)
            e == UnlinkAll(m.reenabled, gone)
            OfType(t) == SetToSeq({g \in gone : TypeOf[g] = t})
            u == [t \in Types |-> UnlinkAll(m.fifo[t], gone)]
            f == [t \in Types |-> u[t] \o OfType(t)]
<1>1. gone \in SUBSET Guid /\ gone \subseteq DOMAIN m.objects /\ gone \cap DOMAIN m.lazy = {}
  BY DEF IsManager, IsTable, Linked
<1>2. IsTable(D, AllObjects) /\ DOMAIN D = gone
      /\ \A g \in gone : /\ D[g].fields = m.objects[g].fields
                         /\ D[g].memory = m.objects[g].memory
                         /\ D[g].disabled /\ ~ D[g].inReenable /\ D[g].postInited
                         /\ D[g].disableTime = Tick
  <2>1. Tick \in 0..(Width - 1)
    <3>1. Start + clock.tick \in Int
      BY WidthPositive DEF ClockOK
    <3>. QED  BY <3>1, WidthPositive, Remainder DEF Tick
  <2>2. \A g \in gone : /\ m.objects[g] \in AllObjects /\ m.objects[g].postInited
                        /\ ~ m.objects[g].inReenable
    BY <1>1 DEF IsManager, IsTable, Linked, Members
  <2>3. \A a \in AllObjects :
            LET d == [a EXCEPT !.disabled = TRUE, !.disableTime = Tick]
            IN  /\ d \in AllObjects /\ d.fields = a.fields /\ d.memory = a.memory
                /\ d.disabled /\ d.inReenable = a.inReenable
                /\ d.postInited = a.postInited /\ d.disableTime = Tick
    BY <2>1 DEF AllObjects
  <2>. QED  BY <1>1, <2>2, <2>3 DEF IsTable
<1>. HIDE DEF gone
<1>3. r = Manager(o, z, v, e, f)
  BY <1>1, UnlinkedLists DEF Disabling, gone
<1>4. /\ r.objects = o /\ r.lazy = z /\ r.visible = v /\ r.reenabled = e
      /\ r.fifo = f /\ r = Manager(r.objects, r.lazy, r.visible, r.reenabled, r.fifo)
  <2>. HIDE DEF o, z, v, e, f
  <2>. QED  BY <1>3, ManagerFields
<1>. HIDE DEF D
<1>5. IsTable(o, AllObjects) /\ DOMAIN o = DOMAIN m.objects \ gone
      /\ \A g \in DOMAIN o : o[g] = m.objects[g]
  <2>1. DOMAIN o = DOMAIN m.objects \ gone
        /\ \A g \in DOMAIN m.objects \ gone : o[g] = m.objects[g]
    BY WithoutValues
  <2>2. IsTable(o, AllObjects)
    BY WithoutTable DEF IsManager
  <2>. HIDE DEF o
  <2>. QED  BY <2>1, <2>2
<1>6. IsTable(z, AllObjects) /\ DOMAIN z = DOMAIN m.lazy \cup gone
      /\ (\A g \in gone : z[g] = D[g]) /\ \A g \in DOMAIN m.lazy : z[g] = m.lazy[g]
  <2>1. /\ DOMAIN z = DOMAIN m.lazy \cup DOMAIN D
        /\ \A g \in DOMAIN D : z[g] = D[g]
        /\ \A g \in DOMAIN m.lazy \ DOMAIN D : z[g] = m.lazy[g]
    BY WithValues
  <2>2. IsTable(z, AllObjects)
    BY <1>2, WithTable DEF IsManager
  <2>. HIDE DEF z
  <2>. QED  BY <1>1, <1>2, <2>1, <2>2
<1>7. /\ v \in Seq(Guid) /\ Members(v) = Members(m.visible) \ gone /\ NoRepeats(v)
      /\ e \in Seq(Guid) /\ Members(e) = Members(m.reenabled) \ gone /\ NoRepeats(e)
  <2>1. /\ m.visible \in Seq(Guid) /\ m.reenabled \in Seq(Guid)
        /\ NoRepeats(m.visible) /\ NoRepeats(m.reenabled)
    BY DEF IsManager, Linked
  <2>2. v \in Seq(Guid) /\ Members(v) = Members(m.visible) \ gone /\ NoRepeats(v)
    BY <2>1, UnlinkAllProperties
  <2>3. e \in Seq(Guid) /\ Members(e) = Members(m.reenabled) \ gone /\ NoRepeats(e)
    BY <2>1, UnlinkAllProperties
  <2>. HIDE DEF v, e
  <2>. QED  BY <2>2, <2>3
<1>8. Members(m.reenabled) = {} /\ Members(m.visible) = DOMAIN m.objects
  BY DEF Members, Linked
<1>9. e = <<>>
  BY <1>7, <1>8, EmptyList
<1>10. ASSUME NEW t \in Types
       PROVE  /\ u[t] \in Seq(Guid) /\ Members(u[t]) = Members(m.fifo[t]) \ gone
              /\ OfType(t) \in Seq(Guid) /\ Members(OfType(t)) = {g \in gone : TypeOf[g] = t}
  <2>1. u[t] \in Seq(Guid) /\ Members(u[t]) = Members(m.fifo[t]) \ gone
    BY UnlinkAllProperties DEF IsManager
  <2>. DEFINE G == {g \in gone : TypeOf[g] = t}
  <2>2. G \in SUBSET Guid
    BY <1>1
  <2>. HIDE DEF G
  <2>3. SetToSeq(G) \in Seq(G) /\ Members(SetToSeq(G)) = G
    BY <2>2, GuidsFinite, SetToSeqProperties
  <2>4. SetToSeq(G) \in Seq(Guid)
    BY <2>2, <2>3
  <2>. QED  BY <2>1, <2>3, <2>4 DEF G
<1>. HIDE DEF o, z, v, e, u, OfType
<1>11. ASSUME NEW t \in Types
       PROVE  /\ f[t] \in Seq(Guid)
              /\ Members(f[t]) = Members(m.fifo[t]) \cup {g \in gone : TypeOf[g] = t}
  <2>1. /\ u[t] \o OfType(t) \in Seq(Guid)
        /\ Members(u[t] \o OfType(t)) = Members(u[t]) \cup Members(OfType(t))
    BY <1>10, ConcatMembers
  <2>2. Members(m.fifo[t]) \cap gone = {}
    BY <1>1 DEF Linked
  <2>. QED  BY <1>10, <2>1, <2>2
<1>12. IsManager(r)
  <2>1. f \in [Types -> Seq(Guid)]
    BY <1>11
  <2>. HIDE DEF f
  <2>. QED  BY <1>4, <1>5, <1>6, <1>7, <2>1 DEF IsManager
<1>13. Linked(r)
  <2>1. ASSUME NEW g \in DOMAIN r.lazy
        PROVE  /\ r.lazy[g].disabled /\ ~ r.lazy[g].inReenable /\ r.lazy[g].postInited
               /\ g \in Members(r.fifo[TypeOf[g]])
    <3>1. g \in Guid /\ TypeOf[g] \in Types
      BY <1>4, <1>6, TypesOfGuids DEF IsTable
    <3>2. Members(r.fifo[TypeOf[g]]) = Members(m.fifo[TypeOf[g]])
                \cup {h \in gone : TypeOf[h] = TypeOf[g]}
      BY <1>4, <1>11, <3>1
    <3>3. CASE g \in gone
      BY <1>2, <1>4, <1>6, <3>2, <3>3
    <3>4. CASE g \in DOMAIN m.lazy
      BY <1>4, <1>6, <3>2, <3>4 DEF Linked
    <3>. QED  BY <1>4, <1>6, <3>3, <3>4
  <2>2. ASSUME NEW t \in Types, NEW g \in Members(r.fifo[t])
        PROVE  g \in DOMAIN r.lazy /\ TypeOf[g] = t
    <3>1. g \in Members(m.fifo[t]) \/ (g \in gone /\ TypeOf[g] = t)
      BY <1>4, <1>11
    <3>. QED  BY <1>4, <1>6, <3>1 DEF Linked
  <2>. HIDE DEF f
  <2>3. Members(r.visible) = DOMAIN r.objects /\ Members(r.reenabled) = {}
        /\ NoRepeats(r.visible) /\ NoRepeats(r.reenabled)
        /\ DOMAIN r.objects \cap DOMAIN r.lazy = {}
    BY <1>1, <1>4, <1>5, <1>6, <1>7, <1>8 DEF Linked
  <2>4. \A g \in DOMAIN r.objects : ~ r.objects[g].disabled /\ ~ r.objects[g].inReenable
    BY <1>4, <1>5, <1>8 DEF Linked
  <2>. QED  BY <2>1, <2>2, <2>3, <2>4 DEF Linked
<1>14. Aged(r)
  <2>1. ASSUME NEW g \in gone
        PROVE  IsTimeOf(r.lazy[g], clock.tick) /\ DisabledAt(r.lazy[g]) = clock.tick
    <3>1. IsTimeOf(r.lazy[g], clock.tick)
      BY <1>2, <1>4, <1>6 DEF IsTimeOf, Tick
    <3>. QED  BY <3>1, DisabledAtIs DEF ClockOK
  <2>2. ASSUME NEW g \in DOMAIN m.lazy
        PROVE  /\ r.lazy[g] = m.lazy[g]
               /\ \E t \in 0..clock.tick : IsTimeOf(r.lazy[g], t)
               /\ DisabledAt(r.lazy[g]) \in 0..clock.tick
    <3>1. r.lazy[g] = m.lazy[g]
      BY <1>4, <1>6
    <3>2. PICK t \in 0..clock.tick : IsTimeOf(r.lazy[g], t)
      BY <3>1 DEF Aged
    <3>. QED  BY <3>1, <3>2, DisabledAtIs
  <2>3. \A g \in DOMAIN r.lazy : \E t \in 0..clock.tick : IsTimeOf(r.lazy[g], t)
    <3>1. clock.tick \in 0..clock.tick
      BY DEF ClockOK
    <3>. QED  BY <1>4, <1>6, <2>1, <2>2, <3>1
  <2>4. ASSUME NEW t \in Types
        PROVE  InOrder(r.fifo[t], r.lazy)
    <3>. DEFINE a == u[t]
                b == OfType(t)
                c == a \o b
    <3>1. r.fifo[t] = c
      BY <1>4
    <3>2. InOrder(a, r.lazy)
      <4>1. \A g \in Members(m.fifo[t]) \ gone : r.lazy[g] = m.lazy[g]
        BY <2>2 DEF Linked
      <4>2. m.fifo[t] \in Seq(Guid) /\ InOrder(m.fifo[t], m.lazy)
            /\ a = UnlinkAll(m.fifo[t], gone)
        BY DEF IsManager, Aged, u
      <4>. QED  BY <4>1, <4>2, UnlinkInOrder
    <3>3. a \in Seq(Guid) /\ b \in Seq(Guid)
      BY <1>10
    <3>4. \A i \in DOMAIN a : DisabledAt(r.lazy[a[i]]) \in 0..clock.tick
      <4>. TAKE i \in DOMAIN a
      <4>1. a[i] \in Members(a)
        BY DEF Members
      <4>2. a[i] \in Members(m.fifo[t])
        BY <1>10, <4>1
      <4>. QED  BY <2>2, <4>2 DEF Linked
    <3>5. \A i \in DOMAIN b : DisabledAt(r.lazy[b[i]]) = clock.tick
      <4>. TAKE i \in DOMAIN b
      <4>1. b[i] \in gone
        BY <1>10 DEF Members
      <4>. QED  BY <2>1, <4>1
    <3>. HIDE DEF a, b, c
    <3>6. /\ c \in Seq(Guid) /\ Len(c) = Len(a) + Len(b)
          /\ \A i \in 1..Len(c) : i <= Len(a) => c[i] = a[i]
          /\ \A i \in 1..Len(c) : i > Len(a) => c[i] = b[i - Len(a)]
      BY <3>3, ConcatElements DEF c
    <3>7. ASSUME NEW i \in 1..Len(c), NEW j \in 1..Len(c), i < j
          PROVE  DisabledAt(r.lazy[c[i]]) <= DisabledAt(r.lazy[c[j]])
      <4>1. CASE j <= Len(a)
        <5>1. i \in DOMAIN a /\ j \in DOMAIN a /\ c[i] = a[i] /\ c[j] = a[j]
          BY <3>3, <3>6, <3>7, <4>1
        <5>. QED  BY <3>2, <3>7, <5>1 DEF InOrder
      <4>2. CASE j > Len(a)
        <5>1. j - Len(a) \in DOMAIN b /\ c[j] = b[j - Len(a)]
          <6>1. j - Len(a) \in 1..Len(b)
            BY <3>3, <3>6, <4>2
          <6>2. c[j] = b[j - Len(a)]
            BY <3>6, <4>2
          <6>. QED  BY <3>3, <6>1, <6>2
        <5>2. DisabledAt(r.lazy[c[j]]) = clock.tick
          BY <3>5, <5>1
        <5>3. CASE i <= Len(a)
          <6>1. i \in DOMAIN a /\ c[i] = a[i]
            BY <3>3, <3>6, <5>3
          <6>2. DisabledAt(r.lazy[c[i]]) \in 0..clock.tick
            BY <3>4, <6>1
          <6>. QED  BY <5>2, <6>2
        <5>4. CASE i > Len(a)
          <6>1. i - Len(a) \in DOMAIN b /\ c[i] = b[i - Len(a)]
            <7>1. i - Len(a) \in 1..Len(b)
              BY <3>3, <3>6, <5>4
            <7>2. c[i] = b[i - Len(a)]
              BY <3>6, <5>4
            <7>. QED  BY <3>3, <7>1, <7>2
          <6>2. DisabledAt(r.lazy[c[i]]) = clock.tick
            BY <3>5, <6>1
          <6>. QED  BY <5>2, <6>2 DEF ClockOK
        <5>. QED  BY <3>3, <5>3, <5>4
      <4>. QED  BY <3>3, <4>1, <4>2
    <3>8. DOMAIN c = 1..Len(c)
      BY <3>6
    <3>. QED  BY <3>1, <3>7, <3>8 DEF InOrder
  <2>. HIDE DEF f
  <2>. QED  BY <2>3, <2>4 DEF Aged
<1>. QED
  BY <1>1, <1>2, <1>4, <1>5, <1>6, <1>9, <1>12, <1>13, <1>14 DEF gone

\* A change of an object's fields, or that it is initialized to the end.
LEMMA ChangeKeeps ==
    ASSUME NEW m, IsManager(m), Linked(m), Aged(m), NEW g \in DOMAIN m.objects,
           NEW a \in AllObjects, a.disabled = m.objects[g].disabled,
           a.inReenable = m.objects[g].inReenable,
           NEW r, r = Manager([m.objects EXCEPT ![g] = a], m.lazy, m.visible, m.reenabled,
                              m.fifo)
    PROVE  /\ IsManager(r) /\ Linked(r) /\ Aged(r)
           /\ r.lazy = m.lazy /\ r.reenabled = m.reenabled
           /\ DOMAIN r.objects = DOMAIN m.objects /\ r.objects[g] = a
           /\ \A h \in DOMAIN m.objects \ {g} : r.objects[h] = m.objects[h]
<1>. DEFINE o == [m.objects EXCEPT ![g] = a]
<1>1. /\ r.objects = o /\ r.lazy = m.lazy /\ r.visible = m.visible
      /\ r.reenabled = m.reenabled /\ r.fifo = m.fifo
      /\ r = Manager(r.objects, r.lazy, r.visible, r.reenabled, r.fifo)
  <2>1. r = Manager(o, m.lazy, m.visible, m.reenabled, m.fifo)
    OBVIOUS
  <2>. HIDE DEF o
  <2>. QED  BY <2>1, ManagerFields
<1>2. IsTable(o, AllObjects) /\ DOMAIN o = DOMAIN m.objects /\ o[g] = a
      /\ \A h \in DOMAIN m.objects \ {g} : o[h] = m.objects[h]
  BY DEF IsManager, IsTable
<1>. HIDE DEF o
<1>3. IsManager(r)
  BY <1>1, <1>2 DEF IsManager
<1>4. \A h \in DOMAIN o : o[h].disabled = m.objects[h].disabled
                          /\ o[h].inReenable = m.objects[h].inReenable
  BY <1>2
<1>5. Linked(r)
  <2>1. \A h \in DOMAIN r.objects :
            /\ ~ r.objects[h].disabled
            /\ r.objects[h].inReenable <=> h \in Members(r.reenabled)
    BY <1>1, <1>2, <1>4 DEF Linked
  <2>. QED  BY <1>1, <1>2, <2>1 DEF Linked
<1>6. Aged(r)
  BY <1>1 DEF Aged
<1>. QED  BY <1>1, <1>2, <1>3, <1>5, <1>6

\* A new object is visible.
Inserted(m, g, a) ==
    Manager(With(m.objects, [h \in {g} |-> a]), m.lazy, Append(m.visible, g),
            m.reenabled, m.fifo)
LEMMA InsertKeeps ==
    ASSUME NEW m, IsManager(m), Linked(m), Aged(m), NEW g \in Guid,
           g \notin DOMAIN m.objects, g \notin DOMAIN m.lazy,
           NEW a \in AllObjects, ~ a.disabled, ~ a.inReenable,
           NEW r, r = Inserted(m, g, a)
    PROVE  /\ IsManager(r) /\ Linked(r) /\ Aged(r)
           /\ r.lazy = m.lazy /\ r.reenabled = m.reenabled
           /\ DOMAIN r.objects = DOMAIN m.objects \cup {g} /\ r.objects[g] = a
           /\ \A h \in DOMAIN m.objects : r.objects[h] = m.objects[h]
<1>. DEFINE n == [h \in {g} |-> a]
            o == With(m.objects, n)
            v == Append(m.visible, g)
<1>1. /\ r.objects = o /\ r.lazy = m.lazy /\ r.visible = v
      /\ r.reenabled = m.reenabled /\ r.fifo = m.fifo
      /\ r = Manager(r.objects, r.lazy, r.visible, r.reenabled, r.fifo)
  <2>1. r = Manager(o, m.lazy, v, m.reenabled, m.fifo)
    BY DEF Inserted
  <2>. HIDE DEF o, v
  <2>. QED  BY <2>1, ManagerFields
<1>2. IsTable(n, AllObjects) /\ DOMAIN n = {g} /\ n[g] = a
  BY DEF IsTable
<1>. HIDE DEF n
<1>3. IsTable(o, AllObjects)
  BY <1>2, WithTable DEF IsManager
<1>4. DOMAIN o = DOMAIN m.objects \cup {g} /\ o[g] = a
      /\ \A h \in DOMAIN m.objects : o[h] = m.objects[h]
  <2>1. /\ DOMAIN o = DOMAIN m.objects \cup DOMAIN n
        /\ \A h \in DOMAIN n : o[h] = n[h]
        /\ \A h \in DOMAIN m.objects \ DOMAIN n : o[h] = m.objects[h]
    BY WithValues
  <2>. HIDE DEF o
  <2>. QED  BY <1>2, <2>1
<1>. HIDE DEF o
<1>5. g \notin Members(m.visible) /\ g \notin Members(m.reenabled)
  BY DEF Linked
<1>6. v \in Seq(Guid) /\ Members(v) = Members(m.visible) \cup {g} /\ NoRepeats(v)
  BY <1>5, AppendMembers DEF IsManager, Linked
<1>. HIDE DEF v
<1>7. IsManager(r)
  BY <1>1, <1>3, <1>6 DEF IsManager
<1>8. Linked(r)
  <2>1. /\ Members(r.visible) \cap Members(r.reenabled) = {}
        /\ Members(r.visible) \cup Members(r.reenabled) = DOMAIN r.objects
        /\ DOMAIN r.objects \cap DOMAIN r.lazy = {}
    BY <1>1, <1>4, <1>5, <1>6 DEF Linked
  <2>2. ASSUME NEW h \in DOMAIN r.objects
        PROVE  /\ ~ r.objects[h].disabled
               /\ r.objects[h].inReenable <=> h \in Members(r.reenabled)
    <3>1. CASE h = g
      BY <1>1, <1>4, <1>5, <3>1
    <3>2. CASE h # g
      BY <1>1, <1>4, <3>2 DEF Linked
    <3>. QED  BY <3>1, <3>2
  <2>. QED  BY <1>1, <1>6, <2>1, <2>2 DEF Linked
<1>9. Aged(r)
  BY <1>1 DEF Aged
<1>. QED  BY <1>1, <1>4, <1>7, <1>8, <1>9

\* At the end of the second pass the reenabled objects are visible.
Shown(m, g) ==
    IF g \in Members(m.reenabled) THEN [m.objects[g] EXCEPT !.inReenable = FALSE]
    ELSE m.objects[g]
LEMMA ShowKeeps ==
    ASSUME NEW m, IsManager(m), Linked(m), Aged(m),
           NEW r, r = Manager([g \in DOMAIN m.objects |-> Shown(m, g)], m.lazy,
                              m.visible \o m.reenabled, <<>>, m.fifo)
    PROVE  /\ IsManager(r) /\ Linked(r) /\ Aged(r)
           /\ r.lazy = m.lazy /\ r.reenabled = <<>>
           /\ DOMAIN r.objects = DOMAIN m.objects
           /\ \A g \in DOMAIN m.objects :
                /\ r.objects[g].fields = m.objects[g].fields
                /\ r.objects[g].postInited = m.objects[g].postInited
                /\ r.objects[g].memory = m.objects[g].memory
<1>. DEFINE o == [g \in DOMAIN m.objects |-> Shown(m, g)]
            v == m.visible \o m.reenabled
<1>1. /\ r.objects = o /\ r.lazy = m.lazy /\ r.visible = v
      /\ r.reenabled = <<>> /\ r.fifo = m.fifo
      /\ r = Manager(r.objects, r.lazy, r.visible, r.reenabled, r.fifo)
  <2>1. r = Manager(o, m.lazy, v, <<>>, m.fifo)
    OBVIOUS
  <2>. HIDE DEF o, v
  <2>. QED  BY <2>1, ManagerFields
<1>2. ASSUME NEW g \in DOMAIN m.objects
      PROVE  /\ Shown(m, g) \in AllObjects
             /\ ~ Shown(m, g).disabled /\ ~ Shown(m, g).inReenable
             /\ Shown(m, g).fields = m.objects[g].fields
             /\ Shown(m, g).postInited = m.objects[g].postInited
             /\ Shown(m, g).memory = m.objects[g].memory
  <2>1. m.objects[g] \in AllObjects /\ ~ m.objects[g].disabled
        /\ (m.objects[g].inReenable <=> g \in Members(m.reenabled))
    BY DEF IsManager, IsTable, Linked
  <2>2. \A a \in AllObjects :
            LET b == [a EXCEPT !.inReenable = FALSE]
            IN  /\ b \in AllObjects /\ b.disabled = a.disabled /\ ~ b.inReenable
                /\ b.fields = a.fields /\ b.postInited = a.postInited
                /\ b.memory = a.memory
    BY DEF AllObjects
  <2>. QED  BY <2>1, <2>2 DEF Shown
<1>3. IsTable(o, AllObjects) /\ DOMAIN o = DOMAIN m.objects
      /\ \A g \in DOMAIN m.objects : o[g] = Shown(m, g)
  BY <1>2 DEF IsManager, IsTable
<1>4. v \in Seq(Guid) /\ Members(v) = DOMAIN m.objects /\ NoRepeats(v)
  <2>1. m.visible \in Seq(Guid) /\ m.reenabled \in Seq(Guid)
        /\ NoRepeats(m.visible) /\ NoRepeats(m.reenabled)
        /\ Members(m.visible) \cap Members(m.reenabled) = {}
        /\ Members(m.visible) \cup Members(m.reenabled) = DOMAIN m.objects
    BY DEF IsManager, Linked
  <2>2. v \in Seq(Guid) /\ Members(v) = Members(m.visible) \cup Members(m.reenabled)
    BY <2>1, ConcatMembers
  <2>3. NoRepeats(v)
    BY <2>1, ConcatMembers
  <2>. HIDE DEF v
  <2>. QED  BY <2>1, <2>2, <2>3
<1>. HIDE DEF o, v
<1>5. IsManager(r)
  <2>1. m.fifo \in [Types -> Seq(Guid)] /\ IsTable(m.lazy, AllObjects)
        /\ <<>> \in Seq(Guid)
    BY DEF IsManager
  <2>. QED  BY <1>1, <1>3, <1>4, <2>1 DEF IsManager
<1>6. Linked(r)
  <2>1. Members(<<>>) = {} /\ NoRepeats(<<>>)
    BY DEF Members, NoRepeats
  <2>2. \A g \in DOMAIN r.objects : ~ r.objects[g].disabled /\ ~ r.objects[g].inReenable
    BY <1>1, <1>2, <1>3
  <2>3. /\ NoRepeats(r.visible) /\ NoRepeats(r.reenabled)
        /\ Members(r.visible) \cap Members(r.reenabled) = {}
        /\ Members(r.visible) \cup Members(r.reenabled) = DOMAIN r.objects
    BY <1>1, <1>3, <1>4, <2>1
  <2>4. DOMAIN r.objects \cap DOMAIN r.lazy = {}
    BY <1>1, <1>3 DEF Linked
  <2>5. /\ \A g \in DOMAIN r.lazy :
            /\ r.lazy[g].disabled /\ ~ r.lazy[g].inReenable /\ r.lazy[g].postInited
            /\ g \in Members(r.fifo[TypeOf[g]])
        /\ \A t \in Types : \A g \in Members(r.fifo[t]) :
            g \in DOMAIN r.lazy /\ TypeOf[g] = t
    BY <1>1 DEF Linked
  <2>6. \A g \in DOMAIN r.objects : g \notin Members(r.reenabled)
    BY <1>1, <2>1
  <2>. QED  BY <2>2, <2>3, <2>4, <2>5, <2>6 DEF Linked
<1>7. Aged(r)
  BY <1>1 DEF Aged
<1>. QED  BY <1>1, <1>2, <1>3, <1>5, <1>6, <1>7

-----------------------------------------------------------------------------
(* The inductive invariant.  What the server has told up to an update is a *)
(* point of its story; the client agrees with the point that its first     *)
(* pass has come to, and the last point is the server's own table.         *)

IsPoint(v) ==
    /\ IsTable(v.view, FieldValues) /\ IsTable(v.parted, FieldValues)
    /\ DOMAIN v.view \cap DOMAIN v.parted = {}
    /\ Player \notin DOMAIN v.parted

SentFields == UNION {[D -> 0..1] : D \in SUBSET Field}
Updates == [type : {"full", "partial", "movement", "out", "in", "destroy"},
            guids : SUBSET Guid, fields : SentFields]
UpdateOK(u) == u.type \notin {"out", "in"} => \E g \in Guid : u.guids = {g}

\* An update tells of the way from one point to the next.
Tells(u, v, w) ==
    \/ /\ u.type = "full"
       /\ w.view = With(v.view, [g \in u.guids |-> FillIn(Blank, u.fields, FALSE)])
       /\ w.parted = Without(v.parted, u.guids)
    \/ /\ u.type = "partial" /\ u.guids \subseteq DOMAIN v.view
       /\ w.view = With(v.view, [g \in u.guids |-> FillIn(v.view[g], u.fields, FALSE)])
       /\ w.parted = v.parted
    \/ /\ u.type = "movement" /\ u.guids \subseteq DOMAIN v.view
       /\ w.view = v.view /\ w.parted = v.parted
    \/ /\ u.type = "out" /\ u.guids \subseteq DOMAIN v.view
       /\ w.view = Without(v.view, u.guids \ {Player})
       /\ w.parted = With(v.parted, Restrict(v.view, u.guids \ {Player}))
    \/ /\ u.type = "in" /\ u.guids \subseteq DOMAIN v.parted
       /\ w.view = With(v.view, Restrict(v.parted, u.guids))
       /\ w.parted = Without(v.parted, u.guids)
    \/ /\ u.type = "destroy"
       /\ w.view = Without(v.view, u.guids) /\ w.parted = Without(v.parted, u.guids)

IsStory(story) ==
    /\ DOMAIN story = 0..Len(message)
    /\ \A i \in 0..Len(message) : IsPoint(story[i])
    /\ \A i \in 1..Len(message) : Tells(message[i], story[i - 1], story[i])
    /\ story[Len(message)].view = server.view
    /\ story[Len(message)].parted = server.parted

\* How many updates the first pass has done.
Done == IF pass = "none" THEN 0 ELSE IF pass = "first" THEN index - 1 ELSE Len(message)

Agrees(v) ==
    /\ DOMAIN mgr.objects = DOMAIN v.view \ missed
    /\ \A g \in DOMAIN mgr.objects : mgr.objects[g].fields = v.view[g]
    /\ DOMAIN mgr.lazy \cap DOMAIN v.view = {}
    /\ \A g \in DOMAIN mgr.lazy \cap DOMAIN v.parted : mgr.lazy[g].fields = v.parted[g]
    /\ missed \subseteq DOMAIN v.view /\ Player \notin missed

StoryOK == \E story : IsStory(story) /\ Agrees(story[Done])

ManagerOK == IsManager(mgr) /\ Linked(mgr) /\ Aged(mgr)

MessageOK ==
    /\ message \in Seq(Updates)
    /\ Len(message) <= MaxUpdates
    /\ \A i \in 1..Len(message) :
        /\ UpdateOK(message[i])
        /\ message[i].type \in {"out", "destroy"} => i = 1
        /\ message[i].type = "destroy" => Len(message) = 1
        /\ message[i].type \notin {"out", "destroy"} =>
                message[i].guids \subseteq DOMAIN server.view

PassOK ==
    /\ pass \in {"none", "first", "second"}
    /\ pass = "none" => index = 0 /\ mgr.reenabled = <<>>
    /\ pass # "none" => /\ message # <<>> /\ message[1].type # "destroy"
                        /\ index \in 1..(Len(message) + 1)

IsFull(i) == message[i].type = "full"

\* What the first pass has created or found is active.
FullsActive ==
    pass # "none" =>
        \A i \in 1..Done : IsFull(i) => message[i].guids \subseteq DOMAIN mgr.objects

\* The updates whose objects are still to be initialized to the end.
Pending ==
    IF pass = "none" THEN {} ELSE IF pass = "first" THEN 1..(index - 1)
    ELSE index..Len(message)
Initialized ==
    \A g \in DOMAIN mgr.objects :
        \/ mgr.objects[g].postInited
        \/ \E i \in Pending : IsFull(i) /\ g \in message[i].guids

MemoryOK ==
    /\ activePlayer \in {Nobody, Player}
    /\ Player \in DOMAIN mgr.objects \cup DOMAIN mgr.lazy => activePlayer = Player
    /\ \A g \in DOMAIN mgr.objects : mgr.objects[g].memory = "heap" <=> g = activePlayer
    /\ \A g \in DOMAIN mgr.lazy : mgr.lazy[g].memory = "heap" <=> g = activePlayer

ServerOK == server = [view |-> server.view, parted |-> server.parted, sent |-> server.sent]

ObjectInv ==
    /\ ManagerOK /\ ClockOK /\ MessageOK /\ PassOK /\ ServerOK
    /\ FullsActive /\ Initialized /\ MemoryOK /\ StoryOK

-----------------------------------------------------------------------------
(* The story. *)

\* The server tells more.
LEMMA StoryGrows ==
    ASSUME NEW u, NEW now, StoryOK, MessageOK, message' = Append(message, u),
           u \in Updates, pass = "none", UNCHANGED <<mgr, pass, missed>>,
           now = server', IsPoint(now), Tells(u, server, now), IsPoint(server)
    PROVE  StoryOK'
<1>. PICK n : n = Len(message)
  OBVIOUS
<1>1. PICK story : IsStory(story) /\ Agrees(story[Done])
  BY DEF StoryOK
<1>. DEFINE next == [i \in 0..(n + 1) |-> IF i <= n THEN story[i] ELSE now]
<1>2. /\ n \in Nat /\ Len(message') = n + 1 /\ message'[n + 1] = u
      /\ \A i \in 1..n : message'[i] = message[i]
  BY DEF MessageOK
<1>3. /\ \A i \in 0..n : IsPoint(story[i]) /\ next[i] = story[i]
      /\ next[n + 1] = now
      /\ \A i \in 1..n : Tells(message[i], story[i - 1], story[i])
      /\ story[n].view = server.view /\ story[n].parted = server.parted
  BY <1>1, <1>2 DEF IsStory
<1>4. \A i \in 1..(n + 1) : Tells(message'[i], next[i - 1], next[i])
  <2>. TAKE i \in 1..(n + 1)
  <2>1. CASE i <= n
    <3>1. i \in 1..n /\ i - 1 \in 0..n /\ i \in 0..n
      BY <1>2, <2>1
    <3>. QED  BY <1>2, <1>3, <3>1
  <2>2. CASE i = n + 1
    <3>1. Tells(u, story[n], now)
      BY <1>3 DEF Tells
    <3>2. next[i - 1] = story[n] /\ next[i] = now /\ message'[i] = u
      BY <1>2, <1>3, <2>2
    <3>. QED  BY <3>1, <3>2
  <2>. QED  BY <1>2, <2>1, <2>2
<1>5. \A i \in 0..(n + 1) : IsPoint(next[i])
  <2>. TAKE i \in 0..(n + 1)
  <2>1. CASE i <= n
    <3>1. i \in 0..n
      BY <1>2, <2>1
    <3>. QED  BY <1>3, <3>1
  <2>2. CASE i = n + 1
    BY <1>3, <2>2
  <2>. QED  BY <1>2, <2>1, <2>2
<1>6. Done = 0 /\ Done' = 0 /\ next[0] = story[0]
  BY <1>2, <1>3 DEF Done
<1>. HIDE DEF next
<1>7. Agrees(next[0])'
  BY <1>1, <1>6 DEF Agrees
<1>8. IsStory(next)'
  <2>1. DOMAIN next = 0..(n + 1)
    BY DEF next
  <2>. QED  BY <1>2, <1>3, <1>4, <1>5, <2>1 DEF IsStory, IsPoint
<1>. QED  BY <1>6, <1>7, <1>8 DEF StoryOK

\* The first pass comes to the next point.
LEMMA StoryAdvances ==
    ASSUME NEW d \in Nat, StoryOK, UNCHANGED <<message, server>>, Done = d, Done' = d + 1,
           d < Len(message), Len(message) \in Nat,
           \A v, w : IsPoint(v) /\ IsPoint(w) /\ Tells(message[d + 1], v, w) /\ Agrees(v)
                        => Agrees(w)'
    PROVE  StoryOK'
<1>1. PICK story : IsStory(story) /\ Agrees(story[d])
  BY DEF StoryOK
<1>2. PICK v, w : v = story[d] /\ w = story[d + 1]
  OBVIOUS
<1>3. Agrees(w)'
  <2>1. IsPoint(v) /\ IsPoint(w) /\ Tells(message[d + 1], v, w) /\ Agrees(v)
    <3>1. d \in 0..Len(message) /\ d + 1 \in 1..Len(message) /\ (d + 1) - 1 = d
          /\ d + 1 \in 0..Len(message)
      OBVIOUS
    <3>. QED  BY <1>1, <1>2, <3>1 DEF IsStory
  <2>. QED  BY <2>1
<1>4. IsStory(story)'
  BY <1>1 DEF IsStory
<1>. QED  BY <1>2, <1>3, <1>4 DEF StoryOK

LEMMA StoryStays ==
    ASSUME NEW d \in 0..Len(message), StoryOK, UNCHANGED <<message, server>>,
           Done = d, Done' = d, \A v : IsPoint(v) /\ Agrees(v) => Agrees(v)'
    PROVE  StoryOK'
<1>1. PICK story : IsStory(story) /\ Agrees(story[d])
  BY DEF StoryOK
<1>2. PICK v : v = story[d]
  OBVIOUS
<1>3. Agrees(v)'
  <2>1. IsPoint(v) /\ Agrees(v)
    BY <1>1, <1>2 DEF IsStory
  <2>. QED  BY <2>1
<1>4. IsStory(story)'
  BY <1>1 DEF IsStory
<1>. QED  BY <1>2, <1>3, <1>4 DEF StoryOK

\* All has been told: what the client agrees with is the server's table.
LEMMA StoryTold ==
    ASSUME StoryOK, Done = Len(message), Len(message) \in Nat
    PROVE  IsPoint(server) /\ Agrees(server)
<1>1. PICK story : IsStory(story) /\ Agrees(story[Done])
  BY DEF StoryOK
<1>2. /\ IsPoint(story[Done])
      /\ story[Done].view = server.view /\ story[Done].parted = server.parted
  BY <1>1 DEF IsStory
<1>. QED  BY <1>1, <1>2 DEF IsPoint, Agrees

\* Between messages.
LEMMA StoryBegins ==
    ASSUME message' = <<>>, pass' = "none", NEW now, now = server', IsPoint(now),
           Agrees(now)'
    PROVE  StoryOK'
<1>. DEFINE story == [i \in 0..0 |-> now]
<1>1. Len(message') = 0 /\ Done' = 0
  BY DEF Done
<1>2. IsStory(story)'
  BY <1>1 DEF IsStory
<1>3. story[0] = now
  OBVIOUS
<1>. HIDE DEF story
<1>4. Agrees(story[0])'
  BY <1>3
<1>. QED  BY <1>1, <1>2, <1>4 DEF StoryOK

LEMMA ServerPoint ==
    ASSUME StoryOK, Len(message) \in Nat
    PROVE  IsPoint(server)
BY DEF StoryOK, IsStory, IsPoint

-----------------------------------------------------------------------------
(* What the server sends. *)

LEMMA Sending ==
    ASSUME ObjectInv, NEW u \in Updates, UpdateOK(u), Adds(u), NEW now, now = server',
           now = [view |-> now.view, parted |-> now.parted, sent |-> now.sent],
           IsPoint(now), Tells(u, server, now),
           u.type \in {"out", "destroy"} => message = <<>>,
           u.type \notin {"out", "destroy"} => u.guids \subseteq DOMAIN now.view,
           message # <<>> => DOMAIN server.view \subseteq DOMAIN now.view
    PROVE  ObjectInv'
<1>. USE DEF ObjectInv
<1>1. pass = "none" /\ Len(message) < MaxUpdates /\ message' = Append(message, u)
      /\ (message # <<>> => message[1].type # "destroy")
      /\ UNCHANGED <<mgr, activePlayer, clock, pass, index, missed>>
  BY DEF Adds
<1>2. StoryOK'
  <2>1. IsPoint(server)
    BY ServerPoint DEF MessageOK
  <2>. QED  BY <1>1, <2>1, StoryGrows
<1>3. MessageOK'
  <2>1. /\ message \in Seq(Updates) /\ message' \in Seq(Updates)
        /\ Len(message') = Len(message) + 1 /\ message'[Len(message) + 1] = u
        /\ \A i \in 1..Len(message) : message'[i] = message[i]
        /\ Len(message) \in Nat
    BY <1>1 DEF MessageOK
  <2>2. Len(message') <= MaxUpdates
    BY <1>1, <2>1, ObjectUpdatesAssumption
  <2>3. ASSUME NEW i \in 1..Len(message')
        PROVE  /\ UpdateOK(message'[i])
               /\ message'[i].type \in {"out", "destroy"} => i = 1
               /\ message'[i].type = "destroy" => Len(message') = 1
               /\ message'[i].type \notin {"out", "destroy"} =>
                        message'[i].guids \subseteq DOMAIN now.view
    <3>1. CASE i <= Len(message)
      <4>1. i \in 1..Len(message) /\ message'[i] = message[i] /\ message # <<>>
        BY <2>1, <3>1
      <4>2. message[i].type # "destroy"
        BY <1>1, <4>1 DEF MessageOK
      <4>. QED  BY <4>1, <4>2 DEF MessageOK
    <3>2. CASE i = Len(message) + 1
      <4>1. message'[i] = u
        BY <2>1, <3>2
      <4>2. u.type \in {"out", "destroy"} => Len(message) = 0
        OBVIOUS
      <4>. QED  BY <2>1, <3>2, <4>1, <4>2
    <3>. QED  BY <2>1, <3>1, <3>2
  <2>. QED  BY <2>1, <2>2, <2>3 DEF MessageOK
<1>4. ManagerOK' /\ ClockOK' /\ PassOK' /\ FullsActive' /\ MemoryOK' /\ ServerOK'
  <2>1. ManagerOK'
    BY <1>1 DEF ManagerOK, Aged
  <2>2. ClockOK' /\ PassOK' /\ FullsActive' /\ MemoryOK'
    BY <1>1 DEF ClockOK, PassOK, FullsActive, MemoryOK
  <2>3. ServerOK'
    BY DEF ServerOK
  <2>. QED  BY <2>1, <2>2, <2>3
<1>5. Initialized'
  BY <1>1 DEF Initialized, Pending
<1>. QED  BY <1>2, <1>3, <1>4, <1>5

LEMMA AfterTold ==
    ASSUME NEW view, NEW parted, Told(view, parted), NEW now, now = server'
    PROVE  /\ now = [view |-> now.view, parted |-> now.parted, sent |-> now.sent]
           /\ now.view = view /\ now.parted = parted
BY DEF Told

LEMMA SentTypes ==
    ASSUME NEW type \in {"full", "partial", "movement", "out", "in", "destroy"},
           NEW guids \in SUBSET Guid, NEW D \in SUBSET Field, NEW fields \in [D -> 0..1]
    PROVE  [type |-> type, guids |-> guids, fields |-> fields] \in Updates
BY DEF Updates, SentFields

LEMMA NothingSent ==
    ASSUME NEW type \in {"full", "partial", "movement", "out", "in", "destroy"},
           NEW guids \in SUBSET Guid
    PROVE  [type |-> type, guids |-> guids, fields |-> <<>>] \in Updates
<1>1. <<>> \in [{} -> 0..1] /\ {} \in SUBSET Field
  OBVIOUS
<1>. QED  BY <1>1, SentTypes

LEMMA ServerTables ==
    ASSUME ObjectInv
    PROVE  IsPoint(server)
BY ServerPoint DEF ObjectInv, MessageOK

LEMMA SendsFullKeeps ==
    ASSUME ObjectInv, SendsFull
    PROVE  ObjectInv'
<1>1. PICK g \in Guid, fields \in FieldValues :
        /\ Adds([type |-> "full", guids |-> {g}, fields |-> Nonzero(fields)])
        /\ Told(With(server.view, [h \in {g} |-> fields]), Without(server.parted, {g}))
  BY DEF SendsFull
<1>. DEFINE u == [type |-> "full", guids |-> {g}, fields |-> Nonzero(fields)]
            n == [h \in {g} |-> fields]
<1>2. PICK now : now = server'
  OBVIOUS
<1>3. /\ now = [view |-> now.view, parted |-> now.parted, sent |-> now.sent]
      /\ now.view = With(server.view, n) /\ now.parted = Without(server.parted, {g})
  BY <1>1, <1>2, AfterTold
<1>4. IsPoint(server)
  BY ServerTables
<1>5. u \in Updates /\ UpdateOK(u)
  <2>1. {f \in Field : fields[f] # 0} \in SUBSET Field
        /\ Nonzero(fields) \in [{f \in Field : fields[f] # 0} -> 0..1]
    BY DEF Nonzero, Restrict, FieldValues
  <2>2. u \in Updates
    BY <2>1, SentTypes
  <2>. QED  BY <2>2 DEF UpdateOK
<1>6. FillIn(Blank, Nonzero(fields), FALSE) = fields
  BY DEF FillIn, Blank, Nonzero, Restrict, FieldValues
<1>7. Tells(u, server, now)
  <2>1. [h \in u.guids |-> FillIn(Blank, u.fields, FALSE)] = n
    BY <1>6
  <2>. QED  BY <1>3, <2>1 DEF Tells
<1>8. IsPoint(now) /\ DOMAIN server.view \subseteq DOMAIN now.view /\ g \in DOMAIN now.view
  <2>1. IsTable(n, FieldValues) /\ DOMAIN n = {g}
    BY DEF IsTable
  <2>. HIDE DEF n
  <2>2. IsTable(now.view, FieldValues) /\ DOMAIN now.view = DOMAIN server.view \cup {g}
    <3>1. IsTable(now.view, FieldValues)
      BY <1>3, <1>4, <2>1, WithTable DEF IsPoint
    <3>2. DOMAIN now.view = DOMAIN server.view \cup {g}
      <4>1. DOMAIN With(server.view, n) = DOMAIN server.view \cup DOMAIN n
        BY WithValues
      <4>. QED  BY <1>3, <1>4, <2>1, <4>1
    <3>. QED  BY <3>1, <3>2
  <2>3. IsTable(now.parted, FieldValues) /\ DOMAIN now.parted = DOMAIN server.parted \ {g}
    <3>1. IsTable(now.parted, FieldValues)
      BY <1>3, <1>4, WithoutTable DEF IsPoint
    <3>2. DOMAIN now.parted = DOMAIN server.parted \ {g}
      BY <1>3, <1>4, WithoutValues
    <3>. QED  BY <3>1, <3>2
  <2>. QED  BY <1>4, <2>2, <2>3 DEF IsPoint
<1>9. u.type = "full" /\ u.guids = {g}
  OBVIOUS
<1>. HIDE DEF u
<1>. QED  BY <1>1, <1>2, <1>3, <1>5, <1>7, <1>8, <1>9, Sending DEF u

LEMMA SendsPartialKeeps ==
    ASSUME ObjectInv, SendsPartial
    PROVE  ObjectInv'
<1>1. PICK g \in DOMAIN server.view, f \in Field, value \in 0..1 :
        /\ Adds([type |-> "partial", guids |-> {g}, fields |-> [h \in {f} |-> value]])
        /\ Told([server.view EXCEPT ![g][f] = value], server.parted)
  BY DEF SendsPartial
<1>. DEFINE u == [type |-> "partial", guids |-> {g}, fields |-> [h \in {f} |-> value]]
            n == [h \in {g} |-> FillIn(server.view[h], [k \in {f} |-> value], FALSE)]
<1>2. PICK now : now = server'
  OBVIOUS
<1>3. /\ now = [view |-> now.view, parted |-> now.parted, sent |-> now.sent]
      /\ now.view = [server.view EXCEPT ![g][f] = value] /\ now.parted = server.parted
  BY <1>1, <1>2, AfterTold
<1>4. IsPoint(server) /\ g \in Guid /\ server.view[g] \in FieldValues
  BY ServerTables DEF IsPoint, IsTable
<1>5. u \in Updates /\ UpdateOK(u)
  <2>1. {f} \in SUBSET Field /\ [h \in {f} |-> value] \in [{f} -> 0..1]
    OBVIOUS
  <2>2. u \in Updates
    BY <1>4, <2>1, SentTypes
  <2>. QED  BY <1>4, <2>2 DEF UpdateOK
<1>6. [server.view[g] EXCEPT ![f] = value]
        = FillIn(server.view[g], [k \in {f} |-> value], FALSE)
  BY <1>4 DEF FillIn, FieldValues
<1>7. now.view = With(server.view, n)
  <2>1. server.view \in [DOMAIN server.view -> FieldValues]
    BY <1>4 DEF IsPoint, IsTable
  <2>2. now.view = [server.view EXCEPT ![g] = FillIn(server.view[g], [k \in {f} |-> value], FALSE)]
    BY <1>3, <1>6, <2>1
  <2>. QED  BY <2>1, <2>2 DEF With
<1>8. IsTable(n, FieldValues) /\ DOMAIN n = {g}
  <2>1. FillIn(server.view[g], [k \in {f} |-> value], FALSE) \in FieldValues
    <3>1. \A k \in DOMAIN [h \in {f} |-> value] : [h \in {f} |-> value][k] \in 0..1
      OBVIOUS
    <3>. QED  BY <1>4, <3>1, FieldTypes
  <2>. QED  BY <1>4, <2>1 DEF IsTable
<1>9. Tells(u, server, now)
  <2>1. [h \in u.guids |-> FillIn(server.view[h], u.fields, FALSE)] = n
        /\ u.type = "partial" /\ u.guids \subseteq DOMAIN server.view
    OBVIOUS
  <2>. HIDE DEF n, u
  <2>. QED  BY <1>3, <1>7, <2>1 DEF Tells
<1>10. IsPoint(now) /\ DOMAIN now.view = DOMAIN server.view
  <2>. HIDE DEF n
  <2>1. IsTable(now.view, FieldValues) /\ DOMAIN now.view = DOMAIN server.view \cup {g}
    <3>1. IsTable(now.view, FieldValues)
      BY <1>4, <1>7, <1>8, WithTable DEF IsPoint
    <3>2. DOMAIN now.view = DOMAIN server.view \cup {g}
      <4>1. DOMAIN With(server.view, n) = DOMAIN server.view \cup DOMAIN n
        BY WithValues
      <4>. QED  BY <1>4, <1>7, <1>8, <4>1
    <3>. QED  BY <3>1, <3>2
  <2>. QED  BY <1>3, <1>4, <2>1 DEF IsPoint
<1>11. u.type = "partial" /\ u.guids = {g}
  OBVIOUS
<1>. HIDE DEF u
<1>. QED  BY <1>1, <1>2, <1>3, <1>5, <1>9, <1>10, <1>11, Sending DEF u

LEMMA SendsMovementKeeps ==
    ASSUME ObjectInv, SendsMovement
    PROVE  ObjectInv'
<1>1. PICK g \in DOMAIN server.view :
        /\ Adds([type |-> "movement", guids |-> {g}, fields |-> <<>>])
        /\ Told(server.view, server.parted)
  BY DEF SendsMovement
<1>. DEFINE u == [type |-> "movement", guids |-> {g}, fields |-> <<>>]
<1>2. PICK now : now = server'
  OBVIOUS
<1>3. /\ now = [view |-> now.view, parted |-> now.parted, sent |-> now.sent]
      /\ now.view = server.view /\ now.parted = server.parted
  BY <1>1, <1>2, AfterTold
<1>4. IsPoint(server) /\ g \in Guid
  BY ServerTables DEF IsPoint, IsTable
<1>5. u \in Updates /\ UpdateOK(u)
  BY <1>4, NothingSent DEF UpdateOK
<1>6. u.type = "movement" /\ u.guids = {g}
  OBVIOUS
<1>7. Adds(u)
  BY <1>1
<1>. HIDE DEF u
<1>8. Tells(u, server, now) /\ IsPoint(now)
  BY <1>3, <1>4, <1>6 DEF Tells, IsPoint
<1>. QED  BY <1>2, <1>3, <1>5, <1>6, <1>7, <1>8, Sending

LEMMA SendsOutOfRangeKeeps ==
    ASSUME ObjectInv, SendsOutOfRange
    PROVE  ObjectInv'
<1>1. PICK S \in SUBSET DOMAIN server.view \ {{}} :
        /\ message = <<>>
        /\ Adds([type |-> "out", guids |-> S, fields |-> <<>>])
        /\ Told(Without(server.view, S \ {Player}),
                With(server.parted, Restrict(server.view, S \ {Player})))
  BY DEF SendsOutOfRange
<1>. DEFINE u == [type |-> "out", guids |-> S, fields |-> <<>>]
            gone == S \ {Player}
<1>2. PICK now : now = server'
  OBVIOUS
<1>3. /\ now = [view |-> now.view, parted |-> now.parted, sent |-> now.sent]
      /\ now.view = Without(server.view, gone)
      /\ now.parted = With(server.parted, Restrict(server.view, gone))
  BY <1>1, <1>2, AfterTold
<1>4. IsPoint(server) /\ S \in SUBSET Guid
  BY ServerTables DEF IsPoint, IsTable
<1>5. u \in Updates /\ UpdateOK(u)
  BY <1>4, NothingSent DEF UpdateOK
<1>6. u.type = "out" /\ u.guids = S
  OBVIOUS
<1>7. Adds(u)
  BY <1>1
<1>. HIDE DEF u
<1>8. Tells(u, server, now)
  BY <1>3, <1>6 DEF Tells
<1>9. IsPoint(now)
  <2>1. IsTable(now.view, FieldValues) /\ DOMAIN now.view = DOMAIN server.view \ gone
    <3>1. IsTable(now.view, FieldValues)
      BY <1>3, <1>4, WithoutTable DEF IsPoint
    <3>2. DOMAIN now.view = DOMAIN server.view \ gone
      BY <1>3, <1>4, WithoutValues
    <3>. QED  BY <3>1, <3>2
  <2>. DEFINE departed == Restrict(server.view, gone)
  <2>2. IsTable(departed, FieldValues) /\ DOMAIN departed = gone
    BY <1>4, RestrictTable, RestrictedTo DEF IsPoint
  <2>. HIDE DEF departed
  <2>3. IsTable(now.parted, FieldValues) /\ DOMAIN now.parted = DOMAIN server.parted \cup gone
    <3>1. IsTable(now.parted, FieldValues)
      BY <1>3, <1>4, <2>2, WithTable DEF IsPoint, departed
    <3>2. DOMAIN now.parted = DOMAIN server.parted \cup gone
      <4>1. DOMAIN With(server.parted, departed) = DOMAIN server.parted \cup DOMAIN departed
        BY WithValues
      <4>. QED  BY <1>3, <1>4, <2>2, <4>1 DEF departed
    <3>. QED  BY <3>1, <3>2
  <2>. QED  BY <1>4, <2>1, <2>3 DEF IsPoint
<1>. QED  BY <1>1, <1>2, <1>3, <1>5, <1>6, <1>7, <1>8, <1>9, Sending

LEMMA SendsInRangeKeeps ==
    ASSUME ObjectInv, SendsInRange
    PROVE  ObjectInv'
<1>1. PICK S \in SUBSET DOMAIN server.parted \ {{}} :
        /\ Adds([type |-> "in", guids |-> S, fields |-> <<>>])
        /\ Told(With(server.view, Restrict(server.parted, S)), Without(server.parted, S))
  BY DEF SendsInRange
<1>. DEFINE u == [type |-> "in", guids |-> S, fields |-> <<>>]
<1>2. PICK now : now = server'
  OBVIOUS
<1>3. /\ now = [view |-> now.view, parted |-> now.parted, sent |-> now.sent]
      /\ now.view = With(server.view, Restrict(server.parted, S))
      /\ now.parted = Without(server.parted, S)
  BY <1>1, <1>2, AfterTold
<1>4. IsPoint(server) /\ S \in SUBSET Guid
  BY ServerTables DEF IsPoint, IsTable
<1>5. u \in Updates /\ UpdateOK(u)
  BY <1>4, NothingSent DEF UpdateOK
<1>6. u.type = "in" /\ u.guids = S
  OBVIOUS
<1>7. Adds(u)
  BY <1>1
<1>. HIDE DEF u
<1>8. Tells(u, server, now)
  BY <1>3, <1>6 DEF Tells
<1>9. IsPoint(now) /\ DOMAIN now.view = DOMAIN server.view \cup S
  <2>1. IsTable(now.parted, FieldValues) /\ DOMAIN now.parted = DOMAIN server.parted \ S
    <3>1. IsTable(now.parted, FieldValues)
      BY <1>3, <1>4, WithoutTable DEF IsPoint
    <3>2. DOMAIN now.parted = DOMAIN server.parted \ S
      BY <1>3, <1>4, WithoutValues
    <3>. QED  BY <3>1, <3>2
  <2>. DEFINE back == Restrict(server.parted, S)
  <2>2. IsTable(back, FieldValues) /\ DOMAIN back = S
    BY <1>4, RestrictTable, RestrictedTo DEF IsPoint
  <2>. HIDE DEF back
  <2>3. IsTable(now.view, FieldValues) /\ DOMAIN now.view = DOMAIN server.view \cup S
    <3>1. IsTable(now.view, FieldValues)
      BY <1>3, <1>4, <2>2, WithTable DEF IsPoint, back
    <3>2. DOMAIN now.view = DOMAIN server.view \cup S
      <4>1. DOMAIN With(server.view, back) = DOMAIN server.view \cup DOMAIN back
        BY WithValues
      <4>. QED  BY <1>3, <1>4, <2>2, <4>1 DEF back
    <3>. QED  BY <3>1, <3>2
  <2>. QED  BY <1>4, <2>1, <2>3 DEF IsPoint
<1>. QED  BY <1>1, <1>2, <1>3, <1>5, <1>6, <1>7, <1>8, <1>9, Sending

LEMMA SendsDestroyKeeps ==
    ASSUME ObjectInv, SendsDestroy
    PROVE  ObjectInv'
<1>1. PICK g \in DOMAIN server.view \cup DOMAIN server.parted :
        /\ message = <<>>
        /\ Adds([type |-> "destroy", guids |-> {g}, fields |-> <<>>])
        /\ Told(Without(server.view, {g}), Without(server.parted, {g}))
  BY DEF SendsDestroy
<1>. DEFINE u == [type |-> "destroy", guids |-> {g}, fields |-> <<>>]
<1>2. PICK now : now = server'
  OBVIOUS
<1>3. /\ now = [view |-> now.view, parted |-> now.parted, sent |-> now.sent]
      /\ now.view = Without(server.view, {g}) /\ now.parted = Without(server.parted, {g})
  BY <1>1, <1>2, AfterTold
<1>4. IsPoint(server) /\ g \in Guid
  BY ServerTables DEF IsPoint, IsTable
<1>5. u \in Updates /\ UpdateOK(u)
  BY <1>4, NothingSent DEF UpdateOK
<1>6. u.type = "destroy" /\ u.guids = {g}
  OBVIOUS
<1>7. Adds(u)
  BY <1>1
<1>. HIDE DEF u
<1>8. Tells(u, server, now)
  BY <1>3, <1>6 DEF Tells
<1>9. IsPoint(now)
  <2>1. IsTable(now.view, FieldValues) /\ DOMAIN now.view = DOMAIN server.view \ {g}
    <3>1. IsTable(now.view, FieldValues)
      BY <1>3, <1>4, WithoutTable DEF IsPoint
    <3>2. DOMAIN now.view = DOMAIN server.view \ {g}
      BY <1>3, <1>4, WithoutValues
    <3>. QED  BY <3>1, <3>2
  <2>2. IsTable(now.parted, FieldValues) /\ DOMAIN now.parted = DOMAIN server.parted \ {g}
    <3>1. IsTable(now.parted, FieldValues)
      BY <1>3, <1>4, WithoutTable DEF IsPoint
    <3>2. DOMAIN now.parted = DOMAIN server.parted \ {g}
      BY <1>3, <1>4, WithoutValues
    <3>. QED  BY <3>1, <3>2
  <2>. QED  BY <1>4, <2>1, <2>2 DEF IsPoint
<1>. QED  BY <1>1, <1>2, <1>3, <1>5, <1>6, <1>7, <1>8, <1>9, Sending

-----------------------------------------------------------------------------
(* The steps of the handlers. *)

LEMMA GetKeeps ==
    ASSUME NEW m, IsManager(m), Linked(m), Aged(m), NEW S,
           NEW r, r = GetUpdateObject(m, S)
    PROVE  /\ IsManager(r) /\ Linked(r) /\ Aged(r)
           /\ DOMAIN r.objects = DOMAIN m.objects \cup (S \cap DOMAIN m.lazy)
           /\ DOMAIN r.lazy = DOMAIN m.lazy \ S
           /\ \A g \in DOMAIN m.objects : r.objects[g] = m.objects[g]
           /\ \A g \in DOMAIN r.lazy : r.lazy[g] = m.lazy[g]
           /\ \A g \in S \cap DOMAIN m.lazy :
                /\ r.objects[g].fields = m.lazy[g].fields
                /\ r.objects[g].postInited
                /\ r.objects[g].memory = m.lazy[g].memory
<1>. DEFINE T == (S \cap DOMAIN m.lazy) \ DOMAIN m.objects
<1>1. r = Reenable(m, T) /\ T \in SUBSET DOMAIN m.lazy
  BY DEF GetUpdateObject
<1>2. \A g : g \in T <=> g \in S /\ g \in DOMAIN m.lazy
  BY DEF Linked
<1>. HIDE DEF T
<1>3. /\ IsManager(r) /\ Linked(r) /\ Aged(r)
      /\ DOMAIN r.objects = DOMAIN m.objects \cup T
      /\ DOMAIN r.lazy = DOMAIN m.lazy \ T
      /\ \A g \in DOMAIN m.objects : r.objects[g] = m.objects[g]
      /\ \A g \in DOMAIN r.lazy : r.lazy[g] = m.lazy[g]
      /\ \A g \in T : /\ r.objects[g].fields = m.lazy[g].fields
                      /\ r.objects[g].postInited
                      /\ r.objects[g].memory = m.lazy[g].memory
  BY <1>1, ReenableKeeps
<1>. QED  BY <1>2, <1>3

LEMMA ObjectFields ==
    ASSUME NEW a \in AllObjects, NEW f \in FieldValues
    PROVE  /\ [a EXCEPT !.fields = f] \in AllObjects
           /\ [a EXCEPT !.fields = f].fields = f
           /\ [a EXCEPT !.fields = f].disabled = a.disabled
           /\ [a EXCEPT !.fields = f].inReenable = a.inReenable
           /\ [a EXCEPT !.fields = f].postInited = a.postInited
           /\ [a EXCEPT !.fields = f].memory = a.memory
           /\ [a EXCEPT !.postInited = TRUE] \in AllObjects
           /\ [a EXCEPT !.postInited = TRUE].fields = a.fields
           /\ [a EXCEPT !.postInited = TRUE].disabled = a.disabled
           /\ [a EXCEPT !.postInited = TRUE].inReenable = a.inReenable
           /\ [a EXCEPT !.postInited = TRUE].postInited
           /\ [a EXCEPT !.postInited = TRUE].memory = a.memory
BY DEF AllObjects

FieldsChanged(m, g, f) == [m EXCEPT !.objects[g].fields = f]
LEMMA ChangeFields ==
    ASSUME NEW m, IsManager(m), Linked(m), Aged(m), NEW g \in DOMAIN m.objects,
           NEW f \in FieldValues, NEW r, r = FieldsChanged(m, g, f)
    PROVE  /\ IsManager(r) /\ Linked(r) /\ Aged(r)
           /\ r.lazy = m.lazy /\ r.reenabled = m.reenabled
           /\ DOMAIN r.objects = DOMAIN m.objects
           /\ \A h \in DOMAIN m.objects \ {g} : r.objects[h] = m.objects[h]
           /\ r.objects[g].fields = f
           /\ r.objects[g].postInited = m.objects[g].postInited
           /\ r.objects[g].memory = m.objects[g].memory
<1>. DEFINE a == [m.objects[g] EXCEPT !.fields = f]
            b == m.objects[g]
<1>1. b \in AllObjects
  BY DEF IsManager, IsTable
<1>2. a \in AllObjects /\ a.disabled = b.disabled /\ a.inReenable = b.inReenable
      /\ a.fields = f /\ a.postInited = b.postInited /\ a.memory = b.memory
  <2>. HIDE DEF b
  <2>1. a = [b EXCEPT !.fields = f]
    BY DEF b
  <2>. HIDE DEF a
  <2>. QED  BY <1>1, <2>1, ObjectFields
<1>3. r = Manager([m.objects EXCEPT ![g] = a], m.lazy, m.visible, m.reenabled, m.fifo)
  BY DEF IsManager, Manager, FieldsChanged
<1>. HIDE DEF a
<1>4. IsManager(r) /\ Linked(r) /\ Aged(r)
  BY <1>2, <1>3, ChangeKeeps
<1>5. r.lazy = m.lazy /\ r.reenabled = m.reenabled
      /\ DOMAIN r.objects = DOMAIN m.objects /\ r.objects[g] = a
  BY <1>2, <1>3, ChangeKeeps
<1>6. \A h \in DOMAIN m.objects \ {g} : r.objects[h] = m.objects[h]
  BY <1>2, <1>3, ChangeKeeps
<1>. QED  BY <1>2, <1>4, <1>5, <1>6

InitializedToEnd(m, g) == [m EXCEPT !.objects[g].postInited = TRUE]
LEMMA SetInitialized ==
    ASSUME NEW m, IsManager(m), Linked(m), Aged(m), NEW g \in DOMAIN m.objects,
           NEW r, r = InitializedToEnd(m, g)
    PROVE  /\ IsManager(r) /\ Linked(r) /\ Aged(r)
           /\ r.lazy = m.lazy /\ r.reenabled = m.reenabled
           /\ DOMAIN r.objects = DOMAIN m.objects
           /\ \A h \in DOMAIN m.objects \ {g} : r.objects[h] = m.objects[h]
           /\ r.objects[g].fields = m.objects[g].fields
           /\ r.objects[g].postInited
           /\ r.objects[g].memory = m.objects[g].memory
<1>. DEFINE a == [m.objects[g] EXCEPT !.postInited = TRUE]
            b == m.objects[g]
<1>1. b \in AllObjects /\ Blank \in FieldValues
  BY DEF IsManager, IsTable, FieldValues, Blank
<1>2. a \in AllObjects /\ a.disabled = b.disabled /\ a.inReenable = b.inReenable
      /\ a.fields = b.fields /\ a.postInited /\ a.memory = b.memory
  <2>. HIDE DEF b
  <2>1. a = [b EXCEPT !.postInited = TRUE]
    BY DEF b
  <2>. HIDE DEF a
  <2>. QED  BY <1>1, <2>1, ObjectFields
<1>3. r = Manager([m.objects EXCEPT ![g] = a], m.lazy, m.visible, m.reenabled, m.fifo)
  BY DEF IsManager, Manager, InitializedToEnd
<1>. HIDE DEF a
<1>4. IsManager(r) /\ Linked(r) /\ Aged(r)
  BY <1>2, <1>3, ChangeKeeps
<1>5. r.lazy = m.lazy /\ r.reenabled = m.reenabled
      /\ DOMAIN r.objects = DOMAIN m.objects /\ r.objects[g] = a
  BY <1>2, <1>3, ChangeKeeps
<1>6. \A h \in DOMAIN m.objects \ {g} : r.objects[h] = m.objects[h]
  BY <1>2, <1>3, ChangeKeeps
<1>. QED  BY <1>2, <1>4, <1>5, <1>6

LEMMA FirstPassStep ==
    ASSUME ObjectInv, pass = "first", index <= Len(message), pass' = pass,
           index' = index + 1, UNCHANGED <<message, server, clock>>,
           NEW m, m = mgr', IsManager(m), Linked(m), Aged(m),
           DOMAIN mgr.objects \subseteq DOMAIN m.objects,
           IsFull(index) => message[index].guids \subseteq DOMAIN m.objects,
           \A g \in DOMAIN m.objects :
                \/ m.objects[g].postInited
                \/ g \in DOMAIN mgr.objects /\ ~ mgr.objects[g].postInited
                \/ IsFull(index) /\ g \in message[index].guids,
           MemoryOK',
           \A v, w : IsPoint(v) /\ IsPoint(w) /\ Tells(message[index], v, w) /\ Agrees(v)
                        => Agrees(w)'
    PROVE  ObjectInv'
<1>. USE DEF ObjectInv
<1>1. index \in 1..Len(message) /\ Len(message) \in Nat
  BY DEF PassOK, MessageOK
<1>2. Done = index - 1 /\ Done' = index /\ (index - 1) + 1 = index
  BY <1>1 DEF Done
<1>3. StoryOK'
  <2>1. index - 1 \in Nat /\ index - 1 < Len(message)
    BY <1>1
  <2>. QED  BY <1>1, <1>2, <2>1, StoryAdvances
<1>4. ManagerOK' /\ ClockOK' /\ MessageOK' /\ ServerOK'
  BY DEF ManagerOK, Aged, ClockOK, MessageOK, ServerOK
<1>5. PassOK'
  BY <1>1 DEF PassOK
<1>6. FullsActive'
  BY <1>1, <1>2 DEF FullsActive, IsFull
<1>7. Initialized'
  <2>1. Pending = 1..(index - 1) /\ Pending' = 1..index
    BY <1>1 DEF Pending
  <2>. SUFFICES ASSUME NEW g \in DOMAIN m.objects, ~ m.objects[g].postInited
                PROVE  \E i \in 1..index : IsFull(i) /\ g \in message[i].guids
    BY <2>1 DEF Initialized, IsFull
  <2>2. CASE g \in DOMAIN mgr.objects /\ ~ mgr.objects[g].postInited
    <3>1. PICK i \in 1..(index - 1) : IsFull(i) /\ g \in message[i].guids
      BY <2>1, <2>2 DEF Initialized
    <3>. QED  BY <1>1, <3>1
  <2>3. CASE IsFull(index) /\ g \in message[index].guids
    BY <1>1, <2>3
  <2>. QED  BY <2>2, <2>3
<1>. QED  BY <1>3, <1>4, <1>5, <1>6, <1>7

LEMMA MemoryKeeps ==
    ASSUME MemoryOK, activePlayer' = activePlayer, NEW m, m = mgr',
           \A g \in DOMAIN m.objects :
                \/ g \in DOMAIN mgr.objects /\ m.objects[g].memory = mgr.objects[g].memory
                \/ g \in DOMAIN mgr.lazy /\ m.objects[g].memory = mgr.lazy[g].memory,
           \A g \in DOMAIN m.lazy :
                \/ g \in DOMAIN mgr.objects /\ m.lazy[g].memory = mgr.objects[g].memory
                \/ g \in DOMAIN mgr.lazy /\ m.lazy[g].memory = mgr.lazy[g].memory
    PROVE  MemoryOK'
BY DEF MemoryOK

LEMMA TheGuidIs ==
    ASSUME ObjectInv, NEW i \in 1..Len(message), message[i].type \notin {"out", "in"}
    PROVE  /\ TheGuid(message[i]) \in Guid
           /\ message[i].guids = {TheGuid(message[i])}
BY DEF ObjectInv, MessageOK, UpdateOK, TheGuid

LEMMA HandlingIs ==
    ASSUME ObjectInv, NEW p, NEW type, p # "none", Handling(p, type)
    PROVE  /\ pass = p /\ index \in 1..Len(message) /\ index <= Len(message)
           /\ Len(message) \in Nat
           /\ message[index] \in Updates /\ message[index].type = type
           /\ Update = message[index]
BY DEF ObjectInv, Handling, Update, PassOK, MessageOK

LEMMA SentValues ==
    ASSUME NEW u \in Updates
    PROVE  /\ \A f \in DOMAIN u.fields : u.fields[f] \in 0..1
           /\ u.guids \in SUBSET Guid
BY DEF Updates, SentFields

LEMMA FieldsOf ==
    ASSUME NEW m, IsManager(m)
    PROVE  /\ \A g \in DOMAIN m.objects : g \in Guid /\ m.objects[g].fields \in FieldValues
           /\ \A g \in DOMAIN m.lazy : g \in Guid /\ m.lazy[g].fields \in FieldValues
BY DEF IsManager, IsTable, AllObjects

LEMMA UpdateObjectKeeps ==
    ASSUME ObjectInv, UpdateObject
    PROVE  ObjectInv'
<1>. DEFINE g == TheGuid(message[index])
            u == message[index]
<1>1. /\ pass = "first" /\ index \in 1..Len(message) /\ index <= Len(message)
      /\ u \in Updates /\ u.type = "partial" /\ Update = u
      /\ pass' = pass /\ index' = index + 1
      /\ UNCHANGED <<activePlayer, clock, message, server, missed>>
  BY HandlingIs DEF UpdateObject, NextUpdate
<1>2. g \in Guid /\ u.guids = {g}
  BY <1>1, TheGuidIs
<1>3. IsManager(mgr) /\ Linked(mgr) /\ Aged(mgr) /\ MemoryOK
  BY DEF ObjectInv, ManagerOK
<1>4. ~ IsFull(index)
  BY <1>1 DEF IsFull
<1>5. CASE ~ HasObject(mgr, g)
  <2>1. mgr' = mgr
    BY <1>1, <1>5 DEF UpdateObject
  <2>2. ASSUME NEW v, NEW w, Tells(u, v, w), Agrees(v)
        PROVE  Agrees(w)'
    <3>1. /\ w.view = With(v.view, [h \in u.guids |-> FillIn(v.view[h], u.fields, FALSE)])
          /\ w.parted = v.parted /\ g \in DOMAIN v.view
      BY <1>1, <1>2, <2>2 DEF Tells
    <3>2. DOMAIN w.view = DOMAIN v.view /\ \A h \in DOMAIN v.view \ {g} : w.view[h] = v.view[h]
      BY <1>2, <3>1 DEF With
    <3>. QED  BY <1>1, <1>5, <2>1, <2>2, <3>1, <3>2 DEF Agrees, HasObject
  <2>3. MemoryOK'
    BY <1>1, <1>3, <2>1, MemoryKeeps
  <2>4. PICK m : m = mgr'
    OBVIOUS
  <2>5. IsManager(m) /\ Linked(m) /\ Aged(m) /\ m = mgr
    BY <1>3, <2>1, <2>4
  <2>. HIDE DEF g, u
  <2>. QED  BY <1>1, <1>4, <2>2, <2>3, <2>4, <2>5, FirstPassStep DEF u
<1>6. CASE HasObject(mgr, g)
  <2>. DEFINE r == GetUpdateObject(mgr, {g})
              f == FillIn(r.objects[g].fields, u.fields, FALSE)
  <2>1. /\ IsManager(r) /\ Linked(r) /\ Aged(r)
        /\ DOMAIN r.objects = DOMAIN mgr.objects \cup ({g} \cap DOMAIN mgr.lazy)
        /\ DOMAIN r.lazy = DOMAIN mgr.lazy \ {g}
        /\ \A h \in DOMAIN mgr.objects : r.objects[h] = mgr.objects[h]
        /\ \A h \in DOMAIN r.lazy : r.lazy[h] = mgr.lazy[h]
        /\ \A h \in {g} \cap DOMAIN mgr.lazy :
             /\ r.objects[h].fields = mgr.lazy[h].fields
             /\ r.objects[h].postInited
             /\ r.objects[h].memory = mgr.lazy[h].memory
    BY <1>3, GetKeeps
  <2>2. PICK m : m = mgr'
    OBVIOUS
  <2>3. m = FieldsChanged(r, g, f)
    BY <1>1, <1>6, <2>2 DEF UpdateObject, FieldsChanged
  <2>. HIDE DEF r
  <2>4. g \in DOMAIN r.objects /\ f \in FieldValues
    <3>1. g \in DOMAIN r.objects
      BY <1>6, <2>1 DEF HasObject
    <3>. QED  BY <1>1, <2>1, <3>1, FieldsOf, SentValues, FieldTypes
  <2>. HIDE DEF f
  <2>5. /\ IsManager(m) /\ Linked(m) /\ Aged(m)
        /\ m.lazy = r.lazy /\ DOMAIN m.objects = DOMAIN r.objects
        /\ \A h \in DOMAIN r.objects \ {g} : m.objects[h] = r.objects[h]
        /\ m.objects[g].fields = f
        /\ m.objects[g].postInited = r.objects[g].postInited
        /\ m.objects[g].memory = r.objects[g].memory
    BY <2>1, <2>3, <2>4, ChangeFields
  <2>6. ASSUME NEW h \in DOMAIN m.objects
        PROVE  /\ \/ m.objects[h].postInited
                  \/ h \in DOMAIN mgr.objects /\ ~ mgr.objects[h].postInited
               /\ \/ h \in DOMAIN mgr.objects /\ m.objects[h].memory = mgr.objects[h].memory
                  \/ h \in DOMAIN mgr.lazy /\ m.objects[h].memory = mgr.lazy[h].memory
    BY <2>1, <2>5
  <2>7. MemoryOK'
    BY <1>1, <1>3, <2>1, <2>2, <2>5, <2>6, MemoryKeeps
  <2>8. ASSUME NEW v, NEW w, IsPoint(v), Tells(u, v, w), Agrees(v)
        PROVE  Agrees(w)'
    <3>. DEFINE n == [h \in u.guids |-> FillIn(v.view[h], u.fields, FALSE)]
    <3>1. w.view = With(v.view, n) /\ w.parted = v.parted /\ g \in DOMAIN v.view
      BY <1>1, <1>2, <2>8 DEF Tells
    <3>2. DOMAIN n = {g} /\ n[g] = FillIn(v.view[g], u.fields, FALSE)
      BY <1>2
    <3>. HIDE DEF n
    <3>3. /\ DOMAIN w.view = DOMAIN v.view /\ w.view[g] = n[g]
          /\ \A h \in DOMAIN v.view \ {g} : w.view[h] = v.view[h]
      BY <3>1, <3>2 DEF With
    <3>4. g \notin DOMAIN mgr.lazy /\ g \in DOMAIN mgr.objects
      BY <1>6, <2>8, <3>1 DEF Agrees, HasObject
    <3>5. DOMAIN m.objects = DOMAIN mgr.objects /\ DOMAIN m.lazy = DOMAIN mgr.lazy
          /\ \A h \in DOMAIN mgr.lazy : m.lazy[h] = mgr.lazy[h]
      BY <2>1, <2>5, <3>4
    <3>6. m.objects[g].fields = w.view[g]
      <4>1. r.objects[g].fields = v.view[g]
        BY <2>1, <2>8, <3>4 DEF Agrees
      <4>. QED  BY <2>5, <3>2, <3>3, <4>1 DEF f
    <3>7. \A h \in DOMAIN m.objects \ {g} : m.objects[h].fields = w.view[h]
      BY <2>1, <2>5, <2>8, <3>3, <3>5 DEF Agrees
    <3>. QED  BY <1>1, <2>2, <2>8, <3>1, <3>3, <3>5, <3>6, <3>7 DEF Agrees
  <2>9. DOMAIN mgr.objects \subseteq DOMAIN m.objects
    BY <2>1, <2>5
  <2>. HIDE DEF g, u
  <2>. QED
    BY <1>1, <1>4, <2>2, <2>5, <2>6, <2>7, <2>8, <2>9, FirstPassStep DEF u
<1>. QED  BY <1>5, <1>6

LEMMA SkipMovementKeeps ==
    ASSUME ObjectInv, SkipMovement
    PROVE  ObjectInv'
<1>. DEFINE u == message[index]
<1>1. /\ pass = "first" /\ index \in 1..Len(message) /\ index <= Len(message)
      /\ u \in Updates /\ u.type = "movement"
      /\ pass' = pass /\ index' = index + 1
      /\ UNCHANGED <<mgr, activePlayer, clock, message, server, missed>>
  BY HandlingIs DEF SkipMovement, NextUpdate
<1>2. IsManager(mgr) /\ Linked(mgr) /\ Aged(mgr) /\ MemoryOK
  BY DEF ObjectInv, ManagerOK
<1>3. ~ IsFull(index)
  BY <1>1 DEF IsFull
<1>4. ASSUME NEW v, NEW w, Tells(u, v, w), Agrees(v)
      PROVE  Agrees(w)'
  BY <1>1, <1>4 DEF Tells, Agrees
<1>5. PICK m : m = mgr'
  OBVIOUS
<1>6. m = mgr
  BY <1>1, <1>5
<1>7. MemoryOK'
  BY <1>1, <1>2, <1>5, <1>6, MemoryKeeps
<1>8. IsManager(m) /\ Linked(m) /\ Aged(m)
  BY <1>2, <1>6
<1>. HIDE DEF u
<1>. QED  BY <1>1, <1>3, <1>4, <1>5, <1>6, <1>7, <1>8, FirstPassStep DEF u

\* In its first pass a message takes no object out of the tables.
LEMMA UpdateInRangeKeeps ==
    ASSUME ObjectInv, UpdateInRangeObjects
    PROVE  ObjectInv'
<1>. DEFINE u == message[index]
            S == NotPlayer(u.guids)
            r == GetUpdateObject(mgr, S)
<1>1. /\ pass = "first" /\ index \in 1..Len(message) /\ index <= Len(message)
      /\ u \in Updates /\ u.type = "in" /\ Update = u
      /\ pass' = pass /\ index' = index + 1
      /\ UNCHANGED <<activePlayer, clock, message, server>>
      /\ mgr' = r /\ missed' = missed \cup {g \in S : ~ HasObject(mgr, g)}
  BY HandlingIs DEF UpdateInRangeObjects, NextUpdate
<1>2. IsManager(mgr) /\ Linked(mgr) /\ Aged(mgr) /\ MemoryOK
  BY DEF ObjectInv, ManagerOK
<1>3. ~ IsFull(index)
  BY <1>1 DEF IsFull
<1>. HIDE DEF u, S
<1>4. PICK m : m = mgr'
  OBVIOUS
<1>5. /\ IsManager(m) /\ Linked(m) /\ Aged(m)
      /\ DOMAIN m.objects = DOMAIN mgr.objects \cup (S \cap DOMAIN mgr.lazy)
      /\ DOMAIN m.lazy = DOMAIN mgr.lazy \ S
      /\ \A h \in DOMAIN mgr.objects : m.objects[h] = mgr.objects[h]
      /\ \A h \in DOMAIN m.lazy : m.lazy[h] = mgr.lazy[h]
      /\ \A h \in S \cap DOMAIN mgr.lazy :
           /\ m.objects[h].fields = mgr.lazy[h].fields
           /\ m.objects[h].postInited
           /\ m.objects[h].memory = mgr.lazy[h].memory
  BY <1>1, <1>2, <1>4, GetKeeps
<1>6. ASSUME NEW h \in DOMAIN m.objects
      PROVE  /\ \/ m.objects[h].postInited
                \/ h \in DOMAIN mgr.objects /\ ~ mgr.objects[h].postInited
             /\ \/ h \in DOMAIN mgr.objects /\ m.objects[h].memory = mgr.objects[h].memory
                \/ h \in DOMAIN mgr.lazy /\ m.objects[h].memory = mgr.lazy[h].memory
  BY <1>5
<1>7. MemoryOK'
  BY <1>1, <1>2, <1>4, <1>5, <1>6, MemoryKeeps
<1>8. ASSUME NEW v, NEW w, IsPoint(v), Tells(u, v, w), Agrees(v)
      PROVE  Agrees(w)'
  <2>. DEFINE n == Restrict(v.parted, u.guids)
  <2>1. w.view = With(v.view, n) /\ w.parted = Without(v.parted, u.guids)
        /\ u.guids \subseteq DOMAIN v.parted
    BY <1>1, <1>8 DEF Tells
  <2>2. DOMAIN n = u.guids /\ \A h \in u.guids : n[h] = v.parted[h]
    BY RestrictedTo
  <2>. HIDE DEF n
  <2>3. DOMAIN w.view = DOMAIN v.view \cup u.guids
        /\ (\A h \in u.guids : w.view[h] = v.parted[h])
        /\ \A h \in DOMAIN v.view \ u.guids : w.view[h] = v.view[h]
    BY <2>1, <2>2 DEF With
  <2>4. DOMAIN w.parted = DOMAIN v.parted \ u.guids
        /\ \A h \in DOMAIN v.parted \ u.guids : w.parted[h] = v.parted[h]
    BY <2>1 DEF Without, Restrict
  <2>5. S = u.guids /\ S \cap DOMAIN v.view = {} /\ S \subseteq Guid
    <3>1. u.guids \subseteq Guid /\ Player \notin u.guids /\ u.guids \cap DOMAIN v.view = {}
      BY <1>8, <2>1 DEF IsPoint, IsTable
    <3>2. activePlayer \notin u.guids
      BY <1>2, <3>1, ObjectUpdatesAssumption DEF MemoryOK
    <3>. QED  BY <3>1, <3>2 DEF S, NotPlayer
  <2>6. DOMAIN m.objects = DOMAIN w.view \ missed'
    <3>1. S \cap DOMAIN mgr.objects = {} /\ S \cap missed = {}
      BY <1>8, <2>5 DEF Agrees
    <3>2. \A h : h \in missed' <=> h \in missed \/ (h \in S /\ h \notin DOMAIN mgr.lazy)
      BY <1>1, <3>1 DEF HasObject
    <3>3. DOMAIN mgr.objects = DOMAIN v.view \ missed
      BY <1>8 DEF Agrees
    <3>. QED  BY <1>5, <2>3, <2>5, <3>1, <3>2, <3>3
  <2>7. \A h \in DOMAIN m.objects : m.objects[h].fields = w.view[h]
    <3>. TAKE h \in DOMAIN m.objects
    <3>1. CASE h \in DOMAIN mgr.objects
      <4>1. h \in DOMAIN v.view \ u.guids
        BY <1>8, <2>5, <3>1 DEF Agrees
      <4>. QED  BY <1>5, <1>8, <2>3, <3>1, <4>1 DEF Agrees
    <3>2. CASE h \in S \cap DOMAIN mgr.lazy
      <4>1. h \in DOMAIN mgr.lazy \cap DOMAIN v.parted
        BY <2>1, <2>5, <3>2
      <4>. QED  BY <1>5, <1>8, <2>3, <2>5, <3>2, <4>1 DEF Agrees
    <3>. QED  BY <1>5, <3>1, <3>2
  <2>8. DOMAIN m.lazy \cap DOMAIN w.view = {}
    BY <1>5, <1>8, <2>3, <2>5 DEF Agrees
  <2>9. \A h \in DOMAIN m.lazy \cap DOMAIN w.parted : m.lazy[h].fields = w.parted[h]
    BY <1>5, <1>8, <2>4 DEF Agrees
  <2>10. missed' \subseteq DOMAIN w.view /\ Player \notin missed'
    BY <1>1, <1>8, <2>1, <2>3, <2>5 DEF Agrees, IsPoint
  <2>. QED  BY <1>4, <2>6, <2>7, <2>8, <2>9, <2>10 DEF Agrees
<1>9. DOMAIN mgr.objects \subseteq DOMAIN m.objects
  BY <1>5
<1>. QED
  BY <1>1, <1>3, <1>4, <1>5, <1>6, <1>7, <1>8, <1>9, FirstPassStep DEF u

LEMMA CreateExistingKeeps ==
    ASSUME ObjectInv, CreateExisting
    PROVE  ObjectInv'
<1>. DEFINE u == message[index]
            g == TheGuid(u)
            r == GetUpdateObject(mgr, {g})
            f == FillIn(r.objects[g].fields, u.fields, TRUE)
<1>1. /\ pass = "first" /\ index \in 1..Len(message) /\ index <= Len(message)
      /\ u \in Updates /\ u.type = "full" /\ Update = u
      /\ pass' = pass /\ index' = index + 1
      /\ UNCHANGED <<activePlayer, clock, message, server, missed>>
  BY HandlingIs DEF CreateExisting, NextUpdate
<1>2. PICK m : m = mgr'
  OBVIOUS
<1>3. HasObject(mgr, g) /\ m = FieldsChanged(r, g, f)
  BY <1>1, <1>2 DEF CreateExisting, FieldsChanged
<1>4. g \in Guid /\ u.guids = {g}
  BY <1>1, TheGuidIs
<1>5. IsManager(mgr) /\ Linked(mgr) /\ Aged(mgr) /\ MemoryOK
  BY DEF ObjectInv, ManagerOK
<1>6. /\ IsManager(r) /\ Linked(r) /\ Aged(r)
      /\ DOMAIN r.objects = DOMAIN mgr.objects \cup ({g} \cap DOMAIN mgr.lazy)
      /\ DOMAIN r.lazy = DOMAIN mgr.lazy \ {g}
      /\ \A h \in DOMAIN mgr.objects : r.objects[h] = mgr.objects[h]
      /\ \A h \in DOMAIN r.lazy : r.lazy[h] = mgr.lazy[h]
      /\ \A h \in {g} \cap DOMAIN mgr.lazy :
           /\ r.objects[h].fields = mgr.lazy[h].fields
           /\ r.objects[h].postInited
           /\ r.objects[h].memory = mgr.lazy[h].memory
  BY <1>5, GetKeeps
<1>. HIDE DEF r, u, g
<1>7. g \in DOMAIN r.objects
  BY <1>3, <1>6 DEF HasObject
<1>8. f \in FieldValues
  BY <1>1, <1>6, <1>7, FieldsOf, SentValues, FieldTypes
<1>9. f = FillIn(Blank, u.fields, FALSE)
  BY DEF FillIn, Blank
<1>. HIDE DEF f
<1>10. /\ IsManager(m) /\ Linked(m) /\ Aged(m)
       /\ m.lazy = r.lazy /\ DOMAIN m.objects = DOMAIN r.objects
       /\ \A h \in DOMAIN r.objects \ {g} : m.objects[h] = r.objects[h]
       /\ m.objects[g].fields = f
       /\ m.objects[g].postInited = r.objects[g].postInited
       /\ m.objects[g].memory = r.objects[g].memory
  BY <1>3, <1>6, <1>7, <1>8, ChangeFields
<1>11. ASSUME NEW h \in DOMAIN m.objects
       PROVE  /\ \/ m.objects[h].postInited
                 \/ h \in DOMAIN mgr.objects /\ ~ mgr.objects[h].postInited
              /\ \/ h \in DOMAIN mgr.objects /\ m.objects[h].memory = mgr.objects[h].memory
                 \/ h \in DOMAIN mgr.lazy /\ m.objects[h].memory = mgr.lazy[h].memory
  BY <1>6, <1>10
<1>12. MemoryOK'
  BY <1>1, <1>2, <1>5, <1>6, <1>10, <1>11, MemoryKeeps
<1>13. ASSUME NEW v, NEW w, IsPoint(v), Tells(u, v, w), Agrees(v)
       PROVE  Agrees(w)'
  <2>. DEFINE n == [h \in u.guids |-> FillIn(Blank, u.fields, FALSE)]
  <2>1. w.view = With(v.view, n) /\ w.parted = Without(v.parted, u.guids)
    BY <1>1, <1>13 DEF Tells
  <2>2. DOMAIN n = {g} /\ n[g] = f
    BY <1>4, <1>9
  <2>. HIDE DEF n
  <2>3. DOMAIN w.view = DOMAIN v.view \cup {g} /\ w.view[g] = f
        /\ \A h \in DOMAIN v.view \ {g} : w.view[h] = v.view[h]
    BY <2>1, <2>2 DEF With
  <2>4. DOMAIN w.parted = DOMAIN v.parted \ {g}
        /\ \A h \in DOMAIN v.parted \ {g} : w.parted[h] = v.parted[h]
    BY <1>4, <2>1 DEF Without, Restrict
  <2>5. g \notin missed
    BY <1>3, <1>13 DEF Agrees, HasObject
  <2>6. DOMAIN m.objects = DOMAIN w.view \ missed
    <3>1. DOMAIN m.objects = DOMAIN mgr.objects \cup {g}
      BY <1>3, <1>6, <1>10 DEF HasObject
    <3>. QED  BY <1>13, <2>3, <2>5, <3>1 DEF Agrees
  <2>7. \A h \in DOMAIN m.objects : m.objects[h].fields = w.view[h]
    <3>. TAKE h \in DOMAIN m.objects
    <3>1. CASE h # g
      BY <1>6, <1>10, <1>13, <2>3, <3>1 DEF Agrees
    <3>. QED  BY <1>10, <2>3, <3>1
  <2>8. DOMAIN m.lazy \cap DOMAIN w.view = {}
    BY <1>6, <1>10, <1>13, <2>3 DEF Agrees
  <2>9. \A h \in DOMAIN m.lazy \cap DOMAIN w.parted : m.lazy[h].fields = w.parted[h]
    BY <1>6, <1>10, <1>13, <2>4 DEF Agrees
  <2>10. missed' = missed /\ missed \subseteq DOMAIN w.view /\ Player \notin missed
    BY <1>1, <1>13, <2>3 DEF Agrees
  <2>. QED  BY <1>2, <2>6, <2>7, <2>8, <2>9, <2>10 DEF Agrees
<1>14. DOMAIN mgr.objects \subseteq DOMAIN m.objects /\ u.guids \subseteq DOMAIN m.objects
  BY <1>4, <1>6, <1>7, <1>10
<1>. QED
  BY <1>1, <1>2, <1>10, <1>11, <1>12, <1>13, <1>14, FirstPassStep DEF u

LEMMA CreateNewKeeps ==
    ASSUME ObjectInv, CreateNew
    PROVE  ObjectInv'
<1>. DEFINE u == message[index]
            g == TheGuid(u)
            c == IF g = Player THEN mgr ELSE GarbageCollect(mgr, {TypeOf[g]}, Short)
            f == FillIn(Blank, u.fields, FALSE)
            mem == MemoryOf(g)
            a == [fields |-> f, disabled |-> FALSE, inReenable |-> FALSE,
                  postInited |-> FALSE, disableTime |-> 0, memory |-> mem]
<1>1. /\ pass = "first" /\ index \in 1..Len(message) /\ index <= Len(message)
      /\ u \in Updates /\ u.type = "full" /\ Update = u
      /\ pass' = pass /\ index' = index + 1
      /\ UNCHANGED <<clock, message, server>>
  BY HandlingIs DEF CreateNew, NextUpdate
<1>2. PICK m : m = mgr'
  OBVIOUS
<1>3. /\ ~ HasObject(mgr, g)
      /\ activePlayer' = IF g = Player THEN g ELSE activePlayer
      /\ m = Inserted(c, g, a)
      /\ missed' = missed \ {g}
  BY <1>1, <1>2 DEF CreateNew, Inserted
<1>4. g \in Guid /\ u.guids = {g}
  BY <1>1, TheGuidIs
<1>5. IsManager(mgr) /\ Linked(mgr) /\ Aged(mgr) /\ MemoryOK /\ ClockOK
  BY DEF ObjectInv, ManagerOK
<1>6. /\ IsManager(c) /\ Linked(c) /\ Aged(c)
      /\ c.objects = mgr.objects /\ DOMAIN c.lazy \subseteq DOMAIN mgr.lazy
      /\ \A h \in DOMAIN c.lazy : c.lazy[h] = mgr.lazy[h]
  <2>1. CASE g = Player
    BY <1>5, <2>1
  <2>2. CASE g # Player
    <3>. DEFINE T == {TypeOf[g]}
                q == GarbageCollect(mgr, T, Short)
    <3>1. T \in SUBSET Types
      BY <1>4, TypesOfGuids
    <3>2. c = q
      BY <2>2
    <3>. HIDE DEF g, T
    <3>3. /\ IsManager(q) /\ Linked(q) /\ Aged(q)
          /\ q.objects = mgr.objects /\ DOMAIN q.lazy \subseteq DOMAIN mgr.lazy
          /\ \A h \in DOMAIN q.lazy : q.lazy[h] = mgr.lazy[h]
      BY <1>5, <3>1, CollectKeeps
    <3>. HIDE DEF q, c
    <3>. QED  BY <3>2, <3>3
  <2>. QED  BY <2>1, <2>2
<1>7. mem = IF g = activePlayer' THEN "heap" ELSE "pool"
  BY DEF MemoryOf
<1>. HIDE DEF c, u, g, mem
<1>8. g \notin DOMAIN mgr.objects /\ g \notin DOMAIN mgr.lazy
  BY <1>3 DEF HasObject
<1>9. f \in FieldValues /\ Blank \in FieldValues
  <2>1. Blank \in FieldValues
    BY DEF Blank, FieldValues
  <2>. QED  BY <1>1, <2>1, SentValues, FieldTypes
<1>. HIDE DEF f
<1>10. a \in AllObjects /\ ~ a.disabled /\ ~ a.inReenable /\ a.fields = f /\ a.memory = mem
       /\ ~ a.postInited
  <2>1. 0 \in 0..(Width - 1)
    BY WidthPositive
  <2>. QED  BY <1>7, <1>9, <2>1 DEF AllObjects
<1>. HIDE DEF a
<1>11. g \notin DOMAIN c.objects /\ g \notin DOMAIN c.lazy
  BY <1>6, <1>8
<1>12. IsManager(m) /\ Linked(m) /\ Aged(m)
  BY <1>3, <1>4, <1>6, <1>10, <1>11, InsertKeeps
<1>13. m.lazy = c.lazy /\ DOMAIN m.objects = DOMAIN c.objects \cup {g} /\ m.objects[g] = a
  BY <1>3, <1>4, <1>6, <1>10, <1>11, InsertKeeps
<1>14. \A h \in DOMAIN c.objects : m.objects[h] = c.objects[h]
  BY <1>3, <1>4, <1>6, <1>10, <1>11, InsertKeeps
<1>15. MemoryOK'
  <2>1. activePlayer' \in {Nobody, Player}
    BY <1>3, <1>5 DEF MemoryOK
  <2>2. \A h \in DOMAIN mgr.objects \cup DOMAIN mgr.lazy :
            (h = activePlayer') <=> (h = activePlayer)
    <3>1. CASE g = Player
      <4>1. activePlayer' = Player
        BY <1>3, <3>1
      <4>2. activePlayer \in {Nobody, Player} /\ Nobody \notin Guid
        BY <1>5, ObjectUpdatesAssumption DEF MemoryOK
      <4>3. \A h \in DOMAIN mgr.objects \cup DOMAIN mgr.lazy : h # Player /\ h # Nobody
        BY <1>5, <1>8, <3>1, <4>2 DEF IsManager, IsTable
      <4>. QED  BY <4>1, <4>2, <4>3
    <3>2. CASE g # Player
      BY <1>3, <3>2
    <3>. QED  BY <3>1, <3>2
  <2>3. Player \in DOMAIN m.objects \cup DOMAIN m.lazy => activePlayer' = Player
    BY <1>3, <1>5, <1>6, <1>13 DEF MemoryOK
  <2>4. ASSUME NEW h \in DOMAIN m.objects
        PROVE  m.objects[h].memory = "heap" <=> h = activePlayer'
    <3>1. CASE h = g
      BY <1>7, <1>10, <1>13, <3>1
    <3>2. CASE h \in DOMAIN mgr.objects
      BY <1>5, <1>6, <1>14, <2>2, <3>2 DEF MemoryOK
    <3>. QED  BY <1>6, <1>13, <3>1, <3>2
  <2>5. ASSUME NEW h \in DOMAIN m.lazy
        PROVE  m.lazy[h].memory = "heap" <=> h = activePlayer'
    BY <1>5, <1>6, <1>13, <2>2 DEF MemoryOK
  <2>. QED  BY <1>2, <2>1, <2>3, <2>4, <2>5 DEF MemoryOK
<1>16. ASSUME NEW h \in DOMAIN m.objects
       PROVE  \/ h \in DOMAIN mgr.objects /\ m.objects[h] = mgr.objects[h]
              \/ h = g
  BY <1>6, <1>13, <1>14
<1>17. ASSUME NEW v, NEW w, IsPoint(v), Tells(u, v, w), Agrees(v)
       PROVE  Agrees(w)'
  <2>. DEFINE n == [h \in u.guids |-> FillIn(Blank, u.fields, FALSE)]
  <2>1. w.view = With(v.view, n) /\ w.parted = Without(v.parted, u.guids)
    BY <1>1, <1>17 DEF Tells
  <2>2. DOMAIN n = {g} /\ n[g] = f
    BY <1>4 DEF f
  <2>. HIDE DEF n
  <2>3. DOMAIN w.view = DOMAIN v.view \cup {g} /\ w.view[g] = f
        /\ \A h \in DOMAIN v.view \ {g} : w.view[h] = v.view[h]
    BY <2>1, <2>2 DEF With
  <2>4. DOMAIN w.parted = DOMAIN v.parted \ {g}
        /\ \A h \in DOMAIN v.parted \ {g} : w.parted[h] = v.parted[h]
    BY <1>4, <2>1 DEF Without, Restrict
  <2>5. DOMAIN m.objects = DOMAIN mgr.objects \cup {g}
    BY <1>6, <1>13
  <2>6. DOMAIN m.objects = DOMAIN w.view \ missed'
    BY <1>3, <1>17, <2>3, <2>5 DEF Agrees
  <2>7. \A h \in DOMAIN m.objects : m.objects[h].fields = w.view[h]
    <3>. TAKE h \in DOMAIN m.objects
    <3>1. CASE h # g
      BY <1>16, <1>17, <2>3, <3>1 DEF Agrees
    <3>. QED  BY <1>10, <1>13, <2>3, <3>1
  <2>8. DOMAIN m.lazy \cap DOMAIN w.view = {}
    BY <1>6, <1>8, <1>13, <1>17, <2>3 DEF Agrees
  <2>9. \A h \in DOMAIN m.lazy \cap DOMAIN w.parted : m.lazy[h].fields = w.parted[h]
    BY <1>6, <1>13, <1>17, <2>4 DEF Agrees
  <2>10. missed' \subseteq DOMAIN w.view /\ Player \notin missed'
    BY <1>3, <1>17, <2>3 DEF Agrees
  <2>. QED  BY <1>2, <2>6, <2>7, <2>8, <2>9, <2>10 DEF Agrees
<1>18. DOMAIN mgr.objects \subseteq DOMAIN m.objects /\ u.guids \subseteq DOMAIN m.objects
  BY <1>4, <1>6, <1>13
<1>19. IsFull(index)
  BY <1>1 DEF IsFull, u
<1>. QED
  BY <1>1, <1>2, <1>4, <1>12, <1>15, <1>16, <1>17, <1>18, <1>19, FirstPassStep DEF u

LEMMA SecondPassKeeps ==
    ASSUME ObjectInv, SecondPass
    PROVE  ObjectInv'
<1>. USE DEF ObjectInv
<1>1. /\ pass = "first" /\ index = Len(message) + 1 /\ Len(message) \in Nat
      /\ message # <<>> /\ Len(message) > 0
      /\ pass' = "second" /\ index' = 1
      /\ UNCHANGED <<mgr, activePlayer, clock, message, server, missed>>
  <2>1. Len(message) \in Nat /\ index \in 1..(Len(message) + 1) /\ message # <<>>
        /\ message \in Seq(Updates)
    BY DEF SecondPass, PassOK, MessageOK
  <2>2. Len(message) > 0
    BY <2>1
  <2>. QED  BY <2>1, <2>2 DEF SecondPass, SecondPassFrom
<1>2. Done = Len(message) /\ Done' = Len(message) /\ Pending = 1..Len(message)
      /\ Pending' = 1..Len(message)
  BY <1>1 DEF Done, Pending
<1>3. StoryOK'
  <2>1. \A v : Agrees(v) => Agrees(v)'
    BY <1>1 DEF Agrees
  <2>. QED  BY <1>1, <1>2, <2>1, StoryStays
<1>4. ManagerOK' /\ ClockOK' /\ MessageOK' /\ ServerOK' /\ MemoryOK'
  BY <1>1 DEF ManagerOK, Aged, ClockOK, MessageOK, ServerOK, MemoryOK
<1>5. PassOK'
  BY <1>1 DEF PassOK
<1>6. FullsActive'
  BY <1>1, <1>2 DEF FullsActive, IsFull
<1>7. Initialized'
  BY <1>1, <1>2 DEF Initialized, IsFull
<1>. QED  BY <1>3, <1>4, <1>5, <1>6, <1>7

\* A step of the second pass changes no object's fields, and no table.
LEMMA SecondPassStep ==
    ASSUME ObjectInv, pass = "second", index <= Len(message), pass' = pass,
           index' = index + 1, UNCHANGED <<message, server, clock, activePlayer, missed>>,
           NEW m, m = mgr', IsManager(m), Linked(m), Aged(m),
           DOMAIN m.objects = DOMAIN mgr.objects, DOMAIN m.lazy = DOMAIN mgr.lazy,
           \A g \in DOMAIN mgr.lazy : m.lazy[g] = mgr.lazy[g],
           \A g \in DOMAIN mgr.objects :
                /\ m.objects[g].fields = mgr.objects[g].fields
                /\ m.objects[g].memory = mgr.objects[g].memory
                /\ mgr.objects[g].postInited => m.objects[g].postInited
                /\ IsFull(index) /\ g \in message[index].guids => m.objects[g].postInited
    PROVE  ObjectInv'
<1>. USE DEF ObjectInv
<1>1. index \in 1..Len(message) /\ Len(message) \in Nat
  BY DEF PassOK, MessageOK
<1>2. Done = Len(message) /\ Done' = Len(message)
  BY <1>1 DEF Done
<1>3. StoryOK'
  <2>1. \A v : Agrees(v) => Agrees(v)'
    BY DEF Agrees
  <2>. QED  BY <1>1, <1>2, <2>1, StoryStays
<1>4. ManagerOK' /\ ClockOK' /\ MessageOK' /\ ServerOK'
  BY DEF ManagerOK, Aged, ClockOK, MessageOK, ServerOK
<1>5. PassOK'
  BY <1>1 DEF PassOK
<1>6. FullsActive'
  BY <1>1, <1>2 DEF FullsActive, IsFull
<1>7. Initialized'
  <2>1. Pending = index..Len(message) /\ Pending' = (index + 1)..Len(message)
    BY <1>1 DEF Pending
  <2>. SUFFICES ASSUME NEW g \in DOMAIN m.objects, ~ m.objects[g].postInited
                PROVE  \E i \in (index + 1)..Len(message) : IsFull(i) /\ g \in message[i].guids
    BY <2>1 DEF Initialized, IsFull
  <2>2. PICK i \in index..Len(message) : IsFull(i) /\ g \in message[i].guids
    BY <2>1 DEF Initialized
  <2>3. i # index
    BY <2>2
  <2>. QED  BY <1>1, <2>2, <2>3
<1>8. MemoryOK'
  <2>1. MemoryOK
    OBVIOUS
  <2>. QED  BY <2>1, MemoryKeeps
<1>. QED  BY <1>3, <1>4, <1>5, <1>6, <1>7, <1>8

LEMMA SkipInSecondPassKeeps ==
    ASSUME ObjectInv, SkipInSecondPass
    PROVE  ObjectInv'
<1>1. /\ pass = "second" /\ index <= Len(message) /\ ~ IsFull(index)
      /\ pass' = pass /\ index' = index + 1
      /\ UNCHANGED <<mgr, activePlayer, clock, message, server, missed>>
  BY DEF SkipInSecondPass, NextUpdate, IsFull, Update
<1>2. IsManager(mgr) /\ Linked(mgr) /\ Aged(mgr)
  BY DEF ObjectInv, ManagerOK
<1>3. PICK m : m = mgr'
  OBVIOUS
<1>4. m = mgr /\ IsManager(m) /\ Linked(m) /\ Aged(m)
  BY <1>1, <1>2, <1>3
<1>. QED  BY <1>1, <1>3, <1>4, SecondPassStep

LEMMA PostMovementKeeps ==
    ASSUME ObjectInv, PostMovementUpdate
    PROVE  ObjectInv'
<1>. DEFINE u == message[index]
            g == TheGuid(u)
            S == {g}
<1>1. /\ pass = "second" /\ index \in 1..Len(message) /\ index <= Len(message)
      /\ Len(message) \in Nat /\ u.type = "movement"
      /\ pass' = pass /\ index' = index + 1
      /\ UNCHANGED <<activePlayer, clock, message, server, missed>>
      /\ mgr' = GetUpdateObject(mgr, S)
  <2>1. Handling("second", "movement") /\ mgr' = GetUpdateObject(mgr, {TheGuid(Update)})
        /\ index' = index + 1
        /\ UNCHANGED <<activePlayer, clock, message, pass, server, missed>>
    BY DEF PostMovementUpdate, NextUpdate
  <2>2. pass = "second" /\ Update = u /\ index \in 1..Len(message) /\ index <= Len(message)
        /\ Len(message) \in Nat /\ u.type = "movement"
    BY <2>1, HandlingIs
  <2>. QED  BY <2>1, <2>2
<1>2. g \in Guid /\ u.guids = S
  BY <1>1, TheGuidIs
<1>3. IsManager(mgr) /\ Linked(mgr) /\ Aged(mgr)
  BY DEF ObjectInv, ManagerOK
<1>4. ~ IsFull(index)
  BY <1>1 DEF IsFull
<1>5. S \cap DOMAIN mgr.lazy = {}
  <2>1. u.guids \subseteq DOMAIN server.view
    BY <1>1 DEF ObjectInv, MessageOK
  <2>2. Done = Len(message)
    BY <1>1 DEF Done
  <2>3. Agrees(server)
    BY <1>1, <2>2, StoryTold DEF ObjectInv
  <2>. QED  BY <1>2, <2>1, <2>3 DEF Agrees
<1>6. PICK m : m = mgr'
  OBVIOUS
<1>. HIDE DEF u, g, S
<1>7. /\ IsManager(m) /\ Linked(m) /\ Aged(m)
      /\ DOMAIN m.objects = DOMAIN mgr.objects \cup (S \cap DOMAIN mgr.lazy)
      /\ DOMAIN m.lazy = DOMAIN mgr.lazy \ S
      /\ \A h \in DOMAIN mgr.objects : m.objects[h] = mgr.objects[h]
      /\ \A h \in DOMAIN m.lazy : m.lazy[h] = mgr.lazy[h]
  BY <1>1, <1>3, <1>6, GetKeeps
<1>8. DOMAIN m.objects = DOMAIN mgr.objects /\ DOMAIN m.lazy = DOMAIN mgr.lazy
  BY <1>5, <1>7
<1>. QED  BY <1>1, <1>4, <1>6, <1>7, <1>8, SecondPassStep

\* The object that is to be initialized to the end is there.
LEMMA FullIsActive ==
    ASSUME ObjectInv, pass = "second", NEW i \in 1..Len(message), message[i].type = "full"
    PROVE  message[i].guids \subseteq DOMAIN mgr.objects
BY DEF ObjectInv, FullsActive, IsFull, Done

LEMMA PostInitKeeps ==
    ASSUME ObjectInv, PostInitObject
    PROVE  ObjectInv'
<1>. DEFINE u == message[index]
            g == TheGuid(u)
<1>1. /\ pass = "second" /\ index \in 1..Len(message) /\ index <= Len(message)
      /\ u.type = "full" /\ Update = u
  BY HandlingIs DEF PostInitObject
<1>2. g \in Guid /\ u.guids = {g}
  BY <1>1, TheGuidIs
<1>3. g \in DOMAIN mgr.objects
  BY <1>1, <1>2, FullIsActive
<1>4. PICK m : m = mgr'
  OBVIOUS
<1>5. /\ pass' = pass /\ index' = index + 1
      /\ UNCHANGED <<activePlayer, clock, message, server, missed>>
      /\ m = InitializedToEnd(mgr, g)
  BY <1>1, <1>3, <1>4 DEF PostInitObject, NextUpdate, InitializedToEnd
<1>6. IsManager(mgr) /\ Linked(mgr) /\ Aged(mgr)
  BY DEF ObjectInv, ManagerOK
<1>. HIDE DEF g
<1>7. /\ IsManager(m) /\ Linked(m) /\ Aged(m)
      /\ m.lazy = mgr.lazy
      /\ DOMAIN m.objects = DOMAIN mgr.objects
      /\ \A h \in DOMAIN mgr.objects \ {g} : m.objects[h] = mgr.objects[h]
      /\ m.objects[g].fields = mgr.objects[g].fields
      /\ m.objects[g].postInited
      /\ m.objects[g].memory = mgr.objects[g].memory
  BY <1>3, <1>5, <1>6, SetInitialized
<1>8. ASSUME NEW h \in DOMAIN mgr.objects
      PROVE  /\ m.objects[h].fields = mgr.objects[h].fields
             /\ m.objects[h].memory = mgr.objects[h].memory
             /\ mgr.objects[h].postInited => m.objects[h].postInited
             /\ IsFull(index) /\ h \in message[index].guids => m.objects[h].postInited
  BY <1>2, <1>7
<1>. HIDE DEF u
<1>. QED  BY <1>1, <1>4, <1>5, <1>7, <1>8, SecondPassStep

\* Once all is handled the client is between messages.
LEMMA BetweenMessages ==
    ASSUME ObjectInv, message' = <<>>, pass' = "none", index' = 0, ClockOK', ServerOK',
           NEW m, m = mgr', IsManager(m), Linked(m), Aged(m)', m.reenabled = <<>>,
           \A g \in DOMAIN m.objects : m.objects[g].postInited,
           MemoryOK', NEW now, now = server', IsPoint(now), Agrees(now)'
    PROVE  ObjectInv'
<1>1. StoryOK'
  BY StoryBegins
<1>2. ManagerOK'
  BY DEF ManagerOK, Aged
<1>3. MessageOK'
  <2>1. <<>> \in Seq(Updates) /\ Len(<<>>) = 0
    OBVIOUS
  <2>. QED  BY <2>1, ObjectUpdatesAssumption DEF MessageOK
<1>4. PassOK' /\ FullsActive'
  BY DEF PassOK, FullsActive
<1>5. Initialized'
  BY DEF Initialized
<1>. QED  BY <1>1, <1>2, <1>3, <1>4, <1>5 DEF ObjectInv

LEMMA FinishReenablingKeeps ==
    ASSUME ObjectInv, FinishReenabling
    PROVE  ObjectInv'
<1>. DEFINE q == Manager([g \in DOMAIN mgr.objects |-> Shown(mgr, g)], mgr.lazy,
                         mgr.visible \o mgr.reenabled, <<>>, mgr.fifo)
<1>1. /\ pass = "second" /\ index = Len(message) + 1 /\ Len(message) \in Nat
      /\ message' = <<>> /\ pass' = "none" /\ index' = 0
      /\ UNCHANGED <<activePlayer, clock, server, missed>>
  BY DEF FinishReenabling, Handled, ObjectInv, PassOK, MessageOK
<1>2. PICK m : m = mgr'
  OBVIOUS
<1>3. m = GarbageCollect(q, Types, Long)
  <2>1. ToSet(mgr.reenabled) = Members(mgr.reenabled)
    BY DEF ToSet, Members
  <2>2. [g \in DOMAIN mgr.objects |->
            IF g \in ToSet(mgr.reenabled) THEN [mgr.objects[g] EXCEPT !.inReenable = FALSE]
            ELSE mgr.objects[g]] = [g \in DOMAIN mgr.objects |-> Shown(mgr, g)]
    BY <2>1 DEF Shown
  <2>. QED  BY <1>2, <2>2 DEF FinishReenabling, Handled
<1>4. IsManager(mgr) /\ Linked(mgr) /\ Aged(mgr) /\ MemoryOK /\ ClockOK /\ ServerOK
      /\ StoryOK /\ Initialized
  BY DEF ObjectInv, ManagerOK
<1>5. /\ IsManager(q) /\ Linked(q) /\ Aged(q) /\ q.lazy = mgr.lazy /\ q.reenabled = <<>>
      /\ DOMAIN q.objects = DOMAIN mgr.objects
      /\ \A g \in DOMAIN mgr.objects :
           /\ q.objects[g].fields = mgr.objects[g].fields
           /\ q.objects[g].postInited = mgr.objects[g].postInited
           /\ q.objects[g].memory = mgr.objects[g].memory
  BY <1>4, ShowKeeps
<1>. HIDE DEF q
<1>6. /\ IsManager(m) /\ Linked(m) /\ Aged(m)
      /\ m.objects = q.objects /\ Members(m.reenabled) = Members(q.reenabled)
      /\ DOMAIN m.lazy \subseteq DOMAIN q.lazy
      /\ \A g \in DOMAIN m.lazy : m.lazy[g] = q.lazy[g]
  <2>1. Types \in SUBSET Types /\ ClockOK /\ IsManager(q) /\ Linked(q) /\ Aged(q)
    BY <1>4, <1>5
  <2>2. IsManager(m) /\ Linked(m) /\ Aged(m) /\ m.objects = q.objects
    BY <1>3, <2>1, CollectKeeps
  <2>3. Members(m.reenabled) = Members(q.reenabled)
    BY <1>3, <2>1, CollectKeeps
  <2>4. DOMAIN m.lazy \subseteq DOMAIN q.lazy
    BY <1>3, <2>1, CollectKeeps
  <2>5. \A g \in DOMAIN m.lazy : m.lazy[g] = q.lazy[g]
    BY <1>3, <2>1, CollectKeeps
  <2>. QED  BY <2>2, <2>3, <2>4, <2>5
<1>7. m.reenabled = <<>>
  <2>1. Members(m.reenabled) = {}
    BY <1>5, <1>6 DEF Members
  <2>. QED  BY <1>6, <2>1, EmptyList DEF IsManager
<1>8. \A g \in DOMAIN m.objects : m.objects[g].postInited
  <2>1. Pending = {}
    BY <1>1 DEF Pending
  <2>. QED  BY <1>4, <1>5, <1>6, <2>1 DEF Initialized
<1>9. MemoryOK'
  BY <1>1, <1>2, <1>4, <1>5, <1>6, MemoryKeeps
<1>10. IsPoint(server) /\ Agrees(server)
  BY <1>1, <1>4, StoryTold DEF Done
<1>11. PICK now : now = server'
  OBVIOUS
<1>12. now = server
  BY <1>1, <1>11
<1>13. Agrees(now)'
  BY <1>1, <1>2, <1>5, <1>6, <1>10, <1>12 DEF Agrees
<1>14. ClockOK' /\ ServerOK' /\ Aged(m)'
  BY <1>1, <1>4, <1>6 DEF ClockOK, ServerOK, Aged
<1>. QED
  BY <1>1, <1>2, <1>6, <1>7, <1>8, <1>9, <1>10, <1>11, <1>12, <1>13, <1>14, BetweenMessages

\* Before a message is handled every object is initialized to the end.
LEMMA AllInitialized ==
    ASSUME ObjectInv, pass = "none"
    PROVE  /\ IsManager(mgr) /\ Linked(mgr) /\ Aged(mgr) /\ mgr.reenabled = <<>>
           /\ \A g \in DOMAIN mgr.objects : mgr.objects[g].postInited
           /\ ClockOK /\ MemoryOK /\ StoryOK /\ Len(message) \in Nat /\ Done = 0
BY DEF ObjectInv, ManagerOK, PassOK, Initialized, Pending, MessageOK, Done

\* The objects of S are disabled; in the table v, that becomes w, they leave.
Disabled(m, S) ==
    /\ DOMAIN m.objects = DOMAIN mgr.objects \ S
    /\ \A g \in DOMAIN m.objects : m.objects[g] = mgr.objects[g]
    /\ DOMAIN m.lazy = DOMAIN mgr.lazy \cup (S \cap DOMAIN mgr.objects)
    /\ \A g \in DOMAIN mgr.lazy : m.lazy[g] = mgr.lazy[g]
    /\ \A g \in S \cap DOMAIN mgr.objects :
        /\ m.lazy[g].fields = mgr.objects[g].fields
        /\ m.lazy[g].memory = mgr.objects[g].memory
Leave(S, v, w) ==
    /\ DOMAIN w.view = DOMAIN v.view \ S
    /\ \A g \in DOMAIN w.view : w.view[g] = v.view[g]
    /\ \A g \in DOMAIN w.parted \ S : g \in DOMAIN v.parted /\ w.parted[g] = v.parted[g]
    /\ \A g \in DOMAIN w.parted \cap S : g \in DOMAIN v.view /\ w.parted[g] = v.view[g]

LEMMA DisablingAgrees ==
    ASSUME NEW S, NEW v, NEW w, Agrees(v), NEW m, m = mgr',
           missed' = missed \ S, Disabled(m, S), Leave(S, v, w)
    PROVE  Agrees(w)'
<1>. USE DEF Disabled, Leave
<1>1. DOMAIN m.objects = DOMAIN w.view \ missed'
  BY DEF Agrees
<1>2. \A g \in DOMAIN m.objects : m.objects[g].fields = w.view[g]
  BY <1>1 DEF Agrees
<1>3. DOMAIN m.lazy \cap DOMAIN w.view = {}
  BY DEF Agrees
<1>4. ASSUME NEW g \in DOMAIN m.lazy \cap DOMAIN w.parted
      PROVE  m.lazy[g].fields = w.parted[g]
  <2>1. CASE g \in S
    <3>1. g \in DOMAIN v.view /\ w.parted[g] = v.view[g]
      BY <2>1
    <3>2. g \in S \cap DOMAIN mgr.objects
      BY <2>1, <3>1 DEF Agrees
    <3>. QED  BY <3>1, <3>2 DEF Agrees
  <2>2. CASE g \notin S
    <3>1. g \in DOMAIN mgr.lazy /\ g \in DOMAIN v.parted /\ w.parted[g] = v.parted[g]
      BY <2>2
    <3>. QED  BY <3>1 DEF Agrees
  <2>. QED  BY <2>1, <2>2
<1>5. missed' \subseteq DOMAIN w.view /\ Player \notin missed'
  BY DEF Agrees
<1>. QED  BY <1>1, <1>2, <1>3, <1>4, <1>5 DEF Agrees

LEMMA OnObjectDestroyKeeps ==
    ASSUME ObjectInv, OnObjectDestroy
    PROVE  ObjectInv'
<1>. DEFINE u == message[1]
            S == u.guids
<1>1. /\ pass = "none" /\ message # <<>> /\ u.type = "destroy"
      /\ missed' = missed \ S /\ message' = <<>>
      /\ UNCHANGED <<activePlayer, clock, pass, index, server>>
  BY DEF OnObjectDestroy
<1>2. PICK m : m = mgr' /\ m = Disabling(mgr, S)
  BY DEF OnObjectDestroy
<1>3. /\ IsManager(mgr) /\ Linked(mgr) /\ Aged(mgr) /\ mgr.reenabled = <<>>
      /\ \A g \in DOMAIN mgr.objects : mgr.objects[g].postInited
      /\ ClockOK /\ MemoryOK /\ StoryOK /\ Len(message) \in Nat /\ Done = 0
  BY <1>1, AllInitialized
<1>4. Len(message) = 1 /\ index = 0
  <2>1. 1 \in 1..Len(message)
    BY <1>1, <1>3 DEF ObjectInv, MessageOK
  <2>. QED  BY <1>1, <2>1 DEF ObjectInv, MessageOK, PassOK
<1>. HIDE DEF S
<1>5. /\ IsManager(m) /\ Linked(m) /\ Aged(m) /\ m.reenabled = <<>>
      /\ Disabled(m, S)
  BY <1>2, <1>3, DisablingKeeps DEF Disabled
<1>6. MemoryOK'
  <2>1. ASSUME NEW g \in DOMAIN m.lazy
        PROVE  \/ g \in DOMAIN mgr.objects /\ m.lazy[g].memory = mgr.objects[g].memory
               \/ g \in DOMAIN mgr.lazy /\ m.lazy[g].memory = mgr.lazy[g].memory
    BY <1>5 DEF Disabled
  <2>. QED  BY <1>1, <1>2, <1>3, <1>5, <2>1, MemoryKeeps DEF Disabled
<1>7. PICK story : IsStory(story) /\ Agrees(story[0])
  BY <1>3 DEF StoryOK
<1>8. PICK v, w : v = story[0] /\ w = story[1]
  OBVIOUS
<1>9. IsPoint(v) /\ Agrees(v) /\ Tells(u, v, w) /\ w.view = server.view
      /\ w.parted = server.parted /\ IsPoint(server)
  <2>1. 0 \in 0..Len(message) /\ 1 \in 1..Len(message) /\ 1 - 1 = 0 /\ 1 \in 0..Len(message)
    BY <1>4
  <2>. QED  BY <1>4, <1>7, <1>8, <2>1 DEF IsStory, IsPoint
<1>10. PICK now : now = server'
  OBVIOUS
<1>11. now = server /\ now.view = Without(v.view, S) /\ now.parted = Without(v.parted, S)
  BY <1>1, <1>9, <1>10 DEF Tells, S
<1>12. Agrees(now)'
  <2>1. DOMAIN now.view = DOMAIN v.view \ S
        /\ \A g \in DOMAIN now.view : now.view[g] = v.view[g]
    BY <1>11 DEF Without, Restrict
  <2>2. DOMAIN now.parted = DOMAIN v.parted \ S
        /\ \A g \in DOMAIN now.parted : now.parted[g] = v.parted[g]
    BY <1>11 DEF Without, Restrict
  <2>3. Leave(S, v, now)
    BY <2>1, <2>2 DEF Leave
  <2>. QED  BY <1>1, <1>2, <1>5, <1>9, <2>3, DisablingAgrees
<1>13. ClockOK' /\ ServerOK' /\ Aged(m)'
  BY <1>1, <1>3, <1>5 DEF ClockOK, ServerOK, Aged, ObjectInv
<1>14. \A g \in DOMAIN m.objects : m.objects[g].postInited
  BY <1>3, <1>5 DEF Disabled
<1>15. IsPoint(now)
  BY <1>9, <1>11
<1>. QED
  BY <1>1, <1>2, <1>4, <1>5, <1>6, <1>10, <1>12, <1>13, <1>14, <1>15, BetweenMessages

LEMMA OutOfRangeAgrees ==
    ASSUME NEW u, u.type = "out", MemoryOK, NEW v, NEW w, IsPoint(v), Tells(u, v, w),
           Agrees(v)
    PROVE  /\ NotPlayer(u.guids) = u.guids \ {Player}
           /\ missed \ u.guids = missed \ (u.guids \ {Player})
           /\ Leave(u.guids \ {Player}, v, w)
<1>. DEFINE S == u.guids \ {Player}
            n == Restrict(v.view, S)
<1>1. /\ u.guids \subseteq DOMAIN v.view
      /\ w.view = Without(v.view, S) /\ w.parted = With(v.parted, n)
  BY DEF Tells
<1>2. DOMAIN n = S /\ \A g \in S : n[g] = v.view[g]
  BY RestrictedTo
<1>. HIDE DEF n
<1>3. NotPlayer(u.guids) = S
  <2>1. u.guids \subseteq Guid
    BY <1>1 DEF IsPoint, IsTable
  <2>2. CASE activePlayer = Player
    BY <2>2 DEF NotPlayer
  <2>3. CASE activePlayer # Player
    <3>1. activePlayer = Nobody /\ Player \notin DOMAIN mgr.objects
      BY <2>3 DEF MemoryOK
    <3>2. Player \notin u.guids
      BY <1>1, <3>1 DEF Agrees
    <3>3. Nobody \notin u.guids
      BY <2>1, ObjectUpdatesAssumption
    <3>. QED  BY <3>1, <3>2, <3>3 DEF NotPlayer
  <2>. QED  BY <2>2, <2>3
<1>4. missed \ u.guids = missed \ S
  BY DEF Agrees
<1>. HIDE DEF S
<1>5. DOMAIN w.view = DOMAIN v.view \ S /\ \A g \in DOMAIN w.view : w.view[g] = v.view[g]
  BY <1>1 DEF Without, Restrict
<1>6. DOMAIN w.parted = DOMAIN v.parted \cup S
      /\ (\A g \in S : w.parted[g] = v.view[g])
      /\ \A g \in DOMAIN v.parted \ S : w.parted[g] = v.parted[g]
  BY <1>1, <1>2 DEF With
<1>7. S \subseteq DOMAIN v.view
  BY <1>1 DEF S
<1>8. Leave(S, v, w)
  BY <1>5, <1>6, <1>7 DEF Leave
<1>. QED  BY <1>3, <1>4, <1>8 DEF S

\* A message begins.
LEMMA HandlingBegins ==
    ASSUME ObjectInv, pass = "none", message # <<>>, message[1].type # "destroy",
           pass' = "first", UNCHANGED <<activePlayer, clock, message, server>>,
           NEW m, m = mgr', IsManager(m), Linked(m), Aged(m),
           \A g \in DOMAIN m.objects : m.objects[g].postInited,
           MemoryOK', StoryOK', index' = 1 \/ (index' = 2 /\ message[1].type = "out")
    PROVE  ObjectInv'
<1>1. Len(message) \in Nat /\ Len(message) >= 1
  BY DEF ObjectInv, MessageOK
<1>2. ManagerOK' /\ ClockOK' /\ MessageOK' /\ ServerOK'
  BY DEF ObjectInv, ManagerOK, Aged, ClockOK, MessageOK, ServerOK
<1>3. PassOK'
  BY <1>1 DEF PassOK
<1>4. FullsActive'
  BY DEF FullsActive, Done, IsFull
<1>5. Initialized'
  BY DEF Initialized
<1>. QED  BY <1>2, <1>3, <1>4, <1>5 DEF ObjectInv

LEMMA ObjectUpdateHandlerKeeps ==
    ASSUME ObjectInv, ObjectUpdateHandler
    PROVE  ObjectInv'
<1>. DEFINE u == message[1]
            S == u.guids \ {Player}
<1>1. /\ pass = "none" /\ message # <<>> /\ u.type # "destroy"
      /\ pass' = "first" /\ UNCHANGED <<activePlayer, clock, message, server>>
  BY DEF ObjectUpdateHandler
<1>2. /\ IsManager(mgr) /\ Linked(mgr) /\ Aged(mgr) /\ mgr.reenabled = <<>>
      /\ \A g \in DOMAIN mgr.objects : mgr.objects[g].postInited
      /\ ClockOK /\ MemoryOK /\ StoryOK /\ Len(message) \in Nat /\ Done = 0
  BY <1>1, AllInitialized
<1>3. Len(message) >= 1
  BY <1>1 DEF ObjectInv, MessageOK
<1>4. PICK m : m = mgr'
  OBVIOUS
<1>5. CASE u.type = "out"
  <2>1. /\ m = Disabling(mgr, NotPlayer(u.guids)) /\ index' = 2
        /\ missed' = missed \ u.guids
    BY <1>4, <1>5 DEF ObjectUpdateHandler
  <2>2. Done' = 1
    BY <1>1, <2>1 DEF Done
  <2>3. PICK story : IsStory(story) /\ Agrees(story[0])
    BY <1>2 DEF StoryOK
  <2>4. NotPlayer(u.guids) = S
    <3>1. 0 \in 0..Len(message) /\ 1 \in 1..Len(message) /\ 1 - 1 = 0
          /\ 1 \in 0..Len(message)
      BY <1>2, <1>3
    <3>2. PICK v, w : v = story[0] /\ w = story[1]
      OBVIOUS
    <3>3. IsPoint(v) /\ Agrees(v) /\ Tells(u, v, w)
      BY <2>3, <3>1, <3>2 DEF IsStory
    <3>. HIDE DEF u
    <3>. QED  BY <1>2, <1>5, <3>3, OutOfRangeAgrees DEF S
  <2>5. /\ IsManager(m) /\ Linked(m) /\ Aged(m) /\ m.reenabled = <<>>
        /\ Disabled(m, S)
    <3>. HIDE DEF S
    <3>. QED  BY <1>2, <2>1, <2>4, DisablingKeeps DEF Disabled
  <2>6. MemoryOK'
    <3>1. ASSUME NEW g \in DOMAIN m.lazy
          PROVE  \/ g \in DOMAIN mgr.objects /\ m.lazy[g].memory = mgr.objects[g].memory
                 \/ g \in DOMAIN mgr.lazy /\ m.lazy[g].memory = mgr.lazy[g].memory
      BY <2>5 DEF Disabled
    <3>. QED  BY <1>1, <1>2, <1>4, <2>5, <3>1, MemoryKeeps DEF Disabled
  <2>7. ASSUME NEW v, NEW w, IsPoint(v), IsPoint(w), Tells(message[0 + 1], v, w), Agrees(v)
        PROVE  Agrees(w)'
    <3>. HIDE DEF u
    <3>1. Tells(u, v, w)
      BY <2>7 DEF u
    <3>2. missed \ u.guids = missed \ (u.guids \ {Player})
          /\ Leave(u.guids \ {Player}, v, w)
      BY <1>2, <1>5, <2>7, <3>1, OutOfRangeAgrees
    <3>3. missed' = missed \ S /\ Leave(S, v, w)
      BY <2>1, <3>2 DEF S
    <3>. HIDE DEF S
    <3>. QED  BY <1>4, <2>5, <2>7, <3>3, DisablingAgrees
  <2>8. StoryOK'
    BY <1>1, <1>2, <1>3, <2>2, <2>7, StoryAdvances
  <2>9. \A g \in DOMAIN m.objects : m.objects[g].postInited
    BY <1>2, <2>5 DEF Disabled
  <2>. QED
    BY <1>1, <1>4, <1>5, <2>1, <2>5, <2>6, <2>8, <2>9, HandlingBegins
<1>6. CASE u.type # "out"
  <2>1. mgr' = mgr /\ missed' = missed /\ index' = 1
    BY <1>6 DEF ObjectUpdateHandler
  <2>2. Done' = 0
    BY <1>1, <2>1 DEF Done
  <2>3. MemoryOK'
    BY <1>1, <1>2, <2>1 DEF MemoryOK
  <2>4. StoryOK'
    <3>1. 0 \in 0..Len(message)
      BY <1>2
    <3>2. ASSUME NEW v, Agrees(v)
          PROVE  Agrees(v)'
      BY <2>1, <3>2 DEF Agrees
    <3>. QED  BY <1>1, <1>2, <2>2, <3>1, <3>2, StoryStays
  <2>5. m = mgr
    BY <1>4, <2>1
  <2>. QED  BY <1>1, <1>2, <1>4, <2>1, <2>3, <2>4, <2>5, HandlingBegins
<1>. QED  BY <1>5, <1>6

-----------------------------------------------------------------------------
(* New worlds, and time. *)

LEMMA NoObjectsOK ==
    /\ IsManager(NoObjects) /\ Linked(NoObjects) /\ NoObjects.reenabled = <<>>
    /\ Aged(NoObjects)
    /\ DOMAIN NoObjects.objects = {} /\ DOMAIN NoObjects.lazy = {}
<1>1. /\ NoObjects.objects = <<>> /\ NoObjects.lazy = <<>>
      /\ NoObjects.visible = <<>> /\ NoObjects.reenabled = <<>>
      /\ NoObjects.fifo = [t \in Types |-> <<>>]
  BY DEF NoObjects, Manager
<1>2. DOMAIN <<>> = {} /\ <<>> \in Seq(Guid) /\ Members(<<>>) = {} /\ NoRepeats(<<>>)
  BY DEF Members, NoRepeats
<1>3. \A V : IsTable(<<>>, V)
  BY <1>2 DEF IsTable
<1>4. NoObjects.fifo \in [Types -> Seq(Guid)] /\ \A t \in Types : NoObjects.fifo[t] = <<>>
  BY <1>1, <1>2
<1>5. IsManager(NoObjects)
  BY <1>1, <1>2, <1>3, <1>4 DEF IsManager, NoObjects
<1>6. Linked(NoObjects)
  BY <1>1, <1>2, <1>4 DEF Linked
<1>7. Aged(NoObjects)
  BY <1>1, <1>2, <1>4 DEF Aged, InOrder
<1>. QED  BY <1>1, <1>2, <1>5, <1>6, <1>7

LEMMA NobodyTold ==
    ASSUME NEW v, v.view = <<>>, v.parted = <<>>
    PROVE  IsPoint(v) /\ DOMAIN v.view = {} /\ DOMAIN v.parted = {}
<1>1. DOMAIN <<>> = {} /\ <<>> \in [{} -> FieldValues]
  OBVIOUS
<1>. QED  BY <1>1 DEF IsPoint, IsTable

LEMMA LoadNewWorldKeeps ==
    ASSUME ObjectInv, LoadNewWorld
    PROVE  ObjectInv'
<1>1. /\ pass = "none" /\ message = <<>> /\ mgr' = NoObjects /\ activePlayer' = Nobody
      /\ missed' = {} /\ UNCHANGED <<clock, message, pass, index>>
  BY DEF LoadNewWorld
<1>2. index = 0 /\ ClockOK /\ ServerOK
  BY <1>1 DEF ObjectInv, PassOK
<1>3. PICK now : now = server'
  OBVIOUS
<1>4. now = [view |-> <<>>, parted |-> <<>>, sent |-> server.sent]
  BY <1>2, <1>3 DEF LoadNewWorld, ServerOK
<1>5. IsPoint(now) /\ DOMAIN now.view = {} /\ DOMAIN now.parted = {}
  BY <1>4, NobodyTold
<1>6. ServerOK' /\ ClockOK'
  BY <1>1, <1>2, <1>3, <1>4 DEF ServerOK, ClockOK
<1>7. PICK m : m = mgr'
  OBVIOUS
<1>8. m = NoObjects
  BY <1>1, <1>7
<1>9. /\ IsManager(m) /\ Linked(m) /\ Aged(m) /\ m.reenabled = <<>>
      /\ DOMAIN m.objects = {} /\ DOMAIN m.lazy = {}
  BY <1>8, NoObjectsOK
<1>10. MemoryOK' /\ Agrees(now)'
  BY <1>1, <1>5, <1>7, <1>9 DEF MemoryOK, Agrees
<1>11. Aged(m)'
  BY <1>1, <1>9 DEF Aged
<1>. QED
  BY <1>1, <1>2, <1>3, <1>5, <1>6, <1>7, <1>9, <1>10, <1>11, BetweenMessages

\* Nothing changes but the clock.
LEMMA OnlyClock ==
    ASSUME ObjectInv, ClockOK', clock.tick <= clock'.tick,
           UNCHANGED <<mgr, activePlayer, message, pass, index, server, missed>>
    PROVE  ObjectInv'
<1>1. ManagerOK'
  <2>1. ASSUME NEW g \in DOMAIN mgr.lazy
        PROVE  \E t \in 0..clock'.tick : IsTimeOf(mgr.lazy[g], t)
    <3>1. PICK t \in 0..clock.tick : IsTimeOf(mgr.lazy[g], t)
      BY DEF ObjectInv, ManagerOK, Aged
    <3>2. clock.tick \in Nat /\ clock'.tick \in Nat
      BY DEF ObjectInv, ClockOK
    <3>. QED  BY <3>1, <3>2
  <2>. QED  BY <2>1 DEF ObjectInv, ManagerOK, Aged
<1>2. Done' = Done
  BY DEF Done
<1>3. StoryOK'
  <2>1. PICK story : IsStory(story) /\ Agrees(story[Done])
    BY DEF ObjectInv, StoryOK
  <2>2. PICK v : v = story[Done]
    OBVIOUS
  <2>3. Agrees(v)'
    BY <2>1, <2>2 DEF Agrees
  <2>4. IsStory(story)'
    BY <2>1 DEF IsStory
  <2>. QED  BY <1>2, <2>2, <2>3, <2>4 DEF StoryOK
<1>4. MessageOK' /\ PassOK' /\ ServerOK' /\ MemoryOK'
  BY DEF ObjectInv, MessageOK, PassOK, ServerOK, MemoryOK
<1>5. FullsActive' /\ Initialized'
  BY <1>2 DEF ObjectInv, FullsActive, Initialized, IsFull, Pending
<1>. QED  BY <1>1, <1>3, <1>4, <1>5 DEF ObjectInv

LEMMA TimePassesKeeps ==
    ASSUME ObjectInv, TimePasses \/ WorldTicks \/ UNCHANGED objectVars
    PROVE  ObjectInv'
<1>1. ClockOK /\ MaxTime \in Nat
  BY ObjectUpdatesAssumption DEF ObjectInv
<1>2. PICK next : next = clock'
  OBVIOUS
<1>3. \/ clock.now < MaxTime /\ next = [now |-> clock.now + 1, tick |-> clock.tick]
      \/ next = [now |-> clock.now, tick |-> clock.now]
      \/ next = clock
  <2>1. CASE TimePasses
    BY <1>1, <1>2, <2>1 DEF TimePasses, ClockOK
  <2>2. CASE WorldTicks
    BY <1>1, <1>2, <2>2 DEF WorldTicks, ClockOK
  <2>3. CASE UNCHANGED objectVars
    BY <1>2, <2>3 DEF objectVars
  <2>. QED  BY <2>1, <2>2, <2>3
<1>4. /\ next = [now |-> next.now, tick |-> next.tick]
      /\ next.now \in 0..MaxTime /\ next.tick \in 0..next.now /\ clock.tick <= next.tick
  <2>1. clock.now \in Nat /\ clock.tick \in Nat /\ clock.now <= MaxTime
        /\ clock.tick <= clock.now /\ clock = [now |-> clock.now, tick |-> clock.tick]
    BY <1>1 DEF ClockOK
  <2>2. CASE clock.now < MaxTime /\ next = [now |-> clock.now + 1, tick |-> clock.tick]
    BY <1>1, <2>1, <2>2
  <2>3. CASE next = [now |-> clock.now, tick |-> clock.now]
    BY <1>1, <2>1, <2>3
  <2>4. CASE next = clock
    BY <1>1, <2>1, <2>4
  <2>. QED  BY <1>3, <2>2, <2>3, <2>4
<1>5. ClockOK'
  BY <1>2, <1>4 DEF ClockOK
<1>6. UNCHANGED <<mgr, activePlayer, message, pass, index, server, missed>>
  BY DEF TimePasses, WorldTicks, objectVars
<1>. QED  BY <1>2, <1>4, <1>5, <1>6, OnlyClock

LEMMA ObjectInvInit == ObjectInit => ObjectInv
<1>. SUFFICES ASSUME ObjectInit PROVE ObjectInv
  OBVIOUS
<1>1. /\ mgr = NoObjects /\ activePlayer = Nobody /\ clock = [now |-> 0, tick |-> 0]
      /\ message = <<>> /\ pass = "none" /\ index = 0
      /\ server = [view |-> <<>>, parted |-> <<>>, sent |-> 0] /\ missed = {}
  BY DEF ObjectInit
<1>2. ManagerOK /\ mgr.reenabled = <<>> /\ DOMAIN mgr.objects = {} /\ DOMAIN mgr.lazy = {}
  BY <1>1, NoObjectsOK DEF ManagerOK
<1>3. ClockOK /\ ServerOK
  BY <1>1, ObjectUpdatesAssumption DEF ClockOK, ServerOK
<1>4. message \in Seq(Updates) /\ Len(message) = 0
  BY <1>1
<1>5. MessageOK /\ PassOK /\ FullsActive /\ Initialized /\ MemoryOK
  BY <1>1, <1>2, <1>4, ObjectUpdatesAssumption
     DEF MessageOK, PassOK, FullsActive, Initialized, MemoryOK
<1>6. StoryOK
  <2>1. IsPoint(server) /\ DOMAIN server.view = {} /\ DOMAIN server.parted = {}
    BY <1>1, NobodyTold
  <2>. DEFINE story == [i \in 0..0 |-> server]
  <2>2. IsStory(story)
    BY <1>4, <2>1 DEF IsStory
  <2>3. Done = 0 /\ story[0] = server
    BY <1>1 DEF Done
  <2>. HIDE DEF story
  <2>4. Agrees(server)
    BY <1>1, <1>2, <2>1 DEF Agrees
  <2>5. Agrees(story[Done])
    BY <2>3, <2>4
  <2>. QED  BY <2>2, <2>5 DEF StoryOK
<1>. QED  BY <1>2, <1>3, <1>5, <1>6 DEF ObjectInv

LEMMA ObjectInvNext == ObjectInv /\ [ObjectNext]_objectVars => ObjectInv'
<1>. SUFFICES ASSUME ObjectInv, [ObjectNext]_objectVars PROVE ObjectInv'
  OBVIOUS
<1>1. CASE SendsFull \/ SendsPartial \/ SendsMovement
           \/ SendsOutOfRange \/ SendsInRange \/ SendsDestroy
  BY <1>1, SendsFullKeeps, SendsPartialKeeps, SendsMovementKeeps, SendsOutOfRangeKeeps,
     SendsInRangeKeeps, SendsDestroyKeeps
<1>2. CASE OnObjectDestroy \/ ObjectUpdateHandler
  BY <1>2, OnObjectDestroyKeeps, ObjectUpdateHandlerKeeps
<1>3. CASE UpdateObject \/ SkipMovement \/ UpdateInRangeObjects
  BY <1>3, UpdateObjectKeeps, SkipMovementKeeps, UpdateInRangeKeeps
<1>4. CASE CreateExisting \/ CreateNew
  BY <1>4, CreateExistingKeeps, CreateNewKeeps
<1>5. CASE SecondPass \/ SkipInSecondPass \/ PostMovementUpdate
  BY <1>5, SecondPassKeeps, SkipInSecondPassKeeps, PostMovementKeeps
<1>6. CASE PostInitObject \/ FinishReenabling
  BY <1>6, PostInitKeeps, FinishReenablingKeeps
<1>7. CASE LoadNewWorld
  BY <1>7, LoadNewWorldKeeps
<1>8. CASE TimePasses \/ WorldTicks \/ UNCHANGED objectVars
  BY <1>8, TimePassesKeeps
<1>. QED
  BY <1>1, <1>2, <1>3, <1>4, <1>5, <1>6, <1>7, <1>8 DEF ObjectNext

-----------------------------------------------------------------------------
(* The properties: what the invariant implies. *)

LEMMA InvImpliesTypes == ObjectInv => ObjectTypeOK
<1>. SUFFICES ASSUME ObjectInv PROVE ObjectTypeOK
  OBVIOUS
<1>1. IsManager(mgr) /\ Linked(mgr)
  BY DEF ObjectInv, ManagerOK
<1>2. IsInjective(mgr.visible) /\ IsInjective(mgr.reenabled)
  BY <1>1 DEF Linked, NoRepeats, IsInjective
<1>3. /\ DOMAIN mgr.objects \subseteq Guid /\ Range(mgr.objects) \subseteq AllObjects
      /\ DOMAIN mgr.lazy \subseteq Guid /\ Range(mgr.lazy) \subseteq AllObjects
  BY <1>1 DEF IsManager, IsTable, Range
<1>4. ToSet(mgr.visible \o mgr.reenabled) \subseteq DOMAIN mgr.objects
  <2>1. Members(mgr.visible \o mgr.reenabled) = Members(mgr.visible) \cup Members(mgr.reenabled)
    BY <1>1, ConcatMembers DEF IsManager, Linked
  <2>2. ToSet(mgr.visible \o mgr.reenabled) = Members(mgr.visible \o mgr.reenabled)
    BY DEF ToSet, Members
  <2>. QED  BY <1>1, <2>1, <2>2 DEF Linked
<1>5. \A t \in Types : ToSet(mgr.fifo[t]) \subseteq DOMAIN mgr.lazy
  <2>1. \A t \in Types : ToSet(mgr.fifo[t]) = Members(mgr.fifo[t])
    BY DEF ToSet, Members
  <2>. QED  BY <1>1, <2>1 DEF Linked
<1>6. activePlayer \in Guid \cup {Nobody}
  BY ObjectUpdatesAssumption DEF ObjectInv, MemoryOK
<1>7. clock.now \in 0..MaxTime /\ clock.tick \in 0..clock.now
  BY DEF ObjectInv, ClockOK
<1>8. pass \in {"none", "first", "second"} /\ index \in 0..(MaxUpdates + 1)
  <2>1. Len(message) \in Nat /\ Len(message) <= MaxUpdates /\ MaxUpdates \in Nat
    BY ObjectUpdatesAssumption DEF ObjectInv, MessageOK
  <2>2. pass = "none" => index = 0
    BY DEF ObjectInv, PassOK
  <2>3. pass # "none" => index \in 1..(Len(message) + 1)
    BY DEF ObjectInv, PassOK
  <2>4. pass \in {"none", "first", "second"}
    BY DEF ObjectInv, PassOK
  <2>. QED  BY <2>1, <2>2, <2>3, <2>4
<1>9. missed \subseteq Guid
  <2>1. PICK story : IsStory(story) /\ Agrees(story[Done])
    BY DEF ObjectInv, StoryOK
  <2>2. Done \in 0..Len(message)
    <3>1. Len(message) \in Nat
      BY DEF ObjectInv, MessageOK
    <3>2. pass = "first" => index \in 1..(Len(message) + 1)
      BY DEF ObjectInv, PassOK
    <3>. QED  BY <3>1, <3>2 DEF Done
  <2>3. IsPoint(story[Done])
    BY <2>1, <2>2 DEF IsStory
  <2>. QED  BY <2>1, <2>3 DEF Agrees, IsPoint, IsTable
<1>. QED
  BY <1>2, <1>3, <1>4, <1>5, <1>6, <1>7, <1>8, <1>9 DEF ObjectTypeOK

LEMMA InvImpliesAgree == ObjectInv => ObjectsAgree
<1>. SUFFICES ASSUME ObjectInv PROVE ObjectsAgree
  OBVIOUS
<1>1. IsManager(mgr) /\ Linked(mgr)
  BY DEF ObjectInv, ManagerOK
<1>2. ViewAgrees
  <2>. SUFFICES ASSUME Between
                PROVE  /\ DOMAIN mgr.objects = DOMAIN server.view \ missed
                       /\ \A g \in DOMAIN mgr.objects :
                            mgr.objects[g].fields = server.view[g]
    BY DEF ViewAgrees
  <2>1. Len(message) = 0 /\ Done = 0 /\ StoryOK
    BY DEF Between, Done, ObjectInv
  <2>2. Agrees(server)
    BY <2>1, StoryTold
  <2>. QED  BY <2>2 DEF Agrees
<1>3. ActiveOrDisabled
  <2>. SUFFICES ASSUME Between
                PROVE  /\ DOMAIN mgr.objects \cap DOMAIN mgr.lazy = {}
                       /\ ToSet(mgr.visible) = DOMAIN mgr.objects
                       /\ mgr.reenabled = <<>>
                       /\ \A g \in DOMAIN mgr.objects :
                            /\ mgr.objects[g].postInited /\ ~ mgr.objects[g].disabled
                            /\ ~ mgr.objects[g].inReenable
                       /\ \A g \in DOMAIN mgr.lazy :
                            mgr.lazy[g].disabled /\ Contains(mgr.fifo[TypeOf[g]], g)
    BY DEF ActiveOrDisabled
  <2>1. mgr.reenabled = <<>> /\ \A g \in DOMAIN mgr.objects : mgr.objects[g].postInited
    BY AllInitialized DEF Between
  <2>2. Members(mgr.reenabled) = {} /\ ToSet(mgr.visible) = Members(mgr.visible)
    BY <2>1 DEF Members, ToSet
  <2>3. ASSUME NEW g \in DOMAIN mgr.lazy
        PROVE  mgr.lazy[g].disabled /\ Contains(mgr.fifo[TypeOf[g]], g)
    <3>1. TypeOf[g] \in Types /\ mgr.lazy[g].disabled /\ g \in Members(mgr.fifo[TypeOf[g]])
      BY <1>1, TypesOfGuids DEF IsManager, IsTable, Linked
    <3>2. mgr.fifo[TypeOf[g]] \in Seq(Guid)
      BY <1>1, <3>1 DEF IsManager
    <3>. QED  BY <3>1, <3>2 DEF Members, Contains
  <2>. QED  BY <1>1, <2>1, <2>2, <2>3 DEF Linked
<1>4. SecondPassFinds
  <2>1. DOMAIN message = 1..Len(message)
    BY DEF ObjectInv, MessageOK
  <2>. QED  BY <2>1, FullIsActive DEF SecondPassFinds
<1>5. FreedAsAllocated
  BY DEF FreedAsAllocated, ObjectInv, MemoryOK
<1>. QED
  BY <1>2, <1>3, <1>4, <1>5, InvImpliesTypes DEF ObjectsAgree

-----------------------------------------------------------------------------
(* The properties: what a step may do. *)

KnownTo(m) == DOMAIN m.objects \cup DOMAIN m.lazy

\* An object that is found or enabled again stays known, and active.
LEMMA KnownStays ==
    ASSUME ObjectInv,
           \/ UpdateObject \/ CreateExisting \/ UpdateInRangeObjects
           \/ PostMovementUpdate
    PROVE  DOMAIN mgr.objects \subseteq DOMAIN mgr'.objects /\ KnownTo(mgr) \subseteq KnownTo(mgr')
<1>1. IsManager(mgr) /\ Linked(mgr) /\ Aged(mgr)
  BY DEF ObjectInv, ManagerOK
<1>2. ASSUME NEW S, NEW r, r = GetUpdateObject(mgr, S)
      PROVE  /\ DOMAIN mgr.objects \subseteq DOMAIN r.objects
             /\ KnownTo(mgr) \subseteq KnownTo(r)
  <2>1. /\ DOMAIN r.objects = DOMAIN mgr.objects \cup (S \cap DOMAIN mgr.lazy)
        /\ DOMAIN r.lazy = DOMAIN mgr.lazy \ S
    BY <1>1, <1>2, GetKeeps
  <2>. QED  BY <2>1 DEF KnownTo
<1>3. ASSUME NEW m, NEW g, NEW f, NEW r, r = FieldsChanged(m, g, f), IsManager(m)
      PROVE  DOMAIN r.objects = DOMAIN m.objects /\ KnownTo(r) = KnownTo(m)
  <2>1. r.objects = [m.objects EXCEPT ![g].fields = f] /\ r.lazy = m.lazy
    BY <1>3 DEF FieldsChanged, IsManager, Manager
  <2>. QED  BY <2>1 DEF KnownTo
<1>4. PICK m : m = mgr'
  OBVIOUS
<1>5. CASE UpdateInRangeObjects \/ PostMovementUpdate
  <2>1. \E S : m = GetUpdateObject(mgr, S)
    BY <1>4, <1>5 DEF UpdateInRangeObjects, PostMovementUpdate
  <2>. QED  BY <1>2, <1>4, <2>1
<1>6. CASE UpdateObject \/ CreateExisting
  <2>. DEFINE g == TheGuid(Update)
              q == GetUpdateObject(mgr, {g})
  <2>1. \/ m = mgr
        \/ \E f : m = FieldsChanged(q, g, f)
    BY <1>4, <1>6 DEF UpdateObject, CreateExisting, FieldsChanged
  <2>2. /\ DOMAIN mgr.objects \subseteq DOMAIN q.objects
        /\ KnownTo(mgr) \subseteq KnownTo(q)
    BY <1>2
  <2>3. IsManager(q)
    <3>. HIDE DEF q
    <3>1. PICK S : S = {g} /\ q = GetUpdateObject(mgr, S)
      BY DEF q
    <3>. QED  BY <1>1, <3>1, GetKeeps
  <2>. HIDE DEF q, g
  <2>4. CASE m = mgr
    BY <1>4, <2>4
  <2>5. CASE \E f : m = FieldsChanged(q, g, f)
    <3>1. DOMAIN m.objects = DOMAIN q.objects /\ KnownTo(m) = KnownTo(q)
      BY <1>3, <2>3, <2>5
    <3>. QED  BY <1>4, <2>2, <3>1
  <2>. QED  BY <2>1, <2>4, <2>5
<1>. QED  BY <1>5, <1>6

\* An object that is disabled stays known; the player's is not disabled
\* when a message says that it is out of range.
LEMMA DisabledIsKnown ==
    ASSUME ObjectInv, OnObjectDestroy \/ ObjectUpdateHandler
    PROVE  /\ KnownTo(mgr) \subseteq KnownTo(mgr')
           /\ ObjectUpdateHandler /\ Player \in DOMAIN mgr.objects
                => Player \in DOMAIN mgr'.objects
<1>1. pass = "none"
  BY DEF OnObjectDestroy, ObjectUpdateHandler
<1>2. /\ IsManager(mgr) /\ Linked(mgr) /\ Aged(mgr) /\ mgr.reenabled = <<>>
      /\ \A g \in DOMAIN mgr.objects : mgr.objects[g].postInited
      /\ ClockOK /\ MemoryOK
  BY <1>1, AllInitialized
<1>3. ASSUME NEW S, NEW r, r = Disabling(mgr, S)
      PROVE  KnownTo(mgr) = KnownTo(r) /\ DOMAIN r.objects = DOMAIN mgr.objects \ S
  <2>1. /\ DOMAIN r.objects = DOMAIN mgr.objects \ S
        /\ DOMAIN r.lazy = DOMAIN mgr.lazy \cup (S \cap DOMAIN mgr.objects)
    BY <1>2, <1>3, DisablingKeeps
  <2>. QED  BY <2>1 DEF KnownTo
<1>4. PICK m : m = mgr'
  OBVIOUS
<1>5. CASE OnObjectDestroy
  <2>1. m = Disabling(mgr, message[1].guids)
    BY <1>4, <1>5 DEF OnObjectDestroy
  <2>2. ~ ObjectUpdateHandler
    BY <1>5 DEF OnObjectDestroy, ObjectUpdateHandler
  <2>. QED  BY <1>3, <1>4, <2>1, <2>2
<1>6. CASE ObjectUpdateHandler
  <2>1. m = mgr \/ m = Disabling(mgr, NotPlayer(message[1].guids))
    BY <1>4, <1>6 DEF ObjectUpdateHandler
  <2>2. CASE m = mgr
    BY <1>4, <2>2
  <2>3. CASE m = Disabling(mgr, NotPlayer(message[1].guids))
    <3>1. /\ KnownTo(mgr) = KnownTo(m)
          /\ DOMAIN m.objects = DOMAIN mgr.objects \ NotPlayer(message[1].guids)
      BY <1>3, <2>3
    <3>2. Player \in DOMAIN mgr.objects => Player \notin NotPlayer(message[1].guids)
      BY <1>2 DEF MemoryOK, NotPlayer
    <3>. QED  BY <1>4, <3>1, <3>2
  <2>. QED  BY <2>1, <2>2, <2>3
<1>. QED  BY <1>5, <1>6

\* What is collected is the oldest, and old enough.
Oldest(g, age) ==
    /\ Elapsed(mgr.lazy[g]) >= age
    /\ \A h \in DOMAIN mgr.lazy : TypeOf[h] = TypeOf[g] =>
            Elapsed(mgr.lazy[g]) >= Elapsed(mgr.lazy[h])

LEMMA CollectedIsOldest ==
    ASSUME ObjectInv, NEW m, IsManager(m), Linked(m), Aged(m), m.lazy = mgr.lazy,
           NEW types \in SUBSET Types, NEW age,
           NEW r, r = GarbageCollect(m, types, age),
           NEW g \in DOMAIN mgr.lazy, g \notin DOMAIN r.lazy
    PROVE  Oldest(g, age)
<1>1. ClockOK
  BY DEF ObjectInv
<1>2. Age(mgr.lazy[g]) >= age
      /\ \A h \in DOMAIN mgr.lazy : TypeOf[h] = TypeOf[g] =>
            DisabledAt(mgr.lazy[g]) <= DisabledAt(mgr.lazy[h])
  <2>1. \A d \in DOMAIN m.lazy \ DOMAIN r.lazy :
            /\ Age(m.lazy[d]) >= age
            /\ \A h \in DOMAIN m.lazy : TypeOf[h] = TypeOf[d] =>
                    DisabledAt(m.lazy[d]) <= DisabledAt(m.lazy[h])
    BY <1>1, CollectKeeps
  <2>. QED  BY <2>1
<1>3. ASSUME NEW h \in DOMAIN mgr.lazy
      PROVE  \E t \in 0..clock.tick : /\ DisabledAt(mgr.lazy[h]) = t
                                      /\ Age(mgr.lazy[h]) = clock.now - t
                                      /\ Elapsed(mgr.lazy[h]) = clock.now - t
  <2>1. PICK t \in 0..clock.tick : IsTimeOf(mgr.lazy[h], t)
    BY DEF ObjectInv, ManagerOK, Aged
  <2>2. PICK object : object = mgr.lazy[h]
    OBVIOUS
  <2>3. DisabledAt(object) = t /\ Age(object) = clock.now - t
        /\ Elapsed(object) = clock.now - t
    BY <1>1, <2>1, <2>2, DisabledAtIs, AgeIs
  <2>. QED  BY <2>2, <2>3
<1>4. clock.now \in Int /\ clock.tick \in Int
  BY <1>1, WidthPositive DEF ClockOK
<1>5. PICK t \in 0..clock.tick : /\ DisabledAt(mgr.lazy[g]) = t
                                 /\ Age(mgr.lazy[g]) = clock.now - t
                                 /\ Elapsed(mgr.lazy[g]) = clock.now - t
  BY <1>3
<1>6. ASSUME NEW h \in DOMAIN mgr.lazy, TypeOf[h] = TypeOf[g]
      PROVE  Elapsed(mgr.lazy[g]) >= Elapsed(mgr.lazy[h])
  <2>1. PICK s \in 0..clock.tick : /\ DisabledAt(mgr.lazy[h]) = s
                                   /\ Elapsed(mgr.lazy[h]) = clock.now - s
    BY <1>3
  <2>2. t <= s
    BY <1>2, <1>5, <1>6, <2>1
  <2>. QED  BY <1>4, <1>5, <2>1, <2>2
<1>7. Elapsed(mgr.lazy[g]) >= age
  BY <1>2, <1>5
<1>. QED  BY <1>6, <1>7 DEF Oldest

LEMMA CreatingCollects ==
    ASSUME ObjectInv, CreateNew
    PROVE  /\ pass = "first"
           /\ DOMAIN mgr.objects \subseteq DOMAIN mgr'.objects
           /\ \A d \in DOMAIN mgr.lazy : d \notin KnownTo(mgr') => Oldest(d, Short)
<1>. DEFINE u == message[index]
            g == TheGuid(u)
            c == IF g = Player THEN mgr ELSE GarbageCollect(mgr, {TypeOf[g]}, Short)
            a == [fields |-> FillIn(Blank, u.fields, FALSE), disabled |-> FALSE,
                  inReenable |-> FALSE, postInited |-> FALSE, disableTime |-> 0,
                  memory |-> MemoryOf(g)]
<1>1. pass = "first" /\ index \in 1..Len(message) /\ u.type = "full" /\ Update = u
  BY HandlingIs DEF CreateNew
<1>2. PICK m : m = mgr'
  OBVIOUS
<1>3. m = Inserted(c, g, a)
  BY <1>1, <1>2 DEF CreateNew, Inserted
<1>4. g \in Guid
  BY <1>1, TheGuidIs
<1>5. IsManager(mgr) /\ Linked(mgr) /\ Aged(mgr) /\ ClockOK
  BY DEF ObjectInv, ManagerOK
<1>6. c.objects = mgr.objects
      /\ \A d \in DOMAIN mgr.lazy : d \notin DOMAIN c.lazy => Oldest(d, Short)
  <2>1. CASE g = Player
    BY <2>1
  <2>2. CASE g # Player
    <3>. DEFINE T == {TypeOf[g]}
                q == GarbageCollect(mgr, T, Short)
    <3>1. T \in SUBSET Types
      BY <1>4, TypesOfGuids
    <3>2. c = q
      BY <2>2
    <3>. HIDE DEF g, T
    <3>3. q.objects = mgr.objects
      BY DEF GarbageCollect, Manager, q
    <3>4. \A d \in DOMAIN mgr.lazy : d \notin DOMAIN q.lazy => Oldest(d, Short)
      BY <1>5, <3>1, CollectedIsOldest
    <3>. HIDE DEF q, c
    <3>. QED  BY <3>2, <3>3, <3>4
  <2>. QED  BY <2>1, <2>2
<1>. HIDE DEF c, g, a
<1>7. m.lazy = c.lazy /\ DOMAIN c.objects \subseteq DOMAIN m.objects
  BY <1>3 DEF Inserted, Manager, With
<1>. QED  BY <1>1, <1>2, <1>6, <1>7 DEF KnownTo

LEMMA FinishingCollects ==
    ASSUME ObjectInv, FinishReenabling
    PROVE  /\ pass = "second"
           /\ DOMAIN mgr.objects \subseteq DOMAIN mgr'.objects
           /\ \A d \in DOMAIN mgr.lazy : d \notin KnownTo(mgr') => Oldest(d, Long)
<1>. DEFINE q == Manager([g \in DOMAIN mgr.objects |-> Shown(mgr, g)], mgr.lazy,
                         mgr.visible \o mgr.reenabled, <<>>, mgr.fifo)
<1>1. pass = "second"
  BY DEF FinishReenabling
<1>2. PICK m : m = mgr'
  OBVIOUS
<1>3. m = GarbageCollect(q, Types, Long)
  <2>1. ToSet(mgr.reenabled) = Members(mgr.reenabled)
    BY DEF ToSet, Members
  <2>2. [g \in DOMAIN mgr.objects |->
            IF g \in ToSet(mgr.reenabled) THEN [mgr.objects[g] EXCEPT !.inReenable = FALSE]
            ELSE mgr.objects[g]] = [g \in DOMAIN mgr.objects |-> Shown(mgr, g)]
    BY <2>1 DEF Shown
  <2>. QED  BY <1>2, <2>2 DEF FinishReenabling, Handled
<1>4. IsManager(mgr) /\ Linked(mgr) /\ Aged(mgr) /\ ClockOK
  BY DEF ObjectInv, ManagerOK
<1>5. /\ IsManager(q) /\ Linked(q) /\ Aged(q) /\ q.lazy = mgr.lazy
      /\ DOMAIN q.objects = DOMAIN mgr.objects
  BY <1>4, ShowKeeps
<1>. HIDE DEF q
<1>6. m.objects = q.objects
  BY <1>3 DEF GarbageCollect, Manager
<1>7. \A d \in DOMAIN mgr.lazy : d \notin DOMAIN m.lazy => Oldest(d, Long)
  <2>1. Types \in SUBSET Types
    OBVIOUS
  <2>. QED  BY <1>3, <1>5, <2>1, CollectedIsOldest
<1>. QED  BY <1>1, <1>2, <1>5, <1>6, <1>7 DEF KnownTo

LEMMA InitializingStays ==
    ASSUME ObjectInv, PostInitObject
    PROVE  DOMAIN mgr.objects \subseteq DOMAIN mgr'.objects /\ KnownTo(mgr) \subseteq KnownTo(mgr')
<1>. DEFINE u == message[index]
            g == TheGuid(u)
<1>1. pass = "second" /\ index \in 1..Len(message) /\ u.type = "full" /\ Update = u
  BY HandlingIs DEF PostInitObject
<1>2. g \in DOMAIN mgr.objects
  BY <1>1, TheGuidIs, FullIsActive
<1>3. PICK m : m = mgr'
  OBVIOUS
<1>4. m = [mgr EXCEPT !.objects[g].postInited = TRUE]
  BY <1>1, <1>2, <1>3 DEF PostInitObject
<1>. HIDE DEF g
<1>5. m.objects = [mgr.objects EXCEPT ![g].postInited = TRUE] /\ m.lazy = mgr.lazy
  BY <1>4 DEF ObjectInv, ManagerOK, IsManager, Manager
<1>. QED  BY <1>3, <1>5 DEF KnownTo

\* What a step may do to the objects that are known, and to the player's.
StepLeaves ==
    /\ (Player \in DOMAIN mgr.objects /\ Player \notin DOMAIN mgr.objects') =>
        OnObjectDestroy \/ LoadNewWorld
    /\ \A g \in DOMAIN mgr.lazy :
        ~LoadNewWorld /\ ~(g \in DOMAIN mgr.lazy' \cup DOMAIN mgr.objects') =>
            Oldest(g, IF pass = "first" THEN Short ELSE Long)

LEMMA StepsLeaveWhenDue == ObjectInv /\ [ObjectNext]_objectVars => StepLeaves
<1>. SUFFICES ASSUME ObjectInv, [ObjectNext]_objectVars PROVE StepLeaves
  OBVIOUS
<1>1. CASE mgr' = mgr
  BY <1>1 DEF StepLeaves
<1>2. CASE LoadNewWorld
  BY <1>2 DEF StepLeaves
<1>3. CASE UpdateObject \/ CreateExisting \/ UpdateInRangeObjects \/ PostMovementUpdate
  <2>1. DOMAIN mgr.objects \subseteq DOMAIN mgr'.objects /\ KnownTo(mgr) \subseteq KnownTo(mgr')
    BY <1>3, KnownStays
  <2>. QED  BY <2>1 DEF StepLeaves, KnownTo
<1>4. CASE OnObjectDestroy \/ ObjectUpdateHandler
  <2>1. /\ KnownTo(mgr) \subseteq KnownTo(mgr')
        /\ ObjectUpdateHandler /\ Player \in DOMAIN mgr.objects
             => Player \in DOMAIN mgr'.objects
    BY <1>4, DisabledIsKnown
  <2>. QED  BY <1>4, <2>1 DEF StepLeaves, KnownTo
<1>5. CASE CreateNew
  <2>1. /\ pass = "first"
        /\ DOMAIN mgr.objects \subseteq DOMAIN mgr'.objects
        /\ \A d \in DOMAIN mgr.lazy : d \notin KnownTo(mgr') => Oldest(d, Short)
    BY <1>5, CreatingCollects
  <2>. QED  BY <2>1 DEF StepLeaves, KnownTo
<1>6. CASE FinishReenabling
  <2>1. /\ pass = "second"
        /\ DOMAIN mgr.objects \subseteq DOMAIN mgr'.objects
        /\ \A d \in DOMAIN mgr.lazy : d \notin KnownTo(mgr') => Oldest(d, Long)
    BY <1>6, FinishingCollects
  <2>. QED  BY <2>1 DEF StepLeaves, KnownTo
<1>7. CASE PostInitObject
  <2>1. DOMAIN mgr.objects \subseteq DOMAIN mgr'.objects /\ KnownTo(mgr) \subseteq KnownTo(mgr')
    BY <1>7, InitializingStays
  <2>. QED  BY <2>1 DEF StepLeaves, KnownTo
<1>8. CASE SendsFull \/ SendsPartial \/ SendsMovement
           \/ SendsOutOfRange \/ SendsInRange \/ SendsDestroy
  BY <1>1, <1>8 DEF SendsFull, SendsPartial, SendsMovement, SendsOutOfRange, SendsInRange,
     SendsDestroy, Adds
<1>9. CASE SkipMovement \/ SecondPass \/ SkipInSecondPass \/ TimePasses \/ WorldTicks
           \/ UNCHANGED objectVars
  BY <1>1, <1>9 DEF SkipMovement, SecondPass, SkipInSecondPass, TimePasses, WorldTicks,
     objectVars
<1>. QED
  BY <1>2, <1>3, <1>4, <1>5, <1>6, <1>7, <1>8, <1>9 DEF ObjectNext

-----------------------------------------------------------------------------
(* The theorems. *)

\* The inductive invariant holds in every reachable state.
THEOREM ObjectInvHolds == ObjectSpec => []ObjectInv
<1>1. ObjectInit => ObjectInv
  BY ObjectInvInit
<1>2. ObjectInv /\ [ObjectNext]_objectVars => ObjectInv'
  BY ObjectInvNext
<1>. QED  BY <1>1, <1>2, PTL DEF ObjectSpec

\* However objects leave the range, come back, are created again, destroyed
\* and collected (the handlers of the update messages and the manager,
\* ObjectUpdates): between messages the active ones are what the server has
\* told, but for those collected while they were away; each is in the table
\* and list of its state; the second pass finds what the first one created;
\* and the player's memory is freed as it was allocated.
THEOREM ObjectsAlwaysAgree == ObjectSpec => []ObjectsAgree
<1>1. ObjectInv => ObjectsAgree
  BY InvImpliesAgree
<1>. QED  BY <1>1, ObjectInvHolds, PTL

\* The player's object leaves only when it is destroyed or with the world;
\* an object is freed only when it has been disabled for the collection age,
\* on a clock that wraps, and is the oldest of its type (GarbageCollect).
THEOREM ObjectsLeaveWhenDue == ObjectSpec => LeaveWhenDue
<1>1. ObjectInv /\ [ObjectNext]_objectVars => StepLeaves
  BY StepsLeaveWhenDue
<1>2. ObjectSpec => PlayerStays
  <2>1. ObjectInv /\ [ObjectNext]_objectVars =>
          [(Player \in DOMAIN mgr.objects /\ Player \notin DOMAIN mgr.objects') =>
            OnObjectDestroy \/ LoadNewWorld]_objectVars
    BY <1>1 DEF StepLeaves
  <2>. QED  BY <2>1, ObjectInvHolds, PTL DEF ObjectSpec, PlayerStays
<1>3. ObjectSpec => CollectsOldest
  <2>1. ObjectInv /\ [ObjectNext]_objectVars =>
          [\A g \in DOMAIN mgr.lazy :
            ~LoadNewWorld /\ ~(g \in DOMAIN mgr.lazy' \cup DOMAIN mgr.objects') =>
              /\ Elapsed(mgr.lazy[g]) >= (IF pass = "first" THEN Short ELSE Long)
              /\ \A h \in DOMAIN mgr.lazy : TypeOf[h] = TypeOf[g] =>
                  Elapsed(mgr.lazy[g]) >= Elapsed(mgr.lazy[h])]_objectVars
    BY <1>1 DEF StepLeaves, Oldest
  <2>. QED  BY <2>1, ObjectInvHolds, PTL DEF ObjectSpec, CollectsOldest
<1>. QED  BY <1>2, <1>3 DEF LeaveWhenDue

-----------------------------------------------------------------------------
(* The inductive invariant of EventDispatch.                               *)

\* A list holds handlers of its own event.
OfTheirEvent ==
    \A id \in Ids : \A h \in Members(list[id]) : h = Marker \/ EventOf[h] = id

\* While an event is dispatched: who was registered since before is still in the
\* list; what follows the marker has not been called, and what of it was registered
\* since before has been called if it is ahead of the marker.
Progress ==
    running # "none" =>
        LET q == list[running]
        IN  /\ steady \subseteq Members(q)
            /\ \A i, j \in DOMAIN q : q[i] = Marker =>
                /\ i < j => q[j] \notin called
                /\ j < i /\ q[j] \in steady => q[j] \in called

\* A handler runs for an event.
RunsFor == handler # Marker => running # "none"

\* The context is destroyed last.
DestroyedLast == context.state = "destroyed" => stage = "exit"

\* An input is about a key if it is the key's, or takes all keys away.
About(k, input) == input.id = "focus" \/ input.key = k

Awaits(k) == \E i \in DOMAIN inputs : About(k, inputs[i])

\* The last input about a key says what the device does; without one the key is as
\* the device has it, unless its last input was dropped.
KeysFollow ==
    \A k \in AllKeys :
        /\ \A i \in DOMAIN inputs :
            About(k, inputs[i]) /\ (\A j \in DOMAIN inputs : i < j => ~ About(k, inputs[j]))
                => (inputs[i].id = "keydown" <=> k \in device.down)
        /\ ~ Awaits(k) /\ k \notin dropped => (k \in keysDown <=> k \in device.down)

ListInv == Sorted /\ OfTheirEvent /\ Progress /\ RunsFor
KeyInv == ModifiersAgree /\ KeysFollow

EventInv == EventTypeOK /\ ListInv /\ KeyInv /\ DestroyedLast

-----------------------------------------------------------------------------
(* The lists.                                                              *)

Nodes == Handler \cup {Marker}

\* By priority, marker aside.
ByPriority(q) ==
    \A i, j \in DOMAIN q : i < j /\ Marker \notin {q[i], q[j]} =>
        Priority[q[i]] >= Priority[q[j]]

\* What Progress says of the list of the running event.
Kept(q, before, done) ==
    /\ before \subseteq Members(q)
    /\ \A i, j \in DOMAIN q : q[i] = Marker =>
        /\ i < j => q[j] \notin done
        /\ j < i /\ q[j] \in before => q[j] \in done

LEMMA Priorities == \A h \in Handler : Priority[h] \in Int /\ EventOf[h] \in Ids /\ h # Marker
BY EventDispatchAssumption

LEMMA UnlinkByPriority ==
    ASSUME NEW q \in Seq(Nodes), NEW o, ByPriority(q)
    PROVE  ByPriority(Unlink(q, o))
<1>1. CASE \E i \in DOMAIN q : q[i] = o
  <2>1. PICK k : k = (CHOOSE i \in DOMAIN q : q[i] = o)
    OBVIOUS
  <2>2. k \in 1..Len(q) /\ Unlink(q, o) = RemoveAt(q, k)
    BY <1>1, <2>1 DEF Unlink
  <2>. DEFINE r == RemoveAt(q, k)
              From(j) == IF j < k THEN j ELSE j + 1
  <2>3. /\ r \in Seq(Nodes) /\ Len(r) = Len(q) - 1
        /\ \A j \in 1..(Len(q) - 1) :
             /\ j < k => r[j] = q[j]
             /\ j >= k => r[j] = q[j + 1]
    BY <2>2, RemoveAtProperties
  <2>4. DOMAIN r = 1..(Len(q) - 1) /\ DOMAIN q = 1..Len(q)
    BY <2>3
  <2>. HIDE DEF r
  <2>5. \A j \in DOMAIN r : From(j) \in DOMAIN q /\ r[j] = q[From(j)]
    BY <2>2, <2>3, <2>4
  <2>6. \A i, j \in DOMAIN r : i < j => From(i) < From(j)
    BY <2>2, <2>4
  <2>. HIDE DEF From
  <2>7. ByPriority(r)
    BY <2>5, <2>6 DEF ByPriority
  <2>. QED  BY <2>2, <2>7 DEF r
<1>2. CASE ~ \E i \in DOMAIN q : q[i] = o
  BY <1>2 DEF Unlink
<1>. QED  BY <1>1, <1>2

\* A handler that leaves the list takes nothing of what was to come with it.
LEMMA UnlinkKept ==
    ASSUME NEW q \in Seq(Nodes), NEW h \in Handler, NEW before, NEW done,
           NoRepeats(q), Kept(q, before, done)
    PROVE  Kept(Unlink(q, h), before \ {h}, done)
<1>0. Members(Unlink(q, h)) = Members(q) \ {h}
  BY UnlinkProperties
<1>1. CASE \E i \in DOMAIN q : q[i] = h
  <2>1. PICK k : k = (CHOOSE i \in DOMAIN q : q[i] = h)
    OBVIOUS
  <2>2. k \in 1..Len(q) /\ Unlink(q, h) = RemoveAt(q, k)
    BY <1>1, <2>1 DEF Unlink
  <2>. DEFINE r == RemoveAt(q, k)
              From(j) == IF j < k THEN j ELSE j + 1
  <2>3. /\ r \in Seq(Nodes) /\ Len(r) = Len(q) - 1
        /\ \A j \in 1..(Len(q) - 1) :
             /\ j < k => r[j] = q[j]
             /\ j >= k => r[j] = q[j + 1]
    BY <2>2, RemoveAtProperties
  <2>4. DOMAIN r = 1..(Len(q) - 1) /\ DOMAIN q = 1..Len(q)
    BY <2>3
  <2>. HIDE DEF r
  <2>5. \A j \in DOMAIN r : From(j) \in DOMAIN q /\ r[j] = q[From(j)]
    BY <2>2, <2>3, <2>4
  <2>6. \A i, j \in DOMAIN r : i < j => From(i) < From(j)
    BY <2>2, <2>4
  <2>. HIDE DEF From
  <2>7. \A i, j \in DOMAIN r : r[i] = Marker =>
            /\ i < j => r[j] \notin done
            /\ j < i /\ r[j] \in before \ {h} => r[j] \in done
    BY <2>5, <2>6 DEF Kept
  <2>8. before \ {h} \subseteq Members(Unlink(q, h))
    BY <1>0 DEF Kept
  <2>. QED  BY <2>2, <2>7, <2>8 DEF r, Kept
<1>2. CASE ~ \E i \in DOMAIN q : q[i] = h
  <2>1. Unlink(q, h) = q
    BY <1>2 DEF Unlink
  <2>. QED  BY <1>0, <2>1 DEF Kept
<1>. QED  BY <1>1, <1>2

\* Sequence r is q with o at place k.
IsInserted(r, q, k, o) ==
    /\ r \in Seq(Nodes) /\ Len(r) = Len(q) + 1 /\ r[k] = o
    /\ \A j \in 1..(Len(q) + 1) :
        /\ j < k => r[j] = q[j]
        /\ j > k => r[j] = q[j - 1]

LEMMA InsertedAt ==
    ASSUME NEW q \in Seq(Nodes), NEW o \in Nodes, NEW k \in 1..(Len(q) + 1)
    PROVE  IsInserted(InsertAt(q, k, o), q, k, o)
<1>1. /\ InsertAt(q, k, o) \in Seq(Nodes)
      /\ Len(InsertAt(q, k, o)) = Len(q) + 1
      /\ InsertAt(q, k, o)[k] = o
      /\ \A j \in 1..(Len(q) + 1) :
            /\ j < k => InsertAt(q, k, o)[j] = q[j]
            /\ j > k => InsertAt(q, k, o)[j] = q[j - 1]
  BY InsertAtProperties
<1>. QED  BY <1>1 DEF IsInserted

\* Where a handler is registered, the list stays sorted.
LEMMA RegisterByPriority ==
    ASSUME NEW q \in Seq(Nodes), NEW h \in Handler, NEW k \in 1..(Len(q) + 1),
           IsPlace(q, h, k), ByPriority(q)
    PROVE  ByPriority(InsertAt(q, k, h))
<1>. DEFINE r == InsertAt(q, k, h)
            From(j) == IF j < k THEN j ELSE j - 1
<1>h. h \in Nodes
  BY DEF Nodes
<1>1. /\ r \in Seq(Nodes) /\ Len(r) = Len(q) + 1 /\ r[k] = h
      /\ \A j \in 1..(Len(q) + 1) :
           /\ j < k => r[j] = q[j]
           /\ j > k => r[j] = q[j - 1]
  <2>1. IsInserted(r, q, k, h)
    BY <1>h, InsertedAt
  <2>. QED  BY <2>1 DEF IsInserted
<1>2. DOMAIN r = 1..(Len(q) + 1) /\ DOMAIN q = 1..Len(q) /\ Len(q) \in Nat
  BY <1>1
<1>. HIDE DEF r
<1>3. \A j \in DOMAIN r \ {k} : From(j) \in DOMAIN q /\ r[j] = q[From(j)]
  BY <1>1, <1>2
<1>4. \A i, j \in DOMAIN r \ {k} : i < j => From(i) < From(j)
  BY <1>2
<1>5. \A j \in DOMAIN q : q[j] \in Nodes
  BY <1>2, ElementOfSeq
<1>6. \A j \in DOMAIN q : j < k /\ q[j] # Marker => Priority[q[j]] >= Priority[h]
  BY <1>2, <1>5, Priorities DEF IsPlace, GoesFirst, Nodes
<1>7. \A j \in DOMAIN q : j >= k /\ q[j] # Marker => Priority[h] >= Priority[q[j]]
  <2>. SUFFICES ASSUME NEW j \in DOMAIN q, j >= k, q[j] # Marker
                PROVE  Priority[h] >= Priority[q[j]]
    OBVIOUS
  <2>1. k \in DOMAIN q /\ q[k] # Marker /\ Priority[q[k]] <= Priority[h]
    BY <1>2 DEF IsPlace, GoesFirst
  <2>2. k = j \/ Priority[q[k]] >= Priority[q[j]]
    BY <1>2, <2>1 DEF ByPriority
  <2>. QED  BY <2>1, <2>2, <1>5, Priorities DEF Nodes
<1>8. \A i \in DOMAIN r : i < k => From(i) < k
  BY <1>2
<1>9. \A i \in DOMAIN r : i > k => From(i) >= k
  BY <1>2
<1>. HIDE DEF From
<1>10. ASSUME NEW i \in DOMAIN r, NEW j \in DOMAIN r, i < j, r[i] # Marker, r[j] # Marker
       PROVE  Priority[r[i]] >= Priority[r[j]]
  <2>1. CASE i = k
    BY <1>1, <1>2, <1>3, <1>7, <1>9, <1>10, <2>1
  <2>2. CASE j = k
    BY <1>1, <1>2, <1>3, <1>6, <1>8, <1>10, <2>2
  <2>3. CASE i # k /\ j # k
    BY <1>3, <1>4, <1>10, <2>3 DEF ByPriority
  <2>. QED  BY <2>1, <2>2, <2>3
<1>. QED  BY <1>10 DEF ByPriority, r

\* A handler that joins the list was not registered since before, and counts as not
\* called.
LEMMA RegisterKept ==
    ASSUME NEW q \in Seq(Nodes), NEW h \in Handler, NEW k \in 1..(Len(q) + 1),
           NEW before, NEW done, NoRepeats(q), h \notin Members(q),
           Kept(q, before, done)
    PROVE  Kept(InsertAt(q, k, h), before, done \ {h})
<1>0. Members(InsertAt(q, k, h)) = Members(q) \cup {h}
  BY InsertAtMembers DEF Nodes
<1>. DEFINE r == InsertAt(q, k, h)
            From(j) == IF j < k THEN j ELSE j - 1
<1>h. h \in Nodes
  BY DEF Nodes
<1>1. /\ r \in Seq(Nodes) /\ Len(r) = Len(q) + 1 /\ r[k] = h
      /\ \A j \in 1..(Len(q) + 1) :
           /\ j < k => r[j] = q[j]
           /\ j > k => r[j] = q[j - 1]
  <2>1. IsInserted(r, q, k, h)
    BY <1>h, InsertedAt
  <2>. QED  BY <2>1 DEF IsInserted
<1>2. DOMAIN r = 1..(Len(q) + 1) /\ DOMAIN q = 1..Len(q) /\ Len(q) \in Nat
  BY <1>1
<1>3. before \subseteq Members(r)
  BY <1>0 DEF Kept
<1>. HIDE DEF r
<1>4. \A j \in DOMAIN r \ {k} : From(j) \in DOMAIN q /\ r[j] = q[From(j)]
  BY <1>1, <1>2
<1>5. \A i, j \in DOMAIN r \ {k} : i < j => From(i) < From(j)
  BY <1>2
<1>. HIDE DEF From
<1>6. h # Marker /\ h \notin before
  BY Priorities DEF Kept
<1>7. \A j \in DOMAIN r \ {k} : r[j] # h
  BY <1>4 DEF Members
<1>8. ASSUME NEW i \in DOMAIN r, NEW j \in DOMAIN r, r[i] = Marker
      PROVE  /\ i < j => r[j] \notin done \ {h}
             /\ j < i /\ r[j] \in before => r[j] \in done \ {h}
  <2>1. i # k
    BY <1>1, <1>6, <1>8
  <2>2. CASE j = k
    BY <1>1, <1>6, <2>2
  <2>3. CASE j # k
    BY <1>4, <1>5, <1>7, <1>8, <2>1, <2>3 DEF Kept
  <2>. QED  BY <2>2, <2>3
<1>. QED  BY <1>3, <1>8 DEF Kept, r

\* The marker is where it is said to be.
LEMMA MarkedIsMarker ==
    ASSUME NEW q \in Seq(Nodes), Marker \in Members(q)
    PROVE  MarkedAt(q) \in 1..Len(q) /\ q[MarkedAt(q)] = Marker
BY DEF MarkedAt, Members

\* The marker and the handler behind it change places.
LEMMA AdvanceSwaps ==
    ASSUME NEW q \in Seq(Nodes), Marker \in Members(q),
           NEW i \in 1..Len(q), i = MarkedAt(q), i < Len(q)
    PROVE  /\ Advance(q) \in Seq(Nodes) /\ Len(Advance(q)) = Len(q)
           /\ Advance(q)[i] = q[i + 1] /\ Advance(q)[i + 1] = Marker
           /\ \A j \in 1..Len(q) : j \notin {i, i + 1} => Advance(q)[j] = q[j]
<1>. DEFINE m == RemoveAt(q, i)
            r == InsertAt(m, i + 1, Marker)
<1>1. /\ m \in Seq(Nodes) /\ Len(m) = Len(q) - 1
      /\ \A j \in 1..(Len(q) - 1) :
           /\ j < i => m[j] = q[j]
           /\ j >= i => m[j] = q[j + 1]
  BY RemoveAtProperties
<1>2. Marker \in Nodes /\ i + 1 \in 1..(Len(m) + 1)
  BY <1>1 DEF Nodes
<1>. HIDE DEF m
<1>3. PICK k : k = i + 1
  OBVIOUS
<1>4. LET s == InsertAt(m, k, Marker)
      IN  /\ s \in Seq(Nodes) /\ Len(s) = Len(m) + 1 /\ s[k] = Marker
          /\ \A j \in 1..(Len(m) + 1) :
               /\ j < k => s[j] = m[j]
               /\ j > k => s[j] = m[j - 1]
  <2>1. k \in 1..(Len(m) + 1)
    BY <1>2, <1>3
  <2>2. Marker \in Nodes
    BY <1>1, <1>2
  <2>. DEFINE s == InsertAt(m, k, Marker)
  <2>3. IsInserted(s, m, k, Marker)
    BY <1>1, <1>2, <2>1, <2>2, InsertedAt
  <2>. QED  BY <2>3 DEF IsInserted
<1>5. /\ r \in Seq(Nodes) /\ Len(r) = Len(q) /\ r[i + 1] = Marker
      /\ \A j \in 1..Len(q) : (j < i + 1 => r[j] = m[j]) /\ (j > i + 1 => r[j] = m[j - 1])
  BY <1>1, <1>3, <1>4
<1>6. Advance(q) = r
  BY DEF Advance, m
<1>. HIDE DEF r
<1>7. r[i] = q[i + 1]
  <2>1. i \in 1..(Len(q) - 1) /\ i >= i /\ i < i + 1
    OBVIOUS
  <2>2. r[i] = m[i]
    BY <1>5, <2>1
  <2>3. m[i] = q[i + 1]
    BY <1>1, <2>1
  <2>. QED  BY <2>2, <2>3
<1>8. ASSUME NEW j \in 1..Len(q), j \notin {i, i + 1}
      PROVE  r[j] = q[j]
  <2>1. CASE j < i
    <3>1. r[j] = m[j] /\ j \in 1..(Len(q) - 1) /\ j < i
      BY <1>5, <2>1
    <3>. QED  BY <1>1, <3>1
  <2>2. CASE j > i + 1
    <3>1. r[j] = m[j - 1] /\ j - 1 \in 1..(Len(q) - 1) /\ j - 1 >= i /\ (j - 1) + 1 = j
      BY <1>5, <2>2
    <3>. QED  BY <1>1, <3>1
  <2>. QED  BY <1>8, <2>1, <2>2
<1>. QED  BY <1>5, <1>6, <1>7, <1>8

\* What a step of a dispatch does to the list: the same handlers, in the same order,
\* and the one that is called is ahead of the marker.
LEMMA AdvanceProperties ==
    ASSUME NEW q \in Seq(Nodes), NoRepeats(q), Marker \in Members(q),
           NEW i \in 1..Len(q), i = MarkedAt(q), i < Len(q),
           NEW before, NEW done, Kept(q, before, done), ByPriority(q)
    PROVE  /\ Advance(q) \in Seq(Nodes) /\ NoRepeats(Advance(q))
           /\ Members(Advance(q)) = Members(q)
           /\ ByPriority(Advance(q))
           /\ Kept(Advance(q), before, done \cup {q[i + 1]})
           /\ q[i + 1] \in Handler /\ q[i + 1] \notin done
<1>. DEFINE r == Advance(q)
            From(j) == IF j = i THEN i + 1 ELSE IF j = i + 1 THEN i ELSE j
<1>1. q[i] = Marker
  BY MarkedIsMarker
<1>2. /\ r \in Seq(Nodes) /\ Len(r) = Len(q)
      /\ r[i] = q[i + 1] /\ r[i + 1] = Marker
      /\ \A j \in 1..Len(q) : j \notin {i, i + 1} => r[j] = q[j]
  BY AdvanceSwaps
<1>3. DOMAIN r = 1..Len(q) /\ DOMAIN q = 1..Len(q) /\ i + 1 \in DOMAIN q
  BY <1>2
<1>. HIDE DEF r
<1>4. \A j \in DOMAIN q : From(j) \in DOMAIN q /\ From(From(j)) = j /\ r[j] = q[From(j)]
  BY <1>1, <1>2, <1>3
<1>5. \A j, k \in DOMAIN q : j < k => From(j) < From(k) \/ (j = i /\ k = i + 1)
  BY <1>3
<1>6. q[i + 1] \in Handler /\ q[i + 1] # Marker /\ q[i + 1] \notin done
  <2>1. q[i + 1] \in Nodes
    BY <1>3, ElementOfSeq
  <2>2. q[i + 1] # Marker
    BY <1>1, <1>3 DEF NoRepeats
  <2>3. i < i + 1
    OBVIOUS
  <2>4. q[i + 1] \notin done
    BY <1>1, <1>3, <2>3 DEF Kept
  <2>. QED  BY <2>1, <2>2, <2>4 DEF Nodes
<1>7. Members(r) = Members(q)
  <2>. HIDE DEF From
  <2>. QED  BY <1>3, <1>4 DEF Members
<1>8. NoRepeats(r)
  <2>. HIDE DEF From
  <2>. QED  BY <1>3, <1>4 DEF NoRepeats
<1>9. ByPriority(r)
  <2>. SUFFICES ASSUME NEW j \in DOMAIN r, NEW k \in DOMAIN r, j < k,
                       Marker \notin {r[j], r[k]}
                PROVE  Priority[r[j]] >= Priority[r[k]]
    BY DEF ByPriority
  <2>. HIDE DEF From
  <2>1. From(j) < From(k)
    BY <1>2, <1>3, <1>5
  <2>. QED  BY <1>3, <1>4, <2>1 DEF ByPriority
<1>10. Kept(r, before, done \cup {q[i + 1]})
  <2>1. before \subseteq Members(r)
    BY <1>7 DEF Kept
  <2>2. ASSUME NEW j \in DOMAIN r, NEW k \in DOMAIN r, r[j] = Marker
        PROVE  /\ j < k => r[k] \notin done \cup {q[i + 1]}
               /\ k < j /\ r[k] \in before => r[k] \in done \cup {q[i + 1]}
    <3>1. j = i + 1
      BY <1>2, <1>3, <1>8, <2>2 DEF NoRepeats
    <3>2. CASE k = i
      BY <1>2, <3>1, <3>2
    <3>3. CASE k < i
      <4>1. r[k] = q[k]
        BY SMTT(30), <1>2, <1>3, <3>3
      <4>. QED  BY <1>1, <1>3, <3>1, <3>3, <4>1 DEF Kept
    <3>4. CASE k > i + 1
      <4>1. r[k] = q[k] /\ i < k /\ k \in DOMAIN q /\ i \in DOMAIN q
        BY <1>2, <1>3, <3>4
      <4>2. q[k] # q[i + 1]
        BY <1>3, <3>4, <4>1 DEF NoRepeats
      <4>. QED  BY <1>1, <3>1, <3>4, <4>1, <4>2 DEF Kept
    <3>5. CASE k = i + 1
      BY <3>1, <3>5
    <3>. QED  BY <1>3, <3>2, <3>3, <3>4, <3>5
  <2>. QED  BY <2>1, <2>2 DEF Kept
<1>. QED  BY <1>2, <1>6, <1>7, <1>8, <1>9, <1>10 DEF r

\* A dispatch begins with the marker ahead of all.
LEMMA MarkerInFront ==
    ASSUME NEW q \in Seq(Nodes), NoRepeats(q), Marker \notin Members(q), ByPriority(q)
    PROVE  /\ LinkToHead(q, Marker) \in Seq(Nodes)
           /\ NoRepeats(LinkToHead(q, Marker))
           /\ Members(LinkToHead(q, Marker)) = Members(q) \cup {Marker}
           /\ ByPriority(LinkToHead(q, Marker))
           /\ Kept(LinkToHead(q, Marker), Members(q), {})
<1>. DEFINE r == LinkToHead(q, Marker)
<1>m. Marker \in Nodes
  BY DEF Nodes
<1>1. r \in Seq(Nodes) /\ NoRepeats(r) /\ Members(r) = Members(q) \cup {Marker}
  BY <1>m, LinkToHeadProperties
<1>2. /\ Len(r) = Len(q) + 1 /\ r[1] = Marker
      /\ \A j \in 2..(Len(q) + 1) : r[j] = q[j - 1]
  BY <1>m, ConcatProperties DEF LinkToHead
<1>3. DOMAIN r = 1..(Len(q) + 1) /\ DOMAIN q = 1..Len(q) /\ Len(q) \in Nat
  BY <1>1, <1>2
<1>. HIDE DEF r
<1>4. ByPriority(r)
  <2>. SUFFICES ASSUME NEW j \in DOMAIN r, NEW k \in DOMAIN r, j < k,
                       Marker \notin {r[j], r[k]}
                PROVE  Priority[r[j]] >= Priority[r[k]]
    BY DEF ByPriority
  <2>1. /\ j - 1 \in DOMAIN q /\ k - 1 \in DOMAIN q /\ j - 1 < k - 1
        /\ r[j] = q[j - 1] /\ r[k] = q[k - 1]
    BY <1>2, <1>3
  <2>. QED  BY <2>1 DEF ByPriority
<1>5. Kept(r, Members(q), {})
  <2>1. ASSUME NEW j \in DOMAIN r, NEW k \in DOMAIN r, r[j] = Marker
        PROVE  ~ (k < j)
    BY <1>1, <1>2, <1>3, <2>1 DEF NoRepeats
  <2>. QED  BY <1>1, <2>1 DEF Kept
<1>. QED  BY <1>1, <1>4, <1>5 DEF r

-----------------------------------------------------------------------------
(* What a step can be to the lists.                                        *)

ListStays == UNCHANGED <<list, running, handler, called, steady>>
Begins == running = "none" /\ (\E id \in Ids : Dispatch(id)) /\ UNCHANGED handler
Finishes == running # "none" /\ EndDispatch /\ handler' = Marker /\ UNCHANGED <<called, steady>>
Returns == handler' = Marker /\ UNCHANGED <<list, running, called, steady>>
Joins == handler # Marker /\ (\E h \in Handler : Register(h)) /\ UNCHANGED <<running, handler>>
Quits == handler # Marker /\ (\E h \in Handler : Unregister(h)) /\ UNCHANGED <<running, handler>>

LEMMA ListSteps ==
    ASSUME RunsFor, [EventNext]_eventVars
    PROVE  ListStays \/ Begins \/ CallNext \/ Finishes \/ Returns \/ Joins \/ Quits
<1>1. CASE AllCalled
  BY <1>1 DEF AllCalled, Dispatching, Finishes
<1>2. CASE HandlerReturns
  BY <1>2 DEF HandlerReturns, Finishes, Returns, RunsFor
<1>3. CASE HandlerRegisters
  BY <1>3 DEF HandlerRegisters, Joins, Quits
<1>4. CASE PostClose \/ KeyGoesDown \/ KeyGoesUp \/ FocusChanges \/ WindowCloses
           \/ UNCHANGED eventVars
  BY <1>4 DEF PostClose, KeyGoesDown, KeyGoesUp, FocusChanges, WindowCloses, eventVars,
              ListStays
<1>5. CASE Wake \/ InputProcessed
  BY <1>5 DEF Wake, InputProcessed, NoDispatch, Turn, ListStays
<1>6. CASE ProcessInput
  <2>1. UNCHANGED handler /\ running = "none"
    BY <1>6 DEF ProcessInput, InStage, Turn
  <2>2. NoDispatch \/ (\E id \in Ids : Dispatch(id))
    <3>1. Posts(Head(inputs))
      BY <1>6 DEF ProcessInput
    <3>2. \A b : (IF Head(inputs).id = "keydown" /\ b THEN "repeat" ELSE Head(inputs).id) \in
                 {"repeat", Head(inputs).id}
      OBVIOUS
    <3>. QED  BY <3>1 DEF Posts, Ids, KeyEvents
  <2>. QED  BY <2>1, <2>2 DEF ListStays, Begins, NoDispatch
<1>7. CASE SynthesizeInitialize \/ SynthesizeTick \/ SynthesizePoll
  BY <1>7 DEF SynthesizeInitialize, SynthesizeTick, SynthesizePoll, InStage, Turn,
              NoDispatch, ListStays, Begins, Ids, TurnEvents
<1>8. CASE SynthesizeIdle \/ SynthesizePaint
  BY <1>8 DEF SynthesizeIdle, SynthesizePaint, InStage, Turn,
              NoDispatch, ListStays, Begins, Ids, TurnEvents
<1>9. CASE EndOfTurn \/ SynthesizeDestroy
  BY <1>9 DEF EndOfTurn, SynthesizeDestroy, InStage, Turn, NoDispatch, ListStays, Begins,
              Ids
<1>. QED  BY <1>1, <1>2, <1>3, <1>4, <1>5, <1>6, <1>7, <1>8, <1>9 DEF EventNext

ListTypes ==
    /\ list \in [Ids -> Seq(Nodes)]
    /\ running \in Ids \cup {"none"} /\ handler \in Nodes
    /\ called \subseteq Handler /\ steady \subseteq Handler

\* What the invariant says of one list.
Good(q, id, current) ==
    /\ q \in Seq(Nodes) /\ NoRepeats(q) /\ ByPriority(q)
    /\ Marker \in Members(q) <=> current = id
    /\ \A h \in Members(q) : h = Marker \/ EventOf[h] = id

LEMMA ListsGood ==
    ASSUME ListTypes
    PROVE  /\ Sorted /\ OfTheirEvent <=> \A id \in Ids : Good(list[id], id, running)
           /\ Progress <=> (running # "none" => Kept(list[running], steady, called))
BY DEF ListTypes, Sorted, OfTheirEvent, Good, ByPriority, Progress, Kept

LEMMA ListsGoodPrimed ==
    ASSUME ListTypes'
    PROVE  /\ (Sorted /\ OfTheirEvent)' <=> \A id \in Ids : Good(list'[id], id, running')
           /\ Progress' <=> (running' # "none" => Kept(list'[running'], steady', called'))
BY DEF ListTypes, Sorted, OfTheirEvent, Good, ByPriority, Progress, Kept

\* The lists after a step that changes the list of one event.
LEMMA ListsAfter ==
    ASSUME ListTypes, NEW id \in Ids, NEW q, list' = [list EXCEPT ![id] = q],
           \A e \in Ids : Good(list[e], e, running),
           \A e \in Ids \ {id} : running = e <=> running' = e,
           running' \in Ids \cup {"none"}, handler' \in Nodes,
           called' \subseteq Handler, steady' \subseteq Handler,
           handler' # Marker => running' # "none",
           Good(q, id, running'),
           running' # "none" => Kept(list'[running'], steady', called')
    PROVE  ListTypes' /\ ListInv'
<1>1. list' \in [Ids -> Seq(Nodes)]
  BY DEF ListTypes, Good
<1>2. ListTypes'
  BY <1>1 DEF ListTypes
<1>3. \A e \in Ids : Good(list'[e], e, running')
  BY DEF ListTypes, Good
<1>. QED  BY <1>2, <1>3, ListsGoodPrimed DEF ListInv, RunsFor

LEMMA NoneIsNoEvent == "none" \notin Ids
BY DEF Ids, KeyEvents, TurnEvents

LEMMA StaysKeepsLists ==
    ASSUME ListTypes, ListInv, ListStays \/ Returns
    PROVE  ListTypes' /\ ListInv'
<1>1. ListTypes'
  BY DEF ListTypes, ListStays, Returns, Nodes
<1>2. (Sorted /\ OfTheirEvent /\ Progress)'
  BY DEF ListInv, Sorted, OfTheirEvent, Progress, ListStays, Returns
<1>3. RunsFor'
  BY DEF ListInv, RunsFor, ListStays, Returns
<1>. QED  BY <1>1, <1>2, <1>3 DEF ListInv

LEMMA BeginsKeepsLists ==
    ASSUME ListTypes, ListInv, Begins
    PROVE  ListTypes' /\ ListInv'
<1>1. PICK id \in Ids : Dispatch(id)
  BY DEF Begins
<1>2. \A e \in Ids : Good(list[e], e, running)
  BY ListsGood DEF ListInv
<1>. DEFINE q == list[id]
<1>3. q \in Seq(Nodes) /\ NoRepeats(q) /\ ByPriority(q) /\ Marker \notin Members(q)
  BY <1>2, NoneIsNoEvent DEF Good, Begins
<1>4. /\ list' = [list EXCEPT ![id] = LinkToHead(q, Marker)]
      /\ running' = id /\ called' = {} /\ steady' = Members(q) /\ handler' = handler
  BY <1>1 DEF Dispatch, Begins
<1>5. steady' \subseteq Handler
  <2>1. \A i \in DOMAIN q : q[i] \in Nodes
    BY <1>3, ElementOfSeq
  <2>. QED  BY <1>3, <1>4, <2>1 DEF Nodes, Members
<1>6. /\ LinkToHead(q, Marker) \in Seq(Nodes)
      /\ NoRepeats(LinkToHead(q, Marker))
      /\ Members(LinkToHead(q, Marker)) = Members(q) \cup {Marker}
      /\ ByPriority(LinkToHead(q, Marker))
      /\ Kept(LinkToHead(q, Marker), Members(q), {})
  BY <1>3, MarkerInFront
<1>7. Good(LinkToHead(q, Marker), id, running')
  BY <1>2, <1>4, <1>6 DEF Good
<1>8. running' # "none" => Kept(list'[running'], steady', called')
  BY <1>4, <1>6 DEF ListTypes
<1>9. handler' \in Nodes /\ (handler' # Marker => running' # "none")
  BY <1>4, NoneIsNoEvent DEF ListTypes
<1>10. \A e \in Ids \ {id} : running = e <=> running' = e
  BY <1>4, NoneIsNoEvent DEF Begins
<1>. QED  BY <1>2, <1>4, <1>5, <1>7, <1>8, <1>9, <1>10, ListsAfter

LEMMA CallKeepsLists ==
    ASSUME ListTypes, ListInv, CallNext
    PROVE  ListTypes' /\ ListInv' /\ handler' \notin called
<1>. DEFINE q == list[running]
<1>1. running \in Ids /\ running # "none"
  BY DEF ListTypes, CallNext, Dispatching
<1>2. \A e \in Ids : Good(list[e], e, running)
  BY ListsGood DEF ListInv
<1>3. q \in Seq(Nodes) /\ NoRepeats(q) /\ ByPriority(q) /\ Marker \in Members(q)
  BY <1>1, <1>2 DEF Good
<1>4. Kept(q, steady, called)
  BY <1>1, ListsGood DEF ListInv
<1>5. PICK i : i = MarkedAt(q)
  OBVIOUS
<1>6. /\ i < Len(q) /\ handler' = q[i + 1]
      /\ list' = [list EXCEPT ![running] = Advance(q)]
      /\ called' = called \cup {q[i + 1]} /\ running' = running /\ steady' = steady
  BY <1>5 DEF CallNext
<1>7. i \in 1..Len(q)
  BY <1>3, <1>5, MarkedIsMarker
<1>8. /\ Advance(q) \in Seq(Nodes) /\ NoRepeats(Advance(q))
      /\ Members(Advance(q)) = Members(q)
      /\ ByPriority(Advance(q))
      /\ Kept(Advance(q), steady, called \cup {q[i + 1]})
      /\ q[i + 1] \in Handler /\ q[i + 1] \notin called
  BY <1>3, <1>4, <1>5, <1>6, <1>7, AdvanceProperties
<1>9. Good(Advance(q), running, running')
  BY <1>1, <1>2, <1>6, <1>8 DEF Good
<1>10. running' # "none" => Kept(list'[running'], steady', called')
  BY <1>1, <1>6, <1>8 DEF ListTypes
<1>11. /\ handler' \in Nodes /\ (handler' # Marker => running' # "none")
       /\ called' \subseteq Handler /\ steady' \subseteq Handler
  BY <1>1, <1>6, <1>8 DEF ListTypes, Nodes
<1>. QED
  BY <1>1, <1>2, <1>6, <1>8, <1>9, <1>10, <1>11, ListsAfter DEF ListTypes

LEMMA EndKeepsLists ==
    ASSUME ListTypes, ListInv, Finishes
    PROVE  ListTypes' /\ ListInv'
<1>. DEFINE q == list[running]
<1>1. running \in Ids /\ running # "none"
  BY DEF ListTypes, Finishes
<1>2. \A e \in Ids : Good(list[e], e, running)
  BY ListsGood DEF ListInv
<1>3. q \in Seq(Nodes) /\ NoRepeats(q) /\ ByPriority(q)
  BY <1>1, <1>2 DEF Good
<1>4. /\ list' = [list EXCEPT ![running] = Unlink(q, Marker)]
      /\ running' = "none" /\ handler' = Marker /\ called' = called /\ steady' = steady
  BY DEF Finishes, EndDispatch
<1>5. /\ Unlink(q, Marker) \in Seq(Nodes)
      /\ Members(Unlink(q, Marker)) = Members(q) \ {Marker}
      /\ NoRepeats(Unlink(q, Marker)) /\ ByPriority(Unlink(q, Marker))
  BY <1>3, UnlinkProperties, UnlinkByPriority
<1>6. Good(Unlink(q, Marker), running, running')
  BY <1>1, <1>2, <1>4, <1>5 DEF Good
<1>7. \A e \in Ids \ {running} : running = e <=> running' = e
  BY <1>4, NoneIsNoEvent
<1>8. /\ handler' \in Nodes /\ (handler' # Marker => running' # "none")
      /\ called' \subseteq Handler /\ steady' \subseteq Handler
  BY <1>4 DEF ListTypes, Nodes
<1>. QED  BY <1>1, <1>2, <1>4, <1>6, <1>7, <1>8, ListsAfter

LEMMA JoinKeepsLists ==
    ASSUME ListTypes, ListInv, Joins
    PROVE  ListTypes' /\ ListInv'
<1>1. PICK h \in Handler : Register(h)
  BY DEF Joins
<1>2. \A e \in Ids : Good(list[e], e, running)
  BY ListsGood DEF ListInv
<1>3. PICK id \in Ids : id = EventOf[h]
  BY Priorities
<1>. DEFINE q == list[id]
<1>4. q \in Seq(Nodes) /\ NoRepeats(q) /\ ByPriority(q) /\ h \notin Members(q)
  BY <1>1, <1>2, <1>3 DEF Good, Register
<1>5. PICK k \in 1..(Len(q) + 1) :
        IsPlace(q, h, k) /\ list' = [list EXCEPT ![id] = InsertAt(q, k, h)]
  BY <1>1, <1>3 DEF Register
<1>6. called' = called \ {h} /\ steady' = steady /\ UNCHANGED <<running, handler>>
  BY <1>1 DEF Register, Joins
<1>7. /\ InsertAt(q, k, h) \in Seq(Nodes)
      /\ Members(InsertAt(q, k, h)) = Members(q) \cup {h} /\ NoRepeats(InsertAt(q, k, h))
  <2>1. h \in Nodes
    BY DEF Nodes
  <2>2. InsertAt(q, k, h) \in Seq(Nodes)
    BY <1>4, <2>1, InsertAtProperties
  <2>3. /\ Members(InsertAt(q, k, h)) = Members(q) \cup {h}
        /\ NoRepeats(InsertAt(q, k, h))
    BY <1>4, <2>1, InsertAtMembers
  <2>. QED  BY <2>2, <2>3
<1>8. ByPriority(InsertAt(q, k, h))
  BY <1>4, <1>5, RegisterByPriority
<1>9. Good(InsertAt(q, k, h), id, running')
  BY <1>2, <1>3, <1>6, <1>7, <1>8, Priorities DEF Good
<1>10. running # "none" /\ running \in Ids /\ Kept(list[running], steady, called)
  BY ListsGood DEF ListInv, RunsFor, Joins, ListTypes
<1>11. Kept(list'[running'], steady', called')
  <2>1. CASE running = id
    <3>1. Kept(InsertAt(q, k, h), steady, called \ {h})
      BY <1>4, <1>10, <2>1, RegisterKept
    <3>. QED  BY <1>5, <1>6, <2>1, <3>1 DEF ListTypes
  <2>2. CASE running # id
    <3>1. h \notin Members(list[running])
      BY <1>2, <1>3, <1>10, <2>2, Priorities DEF Good
    <3>2. Kept(list[running], steady, called \ {h})
      BY <1>10, <3>1 DEF Kept, Members
    <3>. QED  BY <1>5, <1>6, <1>10, <2>2, <3>2 DEF ListTypes
  <2>. QED  BY <2>1, <2>2
<1>12. /\ handler' \in Nodes /\ (handler' # Marker => running' # "none")
       /\ called' \subseteq Handler /\ steady' \subseteq Handler
  BY <1>6, <1>10 DEF ListTypes
<1>13. running' \in Ids \cup {"none"} /\ (\A e \in Ids \ {id} : running = e <=> running' = e)
  BY <1>6, <1>10
<1>. QED  BY <1>2, <1>5, <1>9, <1>11, <1>12, <1>13, ListsAfter

LEMMA LeaveKeepsLists ==
    ASSUME ListTypes, ListInv, Quits
    PROVE  ListTypes' /\ ListInv'
<1>1. PICK h \in Handler : Unregister(h)
  BY DEF Quits
<1>2. \A e \in Ids : Good(list[e], e, running)
  BY ListsGood DEF ListInv
<1>3. PICK id \in Ids : id = EventOf[h]
  BY Priorities
<1>. DEFINE q == list[id]
<1>4. q \in Seq(Nodes) /\ NoRepeats(q) /\ ByPriority(q)
  BY <1>2 DEF Good
<1>5. /\ list' = [list EXCEPT ![id] = Unlink(q, h)]
      /\ called' = called /\ steady' = steady \ {h} /\ UNCHANGED <<running, handler>>
  BY <1>1, <1>3 DEF Unregister, Quits
<1>6. /\ Unlink(q, h) \in Seq(Nodes) /\ NoRepeats(Unlink(q, h))
      /\ Members(Unlink(q, h)) = Members(q) \ {h} /\ ByPriority(Unlink(q, h))
  BY <1>4, UnlinkProperties, UnlinkByPriority
<1>7. Good(Unlink(q, h), id, running')
  BY <1>2, <1>5, <1>6, Priorities DEF Good
<1>8. running # "none" /\ running \in Ids /\ Kept(list[running], steady, called)
  BY ListsGood DEF ListInv, RunsFor, Quits, ListTypes
<1>9. Kept(list'[running'], steady', called')
  <2>1. CASE running = id
    <3>1. Kept(Unlink(q, h), steady \ {h}, called)
      BY <1>4, <1>8, <2>1, UnlinkKept
    <3>. QED  BY <1>5, <2>1, <3>1 DEF ListTypes
  <2>2. CASE running # id
    <3>1. h \notin Members(list[running])
      BY <1>2, <1>3, <1>8, <2>2, Priorities DEF Good
    <3>2. Kept(list[running], steady \ {h}, called)
      BY <1>8, <3>1 DEF Kept
    <3>. QED  BY <1>5, <1>8, <2>2, <3>2 DEF ListTypes
  <2>. QED  BY <2>1, <2>2
<1>10. /\ handler' \in Nodes /\ (handler' # Marker => running' # "none")
       /\ called' \subseteq Handler /\ steady' \subseteq Handler
  BY <1>5, <1>8 DEF ListTypes
<1>11. running' \in Ids \cup {"none"} /\ (\A e \in Ids \ {id} : running = e <=> running' = e)
  BY <1>5, <1>8
<1>. QED  BY <1>2, <1>5, <1>7, <1>9, <1>10, <1>11, ListsAfter

\* Every step keeps the lists.
LEMMA StepKeepsLists ==
    ASSUME ListTypes, ListInv, [EventNext]_eventVars
    PROVE  ListTypes' /\ ListInv'
<1>1. RunsFor
  BY DEF ListInv
<1>. QED
  BY <1>1, ListSteps, StaysKeepsLists, BeginsKeepsLists, CallKeepsLists, EndKeepsLists,
     JoinKeepsLists, LeaveKeepsLists

LEMMA ListsAtFirst ==
    ASSUME EventInit
    PROVE  ListTypes /\ ListInv
<1>1. \A id \in Ids : \A i \in DOMAIN Initial[id] : Initial[id][i] \in Handler
  BY InitialAssumption, ElementOfSeq
<1>2. \A id \in Ids : Good(Initial[id], id, "none")
  <2>. SUFFICES ASSUME NEW id \in Ids
                PROVE  Good(Initial[id], id, "none")
    OBVIOUS
  <2>. DEFINE q == Initial[id]
  <2>1. q \in Seq(Handler) /\ Handler \subseteq Nodes
    BY InitialAssumption DEF Nodes
  <2>2. q \in Seq(Nodes)
    BY <2>1, SeqMonotonic
  <2>3. Marker \notin Members(q)
    BY <1>1, EventDispatchAssumption DEF Members
  <2>4. ByPriority(q)
    BY InitialAssumption DEF ByPriority
  <2>5. NoRepeats(q) /\ (\A h \in Members(q) : EventOf[h] = id)
    BY InitialAssumption DEF Members
  <2>. QED  BY <2>2, <2>3, <2>4, <2>5, NoneIsNoEvent DEF Good
<1>3. list \in [Ids -> Seq(Nodes)]
  BY <1>2, InitialAssumption DEF EventInit, Good
<1>4. ListTypes
  BY <1>3 DEF ListTypes, EventInit, Nodes
<1>5. Sorted /\ OfTheirEvent
  BY <1>2, <1>4, ListsGood DEF EventInit
<1>. QED  BY <1>4, <1>5 DEF ListInv, EventInit, Progress, RunsFor

-----------------------------------------------------------------------------
(* The keys.                                                               *)

KeyTypes ==
    /\ inputs \in Seq(Inputs) /\ Len(inputs) < QueueSize
    /\ keysDown \subseteq AllKeys /\ metaKeyState \subseteq MetaKeys
    /\ device \in [down : SUBSET AllKeys, focus : BOOLEAN]
    /\ dropped \subseteq AllKeys

LEMMA InputKeys ==
    ASSUME NEW input \in Inputs
    PROVE  /\ input.id \in {"keydown", "keyup", "focus", "shutdown"}
           /\ input.id \in {"keydown", "keyup"} => input.key \in AllKeys
           /\ input.id \in {"focus", "shutdown"} => input.key \notin AllKeys
BY EventDispatchAssumption DEF Inputs, AllKeys

\* The queue without the first d inputs, and another input.
Follows(later, input, d) ==
    /\ d = 1 <=> Full
    /\ d = 1 => inputs # <<>> /\ Head(inputs) = inputs[1]
    /\ later \in Seq(Inputs)
    /\ Len(later) = Len(inputs) + 1 - d
    /\ Len(later) < QueueSize /\ Len(later) >= 1
    /\ later[Len(later)] = input
    /\ \A i \in 1..(Len(inputs) - d) : later[i] = inputs[i + d]

\* What the queue keeps of the inputs before, and the new one behind it.
LEMMA WithInputProperties ==
    ASSUME inputs \in Seq(Inputs), Len(inputs) < QueueSize, NEW input \in Inputs
    PROVE  \E d \in {0, 1} : Follows(WithInput(input), input, d)
<1>q. QueueSize \in Nat /\ QueueSize > 1
  BY EventDispatchAssumption
<1>1. CASE Full
  <2>1. inputs # <<>> /\ Len(inputs) = QueueSize - 1
    BY <1>1, <1>q DEF Full
  <2>. DEFINE t == Tail(inputs)
  <2>2. /\ t \in Seq(Inputs) /\ Len(t) = Len(inputs) - 1 /\ Head(inputs) = inputs[1]
        /\ \A i \in 1..Len(t) : t[i] = inputs[i + 1]
    BY <2>1, HeadTailProperties
  <2>. HIDE DEF t
  <2>3. /\ Append(t, input) \in Seq(Inputs) /\ Len(Append(t, input)) = Len(t) + 1
        /\ \A i \in 1..Len(t) : Append(t, input)[i] = t[i]
        /\ Append(t, input)[Len(t) + 1] = input
    BY <2>2, AppendProperties
  <2>4. WithInput(input) = Append(t, input)
    BY <1>1 DEF WithInput, t
  <2>. HIDE DEF Full
  <2>5. Follows(WithInput(input), input, 1)
    BY <1>1, <1>q, <2>1, <2>2, <2>3, <2>4 DEF Follows
  <2>. QED  BY <2>5
<1>2. CASE ~ Full
  <2>1. Len(inputs) # QueueSize - 1 /\ Len(inputs) \in Nat
    BY <1>2 DEF Full
  <2>2. /\ Append(inputs, input) \in Seq(Inputs)
        /\ Len(Append(inputs, input)) = Len(inputs) + 1
        /\ \A i \in 1..Len(inputs) : Append(inputs, input)[i] = inputs[i]
        /\ Append(inputs, input)[Len(inputs) + 1] = input
    BY AppendProperties
  <2>3. WithInput(input) = Append(inputs, input)
    BY <1>2 DEF WithInput
  <2>. HIDE DEF Full
  <2>4. Follows(WithInput(input), input, 0)
    BY <1>2, <1>q, <2>1, <2>2, <2>3 DEF Follows
  <2>. QED  BY <2>4
<1>. QED  BY <1>1, <1>2

\* What the system reports is put behind what it reported before.
LEMMA PutKeepsKeys ==
    ASSUME KeyTypes, KeyInv, NEW input \in Inputs, Put(input),
           device' \in [down : SUBSET AllKeys, focus : BOOLEAN],
           UNCHANGED <<keysDown, metaKeyState>>,
           \A k \in AllKeys : About(k, input) => (input.id = "keydown" <=> k \in device'.down),
           \A k \in AllKeys : ~ About(k, input) => (k \in device.down <=> k \in device'.down)
    PROVE  KeyTypes' /\ KeyInv'
<1>. DEFINE n == Len(inputs')
<1>1. PICK d \in {0, 1} :
        /\ d = 1 <=> Full
        /\ d = 1 => inputs # <<>> /\ Head(inputs) = inputs[1]
        /\ inputs' \in Seq(Inputs)
        /\ n = Len(inputs) + 1 - d /\ n < QueueSize /\ n >= 1
        /\ inputs'[n] = input
        /\ \A i \in 1..(Len(inputs) - d) : inputs'[i] = inputs[i + d]
  <2>1. inputs' = WithInput(input)
    BY DEF Put
  <2>2. inputs \in Seq(Inputs) /\ Len(inputs) < QueueSize
    BY DEF KeyTypes
  <2>3. PICK d \in {0, 1} : Follows(inputs', input, d)
    BY <2>1, <2>2, WithInputProperties
  <2>. QED  BY <2>3 DEF Follows
<1>2. dropped' = {k \in dropped \cup {m \in AllKeys : Full /\ About(m, Head(inputs))} :
                    \A i \in DOMAIN inputs' : ~ About(k, inputs'[i])}
  BY DEF Put, About
<1>3. KeyTypes'
  <2>1. dropped' \subseteq AllKeys
    BY <1>2 DEF KeyTypes
  <2>. QED  BY <1>1, <2>1 DEF KeyTypes
<1>4. ModifiersAgree'
  BY DEF KeyInv, ModifiersAgree
<1>5. /\ DOMAIN inputs = 1..Len(inputs) /\ DOMAIN inputs' = 1..n
      /\ Len(inputs) \in Nat /\ n \in Nat
  BY <1>1 DEF KeyTypes
<1>. HIDE DEF n
\* Every input but the last was there, and what was dropped is the first.
<1>6. /\ \A i \in DOMAIN inputs' : i < n => i + d \in DOMAIN inputs /\ inputs'[i] = inputs[i + d]
      /\ \A j \in DOMAIN inputs : j > d => j - d \in DOMAIN inputs' /\ j - d < n
                                           /\ inputs'[j - d] = inputs[j]
  <2>1. ASSUME NEW i \in DOMAIN inputs', i < n
        PROVE  i + d \in DOMAIN inputs /\ inputs'[i] = inputs[i + d]
    BY <1>1, <1>5, <2>1
  <2>2. ASSUME NEW j \in DOMAIN inputs, j > d
        PROVE  j - d \in DOMAIN inputs' /\ j - d < n /\ inputs'[j - d] = inputs[j]
    <3>1. PICK i : i = j - d
      OBVIOUS
    <3>2. i \in 1..(Len(inputs) - d) /\ i < n /\ i \in 1..n /\ i + d = j
      BY <1>1, <1>5, <2>2, <3>1
    <3>. QED  BY <1>1, <1>5, <3>1, <3>2
  <2>. QED  BY <2>1, <2>2
<1>7. n \in DOMAIN inputs' /\ inputs'[n] = input
  BY <1>1, <1>5
<1>8. ASSUME NEW k \in AllKeys, NEW i \in DOMAIN inputs', About(k, inputs'[i]),
             \A j \in DOMAIN inputs' : i < j => ~ About(k, inputs'[j])
      PROVE  inputs'[i].id = "keydown" <=> k \in device'.down
  <2>1. CASE i = n
    BY <1>7, <1>8, <2>1
  <2>2. CASE i < n
    <3>1. ~ About(k, input)
      BY <1>7, <1>8, <2>2
    <3>2. i + d \in DOMAIN inputs /\ inputs'[i] = inputs[i + d]
      BY <1>6, <2>2
    <3>3. ASSUME NEW j \in DOMAIN inputs, i + d < j
          PROVE  ~ About(k, inputs[j])
      <4>1. j > d /\ i < j - d
        BY <1>5, <3>3
      <4>. QED  BY <1>6, <1>8, <4>1
    <3>4. inputs[i + d].id = "keydown" <=> k \in device.down
      <4>1. PICK m \in DOMAIN inputs : m = i + d
        BY <3>2
      <4>. QED  BY <1>8, <3>2, <3>3, <4>1 DEF KeyInv, KeysFollow
    <3>. QED  BY <3>1, <3>2, <3>4
  <2>. QED  BY <1>5, <2>1, <2>2
<1>9. ASSUME NEW k \in AllKeys, k \notin dropped',
             \A i \in DOMAIN inputs' : ~ About(k, inputs'[i])
      PROVE  k \in keysDown' <=> k \in device'.down
  <2>1. ~ About(k, input)
    BY <1>7, <1>9
  <2>2. k \notin dropped /\ ~ (Full /\ About(k, Head(inputs)))
    BY <1>2, <1>9
  <2>3. ~ Awaits(k)
    <3>. SUFFICES ASSUME NEW j \in DOMAIN inputs, About(k, inputs[j])
                  PROVE  FALSE
      BY DEF Awaits
    <3>1. CASE j > d
      BY <1>6, <1>9, <3>1
    <3>2. CASE j <= d
      <4>1. d = 1 /\ j = 1
        BY <1>5, <3>2
      <4>. QED  BY <1>1, <2>2, <4>1
    <3>. QED  BY <1>5, <3>1, <3>2
  <2>. QED  BY <2>1, <2>2, <2>3 DEF KeyInv, KeysFollow
<1>10. KeysFollow'
  BY <1>8, <1>9 DEF KeysFollow, Awaits, About
<1>. QED  BY <1>3, <1>4, <1>10 DEF KeyInv

LEMMA KeyGoesDownKeeps ==
    ASSUME KeyTypes, KeyInv, KeyGoesDown
    PROVE  KeyTypes' /\ KeyInv'
<1>1. PICK k \in AllKeys : /\ device' = [device EXCEPT !.down = @ \cup {k}]
                           /\ Put([id |-> "keydown", key |-> k])
                           /\ UNCHANGED <<keysDown, metaKeyState>>
  BY DEF KeyGoesDown, keys
<1>2. PICK input : input = [id |-> "keydown", key |-> k]
  OBVIOUS
<1>3. input \in Inputs /\ input.id = "keydown" /\ input.key = k
  BY <1>2 DEF Inputs
<1>4. /\ device' \in [down : SUBSET AllKeys, focus : BOOLEAN]
      /\ device'.down = device.down \cup {k}
  BY <1>1 DEF KeyTypes
<1>. QED  BY <1>1, <1>2, <1>3, <1>4, PutKeepsKeys DEF About

LEMMA KeyGoesUpKeeps ==
    ASSUME KeyTypes, KeyInv, KeyGoesUp
    PROVE  KeyTypes' /\ KeyInv'
<1>1. PICK k \in AllKeys : /\ device' = [device EXCEPT !.down = @ \ {k}]
                           /\ Put([id |-> "keyup", key |-> k])
                           /\ UNCHANGED <<keysDown, metaKeyState>>
  BY DEF KeyGoesUp, keys
<1>2. PICK input : input = [id |-> "keyup", key |-> k]
  OBVIOUS
<1>3. input \in Inputs /\ input.id = "keyup" /\ input.key = k
  BY <1>2 DEF Inputs
<1>4. /\ device' \in [down : SUBSET AllKeys, focus : BOOLEAN]
      /\ device'.down = device.down \ {k}
  BY <1>1 DEF KeyTypes
<1>. QED  BY <1>1, <1>2, <1>3, <1>4, PutKeepsKeys DEF About

LEMMA FocusChangesKeeps ==
    ASSUME KeyTypes, KeyInv, FocusChanges
    PROVE  KeyTypes' /\ KeyInv'
<1>1. PICK input : input = [id |-> "focus", key |-> "none"]
  OBVIOUS
<1>2. input \in Inputs /\ input.id = "focus"
  BY <1>1 DEF Inputs
<1>3. Put(input) /\ UNCHANGED <<keysDown, metaKeyState>>
  BY <1>1 DEF FocusChanges, keys
<1>4. device' \in [down : SUBSET AllKeys, focus : BOOLEAN] /\ device'.down = {}
  BY DEF FocusChanges, KeyTypes
<1>. QED  BY <1>2, <1>3, <1>4, PutKeepsKeys DEF About

LEMMA WindowClosesKeeps ==
    ASSUME KeyTypes, KeyInv, WindowCloses
    PROVE  KeyTypes' /\ KeyInv'
<1>1. PICK input : input = [id |-> "shutdown", key |-> "none"]
  OBVIOUS
<1>2. input \in Inputs /\ input.id = "shutdown" /\ input.key \notin AllKeys
  BY <1>1, EventDispatchAssumption DEF Inputs, AllKeys
<1>3. Put(input) /\ UNCHANGED <<keysDown, metaKeyState, device>>
  BY <1>1 DEF WindowCloses, keys
<1>. QED  BY <1>2, <1>3, PutKeepsKeys DEF About, KeyTypes

\* What an input does to the keys that it is about, and to the others.
LEMMA PostsChangesKeys ==
    ASSUME KeyTypes, ModifiersAgree, NEW input \in Inputs, Posts(input)
    PROVE  /\ keysDown' \subseteq AllKeys /\ metaKeyState' \subseteq MetaKeys
           /\ ModifiersAgree'
           /\ \A k \in AllKeys : IF About(k, input)
                                 THEN k \in keysDown' <=> input.id = "keydown"
                                 ELSE k \in keysDown' <=> k \in keysDown
<1>. DEFINE k == input.key
            id == input.id
<1>i. /\ id \in {"keydown", "keyup", "focus", "shutdown"}
      /\ id \in {"keydown", "keyup"} => k \in AllKeys
      /\ id \in {"focus", "shutdown"} => k \notin AllKeys
  BY InputKeys
<1>1. CASE id = "shutdown" /\ UNCHANGED keys
  BY <1>1, <1>i DEF KeyTypes, ModifiersAgree, keys, About
<1>2. CASE id = "focus" /\ metaKeyState' = {} /\ keysDown' = {}
  BY <1>2 DEF ModifiersAgree, About
<1>3. CASE id \in KeyEvents /\ Known(k, id) /\ UNCHANGED keys
  <2>1. id \in {"keydown", "keyup"} /\ k \in AllKeys
    BY <1>3, <1>i DEF KeyEvents
  <2>2. k \in MetaKeys /\ (k \in keysDown <=> id = "keydown")
    BY <1>3 DEF Known, ModifiersAgree
  <2>. QED  BY <1>3, <2>1, <2>2 DEF KeyTypes, ModifiersAgree, keys, About
<1>4. CASE /\ id \in KeyEvents
           /\ metaKeyState' = IF k \notin MetaKeys THEN metaKeyState
                              ELSE IF id = "keydown" THEN metaKeyState \cup {k}
                              ELSE metaKeyState \ {k}
           /\ keysDown' = SyncKey(k, id)
  <2>1. id \in {"keydown", "keyup"} /\ k \in AllKeys
    BY <1>4, <1>i DEF KeyEvents
  <2>2. CASE id = "keydown"
    BY <1>4, <2>1, <2>2 DEF KeyTypes, ModifiersAgree, SyncKey, About
  <2>3. CASE id = "keyup"
    BY <1>4, <2>1, <2>3 DEF KeyTypes, ModifiersAgree, SyncKey, About
  <2>. QED  BY <2>1, <2>2, <2>3
<1>. QED  BY <1>1, <1>2, <1>3, <1>4 DEF Posts, NoMeta

LEMMA ProcessInputKeeps ==
    ASSUME KeyTypes, KeyInv, ProcessInput
    PROVE  KeyTypes' /\ KeyInv'
<1>1. PICK input : input = Head(inputs)
  OBVIOUS
<1>2. /\ inputs # <<>> /\ inputs' = Tail(inputs) /\ Posts(input)
      /\ UNCHANGED <<device, dropped>>
  BY <1>1 DEF ProcessInput, Turn, world
<1>3. /\ inputs' \in Seq(Inputs) /\ Len(inputs') = Len(inputs) - 1 /\ input = inputs[1]
      /\ input \in Inputs /\ Len(inputs) >= 1
      /\ \A i \in 1..Len(inputs') : inputs'[i] = inputs[i + 1]
  BY <1>1, <1>2, HeadTailProperties DEF KeyTypes
<1>4. DOMAIN inputs = 1..Len(inputs) /\ DOMAIN inputs' = 1..(Len(inputs) - 1)
      /\ Len(inputs) \in Nat
  BY <1>3 DEF KeyTypes
<1>5. /\ keysDown' \subseteq AllKeys /\ metaKeyState' \subseteq MetaKeys
      /\ ModifiersAgree'
      /\ \A k \in AllKeys : IF About(k, input)
                            THEN k \in keysDown' <=> input.id = "keydown"
                            ELSE k \in keysDown' <=> k \in keysDown
  BY <1>2, <1>3, PostsChangesKeys DEF KeyInv
<1>6. KeyTypes'
  BY <1>2, <1>3, <1>5, EventDispatchAssumption DEF KeyTypes
<1>7. /\ \A i \in DOMAIN inputs' : i + 1 \in DOMAIN inputs /\ inputs'[i] = inputs[i + 1]
      /\ 1 \in DOMAIN inputs
      /\ \A j \in DOMAIN inputs : j > 1 => j - 1 \in DOMAIN inputs'
                                           /\ inputs'[j - 1] = inputs[j]
  <2>1. ASSUME NEW j \in DOMAIN inputs, j > 1
        PROVE  j - 1 \in DOMAIN inputs' /\ inputs'[j - 1] = inputs[j]
    <3>1. j - 1 \in 1..(Len(inputs) - 1) /\ (j - 1) + 1 = j
      BY <1>4, <2>1
    <3>. QED  BY <1>3, <1>4, <3>1
  <2>. QED  BY <1>3, <1>4, <2>1
<1>8. ASSUME NEW k \in AllKeys, NEW i \in DOMAIN inputs', About(k, inputs'[i]),
             \A j \in DOMAIN inputs' : i < j => ~ About(k, inputs'[j])
      PROVE  inputs'[i].id = "keydown" <=> k \in device'.down
  <2>1. PICK m \in DOMAIN inputs : m = i + 1 /\ inputs'[i] = inputs[m]
    BY <1>7
  <2>2. ASSUME NEW j \in DOMAIN inputs, m < j
        PROVE  ~ About(k, inputs[j])
    <3>1. j > 1 /\ i < j - 1
      BY <1>4, <2>1, <2>2
    <3>. QED  BY <1>7, <1>8, <3>1
  <2>. QED  BY <1>2, <1>8, <2>1, <2>2 DEF KeyInv, KeysFollow
<1>9. ASSUME NEW k \in AllKeys, k \notin dropped',
             \A i \in DOMAIN inputs' : ~ About(k, inputs'[i])
      PROVE  k \in keysDown' <=> k \in device'.down
  <2>1. \A j \in DOMAIN inputs : 1 < j => ~ About(k, inputs[j])
    BY <1>7, <1>9
  <2>2. CASE About(k, input)
    BY <1>2, <1>3, <1>5, <1>7, <2>1, <2>2 DEF KeyInv, KeysFollow
  <2>3. CASE ~ About(k, input)
    <3>1. ~ Awaits(k)
      BY <1>3, <1>4, <2>1, <2>3 DEF Awaits
    <3>. QED  BY <1>2, <1>5, <1>9, <2>3, <3>1 DEF KeyInv, KeysFollow
  <2>. QED  BY <2>2, <2>3
<1>10. KeysFollow'
  BY <1>8, <1>9 DEF KeysFollow, Awaits, About
<1>. QED  BY <1>5, <1>6, <1>10 DEF KeyInv

KeysStay == UNCHANGED <<inputs, keysDown, metaKeyState, device, dropped>>

LEMMA KeySteps ==
    ASSUME [EventNext]_eventVars
    PROVE  KeysStay \/ KeyGoesDown \/ KeyGoesUp \/ FocusChanges \/ WindowCloses \/ ProcessInput
BY DEF EventNext, eventVars, keys, world, KeysStay, Turn, CallNext, AllCalled, HandlerReturns,
       HandlerRegisters, PostClose, Wake, SynthesizeInitialize, SynthesizeTick, InputProcessed,
       SynthesizePoll, SynthesizeIdle, SynthesizePaint, EndOfTurn, SynthesizeDestroy

LEMMA StepKeepsKeys ==
    ASSUME KeyTypes, KeyInv, [EventNext]_eventVars
    PROVE  KeyTypes' /\ KeyInv'
<1>1. ASSUME KeysStay
      PROVE  KeyTypes' /\ KeyInv'
  BY <1>1 DEF KeysStay, KeyTypes, KeyInv, ModifiersAgree, KeysFollow, Awaits, About
<1>. QED
  BY <1>1, KeySteps, KeyGoesDownKeeps, KeyGoesUpKeeps, FocusChangesKeeps, WindowClosesKeeps,
     ProcessInputKeeps

-----------------------------------------------------------------------------
(* The turn.                                                               *)

ContextSet ==
    [state : {"active", "closed", "destroyed"}, woken : BOOLEAN, initialized : BOOLEAN,
     paint : BOOLEAN, shutdown : BOOLEAN]

TurnTypes == stage \in Stages /\ context \in ContextSet /\ left \in 0..MaxChanges

LEMMA TypesInParts == EventTypeOK <=> ListTypes /\ KeyTypes /\ TurnTypes
BY DEF EventTypeOK, ListTypes, KeyTypes, TurnTypes, ContextSet, Nodes

LEMMA TypesInPartsPrimed == EventTypeOK' <=> ListTypes' /\ KeyTypes' /\ TurnTypes'
BY DEF EventTypeOK, ListTypes, KeyTypes, TurnTypes, ContextSet, Nodes

LEMMA ClosedContext ==
    ASSUME NEW c \in ContextSet
    PROVE  Closed(c) \in ContextSet /\ (Closed(c).state = "destroyed" <=> c.state = "destroyed")
BY DEF Closed, ContextSet

\* Every step keeps the turn, and the context is destroyed at its end.
LEMMA StepKeepsTurn ==
    ASSUME TurnTypes, DestroyedLast, KeyTypes, [EventNext]_eventVars
    PROVE  TurnTypes' /\ DestroyedLast'
<1>c. context \in ContextSet
  BY DEF TurnTypes
<1>1. CASE UNCHANGED <<stage, context, left>>
  BY <1>1 DEF TurnTypes, DestroyedLast
<1>2. CASE HandlerRegisters
  BY <1>2, EventDispatchAssumption DEF HandlerRegisters, TurnTypes, DestroyedLast
<1>3. CASE PostClose
  BY <1>c, <1>3, ClosedContext DEF PostClose, world, TurnTypes, DestroyedLast
<1>4. CASE Wake \/ SynthesizeInitialize \/ SynthesizeTick \/ SynthesizePoll
  BY <1>4 DEF Wake, SynthesizeInitialize, SynthesizeTick, SynthesizePoll, InStage, Turn,
              world, TurnTypes, DestroyedLast, Stages, ContextSet
<1>5. CASE SynthesizeIdle \/ SynthesizePaint \/ EndOfTurn \/ SynthesizeDestroy
  BY <1>5 DEF SynthesizeIdle, SynthesizePaint, EndOfTurn, SynthesizeDestroy, InStage, Turn,
              world, TurnTypes, DestroyedLast, Stages, ContextSet
<1>6. CASE ProcessInput
  <2>1. UNCHANGED <<stage, left>> /\ stage = "input"
    BY <1>6 DEF ProcessInput, InStage, Turn, world
  <2>2. UNCHANGED context \/ context' = [context EXCEPT !.shutdown = TRUE]
    BY <1>6 DEF ProcessInput, Posts
  <2>. QED  BY <2>1, <2>2 DEF TurnTypes, DestroyedLast, ContextSet
<1>7. CASE InputProcessed
  <2>1. /\ stage = "input" /\ stage' = "poll" /\ left' = left
        /\ context' = [(IF context.shutdown THEN Closed(context) ELSE context)
                            EXCEPT !.shutdown = FALSE]
    BY <1>7 DEF InputProcessed, InStage, Turn, world
  <2>2. PICK c \in ContextSet :
            /\ c = IF context.shutdown THEN Closed(context) ELSE context
            /\ c.state = "destroyed" <=> context.state = "destroyed"
    BY <1>c, ClosedContext
  <2>3. context' \in ContextSet /\ context'.state = c.state
    BY <2>1, <2>2 DEF ContextSet
  <2>. QED  BY <2>1, <2>2, <2>3 DEF TurnTypes, DestroyedLast, Stages
<1>8. CASE CallNext \/ AllCalled \/ HandlerReturns \/ KeyGoesDown \/ KeyGoesUp
           \/ FocusChanges \/ WindowCloses \/ UNCHANGED eventVars
  BY <1>1, <1>8 DEF CallNext, AllCalled, HandlerReturns, KeyGoesDown, KeyGoesUp,
                    FocusChanges, WindowCloses, eventVars, world
<1>. QED
  BY <1>2, <1>3, <1>4, <1>5, <1>6, <1>7, <1>8 DEF EventNext

-----------------------------------------------------------------------------
(* The theorems.                                                           *)

LEMMA FirstEventInv ==
    ASSUME EventInit
    PROVE  EventInv
<1>1. KeyTypes
  <2>1. <<>> \in Seq(Inputs) /\ Len(<<>>) = 0
    OBVIOUS
  <2>. QED  BY <2>1, EventDispatchAssumption DEF EventInit, KeyTypes
<1>2. TurnTypes /\ DestroyedLast
  BY EventDispatchAssumption DEF EventInit, TurnTypes, DestroyedLast, Stages, ContextSet
<1>3. KeyInv
  BY DEF EventInit, KeyInv, ModifiersAgree, KeysFollow, Awaits
<1>. QED  BY <1>1, <1>2, <1>3, ListsAtFirst, TypesInParts DEF EventInv

LEMMA InvStep ==
    ASSUME EventInv, [EventNext]_eventVars
    PROVE  EventInv'
<1>1. ListTypes /\ KeyTypes /\ TurnTypes /\ ListInv /\ KeyInv /\ DestroyedLast
  BY TypesInParts DEF EventInv
<1>. QED
  BY <1>1, StepKeepsLists, StepKeepsKeys, StepKeepsTurn, TypesInPartsPrimed DEF EventInv

LEMMA InvHolds == EventSpec => []EventInv
<1>1. EventInit => EventInv
  BY FirstEventInv
<1>2. EventInv /\ [EventNext]_eventVars => EventInv'
  BY InvStep
<1>. QED  BY <1>1, <1>2, PTL DEF EventSpec

\* The queue of inputs never fills up; the handlers of every event stay sorted by
\* priority however they come and go in the middle of its dispatch; the modifiers are
\* those of the keys that are down, and with all input processed these are the
\* system's but for inputs that the queue dropped (IEvtQueueRegister,
\* IEvtQueueUnregister, IEvtQueueDispatch, OsQueuePut, ProcessInput).
THEOREM HandlersAndKeys == EventSpec => []EventsSound
<1>1. EventInv => EventsSound
  <2>1. ASSUME EventInv, inputs = <<>>
        PROVE  keysDown \ dropped = device.down \ dropped
    <3>1. \A k \in AllKeys : ~ Awaits(k)
      BY <2>1 DEF Awaits
    <3>2. keysDown \subseteq AllKeys /\ device.down \subseteq AllKeys
      BY <2>1 DEF EventInv, EventTypeOK
    <3>. QED  BY <2>1, <3>1, <3>2 DEF EventInv, KeyInv, KeysFollow
  <2>. QED  BY <2>1 DEF EventInv, EventsSound, ListInv, KeyInv, NoStuckKeys
<1>. QED  BY <1>1, InvHolds, PTL

\* No handler is called that this dispatch has called already.
LEMMA StepCallsNew ==
    ASSUME EventInv, [EventNext]_eventVars, handler = Marker, handler' # Marker
    PROVE  handler' \notin called
<1>1. ListTypes /\ ListInv
  BY TypesInParts DEF EventInv
<1>2. CallNext
  BY <1>1, ListSteps DEF ListInv, ListStays, Begins, Finishes, Returns, Joins, Quits
<1>. QED  BY <1>1, <1>2, CallKeepsLists

\* When a dispatch ends without a handler's word, it has called all of them.
LEMMA StepSkipsNone ==
    ASSUME EventInv, [EventNext]_eventVars, Dispatching, running' = "none"
    PROVE  steady \subseteq called
<1>1. ListTypes /\ ListInv
  BY TypesInParts DEF EventInv
<1>2. running # "none" /\ handler = Marker /\ running \in Ids
  BY <1>1 DEF Dispatching, ListTypes
<1>3. AllCalled
  BY <1>2 DEF EventNext, eventVars, CallNext, HandlerReturns, HandlerRegisters, PostClose,
       KeyGoesDown, KeyGoesUp, FocusChanges, WindowCloses, Wake, SynthesizeInitialize,
       SynthesizeTick, ProcessInput, InputProcessed, SynthesizePoll, SynthesizeIdle,
       SynthesizePaint, EndOfTurn, SynthesizeDestroy, InStage
<1>. DEFINE q == list[running]
<1>4. Good(q, running, running) /\ Kept(q, steady, called)
  BY <1>1, <1>2, ListsGood DEF ListInv
<1>5. PICK i : i = MarkedAt(q)
  OBVIOUS
<1>6. i \in 1..Len(q) /\ q[i] = Marker /\ i = Len(q)
  BY <1>3, <1>4, <1>5, MarkedIsMarker DEF Good, AllCalled
<1>7. ASSUME NEW h \in steady
      PROVE  h \in called
  <2>1. PICK j \in DOMAIN q : q[j] = h
    BY <1>4 DEF Kept, Members
  <2>2. h # Marker
    BY <1>1, Priorities DEF ListTypes
  <2>3. j < i
    BY <1>4, <1>6, <2>1, <2>2 DEF Good
  <2>4. i \in DOMAIN q
    BY <1>4, <1>6 DEF Good
  <2>. QED  BY <1>4, <1>6, <2>1, <2>3, <2>4 DEF Kept
<1>. QED  BY <1>7

\* The events of a turn are dispatched only while nobody asked for the end.
LEMMA StepIsQuiet ==
    ASSUME EventInv, [EventNext]_eventVars, running = "none", running' \in TurnEvents
    PROVE  context.state = "active"
<1>1. context \in ContextSet /\ (context.state = "destroyed" => stage = "exit")
  BY TypesInParts DEF EventInv, TurnTypes, DestroyedLast
<1>2. "none" \notin TurnEvents
  BY DEF TurnEvents
<1>3. ~ ProcessInput
  <2>. SUFFICES ASSUME ProcessInput
                PROVE  FALSE
    OBVIOUS
  <2>1. Posts(Head(inputs))
    BY DEF ProcessInput
  <2>. QED  BY <1>2, <2>1 DEF Posts, NoDispatch, Dispatch, KeyEvents, TurnEvents
<1>4. SynthesizeTick \/ SynthesizePoll \/ SynthesizeIdle \/ SynthesizePaint
  BY <1>2, <1>3 DEF EventNext, eventVars, CallNext, AllCalled, Dispatching, HandlerReturns,
       HandlerRegisters, PostClose, EndDispatch,
       KeyGoesDown, KeyGoesUp, FocusChanges, WindowCloses, Wake, SynthesizeInitialize,
       InputProcessed, EndOfTurn, SynthesizeDestroy, NoDispatch, Dispatch, TurnEvents
<1>5. context.state # "closed" /\ stage # "exit"
  BY <1>2, <1>4 DEF SynthesizeTick, SynthesizePoll, SynthesizeIdle, SynthesizePaint, InStage,
       Active, NoDispatch
<1>. QED  BY <1>1, <1>5 DEF ContextSet

\* However handlers register and unregister handlers of the list that is being
\* dispatched, each is called once, every one that was there before is called, and
\* after a handler or the window asked for the end no event of the turn is dispatched
\* (IEvtQueueDispatch, EventPostCloseEx, the Synthesize functions).
THEOREM HandlersCalledOnce == EventSpec => EachCalledOnce
<1>1. EventInv /\ [EventNext]_eventVars =>
        [handler = Marker /\ handler' # Marker => handler' \notin called]_eventVars
  BY StepCallsNew
<1>2. EventInv /\ [EventNext]_eventVars =>
        [Dispatching /\ running' = "none" => steady \subseteq called]_eventVars
  BY StepSkipsNone
<1>3. EventInv /\ [EventNext]_eventVars =>
        [running = "none" /\ running' \in TurnEvents => context.state = "active"]_eventVars
  BY StepIsQuiet
<1>4. EventSpec => CalledOnce
  BY <1>1, InvHolds, PTL DEF EventSpec, CalledOnce
<1>5. EventSpec => NoneSkipped
  BY <1>2, InvHolds, PTL DEF EventSpec, NoneSkipped
<1>6. EventSpec => QuietAfterClose
  BY <1>3, InvHolds, PTL DEF EventSpec, QuietAfterClose
<1>. QED  BY <1>4, <1>5, <1>6 DEF EachCalledOnce

-----------------------------------------------------------------------------
(* The inductive invariant of EditText. *)

TextBytes == Tokens \X (1..2)
LinkStart == <<"link", 1>>
LinkEnd == <<"unlink", 1>>

\* A text is made of whole tokens.
WholeTokens(b) ==
    /\ b \in Seq(TextBytes)
    /\ \A i \in 1..Len(b) :
        /\ b[i][2] = 1 /\ b[i][1] # "char" => i < Len(b) /\ b[i + 1] = <<b[i][1], 2>>
        /\ b[i][2] = 2 => i > 1 /\ b[i - 1] = <<b[i][1], 1>> /\ b[i][1] # "char"

\* A token or the end of the text is behind the first n bytes.
Border(b, n) == n \in 0..Len(b) /\ (n < Len(b) => b[n + 1][2] = 1)

\* A link is open behind the first n bytes.
LinkOpen(b, n) ==
    \E j \in 1..n : b[j] = LinkStart /\ \A k \in j..n : b[k] # LinkEnd

\* Each start of a link is followed by its end, and each end preceded by its start.
LinksPaired(b) ==
    /\ \A i \in 1..Len(b) :
        /\ b[i] = LinkStart => ~LinkOpen(b, i - 1)
        /\ b[i] = LinkEnd => LinkOpen(b, i - 1)
    /\ ~LinkOpen(b, Len(b))

\* No colour begins or ends inside a link.
ColoursOutside(b) ==
    \A i \in 1..Len(b) :
        b[i] \in {<<"color", 1>>, <<"restore", 1>>} => ~LinkOpen(b, i - 1)

\* Of each token m_textInfo tells the code and the length.
InfoRecords == [code : Tokens \cup {"none"}, length : 0..2, linked : BOOLEAN]
Marked(m, b) ==
    /\ m \in Seq(InfoRecords) /\ Len(m) = Len(b) + 1 /\ m[Len(b) + 1] = Zero
    /\ \A i \in 1..Len(b) :
        IF b[i][2] = 1 THEN m[i].code = b[i][1] /\ m[i].length = LengthOf(b[i][1])
        ELSE m[i] = Zero

\* The cursor is ahead of a token that is no end code, or at the end.
Standing(b, n) == Border(b, n) /\ (n < Len(b) => b[n + 1][1] \notin Ends)

HeadPlain(b) == b # <<>> => b[1][1] \notin Ends

\* While OnTextChanged runs, a change that is not reported is one it made.
ReportKept ==
    /\ ChangeReported
    /\ doing = "report" /\ unreported => ~byUser

\* The links in the texts of scripts are paired.
TokensPaired(t) ==
    /\ \A i \in DOMAIN t : t[i] = "link" =>
        \E k \in DOMAIN t : i < k /\ t[k] = "unlink"
            /\ \A j \in (i + 1)..(k - 1) : t[j] \notin {"link", "unlink"}
    /\ \A k \in DOMAIN t : t[k] = "unlink" =>
        \E i \in DOMAIN t : i < k /\ t[i] = "link"
            /\ \A j \in (i + 1)..(k - 1) : t[j] \notin {"link", "unlink"}
TextsPaired == \A t \in ScriptTexts : TokensPaired(t)

-----------------------------------------------------------------------------
(* Open links. *)

LEMMA OpenSplit ==
    ASSUME NEW b, NEW r \in Nat, NEW q \in Nat, r <= q
    PROVE  LinkOpen(b, q) <=>
              \/ \E j \in (r + 1)..q : b[j] = LinkStart /\ \A k \in j..q : b[k] # LinkEnd
              \/ LinkOpen(b, r) /\ \A k \in (r + 1)..q : b[k] # LinkEnd
<1>1. ASSUME LinkOpen(b, q)
      PROVE  \/ \E j \in (r + 1)..q : b[j] = LinkStart /\ \A k \in j..q : b[k] # LinkEnd
             \/ LinkOpen(b, r) /\ \A k \in (r + 1)..q : b[k] # LinkEnd
  <2>1. PICK j \in 1..q : b[j] = LinkStart /\ \A k \in j..q : b[k] # LinkEnd
    BY <1>1 DEF LinkOpen
  <2>2. CASE j > r
    BY <2>1, <2>2
  <2>3. CASE j <= r
    <3>1. j \in 1..r /\ \A k \in j..r : b[k] # LinkEnd
      BY <2>1, <2>3
    <3>2. \A k \in (r + 1)..q : b[k] # LinkEnd
      BY <2>1, <2>3
    <3>. QED  BY <2>1, <3>1, <3>2 DEF LinkOpen
  <2>. QED  BY <2>2, <2>3
<1>2. ASSUME NEW j \in (r + 1)..q, b[j] = LinkStart, \A k \in j..q : b[k] # LinkEnd
      PROVE  LinkOpen(b, q)
  BY <1>2 DEF LinkOpen
<1>3. ASSUME LinkOpen(b, r), \A k \in (r + 1)..q : b[k] # LinkEnd
      PROVE  LinkOpen(b, q)
  <2>1. PICK j \in 1..r : b[j] = LinkStart /\ \A k \in j..r : b[k] # LinkEnd
    BY <1>3 DEF LinkOpen
  <2>2. j \in 1..q /\ \A k \in j..q : b[k] # LinkEnd
    BY <1>3, <2>1
  <2>. QED  BY <2>1, <2>2 DEF LinkOpen
<1>. QED  BY <1>1, <1>2, <1>3

LEMMA OpenStep ==
    ASSUME NEW b, NEW n \in Nat
    PROVE  LinkOpen(b, n + 1) <=>
              b[n + 1] = LinkStart \/ (LinkOpen(b, n) /\ b[n + 1] # LinkEnd)
<1>1. LinkStart # LinkEnd
  BY DEF LinkStart, LinkEnd
<1>2. (n + 1)..(n + 1) = {n + 1} /\ n <= n + 1 /\ n + 1 \in Nat
  OBVIOUS
<1>3. LinkOpen(b, n + 1) <=>
          \/ \E j \in (n + 1)..(n + 1) :
                b[j] = LinkStart /\ \A k \in j..(n + 1) : b[k] # LinkEnd
          \/ LinkOpen(b, n) /\ \A k \in (n + 1)..(n + 1) : b[k] # LinkEnd
  BY <1>2, OpenSplit
<1>. QED  BY <1>1, <1>2, <1>3

LEMMA NothingOpen ==
    ASSUME NEW b
    PROVE  ~LinkOpen(b, 0)
BY DEF LinkOpen

\* A byte is in a link if one is open before it or it starts one.
LEMMA InLinkIfOpen ==
    ASSUME NEW b, NEW i \in Nat \ {0}
    PROVE  InLink(b, i) <=> LinkOpen(b, i - 1) \/ b[i] = LinkStart
<1>1. ASSUME InLink(b, i), b[i] # LinkStart
      PROVE  LinkOpen(b, i - 1)
  <2>1. PICK j \in 1..i : b[j] = LinkStart /\ \A k \in j..(i - 1) : b[k] # LinkEnd
    BY <1>1 DEF InLink, LinkStart, LinkEnd
  <2>2. j \in 1..(i - 1)
    BY <1>1, <2>1
  <2>. QED  BY <2>1, <2>2 DEF LinkOpen
<1>2. ASSUME LinkOpen(b, i - 1)
      PROVE  InLink(b, i)
  <2>1. PICK j \in 1..(i - 1) : b[j] = LinkStart /\ \A k \in j..(i - 1) : b[k] # LinkEnd
    BY <1>2 DEF LinkOpen
  <2>2. j \in 1..i
    OBVIOUS
  <2>. QED  BY <2>1, <2>2 DEF InLink, LinkStart, LinkEnd
<1>3. ASSUME b[i] = LinkStart
      PROVE  InLink(b, i)
  <2>1. i \in 1..i /\ i..(i - 1) = {}
    OBVIOUS
  <2>. QED  BY <1>3, <2>1 DEF InLink, LinkStart
<1>. QED  BY <1>1, <1>2, <1>3

LEMMA OpenSame ==
    ASSUME NEW b, NEW c, NEW l, NEW r, NEW m, Spliced(c, b, l, r, m), NEW n \in 0..l
    PROVE  LinkOpen(c, n) <=> LinkOpen(b, n)
<1>1. l \in Nat /\ \A i \in 1..n : c[i] = b[i]
  BY DEF Spliced
<1>. QED  BY <1>1 DEF LinkOpen

LEMMA OpenShift ==
    ASSUME NEW b, NEW c, NEW l, NEW r, NEW m, Spliced(c, b, l, r, m),
           LinkOpen(c, l + m) <=> LinkOpen(b, r), NEW n \in r..Len(b)
    PROVE  LinkOpen(c, n - r + l + m) <=> LinkOpen(b, n)
<1>. DEFINE e == n - r + l + m
            To(i) == i - r + l + m
            From(i) == i + r - l - m
<1>1. /\ l \in Nat /\ r \in Nat /\ m \in Nat /\ Len(b) \in Nat
      /\ \A i \in (r + 1)..Len(b) : c[i - r + l + m] = b[i]
  BY DEF Spliced
<1>2. e \in Nat /\ n \in Nat /\ l + m \in Nat /\ l + m <= e /\ r <= n
  BY <1>1
<1>3. \A i \in (r + 1)..n : To(i) \in (l + m + 1)..e /\ From(To(i)) = i /\ c[To(i)] = b[i]
  BY <1>1
<1>4. \A i \in (l + m + 1)..e : From(i) \in (r + 1)..n /\ To(From(i)) = i /\ c[i] = b[From(i)]
  <2>1. ASSUME NEW i \in (l + m + 1)..e
        PROVE  From(i) \in (r + 1)..n /\ To(From(i)) = i
    BY <1>1
  <2>. QED  BY <1>3, <2>1
<1>5. (\A k \in (l + m + 1)..e : c[k] # LinkEnd) <=> (\A k \in (r + 1)..n : b[k] # LinkEnd)
  BY <1>3, <1>4
<1>6. ASSUME NEW j \in (l + m + 1)..e, c[j] = LinkStart, \A k \in j..e : c[k] # LinkEnd
      PROVE  \E i \in (r + 1)..n : b[i] = LinkStart /\ \A k \in i..n : b[k] # LinkEnd
  <2>1. From(j) \in (r + 1)..n /\ b[From(j)] = LinkStart
    BY <1>4, <1>6
  <2>2. ASSUME NEW k \in From(j)..n
        PROVE  b[k] # LinkEnd
    <3>1. k \in (r + 1)..n /\ To(k) \in j..e
      BY <1>1, <1>2, <2>1
    <3>. QED  BY <1>3, <1>6, <3>1
  <2>. QED  BY <2>1, <2>2
<1>7. ASSUME NEW i \in (r + 1)..n, b[i] = LinkStart, \A k \in i..n : b[k] # LinkEnd
      PROVE  \E j \in (l + m + 1)..e : c[j] = LinkStart /\ \A k \in j..e : c[k] # LinkEnd
  <2>1. To(i) \in (l + m + 1)..e /\ c[To(i)] = LinkStart
    BY <1>3, <1>7
  <2>2. ASSUME NEW k \in To(i)..e
        PROVE  c[k] # LinkEnd
    <3>1. k \in (l + m + 1)..e /\ From(k) \in i..n
      BY <1>1, <1>2, <2>1
    <3>. QED  BY <1>4, <1>7, <3>1
  <2>. QED  BY <2>1, <2>2
<1>8. LinkOpen(c, e) <=>
        \/ \E j \in (l + m + 1)..e : c[j] = LinkStart /\ \A k \in j..e : c[k] # LinkEnd
        \/ LinkOpen(c, l + m) /\ \A k \in (l + m + 1)..e : c[k] # LinkEnd
  <2>. HIDE DEF e
  <2>. QED  BY <1>2, OpenSplit
<1>9. LinkOpen(b, n) <=>
        \/ \E i \in (r + 1)..n : b[i] = LinkStart /\ \A k \in i..n : b[k] # LinkEnd
        \/ LinkOpen(b, r) /\ \A k \in (r + 1)..n : b[k] # LinkEnd
  BY <1>1, <1>2, OpenSplit
<1>. HIDE DEF e
<1>10. LinkOpen(c, e) <=> LinkOpen(b, n)
  BY <1>5, <1>6, <1>7, <1>8, <1>9
<1>. QED  BY <1>10 DEF e

\* Where there is no code of a link, what is open stays open.
LEMMA OpenOver ==
    ASSUME NEW b, NEW l \in Nat, NEW q \in Nat, l <= q,
           \A k \in (l + 1)..q : b[k] \notin {LinkStart, LinkEnd}
    PROVE  LinkOpen(b, q) <=> LinkOpen(b, l)
BY OpenSplit

-----------------------------------------------------------------------------
(* What holds of a text still holds when a part of it is replaced. *)

LEMMA SplicedPlace ==
    ASSUME NEW b, NEW c, NEW l, NEW r, NEW m, Spliced(c, b, l, r, m),
           LinkOpen(c, l + m) <=> LinkOpen(b, r),
           NEW i \in 1..Len(c), ~ (l < i /\ i <= l + m)
    PROVE  \E x \in 1..Len(b) :
              /\ c[i] = b[x] /\ (LinkOpen(c, i - 1) <=> LinkOpen(b, x - 1))
              /\ IF i <= l THEN x = i ELSE x = i + r - l - m
<1>1. /\ l \in Nat /\ r \in Nat /\ m \in Nat /\ Len(b) \in Nat /\ l <= r /\ r <= Len(b)
      /\ Len(c) = l + m + (Len(b) - r)
      /\ \A j \in 1..l : c[j] = b[j]
      /\ \A j \in (r + 1)..Len(b) : c[j - r + l + m] = b[j]
  BY DEF Spliced
<1>2. CASE i <= l
  <2>1. i \in 1..Len(b) /\ c[i] = b[i] /\ i - 1 \in 0..l
    BY <1>1, <1>2
  <2>2. LinkOpen(c, i - 1) <=> LinkOpen(b, i - 1)
    BY <2>1, OpenSame
  <2>. QED  BY <1>2, <2>1, <2>2
<1>3. CASE i > l
  <2>. DEFINE x == i + r - l - m
  <2>1. /\ x \in 1..Len(b) /\ x \in (r + 1)..Len(b) /\ x - r + l + m = i
        /\ x - 1 \in r..Len(b) /\ (x - 1) - r + l + m = i - 1 /\ ~ i <= l
    BY <1>1, <1>3
  <2>2. c[i] = b[x]
    BY <1>1, <2>1
  <2>3. LinkOpen(c, (x - 1) - r + l + m) <=> LinkOpen(b, x - 1)
    <3>. HIDE DEF x
    <3>. QED  BY <2>1, OpenShift
  <2>4. LinkOpen(c, i - 1) <=> LinkOpen(b, x - 1)
    BY <2>1, <2>3
  <2>5. x = i + r - l - m
    OBVIOUS
  <2>. HIDE DEF x
  <2>. QED  BY <2>1, <2>2, <2>4, <2>5
<1>. QED  BY <1>1, <1>2, <1>3

LEMMA LinksKept ==
    ASSUME NEW b, NEW c, NEW l, NEW r, NEW m, Spliced(c, b, l, r, m),
           LinkOpen(c, l + m) <=> LinkOpen(b, r), LinksPaired(b),
           \A k \in (l + 1)..(l + m) : c[k] \notin {LinkStart, LinkEnd}
    PROVE  LinksPaired(c)
<1>1. /\ l \in Nat /\ r \in Nat /\ m \in Nat /\ Len(b) \in Nat /\ l <= r /\ r <= Len(b)
      /\ Len(c) = l + m + (Len(b) - r)
  BY DEF Spliced
<1>2. ASSUME NEW i \in 1..Len(c)
      PROVE  /\ c[i] = LinkStart => ~LinkOpen(c, i - 1)
             /\ c[i] = LinkEnd => LinkOpen(c, i - 1)
  <2>1. CASE l < i /\ i <= l + m
    BY <1>1, <2>1
  <2>2. CASE ~ (l < i /\ i <= l + m)
    <3>1. PICK x \in 1..Len(b) :
                c[i] = b[x] /\ (LinkOpen(c, i - 1) <=> LinkOpen(b, x - 1))
      BY <2>2, SplicedPlace
    <3>. QED  BY <3>1 DEF LinksPaired
  <2>. QED  BY <2>1, <2>2
<1>3. ~LinkOpen(c, Len(c))
  <2>1. Len(b) \in r..Len(b) /\ Len(b) - r + l + m = Len(c)
    BY <1>1
  <2>2. LinkOpen(c, Len(b) - r + l + m) <=> LinkOpen(b, Len(b))
    BY <2>1, OpenShift
  <2>. QED  BY <2>1, <2>2 DEF LinksPaired
<1>. QED  BY <1>2, <1>3 DEF LinksPaired

LEMMA ColoursKept ==
    ASSUME NEW b, NEW c, NEW l, NEW r, NEW m, Spliced(c, b, l, r, m),
           LinkOpen(c, l + m) <=> LinkOpen(b, r), ColoursOutside(b),
           \A k \in (l + 1)..(l + m) : c[k] \notin {<<"color", 1>>, <<"restore", 1>>}
    PROVE  ColoursOutside(c)
<1>1. l \in Nat /\ m \in Nat
  BY DEF Spliced
<1>2. ASSUME NEW i \in 1..Len(c), c[i] \in {<<"color", 1>>, <<"restore", 1>>}
      PROVE  ~LinkOpen(c, i - 1)
  <2>1. CASE l < i /\ i <= l + m
    BY <1>1, <1>2, <2>1
  <2>2. CASE ~ (l < i /\ i <= l + m)
    <3>1. PICK x \in 1..Len(b) :
                c[i] = b[x] /\ (LinkOpen(c, i - 1) <=> LinkOpen(b, x - 1))
      BY <2>2, SplicedPlace
    <3>. QED  BY <1>2, <3>1 DEF ColoursOutside
  <2>. QED  BY <2>1, <2>2
<1>. QED  BY <1>2 DEF ColoursOutside

\* The bytes l + 1 to q are whole tokens.
WholeWithin(c, l, q) ==
    \A i \in (l + 1)..q :
        /\ c[i][2] = 1 /\ c[i][1] # "char" => i < q /\ c[i + 1] = <<c[i][1], 2>>
        /\ c[i][2] = 2 => i > l + 1 /\ c[i - 1] = <<c[i][1], 1>> /\ c[i][1] # "char"

LEMMA WholeKept ==
    ASSUME NEW b, NEW c, NEW l, NEW r, NEW m, Spliced(c, b, l, r, m),
           WholeTokens(b), Border(b, l), Border(b, r), c \in Seq(TextBytes),
           WholeWithin(c, l, l + m)
    PROVE  WholeTokens(c)
<1>0. /\ l \in Nat /\ r \in Nat /\ m \in Nat /\ Len(b) \in Nat /\ l <= r /\ r <= Len(b)
      /\ Len(c) = l + m + (Len(b) - r)
  BY DEF Spliced
<1>1. /\ l \in Nat /\ r \in Nat /\ m \in Nat /\ Len(b) \in Nat /\ l <= r /\ r <= Len(b)
      /\ Len(c) = l + m + (Len(b) - r)
      /\ \A i \in 1..l : c[i] = b[i]
      /\ \A i \in (r + 1)..Len(b) : c[i - r + l + m] = b[i]
  BY DEF Spliced
<1>2. ASSUME NEW i \in 1..Len(c)
      PROVE  /\ c[i][2] = 1 /\ c[i][1] # "char" =>
                    i < Len(c) /\ c[i + 1] = <<c[i][1], 2>>
             /\ c[i][2] = 2 =>
                    i > 1 /\ c[i - 1] = <<c[i][1], 1>> /\ c[i][1] # "char"
  <2>1. CASE i <= l
    <3>1. i \in 1..Len(b) /\ c[i] = b[i] /\ i \in 1..l
      BY <1>1, <2>1
    <3>2. ASSUME c[i][2] = 1, c[i][1] # "char"
          PROVE  i < Len(c) /\ c[i + 1] = <<c[i][1], 2>>
      <4>1. i < Len(b) /\ b[i + 1] = <<b[i][1], 2>>
        BY <3>1, <3>2 DEF WholeTokens
      <4>2. b[i + 1][2] = 2
        BY <4>1
      <4>3. i # l
        BY <4>1, <4>2 DEF Border
      <4>4. i + 1 \in 1..l /\ i < Len(c)
        BY <1>1, <3>1, <4>3
      <4>. QED  BY <1>1, <3>1, <4>1, <4>4
    <3>3. ASSUME c[i][2] = 2
          PROVE  i > 1 /\ c[i - 1] = <<c[i][1], 1>> /\ c[i][1] # "char"
      <4>1. i > 1 /\ b[i - 1] = <<b[i][1], 1>> /\ b[i][1] # "char"
        BY <3>1, <3>3 DEF WholeTokens
      <4>2. i - 1 \in 1..l
        BY <1>1, <3>1, <4>1
      <4>. QED  BY <1>1, <3>1, <4>1, <4>2
    <3>. QED  BY <3>2, <3>3
  <2>2. CASE l < i /\ i <= l + m
    <3>1. i \in (l + 1)..(l + m)
      BY <1>0, <2>2
    <3>2. l + m <= Len(c) /\ l + m \in Nat /\ Len(c) \in Nat /\ l + 1 >= 1
      BY <1>0
    <3>3. /\ c[i][2] = 1 /\ c[i][1] # "char" => i < l + m /\ c[i + 1] = <<c[i][1], 2>>
          /\ c[i][2] = 2 => i > l + 1 /\ c[i - 1] = <<c[i][1], 1>> /\ c[i][1] # "char"
      BY <3>1 DEF WholeWithin
    <3>4. (i < l + m => i < Len(c)) /\ (i > l + 1 => i > 1)
      BY <1>0, <3>2
    <3>. QED  BY <3>3, <3>4
  <2>3. CASE i > l + m
    <3>. DEFINE x == i + r - l - m
    <3>1. /\ x \in (r + 1)..Len(b) /\ x \in 1..Len(b) /\ x - r + l + m = i
          /\ i = x - r + l + m
      BY <1>1, <2>3
    <3>2. c[i] = b[x]
      BY <1>1, <3>1
    <3>. HIDE DEF x
    <3>3. ASSUME c[i][2] = 1, c[i][1] # "char"
          PROVE  i < Len(c) /\ c[i + 1] = <<c[i][1], 2>>
      <4>1. x < Len(b) /\ b[x + 1] = <<b[x][1], 2>>
        BY <3>1, <3>2, <3>3 DEF WholeTokens
      <4>2. /\ x + 1 \in (r + 1)..Len(b) /\ (x + 1) - r + l + m = i + 1
            /\ i < Len(c)
        <5>1. x < Len(b) /\ x \in Int /\ x >= r + 1 /\ i = x - r + l + m
          BY <3>1, <4>1
        <5>2. i < Len(c)
          BY <1>0, <5>1
        <5>3. x + 1 \in (r + 1)..Len(b) /\ (x + 1) - r + l + m = i + 1
          BY <1>0, <5>1
        <5>. QED  BY <5>2, <5>3
      <4>3. c[i + 1] = b[x + 1]
        <5>1. c[(x + 1) - r + l + m] = b[x + 1]
          BY <1>1, <4>2
        <5>. QED  BY <4>2, <5>1
      <4>. QED  BY <3>2, <4>1, <4>2, <4>3
    <3>4. ASSUME c[i][2] = 2
          PROVE  i > 1 /\ c[i - 1] = <<c[i][1], 1>> /\ c[i][1] # "char"
      <4>1. x > 1 /\ b[x - 1] = <<b[x][1], 1>> /\ b[x][1] # "char"
        BY <3>1, <3>2, <3>4 DEF WholeTokens
      <4>2. x # r + 1
        <5>1. b[x][2] # 1
          BY <3>2, <3>4
        <5>2. r < Len(b)
          BY <1>0, <3>1
        <5>. QED  BY <5>1, <5>2 DEF Border
      <4>3. /\ x - 1 \in (r + 1)..Len(b) /\ (x - 1) - r + l + m = i - 1
            /\ i > 1
        BY <1>0, <3>1, <4>2
      <4>4. c[i - 1] = b[x - 1]
        BY <1>1, <4>3
      <4>. QED  BY <3>2, <4>1, <4>3, <4>4
    <3>. QED  BY <3>3, <3>4
  <2>4. i <= l \/ (l < i /\ i <= l + m) \/ i > l + m
    BY <1>0
  <2>. QED  BY <2>1, <2>2, <2>3, <2>4
<1>. QED  BY <1>2 DEF WholeTokens

LEMMA TokenBytes ==
    ASSUME NEW token \in Tokens
    PROVE  /\ BytesOf(token) \in Seq(TextBytes) /\ Len(BytesOf(token)) = LengthOf(token)
           /\ LengthOf(token) \in 1..2 /\ (token = "char" <=> LengthOf(token) = 1)
           /\ \A k \in 1..LengthOf(token) : BytesOf(token)[k] = <<token, k>>
<1>1. /\ LengthOf(token) \in 1..2 /\ (token = "char" <=> LengthOf(token) = 1)
  BY DEF LengthOf
<1>2. PICK n : n = LengthOf(token)
  OBVIOUS
<1>3. BytesOf(token) = [k \in 1..n |-> <<token, k>>]
  BY <1>2 DEF BytesOf
<1>4. n \in Nat /\ \A k \in 1..n : <<token, k>> \in TextBytes
  BY <1>1, <1>2 DEF TextBytes
<1>5. BytesOf(token) \in Seq(TextBytes) /\ Len(BytesOf(token)) = n
  BY <1>3, <1>4, IsASeq, LenProperties
<1>. QED  BY <1>1, <1>2, <1>3, <1>5

\* The bytes of a token behind the first o bytes of a text are whole.
LEMMA TokenInside ==
    ASSUME NEW token \in Tokens, NEW o \in Nat, NEW m, m = LengthOf(token), NEW c,
           \A k \in 1..m : c[o + k] = <<token, k>>
    PROVE  /\ WholeWithin(c, o, o + m)
           /\ \A i \in (o + 1)..(o + m) : \E k \in 1..m : c[i] = <<token, k>>
<1>1. m \in 1..2 /\ (token = "char" <=> m = 1)
  BY TokenBytes
<1>2. ASSUME NEW i \in (o + 1)..(o + m)
      PROVE  \E k \in 1..m : i = o + k /\ c[i] = <<token, k>>
  <2>1. PICK k : k = i - o
    OBVIOUS
  <2>2. k \in 1..m /\ i = o + k
    BY <1>1, <2>1
  <2>. QED  BY <2>2
<1>3. ASSUME NEW i \in (o + 1)..(o + m)
      PROVE  /\ c[i][2] = 1 /\ c[i][1] # "char" => i < o + m /\ c[i + 1] = <<c[i][1], 2>>
             /\ c[i][2] = 2 => i > o + 1 /\ c[i - 1] = <<c[i][1], 1>> /\ c[i][1] # "char"
  <2>1. PICK k \in 1..m : i = o + k /\ c[i] = <<token, k>>
    BY <1>2
  <2>2. c[i][1] = token /\ c[i][2] = k
    BY <2>1
  <2>3. ASSUME k = 1, token # "char"
        PROVE  i < o + m /\ c[i + 1] = <<token, 2>>
    <3>1. m = 2 /\ 2 \in 1..m /\ i + 1 = o + 2
      BY <1>1, <2>1, <2>3
    <3>2. i < o + m
      BY <2>1, <2>3, <3>1
    <3>. QED  BY <3>1, <3>2
  <2>4. ASSUME k = 2
        PROVE  i > o + 1 /\ c[i - 1] = <<token, 1>> /\ token # "char"
    <3>1. m = 2 /\ 1 \in 1..m /\ i - 1 = o + 1
      BY <1>1, <2>1, <2>4
    <3>2. i > o + 1
      BY <2>1, <2>4
    <3>. QED  BY <1>1, <3>1, <3>2
  <2>. QED  BY <2>2, <2>3, <2>4
<1>. QED  BY <1>2, <1>3 DEF WholeWithin

LEMMA StandingKept ==
    ASSUME NEW b, NEW c, NEW l, NEW r, NEW m, Spliced(c, b, l, r, m), Standing(b, r)
    PROVE  Standing(c, l + m)
<1>1. /\ l \in Nat /\ r \in Nat /\ m \in Nat /\ Len(b) \in Nat /\ l <= r /\ r <= Len(b)
      /\ Len(c) = l + m + (Len(b) - r)
      /\ \A i \in (r + 1)..Len(b) : c[i - r + l + m] = b[i]
  BY DEF Spliced
<1>2. l + m \in 0..Len(c)
  BY <1>1
<1>3. ASSUME l + m < Len(c)
      PROVE  c[l + m + 1][2] = 1 /\ c[l + m + 1][1] \notin Ends
  <2>1. r < Len(b) /\ r + 1 \in (r + 1)..Len(b) /\ (r + 1) - r + l + m = l + m + 1
    BY <1>1, <1>3
  <2>2. c[l + m + 1] = b[r + 1]
    BY <1>1, <2>1
  <2>. QED  BY <2>1, <2>2 DEF Standing, Border
<1>. QED  BY <1>2, <1>3 DEF Standing, Border

LEMMA HeadKept ==
    ASSUME NEW b \in Seq(TextBytes), NEW c \in Seq(TextBytes), NEW l, NEW r, NEW m,
           Spliced(c, b, l, r, m), Standing(b, r), HeadPlain(b),
           m > 0 => c[l + 1][1] \notin Ends
    PROVE  HeadPlain(c)
<1>1. /\ l \in Nat /\ r \in Nat /\ m \in Nat /\ Len(b) \in Nat /\ l <= r /\ r <= Len(b)
      /\ Len(c) = l + m + (Len(b) - r)
      /\ \A i \in 1..l : c[i] = b[i]
      /\ \A i \in (r + 1)..Len(b) : c[i - r + l + m] = b[i]
  BY DEF Spliced
<1>2. ASSUME c # <<>>
      PROVE  c[1][1] \notin Ends
  <2>1. Len(c) > 0
    BY <1>2, EmptySeq
  <2>2. CASE l > 0
    <3>1. 1 \in 1..l /\ b # <<>>
      BY <1>1, <2>2, EmptySeq
    <3>. QED  BY <1>1, <3>1 DEF HeadPlain
  <2>3. CASE l = 0 /\ m > 0
    BY <2>3
  <2>4. CASE l = 0 /\ m = 0
    <3>1. r < Len(b) /\ r + 1 \in (r + 1)..Len(b) /\ (r + 1) - r + l + m = 1
      BY <1>1, <2>1, <2>4
    <3>2. c[1] = b[r + 1]
      BY <1>1, <3>1
    <3>. QED  BY <3>1, <3>2 DEF Standing
  <2>. QED  BY <1>1, <2>2, <2>3, <2>4
<1>. QED  BY <1>2 DEF HeadPlain

-----------------------------------------------------------------------------
(* m_textInfo of a text, and of one of which a part is cut out. *)

LEMMA ParseType ==
    ASSUME NEW b \in Seq(TextBytes)
    PROVE  /\ Parse(b) \in Seq(InfoRecords) /\ Len(Parse(b)) = Len(b) + 1
           /\ Parse(b)[Len(b) + 1] = Zero
           /\ \A i \in 1..Len(b) :
                IF b[i][2] = 1
                THEN /\ Parse(b)[i].code = b[i][1]
                     /\ Parse(b)[i].length = LengthOf(b[i][1])
                     /\ Parse(b)[i].linked <=> InLink(b, i)
                ELSE Parse(b)[i] = Zero
<1>1. Len(b) \in Nat /\ \A i \in 1..Len(b) : b[i] \in TextBytes
  BY LenProperties
<1>. DEFINE At1(i) ==
                IF i > Len(b) \/ b[i][2] # 1 THEN Zero
                ELSE [code |-> b[i][1], length |-> LengthOf(b[i][1]),
                      linked |-> InLink(b, i)]
<1>2. Parse(b) = [i \in 1..(Len(b) + 1) |-> At1(i)]
  BY DEF Parse
<1>3. Zero \in InfoRecords
  BY DEF Zero, InfoRecords
<1>4. ASSUME NEW i \in 1..(Len(b) + 1)
      PROVE  At1(i) \in InfoRecords
  <2>1. CASE i > Len(b) \/ b[i][2] # 1
    BY <1>3, <2>1
  <2>2. CASE ~ (i > Len(b) \/ b[i][2] # 1)
    <3>1. b[i][1] \in Tokens
      BY <1>1, <2>2 DEF TextBytes
    <3>2. LengthOf(b[i][1]) \in 0..2
      BY DEF LengthOf
    <3>3. InLink(b, i) \in BOOLEAN
      BY DEF InLink
    <3>. HIDE DEF LengthOf
    <3>. QED  BY <2>2, <3>1, <3>2, <3>3 DEF InfoRecords
  <2>. QED  BY <2>1, <2>2
<1>5. Len(b) + 1 \in Nat
  BY <1>1
<1>6. [i \in 1..(Len(b) + 1) |-> At1(i)] \in Seq(InfoRecords)
  <2>. HIDE DEF At1
  <2>. QED  BY <1>4, <1>5
<1>7. Len(Parse(b)) = Len(b) + 1
  <2>. HIDE DEF At1
  <2>. QED  BY <1>2, <1>5
<1>8. Parse(b)[Len(b) + 1] = Zero
  BY <1>1, <1>2
<1>9. ASSUME NEW i \in 1..Len(b)
      PROVE  IF b[i][2] = 1
             THEN /\ Parse(b)[i].code = b[i][1]
                  /\ Parse(b)[i].length = LengthOf(b[i][1])
                  /\ Parse(b)[i].linked <=> InLink(b, i)
             ELSE Parse(b)[i] = Zero
  <2>1. i \in 1..(Len(b) + 1) /\ ~ i > Len(b)
    BY <1>1
  <2>2. Parse(b)[i] = At1(i)
    BY <1>2, <2>1
  <2>3. CASE b[i][2] = 1
    <3>1. Parse(b)[i] = [code |-> b[i][1], length |-> LengthOf(b[i][1]),
                         linked |-> InLink(b, i)]
      BY <2>1, <2>2, <2>3
    <3>. HIDE DEF At1
    <3>. QED  BY <2>3, <3>1
  <2>4. CASE b[i][2] # 1
    BY <2>1, <2>2, <2>4
  <2>. QED  BY <2>3, <2>4
<1>. QED  BY <1>2, <1>6, <1>7, <1>8, <1>9

LEMMA ParseMarks ==
    ASSUME NEW b \in Seq(TextBytes)
    PROVE  Marked(Parse(b), b)
BY ParseType DEF Marked

LEMMA SameInfo ==
    ASSUME NEW p \in InfoRecords, NEW q \in InfoRecords,
           p.code = q.code, p.length = q.length, p.linked <=> q.linked
    PROVE  p = q
<1>1. p.linked = q.linked
  BY DEF InfoRecords
<1>. QED  BY <1>1 DEF InfoRecords

\* Shifting m_textInfo gives what parsing would if a link is open on both sides of
\* what was cut out, or on none.
LEMMA ParseShift ==
    ASSUME NEW b \in Seq(TextBytes), NEW c \in Seq(TextBytes), NEW l, NEW r,
           Spliced(c, b, l, r, 0), LinkOpen(c, l) <=> LinkOpen(b, r), NEW d,
           d = SubSeq(Parse(b), 1, l) \o SubSeq(Parse(b), r + 1, Len(b) + 1)
    PROVE  d = Parse(c)
<1>. DEFINE p == Parse(b)
            q == Parse(c)
<1>0. /\ l \in Nat /\ r \in Nat /\ Len(b) \in Nat /\ l <= r /\ r <= Len(b)
      /\ Len(c) = l + (Len(b) - r)
  BY DEF Spliced
<1>1. /\ l \in Nat /\ r \in Nat /\ Len(b) \in Nat /\ l <= r /\ r <= Len(b)
      /\ Len(c) = l + (Len(b) - r) /\ Len(c) \in Nat
      /\ l + 0 = l
  BY DEF Spliced
<1>2. /\ p \in Seq(InfoRecords) /\ Len(p) = Len(b) + 1 /\ p[Len(b) + 1] = Zero
      /\ \A i \in 1..Len(b) :
            IF b[i][2] = 1
            THEN p[i].code = b[i][1] /\ p[i].length = LengthOf(b[i][1])
                 /\ (p[i].linked <=> InLink(b, i))
            ELSE p[i] = Zero
  BY ParseType
<1>3. /\ q \in Seq(InfoRecords) /\ Len(q) = Len(c) + 1 /\ q[Len(c) + 1] = Zero
      /\ \A i \in 1..Len(c) :
            IF c[i][2] = 1
            THEN q[i].code = c[i][1] /\ q[i].length = LengthOf(c[i][1])
                 /\ (q[i].linked <=> InLink(c, i))
            ELSE q[i] = Zero
  BY ParseType
<1>. HIDE DEF p, q
<1>4. l \in 0..Len(p) /\ r \in l..Len(p) /\ d = SubSeq(p, 1, l) \o SubSeq(p, r + 1, Len(p))
  BY <1>1, <1>2 DEF p
<1>5. d \in Seq(InfoRecords) /\ Spliced(d, p, l, r, 0)
  BY <1>2, <1>4, CutIsSpliced
<1>6. /\ Len(d) = Len(q) /\ Len(d) = Len(c) + 1
      /\ \A i \in 1..l : d[i] = p[i]
      /\ \A i \in (r + 1)..(Len(b) + 1) : d[i - r + l + 0] = p[i]
  <2>1. /\ Len(d) = l + 0 + (Len(p) - r)
        /\ \A i \in 1..l : d[i] = p[i]
        /\ \A i \in (r + 1)..Len(p) : d[i - r + l + 0] = p[i]
    BY <1>5 DEF Spliced
  <2>2. l + 0 + ((Len(b) + 1) - r) = Len(c) + 1
    BY <1>0
  <2>3. Len(p) = Len(b) + 1 /\ Len(q) = Len(c) + 1
    BY <1>2, <1>3
  <2>. QED  BY <2>1, <2>2, <2>3
<1>7. ASSUME NEW i \in 1..Len(d)
      PROVE  d[i] = q[i]
  <2>1. CASE i \in 1..Len(c)
    <3>1. LinkOpen(c, l + 0) <=> LinkOpen(b, r)
      BY <1>1
    <3>2. ~ (l < i /\ i <= l + 0)
      BY <1>1, <2>1
    <3>3. PICK x \in 1..Len(b) :
              /\ c[i] = b[x] /\ (LinkOpen(c, i - 1) <=> LinkOpen(b, x - 1))
              /\ IF i <= l THEN x = i ELSE x = i + r - l - 0
      BY <2>1, <3>1, <3>2, SplicedPlace
    <3>4. d[i] = p[x]
      <4>1. CASE i <= l
        <5>1. i \in 1..l /\ x = i
          BY <2>1, <3>3, <4>1
        <5>. QED  BY <1>6, <5>1
      <4>2. CASE ~ i <= l
        <5>1. x \in (r + 1)..(Len(b) + 1) /\ x - r + l + 0 = i
          BY <1>1, <2>1, <3>3, <4>2
        <5>. QED  BY <1>6, <5>1
      <4>. QED  BY <4>1, <4>2
    <3>5. InLink(c, i) <=> InLink(b, x)
      <4>1. i \in Nat \ {0} /\ x \in Nat \ {0}
        BY <2>1
      <4>2. InLink(c, i) <=> LinkOpen(c, i - 1) \/ c[i] = LinkStart
        BY <4>1, InLinkIfOpen
      <4>3. InLink(b, x) <=> LinkOpen(b, x - 1) \/ b[x] = LinkStart
        BY <4>1, InLinkIfOpen
      <4>. QED  BY <3>3, <4>2, <4>3
    <3>6. p[x] \in InfoRecords /\ q[i] \in InfoRecords
      <4>1. x \in 1..(Len(b) + 1) /\ i \in 1..(Len(c) + 1)
        BY <1>0, <2>1
      <4>2. x \in 1..Len(p) /\ i \in 1..Len(q)
        BY <1>2, <1>3, <4>1
      <4>. QED  BY <1>2, <1>3, <4>2, ElementOfSeq
    <3>7. CASE b[x][2] = 1
      <4>1. p[x].code = q[i].code /\ p[x].length = q[i].length
            /\ (p[x].linked <=> q[i].linked)
        BY <1>2, <1>3, <2>1, <3>3, <3>5, <3>7
      <4>. QED  BY <3>4, <3>6, <4>1, SameInfo
    <3>8. CASE b[x][2] # 1
      BY <1>2, <1>3, <2>1, <3>3, <3>4, <3>8
    <3>. QED  BY <3>7, <3>8
  <2>2. CASE i \notin 1..Len(c)
    <3>1. i = Len(c) + 1 /\ Len(b) + 1 \in (r + 1)..(Len(b) + 1)
          /\ (Len(b) + 1) - r + l + 0 = i
      <4>1. i \in 1..(Len(c) + 1)
        BY <1>6
      <4>2. Len(c) \in Nat
        BY <1>0
      <4>3. i = Len(c) + 1
        BY <2>2, <4>1, <4>2
      <4>. QED  BY <1>0, <4>3
    <3>2. d[i] = p[Len(b) + 1]
      BY <1>6, <3>1
    <3>. QED  BY <1>2, <1>3, <3>1, <3>2
  <2>. QED  BY <2>1, <2>2
<1>8. d = q
  BY <1>3, <1>5, <1>6, <1>7, SeqEqual
<1>. QED  BY <1>8 DEF q

LEMMA MarksShift ==
    ASSUME NEW b \in Seq(TextBytes), NEW c \in Seq(TextBytes), NEW l, NEW r,
           Spliced(c, b, l, r, 0), NEW p, Marked(p, b),
           NEW d \in Seq(InfoRecords), Spliced(d, p, l, r, 0)
    PROVE  Marked(d, c)
<1>1. /\ l \in Nat /\ r \in Nat /\ Len(b) \in Nat /\ l <= r /\ r <= Len(b)
      /\ Len(c) = l + (Len(b) - r) /\ Len(c) \in Nat
      /\ \A i \in 1..l : c[i] = b[i]
      /\ \A i \in (r + 1)..Len(b) : c[i - r + l + 0] = b[i]
  BY DEF Spliced
<1>2. /\ p \in Seq(InfoRecords) /\ Len(p) = Len(b) + 1 /\ p[Len(b) + 1] = Zero
      /\ \A i \in 1..Len(b) :
            IF b[i][2] = 1 THEN p[i].code = b[i][1] /\ p[i].length = LengthOf(b[i][1])
            ELSE p[i] = Zero
  BY DEF Marked
<1>5. /\ Len(d) = Len(c) + 1
      /\ \A i \in 1..l : d[i] = p[i]
      /\ \A i \in (r + 1)..(Len(b) + 1) : d[i - r + l + 0] = p[i]
  BY <1>1, <1>2 DEF Spliced
<1>6. d[Len(c) + 1] = Zero
  <2>1. /\ Len(b) + 1 \in (r + 1)..(Len(b) + 1)
        /\ (Len(b) + 1) - r + l + 0 = Len(c) + 1
    BY <1>1
  <2>. QED  BY <1>2, <1>5, <2>1
<1>7. ASSUME NEW i \in 1..Len(c)
      PROVE  IF c[i][2] = 1 THEN d[i].code = c[i][1] /\ d[i].length = LengthOf(c[i][1])
             ELSE d[i] = Zero
  <2>1. CASE i <= l
    <3>1. i \in 1..l /\ i \in 1..Len(b)
      BY <1>1, <2>1
    <3>. QED  BY <1>1, <1>2, <1>5, <3>1
  <2>2. CASE i > l
    <3>. DEFINE x == i + r - l
    <3>1. /\ x \in (r + 1)..Len(b) /\ x \in (r + 1)..(Len(b) + 1) /\ x \in 1..Len(b)
          /\ x - r + l + 0 = i
      BY <1>1, <2>2
    <3>. HIDE DEF x
    <3>2. c[i] = b[x] /\ d[i] = p[x]
      BY <1>1, <1>5, <3>1
    <3>. QED  BY <1>2, <3>1, <3>2
  <2>3. i <= l \/ i > l
    <3>1. l \in Nat
      BY <1>1
    <3>. QED  BY <3>1
  <2>. QED  BY <2>1, <2>2, <2>3
<1>. QED  BY <1>5, <1>6, <1>7 DEF Marked

-----------------------------------------------------------------------------
(* The tokens of a text and how the code walks over them. *)

\* The type of m_textInfo and what it tells of the text.
Tracked == WholeTokens(text) /\ Marked(info, text)

LEMMA TokensAre ==
    ASSUME Tracked
    PROVE  /\ Length \in Nat
           /\ \A o \in 0..Length : At(o) \in InfoRecords
           /\ \A o \in 0..(Length - 1) : text[o + 1] \in TextBytes
           /\ \A o : o \in TokenOffsets <=> o \in 0..(Length - 1) /\ text[o + 1][2] = 1
           /\ \A o \in TokenOffsets : /\ At(o).code = text[o + 1][1]
                                      /\ At(o).length = LengthOf(text[o + 1][1])
                                      /\ text[o + 1] = <<At(o).code, 1>>
           /\ At(Length) = Zero
           /\ \A o \in 0..Length : o \notin TokenOffsets => At(o) = Zero
<1>1. /\ text \in Seq(TextBytes) /\ info \in Seq(InfoRecords) /\ Len(info) = Length + 1
      /\ info[Length + 1] = Zero
      /\ \A i \in 1..Length :
            IF text[i][2] = 1
            THEN info[i].code = text[i][1] /\ info[i].length = LengthOf(text[i][1])
            ELSE info[i] = Zero
  BY DEF Tracked, WholeTokens, Marked, Length
<1>2. Length \in Nat
  BY <1>1, LenProperties DEF Length
<1>3. \A o \in 0..Length : At(o) \in InfoRecords
  <2>1. \A i \in 1..Len(info) : info[i] \in InfoRecords
    BY <1>1, ElementOfSeq
  <2>. QED  BY <1>1, <1>2, <2>1 DEF At
<1>4. \A o \in 0..(Length - 1) : text[o + 1] \in TextBytes
  <2>1. \A i \in 1..Len(text) : text[i] \in TextBytes
    BY <1>1, ElementOfSeq
  <2>. QED  BY <1>2, <2>1 DEF Length
<1>5. ASSUME NEW o \in 0..(Length - 1)
      PROVE  /\ At(o) # Zero <=> text[o + 1][2] = 1
             /\ text[o + 1][2] = 1 => /\ At(o).code = text[o + 1][1]
                                      /\ At(o).length = LengthOf(text[o + 1][1])
                                      /\ text[o + 1] = <<At(o).code, 1>>
  <2>1. o + 1 \in 1..Length /\ text[o + 1] \in TextBytes
    BY <1>2, <1>4
  <2>2. text[o + 1][1] \in Tokens /\ text[o + 1][1] # "none"
        /\ text[o + 1] = <<text[o + 1][1], text[o + 1][2]>>
    BY <2>1 DEF TextBytes, Tokens, Starts, Ends, Letters
  <2>3. CASE text[o + 1][2] = 1
    <3>1. At(o).code = text[o + 1][1] /\ At(o).length = LengthOf(text[o + 1][1])
      BY <1>1, <2>1, <2>3 DEF At
    <3>2. At(o) # Zero
      BY <2>2, <3>1 DEF Zero
    <3>. QED  BY <2>2, <2>3, <3>1, <3>2
  <2>4. CASE text[o + 1][2] # 1
    BY <1>1, <2>1, <2>4 DEF At
  <2>. QED  BY <2>3, <2>4
<1>6. \A o : o \in TokenOffsets <=> o \in 0..(Length - 1) /\ text[o + 1][2] = 1
  BY <1>5 DEF TokenOffsets
<1>7. At(Length) = Zero
  BY <1>1 DEF At
<1>8. \A o \in 0..Length : o \notin TokenOffsets => At(o) = Zero
  BY <1>2, <1>7 DEF TokenOffsets
<1>. QED  BY <1>2, <1>3, <1>4, <1>5, <1>6, <1>7, <1>8

LEMMA BorderIs ==
    ASSUME Tracked, NEW o
    PROVE  Border(text, o) <=> o \in TokenOffsets \cup {Length}
<1>1. Length \in Nat /\ \A p : p \in TokenOffsets <=> p \in 0..(Length - 1) /\ text[p + 1][2] = 1
  BY TokensAre
<1>2. Len(text) = Length
  BY DEF Length
<1>. QED  BY <1>1, <1>2 DEF Border

LEMMA LeastIs ==
    ASSUME NEW S \in SUBSET Nat, S # {}
    PROVE  LeastOf(S) \in S /\ \A p \in S : LeastOf(S) <= p
BY LeastNatural DEF LeastOf

LEMMA GreatestIs ==
    ASSUME NEW n \in Nat, NEW S \in SUBSET (0..n), S # {}
    PROVE  GreatestOf(S) \in S /\ \A p \in S : p <= GreatestOf(S)
<1>. DEFINE T == {x \in 0..n : n - x \in S}
<1>1. PICK s \in S : TRUE
  OBVIOUS
<1>2. n - s \in 0..n /\ n - (n - s) = s
  BY <1>1
<1>3. T \in SUBSET Nat /\ T # {}
  BY <1>1, <1>2
<1>4. PICK t \in T : \A m \in T : t <= m
  <2>. HIDE DEF T
  <2>. QED  BY <1>3, LeastNatural
<1>5. n - t \in S /\ t \in 0..n
  BY <1>4
<1>6. ASSUME NEW p \in S
      PROVE  n - t >= p
  <2>1. n - p \in 0..n /\ n - (n - p) = p /\ p \in 0..n
    BY <1>6
  <2>2. n - p \in T
    BY <2>1
  <2>3. t <= n - p
    BY <1>4, <2>2
  <2>. QED  BY <1>5, <2>1, <2>3
<1>7. \E o \in S : \A p \in S : o >= p
  BY <1>5, <1>6
<1>8. GreatestOf(S) \in S /\ \A p \in S : GreatestOf(S) >= p
  BY <1>7 DEF GreatestOf
<1>9. \A p \in S : p \in Nat
  OBVIOUS
<1>. QED  BY <1>8, <1>9

LEMMA BehindIs ==
    ASSUME Tracked, NEW o, Border(text, o), NEW codes, "none" \notin codes
    PROVE  /\ Behind(o, codes) \in o..Length /\ Border(text, Behind(o, codes))
           /\ At(Behind(o, codes)).code \notin codes
           /\ \A q \in TokenOffsets : o <= q /\ q < Behind(o, codes) => At(q).code \in codes
<1>. DEFINE S == {p \in {o, Length} \cup TokenOffsets : p >= o /\ At(p).code \notin codes}
<1>1. /\ Length \in Nat /\ At(Length) = Zero
      /\ \A p : p \in TokenOffsets <=> p \in 0..(Length - 1) /\ text[p + 1][2] = 1
  BY TokensAre
<1>2. o \in TokenOffsets \cup {Length}
  BY BorderIs
<1>3. Length \in S /\ S \subseteq Nat
  <2>1. o \in Nat /\ o <= Length
    BY <1>1, <1>2
  <2>2. At(Length).code = "none"
    BY <1>1 DEF Zero
  <2>3. Length \in S
    BY <1>1, <2>1, <2>2
  <2>. QED  BY <1>1, <2>1, <2>3
<1>4. Behind(o, codes) = LeastOf(S)
  BY DEF Behind
<1>5. LeastOf(S) \in S /\ \A p \in S : LeastOf(S) <= p
  <2>. HIDE DEF S
  <2>. QED  BY <1>3, LeastIs
<1>. DEFINE b == Behind(o, codes)
<1>6. b \in S /\ b <= Length
  BY <1>3, <1>4, <1>5
<1>7. b \in o..Length /\ b \in TokenOffsets \cup {Length} /\ At(b).code \notin codes
  <2>. HIDE DEF b
  <2>. QED  BY <1>1, <1>2, <1>6
<1>8. ASSUME NEW q \in TokenOffsets, o <= q, q < b
      PROVE  At(q).code \in codes
  <2>1. q \in Nat /\ b \in Nat /\ o \in Nat
    BY <1>1, <1>2, <1>7
  <2>2. q \notin S
    <3>. HIDE DEF S, b
    <3>1. b <= q => FALSE
      BY <1>8, <2>1
    <3>. QED  BY <1>4, <1>5, <3>1 DEF b
  <2>. QED  BY <1>8, <2>1, <2>2
<1>. QED  BY <1>7, <1>8, BorderIs

LEMMA BeforeIs ==
    ASSUME Tracked, NEW o \in TokenOffsets, NEW codes
    PROVE  /\ Before(o, codes) \in TokenOffsets /\ Before(o, codes) <= o
           /\ \A q \in TokenOffsets : Before(o, codes) <= q /\ q < o => At(q).code \in codes
<1>. DEFINE S == {p \in TokenOffsets : p <= o
                    /\ \A q \in TokenOffsets : p <= q /\ q < o => At(q).code \in codes}
<1>1. \A q \in TokenOffsets : q \in Nat
  BY TokensAre
<1>2. o \in S /\ S \subseteq Nat
  <2>1. o \in Nat /\ o <= o
    BY <1>1
  <2>2. ASSUME NEW q \in TokenOffsets
        PROVE  ~ (o <= q /\ q < o)
    BY <1>1, <2>1
  <2>. QED  BY <1>1, <2>1, <2>2
<1>3. LeastOf(S) \in S
  <2>. HIDE DEF S
  <2>. QED  BY <1>2, LeastIs
<1>4. Before(o, codes) = LeastOf(S)
  BY DEF Before
<1>5. Before(o, codes) \in S
  BY <1>3, <1>4
<1>. QED  BY <1>5

\* The next token, or the end, is as far as m_textInfo says.
LEMMA TokenSpan ==
    ASSUME Tracked, NEW o \in TokenOffsets
    PROVE  /\ At(o).length \in 1..2 /\ Border(text, o + At(o).length)
           /\ \A q \in TokenOffsets : o < q => o + At(o).length <= q
<1>1. /\ Length \in Nat /\ o \in 0..(Length - 1) /\ text[o + 1][2] = 1
      /\ At(o).length = LengthOf(text[o + 1][1])
      /\ \A p : p \in TokenOffsets <=> p \in 0..(Length - 1) /\ text[p + 1][2] = 1
  BY TokensAre
<1>2. /\ Len(text) = Length
      /\ \A i \in 1..Length :
            /\ text[i][2] = 1 /\ text[i][1] # "char" =>
                    i < Length /\ text[i + 1] = <<text[i][1], 2>>
            /\ text[i][2] = 2 =>
                    i > 1 /\ text[i - 1] = <<text[i][1], 1>> /\ text[i][1] # "char"
  BY DEF Tracked, WholeTokens, Length
<1>3. \A i \in 1..Length : text[i][2] \in {1, 2}
  <2>1. \A i \in 1..Len(text) : text[i] \in TextBytes
    BY ElementOfSeq DEF Tracked, WholeTokens
  <2>. QED  BY <1>2, <2>1 DEF TextBytes
<1>4. CASE text[o + 1][1] = "char"
  <2>1. At(o).length = 1
    BY <1>1, <1>4 DEF LengthOf
  <2>2. ASSUME o + 1 < Length, text[o + 2][2] = 2
        PROVE  FALSE
    <3>1. o + 2 \in 1..Length /\ (o + 2) - 1 = o + 1
      BY <1>1, <2>2
    <3>2. text[o + 1] = <<text[o + 2][1], 1>> /\ text[o + 2][1] # "char"
      BY <1>2, <2>2, <3>1
    <3>. QED  BY <1>4, <3>2
  <2>3. o + 1 \in 0..Length /\ (o + 1) + 1 = o + 2 /\ (o + 1 < Length => o + 2 \in 1..Length)
    BY <1>1
  <2>4. Border(text, o + 1)
    BY <1>2, <1>3, <2>2, <2>3 DEF Border
  <2>. QED  BY <1>1, <2>1, <2>4
<1>5. CASE text[o + 1][1] # "char"
  <2>1. At(o).length = 2
    BY <1>1, <1>5 DEF LengthOf
  <2>2. o + 1 \in 1..Length /\ (o + 1) + 1 = o + 2
    BY <1>1
  <2>3. o + 1 < Length /\ text[o + 2] = <<text[o + 1][1], 2>>
    BY <1>1, <1>2, <1>5, <2>2
  <2>4. text[o + 2][2] = 2
    BY <2>3
  <2>5. ASSUME o + 2 < Length, text[o + 3][2] = 2
        PROVE  FALSE
    <3>1. o + 3 \in 1..Length /\ (o + 3) - 1 = o + 2
      BY <1>1, <2>5
    <3>2. text[o + 2] = <<text[o + 3][1], 1>>
      BY <1>2, <2>5, <3>1
    <3>. QED  BY <2>4, <3>2
  <2>6. o + 2 \in 0..Length /\ (o + 2) + 1 = o + 3 /\ (o + 2 < Length => o + 3 \in 1..Length)
    BY <1>1, <2>3
  <2>7. Border(text, o + 2)
    BY <1>2, <1>3, <2>5, <2>6 DEF Border
  <2>8. ASSUME NEW q \in TokenOffsets, o < q
        PROVE  o + 2 <= q
    <3>1. q # o + 1
      BY <1>1, <2>2, <2>4
    <3>. QED  BY <1>1, <2>8, <3>1
  <2>. QED  BY <2>1, <2>7, <2>8
<1>. QED  BY <1>4, <1>5

LEMMA ForwardIs ==
    ASSUME Tracked, NEW o, Border(text, o)
    PROVE  /\ Forward(o) \in o..Length /\ Border(text, Forward(o))
           /\ At(Forward(o)).code \notin Ends
           /\ \E p \in o..Length : \A q \in TokenOffsets :
                o <= q /\ q < Forward(o) /\ q # p => At(q).code \in Starts \cup Ends
<1>. DEFINE p == Behind(o, Starts)
            n == p + At(p).length
            e == Behind(n, Ends)
<1>1. "none" \notin Starts /\ "none" \notin Ends
  BY DEF Starts, Ends
<1>2. /\ p \in o..Length /\ Border(text, p)
      /\ \A q \in TokenOffsets : o <= q /\ q < p => At(q).code \in Starts
  BY <1>1, BehindIs
<1>3. /\ Length \in Nat /\ At(Length) = Zero /\ TokenOffsets \subseteq Nat
      /\ o \in Nat
  BY TokensAre DEF Border
<1>. HIDE DEF p
<1>4. /\ n \in p..Length /\ Border(text, n)
      /\ \A q \in TokenOffsets : p < q => n <= q
  <2>1. CASE p \in TokenOffsets
    <3>1. /\ At(p).length \in 1..2 /\ Border(text, n)
          /\ \A q \in TokenOffsets : p < q => n <= q
      BY <2>1, TokenSpan
    <3>2. n \in 0..Length
      BY <3>1 DEF Border, Length
    <3>. QED  BY <1>2, <1>3, <2>1, <3>1, <3>2
  <2>2. CASE p = Length
    <3>1. n = Length
      BY <1>3, <2>2 DEF Zero
    <3>2. \A q \in TokenOffsets : q < Length
      BY TokensAre
    <3>. QED  BY <1>2, <1>3, <2>2, <3>1, <3>2
  <2>. QED  BY <1>2, <2>1, <2>2, BorderIs
<1>. HIDE DEF n
<1>5. /\ e \in n..Length /\ Border(text, e) /\ At(e).code \notin Ends
      /\ \A q \in TokenOffsets : n <= q /\ q < e => At(q).code \in Ends
  BY <1>1, <1>4, BehindIs
<1>6. Forward(o) = e
  BY DEF Forward, e, n, p
<1>. HIDE DEF e
<1>7. ASSUME NEW q \in TokenOffsets, o <= q, q < e, q # p
      PROVE  At(q).code \in Starts \cup Ends
  <2>1. q < p \/ p < q
    BY <1>2, <1>3, <1>7
  <2>. QED  BY <1>2, <1>4, <1>5, <1>7, <2>1
<1>8. e \in o..Length
  BY <1>2, <1>3, <1>4, <1>5
<1>. QED  BY <1>2, <1>5, <1>6, <1>7, <1>8

LEMMA BackwardIs ==
    ASSUME Tracked, NEW o \in 0..Length, Stops(o) # {}
    PROVE  /\ Backward(o) \in TokenOffsets /\ Backward(o) < o
           /\ At(Backward(o)).code \notin Ends
           /\ \E g \in TokenOffsets : \A q \in TokenOffsets :
                Backward(o) <= q /\ q < o /\ q # g => At(q).code \in Starts \/ Passes(q)
<1>. DEFINE g == GreatestOf(Stops(o))
            b == Before(g, Starts)
<1>1. Length \in Nat /\ \A p \in TokenOffsets : p \in 0..Length
  BY TokensAre
<1>2. g \in Stops(o) /\ \A p \in Stops(o) : p <= g
  <2>1. Stops(o) \in SUBSET (0..Length)
    BY <1>1 DEF Stops
  <2>. QED  BY <1>1, <2>1, GreatestIs
<1>. HIDE DEF g
<1>3. g \in TokenOffsets /\ g < o /\ ~Passes(g)
  BY <1>2 DEF Stops
<1>4. /\ b \in TokenOffsets /\ b <= g
      /\ \A q \in TokenOffsets : b <= q /\ q < g => At(q).code \in Starts
  BY <1>3, BeforeIs
<1>5. Backward(o) = b
  BY DEF Backward, g
<1>. HIDE DEF b
<1>6. At(b).code \notin Ends
  <2>1. CASE b = g
    BY <1>3, <2>1 DEF Passes
  <2>2. CASE b # g
    <3>1. b < g
      BY <1>1, <1>3, <1>4, <2>2
    <3>2. At(b).code \in Starts
      BY <1>1, <1>4, <3>1
    <3>. QED  BY <3>2 DEF Starts, Ends
  <2>. QED  BY <2>1, <2>2
<1>7. ASSUME NEW q \in TokenOffsets, b <= q, q < o, q # g
      PROVE  At(q).code \in Starts \/ Passes(q)
  <2>1. CASE q < g
    BY <1>4, <1>7, <2>1
  <2>2. CASE q > g
    <3>1. q \notin Stops(o)
      BY <1>1, <1>2, <1>3, <2>2
    <3>. QED  BY <1>7, <3>1 DEF Stops
  <2>. QED  BY <1>1, <1>3, <1>7, <2>1, <2>2
<1>8. b < o
  BY <1>1, <1>3, <1>4
<1>. QED  BY <1>3, <1>4, <1>5, <1>6, <1>7, <1>8

-----------------------------------------------------------------------------
(* The two ends of what DeleteSubstring deletes. *)

LEMMA StandingIs ==
    ASSUME Tracked, NEW o, Border(text, o)
    PROVE  At(o).code \notin Ends <=> Standing(text, o)
<1>1. /\ Length \in Nat /\ Len(text) = Length /\ At(Length) = Zero
      /\ \A p \in TokenOffsets : At(p).code = text[p + 1][1] /\ p < Length
  BY TokensAre DEF Length
<1>2. o \in TokenOffsets \cup {Length}
  BY BorderIs
<1>3. Zero.code \notin Ends
  BY DEF Zero, Ends
<1>. QED  BY <1>1, <1>2, <1>3 DEF Standing

LEMMA LinkedMeans ==
    ASSUME Tracked, info = Parse(text)
    PROVE  /\ ~At(Length).linked
           /\ \A o \in TokenOffsets : At(o).linked <=> InLink(text, o + 1)
<1>1. text \in Seq(TextBytes)
  BY DEF Tracked, WholeTokens
<1>2. \A i \in 1..Len(text) :
        text[i][2] = 1 => (Parse(text)[i].linked <=> InLink(text, i))
  BY <1>1, ParseType
<1>3. /\ Length \in Nat /\ Len(text) = Length /\ At(Length) = Zero
      /\ \A p : p \in TokenOffsets <=> p \in 0..(Length - 1) /\ text[p + 1][2] = 1
  BY TokensAre DEF Length
<1>4. ASSUME NEW o \in TokenOffsets
      PROVE  At(o).linked <=> InLink(text, o + 1)
  <2>1. o + 1 \in 1..Len(text) /\ text[o + 1][2] = 1
    BY <1>3
  <2>. QED  BY <1>2, <2>1 DEF At
<1>5. ~Zero.linked
  BY DEF Zero
<1>. QED  BY <1>3, <1>4, <1>5

\* Nothing is open where a token is in no link, or at the end.
LEMMA NotLinked ==
    ASSUME Tracked, info = Parse(text), LinksPaired(text), NEW o, Border(text, o),
           ~At(o).linked
    PROVE  ~LinkOpen(text, o)
<1>1. o \in TokenOffsets \cup {Length}
  BY BorderIs
<1>2. CASE o \in TokenOffsets
  <2>1. o + 1 \in Nat \ {0} /\ (o + 1) - 1 = o
    BY <1>2, TokensAre
  <2>2. ~InLink(text, o + 1)
    BY <1>2, LinkedMeans
  <2>3. InLink(text, o + 1) <=> LinkOpen(text, (o + 1) - 1) \/ text[o + 1] = LinkStart
    BY <2>1, InLinkIfOpen
  <2>. QED  BY <2>1, <2>2, <2>3
<1>3. CASE o = Length
  BY <1>3 DEF LinksPaired, Length
<1>. QED  BY <1>1, <1>2, <1>3

\* The code of a link is a token.
LEMMA LinkCodes ==
    ASSUME Tracked, NEW k \in 1..Length
    PROVE  /\ text[k] = LinkStart => k - 1 \in TokenOffsets /\ At(k - 1).code = "link"
           /\ text[k] = LinkEnd => k - 1 \in TokenOffsets /\ At(k - 1).code = "unlink"
<1>1. k - 1 \in 0..(Length - 1) /\ (k - 1) + 1 = k
  BY TokensAre
<1>2. \A p : p \in TokenOffsets <=> p \in 0..(Length - 1) /\ text[p + 1][2] = 1
  BY TokensAre
<1>3. \A p \in TokenOffsets : At(p).code = text[p + 1][1]
  BY TokensAre
<1>4. k - 1 \in TokenOffsets <=> text[k][2] = 1
  BY <1>1, <1>2
<1>5. k - 1 \in TokenOffsets => At(k - 1).code = text[k][1]
  BY <1>1, <1>3
<1>. QED  BY <1>4, <1>5 DEF LinkStart, LinkEnd

LEMMA LeftmostIs ==
    ASSUME Tracked, NEW o, Border(text, o)
    PROVE  Leftmost(o) \in 0..o /\ Border(text, Leftmost(o))
<1>. DEFINE starts == {p \in TokenOffsets : p <= o /\ At(p).code \in Starts}
            g == GreatestOf(starts)
<1>1. /\ Length \in Nat /\ Len(text) = Length /\ o \in 0..Length
      /\ TokenOffsets \subseteq 0..Length
  BY TokensAre DEF Length, Border
<1>2. Border(text, 0)
  <2>1. ASSUME 0 < Len(text)
        PROVE  text[0 + 1][2] = 1
    <3>1. 1 \in 1..Len(text) /\ text[1] \in TextBytes
      BY <1>1, <2>1, ElementOfSeq DEF Tracked, WholeTokens
    <3>2. text[1][2] # 2
      BY <3>1 DEF Tracked, WholeTokens
    <3>. QED  BY <3>1, <3>2 DEF TextBytes
  <2>. QED  BY <1>1, <2>1 DEF Border
<1>3. CASE starts # {}
  <2>1. starts \in SUBSET (0..Length)
    BY <1>1
  <2>2. g \in starts
    <3>. HIDE DEF starts
    <3>. QED  BY <1>1, <1>3, <2>1, GreatestIs
  <2>. HIDE DEF g
  <2>3. g \in TokenOffsets /\ g <= o
    BY <2>2
  <2>4. Before(g, Starts) \in TokenOffsets /\ Before(g, Starts) <= g
    BY <2>3, BeforeIs
  <2>5. Before(g, Starts) \in 0..o /\ Border(text, Before(g, Starts))
    <3>1. g \in 0..Length /\ Before(g, Starts) \in 0..Length
      BY <1>1, <2>3, <2>4
    <3>2. Before(g, Starts) \in 0..o
      BY <1>1, <2>3, <2>4, <3>1
    <3>. QED  BY <2>4, <3>2, BorderIs
  <2>6. Leftmost(o) = IF ~At(o).linked THEN o ELSE Before(g, Starts)
    BY <1>3 DEF Leftmost, g
  <2>. QED  BY <1>1, <2>5, <2>6
<1>4. CASE starts = {}
  <2>1. Leftmost(o) = IF ~At(o).linked THEN o ELSE 0
    BY <1>4 DEF Leftmost
  <2>. QED  BY <1>1, <1>2, <2>1
<1>. QED  BY <1>3, <1>4

LEMMA RightmostIs ==
    ASSUME Tracked, NEW o, Standing(text, o)
    PROVE  Rightmost(o) \in o..Length /\ Standing(text, Rightmost(o))
<1>. DEFINE ends == {p \in TokenOffsets : p >= o /\ At(p).code \in Ends}
            e == LeastOf(ends)
            b == Behind(e, Ends)
<1>1. /\ Length \in Nat /\ Len(text) = Length /\ o \in 0..Length
      /\ TokenOffsets \subseteq 0..Length
  BY TokensAre DEF Length, Border, Standing
<1>2. Standing(text, Length)
  BY <1>1 DEF Standing, Border
<1>3. CASE ends # {}
  <2>1. ends \in SUBSET Nat
    <3>1. \A p \in ends : p \in 0..Length
      BY <1>1
    <3>. QED  BY <3>1
  <2>2. e \in ends
    <3>. HIDE DEF ends
    <3>. QED  BY <1>3, <2>1, LeastIs
  <2>. HIDE DEF e
  <2>3. e \in TokenOffsets /\ e >= o /\ Border(text, e)
    BY <2>2, BorderIs
  <2>4. b \in e..Length /\ Border(text, b) /\ At(b).code \notin Ends
    <3>1. "none" \notin Ends
      BY DEF Ends
    <3>. QED  BY <2>3, <3>1, BehindIs
  <2>. HIDE DEF b
  <2>5. Standing(text, b) /\ b \in o..Length
    BY <1>1, <2>3, <2>4, StandingIs
  <2>6. Rightmost(o) = IF ~At(o).linked THEN o ELSE b
    BY <1>3 DEF Rightmost, b, e
  <2>. QED  BY <1>1, <2>5, <2>6
<1>4. CASE ends = {}
  <2>1. Rightmost(o) = IF ~At(o).linked THEN o ELSE Length
    BY <1>4 DEF Rightmost
  <2>. QED  BY <1>1, <1>2, <2>1
<1>. QED  BY <1>3, <1>4

\* From the left end on, there are starts and tokens of links; and no link is open
\* there if links are paired and have no colour inside them.
LEMMA LeftmostLinks ==
    ASSUME Tracked, info = Parse(text), NEW o, Border(text, o)
    PROVE  /\ \A q \in TokenOffsets :
                Leftmost(o) <= q /\ q < o => At(q).code \in Starts \/ At(q).linked
           /\ LinksPaired(text) /\ ColoursOutside(text) => ~LinkOpen(text, Leftmost(o))
<1>. DEFINE starts == {p \in TokenOffsets : p <= o /\ At(p).code \in Starts}
            g == GreatestOf(starts)
            a == Before(g, Starts)
<1>1. /\ Length \in Nat /\ Len(text) = Length /\ o \in 0..Length
      /\ \A p \in TokenOffsets : p \in 0..(Length - 1)
      /\ \A p \in TokenOffsets : text[p + 1] = <<At(p).code, 1>>
  BY TokensAre DEF Length, Border
<1>2. CASE ~At(o).linked
  <2>1. Leftmost(o) = o
    BY <1>2 DEF Leftmost
  <2>2. \A q \in TokenOffsets : ~ (o <= q /\ q < o)
    BY <1>1
  <2>. QED  BY <1>2, <2>1, <2>2, NotLinked
<1>3. CASE At(o).linked
  <2>1. o \in TokenOffsets /\ InLink(text, o + 1)
    BY <1>3, BorderIs, LinkedMeans
  <2>2. PICK j \in 1..(o + 1) :
            text[j] = LinkStart /\ \A k \in j..((o + 1) - 1) : text[k] # LinkEnd
    BY <2>1 DEF InLink, LinkStart, LinkEnd
  <2>3. \A k \in j..o : text[k] # LinkEnd
    BY <1>1, <2>2
  <2>4. j \in 1..Length /\ o \in 0..(Length - 1)
    BY <1>1, <2>1
  <2>5. j - 1 \in starts
    <3>1. j - 1 \in TokenOffsets /\ At(j - 1).code = "link"
      BY <2>2, <2>4, LinkCodes
    <3>. QED  BY <2>4, <3>1 DEF Starts
  <2>6. g \in starts /\ j - 1 <= g
    <3>1. starts \in SUBSET (0..Length)
      BY <1>1
    <3>. HIDE DEF starts
    <3>. QED  BY <1>1, <2>5, <3>1, GreatestIs
  <2>7. Leftmost(o) = a
    BY <1>3, <2>5 DEF Leftmost
  <2>8. g \in TokenOffsets /\ g <= o /\ At(g).code \in Starts
    BY <2>6
  <2>. HIDE DEF starts, g
  <2>9. /\ a \in TokenOffsets /\ a <= g
        /\ \A q \in TokenOffsets : a <= q /\ q < g => At(q).code \in Starts
    BY <2>8, BeforeIs
  <2>. HIDE DEF a
  <2>10. ASSUME NEW q \in TokenOffsets, a <= q, q < o
         PROVE  At(q).code \in Starts \/ At(q).linked
    <3>1. CASE q < g
      BY <2>9, <2>10, <3>1
    <3>2. CASE ~ q < g
      <4>1. j \in 1..(q + 1) /\ \A k \in j..((q + 1) - 1) : text[k] # LinkEnd
        BY <1>1, <2>3, <2>4, <2>6, <2>8, <2>10, <3>2
      <4>2. InLink(text, q + 1)
        BY <2>2, <4>1 DEF InLink, LinkStart, LinkEnd
      <4>. QED  BY <4>2, LinkedMeans
    <3>. QED  BY <3>1, <3>2
  <2>11. ASSUME LinksPaired(text), ColoursOutside(text)
         PROVE  ~LinkOpen(text, a)
    <3>1. g + 1 \in 1..Len(text) /\ (g + 1) - 1 = g /\ g \in Nat /\ a \in Nat
      BY <1>1, <2>8, <2>9
    <3>2. text[g + 1] \in {LinkStart, <<"color", 1>>}
      BY <1>1, <2>8 DEF Starts, LinkStart
    <3>3. ~LinkOpen(text, g)
      BY <2>11, <3>1, <3>2 DEF LinksPaired, ColoursOutside
    <3>4. ASSUME NEW k \in (a + 1)..g
          PROVE  text[k] # LinkEnd
      <4>1. k \in 1..Length /\ a <= k - 1 /\ k - 1 < g
        BY <3>1, <1>1
      <4>2. text[k] = LinkEnd => k - 1 \in TokenOffsets /\ At(k - 1).code = "unlink"
        BY <4>1, LinkCodes
      <4>. QED  BY <2>9, <4>1, <4>2 DEF Starts
    <3>5. LinkOpen(text, g) <=>
            \/ \E i \in (a + 1)..g : text[i] = LinkStart /\ \A k \in i..g : text[k] # LinkEnd
            \/ LinkOpen(text, a) /\ \A k \in (a + 1)..g : text[k] # LinkEnd
      BY <2>9, <3>1, OpenSplit
    <3>. QED  BY <3>3, <3>4, <3>5
  <2>. QED  BY <2>7, <2>10, <2>11
<1>. QED  BY <1>2, <1>3

\* Up to the right end, there are tokens of links and ends; and no link is open there
\* if links are paired and have no colour inside them.
LEMMA RightmostLinks ==
    ASSUME Tracked, info = Parse(text), NEW o, Border(text, o)
    PROVE  /\ \A q \in TokenOffsets :
                o <= q /\ q < Rightmost(o) => At(q).code \in Ends \/ At(q).linked
           /\ LinksPaired(text) /\ ColoursOutside(text) => ~LinkOpen(text, Rightmost(o))
<1>. DEFINE ends == {p \in TokenOffsets : p >= o /\ At(p).code \in Ends}
            e == LeastOf(ends)
            b == Behind(e, Ends)
<1>1. /\ Length \in Nat /\ Len(text) = Length /\ o \in 0..Length
      /\ \A p \in TokenOffsets : p \in 0..(Length - 1)
      /\ \A p \in TokenOffsets : text[p + 1] = <<At(p).code, 1>>
  BY TokensAre DEF Length, Border
<1>2. CASE ~At(o).linked
  <2>1. Rightmost(o) = o
    BY <1>2 DEF Rightmost
  <2>2. \A q \in TokenOffsets : ~ (o <= q /\ q < o)
    BY <1>1
  <2>. QED  BY <1>2, <2>1, <2>2, NotLinked
<1>3. CASE At(o).linked
  <2>1. o \in TokenOffsets /\ InLink(text, o + 1)
    BY <1>3, BorderIs, LinkedMeans
  <2>2. PICK j \in 1..(o + 1) :
            text[j] = LinkStart /\ \A k \in j..((o + 1) - 1) : text[k] # LinkEnd
    BY <2>1 DEF InLink, LinkStart, LinkEnd
  <2>3. \A k \in j..o : text[k] # LinkEnd
    BY <1>1, <2>2
  <2>4. j \in 1..Length /\ o \in 0..(Length - 1)
    BY <1>1, <2>1
  <2>5. ASSUME NEW q \in TokenOffsets, o <= q, \A k \in (o + 1)..q : text[k] # LinkEnd
        PROVE  At(q).linked
    <3>1. j \in 1..(q + 1) /\ \A k \in j..((q + 1) - 1) : text[k] # LinkEnd
      <4>1. q \in 0..(Length - 1)
        BY <1>1
      <4>2. ASSUME NEW k \in j..((q + 1) - 1)
            PROVE  text[k] # LinkEnd
        <5>1. k \in j..o \/ k \in (o + 1)..q
          BY <2>4, <4>1
        <5>. QED  BY <2>3, <2>5, <5>1
      <4>. QED  BY <2>4, <2>5, <4>1, <4>2
    <3>2. InLink(text, q + 1)
      BY <2>2, <3>1 DEF InLink, LinkStart, LinkEnd
    <3>. QED  BY <3>2, LinkedMeans
  <2>6. ASSUME NEW k \in (o + 1)..Length, text[k] = LinkEnd
        PROVE  k - 1 \in ends
    <3>1. k \in 1..Length /\ k - 1 >= o
      BY <1>1
    <3>2. k - 1 \in TokenOffsets /\ At(k - 1).code = "unlink"
      BY <2>6, <3>1, LinkCodes
    <3>. QED  BY <3>1, <3>2 DEF Ends
  <2>7. CASE ends = {}
    <3>1. Rightmost(o) = Length
      BY <1>3, <2>7 DEF Rightmost
    <3>2. \A k \in (o + 1)..Length : text[k] # LinkEnd
      BY <2>6, <2>7
    <3>3. ASSUME NEW q \in TokenOffsets, o <= q, q < Length
          PROVE  At(q).linked
      <4>1. \A k \in (o + 1)..q : text[k] # LinkEnd
        BY <1>1, <3>2, <3>3
      <4>. QED  BY <2>5, <3>3, <4>1
    <3>4. LinkOpen(text, Length)
      <4>1. \A k \in j..Length : text[k] # LinkEnd
        <5>1. \A k \in j..Length : k \in j..o \/ k \in (o + 1)..Length
          BY <2>4
        <5>. QED  BY <2>3, <3>2, <5>1
      <4>. QED  BY <2>2, <2>4, <4>1 DEF LinkOpen
    <3>5. ~LinksPaired(text)
      BY <1>1, <3>4 DEF LinksPaired
    <3>. QED  BY <3>1, <3>3, <3>5
  <2>8. CASE ends # {}
    <3>1. /\ e \in ends /\ \A p \in ends : e <= p
      <4>1. ends \in SUBSET Nat
        BY <1>1
      <4>. HIDE DEF ends
      <4>. QED  BY <2>8, <4>1, LeastIs
    <3>2. Rightmost(o) = b
      BY <1>3, <2>8 DEF Rightmost
    <3>3. e \in TokenOffsets /\ e >= o /\ At(e).code \in Ends
      BY <3>1
    <3>4. ASSUME NEW k \in (o + 1)..e
          PROVE  text[k] # LinkEnd
      <4>1. k \in (o + 1)..Length /\ ~ e <= k - 1
        BY <1>1, <3>3
      <4>. QED  BY <2>6, <3>1, <4>1
    <3>. HIDE DEF ends, e
    <3>5. /\ b \in e..Length /\ At(b).code \notin Ends
          /\ \A q \in TokenOffsets : e <= q /\ q < b => At(q).code \in Ends
      <4>1. "none" \notin Ends /\ Border(text, e)
        BY <3>3, BorderIs DEF Ends
      <4>. QED  BY <4>1, BehindIs
    <3>. HIDE DEF b
    <3>6. ASSUME NEW q \in TokenOffsets, o <= q, q < b
          PROVE  At(q).code \in Ends \/ At(q).linked
      <4>1. CASE q < e
        <5>1. \A k \in (o + 1)..q : text[k] # LinkEnd
          BY <1>1, <3>3, <3>4, <4>1
        <5>. QED  BY <2>5, <3>6, <5>1
      <4>2. CASE ~ q < e
        BY <1>1, <3>3, <3>5, <3>6, <4>2
      <4>. QED  BY <4>1, <4>2
    <3>7. ASSUME LinksPaired(text), ColoursOutside(text)
          PROVE  ~LinkOpen(text, b)
      <4>1. /\ e + 1 \in 1..Len(text) /\ (e + 1) - 1 = e /\ e \in Nat /\ e + 1 \in Nat
            /\ text[e + 1] = <<At(e).code, 1>>
        BY <1>1, <3>3
      <4>2. LinkOpen(text, e)
        <5>1. text[e + 1] # LinkStart
          BY <3>3, <4>1 DEF Ends, LinkStart
        <5>2. j \in 1..e
          <6>1. j # e + 1
            BY <2>2, <5>1
          <6>2. o \in Nat /\ e \in Nat /\ o <= e /\ j \in 1..(o + 1)
            BY <1>1, <2>4, <3>3, <4>1
          <6>. QED  BY <6>1, <6>2
        <5>3. ASSUME NEW k \in j..e
              PROVE  text[k] # LinkEnd
          <6>1. k \in j..o \/ k \in (o + 1)..e
            BY <1>1, <2>4, <4>1
          <6>. QED  BY <2>3, <3>4, <6>1
        <5>. QED  BY <2>2, <5>2, <5>3 DEF LinkOpen
      <4>3. text[e + 1] = LinkEnd
        <5>1. text[e + 1] # <<"restore", 1>>
          BY <3>7, <4>1, <4>2 DEF ColoursOutside
        <5>. QED  BY <3>3, <4>1, <5>1 DEF Ends, LinkEnd
      <4>4. ~LinkOpen(text, e + 1)
        <5>1. LinkStart # LinkEnd
          BY DEF LinkStart, LinkEnd
        <5>. QED  BY <4>1, <4>3, <5>1, OpenStep
      <4>5. b \in Nat /\ e + 1 <= b /\ b <= Length
        <5>1. b # e
          BY <3>3, <3>5
        <5>. QED  BY <1>1, <3>5, <4>1, <5>1
      <4>6. ASSUME NEW i \in (e + 1 + 1)..b
            PROVE  text[i] # LinkStart
        <5>1. i \in 1..Length /\ e <= i - 1 /\ i - 1 < b
          BY <1>1, <4>1, <4>5
        <5>2. text[i] = LinkStart => i - 1 \in TokenOffsets /\ At(i - 1).code = "link"
          BY <5>1, LinkCodes
        <5>. QED  BY <3>5, <5>1, <5>2 DEF Ends
      <4>7. LinkOpen(text, b) <=>
              \/ \E i \in (e + 1 + 1)..b :
                    text[i] = LinkStart /\ \A k \in i..b : text[k] # LinkEnd
              \/ LinkOpen(text, e + 1) /\ \A k \in (e + 1 + 1)..b : text[k] # LinkEnd
        BY <4>1, <4>5, OpenSplit
      <4>. QED  BY <4>4, <4>6, <4>7
    <3>. QED  BY <3>2, <3>6, <3>7
  <2>. QED  BY <2>7, <2>8
<1>. QED  BY <1>2, <1>3

-----------------------------------------------------------------------------
(* As many starts as ends of links are deleted if and only if a link is open *)
(* on both sides, or on none.                                                *)

StartsIn(b, l, q) == {p \in l..(q - 1) : b[p + 1] = LinkStart}
EndsIn(b, l, q) == {p \in l..(q - 1) : b[p + 1] = LinkEnd}
Counted(b, l, q) ==
    LET s == Cardinality(StartsIn(b, l, q))
        e == Cardinality(EndsIn(b, l, q))
    IN  /\ LinkOpen(b, l) /\ ~LinkOpen(b, q) => e = s + 1
        /\ ~LinkOpen(b, l) /\ LinkOpen(b, q) => s = e + 1
        /\ (LinkOpen(b, l) <=> LinkOpen(b, q)) => s = e

LEMMA CountStep ==
    ASSUME NEW b, LinksPaired(b), Len(b) \in Nat, NEW l \in Nat, NEW q \in Nat,
           l <= q, q < Len(b), Counted(b, l, q)
    PROVE  Counted(b, l, q + 1)
<1>. DEFINE s == Cardinality(StartsIn(b, l, q))
            e == Cardinality(EndsIn(b, l, q))
            t == Cardinality(StartsIn(b, l, q + 1))
            f == Cardinality(EndsIn(b, l, q + 1))
<1>1. /\ IsFiniteSet(StartsIn(b, l, q)) /\ IsFiniteSet(EndsIn(b, l, q))
      /\ s \in Nat /\ e \in Nat
  <2>1. IsFiniteSet(l..(q - 1))
    BY FS_Interval
  <2>2. StartsIn(b, l, q) \in SUBSET (l..(q - 1)) /\ EndsIn(b, l, q) \in SUBSET (l..(q - 1))
    BY DEF StartsIn, EndsIn
  <2>3. IsFiniteSet(StartsIn(b, l, q)) /\ IsFiniteSet(EndsIn(b, l, q))
    BY <2>1, <2>2, FS_Subset
  <2>. QED  BY <2>3, FS_CardinalityType
<1>2. q \notin StartsIn(b, l, q) /\ q \notin EndsIn(b, l, q)
  BY DEF StartsIn, EndsIn
<1>3. LinkStart # LinkEnd
  BY DEF LinkStart, LinkEnd
<1>4. \A p : p \in l..(q + 1 - 1) <=> p \in l..(q - 1) \/ p = q
  OBVIOUS
<1>5. LinkOpen(b, q + 1) <=>
        b[q + 1] = LinkStart \/ (LinkOpen(b, q) /\ b[q + 1] # LinkEnd)
  BY OpenStep
<1>6. /\ b[q + 1] = LinkStart => ~LinkOpen(b, q)
      /\ b[q + 1] = LinkEnd => LinkOpen(b, q)
  <2>1. q + 1 \in 1..Len(b) /\ (q + 1) - 1 = q
    OBVIOUS
  <2>. QED  BY <2>1 DEF LinksPaired
<1>7. CASE b[q + 1] = LinkStart
  <2>1. StartsIn(b, l, q + 1) = StartsIn(b, l, q) \cup {q}
    BY <1>4, <1>7 DEF StartsIn
  <2>2. EndsIn(b, l, q + 1) = EndsIn(b, l, q)
    BY <1>3, <1>4, <1>7 DEF EndsIn
  <2>3. t = s + 1 /\ f = e
    BY <1>1, <1>2, <2>1, <2>2, FS_AddElement
  <2>. QED  BY <1>1, <1>5, <1>6, <1>7, <2>3 DEF Counted
<1>8. CASE b[q + 1] = LinkEnd
  <2>1. EndsIn(b, l, q + 1) = EndsIn(b, l, q) \cup {q}
    BY <1>4, <1>8 DEF EndsIn
  <2>2. StartsIn(b, l, q + 1) = StartsIn(b, l, q)
    BY <1>3, <1>4, <1>8 DEF StartsIn
  <2>3. t = s /\ f = e + 1
    BY <1>1, <1>2, <2>1, <2>2, FS_AddElement
  <2>. QED  BY <1>1, <1>3, <1>5, <1>6, <1>8, <2>3 DEF Counted
<1>9. CASE b[q + 1] \notin {LinkStart, LinkEnd}
  <2>1. EndsIn(b, l, q + 1) = EndsIn(b, l, q) /\ StartsIn(b, l, q + 1) = StartsIn(b, l, q)
    BY <1>4, <1>9 DEF EndsIn, StartsIn
  <2>2. LinkOpen(b, q + 1) <=> LinkOpen(b, q)
    BY <1>5, <1>9
  <2>. QED  BY <2>1, <2>2 DEF Counted
<1>. QED  BY <1>7, <1>8, <1>9

LEMMA CountsFollow ==
    ASSUME NEW b, LinksPaired(b), Len(b) \in Nat, NEW l \in Nat, NEW r \in Nat,
           l <= r, r <= Len(b)
    PROVE  Cardinality(StartsIn(b, l, r)) = Cardinality(EndsIn(b, l, r))
              <=> (LinkOpen(b, l) <=> LinkOpen(b, r))
<1>. DEFINE Bad == {q \in Nat : l <= q /\ q <= Len(b) /\ ~Counted(b, l, q)}
<1>1. Bad = {}
  <2>1. SUFFICES ASSUME Bad # {}
                 PROVE  FALSE
    OBVIOUS
  <2>2. PICK q \in Bad : \A m \in Bad : q <= m
    <3>1. Bad \in SUBSET Nat
      OBVIOUS
    <3>. HIDE DEF Bad
    <3>. QED  BY <2>1, <3>1, LeastNatural
  <2>3. q \in Nat /\ l <= q /\ q <= Len(b) /\ ~Counted(b, l, q)
    BY <2>2
  <2>4. CASE q = l
    <3>1. StartsIn(b, l, l) = {} /\ EndsIn(b, l, l) = {}
      <4>1. l..(l - 1) = {}
        OBVIOUS
      <4>. QED  BY <4>1 DEF StartsIn, EndsIn
    <3>2. Counted(b, l, l)
      BY <3>1 DEF Counted
    <3>. QED  BY <2>3, <2>4, <3>2
  <2>5. CASE q # l
    <3>1. q - 1 \in Nat /\ l <= q - 1 /\ q - 1 < Len(b) /\ q - 1 <= Len(b) /\ (q - 1) + 1 = q
          /\ ~ q <= q - 1
      BY <2>3, <2>5
    <3>2. Counted(b, l, q - 1)
      BY <2>2, <3>1
    <3>3. Counted(b, l, (q - 1) + 1)
      BY <3>1, <3>2, CountStep
    <3>. QED  BY <2>3, <3>1, <3>3
  <2>. QED  BY <2>4, <2>5
<1>2. Counted(b, l, r)
  BY <1>1
<1>3. Cardinality(StartsIn(b, l, r)) \in Nat /\ Cardinality(EndsIn(b, l, r)) \in Nat
  <2>1. IsFiniteSet(l..(r - 1))
    BY FS_Interval
  <2>2. StartsIn(b, l, r) \in SUBSET (l..(r - 1)) /\ EndsIn(b, l, r) \in SUBSET (l..(r - 1))
    BY DEF StartsIn, EndsIn
  <2>3. IsFiniteSet(StartsIn(b, l, r)) /\ IsFiniteSet(EndsIn(b, l, r))
    BY <2>1, <2>2, FS_Subset
  <2>. QED  BY <2>3, FS_CardinalityType
<1>. DEFINE s == Cardinality(StartsIn(b, l, r))
            e == Cardinality(EndsIn(b, l, r))
<1>4. /\ LinkOpen(b, l) /\ ~LinkOpen(b, r) => e = s + 1
      /\ ~LinkOpen(b, l) /\ LinkOpen(b, r) => s = e + 1
      /\ (LinkOpen(b, l) <=> LinkOpen(b, r)) => s = e
  BY <1>2 DEF Counted
<1>. HIDE DEF s, e
<1>5. s \in Nat /\ e \in Nat
  BY <1>3 DEF s, e
<1>6. s = e <=> (LinkOpen(b, l) <=> LinkOpen(b, r))
  BY <1>4, <1>5
<1>. QED  BY <1>6 DEF s, e

-----------------------------------------------------------------------------
(* Deleting. *)

\* What the invariant says of the text and the cursor.
TextKept ==
    /\ Tracked /\ Standing(text, cursor)
    /\ "broken" \notin oddities => info = Parse(text) /\ LinksPaired(text)
    /\ "nested" \notin oddities => "broken" \notin oddities /\ ColoursOutside(text)
    /\ "headless" \notin oddities => HeadPlain(text)

\* What goes begins and ends between tokens.
LEMMA Deleted ==
    ASSUME Tracked, NEW from, NEW to, Border(text, from), Standing(text, to), from <= to,
           DeleteSubstring(from, to)
    PROVE  LET l == Leftmost(from)
               r == Rightmost(to)
           IN  /\ l \in 0..from /\ r \in to..Length /\ Border(text, l) /\ Standing(text, r)
               /\ Spliced(text', text, l, r, 0) /\ Tracked'
               /\ Standing(text', l)
               /\ Spliced(info', info, l, r, 0)
<1>. DEFINE l == Leftmost(from)
            r == Rightmost(to)
<1>1. l \in 0..from /\ r \in to..Length /\ Border(text, l) /\ Standing(text, r)
  BY LeftmostIs, RightmostIs
<1>2. /\ text' = SubSeq(text, 1, l) \o SubSeq(text, r + 1, Length)
      /\ info' = SubSeq(info, 1, l) \o SubSeq(info, r + 1, Length + 1)
  BY DEF DeleteSubstring, ShiftInfo
<1>. HIDE DEF l, r
<1>3. Length \in Nat /\ Len(text) = Length /\ text \in Seq(TextBytes) /\ WholeTokens(text)
      /\ Marked(info, text)
  BY TokensAre DEF Length, Tracked, WholeTokens
<1>4. l \in 0..Len(text) /\ r \in l..Len(text)
  <2>1. from \in 0..Length /\ to \in 0..Length
    BY <1>3 DEF Standing, Border
  <2>. QED  BY <1>1, <1>3, <2>1
<1>5. text' \in Seq(TextBytes) /\ Spliced(text', text, l, r, 0)
  BY <1>2, <1>3, <1>4, CutIsSpliced
<1>6. Marked(info', text') /\ Spliced(info', info, l, r, 0)
  <2>1. PICK c, d : c = text' /\ d = info'
    OBVIOUS
  <2>2. d = SubSeq(info, 1, l) \o SubSeq(info, r + 1, Len(text) + 1)
    BY <1>2, <1>3, <2>1
  <2>3. c \in Seq(TextBytes) /\ Spliced(c, text, l, r, 0)
    BY <1>5, <2>1
  <2>4. /\ info \in Seq(InfoRecords) /\ Len(info) = Length + 1
        /\ l \in 0..Len(info) /\ r \in l..Len(info)
    <3>1. info \in Seq(InfoRecords) /\ Len(info) = Length + 1
      BY <1>3 DEF Marked
    <3>. QED  BY <1>3, <1>4, <3>1
  <2>5. d = SubSeq(info, 1, l) \o SubSeq(info, r + 1, Len(info))
    BY <1>3, <2>2, <2>4
  <2>6. d \in Seq(InfoRecords) /\ Spliced(d, info, l, r, 0)
    BY <2>4, <2>5, CutIsSpliced
  <2>7. Marked(d, c)
    BY <1>3, <2>3, <2>6, MarksShift
  <2>. QED  BY <2>1, <2>6, <2>7
<1>7. WholeTokens(text')
  <2>1. Border(text, r)
    BY <1>1 DEF Standing
  <2>2. \A i \in (l + 1)..(l + 0) : FALSE
    BY <1>4
  <2>3. WholeWithin(text', l, l + 0)
    BY <2>2 DEF WholeWithin
  <2>. QED  BY <1>1, <1>3, <1>5, <2>1, <2>3, WholeKept
<1>8. Standing(text', l)
  <2>1. Standing(text', l + 0)
    BY <1>1, <1>5, StandingKept
  <2>2. l + 0 = l
    BY <1>4
  <2>. QED  BY <2>1, <2>2
<1>9. Tracked'
  BY <1>6, <1>7 DEF Tracked
<1>10. /\ l \in 0..from /\ r \in to..Length /\ Border(text, l) /\ Standing(text, r)
       /\ Spliced(text', text, l, r, 0) /\ Tracked'
       /\ Standing(text', l)
       /\ Spliced(info', info, l, r, 0)
  BY <1>1, <1>5, <1>6, <1>8, <1>9
<1>. QED  BY <1>10 DEF l, r

LEMMA DeleteKeepsText ==
    ASSUME TextKept, NEW from, NEW to, Border(text, from), Standing(text, to), from <= to,
           DeleteSubstring(from, to)
    PROVE  /\ TextKept' /\ Length' <= Length
           /\ oddities \subseteq oddities' /\ oddities' \subseteq oddities \cup {"broken"}
<1>. DEFINE l == Leftmost(from)
            r == Rightmost(to)
            S == StartsIn(text, l, r)
            E == EndsIn(text, l, r)
<1>0. Tracked
  BY DEF TextKept
<1>1. /\ l \in 0..from /\ r \in to..Length /\ Border(text, l) /\ Standing(text, r)
      /\ Spliced(text', text, l, r, 0) /\ Tracked'
      /\ Standing(text', l)
      /\ Spliced(info', info, l, r, 0)
  BY <1>0, Deleted
<1>2. /\ cursor' = l /\ info' = SubSeq(info, 1, l) \o SubSeq(info, r + 1, Length + 1)
      /\ oddities' = oddities \cup {q \in {"broken"} : Cardinality(S) # Cardinality(E)}
  BY DEF DeleteSubstring, ShiftInfo, StartsIn, EndsIn, LinkStart, LinkEnd
<1>3. /\ Length \in Nat /\ Len(text) = Length /\ text \in Seq(TextBytes)
      /\ text' \in Seq(TextBytes) /\ Length' = Len(text')
  BY <1>0, <1>1, TokensAre DEF Length, Tracked, WholeTokens
<1>4. LinksPaired(text) =>
        (Cardinality(S) = Cardinality(E) <=> (LinkOpen(text, l) <=> LinkOpen(text, r)))
  <2>1. l \in Nat /\ r \in Nat /\ l <= r /\ r <= Len(text) /\ Len(text) \in Nat
    BY <1>1, <1>3 DEF Spliced
  <2>. HIDE DEF l, r
  <2>. QED  BY <2>1, CountsFollow
<1>5. "nested" \notin oddities /\ "broken" \notin oddities =>
        ~LinkOpen(text, l) /\ ~LinkOpen(text, r)
  <2>1. Border(text, to)
    BY DEF Standing
  <2>. QED  BY <1>0, <2>1, LeftmostLinks, RightmostLinks DEF TextKept
<1>. HIDE DEF l, r, S, E
<1>6. "broken" \notin oddities' =>
        "broken" \notin oddities /\ Cardinality(S) = Cardinality(E)
  BY <1>2
<1>7. /\ l \in Nat /\ l + 0 = l
      /\ \A k \in (l + 1)..(l + 0) : FALSE
  BY <1>1 DEF Spliced
<1>8. LinkOpen(text', l) <=> LinkOpen(text, l)
  BY <1>1, <1>7, OpenSame
<1>9. ASSUME "broken" \notin oddities'
      PROVE  info' = Parse(text') /\ LinksPaired(text')
             /\ (ColoursOutside(text) => ColoursOutside(text'))
  <2>1. info = Parse(text) /\ LinksPaired(text)
    BY <1>6, <1>9 DEF TextKept
  <2>2. LinkOpen(text', l) <=> LinkOpen(text, r)
    BY <1>4, <1>6, <1>8, <1>9, <2>1
  <2>3. info' = Parse(text')
    BY <1>1, <1>2, <1>3, <2>1, <2>2, ParseShift
  <2>4. LinkOpen(text', l + 0) <=> LinkOpen(text, r)
    BY <1>7, <2>2
  <2>5. LinksPaired(text')
    BY <1>1, <1>7, <2>1, <2>4, LinksKept
  <2>6. ColoursOutside(text) => ColoursOutside(text')
    BY <1>1, <1>7, <2>4, ColoursKept
  <2>. QED  BY <2>3, <2>5, <2>6
<1>10. ASSUME "nested" \notin oddities'
       PROVE  "broken" \notin oddities' /\ ColoursOutside(text')
  <2>1. "nested" \notin oddities
    BY <1>2, <1>10
  <2>2. "broken" \notin oddities /\ ColoursOutside(text) /\ LinksPaired(text)
    BY <2>1 DEF TextKept
  <2>3. Cardinality(S) = Cardinality(E)
    BY <1>4, <1>5, <2>1, <2>2
  <2>4. "broken" \notin oddities'
    BY <1>2, <2>2, <2>3
  <2>. QED  BY <1>9, <2>2, <2>4
<1>11. ASSUME "headless" \notin oddities'
       PROVE  HeadPlain(text')
  <2>1. HeadPlain(text)
    BY <1>2, <1>11 DEF TextKept
  <2>2. 0 > 0 => text'[l + 1][1] \notin Ends
    OBVIOUS
  <2>. QED  BY <1>1, <1>3, <2>1, <2>2, HeadKept
<1>12. TextKept'
  BY <1>1, <1>2, <1>9, <1>10, <1>11 DEF TextKept
<1>13. Length' <= Length
  BY <1>1, <1>3 DEF Spliced
<1>. QED  BY <1>2, <1>12, <1>13

-----------------------------------------------------------------------------
(* Typing a letter. *)

\* Nothing is typed where the letter before ends at a link's letter.
LEMMA NeverIntrudes ==
    ASSUME ~TypesInLink(cursor), cursor \in Nat
    PROVE  ~ (At(cursor).linked /\ cursor > 0 /\ At(cursor - 1).code = "char")
<1>1. SUFFICES ASSUME At(cursor).linked, cursor > 0, At(cursor - 1).code = "char"
               PROVE  FALSE
  OBVIOUS
<1>. DEFINE S == {p \in 0..cursor : \A q \in p..(cursor - 1) : At(q) = Zero}
<1>2. At(cursor - 1) # Zero
  BY <1>1 DEF Zero
<1>3. S = {cursor}
  <2>1. cursor \in S
    <3>1. cursor..(cursor - 1) = {} /\ cursor \in 0..cursor
      OBVIOUS
    <3>. QED  BY <3>1
  <2>2. ASSUME NEW p \in S
        PROVE  p = cursor
    <3>1. p \in 0..cursor /\ (p # cursor => cursor - 1 \in p..(cursor - 1))
      BY <1>1
    <3>. QED  BY <1>2, <2>2, <3>1
  <2>. QED  BY <2>1, <2>2
<1>4. PrevCharOffset(cursor) = LeastOf(S)
  BY DEF PrevCharOffset
<1>5. LeastOf(S) = cursor
  <2>. HIDE DEF S
  <2>1. S \in SUBSET Nat /\ S # {}
    BY <1>3
  <2>. QED  BY <1>3, <2>1, LeastIs
<1>. QED  BY <1>1, <1>4, <1>5 DEF TypesInLink

LEMMA TypedKeepsText ==
    ASSUME TextKept, NEW letter \in Letters,
           Insert(text, cursor, BytesOf(letter), TRUE), oddities' = oddities
    PROVE  TextKept' /\ Length' = Len(text')
<1>. DEFINE o == cursor
            m == LengthOf(letter)
<1>1. Tracked /\ Standing(text, o) /\ text \in Seq(TextBytes) /\ WholeTokens(text)
  BY DEF TextKept, Tracked, WholeTokens
<1>2. o \in 0..Len(text) /\ Border(text, o) /\ Len(text) \in Nat
  BY <1>1, LenProperties DEF Standing, Border
<1>3. /\ BytesOf(letter) \in Seq(TextBytes) /\ Len(BytesOf(letter)) = m
      /\ m \in 1..2 /\ (letter = "char" <=> m = 1)
      /\ \A k \in 1..m : BytesOf(letter)[k] = <<letter, k>>
  <2>1. letter \in Tokens
    BY DEF Tokens
  <2>. QED  BY <2>1, TokenBytes
<1>4. PICK c : c = SubSeq(text, 1, o) \o BytesOf(letter) \o SubSeq(text, o + 1, Len(text))
  OBVIOUS
<1>5. text' = c /\ info' = Parse(c) /\ cursor' = o + m
  BY <1>3, <1>4 DEF Insert
<1>. HIDE DEF m
<1>6. /\ c \in Seq(TextBytes) /\ Spliced(c, text, o, o, m)
      /\ \A k \in 1..m : c[o + k] = <<letter, k>>
  <2>1. PICK mid : mid = BytesOf(letter)
    OBVIOUS
  <2>2. mid \in Seq(TextBytes) /\ c = SubSeq(text, 1, o) \o mid \o SubSeq(text, o + 1, Len(text))
    BY <1>3, <1>4, <2>1
  <2>3. /\ c \in Seq(TextBytes) /\ Spliced(c, text, o, o, Len(mid))
        /\ \A k \in 1..Len(mid) : c[o + k] = mid[k]
    <3>. HIDE DEF o
    <3>1. text \in Seq(TextBytes) /\ o \in 0..Len(text)
      BY <1>1, <1>2
    <3>2. c = Pasted(text, o, mid)
      BY <2>2 DEF Pasted
    <3>3. c \in Seq(TextBytes) /\ HasPasted(c, text, o, mid)
      BY <2>2, <3>1, <3>2, PasteIsSpliced
    <3>. QED  BY <3>3 DEF HasPasted
  <2>4. Len(mid) = m /\ \A k \in 1..m : mid[k] = <<letter, k>>
    BY <1>3, <2>1
  <2>. QED  BY <2>3, <2>4
<1>. HIDE DEF o
<1>7. /\ WholeWithin(c, o, o + m)
      /\ \A i \in (o + 1)..(o + m) : \E k \in 1..m : c[i] = <<letter, k>>
  <2>1. letter \in Tokens /\ o \in Nat /\ m = LengthOf(letter)
    BY <1>2 DEF Tokens, m
  <2>. QED  BY <1>6, <2>1, TokenInside
<1>8. WholeTokens(c)
  BY <1>1, <1>2, <1>6, <1>7, WholeKept
<1>9. Marked(Parse(c), c)
  BY <1>6, ParseMarks
<1>10. Standing(c, o + m)
  BY <1>1, <1>6, StandingKept DEF o
<1>11. o \in Nat /\ m \in Nat /\ o <= o + m /\ o + m \in Nat /\ o + 1 \in (o + 1)..(o + m)
  BY <1>2, <1>3
<1>12. \A k \in (o + 1)..(o + m) : c[k] \notin {LinkStart, LinkEnd}
  BY <1>7 DEF LinkStart, LinkEnd, Letters
<1>13. LinkOpen(c, o + m) <=> LinkOpen(text, o)
  <2>1. LinkOpen(c, o + m) <=> LinkOpen(c, o)
    BY <1>11, <1>12, OpenOver
  <2>2. o \in 0..o
    BY <1>11
  <2>3. LinkOpen(c, o) <=> LinkOpen(text, o)
    BY <1>6, <2>2, OpenSame
  <2>. QED  BY <2>1, <2>3
<1>14. LinksPaired(text) => LinksPaired(c)
  BY <1>6, <1>12, <1>13, LinksKept
<1>15. ColoursOutside(text) => ColoursOutside(c)
  <2>1. \A k \in (o + 1)..(o + m) : c[k] \notin {<<"color", 1>>, <<"restore", 1>>}
    BY <1>7 DEF Letters
  <2>. QED  BY <1>6, <1>13, <2>1, ColoursKept
<1>16. HeadPlain(text) => HeadPlain(c)
  <2>1. c[o + 1][1] \notin Ends
    BY <1>7, <1>11 DEF Letters, Ends
  <2>2. Standing(text, o)
    BY <1>1
  <2>. QED  BY <1>1, <1>6, <2>1, <2>2, HeadKept
<1>17. TextKept'
  <2>1. Tracked'
    BY <1>5, <1>8, <1>9 DEF Tracked
  <2>2. Standing(text', cursor')
    BY <1>5, <1>10
  <2>. QED  BY <1>5, <1>14, <1>15, <1>16, <2>1, <2>2 DEF TextKept
<1>. QED  BY <1>17 DEF Length

\* GrowText leaves room for the terminating zero.
LEMMA GrowsEnough ==
    ASSUME NEW n \in Nat, size \in Nat
    PROVE  GrowText(n) \in Nat /\ n + 1 <= GrowText(n)
<1>. DEFINE q == (n + Block) \div Block
<1>1. Block \in Nat \ {0}
  BY EditTextAssumption
<1>2. q \in Nat /\ q * Block <= n + Block /\ n + Block < (q + 1) * Block
  BY <1>1
<1>. HIDE DEF q
<1>3. (q + 1) * Block = q * Block + Block /\ q * Block \in Nat
  BY <1>1, <1>2
<1>4. q * Block >= n + 1
  BY <1>1, <1>2, <1>3
<1>. QED  BY <1>3, <1>4 DEF GrowText, q

-----------------------------------------------------------------------------
(* Setting the text. *)

\* A link is open behind the first k tokens.
TokOpen(t, k) ==
    \E j \in 1..k : t[j] = "link" /\ \A i \in j..k : t[i] # "unlink"

\* The bytes are those of the first k tokens.
FollowsTokens(b, t, k) ==
    /\ WholeTokens(b)
    /\ IF k = 0 THEN Len(b) = 0 ELSE Len(b) > 0 /\ b[1] = <<t[1], 1>>
    /\ LinkOpen(b, Len(b)) <=> TokOpen(t, k)
    /\ \A i \in 1..Len(b) : b[i][2] = 1 =>
          \E x \in 1..k : b[i] = <<t[x], 1>> /\ (LinkOpen(b, i - 1) <=> TokOpen(t, x - 1))

LEMMA TokOpenStep ==
    ASSUME NEW t, NEW k \in Nat
    PROVE  TokOpen(t, k + 1) <=>
              t[k + 1] = "link" \/ (TokOpen(t, k) /\ t[k + 1] # "unlink")
<1>1. ASSUME TokOpen(t, k + 1)
      PROVE  t[k + 1] = "link" \/ (TokOpen(t, k) /\ t[k + 1] # "unlink")
  <2>1. PICK j \in 1..(k + 1) : t[j] = "link" /\ \A i \in j..(k + 1) : t[i] # "unlink"
    BY <1>1 DEF TokOpen
  <2>2. CASE j = k + 1
    BY <2>1, <2>2
  <2>3. CASE j # k + 1
    <3>1. j \in 1..k /\ k + 1 \in j..(k + 1) /\ \A i \in j..k : i \in j..(k + 1)
      BY <2>3
    <3>. QED  BY <2>1, <3>1 DEF TokOpen
  <2>. QED  BY <2>2, <2>3
<1>2. ASSUME t[k + 1] = "link"
      PROVE  TokOpen(t, k + 1)
  <2>1. k + 1 \in 1..(k + 1) /\ \A i \in (k + 1)..(k + 1) : i = k + 1
    OBVIOUS
  <2>. QED  BY <1>2, <2>1 DEF TokOpen
<1>3. ASSUME TokOpen(t, k), t[k + 1] # "unlink"
      PROVE  TokOpen(t, k + 1)
  <2>1. PICK j \in 1..k : t[j] = "link" /\ \A i \in j..k : t[i] # "unlink"
    BY <1>3 DEF TokOpen
  <2>2. j \in 1..(k + 1) /\ \A i \in j..(k + 1) : i \in j..k \/ i = k + 1
    OBVIOUS
  <2>. QED  BY <1>3, <2>1, <2>2 DEF TokOpen
<1>. QED  BY <1>1, <1>2, <1>3

LEMMA AppendFollows ==
    ASSUME NEW t \in Seq(Tokens), NEW k \in Nat, k < Len(t), NEW b, FollowsTokens(b, t, k),
           NEW c, c = b \o BytesOf(t[k + 1])
    PROVE  FollowsTokens(c, t, k + 1)
<1>. DEFINE token == t[k + 1]
            m == LengthOf(token)
            n == Len(b)
<1>1. WholeTokens(b) /\ b \in Seq(TextBytes) /\ n \in Nat
  BY LenProperties DEF FollowsTokens, WholeTokens
<1>2. token \in Tokens
  <2>1. k + 1 \in 1..Len(t)
    BY LenProperties
  <2>. QED  BY <2>1, ElementOfSeq
<1>. HIDE DEF token
<1>3. /\ BytesOf(token) \in Seq(TextBytes) /\ Len(BytesOf(token)) = m
      /\ m \in 1..2 /\ \A j \in 1..m : BytesOf(token)[j] = <<token, j>>
  BY <1>2, TokenBytes
<1>. HIDE DEF m, n
<1>4. /\ c \in Seq(TextBytes) /\ Len(c) = n + m
      /\ \A i \in 1..n : c[i] = b[i]
      /\ \A j \in 1..m : c[n + j] = <<token, j>>
  <2>1. PICK mid, q : mid = BytesOf(token) /\ q = Len(b) + Len(mid)
    OBVIOUS
  <2>2. mid \in Seq(TextBytes) /\ b \in Seq(TextBytes)
    BY <1>1, <1>3, <2>1
  <2>3. /\ b \o mid \in Seq(TextBytes) /\ Len(b \o mid) = q
        /\ \A i \in 1..q : i <= Len(b) => (b \o mid)[i] = b[i]
        /\ \A i \in 1..q : i > Len(b) => (b \o mid)[i] = mid[i - Len(b)]
    BY <2>1, <2>2, ConcatElements
  <2>4. c = b \o mid /\ Len(b) = n /\ q = n + m
    BY <1>3, <2>1 DEF n, token
  <2>5. ASSUME NEW i \in 1..n
        PROVE  c[i] = b[i]
    <3>1. i \in 1..q /\ i <= n
      BY <1>1, <1>3, <2>4
    <3>. QED  BY <2>3, <2>4, <3>1
  <2>6. ASSUME NEW j \in 1..m
        PROVE  c[n + j] = <<token, j>>
    <3>1. PICK i : i = n + j
      OBVIOUS
    <3>2. i \in 1..q /\ i > n /\ i - n = j
      BY <1>1, <1>3, <2>4, <3>1
    <3>3. c[i] = mid[j]
      BY <2>3, <2>4, <3>2
    <3>. QED  BY <1>3, <2>1, <3>1, <3>3
  <2>. QED  BY <2>3, <2>4, <2>5, <2>6
<1>5. Spliced(c, b, n, n, m)
  <2>1. Len(b) = n /\ n \in Nat /\ m \in Nat /\ n <= n /\ n + m = n + m + (n - n)
    BY <1>1, <1>3 DEF n
  <2>2. \A i \in (n + 1)..n : FALSE
    BY <1>1
  <2>. QED  BY <1>4, <2>1, <2>2 DEF Spliced
<1>6. WholeTokens(c)
  <2>1. Border(b, n)
    BY <1>1 DEF Border, n
  <2>2. WholeWithin(c, n, n + m)
    BY <1>1, <1>2, <1>4, TokenInside DEF m
  <2>. QED  BY <1>1, <1>4, <1>5, <2>1, <2>2, WholeKept
<1>7. \A i \in 0..n : LinkOpen(c, i) <=> LinkOpen(b, i)
  BY <1>5, OpenSame
<1>8. c[n + 1] = <<token, 1>> /\ (m = 2 => c[n + 2] = <<token, 2>>)
  <2>1. 1 \in 1..m /\ (m = 2 => 2 \in 1..m)
    BY <1>3
  <2>. QED  BY <1>4, <2>1
<1>9. LinkOpen(c, n + 1) <=> TokOpen(t, k + 1)
  <2>1. LinkOpen(c, n + 1) <=>
          c[n + 1] = LinkStart \/ (LinkOpen(c, n) /\ c[n + 1] # LinkEnd)
    BY <1>1, OpenStep
  <2>2. LinkOpen(c, n) <=> TokOpen(t, k)
    <3>1. n \in 0..n
      BY <1>1
    <3>2. LinkOpen(b, n) <=> TokOpen(t, k)
      BY DEF FollowsTokens, n
    <3>. QED  BY <1>7, <3>1, <3>2
  <2>3. TokOpen(t, k + 1) <=> token = "link" \/ (TokOpen(t, k) /\ token # "unlink")
    BY TokOpenStep DEF token
  <2>4. (c[n + 1] = LinkStart <=> token = "link") /\ (c[n + 1] = LinkEnd <=> token = "unlink")
    BY <1>8 DEF LinkStart, LinkEnd
  <2>. QED  BY <2>1, <2>2, <2>3, <2>4
<1>10. LinkOpen(c, Len(c)) <=> TokOpen(t, k + 1)
  <2>1. CASE m = 1
    BY <1>4, <1>9, <2>1
  <2>2. CASE m = 2
    <3>1. n + 1 \in Nat /\ (n + 1) + 1 = n + 2 /\ Len(c) = n + 2
      BY <1>1, <1>4, <2>2
    <3>2. LinkOpen(c, (n + 1) + 1) <=>
            c[(n + 1) + 1] = LinkStart \/ (LinkOpen(c, n + 1) /\ c[(n + 1) + 1] # LinkEnd)
      BY <3>1, OpenStep
    <3>3. c[n + 2] # LinkStart /\ c[n + 2] # LinkEnd
      <4>1. c[n + 2] = <<token, 2>>
        BY <1>8, <2>2
      <4>2. \A a, e : <<a, 2>> # <<e, 1>>
        OBVIOUS
      <4>. QED  BY <4>1, <4>2 DEF LinkStart, LinkEnd
    <3>. QED  BY <1>9, <3>1, <3>2, <3>3
  <2>. QED  BY <1>3, <2>1, <2>2
<1>11. Len(c) > 0 /\ c[1] = <<t[1], 1>>
  <2>1. CASE k = 0
    <3>1. n = 0
      BY <2>1 DEF FollowsTokens, n
    <3>. QED  BY <1>3, <1>4, <1>8, <2>1, <3>1 DEF token
  <2>2. CASE k # 0
    <3>1. n > 0 /\ b[1] = <<t[1], 1>>
      BY <2>2 DEF FollowsTokens, n
    <3>2. 1 \in 1..n /\ n + m > 0
      BY <1>1, <1>3, <3>1
    <3>. QED  BY <1>4, <3>1, <3>2
  <2>. QED  BY <2>1, <2>2
<1>12. ASSUME NEW i \in 1..Len(c), c[i][2] = 1
       PROVE  \E x \in 1..(k + 1) :
                c[i] = <<t[x], 1>> /\ (LinkOpen(c, i - 1) <=> TokOpen(t, x - 1))
  <2>1. CASE i <= n
    <3>1. i \in 1..n /\ i - 1 \in 0..n
      BY <1>1, <2>1
    <3>2. b[i][2] = 1 /\ c[i] = b[i]
      BY <1>4, <1>12, <3>1
    <3>3. PICK x \in 1..k : b[i] = <<t[x], 1>> /\ (LinkOpen(b, i - 1) <=> TokOpen(t, x - 1))
      BY <3>1, <3>2 DEF FollowsTokens, n
    <3>4. x \in 1..(k + 1)
      OBVIOUS
    <3>. QED  BY <1>7, <3>1, <3>2, <3>3, <3>4
  <2>2. CASE i = n + 1
    <3>1. k + 1 \in 1..(k + 1) /\ (k + 1) - 1 = k /\ i - 1 = n /\ n \in 0..n
      BY <1>1, <2>2
    <3>2. c[i] = <<t[k + 1], 1>>
      BY <1>8, <2>2 DEF token
    <3>3. LinkOpen(c, i - 1) <=> TokOpen(t, (k + 1) - 1)
      <4>1. LinkOpen(b, n) <=> TokOpen(t, k)
        BY DEF FollowsTokens, n
      <4>. QED  BY <1>7, <3>1, <4>1
    <3>. QED  BY <3>1, <3>2, <3>3
  <2>3. CASE i = n + 2
    <3>1. m = 2
      BY <1>1, <1>3, <1>4, <2>3
    <3>2. c[i][2] = 2
      BY <1>8, <2>3, <3>1
    <3>. QED  BY <1>12, <3>2
  <2>4. i <= n \/ i = n + 1 \/ i = n + 2
    <3>1. i \in 1..(n + m)
      BY <1>4
    <3>. QED  BY <1>1, <1>3, <3>1
  <2>. QED  BY <2>1, <2>2, <2>3, <2>4
<1>13. k + 1 # 0
  OBVIOUS
<1>. QED  BY <1>6, <1>10, <1>11, <1>12, <1>13 DEF FollowsTokens

LEMMA NoTokens ==
    ASSUME NEW t
    PROVE  FollowsTokens(<<>>, t, 0)
<1>1. <<>> \in Seq(TextBytes) /\ Len(<<>>) = 0
  BY EmptySeq
<1>2. \A i \in 1..0 : FALSE
  OBVIOUS
<1>3. WholeTokens(<<>>)
  BY <1>1, <1>2 DEF WholeTokens
<1>4. ~LinkOpen(<<>>, 0) /\ ~TokOpen(t, 0)
  BY <1>2 DEF LinkOpen, TokOpen
<1>. QED  BY <1>1, <1>2, <1>3, <1>4 DEF FollowsTokens

LEMMA BytesFollow ==
    ASSUME NEW t \in Seq(Tokens)
    PROVE  FollowsTokens(Bytes(t), t, Len(t))
<1>. DEFINE n == Len(t)
            s == [i \in DOMAIN t |-> BytesOf(t[i])]
<1>1. n \in Nat /\ DOMAIN t = 1..n
  BY LenProperties
<1>2. \A i \in 1..n : BytesOf(t[i]) \in Seq(TextBytes)
  <2>1. ASSUME NEW i \in 1..n
        PROVE  BytesOf(t[i]) \in Seq(TextBytes)
    <3>1. t[i] \in Tokens
      BY <2>1, ElementOfSeq
    <3>. QED  BY <3>1, TokenBytes
  <2>. QED  BY <2>1
<1>3. Len(s) = n /\ \A i \in 1..n : s[i] = BytesOf(t[i])
  BY <1>1
<1>4. Bytes(t) = FlattenSeq(s)
  BY DEF Bytes
<1>. HIDE DEF s, n
<1>5. CASE n = 0
  <2>1. s = <<>>
    BY <1>1, <1>5 DEF s
  <2>2. Bytes(t) = <<>>
    BY <1>3, <1>4, <1>5, <2>1 DEF FlattenSeq
  <2>. QED  BY <1>5, <2>2, NoTokens DEF n
<1>6. CASE n # 0
  <2>1. n \in Nat \ {0}
    BY <1>1, <1>6
  <2>2. PICK f : /\ FlattenSeq(s) = f[n] /\ f[1] = s[1]
                 /\ \A i \in 2..n : f[i] = f[i - 1] \o s[i]
    <3>1. PICK f : Flattens(f, s, n)
      BY <1>3, <2>1, FlattenSteps
    <3>. QED  BY <3>1 DEF Flattens
  <2>. DEFINE Bad == {k \in Nat : k \in 1..n /\ ~FollowsTokens(f[k], t, k)}
  <2>3. Bad = {}
    <3>1. SUFFICES ASSUME Bad # {}
                   PROVE  FALSE
      OBVIOUS
    <3>2. PICK k \in Bad : \A m \in Bad : k <= m
      <4>1. Bad \in SUBSET Nat
        OBVIOUS
      <4>. HIDE DEF Bad
      <4>. QED  BY <3>1, <4>1, LeastNatural
    <3>3. k \in Nat /\ k \in 1..n /\ ~FollowsTokens(f[k], t, k)
      BY <3>2
    <3>4. CASE k = 1
      <4>1. f[1] = <<>> \o BytesOf(t[0 + 1])
        <5>1. 1 \in 1..n /\ 0 + 1 = 1
          BY <2>1
        <5>2. f[1] = BytesOf(t[1]) /\ BytesOf(t[1]) \in Seq(TextBytes)
          BY <1>2, <1>3, <2>2, <5>1
        <5>3. <<>> \o BytesOf(t[1]) = BytesOf(t[1])
          BY <5>2, ConcatEmptySeq
        <5>. QED  BY <5>1, <5>2, <5>3
      <4>2. 0 < Len(t) /\ 0 \in Nat /\ 0 + 1 = 1
        BY <2>1 DEF n
      <4>3. FollowsTokens(f[1], t, 0 + 1)
        BY <4>1, <4>2, NoTokens, AppendFollows
      <4>. QED  BY <3>3, <3>4, <4>2, <4>3
    <3>5. CASE k # 1
      <4>1. /\ k - 1 \in Nat /\ k - 1 \in 1..n /\ k \in 2..n /\ (k - 1) + 1 = k
            /\ ~ k <= k - 1
        BY <2>1, <3>3, <3>5
      <4>2. FollowsTokens(f[k - 1], t, k - 1)
        BY <3>2, <4>1
      <4>3. f[k] = f[k - 1] \o BytesOf(t[(k - 1) + 1])
        BY <1>3, <2>2, <4>1
      <4>4. k - 1 < Len(t)
        BY <2>1, <4>1 DEF n
      <4>5. PICK j : j = k - 1
        OBVIOUS
      <4>6. FollowsTokens(f[k], t, j + 1)
        BY <4>1, <4>2, <4>3, <4>4, <4>5, AppendFollows
      <4>. QED  BY <3>3, <4>1, <4>5, <4>6
    <3>. QED  BY <3>4, <3>5
  <2>4. n \in 1..n
    BY <2>1
  <2>5. FollowsTokens(f[n], t, n)
    BY <2>1, <2>3, <2>4
  <2>. QED  BY <1>4, <2>2, <2>5 DEF n
<1>. QED  BY <1>5, <1>6

\* In the bytes of paired tokens the links are paired.
LEMMA PairedFollows ==
    ASSUME NEW t \in Seq(Tokens), TokensPaired(t), NEW b, FollowsTokens(b, t, Len(t))
    PROVE  /\ LinksPaired(b)
           /\ ~Nested(t) => ColoursOutside(b)
           /\ t = <<>> \/ t[1] \notin Ends => HeadPlain(b)
<1>. DEFINE n == Len(t)
<1>1. n \in Nat /\ DOMAIN t = 1..n /\ Len(b) \in Nat /\ b \in Seq(TextBytes)
  BY LenProperties DEF FollowsTokens, WholeTokens
<1>2. \A i \in 1..n : t[i] = "link" =>
        \E k \in 1..n : i < k /\ t[k] = "unlink"
            /\ \A j \in (i + 1)..(k - 1) : t[j] \notin {"link", "unlink"}
  BY <1>1 DEF TokensPaired
<1>3. \A k \in 1..n : t[k] = "unlink" =>
        \E i \in 1..n : i < k /\ t[i] = "link"
            /\ \A j \in (i + 1)..(k - 1) : t[j] \notin {"link", "unlink"}
  BY <1>1 DEF TokensPaired
<1>. HIDE DEF n
<1>4. ASSUME NEW x \in 1..n, TokOpen(t, x - 1)
      PROVE  \E j \in 1..(x - 1), k \in x..n :
                /\ t[j] = "link" /\ t[k] = "unlink"
                /\ \A i \in j..(x - 1) : t[i] # "unlink"
                /\ \A i \in (j + 1)..(k - 1) : t[i] \notin {"link", "unlink"}
  <2>1. PICK j \in 1..(x - 1) : t[j] = "link" /\ \A i \in j..(x - 1) : t[i] # "unlink"
    BY <1>4 DEF TokOpen
  <2>2. j \in 1..n
    BY <1>1
  <2>3. PICK k \in 1..n : j < k /\ t[k] = "unlink"
            /\ \A i \in (j + 1)..(k - 1) : t[i] \notin {"link", "unlink"}
    BY <1>2, <2>1, <2>2
  <2>4. k \notin j..(x - 1)
    BY <2>1, <2>3
  <2>5. k \in x..n
    BY <1>1, <2>3, <2>4
  <2>. QED  BY <2>1, <2>3, <2>5
<1>5. ~TokOpen(t, n)
  <2>1. SUFFICES ASSUME TokOpen(t, n)
                 PROVE  FALSE
    OBVIOUS
  <2>2. PICK j \in 1..n : t[j] = "link" /\ \A i \in j..n : t[i] # "unlink"
    BY <2>1 DEF TokOpen
  <2>3. PICK k \in 1..n : j < k /\ t[k] = "unlink"
    BY <1>2, <2>2
  <2>4. k \in j..n
    BY <2>3
  <2>. QED  BY <2>2, <2>3, <2>4
<1>6. ASSUME NEW x \in 1..n, t[x] = "link"
      PROVE  ~TokOpen(t, x - 1)
  <2>1. SUFFICES ASSUME TokOpen(t, x - 1)
                 PROVE  FALSE
    OBVIOUS
  <2>2. PICK j \in 1..(x - 1), k \in x..n :
                /\ t[j] = "link" /\ t[k] = "unlink"
                /\ \A i \in (j + 1)..(k - 1) : t[i] \notin {"link", "unlink"}
    BY <1>4, <2>1
  <2>3. x # k
    BY <1>6, <2>2
  <2>4. x \in (j + 1)..(k - 1)
    BY <2>3
  <2>. QED  BY <1>6, <2>2, <2>4
<1>7. ASSUME NEW x \in 1..n, t[x] = "unlink"
      PROVE  TokOpen(t, x - 1)
  <2>1. PICK i \in 1..n : i < x /\ t[i] = "link"
            /\ \A j \in (i + 1)..(x - 1) : t[j] \notin {"link", "unlink"}
    BY <1>3, <1>7
  <2>2. i \in 1..(x - 1) /\ \A j \in i..(x - 1) : j = i \/ j \in (i + 1)..(x - 1)
    BY <2>1
  <2>3. \A j \in i..(x - 1) : t[j] # "unlink"
    BY <2>1, <2>2
  <2>. QED  BY <2>1, <2>2, <2>3 DEF TokOpen
<1>8. ASSUME NEW i \in 1..Len(b), b[i][2] = 1
      PROVE  \E x \in 1..n : b[i] = <<t[x], 1>> /\ (LinkOpen(b, i - 1) <=> TokOpen(t, x - 1))
  BY <1>8 DEF FollowsTokens, n
<1>9. LinksPaired(b)
  <2>1. ASSUME NEW i \in 1..Len(b), b[i] = LinkStart
        PROVE  ~LinkOpen(b, i - 1)
    <3>1. PICK x \in 1..n : b[i] = <<t[x], 1>> /\ (LinkOpen(b, i - 1) <=> TokOpen(t, x - 1))
      BY <1>8, <2>1 DEF LinkStart
    <3>2. t[x] = "link"
      BY <2>1, <3>1 DEF LinkStart
    <3>. QED  BY <1>6, <3>1, <3>2
  <2>2. ASSUME NEW i \in 1..Len(b), b[i] = LinkEnd
        PROVE  LinkOpen(b, i - 1)
    <3>1. PICK x \in 1..n : b[i] = <<t[x], 1>> /\ (LinkOpen(b, i - 1) <=> TokOpen(t, x - 1))
      BY <1>8, <2>2 DEF LinkEnd
    <3>2. t[x] = "unlink"
      BY <2>2, <3>1 DEF LinkEnd
    <3>. QED  BY <1>7, <3>1, <3>2
  <2>3. ~LinkOpen(b, Len(b))
    BY <1>5 DEF FollowsTokens, n
  <2>. QED  BY <2>1, <2>2, <2>3 DEF LinksPaired
<1>10. ASSUME ~Nested(t)
       PROVE  ColoursOutside(b)
  <2>1. ASSUME NEW i \in 1..Len(b), b[i] \in {<<"color", 1>>, <<"restore", 1>>}
        PROVE  ~LinkOpen(b, i - 1)
    <3>1. b[i][2] = 1
      BY <2>1
    <3>2. PICK x \in 1..n : b[i] = <<t[x], 1>> /\ (LinkOpen(b, i - 1) <=> TokOpen(t, x - 1))
      BY <1>8, <3>1
    <3>3. t[x] \in {"color", "restore"}
      BY <2>1, <3>2
    <3>4. SUFFICES ASSUME TokOpen(t, x - 1)
                   PROVE  FALSE
      BY <3>2
    <3>5. PICK j \in 1..(x - 1), k \in x..n :
                /\ t[j] = "link" /\ t[k] = "unlink"
                /\ \A h \in j..(x - 1) : t[h] # "unlink"
      BY <1>4, <3>4
    <3>6. x # k
      BY <3>3, <3>5
    <3>7. j \in DOMAIN t /\ x \in DOMAIN t /\ k \in DOMAIN t /\ j < x /\ x < k
      BY <1>1, <3>6
    <3>8. \A h \in j..x : t[h] # "unlink"
      <4>1. \A h \in j..x : h = x \/ h \in j..(x - 1)
        BY <3>7
      <4>. QED  BY <3>3, <3>5, <4>1
    <3>. QED  BY <1>10, <3>3, <3>5, <3>7, <3>8 DEF Nested
  <2>. QED  BY <2>1 DEF ColoursOutside
<1>11. ASSUME t = <<>> \/ t[1] \notin Ends
       PROVE  HeadPlain(b)
  <2>1. CASE n = 0
    <3>1. Len(b) = 0
      BY <2>1 DEF FollowsTokens, n
    <3>2. b = <<>>
      BY <1>1, <3>1, EmptySeq
    <3>. QED  BY <3>2 DEF HeadPlain
  <2>2. CASE n # 0
    <3>1. b[1] = <<t[1], 1>>
      BY <2>2 DEF FollowsTokens, n
    <3>2. t # <<>>
      BY <2>2, EmptySeq DEF n
    <3>. QED  BY <1>11, <3>1, <3>2 DEF HeadPlain
  <2>. QED  BY <2>1, <2>2
<1>. QED  BY <1>9, <1>10, <1>11

LEMMA SetKeepsText ==
    ASSUME NEW t \in Seq(Tokens), TokensPaired(t), Insert(<<>>, 0, Bytes(t), FALSE),
           oddities' = {q \in {"nested"} : Nested(t)}
              \cup {q \in {"headless"} : t # <<>> /\ t[1] \in Ends}
    PROVE  TextKept' /\ Length' = Len(text') /\ cursor' = Length'
<1>1. PICK b : b = Bytes(t)
  OBVIOUS
<1>2. FollowsTokens(b, t, Len(t))
  BY <1>1, BytesFollow
<1>3. WholeTokens(b) /\ b \in Seq(TextBytes) /\ Len(b) \in Nat
  BY <1>2, LenProperties DEF FollowsTokens, WholeTokens
<1>4. PICK c : c = Pasted(<<>>, 0, b)
  OBVIOUS
<1>5. c = b
  <2>1. <<>> \in Seq(TextBytes) /\ Len(<<>>) = 0 /\ 0 \in 0..Len(<<>>)
    BY EmptySeq
  <2>2. c \in Seq(TextBytes) /\ HasPasted(c, <<>>, 0, b)
    BY <1>3, <1>4, <2>1, PasteIsSpliced
  <2>3. Len(c) = 0 + Len(b) + (0 - 0) /\ \A i \in 1..Len(b) : c[0 + i] = b[i]
    BY <2>1, <2>2 DEF HasPasted, Spliced
  <2>4. Len(c) = Len(b)
    BY <1>3, <2>3
  <2>5. ASSUME NEW i \in 1..Len(c)
        PROVE  c[i] = b[i]
    <3>1. 0 + i = i /\ i \in 1..Len(b)
      BY <2>4
    <3>. QED  BY <2>3, <3>1
  <2>. QED  BY <1>3, <2>2, <2>4, <2>5, SeqEqual
<1>6. text' = b /\ info' = Parse(b) /\ cursor' = 0 + Len(b)
  <2>1. text' = c /\ info' = Parse(c) /\ cursor' = 0 + Len(b)
    BY <1>1, <1>4 DEF Insert, Pasted
  <2>. QED  BY <1>5, <2>1
<1>7. cursor' = Len(b)
  BY <1>3, <1>6
<1>8. Tracked'
  <2>1. Marked(Parse(b), b)
    BY <1>3, ParseMarks
  <2>. QED  BY <1>3, <1>6, <2>1 DEF Tracked
<1>9. Standing(text', cursor')
  <2>1. Standing(b, Len(b))
    BY <1>3 DEF Standing, Border
  <2>. QED  BY <1>6, <1>7, <2>1
<1>10. /\ LinksPaired(b)
       /\ ~Nested(t) => ColoursOutside(b)
       /\ t = <<>> \/ t[1] \notin Ends => HeadPlain(b)
  BY <1>2, PairedFollows
<1>11. /\ "broken" \notin oddities'
       /\ "nested" \notin oddities' => ~Nested(t)
       /\ "headless" \notin oddities' => t = <<>> \/ t[1] \notin Ends
  OBVIOUS
<1>12. TextKept'
  BY <1>6, <1>8, <1>9, <1>10, <1>11 DEF TextKept
<1>. QED  BY <1>6, <1>7, <1>12 DEF Length

-----------------------------------------------------------------------------
(* Moving and deleting. *)

\* The backward search leaves the array only in a text that begins with an end code, or
\* in which a link was cut.
LEMMA StopsInside ==
    ASSUME TextKept, cursor > 0, Stops(cursor) = {}
    PROVE  oddities \cap {"headless", "broken"} # {}
<1>1. SUFFICES ASSUME "headless" \notin oddities, "broken" \notin oddities
               PROVE  FALSE
  OBVIOUS
<1>2. /\ Tracked /\ Standing(text, cursor) /\ info = Parse(text) /\ HeadPlain(text)
      /\ text \in Seq(TextBytes) /\ WholeTokens(text)
  BY <1>1 DEF TextKept, Tracked, WholeTokens
<1>3. Length \in Nat /\ Len(text) = Length /\ cursor \in 0..Length
  BY <1>2, TokensAre DEF Length, Standing, Border
<1>4. 1 \in 1..Len(text) /\ text # <<>>
  <2>1. 1 \in 1..Len(text)
    BY <1>3
  <2>. QED  BY <2>1, EmptySeq
<1>5. text[1] \in TextBytes /\ text[1][2] # 2
  BY <1>2, <1>4, ElementOfSeq DEF WholeTokens
<1>6. text[0 + 1][2] = 1
  BY <1>5 DEF TextBytes
<1>7. 0 \in TokenOffsets
  <2>1. 0 \in 0..(Length - 1)
    BY <1>3, <1>4
  <2>. QED  BY <1>2, <1>6, <2>1, TokensAre
<1>8. Passes(0)
  BY <1>7 DEF Stops
<1>9. At(0).code \notin Ends
  <2>1. At(0).code = text[0 + 1][1]
    BY <1>2, <1>7, TokensAre
  <2>. QED  BY <1>2, <1>4, <2>1 DEF HeadPlain
<1>10. At(0).linked /\ At(0).code # "link"
  BY <1>8, <1>9 DEF Passes
<1>11. InLink(text, 0 + 1)
  BY <1>2, <1>7, <1>10, LinkedMeans
<1>12. text[1] = LinkStart
  <2>1. 1 \in Nat \ {0} /\ 0 + 1 = 1 /\ 1 - 1 = 0
    OBVIOUS
  <2>2. LinkOpen(text, 1 - 1) \/ text[1] = LinkStart
    BY <1>11, <2>1, InLinkIfOpen
  <2>. QED  BY <2>1, <2>2, NothingOpen
<1>13. 1 \in 1..Length /\ 1 - 1 = 0
  BY <1>3, <1>4
<1>. QED  BY <1>2, <1>10, <1>12, <1>13, LinkCodes

\* The keys lead to the places between tokens where the cursor may stand.
LEMMA StandingOffset ==
    ASSUME TextKept
    PROVE  /\ Tracked /\ Border(text, cursor) /\ cursor \in 0..Length /\ Length \in Nat
           /\ Standing(text, Forward(cursor)) /\ Forward(cursor) \in cursor..Length
           /\ Stops(cursor) # {} =>
                /\ Standing(text, Backward(cursor)) /\ Border(text, Backward(cursor))
                /\ Backward(cursor) \in 0..cursor
<1>1. Tracked /\ Standing(text, cursor) /\ Border(text, cursor)
  BY DEF TextKept, Standing
<1>2. Length \in Nat /\ cursor \in 0..Length
  BY <1>1, TokensAre DEF Border, Length
<1>3. Standing(text, Forward(cursor)) /\ Forward(cursor) \in cursor..Length
  <2>1. /\ Forward(cursor) \in cursor..Length /\ Border(text, Forward(cursor))
        /\ At(Forward(cursor)).code \notin Ends
    BY <1>1, ForwardIs
  <2>. QED  BY <1>1, <2>1, StandingIs
<1>4. ASSUME Stops(cursor) # {}
      PROVE  /\ Standing(text, Backward(cursor)) /\ Border(text, Backward(cursor))
             /\ Backward(cursor) \in 0..cursor
  <2>1. /\ Backward(cursor) \in TokenOffsets /\ Backward(cursor) < cursor
        /\ At(Backward(cursor)).code \notin Ends
    BY <1>1, <1>2, <1>4, BackwardIs
  <2>2. Border(text, Backward(cursor))
    BY <1>1, <2>1, BorderIs
  <2>3. Backward(cursor) \in 0..(Length - 1)
    BY <1>1, <2>1, TokensAre
  <2>4. Backward(cursor) \in 0..cursor
    BY <1>2, <2>1, <2>3
  <2>. QED  BY <1>1, <2>1, <2>2, <2>4, StandingIs
<1>. QED  BY <1>1, <1>2, <1>3, <1>4

-----------------------------------------------------------------------------
(* The inductive invariant and the steps. *)

\* What is known of the members that are not the text.
TextRest ==
    /\ size \in Nat /\ Length + 1 <= size
    /\ dirty \subseteq {"text", "user"} /\ doing \in {"nothing", "report", "key"}
    /\ key \in Keys \cup {"none"}
    /\ unreported \in BOOLEAN /\ byUser \in BOOLEAN
    /\ oddities \subseteq Oddities

TextInv == TextKept /\ TextRest /\ ReportKept /\ ReadsInside /\ NoLetterIntoLink

LEMMA TextInvSound ==
    TextInv => TextSound
<1>1. SUFFICES ASSUME TextInv
               PROVE  TextSound
  OBVIOUS
<1>2. Tracked /\ Standing(text, cursor) /\ Border(text, cursor)
  BY <1>1 DEF TextInv, TextKept, Standing
<1>3. text \in Seq(TextBytes) /\ info \in Seq(InfoRecords)
  BY <1>2 DEF Tracked, WholeTokens, Marked
<1>4. cursor \in 0..Length /\ cursor \in TokenOffsets \cup {Length}
  BY <1>2, BorderIs DEF Border, Length
<1>5. EditTypeOK
  BY <1>1, <1>3, <1>4 DEF TextInv, TextRest, EditTypeOK, TextBytes, InfoRecords
<1>6. InfoIsParse /\ CursorOnToken /\ LinksWhole
  BY <1>1, <1>4 DEF TextInv, TextKept, InfoIsParse, CursorOnToken, LinksWhole
<1>. QED  BY <1>1, <1>5, <1>6 DEF TextInv, TextSound, ReportKept

LEMMA InitText ==
    EditInit => TextInv
<1>1. SUFFICES ASSUME EditInit
               PROVE  TextInv
  OBVIOUS
<1>2. /\ text = <<>> /\ info = <<Zero>> /\ size = Block /\ cursor = 0
      /\ dirty = {} /\ doing = "nothing" /\ key = "none"
      /\ unreported = FALSE /\ byUser = FALSE /\ oddities = {}
  BY <1>1 DEF EditInit
<1>3. <<>> \in Seq(TextBytes) /\ Len(<<>>) = 0 /\ \A i \in 1..0 : FALSE
  BY EmptySeq
<1>4. WholeTokens(<<>>) /\ ~LinkOpen(<<>>, 0)
  BY <1>3, NothingOpen DEF WholeTokens
<1>5. Parse(<<>>) = <<Zero>>
  <2>1. /\ Parse(<<>>) \in Seq(InfoRecords) /\ Len(Parse(<<>>)) = 0 + 1
        /\ Parse(<<>>)[0 + 1] = Zero
    BY <1>3, ParseType
  <2>2. PICK p : p = Parse(<<>>)
    OBVIOUS
  <2>3. p \in Seq(InfoRecords) /\ Len(p) = 1 /\ p[1] = Zero
    BY <2>1, <2>2
  <2>4. Zero \in InfoRecords
    <3>1. 1 \in 1..Len(p)
      BY <2>3
    <3>. QED  BY <2>3, <3>1, ElementOfSeq
  <2>5. <<Zero>> \in Seq(InfoRecords) /\ Len(<<Zero>>) = 1 /\ <<Zero>>[1] = Zero
    BY <2>4
  <2>6. \A i \in 1..Len(p) : p[i] = <<Zero>>[i]
    BY <2>3, <2>5
  <2>7. p = <<Zero>>
    BY <2>3, <2>5, <2>6, SeqEqual
  <2>. QED  BY <2>2, <2>7
<1>6. Marked(<<Zero>>, <<>>)
  BY <1>3, <1>5, ParseMarks
<1>7. Tracked
  BY <1>2, <1>4, <1>6 DEF Tracked
<1>8. Standing(text, cursor)
  BY <1>2, <1>3 DEF Standing, Border
<1>9. LinksPaired(text) /\ ColoursOutside(text) /\ HeadPlain(text)
  BY <1>2, <1>3, <1>4 DEF LinksPaired, ColoursOutside, HeadPlain
<1>10. TextKept
  BY <1>2, <1>5, <1>7, <1>8, <1>9 DEF TextKept
<1>11. TextRest
  <2>1. Length = 0 /\ Block \in Nat \ {0}
    BY <1>2, <1>3, EditTextAssumption DEF Length
  <2>2. Block \in Nat /\ 0 + 1 <= Block
    BY <2>1
  <2>. QED  BY <1>2, <2>1, <2>2 DEF TextRest
<1>12. ReportKept /\ ReadsInside /\ NoLetterIntoLink
  BY <1>2 DEF ReportKept, ChangeReported, ReadsInside, NoLetterIntoLink
<1>. QED  BY <1>10, <1>11, <1>12 DEF TextInv

LEMMA InsertGrows ==
    ASSUME NEW b, NEW o, NEW token, NEW user, Insert(b, o, token, user),
           size \in Nat, Length' = Len(text'), TextKept'
    PROVE  size' \in Nat /\ Length' + 1 <= size'
<1>1. size' = GrowText(Len(text'))
  BY DEF Insert
<1>2. Len(text') \in Nat
  <2>1. text' \in Seq(TextBytes)
    BY DEF TextKept, Tracked, WholeTokens
  <2>. QED  BY <2>1, LenProperties
<1>3. PICK n : n = Len(text')
  OBVIOUS
<1>4. GrowText(n) \in Nat /\ n + 1 <= GrowText(n)
  BY <1>2, <1>3, GrowsEnough
<1>. QED  BY <1>1, <1>3, <1>4

LEMMA CharKeepsText ==
    ASSUME TextInv, OnLayerChar
    PROVE  TextInv'
<1>1. PICK letter \in Letters : Insert(text, cursor, BytesOf(letter), TRUE)
  BY DEF OnLayerChar
<1>2. TextKept /\ TextRest /\ ReportKept /\ ReadsInside /\ NoLetterIntoLink
  BY DEF TextInv
<1>3. oddities' = oddities
  <2>1. cursor \in Nat
    BY <1>2, StandingOffset
  <2>2. ~ (At(cursor).linked /\ cursor > 0 /\ At(cursor - 1).code = "char")
    BY <2>1, NeverIntrudes DEF OnLayerChar
  <2>. QED  BY <2>2 DEF OnLayerChar
<1>4. TextKept' /\ Length' = Len(text')
  BY <1>1, <1>2, <1>3, TypedKeepsText
<1>5. size' \in Nat /\ Length' + 1 <= size'
  BY <1>1, <1>2, <1>4, InsertGrows DEF TextRest
<1>6. /\ dirty' = {"text"} \cup {flag \in {"user"} : TRUE}
      /\ byUser' = TRUE /\ unreported' = TRUE
  BY <1>1 DEF Insert
<1>7. doing' = "nothing" /\ key' = key
  BY DEF OnLayerChar
<1>8. TextRest'
  BY <1>2, <1>3, <1>5, <1>6, <1>7 DEF TextRest
<1>9. ReportKept'
  BY <1>6, <1>7 DEF ReportKept, ChangeReported
<1>10. ReadsInside' /\ NoLetterIntoLink'
  BY <1>2, <1>3 DEF ReadsInside, NoLetterIntoLink
<1>. QED  BY <1>4, <1>8, <1>9, <1>10 DEF TextInv

LEMMA SetKeepsAll ==
    ASSUME TextsPaired, TextInv, SetText
    PROVE  TextInv'
<1>1. PICK t \in ScriptTexts :
        /\ Insert(<<>>, 0, Bytes(t), FALSE)
        /\ oddities' = {q \in {"nested"} : Nested(t)}
            \cup {q \in {"headless"} : t # <<>> /\ t[1] \in Ends}
  BY DEF SetText
<1>2. t \in Seq(Tokens) /\ TokensPaired(t)
  BY EditTextAssumption DEF TextsPaired
<1>3. TextKept' /\ Length' = Len(text')
  BY <1>1, <1>2, SetKeepsText
<1>4. TextRest /\ doing' = doing /\ key' = key
  BY DEF TextInv, SetText
<1>5. size' \in Nat /\ Length' + 1 <= size'
  BY <1>1, <1>3, <1>4, InsertGrows DEF TextRest
<1>6. /\ dirty' = {"text"} \cup {flag \in {"user"} : FALSE}
      /\ byUser' = FALSE /\ unreported' = TRUE
  BY <1>1 DEF Insert
<1>7. oddities' \subseteq {"nested", "headless"}
  BY <1>1
<1>8. TextRest'
  BY <1>4, <1>5, <1>6, <1>7 DEF TextRest, Oddities
<1>9. ReportKept'
  BY <1>6 DEF ReportKept, ChangeReported
<1>10. ReadsInside' /\ NoLetterIntoLink'
  BY <1>7 DEF ReadsInside, NoLetterIntoLink
<1>. QED  BY <1>3, <1>8, <1>9, <1>10 DEF TextInv

LEMMA TextUntouched ==
    ASSUME TextKept, text' = text, info' = info, Standing(text, cursor'),
           oddities \subseteq oddities', oddities' \subseteq oddities \cup {"underrun"}
    PROVE  TextKept' /\ Length' = Length
<1>1. Tracked' /\ Standing(text', cursor')
  BY DEF TextKept, Tracked
<1>2. /\ "broken" \in oddities' <=> "broken" \in oddities
      /\ "nested" \in oddities' <=> "nested" \in oddities
      /\ "headless" \in oddities' <=> "headless" \in oddities
  OBVIOUS
<1>3. TextKept'
  BY <1>1, <1>2 DEF TextKept
<1>. QED  BY <1>3 DEF Length

LEMMA ReportsKeepText ==
    ASSUME TextInv, EditUpdates \/ UpdateSizes \/ Reported \/ OnLayerKeyDown
    PROVE  TextInv'
<1>1. TextKept /\ TextRest /\ ReportKept /\ ReadsInside /\ NoLetterIntoLink
  BY DEF TextInv
<1>2. UNCHANGED <<text, info, size, cursor, byUser, oddities>>
  BY DEF EditUpdates, UpdateSizes, Reported, OnLayerKeyDown
<1>3. TextKept' /\ Length' = Length
  <2>1. Standing(text, cursor')
    BY <1>1, <1>2 DEF TextKept
  <2>. QED  BY <1>1, <1>2, <2>1, TextUntouched
<1>4. ReadsInside' /\ NoLetterIntoLink'
  BY <1>1, <1>2 DEF ReadsInside, NoLetterIntoLink
<1>5. CASE EditUpdates \/ OnLayerKeyDown
  <2>1. /\ dirty' = dirty \ {"text"} /\ doing' \in {"report", "nothing", "key"}
        /\ unreported' = (unreported /\ "text" \notin dirty)
        /\ key' = key \/ key' \in Keys
    BY <1>5 DEF EditUpdates, OnLayerKeyDown, UpdateDirtyBits
  <2>2. unreported' = FALSE
    BY <1>1, <2>1 DEF ReportKept, ChangeReported, TextRest
  <2>3. TextRest'
    BY <1>1, <1>2, <1>3, <2>1, <2>2 DEF TextRest
  <2>4. ReportKept'
    BY <1>1, <1>5, <2>1, <2>2
    DEF ReportKept, ChangeReported, EditUpdates, OnLayerKeyDown, UpdateDirtyBits
  <2>. QED  BY <1>3, <1>4, <2>3, <2>4 DEF TextInv
<1>6. CASE Reported
  <2>1. /\ dirty' = dirty \ {"user"} /\ doing' \in {"nothing", "key"} /\ doing = "report"
        /\ key' = key /\ unreported' = unreported
    BY <1>6 DEF Reported, ClearsUser
  <2>2. TextRest'
    BY <1>1, <1>2, <1>3, <2>1 DEF TextRest
  <2>3. ReportKept'
    BY <1>1, <1>2, <2>1 DEF ReportKept, ChangeReported
  <2>. QED  BY <1>3, <1>4, <2>2, <2>3 DEF TextInv
<1>7. CASE UpdateSizes
  <2>1. dirty' = dirty \cup {"text"} /\ UNCHANGED <<doing, key, unreported>>
    BY <1>7 DEF UpdateSizes
  <2>2. TextRest' /\ ReportKept'
    BY <1>1, <1>2, <1>3, <2>1 DEF TextRest, ReportKept, ChangeReported
  <2>. QED  BY <1>3, <1>4, <2>2 DEF TextInv
<1>. QED  BY <1>5, <1>6, <1>7

\* A key after which the text is as it was.
LEMMA MoveKeepsText ==
    ASSUME TextInv, KeyHandled, TextStays, Standing(text, cursor'),
           \/ oddities' = oddities
           \/ oddities' = oddities \cup {"underrun"} /\ oddities \cap {"headless", "broken"} # {}
    PROVE  TextInv'
<1>1. TextKept /\ TextRest /\ ReportKept /\ ReadsInside /\ NoLetterIntoLink
  BY DEF TextInv
<1>2. /\ UNCHANGED <<text, info, size, dirty, unreported, byUser>>
      /\ doing' = "nothing" /\ key' = "none"
  BY DEF TextStays, KeyHandled
<1>3. oddities \subseteq oddities' /\ oddities' \subseteq oddities \cup {"underrun"}
  OBVIOUS
<1>4. TextKept' /\ Length' = Length
  BY <1>1, <1>2, <1>3, TextUntouched
<1>5. TextRest'
  BY <1>1, <1>2, <1>3, <1>4 DEF TextRest, Oddities
<1>6. ReportKept'
  BY <1>1, <1>2 DEF ReportKept, ChangeReported, KeyHandled
<1>7. NoLetterIntoLink'
  BY <1>1, <1>3 DEF NoLetterIntoLink
<1>8. ReadsInside'
  BY <1>1 DEF ReadsInside
<1>. QED  BY <1>4, <1>5, <1>6, <1>7, <1>8 DEF TextInv

LEMMA DeleteKeepsAll ==
    ASSUME TextInv, KeyHandled, "underrun" \notin oddities,
           NEW from, NEW to, Border(text, from), Standing(text, to), from <= to,
           DeleteSubstring(from, to)
    PROVE  TextInv'
<1>1. TextKept /\ TextRest /\ ReportKept /\ ReadsInside /\ NoLetterIntoLink
  BY DEF TextInv
<1>2. /\ dirty' = {"text", "user"} /\ byUser' = TRUE /\ unreported' = TRUE /\ size' = size
      /\ doing' = "nothing" /\ key' = "none"
  BY DEF DeleteSubstring, KeyHandled
<1>3. /\ TextKept' /\ Length' <= Length
      /\ oddities \subseteq oddities' /\ oddities' \subseteq oddities \cup {"broken"}
  BY <1>1, DeleteKeepsText
<1>4. TextRest'
  <2>1. Length \in Nat /\ Length' \in Nat
    <3>1. text \in Seq(TextBytes) /\ text' \in Seq(TextBytes)
      BY <1>1, <1>3 DEF TextKept, Tracked, WholeTokens
    <3>. QED  BY <3>1, LenProperties DEF Length
  <2>2. Length' + 1 <= size' /\ size' \in Nat
    <3>1. PICK n, k : n = Length /\ k = Length'
      OBVIOUS
    <3>2. n \in Nat /\ k \in Nat /\ k <= n /\ n + 1 <= size /\ size \in Nat
      BY <1>1, <1>3, <2>1, <3>1 DEF TextRest
    <3>3. k + 1 <= size
      BY <3>2
    <3>. QED  BY <1>2, <3>1, <3>2, <3>3
  <2>. QED  BY <1>1, <1>2, <1>3, <2>2 DEF TextRest, Oddities
<1>5. ReportKept'
  BY <1>2 DEF ReportKept, ChangeReported
<1>6. ReadsInside' /\ NoLetterIntoLink'
  BY <1>1, <1>3 DEF ReadsInside, NoLetterIntoLink
<1>. QED  BY <1>3, <1>4, <1>5, <1>6 DEF TextInv

LEMMA KeysKeepText ==
    ASSUME TextInv, "underrun" \notin oddities,
           MoveForward \/ DeleteForward \/ MoveBackward \/ DeleteBackward
    PROVE  TextInv'
<1>1. TextKept
  BY DEF TextInv
<1>2. /\ Tracked /\ Border(text, cursor) /\ cursor \in 0..Length /\ Length \in Nat
      /\ Standing(text, Forward(cursor)) /\ Forward(cursor) \in cursor..Length
      /\ Stops(cursor) # {} =>
           /\ Standing(text, Backward(cursor)) /\ Border(text, Backward(cursor))
           /\ Backward(cursor) \in 0..cursor
  BY <1>1, StandingOffset
<1>3. Standing(text, cursor)
  BY <1>1 DEF TextKept
<1>4. KeyHandled
  BY DEF MoveForward, DeleteForward, MoveBackward, DeleteBackward
<1>5. CASE MoveForward
  <2>1. TextStays /\ oddities' = oddities /\ Standing(text, cursor')
    BY <1>2, <1>3, <1>5 DEF MoveForward
  <2>. QED  BY <1>4, <2>1, MoveKeepsText
<1>6. CASE DeleteForward
  <2>1. CASE cursor < Length
    <3>1. DeleteSubstring(cursor, Forward(cursor))
      BY <1>6, <2>1 DEF DeleteForward
    <3>2. cursor <= Forward(cursor)
      BY <1>2
    <3>. QED  BY <1>2, <1>4, <3>1, <3>2, DeleteKeepsAll
  <2>2. CASE ~ cursor < Length
    <3>1. TextStays /\ oddities' = oddities /\ Standing(text, cursor')
      BY <1>3, <1>6, <2>2 DEF DeleteForward
    <3>. QED  BY <1>4, <3>1, MoveKeepsText
  <2>. QED  BY <2>1, <2>2
<1>7. CASE MoveBackward
  <2>1. TextStays
    BY <1>7 DEF MoveBackward
  <2>2. CASE cursor = 0 \/ Stops(cursor) # {}
    <3>1. oddities' = oddities /\ cursor' = IF cursor = 0 THEN 0 ELSE Backward(cursor)
      BY <1>7, <2>2 DEF MoveBackward
    <3>2. Standing(text, cursor')
      BY <1>2, <1>3, <2>2, <3>1
    <3>. QED  BY <1>4, <2>1, <3>1, <3>2, MoveKeepsText
  <2>3. CASE ~ (cursor = 0 \/ Stops(cursor) # {})
    <3>1. oddities' = oddities \cup {"underrun"} /\ cursor' = cursor
      BY <1>7, <2>3 DEF MoveBackward
    <3>2. Standing(text, cursor')
      BY <1>3, <3>1
    <3>3. oddities \cap {"headless", "broken"} # {}
      BY <1>1, <1>2, <2>3, StopsInside
    <3>. QED  BY <1>4, <2>1, <3>1, <3>2, <3>3, MoveKeepsText
  <2>. QED  BY <2>2, <2>3
<1>8. CASE DeleteBackward
  <2>1. CASE cursor = 0
    <3>1. TextStays /\ oddities' = oddities /\ Standing(text, cursor')
      BY <1>3, <1>8, <2>1 DEF DeleteBackward
    <3>. QED  BY <1>4, <3>1, MoveKeepsText
  <2>2. CASE cursor # 0 /\ Stops(cursor) # {}
    <3>1. DeleteSubstring(Backward(cursor), cursor)
      BY <1>8, <2>2 DEF DeleteBackward
    <3>2. Backward(cursor) <= cursor
      BY <1>2, <2>2
    <3>. QED  BY <1>2, <1>3, <1>4, <2>2, <3>1, <3>2, DeleteKeepsAll
  <2>3. CASE cursor # 0 /\ Stops(cursor) = {}
    <3>1. oddities' = oddities \cup {"underrun"} /\ cursor' = cursor /\ TextStays
      BY <1>8, <2>3 DEF DeleteBackward
    <3>2. Standing(text, cursor')
      BY <1>3, <3>1
    <3>3. oddities \cap {"headless", "broken"} # {}
      BY <1>1, <1>2, <2>3, StopsInside
    <3>. QED  BY <1>4, <3>1, <3>2, <3>3, MoveKeepsText
  <2>. QED  BY <2>1, <2>2, <2>3
<1>. QED  BY <1>5, <1>6, <1>7, <1>8

LEMMA NextText ==
    ASSUME TextsPaired, TextInv, [EditNext]_editVars
    PROVE  TextInv'
<1>1. CASE EditNext
  <2>1. "underrun" \notin oddities
    BY <1>1 DEF EditNext
  <2>2. CASE OnLayerChar
    BY <2>2, CharKeepsText
  <2>3. CASE EditUpdates \/ UpdateSizes \/ Reported \/ OnLayerKeyDown
    BY <2>3, ReportsKeepText
  <2>4. CASE MoveForward \/ DeleteForward \/ MoveBackward \/ DeleteBackward
    BY <2>1, <2>4, KeysKeepText
  <2>5. CASE SetText
    BY <2>5, SetKeepsAll
  <2>. QED  BY <1>1, <2>2, <2>3, <2>4, <2>5 DEF EditNext
<1>2. CASE UNCHANGED editVars
  BY <1>2 DEF editVars, TextInv, TextKept, Tracked, TextRest, ReportKept, ChangeReported,
        ReadsInside, NoLetterIntoLink, Length
<1>. QED  BY <1>1, <1>2

\* The inductive invariant behind the next two: what typing, deleting and setting keep of
\* CSimpleEditBox's text, m_textInfo and cursor if links in texts of scripts are paired.
THEOREM TextInvHolds ==
    ASSUME TextsPaired
    PROVE  EditSpec => []TextInv
<1>1. EditInit => TextInv
  BY InitText
<1>2. TextInv /\ [EditNext]_editVars => TextInv'
  BY NextText
<1>. QED  BY <1>1, <1>2, PTL DEF EditSpec

\* Whatever the user types, deletes and walks over and whatever scripts set in which
\* links are paired: CSimpleEditBox's m_textInfo is that of its text, the cursor is
\* between tokens, links stay whole, and every change is reported as what it is.
THEOREM TextAlwaysSound ==
    ASSUME TextsPaired
    PROVE  EditSpec => []TextSound
<1>1. TextInv => TextSound
  BY TextInvSound
<1>. QED  BY <1>1, TextInvHolds, PTL

-----------------------------------------------------------------------------
(* Letters that a key deletes. *)

\* The letters that stay outside links are still there, shifted if they are behind the
\* part that is deleted; and one letter p at most is in that part.
LEMMA OneLetterLess ==
    ASSUME TextKept, "broken" \notin oddities,
           NEW from, NEW to, Border(text, from), Standing(text, to), from <= to,
           DeleteSubstring(from, to), NEW p,
           \A q \in TokenOffsets : from <= q /\ q < to /\ q # p => q \notin LettersOutside
    PROVE  Cardinality(LettersOutside) - Cardinality(LettersOutside') <= 1
<1>. DEFINE l == Leftmost(from)
            r == Rightmost(to)
            S == LettersOutside
            T == LettersOutside'
            h(o) == IF o < l THEN o ELSE o - r + l
            f == [o \in S \ {p} |-> h(o)]
<1>1. Tracked /\ info = Parse(text)
  BY DEF TextKept
<1>2. /\ l \in 0..from /\ r \in to..Length
      /\ Spliced(text', text, l, r, 0) /\ Tracked' /\ Spliced(info', info, l, r, 0)
  BY <1>1, Deleted
<1>3. /\ Length \in Nat /\ Length' \in Nat /\ Len(info) = Length + 1 /\ Len(text) = Length
      /\ Len(text') = Length'
  <2>1. text \in Seq(TextBytes) /\ text' \in Seq(TextBytes) /\ Len(info) = Len(text) + 1
    BY <1>1, <1>2 DEF Tracked, WholeTokens, Marked
  <2>. QED  BY <2>1, LenProperties DEF Length
<1>4. \A q \in TokenOffsets : q \in 0..(Length - 1)
  BY <1>1, TokensAre
<1>5. /\ \A q \in TokenOffsets : l <= q /\ q < from => At(q).code \in Starts \/ At(q).linked
      /\ \A q \in TokenOffsets : to <= q /\ q < r => At(q).code \in Ends \/ At(q).linked
  <2>1. Border(text, to)
    BY DEF Standing
  <2>. QED  BY <1>1, <2>1, LeftmostLinks, RightmostLinks
<1>6. from \in 0..Length /\ to \in 0..Length
  BY <1>3 DEF Standing, Border
<1>. HIDE DEF l, r
<1>7. l \in Nat /\ r \in Nat /\ l <= r /\ r <= Length /\ Length' = l + (Length - r)
  BY <1>2, <1>3 DEF Spliced
<1>8. /\ \A i \in 1..l : info'[i] = info[i]
      /\ \A i \in (r + 1)..(Length + 1) : info'[i - r + l + 0] = info[i]
  BY <1>2, <1>3 DEF Spliced
<1>9. \A o \in S : o \in TokenOffsets /\ At(o).code \in Letters /\ ~At(o).linked /\ At(o) # Zero
  BY DEF LettersOutside, TokenOffsets
<1>10. ASSUME NEW o \in S \ {p}
       PROVE  o < l \/ o >= r
  <2>1. o \in TokenOffsets /\ o \in 0..(Length - 1)
    BY <1>4, <1>9
  <2>2. At(o).code \notin Starts /\ At(o).code \notin Ends /\ ~At(o).linked
    BY <1>9 DEF Letters, Starts, Ends
  <2>3. ~ (l <= o /\ o < from) /\ ~ (to <= o /\ o < r)
    BY <1>5, <2>1, <2>2
  <2>4. ~ (from <= o /\ o < to)
    BY <2>1
  <2>. QED  BY <1>6, <1>7, <2>1, <2>3, <2>4
<1>11. ASSUME NEW o \in S \ {p}
       PROVE  h(o) \in T
  <2>1. o \in 0..(Length - 1) /\ (o < l \/ o >= r)
    BY <1>4, <1>9, <1>10
  <2>2. PICK x : x = h(o)
    OBVIOUS
  <2>3. x \in 0..(Length' - 1) /\ info'[x + 1] = info[o + 1]
    <3>1. CASE o < l
      <4>1. x = o /\ o + 1 \in 1..l
        BY <1>7, <2>1, <2>2, <3>1
      <4>2. x \in 0..(Length' - 1)
        BY <1>3, <1>7, <2>1, <3>1, <4>1
      <4>. QED  BY <1>8, <4>1, <4>2
    <3>2. CASE ~ o < l
      <4>1. x = o - r + l /\ o >= r
        BY <2>1, <2>2, <3>2
      <4>2. /\ o + 1 \in (r + 1)..(Length + 1) /\ (o + 1) - r + l + 0 = x + 1
            /\ x \in 0..(Length' - 1)
        BY <1>3, <1>7, <2>1, <4>1
      <4>3. info'[(o + 1) - r + l + 0] = info[o + 1]
        BY <1>8, <4>2
      <4>. QED  BY <4>2, <4>3
    <3>. QED  BY <3>1, <3>2
  <2>4. info[o + 1] # Zero /\ info[o + 1].code \in Letters /\ ~info[o + 1].linked
    BY <1>9 DEF At
  <2>5. x \in LettersOutside'
    BY <2>3, <2>4 DEF LettersOutside, TokenOffsets, At
  <2>. QED  BY <2>2, <2>5
<1>12. ASSUME NEW a \in S \ {p}, NEW b \in S \ {p}, a # b
       PROVE  h(a) # h(b)
  <2>1. a \in Int /\ b \in Int /\ (a < l \/ a >= r) /\ (b < l \/ b >= r)
    BY <1>4, <1>9, <1>10
  <2>. QED  BY <1>7, <1>12, <2>1
<1>13. IsFiniteSet(S) /\ IsFiniteSet(T)
  <2>1. IsFiniteSet(0..(Length - 1)) /\ IsFiniteSet(0..(Length' - 1))
    <3>1. PICK n, k : n = Length - 1 /\ k = Length' - 1
      OBVIOUS
    <3>2. n \in Int /\ k \in Int /\ 0 \in Int
      BY <1>3, <3>1
    <3>3. IsFiniteSet(0..n) /\ IsFiniteSet(0..k)
      BY <3>2, FS_Interval
    <3>. QED  BY <3>1, <3>3
  <2>2. S \subseteq 0..(Length - 1)
    BY <1>4, <1>9
  <2>3. T \subseteq 0..(Length' - 1)
    BY DEF LettersOutside, TokenOffsets
  <2>. HIDE DEF S, T
  <2>. QED  BY <2>1, <2>2, <2>3, FS_Subset
<1>. HIDE DEF S, T, h
<1>14. f \in [S \ {p} -> T] /\ \A a \in S \ {p} : f[a] = h(a)
  BY <1>11
<1>. HIDE DEF f
<1>15. Cardinality(S) \in Nat /\ Cardinality(T) \in Nat
  BY <1>13, FS_CardinalityType
<1>16. /\ IsFiniteSet(S \ {p}) /\ Cardinality(S \ {p}) \in Nat
       /\ Cardinality(S) <= Cardinality(S \ {p}) + 1
  <2>1. IsFiniteSet(S \ {p})
    BY <1>13, FS_Subset
  <2>2. Cardinality(S \ {p}) \in Nat
    BY <2>1, FS_CardinalityType
  <2>3. Cardinality(S \ {p}) = IF p \in S THEN Cardinality(S) - 1 ELSE Cardinality(S)
    BY <1>13, FS_RemoveElement
  <2>. QED  BY <1>15, <2>1, <2>2, <2>3
<1>17. ~ Cardinality(T) < Cardinality(S \ {p})
  <2>1. SUFFICES ASSUME Cardinality(T) < Cardinality(S \ {p})
                 PROVE  FALSE
    OBVIOUS
  <2>2. PICK s : s = S \ {p}
    OBVIOUS
  <2>3. \E a, b \in s : a # b /\ f[a] = f[b]
    BY <1>13, <1>14, <1>16, <2>1, <2>2, FS_PigeonHole
  <2>. QED  BY <1>12, <1>14, <2>2, <2>3
<1>18. Cardinality(S) - Cardinality(T) <= 1
  BY <1>15, <1>16, <1>17
<1>. QED  BY <1>18 DEF S, T

LEMMA KeyDeletesOne ==
    ASSUME TextInv, [EditNext]_editVars, doing = "key", "broken" \notin oddities
    PROVE  Cardinality(LettersOutside) - Cardinality(LettersOutside') <= 1
<1>1. TextKept
  BY DEF TextInv
<1>2. /\ Tracked /\ Border(text, cursor) /\ cursor \in 0..Length /\ Length \in Nat
      /\ Standing(text, Forward(cursor)) /\ Forward(cursor) \in cursor..Length
      /\ Stops(cursor) # {} =>
           /\ Standing(text, Backward(cursor)) /\ Border(text, Backward(cursor))
           /\ Backward(cursor) \in 0..cursor
  BY <1>1, StandingOffset
<1>3. Standing(text, cursor)
  BY <1>1 DEF TextKept
<1>4. ASSUME NEW q \in TokenOffsets, At(q).code \in Starts \cup Ends \/ Passes(q)
      PROVE  q \notin LettersOutside
  BY <1>4 DEF LettersOutside, Passes, Letters, Starts, Ends
<1>5. ASSUME DeleteSubstring(cursor, Forward(cursor))
      PROVE  Cardinality(LettersOutside) - Cardinality(LettersOutside') <= 1
  <2>1. PICK p \in cursor..Length : \A q \in TokenOffsets :
            cursor <= q /\ q < Forward(cursor) /\ q # p => At(q).code \in Starts \cup Ends
    BY <1>2, ForwardIs
  <2>2. \A q \in TokenOffsets :
            cursor <= q /\ q < Forward(cursor) /\ q # p => q \notin LettersOutside
    BY <1>4, <2>1
  <2>3. cursor <= Forward(cursor)
    BY <1>2
  <2>. QED  BY <1>1, <1>2, <1>5, <2>2, <2>3, OneLetterLess
<1>6. ASSUME DeleteSubstring(Backward(cursor), cursor), Stops(cursor) # {}
      PROVE  Cardinality(LettersOutside) - Cardinality(LettersOutside') <= 1
  <2>1. PICK g \in TokenOffsets : \A q \in TokenOffsets :
            Backward(cursor) <= q /\ q < cursor /\ q # g => At(q).code \in Starts \/ Passes(q)
    BY <1>2, <1>6, BackwardIs
  <2>2. \A q \in TokenOffsets :
            Backward(cursor) <= q /\ q < cursor /\ q # g => q \notin LettersOutside
    BY <1>4, <2>1
  <2>3. Backward(cursor) <= cursor
    BY <1>2, <1>6
  <2>. QED  BY <1>1, <1>2, <1>3, <1>6, <2>2, <2>3, OneLetterLess
<1>7. ASSUME text' = text, info' = info
      PROVE  Cardinality(LettersOutside) - Cardinality(LettersOutside') <= 1
  <2>1. LettersOutside' = LettersOutside
    BY <1>7 DEF LettersOutside, TokenOffsets, At, Length
  <2>2. Cardinality(LettersOutside) \in Nat
    <3>1. IsFiniteSet(0..(Length - 1))
      BY <1>2, FS_Interval
    <3>2. LettersOutside \subseteq 0..(Length - 1)
      BY DEF LettersOutside, TokenOffsets
    <3>3. IsFiniteSet(LettersOutside)
      BY <3>1, <3>2, FS_Subset
    <3>. QED  BY <3>3, FS_CardinalityType
  <2>3. PICK n : n = Cardinality(LettersOutside)
    OBVIOUS
  <2>4. n - n <= 1
    BY <2>2, <2>3
  <2>. QED  BY <2>1, <2>3, <2>4
<1>8. CASE MoveForward \/ MoveBackward
  <2>1. text' = text /\ info' = info
    BY <1>8 DEF MoveForward, MoveBackward, TextStays
  <2>. QED  BY <1>7, <2>1
<1>9. CASE DeleteForward
  <2>1. DeleteSubstring(cursor, Forward(cursor)) \/ (text' = text /\ info' = info)
    BY <1>9 DEF DeleteForward, TextStays
  <2>. QED  BY <1>5, <1>7, <2>1
<1>10. CASE DeleteBackward
  <2>1. \/ Stops(cursor) # {} /\ DeleteSubstring(Backward(cursor), cursor)
        \/ text' = text /\ info' = info
    BY <1>10 DEF DeleteBackward, TextStays
  <2>. QED  BY <1>6, <1>7, <2>1
<1>11. CASE UNCHANGED editVars
  <2>1. text' = text /\ info' = info
    BY <1>11 DEF editVars
  <2>. QED  BY <1>7, <2>1
<1>12. ~ (OnLayerChar \/ EditUpdates \/ UpdateSizes \/ Reported \/ OnLayerKeyDown \/ SetText)
  BY DEF OnLayerChar, EditUpdates, UpdateSizes, Reported, OnLayerKeyDown, SetText
<1>13. EditNext \/ UNCHANGED editVars
  OBVIOUS
<1>. QED  BY <1>8, <1>9, <1>10, <1>11, <1>12, <1>13 DEF EditNext

\* A key of CSimpleEditBox deletes at most one letter that is in no hyperlink.
THEOREM KeysDeleteOne ==
    ASSUME TextsPaired
    PROVE  EditSpec => DeletesOne
<1>1. TextInv /\ [EditNext]_editVars =>
        [doing = "key" /\ "broken" \notin oddities =>
            Cardinality(LettersOutside) - Cardinality(LettersOutside') <= 1]_editVars
  BY KeyDeletesOne
<1>. QED  BY <1>1, TextInvHolds, PTL DEF EditSpec, DeletesOne

============================================================================
