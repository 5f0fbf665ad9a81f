------------------------- MODULE IntrusiveListLemmas -------------------------
(***************************************************************************)
(* What the list operations return: their type, the members they keep,     *)
(* that they never make a member occur twice, and when they keep an order. *)
(* What becomes of a sequence when a part of it is replaced, and how a     *)
(* sequence of sequences is made one.  What the lesser and the greater of  *)
(* two numbers are, and what remainders are.                               *)
(***************************************************************************)
EXTENDS IntrusiveList, SequenceTheorems, FiniteSetTheorems, TLAPS

\* Concatenation, element by element.
LEMMA ConcatElements ==
    ASSUME NEW S, NEW s \in Seq(S), NEW t \in Seq(S), NEW n,
           n = Len(s) + Len(t)
    PROVE  /\ s \o t \in Seq(S)
           /\ Len(s \o t) = n
           /\ \A i \in 1..n : i <= Len(s) => (s \o t)[i] = s[i]
           /\ \A i \in 1..n : i > Len(s) => (s \o t)[i] = t[i - Len(s)]
BY ConcatProperties

\* Removing position k shifts what follows it.
LEMMA RemoveAtProperties ==
    ASSUME NEW S, NEW list \in Seq(S), NEW k \in 1..Len(list)
    PROVE  /\ RemoveAt(list, k) \in Seq(S)
           /\ Len(RemoveAt(list, k)) = Len(list) - 1
           /\ \A j \in 1..(Len(list) - 1) :
                /\ j < k => RemoveAt(list, k)[j] = list[j]
                /\ j >= k => RemoveAt(list, k)[j] = list[j + 1]
<1>. DEFINE front == SubSeq(list, 1, k - 1)
            back  == SubSeq(list, k + 1, Len(list))
<1>1. front \in Seq(S) /\ Len(front) = k - 1
      /\ \A j \in 1..(k - 1) : front[j] = list[j]
  BY SubSeqProperties, ElementOfSeq
<1>2. back \in Seq(S) /\ Len(back) = Len(list) - k
      /\ \A j \in 1..(Len(list) - k) : back[j] = list[k + j]
  BY SubSeqProperties, ElementOfSeq
<1>3. RemoveAt(list, k) = front \o back
  BY DEF RemoveAt
<1>. HIDE DEF front, back
<1>4. /\ front \o back \in Seq(S)
      /\ Len(front \o back) = Len(list) - 1
      /\ \A j \in 1..(Len(list) - 1) : j <= k - 1 => (front \o back)[j] = front[j]
      /\ \A j \in 1..(Len(list) - 1) :
           j >= k => (front \o back)[j] = back[j - (k - 1)]
  <2>. DEFINE n == Len(list) - 1
  <2>1. n \in Nat /\ n = Len(front) + Len(back)
    BY <1>1, <1>2
  <2>2. \A j \in 1..n : j >= k => j > k - 1
    OBVIOUS
  <2>. HIDE DEF n
  <2>3. /\ front \o back \in Seq(S)
        /\ Len(front \o back) = n
        /\ \A j \in 1..n : j <= Len(front) => (front \o back)[j] = front[j]
        /\ \A j \in 1..n :
             j > Len(front) => (front \o back)[j] = back[j - Len(front)]
    <3>1. front \in Seq(S) /\ back \in Seq(S)
      BY <1>1, <1>2
    <3>. QED  BY <2>1, <3>1, ConcatElements
  <2>4. /\ front \o back \in Seq(S)
        /\ Len(front \o back) = n
        /\ \A j \in 1..n : j <= k - 1 => (front \o back)[j] = front[j]
        /\ \A j \in 1..n : j >= k => (front \o back)[j] = back[j - (k - 1)]
    BY <1>1, <2>2, <2>3
  <2>. QED  BY <2>4 DEF n
<1>5. ASSUME NEW j \in 1..(Len(list) - 1)
      PROVE  /\ j < k => (front \o back)[j] = list[j]
             /\ j >= k => (front \o back)[j] = list[j + 1]
  <2>1. CASE j < k
    BY <1>1, <1>4, <2>1
  <2>2. CASE j >= k
    <3>. DEFINE i == j - (k - 1)
    <3>1. i \in 1..(Len(list) - k) /\ k + i = j + 1 /\ ~ (j < k)
      BY <2>2
    <3>2. (front \o back)[j] = back[i]
      BY <1>4, <2>2
    <3>. HIDE DEF i
    <3>3. back[i] = list[j + 1]
      BY <1>2, <3>1
    <3>. QED  BY <3>1, <3>2, <3>3
  <2>. QED  BY <2>1, <2>2
<1>. QED  BY <1>3, <1>4, <1>5

\* Inserting at position k shifts what was there and after it.
LEMMA InsertAtProperties ==
    ASSUME NEW S, NEW list \in Seq(S), NEW o \in S,
           NEW k \in 1..(Len(list) + 1)
    PROVE  /\ InsertAt(list, k, o) \in Seq(S)
           /\ Len(InsertAt(list, k, o)) = Len(list) + 1
           /\ InsertAt(list, k, o)[k] = o
           /\ \A j \in 1..(Len(list) + 1) :
                /\ j < k => InsertAt(list, k, o)[j] = list[j]
                /\ j > k => InsertAt(list, k, o)[j] = list[j - 1]
<1>. DEFINE front == SubSeq(list, 1, k - 1)
            back  == SubSeq(list, k, Len(list))
            mid   == front \o <<o>>
<1>1. front \in Seq(S) /\ Len(front) = k - 1
      /\ \A j \in 1..(k - 1) : front[j] = list[j]
  BY SubSeqProperties, ElementOfSeq
<1>2. back \in Seq(S) /\ Len(back) = Len(list) - k + 1
      /\ \A j \in 1..(Len(list) - k + 1) : back[j] = list[k + j - 1]
  BY SubSeqProperties, ElementOfSeq
<1>3. InsertAt(list, k, o) = mid \o back
  BY DEF InsertAt
<1>. HIDE DEF front, back
<1>4. mid \in Seq(S) /\ Len(mid) = k /\ mid[k] = o
      /\ \A j \in 1..(k - 1) : mid[j] = list[j]
  <2>1. <<o>> \in Seq(S) /\ Len(<<o>>) = 1 /\ <<o>>[1] = o
    OBVIOUS
  <2>2. k \in Nat /\ k = Len(front) + Len(<<o>>)
    BY <1>1, <2>1
  <2>3. /\ mid \in Seq(S)
        /\ Len(mid) = k
        /\ \A j \in 1..k : j <= Len(front) => mid[j] = front[j]
        /\ \A j \in 1..k : j > Len(front) => mid[j] = <<o>>[j - Len(front)]
    BY <1>1, <2>1, <2>2, ConcatElements
  <2>4. mid[k] = <<o>>[k - (k - 1)] /\ k - (k - 1) = 1
    BY <1>1, <2>3
  <2>. QED  BY <1>1, <2>1, <2>3, <2>4
<1>. HIDE DEF mid
<1>5. /\ mid \o back \in Seq(S)
      /\ Len(mid \o back) = Len(list) + 1
      /\ \A j \in 1..(Len(list) + 1) : j <= k => (mid \o back)[j] = mid[j]
      /\ \A j \in 1..(Len(list) + 1) : j > k => (mid \o back)[j] = back[j - k]
  <2>. DEFINE n == Len(list) + 1
  <2>1. n \in Nat /\ n = Len(mid) + Len(back)
    BY <1>2, <1>4
  <2>. HIDE DEF n
  <2>2. /\ mid \o back \in Seq(S)
        /\ Len(mid \o back) = n
        /\ \A j \in 1..n : j <= k => (mid \o back)[j] = mid[j]
        /\ \A j \in 1..n : j > k => (mid \o back)[j] = back[j - k]
    <3>1. mid \in Seq(S) /\ back \in Seq(S)
      BY <1>2, <1>4
    <3>2. /\ mid \o back \in Seq(S)
          /\ Len(mid \o back) = n
          /\ \A j \in 1..n : j <= Len(mid) => (mid \o back)[j] = mid[j]
          /\ \A j \in 1..n : j > Len(mid) => (mid \o back)[j] = back[j - Len(mid)]
      BY <2>1, <3>1, ConcatElements
    <3>. QED  BY <1>4, <3>2
  <2>. QED  BY <2>2 DEF n
<1>6. ASSUME NEW j \in 1..(Len(list) + 1)
      PROVE  /\ j < k => (mid \o back)[j] = list[j]
             /\ j > k => (mid \o back)[j] = list[j - 1]
  <2>1. CASE j < k
    BY <1>4, <1>5, <2>1
  <2>2. CASE j > k
    <3>1. j - k \in 1..(Len(list) - k + 1) /\ k + (j - k) - 1 = j - 1
      BY <2>2
    <3>2. (mid \o back)[j] = back[j - k]
      BY <1>5, <2>2
    <3>. QED  BY <1>2, <2>2, <3>1, <3>2
  <2>3. CASE j = k
    BY <2>3
  <2>. QED  BY <2>1, <2>2, <2>3
<1>7. (mid \o back)[k] = o
  BY <1>4, <1>5
<1>. QED  BY <1>3, <1>5, <1>6, <1>7

\* Unlinking removes exactly the object.
LEMMA UnlinkProperties ==
    ASSUME NEW S, NEW list \in Seq(S), NEW o
    PROVE  /\ Unlink(list, o) \in Seq(S)
           /\ NoRepeats(list) =>
                /\ Members(Unlink(list, o)) = Members(list) \ {o}
                /\ NoRepeats(Unlink(list, o))
<1>1. CASE \E i \in DOMAIN list : list[i] = o
  <2>1. PICK k : k = (CHOOSE i \in DOMAIN list : list[i] = o)
    OBVIOUS
  <2>2. k \in 1..Len(list) /\ list[k] = o
    BY <1>1, <2>1
  <2>. DEFINE r == RemoveAt(list, k)
  <2>3. /\ r \in Seq(S)
        /\ Len(r) = Len(list) - 1
        /\ \A j \in 1..(Len(list) - 1) :
             /\ j < k => r[j] = list[j]
             /\ j >= k => r[j] = list[j + 1]
    BY <2>2, RemoveAtProperties
  <2>4. Unlink(list, o) = r
    BY <1>1, <2>1 DEF Unlink
  <2>. HIDE DEF r
  <2>5. ASSUME NoRepeats(list)
        PROVE  /\ Members(r) = Members(list) \ {o}
               /\ NoRepeats(r)
    <3>. DEFINE old(j) == IF j < k THEN j ELSE j + 1
    <3>1. NoRepeats(r)
      <4>1. SUFFICES ASSUME NEW i \in 1..Len(r), NEW j \in 1..Len(r), r[i] = r[j]
                     PROVE  i = j
        BY <2>3 DEF NoRepeats
      <4>2. /\ old(i) \in 1..Len(list) /\ old(j) \in 1..Len(list)
            /\ r[i] = list[old(i)] /\ r[j] = list[old(j)]
        BY <2>2, <2>3
      <4>3. \A a, b \in 1..Len(list) : list[a] = list[b] => a = b
        BY <2>5 DEF NoRepeats
      <4>4. list[old(i)] = list[old(j)]
        BY <4>1, <4>2
      <4>5. old(i) = old(j)
        <5>. HIDE DEF old
        <5>. QED  BY <4>2, <4>3, <4>4
      <4>. QED  BY <2>2, <2>3, <4>5
    <3>2. Members(r) \subseteq Members(list) \ {o}
      <4>1. SUFFICES ASSUME NEW i \in 1..Len(r)
                     PROVE  r[i] \in Members(list) \ {o}
        BY <2>3 DEF Members
      <4>2. old(i) \in 1..Len(list) /\ old(i) # k /\ r[i] = list[old(i)]
        BY <2>2, <2>3
      <4>. QED  BY <2>2, <2>5, <4>2 DEF Members, NoRepeats
    <3>3. ASSUME NEW x \in Members(list) \ {o}
          PROVE  x \in Members(r)
      <4>1. PICK i \in 1..Len(list) : list[i] = x
        BY DEF Members
      <4>2. i # k
        BY <2>2, <4>1
      <4>3. CASE i < k
        <5>1. i \in 1..Len(r) /\ r[i] = x
          BY <2>2, <2>3, <4>1, <4>3
        <5>. QED  BY <2>3, <5>1 DEF Members
      <4>4. CASE i > k
        <5>1. i - 1 \in 1..Len(r) /\ r[i - 1] = x
          BY <2>2, <2>3, <4>1, <4>4
        <5>. QED  BY <2>3, <5>1 DEF Members
      <4>. QED  BY <2>2, <4>2, <4>3, <4>4
    <3>. QED  BY <3>1, <3>2, <3>3
  <2>. QED  BY <2>3, <2>4, <2>5
<1>2. CASE ~ \E i \in DOMAIN list : list[i] = o
  BY <1>2 DEF Unlink, Members
<1>. QED  BY <1>1, <1>2

\* Linking an object in adds exactly the object.
LEMMA InsertAtMembers ==
    ASSUME NEW S, NEW list \in Seq(S), NEW o \in S,
           NEW k \in 1..(Len(list) + 1), NoRepeats(list), o \notin Members(list)
    PROVE  /\ Members(InsertAt(list, k, o)) = Members(list) \cup {o}
           /\ NoRepeats(InsertAt(list, k, o))
<1>. DEFINE r == InsertAt(list, k, o)
<1>1. /\ r \in Seq(S)
      /\ Len(r) = Len(list) + 1
      /\ r[k] = o
      /\ \A j \in 1..(Len(list) + 1) :
           /\ j < k => r[j] = list[j]
           /\ j > k => r[j] = list[j - 1]
  <2>1. r \in Seq(S) /\ Len(r) = Len(list) + 1 /\ r[k] = o
    BY InsertAtProperties
  <2>2. ASSUME NEW j \in 1..(Len(list) + 1)
        PROVE  (j < k => r[j] = list[j]) /\ (j > k => r[j] = list[j - 1])
    BY InsertAtProperties
  <2>. QED  BY <2>1, <2>2, Zenon
<1>. HIDE DEF r
<1>2. \A i \in 1..Len(list) : list[i] # o
  BY DEF Members
<1>3. NoRepeats(r)
  <2>1. SUFFICES ASSUME NEW i \in 1..Len(r), NEW j \in 1..Len(r),
                        r[i] = r[j], i < j
                 PROVE  FALSE
    BY <1>1 DEF NoRepeats
  <2>2. CASE j < k
    BY <1>1, <2>1, <2>2 DEF NoRepeats
  <2>3. CASE j = k
    BY <1>1, <1>2, <2>1, <2>3
  <2>4. CASE j > k /\ i = k
    BY <1>1, <1>2, <2>1, <2>4
  <2>5. CASE j > k /\ i < k
    <3>1. i \in 1..Len(list) /\ j - 1 \in 1..Len(list) /\ list[i] = list[j - 1]
      BY <1>1, <2>1, <2>5
    <3>. QED  BY <2>5, <3>1 DEF NoRepeats
  <2>6. CASE i > k
    <3>1. i - 1 \in 1..Len(list) /\ j - 1 \in 1..Len(list)
          /\ list[i - 1] = list[j - 1]
      BY <1>1, <2>1, <2>6
    <3>. QED  BY <2>1, <3>1 DEF NoRepeats
  <2>. QED  BY <2>1, <2>2, <2>3, <2>4, <2>5, <2>6
<1>4. Members(r) \subseteq Members(list) \cup {o}
  BY SMTT(30), <1>1 DEF Members
<1>5. ASSUME NEW x \in Members(list)
      PROVE  x \in Members(r)
  <2>1. PICK i \in 1..Len(list) : list[i] = x
    BY DEF Members
  <2>2. CASE i < k
    <3>1. i \in 1..Len(r) /\ r[i] = x
      BY <1>1, <2>1, <2>2
    <3>. QED  BY <1>1, <3>1 DEF Members
  <2>3. CASE i >= k
    <3>. DEFINE m == i + 1
    <3>1. m \in 1..(Len(list) + 1) /\ m > k /\ m - 1 = i
      BY <2>1, <2>3
    <3>. HIDE DEF m
    <3>2. m \in 1..Len(r) /\ r[m] = list[m - 1]
      BY <1>1, <3>1
    <3>3. r[m] = x
      BY <2>1, <3>1, <3>2
    <3>4. m \in DOMAIN r
      BY <1>1, <3>2
    <3>. QED  BY <3>3, <3>4 DEF Members
  <2>. QED  BY <2>1, <2>2, <2>3
<1>6. o \in Members(r)
  BY <1>1 DEF Members
<1>7. Members(r) = Members(list) \cup {o} /\ NoRepeats(r)
  BY <1>3, <1>4, <1>5, <1>6
<1>. QED  BY <1>7 DEF r

LEMMA LinkToHeadProperties ==
    ASSUME NEW S, NEW list \in Seq(S), NEW o \in S
    PROVE  /\ LinkToHead(list, o) \in Seq(S)
           /\ Members(LinkToHead(list, o)) = Members(list) \cup {o}
           /\ NoRepeats(list) /\ o \notin Members(list)
                => NoRepeats(LinkToHead(list, o))
<1>. DEFINE r == LinkToHead(list, o)
<1>1. /\ r \in Seq(S)
      /\ Len(r) = Len(list) + 1
      /\ r[1] = o
      /\ \A j \in 2..(Len(list) + 1) : r[j] = list[j - 1]
  BY ConcatProperties DEF LinkToHead
<1>. HIDE DEF r
<1>2. Members(r) \subseteq Members(list) \cup {o}
  BY <1>1 DEF Members
<1>3. ASSUME NEW x \in Members(list)
      PROVE  x \in Members(r)
  <2>1. PICK i \in 1..Len(list) : list[i] = x
    BY DEF Members
  <2>2. i + 1 \in 1..Len(r) /\ r[i + 1] = x
    BY <1>1, <2>1
  <2>. QED  BY <1>1, <2>2 DEF Members
<1>4. o \in Members(r)
  BY <1>1 DEF Members
<1>5. ASSUME NoRepeats(list), o \notin Members(list)
      PROVE  NoRepeats(r)
  <2>1. \A i \in 1..Len(list) : list[i] # o
    BY <1>5 DEF Members
  <2>2. SUFFICES ASSUME NEW i \in 1..Len(r), NEW j \in 1..Len(r),
                        r[i] = r[j], i < j
                 PROVE  FALSE
    BY <1>1 DEF NoRepeats
  <2>3. j - 1 \in 1..Len(list) /\ r[j] = list[j - 1]
    BY <1>1, <2>2
  <2>4. CASE i = 1
    BY <1>1, <2>1, <2>2, <2>3, <2>4
  <2>5. CASE i > 1
    <3>1. i - 1 \in 1..Len(list) /\ list[i - 1] = list[j - 1] /\ i - 1 # j - 1
      BY <1>1, <2>2, <2>3, <2>5
    <3>. QED  BY <1>5, <2>3, <3>1 DEF NoRepeats
  <2>. QED  BY <2>2, <2>4, <2>5
<1>6. /\ r \in Seq(S)
      /\ Members(r) = Members(list) \cup {o}
      /\ NoRepeats(list) /\ o \notin Members(list) => NoRepeats(r)
  BY <1>1, <1>2, <1>3, <1>4, <1>5
<1>. QED  BY <1>6 DEF r

\* Appending to a list, and taking its head.
LEMMA AppendMembers ==
    ASSUME NEW S, NEW list \in Seq(S), NEW o \in S
    PROVE  /\ Members(Append(list, o)) = Members(list) \cup {o}
           /\ NoRepeats(list) /\ o \notin Members(list)
                => NoRepeats(Append(list, o))
<1>. DEFINE r == Append(list, o)
<1>1. /\ r \in Seq(S)
      /\ Len(r) = Len(list) + 1
      /\ \A j \in 1..Len(list) : r[j] = list[j]
      /\ r[Len(list) + 1] = o
  BY AppendProperties
<1>. HIDE DEF r
<1>2. Members(r) \subseteq Members(list) \cup {o}
  BY <1>1 DEF Members
<1>3. Members(list) \cup {o} \subseteq Members(r)
  BY <1>1 DEF Members
<1>4. NoRepeats(list) /\ o \notin Members(list) => NoRepeats(r)
  BY <1>1 DEF NoRepeats, Members
<1>5. /\ Members(r) = Members(list) \cup {o}
      /\ NoRepeats(list) /\ o \notin Members(list) => NoRepeats(r)
  BY <1>2, <1>3, <1>4
<1>. QED  BY <1>5 DEF r

LEMMA HeadTailMembers ==
    ASSUME NEW S, NEW list \in Seq(S), list # <<>>
    PROVE  /\ Head(list) \in S /\ Tail(list) \in Seq(S)
           /\ Head(list) \in Members(list)
           /\ NoRepeats(list) =>
                /\ Members(Tail(list)) = Members(list) \ {Head(list)}
                /\ NoRepeats(Tail(list))
<1>. DEFINE h == Head(list)
            t == Tail(list)
<1>1. /\ h \in S /\ t \in Seq(S)
      /\ Len(list) >= 1 /\ h = list[1]
      /\ Len(t) = Len(list) - 1
      /\ \A i \in 1..Len(t) : t[i] = list[i + 1]
  BY HeadTailProperties
<1>. HIDE DEF h, t
<1>2. h \in Members(list)
  BY <1>1 DEF Members
<1>3. ASSUME NoRepeats(list)
      PROVE  Members(t) = Members(list) \ {h} /\ NoRepeats(t)
  <2>1. NoRepeats(t)
    <3>1. SUFFICES ASSUME NEW i \in 1..Len(t), NEW j \in 1..Len(t), t[i] = t[j]
                   PROVE  i = j
      BY <1>1 DEF NoRepeats
    <3>2. /\ i + 1 \in 1..Len(list) /\ j + 1 \in 1..Len(list)
          /\ list[i + 1] = list[j + 1]
      BY <1>1, <3>1
    <3>3. i + 1 = j + 1
      BY <1>3, <3>2 DEF NoRepeats
    <3>. QED  BY <3>3
  <2>2. ASSUME NEW x \in Members(t)
        PROVE  x \in Members(list) \ {h}
    <3>1. PICK i \in 1..Len(t) : t[i] = x
      BY SMTT(30) DEF Members
    <3>2. /\ i + 1 \in 1..Len(list) /\ 1 \in 1..Len(list) /\ i + 1 # 1
          /\ list[i + 1] = x /\ list[1] = h
      BY <1>1, <3>1
    <3>3. list[i + 1] # list[1]
      BY <1>3, <3>2 DEF NoRepeats
    <3>. QED  BY <3>2, <3>3 DEF Members
  <2>3. ASSUME NEW x \in Members(list) \ {h}
        PROVE  x \in Members(t)
    <3>1. PICK i \in 1..Len(list) : list[i] = x
      BY DEF Members
    <3>2. i - 1 \in 1..Len(t) /\ t[i - 1] = x
      BY <1>1, <3>1
    <3>. QED  BY <3>2 DEF Members
  <2>. QED  BY <2>1, <2>2, <2>3
<1>4. /\ h \in S /\ t \in Seq(S) /\ h \in Members(list)
      /\ NoRepeats(list) => Members(t) = Members(list) \ {h} /\ NoRepeats(t)
  BY <1>1, <1>2, <1>3
<1>. QED  BY <1>4 DEF h, t

----------------------------------------------------------------------------
(* The order of the members by some rank.                                  *)

Ordered(list, rank) ==
    \A i, j \in DOMAIN list : i < j => rank[list[i]] <= rank[list[j]]

LEMMA UnlinkOrdered ==
    ASSUME NEW S, NEW list \in Seq(S), NEW o, NEW rank, Ordered(list, rank)
    PROVE  Ordered(Unlink(list, o), rank)
<1>1. CASE \E i \in DOMAIN list : list[i] = o
  <2>1. PICK k : k = (CHOOSE i \in DOMAIN list : list[i] = o)
    OBVIOUS
  <2>2. k \in 1..Len(list) /\ Unlink(list, o) = RemoveAt(list, k)
    BY <1>1, <2>1 DEF Unlink
  <2>. DEFINE r == RemoveAt(list, k)
              From(j) == IF j < k THEN j ELSE j + 1
  <2>3. /\ r \in Seq(S) /\ Len(r) = Len(list) - 1
        /\ \A j \in 1..(Len(list) - 1) :
             /\ j < k => r[j] = list[j]
             /\ j >= k => r[j] = list[j + 1]
    BY <2>2, RemoveAtProperties
  <2>4. DOMAIN r = 1..(Len(list) - 1) /\ DOMAIN list = 1..Len(list)
    BY <2>3
  <2>. HIDE DEF r
  <2>5. \A j \in DOMAIN r : From(j) \in DOMAIN list /\ r[j] = list[From(j)]
    BY <2>2, <2>3, <2>4
  <2>6. \A i, j \in DOMAIN r : i < j => From(i) < From(j)
    BY <2>2, <2>4
  <2>. HIDE DEF From
  <2>7. Ordered(r, rank)
    BY <2>5, <2>6 DEF Ordered
  <2>. QED  BY <2>2, <2>7 DEF r
<1>2. CASE ~ \E i \in DOMAIN list : list[i] = o
  BY <1>2 DEF Unlink
<1>. QED  BY <1>1, <1>2

LEMMA TailOrdered ==
    ASSUME NEW S, NEW list \in Seq(S), list # <<>>, NEW rank, Ordered(list, rank)
    PROVE  Ordered(Tail(list), rank)
<1>1. /\ DOMAIN Tail(list) = 1..(Len(list) - 1) /\ DOMAIN list = 1..Len(list)
      /\ Len(list) \in Nat
      /\ \A j \in 1..(Len(list) - 1) : Tail(list)[j] = list[j + 1]
  BY HeadTailProperties, LenProperties
<1>. QED  BY <1>1 DEF Ordered

LEMMA InsertAtOrdered ==
    ASSUME NEW S, NEW list \in Seq(S), NEW o \in S, NEW k \in 1..(Len(list) + 1),
           NEW rank, \A s \in S : rank[s] \in Nat, Ordered(list, rank),
           k <= Len(list) => rank[o] <= rank[list[k]],
           \A j \in 1..(k - 1) : rank[list[j]] <= rank[o]
    PROVE  Ordered(InsertAt(list, k, o), rank)
<1>. DEFINE r == InsertAt(list, k, o)
<1>1. /\ r \in Seq(S) /\ Len(r) = Len(list) + 1 /\ r[k] = o
      /\ \A j \in 1..(Len(list) + 1) :
           /\ j < k => r[j] = list[j]
           /\ j > k => r[j] = list[j - 1]
  BY InsertAtProperties
<1>2. DOMAIN r = 1..(Len(list) + 1) /\ DOMAIN list = 1..Len(list) /\ Len(list) \in Nat
  BY <1>1
<1>3. \A j \in DOMAIN list : rank[list[j]] \in Nat
  BY <1>2, ElementOfSeq
<1>4. rank[o] \in Nat
  OBVIOUS
<1>5. \A j \in DOMAIN list : j >= k => rank[o] <= rank[list[j]]
  <2>1. SUFFICES ASSUME NEW j \in DOMAIN list, j >= k
                 PROVE  rank[o] <= rank[list[j]]
    OBVIOUS
  <2>2. k \in DOMAIN list /\ rank[o] <= rank[list[k]]
    BY <1>2, <2>1
  <2>3. rank[list[k]] <= rank[list[j]]
    BY <1>2, <1>3, <2>1, <2>2 DEF Ordered
  <2>. QED  BY <1>3, <1>4, <2>1, <2>2, <2>3
<1>. HIDE DEF r
<1>6. SUFFICES ASSUME NEW i \in DOMAIN r, NEW j \in DOMAIN r, i < j
               PROVE  rank[r[i]] <= rank[r[j]]
  BY DEF Ordered, r
<1>7. CASE i < k /\ j < k
  BY <1>1, <1>2, <1>6, <1>7 DEF Ordered
<1>8. CASE i < k /\ j = k
  BY <1>1, <1>2, <1>6, <1>8
<1>9. CASE i < k /\ j > k
  <2>1. r[i] = list[i] /\ r[j] = list[j - 1] /\ i \in DOMAIN list /\ j - 1 \in DOMAIN list
        /\ i < j - 1
    BY <1>1, <1>2, <1>6, <1>9
  <2>. QED  BY <2>1 DEF Ordered
<1>10. CASE i = k
  <2>1. r[i] = o /\ r[j] = list[j - 1] /\ j - 1 \in DOMAIN list /\ j - 1 >= k
    BY <1>1, <1>2, <1>6, <1>10
  <2>. QED  BY <1>5, <2>1
<1>11. CASE i > k
  <2>1. /\ r[i] = list[i - 1] /\ r[j] = list[j - 1]
        /\ i - 1 \in DOMAIN list /\ j - 1 \in DOMAIN list /\ i - 1 < j - 1
    BY <1>1, <1>2, <1>6, <1>11
  <2>. QED  BY <2>1 DEF Ordered
<1>. QED  BY <1>2, <1>6, <1>7, <1>8, <1>9, <1>10, <1>11

\* What is left of a list keeps its order.
IsSubsequence(rest, list) ==
    \E place \in [DOMAIN rest -> DOMAIN list] :
        /\ \A n \in DOMAIN place : rest[n] = list[place[n]]
        /\ \A m, n \in DOMAIN place : m < n => place[m] < place[n]

LEMMA UnlinkAllProperties ==
    ASSUME NEW T, NEW list \in Seq(T), NEW S
    PROVE  /\ UnlinkAll(list, S) \in Seq(T)
           /\ Members(UnlinkAll(list, S)) = Members(list) \ S
           /\ NoRepeats(list) => NoRepeats(UnlinkAll(list, S))
           /\ IsSubsequence(UnlinkAll(list, S), list)
<1>. DEFINE kept == {i \in DOMAIN list : list[i] \notin S}
            UpTo(i) == {j \in kept : j <= i}
            rank == [i \in kept |-> Cardinality(UpTo(i))]
            N == Cardinality(kept)
            place == [n \in 1..N |-> CHOOSE i \in kept : rank[i] = n]
            r == UnlinkAll(list, S)
<1>1. DOMAIN list = 1..Len(list) /\ Len(list) \in Nat /\ list \in [1..Len(list) -> T]
  BY LenProperties
<1>2. IsFiniteSet(kept) /\ N \in Nat
  <2>1. IsFiniteSet(1..Len(list)) /\ kept \in SUBSET (1..Len(list))
    BY <1>1, FS_Interval
  <2>. QED  BY <2>1, FS_Subset, FS_CardinalityType
<1>3. ASSUME NEW i \in kept
      PROVE  IsFiniteSet(UpTo(i)) /\ rank[i] \in 1..N
  <2>1. UpTo(i) \in SUBSET kept /\ i \in UpTo(i)
    BY <1>1
  <2>2. IsFiniteSet(UpTo(i)) /\ Cardinality(UpTo(i)) <= N
    BY <1>2, <2>1, FS_Subset
  <2>3. Cardinality(UpTo(i)) \in Nat /\ Cardinality(UpTo(i)) # 0
    BY <2>1, <2>2, FS_CardinalityType, FS_EmptySet
  <2>. QED  BY <1>2, <2>2, <2>3
<1>4. ASSUME NEW i \in kept, NEW j \in kept, i < j
      PROVE  rank[i] < rank[j]
  <2>1. UpTo(i) \in SUBSET UpTo(j) /\ j \in UpTo(j) /\ j \notin UpTo(i)
    BY <1>1, <1>4
  <2>2. /\ Cardinality(UpTo(i)) <= Cardinality(UpTo(j))
        /\ Cardinality(UpTo(j)) = Cardinality(UpTo(i)) => UpTo(j) = UpTo(i)
    <3>. HIDE DEF UpTo
    <3>. QED  BY <1>3, <2>1, FS_Subset
  <2>3. UpTo(j) # UpTo(i)
    BY <2>1
  <2>. HIDE DEF UpTo
  <2>. QED  BY <1>2, <1>3, <2>2, <2>3
<1>. HIDE DEF UpTo
<1>5. ASSUME NEW i \in kept, NEW j \in kept
      PROVE  /\ rank[i] = rank[j] => i = j
             /\ rank[i] < rank[j] => i < j
  <2>1. i \in Nat /\ j \in Nat
    BY <1>1
  <2>. QED  BY <1>2, <1>3, <1>4, <2>1
<1>6. \A n \in 1..N : \E i \in kept : rank[i] = n
  <2>1. rank \in Injection(kept, 1..N)
    BY <1>3, <1>5 DEF Injection, IsInjective
  <2>2. IsFiniteSet(1..N) /\ Cardinality(1..N) = N
    BY <1>2, FS_Interval
  <2>3. rank \in Surjection(kept, 1..N)
    BY <1>2, <2>1, <2>2, FS_Injection
  <2>. QED  BY <2>3 DEF Surjection
<1>. HIDE DEF rank
<1>7. ASSUME NEW n \in 1..N
      PROVE  place[n] \in kept /\ rank[place[n]] = n
  BY <1>6
<1>8. r = [n \in 1..N |-> list[place[n]]]
  <2>1. r = [n \in 1..N |-> list[CHOOSE i \in kept : Cardinality(UpTo(i)) = n]]
    BY DEF UnlinkAll, UpTo
  <2>2. ASSUME NEW n \in 1..N
        PROVE  (CHOOSE i \in kept : Cardinality(UpTo(i)) = n) = place[n]
    BY DEF rank
  <2>. QED  BY <2>1, <2>2
<1>. HIDE DEF place, r, N
<1>9. r \in Seq(T) /\ Len(r) = N /\ DOMAIN r = 1..N
  <2>1. \A n \in 1..N : list[place[n]] \in T
    BY <1>1, <1>7
  <2>. QED  BY <1>2, <1>8, <2>1, IsASeq, LenProperties
<1>10. \A m, n \in 1..N : m < n => place[m] < place[n]
  BY <1>5, <1>7
<1>11. place \in [1..N -> DOMAIN list]
  BY <1>7 DEF place
<1>12. Members(r) = Members(list) \ S
  <2>1. ASSUME NEW x \in Members(r)
        PROVE  x \in Members(list) \ S
    <3>1. PICK n \in 1..N : x = list[place[n]]
      BY <1>8, <1>9 DEF Members
    <3>. QED  BY <1>7, <3>1 DEF Members
  <2>2. ASSUME NEW x \in Members(list) \ S
        PROVE  x \in Members(r)
    <3>1. PICK i \in kept : x = list[i]
      BY DEF Members
    <3>2. rank[i] \in 1..N /\ place[rank[i]] = i
      BY <1>3, <1>5, <1>7
    <3>. QED  BY <1>8, <1>9, <3>1, <3>2 DEF Members
  <2>. QED  BY <2>1, <2>2
<1>13. NoRepeats(list) => NoRepeats(r)
  <2>. SUFFICES ASSUME NoRepeats(list), NEW m \in 1..N, NEW n \in 1..N, r[m] = r[n]
                PROVE  m = n
    BY <1>9 DEF NoRepeats
  <2>1. list[place[m]] = list[place[n]]
    BY <1>8
  <2>2. place[m] = place[n]
    BY <1>7, <2>1 DEF NoRepeats
  <2>. QED  BY <1>7, <2>2
<1>14. IsSubsequence(r, list)
  BY <1>8, <1>9, <1>10, <1>11 DEF IsSubsequence
<1>. QED  BY <1>9, <1>12, <1>13, <1>14 DEF r

\* A finite set as a sequence.
LEMMA SetToSeqProperties ==
    ASSUME NEW S, IsFiniteSet(S)
    PROVE  SetToSeq(S) \in Seq(S) /\ Members(SetToSeq(S)) = S /\ NoRepeats(SetToSeq(S))
<1>. DEFINE s == SetToSeq(S)
            N == Cardinality(S)
<1>1. N \in Nat /\ ExistsBijection(1..N, S)
  BY FS_CardinalityType
<1>2. PICK f \in [1..N -> S] : IsInjective(f)
  BY <1>1 DEF ExistsBijection, Bijection, Injection
<1>3. s \in [1..N -> S] /\ IsInjective(s)
  BY <1>2 DEF SetToSeq
<1>. HIDE DEF s
<1>4. s \in Seq(S) /\ DOMAIN s = 1..N
  BY <1>1, <1>3, IsASeq
<1>5. s \in Surjection(1..N, S)
  <2>1. IsFiniteSet(1..N) /\ Cardinality(1..N) = N
    BY <1>1, FS_Interval
  <2>. QED  BY <1>3, <2>1, FS_Injection DEF Injection
<1>6. Members(s) = S
  BY <1>4, <1>5 DEF Members, Surjection
<1>7. NoRepeats(s)
  BY <1>3, <1>4 DEF NoRepeats, IsInjective
<1>. QED  BY <1>4, <1>6, <1>7 DEF s

-----------------------------------------------------------------------------
(* A set of numbers has a least one. *)

LEMMA LeastNatural ==
    ASSUME NEW S \in SUBSET Nat, S # {}
    PROVE  \E n \in S : \A m \in S : n <= m
<1>. DEFINE R == StrictSubsetOrdering(Nat)
            F == FiniteSubsetsOf(Nat)
            T == {0..n : n \in S}
<1>1. IsWellFoundedOn(R, F)
  BY FS_StrictSubsetOrderingWellFounded
<1>2. T \subseteq F /\ T # {}
  <2>1. ASSUME NEW n \in S
        PROVE  0..n \in F
    <3>1. IsFiniteSet(0..n)
      BY FS_Interval
    <3>. QED  BY <3>1 DEF FiniteSubsetsOf
  <2>. QED  BY <2>1
<1>3. PICK x \in T : \A y \in T : ~ (<<y, x>> \in R)
  <2>. HIDE DEF R, F, T
  <2>. QED  BY <1>1, <1>2, WFMin
<1>4. PICK n \in S : x = 0..n
  BY <1>3
<1>5. ASSUME NEW m \in S, m < n
      PROVE  FALSE
  <2>1. 0..m \in T /\ 0..m \subseteq 0..n /\ 0..m # 0..n
    <3>1. n \in 0..n /\ n \notin 0..m
      BY <1>5
    <3>. QED  BY <1>5, <3>1
  <2>2. <<0..m, 0..n>> \in R
    BY <2>1 DEF StrictSubsetOrdering
  <2>. QED  BY <1>3, <1>4, <2>1, <2>2
<1>. QED  BY <1>4, <1>5

\* Concatenation and members.
LEMMA ConcatMembers ==
    ASSUME NEW S, NEW a \in Seq(S), NEW b \in Seq(S)
    PROVE  /\ a \o b \in Seq(S)
           /\ Members(a \o b) = Members(a) \cup Members(b)
           /\ NoRepeats(a) /\ NoRepeats(b) /\ Members(a) \cap Members(b) = {}
                => NoRepeats(a \o b)
<1>. DEFINE c == a \o b
<1>1. /\ c \in Seq(S) /\ Len(c) = Len(a) + Len(b)
      /\ \A i \in 1..Len(c) : i <= Len(a) => c[i] = a[i]
      /\ \A i \in 1..Len(c) : i > Len(a) => c[i] = b[i - Len(a)]
  BY ConcatElements
<1>. HIDE DEF c
<1>2. DOMAIN c = 1..Len(c)
  BY <1>1
<1>3. ASSUME NEW i \in 1..Len(c)
      PROVE  \/ i \in 1..Len(a) /\ c[i] = a[i] /\ a[i] \in Members(a)
             \/ i - Len(a) \in 1..Len(b) /\ c[i] = b[i - Len(a)] /\ c[i] \in Members(b)
  BY <1>1 DEF Members
<1>4. Members(c) \subseteq Members(a) \cup Members(b)
  BY <1>1, <1>3 DEF Members
<1>5. Members(a) \subseteq Members(c)
  BY <1>1 DEF Members
<1>6. Members(b) \subseteq Members(c)
  <2>1. ASSUME NEW i \in 1..Len(b)
        PROVE  i + Len(a) \in 1..Len(c) /\ c[i + Len(a)] = b[i]
    BY <1>1
  <2>2. ASSUME NEW x \in Members(b)
        PROVE  x \in Members(c)
    <3>1. PICK i \in 1..Len(b) : x = b[i]
      BY DEF Members
    <3>. QED  BY <1>2, <2>1, <3>1 DEF Members
  <2>. QED  BY <2>2
<1>7. ASSUME NoRepeats(a), NoRepeats(b), Members(a) \cap Members(b) = {},
             NEW i \in 1..Len(c), NEW j \in 1..Len(c), c[i] = c[j]
      PROVE  i = j
  <2>1. CASE c[i] \in Members(a)
    <3>1. i \in 1..Len(a) /\ c[i] = a[i] /\ j \in 1..Len(a) /\ c[j] = a[j]
      BY <1>3, <1>7, <2>1
    <3>2. \A k, l \in 1..Len(a) : a[k] = a[l] => k = l
      BY <1>7 DEF NoRepeats
    <3>. QED  BY <1>7, <3>1, <3>2
  <2>2. CASE c[i] \notin Members(a)
    <3>1. /\ i - Len(a) \in 1..Len(b) /\ c[i] = b[i - Len(a)]
          /\ j - Len(a) \in 1..Len(b) /\ c[j] = b[j - Len(a)]
      BY <1>3, <1>7, <2>2
    <3>2. \A k, l \in 1..Len(b) : b[k] = b[l] => k = l
      BY <1>7 DEF NoRepeats
    <3>3. i - Len(a) = j - Len(a)
      BY <1>7, <3>1, <3>2
    <3>. QED  BY <3>3
  <2>. QED  BY <2>1, <2>2
<1>8. NoRepeats(a) /\ NoRepeats(b) /\ Members(a) \cap Members(b) = {} => NoRepeats(c)
  BY <1>7, <1>2 DEF NoRepeats
<1>. QED  BY <1>1, <1>4, <1>5, <1>6, <1>8 DEF c

-----------------------------------------------------------------------------
(* Sequences of which a part is replaced. *)

\* In c, the elements l + 1 to r of b are replaced by m others.
Spliced(c, b, l, r, m) ==
    /\ l \in Nat /\ r \in Nat /\ m \in Nat /\ Len(b) \in Nat /\ l <= r /\ r <= Len(b)
    /\ Len(c) = l + m + (Len(b) - r)
    /\ \A i \in 1..l : c[i] = b[i]
    /\ \A i \in (r + 1)..Len(b) : c[i - r + l + m] = b[i]

LEMMA PartOfText ==
    ASSUME NEW S, NEW b \in Seq(S), NEW l \in 0..Len(b)
    PROVE  /\ SubSeq(b, 1, l) \in Seq(S) /\ Len(SubSeq(b, 1, l)) = l
           /\ \A i \in 1..l : SubSeq(b, 1, l)[i] = b[i]
           /\ SubSeq(b, l + 1, Len(b)) \in Seq(S)
           /\ Len(SubSeq(b, l + 1, Len(b))) = Len(b) - l
           /\ \A i \in 1..(Len(b) - l) : SubSeq(b, l + 1, Len(b))[i] = b[i + l]
<1>1. Len(b) \in Nat /\ \A i \in 1..Len(b) : b[i] \in S
  BY LenProperties
<1>2. \A i \in 1..l : b[i] \in S
  BY <1>1
<1>3. /\ SubSeq(b, 1, l) \in Seq(S)
      /\ Len(SubSeq(b, 1, l)) = IF 1 <= l THEN l - 1 + 1 ELSE 0
      /\ \A i \in 1..(l - 1 + 1) : SubSeq(b, 1, l)[i] = b[1 + i - 1]
  BY <1>1, <1>2, SubSeqProperties
<1>4. \A i \in (l + 1)..Len(b) : b[i] \in S
  BY <1>1
<1>5. /\ SubSeq(b, l + 1, Len(b)) \in Seq(S)
      /\ Len(SubSeq(b, l + 1, Len(b))) =
            IF l + 1 <= Len(b) THEN Len(b) - (l + 1) + 1 ELSE 0
      /\ \A i \in 1..(Len(b) - (l + 1) + 1) :
            SubSeq(b, l + 1, Len(b))[i] = b[(l + 1) + i - 1]
  <2>1. l + 1 \in Int /\ Len(b) \in Int
    BY <1>1
  <2>. QED  BY <1>4, <2>1, SubSeqProperties
<1>. QED  BY <1>1, <1>3, <1>5

LEMMA CutIsSpliced ==
    ASSUME NEW S, NEW b \in Seq(S), NEW l \in 0..Len(b), NEW r \in l..Len(b), NEW c,
           c = SubSeq(b, 1, l) \o SubSeq(b, r + 1, Len(b))
    PROVE  c \in Seq(S) /\ Spliced(c, b, l, r, 0)
<1>. DEFINE s == SubSeq(b, 1, l)
            t == SubSeq(b, r + 1, Len(b))
<1>1. Len(b) \in Nat /\ l \in Nat /\ r \in Nat /\ l <= r /\ r <= Len(b)
  BY LenProperties
<1>2. /\ s \in Seq(S) /\ Len(s) = l
      /\ \A i \in 1..l : s[i] = b[i]
  BY PartOfText
<1>3. /\ t \in Seq(S) /\ Len(t) = Len(b) - r
      /\ \A i \in 1..(Len(b) - r) : t[i] = b[i + r]
  <2>1. r \in 0..Len(b)
    BY <1>1
  <2>. QED  BY <2>1, PartOfText
<1>. HIDE DEF s, t
<1>n. PICK n : n = Len(s) + Len(t)
  OBVIOUS
<1>4. /\ s \o t \in Seq(S) /\ Len(s \o t) = n
      /\ \A i \in 1..n : i <= Len(s) => (s \o t)[i] = s[i]
      /\ \A i \in 1..n : i > Len(s) => (s \o t)[i] = t[i - Len(s)]
  <2>1. s \in Seq(S) /\ t \in Seq(S)
    BY <1>2, <1>3
  <2>. QED  BY <1>n, <2>1, ConcatElements
<1>5. c = s \o t
  BY DEF s, t
<1>6. Len(c) = l + 0 + (Len(b) - r)
  <2>1. Len(c) = Len(s) + Len(t)
    BY <1>4, <1>5, <1>n
  <2>2. Len(s) = l /\ Len(t) = Len(b) - r
    BY <1>2, <1>3
  <2>3. l \in Nat /\ r \in Nat /\ Len(b) \in Nat
    BY <1>1
  <2>4. Len(c) = l + (Len(b) - r)
    BY <2>1, <2>2
  <2>5. l + 0 = l
    BY <2>3
  <2>. QED  BY ZenonT(30), <2>4, <2>5
<1>7. ASSUME NEW i \in 1..l
      PROVE  c[i] = b[i]
  <2>1. i \in 1..n /\ i <= Len(s)
    BY <1>1, <1>2, <1>3, <1>n
  <2>. QED  BY <1>2, <1>4, <1>5, <2>1
<1>8. ASSUME NEW i \in (r + 1)..Len(b)
      PROVE  c[i - r + l + 0] = b[i]
  <2>1. PICK k, h : k = i - r + l + 0 /\ h = i - r
    OBVIOUS
  <2>2. k \in 1..n /\ k > Len(s) /\ k - Len(s) = h /\ h \in 1..(Len(b) - r) /\ h + r = i
    BY <1>1, <1>2, <1>3, <1>n, <2>1
  <2>3. c[k] = t[h]
    BY <1>4, <1>5, <2>2
  <2>4. t[h] = b[i]
    BY <1>3, <2>2
  <2>. QED  BY <2>1, <2>3, <2>4
<1>. QED  BY <1>1, <1>4, <1>5, <1>6, <1>7, <1>8 DEF Spliced

Pasted(b, o, mid) == SubSeq(b, 1, o) \o mid \o SubSeq(b, o + 1, Len(b))

HasPasted(c, b, o, mid) ==
    Spliced(c, b, o, o, Len(mid)) /\ \A i \in 1..Len(mid) : c[o + i] = mid[i]

LEMMA PasteIsSpliced ==
    ASSUME NEW S, NEW b \in Seq(S), NEW o \in 0..Len(b), NEW mid \in Seq(S), NEW c,
           c = Pasted(b, o, mid)
    PROVE  c \in Seq(S) /\ HasPasted(c, b, o, mid)
<1>. DEFINE s == SubSeq(b, 1, o)
            t == SubSeq(b, o + 1, Len(b))
            u == s \o mid
            m == Len(mid)
<1>1. Len(b) \in Nat /\ o \in Nat /\ o <= Len(b) /\ m \in Nat
  BY LenProperties
<1>2. /\ s \in Seq(S) /\ Len(s) = o
      /\ \A i \in 1..o : s[i] = b[i]
      /\ t \in Seq(S) /\ Len(t) = Len(b) - o
      /\ \A i \in 1..(Len(b) - o) : t[i] = b[i + o]
  BY PartOfText
<1>. HIDE DEF s, t
<1>g. PICK g : g = Len(s) + Len(mid)
  OBVIOUS
<1>3. /\ u \in Seq(S) /\ Len(u) = g
      /\ \A i \in 1..g : i <= Len(s) => u[i] = s[i]
      /\ \A i \in 1..g : i > Len(s) => u[i] = mid[i - Len(s)]
  BY <1>2, <1>g, ConcatElements
<1>. HIDE DEF u
<1>n. PICK n : n = Len(u) + Len(t)
  OBVIOUS
<1>4. /\ u \o t \in Seq(S) /\ Len(u \o t) = n
      /\ \A i \in 1..n : i <= Len(u) => (u \o t)[i] = u[i]
      /\ \A i \in 1..n : i > Len(u) => (u \o t)[i] = t[i - Len(u)]
  BY <1>2, <1>3, <1>n, ConcatElements
<1>5. c = u \o t
  BY DEF u, s, t, Pasted
<1>6. /\ Len(c) = o + m + (Len(b) - o) /\ Len(u) = o + m /\ Len(s) = o
      /\ n = o + m + (Len(b) - o) /\ g = o + m
  BY <1>1, <1>2, <1>3, <1>4, <1>5, <1>g, <1>n
<1>7. ASSUME NEW i \in 1..o
      PROVE  c[i] = b[i]
  <2>1. /\ i \in 1..n /\ i <= Len(u)
        /\ i \in 1..g /\ i <= Len(s)
    BY <1>1, <1>6
  <2>. QED  BY <1>2, <1>3, <1>4, <1>5, <2>1
<1>8. ASSUME NEW i \in 1..m
      PROVE  c[o + i] = mid[i]
  <2>1. PICK k : k = o + i
    OBVIOUS
  <2>2. k \in 1..n /\ k <= Len(u) /\ k \in 1..g /\ k > Len(s) /\ k - Len(s) = i
    BY <1>1, <1>6, <2>1
  <2>3. u[k] = mid[i]
    BY <1>3, <2>2
  <2>4. c[k] = u[k]
    BY <1>4, <1>5, <2>2
  <2>. QED  BY <2>1, <2>3, <2>4
<1>9. ASSUME NEW i \in (o + 1)..Len(b)
      PROVE  c[i - o + o + m] = b[i]
  <2>1. PICK k, h : k = i - o + o + m /\ h = i - o
    OBVIOUS
  <2>2. k \in 1..n /\ k > Len(u) /\ k - Len(u) = h /\ h \in 1..(Len(b) - o) /\ h + o = i
    BY <1>1, <1>6, <2>1
  <2>3. c[k] = t[h]
    BY <1>4, <1>5, <2>2
  <2>4. t[h] = b[i]
    BY <1>2, <2>2
  <2>. QED  BY <2>1, <2>3, <2>4
<1>10. Spliced(c, b, o, o, m)
  <2>. HIDE DEF m
  <2>1. Len(b) \in Nat /\ o \in Nat /\ o <= Len(b) /\ m \in Nat /\ o <= o
    BY <1>1
  <2>2. Len(c) = o + m + (Len(b) - o)
    BY <1>6
  <2>. QED  BY ZenonT(30), <1>7, <1>9, <2>1, <2>2 DEF Spliced
<1>. QED  BY <1>4, <1>5, <1>8, <1>10 DEF HasPasted

-----------------------------------------------------------------------------
(* A sequence of sequences, made one. *)

\* The recursive function in FlattenSeq exists, and puts one sequence behind another.
Flattens(f, s, n) ==
    /\ FlattenSeq(s) = f[n] /\ f[1] = s[1]
    /\ \A i \in 2..n : f[i] = f[i - 1] \o s[i]

LEMMA FlattenSteps ==
    ASSUME NEW n \in Nat \ {0}, NEW s, Len(s) = n
    PROVE  \E f : Flattens(f, s, n)
<1>. DEFINE Fits(k, g) == g = [i \in 1..k |-> IF i = 1 THEN s[i] ELSE g[i - 1] \o s[i]]
            Bad == {k \in Nat : k >= 1 /\ ~ \E g : Fits(k, g)}
<1>1. ASSUME NEW k \in Nat \ {0}, NEW g, Fits(k, g)
      PROVE  \E h : Fits(k + 1, h)
  <2>1. PICK h : h = [i \in 1..(k + 1) |-> IF i <= k THEN g[i] ELSE g[k] \o s[i]]
    OBVIOUS
  <2>2. ASSUME NEW i \in 1..(k + 1)
        PROVE  h[i] = IF i = 1 THEN s[i] ELSE h[i - 1] \o s[i]
    <3>1. CASE i <= k
      <4>1. i \in 1..k /\ h[i] = g[i]
        BY <2>1, <3>1
      <4>2. g[i] = IF i = 1 THEN s[i] ELSE g[i - 1] \o s[i]
        BY <1>1, <4>1
      <4>3. i # 1 => i - 1 \in 1..(k + 1) /\ i - 1 <= k
        BY <3>1
      <4>4. i # 1 => h[i - 1] = g[i - 1]
        BY <2>1, <4>3
      <4>. QED  BY <4>1, <4>2, <4>4
    <3>2. CASE i = k + 1
      <4>1. i # 1 /\ ~ i <= k /\ i - 1 = k /\ k \in 1..(k + 1) /\ k <= k
        BY <3>2
      <4>2. h[i] = g[k] \o s[i] /\ h[k] = g[k]
        BY <2>1, <4>1
      <4>. QED  BY <4>1, <4>2
    <3>. QED  BY <3>1, <3>2
  <2>3. h = [i \in 1..(k + 1) |-> IF i = 1 THEN s[i] ELSE h[i - 1] \o s[i]]
    BY <2>1, <2>2
  <2>. QED  BY <2>3
<1>2. \E g : Fits(1, g)
  <2>1. PICK g : g = [i \in 1..1 |-> s[i]]
    OBVIOUS
  <2>2. g = [i \in 1..1 |-> IF i = 1 THEN s[i] ELSE g[i - 1] \o s[i]]
    BY <2>1
  <2>. QED  BY <2>2
<1>3. Bad = {}
  <2>1. SUFFICES ASSUME Bad # {}
                 PROVE  FALSE
    OBVIOUS
  <2>2. PICK k \in Bad : \A m \in Bad : k <= m
    <3>1. Bad \in SUBSET Nat
      OBVIOUS
    <3>. HIDE DEF Bad
    <3>. QED  BY <2>1, <3>1, LeastNatural
  <2>3. k \in Nat /\ k >= 1 /\ ~ \E g : Fits(k, g)
    BY <2>2
  <2>. HIDE DEF Fits
  <2>4. k # 1
    BY <1>2, <2>3
  <2>5. k - 1 \in Nat \ {0} /\ k - 1 >= 1 /\ (k - 1) + 1 = k /\ ~ k <= k - 1
    BY <2>3, <2>4
  <2>6. \E g : Fits(k - 1, g)
    BY <2>2, <2>5
  <2>7. \E h : Fits((k - 1) + 1, h)
    BY <1>1, <2>5, <2>6
  <2>. QED  BY <2>3, <2>5, <2>7
<1>4. \E g : Fits(n, g)
  <2>. HIDE DEF Fits
  <2>. QED  BY <1>3
<1>. DEFINE f == CHOOSE g : g = [i \in 1..n |-> IF i = 1 THEN s[i] ELSE g[i - 1] \o s[i]]
<1>5. f = [i \in 1..n |-> IF i = 1 THEN s[i] ELSE f[i - 1] \o s[i]]
  BY <1>4
<1>6. FlattenSeq(s) = f[n]
  BY DEF FlattenSeq
<1>. HIDE DEF f
<1>7. f[1] = s[1]
  <2>1. 1 \in 1..n
    OBVIOUS
  <2>. QED  BY <1>5, <2>1
<1>8. ASSUME NEW i \in 2..n
      PROVE  f[i] = f[i - 1] \o s[i]
  <2>1. i \in 1..n /\ i # 1
    OBVIOUS
  <2>. QED  BY <1>5, <2>1
<1>. QED  BY <1>6, <1>7, <1>8 DEF Flattens

-----------------------------------------------------------------------------
(* The lesser and the greater of two numbers, and remainders. *)

LEMMA MinOfTwo ==
    ASSUME NEW a \in Int, NEW b \in Int
    PROVE  Min({a, b}) = IF a <= b THEN a ELSE b
<1>. DEFINE m == IF a <= b THEN a ELSE b
<1>1. m \in {a, b} /\ (\A y \in {a, b} : m =< y)
  OBVIOUS
<1>2. \A x \in {a, b} : (\A y \in {a, b} : x =< y) => x = m
  OBVIOUS
<1>. HIDE DEF m
<1>3. Min({a, b}) = m
  BY <1>1, <1>2 DEF Min
<1>. QED  BY <1>3 DEF m

LEMMA MaxOfTwo ==
    ASSUME NEW a \in Int, NEW b \in Int
    PROVE  Max({a, b}) = IF a >= b THEN a ELSE b
<1>. DEFINE m == IF a >= b THEN a ELSE b
<1>1. m \in {a, b} /\ (\A y \in {a, b} : m >= y)
  OBVIOUS
<1>2. \A x \in {a, b} : (\A y \in {a, b} : x >= y) => x = m
  OBVIOUS
<1>. HIDE DEF m
<1>3. Max({a, b}) = m
  BY <1>1, <1>2 DEF Max
<1>. QED  BY <1>3 DEF m

LEMMA Remainder ==
    ASSUME NEW W \in Nat, W > 0, NEW a \in Int
    PROVE  \E q \in Int : a = W * q + (a % W) /\ a % W \in 0..(W - 1)
OBVIOUS

LEMMA RemainderUnique ==
    ASSUME NEW W \in Nat, W > 0, NEW p \in Int, NEW q \in Int,
           NEW x \in 0..(W - 1), NEW y \in 0..(W - 1), W * p + x = W * q + y
    PROVE  p = q /\ x = y
<1>1. CASE p = q
  BY <1>1
<1>2. CASE p > q
  <2>1. p - q >= 1 /\ W * (p - q) = y - x /\ W * (p - q) >= W
    BY <1>2
  <2>. QED  BY <2>1
<1>3. CASE p < q
  <2>1. q - p >= 1 /\ W * (q - p) = x - y /\ W * (q - p) >= W
    BY <1>3
  <2>. QED  BY <2>1
<1>. QED  BY <1>1, <1>2, <1>3

\* The difference of two times that have wrapped is how long it has been.
LEMMA WrappedDifference ==
    ASSUME NEW W \in Nat, W > 0, NEW s \in Int, NEW d \in 0..(W - 1)
    PROVE  (((s + d) % W) - (s % W)) % W = d
<1>. DEFINE e == ((s + d) % W) - (s % W)
<1>1. PICK q \in Int : s = W * q + (s % W) /\ s % W \in 0..(W - 1)
  BY Remainder
<1>2. PICK p \in Int : s + d = W * p + ((s + d) % W) /\ ((s + d) % W) \in 0..(W - 1)
  BY Remainder
<1>3. e \in Int
  BY <1>1, <1>2
<1>4. PICK k \in Int : e = W * k + (e % W) /\ e % W \in 0..(W - 1)
  BY <1>3, Remainder
<1>5. d = W * (p - q + k) + (e % W)
  BY <1>1, <1>2, <1>4
<1>6. p - q + k \in Int
  BY <1>1
<1>. HIDE DEF e
<1>7. e % W = d
  <2>1. W * (p - q + k) + (e % W) = W * 0 + d
    BY <1>5
  <2>2. e % W \in 0..(W - 1) /\ 0 \in Int /\ d \in 0..(W - 1)
    BY <1>4
  <2>. DEFINE x == e % W
              j == p - q + k
  <2>3. W * j + x = W * 0 + d /\ j \in Int /\ x \in 0..(W - 1)
    BY <1>6, <2>1, <2>2
  <2>. HIDE DEF x, j
  <2>4. x = d
    BY <2>2, <2>3, RemainderUnique
  <2>. QED  BY <2>4 DEF x
<1>. QED  BY <1>7 DEF e

=============================================================================
