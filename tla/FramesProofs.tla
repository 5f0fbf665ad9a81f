---------------------------- MODULE FramesProofs ----------------------------
(***************************************************************************)
(* Theorems about Frames, for any frames, any nesting of their scripts and *)
(* any levels.                                                             *)
(***************************************************************************)
EXTENDS Frames, IntrusiveListLemmas, FiniteSetTheorems, TLAPS

-----------------------------------------------------------------------------
(* The inductive invariant of the frames. *)

Sound == "overflow" \notin quirks

\* A call that is left, for the frames there are.
CallFits(c, made) ==
    /\ c.op \notin {"MouseReleased", "Key", "UpdateLevel", "UpdateNode"} => c.frame \in made
    /\ c.op \in {"HideChildren", "ShowChildren", "Key"} => c.arg \in Nat \ {0}
    /\ c.op = "SetFrameLevel" => c.arg \in Int
    /\ c.op = "ShiftChildren" => c.arg[1] \in Nat \ {0} /\ c.arg[2] \in Int
    /\ c.op \in {"SetParent", "Reparent"} => c.arg \in made \cup {Nil}
    /\ c.op = "ScrollChildren" => c.arg[1] \in Nat \ {0} /\ c.arg[2] \in BOOLEAN
    /\ c.op \in {"LockHighlight", "MouseReleased"} => c.arg \in BOOLEAN
    /\ c.op = "UpdateLevel" => c.arg \in Nat
    /\ c.op = "UpdateNode" => c.arg \in Levels
\* What is called comes first; what waits for all scripts comes last.
Firsts == {"HideThis", "ShowThis", "CursorExit"}
Lasts == {"CursorEnter", "UpdateLevel", "UpdateNode"}
InOrder(cs) ==
    /\ \A i \in DOMAIN cs : cs[i].op \in Firsts => i = 1
    /\ \A i \in DOMAIN cs : cs[i].op \in Lasts => i = Len(cs)
StackFits(cs, made) ==
    /\ cs \in Seq(Members(cs))
    /\ \A c \in Members(cs) : CallFits(c, made)
    /\ InOrder(cs)
StackOK == StackFits(calls, Made)
\* The calls that wait for the first one.
Behind == Members(Tail(calls))
\* The leave script that HideThis and DisableEvent run.
LeaveCalls(f, E) ==
    IF "mouse" \in E /\ Queued(f, "mouse") /\ top.mouseFocus = f
    THEN {Call("CursorExit", f, 0)} ELSE {}

-----------------------------------------------------------------------------
(* Facts about sets of numbers and about the operators of the model. *)

LEMMA MinProperties ==
    ASSUME NEW S \in SUBSET Nat, S # {}
    PROVE  Min(S) \in S /\ \A m \in S : Min(S) <= m
BY LeastNatural DEF Min

\* A stack of which the first call is replaced.
LEMMA Replaced ==
    ASSUME NEW made, NEW s, s # <<>>, StackFits(s, made), NEW cs, NEW t,
           StackFits(cs, made), t = cs \o Tail(s),
           Len(s) = 1 \/ \A c \in Members(cs) : c.op \notin Lasts
    PROVE  StackFits(t, made) /\ Members(t) = Members(cs) \cup Members(Tail(s))
<1>. DEFINE r == Tail(s)
<1>1. /\ s \in Seq(Members(s)) /\ cs \in Seq(Members(cs))
      /\ DOMAIN s = 1..Len(s) /\ DOMAIN cs = 1..Len(cs)
      /\ Len(s) \in Nat \ {0} /\ Len(cs) \in Nat
  BY LenProperties, EmptySeq DEF StackFits
<1>2. /\ r \in Seq(Members(s)) /\ Len(r) = Len(s) - 1
      /\ \A i \in 1..Len(r) : r[i] = s[i + 1]
      /\ DOMAIN r = 1..Len(r)
  BY <1>1, HeadTailProperties
<1>3. /\ t \in Seq(Members(cs) \cup Members(s)) /\ Len(t) = Len(cs) + Len(r)
      /\ \A i \in 1..Len(t) : i <= Len(cs) => t[i] = cs[i]
      /\ \A i \in 1..Len(t) : i > Len(cs) => t[i] = r[i - Len(cs)]
  <2>1. cs \in Seq(Members(cs) \cup Members(s)) /\ r \in Seq(Members(cs) \cup Members(s))
    BY <1>1, <1>2
  <2>2. Len(cs) + Len(r) = Len(cs) + Len(r)
    OBVIOUS
  <2>. QED  BY <2>1, <2>2, ConcatElements
<1>. HIDE DEF r
<1>0. DOMAIN t = 1..Len(t)
  BY <1>3, LenProperties
<1>4. ASSUME NEW i \in 1..Len(t), i > Len(cs)
      PROVE  i - Len(cs) \in 1..Len(r) /\ t[i] = s[i - Len(cs) + 1]
             /\ i - Len(cs) + 1 \in 1..Len(s) /\ i - Len(cs) + 1 > 1
  <2>1. i - Len(cs) \in 1..Len(r)
    BY <1>1, <1>2, <1>3, <1>4
  <2>. QED  BY <1>1, <1>2, <1>3, <1>4, <2>1
<1>5. Members(t) = Members(cs) \cup Members(r)
  <2>1. Members(t) \subseteq Members(cs) \cup Members(r)
    <3>1. ASSUME NEW i \in 1..Len(t)
          PROVE  t[i] \in Members(cs) \cup Members(r)
      <4>1. CASE i <= Len(cs)
        BY <1>1, <1>3, <4>1 DEF Members
      <4>2. CASE i > Len(cs)
        <5>1. i - Len(cs) \in DOMAIN r /\ t[i] = r[i - Len(cs)]
          BY <1>2, <1>3, <1>4, <4>2
        <5>. QED  BY <5>1 DEF Members
      <4>. QED  BY <1>1, <4>1, <4>2
    <3>. QED  BY <1>0, <3>1 DEF Members
  <2>2. ASSUME NEW i \in 1..Len(cs)
        PROVE  cs[i] \in Members(t)
    BY <1>0, <1>1, <1>2, <1>3 DEF Members
  <2>3. ASSUME NEW i \in 1..Len(r)
        PROVE  r[i] \in Members(t)
    <3>1. i + Len(cs) \in 1..Len(t) /\ i + Len(cs) > Len(cs) /\ (i + Len(cs)) - Len(cs) = i
      BY <1>1, <1>2, <1>3
    <3>2. t[i + Len(cs)] = r[i]
      BY <1>3, <3>1
    <3>. QED  BY <1>0, <3>1, <3>2 DEF Members
  <2>4. Members(cs) \subseteq Members(t) /\ Members(r) \subseteq Members(t)
    BY ZenonT(30), <1>1, <1>2, <2>2, <2>3 DEF Members
  <2>. QED  BY <2>1, <2>4
<1>6. Members(r) \subseteq Members(s)
  BY <1>1, <1>2 DEF Members
<1>7. t \in Seq(Members(t))
  <2>1. \A i \in 1..Len(t) : t[i] \in Members(t)
    BY <1>0 DEF Members
  <2>2. Len(t) \in Nat /\ t = [i \in 1..Len(t) |-> t[i]]
    BY <1>3, LenProperties
  <2>3. [i \in 1..Len(t) |-> t[i]] \in Seq(Members(t))
    BY <2>1, <2>2
  <2>. QED  BY <2>2, <2>3
<1>8. InOrder(t)
  <2>1. ASSUME NEW i \in 1..Len(t), t[i].op \in Firsts
        PROVE  i = 1
    <3>1. CASE i <= Len(cs)
      BY SMTT(30), <1>1, <1>3, <2>1, <3>1 DEF StackFits, InOrder
    <3>2. CASE i > Len(cs)
      <4>1. PICK k \in DOMAIN s : k = i - Len(cs) + 1 /\ k # 1 /\ s[k].op \in Firsts
        BY <1>1, <1>4, <2>1, <3>2
      <4>. QED  BY <4>1 DEF StackFits, InOrder
    <3>. QED  BY <1>1, <3>1, <3>2
  <2>2. ASSUME NEW i \in 1..Len(t), t[i].op \in Lasts
        PROVE  i = Len(t)
    <3>1. CASE i <= Len(cs)
      <4>1. t[i] = cs[i] /\ cs[i] \in Members(cs) /\ i \in DOMAIN cs
        BY <1>1, <1>3, <3>1 DEF Members
      <4>2. i = Len(cs)
        BY <2>2, <4>1 DEF StackFits, InOrder
      <4>3. Len(s) = 1
        BY <2>2, <4>1
      <4>4. Len(t) = Len(cs)
        <5>1. Len(t) = Len(cs) + Len(r) /\ Len(cs) \in Nat
          BY <1>1, <1>3
        <5>2. Len(r) = Len(s) - 1
          BY <1>2
        <5>. QED  BY <4>3, <5>1, <5>2
      <4>. QED  BY <4>2, <4>4
    <3>2. CASE i > Len(cs)
      <4>1. i - Len(cs) + 1 = Len(s)
        BY <1>1, <1>4, <2>2, <3>2 DEF StackFits, InOrder
      <4>. QED  BY <1>1, <1>2, <1>3, <4>1
    <3>. QED  BY <1>1, <3>1, <3>2
  <2>. QED  BY <1>0, <2>1, <2>2 DEF InOrder
<1>9. \A c \in Members(t) : CallFits(c, made)
  BY <1>5, <1>6 DEF StackFits
<1>. QED  BY <1>5, <1>7, <1>8, <1>9 DEF StackFits, r

\* Stacks of no, one and two calls.
LEMMA NoCalls ==
    ASSUME NEW made
    PROVE  StackFits(<<>>, made) /\ Members(<<>>) = {}
BY DEF StackFits, InOrder, Members

LEMMA OneCall ==
    ASSUME NEW made, NEW a, CallFits(a, made)
    PROVE  StackFits(<<a>>, made) /\ Members(<<a>>) = {a}
<1>. DEFINE s == <<a>>
<1>1. DOMAIN s = {1} /\ s[1] = a /\ Len(s) = 1
  OBVIOUS
<1>2. Members(s) = {a}
  BY <1>1 DEF Members
<1>3. s \in Seq({a})
  OBVIOUS
<1>. HIDE DEF s
<1>4. InOrder(s)
  BY <1>1 DEF InOrder
<1>5. StackFits(s, made)
  BY <1>2, <1>3, <1>4 DEF StackFits
<1>. QED  BY <1>2, <1>5 DEF s

LEMMA TwoCalls ==
    ASSUME NEW made, NEW a, NEW b, CallFits(a, made), CallFits(b, made),
           a.op \notin Lasts, b.op \notin Firsts
    PROVE  StackFits(<<a, b>>, made) /\ Members(<<a, b>>) = {a, b}
<1>. DEFINE s == <<a, b>>
<1>1. DOMAIN s = {1, 2} /\ s[1] = a /\ s[2] = b /\ Len(s) = 2
  OBVIOUS
<1>2. Members(s) = {a, b}
  BY <1>1 DEF Members
<1>3. s \in Seq({a, b})
  OBVIOUS
<1>. HIDE DEF s
<1>4. InOrder(s)
  BY <1>1 DEF InOrder
<1>5. StackFits(s, made)
  BY <1>2, <1>3, <1>4 DEF StackFits
<1>. QED  BY <1>2, <1>5 DEF s

LEMMA TwoCallsJoin ==
    ASSUME NEW a, NEW b
    PROVE  <<a>> \o <<b>> = <<a, b>>
<1>1. <<a>> \in Seq({a, b}) /\ <<b>> \in Seq({a, b}) /\ Len(<<a>>) = 1 /\ Len(<<b>>) = 1
  OBVIOUS
<1>2. <<a>> \o <<b>> \in Seq({a, b}) /\ Len(<<a>> \o <<b>>) = 2
      /\ (<<a>> \o <<b>>)[1] = a /\ (<<a>> \o <<b>>)[2] = b
  <2>. DEFINE r == <<a>> \o <<b>>
  <2>1. /\ r \in Seq({a, b}) /\ Len(r) = 2
        /\ \A i \in 1..2 : i <= 1 => r[i] = <<a>>[i]
        /\ \A i \in 1..2 : i > 1 => r[i] = <<b>>[i - 1]
    BY <1>1, ConcatElements
  <2>. HIDE DEF r
  <2>2. r[1] = a /\ r[2] = b
    BY <2>1
  <2>. QED  BY <2>1, <2>2 DEF r
<1>. DEFINE r == <<a>> \o <<b>>
            t == <<a, b>>
<1>3. t \in Seq({a, b}) /\ Len(t) = 2 /\ t[1] = a /\ t[2] = b
  OBVIOUS
<1>4. r \in Seq({a, b}) /\ Len(r) = 2 /\ r[1] = a /\ r[2] = b
  BY <1>2
<1>. HIDE DEF r, t
<1>5. Len(r) = Len(t) /\ \A i \in 1..Len(r) : r[i] = t[i]
  BY <1>3, <1>4
<1>6. r = t
  BY <1>3, <1>4, <1>5, SeqEqual
<1>. QED  BY <1>6 DEF r, t

\* The first call of a stack, and what must be so of the others.
LEMMA FirstCall ==
    ASSUME NEW made, NEW s, s # <<>>, StackFits(s, made)
    PROVE  /\ CallFits(s[1], made)
           /\ Members(s) = {s[1]} \cup Members(Tail(s))
           /\ s[1].op \in Lasts => Len(s) = 1 /\ Tail(s) = <<>> /\ Members(Tail(s)) = {}
           /\ \A c \in Members(Tail(s)) : c.op \notin Firsts
           /\ s[Len(s)] \in Members(s)
<1>1. /\ s \in Seq(Members(s)) /\ DOMAIN s = 1..Len(s) /\ Len(s) \in Nat \ {0}
  BY LenProperties, EmptySeq DEF StackFits
<1>2. /\ Tail(s) \in Seq(Members(s)) /\ Len(Tail(s)) = Len(s) - 1
      /\ \A i \in 1..(Len(s) - 1) : Tail(s)[i] = s[i + 1]
      /\ DOMAIN Tail(s) = 1..(Len(s) - 1)
  BY <1>1, HeadTailProperties
<1>3. 1 \in DOMAIN s /\ Len(s) \in DOMAIN s /\ s[1] \in Members(s) /\ s[Len(s)] \in Members(s)
  BY <1>1 DEF Members
<1>4. ASSUME NEW i \in DOMAIN s, i # 1
      PROVE  i - 1 \in DOMAIN Tail(s) /\ s[i] = Tail(s)[i - 1]
  BY <1>1, <1>2, <1>4
<1>5. ASSUME NEW i \in DOMAIN Tail(s)
      PROVE  i + 1 \in DOMAIN s /\ i + 1 # 1 /\ s[i + 1] = Tail(s)[i]
  BY <1>1, <1>2
<1>6. Members(s) = {s[1]} \cup Members(Tail(s))
  <2>1. \A i \in DOMAIN s : s[i] \in {s[1]} \cup Members(Tail(s))
    BY <1>4 DEF Members
  <2>2. \A i \in DOMAIN Tail(s) : Tail(s)[i] \in Members(s)
    BY <1>5 DEF Members
  <2>. QED  BY <1>3, <2>1, <2>2 DEF Members
<1>7. ASSUME s[1].op \in Lasts
      PROVE  Len(s) = 1 /\ Tail(s) = <<>> /\ Members(Tail(s)) = {}
  <2>1. Len(s) = 1
    BY <1>3, <1>7 DEF StackFits, InOrder
  <2>. QED  BY <1>1, <1>2, <2>1, EmptySeq DEF Members
<1>8. ASSUME NEW c \in Members(Tail(s))
      PROVE  c.op \notin Firsts
  <2>1. PICK i \in DOMAIN s : i # 1 /\ c = s[i]
    BY <1>5 DEF Members
  <2>. QED  BY <2>1 DEF StackFits, InOrder
<1>. QED  BY <1>3, <1>6, <1>7, <1>8 DEF StackFits

\* What becomes of the stack when the first call returns or runs others.
LEMMA StackReturns ==
    ASSUME StackOK, calls # <<>>, Made' = Made, Return
    PROVE  StackOK' /\ Members(calls') = Members(Tail(calls))
<1>1. calls' = <<>> \o Tail(calls)
  <2>1. calls \in Seq(Members(calls))
    BY DEF StackOK, StackFits
  <2>2. Tail(calls) \in Seq(Members(calls))
    BY <2>1, HeadTailProperties
  <2>. QED  BY <2>2 DEF Return
<1>2. StackFits(calls', Made) /\ Members(calls') = {} \cup Members(Tail(calls))
  BY <1>1, NoCalls, Replaced DEF StackOK
<1>. QED  BY <1>2 DEF StackOK

LEMMA StackRunsOne ==
    ASSUME StackOK, calls # <<>>, Made' = Made, NEW a, Run(<<a>>), CallFits(a, Made),
           a.op \in Lasts => calls[1].op \in Lasts
    PROVE  StackOK' /\ Members(calls') = {a} \cup Members(Tail(calls))
<1>1. StackFits(<<a>>, Made) /\ Members(<<a>>) = {a}
  BY OneCall
<1>2. Len(calls) = 1 \/ \A c \in Members(<<a>>) : c.op \notin Lasts
  BY <1>1, FirstCall DEF StackOK
<1>3. calls' = <<a>> \o Tail(calls)
  BY DEF Run
<1>4. StackFits(calls', Made) /\ Members(calls') = Members(<<a>>) \cup Members(Tail(calls))
  BY <1>1, <1>2, <1>3, Replaced DEF StackOK
<1>. QED  BY <1>1, <1>4 DEF StackOK

LEMMA StackRunsTwo ==
    ASSUME StackOK, calls # <<>>, Made' = Made, NEW a, NEW b, Run(<<a, b>>),
           CallFits(a, Made), CallFits(b, Made),
           a.op \notin Lasts, b.op \notin Firsts,
           b.op \in Lasts => calls[1].op \in Lasts
    PROVE  StackOK' /\ Members(calls') = {a, b} \cup Members(Tail(calls))
<1>1. StackFits(<<a, b>>, Made) /\ Members(<<a, b>>) = {a, b}
  BY TwoCalls
<1>2. Len(calls) = 1 \/ \A c \in Members(<<a, b>>) : c.op \notin Lasts
  BY <1>1, FirstCall DEF StackOK
<1>3. calls' = <<a, b>> \o Tail(calls)
  BY DEF Run
<1>5. StackFits(calls', Made) /\ Members(calls') = Members(<<a, b>>) \cup Members(Tail(calls))
  <2>. DEFINE cs == <<a, b>>
  <2>1. StackFits(cs, Made) /\ calls' = cs \o Tail(calls) /\ StackFits(calls, Made)
        /\ (Len(calls) = 1 \/ \A c \in Members(cs) : c.op \notin Lasts)
    BY <1>1, <1>2, <1>3 DEF StackOK
  <2>. HIDE DEF cs
  <2>2. StackFits(calls', Made) /\ Members(calls') = Members(cs) \cup Members(Tail(calls))
    BY <2>1, Replaced
  <2>. QED  BY <2>2 DEF cs
<1>. QED  BY <1>1, <1>5 DEF StackOK

LEMMA StackRunsThree ==
    ASSUME StackOK, calls # <<>>, Made' = Made, NEW a, NEW b, NEW c, Run(<<a, b, c>>),
           CallFits(a, Made), CallFits(b, Made), CallFits(c, Made),
           {a.op, b.op, c.op} \cap Lasts = {}, {b.op, c.op} \cap Firsts = {}
    PROVE  StackOK' /\ Members(calls') = {a, b, c} \cup Members(Tail(calls))
<1>. DEFINE cs == <<a, b, c>>
<1>1. DOMAIN cs = {1, 2, 3} /\ cs[1] = a /\ cs[2] = b /\ cs[3] = c /\ Len(cs) = 3
  OBVIOUS
<1>2. cs \in Seq({a, b, c}) /\ calls' = cs \o Tail(calls)
  BY DEF Run
<1>. HIDE DEF cs
<1>3. Members(cs) = {a, b, c}
  BY <1>1 DEF Members
<1>4. InOrder(cs) /\ \A d \in Members(cs) : CallFits(d, Made) /\ d.op \notin Lasts
  BY <1>1, <1>3 DEF InOrder
<1>5. StackFits(cs, Made) /\ StackFits(calls, Made)
  BY <1>2, <1>3, <1>4 DEF StackFits, StackOK
<1>6. StackFits(calls', Made) /\ Members(calls') = Members(cs) \cup Members(Tail(calls))
  BY <1>2, <1>4, <1>5, Replaced
<1>. QED  BY <1>3, <1>6 DEF StackOK

-----------------------------------------------------------------------------
(* What the operations on lists and queues return. *)

LEMMA NextFrameType ==
    ASSUME FramesTypeOK, NEW f
    PROVE  NextFrame(f) \in Made \cup {Nil}
<1>. DEFINE lists == {node[l].frames : l \in Levels} \cup {node[l].pendingFrames : l \in Levels}
            after == UNION {{line[i + 1] : i \in {j \in 1..(Len(line) - 1) : line[j] = f}} :
                                line \in lists}
<1>1. lists \subseteq Seq(Made)
  BY DEF FramesTypeOK, NodeRecords
<1>2. after \subseteq Made
  <2>1. ASSUME NEW line \in lists, NEW i \in 1..(Len(line) - 1)
        PROVE  line[i + 1] \in Made
    <3>1. line \in Seq(Made)
      BY <1>1
    <3>. QED  BY <3>1, ElementOfSeq, LenProperties
  <2>. QED  BY <2>1
<1>3. NextFrame(f) = IF after = {} THEN Nil ELSE CHOOSE g \in after : TRUE
  BY DEF NextFrame
<1>. HIDE DEF after
<1>. QED  BY <1>2, <1>3

LEMMA RemoveFrameType ==
    ASSUME FramesTypeOK, NEW f \in Made, NEW l \in Levels
    PROVE  RemoveFrame(f, l) \in [Levels -> NodeRecords]
<1>1. ASSUME NEW k \in Levels
      PROVE  [frames |-> Unlink(node[k].frames, f),
              pendingFrames |-> Unlink(node[k].pendingFrames, f),
              pendingFrame |-> IF k = l /\ node[k].pendingFrame = f
                               THEN NextFrame(f) ELSE node[k].pendingFrame] \in NodeRecords
  <2>1. node[k] \in NodeRecords
    BY DEF FramesTypeOK
  <2>2. Unlink(node[k].frames, f) \in Seq(Made) /\ Unlink(node[k].pendingFrames, f) \in Seq(Made)
    BY <2>1, UnlinkProperties DEF NodeRecords
  <2>. QED  BY <2>1, <2>2, NextFrameType DEF NodeRecords
<1>. QED  BY <1>1 DEF RemoveFrame

LEMMA AddFrameType ==
    ASSUME NEW nodes \in [Levels -> NodeRecords], NEW f \in Made, NEW l \in Levels
    PROVE  AddFrame(nodes, f, l) \in [Levels -> NodeRecords]
<1>1. nodes[l] \in NodeRecords
  OBVIOUS
<1>2. Append(nodes[l].pendingFrames, f) \in Seq(Made) /\ Append(nodes[l].frames, f) \in Seq(Made)
  BY <1>1, AppendProperties DEF NodeRecords
<1>3. /\ [nodes EXCEPT ![l].pendingFrames = Append(@, f)] \in [Levels -> NodeRecords]
      /\ [nodes EXCEPT ![l].frames = Append(@, f)] \in [Levels -> NodeRecords]
  BY <1>1, <1>2 DEF NodeRecords
<1>. QED  BY <1>3 DEF AddFrame

LEMMA InsertionsType ==
    ASSUME NEW q \in Seq(QueueEntries), NEW entry \in QueueEntries,
           NEW r \in Insertions(q, entry)
    PROVE  r \in Seq(QueueEntries)
BY InsertAtProperties, LenProperties DEF Insertions

LEMMA RegisteredProperties ==
    ASSUME NEW q \in [Events -> Seq(QueueEntries)], NEW f \in Made, NEW l \in Levels,
           NEW E, NEW r \in Registered(q, f, E, l)
    PROVE  /\ r \in [Events -> Seq(QueueEntries)]
           /\ \A e \in Events :
                IF e \in E THEN r[e] \in Insertions(q[e], [frame |-> f, priority |-> l])
                           ELSE r[e] = q[e]
<1>. DEFINE entry == [frame |-> f, priority |-> l]
            New(e) == IF e \in E THEN Insertions(q[e], entry) ELSE {q[e]}
<1>0. Registered(q, f, E, l) = {[e \in Events |-> IF e = "key" THEN k ELSE m] :
                                    k \in New("key"), m \in New("mouse")}
  BY DEF Registered
<1>1. PICK k \in New("key"), m \in New("mouse") :
        r = [e \in Events |-> IF e = "key" THEN k ELSE m]
  <2>. HIDE DEF New
  <2>. QED  BY <1>0
<1>2. entry \in QueueEntries
  BY DEF QueueEntries
<1>. HIDE DEF entry
<1>3. \A e \in Events : r[e] \in New(e) /\ DOMAIN r = Events
  BY <1>1 DEF Events
<1>4. \A e \in Events : r[e] \in Seq(QueueEntries)
  BY <1>2, <1>3, InsertionsType
<1>5. r \in [Events -> Seq(QueueEntries)]
  BY <1>1, <1>4
<1>. QED  BY <1>3, <1>5 DEF entry

LEMMA RegisteredType ==
    ASSUME NEW q \in [Events -> Seq(QueueEntries)], NEW f \in Made, NEW l \in Levels, NEW E
    PROVE  Registered(q, f, E, l) \subseteq [Events -> Seq(QueueEntries)]
BY RegisteredProperties

LEMMA UnqueueProperties ==
    ASSUME FramesTypeOK, NEW f, NEW E
    PROVE  /\ Unqueue(f, E) \in [Events -> Seq(QueueEntries)]
           /\ \A e \in Events :
                IF e \in E /\ Queued(f, e)
                THEN \E i \in 1..Len(queue[e]) :
                        queue[e][i].frame = f /\ Unqueue(f, E)[e] = RemoveAt(queue[e], i)
                ELSE Unqueue(f, E)[e] = queue[e]
<1>1. ASSUME NEW e \in Events, e \in E, Queued(f, e)
      PROVE  \E i \in 1..Len(queue[e]) :
                queue[e][i].frame = f /\ Unqueue(f, E)[e] = RemoveAt(queue[e], i)
  <2>. DEFINE Is(i) == queue[e][i].frame = f /\ \A j \in 1..(i - 1) : queue[e][j].frame # f
              S == {i \in DOMAIN queue[e] : queue[e][i].frame = f}
  <2>1. queue[e] \in Seq(QueueEntries) /\ DOMAIN queue[e] = 1..Len(queue[e])
        /\ Len(queue[e]) \in Nat
    BY LenProperties DEF FramesTypeOK
  <2>2. S # {} /\ S \in SUBSET Nat
    BY <1>1, <2>1 DEF Queued
  <2>3. PICK i \in S : \A j \in S : i <= j
    <3>. HIDE DEF S
    <3>. QED  BY <2>2, LeastNatural
  <2>4. i \in DOMAIN queue[e] /\ Is(i)
    BY <2>1, <2>3
  <2>5. Unqueue(f, E)[e] = RemoveAt(queue[e], CHOOSE k \in DOMAIN queue[e] : Is(k))
    BY <1>1 DEF Unqueue
  <2>6. PICK n : n = CHOOSE k \in DOMAIN queue[e] : Is(k)
    OBVIOUS
  <2>7. n \in DOMAIN queue[e] /\ queue[e][n].frame = f
    <3>1. n \in DOMAIN queue[e] /\ Is(n)
      BY <2>4, <2>6
    <3>. QED  BY <3>1
  <2>. QED  BY <2>1, <2>5, <2>6, <2>7
<1>2. ASSUME NEW e \in Events, ~ (e \in E /\ Queued(f, e))
      PROVE  Unqueue(f, E)[e] = queue[e]
  BY <1>2 DEF Unqueue
<1>3. ASSUME NEW e \in Events
      PROVE  Unqueue(f, E)[e] \in Seq(QueueEntries)
  <2>1. queue[e] \in Seq(QueueEntries)
    BY DEF FramesTypeOK
  <2>. QED  BY <1>1, <1>2, <2>1, RemoveAtProperties
<1>4. Unqueue(f, E) \in [Events -> Seq(QueueEntries)]
  <2>1. DOMAIN Unqueue(f, E) = Events
        /\ Unqueue(f, E) = [e \in Events |-> Unqueue(f, E)[e]]
    BY DEF Unqueue
  <2>. QED  BY <1>3, <2>1
<1>. QED  BY <1>1, <1>2, <1>4

\* The frame that a search for the focus finds.
LEMMA FocusChangeProperties ==
    ASSUME FramesTypeOK, NEW hits
    PROVE  LET under == {i \in DOMAIN queue["mouse"] : queue["mouse"][i].frame \in hits}
               next == FocusChange(hits).focus
           IN  /\ next \in Made \cup {Nil}
               /\ under = {} => next = Nil
               /\ under # {} => \E i \in under : /\ next = queue["mouse"][i].frame
                                                 /\ \A j \in under : i <= j
<1>. DEFINE under == {i \in DOMAIN queue["mouse"] : queue["mouse"][i].frame \in hits}
<1>1. /\ queue["mouse"] \in Seq(QueueEntries)
      /\ DOMAIN queue["mouse"] = 1..Len(queue["mouse"]) /\ Len(queue["mouse"]) \in Nat
  BY LenProperties DEF FramesTypeOK, Events
<1>2. under \in SUBSET Nat
  BY <1>1
<1>3. FocusChange(hits).focus = IF under = {} THEN Nil ELSE queue["mouse"][Min(under)].frame
  BY DEF FocusChange
<1>4. ASSUME under # {}
      PROVE  Min(under) \in under /\ \A j \in under : Min(under) <= j
  <2>. HIDE DEF under
  <2>. QED  BY <1>2, <1>4, MinProperties
<1>5. \A i \in under : queue["mouse"][i].frame \in Made
  <2>1. \A i \in DOMAIN queue["mouse"] : queue["mouse"][i] \in QueueEntries
    BY <1>1, ElementOfSeq
  <2>. QED  BY <2>1 DEF QueueEntries
<1>. QED  BY <1>3, <1>4, <1>5

\* The scripts that go with it, for an empty stack.
LEMMA FocusScripts ==
    ASSUME FramesTypeOK, FramesAssumption, NEW hits
    PROVE  LET next == FocusChange(hits).focus
               last == top.mouseFocus
               cs == FocusChange(hits).scripts
           IN  /\ StackFits(cs, Made)
               /\ Members(cs) = IF next = last THEN {}
                                ELSE {Call("CursorExit", g, 0) : g \in {last} \ {Nil}}
                                  \cup {Call("CursorEnter", g, 0) : g \in {next} \ {Nil}}
<1>. DEFINE next == FocusChange(hits).focus
            last == top.mouseFocus
            cs == FocusChange(hits).scripts
            a == Call("CursorExit", last, 0)
            b == Call("CursorEnter", next, 0)
<1>1. next \in Made \cup {Nil} /\ last \in Made \cup {Nil}
  BY FocusChangeProperties DEF FramesTypeOK, TopRecords
<1>2. cs = IF next = last THEN <<>>
           ELSE (IF last = Nil THEN <<>> ELSE <<a>>) \o (IF next = Nil THEN <<>> ELSE <<b>>)
  BY DEF FocusChange
<1>3. Nil \notin Made
  BY DEF FramesTypeOK, FramesAssumption
<1>4. last # Nil => CallFits(a, Made)
  BY <1>1 DEF CallFits, Call
<1>5. next # Nil => CallFits(b, Made)
  BY <1>1 DEF CallFits, Call
<1>6. a.op = "CursorExit" /\ b.op = "CursorEnter"
  BY DEF Call
<1>. DEFINE Exits == {Call("CursorExit", g, 0) : g \in {last} \ {Nil}}
            Enters == {Call("CursorEnter", g, 0) : g \in {next} \ {Nil}}
<1>7. Exits = (IF last = Nil THEN {} ELSE {a}) /\ Enters = (IF next = Nil THEN {} ELSE {b})
  OBVIOUS
<1>. HIDE DEF next, last, cs, a, b, Exits, Enters
<1>8. ASSUME next = last
      PROVE  StackFits(cs, Made) /\ Members(cs) = IF next = last THEN {} ELSE Exits \cup Enters
  <2>1. cs = <<>>
    BY <1>2, <1>8
  <2>. QED  BY <1>8, <2>1, NoCalls
<1>9. ASSUME next # last, last = Nil
      PROVE  StackFits(cs, Made) /\ Members(cs) = IF next = last THEN {} ELSE Exits \cup Enters
  <2>1. cs = <<>> \o <<b>> /\ next # Nil
    BY <1>2, <1>9
  <2>2. <<>> \o <<b>> = <<b>>
    OBVIOUS
  <2>3. CallFits(b, Made) /\ cs = <<b>>
    BY <1>5, <2>1, <2>2
  <2>4. StackFits(<<b>>, Made) /\ Members(<<b>>) = {b}
    BY <2>3, OneCall
  <2>5. StackFits(cs, Made) /\ Members(cs) = {b}
    BY <2>3, <2>4
  <2>. QED  BY <1>7, <1>9, <2>1, <2>5
<1>10. ASSUME next # last, next = Nil
       PROVE  StackFits(cs, Made) /\ Members(cs) = IF next = last THEN {} ELSE Exits \cup Enters
  <2>1. cs = <<a>> \o <<>> /\ last # Nil
    BY <1>2, <1>10
  <2>2. <<a>> \o <<>> = <<a>>
    OBVIOUS
  <2>3. CallFits(a, Made) /\ cs = <<a>>
    BY <1>4, <2>1, <2>2
  <2>4. StackFits(<<a>>, Made) /\ Members(<<a>>) = {a}
    BY <2>3, OneCall
  <2>5. StackFits(cs, Made) /\ Members(cs) = {a}
    BY <2>3, <2>4
  <2>. QED  BY <1>7, <1>10, <2>1, <2>5
<1>11. ASSUME next # last, last # Nil, next # Nil
       PROVE  StackFits(cs, Made) /\ Members(cs) = IF next = last THEN {} ELSE Exits \cup Enters
  <2>1. cs = <<a>> \o <<b>>
    BY <1>2, <1>11
  <2>2. <<a>> \o <<b>> = <<a, b>>
    BY TwoCallsJoin
  <2>3. a.op \notin Lasts /\ b.op \notin Firsts
    BY <1>6 DEF Lasts, Firsts
  <2>4. StackFits(<<a, b>>, Made) /\ Members(<<a, b>>) = {a, b}
    BY <1>4, <1>5, <1>11, <2>3, TwoCalls
  <2>5. {a, b} = {a} \cup {b}
    OBVIOUS
  <2>. QED  BY <1>7, <1>11, <2>1, <2>2, <2>4, <2>5
<1>12. StackFits(cs, Made) /\ Members(cs) = IF next = last THEN {} ELSE Exits \cup Enters
  BY <1>8, <1>9, <1>10, <1>11
<1>. QED  BY <1>12 DEF next, last, cs, Exits, Enters


LEMMA LeavesThen ==
    ASSUME NEW f, NEW E, NEW b
    PROVE  Leaves(f, E) \o <<b>> =
                IF "mouse" \in E /\ Queued(f, "mouse") /\ top.mouseFocus = f
                THEN <<Call("CursorExit", f, 0), b>> ELSE <<b>>
<1>1. <<>> \o <<b>> = <<b>>
  OBVIOUS
<1>2. <<Call("CursorExit", f, 0)>> \o <<b>> = <<Call("CursorExit", f, 0), b>>
  BY TwoCallsJoin
<1>. QED  BY <1>1, <1>2 DEF Leaves

LEMMA ForgetType ==
    ASSUME FramesTypeOK, NEW f, NEW E
    PROVE  Forget(f, E) \in TopRecords
BY DEF Forget, FramesTypeOK, TopRecords

-----------------------------------------------------------------------------
(* The members keep their types, and the stack its order. *)

LEMMA TypesKept ==
    ASSUME FramesTypeOK, Made' = Made,
           frame' \in [Made -> FrameRecords], node' \in [Levels -> NodeRecords],
           queue' \in [Events -> Seq(QueueEntries)], top' \in TopRecords,
           ops' \in Seq(SUBSET (ScriptOps \X Frame)),
           entered' \subseteq Made, due' \subseteq Made, quirks' \subseteq Quirks
    PROVE  FramesTypeOK'
BY DEF FramesTypeOK, FrameRecords, NodeRecords, QueueEntries, TopRecords


LEMMA HideSound ==
    ASSUME FramesTypeOK, StackOK, Hide
    PROVE  /\ FramesTypeOK' /\ StackOK' /\ Made' = Made
           /\ Members(calls') = {Call("HideThis", calls[1].frame, 0)} \cup Behind
<1>. DEFINE f == calls[1].frame
<1>1. calls # <<>> /\ calls[1].op = "Hide" /\ CallFits(calls[1], Made)
  BY FirstCall DEF StackOK, Hide, Running
<1>2. f \in Made
  BY <1>1 DEF CallFits
<1>3. Made' = Made /\ frame' \in [Made -> FrameRecords]
  BY ZenonT(30), <1>2 DEF Hide, FramesTypeOK, FrameRecords, Made
<1>4. FramesTypeOK'
  BY <1>3, TypesKept DEF Hide, FramesTypeOK, drawn, histories
<1>5. CallFits(Call("HideThis", f, 0), Made)
  BY <1>2 DEF CallFits, Call
<1>. QED  BY <1>1, <1>3, <1>4, <1>5, StackRunsOne DEF Hide, Call, Lasts, Behind

LEMMA ShowSound ==
    ASSUME FramesTypeOK, StackOK, Show
    PROVE  /\ FramesTypeOK' /\ StackOK' /\ Made' = Made
           /\ Members(calls') = {Call("ShowThis", calls[1].frame, 0)} \cup Behind
<1>. DEFINE f == calls[1].frame
<1>1. calls # <<>> /\ calls[1].op = "Show" /\ CallFits(calls[1], Made)
  BY FirstCall DEF StackOK, Show, Running
<1>2. f \in Made
  BY <1>1 DEF CallFits
<1>3. Made' = Made /\ frame' \in [Made -> FrameRecords]
  BY ZenonT(30), <1>2 DEF Show, FramesTypeOK, FrameRecords, Made
<1>4. FramesTypeOK'
  BY <1>3, TypesKept DEF Show, FramesTypeOK, drawn, histories
<1>5. CallFits(Call("ShowThis", f, 0), Made)
  BY <1>2 DEF CallFits, Call
<1>. QED  BY <1>1, <1>3, <1>4, <1>5, StackRunsOne DEF Show, Call, Lasts, Behind

LEMMA HideThisSound ==
    ASSUME FramesTypeOK, StackOK, HideThis
    PROVE  /\ FramesTypeOK' /\ StackOK' /\ Made' = Made
           /\ Members(calls') =
                   IF ~ frame[calls[1].frame].visible THEN Behind
                   ELSE {Call("RemoveFrame", calls[1].frame, 0)}
                        \cup LeaveCalls(calls[1].frame, frame[calls[1].frame].eventmask) \cup Behind
<1>. DEFINE f == calls[1].frame
<1>1. calls # <<>> /\ calls[1].op = "HideThis" /\ CallFits(calls[1], Made)
  BY FirstCall DEF StackOK, HideThis, Running
<1>. DEFINE E == frame[f].eventmask
            a == Call("CursorExit", f, 0)
            b == Call("RemoveFrame", f, 0)
<1>2. f \in Made
  BY <1>1 DEF CallFits
<1>3. Made' = Made /\ frame' \in [Made -> FrameRecords]
  <2>1. frame' = frame \/ frame' = [frame EXCEPT ![f].visible = FALSE]
    BY DEF HideThis
  <2>2. [frame EXCEPT ![f].visible = FALSE] \in [Made -> FrameRecords]
        /\ frame \in [Made -> FrameRecords]
    BY ZenonT(30), <1>2 DEF FramesTypeOK, FrameRecords
  <2>3. frame' \in [Made -> FrameRecords]
    BY <2>1, <2>2
  <2>. QED  BY <1>2, <2>2, <2>3 DEF FrameRecords, Made
<1>4. FramesTypeOK'
  <2>1. queue' \in [Events -> Seq(QueueEntries)] /\ top' \in TopRecords
    BY UnqueueProperties, ForgetType DEF HideThis, FramesTypeOK
  <2>. QED  BY <1>3, <2>1, TypesKept DEF HideThis, FramesTypeOK, Quirks
<1>5. CallFits(a, Made) /\ CallFits(b, Made)
  BY <1>2 DEF CallFits, Call
<1>6. CASE ~ frame[f].visible
  BY <1>1, <1>3, <1>4, <1>6, StackReturns DEF HideThis, Behind
<1>7. CASE frame[f].visible /\ ~ ("mouse" \in E /\ Queued(f, "mouse") /\ top.mouseFocus = f)
  <2>1. Run(<<b>>) /\ LeaveCalls(f, E) = {}
    <3>1. Leaves(f, E) \o <<b>> = <<b>>
      BY <1>7, LeavesThen
    <3>2. Run(Leaves(f, E) \o <<b>>)
      BY <1>7 DEF HideThis
    <3>. QED  BY <1>7, <3>1, <3>2 DEF LeaveCalls
  <2>2. StackOK' /\ Members(calls') = {b} \cup Members(Tail(calls))
    BY <1>1, <1>3, <1>5, <2>1, StackRunsOne DEF Call, Lasts
  <2>. QED  BY <1>3, <1>4, <1>7, <2>1, <2>2 DEF Behind
<1>8. CASE frame[f].visible /\ "mouse" \in E /\ Queued(f, "mouse") /\ top.mouseFocus = f
  <2>1. Run(<<a, b>>) /\ LeaveCalls(f, E) = {a}
    BY <1>8, LeavesThen DEF HideThis, LeaveCalls
  <2>2. StackOK' /\ Members(calls') = {a, b} \cup Members(Tail(calls))
    BY <1>1, <1>3, <1>5, <2>1, StackRunsTwo DEF Call, Lasts, Firsts
  <2>. QED  BY <1>3, <1>4, <1>8, <2>1, <2>2 DEF Behind
<1>. QED  BY <1>6, <1>7, <1>8

LEMMA RemovedSound ==
    ASSUME FramesTypeOK, StackOK, Removed
    PROVE  /\ FramesTypeOK' /\ StackOK' /\ Made' = Made
           /\ Members(calls') = {Call("HideChildren", calls[1].frame, 1)} \cup Behind
<1>. DEFINE f == calls[1].frame
<1>1. calls # <<>> /\ calls[1].op = "RemoveFrame" /\ CallFits(calls[1], Made)
  BY FirstCall DEF StackOK, Removed, Running
<1>2. f \in Made
  BY <1>1 DEF CallFits
<1>3. Made' = Made /\ frame' \in [Made -> FrameRecords] /\ frame[f].level \in Levels
  BY <1>2 DEF Removed, FramesTypeOK, FrameRecords, Made
<1>4. FramesTypeOK'
  <2>1. node' \in [Levels -> NodeRecords]
    BY <1>2, <1>3, RemoveFrameType DEF Removed
  <2>. QED  BY <1>3, <2>1, TypesKept DEF Removed, FramesTypeOK
<1>5. CallFits(Call("HideChildren", f, 1), Made)
  BY <1>2 DEF CallFits, Call
<1>. QED  BY <1>1, <1>3, <1>4, <1>5, StackRunsOne DEF Removed, Call, Lasts, Behind

LEMMA HideChildrenSound ==
    ASSUME FramesTypeOK, StackOK, HideChildren
    PROVE  /\ FramesTypeOK' /\ StackOK' /\ Made' = Made
           /\ LET f == calls[1].frame
                  n == calls[1].arg
                  child == frame[f].children[n]
              IN  /\ n \in Nat \ {0} /\ f \in Made
                  /\ n <= Len(frame[f].children) => child \in Made /\ child \in Members(frame[f].children)
                  /\ Members(calls') =
                       (IF n > Len(frame[f].children) THEN {Script(f)}
                        ELSE {Call("HideThis", child, 0), Call("HideChildren", f, n + 1)}) \cup Behind
<1>. DEFINE f == calls[1].frame
<1>1. calls # <<>> /\ calls[1].op = "HideChildren" /\ CallFits(calls[1], Made)
  BY FirstCall DEF StackOK, HideChildren, Running
<1>. DEFINE n == calls[1].arg
            child == frame[f].children[n]
            a == Call("HideThis", child, 0)
            b == Call("HideChildren", f, n + 1)
<1>2. f \in Made /\ n \in Nat \ {0}
  BY <1>1 DEF CallFits
<1>3. Made' = Made /\ frame' \in [Made -> FrameRecords] /\ frame[f].children \in Seq(Made)
  BY <1>2 DEF HideChildren, FramesTypeOK, FrameRecords, Made
<1>4. FramesTypeOK'
  BY <1>3, TypesKept DEF HideChildren, FramesTypeOK, drawn, histories, Quirks
<1>5. CASE n > Len(frame[f].children)
  <2>1. CallFits(Script(f), Made) /\ Run(<<Script(f)>>)
    BY <1>2, <1>5 DEF CallFits, Call, Script, HideChildren
  <2>2. StackOK' /\ Members(calls') = {Script(f)} \cup Members(Tail(calls))
    BY <1>1, <1>3, <2>1, StackRunsOne DEF Call, Script, Lasts
  <2>3. Len(frame[f].children) \in Nat
    BY <1>3, LenProperties
  <2>. QED  BY <1>2, <1>3, <1>4, <1>5, <2>2, <2>3 DEF Behind
<1>6. CASE ~ n > Len(frame[f].children)
  <2>0. n \in 1..Len(frame[f].children) /\ n \in DOMAIN frame[f].children
    BY <1>2, <1>3, <1>6, LenProperties
  <2>1. child \in Made /\ child \in Members(frame[f].children)
    BY <1>3, <2>0, ElementOfSeq DEF Members
  <2>2. CallFits(a, Made) /\ CallFits(b, Made) /\ Run(<<a, b>>)
    <3>1. CallFits(a, Made)
      BY <2>1 DEF CallFits, Call
    <3>2. CallFits(b, Made)
      <4>1. n + 1 \in Nat \ {0}
        BY <1>2
      <4>. HIDE DEF n
      <4>. QED  BY <1>2, <4>1 DEF CallFits, Call
    <3>3. Run(<<a, b>>)
      BY <1>6 DEF HideChildren
    <3>. QED  BY <3>1, <3>2, <3>3
  <2>3. StackOK' /\ Members(calls') = {a, b} \cup Members(Tail(calls))
    BY <1>1, <1>3, <2>2, StackRunsTwo DEF Call, Lasts, Firsts
  <2>. QED  BY <1>2, <1>3, <1>4, <1>6, <2>1, <2>3 DEF Behind
<1>. QED  BY <1>5, <1>6

LEMMA ShowChildrenSound ==
    ASSUME FramesTypeOK, StackOK, ShowChildren
    PROVE  /\ FramesTypeOK' /\ StackOK' /\ Made' = Made
           /\ LET f == calls[1].frame
                  n == calls[1].arg
                  child == frame[f].children[n]
              IN  /\ n \in Nat \ {0} /\ f \in Made
                  /\ n <= Len(frame[f].children) => child \in Made /\ child \in Members(frame[f].children)
                  /\ Members(calls') =
                       (IF n > Len(frame[f].children) THEN {Script(f)}
                        ELSE {Call("ShowThis", child, 0), Call("ShowChildren", f, n + 1)}) \cup Behind
<1>. DEFINE f == calls[1].frame
<1>1. calls # <<>> /\ calls[1].op = "ShowChildren" /\ CallFits(calls[1], Made)
  BY FirstCall DEF StackOK, ShowChildren, Running
<1>. DEFINE n == calls[1].arg
            child == frame[f].children[n]
            a == Call("ShowThis", child, 0)
            b == Call("ShowChildren", f, n + 1)
<1>2. f \in Made /\ n \in Nat \ {0}
  BY <1>1 DEF CallFits
<1>3. Made' = Made /\ frame' \in [Made -> FrameRecords] /\ frame[f].children \in Seq(Made)
  BY <1>2 DEF ShowChildren, FramesTypeOK, FrameRecords, Made
<1>4. FramesTypeOK'
  BY <1>3, TypesKept DEF ShowChildren, FramesTypeOK, drawn, histories, Quirks
<1>5. CASE n > Len(frame[f].children)
  <2>1. CallFits(Script(f), Made) /\ Run(<<Script(f)>>)
    BY <1>2, <1>5 DEF CallFits, Call, Script, ShowChildren
  <2>2. StackOK' /\ Members(calls') = {Script(f)} \cup Members(Tail(calls))
    BY <1>1, <1>3, <2>1, StackRunsOne DEF Call, Script, Lasts
  <2>3. Len(frame[f].children) \in Nat
    BY <1>3, LenProperties
  <2>. QED  BY <1>2, <1>3, <1>4, <1>5, <2>2, <2>3 DEF Behind
<1>6. CASE ~ n > Len(frame[f].children)
  <2>0. n \in 1..Len(frame[f].children) /\ n \in DOMAIN frame[f].children
    BY <1>2, <1>3, <1>6, LenProperties
  <2>1. child \in Made /\ child \in Members(frame[f].children)
    BY <1>3, <2>0, ElementOfSeq DEF Members
  <2>2. CallFits(a, Made) /\ CallFits(b, Made) /\ Run(<<a, b>>)
    BY <1>2, <1>6, <2>1 DEF CallFits, Call, ShowChildren
  <2>3. StackOK' /\ Members(calls') = {a, b} \cup Members(Tail(calls))
    BY <1>1, <1>3, <2>2, StackRunsTwo DEF Call, Lasts, Firsts
  <2>. QED  BY <1>2, <1>3, <1>4, <1>6, <2>1, <2>3 DEF Behind
<1>. QED  BY <1>5, <1>6

LEMMA ShowThisSound ==
    ASSUME FramesTypeOK, StackOK, ShowThis
    PROVE  /\ FramesTypeOK' /\ StackOK' /\ Made' = Made
           /\ Members(calls') =
                   (IF MayShow(calls[1].frame) THEN {Call("ShowChildren", calls[1].frame, 1)} ELSE {})
                   \cup Behind
<1>. DEFINE f == calls[1].frame
<1>1. calls # <<>> /\ calls[1].op = "ShowThis" /\ CallFits(calls[1], Made)
  BY FirstCall DEF StackOK, ShowThis, Running
<1>2. f \in Made
  BY <1>1 DEF CallFits
<1>3. Made' = Made /\ frame' \in [Made -> FrameRecords] /\ frame[f].level \in Levels
  <2>1. frame' = frame \/ frame' = [frame EXCEPT ![f].visible = TRUE]
    BY DEF ShowThis
  <2>2. [frame EXCEPT ![f].visible = TRUE] \in [Made -> FrameRecords]
        /\ frame \in [Made -> FrameRecords]
    BY <1>2 DEF FramesTypeOK, FrameRecords
  <2>3. frame' \in [Made -> FrameRecords]
    BY <2>1, <2>2
  <2>. QED  BY <1>2, <2>2, <2>3 DEF FrameRecords, Made
<1>4. CASE ~ MayShow(f)
  <2>1. FramesTypeOK'
    BY <1>3, <1>4, TypesKept DEF ShowThis, FramesTypeOK
  <2>2. StackOK' /\ Members(calls') = Members(Tail(calls))
    BY <1>1, <1>3, <1>4, StackReturns DEF ShowThis
  <2>. QED  BY <1>3, <1>4, <2>1, <2>2 DEF Behind
<1>5. CASE MayShow(f)
  <2>1. node' \in [Levels -> NodeRecords]
    BY <1>2, <1>3, <1>5, AddFrameType DEF ShowThis, FramesTypeOK
  <2>2. queue' \in [Events -> Seq(QueueEntries)]
    <3>1. queue' \in Registered(queue, f, frame[f].eventmask, frame[f].level)
          /\ queue \in [Events -> Seq(QueueEntries)]
      BY <1>5 DEF ShowThis, FramesTypeOK
    <3>2. Registered(queue, f, frame[f].eventmask, frame[f].level)
            \subseteq [Events -> Seq(QueueEntries)]
      BY <1>2, <1>3, <3>1, RegisteredType
    <3>. QED  BY <3>1, <3>2
  <2>3. top' \in TopRecords /\ quirks' \subseteq Quirks
    BY <1>5 DEF ShowThis, FramesTypeOK, TopRecords, Quirks
  <2>4. FramesTypeOK'
    BY <1>3, <2>1, <2>2, <2>3, TypesKept DEF ShowThis, FramesTypeOK
  <2>5. CallFits(Call("ShowChildren", f, 1), Made) /\ Run(<<Call("ShowChildren", f, 1)>>)
    BY <1>2, <1>5 DEF CallFits, Call, ShowThis
  <2>6. StackOK' /\ Members(calls') = {Call("ShowChildren", f, 1)} \cup Members(Tail(calls))
    BY <1>1, <1>3, <2>5, StackRunsOne DEF Call, Lasts
  <2>. QED  BY <1>3, <1>5, <2>4, <2>6 DEF Behind
<1>. QED  BY <1>4, <1>5

LEMMA SetFrameLevelSound ==
    ASSUME FramesTypeOK, StackOK, SetFrameLevel
    PROVE  /\ FramesTypeOK' /\ StackOK' /\ Made' = Made
           /\ LET f == calls[1].frame
                  l == frame[f].level
                  n == Clamped(l, calls[1].arg)
              IN  /\ f \in Made /\ l \in Levels /\ n \in Nat
                  /\ n = l => Members(calls') = Behind
                  /\ n # l /\ n <= MaxLevel =>
                       n \in Levels /\ Members(calls') = {Call("ShiftChildren", f, <<1, n - l>>)} \cup Behind
                  /\ n > MaxLevel => "overflow" \in quirks'
<1>. DEFINE f == calls[1].frame
<1>1. calls # <<>> /\ calls[1].op = "SetFrameLevel" /\ CallFits(calls[1], Made)
  BY FirstCall DEF StackOK, SetFrameLevel, Running
<1>. DEFINE l == frame[f].level
            n == Clamped(l, calls[1].arg)
            E == frame[f].eventmask
            a == Call("ShiftChildren", f, <<1, n - l>>)
<1>0. MaxLevel \in Nat
  BY FramesAssumption
<1>2. f \in Made /\ l \in Levels /\ n \in Nat
  <2>1. f \in Made /\ l \in Levels /\ l \in Nat /\ calls[1].arg \in Int /\ MaxShift \in Nat
    BY <1>1, FramesAssumption DEF CallFits, FramesTypeOK, FrameRecords, Levels
  <2>. QED  BY <2>1 DEF Clamped
<1>3. CASE n = l
  <2>1. n <= MaxLevel
    BY <1>0, <1>2, <1>3 DEF Levels
  <2>2. Return /\ UNCHANGED <<frame, drawn, quirks, due>>
    BY <1>0, <1>2, <1>3, <2>1 DEF SetFrameLevel
  <2>3. Made' = Made /\ FramesTypeOK'
    BY <2>2, TypesKept DEF SetFrameLevel, FramesTypeOK, drawn, Made
  <2>4. StackOK' /\ Members(calls') = Members(Tail(calls))
    BY <1>1, <2>2, <2>3, StackReturns
  <2>. QED  BY <1>0, <1>2, <1>3, <2>1, <2>3, <2>4 DEF Behind
<1>4. CASE n > MaxLevel
  <2>1. n # l
    BY <1>0, <1>2, <1>4 DEF Levels
  <2>2. /\ quirks' = quirks \cup {"overflow"} /\ calls' = <<>>
        /\ UNCHANGED <<frame, drawn, due>>
    BY <1>0, <1>2, <1>4, <2>1 DEF SetFrameLevel
  <2>3. Made' = Made /\ FramesTypeOK'
    BY <2>2, TypesKept DEF SetFrameLevel, FramesTypeOK, drawn, Made, Quirks
  <2>4. StackOK'
    BY <2>2, NoCalls DEF StackOK
  <2>. QED  BY <1>0, <1>2, <1>4, <2>1, <2>2, <2>3, <2>4
<1>5. CASE n # l /\ n <= MaxLevel
  <2>1. n \in Levels
    BY <1>0, <1>2, <1>5 DEF Levels
  <2>2. frame' = [frame EXCEPT ![f].level = n] /\ Run(<<a>>)
    BY <1>0, <1>2, <1>5 DEF SetFrameLevel
  <2>3. Made' = Made /\ frame' \in [Made -> FrameRecords]
    BY ZenonT(30), <1>2, <2>1, <2>2 DEF FramesTypeOK, FrameRecords, Made
  <2>4. node' \in [Levels -> NodeRecords] /\ queue' \in [Events -> Seq(QueueEntries)]
        /\ top' \in TopRecords /\ due' \subseteq Made
    <3>1. CASE ~ frame[f].visible
      <4>1. UNCHANGED <<drawn, due>>
        BY <1>0, <1>2, <1>5, <3>1 DEF SetFrameLevel
      <4>. QED  BY <4>1 DEF drawn, FramesTypeOK
    <3>2. CASE frame[f].visible
      <4>1. /\ node' = AddFrame(RemoveFrame(f, l), f, n)
            /\ queue' \in Registered(Unqueue(f, E), f, E, n)
            /\ top' = [top EXCEPT !.checkFocus = @ \/ "mouse" \in E]
            /\ due' = due \ {f}
        BY <1>0, <1>2, <1>5, <3>2 DEF SetFrameLevel
      <4>2. node' \in [Levels -> NodeRecords]
        BY <1>2, <2>1, <4>1, RemoveFrameType, AddFrameType
      <4>3. Unqueue(f, E) \in [Events -> Seq(QueueEntries)]
        BY UnqueueProperties
      <4>4. queue' \in [Events -> Seq(QueueEntries)]
        BY <1>2, <2>1, <4>1, <4>3, RegisteredType
      <4>. QED  BY <4>1, <4>2, <4>4 DEF FramesTypeOK, TopRecords
    <3>. QED  BY <3>1, <3>2
  <2>5. quirks' \subseteq Quirks
    <3>1. quirks' = quirks \cup {q \in {"shifted"} : BeingHidden(f)}
          \/ quirks' = quirks \cup {q \in {"late"} : Waits(f, node')}
                            \cup {q \in {"requeued"} : Pending("Disabled", f)}
      BY <1>0, <1>2, <1>5 DEF SetFrameLevel
    <3>. QED  BY <3>1 DEF FramesTypeOK, Quirks
  <2>6. FramesTypeOK'
    BY <2>3, <2>4, <2>5, TypesKept DEF SetFrameLevel, FramesTypeOK
  <2>7. CallFits(a, Made)
    BY <1>2, <2>1 DEF CallFits, Call, Levels
  <2>8. StackOK' /\ Members(calls') = {a} \cup Members(Tail(calls))
    BY <1>1, <2>2, <2>3, <2>7, StackRunsOne DEF Call, Lasts
  <2>. QED  BY <1>0, <1>2, <1>5, <2>1, <2>3, <2>6, <2>8 DEF Behind
<1>. QED  BY <1>0, <1>2, <1>3, <1>4, <1>5

LEMMA ShiftChildrenSound ==
    ASSUME FramesTypeOK, StackOK, ShiftChildren
    PROVE  /\ FramesTypeOK' /\ StackOK' /\ Made' = Made
           /\ LET f == calls[1].frame
                  i == calls[1].arg[1]
                  delta == calls[1].arg[2]
                  child == frame[f].children[i]
              IN  Members(calls') =
                   (IF i > Len(frame[f].children) THEN {}
                    ELSE {Call("SetFrameLevel", child, frame[child].level + delta),
                          Call("ShiftChildren", f, <<i + 1, delta>>)}) \cup Behind
<1>. DEFINE f == calls[1].frame
<1>1. calls # <<>> /\ calls[1].op = "ShiftChildren" /\ CallFits(calls[1], Made)
  BY FirstCall DEF StackOK, ShiftChildren, Running
<1>. DEFINE i == calls[1].arg[1]
            delta == calls[1].arg[2]
            child == frame[f].children[i]
            a == Call("SetFrameLevel", child, frame[child].level + delta)
            b == Call("ShiftChildren", f, <<i + 1, delta>>)
<1>2. f \in Made /\ i \in Nat \ {0} /\ delta \in Int
  BY <1>1 DEF CallFits
<1>3. Made' = Made /\ frame[f].children \in Seq(Made)
  BY <1>2 DEF ShiftChildren, FramesTypeOK, FrameRecords, Made
<1>4. FramesTypeOK'
  BY <1>3, TypesKept DEF ShiftChildren, FramesTypeOK, drawn, histories
<1>5. CASE i > Len(frame[f].children)
  <2>1. Return
    BY <1>5 DEF ShiftChildren
  <2>. QED  BY <1>1, <1>3, <1>4, <1>5, <2>1, StackReturns DEF Behind
<1>6. CASE ~ i > Len(frame[f].children)
  <2>1. i \in 1..Len(frame[f].children)
    BY <1>2, <1>3, <1>6, LenProperties
  <2>2. child \in Made
    BY <1>3, <2>1, ElementOfSeq
  <2>3. frame[child].level + delta \in Int
    BY SMTT(30), <1>2, <2>2, FramesAssumption DEF FramesTypeOK, FrameRecords, Levels
  <2>4. CallFits(a, Made) /\ CallFits(b, Made) /\ Run(<<a, b>>)
    <3>1. CallFits(a, Made)
      BY <2>2, <2>3 DEF CallFits, Call
    <3>2. <<i + 1, delta>>[1] \in Nat \ {0} /\ <<i + 1, delta>>[2] \in Int
      BY <1>2
    <3>3. b.op = "ShiftChildren" /\ b.frame = f /\ b.arg = <<i + 1, delta>>
      BY DEF Call
    <3>4. CallFits(b, Made)
      <4>. HIDE DEF b
      <4>. QED  BY <1>2, <3>2, <3>3 DEF CallFits
    <3>. QED  BY <1>6, <3>1, <3>4 DEF ShiftChildren
  <2>5. StackOK' /\ Members(calls') = {a, b} \cup Members(Tail(calls))
    BY <1>1, <1>3, <2>4, StackRunsTwo DEF Call, Lasts, Firsts
  <2>. QED  BY <1>3, <1>4, <1>6, <2>5 DEF Behind
<1>. QED  BY <1>5, <1>6

LEMMA SetParentSound ==
    ASSUME FramesTypeOK, StackOK, SetParent
    PROVE  /\ FramesTypeOK' /\ StackOK' /\ Made' = Made
           /\ LET f == calls[1].frame
                  p == calls[1].arg
              IN  Members(calls') =
                   (IF frame[f].parent = p THEN {}
                    ELSE {Call("HideThis", f, 0), Call("Reparent", f, p)}) \cup Behind
<1>. DEFINE f == calls[1].frame
<1>1. calls # <<>> /\ calls[1].op = "SetParent" /\ CallFits(calls[1], Made)
  BY FirstCall DEF StackOK, SetParent, Running
<1>. DEFINE p == calls[1].arg
            a == Call("HideThis", f, 0)
            b == Call("Reparent", f, p)
<1>2. f \in Made /\ p \in Made \cup {Nil}
  BY <1>1 DEF CallFits
<1>3. Made' = Made
  BY DEF SetParent, Made
<1>4. FramesTypeOK'
  BY <1>3, TypesKept DEF SetParent, FramesTypeOK, drawn, histories
<1>5. CASE frame[f].parent = p
  BY <1>1, <1>3, <1>4, <1>5, StackReturns DEF SetParent, Behind
<1>6. CASE frame[f].parent # p
  <2>1. CallFits(a, Made) /\ CallFits(b, Made) /\ Run(<<a, b>>)
    BY <1>2, <1>6 DEF CallFits, Call, SetParent
  <2>2. StackOK' /\ Members(calls') = {a, b} \cup Members(Tail(calls))
    BY <1>1, <1>3, <2>1, StackRunsTwo DEF Call, Lasts, Firsts
  <2>. QED  BY <1>3, <1>4, <1>6, <2>2 DEF Behind
<1>. QED  BY <1>5, <1>6

LEMMA ReparentSound ==
    ASSUME FramesTypeOK, StackOK, Reparent
    PROVE  /\ FramesTypeOK' /\ StackOK' /\ Made' = Made
           /\ LET f == calls[1].frame
                  p == calls[1].arg
              IN  Members(calls') =
                   {Call("SetFrameLevel", f, IF p = Nil THEN 0 ELSE frame[p].level + 1),
                    Call("SetBeingScrolled", f, 0), Call("Attach", f, 0)} \cup Behind
<1>. DEFINE f == calls[1].frame
<1>1. calls # <<>> /\ calls[1].op = "Reparent" /\ CallFits(calls[1], Made)
  BY FirstCall DEF StackOK, Reparent, Running
<1>. DEFINE p == calls[1].arg
            a == Call("SetFrameLevel", f, IF p = Nil THEN 0 ELSE frame[p].level + 1)
            b == Call("SetBeingScrolled", f, 0)
            c == Call("Attach", f, 0)
<1>2. f \in Made /\ p \in Made \cup {Nil}
  BY <1>1 DEF CallFits
<1>3. Made' = Made /\ frame' \in [Made -> FrameRecords]
  BY ZenonT(30), <1>2 DEF Reparent, FramesTypeOK, FrameRecords, Made
<1>4. FramesTypeOK'
  BY <1>3, TypesKept DEF Reparent, FramesTypeOK, drawn, Quirks
<1>5. (IF p = Nil THEN 0 ELSE frame[p].level + 1) \in Int
  BY <1>2, FramesAssumption DEF FramesTypeOK, FrameRecords, Levels
<1>6. CallFits(a, Made) /\ CallFits(b, Made) /\ CallFits(c, Made) /\ Run(<<a, b, c>>)
  BY <1>2, <1>5 DEF CallFits, Call, Reparent
<1>7. StackOK' /\ Members(calls') = {a, b, c} \cup Members(Tail(calls))
  BY <1>1, <1>3, <1>6, StackRunsThree DEF Call, Lasts, Firsts
<1>. QED  BY <1>3, <1>4, <1>7 DEF Behind

LEMMA SetBeingScrolledSound ==
    ASSUME FramesTypeOK, StackOK, SetBeingScrolled
    PROVE  /\ FramesTypeOK' /\ StackOK' /\ Made' = Made
           /\ LET f == calls[1].frame
              IN  /\ f \in Made
                  /\ \/ "overflow" \in quirks' /\ calls' = <<>>
                     \/ /\ quirks' = quirks
                        /\ Members(calls') = {Call("HideThis", f, 0),
                              Call("ScrollChildren", f, <<1, frame[f].visible>>)} \cup Behind
<1>. DEFINE f == calls[1].frame
<1>1. calls # <<>> /\ calls[1].op = "SetBeingScrolled" /\ CallFits(calls[1], Made)
  BY FirstCall DEF StackOK, SetBeingScrolled, Running
<1>. DEFINE a == Call("HideThis", f, 0)
            b == Call("ScrollChildren", f, <<1, frame[f].visible>>)
<1>2. f \in Made /\ frame[f].visible \in BOOLEAN
  BY <1>1 DEF CallFits, FramesTypeOK, FrameRecords
<1>3. Made' = Made
  BY DEF SetBeingScrolled, Made
<1>4. FramesTypeOK'
  <2>1. quirks' \subseteq Quirks
    BY DEF SetBeingScrolled, FramesTypeOK, Quirks
  <2>. QED  BY <1>3, <2>1, TypesKept DEF SetBeingScrolled, FramesTypeOK, drawn
<1>5. CASE calls' = <<>> /\ quirks' = quirks \cup {"overflow"}
  BY <1>2, <1>3, <1>4, <1>5, NoCalls DEF StackOK
<1>6. CASE Run(<<a, b>>) /\ quirks' = quirks
  <2>1. CallFits(a, Made)
    BY <1>2 DEF CallFits, Call
  <2>2. /\ <<1, frame[f].visible>>[1] \in Nat \ {0} /\ <<1, frame[f].visible>>[2] \in BOOLEAN
        /\ b.op = "ScrollChildren" /\ b.frame = f /\ b.arg = <<1, frame[f].visible>>
    BY <1>2 DEF Call
  <2>3. CallFits(b, Made)
    <3>. HIDE DEF b
    <3>. QED  BY <1>2, <2>2 DEF CallFits
  <2>4. StackOK' /\ Members(calls') = {a, b} \cup Members(Tail(calls))
    BY <1>1, <1>3, <1>6, <2>1, <2>3, StackRunsTwo DEF Call, Lasts, Firsts
  <2>. QED  BY <1>2, <1>3, <1>4, <1>6, <2>4 DEF Behind
<1>. QED  BY <1>5, <1>6 DEF SetBeingScrolled

LEMMA ScrollChildrenSound ==
    ASSUME FramesTypeOK, StackOK, ScrollChildren
    PROVE  /\ FramesTypeOK' /\ StackOK' /\ Made' = Made
           /\ LET f == calls[1].frame
                  i == calls[1].arg[1]
                  again == calls[1].arg[2]
                  child == frame[f].children[i]
              IN  /\ f \in Made /\ again \in BOOLEAN
                  /\ Members(calls') =
                       (IF i > Len(frame[f].children)
                        THEN IF again THEN {Call("ShowThis", f, 0)} ELSE {}
                        ELSE {Call("SetBeingScrolled", child, 0),
                              Call("ScrollChildren", f, <<i + 1, again>>)}) \cup Behind
<1>. DEFINE f == calls[1].frame
<1>1. calls # <<>> /\ calls[1].op = "ScrollChildren" /\ CallFits(calls[1], Made)
  BY FirstCall DEF StackOK, ScrollChildren, Running
<1>. DEFINE i == calls[1].arg[1]
            again == calls[1].arg[2]
            child == frame[f].children[i]
            a == Call("SetBeingScrolled", child, 0)
            b == Call("ScrollChildren", f, <<i + 1, again>>)
            d == Call("ShowThis", f, 0)
<1>2. f \in Made /\ i \in Nat \ {0} /\ again \in BOOLEAN
  BY <1>1 DEF CallFits
<1>3. Made' = Made /\ frame[f].children \in Seq(Made)
  BY <1>2 DEF ScrollChildren, FramesTypeOK, FrameRecords, Made
<1>4. FramesTypeOK'
  BY <1>3, TypesKept DEF ScrollChildren, FramesTypeOK, drawn, histories
<1>5. CASE i > Len(frame[f].children) /\ ~ again
  <2>1. Return
    BY <1>5 DEF ScrollChildren
  <2>. QED  BY <1>1, <1>2, <1>3, <1>4, <1>5, <2>1, StackReturns DEF Behind
<1>6. CASE i > Len(frame[f].children) /\ again
  <2>1. CallFits(d, Made) /\ Run(<<d>>)
    BY <1>2, <1>6 DEF CallFits, Call, ScrollChildren
  <2>2. StackOK' /\ Members(calls') = {d} \cup Members(Tail(calls))
    BY <1>1, <1>3, <2>1, StackRunsOne DEF Call, Lasts
  <2>. QED  BY <1>2, <1>3, <1>4, <1>6, <2>2 DEF Behind
<1>7. CASE ~ i > Len(frame[f].children)
  <2>1. i \in 1..Len(frame[f].children)
    BY <1>2, <1>3, <1>7, LenProperties
  <2>2. child \in Made
    BY <1>3, <2>1, ElementOfSeq
  <2>3. CallFits(a, Made)
    BY <2>2 DEF CallFits, Call
  <2>4. /\ <<i + 1, again>>[1] \in Nat \ {0} /\ <<i + 1, again>>[2] \in BOOLEAN
        /\ b.op = "ScrollChildren" /\ b.frame = f /\ b.arg = <<i + 1, again>>
    BY <1>2 DEF Call
  <2>5. CallFits(b, Made)
    <3>. HIDE DEF b
    <3>. QED  BY <1>2, <2>4 DEF CallFits
  <2>6. Run(<<a, b>>)
    BY <1>7 DEF ScrollChildren
  <2>7. StackOK' /\ Members(calls') = {a, b} \cup Members(Tail(calls))
    BY <1>1, <1>3, <2>3, <2>5, <2>6, StackRunsTwo DEF Call, Lasts, Firsts
  <2>. QED  BY <1>2, <1>3, <1>4, <1>7, <2>7 DEF Behind
<1>. QED  BY <1>5, <1>6, <1>7

LEMMA AttachSound ==
    ASSUME FramesTypeOK, StackOK, Attach
    PROVE  /\ FramesTypeOK' /\ StackOK' /\ Made' = Made
           /\ Members(calls') = {Call("ShowThis", calls[1].frame, 0)} \cup Behind
<1>. DEFINE f == calls[1].frame
<1>1. calls # <<>> /\ calls[1].op = "Attach" /\ CallFits(calls[1], Made)
  BY FirstCall DEF StackOK, Attach, Running
<1>. DEFINE p == frame[f].parent
<1>2. f \in Made /\ p \in Made \cup {Nil}
  BY <1>1 DEF CallFits, FramesTypeOK, FrameRecords
<1>3. Made' = Made /\ frame' \in [Made -> FrameRecords]
  <2>1. CASE p = Nil
    BY <2>1 DEF Attach, FramesTypeOK, Made
  <2>2. CASE p # Nil
    <3>1. p \in Made /\ Append(frame[p].children, f) \in Seq(Made)
      BY <1>2, <2>2, AppendProperties DEF FramesTypeOK, FrameRecords
    <3>2. frame' = [frame EXCEPT ![p].children = Append(frame[p].children, f)]
      BY <2>2 DEF Attach
    <3>. QED  BY ZenonT(30), <3>1, <3>2 DEF FramesTypeOK, FrameRecords, Made
  <2>. QED  BY <2>1, <2>2
<1>4. FramesTypeOK'
  BY <1>3, TypesKept DEF Attach, FramesTypeOK, drawn, Quirks
<1>5. CallFits(Call("ShowThis", f, 0), Made)
  BY <1>2 DEF CallFits, Call
<1>. QED  BY <1>1, <1>3, <1>4, <1>5, StackRunsOne DEF Attach, Call, Lasts, Behind

LEMMA EnableEventSound ==
    ASSUME FramesTypeOK, StackOK, EnableEvent
    PROVE  /\ FramesTypeOK' /\ StackOK' /\ Made' = Made
           /\ Members(calls') = Behind
<1>. DEFINE f == calls[1].frame
<1>1. calls # <<>> /\ calls[1].op = "EnableEvent" /\ CallFits(calls[1], Made)
  BY FirstCall DEF StackOK, EnableEvent, Running
<1>2. f \in Made
  BY <1>1 DEF CallFits
<1>3. Made' = Made /\ frame' \in [Made -> FrameRecords]
  BY ZenonT(30), <1>2 DEF EnableEvent, FramesTypeOK, FrameRecords, Made, Events
<1>4. FramesTypeOK'
  <2>1. queue' \in [Events -> Seq(QueueEntries)] /\ top' \in TopRecords
    <3>1. CASE UNCHANGED <<queue, top>>
      BY <3>1 DEF FramesTypeOK
    <3>2. CASE /\ queue' \in Registered(queue, f, {"mouse"}, frame[f].level)
               /\ top' = [top EXCEPT !.checkFocus = TRUE]
      <4>1. frame[f].level \in Levels /\ queue \in [Events -> Seq(QueueEntries)]
        BY <1>2 DEF FramesTypeOK, FrameRecords
      <4>. QED  BY <1>2, <3>2, <4>1, RegisteredType DEF FramesTypeOK, TopRecords
    <3>. QED  BY <3>1, <3>2 DEF EnableEvent
  <2>. QED  BY <1>3, <2>1, TypesKept DEF EnableEvent, FramesTypeOK, Quirks
<1>. QED  BY <1>1, <1>3, <1>4, StackReturns DEF EnableEvent, Behind

LEMMA DisabledSound ==
    ASSUME FramesTypeOK, StackOK, Disabled
    PROVE  /\ FramesTypeOK' /\ StackOK' /\ Made' = Made
           /\ Members(calls') = Behind
<1>. DEFINE f == calls[1].frame
<1>1. calls # <<>> /\ calls[1].op = "Disabled" /\ CallFits(calls[1], Made)
  BY FirstCall DEF StackOK, Disabled, Running
<1>2. f \in Made
  BY <1>1 DEF CallFits
<1>3. Made' = Made /\ frame' \in [Made -> FrameRecords]
  BY ZenonT(30), <1>2 DEF Disabled, FramesTypeOK, FrameRecords, Made
<1>4. FramesTypeOK'
  BY <1>3, TypesKept DEF Disabled, FramesTypeOK, drawn, histories
<1>. QED  BY <1>1, <1>3, <1>4, StackReturns DEF Disabled, Behind

LEMMA LockHighlightSound ==
    ASSUME FramesTypeOK, StackOK, LockHighlight
    PROVE  /\ FramesTypeOK' /\ StackOK' /\ Made' = Made
           /\ Members(calls') = Behind
<1>. DEFINE f == calls[1].frame
<1>1. calls # <<>> /\ calls[1].op = "LockHighlight" /\ CallFits(calls[1], Made)
  BY FirstCall DEF StackOK, LockHighlight, Running
<1>2. f \in Made /\ calls[1].arg \in BOOLEAN
  BY <1>1 DEF CallFits
<1>3. Made' = Made /\ frame' \in [Made -> FrameRecords]
  <2>1. CASE frame' = frame
    BY <2>1 DEF FramesTypeOK, Made
  <2>2. CASE frame' = [frame EXCEPT ![f].locked = calls[1].arg,
                                    ![f].highlight = calls[1].arg \/ top.mouseFocus = f]
    <3>1. PICK h \in BOOLEAN : h = (calls[1].arg \/ top.mouseFocus = f)
      OBVIOUS
    <3>2. PICK lock \in BOOLEAN : lock = calls[1].arg
      BY <1>2
    <3>. DEFINE locked == [frame EXCEPT ![f].locked = lock]
    <3>3. locked \in [Made -> FrameRecords]
      BY ZenonT(30), <1>2 DEF FramesTypeOK, FrameRecords
    <3>4. frame' = [locked EXCEPT ![f].highlight = h]
      BY <1>2, <2>2, <3>1, <3>2 DEF FramesTypeOK
    <3>. HIDE DEF locked
    <3>5. frame' \in [Made -> FrameRecords]
      BY <1>2, <3>3, <3>4 DEF FrameRecords
    <3>. QED  BY <3>5 DEF Made
  <2>. QED  BY <2>1, <2>2 DEF LockHighlight
<1>4. FramesTypeOK'
  BY <1>3, TypesKept DEF LockHighlight, FramesTypeOK, drawn, histories
<1>. QED  BY <1>1, <1>3, <1>4, StackReturns DEF LockHighlight, Behind

LEMMA CursorEnterSound ==
    ASSUME FramesTypeOK, StackOK, CursorEnter
    PROVE  /\ FramesTypeOK' /\ StackOK' /\ Made' = Made
           /\ Members(calls') = {Script(calls[1].frame)} \cup Behind
<1>. DEFINE f == calls[1].frame
<1>1. calls # <<>> /\ calls[1].op = "CursorEnter" /\ CallFits(calls[1], Made)
  BY FirstCall DEF StackOK, CursorEnter, Running
<1>2. f \in Made
  BY <1>1 DEF CallFits
<1>3. Made' = Made /\ frame' \in [Made -> FrameRecords]
  <2>1. PICK h \in BOOLEAN : h = (frame[f].highlight \/ ~ frame[f].locked)
    OBVIOUS
  <2>2. frame' = [frame EXCEPT ![f].highlight = h]
    BY <2>1 DEF CursorEnter
  <2>. QED  BY ZenonT(30), <1>2, <2>2 DEF FramesTypeOK, FrameRecords, Made
<1>4. FramesTypeOK'
  BY <1>2, <1>3, TypesKept DEF CursorEnter, FramesTypeOK, drawn, Quirks
<1>5. CallFits(Script(f), Made)
  BY <1>2 DEF CallFits, Call, Script
<1>. QED  BY <1>1, <1>3, <1>4, <1>5, StackRunsOne DEF CursorEnter, Script, Call, Lasts, Behind

LEMMA CursorExitSound ==
    ASSUME FramesTypeOK, StackOK, CursorExit
    PROVE  /\ FramesTypeOK' /\ StackOK' /\ Made' = Made
           /\ Members(calls') = {Script(calls[1].frame)} \cup Behind
<1>. DEFINE f == calls[1].frame
<1>1. calls # <<>> /\ calls[1].op = "CursorExit" /\ CallFits(calls[1], Made)
  BY FirstCall DEF StackOK, CursorExit, Running
<1>2. f \in Made
  BY <1>1 DEF CallFits
<1>3. Made' = Made /\ frame' \in [Made -> FrameRecords]
  <2>1. PICK h \in BOOLEAN : h = (frame[f].highlight /\ frame[f].locked)
    OBVIOUS
  <2>2. frame' = [frame EXCEPT ![f].highlight = h]
    BY <2>1 DEF CursorExit
  <2>. QED  BY ZenonT(30), <1>2, <2>2 DEF FramesTypeOK, FrameRecords, Made
<1>4. FramesTypeOK'
  BY <1>2, <1>3, TypesKept DEF CursorExit, FramesTypeOK, drawn, Quirks
<1>5. CallFits(Script(f), Made)
  BY <1>2 DEF CallFits, Call, Script
<1>. QED  BY <1>1, <1>3, <1>4, <1>5, StackRunsOne DEF CursorExit, Script, Call, Lasts, Behind

LEMMA ScriptReturnsSound ==
    ASSUME FramesTypeOK, StackOK, ScriptReturns
    PROVE  /\ FramesTypeOK' /\ StackOK' /\ Made' = Made
           /\ Members(calls') = Behind
<1>. DEFINE f == calls[1].frame
<1>1. calls # <<>> /\ calls[1].op = "Script" /\ CallFits(calls[1], Made)
  BY FirstCall DEF StackOK, ScriptReturns, Running
<1>3. Made' = Made
  BY DEF ScriptReturns, Made
<1>4. FramesTypeOK'
  BY <1>3, TypesKept DEF ScriptReturns, FramesTypeOK, drawn, histories
<1>. QED  BY <1>1, <1>3, <1>4, StackReturns DEF ScriptReturns, Behind

LEMMA DisableEventSound ==
    ASSUME FramesTypeOK, StackOK, DisableEvent
    PROVE  /\ FramesTypeOK' /\ StackOK' /\ Made' = Made
           /\ Members(calls') =
                   (IF "mouse" \notin frame[calls[1].frame].eventmask THEN {}
                    ELSE {Call("Disabled", calls[1].frame, 0)}
                         \cup (IF frame[calls[1].frame].visible THEN LeaveCalls(calls[1].frame, {"mouse"}) ELSE {}))
                   \cup Behind
<1>. DEFINE f == calls[1].frame
<1>1. calls # <<>> /\ calls[1].op = "DisableEvent" /\ CallFits(calls[1], Made)
  BY FirstCall DEF StackOK, DisableEvent, Running
<1>. DEFINE E == {"mouse"}
            a == Call("CursorExit", f, 0)
            b == Call("Disabled", f, 0)
<1>2. f \in Made
  BY <1>1 DEF CallFits
<1>3. Made' = Made
  BY DEF DisableEvent, Made
<1>4. FramesTypeOK'
  <2>1. queue' \in [Events -> Seq(QueueEntries)] /\ top' \in TopRecords
    <3>1. UNCHANGED <<queue, top>> \/ (queue' = Unqueue(f, E) /\ top' = Forget(f, E))
      BY DEF DisableEvent
    <3>. QED  BY <3>1, UnqueueProperties, ForgetType DEF FramesTypeOK
  <2>. QED  BY <1>3, <2>1, TypesKept DEF DisableEvent, FramesTypeOK, histories
<1>5. CallFits(a, Made) /\ CallFits(b, Made)
  BY <1>2 DEF CallFits, Call
<1>6. CASE "mouse" \notin frame[f].eventmask
  BY <1>1, <1>3, <1>4, <1>6, StackReturns DEF DisableEvent, Behind
<1>7. CASE /\ "mouse" \in frame[f].eventmask
           /\ ~ (frame[f].visible /\ Queued(f, "mouse") /\ top.mouseFocus = f)
  <2>1. Run(<<b>>)
    <3>1. CASE ~ frame[f].visible
      BY <1>7, <3>1 DEF DisableEvent
    <3>2. CASE frame[f].visible
      <4>1. ~ ("mouse" \in E /\ Queued(f, "mouse") /\ top.mouseFocus = f)
        BY <1>7, <3>2
      <4>2. Leaves(f, E) \o <<b>> = <<b>>
        <5>. HIDE DEF f, E, b
        <5>. QED  BY <4>1, LeavesThen
      <4>3. Run(Leaves(f, E) \o <<b>>)
        BY <1>7, <3>2 DEF DisableEvent
      <4>. QED  BY <4>2, <4>3
    <3>. QED  BY <3>1, <3>2
  <2>2. StackOK' /\ Members(calls') = {b} \cup Members(Tail(calls))
    BY <1>1, <1>3, <1>5, <2>1, StackRunsOne DEF Call, Lasts
  <2>3. (IF frame[f].visible THEN LeaveCalls(f, E) ELSE {}) = {}
    BY <1>7 DEF LeaveCalls
  <2>. QED  BY <1>3, <1>4, <1>7, <2>2, <2>3 DEF Behind
<1>8. CASE "mouse" \in frame[f].eventmask
           /\ frame[f].visible /\ Queued(f, "mouse") /\ top.mouseFocus = f
  <2>1. Run(<<a, b>>) /\ LeaveCalls(f, E) = {a}
    BY <1>8, LeavesThen DEF DisableEvent, LeaveCalls
  <2>2. StackOK' /\ Members(calls') = {a, b} \cup Members(Tail(calls))
    BY <1>1, <1>3, <1>5, <2>1, StackRunsTwo DEF Call, Lasts, Firsts
  <2>. QED  BY <1>3, <1>4, <1>8, <2>1, <2>2 DEF Behind
<1>. QED  BY <1>6, <1>7, <1>8

\* A call on top of the others.
LEMMA CalledByScript ==
    ASSUME NEW made, NEW c, NEW s, s # <<>>, StackFits(s, made), s[1].op = "Script",
           CallFits(c, made), c.op \notin Lasts
    PROVE  StackFits(<<c>> \o s, made) /\ Members(<<c>> \o s) = {c} \cup Members(s)
<1>. DEFINE t == <<c>> \o s
<1>1. /\ s \in Seq(Members(s)) /\ <<c>> \in Seq({c}) /\ DOMAIN s = 1..Len(s)
      /\ Len(s) \in Nat \ {0} /\ Len(<<c>>) = 1
  BY LenProperties, EmptySeq DEF StackFits
<1>2. <<c>> \in Seq({c} \cup Members(s)) /\ s \in Seq({c} \cup Members(s))
  BY <1>1
<1>3. /\ t \in Seq({c} \cup Members(s)) /\ Len(t) = Len(s) + 1
      /\ \A i \in 1..Len(t) : i <= 1 => t[i] = <<c>>[i]
      /\ \A i \in 1..Len(t) : i > 1 => t[i] = s[i - 1]
  <2>1. Len(s) + 1 = Len(<<c>>) + Len(s)
    BY <1>1
  <2>2. t \in Seq({c} \cup Members(s)) /\ Len(t) = Len(s) + 1
    BY <1>1, <1>2, <2>1, ConcatElements
  <2>. QED  BY <1>1, <1>2, <2>1, <2>2, ConcatElements
<1>4. t[1] = c /\ DOMAIN t = 1..Len(t)
  BY <1>1, <1>3, LenProperties
<1>. HIDE DEF t
<1>5. ASSUME NEW i \in 1..Len(t), i # 1
      PROVE  i - 1 \in DOMAIN s /\ t[i] = s[i - 1]
  BY <1>1, <1>3, <1>5
<1>6. ASSUME NEW i \in DOMAIN s
      PROVE  i + 1 \in DOMAIN t /\ t[i + 1] = s[i]
  <2>1. i + 1 \in 1..Len(t) /\ i + 1 > 1 /\ (i + 1) - 1 = i
    BY <1>1, <1>3
  <2>. QED  BY <1>3, <1>4, <2>1
<1>7. Members(t) = {c} \cup Members(s)
  <2>1. \A i \in DOMAIN t : t[i] \in {c} \cup Members(s)
    BY <1>4, <1>5 DEF Members
  <2>2. \A i \in DOMAIN s : s[i] \in Members(t)
    BY <1>6 DEF Members
  <2>3. 1 \in DOMAIN t
    BY <1>1, <1>3, <1>4
  <2>. QED  BY <1>4, <2>1, <2>2, <2>3 DEF Members
<1>8. t \in Seq(Members(t))
  BY <1>3, <1>7
<1>9. ASSUME NEW i \in DOMAIN s
      PROVE  s[i].op \notin Firsts /\ (s[i].op \in Lasts => i = Len(s))
  <2>1. s[1].op \notin Firsts
    BY DEF Firsts
  <2>. QED  BY <2>1 DEF StackFits, InOrder
<1>10. InOrder(t)
  <2>1. ASSUME NEW i \in 1..Len(t), i # 1
        PROVE  t[i].op \notin Firsts /\ (t[i].op \in Lasts => i = Len(t))
    <3>1. i - 1 \in DOMAIN s /\ t[i] = s[i - 1] /\ (i - 1 = Len(s) => i = Len(t))
      BY <1>1, <1>3, <1>5, <2>1
    <3>. QED  BY <1>9, <3>1
  <2>. QED  BY <1>4, <2>1 DEF InOrder
<1>11. \A d \in Members(t) : CallFits(d, made)
  BY <1>7 DEF StackFits
<1>. QED  BY <1>7, <1>8, <1>10, <1>11 DEF StackFits, t

LEMMA ScriptCallsSound ==
    ASSUME FramesTypeOK, StackOK, ScriptCalls
    PROVE  /\ FramesTypeOK' /\ StackOK' /\ Made' = Made
           /\ calls = <<>> \/ (calls # <<>> /\ calls[1].op = "Script")
           /\ \E c : /\ c.op \in ScriptOps /\ c.frame \in Made
                   /\ Members(calls') = {c} \cup Members(calls) /\ calls' = <<c>> \o calls
<1>0. PICK f \in Made : \E c \in Operations(f) : calls' = <<c>> \o calls
  BY DEF ScriptCalls
<1>1. PICK c \in Operations(f) : calls' = <<c>> \o calls
  BY <1>0
<1>2. c.frame = f /\ c.op \in ScriptOps
  BY DEF Operations, Call, ScriptOps
<1>3. /\ c.op = "SetFrameLevel" => c.arg \in Int
      /\ c.op = "SetParent" => c.arg \in Made \cup {Nil}
      /\ c.op = "LockHighlight" => c.arg \in BOOLEAN
  <2>1. CASE c.op = "SetFrameLevel"
    BY SMTT(30), <2>1, FramesAssumption DEF Operations, Call
  <2>2. CASE c.op = "SetParent"
    BY SMTT(30), <2>2 DEF Operations, Call
  <2>3. CASE c.op = "LockHighlight"
    BY SMTT(30), <2>3 DEF Operations, Call
  <2>. QED  BY <2>1, <2>2, <2>3
<1>. HIDE DEF Operations
<1>4. CallFits(c, Made)
  BY <1>2, <1>3 DEF CallFits, ScriptOps
<1>5. Made' = Made
  BY DEF ScriptCalls, Made
<1>6. FramesTypeOK'
  <2>1. ops' \in Seq(SUBSET (ScriptOps \X Frame))
    BY HeadTailProperties DEF ScriptCalls, FramesTypeOK
  <2>. QED  BY <1>5, <2>1, TypesKept DEF ScriptCalls, FramesTypeOK, drawn, histories
<1>7. StackFits(<<c>>, Made) /\ Members(<<c>>) = {c}
  BY <1>4, OneCall
<1>8. c.op \notin Lasts
  BY <1>2 DEF ScriptOps, Lasts
<1>9. CASE calls = <<>>
  <2>1. calls' = <<c>> /\ Members(calls) = {}
    BY <1>1, <1>9, NoCalls
  <2>. QED  BY <1>1, <1>2, <1>5, <1>6, <1>7, <1>9, <2>1 DEF StackOK
<1>10. CASE calls # <<>> /\ calls[1].op = "Script"
  <2>. DEFINE s == <<c>> \o calls
  <2>1. StackFits(<<c>>, Made) /\ StackFits(calls, Made) /\ c.op \notin Lasts
    BY <1>7, <1>8 DEF StackOK
  <2>2. StackFits(s, Made) /\ Members(s) = {c} \cup Members(calls)
    BY <1>4, <1>10, <2>1, CalledByScript
  <2>. QED  BY <1>1, <1>2, <1>5, <1>6, <1>10, <2>2 DEF StackOK
<1>. QED  BY <1>9, <1>10 DEF ScriptCalls, Running

\* A call with nothing behind it.
LEMMA NothingBehind ==
    ASSUME NEW S, NEW cs \in Seq(S), Run(cs), Tail(calls) = <<>>
    PROVE  calls' = cs
BY ConcatEmptySeq DEF Run

\* Calls of the game: the stack is empty.
LEMMA StackBegins ==
    ASSUME Made' = Made, StackFits(calls', Made)
    PROVE  StackOK'
BY DEF StackOK

LEMMA OnMouseMoveSound ==
    ASSUME FramesTypeOK, StackOK, OnMouseMove
    PROVE  /\ FramesTypeOK' /\ StackOK' /\ Made' = Made
           /\ \E hits \in SUBSET Frame :
                   /\ top' = [top EXCEPT !.hits = hits, !.mouseFocus = FocusChange(hits).focus]
                   /\ Members(calls') = Members(FocusChange(hits).scripts)
<1>1. PICK hits \in SUBSET Frame :
        /\ top' = [top EXCEPT !.hits = hits, !.mouseFocus = FocusChange(hits).focus]
        /\ calls' = FocusChange(hits).scripts
  BY FramesAssumption DEF OnMouseMove, FramesAssumption
<1>2. Made' = Made
  BY DEF OnMouseMove, Made
<1>3. FramesTypeOK'
  <2>1. PICK next \in Made \cup {Nil} : next = FocusChange(hits).focus
    BY FocusChangeProperties
  <2>2. top' \in TopRecords
    BY <1>1, <2>1, FramesAssumption DEF FramesTypeOK, TopRecords
  <2>. QED  BY <1>2, <2>2, TypesKept DEF OnMouseMove, FramesTypeOK, histories
<1>4. StackFits(FocusChange(hits).scripts, Made)
  BY FramesAssumption, FocusScripts
<1>. QED  BY <1>1, <1>2, <1>3, <1>4, StackBegins

LEMMA OnMouseDownSound ==
    ASSUME FramesTypeOK, StackOK, OnMouseDown
    PROVE  /\ FramesTypeOK' /\ StackOK' /\ Made' = Made
           /\ \E target \in Made :
                   /\ Members(calls') = {Script(target)}
                   /\ top' = [top EXCEPT !.mouseCapture = target]
                   /\ target \in {top.mouseCapture, top.mouseFocus}
<1>. DEFINE target == IF top.mouseCapture # Nil THEN top.mouseCapture ELSE top.mouseFocus
<1>1. /\ target # Nil /\ top' = [top EXCEPT !.mouseCapture = target]
      /\ calls' = <<Script(target)>>
  BY DEF OnMouseDown
<1>2. target \in Made /\ target \in {top.mouseCapture, top.mouseFocus}
  BY <1>1 DEF FramesTypeOK, TopRecords
<1>. HIDE DEF target
<1>3. Made' = Made
  BY DEF OnMouseDown, Made
<1>4. FramesTypeOK'
  <2>1. top' \in TopRecords
    BY <1>1, <1>2 DEF FramesTypeOK, TopRecords
  <2>. QED  BY <1>3, <2>1, TypesKept DEF OnMouseDown, FramesTypeOK, histories
<1>5. CallFits(Script(target), Made)
  BY <1>2 DEF CallFits, Script, Call
<1>6. StackFits(<<Script(target)>>, Made) /\ Members(<<Script(target)>>) = {Script(target)}
  BY <1>5, OneCall
<1>. QED  BY <1>1, <1>2, <1>3, <1>4, <1>6, StackBegins

LEMMA OnMouseUpSound ==
    ASSUME FramesTypeOK, StackOK, OnMouseUp
    PROVE  /\ FramesTypeOK' /\ StackOK' /\ Made' = Made
           /\ \E last \in BOOLEAN : Members(calls') =
                   {Script(top.mouseCapture), Call("MouseReleased", Nil, last)}
<1>1. PICK last \in BOOLEAN :
        calls' = <<Script(top.mouseCapture), Call("MouseReleased", Nil, last)>>
  BY DEF OnMouseUp
<1>. DEFINE a == Script(top.mouseCapture)
            b == Call("MouseReleased", Nil, last)
<1>2. top.mouseCapture \in Made
  BY DEF OnMouseUp, FramesTypeOK, TopRecords
<1>3. Made' = Made
  BY DEF OnMouseUp, Made
<1>4. FramesTypeOK'
  BY <1>3, TypesKept DEF OnMouseUp, FramesTypeOK, drawn, histories
<1>5. CallFits(a, Made) /\ CallFits(b, Made) /\ a.op = "Script" /\ b.op = "MouseReleased"
  BY <1>2 DEF CallFits, Script, Call
<1>6. StackFits(<<a, b>>, Made) /\ Members(<<a, b>>) = {a, b}
  <2>1. a.op \notin Lasts /\ b.op \notin Firsts
    BY <1>5 DEF Firsts, Lasts
  <2>. HIDE DEF a, b
  <2>. QED  BY <1>5, <2>1, TwoCalls
<1>. QED  BY <1>1, <1>3, <1>4, <1>6, StackBegins

LEMMA MouseReleasedSound ==
    ASSUME FramesTypeOK, StackOK, MouseReleased
    PROVE  /\ FramesTypeOK' /\ StackOK' /\ Made' = Made
           /\ Members(calls') = Behind
<1>. DEFINE f == calls[1].frame
<1>1. calls # <<>> /\ calls[1].op = "MouseReleased" /\ CallFits(calls[1], Made)
  BY FirstCall DEF StackOK, MouseReleased, Running
<1>3. Made' = Made
  BY DEF MouseReleased, Made
<1>4. FramesTypeOK'
  <2>1. top' \in TopRecords
    BY <1>1 DEF MouseReleased, CallFits, FramesTypeOK, TopRecords
  <2>. QED  BY <1>3, <2>1, TypesKept DEF MouseReleased, FramesTypeOK, histories
<1>. QED  BY <1>1, <1>3, <1>4, StackReturns DEF MouseReleased, Behind

LEMMA KeyReleasedSound ==
    ASSUME FramesTypeOK, StackOK, KeyReleased
    PROVE  /\ FramesTypeOK' /\ StackOK' /\ Made' = Made
           /\ Members(calls') = Behind
<1>. DEFINE f == calls[1].frame
<1>1. calls # <<>> /\ calls[1].op = "KeyReleased" /\ CallFits(calls[1], Made)
  BY FirstCall DEF StackOK, KeyReleased, Running
<1>3. Made' = Made
  BY DEF KeyReleased, Made
<1>4. FramesTypeOK'
  <2>1. top' \in TopRecords
    BY <1>1 DEF KeyReleased, CallFits, FramesTypeOK, TopRecords
  <2>. QED  BY <1>3, <2>1, TypesKept DEF KeyReleased, FramesTypeOK, histories
<1>. QED  BY <1>1, <1>3, <1>4, StackReturns DEF KeyReleased, Behind

LEMMA KeyEatenSound ==
    ASSUME FramesTypeOK, StackOK, KeyEaten
    PROVE  /\ FramesTypeOK' /\ StackOK' /\ Made' = Made
           /\ Members(calls') = Behind
<1>. DEFINE f == calls[1].frame
<1>1. calls # <<>> /\ calls[1].op = "KeyEaten" /\ CallFits(calls[1], Made)
  BY FirstCall DEF StackOK, KeyEaten, Running
<1>3. Made' = Made
  BY DEF KeyEaten, Made
<1>4. FramesTypeOK'
  <2>1. top' \in TopRecords
    BY <1>1 DEF KeyEaten, CallFits, FramesTypeOK, TopRecords
  <2>. QED  BY <1>3, <2>1, TypesKept DEF KeyEaten, FramesTypeOK, histories, Quirks
<1>. QED  BY <1>1, <1>3, <1>4, StackReturns DEF KeyEaten, Behind

LEMMA OnKeyDownSound ==
    ASSUME FramesTypeOK, StackOK, OnKeyDown
    PROVE  /\ FramesTypeOK' /\ StackOK' /\ Made' = Made
           /\ Members(calls') = {Call("Key", Nil, 1)}
<1>1. calls' = <<Call("Key", Nil, 1)>>
  BY DEF OnKeyDown
<1>3. Made' = Made
  BY DEF OnKeyDown, Made
<1>4. FramesTypeOK'
  BY <1>3, TypesKept DEF OnKeyDown, FramesTypeOK, drawn, histories
<1>5. CallFits(Call("Key", Nil, 1), Made)
  BY DEF CallFits, Call
<1>6. StackFits(calls', Made) /\ Members(calls') = {Call("Key", Nil, 1)}
  BY <1>1, <1>5, OneCall
<1>. QED  BY <1>3, <1>4, <1>6, StackBegins

LEMMA OnLayerUpdateSound ==
    ASSUME FramesTypeOK, StackOK, OnLayerUpdate
    PROVE  /\ FramesTypeOK' /\ StackOK' /\ Made' = Made
           /\ Members(calls') = {Call("UpdateLevel", Nil, 0)}
<1>1. calls' = <<Call("UpdateLevel", Nil, 0)>>
  BY DEF OnLayerUpdate
<1>3. Made' = Made
  BY DEF OnLayerUpdate, Made
<1>4. FramesTypeOK'
  BY <1>3, TypesKept DEF OnLayerUpdate, FramesTypeOK, drawn, histories
<1>5. CallFits(Call("UpdateLevel", Nil, 0), Made)
  BY DEF CallFits, Call
<1>6. StackFits(calls', Made) /\ Members(calls') = {Call("UpdateLevel", Nil, 0)}
  BY <1>1, <1>5, OneCall
<1>. QED  BY <1>3, <1>4, <1>6, StackBegins

LEMMA KeyLoopSound ==
    ASSUME FramesTypeOK, StackOK, KeyLoop
    PROVE  /\ FramesTypeOK' /\ StackOK' /\ Made' = Made
           /\ LET i == calls[1].arg
                  f == queue["key"][i].frame
              IN  /\ i \in Nat \ {0}
                  /\ Members(calls') =
                       (IF i > Len(queue["key"]) THEN {}
                        ELSE IF frame[f].visible /\ f \in KeyHandlers
                        THEN {Script(f), Call("KeyEaten", f, 0)}
                        ELSE {Call("Key", Nil, i + 1)}) \cup Behind
                  /\ i <= Len(queue["key"]) => i \in DOMAIN queue["key"] /\ f \in Made
<1>1. calls # <<>> /\ calls[1].op = "Key" /\ CallFits(calls[1], Made)
  BY FirstCall DEF StackOK, KeyLoop, Running
<1>. DEFINE i == calls[1].arg
            g == queue["key"][i].frame
            a == Script(g)
            b == Call("KeyEaten", g, 0)
            c == Call("Key", Nil, i + 1)
<1>2. i \in Nat \ {0}
  BY <1>1 DEF CallFits
<1>3. Made' = Made
  BY DEF KeyLoop, Made
<1>4. FramesTypeOK'
  BY <1>3, TypesKept DEF KeyLoop, FramesTypeOK, drawn, histories
<1>5. queue["key"] \in Seq(QueueEntries) /\ Len(queue["key"]) \in Nat
      /\ DOMAIN queue["key"] = 1..Len(queue["key"])
  BY LenProperties DEF FramesTypeOK, Events
<1>6. CASE i > Len(queue["key"])
  <2>1. Return
    BY <1>6 DEF KeyLoop
  <2>2. StackOK' /\ Members(calls') = Members(Tail(calls))
    BY <1>1, <1>3, <2>1, StackReturns
  <2>. QED  BY <1>2, <1>3, <1>4, <1>5, <1>6, <2>2 DEF Behind
<1>7. CASE ~ i > Len(queue["key"])
  <2>1. i \in DOMAIN queue["key"] /\ g \in Made
    <3>1. i \in 1..Len(queue["key"])
      BY <1>2, <1>5, <1>7
    <3>2. queue["key"][i] \in QueueEntries
      BY <1>5, <3>1, ElementOfSeq
    <3>. QED  BY <1>5, <3>1, <3>2 DEF QueueEntries
  <2>2. CASE frame[g].visible /\ g \in KeyHandlers
    <3>1. CallFits(a, Made) /\ CallFits(b, Made) /\ Run(<<a, b>>)
      BY <1>7, <2>1, <2>2 DEF CallFits, Call, Script, KeyLoop
    <3>2. StackOK' /\ Members(calls') = {a, b} \cup Members(Tail(calls))
      BY <1>1, <1>3, <3>1, StackRunsTwo DEF Call, Script, Lasts, Firsts
    <3>. QED  BY <1>2, <1>3, <1>4, <1>7, <2>1, <2>2, <3>2 DEF Behind
  <2>3. CASE ~ (frame[g].visible /\ g \in KeyHandlers)
    <3>1. CallFits(c, Made) /\ Run(<<c>>)
      BY <1>2, <1>7, <2>3 DEF CallFits, Call, KeyLoop
    <3>2. StackOK' /\ Members(calls') = {c} \cup Members(Tail(calls))
      BY <1>1, <1>3, <3>1, StackRunsOne DEF Call, Lasts
    <3>. QED  BY <1>2, <1>3, <1>4, <1>7, <2>1, <2>3, <3>2 DEF Behind
  <2>. QED  BY <2>2, <2>3
<1>. QED  BY <1>6, <1>7

LEMMA OnKeyUpSound ==
    ASSUME FramesTypeOK, StackOK, OnKeyUp
    PROVE  /\ FramesTypeOK' /\ StackOK' /\ Made' = Made
           /\ LET f == top.keydownCapture
              IN  /\ f \in Made
                  /\ Members(calls') =
                       (IF frame[f].visible /\ f \in KeyHandlers THEN {Script(f)} ELSE {})
                       \cup {Call("KeyReleased", f, 0)}
<1>. DEFINE f == top.keydownCapture
            a == Script(f)
            b == Call("KeyReleased", f, 0)
<1>2. f \in Made
  BY DEF OnKeyUp, FramesTypeOK, TopRecords
<1>3. Made' = Made
  BY DEF OnKeyUp, Made
<1>4. FramesTypeOK'
  BY <1>3, TypesKept DEF OnKeyUp, FramesTypeOK, drawn, histories
<1>5. CallFits(a, Made) /\ CallFits(b, Made) /\ a.op = "Script" /\ b.op = "KeyReleased"
  BY <1>2 DEF CallFits, Script, Call
<1>6. calls' = (IF frame[f].visible /\ f \in KeyHandlers THEN <<a>> ELSE <<>>) \o <<b>>
  BY DEF OnKeyUp
<1>7. CASE frame[f].visible /\ f \in KeyHandlers
  <2>1. calls' = <<a, b>>
    BY <1>6, <1>7, TwoCallsJoin
  <2>2. StackFits(<<a, b>>, Made) /\ Members(<<a, b>>) = {a, b}
    <3>1. a.op \notin Lasts /\ b.op \notin Firsts
      BY <1>5 DEF Firsts, Lasts
    <3>. HIDE DEF a, b
    <3>. QED  BY <1>5, <3>1, TwoCalls
  <2>. QED  BY <1>2, <1>3, <1>4, <1>7, <2>1, <2>2, StackBegins
<1>8. CASE ~ (frame[f].visible /\ f \in KeyHandlers)
  <2>1. calls' = <<>> \o <<b>>
    BY <1>6, <1>8
  <2>2. <<>> \o <<b>> = <<b>>
    OBVIOUS
  <2>3. StackFits(<<b>>, Made) /\ Members(<<b>>) = {b}
    BY <1>5, OneCall
  <2>. QED  BY <1>2, <1>3, <1>4, <1>8, <2>1, <2>2, <2>3, StackBegins
<1>. QED  BY <1>7, <1>8

LEMMA UpdateLevelSound ==
    ASSUME FramesTypeOK, StackOK, UpdateLevel
    PROVE  /\ FramesTypeOK' /\ StackOK' /\ Made' = Made
           /\ LET l == Min(LevelsLeft)
              IN  /\ l \in LevelsLeft /\ l \in Levels /\ \A k \in LevelsLeft : l <= k
                  /\ Members(calls') = {Call("UpdateNode", Nil, l)}
                  /\ Len(calls) = 1 /\ calls' = <<Call("UpdateNode", Nil, l)>>
<1>1. calls # <<>> /\ calls[1].op = "UpdateLevel" /\ CallFits(calls[1], Made)
  BY FirstCall DEF StackOK, UpdateLevel, Running
<1>. DEFINE l == Min(LevelsLeft)
            a == Call("UpdateNode", Nil, l)
<1>2. l \in LevelsLeft /\ l \in Levels /\ \A k \in LevelsLeft : l <= k
  <2>1. LevelsLeft \in SUBSET Nat /\ LevelsLeft # {}
    BY FramesAssumption DEF UpdateLevel, LevelsLeft, Levels
  <2>2. l \in LevelsLeft /\ \A k \in LevelsLeft : l <= k
    BY <2>1, MinProperties
  <2>. QED  BY <2>2 DEF LevelsLeft
<1>. HIDE DEF l
<1>3. /\ node' = [node EXCEPT ![l].pendingFrame = Head(node[l].frames)]
      /\ due' = ToSet(node[l].frames) /\ Run(<<a>>)
  BY DEF UpdateLevel, l
<1>4. Made' = Made
  BY DEF UpdateLevel, Made
<1>5. node[l].frames \in Seq(Made) /\ node[l].frames # <<>>
  BY <1>2 DEF LevelsLeft, FramesTypeOK, NodeRecords
<1>6. FramesTypeOK'
  <2>1. Head(node[l].frames) \in Made
    BY <1>5, HeadTailProperties
  <2>2. node' \in [Levels -> NodeRecords]
    BY <1>2, <1>3, <2>1 DEF FramesTypeOK, NodeRecords
  <2>3. due' \subseteq Made
    BY <1>3, <1>5 DEF ToSet
  <2>. QED  BY <1>4, <2>2, <2>3, TypesKept DEF UpdateLevel, FramesTypeOK
<1>7. calls[1].op \in Lasts /\ Len(calls) = 1 /\ Tail(calls) = <<>> /\ Members(Tail(calls)) = {}
  <2>1. calls[1].op \in Lasts
    BY <1>1 DEF Lasts
  <2>. QED  BY <1>1, <2>1, FirstCall DEF StackOK
<1>8. CallFits(a, Made)
  BY <1>2 DEF CallFits, Call
<1>9. StackOK' /\ Members(calls') = {a} \cup Members(Tail(calls))
  BY <1>1, <1>3, <1>4, <1>7, <1>8, StackRunsOne
<1>10. calls' = <<a>>
  <2>1. <<a>> \in Seq({a})
    OBVIOUS
  <2>. QED  BY <1>3, <1>7, <2>1, NothingBehind
<1>. QED  BY <1>2, <1>4, <1>6, <1>7, <1>9, <1>10 DEF l

LEMMA UpdateNodeSound ==
    ASSUME FramesTypeOK, StackOK, UpdateNode
    PROVE  /\ FramesTypeOK' /\ StackOK' /\ Made' = Made
           /\ LET l == calls[1].arg
                  f == node[l].pendingFrame
              IN  /\ l \in Levels /\ Len(calls) = 1
                  /\ f = Nil => calls' = <<Call("UpdateLevel", Nil, l + 1)>>
                       /\ Members(calls') = {Call("UpdateLevel", Nil, l + 1)}
                  /\ f # Nil => f \in Made /\ calls' = <<Script(f), Call("UpdateNode", Nil, l)>>
                       /\ Members(calls') = {Script(f), Call("UpdateNode", Nil, l)}
<1>1. calls # <<>> /\ calls[1].op = "UpdateNode" /\ CallFits(calls[1], Made)
  BY FirstCall DEF StackOK, UpdateNode, Running
<1>. DEFINE l == calls[1].arg
            f == node[l].pendingFrame
            a == Script(f)
            b == Call("UpdateNode", Nil, l)
            c == Call("UpdateLevel", Nil, l + 1)
<1>2. l \in Levels /\ f \in Made \cup {Nil}
  BY <1>1 DEF CallFits, FramesTypeOK, NodeRecords
<1>3. Made' = Made
  BY DEF UpdateNode, Made
<1>4. FramesTypeOK'
  <2>1. CASE UNCHANGED <<node, due>>
    BY <1>3, <2>1, TypesKept DEF UpdateNode, FramesTypeOK
  <2>2. CASE node' = [node EXCEPT ![l].pendingFrame = NextFrame(f)] /\ due' = due \ {f}
    <3>1. NextFrame(f) \in Made \cup {Nil}
      BY NextFrameType
    <3>2. node' \in [Levels -> NodeRecords]
      BY <1>2, <2>2, <3>1 DEF FramesTypeOK, NodeRecords
    <3>. QED  BY <1>3, <2>2, <3>2, TypesKept DEF UpdateNode, FramesTypeOK
  <2>. QED  BY <2>1, <2>2 DEF UpdateNode
<1>5. calls[1].op \in Lasts /\ Len(calls) = 1 /\ Tail(calls) = <<>> /\ Members(Tail(calls)) = {}
  <2>1. calls[1].op \in Lasts
    BY <1>1 DEF Lasts
  <2>. QED  BY <1>1, <2>1, FirstCall DEF StackOK
<1>6. CASE f = Nil
  <2>1. CallFits(c, Made) /\ Run(<<c>>)
    BY <1>2, <1>6, FramesAssumption DEF CallFits, Call, UpdateNode, Levels
  <2>2. StackOK' /\ Members(calls') = {c} \cup Members(Tail(calls))
    BY <1>1, <1>3, <1>5, <2>1, StackRunsOne DEF Call
  <2>3. calls' = <<c>>
    <3>1. <<c>> \in Seq({c})
      OBVIOUS
    <3>. QED  BY <1>5, <2>1, <3>1, NothingBehind
  <2>. QED  BY <1>2, <1>3, <1>4, <1>5, <1>6, <2>2, <2>3
<1>7. CASE f # Nil
  <2>1. CallFits(a, Made) /\ CallFits(b, Made) /\ Run(<<a, b>>) /\ f \in Made
    BY <1>2, <1>7 DEF CallFits, Call, Script, UpdateNode
  <2>2. StackOK' /\ Members(calls') = {a, b} \cup Members(Tail(calls))
    BY <1>1, <1>3, <1>5, <2>1, StackRunsTwo DEF Call, Script, Lasts, Firsts
  <2>3. calls' = <<a, b>>
    <3>1. <<a, b>> \in Seq({a, b})
      OBVIOUS
    <3>. QED  BY <1>5, <2>1, <3>1, NothingBehind
  <2>. QED  BY <1>2, <1>3, <1>4, <1>5, <1>7, <2>1, <2>2, <2>3
<1>. QED  BY <1>6, <1>7

LEMMA CheckFocusSound ==
    ASSUME FramesTypeOK, StackOK, CheckFocus
    PROVE  /\ FramesTypeOK' /\ StackOK' /\ Made' = Made
           /\ Len(calls) = 1 /\ Behind = {}
           /\ Members(calls') = IF top.checkFocus THEN Members(FocusChange(top.hits).scripts) ELSE {}
<1>1. calls # <<>> /\ calls[1].op = "UpdateLevel" /\ CallFits(calls[1], Made)
  BY FirstCall DEF StackOK, CheckFocus, Running
<1>2. Made' = Made
  BY DEF CheckFocus, Made
<1>3. FramesTypeOK'
  <2>1. top' \in TopRecords
    <3>1. PICK next \in Made \cup {Nil} : next = FocusChange(top.hits).focus
      BY FocusChangeProperties
    <3>2. top' = top \/ top' = [top EXCEPT !.checkFocus = FALSE, !.mouseFocus = next]
      BY <3>1 DEF CheckFocus
    <3>. QED  BY <3>2 DEF FramesTypeOK, TopRecords
  <2>. QED  BY <1>2, <2>1, TypesKept DEF CheckFocus, FramesTypeOK, histories
<1>4. Len(calls) = 1 /\ Tail(calls) = <<>> /\ Members(Tail(calls)) = {}
  <2>1. calls[1].op \in Lasts
    BY <1>1 DEF Lasts
  <2>. QED  BY <1>1, <2>1, FirstCall DEF StackOK
<1>5. CASE top.checkFocus
  <2>. DEFINE cs == FocusChange(top.hits).scripts
  <2>1. StackFits(cs, Made)
    BY FramesAssumption, FocusScripts
  <2>2. Run(cs)
    BY <1>5 DEF CheckFocus
  <2>. HIDE DEF cs
  <2>3. calls' = cs
    <3>1. cs \in Seq(Members(cs))
      BY <2>1 DEF StackFits
    <3>. QED  BY <1>4, <2>2, <3>1, NothingBehind
  <2>4. StackOK' /\ Members(calls') = Members(cs)
    BY <1>2, <2>1, <2>3, StackBegins
  <2>. QED  BY <1>2, <1>3, <1>4, <1>5, <2>4 DEF Behind, cs
<1>6. CASE ~ top.checkFocus
  <2>1. Return
    BY <1>6 DEF CheckFocus
  <2>2. StackOK' /\ Members(calls') = Members(Tail(calls))
    BY <1>1, <1>2, <2>1, StackReturns
  <2>. QED  BY <1>2, <1>3, <1>4, <1>6, <2>2 DEF Behind
<1>. QED  BY <1>5, <1>6

-----------------------------------------------------------------------------
(* The calls that the other invariants are about, and the actions that     *)
(* leave them alone.                                                       *)

WatchedOps == {"CursorExit", "CursorEnter", "Disabled", "KeyEaten", "RemoveFrame",
               "HideChildren", "UpdateNode"}
Watched == {c \in Members(calls) : c.op \in WatchedOps}

Plain ==
    \/ ScriptCalls \/ ScriptReturns
    \/ Hide \/ Show \/ ShowThis \/ ShowChildren
    \/ SetFrameLevel \/ ShiftChildren \/ SetParent
    \/ Reparent \/ SetBeingScrolled \/ ScrollChildren \/ Attach
    \/ EnableEvent \/ LockHighlight
    \/ OnMouseDown \/ OnMouseUp \/ MouseReleased
    \/ OnKeyDown \/ OnKeyUp \/ KeyReleased
    \/ OnLayerUpdate
Update == UpdateLevel \/ UpdateNode

LEMMA WatchedStays ==
    ASSUME NEW old, NEW new, NEW rest, Members(calls) = old \cup rest,
           Members(calls') = new \cup rest, \A c \in old \cup new : c.op \notin WatchedOps
    PROVE  Watched' = Watched
BY DEF Watched

LEMMA PlainCalls ==
    ASSUME FramesTypeOK, StackOK, Sound', Plain
    PROVE  Watched' = Watched
<1>1. CASE ScriptCalls
  <2>1. PICK c : c.op \in ScriptOps /\ Members(calls') = {c} \cup Members(calls)
    BY <1>1, ScriptCallsSound
  <2>2. \A d \in {} \cup {c} : d.op \notin WatchedOps
    BY <2>1 DEF ScriptOps, WatchedOps
  <2>3. Members(calls) = {} \cup Members(calls)
    OBVIOUS
  <2>. QED  BY <2>1, <2>2, <2>3, WatchedStays
<1>2. CASE ScriptReturns
  <2>. DEFINE f == calls[1].frame
              new == {}
  <2>1. calls # <<>> /\ calls[1].op = "Script"
    BY <1>2 DEF ScriptReturns, Running
  <2>2. Members(calls) = {calls[1]} \cup Behind
    BY <2>1, FirstCall DEF StackOK, Behind
  <2>3. Members(calls') = new \cup Behind
    BY <1>2, ScriptReturnsSound
  <2>4. \A c \in {calls[1]} \cup new : c.op \notin WatchedOps
    BY <2>1 DEF Call, Script, WatchedOps
  <2>. HIDE DEF new
  <2>. QED  BY <2>2, <2>3, <2>4, WatchedStays
<1>3. CASE Hide
  <2>. DEFINE f == calls[1].frame
              new == {Call("HideThis", f, 0)}
  <2>1. calls # <<>> /\ calls[1].op = "Hide"
    BY <1>3 DEF Hide, Running
  <2>2. Members(calls) = {calls[1]} \cup Behind
    BY <2>1, FirstCall DEF StackOK, Behind
  <2>3. Members(calls') = new \cup Behind
    BY <1>3, HideSound
  <2>4. \A c \in {calls[1]} \cup new : c.op \notin WatchedOps
    BY <2>1 DEF Call, Script, WatchedOps
  <2>. HIDE DEF new
  <2>. QED  BY <2>2, <2>3, <2>4, WatchedStays
<1>4. CASE Show
  <2>. DEFINE f == calls[1].frame
              new == {Call("ShowThis", f, 0)}
  <2>1. calls # <<>> /\ calls[1].op = "Show"
    BY <1>4 DEF Show, Running
  <2>2. Members(calls) = {calls[1]} \cup Behind
    BY <2>1, FirstCall DEF StackOK, Behind
  <2>3. Members(calls') = new \cup Behind
    BY <1>4, ShowSound
  <2>4. \A c \in {calls[1]} \cup new : c.op \notin WatchedOps
    BY <2>1 DEF Call, Script, WatchedOps
  <2>. HIDE DEF new
  <2>. QED  BY <2>2, <2>3, <2>4, WatchedStays
<1>5. CASE ShowThis
  <2>. DEFINE f == calls[1].frame
              new == IF MayShow(f) THEN {Call("ShowChildren", f, 1)} ELSE {}
  <2>1. calls # <<>> /\ calls[1].op = "ShowThis"
    BY <1>5 DEF ShowThis, Running
  <2>2. Members(calls) = {calls[1]} \cup Behind
    BY <2>1, FirstCall DEF StackOK, Behind
  <2>3. Members(calls') = new \cup Behind
    BY <1>5, ShowThisSound
  <2>4. \A c \in {calls[1]} \cup new : c.op \notin WatchedOps
    BY <2>1 DEF Call, Script, WatchedOps
  <2>. HIDE DEF new
  <2>. QED  BY <2>2, <2>3, <2>4, WatchedStays
<1>6. CASE ShowChildren
  <2>. DEFINE f == calls[1].frame
              n == calls[1].arg
              new == IF n > Len(frame[f].children) THEN {Script(f)}
                    ELSE {Call("ShowThis", frame[f].children[n], 0), Call("ShowChildren", f, n + 1)}
  <2>1. calls # <<>> /\ calls[1].op = "ShowChildren"
    BY <1>6 DEF ShowChildren, Running
  <2>2. Members(calls) = {calls[1]} \cup Behind
    BY <2>1, FirstCall DEF StackOK, Behind
  <2>3. Members(calls') = new \cup Behind
    BY <1>6, ShowChildrenSound
  <2>4. \A c \in {calls[1]} \cup new : c.op \notin WatchedOps
    BY <2>1 DEF Call, Script, WatchedOps
  <2>. HIDE DEF new
  <2>. QED  BY <2>2, <2>3, <2>4, WatchedStays
<1>7. CASE SetFrameLevel
  <2>. DEFINE f == calls[1].frame
              n == Clamped(frame[f].level, calls[1].arg)
              new == IF n = frame[f].level THEN {} ELSE {Call("ShiftChildren", f, <<1, n - frame[f].level>>)}
  <2>1. calls # <<>> /\ calls[1].op = "SetFrameLevel"
    BY <1>7 DEF SetFrameLevel, Running
  <2>2. Members(calls) = {calls[1]} \cup Behind
    BY <2>1, FirstCall DEF StackOK, Behind
  <2>3. Members(calls') = new \cup Behind
    <3>1. n <= MaxLevel
      BY <1>7, SetFrameLevelSound, FramesAssumption DEF Sound
    <3>. QED  BY <1>7, <3>1, SetFrameLevelSound
  <2>4. \A c \in {calls[1]} \cup new : c.op \notin WatchedOps
    BY <2>1 DEF Call, Script, WatchedOps
  <2>. HIDE DEF new
  <2>. QED  BY <2>2, <2>3, <2>4, WatchedStays
<1>8. CASE ShiftChildren
  <2>. DEFINE f == calls[1].frame
              n == calls[1].arg[1]
              new == IF n > Len(frame[f].children) THEN {}
                    ELSE {Call("SetFrameLevel", frame[f].children[n], frame[frame[f].children[n]].level + calls[1].arg[2]),
                          Call("ShiftChildren", f, <<n + 1, calls[1].arg[2]>>)}
  <2>1. calls # <<>> /\ calls[1].op = "ShiftChildren"
    BY <1>8 DEF ShiftChildren, Running
  <2>2. Members(calls) = {calls[1]} \cup Behind
    BY <2>1, FirstCall DEF StackOK, Behind
  <2>3. Members(calls') = new \cup Behind
    BY <1>8, ShiftChildrenSound
  <2>4. \A c \in {calls[1]} \cup new : c.op \notin WatchedOps
    BY SMTT(30), <2>1 DEF Call, Script, WatchedOps
  <2>. HIDE DEF new
  <2>. QED  BY <2>2, <2>3, <2>4, WatchedStays
<1>9. CASE SetParent
  <2>. DEFINE f == calls[1].frame
              n == calls[1].arg
              new == IF frame[f].parent = n THEN {} ELSE {Call("HideThis", f, 0), Call("Reparent", f, n)}
  <2>1. calls # <<>> /\ calls[1].op = "SetParent"
    BY <1>9 DEF SetParent, Running
  <2>2. Members(calls) = {calls[1]} \cup Behind
    BY <2>1, FirstCall DEF StackOK, Behind
  <2>3. Members(calls') = new \cup Behind
    BY <1>9, SetParentSound
  <2>4. \A c \in {calls[1]} \cup new : c.op \notin WatchedOps
    BY <2>1 DEF Call, Script, WatchedOps
  <2>. HIDE DEF new
  <2>. QED  BY <2>2, <2>3, <2>4, WatchedStays
<1>10. CASE Reparent
  <2>. DEFINE f == calls[1].frame
              n == calls[1].arg
              new == {Call("SetFrameLevel", f, IF n = Nil THEN 0 ELSE frame[n].level + 1),
                     Call("SetBeingScrolled", f, 0), Call("Attach", f, 0)}
  <2>1. calls # <<>> /\ calls[1].op = "Reparent"
    BY <1>10 DEF Reparent, Running
  <2>2. Members(calls) = {calls[1]} \cup Behind
    BY <2>1, FirstCall DEF StackOK, Behind
  <2>3. Members(calls') = new \cup Behind
    BY <1>10, ReparentSound
  <2>4. \A c \in {calls[1]} \cup new : c.op \notin WatchedOps
    BY <2>1 DEF Call, Script, WatchedOps
  <2>. HIDE DEF new
  <2>. QED  BY <2>2, <2>3, <2>4, WatchedStays
<1>11. CASE Attach
  <2>. DEFINE f == calls[1].frame
              new == {Call("ShowThis", f, 0)}
  <2>1. calls # <<>> /\ calls[1].op = "Attach"
    BY <1>11 DEF Attach, Running
  <2>2. Members(calls) = {calls[1]} \cup Behind
    BY <2>1, FirstCall DEF StackOK, Behind
  <2>3. Members(calls') = new \cup Behind
    BY <1>11, AttachSound
  <2>4. \A c \in {calls[1]} \cup new : c.op \notin WatchedOps
    BY <2>1 DEF Call, Script, WatchedOps
  <2>. HIDE DEF new
  <2>. QED  BY <2>2, <2>3, <2>4, WatchedStays
<1>12. CASE EnableEvent
  <2>. DEFINE f == calls[1].frame
              new == {}
  <2>1. calls # <<>> /\ calls[1].op = "EnableEvent"
    BY <1>12 DEF EnableEvent, Running
  <2>2. Members(calls) = {calls[1]} \cup Behind
    BY <2>1, FirstCall DEF StackOK, Behind
  <2>3. Members(calls') = new \cup Behind
    BY <1>12, EnableEventSound
  <2>4. \A c \in {calls[1]} \cup new : c.op \notin WatchedOps
    BY <2>1 DEF Call, Script, WatchedOps
  <2>. HIDE DEF new
  <2>. QED  BY <2>2, <2>3, <2>4, WatchedStays
<1>13. CASE LockHighlight
  <2>. DEFINE f == calls[1].frame
              new == {}
  <2>1. calls # <<>> /\ calls[1].op = "LockHighlight"
    BY <1>13 DEF LockHighlight, Running
  <2>2. Members(calls) = {calls[1]} \cup Behind
    BY <2>1, FirstCall DEF StackOK, Behind
  <2>3. Members(calls') = new \cup Behind
    BY <1>13, LockHighlightSound
  <2>4. \A c \in {calls[1]} \cup new : c.op \notin WatchedOps
    BY <2>1 DEF Call, Script, WatchedOps
  <2>. HIDE DEF new
  <2>. QED  BY <2>2, <2>3, <2>4, WatchedStays
<1>14. CASE MouseReleased
  <2>. DEFINE f == calls[1].frame
              new == {}
  <2>1. calls # <<>> /\ calls[1].op = "MouseReleased"
    BY <1>14 DEF MouseReleased, Running
  <2>2. Members(calls) = {calls[1]} \cup Behind
    BY <2>1, FirstCall DEF StackOK, Behind
  <2>3. Members(calls') = new \cup Behind
    BY <1>14, MouseReleasedSound
  <2>4. \A c \in {calls[1]} \cup new : c.op \notin WatchedOps
    BY <2>1 DEF Call, Script, WatchedOps
  <2>. HIDE DEF new
  <2>. QED  BY <2>2, <2>3, <2>4, WatchedStays
<1>15. CASE KeyReleased
  <2>. DEFINE f == calls[1].frame
              new == {}
  <2>1. calls # <<>> /\ calls[1].op = "KeyReleased"
    BY <1>15 DEF KeyReleased, Running
  <2>2. Members(calls) = {calls[1]} \cup Behind
    BY <2>1, FirstCall DEF StackOK, Behind
  <2>3. Members(calls') = new \cup Behind
    BY <1>15, KeyReleasedSound
  <2>4. \A c \in {calls[1]} \cup new : c.op \notin WatchedOps
    BY <2>1 DEF Call, Script, WatchedOps
  <2>. HIDE DEF new
  <2>. QED  BY <2>2, <2>3, <2>4, WatchedStays
<1>16. CASE OnMouseDown
  <2>1. PICK target : Members(calls') = {Script(target)}
    BY <1>16, OnMouseDownSound
  <2>2. Members(calls) = {}
    BY <1>16, NoCalls DEF OnMouseDown
  <2>. DEFINE new == {Script(target)}
  <2>3. \A c \in {} \cup new : c.op \notin WatchedOps
    BY DEF Call, Script, WatchedOps
  <2>4. Members(calls) = {} \cup {} /\ Members(calls') = new \cup {}
    BY <2>1, <2>2
  <2>. HIDE DEF new
  <2>. QED  BY <2>3, <2>4, WatchedStays
<1>17. CASE OnMouseUp
  <2>1. PICK last : Members(calls') = {Script(top.mouseCapture), Call("MouseReleased", Nil, last)}
    BY <1>17, OnMouseUpSound
  <2>2. Members(calls) = {}
    BY <1>17, NoCalls DEF OnMouseUp
  <2>. DEFINE new == {Script(top.mouseCapture), Call("MouseReleased", Nil, last)}
  <2>3. \A c \in {} \cup new : c.op \notin WatchedOps
    BY DEF Call, Script, WatchedOps
  <2>4. Members(calls) = {} \cup {} /\ Members(calls') = new \cup {}
    BY <2>1, <2>2
  <2>. HIDE DEF new
  <2>. QED  BY <2>3, <2>4, WatchedStays
<1>18. CASE OnKeyDown
  <2>1. Members(calls') = {Call("Key", Nil, 1)}
    BY <1>18, OnKeyDownSound
  <2>2. Members(calls) = {}
    BY <1>18, NoCalls DEF OnKeyDown
  <2>. DEFINE new == {Call("Key", Nil, 1)}
  <2>3. \A c \in {} \cup new : c.op \notin WatchedOps
    BY DEF Call, Script, WatchedOps
  <2>4. Members(calls) = {} \cup {} /\ Members(calls') = new \cup {}
    BY <2>1, <2>2
  <2>. HIDE DEF new
  <2>. QED  BY <2>3, <2>4, WatchedStays
<1>19. CASE OnLayerUpdate
  <2>1. Members(calls') = {Call("UpdateLevel", Nil, 0)}
    BY <1>19, OnLayerUpdateSound
  <2>2. Members(calls) = {}
    BY <1>19, NoCalls DEF OnLayerUpdate
  <2>. DEFINE new == {Call("UpdateLevel", Nil, 0)}
  <2>3. \A c \in {} \cup new : c.op \notin WatchedOps
    BY DEF Call, Script, WatchedOps
  <2>4. Members(calls) = {} \cup {} /\ Members(calls') = new \cup {}
    BY <2>1, <2>2
  <2>. HIDE DEF new
  <2>. QED  BY <2>3, <2>4, WatchedStays
<1>20. CASE OnKeyUp
  <2>. DEFINE f == top.keydownCapture
  <2>1. Members(calls') = (IF frame[f].visible /\ f \in KeyHandlers THEN {Script(f)} ELSE {}) \cup {Call("KeyReleased", f, 0)}
    BY <1>20, OnKeyUpSound
  <2>2. Members(calls) = {}
    BY <1>20, NoCalls DEF OnKeyUp
  <2>. DEFINE new == (IF frame[f].visible /\ f \in KeyHandlers THEN {Script(f)} ELSE {}) \cup {Call("KeyReleased", f, 0)}
  <2>3. \A c \in {} \cup new : c.op \notin WatchedOps
    BY DEF Call, Script, WatchedOps
  <2>4. Members(calls) = {} \cup {} /\ Members(calls') = new \cup {}
    BY <2>1, <2>2
  <2>. HIDE DEF new
  <2>. QED  BY <2>3, <2>4, WatchedStays
<1>21. CASE SetBeingScrolled
  <2>. DEFINE f == calls[1].frame
              new == {Call("HideThis", f, 0), Call("ScrollChildren", f, <<1, frame[f].visible>>)}
  <2>1. calls # <<>> /\ calls[1].op = "SetBeingScrolled"
    BY <1>21 DEF SetBeingScrolled, Running
  <2>2. Members(calls) = {calls[1]} \cup Behind
    BY <2>1, FirstCall DEF StackOK, Behind
  <2>3. Members(calls') = new \cup Behind
    BY <1>21, SetBeingScrolledSound DEF Sound
  <2>4. \A c \in {calls[1]} \cup new : c.op \notin WatchedOps
    BY <2>1 DEF Call, Script, WatchedOps
  <2>. HIDE DEF new
  <2>. QED  BY <2>2, <2>3, <2>4, WatchedStays
<1>22. CASE ScrollChildren
  <2>. DEFINE f == calls[1].frame
              new == IF calls[1].arg[1] > Len(frame[f].children)
                     THEN IF calls[1].arg[2] THEN {Call("ShowThis", f, 0)} ELSE {}
                     ELSE {Call("SetBeingScrolled", frame[f].children[calls[1].arg[1]], 0),
                           Call("ScrollChildren", f, <<calls[1].arg[1] + 1, calls[1].arg[2]>>)}
  <2>1. calls # <<>> /\ calls[1].op = "ScrollChildren"
    BY <1>22 DEF ScrollChildren, Running
  <2>2. Members(calls) = {calls[1]} \cup Behind
    BY <2>1, FirstCall DEF StackOK, Behind
  <2>3. Members(calls') = new \cup Behind
    BY <1>22, ScrollChildrenSound
  <2>4. \A c \in {calls[1]} \cup new : c.op \notin WatchedOps
    BY <2>1 DEF Call, Script, WatchedOps
  <2>. HIDE DEF new
  <2>. QED  BY <2>2, <2>3, <2>4, WatchedStays
<1>. QED  BY <1>1, <1>2, <1>3, <1>4, <1>5, <1>6, <1>7, <1>8, <1>9, <1>10,
          <1>11, <1>12, <1>13, <1>14, <1>15, <1>16, <1>17, <1>18, <1>19, <1>20,
         <1>21, <1>22 DEF Plain

\* What the loop over the levels does to the calls.
LEMMA OtherCalls ==
    ASSUME FramesTypeOK, StackOK, Sound', Plain \/ Update
    PROVE  \A c : c.op \in WatchedOps \ {"UpdateNode"} =>
                (c \in Members(calls') <=> c \in Members(calls))
<1>1. CASE Plain
  <2>1. Watched' = Watched
    BY <1>1, PlainCalls
  <2>2. \A c : c.op \in WatchedOps => (c \in Members(calls) <=> c \in Watched)
    BY DEF Watched
  <2>3. \A c : c.op \in WatchedOps => (c \in Members(calls') <=> c \in Watched')
    BY DEF Watched
  <2>. QED  BY <2>1, <2>2, <2>3
<1>2. CASE UpdateLevel
  <2>1. calls # <<>> /\ calls[1].op = "UpdateLevel"
    BY <1>2 DEF UpdateLevel, Running
  <2>2. Members(calls) = {calls[1]}
    BY <2>1, FirstCall DEF StackOK, Lasts
  <2>3. \A c \in Members(calls') : c.op \notin WatchedOps \ {"UpdateNode"}
    BY <1>2, UpdateLevelSound DEF Call, WatchedOps
  <2>4. calls[1].op \notin WatchedOps
    BY <2>1 DEF WatchedOps
  <2>. QED  BY <2>2, <2>3, <2>4
<1>3. CASE UpdateNode
  <2>1. calls # <<>> /\ calls[1].op = "UpdateNode"
    BY <1>3 DEF UpdateNode, Running
  <2>2. Members(calls) = {calls[1]}
    BY <2>1, FirstCall DEF StackOK, Lasts
  <2>3. \A c \in Members(calls') : c.op \notin WatchedOps \ {"UpdateNode"}
    BY <1>3, UpdateNodeSound DEF Call, Script, WatchedOps
  <2>4. calls[1].op \notin WatchedOps \ {"UpdateNode"}
    BY <2>1 DEF WatchedOps
  <2>. QED  BY <2>2, <2>3, <2>4
<1>. QED  BY <1>1, <1>2, <1>3 DEF Update

-----------------------------------------------------------------------------
(* The highlight and the history of enter and leave scripts.               *)

\* A call of op on f is left.
Stacked(op, f) == \E c \in Members(calls) : c.op = op /\ c.frame = f

\* A frame has been entered and not left if it has the focus, and its
\* highlight says so, but for the enter and leave scripts that are yet to run.
Entered(f) ==
    /\ f \in entered /\ ~ Stacked("CursorExit", f)
            <=> f = top.mouseFocus /\ ~ Stacked("CursorEnter", f)
    /\ f = top.mouseFocus => ~ Stacked("CursorExit", f)
    /\ \A g \in Made : Stacked("CursorEnter", g) /\ f = top.mouseFocus => Stacked("CursorEnter", f)
Lit(f) ==
    /\ frame[f].locked => frame[f].highlight
    /\ ~ Stacked("CursorExit", f) /\ ~ (Stacked("CursorEnter", f) /\ f = top.mouseFocus)
            => (frame[f].highlight <=> frame[f].locked \/ f = top.mouseFocus)
Highlights == "hasty" \notin quirks => \A f \in Made : Entered(f) /\ Lit(f)

LEMMA WatchedStacked ==
    ASSUME Watched' = Watched, NEW op \in WatchedOps, NEW f
    PROVE  Stacked(op, f)' <=> Stacked(op, f)
<1>1. \A c : c \in Members(calls) /\ c.op = op <=> c \in Watched /\ c.op = op
  BY DEF Watched
<1>2. \A c : c \in Members(calls') /\ c.op = op <=> c \in Watched' /\ c.op = op
  BY DEF Watched
<1>. QED  BY <1>1, <1>2 DEF Stacked

LEMMA HighlightsStay ==
    ASSUME Highlights, Made' = Made, entered' = entered, top'.mouseFocus = top.mouseFocus,
           "hasty" \in quirks => "hasty" \in quirks',
           \A f \in Made : /\ Stacked("CursorExit", f)' <=> Stacked("CursorExit", f)
                           /\ Stacked("CursorEnter", f)' <=> Stacked("CursorEnter", f),
           \A f \in Made : /\ frame'[f].highlight = frame[f].highlight
                           /\ frame'[f].locked = frame[f].locked
    PROVE  Highlights'
<1>. SUFFICES ASSUME "hasty" \notin quirks', NEW f \in Made
              PROVE  Entered(f)' /\ Lit(f)'
  BY DEF Highlights
<1>1. Entered(f) /\ Lit(f)
  BY DEF Highlights
<1>0. /\ Stacked("CursorExit", f)' <=> Stacked("CursorExit", f)
      /\ Stacked("CursorEnter", f)' <=> Stacked("CursorEnter", f)
  OBVIOUS
<1>9. frame'[f].highlight = frame[f].highlight
  OBVIOUS
<1>10. frame'[f].locked = frame[f].locked
  OBVIOUS
<1>11. /\ frame'[f].highlight <=> frame[f].highlight
       /\ frame'[f].locked <=> frame[f].locked
  BY <1>9, <1>10, Zenon
<1>2. Entered(f)'
  <2>1. (f \in entered /\ ~ Stacked("CursorExit", f)
            <=> f = top.mouseFocus /\ ~ Stacked("CursorEnter", f))'
    BY <1>0, <1>1 DEF Entered
  <2>2. (f = top.mouseFocus => ~ Stacked("CursorExit", f))'
    BY <1>0, <1>1 DEF Entered
  <2>3. (\A g \in Made : Stacked("CursorEnter", g) /\ f = top.mouseFocus
            => Stacked("CursorEnter", f))'
    <3>1. ASSUME NEW g \in Made, Stacked("CursorEnter", g)', (f = top.mouseFocus)'
          PROVE  Stacked("CursorEnter", f)'
      <4>1. Stacked("CursorEnter", g) /\ f = top.mouseFocus
        BY <3>1
      <4>. QED  BY <1>0, <1>1, <4>1 DEF Entered
    <3>. QED  BY <3>1
  <2>. QED  BY <2>1, <2>2, <2>3 DEF Entered
<1>3. Lit(f)'
  BY <1>0, <1>1, <1>11 DEF Lit
<1>. QED  BY <1>2, <1>3

\* The flags of a frame that an action leaves alone.
LEMMA FlagsStay ==
    ASSUME FramesTypeOK, Made' = Made, NEW g \in Made, NEW v,
           \/ frame' = frame
           \/ frame' = [frame EXCEPT ![g].shown = v]
           \/ frame' = [frame EXCEPT ![g].visible = v]
           \/ frame' = [frame EXCEPT ![g].level = v]
           \/ frame' = [frame EXCEPT ![g].parent = v]
           \/ frame' = [frame EXCEPT ![g].children = v]
           \/ frame' = [frame EXCEPT ![g].eventmask = v]
    PROVE  \A f \in Made : /\ frame'[f].highlight = frame[f].highlight
                           /\ frame'[f].locked = frame[f].locked
<1>1. frame \in [Made -> FrameRecords]
  BY DEF FramesTypeOK
<1>2. \A f \in Made : frame[f] \in FrameRecords
  BY <1>1
<1>3. CASE frame' = frame
  BY <1>3
<1>4. CASE frame' = [frame EXCEPT ![g].shown = v]
  BY <1>1, <1>2, <1>4 DEF FrameRecords
<1>5. CASE frame' = [frame EXCEPT ![g].visible = v]
  BY <1>1, <1>2, <1>5 DEF FrameRecords
<1>6. CASE frame' = [frame EXCEPT ![g].level = v]
  BY <1>1, <1>2, <1>6 DEF FrameRecords
<1>7. CASE frame' = [frame EXCEPT ![g].parent = v]
  BY <1>1, <1>2, <1>7 DEF FrameRecords
<1>8. CASE frame' = [frame EXCEPT ![g].children = v]
  BY <1>1, <1>2, <1>8 DEF FrameRecords
<1>9. CASE frame' = [frame EXCEPT ![g].eventmask = v]
  BY <1>1, <1>2, <1>9 DEF FrameRecords
<1>. QED  BY <1>3, <1>4, <1>5, <1>6, <1>7, <1>8, <1>9


\* The plain actions but LockHighlight change nothing of this.
FocusStays ==
    /\ entered' = entered /\ top'.mouseFocus = top.mouseFocus
    /\ "hasty" \in quirks => "hasty" \in quirks'
FlagsSame == \A f \in Made : frame'[f].highlight = frame[f].highlight
                           /\ frame'[f].locked = frame[f].locked

LEMMA PlainFocus ==
    ASSUME FramesTypeOK, StackOK, Plain \/ Update, ~ LockHighlight
    PROVE  FocusStays /\ FlagsSame /\ Made' = Made
<1>1. CASE ScriptCalls
  BY <1>1 DEF ScriptCalls, FocusStays, FlagsSame, drawn, histories, Made
<1>2. CASE ScriptReturns
  BY <1>2 DEF ScriptReturns, FocusStays, FlagsSame, drawn, histories, Made
<1>3. CASE ShiftChildren
  BY <1>3 DEF ShiftChildren, FocusStays, FlagsSame, drawn, histories, Made
<1>4. CASE SetParent
  BY <1>4 DEF SetParent, FocusStays, FlagsSame, drawn, histories, Made
<1>5. CASE ShowChildren
  BY <1>5 DEF ShowChildren, FocusStays, FlagsSame, drawn, histories, Made
<1>6. CASE OnMouseUp
  BY <1>6 DEF OnMouseUp, FocusStays, FlagsSame, drawn, histories, Made
<1>7. CASE OnKeyDown
  BY <1>7 DEF OnKeyDown, FocusStays, FlagsSame, drawn, histories, Made
<1>8. CASE OnKeyUp
  BY <1>8 DEF OnKeyUp, FocusStays, FlagsSame, drawn, histories, Made
<1>9. CASE OnLayerUpdate
  BY <1>9 DEF OnLayerUpdate, FocusStays, FlagsSame, drawn, histories, Made
<1>10. CASE OnMouseDown
  BY <1>10 DEF OnMouseDown, FocusStays, FlagsSame, drawn, histories, Made, FramesTypeOK, TopRecords
<1>11. CASE MouseReleased
  BY <1>11 DEF MouseReleased, FocusStays, FlagsSame, drawn, histories, Made, FramesTypeOK, TopRecords
<1>12. CASE KeyReleased
  BY <1>12 DEF KeyReleased, FocusStays, FlagsSame, drawn, histories, Made, FramesTypeOK, TopRecords
<1>13. CASE UpdateLevel
  BY <1>13 DEF UpdateLevel, FocusStays, FlagsSame, Made
<1>14. CASE UpdateNode
  BY <1>14 DEF UpdateNode, FocusStays, FlagsSame, Made
<1>15. CASE Hide
  <2>1. calls[1].frame \in Made /\ Made' = Made
    <3>1. calls # <<>> /\ calls[1].op = "Hide" /\ CallFits(calls[1], Made)
      BY <1>15, FirstCall DEF StackOK, Hide, Running
    <3>. QED  BY <1>15, <3>1, HideSound DEF CallFits
  <2>2. FocusStays
    BY <1>15 DEF Hide, FocusStays, drawn, histories, FramesTypeOK, TopRecords
  <2>3. frame' = frame \/ frame' = [frame EXCEPT ![calls[1].frame].shown = FALSE]
    BY <1>15, <2>1 DEF Hide
  <2>4. FlagsSame
    BY <2>1, <2>3, FlagsStay DEF FlagsSame
  <2>. QED  BY <2>1, <2>2, <2>4
<1>16. CASE Show
  <2>1. calls[1].frame \in Made /\ Made' = Made
    <3>1. calls # <<>> /\ calls[1].op = "Show" /\ CallFits(calls[1], Made)
      BY <1>16, FirstCall DEF StackOK, Show, Running
    <3>. QED  BY <1>16, <3>1, ShowSound DEF CallFits
  <2>2. FocusStays
    BY <1>16 DEF Show, FocusStays, drawn, histories, FramesTypeOK, TopRecords
  <2>3. frame' = frame \/ frame' = [frame EXCEPT ![calls[1].frame].shown = TRUE]
    BY <1>16, <2>1 DEF Show
  <2>4. FlagsSame
    BY <2>1, <2>3, FlagsStay DEF FlagsSame
  <2>. QED  BY <2>1, <2>2, <2>4
<1>17. CASE ShowThis
  <2>1. calls[1].frame \in Made /\ Made' = Made
    <3>1. calls # <<>> /\ calls[1].op = "ShowThis" /\ CallFits(calls[1], Made)
      BY <1>17, FirstCall DEF StackOK, ShowThis, Running
    <3>. QED  BY <1>17, <3>1, ShowThisSound DEF CallFits
  <2>2. FocusStays
    BY <1>17 DEF ShowThis, FocusStays, drawn, histories, FramesTypeOK, TopRecords
  <2>3. frame' = frame \/ frame' = [frame EXCEPT ![calls[1].frame].visible = TRUE]
    BY <1>17, <2>1 DEF ShowThis
  <2>4. FlagsSame
    BY <2>1, <2>3, FlagsStay DEF FlagsSame
  <2>. QED  BY <2>1, <2>2, <2>4
<1>18. CASE SetFrameLevel
  <2>1. calls[1].frame \in Made /\ Made' = Made
    <3>1. calls # <<>> /\ calls[1].op = "SetFrameLevel" /\ CallFits(calls[1], Made)
      BY <1>18, FirstCall DEF StackOK, SetFrameLevel, Running
    <3>. QED  BY <1>18, <3>1, SetFrameLevelSound DEF CallFits
  <2>2. FocusStays
    BY <1>18 DEF SetFrameLevel, FocusStays, drawn, histories, FramesTypeOK, TopRecords
  <2>3. frame' = frame \/ frame' = [frame EXCEPT ![calls[1].frame].level =
                                            Clamped(frame[calls[1].frame].level, calls[1].arg)]
    BY <1>18, <2>1 DEF SetFrameLevel
  <2>4. FlagsSame
    BY <2>1, <2>3, FlagsStay DEF FlagsSame
  <2>. QED  BY <2>1, <2>2, <2>4
<1>19. CASE Reparent
  <2>1. calls[1].frame \in Made /\ Made' = Made
    <3>1. calls # <<>> /\ calls[1].op = "Reparent" /\ CallFits(calls[1], Made)
      BY <1>19, FirstCall DEF StackOK, Reparent, Running
    <3>. QED  BY <1>19, <3>1, ReparentSound DEF CallFits
  <2>2. FocusStays
    BY <1>19 DEF Reparent, FocusStays, drawn, histories, FramesTypeOK, TopRecords
  <2>3. frame' = frame \/ frame' = [frame EXCEPT ![calls[1].frame].parent = calls[1].arg]
    BY <1>19, <2>1 DEF Reparent
  <2>4. FlagsSame
    BY <2>1, <2>3, FlagsStay DEF FlagsSame
  <2>. QED  BY <2>1, <2>2, <2>4
<1>20. CASE Attach
  <2>. PICK p : p = frame[calls[1].frame].parent
    OBVIOUS
  <2>1. calls[1].frame \in Made /\ Made' = Made /\ p \in Made \cup {Nil}
    <3>1. calls # <<>> /\ calls[1].op = "Attach" /\ CallFits(calls[1], Made)
      BY <1>20, FirstCall DEF StackOK, Attach, Running
    <3>. QED  BY <1>20, <3>1, AttachSound DEF CallFits, FramesTypeOK, FrameRecords
  <2>2. FocusStays
    BY <1>20 DEF Attach, FocusStays, drawn, histories, FramesTypeOK, TopRecords
  <2>3. \/ frame' = frame
        \/ /\ p \in Made
           /\ frame' = [frame EXCEPT ![p].children = Append(frame[p].children, calls[1].frame)]
    BY <1>20, <2>1 DEF Attach
  <2>4. FlagsSame
    BY <2>1, <2>3, FlagsStay DEF FlagsSame
  <2>. QED  BY <2>1, <2>2, <2>4
<1>21. CASE EnableEvent
  <2>1. calls[1].frame \in Made /\ Made' = Made
    <3>1. calls # <<>> /\ calls[1].op = "EnableEvent" /\ CallFits(calls[1], Made)
      BY <1>21, FirstCall DEF StackOK, EnableEvent, Running
    <3>. QED  BY <1>21, <3>1, EnableEventSound DEF CallFits
  <2>2. FocusStays
    BY <1>21 DEF EnableEvent, FocusStays, drawn, histories, FramesTypeOK, TopRecords
  <2>3. frame' = frame \/ frame' = [frame EXCEPT ![calls[1].frame].eventmask = frame[calls[1].frame].eventmask \cup {"mouse"}]
    BY <1>21, <2>1 DEF EnableEvent
  <2>4. FlagsSame
    BY <2>1, <2>3, FlagsStay DEF FlagsSame
  <2>. QED  BY <2>1, <2>2, <2>4
<1>22. CASE SetBeingScrolled
  BY <1>22 DEF SetBeingScrolled, FocusStays, FlagsSame, drawn, Made
<1>23. CASE ScrollChildren
  BY <1>23 DEF ScrollChildren, FocusStays, FlagsSame, drawn, histories, Made
<1>. QED  BY <1>1, <1>2, <1>3, <1>4, <1>5, <1>6, <1>7, <1>8, <1>9, <1>10, <1>11, <1>12, <1>13, <1>14, <1>15, <1>16, <1>17, <1>18, <1>19, <1>20, <1>21,
         <1>22, <1>23 DEF Plain, Update

\* The stack has no enter or leave script when the game calls, or when the
\* only call is that of the loop over the levels.
LEMMA NoScripts ==
    ASSUME StackOK, calls = <<>> \/ (calls # <<>> /\ calls[1].op = "UpdateLevel"), NEW op, NEW f,
           op # "UpdateLevel"
    PROVE  ~ Stacked(op, f)
<1>1. CASE calls = <<>>
  BY <1>1, NoCalls DEF Stacked
<1>2. CASE calls # <<>> /\ calls[1].op = "UpdateLevel"
  <2>1. Members(calls) = {calls[1]}
    BY <1>2, FirstCall DEF StackOK, Lasts
  <2>. QED  BY <1>2, <2>1 DEF Stacked
<1>. QED  BY <1>1, <1>2

\* The focus goes from one frame to another, with the scripts that go with it.
LEMMA FocusMoves ==
    ASSUME FramesTypeOK, FramesAssumption, StackOK, Highlights, FramesTypeOK',
           calls = <<>> \/ (calls # <<>> /\ calls[1].op = "UpdateLevel"),
           NEW hits, top'.mouseFocus = FocusChange(hits).focus,
           Members(calls') = Members(FocusChange(hits).scripts),
           UNCHANGED <<frame, entered, quirks>>
    PROVE  Highlights'
<1>. DEFINE next == FocusChange(hits).focus
            last == top.mouseFocus
            Exits == {Call("CursorExit", g, 0) : g \in {last} \ {Nil}}
            Enters == {Call("CursorEnter", g, 0) : g \in {next} \ {Nil}}
<1>1. Members(calls') = IF next = last THEN {} ELSE Exits \cup Enters
  BY FocusScripts
<1>2. next \in Made \cup {Nil} /\ last \in Made \cup {Nil} /\ Nil \notin Made
  BY FocusChangeProperties, FramesAssumption DEF FramesTypeOK, TopRecords
<1>. HIDE DEF next, last
<1>3. \A f \in Made : /\ Stacked("CursorExit", f)' <=> (next # last /\ f = last)
                      /\ Stacked("CursorEnter", f)' <=> (next # last /\ f = next)
  <2>1. \A c : c \in Exits <=> last # Nil /\ c = Call("CursorExit", last, 0)
    OBVIOUS
  <2>2. \A c : c \in Enters <=> next # Nil /\ c = Call("CursorEnter", next, 0)
    OBVIOUS
  <2>3. \A g : /\ Call("CursorExit", g, 0).op = "CursorExit"
               /\ Call("CursorEnter", g, 0).op = "CursorEnter"
               /\ Call("CursorExit", g, 0).frame = g /\ Call("CursorEnter", g, 0).frame = g
    BY DEF Call
  <2>4. \A c : c \in Members(calls') <=>
            next # last /\ ((last # Nil /\ c = Call("CursorExit", last, 0))
                            \/ (next # Nil /\ c = Call("CursorEnter", next, 0)))
    BY <1>1, <2>1, <2>2
  <2>5. ASSUME NEW f \in Made
        PROVE  Stacked("CursorExit", f)' <=> (next # last /\ f = last)
    <3>1. f # Nil
      BY <1>2
    <3>2. \A c : c \in Members(calls') /\ c.op = "CursorExit"
                => next # last /\ c = Call("CursorExit", last, 0)
      BY <2>3, <2>4
    <3>3. next # last /\ f = last => Call("CursorExit", f, 0) \in Members(calls')
      BY <2>4, <3>1
    <3>. QED  BY <2>3, <3>2, <3>3 DEF Stacked
  <2>6. ASSUME NEW f \in Made
        PROVE  Stacked("CursorEnter", f)' <=> (next # last /\ f = next)
    <3>1. f # Nil
      BY <1>2
    <3>2. \A c : c \in Members(calls') /\ c.op = "CursorEnter"
                => next # last /\ c = Call("CursorEnter", next, 0)
      BY <2>3, <2>4
    <3>3. next # last /\ f = next => Call("CursorEnter", f, 0) \in Members(calls')
      BY <2>4, <3>1
    <3>. QED  BY <2>3, <3>2, <3>3 DEF Stacked
  <2>. QED  BY <2>5, <2>6
<1>. SUFFICES ASSUME "hasty" \notin quirks', NEW f \in Made
              PROVE  Entered(f)' /\ Lit(f)'
  BY DEF Highlights, Made
<1>4. Entered(f) /\ Lit(f) /\ ~ Stacked("CursorExit", f) /\ ~ Stacked("CursorEnter", f)
  BY NoScripts DEF Highlights
<1>5. /\ f \in entered <=> f = last
      /\ frame[f].highlight <=> frame[f].locked \/ f = last
      /\ frame[f].locked => frame[f].highlight
  BY <1>4 DEF Entered, Lit, last
<1>6. top'.mouseFocus = next
  BY DEF next
<1>7. Entered(f)'
  <2>1. (f \in entered /\ ~ Stacked("CursorExit", f)
            <=> f = top.mouseFocus /\ ~ Stacked("CursorEnter", f))'
    BY <1>3, <1>5, <1>6
  <2>2. (f = top.mouseFocus => ~ Stacked("CursorExit", f))'
    BY <1>3, <1>6
  <2>3. (\A g \in Made : Stacked("CursorEnter", g) /\ f = top.mouseFocus
            => Stacked("CursorEnter", f))'
    BY <1>3, <1>6 DEF Made
  <2>. QED  BY <2>1, <2>2, <2>3 DEF Entered
<1>8. Lit(f)'
  BY <1>3, <1>5, <1>6 DEF Lit
<1>. QED  BY <1>7, <1>8

\* The enter and leave scripts that are called stay, and the leave script of f.
ScriptsSame ==
    \A c : c.op \in {"CursorEnter", "CursorExit"} =>
        (c \in Members(calls') <=> c \in Members(calls))
LeavesOnly(f, E) ==
    \A c : c.op \in {"CursorEnter", "CursorExit"} =>
        (c \in Members(calls') <=> c \in Members(calls) \/ c \in LeaveCalls(f, E))

\* The focus is taken from a frame, and its leave script called.
LEMMA FocusTaken ==
    ASSUME FramesTypeOK, FramesAssumption, Highlights, FramesTypeOK', Made' = Made,
           NEW f \in Made, NEW E, top' = Forget(f, E), LeavesOnly(f, E),
           FlagsSame, entered' = entered, "hasty" \in quirks => "hasty" \in quirks'
    PROVE  Highlights'
<1>. DEFINE taken == "mouse" \in E /\ Queued(f, "mouse") /\ top.mouseFocus = f
<1>1. top'.mouseFocus = IF taken THEN Nil ELSE top.mouseFocus
  BY DEF Forget, FramesTypeOK, TopRecords
<1>2. LeaveCalls(f, E) = IF taken THEN {Call("CursorExit", f, 0)} ELSE {}
  BY DEF LeaveCalls
<1>3. Nil \notin Made
  BY FramesAssumption DEF FramesTypeOK
<1>4. taken => top.mouseFocus = f
  OBVIOUS
<1>. HIDE DEF taken
<1>5. \A g \in Made : /\ Stacked("CursorExit", g)' <=> Stacked("CursorExit", g) \/ (taken /\ g = f)
                      /\ Stacked("CursorEnter", g)' <=> Stacked("CursorEnter", g)
  <2>1. Call("CursorExit", f, 0).op = "CursorExit" /\ Call("CursorExit", f, 0).frame = f
    BY DEF Call
  <2>2. \A c : c.op \in {"CursorEnter", "CursorExit"} =>
            (c \in Members(calls') <=> c \in Members(calls) \/ (taken /\ c = Call("CursorExit", f, 0)))
    BY <1>2 DEF LeavesOnly
  <2>. QED  BY <2>1, <2>2 DEF Stacked
<1>. SUFFICES ASSUME "hasty" \notin quirks', NEW g \in Made
              PROVE  Entered(g)' /\ Lit(g)'
  BY DEF Highlights
<1>6. Entered(g) /\ Lit(g) /\ Entered(f)
  BY DEF Highlights
<1>7. Entered(g)'
  <2>1. (g \in entered /\ ~ Stacked("CursorExit", g)
            <=> g = top.mouseFocus /\ ~ Stacked("CursorEnter", g))'
    BY <1>1, <1>3, <1>4, <1>5, <1>6 DEF Entered
  <2>2. (g = top.mouseFocus => ~ Stacked("CursorExit", g))'
    BY <1>1, <1>3, <1>4, <1>5, <1>6 DEF Entered
  <2>3. (\A h \in Made : Stacked("CursorEnter", h) /\ g = top.mouseFocus
            => Stacked("CursorEnter", g))'
    BY <1>1, <1>3, <1>4, <1>5, <1>6 DEF Entered
  <2>. QED  BY <2>1, <2>2, <2>3 DEF Entered
<1>8. Lit(g)'
  <2>1. (frame'[g].highlight <=> frame[g].highlight) /\ (frame'[g].locked <=> frame[g].locked)
    <3>1. frame'[g].highlight = frame[g].highlight /\ frame'[g].locked = frame[g].locked
      BY DEF FlagsSame
    <3>. QED  BY <3>1, Zenon
  <2>. QED  BY <1>1, <1>3, <1>4, <1>5, <1>6, <2>1 DEF Lit
<1>. QED  BY <1>7, <1>8

\* Calls that are not enter or leave scripts come and go.
LEMMA ScriptsStay ==
    ASSUME ScriptsSame
    PROVE  \A f \in Made : /\ Stacked("CursorExit", f)' <=> Stacked("CursorExit", f)
                           /\ Stacked("CursorEnter", f)' <=> Stacked("CursorEnter", f)
BY DEF Stacked, ScriptsSame

LEMMA HighlightsKept ==
    ASSUME FramesAssumption, FramesTypeOK, StackOK, Highlights, FramesNext, Sound'
    PROVE  Highlights'
<1>1. CASE (Plain \/ Update) /\ ~ LockHighlight
  <2>1. FocusStays /\ FlagsSame /\ Made' = Made
    BY <1>1, PlainFocus
  <2>2. \A c : c.op \in WatchedOps \ {"UpdateNode"} =>
                (c \in Members(calls') <=> c \in Members(calls))
    BY <1>1, OtherCalls
  <2>3. \A f \in Made : /\ Stacked("CursorExit", f)' <=> Stacked("CursorExit", f)
                        /\ Stacked("CursorEnter", f)' <=> Stacked("CursorEnter", f)
    BY <2>2 DEF WatchedOps, Stacked
  <2>. QED  BY <2>1, <2>3, HighlightsStay DEF FocusStays, FlagsSame
<1>2. CASE LockHighlight
  <2>. DEFINE f == calls[1].frame
              lock == calls[1].arg
  <2>1. f \in Made /\ lock \in BOOLEAN /\ Made' = Made
    <3>1. calls # <<>> /\ calls[1].op = "LockHighlight" /\ CallFits(calls[1], Made)
      BY <1>2, FirstCall DEF StackOK, LockHighlight, Running
    <3>. QED  BY <1>2, <3>1, LockHighlightSound DEF CallFits
  <2>2. Watched' = Watched
    BY <1>2, PlainCalls DEF Plain
  <2>3. \A g \in Made : /\ Stacked("CursorExit", g)' <=> Stacked("CursorExit", g)
                        /\ Stacked("CursorEnter", g)' <=> Stacked("CursorEnter", g)
    BY <2>2, WatchedStacked DEF WatchedOps
  <2>4. entered' = entered /\ top' = top /\ quirks' = quirks
    BY <1>2 DEF LockHighlight, drawn, histories
  <2>5. CASE frame[f].locked = lock
    <3>1. frame' = frame
      BY <1>2, <2>5 DEF LockHighlight
    <3>. QED  BY <2>1, <2>3, <2>4, <3>1, HighlightsStay
  <2>6. CASE frame[f].locked # lock
    <3>1. frame' = [frame EXCEPT ![f].locked = lock, ![f].highlight = lock \/ top.mouseFocus = f]
      BY <1>2, <2>6 DEF LockHighlight
    <3>. SUFFICES ASSUME "hasty" \notin quirks', NEW g \in Made
                  PROVE  Entered(g)' /\ Lit(g)'
      BY <2>1 DEF Highlights
    <3>2. Entered(g) /\ Lit(g)
      BY <2>4 DEF Highlights
    <3>3. Entered(g)'
      <4>1. (g \in entered /\ ~ Stacked("CursorExit", g)
                <=> g = top.mouseFocus /\ ~ Stacked("CursorEnter", g))'
        BY <2>3, <2>4, <3>2 DEF Entered
      <4>2. (g = top.mouseFocus => ~ Stacked("CursorExit", g))'
        BY <2>3, <2>4, <3>2 DEF Entered
      <4>3. (\A h \in Made : Stacked("CursorEnter", h) /\ g = top.mouseFocus
                => Stacked("CursorEnter", g))'
        BY <2>1, <2>3, <2>4, <3>2 DEF Entered
      <4>. QED  BY <4>1, <4>2, <4>3 DEF Entered
    <3>4. Lit(g)'
      <4>1. CASE g = f
        <5>1. PICK h \in BOOLEAN : h = (lock \/ top.mouseFocus = f)
          OBVIOUS
        <5>2. frame' = [frame EXCEPT ![f].locked = lock, ![f].highlight = h]
          BY <3>1, <5>1
        <5>3. frame'[f].locked = lock /\ frame'[f].highlight = h
          BY <2>1, <5>2 DEF FramesTypeOK, FrameRecords
        <5>4. (frame'[f].locked <=> lock) /\ (frame'[f].highlight <=> h)
          BY <5>3, Zenon
        <5>. QED  BY <2>3, <2>4, <4>1, <5>1, <5>4 DEF Lit
      <4>2. CASE g # f
        <5>1. frame'[g] = frame[g]
          BY <3>1, <4>2 DEF FramesTypeOK
        <5>. QED  BY <2>3, <2>4, <3>2, <5>1 DEF Lit
      <4>. QED  BY <4>1, <4>2
    <3>. QED  BY <3>3, <3>4
  <2>. QED  BY <2>5, <2>6
<1>3. CASE HideThis
  <2>. DEFINE f == calls[1].frame
              E == frame[f].eventmask
  <2>1. calls # <<>> /\ calls[1].op = "HideThis" /\ CallFits(calls[1], Made)
        /\ Members(calls) = {calls[1]} \cup Behind
    BY <1>3, FirstCall DEF StackOK, HideThis, Running, Behind
  <2>2. f \in Made /\ Made' = Made /\ FramesTypeOK'
    BY <1>3, <2>1, HideThisSound DEF CallFits
  <2>3. entered' = entered /\ ("hasty" \in quirks => "hasty" \in quirks')
    BY <1>3 DEF HideThis
  <2>4. CASE ~ frame[f].visible
    <3>1. Members(calls') = {} \cup Behind
      BY <1>3, <2>4, HideThisSound
    <3>2. frame' = frame /\ top' = top
      BY <1>3, <2>4 DEF HideThis
    <3>3. \A c \in {calls[1]} \cup {} : c.op \notin {"CursorEnter", "CursorExit"}
      BY <2>1
    <3>4. \A g \in Made : /\ Stacked("CursorExit", g)' <=> Stacked("CursorExit", g)
                          /\ Stacked("CursorEnter", g)' <=> Stacked("CursorEnter", g)
      <4>1. ScriptsSame
        BY <2>1, <3>1, <3>3 DEF ScriptsSame
      <4>. QED  BY <4>1, ScriptsStay
    <3>. QED  BY <2>2, <2>3, <3>2, <3>4, HighlightsStay
  <2>5. CASE frame[f].visible
    <3>. DEFINE new == {Call("RemoveFrame", f, 0)}
    <3>1. Members(calls') = new \cup LeaveCalls(f, E) \cup Behind
      BY <1>3, <2>5, HideThisSound
    <3>2. frame' = [frame EXCEPT ![f].visible = FALSE] /\ top' = Forget(f, E)
      BY <1>3, <2>5 DEF HideThis
    <3>3. FlagsSame
      BY <2>2, <3>2, FlagsStay DEF FlagsSame
    <3>4. \A c \in {calls[1]} \cup new : c.op \notin {"CursorEnter", "CursorExit"}
      BY <2>1 DEF Call
    <3>. HIDE DEF new
    <3>5. LeavesOnly(f, E)
      BY <2>1, <3>1, <3>4 DEF LeavesOnly
    <3>. HIDE DEF f, E
    <3>. QED  BY <2>2, <2>3, <3>2, <3>3, <3>5, FocusTaken
  <2>. QED  BY <2>4, <2>5
<1>4. CASE DisableEvent
  <2>. DEFINE f == calls[1].frame
              E == {"mouse"}
  <2>1. calls # <<>> /\ calls[1].op = "DisableEvent" /\ CallFits(calls[1], Made)
        /\ Members(calls) = {calls[1]} \cup Behind
    BY <1>4, FirstCall DEF StackOK, DisableEvent, Running, Behind
  <2>2. f \in Made /\ Made' = Made /\ FramesTypeOK'
    BY <1>4, <2>1, DisableEventSound DEF CallFits
  <2>3. entered' = entered /\ quirks' = quirks /\ frame' = frame
    BY <1>4 DEF DisableEvent, histories
  <2>4. CASE "mouse" \in frame[f].eventmask /\ frame[f].visible
    <3>. DEFINE new == {Call("Disabled", f, 0)}
    <3>1. Members(calls') = new \cup LeaveCalls(f, E) \cup Behind
      BY <1>4, <2>4, DisableEventSound
    <3>2. top' = Forget(f, E)
      BY <1>4, <2>4 DEF DisableEvent
    <3>3. FlagsSame
      BY <2>3 DEF FlagsSame
    <3>4. \A c \in {calls[1]} \cup new : c.op \notin {"CursorEnter", "CursorExit"}
      BY <2>1 DEF Call
    <3>. HIDE DEF new
    <3>5. LeavesOnly(f, E)
      BY <2>1, <3>1, <3>4 DEF LeavesOnly
    <3>. HIDE DEF f, E
    <3>. QED  BY <2>2, <2>3, <3>2, <3>3, <3>5, FocusTaken
  <2>5. CASE ~ ("mouse" \in frame[f].eventmask /\ frame[f].visible)
    <3>. DEFINE new == IF "mouse" \notin frame[f].eventmask THEN {} ELSE {Call("Disabled", f, 0)}
    <3>1. Members(calls') = new \cup Behind
      BY <1>4, <2>5, DisableEventSound
    <3>2. top' = top
      BY <1>4, <2>5 DEF DisableEvent
    <3>3. \A c \in {calls[1]} \cup new : c.op \notin {"CursorEnter", "CursorExit"}
      BY <2>1 DEF Call
    <3>. HIDE DEF new
    <3>4. \A g \in Made : /\ Stacked("CursorExit", g)' <=> Stacked("CursorExit", g)
                          /\ Stacked("CursorEnter", g)' <=> Stacked("CursorEnter", g)
      <4>1. ScriptsSame
        BY <2>1, <3>1, <3>3 DEF ScriptsSame
      <4>. QED  BY <4>1, ScriptsStay
    <3>. QED  BY <2>2, <2>3, <3>2, <3>4, HighlightsStay
  <2>. QED  BY <2>4, <2>5
<1>5. CASE OnMouseMove
  <2>1. PICK hits \in SUBSET Frame :
            /\ top' = [top EXCEPT !.hits = hits, !.mouseFocus = FocusChange(hits).focus]
            /\ Members(calls') = Members(FocusChange(hits).scripts)
    BY <1>5, OnMouseMoveSound
  <2>2. top'.mouseFocus = FocusChange(hits).focus
    BY <2>1 DEF FramesTypeOK, TopRecords
  <2>3. calls = <<>> /\ UNCHANGED <<frame, entered, quirks>> /\ FramesTypeOK'
    BY <1>5, OnMouseMoveSound DEF OnMouseMove, histories
  <2>. QED  BY <2>1, <2>2, <2>3, FocusMoves
<1>6. CASE CheckFocus
  <2>1. calls # <<>> /\ calls[1].op = "UpdateLevel" /\ Made' = Made /\ FramesTypeOK'
        /\ UNCHANGED <<frame, entered, quirks>>
    BY <1>6, CheckFocusSound DEF CheckFocus, Running, histories
  <2>2. CASE top.checkFocus
    <3>1. Members(calls') = Members(FocusChange(top.hits).scripts)
      BY <1>6, <2>2, CheckFocusSound
    <3>2. top' = [top EXCEPT !.checkFocus = FALSE, !.mouseFocus = FocusChange(top.hits).focus]
      BY <1>6, <2>2 DEF CheckFocus
    <3>3. top'.mouseFocus = FocusChange(top.hits).focus
      BY <3>2 DEF FramesTypeOK, TopRecords
    <3>. QED  BY <2>1, <3>1, <3>3, FocusMoves
  <2>3. CASE ~ top.checkFocus
    <3>1. Members(calls') = {} /\ top' = top
      BY <1>6, <2>3, CheckFocusSound DEF CheckFocus
    <3>2. \A g \in Made : ~ Stacked("CursorExit", g) /\ ~ Stacked("CursorEnter", g)
      BY <2>1, NoScripts
    <3>3. \A g \in Made : ~ Stacked("CursorExit", g)' /\ ~ Stacked("CursorEnter", g)'
      BY <3>1 DEF Stacked
    <3>4. \A g \in Made : /\ Stacked("CursorExit", g)' <=> Stacked("CursorExit", g)
                          /\ Stacked("CursorEnter", g)' <=> Stacked("CursorEnter", g)
      BY <3>2, <3>3
    <3>. QED  BY <2>1, <3>1, <3>4, HighlightsStay
  <2>. QED  BY <2>2, <2>3
<1>7. CASE CursorEnter
  <2>. DEFINE f == calls[1].frame
  <2>1. calls # <<>> /\ calls[1].op = "CursorEnter" /\ CallFits(calls[1], Made)
        /\ Members(calls) = {calls[1]} /\ Behind = {}
    BY <1>7, FirstCall DEF StackOK, CursorEnter, Running, Behind, Lasts
  <2>2. f \in Made /\ Made' = Made /\ Members(calls') = {Script(f)}
    BY <1>7, <2>1, CursorEnterSound DEF CallFits
  <2>3. \A g : /\ ~ Stacked("CursorExit", g) /\ ~ Stacked("CursorExit", g)'
               /\ ~ Stacked("CursorEnter", g)' /\ (Stacked("CursorEnter", g) <=> g = f)
    BY <2>1, <2>2 DEF Stacked, Script, Call
  <2>4. /\ frame' = [frame EXCEPT ![f].highlight = frame[f].highlight \/ ~ frame[f].locked]
        /\ entered' = entered \cup {f} /\ top' = top
        /\ quirks' = quirks \cup {q \in {"hasty"} : top.mouseFocus # f}
    BY <1>7 DEF CursorEnter, drawn
  <2>. SUFFICES ASSUME "hasty" \notin quirks', NEW g \in Made
                PROVE  Entered(g)' /\ Lit(g)'
    BY <2>2 DEF Highlights
  <2>5. top.mouseFocus = f /\ Entered(g) /\ Lit(g)
    BY <2>4 DEF Highlights
  <2>6. Entered(g)'
    <3>1. (g \in entered /\ ~ Stacked("CursorExit", g)
              <=> g = top.mouseFocus /\ ~ Stacked("CursorEnter", g))'
      BY <2>3, <2>4, <2>5 DEF Entered
    <3>2. (g = top.mouseFocus => ~ Stacked("CursorExit", g))'
      BY <2>3
    <3>3. (\A h \in Made : Stacked("CursorEnter", h) /\ g = top.mouseFocus
              => Stacked("CursorEnter", g))'
      BY <2>3
    <3>. QED  BY <3>1, <3>2, <3>3 DEF Entered
  <2>7. Lit(g)'
    <3>1. CASE g = f
      <4>1. PICK h \in BOOLEAN : h = (frame[f].highlight \/ ~ frame[f].locked)
        OBVIOUS
      <4>2. frame' = [frame EXCEPT ![f].highlight = h]
        BY <2>4, <4>1
      <4>3. frame'[f].highlight = h /\ frame'[f].locked = frame[f].locked
        BY <2>2, <4>2 DEF FramesTypeOK, FrameRecords
      <4>4. (frame'[f].highlight <=> h) /\ (frame'[f].locked <=> frame[f].locked)
        BY <4>3, Zenon
      <4>. QED  BY <2>3, <2>4, <2>5, <3>1, <4>1, <4>4 DEF Lit
    <3>2. CASE g # f
      <4>1. frame'[g] = frame[g]
        BY <2>4, <3>2 DEF FramesTypeOK
      <4>. QED  BY <2>3, <2>4, <2>5, <3>2, <4>1 DEF Lit
    <3>. QED  BY <3>1, <3>2
  <2>. QED  BY <2>6, <2>7
<1>8. CASE CursorExit
  <2>. DEFINE f == calls[1].frame
  <2>1. calls # <<>> /\ calls[1].op = "CursorExit" /\ CallFits(calls[1], Made)
        /\ Members(calls) = {calls[1]} \cup Behind /\ \A c \in Behind : c.op # "CursorExit"
    BY <1>8, FirstCall DEF StackOK, CursorExit, Running, Behind, Firsts
  <2>2. f \in Made /\ Made' = Made /\ Members(calls') = {Script(f)} \cup Behind
    BY <1>8, <2>1, CursorExitSound DEF CallFits
  <2>3. \A g : /\ Stacked("CursorExit", g) <=> g = f
               /\ ~ Stacked("CursorExit", g)'
               /\ Stacked("CursorEnter", g)' <=> Stacked("CursorEnter", g)
    BY <2>1, <2>2 DEF Stacked, Script, Call
  <2>4. /\ frame' = [frame EXCEPT ![f].highlight = frame[f].highlight /\ frame[f].locked]
        /\ entered' = entered \ {f} /\ top' = top /\ quirks' = quirks
    BY <1>8 DEF CursorExit, drawn
  <2>. SUFFICES ASSUME "hasty" \notin quirks', NEW g \in Made
                PROVE  Entered(g)' /\ Lit(g)'
    BY <2>2 DEF Highlights
  <2>5. Entered(g) /\ Lit(g) /\ Entered(f) /\ Lit(f)
    BY <2>2, <2>4 DEF Highlights
  <2>6. Entered(g)'
    <3>1. (g \in entered /\ ~ Stacked("CursorExit", g)
              <=> g = top.mouseFocus /\ ~ Stacked("CursorEnter", g))'
      BY <2>3, <2>4, <2>5 DEF Entered
    <3>2. (g = top.mouseFocus => ~ Stacked("CursorExit", g))'
      BY <2>3
    <3>3. (\A h \in Made : Stacked("CursorEnter", h) /\ g = top.mouseFocus
              => Stacked("CursorEnter", g))'
      BY <2>2, <2>3, <2>4, <2>5 DEF Entered
    <3>. QED  BY <3>1, <3>2, <3>3 DEF Entered
  <2>7. Lit(g)'
    <3>1. CASE g = f
      <4>1. PICK h \in BOOLEAN : h = (frame[f].highlight /\ frame[f].locked)
        OBVIOUS
      <4>2. frame' = [frame EXCEPT ![f].highlight = h]
        BY <2>4, <4>1
      <4>3. frame'[f].highlight = h /\ frame'[f].locked = frame[f].locked
        BY <2>2, <4>2 DEF FramesTypeOK, FrameRecords
      <4>4. (frame'[f].highlight <=> h) /\ (frame'[f].locked <=> frame[f].locked)
        BY <4>3, Zenon
      <4>5. f # top.mouseFocus
        BY <2>3, <2>5 DEF Entered
      <4>. QED  BY <2>3, <2>4, <2>5, <3>1, <4>1, <4>4, <4>5 DEF Lit
    <3>2. CASE g # f
      <4>1. frame'[g] = frame[g]
        BY <2>4, <3>2 DEF FramesTypeOK
      <4>. QED  BY <2>3, <2>4, <2>5, <3>2, <4>1 DEF Lit
    <3>. QED  BY <3>1, <3>2
  <2>. QED  BY <2>6, <2>7
<1>9. CASE Removed
  <2>. DEFINE f == calls[1].frame
              n == calls[1].arg
              new == {Call("HideChildren", f, 1)}
  <2>1. calls # <<>> /\ calls[1].op = "RemoveFrame" /\ CallFits(calls[1], Made)
        /\ Members(calls) = {calls[1]} \cup Behind
    BY <1>9, FirstCall DEF StackOK, Removed, Running, Behind
  <2>2. Made' = Made /\ Members(calls') = new \cup Behind
    BY <1>9, RemovedSound
  <2>3. \A c \in {calls[1]} \cup new : c.op \notin {"CursorEnter", "CursorExit"}
    BY <2>1 DEF Call, Script
  <2>4. FocusStays
    BY <1>9 DEF Removed, FocusStays, drawn, histories, FramesTypeOK, TopRecords
  <2>5. FlagsSame
    BY <1>9 DEF Removed, FlagsSame
  <2>. HIDE DEF new
  <2>6. \A g \in Made : /\ Stacked("CursorExit", g)' <=> Stacked("CursorExit", g)
                        /\ Stacked("CursorEnter", g)' <=> Stacked("CursorEnter", g)
    <3>1. ScriptsSame
      BY <2>1, <2>2, <2>3 DEF ScriptsSame
    <3>. QED  BY <3>1, ScriptsStay
  <2>. QED  BY <2>2, <2>4, <2>5, <2>6, HighlightsStay DEF FocusStays, FlagsSame
<1>10. CASE HideChildren
  <2>. DEFINE f == calls[1].frame
              n == calls[1].arg
              new == IF n > Len(frame[f].children) THEN {Script(f)}
                    ELSE {Call("HideThis", frame[f].children[n], 0), Call("HideChildren", f, n + 1)}
  <2>1. calls # <<>> /\ calls[1].op = "HideChildren" /\ CallFits(calls[1], Made)
        /\ Members(calls) = {calls[1]} \cup Behind
    BY <1>10, FirstCall DEF StackOK, HideChildren, Running, Behind
  <2>2. Made' = Made /\ Members(calls') = new \cup Behind
    BY <1>10, HideChildrenSound
  <2>3. \A c \in {calls[1]} \cup new : c.op \notin {"CursorEnter", "CursorExit"}
    BY <2>1 DEF Call, Script
  <2>4. FocusStays
    BY <1>10 DEF HideChildren, FocusStays, drawn, histories, FramesTypeOK, TopRecords
  <2>5. FlagsSame
    BY <1>10 DEF HideChildren, FlagsSame
  <2>. HIDE DEF new
  <2>6. \A g \in Made : /\ Stacked("CursorExit", g)' <=> Stacked("CursorExit", g)
                        /\ Stacked("CursorEnter", g)' <=> Stacked("CursorEnter", g)
    <3>1. ScriptsSame
      BY <2>1, <2>2, <2>3 DEF ScriptsSame
    <3>. QED  BY <3>1, ScriptsStay
  <2>. QED  BY <2>2, <2>4, <2>5, <2>6, HighlightsStay DEF FocusStays, FlagsSame
<1>11. CASE Disabled
  <2>. DEFINE f == calls[1].frame
              n == calls[1].arg
              new == {}
  <2>1. calls # <<>> /\ calls[1].op = "Disabled" /\ CallFits(calls[1], Made)
        /\ Members(calls) = {calls[1]} \cup Behind
    BY <1>11, FirstCall DEF StackOK, Disabled, Running, Behind
  <2>2. Made' = Made /\ Members(calls') = new \cup Behind
    BY <1>11, DisabledSound
  <2>3. \A c \in {calls[1]} \cup new : c.op \notin {"CursorEnter", "CursorExit"}
    BY <2>1 DEF Call, Script
  <2>4. FocusStays
    BY <1>11 DEF Disabled, FocusStays, drawn, histories, FramesTypeOK, TopRecords
  <2>5. FlagsSame
    <3>1. f \in Made /\ frame' = [frame EXCEPT ![f].eventmask = frame[f].eventmask \ {"mouse"}]
      BY <1>11, <2>1 DEF Disabled, CallFits
    <3>. QED  BY SMTT(30), <2>2, <3>1, FlagsStay DEF FlagsSame
  <2>. HIDE DEF new
  <2>6. \A g \in Made : /\ Stacked("CursorExit", g)' <=> Stacked("CursorExit", g)
                        /\ Stacked("CursorEnter", g)' <=> Stacked("CursorEnter", g)
    <3>1. ScriptsSame
      BY <2>1, <2>2, <2>3 DEF ScriptsSame
    <3>. QED  BY <3>1, ScriptsStay
  <2>. QED  BY <2>2, <2>4, <2>5, <2>6, HighlightsStay DEF FocusStays, FlagsSame
<1>12. CASE KeyLoop
  <2>. DEFINE f == calls[1].frame
              n == calls[1].arg
              new == IF n > Len(queue["key"]) THEN {}
                    ELSE IF frame[queue["key"][n].frame].visible /\ queue["key"][n].frame \in KeyHandlers
                    THEN {Script(queue["key"][n].frame), Call("KeyEaten", queue["key"][n].frame, 0)}
                    ELSE {Call("Key", Nil, n + 1)}
  <2>1. calls # <<>> /\ calls[1].op = "Key" /\ CallFits(calls[1], Made)
        /\ Members(calls) = {calls[1]} \cup Behind
    BY <1>12, FirstCall DEF StackOK, KeyLoop, Running, Behind
  <2>2. Made' = Made /\ Members(calls') = new \cup Behind
    BY <1>12, KeyLoopSound
  <2>3. \A c \in {calls[1]} \cup new : c.op \notin {"CursorEnter", "CursorExit"}
    BY <2>1 DEF Call, Script
  <2>4. FocusStays
    BY <1>12 DEF KeyLoop, FocusStays, drawn, histories, FramesTypeOK, TopRecords
  <2>5. FlagsSame
    BY <1>12 DEF KeyLoop, FlagsSame
  <2>. HIDE DEF new
  <2>6. \A g \in Made : /\ Stacked("CursorExit", g)' <=> Stacked("CursorExit", g)
                        /\ Stacked("CursorEnter", g)' <=> Stacked("CursorEnter", g)
    <3>1. ScriptsSame
      BY <2>1, <2>2, <2>3 DEF ScriptsSame
    <3>. QED  BY <3>1, ScriptsStay
  <2>. QED  BY <2>2, <2>4, <2>5, <2>6, HighlightsStay DEF FocusStays, FlagsSame
<1>13. CASE KeyEaten
  <2>. DEFINE f == calls[1].frame
              n == calls[1].arg
              new == {}
  <2>1. calls # <<>> /\ calls[1].op = "KeyEaten" /\ CallFits(calls[1], Made)
        /\ Members(calls) = {calls[1]} \cup Behind
    BY <1>13, FirstCall DEF StackOK, KeyEaten, Running, Behind
  <2>2. Made' = Made /\ Members(calls') = new \cup Behind
    BY <1>13, KeyEatenSound
  <2>3. \A c \in {calls[1]} \cup new : c.op \notin {"CursorEnter", "CursorExit"}
    BY <2>1 DEF Call, Script
  <2>4. FocusStays
    BY <1>13 DEF KeyEaten, FocusStays, drawn, histories, FramesTypeOK, TopRecords
  <2>5. FlagsSame
    BY <1>13 DEF KeyEaten, FlagsSame
  <2>. HIDE DEF new
  <2>6. \A g \in Made : /\ Stacked("CursorExit", g)' <=> Stacked("CursorExit", g)
                        /\ Stacked("CursorEnter", g)' <=> Stacked("CursorEnter", g)
    <3>1. ScriptsSame
      BY <2>1, <2>2, <2>3 DEF ScriptsSame
    <3>. QED  BY <3>1, ScriptsStay
  <2>. QED  BY <2>2, <2>4, <2>5, <2>6, HighlightsStay DEF FocusStays, FlagsSame
<1>. QED  BY <1>1, <1>2, <1>3, <1>4, <1>5, <1>6, <1>7, <1>8, <1>9, <1>10, <1>11, <1>12, <1>13 DEF FramesNext, Plain, Update

-----------------------------------------------------------------------------
(* The queues: ordered by level, each frame once in a queue. *)

Rank == [x \in [frame : Frame, priority : Levels] |-> MaxLevel - x.priority]
Neat(q) ==
    /\ NoRepeats(q) /\ Ordered(q, Rank)
    /\ \A x, y \in Members(q) : x.frame = y.frame => x = y

LEMMA RankType ==
    ASSUME FramesAssumption, FramesTypeOK
    PROVE  \A x \in QueueEntries : Rank[x] \in Nat /\ Rank[x] = MaxLevel - x.priority
<1>1. ASSUME NEW x \in QueueEntries
      PROVE  Rank[x] \in Nat /\ Rank[x] = MaxLevel - x.priority
  <2>1. x.priority \in 0..MaxLevel /\ MaxLevel \in Nat
    BY DEF FramesAssumption, QueueEntries, Levels
  <2>2. x \in [frame : Frame, priority : Levels]
    BY DEF QueueEntries, FramesTypeOK
  <2>3. Rank[x] = MaxLevel - x.priority
    BY <2>2 DEF Rank
  <2>. QED  BY <2>1, <2>3
<1>. QED  BY <1>1

LEMMA QueueInserts ==
    ASSUME FramesAssumption, FramesTypeOK, NEW q \in Seq(QueueEntries), NEW entry \in QueueEntries,
           Neat(q), \A x \in Members(q) : x.frame # entry.frame,
           NEW r \in Insertions(q, entry)
    PROVE  Neat(r) /\ Members(r) = Members(q) \cup {entry}
<1>1. PICK i \in 1..(Len(q) + 1) :
        /\ r = InsertAt(q, i, entry)
        /\ i > 1 => q[i - 1].priority >= entry.priority
        /\ i <= Len(q) => q[i].priority <= entry.priority
  BY DEF Insertions
<1>2. Len(q) \in Nat /\ DOMAIN q = 1..Len(q) /\ \A j \in 1..Len(q) : q[j] \in QueueEntries
  BY LenProperties, ElementOfSeq
<1>3. entry.priority \in Nat /\ \A j \in 1..Len(q) : q[j].priority \in Nat
  BY <1>2, FramesAssumption DEF FramesAssumption, QueueEntries, Levels
<1>4. entry \notin Members(q)
  OBVIOUS
<1>5. NoRepeats(r) /\ Members(r) = Members(q) \cup {entry}
  BY <1>1, <1>4, InsertAtMembers DEF Neat
<1>6. i <= Len(q) => Rank[entry] <= Rank[q[i]]
  BY <1>1, <1>2, <1>3, RankType DEF FramesAssumption
<1>7. \A j \in 1..(i - 1) : Rank[q[j]] <= Rank[entry]
  <2>1. ASSUME NEW j \in 1..(i - 1)
        PROVE  Rank[q[j]] <= Rank[entry]
    <3>1. i - 1 \in 1..Len(q) /\ j \in 1..Len(q) /\ j <= i - 1 /\ i > 1
      BY <1>1, <1>2
    <3>2. Rank[q[i - 1]] <= Rank[entry]
      BY <1>1, <1>2, <1>3, <3>1, RankType DEF FramesAssumption
    <3>3. Rank[q[j]] <= Rank[q[i - 1]]
      <4>1. CASE j = i - 1
        BY <1>2, <3>1, <4>1, RankType
      <4>2. CASE j < i - 1
        BY <1>2, <3>1, <4>2 DEF Neat, Ordered
      <4>. QED  BY <3>1, <4>1, <4>2
    <3>4. Rank[q[j]] \in Nat /\ Rank[q[i - 1]] \in Nat /\ Rank[entry] \in Nat
      BY <1>2, <3>1, RankType
    <3>. QED  BY <3>2, <3>3, <3>4
  <2>. QED  BY <2>1
<1>8. Ordered(r, Rank)
  <2>1. \A s \in QueueEntries : Rank[s] \in Nat
    BY RankType
  <2>2. Ordered(q, Rank)
    BY DEF Neat
  <2>. QED  BY <1>1, <1>6, <1>7, <2>1, <2>2, InsertAtOrdered
<1>9. \A x, y \in Members(r) : x.frame = y.frame => x = y
  BY <1>5 DEF Neat
<1>. QED  BY <1>5, <1>8, <1>9 DEF Neat

LEMMA QueueDrops ==
    ASSUME NEW q \in Seq(QueueEntries), Neat(q), NEW i \in 1..Len(q)
    PROVE  /\ Neat(RemoveAt(q, i))
           /\ Members(RemoveAt(q, i)) = {x \in Members(q) : x.frame # q[i].frame}
<1>. DEFINE o == q[i]
<1>1. DOMAIN q = 1..Len(q) /\ Len(q) \in Nat
  BY LenProperties
<1>2. Unlink(q, o) = RemoveAt(q, i)
  <2>1. \E j \in DOMAIN q : q[j] = o
    BY <1>1
  <2>2. PICK n : n = CHOOSE j \in DOMAIN q : q[j] = o
    OBVIOUS
  <2>3. n \in DOMAIN q /\ q[n] = o
    BY <2>1, <2>2
  <2>4. n = i
    BY <1>1, <2>3 DEF Neat, NoRepeats
  <2>. QED  BY <2>1, <2>2, <2>4 DEF Unlink
<1>3. /\ Members(Unlink(q, o)) = Members(q) \ {o}
      /\ NoRepeats(Unlink(q, o))
  BY UnlinkProperties DEF Neat
<1>4. Ordered(Unlink(q, o), Rank)
  BY UnlinkOrdered DEF Neat
<1>5. o \in Members(q)
  BY <1>1 DEF Members
<1>6. Members(q) \ {o} = {x \in Members(q) : x.frame # o.frame}
  BY <1>5 DEF Neat
<1>7. Neat(Unlink(q, o))
  BY <1>3, <1>4 DEF Neat
<1>. QED  BY <1>2, <1>3, <1>6, <1>7

\* The entries of a queue, and the queues after a frame was registered and
\* taken back.
LEMMA QueuedEntries ==
    ASSUME NEW f, NEW e
    PROVE  Queued(f, e) <=> \E x \in Members(queue[e]) : x.frame = f
BY DEF Queued, Members

LEMMA RegisteredQueues ==
    ASSUME FramesAssumption, FramesTypeOK, NEW q \in [Events -> Seq(QueueEntries)], NEW f \in Made,
           NEW l \in Levels, NEW E, NEW r \in Registered(q, f, E, l),
           \A e \in Events : Neat(q[e]),
           \A e \in E \cap Events : \A x \in Members(q[e]) : x.frame # f
    PROVE  \A e \in Events :
                /\ Neat(r[e])
                /\ \A x : x \in Members(r[e]) <=>
                        x \in Members(q[e]) \/ (e \in E /\ x = [frame |-> f, priority |-> l])
<1>. DEFINE entry == [frame |-> f, priority |-> l]
<1>1. entry \in QueueEntries /\ entry.frame = f
  BY DEF QueueEntries
<1>2. \A e \in Events : IF e \in E THEN r[e] \in Insertions(q[e], entry) ELSE r[e] = q[e]
  BY RegisteredProperties
<1>3. ASSUME NEW e \in Events, e \in E
      PROVE  Neat(r[e]) /\ Members(r[e]) = Members(q[e]) \cup {entry}
  <2>1. q[e] \in Seq(QueueEntries) /\ Neat(q[e]) /\ r[e] \in Insertions(q[e], entry)
    BY <1>2, <1>3
  <2>2. \A x \in Members(q[e]) : x.frame # entry.frame
    BY <1>1, <1>3
  <2>. HIDE DEF entry
  <2>. QED  BY <1>1, <2>1, <2>2, QueueInserts
<1>4. ASSUME NEW e \in Events, e \notin E
      PROVE  Neat(r[e]) /\ Members(r[e]) = Members(q[e])
  BY <1>2, <1>4
<1>. QED  BY <1>3, <1>4

LEMMA RegisteredNeat ==
    ASSUME FramesAssumption, FramesTypeOK, NEW q \in [Events -> Seq(QueueEntries)], NEW f \in Made,
           NEW l \in Levels, NEW E, NEW r \in Registered(q, f, E, l),
           \A e \in Events : Neat(q[e]),
           \A e \in E \cap Events : \A x \in Members(q[e]) : x.frame # f,
           NEW e \in Events
    PROVE  Neat(r[e])
<1>. DEFINE entry == [frame |-> f, priority |-> l]
<1>1. entry \in QueueEntries /\ entry.frame = f
  BY DEF QueueEntries
<1>2. q[e] \in Seq(QueueEntries) /\ Neat(q[e])
      /\ IF e \in E THEN r[e] \in Insertions(q[e], entry) ELSE r[e] = q[e]
  BY RegisteredProperties
<1>. HIDE DEF entry
<1>3. e \in E => \A x \in Members(q[e]) : x.frame # entry.frame
  BY <1>1
<1>. QED  BY <1>1, <1>2, <1>3, QueueInserts

LEMMA UnqueuedQueues ==
    ASSUME FramesTypeOK, NEW f, NEW E, \A e \in Events : Neat(queue[e])
    PROVE  /\ Unqueue(f, E) \in [Events -> Seq(QueueEntries)]
           /\ \A e \in Events :
                /\ Neat(Unqueue(f, E)[e])
                /\ \A x : x \in Members(Unqueue(f, E)[e]) <=>
                        x \in Members(queue[e]) /\ (e \notin E \/ x.frame # f)
<1>1. ASSUME NEW e \in Events
      PROVE  /\ Neat(Unqueue(f, E)[e])
             /\ \A x : x \in Members(Unqueue(f, E)[e]) <=>
                    x \in Members(queue[e]) /\ (e \notin E \/ x.frame # f)
  <2>1. queue[e] \in Seq(QueueEntries) /\ Neat(queue[e])
    BY DEF FramesTypeOK
  <2>2. CASE e \in E /\ Queued(f, e)
    <3>1. PICK i \in 1..Len(queue[e]) :
            queue[e][i].frame = f /\ Unqueue(f, E)[e] = RemoveAt(queue[e], i)
      BY <2>2, UnqueueProperties
    <3>2. Neat(RemoveAt(queue[e], i))
          /\ Members(RemoveAt(queue[e], i)) = {x \in Members(queue[e]) : x.frame # queue[e][i].frame}
      BY <2>1, QueueDrops
    <3>. QED  BY <2>2, <3>1, <3>2
  <2>3. CASE ~ (e \in E /\ Queued(f, e))
    <3>1. Unqueue(f, E)[e] = queue[e]
      BY <2>3, UnqueueProperties
    <3>2. e \in E => \A x \in Members(queue[e]) : x.frame # f
      BY <2>3, QueuedEntries
    <3>. QED  BY <2>1, <3>1, <3>2
  <2>. QED  BY <2>2, <2>3
<1>. QED  BY <1>1, UnqueueProperties

\* The first frame of a queue that the mouse is inside.
FirstFrame(q, hits) ==
    LET under == {i \in DOMAIN q : q[i].frame \in hits}
    IN  IF under = {} THEN Nil ELSE q[Min(under)].frame
FirstUnder(q, hits, n) ==
    \/ n = Nil /\ \A x \in Members(q) : x.frame \notin hits
    \/ \E i \in DOMAIN q : /\ q[i].frame = n /\ n \in hits
                           /\ \A j \in 1..(i - 1) : q[j].frame \notin hits

LEMMA FirstFrameIsUnder ==
    ASSUME NEW q \in Seq(QueueEntries), NEW hits
    PROVE  FirstUnder(q, hits, FirstFrame(q, hits))
<1>. DEFINE under == {i \in DOMAIN q : q[i].frame \in hits}
<1>1. DOMAIN q = 1..Len(q) /\ Len(q) \in Nat
  BY LenProperties
<1>2. CASE under = {}
  <2>1. FirstFrame(q, hits) = Nil
    BY <1>2 DEF FirstFrame
  <2>2. \A x \in Members(q) : x.frame \notin hits
    BY <1>2 DEF Members
  <2>. QED  BY <2>1, <2>2 DEF FirstUnder
<1>3. CASE under # {}
  <2>1. FirstFrame(q, hits) = q[Min(under)].frame
    BY <1>3 DEF FirstFrame
  <2>2. Min(under) \in under /\ \A j \in under : Min(under) <= j
    <3>1. under \in SUBSET Nat
      BY <1>1
    <3>. HIDE DEF under
    <3>. QED  BY <1>3, <3>1, MinProperties
  <2>3. PICK i : i = Min(under)
    OBVIOUS
  <2>4. i \in DOMAIN q /\ q[i].frame \in hits /\ FirstFrame(q, hits) = q[i].frame
    BY <2>1, <2>2, <2>3
  <2>5. ASSUME NEW j \in 1..(i - 1)
        PROVE  q[j].frame \notin hits
    <3>1. j \in DOMAIN q /\ ~ (i <= j)
      BY <1>1, <2>4
    <3>2. j \notin under
      BY <2>2, <2>3, <3>1
    <3>. QED  BY <3>1, <3>2
  <2>. QED  BY <2>4, <2>5 DEF FirstUnder
<1>. QED  BY <1>2, <1>3

LEMMA OnlyFirstUnder ==
    ASSUME FramesAssumption, FramesTypeOK, NEW q \in Seq(QueueEntries), NEW hits, NEW n, NEW m,
           FirstUnder(q, hits, n), FirstUnder(q, hits, m)
    PROVE  n = m
<1>1. DOMAIN q = 1..Len(q) /\ Len(q) \in Nat
  BY LenProperties
<1>2. CASE \A x \in Members(q) : x.frame \notin hits
  <2>1. \A i \in DOMAIN q : q[i].frame \notin hits
    BY <1>2 DEF Members
  <2>. QED  BY <2>1 DEF FirstUnder
<1>3. CASE ~ \A x \in Members(q) : x.frame \notin hits
  <2>1. PICK i \in DOMAIN q : q[i].frame = n /\ n \in hits /\ \A j \in 1..(i - 1) : q[j].frame \notin hits
    BY <1>3 DEF FirstUnder
  <2>2. PICK k \in DOMAIN q : q[k].frame = m /\ m \in hits /\ \A j \in 1..(k - 1) : q[j].frame \notin hits
    BY <1>3 DEF FirstUnder
  <2>3. ~ (i < k) /\ ~ (k < i)
    BY <1>1, <2>1, <2>2
  <2>. QED  BY <1>1, <2>1, <2>2, <2>3
<1>. QED  BY <1>2, <1>3

\* The first frame stays first when another leaves the queue.
LEMMA FirstStays ==
    ASSUME NEW q \in Seq(QueueEntries), NEW hits, NEW n, FirstUnder(q, hits, n),
           NEW k \in 1..Len(q), q[k].frame # n
    PROVE  FirstUnder(RemoveAt(q, k), hits, n)
<1>. DEFINE r == RemoveAt(q, k)
<1>1. DOMAIN q = 1..Len(q) /\ Len(q) \in Nat
  BY LenProperties
<1>2. /\ r \in Seq(QueueEntries) /\ Len(r) = Len(q) - 1
      /\ \A j \in 1..(Len(q) - 1) : /\ j < k => r[j] = q[j]
                                    /\ j >= k => r[j] = q[j + 1]
  BY RemoveAtProperties
<1>. HIDE DEF r
<1>3. DOMAIN r = 1..(Len(q) - 1)
  BY <1>2, LenProperties
<1>4. CASE n = Nil /\ \A x \in Members(q) : x.frame \notin hits
  <2>1. \A i \in DOMAIN q : q[i].frame \notin hits
    BY <1>4 DEF Members
  <2>2. \A j \in DOMAIN r : r[j].frame \notin hits
    <3>1. ASSUME NEW j \in DOMAIN r
          PROVE  r[j].frame \notin hits
      <4>1. j \in DOMAIN q /\ j + 1 \in DOMAIN q
        BY <1>1, <1>3
      <4>2. r[j] = q[j] \/ r[j] = q[j + 1]
        BY <1>1, <1>2, <1>3
      <4>. QED  BY <2>1, <4>1, <4>2
    <3>. QED  BY <3>1
  <2>. QED  BY <1>4, <2>2 DEF FirstUnder, Members, r
<1>5. CASE \E i \in DOMAIN q : /\ q[i].frame = n /\ n \in hits
                               /\ \A j \in 1..(i - 1) : q[j].frame \notin hits
  <2>1. PICK i \in DOMAIN q : /\ q[i].frame = n /\ n \in hits
                              /\ \A j \in 1..(i - 1) : q[j].frame \notin hits
    BY <1>5
  <2>2. i # k
    BY <2>1
  <2>3. CASE i < k
    <3>1. i \in DOMAIN r /\ r[i].frame = n
      BY <1>1, <1>2, <1>3, <2>1, <2>3
    <3>2. \A j \in 1..(i - 1) : r[j] = q[j]
      BY <1>1, <1>2, <2>1, <2>3
    <3>. QED  BY <2>1, <3>1, <3>2 DEF FirstUnder, r
  <2>4. CASE i > k
    <3>1. i - 1 \in 1..(Len(q) - 1) /\ i - 1 >= k /\ (i - 1) + 1 = i
      BY <1>1, <2>1, <2>4
    <3>2. i - 1 \in DOMAIN r /\ r[i - 1].frame = n
      BY <1>2, <1>3, <2>1, <3>1
    <3>3. ASSUME NEW j \in 1..((i - 1) - 1)
          PROVE  r[j].frame \notin hits
      <4>1. j \in 1..(i - 1) /\ j + 1 \in 1..(i - 1) /\ j \in 1..(Len(q) - 1)
        BY <1>1, <2>1
      <4>2. r[j] = q[j] \/ r[j] = q[j + 1]
        BY <1>2, <4>1
      <4>. QED  BY <2>1, <4>1, <4>2
    <3>. QED  BY <2>1, <3>2, <3>3 DEF FirstUnder, r
  <2>. QED  BY <1>1, <2>1, <2>2, <2>3, <2>4
<1>. QED  BY <1>4, <1>5 DEF FirstUnder

\* The queues serve the visible frames that are enabled, and them alone; the
\* focus and the captures are with frames that are served.
QueuesServe ==
    /\ \A e \in Events : Neat(queue[e])
    /\ \A e \in Events : \A x \in Members(queue[e]) :
        /\ frame[x.frame].visible /\ e \in frame[x.frame].eventmask
        /\ x.priority = frame[x.frame].level
    /\ \A e \in Events : \A f \in Made : frame[f].visible /\ e \in frame[f].eventmask =>
        Queued(f, e) \/ (e = "mouse" /\ Stacked("Disabled", f))
    /\ \A f \in Made : Stacked("Disabled", f) => ~ Queued(f, "mouse")
FocusKept ==
    /\ top.mouseFocus # Nil => Queued(top.mouseFocus, "mouse")
    /\ top.mouseCapture # Nil => Queued(top.mouseCapture, "mouse")
    /\ ~ top.checkFocus => FirstUnder(queue["mouse"], top.hits, top.mouseFocus)
KeysKept ==
    /\ top.keydownCapture # Nil =>
        /\ "key" \in frame[top.keydownCapture].eventmask
        /\ frame[top.keydownCapture].visible \/ "escaped" \in quirks
    /\ \A f \in Made : Stacked("KeyEaten", f) => "key" \in frame[f].eventmask
Served == "requeued" \notin quirks => QueuesServe /\ FocusKept /\ KeysKept

\* What an action leaves alone.
ServeSame ==
    \A f \in Made : /\ frame'[f].visible <=> frame[f].visible
                    /\ frame'[f].level = frame[f].level
                    /\ frame'[f].eventmask = frame[f].eventmask
WaitingSame ==
    \A c : c.op \in {"Disabled", "KeyEaten"} => (c \in Members(calls') <=> c \in Members(calls))
TopStays ==
    /\ top'.mouseFocus = top.mouseFocus /\ top'.hits = top.hits
    /\ top'.checkFocus <=> top.checkFocus
    /\ top'.mouseCapture \in {top.mouseCapture, top.mouseFocus, Nil}
    /\ top'.keydownCapture \in {top.keydownCapture, Nil}
QuirksGrow == quirks \subseteq quirks'

LEMMA ServedStays ==
    ASSUME FramesTypeOK, Served, Made' = Made, queue' = queue, ServeSame, WaitingSame, TopStays,
           QuirksGrow
    PROVE  Served'
<1>. SUFFICES ASSUME "requeued" \notin quirks'
              PROVE  QueuesServe' /\ FocusKept' /\ KeysKept'
  BY DEF Served
<1>1. QueuesServe /\ FocusKept /\ KeysKept
  BY DEF Served, QuirksGrow
<1>2. \A f : /\ Stacked("Disabled", f)' <=> Stacked("Disabled", f)
             /\ Stacked("KeyEaten", f)' <=> Stacked("KeyEaten", f)
  BY DEF WaitingSame, Stacked
<1>3. \A f, e : Queued(f, e)' <=> Queued(f, e)
  BY DEF Queued
<1>4. \A e \in Events : \A x \in Members(queue[e]) : x.frame \in Made
  <2>1. \A e \in Events : queue[e] \in Seq(QueueEntries)
    BY DEF FramesTypeOK
  <2>2. \A e \in Events : \A i \in DOMAIN queue[e] : queue[e][i] \in QueueEntries
    BY <2>1, ElementOfSeq, LenProperties
  <2>. QED  BY <2>2 DEF Members, QueueEntries
<1>5. top.keydownCapture \in Made \cup {Nil}
  BY DEF FramesTypeOK, TopRecords
<1>6. QueuesServe'
  <2>1. (\A e \in Events : Neat(queue[e]))'
    BY <1>1 DEF QueuesServe
  <2>2. (\A e \in Events : \A x \in Members(queue[e]) :
            /\ frame[x.frame].visible /\ e \in frame[x.frame].eventmask
            /\ x.priority = frame[x.frame].level)'
    BY <1>1, <1>4 DEF QueuesServe, ServeSame
  <2>3. (\A e \in Events : \A f \in Made : frame[f].visible /\ e \in frame[f].eventmask =>
            Queued(f, e) \/ (e = "mouse" /\ Stacked("Disabled", f)))'
    BY <1>1, <1>2, <1>3 DEF QueuesServe, ServeSame
  <2>4. (\A f \in Made : Stacked("Disabled", f) => ~ Queued(f, "mouse"))'
    BY <1>1, <1>2, <1>3 DEF QueuesServe
  <2>. QED  BY <2>1, <2>2, <2>3, <2>4 DEF QueuesServe
<1>7. FocusKept'
  BY <1>1, <1>3 DEF FocusKept, TopStays
<1>8. KeysKept'
  <2>1. (top.keydownCapture # Nil =>
            /\ "key" \in frame[top.keydownCapture].eventmask
            /\ frame[top.keydownCapture].visible \/ "escaped" \in quirks)'
    BY <1>1, <1>5 DEF KeysKept, TopStays, ServeSame, QuirksGrow
  <2>2. (\A f \in Made : Stacked("KeyEaten", f) => "key" \in frame[f].eventmask)'
    BY <1>1, <1>2 DEF KeysKept, ServeSame
  <2>. QED  BY <2>1, <2>2 DEF KeysKept
<1>. QED  BY <1>6, <1>7, <1>8

LEMMA ServeFlags ==
    ASSUME FramesTypeOK, NEW g \in Made, NEW v, NEW w,
           \/ frame' = frame
           \/ frame' = [frame EXCEPT ![g].shown = v]
           \/ frame' = [frame EXCEPT ![g].parent = v]
           \/ frame' = [frame EXCEPT ![g].children = v]
           \/ frame' = [frame EXCEPT ![g].highlight = v]
           \/ frame' = [frame EXCEPT ![g].locked = v, ![g].highlight = w]
    PROVE  ServeSame
<1>. SUFFICES ASSUME NEW f \in Made
              PROVE  /\ frame'[f].visible = frame[f].visible
                     /\ frame'[f].level = frame[f].level
                     /\ frame'[f].eventmask = frame[f].eventmask
  <2>1. \A f \in Made : frame'[f].visible <=> frame[f].visible
    BY Zenon
  <2>. QED  BY <2>1 DEF ServeSame
<1>1. frame \in [Made -> FrameRecords] /\ frame[f] \in FrameRecords /\ frame[g] \in FrameRecords
  BY DEF FramesTypeOK
<1>2. CASE frame' = frame
  BY <1>2
<1>3. CASE frame' = [frame EXCEPT ![g].shown = v]
  BY <1>1, <1>3 DEF FrameRecords
<1>4. CASE frame' = [frame EXCEPT ![g].parent = v]
  BY <1>1, <1>4 DEF FrameRecords
<1>5. CASE frame' = [frame EXCEPT ![g].children = v]
  BY <1>1, <1>5 DEF FrameRecords
<1>6. CASE frame' = [frame EXCEPT ![g].highlight = v]
  BY <1>1, <1>6 DEF FrameRecords
<1>7. CASE frame' = [frame EXCEPT ![g].locked = v, ![g].highlight = w]
  BY <1>1, <1>7 DEF FrameRecords
<1>. QED  BY <1>2, <1>3, <1>4, <1>5, <1>6, <1>7

\* The plain actions that leave the queues alone.
Aside ==
    \/ ScriptCalls \/ ScriptReturns \/ Hide \/ Show \/ ShowChildren \/ ShiftChildren
    \/ SetParent \/ Reparent \/ SetBeingScrolled \/ ScrollChildren \/ Attach \/ LockHighlight
    \/ OnMouseDown \/ OnMouseUp \/ MouseReleased
    \/ OnKeyDown \/ OnKeyUp \/ KeyReleased \/ OnLayerUpdate \/ UpdateLevel \/ UpdateNode

LEMMA AsideWaiting ==
    ASSUME FramesTypeOK, StackOK, Sound', Aside
    PROVE  WaitingSame
<1>1. \A c : c.op \in WatchedOps \ {"UpdateNode"} =>
            (c \in Members(calls') <=> c \in Members(calls))
  BY OtherCalls DEF Plain, Update, Aside
<1>. QED  BY <1>1 DEF WaitingSame, WatchedOps

LEMMA AsideStays ==
    ASSUME FramesTypeOK, StackOK, Aside
    PROVE  Made' = Made /\ queue' = queue /\ ServeSame /\ TopStays /\ QuirksGrow
<1>1. CASE ScriptCalls
  BY <1>1 DEF ScriptCalls, ServeSame, TopStays, QuirksGrow, drawn, histories, Made
<1>2. CASE ScriptReturns
  BY <1>2 DEF ScriptReturns, ServeSame, TopStays, QuirksGrow, drawn, histories, Made
<1>3. CASE ShiftChildren
  BY <1>3 DEF ShiftChildren, ServeSame, TopStays, QuirksGrow, drawn, histories, Made
<1>4. CASE SetParent
  BY <1>4 DEF SetParent, ServeSame, TopStays, QuirksGrow, drawn, histories, Made
<1>5. CASE ShowChildren
  BY <1>5 DEF ShowChildren, ServeSame, TopStays, QuirksGrow, drawn, histories, Made
<1>6. CASE OnMouseUp
  BY <1>6 DEF OnMouseUp, ServeSame, TopStays, QuirksGrow, drawn, histories, Made
<1>7. CASE OnKeyDown
  BY <1>7 DEF OnKeyDown, ServeSame, TopStays, QuirksGrow, drawn, histories, Made
<1>8. CASE OnKeyUp
  BY <1>8 DEF OnKeyUp, ServeSame, TopStays, QuirksGrow, drawn, histories, Made
<1>9. CASE OnLayerUpdate
  BY <1>9 DEF OnLayerUpdate, ServeSame, TopStays, QuirksGrow, drawn, histories, Made
<1>10. CASE OnMouseDown
  BY <1>10 DEF OnMouseDown, ServeSame, TopStays, QuirksGrow, histories, Made, FramesTypeOK, TopRecords
<1>11. CASE MouseReleased
  BY <1>11 DEF MouseReleased, ServeSame, TopStays, QuirksGrow, histories, Made, FramesTypeOK, TopRecords
<1>12. CASE KeyReleased
  BY <1>12 DEF KeyReleased, ServeSame, TopStays, QuirksGrow, histories, Made, FramesTypeOK, TopRecords
<1>13. CASE UpdateLevel
  BY <1>13 DEF UpdateLevel, ServeSame, TopStays, QuirksGrow, Made
<1>14. CASE UpdateNode
  BY <1>14 DEF UpdateNode, ServeSame, TopStays, QuirksGrow, Made
<1>15. CASE Hide
  <2>. DEFINE f == calls[1].frame
  <2>1. calls # <<>> /\ calls[1].op = "Hide" /\ CallFits(calls[1], Made)
    BY <1>15, FirstCall DEF StackOK, Hide, Running
  <2>2. f \in Made /\ Made' = Made
    BY <1>15, <2>1, HideSound DEF CallFits
  <2>3. queue' = queue /\ TopStays /\ QuirksGrow
    BY <1>15 DEF Hide, TopStays, QuirksGrow, drawn, histories
  <2>4. ServeSame
    <3>1. frame' = [frame EXCEPT ![f].shown = FALSE]
      BY <1>15 DEF Hide
    <3>. QED  BY <2>2, <3>1, ServeFlags
  <2>. QED  BY <2>2, <2>3, <2>4
<1>16. CASE Show
  <2>. DEFINE f == calls[1].frame
  <2>1. calls # <<>> /\ calls[1].op = "Show" /\ CallFits(calls[1], Made)
    BY <1>16, FirstCall DEF StackOK, Show, Running
  <2>2. f \in Made /\ Made' = Made
    BY <1>16, <2>1, ShowSound DEF CallFits
  <2>3. queue' = queue /\ TopStays /\ QuirksGrow
    BY <1>16 DEF Show, TopStays, QuirksGrow, drawn, histories
  <2>4. ServeSame
    <3>1. frame' = [frame EXCEPT ![f].shown = TRUE]
      BY <1>16 DEF Show
    <3>. QED  BY <2>2, <3>1, ServeFlags
  <2>. QED  BY <2>2, <2>3, <2>4
<1>17. CASE Reparent
  <2>. DEFINE f == calls[1].frame
              p == calls[1].arg
  <2>1. calls # <<>> /\ calls[1].op = "Reparent" /\ CallFits(calls[1], Made)
    BY <1>17, FirstCall DEF StackOK, Reparent, Running
  <2>2. f \in Made /\ Made' = Made
    BY <1>17, <2>1, ReparentSound DEF CallFits
  <2>3. queue' = queue /\ TopStays /\ QuirksGrow
    BY <1>17 DEF Reparent, TopStays, QuirksGrow, drawn, histories
  <2>4. ServeSame
    <3>1. frame' = [frame EXCEPT ![f].parent = p]
      BY <1>17 DEF Reparent
    <3>. QED  BY <2>2, <3>1, ServeFlags
  <2>. QED  BY <2>2, <2>3, <2>4
<1>18. CASE Attach
  <2>. DEFINE f == calls[1].frame
              p == frame[f].parent
  <2>1. calls # <<>> /\ calls[1].op = "Attach" /\ CallFits(calls[1], Made)
    BY <1>18, FirstCall DEF StackOK, Attach, Running
  <2>2. f \in Made /\ Made' = Made
    BY <1>18, <2>1, AttachSound DEF CallFits
  <2>3. queue' = queue /\ TopStays /\ QuirksGrow
    BY <1>18 DEF Attach, TopStays, QuirksGrow, drawn, histories
  <2>4. ServeSame
    <3>1. CASE p = Nil
      <4>1. frame' = frame
        BY <1>18, <3>1 DEF Attach
      <4>. QED  BY <4>1 DEF ServeSame
    <3>2. CASE p # Nil
      <4>1. p \in Made /\ frame' = [frame EXCEPT ![p].children = Append(frame[p].children, f)]
        BY <1>18, <2>2, <3>2 DEF Attach, FramesTypeOK, FrameRecords
      <4>. QED  BY <4>1, ServeFlags
    <3>. QED  BY <3>1, <3>2
  <2>. QED  BY <2>2, <2>3, <2>4
<1>19. CASE LockHighlight
  <2>. DEFINE f == calls[1].frame
              p == calls[1].arg
  <2>1. calls # <<>> /\ calls[1].op = "LockHighlight" /\ CallFits(calls[1], Made)
    BY <1>19, FirstCall DEF StackOK, LockHighlight, Running
  <2>2. f \in Made /\ Made' = Made
    BY <1>19, <2>1, LockHighlightSound DEF CallFits
  <2>3. queue' = queue /\ TopStays /\ QuirksGrow
    BY <1>19 DEF LockHighlight, TopStays, QuirksGrow, drawn, histories
  <2>4. ServeSame
    <3>1. \/ frame' = frame
          \/ frame' = [frame EXCEPT ![f].locked = p, ![f].highlight = p \/ top.mouseFocus = f]
      BY <1>19 DEF LockHighlight
    <3>. QED  BY <2>2, <3>1, ServeFlags
  <2>. QED  BY <2>2, <2>3, <2>4
<1>20. CASE SetBeingScrolled
  BY <1>20 DEF SetBeingScrolled, ServeSame, TopStays, QuirksGrow, drawn, Made
<1>21. CASE ScrollChildren
  BY <1>21 DEF ScrollChildren, ServeSame, TopStays, QuirksGrow, drawn, histories, Made
<1>. QED  BY <1>1, <1>2, <1>3, <1>4, <1>5, <1>6, <1>7, <1>8, <1>9, <1>10, <1>11, <1>12, <1>13, <1>14, <1>15, <1>16, <1>17, <1>18, <1>19,
         <1>20, <1>21 DEF Aside

\* A frame is taken from the queues of E, and with it from the focus and the
\* captures.
LEMMA DroppedServed ==
    ASSUME FramesTypeOK, QueuesServe, FocusKept, NEW f \in Made, NEW E,
           Queued(f, "mouse") => "mouse" \in E,
           queue' = Unqueue(f, E), top' = Forget(f, E)
    PROVE  /\ \A e \in Events : Neat(queue'[e])
           /\ \A e \in Events : \A x : x \in Members(queue'[e]) <=>
                x \in Members(queue[e]) /\ (e \notin E \/ x.frame # f)
           /\ \A e \in Events : \A g : Queued(g, e)' <=> Queued(g, e) /\ (e \notin E \/ g # f)
           /\ FocusKept'
<1>1. \A e \in Events : Neat(queue[e])
  BY DEF QueuesServe
<1>2. \A e \in Events : Neat(queue'[e])
  BY <1>1, UnqueuedQueues
<1>3. \A e \in Events : \A x : x \in Members(queue'[e]) <=>
            x \in Members(queue[e]) /\ (e \notin E \/ x.frame # f)
  BY <1>1, UnqueuedQueues
<1>4. \A e \in Events : \A g : Queued(g, e)' <=> Queued(g, e) /\ (e \notin E \/ g # f)
  <2>1. \A g, e : Queued(g, e)' <=> \E x \in Members(queue'[e]) : x.frame = g
    BY DEF Queued, Members
  <2>2. \A g, e : Queued(g, e) <=> \E x \in Members(queue[e]) : x.frame = g
    BY QueuedEntries
  <2>. QED  BY <1>3, <2>1, <2>2
<1>5. /\ top'.mouseFocus = IF "mouse" \in E /\ Queued(f, "mouse") /\ top.mouseFocus = f
                           THEN Nil ELSE top.mouseFocus
      /\ top'.mouseCapture = IF "mouse" \in E /\ Queued(f, "mouse") /\ top.mouseCapture = f
                             THEN Nil ELSE top.mouseCapture
      /\ top'.hits = top.hits
  BY DEF Forget, FramesTypeOK, TopRecords
<1>6. ~ top'.checkFocus => ~ top.checkFocus /\ ~ ("mouse" \in E /\ Queued(f, "mouse") /\ top.mouseFocus = f)
  <2>1. PICK b \in BOOLEAN : b = (top.checkFocus \/ (("mouse" \in E /\ Queued(f, "mouse")) /\ top.mouseFocus = f))
    OBVIOUS
  <2>2. top'.checkFocus = b
    BY <2>1 DEF Forget, FramesTypeOK, TopRecords
  <2>. QED  BY <2>1, <2>2, Zenon
<1>7. "mouse" \in Events /\ queue["mouse"] \in Seq(QueueEntries)
  BY DEF Events, FramesTypeOK
<1>8. ASSUME ~ top'.checkFocus
      PROVE  FirstUnder(queue'["mouse"], top'.hits, top'.mouseFocus)
  <2>1. FirstUnder(queue["mouse"], top.hits, top.mouseFocus)
    BY <1>6, <1>8 DEF FocusKept
  <2>2. top'.mouseFocus = top.mouseFocus
    BY <1>5, <1>6, <1>8
  <2>3. CASE "mouse" \in E /\ Queued(f, "mouse")
    <3>1. PICK i \in 1..Len(queue["mouse"]) :
            queue["mouse"][i].frame = f /\ queue'["mouse"] = RemoveAt(queue["mouse"], i)
      BY <1>7, <2>3, UnqueueProperties
    <3>2. queue["mouse"][i].frame # top.mouseFocus
      BY <1>6, <1>8, <2>3, <3>1
    <3>3. FirstUnder(RemoveAt(queue["mouse"], i), top.hits, top.mouseFocus)
      BY <1>7, <2>1, <3>2, FirstStays
    <3>. QED  BY <1>5, <2>2, <3>1, <3>3
  <2>4. CASE ~ ("mouse" \in E /\ Queued(f, "mouse"))
    <3>1. queue'["mouse"] = queue["mouse"]
      BY <1>7, <2>4, UnqueueProperties
    <3>. QED  BY <1>5, <2>1, <2>2, <3>1
  <2>. QED  BY <2>3, <2>4
<1>9. (top.mouseFocus # Nil => Queued(top.mouseFocus, "mouse"))'
  <2>. SUFFICES ASSUME top'.mouseFocus # Nil
                PROVE  Queued(top.mouseFocus, "mouse")'
    OBVIOUS
  <2>1. PICK n : n = top'.mouseFocus
    OBVIOUS
  <2>2. n = top.mouseFocus /\ Queued(n, "mouse")
    BY <1>5, <2>1 DEF FocusKept
  <2>3. n # f
    BY <1>5, <2>1, <2>2
  <2>4. Queued(n, "mouse")'
    BY <1>4, <1>7, <2>2, <2>3
  <2>. QED  BY <2>1, <2>4 DEF Queued
<1>10. (top.mouseCapture # Nil => Queued(top.mouseCapture, "mouse"))'
  <2>. SUFFICES ASSUME top'.mouseCapture # Nil
                PROVE  Queued(top.mouseCapture, "mouse")'
    OBVIOUS
  <2>1. PICK n : n = top'.mouseCapture
    OBVIOUS
  <2>2. n = top.mouseCapture /\ Queued(n, "mouse")
    BY <1>5, <2>1 DEF FocusKept
  <2>3. n # f
    BY <1>5, <2>1, <2>2
  <2>4. Queued(n, "mouse")'
    BY <1>4, <1>7, <2>2, <2>3
  <2>. QED  BY <2>1, <2>4 DEF Queued
<1>11. FocusKept'
  BY <1>8, <1>9, <1>10 DEF FocusKept
<1>. QED  BY <1>2, <1>3, <1>4, <1>11

LEMMA EntriesMade ==
    ASSUME FramesTypeOK
    PROVE  \A e \in Events : \A x \in Members(queue[e]) : x.frame \in Made
<1>1. \A e \in Events : queue[e] \in Seq(QueueEntries)
  BY DEF FramesTypeOK
<1>2. \A e \in Events : \A i \in DOMAIN queue[e] : queue[e][i] \in QueueEntries
  BY <1>1, ElementOfSeq, LenProperties
<1>. QED  BY <1>2 DEF Members, QueueEntries

LEMMA HideThisServed ==
    ASSUME FramesAssumption, FramesTypeOK, StackOK, Served, HideThis
    PROVE  Served'
<1>. DEFINE f == calls[1].frame
            E == frame[f].eventmask
<1>1. calls # <<>> /\ calls[1].op = "HideThis" /\ CallFits(calls[1], Made)
      /\ Members(calls) = {calls[1]} \cup Behind
  BY FirstCall DEF StackOK, HideThis, Running, Behind
<1>2. f \in Made /\ Made' = Made
  BY <1>1, HideThisSound DEF CallFits
<1>3. \A q : q # "unlisted" => (q \in quirks' <=> q \in quirks)
  BY DEF HideThis
<1>4. CASE ~ frame[f].visible
  <2>1. Members(calls') = Behind
    BY <1>4, HideThisSound
  <2>2. WaitingSame
    BY <1>1, <2>1 DEF WaitingSame
  <2>3. frame' = frame /\ queue' = queue /\ top' = top
    BY <1>4 DEF HideThis
  <2>4. ServeSame /\ TopStays
    BY <2>3, <1>2 DEF ServeSame, TopStays
  <2>5. QuirksGrow
    BY DEF HideThis, QuirksGrow
  <2>. QED  BY <1>2, <2>2, <2>3, <2>4, <2>5, ServedStays
<1>5. CASE frame[f].visible
  <2>. SUFFICES ASSUME "requeued" \notin quirks'
                PROVE  QueuesServe' /\ FocusKept' /\ KeysKept'
    BY DEF Served
  <2>1. QueuesServe /\ FocusKept /\ KeysKept
    BY <1>3 DEF Served
  <2>2. frame' = [frame EXCEPT ![f].visible = FALSE] /\ queue' = Unqueue(f, E) /\ top' = Forget(f, E)
    BY <1>5 DEF HideThis
  <2>3. WaitingSame
    <3>1. Members(calls') = {Call("RemoveFrame", f, 0)} \cup LeaveCalls(f, E) \cup Behind
      BY <1>5, HideThisSound
    <3>. QED  BY <1>1, <3>1 DEF WaitingSame, LeaveCalls, Call
  <2>4. \A g : /\ Stacked("Disabled", g)' <=> Stacked("Disabled", g)
               /\ Stacked("KeyEaten", g)' <=> Stacked("KeyEaten", g)
    BY <2>3 DEF WaitingSame, Stacked
  <2>5. \A e \in Events : \A x \in Members(queue[e]) : x.frame = f => e \in E
    BY <2>1 DEF QueuesServe
  <2>6. \A e \in Events : Queued(f, e) => e \in E
    BY <2>5, QueuedEntries
  <2>7. "mouse" \in Events /\ "key" \in Events
    BY DEF Events
  <2>8. /\ \A e \in Events : Neat(queue'[e])
        /\ \A e \in Events : \A x : x \in Members(queue'[e]) <=>
            x \in Members(queue[e]) /\ (e \notin E \/ x.frame # f)
        /\ \A e \in Events : \A g : Queued(g, e)' <=> Queued(g, e) /\ (e \notin E \/ g # f)
        /\ FocusKept'
    <3>1. Queued(f, "mouse") => "mouse" \in E
      BY <2>6, <2>7
    <3>. HIDE DEF E, f
    <3>. QED  BY <1>2, <2>1, <2>2, <3>1, DroppedServed
  <2>9. \A g \in Made : /\ g # f => frame'[g] = frame[g]
                        /\ ~ frame'[f].visible
                        /\ frame'[g].eventmask = frame[g].eventmask
                        /\ frame'[g].level = frame[g].level
    BY <1>2, <2>2 DEF FramesTypeOK, FrameRecords
  <2>10. \A e \in Events : \A x \in Members(queue'[e]) :
            x \in Members(queue[e]) /\ x.frame \in Made /\ x.frame # f
    BY <2>5, <2>8, EntriesMade
  <2>. HIDE DEF f, E
  <2>11. QueuesServe'
    <3>1. (\A e \in Events : \A x \in Members(queue[e]) :
            /\ frame[x.frame].visible /\ e \in frame[x.frame].eventmask
            /\ x.priority = frame[x.frame].level)'
      BY <2>1, <2>9, <2>10 DEF QueuesServe
    <3>2. (\A e \in Events : \A g \in Made : frame[g].visible /\ e \in frame[g].eventmask =>
            Queued(g, e) \/ (e = "mouse" /\ Stacked("Disabled", g)))'
      BY <1>2, <2>1, <2>4, <2>8, <2>9 DEF QueuesServe
    <3>3. (\A g \in Made : Stacked("Disabled", g) => ~ Queued(g, "mouse"))'
      BY <1>2, <2>1, <2>4, <2>7, <2>8 DEF QueuesServe
    <3>4. (\A e \in Events : Neat(queue[e]))'
      BY <2>8
    <3>. QED  BY <3>1, <3>2, <3>3, <3>4 DEF QueuesServe
  <2>12. KeysKept'
    <3>1. ASSUME NEW k, k = top'.keydownCapture, k # Nil
          PROVE  "key" \in frame'[k].eventmask /\ (frame'[k].visible \/ "escaped" \in quirks')
      <4>1. top'.keydownCapture = IF ("key" \in E /\ Queued(f, "key")) /\ top.keydownCapture = f
                                  THEN Nil ELSE top.keydownCapture
        BY <2>2 DEF Forget, FramesTypeOK, TopRecords
      <4>2. k = top.keydownCapture /\ k \in Made
        BY <3>1, <4>1 DEF FramesTypeOK, TopRecords
      <4>3. "key" \in frame[k].eventmask /\ (frame[k].visible \/ "escaped" \in quirks)
        BY <2>1, <3>1, <4>2 DEF KeysKept
      <4>4. k # f
        <5>1. ASSUME k = f
              PROVE  FALSE
          <6>1. Queued(f, "key")
            BY <1>2, <1>5, <2>1, <2>7, <4>3, <5>1 DEF QueuesServe, f
          <6>. QED  BY <3>1, <4>1, <4>2, <4>3, <5>1, <6>1 DEF E
        <5>. QED  BY <5>1
      <4>. QED  BY <1>3, <2>9, <4>2, <4>3, <4>4
    <3>2. (\A g \in Made : Stacked("KeyEaten", g) => "key" \in frame[g].eventmask)'
      BY <1>2, <2>1, <2>4, <2>9 DEF KeysKept
    <3>. QED  BY <3>1, <3>2 DEF KeysKept
  <2>. QED  BY <2>8, <2>11, <2>12
<1>. QED  BY <1>4, <1>5

LEMMA PendingStacked ==
    ASSUME NEW op, NEW f
    PROVE  Pending(op, f) <=> Stacked(op, f)
BY DEF Pending, Stacked, Members

LEMMA DisableEventServed ==
    ASSUME FramesAssumption, FramesTypeOK, StackOK, Served, DisableEvent
    PROVE  Served'
<1>. DEFINE f == calls[1].frame
            E == {"mouse"}
<1>1. calls # <<>> /\ calls[1].op = "DisableEvent" /\ CallFits(calls[1], Made)
      /\ Members(calls) = {calls[1]} \cup Behind
  BY FirstCall DEF StackOK, DisableEvent, Running, Behind
<1>2. f \in Made /\ Made' = Made
  BY <1>1, DisableEventSound DEF CallFits
<1>3. quirks' = quirks /\ frame' = frame
  BY DEF DisableEvent, histories
<1>4. CASE "mouse" \notin frame[f].eventmask
  <2>1. Members(calls') = Behind
    BY <1>4, DisableEventSound
  <2>2. WaitingSame
    BY <1>1, <2>1 DEF WaitingSame
  <2>3. queue' = queue /\ top' = top
    BY <1>4 DEF DisableEvent
  <2>. QED  BY <1>2, <1>3, <2>2, <2>3, ServedStays DEF ServeSame, TopStays, QuirksGrow
<1>5. CASE "mouse" \in frame[f].eventmask
  <2>. SUFFICES ASSUME "requeued" \notin quirks'
                PROVE  QueuesServe' /\ FocusKept' /\ KeysKept'
    BY DEF Served
  <2>1. QueuesServe /\ FocusKept /\ KeysKept
    BY <1>3 DEF Served
  <2>2. Members(calls') = {Call("Disabled", f, 0)}
            \cup (IF frame[f].visible THEN LeaveCalls(f, E) ELSE {}) \cup Behind
    BY <1>5, DisableEventSound
  <2>3. \A g : /\ Stacked("Disabled", g)' <=> Stacked("Disabled", g) \/ g = f
               /\ Stacked("KeyEaten", g)' <=> Stacked("KeyEaten", g)
    <3>1. \A c : c.op \in {"Disabled", "KeyEaten"} =>
            (c \in Members(calls') <=> c \in Members(calls) \/ c = Call("Disabled", f, 0))
      BY <1>1, <2>2 DEF LeaveCalls, Call
    <3>2. Call("Disabled", f, 0).op = "Disabled" /\ Call("Disabled", f, 0).frame = f
      BY DEF Call
    <3>. QED  BY <3>1, <3>2 DEF Stacked
  <2>4. "mouse" \in Events /\ "key" \in Events
    BY DEF Events
  <2>5. /\ \A e \in Events : Neat(queue'[e])
        /\ \A e \in Events : \A x \in Members(queue'[e]) : x \in Members(queue[e])
        /\ \A e \in Events : \A g : Queued(g, e)' <=> Queued(g, e) /\ ~ (e = "mouse" /\ g = f)
        /\ FocusKept'
    <3>1. CASE frame[f].visible
      <4>1. queue' = Unqueue(f, E) /\ top' = Forget(f, E)
        BY <1>5, <3>1 DEF DisableEvent
      <4>2. Queued(f, "mouse") => "mouse" \in E
        OBVIOUS
      <4>3. \A e : e \in E <=> e = "mouse"
        OBVIOUS
      <4>. HIDE DEF E, f
      <4>4. /\ \A e \in Events : Neat(queue'[e])
            /\ \A e \in Events : \A x : x \in Members(queue'[e]) <=>
                x \in Members(queue[e]) /\ (e \notin E \/ x.frame # f)
            /\ \A e \in Events : \A g : Queued(g, e)' <=> Queued(g, e) /\ (e \notin E \/ g # f)
            /\ FocusKept'
        BY <1>2, <2>1, <4>1, <4>2, DroppedServed
      <4>. QED  BY <4>3, <4>4
    <3>2. CASE ~ frame[f].visible
      <4>1. queue' = queue /\ top' = top
        BY <1>5, <3>2 DEF DisableEvent
      <4>2. ~ Queued(f, "mouse")
        <5>1. \A x \in Members(queue["mouse"]) : x.frame # f
          BY <2>1, <2>4, <3>2 DEF QueuesServe
        <5>. QED  BY <5>1, QueuedEntries
      <4>3. \A g, e : Queued(g, e)' <=> Queued(g, e)
        BY <4>1 DEF Queued
      <4>4. FocusKept'
        BY <2>1, <4>1, <4>3 DEF FocusKept
      <4>. QED  BY <2>1, <4>1, <4>2, <4>3, <4>4 DEF QueuesServe
    <3>. QED  BY <3>1, <3>2
  <2>. HIDE DEF f, E
  <2>6. QueuesServe'
    <3>1. (\A e \in Events : \A x \in Members(queue[e]) :
            /\ frame[x.frame].visible /\ e \in frame[x.frame].eventmask
            /\ x.priority = frame[x.frame].level)'
      BY <1>3, <2>1, <2>5 DEF QueuesServe
    <3>2. (\A e \in Events : \A g \in Made : frame[g].visible /\ e \in frame[g].eventmask =>
            Queued(g, e) \/ (e = "mouse" /\ Stacked("Disabled", g)))'
      BY <1>2, <1>3, <2>1, <2>3, <2>5 DEF QueuesServe
    <3>3. (\A g \in Made : Stacked("Disabled", g) => ~ Queued(g, "mouse"))'
      BY <1>2, <2>1, <2>3, <2>4, <2>5 DEF QueuesServe
    <3>4. (\A e \in Events : Neat(queue[e]))'
      BY <2>5
    <3>. QED  BY <3>1, <3>2, <3>3, <3>4 DEF QueuesServe
  <2>7. top'.keydownCapture \in {top.keydownCapture, Nil}
    <3>1. CASE frame[f].visible
      <4>1. top' = Forget(f, E)
        BY <1>5, <3>1 DEF DisableEvent, f, E
      <4>. QED  BY <4>1 DEF Forget, FramesTypeOK, TopRecords
    <3>2. CASE ~ frame[f].visible
      BY <1>5, <3>2 DEF DisableEvent, f
    <3>. QED  BY <3>1, <3>2
  <2>8. KeysKept'
    BY <1>2, <1>3, <2>1, <2>3, <2>7 DEF KeysKept
  <2>. QED  BY <2>5, <2>6, <2>8
<1>. QED  BY <1>4, <1>5

LEMMA DisabledServed ==
    ASSUME FramesAssumption, FramesTypeOK, StackOK, Served, Disabled
    PROVE  Served'
<1>. DEFINE f == calls[1].frame
<1>1. calls # <<>> /\ calls[1].op = "Disabled" /\ CallFits(calls[1], Made)
      /\ Members(calls) = {calls[1]} \cup Behind
  BY FirstCall DEF StackOK, Disabled, Running, Behind
<1>2. f \in Made /\ Made' = Made /\ Members(calls') = Behind
  BY <1>1, DisabledSound DEF CallFits
<1>3. quirks' = quirks /\ queue' = queue /\ top' = top
  BY DEF Disabled, histories, drawn
<1>4. frame' = [frame EXCEPT ![f].eventmask = frame[f].eventmask \ {"mouse"}]
  BY DEF Disabled
<1>5. \A g \in Made : /\ g # f => frame'[g].eventmask = frame[g].eventmask
                      /\ frame'[f].eventmask = frame[f].eventmask \ {"mouse"}
                      /\ frame'[g].level = frame[g].level
                      /\ frame'[g].visible = frame[g].visible
  BY <1>2, <1>4 DEF FramesTypeOK, FrameRecords
<1>6. \A g \in Made : frame'[g].visible <=> frame[g].visible
  BY <1>5, Zenon
<1>. SUFFICES ASSUME "requeued" \notin quirks'
              PROVE  QueuesServe' /\ FocusKept' /\ KeysKept'
  BY DEF Served
<1>7. QueuesServe /\ FocusKept /\ KeysKept
  BY <1>3 DEF Served
<1>8. \A g : /\ Stacked("Disabled", g)' => Stacked("Disabled", g)
             /\ Stacked("Disabled", g) => Stacked("Disabled", g)' \/ g = f
             /\ Stacked("KeyEaten", g)' => Stacked("KeyEaten", g)
  BY <1>1, <1>2 DEF Stacked
<1>9. \A g, e : Queued(g, e)' <=> Queued(g, e)
  BY <1>3 DEF Queued
<1>10. ~ Queued(f, "mouse")
  BY <1>1, <1>2, <1>7 DEF Stacked, QueuesServe
<1>11. \A x \in Members(queue["mouse"]) : x.frame # f
  BY <1>10, QueuedEntries
<1>. HIDE DEF f
<1>12. QueuesServe'
  <2>1. (\A e \in Events : \A x \in Members(queue[e]) :
            /\ frame[x.frame].visible /\ e \in frame[x.frame].eventmask
            /\ x.priority = frame[x.frame].level)'
    <3>. SUFFICES ASSUME NEW e \in Events, NEW x \in Members(queue[e])
                  PROVE  /\ frame'[x.frame].visible /\ e \in frame'[x.frame].eventmask
                         /\ x.priority = frame'[x.frame].level
      BY <1>3
    <3>1. /\ frame[x.frame].visible /\ e \in frame[x.frame].eventmask
          /\ x.priority = frame[x.frame].level
      BY <1>7 DEF QueuesServe
    <3>2. x.frame \in Made
      BY EntriesMade
    <3>3. e \in frame'[x.frame].eventmask
      BY <1>5, <1>11, <3>1, <3>2
    <3>. QED  BY <1>5, <1>6, <3>1, <3>2, <3>3
  <2>2. (\A e \in Events : \A g \in Made : frame[g].visible /\ e \in frame[g].eventmask =>
            Queued(g, e) \/ (e = "mouse" /\ Stacked("Disabled", g)))'
    BY <1>2, <1>5, <1>6, <1>7, <1>8, <1>9 DEF QueuesServe
  <2>3. (\A g \in Made : Stacked("Disabled", g) => ~ Queued(g, "mouse"))'
    BY <1>2, <1>7, <1>8, <1>9 DEF QueuesServe
  <2>4. (\A e \in Events : Neat(queue[e]))'
    BY <1>3, <1>7 DEF QueuesServe
  <2>. QED  BY <2>1, <2>2, <2>3, <2>4 DEF QueuesServe
<1>13. FocusKept'
  BY <1>3, <1>7, <1>9 DEF FocusKept
<1>14. KeysKept'
  <2>1. top.keydownCapture \in Made \cup {Nil}
    BY DEF FramesTypeOK, TopRecords
  <2>2. \A g \in Made : "key" \in frame[g].eventmask => "key" \in frame'[g].eventmask
    BY <1>2, <1>5
  <2>3. (top.keydownCapture # Nil =>
            /\ "key" \in frame[top.keydownCapture].eventmask
            /\ frame[top.keydownCapture].visible \/ "escaped" \in quirks)'
    BY <1>3, <1>6, <1>7, <2>1, <2>2 DEF KeysKept
  <2>4. (\A g \in Made : Stacked("KeyEaten", g) => "key" \in frame[g].eventmask)'
    BY <1>2, <1>7, <1>8, <2>2 DEF KeysKept
  <2>. QED  BY <2>3, <2>4 DEF KeysKept
<1>. QED  BY <1>12, <1>13, <1>14

\* A frame is put into the queues of E, in which it is not.
LEMMA AddedServed ==
    ASSUME FramesAssumption, FramesTypeOK, NEW q \in [Events -> Seq(QueueEntries)],
           NEW f \in Made, NEW l \in Levels, NEW E, queue' \in Registered(q, f, E, l),
           \A e \in Events : Neat(q[e]),
           \A e \in E \cap Events : \A x \in Members(q[e]) : x.frame # f
    PROVE  /\ \A e \in Events : Neat(queue'[e])
           /\ \A e \in Events : \A x : x \in Members(queue'[e]) <=>
                x \in Members(q[e]) \/ (e \in E /\ x = [frame |-> f, priority |-> l])
           /\ \A e \in Events : \A g :
                Queued(g, e)' <=> (\E x \in Members(q[e]) : x.frame = g) \/ (e \in E /\ g = f)
           /\ \A e \in Events \ E : queue'[e] = q[e]
<1>. DEFINE entry == [frame |-> f, priority |-> l]
<1>0. PICK r \in Registered(q, f, E, l) : r = queue'
  OBVIOUS
<1>1. \A e \in Events :
        /\ Neat(r[e])
        /\ \A x : x \in Members(r[e]) <=> x \in Members(q[e]) \/ (e \in E /\ x = entry)
  BY RegisteredQueues, RegisteredNeat
<1>2. \A e \in Events : \A x : x \in Members(queue'[e]) <=>
            x \in Members(q[e]) \/ (e \in E /\ x = entry)
  BY <1>0, <1>1
<1>3. entry.frame = f
  OBVIOUS
<1>. HIDE DEF entry
<1>4. \A g, e : Queued(g, e)' <=> \E x \in Members(queue'[e]) : x.frame = g
  BY DEF Queued, Members
<1>5. \A e \in Events : \A g :
            Queued(g, e)' <=> (\E x \in Members(q[e]) : x.frame = g) \/ (e \in E /\ g = f)
  BY <1>2, <1>3, <1>4
<1>6. \A e \in Events \ E : queue'[e] = q[e]
  <2>1. ASSUME NEW e \in Events, e \notin E
        PROVE  r[e] = q[e]
    <3>1. IF e \in E THEN r[e] \in Insertions(q[e], entry) ELSE r[e] = q[e]
      BY RegisteredProperties DEF entry
    <3>. QED  BY <2>1, <3>1
  <2>. QED  BY <1>0, <2>1
<1>7. \A e \in Events : Neat(queue'[e])
  BY <1>0, <1>1
<1>. QED  BY <1>2, <1>5, <1>6, <1>7 DEF entry

LEMMA ShowThisServed ==
    ASSUME FramesAssumption, FramesTypeOK, StackOK, Served, ShowThis
    PROVE  Served'
<1>. DEFINE f == calls[1].frame
            E == frame[f].eventmask
            l == frame[f].level
<1>1. calls # <<>> /\ calls[1].op = "ShowThis" /\ CallFits(calls[1], Made)
      /\ Members(calls) = {calls[1]} \cup Behind
  BY FirstCall DEF StackOK, ShowThis, Running, Behind
<1>2. f \in Made /\ Made' = Made
  BY <1>1, ShowThisSound DEF CallFits
<1>3. WaitingSame
  <2>1. Members(calls') = (IF MayShow(f) THEN {Call("ShowChildren", f, 1)} ELSE {}) \cup Behind
    BY ShowThisSound
  <2>. QED  BY <1>1, <2>1 DEF WaitingSame, Call
<1>4. CASE ~ MayShow(f)
  <2>1. frame' = frame /\ queue' = queue /\ top' = top /\ quirks' = quirks
    BY <1>4 DEF ShowThis
  <2>. QED  BY <1>2, <1>3, <2>1, ServedStays DEF ServeSame, TopStays, QuirksGrow
<1>5. CASE MayShow(f)
  <2>. SUFFICES ASSUME "requeued" \notin quirks'
                PROVE  QueuesServe' /\ FocusKept' /\ KeysKept'
    BY DEF Served
  <2>1. /\ frame' = [frame EXCEPT ![f].visible = TRUE]
        /\ queue' \in Registered(queue, f, E, l)
        /\ top' = [top EXCEPT !.checkFocus = top.checkFocus \/ E # {}]
        /\ quirks \subseteq quirks' /\ ("requeued" \notin quirks' => ~ Pending("Disabled", f))
    BY <1>5 DEF ShowThis
  <2>2. QueuesServe /\ FocusKept /\ KeysKept /\ ~ Stacked("Disabled", f)
    BY <2>1, PendingStacked DEF Served
  <2>3. ~ frame[f].visible
    BY <1>5 DEF MayShow
  <2>4. \A e \in Events : Neat(queue[e]) /\ \A x \in Members(queue[e]) : x.frame # f
    BY <2>2, <2>3 DEF QueuesServe
  <2>5. queue \in [Events -> Seq(QueueEntries)] /\ l \in Levels /\ E \subseteq Events
    BY <1>2 DEF FramesTypeOK, FrameRecords
  <2>6. \A g \in Made : /\ g # f => frame'[g] = frame[g]
                        /\ frame'[g].eventmask = frame[g].eventmask
                        /\ frame'[g].level = frame[g].level
    BY <1>2, <2>1 DEF FramesTypeOK, FrameRecords
  <2>7. frame'[f].visible
    BY <1>2, <2>1 DEF FramesTypeOK
  <2>8. \A g : /\ Stacked("Disabled", g)' <=> Stacked("Disabled", g)
               /\ Stacked("KeyEaten", g)' <=> Stacked("KeyEaten", g)
    BY <1>3 DEF WaitingSame, Stacked
  <2>9. top'.checkFocus <=> top.checkFocus \/ E # {}
    <3>1. PICK b \in BOOLEAN : b = (top.checkFocus \/ E # {})
      OBVIOUS
    <3>2. top'.checkFocus = b
      BY <2>1, <3>1 DEF FramesTypeOK, TopRecords
    <3>. QED  BY <3>1, <3>2, Zenon
  <2>10. /\ top'.mouseFocus = top.mouseFocus /\ top'.mouseCapture = top.mouseCapture
         /\ top'.keydownCapture = top.keydownCapture /\ top'.hits = top.hits
    BY <2>1 DEF FramesTypeOK, TopRecords
  <2>. DEFINE entry == [frame |-> f, priority |-> l]
  <2>11. entry.frame = f /\ entry.priority = l
    OBVIOUS
  <2>. HIDE DEF f, l, E
  <2>12. /\ \A e \in Events : Neat(queue'[e])
         /\ \A e \in Events : \A x : x \in Members(queue'[e]) <=>
                x \in Members(queue[e]) \/ (e \in E /\ x = entry)
         /\ \A e \in Events : \A g :
                Queued(g, e)' <=> (\E x \in Members(queue[e]) : x.frame = g) \/ (e \in E /\ g = f)
         /\ \A e \in Events \ E : queue'[e] = queue[e]
    <3>1. \A e \in E \cap Events : \A x \in Members(queue[e]) : x.frame # f
      BY <2>4
    <3>2. queue' \in Registered(queue, f, E, l) /\ \A e \in Events : Neat(queue[e])
      BY <2>1, <2>4
    <3>. QED  BY <1>2, <2>5, <3>1, <3>2, AddedServed
  <2>. HIDE DEF entry
  <2>13. \A e \in Events : \A g : Queued(g, e)' <=> Queued(g, e) \/ (e \in E /\ g = f)
    BY <2>12, QueuedEntries
  <2>14. "mouse" \in Events /\ "key" \in Events
    BY DEF Events
  <2>15. QueuesServe'
    <3>1. (\A e \in Events : \A x \in Members(queue[e]) :
            /\ frame[x.frame].visible /\ e \in frame[x.frame].eventmask
            /\ x.priority = frame[x.frame].level)'
      <4>. SUFFICES ASSUME NEW e \in Events, NEW x \in Members(queue'[e])
                    PROVE  /\ frame'[x.frame].visible /\ e \in frame'[x.frame].eventmask
                           /\ x.priority = frame'[x.frame].level
        OBVIOUS
      <4>1. CASE x \in Members(queue[e])
        <5>1. x.frame \in Made /\ x.frame # f
          BY <2>4, <4>1, EntriesMade
        <5>. QED  BY <2>2, <2>6, <4>1, <5>1 DEF QueuesServe
      <4>2. CASE e \in E /\ x = entry
        BY <1>2, <2>6, <2>7, <2>11, <4>2 DEF E, l
      <4>. QED  BY <2>12, <4>1, <4>2
    <3>2. (\A e \in Events : \A g \in Made : frame[g].visible /\ e \in frame[g].eventmask =>
            Queued(g, e) \/ (e = "mouse" /\ Stacked("Disabled", g)))'
      BY <1>2, <2>2, <2>6, <2>8, <2>13 DEF QueuesServe, E
    <3>3. (\A g \in Made : Stacked("Disabled", g) => ~ Queued(g, "mouse"))'
      BY <1>2, <2>2, <2>8, <2>13, <2>14 DEF QueuesServe
    <3>4. (\A e \in Events : Neat(queue[e]))'
      BY <2>12
    <3>. QED  BY <3>1, <3>2, <3>3, <3>4 DEF QueuesServe
  <2>16. FocusKept'
    <3>1. (top.mouseFocus # Nil => Queued(top.mouseFocus, "mouse"))'
      <4>1. PICK n : n = top.mouseFocus
        OBVIOUS
      <4>2. n # Nil => Queued(n, "mouse")'
        BY <2>2, <2>13, <2>14, <4>1 DEF FocusKept
      <4>. QED  BY <2>10, <4>1, <4>2 DEF Queued
    <3>2. (top.mouseCapture # Nil => Queued(top.mouseCapture, "mouse"))'
      <4>1. PICK n : n = top.mouseCapture
        OBVIOUS
      <4>2. n # Nil => Queued(n, "mouse")'
        BY <2>2, <2>13, <2>14, <4>1 DEF FocusKept
      <4>. QED  BY <2>10, <4>1, <4>2 DEF Queued
    <3>3. (~ top.checkFocus => FirstUnder(queue["mouse"], top.hits, top.mouseFocus))'
      <4>1. ~ top'.checkFocus => queue'["mouse"] = queue["mouse"]
        BY <2>9, <2>12, <2>14
      <4>. QED  BY <2>2, <2>9, <2>10, <4>1 DEF FocusKept
    <3>. QED  BY <3>1, <3>2, <3>3 DEF FocusKept
  <2>17. KeysKept'
    <3>1. top.keydownCapture \in Made \cup {Nil}
      BY DEF FramesTypeOK, TopRecords
    <3>2. \A g \in Made : frame[g].visible => frame'[g].visible
      BY <2>6, <2>7
    <3>3. (top.keydownCapture # Nil =>
              /\ "key" \in frame[top.keydownCapture].eventmask
              /\ frame[top.keydownCapture].visible \/ "escaped" \in quirks)'
      BY <2>1, <2>2, <2>6, <2>10, <3>1, <3>2 DEF KeysKept
    <3>4. (\A g \in Made : Stacked("KeyEaten", g) => "key" \in frame[g].eventmask)'
      BY <1>2, <2>2, <2>6, <2>8 DEF KeysKept
    <3>. QED  BY <3>3, <3>4 DEF KeysKept
  <2>. QED  BY <2>15, <2>16, <2>17
<1>. QED  BY <1>4, <1>5

LEMMA EnableEventServed ==
    ASSUME FramesAssumption, FramesTypeOK, StackOK, Served, EnableEvent
    PROVE  Served'
<1>. DEFINE f == calls[1].frame
            E == {"mouse"}
            l == frame[f].level
            new == "mouse" \notin frame[f].eventmask /\ frame[f].visible
<1>1. calls # <<>> /\ calls[1].op = "EnableEvent" /\ CallFits(calls[1], Made)
      /\ Members(calls) = {calls[1]} \cup Behind
  BY FirstCall DEF StackOK, EnableEvent, Running, Behind
<1>2. f \in Made /\ Made' = Made /\ Members(calls') = Behind
  BY <1>1, EnableEventSound DEF CallFits
<1>3. WaitingSame
  BY <1>1, <1>2 DEF WaitingSame
<1>. SUFFICES ASSUME "requeued" \notin quirks'
              PROVE  QueuesServe' /\ FocusKept' /\ KeysKept'
  BY DEF Served
<1>4. /\ frame' = [frame EXCEPT ![f].eventmask = frame[f].eventmask \cup {"mouse"}]
      /\ quirks \subseteq quirks' /\ ("requeued" \notin quirks' => ~ Pending("Disabled", f))
      /\ new => /\ queue' \in Registered(queue, f, E, l)
                /\ top' = [top EXCEPT !.checkFocus = TRUE]
      /\ ~ new => queue' = queue /\ top' = top
  BY DEF EnableEvent
<1>5. QueuesServe /\ FocusKept /\ KeysKept /\ ~ Stacked("Disabled", f)
  BY <1>4, PendingStacked DEF Served
<1>6. \A g \in Made : /\ g # f => frame'[g] = frame[g]
                      /\ frame'[f].eventmask = frame[f].eventmask \cup {"mouse"}
                      /\ frame'[g].visible = frame[g].visible
                      /\ frame'[g].level = frame[g].level
  BY <1>2, <1>4 DEF FramesTypeOK, FrameRecords
<1>7. \A g \in Made : frame'[g].visible <=> frame[g].visible
  BY <1>6, Zenon
<1>8. \A g : /\ Stacked("Disabled", g)' <=> Stacked("Disabled", g)
             /\ Stacked("KeyEaten", g)' <=> Stacked("KeyEaten", g)
  BY <1>3 DEF WaitingSame, Stacked
<1>9. queue \in [Events -> Seq(QueueEntries)] /\ l \in Levels /\ "mouse" \in Events /\ "key" \in Events
  BY <1>2 DEF FramesTypeOK, FrameRecords, Events
<1>10. /\ top'.mouseFocus = top.mouseFocus /\ top'.mouseCapture = top.mouseCapture
       /\ top'.keydownCapture = top.keydownCapture /\ top'.hits = top.hits
       /\ ~ top'.checkFocus => ~ top.checkFocus /\ ~ new
  <2>1. CASE new
    <3>1. top' = [top EXCEPT !.checkFocus = TRUE]
      BY <1>4, <2>1
    <3>. QED  BY <3>1 DEF FramesTypeOK, TopRecords
  <2>2. CASE ~ new
    BY <1>4, <2>2
  <2>. QED  BY <2>1, <2>2
<1>. DEFINE entry == [frame |-> f, priority |-> l]
<1>11. entry.frame = f /\ entry.priority = l
  OBVIOUS
<1>12. "mouse" \notin frame[f].eventmask => \A x \in Members(queue["mouse"]) : x.frame # f
  BY <1>5, <1>9 DEF QueuesServe
<1>13. new => "mouse" \notin frame[f].eventmask /\ frame[f].visible
  OBVIOUS
<1>14. ~ new => "mouse" \in frame[f].eventmask \/ ~ frame[f].visible
  OBVIOUS
<1>. HIDE DEF f, l, new
<1>15. /\ \A e \in Events : Neat(queue'[e])
       /\ \A e \in Events : \A x : x \in Members(queue'[e]) <=>
            x \in Members(queue[e]) \/ (e = "mouse" /\ new /\ x = entry)
       /\ \A e \in Events : \A g : Queued(g, e)' <=> Queued(g, e) \/ (e = "mouse" /\ new /\ g = f)
  <2>1. CASE new
    <3>1. \A e \in E \cap Events : \A x \in Members(queue[e]) : x.frame # f
      BY <1>12, <1>13, <2>1
    <3>2. queue' \in Registered(queue, f, E, l) /\ \A e \in Events : Neat(queue[e])
      BY <1>4, <1>5, <2>1 DEF QueuesServe
    <3>3. \A e : e \in E <=> e = "mouse"
      OBVIOUS
    <3>. HIDE DEF E
    <3>4. /\ \A e \in Events : Neat(queue'[e])
          /\ \A e \in Events : \A x : x \in Members(queue'[e]) <=>
                x \in Members(queue[e]) \/ (e \in E /\ x = entry)
          /\ \A e \in Events : \A g :
                Queued(g, e)' <=> (\E x \in Members(queue[e]) : x.frame = g) \/ (e \in E /\ g = f)
          /\ \A e \in Events \ E : queue'[e] = queue[e]
      <4>1. queue \in [Events -> Seq(QueueEntries)] /\ f \in Made /\ l \in Levels
        BY <1>2, <1>9
      <4>2. queue' \in Registered(queue, f, E, l) /\ \A e \in Events : Neat(queue[e])
        BY <3>2
      <4>3. PICK q, n : q = queue /\ n = l
        OBVIOUS
      <4>4. /\ queue' \in Registered(q, f, E, n) /\ entry = [frame |-> f, priority |-> n]
            /\ q \in [Events -> Seq(QueueEntries)] /\ f \in Made /\ n \in Levels
            /\ \A e \in Events : Neat(q[e])
            /\ \A e \in E \cap Events : \A x \in Members(q[e]) : x.frame # f
        BY <3>1, <4>1, <4>2, <4>3
      <4>. HIDE DEF entry
      <4>5. /\ \A e \in Events : Neat(queue'[e])
            /\ \A e \in Events : \A x : x \in Members(queue'[e]) <=>
                  x \in Members(q[e]) \/ (e \in E /\ x = [frame |-> f, priority |-> n])
            /\ \A e \in Events : \A g :
                  Queued(g, e)' <=> (\E x \in Members(q[e]) : x.frame = g) \/ (e \in E /\ g = f)
            /\ \A e \in Events \ E : queue'[e] = q[e]
        BY <4>4, AddedServed
      <4>. QED  BY <4>3, <4>4, <4>5
    <3>. HIDE DEF entry
    <3>5. \A e \in Events : \A x : x \in Members(queue'[e]) <=>
                x \in Members(queue[e]) \/ (e = "mouse" /\ new /\ x = entry)
      <4>. SUFFICES ASSUME NEW e \in Events, NEW x
                    PROVE  x \in Members(queue'[e]) <=>
                               x \in Members(queue[e]) \/ (e = "mouse" /\ new /\ x = entry)
        OBVIOUS
      <4>1. x \in Members(queue'[e]) <=> x \in Members(queue[e]) \/ (e \in E /\ x = entry)
        BY <3>4
      <4>. QED  BY <2>1, <3>3, <4>1
    <3>6. \A g, e : Queued(g, e) <=> \E x \in Members(queue[e]) : x.frame = g
      BY QueuedEntries
    <3>7. \A e \in Events : \A g : Queued(g, e)' <=> Queued(g, e) \/ (e = "mouse" /\ new /\ g = f)
      BY <2>1, <3>3, <3>4, <3>6
    <3>. QED  BY <3>4, <3>5, <3>7
  <2>2. CASE ~ new
    <3>1. queue' = queue
      BY <1>4, <2>2
    <3>2. \A g, e : Queued(g, e)' <=> Queued(g, e)
      BY <3>1 DEF Queued
    <3>. QED  BY <1>5, <2>2, <3>1, <3>2 DEF QueuesServe
  <2>. QED  BY <2>1, <2>2
<1>. HIDE DEF entry
<1>16. QueuesServe'
  <2>1. (\A e \in Events : \A x \in Members(queue[e]) :
            /\ frame[x.frame].visible /\ e \in frame[x.frame].eventmask
            /\ x.priority = frame[x.frame].level)'
    <3>. SUFFICES ASSUME NEW e \in Events, NEW x \in Members(queue'[e])
                  PROVE  /\ frame'[x.frame].visible /\ e \in frame'[x.frame].eventmask
                         /\ x.priority = frame'[x.frame].level
      OBVIOUS
    <3>1. CASE x \in Members(queue[e])
      <4>1. x.frame \in Made
        BY <3>1, EntriesMade
      <4>2. /\ frame[x.frame].visible /\ e \in frame[x.frame].eventmask
            /\ x.priority = frame[x.frame].level
        BY <1>5, <3>1 DEF QueuesServe
      <4>. QED  BY <1>6, <1>7, <4>1, <4>2
    <3>2. CASE e = "mouse" /\ new /\ x = entry
      BY <1>2, <1>6, <1>7, <1>11, <1>13, <3>2 DEF l
    <3>. QED  BY <1>15, <3>1, <3>2
  <2>2. (\A e \in Events : \A g \in Made : frame[g].visible /\ e \in frame[g].eventmask =>
            Queued(g, e) \/ (e = "mouse" /\ Stacked("Disabled", g)))'
    <3>. SUFFICES ASSUME NEW e \in Events, NEW g \in Made, frame'[g].visible,
                         e \in frame'[g].eventmask
                  PROVE  Queued(g, e)' \/ (e = "mouse" /\ Stacked("Disabled", g)')
      BY <1>2
    <3>1. CASE e \in frame[g].eventmask
      BY <1>5, <1>7, <1>8, <1>15, <3>1 DEF QueuesServe
    <3>2. CASE e \notin frame[g].eventmask
      <4>1. g = f /\ e = "mouse"
        BY <1>6, <3>2
      <4>2. new
        BY <1>7, <1>14, <3>2, <4>1
      <4>. QED  BY <1>15, <4>1, <4>2
    <3>. QED  BY <3>1, <3>2
  <2>3. (\A g \in Made : Stacked("Disabled", g) => ~ Queued(g, "mouse"))'
    BY <1>2, <1>5, <1>8, <1>9, <1>15 DEF QueuesServe
  <2>4. (\A e \in Events : Neat(queue[e]))'
    BY <1>15
  <2>. QED  BY <2>1, <2>2, <2>3, <2>4 DEF QueuesServe
<1>17. FocusKept'
  <2>1. (top.mouseFocus # Nil => Queued(top.mouseFocus, "mouse"))'
    <3>1. PICK n : n = top.mouseFocus
      OBVIOUS
    <3>2. n # Nil => Queued(n, "mouse")'
      BY <1>5, <1>9, <1>15, <3>1 DEF FocusKept
    <3>. QED  BY <1>10, <3>1, <3>2 DEF Queued
  <2>2. (top.mouseCapture # Nil => Queued(top.mouseCapture, "mouse"))'
    <3>1. PICK n : n = top.mouseCapture
      OBVIOUS
    <3>2. n # Nil => Queued(n, "mouse")'
      BY <1>5, <1>9, <1>15, <3>1 DEF FocusKept
    <3>. QED  BY <1>10, <3>1, <3>2 DEF Queued
  <2>3. (~ top.checkFocus => FirstUnder(queue["mouse"], top.hits, top.mouseFocus))'
    BY <1>4, <1>5, <1>10 DEF FocusKept
  <2>. QED  BY <2>1, <2>2, <2>3 DEF FocusKept
<1>18. KeysKept'
  <2>1. top.keydownCapture \in Made \cup {Nil}
    BY DEF FramesTypeOK, TopRecords
  <2>2. \A g \in Made : "key" \in frame[g].eventmask => "key" \in frame'[g].eventmask
    BY <1>2, <1>6
  <2>3. (top.keydownCapture # Nil =>
            /\ "key" \in frame[top.keydownCapture].eventmask
            /\ frame[top.keydownCapture].visible \/ "escaped" \in quirks)'
    BY <1>4, <1>5, <1>7, <1>10, <2>1, <2>2 DEF KeysKept
  <2>4. (\A g \in Made : Stacked("KeyEaten", g) => "key" \in frame[g].eventmask)'
    BY <1>2, <1>5, <1>8, <2>2 DEF KeysKept
  <2>. QED  BY <2>3, <2>4 DEF KeysKept
<1>. QED  BY <1>16, <1>17, <1>18

LEMMA SetFrameLevelServed ==
    ASSUME FramesAssumption, FramesTypeOK, StackOK, Sound', Served, SetFrameLevel
    PROVE  Served'
<1>. DEFINE f == calls[1].frame
            E == frame[f].eventmask
            l == frame[f].level
            n == Clamped(l, calls[1].arg)
<1>1. calls # <<>> /\ calls[1].op = "SetFrameLevel" /\ CallFits(calls[1], Made)
      /\ Members(calls) = {calls[1]} \cup Behind
  BY FirstCall DEF StackOK, SetFrameLevel, Running, Behind
<1>2. /\ f \in Made /\ Made' = Made /\ l \in Levels /\ n \in Nat
      /\ n = l => Members(calls') = Behind
      /\ n # l /\ n <= MaxLevel =>
            n \in Levels /\ Members(calls') = {Call("ShiftChildren", f, <<1, n - l>>)} \cup Behind
  BY <1>1, SetFrameLevelSound DEF CallFits
<1>3. WaitingSame
  <2>1. MaxLevel \in Nat /\ ~ (n > MaxLevel)
    <3>1. n > MaxLevel => "overflow" \in quirks'
      BY SetFrameLevelSound
    <3>. QED  BY <3>1 DEF FramesAssumption, Sound
  <2>2. n <= MaxLevel
    BY <1>2, <2>1
  <2>3. Call("ShiftChildren", f, <<1, n - l>>).op = "ShiftChildren"
    BY DEF Call
  <2>4. \A c \in Members(calls') : c \in Behind \/ c.op = "ShiftChildren"
    BY <1>2, <2>2, <2>3
  <2>5. Behind \subseteq Members(calls')
    BY <1>2, <2>2
  <2>. HIDE DEF f, n, l
  <2>. QED  BY <1>1, <2>4, <2>5 DEF WaitingSame
<1>4. CASE n = l
  <2>1. frame' = frame /\ queue' = queue /\ top' = top /\ quirks' = quirks
    <3>1. ~ (n > MaxLevel)
      <4>1. n > MaxLevel => "overflow" \in quirks'
        BY SetFrameLevelSound
      <4>. QED  BY <4>1 DEF Sound
    <3>. QED  BY <1>4, <3>1 DEF SetFrameLevel, drawn
  <2>. QED  BY <1>2, <1>3, <2>1, ServedStays DEF ServeSame, TopStays, QuirksGrow
<1>5. CASE n # l
  <2>. SUFFICES ASSUME "requeued" \notin quirks'
                PROVE  QueuesServe' /\ FocusKept' /\ KeysKept'
    BY DEF Served
  <2>0. n \in Levels /\ n <= MaxLevel /\ ~ (n > MaxLevel)
    <3>1. n > MaxLevel => "overflow" \in quirks'
      BY SetFrameLevelSound
    <3>. QED  BY <1>2, <1>5, <3>1 DEF Sound, FramesAssumption
  <2>1. /\ frame' = [frame EXCEPT ![f].level = n] /\ quirks \subseteq quirks'
        /\ frame[f].visible =>
            /\ queue' \in Registered(Unqueue(f, E), f, E, n)
            /\ top' = [top EXCEPT !.checkFocus = top.checkFocus \/ "mouse" \in E]
            /\ "requeued" \notin quirks' => ~ Pending("Disabled", f)
        /\ ~ frame[f].visible => queue' = queue /\ top' = top
    BY <1>5, <2>0 DEF SetFrameLevel, drawn
  <2>2. QueuesServe /\ FocusKept /\ KeysKept
    BY <2>1 DEF Served
  <2>3. \A g \in Made : /\ g # f => frame'[g] = frame[g]
                        /\ frame'[f].level = n
                        /\ frame'[g].visible = frame[g].visible
                        /\ frame'[g].eventmask = frame[g].eventmask
    BY <1>2, <2>0, <2>1 DEF FramesTypeOK, FrameRecords
  <2>4. \A g \in Made : frame'[g].visible <=> frame[g].visible
    BY <2>3, Zenon
  <2>5. \A g : /\ Stacked("Disabled", g)' <=> Stacked("Disabled", g)
               /\ Stacked("KeyEaten", g)' <=> Stacked("KeyEaten", g)
    BY <1>3 DEF WaitingSame, Stacked
  <2>6. "mouse" \in Events /\ "key" \in Events /\ E \subseteq Events
    BY <1>2 DEF FramesTypeOK, FrameRecords, Events
  <2>7. \A e \in Events : \A x \in Members(queue[e]) : x.frame = f => e \in E /\ frame[f].visible
    BY <2>2 DEF QueuesServe
  <2>8. \A e \in Events : e \in E /\ frame[f].visible /\ ~ Stacked("Disabled", f) => Queued(f, e)
    BY <1>2, <2>2 DEF QueuesServe
  <2>9. /\ top'.mouseFocus = top.mouseFocus /\ top'.mouseCapture = top.mouseCapture
        /\ top'.keydownCapture = top.keydownCapture /\ top'.hits = top.hits
        /\ ~ top'.checkFocus => ~ top.checkFocus /\ (frame[f].visible => "mouse" \notin E)
    <3>1. CASE frame[f].visible
      <4>1. PICK b \in BOOLEAN : b = (top.checkFocus \/ "mouse" \in E)
        OBVIOUS
      <4>2. top' = [top EXCEPT !.checkFocus = b]
        BY <2>1, <3>1, <4>1
      <4>3. /\ top'.mouseFocus = top.mouseFocus /\ top'.mouseCapture = top.mouseCapture
            /\ top'.keydownCapture = top.keydownCapture /\ top'.hits = top.hits
            /\ top'.checkFocus = b
        BY <4>2 DEF FramesTypeOK, TopRecords
      <4>4. top'.checkFocus <=> b
        BY <4>3, Zenon
      <4>. QED  BY <4>1, <4>3, <4>4
    <3>2. CASE ~ frame[f].visible
      BY <2>1, <3>2
    <3>. QED  BY <3>1, <3>2
  <2>. DEFINE entry == [frame |-> f, priority |-> n]
  <2>10. entry.frame = f /\ entry.priority = n
    OBVIOUS
  <2>. HIDE DEF f, l, E, n
  <2>11. /\ \A e \in Events : Neat(queue'[e])
         /\ \A e \in Events : \A x : x \in Members(queue'[e]) <=>
                (x \in Members(queue[e]) /\ x.frame # f) \/ (e \in E /\ frame[f].visible /\ x = entry)
         /\ \A e \in Events : \A g : Queued(g, e)' <=> Queued(g, e)
         /\ ~ (frame[f].visible /\ "mouse" \in E) => queue'["mouse"] = queue["mouse"]
    <3>1. CASE frame[f].visible
      <4>. DEFINE q == Unqueue(f, E)
      <4>1. /\ q \in [Events -> Seq(QueueEntries)]
            /\ \A e \in Events :
                /\ Neat(q[e])
                /\ \A x : x \in Members(q[e]) <=> x \in Members(queue[e]) /\ (e \notin E \/ x.frame # f)
        <5>1. \A e \in Events : Neat(queue[e])
          BY <2>2 DEF QueuesServe
        <5>. QED  BY <5>1, UnqueuedQueues
      <4>2. queue' \in Registered(q, f, E, n) /\ ~ Stacked("Disabled", f)
        BY <2>1, <3>1, PendingStacked
      <4>3. "mouse" \notin E => q["mouse"] = queue["mouse"]
        BY <2>6, UnqueueProperties
      <4>. HIDE DEF q
      <4>4. \A e \in E \cap Events : \A x \in Members(q[e]) : x.frame # f
        BY <4>1
      <4>5. /\ \A e \in Events : Neat(queue'[e])
            /\ \A e \in Events : \A x : x \in Members(queue'[e]) <=>
                    x \in Members(q[e]) \/ (e \in E /\ x = entry)
            /\ \A e \in Events : \A g :
                    Queued(g, e)' <=> (\E x \in Members(q[e]) : x.frame = g) \/ (e \in E /\ g = f)
            /\ \A e \in Events \ E : queue'[e] = q[e]
        <5>1. \A e \in Events : Neat(q[e])
          BY <4>1
        <5>2. q \in [Events -> Seq(QueueEntries)] /\ queue' \in Registered(q, f, E, n)
              /\ f \in Made /\ n \in Levels
          BY <1>2, <2>0, <4>1, <4>2
        <5>. QED  BY <4>4, <5>1, <5>2, AddedServed
      <4>. HIDE DEF entry
      <4>6. \A e \in Events : \A x : x \in Members(q[e]) <=> x \in Members(queue[e]) /\ x.frame # f
        BY <2>7, <4>1
      <4>7. \A e \in Events : \A x : x \in Members(queue'[e]) <=>
                (x \in Members(queue[e]) /\ x.frame # f) \/ (e \in E /\ frame[f].visible /\ x = entry)
        <5>. SUFFICES ASSUME NEW e \in Events, NEW x
                      PROVE  x \in Members(queue'[e]) <=>
                                 \/ x \in Members(queue[e]) /\ x.frame # f
                                 \/ e \in E /\ frame[f].visible /\ x = entry
          OBVIOUS
        <5>1. x \in Members(queue'[e]) <=> x \in Members(q[e]) \/ (e \in E /\ x = entry)
          BY <4>5
        <5>2. x \in Members(q[e]) <=> x \in Members(queue[e]) /\ x.frame # f
          BY <4>6
        <5>. QED  BY <3>1, <5>1, <5>2
      <4>8. \A g, e : Queued(g, e) <=> \E x \in Members(queue[e]) : x.frame = g
        BY QueuedEntries
      <4>9. ASSUME NEW e \in Events, NEW g
            PROVE  Queued(g, e)' <=> Queued(g, e)
        <5>1. Queued(g, e)' <=> (\E x \in Members(q[e]) : x.frame = g) \/ (e \in E /\ g = f)
          BY <4>5
        <5>2. CASE g = f
          <6>1. Queued(f, e) <=> e \in E
            BY <2>7, <2>8, <3>1, <4>2, <4>8
          <6>. QED  BY <4>6, <5>1, <5>2, <6>1
        <5>3. CASE g # f
          BY <4>6, <4>8, <5>1, <5>3
        <5>. QED  BY <5>2, <5>3
      <4>. QED  BY <2>6, <3>1, <4>3, <4>5, <4>7, <4>9
    <3>2. CASE ~ frame[f].visible
      <4>1. queue' = queue
        BY <2>1, <3>2
      <4>2. \A g, e : Queued(g, e)' <=> Queued(g, e)
        BY <4>1 DEF Queued
      <4>3. \A e \in Events : Neat(queue[e])
        BY <2>2 DEF QueuesServe
      <4>. QED  BY <2>7, <3>2, <4>1, <4>2, <4>3
    <3>. QED  BY <3>1, <3>2
  <2>. HIDE DEF entry
  <2>12. QueuesServe'
    <3>1. (\A e \in Events : \A x \in Members(queue[e]) :
            /\ frame[x.frame].visible /\ e \in frame[x.frame].eventmask
            /\ x.priority = frame[x.frame].level)'
      <4>. SUFFICES ASSUME NEW e \in Events, NEW x \in Members(queue'[e])
                    PROVE  /\ frame'[x.frame].visible /\ e \in frame'[x.frame].eventmask
                           /\ x.priority = frame'[x.frame].level
        OBVIOUS
      <4>1. CASE x \in Members(queue[e]) /\ x.frame # f
        <5>1. x.frame \in Made
          BY <4>1, EntriesMade
        <5>2. /\ frame[x.frame].visible /\ e \in frame[x.frame].eventmask
              /\ x.priority = frame[x.frame].level
          BY <2>2, <4>1 DEF QueuesServe
        <5>. QED  BY <2>3, <4>1, <5>1, <5>2
      <4>2. CASE e \in E /\ frame[f].visible /\ x = entry
        BY <1>2, <2>3, <2>4, <2>10, <4>2 DEF E
      <4>. QED  BY <2>11, <4>1, <4>2
    <3>2. (\A e \in Events : \A g \in Made : frame[g].visible /\ e \in frame[g].eventmask =>
            Queued(g, e) \/ (e = "mouse" /\ Stacked("Disabled", g)))'
      BY <1>2, <2>2, <2>3, <2>4, <2>5, <2>11 DEF QueuesServe
    <3>3. (\A g \in Made : Stacked("Disabled", g) => ~ Queued(g, "mouse"))'
      BY <1>2, <2>2, <2>5, <2>6, <2>11 DEF QueuesServe
    <3>4. (\A e \in Events : Neat(queue[e]))'
      BY <2>11
    <3>. QED  BY <3>1, <3>2, <3>3, <3>4 DEF QueuesServe
  <2>13. FocusKept'
    <3>1. (top.mouseFocus # Nil => Queued(top.mouseFocus, "mouse"))'
      <4>1. PICK k : k = top.mouseFocus
        OBVIOUS
      <4>2. k # Nil => Queued(k, "mouse")'
        BY <2>2, <2>6, <2>11, <4>1 DEF FocusKept
      <4>. QED  BY <2>9, <4>1, <4>2 DEF Queued
    <3>2. (top.mouseCapture # Nil => Queued(top.mouseCapture, "mouse"))'
      <4>1. PICK k : k = top.mouseCapture
        OBVIOUS
      <4>2. k # Nil => Queued(k, "mouse")'
        BY <2>2, <2>6, <2>11, <4>1 DEF FocusKept
      <4>. QED  BY <2>9, <4>1, <4>2 DEF Queued
    <3>3. (~ top.checkFocus => FirstUnder(queue["mouse"], top.hits, top.mouseFocus))'
      BY <2>2, <2>9, <2>11 DEF FocusKept
    <3>. QED  BY <3>1, <3>2, <3>3 DEF FocusKept
  <2>14. KeysKept'
    <3>1. top.keydownCapture \in Made \cup {Nil}
      BY DEF FramesTypeOK, TopRecords
    <3>2. (top.keydownCapture # Nil =>
              /\ "key" \in frame[top.keydownCapture].eventmask
              /\ frame[top.keydownCapture].visible \/ "escaped" \in quirks)'
      BY <2>1, <2>2, <2>3, <2>4, <2>9, <3>1 DEF KeysKept
    <3>3. (\A g \in Made : Stacked("KeyEaten", g) => "key" \in frame[g].eventmask)'
      BY <1>2, <2>2, <2>3, <2>5 DEF KeysKept
    <3>. QED  BY <3>2, <3>3 DEF KeysKept
  <2>. QED  BY <2>12, <2>13, <2>14
<1>. QED  BY <1>4, <1>5

\* The focus goes to the frame that a search finds.
LEMMA SearchServed ==
    ASSUME FramesAssumption, FramesTypeOK, Served, Made' = Made, NEW hits,
           top'.mouseFocus = FocusChange(hits).focus, top'.hits = hits,
           top'.mouseCapture = top.mouseCapture, top'.keydownCapture = top.keydownCapture,
           UNCHANGED <<frame, queue, quirks>>, WaitingSame
    PROVE  Served'
<1>. SUFFICES ASSUME "requeued" \notin quirks'
              PROVE  QueuesServe' /\ FocusKept' /\ KeysKept'
  BY DEF Served
<1>1. QueuesServe /\ FocusKept /\ KeysKept
  BY DEF Served
<1>2. \A g : /\ Stacked("Disabled", g)' <=> Stacked("Disabled", g)
             /\ Stacked("KeyEaten", g)' <=> Stacked("KeyEaten", g)
  BY DEF WaitingSame, Stacked
<1>3. \A g, e : Queued(g, e)' <=> Queued(g, e)
  BY DEF Queued
<1>4. QueuesServe'
  BY <1>1, <1>2, <1>3 DEF QueuesServe
<1>5. KeysKept'
  BY <1>1, <1>2 DEF KeysKept
<1>6. FirstUnder(queue["mouse"], hits, FocusChange(hits).focus)
  <2>1. queue["mouse"] \in Seq(QueueEntries)
    BY DEF FramesTypeOK, Events
  <2>2. FocusChange(hits).focus = FirstFrame(queue["mouse"], hits)
    BY DEF FocusChange, FirstFrame
  <2>. QED  BY <2>1, <2>2, FirstFrameIsUnder
<1>7. (top.mouseFocus # Nil => Queued(top.mouseFocus, "mouse"))'
  <2>1. PICK n : n = FocusChange(hits).focus
    OBVIOUS
  <2>2. n # Nil => Queued(n, "mouse")
    BY <1>6, <2>1 DEF FirstUnder, Queued
  <2>. QED  BY <1>3, <2>1, <2>2 DEF Queued
<1>8. (top.mouseCapture # Nil => Queued(top.mouseCapture, "mouse"))'
  BY <1>1, <1>3 DEF FocusKept, Queued
<1>9. FocusKept'
  BY <1>6, <1>7, <1>8 DEF FocusKept
<1>. QED  BY <1>4, <1>5, <1>9

LEMMA SearchWaiting ==
    ASSUME FramesTypeOK, FramesAssumption, StackOK, NEW hits,
           calls = <<>> \/ (calls # <<>> /\ calls[1].op = "UpdateLevel"),
           Members(calls') = Members(FocusChange(hits).scripts)
    PROVE  WaitingSame
<1>1. \A c \in Members(calls) : c.op = "UpdateLevel"
  <2>1. CASE calls = <<>>
    BY <2>1, NoCalls
  <2>2. CASE calls # <<>> /\ calls[1].op = "UpdateLevel"
    <3>1. Members(calls) = {calls[1]}
      BY <2>2, FirstCall DEF StackOK, Lasts
    <3>. QED  BY <2>2, <3>1
  <2>. QED  BY <2>1, <2>2
<1>2. \A c \in Members(calls') : c.op \in {"CursorExit", "CursorEnter"}
  <2>1. Members(calls') = IF FocusChange(hits).focus = top.mouseFocus THEN {}
                          ELSE {Call("CursorExit", g, 0) : g \in {top.mouseFocus} \ {Nil}}
                            \cup {Call("CursorEnter", g, 0) : g \in {FocusChange(hits).focus} \ {Nil}}
    BY FocusScripts
  <2>. QED  BY <2>1 DEF Call
<1>. QED  BY <1>1, <1>2 DEF WaitingSame

LEMMA KeyLoopServed ==
    ASSUME FramesAssumption, FramesTypeOK, StackOK, Served, KeyLoop
    PROVE  Served'
<1>. DEFINE i == calls[1].arg
            f == queue["key"][i].frame
            eaten == i <= Len(queue["key"]) /\ frame[f].visible /\ f \in KeyHandlers
<1>1. calls # <<>> /\ calls[1].op = "Key" /\ Members(calls) = {calls[1]} \cup Behind
  BY FirstCall DEF StackOK, KeyLoop, Running, Behind
<1>2. UNCHANGED <<frame, queue, top, quirks>>
  BY DEF KeyLoop, drawn, histories
<1>3. Made' = Made
  BY KeyLoopSound
<1>4. /\ i \in Nat \ {0}
      /\ Members(calls') =
            (IF i > Len(queue["key"]) THEN {}
             ELSE IF frame[f].visible /\ f \in KeyHandlers
             THEN {Script(f), Call("KeyEaten", f, 0)}
             ELSE {Call("Key", Nil, i + 1)}) \cup Behind
      /\ i <= Len(queue["key"]) => i \in DOMAIN queue["key"] /\ f \in Made
  BY KeyLoopSound
<1>5. Len(queue["key"]) \in Nat
  BY LenProperties DEF FramesTypeOK, Events
<1>6. \A c : c.op \in {"Disabled", "KeyEaten"} =>
        (c \in Members(calls') <=> c \in Members(calls) \/ (eaten /\ c = Call("KeyEaten", f, 0)))
  BY SMTT(30), <1>1, <1>4, <1>5 DEF Call, Script
<1>7. Call("KeyEaten", f, 0).op = "KeyEaten" /\ Call("KeyEaten", f, 0).frame = f
  BY DEF Call
<1>8. ASSUME ~ eaten
      PROVE  Served'
  <2>1. WaitingSame
    BY SMTT(30), <1>6, <1>8 DEF WaitingSame
  <2>. QED  BY <1>2, <1>3, <2>1, ServedStays DEF ServeSame, TopStays, QuirksGrow
<1>9. ASSUME eaten
      PROVE  Served'
  <2>. SUFFICES ASSUME "requeued" \notin quirks'
                PROVE  QueuesServe' /\ FocusKept' /\ KeysKept'
    BY DEF Served
  <2>1. QueuesServe /\ FocusKept /\ KeysKept
    BY <1>2 DEF Served
  <2>2. "key" \in frame[f].eventmask /\ f \in Made
    <3>1. i \in DOMAIN queue["key"] /\ queue["key"][i] \in Members(queue["key"])
      BY <1>4, <1>9 DEF Members
    <3>. QED  BY <1>4, <1>9, <2>1, <3>1 DEF QueuesServe, Events
  <2>. HIDE DEF f, i, eaten
  <2>3. \A g : /\ Stacked("Disabled", g)' <=> Stacked("Disabled", g)
               /\ Stacked("KeyEaten", g)' => Stacked("KeyEaten", g) \/ g = f
    BY <1>6, <1>7 DEF Stacked
  <2>4. \A g, e : Queued(g, e)' <=> Queued(g, e)
    BY <1>2 DEF Queued
  <2>5. QueuesServe'
    BY <1>2, <1>3, <2>1, <2>3, <2>4 DEF QueuesServe
  <2>6. FocusKept'
    BY <1>2, <2>1, <2>4 DEF FocusKept
  <2>7. KeysKept'
    BY <1>2, <1>3, <2>1, <2>2, <2>3 DEF KeysKept
  <2>. QED  BY <2>5, <2>6, <2>7
<1>. QED  BY <1>8, <1>9

LEMMA KeyEatenServed ==
    ASSUME FramesAssumption, FramesTypeOK, StackOK, Served, KeyEaten
    PROVE  Served'
<1>. DEFINE f == calls[1].frame
<1>1. calls # <<>> /\ calls[1].op = "KeyEaten" /\ CallFits(calls[1], Made)
      /\ Members(calls) = {calls[1]} \cup Behind
  BY FirstCall DEF StackOK, KeyEaten, Running, Behind
<1>2. f \in Made /\ Made' = Made /\ Members(calls') = Behind
  BY <1>1, KeyEatenSound DEF CallFits
<1>3. /\ UNCHANGED <<frame, queue>>
      /\ top' = [top EXCEPT !.keydownCapture = f]
      /\ quirks' = quirks \cup {q \in {"escaped"} : ~ frame[f].visible}
  BY DEF KeyEaten
<1>. SUFFICES ASSUME "requeued" \notin quirks'
              PROVE  QueuesServe' /\ FocusKept' /\ KeysKept'
  BY DEF Served
<1>4. QueuesServe /\ FocusKept /\ KeysKept
  BY <1>3 DEF Served
<1>5. \A g : /\ Stacked("Disabled", g)' <=> Stacked("Disabled", g)
             /\ Stacked("KeyEaten", g)' => Stacked("KeyEaten", g)
  BY <1>1, <1>2 DEF Stacked
<1>6. \A g, e : Queued(g, e)' <=> Queued(g, e)
  BY <1>3 DEF Queued
<1>7. "key" \in frame[f].eventmask
  BY <1>1, <1>2, <1>4 DEF KeysKept, Stacked
<1>8. /\ top'.mouseFocus = top.mouseFocus /\ top'.mouseCapture = top.mouseCapture
      /\ top'.hits = top.hits /\ top'.checkFocus = top.checkFocus
      /\ top'.keydownCapture = f
  BY <1>3 DEF FramesTypeOK, TopRecords
<1>9. top'.checkFocus <=> top.checkFocus
  BY <1>8, Zenon
<1>. HIDE DEF f
<1>10. QueuesServe'
  BY <1>2, <1>3, <1>4, <1>5, <1>6 DEF QueuesServe
<1>11. FocusKept'
  BY <1>3, <1>4, <1>6, <1>8, <1>9 DEF FocusKept
<1>12. KeysKept'
  <2>1. frame[f].visible \/ "escaped" \in quirks'
    BY <1>3
  <2>. QED  BY <1>2, <1>3, <1>4, <1>5, <1>7, <1>8, <2>1 DEF KeysKept
<1>. QED  BY <1>10, <1>11, <1>12

LEMMA ServedKept ==
    ASSUME FramesAssumption, FramesTypeOK, StackOK, Served, FramesNext, Sound'
    PROVE  Served'
<1>1. CASE Aside
  BY <1>1, AsideWaiting, AsideStays, ServedStays
<1>2. CASE HideThis
  BY <1>2, HideThisServed
<1>3. CASE ShowThis
  BY <1>3, ShowThisServed
<1>4. CASE SetFrameLevel
  BY <1>4, SetFrameLevelServed
<1>5. CASE EnableEvent
  BY <1>5, EnableEventServed
<1>6. CASE DisableEvent
  BY <1>6, DisableEventServed
<1>7. CASE Disabled
  BY <1>7, DisabledServed
<1>8. CASE KeyLoop
  BY <1>8, KeyLoopServed
<1>9. CASE KeyEaten
  BY <1>9, KeyEatenServed
<1>10. CASE OnMouseMove
  <2>1. PICK hits \in SUBSET Frame :
            /\ top' = [top EXCEPT !.hits = hits, !.mouseFocus = FocusChange(hits).focus]
            /\ Members(calls') = Members(FocusChange(hits).scripts)
    BY <1>10, OnMouseMoveSound
  <2>2. calls = <<>> /\ Made' = Made /\ UNCHANGED <<frame, queue, quirks>>
    BY <1>10, OnMouseMoveSound DEF OnMouseMove, histories
  <2>3. WaitingSame
    BY <2>1, <2>2, SearchWaiting
  <2>4. /\ top'.mouseFocus = FocusChange(hits).focus /\ top'.hits = hits
        /\ top'.mouseCapture = top.mouseCapture /\ top'.keydownCapture = top.keydownCapture
    BY <2>1 DEF FramesTypeOK, TopRecords
  <2>. QED  BY <2>2, <2>3, <2>4, SearchServed
<1>11. CASE CheckFocus
  <2>1. calls # <<>> /\ calls[1].op = "UpdateLevel" /\ Made' = Made
        /\ UNCHANGED <<frame, queue, quirks>>
    BY <1>11, CheckFocusSound DEF CheckFocus, Running, histories
  <2>2. CASE top.checkFocus
    <3>1. Members(calls') = Members(FocusChange(top.hits).scripts)
      BY <1>11, <2>2, CheckFocusSound
    <3>2. top' = [top EXCEPT !.checkFocus = FALSE, !.mouseFocus = FocusChange(top.hits).focus]
      BY <1>11, <2>2 DEF CheckFocus
    <3>3. /\ top'.mouseFocus = FocusChange(top.hits).focus /\ top'.hits = top.hits
          /\ top'.mouseCapture = top.mouseCapture /\ top'.keydownCapture = top.keydownCapture
      BY <3>2 DEF FramesTypeOK, TopRecords
    <3>4. WaitingSame
      BY <2>1, <3>1, SearchWaiting
    <3>. QED  BY <2>1, <3>3, <3>4, SearchServed
  <2>3. CASE ~ top.checkFocus
    <3>1. Members(calls') = {} /\ top' = top
      BY <1>11, <2>3, CheckFocusSound DEF CheckFocus
    <3>2. Members(calls) = {calls[1]}
      BY <2>1, FirstCall DEF StackOK, Lasts
    <3>3. WaitingSame
      BY <2>1, <3>1, <3>2 DEF WaitingSame
    <3>. QED  BY <2>1, <3>1, <3>3, ServedStays DEF ServeSame, TopStays, QuirksGrow
  <2>. QED  BY <2>2, <2>3
<1>12. CASE Removed
  <2>1. calls # <<>> /\ calls[1].op = "RemoveFrame" /\ Members(calls) = {calls[1]} \cup Behind
    BY <1>12, FirstCall DEF StackOK, Removed, Running, Behind
  <2>2. Members(calls') = {Call("HideChildren", calls[1].frame, 1)} \cup Behind /\ Made' = Made
    BY <1>12, RemovedSound
  <2>3. WaitingSame
    BY <2>1, <2>2 DEF WaitingSame, Call
  <2>4. UNCHANGED <<frame, queue, top, quirks>>
    BY <1>12 DEF Removed
  <2>. QED  BY <2>2, <2>3, <2>4, ServedStays DEF ServeSame, TopStays, QuirksGrow
<1>13. CASE HideChildren
  <2>. DEFINE f == calls[1].frame
              n == calls[1].arg
              child == frame[f].children[n]
  <2>1. calls # <<>> /\ calls[1].op = "HideChildren" /\ Members(calls) = {calls[1]} \cup Behind
    BY <1>13, FirstCall DEF StackOK, HideChildren, Running, Behind
  <2>2. /\ Made' = Made
        /\ Members(calls') = (IF n > Len(frame[f].children) THEN {Script(f)}
                              ELSE {Call("HideThis", child, 0), Call("HideChildren", f, n + 1)}) \cup Behind
    BY <1>13, HideChildrenSound
  <2>3. WaitingSame
    BY <2>1, <2>2 DEF WaitingSame, Call, Script
  <2>4. UNCHANGED <<frame, queue, top>> /\ quirks \subseteq quirks'
    BY <1>13 DEF HideChildren, drawn
  <2>. QED  BY <2>2, <2>3, <2>4, ServedStays DEF ServeSame, TopStays, QuirksGrow
<1>14. CASE CursorEnter
  <2>. DEFINE f == calls[1].frame
  <2>1. calls # <<>> /\ calls[1].op = "CursorEnter" /\ CallFits(calls[1], Made)
        /\ Members(calls) = {calls[1]} /\ Behind = {}
    BY <1>14, FirstCall DEF StackOK, CursorEnter, Running, Behind, Lasts
  <2>2. f \in Made /\ Made' = Made /\ Members(calls') = {Script(f)}
    BY <1>14, <2>1, CursorEnterSound DEF CallFits
  <2>3. WaitingSame
    BY <2>1, <2>2 DEF WaitingSame, Call, Script
  <2>4. /\ frame' = [frame EXCEPT ![f].highlight = frame[f].highlight \/ ~ frame[f].locked]
        /\ queue' = queue /\ top' = top /\ quirks \subseteq quirks'
    BY <1>14 DEF CursorEnter, drawn
  <2>5. ServeSame
    BY <2>2, <2>4, ServeFlags
  <2>. QED  BY <2>2, <2>3, <2>4, <2>5, ServedStays DEF TopStays, QuirksGrow
<1>15. CASE CursorExit
  <2>. DEFINE f == calls[1].frame
  <2>1. calls # <<>> /\ calls[1].op = "CursorExit" /\ CallFits(calls[1], Made)
        /\ Members(calls) = {calls[1]} \cup Behind
    BY <1>15, FirstCall DEF StackOK, CursorExit, Running, Behind
  <2>2. f \in Made /\ Made' = Made /\ Members(calls') = {Script(f)} \cup Behind
    BY <1>15, <2>1, CursorExitSound DEF CallFits
  <2>3. WaitingSame
    BY <2>1, <2>2 DEF WaitingSame, Call, Script
  <2>4. /\ frame' = [frame EXCEPT ![f].highlight = frame[f].highlight /\ frame[f].locked]
        /\ queue' = queue /\ top' = top /\ quirks \subseteq quirks'
    BY <1>15 DEF CursorExit, drawn
  <2>5. ServeSame
    BY <2>2, <2>4, ServeFlags
  <2>. QED  BY <2>2, <2>3, <2>4, <2>5, ServedStays DEF TopStays, QuirksGrow
<1>. QED  BY <1>1, <1>2, <1>3, <1>4, <1>5, <1>6, <1>7, <1>8, <1>9, <1>10, <1>11, <1>12, <1>13, <1>14, <1>15 DEF FramesNext, Aside

-----------------------------------------------------------------------------
(* The lists of the levels: each frame once, and for as long as it is      *)
(* visible or its removal is yet to come.                                  *)

At(n) == Members(n.frames) \cup Members(n.pendingFrames)
OnLists(nodes, f) == \E l \in Levels : f \in At(nodes[l])
ListedOnce(nodes) ==
    /\ \A l \in Levels :
        /\ NoRepeats(nodes[l].frames) /\ NoRepeats(nodes[l].pendingFrames)
        /\ Members(nodes[l].frames) \cap Members(nodes[l].pendingFrames) = {}
    /\ \A k, l \in Levels : k # l => At(nodes[k]) \cap At(nodes[l]) = {}
Removing(f) == Stacked("RemoveFrame", f) \/ Stacked("HideChildren", f)
ListsServe ==
    /\ \A l \in Levels : \A f \in At(node[l]) : frame[f].visible \/ Stacked("RemoveFrame", f)
    /\ "shifted" \notin quirks => \A l \in Levels : \A f \in At(node[l]) : frame[f].level = l
    /\ "reshown" \notin quirks => \A f \in Made : frame[f].visible => OnLists(node, f)
    /\ "late" \notin quirks => \A l \in Levels : node[l].pendingFrames = <<>>
HiddenStays == "reshown" \notin quirks => \A f \in Made : Removing(f) => ~ frame[f].visible
Lists == ListedOnce(node) /\ ListsServe /\ HiddenStays

\* What an action leaves alone.
ListsSame ==
    \A l \in Levels : /\ node'[l].frames = node[l].frames
                      /\ node'[l].pendingFrames = node[l].pendingFrames
RemovalsSame ==
    \A c : c.op \in {"RemoveFrame", "HideChildren"} =>
        (c \in Members(calls') <=> c \in Members(calls))
Placed == \A f \in Made : /\ frame'[f].visible <=> frame[f].visible
                          /\ frame'[f].level = frame[f].level

LEMMA ListsStay ==
    ASSUME FramesTypeOK, Lists, Made' = Made, ListsSame, Placed, RemovalsSame, QuirksGrow
    PROVE  Lists'
<1>1. \A l \in Levels : At(node'[l]) = At(node[l])
  BY DEF At, ListsSame
<1>2. \A op, f : op \in {"RemoveFrame", "HideChildren"} => (Stacked(op, f)' <=> Stacked(op, f))
  BY DEF RemovalsSame, Stacked
<1>3. \A l \in Levels : \A f \in At(node[l]) : f \in Made
  <2>1. ASSUME NEW l \in Levels
        PROVE  node[l].frames \in Seq(Made) /\ node[l].pendingFrames \in Seq(Made)
    BY DEF FramesTypeOK, NodeRecords
  <2>. QED  BY <2>1, ElementOfSeq, LenProperties DEF At, Members
<1>4. \A f : OnLists(node, f)' <=> OnLists(node, f)
  BY <1>1 DEF OnLists
<1>5. \A f : Removing(f)' <=> Removing(f)
  BY <1>2 DEF Removing
<1>6. ListedOnce(node)'
  BY <1>1 DEF ListedOnce, ListsSame, Lists
<1>7. ListsServe'
  <2>1. (\A l \in Levels : \A f \in At(node[l]) : frame[f].visible \/ Stacked("RemoveFrame", f))'
    BY <1>1, <1>2, <1>3 DEF Lists, ListsServe, Placed
  <2>2. ("shifted" \notin quirks => \A l \in Levels : \A f \in At(node[l]) : frame[f].level = l)'
    BY <1>1, <1>3 DEF Lists, ListsServe, Placed, QuirksGrow
  <2>3. ("reshown" \notin quirks => \A f \in Made : frame[f].visible => OnLists(node, f))'
    BY <1>4 DEF Lists, ListsServe, Placed, QuirksGrow
  <2>4. ("late" \notin quirks => \A l \in Levels : node[l].pendingFrames = <<>>)'
    BY DEF Lists, ListsServe, ListsSame, QuirksGrow
  <2>. QED  BY <2>1, <2>2, <2>3, <2>4 DEF ListsServe
<1>8. HiddenStays'
  BY <1>5 DEF Lists, HiddenStays, Placed, QuirksGrow
<1>. QED  BY <1>6, <1>7, <1>8 DEF Lists

LEMMA ContainedInEither ==
    ASSUME NEW S, NEW s \in Seq(S), NEW t \in Seq(S), NEW f
    PROVE  Contains(s \o t, f) <=> f \in Members(s) \cup Members(t)
<1>1. /\ Len(s) \in Nat /\ Len(t) \in Nat
      /\ DOMAIN s = 1..Len(s) /\ DOMAIN t = 1..Len(t)
  BY LenProperties
<1>. DEFINE n == Len(s) + Len(t)
<1>2. /\ Len(s \o t) = n
      /\ \A i \in 1..n : i <= Len(s) => (s \o t)[i] = s[i]
      /\ \A i \in 1..n : i > Len(s) => (s \o t)[i] = t[i - Len(s)]
  BY ConcatElements
<1>3. ASSUME Contains(s \o t, f)
      PROVE  f \in Members(s) \cup Members(t)
  <2>1. PICK i \in 1..n : (s \o t)[i] = f
    BY <1>2, <1>3 DEF Contains
  <2>2. CASE i <= Len(s)
    BY <1>1, <1>2, <2>1, <2>2 DEF Members
  <2>3. CASE i > Len(s)
    <3>1. i - Len(s) \in 1..Len(t)
      BY <1>1, <2>3
    <3>. QED  BY <1>1, <1>2, <2>1, <2>3, <3>1 DEF Members
  <2>. QED  BY <1>1, <2>2, <2>3
<1>4. ASSUME f \in Members(s)
      PROVE  Contains(s \o t, f)
  <2>1. PICK i \in 1..Len(s) : s[i] = f
    BY <1>1, <1>4 DEF Members
  <2>2. i \in 1..n
    BY <1>1
  <2>. QED  BY <1>2, <2>1, <2>2 DEF Contains
<1>5. ASSUME f \in Members(t)
      PROVE  Contains(s \o t, f)
  <2>1. PICK i \in 1..Len(t) : t[i] = f
    BY <1>1, <1>5 DEF Members
  <2>2. /\ Len(s) + i \in 1..n /\ Len(s) + i > Len(s) /\ (Len(s) + i) - Len(s) = i
    BY <1>1
  <2>3. (s \o t)[Len(s) + i] = t[i]
    BY <1>2, <2>2
  <2>. QED  BY <1>2, <2>1, <2>2, <2>3 DEF Contains
<1>. QED  BY <1>3, <1>4, <1>5

LEMMA RemoveFrameLists ==
    ASSUME FramesTypeOK, ListedOnce(node), NEW f, NEW l \in Levels, NEW k \in Levels
    PROVE  /\ NoRepeats(RemoveFrame(f, l)[k].frames) /\ NoRepeats(RemoveFrame(f, l)[k].pendingFrames)
           /\ Members(RemoveFrame(f, l)[k].frames) = Members(node[k].frames) \ {f}
           /\ Members(RemoveFrame(f, l)[k].pendingFrames) = Members(node[k].pendingFrames) \ {f}
           /\ At(RemoveFrame(f, l)[k]) = At(node[k]) \ {f}
<1>1. node[k].frames \in Seq(Made) /\ node[k].pendingFrames \in Seq(Made)
  BY DEF FramesTypeOK, NodeRecords
<1>2. NoRepeats(node[k].frames) /\ NoRepeats(node[k].pendingFrames)
  BY DEF ListedOnce
<1>3. /\ RemoveFrame(f, l)[k].frames = Unlink(node[k].frames, f)
      /\ RemoveFrame(f, l)[k].pendingFrames = Unlink(node[k].pendingFrames, f)
  BY DEF RemoveFrame
<1>4. /\ Members(Unlink(node[k].frames, f)) = Members(node[k].frames) \ {f}
      /\ NoRepeats(Unlink(node[k].frames, f))
  BY <1>1, <1>2, UnlinkProperties
<1>5. /\ Members(Unlink(node[k].pendingFrames, f)) = Members(node[k].pendingFrames) \ {f}
      /\ NoRepeats(Unlink(node[k].pendingFrames, f))
  BY <1>1, <1>2, UnlinkProperties
<1>. QED  BY <1>3, <1>4, <1>5 DEF At

LEMMA RemoveFrameOnce ==
    ASSUME FramesTypeOK, ListedOnce(node), NEW f, NEW l \in Levels
    PROVE  ListedOnce(RemoveFrame(f, l)) /\ ~ OnLists(RemoveFrame(f, l), f)
<1>1. \A k \in Levels :
        /\ NoRepeats(RemoveFrame(f, l)[k].frames) /\ NoRepeats(RemoveFrame(f, l)[k].pendingFrames)
        /\ Members(RemoveFrame(f, l)[k].frames) = Members(node[k].frames) \ {f}
        /\ Members(RemoveFrame(f, l)[k].pendingFrames) = Members(node[k].pendingFrames) \ {f}
        /\ At(RemoveFrame(f, l)[k]) = At(node[k]) \ {f}
  BY RemoveFrameLists
<1>. QED  BY <1>1 DEF ListedOnce, OnLists

\* The level k of the nodes n, once f was added to the level l of nodes.
Adds(n, nodes, f, l, k) ==
    /\ NoRepeats(n[k].frames) /\ NoRepeats(n[k].pendingFrames)
    /\ Members(n[k].frames) \cap Members(n[k].pendingFrames) = {}
    /\ \A g : g \in At(n[k]) <=> g \in At(nodes[k]) \/ (g = f /\ k = l /\ ~ OnLists(nodes, f))
    /\ n[k].pendingFrames = nodes[k].pendingFrames \/ f \in Members(n[k].pendingFrames)

LEMMA AddFrameLists ==
    ASSUME NEW nodes \in [Levels -> NodeRecords], NEW f \in Made, NEW l \in Levels,
           ListedOnce(nodes), NEW k \in Levels
    PROVE  Adds(AddFrame(nodes, f, l), nodes, f, l, k)
<1>. DEFINE n == AddFrame(nodes, f, l)
<1>0. \A j \in Levels : /\ nodes[j] \in NodeRecords
                        /\ nodes[j].frames \in Seq(Made) /\ nodes[j].pendingFrames \in Seq(Made)
  BY DEF NodeRecords
<1>1. NoRepeats(nodes[k].frames) /\ NoRepeats(nodes[k].pendingFrames)
      /\ Members(nodes[k].frames) \cap Members(nodes[k].pendingFrames) = {}
  BY DEF ListedOnce
<1>2. OnLists(nodes, f) <=> \E j \in Levels : Contains(nodes[j].frames \o nodes[j].pendingFrames, f)
  <2>1. ASSUME NEW j \in Levels
        PROVE  Contains(nodes[j].frames \o nodes[j].pendingFrames, f) <=> f \in At(nodes[j])
    BY <1>0, ContainedInEither DEF At
  <2>. QED  BY <2>1 DEF OnLists
<1>3. CASE OnLists(nodes, f)
  <2>1. n = nodes
    BY <1>2, <1>3 DEF AddFrame
  <2>. QED  BY <1>1, <1>3, <2>1 DEF Adds
<1>4. CASE ~ OnLists(nodes, f) /\ k # l
  <2>1. n[k] = nodes[k]
    BY <1>2, <1>4 DEF AddFrame
  <2>. QED  BY <1>1, <1>4, <2>1 DEF Adds
<1>5. CASE ~ OnLists(nodes, f) /\ k = l /\ nodes[l].pendingFrame # Nil
  <2>1. n[k].pendingFrames = Append(nodes[k].pendingFrames, f) /\ n[k].frames = nodes[k].frames
    <3>1. n = [nodes EXCEPT ![l].pendingFrames = Append(@, f)]
      BY <1>2, <1>5 DEF AddFrame
    <3>. QED  BY <1>0, <1>5, <3>1 DEF NodeRecords
  <2>2. f \notin Members(nodes[k].frames) /\ f \notin Members(nodes[k].pendingFrames)
    BY <1>5 DEF OnLists, At
  <2>3. /\ Members(Append(nodes[k].pendingFrames, f)) = Members(nodes[k].pendingFrames) \cup {f}
        /\ NoRepeats(Append(nodes[k].pendingFrames, f))
    BY <1>0, <1>1, <2>2, AppendMembers
  <2>. QED  BY <1>1, <1>5, <2>1, <2>2, <2>3 DEF At, Adds
<1>6. CASE ~ OnLists(nodes, f) /\ k = l /\ nodes[l].pendingFrame = Nil
  <2>1. n[k].frames = Append(nodes[k].frames, f) /\ n[k].pendingFrames = nodes[k].pendingFrames
    <3>1. n = [nodes EXCEPT ![l].frames = Append(@, f)]
      BY <1>2, <1>6 DEF AddFrame
    <3>. QED  BY <1>0, <1>6, <3>1 DEF NodeRecords
  <2>2. f \notin Members(nodes[k].frames) /\ f \notin Members(nodes[k].pendingFrames)
    BY <1>6 DEF OnLists, At
  <2>3. /\ Members(Append(nodes[k].frames, f)) = Members(nodes[k].frames) \cup {f}
        /\ NoRepeats(Append(nodes[k].frames, f))
    BY <1>0, <1>1, <2>2, AppendMembers
  <2>. QED  BY <1>1, <1>6, <2>1, <2>2, <2>3 DEF At, Adds
<1>. QED  BY <1>3, <1>4, <1>5, <1>6

LEMMA AddFrameOnce ==
    ASSUME NEW nodes \in [Levels -> NodeRecords], NEW f \in Made, NEW l \in Levels,
           ListedOnce(nodes)
    PROVE  ListedOnce(AddFrame(nodes, f, l)) /\ OnLists(AddFrame(nodes, f, l), f)
<1>. DEFINE n == AddFrame(nodes, f, l)
<1>1. \A k \in Levels : Adds(n, nodes, f, l, k)
  BY AddFrameLists
<1>2. \A j, k \in Levels : j # k => At(nodes[j]) \cap At(nodes[k]) = {}
  BY DEF ListedOnce
<1>. HIDE DEF n
<1>3. ASSUME NEW j \in Levels, NEW k \in Levels, j # k, NEW g \in At(n[j]), g \in At(n[k])
      PROVE  FALSE
  <2>1. g \notin At(nodes[j]) \/ g \notin At(nodes[k])
    BY <1>2, <1>3
  <2>2. ~ OnLists(nodes, g)
    BY <1>1, <1>3, <2>1 DEF Adds
  <2>. QED  BY <1>1, <1>3, <2>2 DEF OnLists, Adds
<1>4. ListedOnce(n)
  BY <1>1, <1>3 DEF ListedOnce, Adds
<1>5. OnLists(n, f)
  BY <1>1 DEF OnLists, Adds
<1>. QED  BY <1>4, <1>5 DEF n

\* The calls of the loop over a level.
LoopSame == \A c : c.op = "UpdateNode" => (c \in Members(calls') <=> c \in Members(calls))
ListOps == {"RemoveFrame", "HideChildren", "UpdateNode"}
ListCalls == {c \in Members(calls) : c.op \in ListOps}

LEMMA ListCallsSame ==
    ASSUME ListCalls' = ListCalls
    PROVE  RemovalsSame /\ LoopSame
<1>1. \A c : c.op \in ListOps => (c \in Members(calls) <=> c \in ListCalls)
  BY DEF ListCalls
<1>2. \A c : c.op \in ListOps => (c \in Members(calls') <=> c \in ListCalls')
  BY DEF ListCalls
<1>. QED  BY <1>1, <1>2 DEF RemovalsSame, LoopSame, ListOps

LEMMA PlacedFlags ==
    ASSUME FramesTypeOK, NEW g \in Made, NEW v,
           frame' = [frame EXCEPT ![g].eventmask = v] \/ frame' = [frame EXCEPT ![g].highlight = v]
    PROVE  Placed
<1>1. frame \in [Made -> FrameRecords] /\ frame[g] \in FrameRecords
  BY DEF FramesTypeOK
<1>2. \A f \in Made : frame'[f].visible = frame[f].visible /\ frame'[f].level = frame[f].level
  BY <1>1 DEF FrameRecords
<1>3. \A f \in Made : frame'[f].visible <=> frame[f].visible
  BY <1>2, Zenon
<1>. QED  BY <1>2, <1>3 DEF Placed

LEMMA AsideLists ==
    ASSUME FramesTypeOK, StackOK, Sound', Aside
    PROVE  /\ Made' = Made /\ Placed /\ RemovalsSame /\ ListsSame /\ QuirksGrow
           /\ Update \/ (LoopSame /\ node' = node /\ due' = due)
<1>1. Made' = Made /\ Placed /\ QuirksGrow
  BY AsideStays DEF ServeSame, Placed
<1>2. RemovalsSame
  <2>1. \A c : c.op \in WatchedOps \ {"UpdateNode"} =>
            (c \in Members(calls') <=> c \in Members(calls))
    BY OtherCalls DEF Plain, Update, Aside
  <2>. QED  BY <2>1 DEF RemovalsSame, WatchedOps
<1>3. Plain => LoopSame
  <2>1. \A c : c.op = "UpdateNode" => (c \in Members(calls) <=> c \in Watched)
    BY DEF Watched, WatchedOps
  <2>2. \A c : c.op = "UpdateNode" => (c \in Members(calls') <=> c \in Watched')
    BY DEF Watched, WatchedOps
  <2>. QED  BY <2>1, <2>2, PlainCalls DEF LoopSame
<1>4. Plain \/ Update
  BY DEF Plain, Update, Aside
<1>5. Plain => node' = node /\ due' = due
  <2>1. CASE ScriptCalls \/ ScriptReturns \/ Hide \/ Show \/ ShowChildren \/ ShiftChildren
    BY <2>1 DEF ScriptCalls, ScriptReturns, Hide, Show, ShowChildren, ShiftChildren, drawn, histories
  <2>2. CASE SetParent \/ Reparent \/ SetBeingScrolled \/ ScrollChildren \/ Attach \/ LockHighlight
    BY <2>2 DEF SetParent, Reparent, SetBeingScrolled, ScrollChildren, Attach, LockHighlight,
                drawn, histories
  <2>3. CASE OnMouseDown \/ OnMouseUp \/ MouseReleased
    BY <2>3 DEF OnMouseDown, OnMouseUp, MouseReleased, drawn, histories
  <2>4. CASE OnKeyDown \/ OnKeyUp \/ KeyReleased \/ OnLayerUpdate
    BY <2>4 DEF OnKeyDown, OnKeyUp, KeyReleased, OnLayerUpdate, drawn, histories
  <2>5. ASSUME Update
        PROVE  ~ Plain \/ (node' = node /\ due' = due)
    <3>1. calls # <<>> /\ calls[1].op \in {"UpdateLevel", "UpdateNode"}
      BY <2>5 DEF Update, UpdateLevel, UpdateNode, Running
    <3>. QED  BY <2>1, <2>2, <2>3, <2>4, <3>1
         DEF Plain, ShowThis, SetFrameLevel, EnableEvent, Running
  <2>. QED  BY <2>1, <2>2, <2>3, <2>4, <2>5 DEF Aside, Update
<1>6. ListsSame
  <2>1. CASE Plain
    BY <1>5, <2>1 DEF ListsSame
  <2>2. CASE UpdateLevel
    <3>1. node' = [node EXCEPT ![Min(LevelsLeft)].pendingFrame = Head(node[Min(LevelsLeft)].frames)]
      BY <2>2 DEF UpdateLevel
    <3>. QED  BY <3>1 DEF ListsSame, FramesTypeOK, NodeRecords
  <2>3. CASE UpdateNode
    <3>1. node' = node \/ node' = [node EXCEPT ![calls[1].arg].pendingFrame = NextFrame(node[calls[1].arg].pendingFrame)]
      BY <2>3 DEF UpdateNode
    <3>2. node \in [Levels -> NodeRecords]
      BY DEF FramesTypeOK
    <3>. DEFINE k == calls[1].arg
                g == NextFrame(node[calls[1].arg].pendingFrame)
    <3>3. node' = node \/ node' = [node EXCEPT ![k].pendingFrame = g]
      BY <3>1
    <3>. HIDE DEF k, g
    <3>. QED  BY <3>2, <3>3 DEF ListsSame, NodeRecords
  <2>. QED  BY <1>4, <2>1, <2>2, <2>3 DEF Update
<1>. QED  BY <1>1, <1>2, <1>3, <1>4, <1>5, <1>6

LEMMA SearchElsewhere ==
    ASSUME FramesTypeOK, FramesAssumption, StackOK, NEW hits,
           calls = <<>> \/ (calls # <<>> /\ calls[1].op = "UpdateLevel"),
           Members(calls') = Members(FocusChange(hits).scripts) \/ Members(calls') = {}
    PROVE  RemovalsSame /\ LoopSame
<1>1. \A c \in Members(calls) : c.op = "UpdateLevel"
  <2>1. CASE calls = <<>>
    BY <2>1, NoCalls
  <2>2. CASE calls # <<>> /\ calls[1].op = "UpdateLevel"
    <3>1. Members(calls) = {calls[1]}
      BY <2>2, FirstCall DEF StackOK, Lasts
    <3>. QED  BY <2>2, <3>1
  <2>. QED  BY <2>1, <2>2
<1>2. \A c \in Members(calls') : c.op \in {"CursorExit", "CursorEnter"}
  <2>1. CASE Members(calls') = Members(FocusChange(hits).scripts)
    <3>1. Members(calls') = IF FocusChange(hits).focus = top.mouseFocus THEN {}
                            ELSE {Call("CursorExit", g, 0) : g \in {top.mouseFocus} \ {Nil}}
                              \cup {Call("CursorEnter", g, 0) : g \in {FocusChange(hits).focus} \ {Nil}}
      BY <2>1, FocusScripts
    <3>. QED  BY <3>1 DEF Call
  <2>. QED  BY <2>1
<1>. QED  BY <1>1, <1>2 DEF RemovalsSame, LoopSame

\* The other actions that leave the lists alone.
Elsewhere ==
    \/ EnableEvent \/ DisableEvent \/ Disabled \/ KeyLoop \/ KeyEaten
    \/ OnMouseMove \/ CheckFocus \/ CursorEnter \/ CursorExit

LEMMA ElsewhereLists ==
    ASSUME FramesAssumption, FramesTypeOK, StackOK, Elsewhere
    PROVE  /\ Made' = Made /\ Placed /\ RemovalsSame /\ QuirksGrow
           /\ LoopSame /\ node' = node /\ due' = due
<1>1. CASE EnableEvent
  <2>. DEFINE f == calls[1].frame
              new == {}
  <2>1. calls # <<>> /\ calls[1].op = "EnableEvent" /\ CallFits(calls[1], Made)
        /\ Members(calls) = {calls[1]} \cup Behind
    BY <1>1, FirstCall DEF StackOK, EnableEvent, Running, Behind
  <2>2. Made' = Made /\ Members(calls') = new \cup Behind
    BY <1>1, EnableEventSound
  <2>3. \A c \in {calls[1]} \cup new : c.op \notin ListOps
    BY <2>1 DEF Call, Script, LeaveCalls, ListOps
  <2>4. RemovalsSame /\ LoopSame
    <3>. HIDE DEF new
    <3>1. Members(calls) = {calls[1]} \cup Behind
      BY <2>1
    <3>2. Members(calls') = new \cup Behind
      BY <2>2
    <3>3. ListCalls' = ListCalls
      BY <2>3, <3>1, <3>2 DEF ListCalls
    <3>. QED  BY <3>3, ListCallsSame
  <2>5. node' = node /\ due' = due /\ QuirksGrow
    BY <1>1 DEF EnableEvent, QuirksGrow, drawn, histories
  <2>6. Placed
    <3>1. f \in Made /\ frame' = [frame EXCEPT ![f].eventmask = frame[f].eventmask \cup {"mouse"}]
      BY <1>1, <2>1 DEF EnableEvent, CallFits
    <3>. QED  BY <3>1, PlacedFlags
  <2>. QED  BY <2>2, <2>4, <2>5, <2>6
<1>2. CASE DisableEvent
  <2>. DEFINE f == calls[1].frame
              new == IF "mouse" \notin frame[calls[1].frame].eventmask THEN {}
                    ELSE {Call("Disabled", calls[1].frame, 0)}
                         \cup (IF frame[calls[1].frame].visible THEN LeaveCalls(calls[1].frame, {"mouse"}) ELSE {})
  <2>1. calls # <<>> /\ calls[1].op = "DisableEvent" /\ CallFits(calls[1], Made)
        /\ Members(calls) = {calls[1]} \cup Behind
    BY <1>2, FirstCall DEF StackOK, DisableEvent, Running, Behind
  <2>2. Made' = Made /\ Members(calls') = new \cup Behind
    BY <1>2, DisableEventSound
  <2>3. \A c \in {calls[1]} \cup new : c.op \notin ListOps
    BY <2>1 DEF Call, Script, LeaveCalls, ListOps
  <2>4. RemovalsSame /\ LoopSame
    <3>. HIDE DEF new
    <3>1. Members(calls) = {calls[1]} \cup Behind
      BY <2>1
    <3>2. Members(calls') = new \cup Behind
      BY <2>2
    <3>3. ListCalls' = ListCalls
      BY <2>3, <3>1, <3>2 DEF ListCalls
    <3>. QED  BY <3>3, ListCallsSame
  <2>5. node' = node /\ due' = due /\ QuirksGrow
    BY <1>2 DEF DisableEvent, QuirksGrow, drawn, histories
  <2>6. Placed
    BY <1>2 DEF DisableEvent, Placed
  <2>. QED  BY <2>2, <2>4, <2>5, <2>6
<1>3. CASE Disabled
  <2>. DEFINE f == calls[1].frame
              new == {}
  <2>1. calls # <<>> /\ calls[1].op = "Disabled" /\ CallFits(calls[1], Made)
        /\ Members(calls) = {calls[1]} \cup Behind
    BY <1>3, FirstCall DEF StackOK, Disabled, Running, Behind
  <2>2. Made' = Made /\ Members(calls') = new \cup Behind
    BY <1>3, DisabledSound
  <2>3. \A c \in {calls[1]} \cup new : c.op \notin ListOps
    BY <2>1 DEF Call, Script, LeaveCalls, ListOps
  <2>4. RemovalsSame /\ LoopSame
    <3>. HIDE DEF new
    <3>1. Members(calls) = {calls[1]} \cup Behind
      BY <2>1
    <3>2. Members(calls') = new \cup Behind
      BY <2>2
    <3>3. ListCalls' = ListCalls
      BY <2>3, <3>1, <3>2 DEF ListCalls
    <3>. QED  BY <3>3, ListCallsSame
  <2>5. node' = node /\ due' = due /\ QuirksGrow
    BY <1>3 DEF Disabled, QuirksGrow, drawn, histories
  <2>6. Placed
    <3>1. f \in Made /\ frame' = [frame EXCEPT ![f].eventmask = frame[f].eventmask \ {"mouse"}]
      BY <1>3, <2>1 DEF Disabled, CallFits
    <3>. QED  BY <3>1, PlacedFlags
  <2>. QED  BY <2>2, <2>4, <2>5, <2>6
<1>4. CASE KeyLoop
  <2>. DEFINE f == calls[1].frame
              new == IF calls[1].arg > Len(queue["key"]) THEN {}
                    ELSE IF frame[queue["key"][calls[1].arg].frame].visible
                            /\ queue["key"][calls[1].arg].frame \in KeyHandlers
                    THEN {Script(queue["key"][calls[1].arg].frame),
                          Call("KeyEaten", queue["key"][calls[1].arg].frame, 0)}
                    ELSE {Call("Key", Nil, calls[1].arg + 1)}
  <2>1. calls # <<>> /\ calls[1].op = "Key" /\ CallFits(calls[1], Made)
        /\ Members(calls) = {calls[1]} \cup Behind
    BY <1>4, FirstCall DEF StackOK, KeyLoop, Running, Behind
  <2>2. Made' = Made /\ Members(calls') = new \cup Behind
    BY <1>4, KeyLoopSound
  <2>3. \A c \in {calls[1]} \cup new : c.op \notin ListOps
    BY <2>1 DEF Call, Script, LeaveCalls, ListOps
  <2>4. RemovalsSame /\ LoopSame
    <3>. HIDE DEF new
    <3>1. Members(calls) = {calls[1]} \cup Behind
      BY <2>1
    <3>2. Members(calls') = new \cup Behind
      BY <2>2
    <3>3. ListCalls' = ListCalls
      BY <2>3, <3>1, <3>2 DEF ListCalls
    <3>. QED  BY <3>3, ListCallsSame
  <2>5. node' = node /\ due' = due /\ QuirksGrow
    BY <1>4 DEF KeyLoop, QuirksGrow, drawn, histories
  <2>6. Placed
    BY <1>4 DEF KeyLoop, Placed
  <2>. QED  BY <2>2, <2>4, <2>5, <2>6
<1>5. CASE KeyEaten
  <2>. DEFINE f == calls[1].frame
              new == {}
  <2>1. calls # <<>> /\ calls[1].op = "KeyEaten" /\ CallFits(calls[1], Made)
        /\ Members(calls) = {calls[1]} \cup Behind
    BY <1>5, FirstCall DEF StackOK, KeyEaten, Running, Behind
  <2>2. Made' = Made /\ Members(calls') = new \cup Behind
    BY <1>5, KeyEatenSound
  <2>3. \A c \in {calls[1]} \cup new : c.op \notin ListOps
    BY <2>1 DEF Call, Script, LeaveCalls, ListOps
  <2>4. RemovalsSame /\ LoopSame
    <3>. HIDE DEF new
    <3>1. Members(calls) = {calls[1]} \cup Behind
      BY <2>1
    <3>2. Members(calls') = new \cup Behind
      BY <2>2
    <3>3. ListCalls' = ListCalls
      BY <2>3, <3>1, <3>2 DEF ListCalls
    <3>. QED  BY <3>3, ListCallsSame
  <2>5. node' = node /\ due' = due /\ QuirksGrow
    BY <1>5 DEF KeyEaten, QuirksGrow, drawn, histories
  <2>6. Placed
    BY <1>5 DEF KeyEaten, Placed
  <2>. QED  BY <2>2, <2>4, <2>5, <2>6
<1>6. CASE CursorEnter
  <2>. DEFINE f == calls[1].frame
              new == {Script(calls[1].frame)}
  <2>1. calls # <<>> /\ calls[1].op = "CursorEnter" /\ CallFits(calls[1], Made)
        /\ Members(calls) = {calls[1]} \cup Behind
    BY <1>6, FirstCall DEF StackOK, CursorEnter, Running, Behind
  <2>2. Made' = Made /\ Members(calls') = new \cup Behind
    BY <1>6, CursorEnterSound
  <2>3. \A c \in {calls[1]} \cup new : c.op \notin ListOps
    BY <2>1 DEF Call, Script, LeaveCalls, ListOps
  <2>4. RemovalsSame /\ LoopSame
    <3>. HIDE DEF new
    <3>1. Members(calls) = {calls[1]} \cup Behind
      BY <2>1
    <3>2. Members(calls') = new \cup Behind
      BY <2>2
    <3>3. ListCalls' = ListCalls
      BY <2>3, <3>1, <3>2 DEF ListCalls
    <3>. QED  BY <3>3, ListCallsSame
  <2>5. node' = node /\ due' = due /\ QuirksGrow
    BY <1>6 DEF CursorEnter, QuirksGrow, drawn, histories
  <2>6. Placed
    <3>1. f \in Made /\ frame' = [frame EXCEPT ![f].highlight = frame[f].highlight \/ ~ frame[f].locked]
      BY <1>6, <2>1 DEF CursorEnter, CallFits
    <3>. QED  BY <3>1, PlacedFlags
  <2>. QED  BY <2>2, <2>4, <2>5, <2>6
<1>7. CASE CursorExit
  <2>. DEFINE f == calls[1].frame
              new == {Script(calls[1].frame)}
  <2>1. calls # <<>> /\ calls[1].op = "CursorExit" /\ CallFits(calls[1], Made)
        /\ Members(calls) = {calls[1]} \cup Behind
    BY <1>7, FirstCall DEF StackOK, CursorExit, Running, Behind
  <2>2. Made' = Made /\ Members(calls') = new \cup Behind
    BY <1>7, CursorExitSound
  <2>3. \A c \in {calls[1]} \cup new : c.op \notin ListOps
    BY <2>1 DEF Call, Script, LeaveCalls, ListOps
  <2>4. RemovalsSame /\ LoopSame
    <3>. HIDE DEF new
    <3>1. Members(calls) = {calls[1]} \cup Behind
      BY <2>1
    <3>2. Members(calls') = new \cup Behind
      BY <2>2
    <3>3. ListCalls' = ListCalls
      BY <2>3, <3>1, <3>2 DEF ListCalls
    <3>. QED  BY <3>3, ListCallsSame
  <2>5. node' = node /\ due' = due /\ QuirksGrow
    BY <1>7 DEF CursorExit, QuirksGrow, drawn, histories
  <2>6. Placed
    <3>1. f \in Made /\ frame' = [frame EXCEPT ![f].highlight = frame[f].highlight /\ frame[f].locked]
      BY <1>7, <2>1 DEF CursorExit, CallFits
    <3>. QED  BY <3>1, PlacedFlags
  <2>. QED  BY <2>2, <2>4, <2>5, <2>6
<1>8. CASE OnMouseMove
  <2>1. Made' = Made /\ node' = node /\ due' = due /\ QuirksGrow /\ frame' = frame
    BY <1>8, OnMouseMoveSound DEF OnMouseMove, QuirksGrow, histories
  <2>2. RemovalsSame /\ LoopSame
    <3>1. PICK hits : Members(calls') = Members(FocusChange(hits).scripts)
      BY <1>8, OnMouseMoveSound
    <3>2. calls = <<>>
      BY <1>8 DEF OnMouseMove
    <3>. QED  BY <3>1, <3>2, SearchElsewhere
  <2>3. Placed
    BY <2>1 DEF Placed
  <2>. QED  BY <2>1, <2>2, <2>3
<1>9. CASE CheckFocus
  <2>1. Made' = Made /\ node' = node /\ due' = due /\ QuirksGrow /\ frame' = frame
    BY <1>9, CheckFocusSound DEF CheckFocus, QuirksGrow, histories
  <2>2. RemovalsSame /\ LoopSame
    <3>1. calls # <<>> /\ calls[1].op = "UpdateLevel"
      BY <1>9 DEF CheckFocus, Running
    <3>2. Members(calls') = IF top.checkFocus THEN Members(FocusChange(top.hits).scripts) ELSE {}
      BY <1>9, CheckFocusSound
    <3>. QED  BY <3>1, <3>2, SearchElsewhere
  <2>3. Placed
    BY <2>1 DEF Placed
  <2>. QED  BY <2>1, <2>2, <2>3
<1>. QED  BY <1>1, <1>2, <1>3, <1>4, <1>5, <1>6, <1>7, <1>8, <1>9 DEF Elsewhere

\* The frames that a level lists.
LEMMA ListedMade ==
    ASSUME FramesTypeOK, NEW l \in Levels, NEW f \in At(node[l])
    PROVE  f \in Made
<1>1. node[l].frames \in Seq(Made) /\ node[l].pendingFrames \in Seq(Made)
  BY DEF FramesTypeOK, NodeRecords
<1>. QED  BY <1>1, ElementOfSeq, LenProperties DEF At, Members

LEMMA HideThisLists ==
    ASSUME FramesTypeOK, StackOK, Lists, HideThis
    PROVE  Lists'
<1>. DEFINE f == calls[1].frame
<1>1. calls # <<>> /\ calls[1].op = "HideThis" /\ CallFits(calls[1], Made)
      /\ Members(calls) = {calls[1]} \cup Behind
  BY FirstCall DEF StackOK, HideThis, Running, Behind
<1>2. f \in Made /\ Made' = Made
  BY <1>1, HideThisSound DEF CallFits
<1>3. node' = node /\ \A q : q # "unlisted" => (q \in quirks' <=> q \in quirks)
  BY DEF HideThis
<1>4. CASE ~ frame[f].visible
  <2>1. Members(calls') = Behind /\ frame' = frame
    BY <1>4, HideThisSound DEF HideThis
  <2>2. RemovalsSame
    BY <1>1, <2>1 DEF RemovalsSame
  <2>3. Placed /\ ListsSame
    BY <1>2, <1>3, <2>1 DEF Placed, ListsSame
  <2>4. QuirksGrow
    BY DEF HideThis, QuirksGrow
  <2>. QED  BY <1>2, <2>2, <2>3, <2>4, ListsStay
<1>5. CASE frame[f].visible
  <2>1. /\ frame' = [frame EXCEPT ![f].visible = FALSE]
        /\ Members(calls') = {Call("RemoveFrame", f, 0)} \cup LeaveCalls(f, frame[f].eventmask) \cup Behind
    BY <1>5, HideThisSound DEF HideThis
  <2>2. \A g \in Made : /\ g # f => frame'[g] = frame[g]
                        /\ frame'[g].level = frame[g].level
    BY <1>2, <2>1 DEF FramesTypeOK, FrameRecords
  <2>3. ~ frame'[f].visible
    BY <1>2, <2>1 DEF FramesTypeOK, FrameRecords
  <2>4. \A g : /\ Stacked("RemoveFrame", g)' <=> Stacked("RemoveFrame", g) \/ g = f
               /\ Stacked("HideChildren", g)' <=> Stacked("HideChildren", g)
    <3>1. \A c \in LeaveCalls(f, frame[f].eventmask) : c.op = "CursorExit"
      BY DEF LeaveCalls, Call
    <3>2. \A c : c \in Members(calls') /\ c.op \in {"RemoveFrame", "HideChildren"} <=>
                 \/ c = Call("RemoveFrame", f, 0)
                 \/ c \in Members(calls) /\ c.op \in {"RemoveFrame", "HideChildren"}
      BY <1>1, <2>1, <3>1 DEF Call
    <3>3. Call("RemoveFrame", f, 0).op = "RemoveFrame" /\ Call("RemoveFrame", f, 0).frame = f
      BY DEF Call
    <3>. QED  BY <3>2, <3>3 DEF Stacked
  <2>. HIDE DEF f
  <2>5. ListedOnce(node)'
    BY <1>3 DEF Lists, ListedOnce
  <2>6. \A g : OnLists(node, g)' <=> OnLists(node, g)
    BY <1>3 DEF OnLists
  <2>7. ListsServe'
    <3>1. (\A l \in Levels : \A g \in At(node[l]) : frame[g].visible \/ Stacked("RemoveFrame", g))'
      BY <1>3, <2>2, <2>4, ListedMade DEF Lists, ListsServe
    <3>2. ("shifted" \notin quirks => \A l \in Levels : \A g \in At(node[l]) : frame[g].level = l)'
      BY <1>3, <2>2, ListedMade DEF Lists, ListsServe
    <3>3. ("reshown" \notin quirks => \A g \in Made : frame[g].visible => OnLists(node, g))'
      BY <1>2, <1>3, <2>2, <2>3, <2>6 DEF Lists, ListsServe
    <3>4. ("late" \notin quirks => \A l \in Levels : node[l].pendingFrames = <<>>)'
      BY <1>3 DEF Lists, ListsServe
    <3>. QED  BY <3>1, <3>2, <3>3, <3>4 DEF ListsServe
  <2>8. HiddenStays'
    BY <1>2, <1>3, <2>2, <2>3, <2>4 DEF Lists, HiddenStays, Removing
  <2>. QED  BY <2>5, <2>7, <2>8 DEF Lists
<1>. QED  BY <1>4, <1>5

LEMMA RemovedLists ==
    ASSUME FramesTypeOK, StackOK, Lists, Removed
    PROVE  Lists'
<1>. DEFINE f == calls[1].frame
            l == frame[f].level
<1>1. calls # <<>> /\ calls[1].op = "RemoveFrame" /\ CallFits(calls[1], Made)
      /\ Members(calls) = {calls[1]} \cup Behind
  BY FirstCall DEF StackOK, Removed, Running, Behind
<1>2. /\ f \in Made /\ Made' = Made /\ l \in Levels
      /\ Members(calls') = {Call("HideChildren", f, 1)} \cup Behind
  BY <1>1, RemovedSound DEF CallFits, FramesTypeOK, FrameRecords
<1>3. node' = RemoveFrame(f, l) /\ frame' = frame /\ quirks' = quirks
  BY DEF Removed
<1>4. \A g : /\ g # f => (Stacked("RemoveFrame", g)' <=> Stacked("RemoveFrame", g))
             /\ Removing(g)' <=> Removing(g)
  <2>1. Call("HideChildren", f, 1).op = "HideChildren" /\ Call("HideChildren", f, 1).frame = f
    BY DEF Call
  <2>2. \A c : c \in Members(calls') <=> c = Call("HideChildren", f, 1) \/ c \in Behind
    BY <1>2
  <2>3. \A c : c \in Members(calls) <=> c = calls[1] \/ c \in Behind
    BY <1>1
  <2>4. \A g : g # f => (Stacked("RemoveFrame", g)' <=> Stacked("RemoveFrame", g))
    BY <2>1, <2>2, <2>3 DEF Stacked
  <2>5. \A g : g # f => (Stacked("HideChildren", g)' <=> Stacked("HideChildren", g))
    BY <2>1, <2>2, <2>3 DEF Stacked
  <2>6. \A g : g = f => Stacked("RemoveFrame", g) /\ Stacked("HideChildren", g)'
    <3>1. calls[1] \in Members(calls) /\ calls[1].op = "RemoveFrame" /\ calls[1].frame = f
      BY <1>1
    <3>2. Call("HideChildren", f, 1) \in Members(calls')
      BY <2>2
    <3>3. \A g : g = f => Stacked("RemoveFrame", g)
      BY <3>1 DEF Stacked
    <3>4. \A g : g = f => Stacked("HideChildren", g)'
      BY <2>1, <3>2 DEF Stacked
    <3>. QED  BY <3>3, <3>4
  <2>7. ASSUME NEW g
        PROVE  Removing(g)' <=> Removing(g)
    <3>1. CASE g = f
      BY <2>6, <3>1 DEF Removing
    <3>2. CASE g # f
      BY <2>4, <2>5, <3>2 DEF Removing
    <3>. QED  BY <3>1, <3>2
  <2>. QED  BY <2>4, <2>7
<1>5. Removing(f)
  BY <1>1 DEF Stacked, Removing
<1>. HIDE DEF f, l
<1>6. ListedOnce(node) /\ \A k \in Levels : At(node'[k]) = At(node[k]) \ {f}
  BY <1>2, <1>3, RemoveFrameLists DEF Lists
<1>7. ListedOnce(node)'
  BY <1>2, <1>3, <1>6, RemoveFrameOnce
<1>8. ListsServe'
  <2>1. (\A k \in Levels : \A g \in At(node[k]) : frame[g].visible \/ Stacked("RemoveFrame", g))'
    BY <1>3, <1>4, <1>6 DEF Lists, ListsServe
  <2>2. ("shifted" \notin quirks => \A k \in Levels : \A g \in At(node[k]) : frame[g].level = k)'
    BY <1>3, <1>6 DEF Lists, ListsServe
  <2>3. ("reshown" \notin quirks => \A g \in Made : frame[g].visible => OnLists(node, g))'
    <3>1. "reshown" \notin quirks => ~ frame[f].visible
      BY <1>2, <1>5 DEF Lists, HiddenStays
    <3>2. \A g : g # f /\ OnLists(node, g) => OnLists(node, g)'
      BY <1>6 DEF OnLists
    <3>. QED  BY <1>2, <1>3, <3>1, <3>2 DEF Lists, ListsServe
  <2>4. ("late" \notin quirks => \A k \in Levels : node[k].pendingFrames = <<>>)'
    <3>1. ASSUME NEW k \in Levels, node[k].pendingFrames = <<>>
          PROVE  node'[k].pendingFrames = <<>>
      <4>1. node'[k].pendingFrames = Unlink(<<>>, f)
        BY <1>3, <3>1 DEF RemoveFrame
      <4>. QED  BY <4>1 DEF Unlink
    <3>. QED  BY <1>3, <3>1 DEF Lists, ListsServe
  <2>. QED  BY <2>1, <2>2, <2>3, <2>4 DEF ListsServe
<1>9. HiddenStays'
  BY <1>2, <1>3, <1>4 DEF Lists, HiddenStays
<1>. QED  BY <1>7, <1>8, <1>9 DEF Lists

LEMMA HideChildrenLists ==
    ASSUME FramesTypeOK, StackOK, Lists, HideChildren
    PROVE  Lists'
<1>. DEFINE f == calls[1].frame
            n == calls[1].arg
            child == frame[f].children[n]
<1>1. calls # <<>> /\ calls[1].op = "HideChildren" /\ CallFits(calls[1], Made)
      /\ Members(calls) = {calls[1]} \cup Behind
  BY FirstCall DEF StackOK, HideChildren, Running, Behind
<1>2. /\ f \in Made /\ Made' = Made
      /\ Members(calls') = (IF n > Len(frame[f].children) THEN {Script(f)}
                            ELSE {Call("HideThis", child, 0), Call("HideChildren", f, n + 1)}) \cup Behind
  BY <1>1, HideChildrenSound DEF CallFits
<1>3. node' = node /\ frame' = frame /\ quirks \subseteq quirks'
  BY DEF HideChildren, drawn
<1>4. \A g : /\ Stacked("RemoveFrame", g)' <=> Stacked("RemoveFrame", g)
             /\ Removing(g)' => Removing(g)
  <2>1. /\ Call("HideThis", child, 0).op = "HideThis" /\ Script(f).op = "Script"
        /\ Call("HideChildren", f, n + 1).op = "HideChildren"
        /\ Call("HideChildren", f, n + 1).frame = f
    BY DEF Call, Script
  <2>2. \A c \in Members(calls') : c \in Behind \/ c.op \in {"HideThis", "Script"}
                                    \/ (c.op = "HideChildren" /\ c.frame = f)
    BY <1>2, <2>1
  <2>3. Behind \subseteq Members(calls')
    BY <1>2
  <2>4. \A g : Stacked("RemoveFrame", g)' <=> Stacked("RemoveFrame", g)
    BY <1>1, <2>2, <2>3 DEF Stacked
  <2>5. \A g : Stacked("HideChildren", g)' => Stacked("HideChildren", g)
    BY <1>1, <2>2, <2>3 DEF Stacked
  <2>. QED  BY <2>4, <2>5 DEF Removing
<1>. HIDE DEF f, n, child
<1>5. ListedOnce(node)'
  BY <1>3 DEF Lists, ListedOnce
<1>6. \A g : OnLists(node, g)' <=> OnLists(node, g)
  BY <1>3 DEF OnLists
<1>7. ListsServe'
  <2>1. (\A l \in Levels : \A g \in At(node[l]) : frame[g].visible \/ Stacked("RemoveFrame", g))'
    BY <1>3, <1>4 DEF Lists, ListsServe
  <2>2. ("shifted" \notin quirks => \A l \in Levels : \A g \in At(node[l]) : frame[g].level = l)'
    BY <1>3 DEF Lists, ListsServe
  <2>3. ("reshown" \notin quirks => \A g \in Made : frame[g].visible => OnLists(node, g))'
    BY <1>2, <1>3, <1>6 DEF Lists, ListsServe
  <2>4. ("late" \notin quirks => \A l \in Levels : node[l].pendingFrames = <<>>)'
    BY <1>3 DEF Lists, ListsServe
  <2>. QED  BY <2>1, <2>2, <2>3, <2>4 DEF ListsServe
<1>8. HiddenStays'
  BY <1>2, <1>3, <1>4 DEF Lists, HiddenStays
<1>. QED  BY <1>5, <1>7, <1>8 DEF Lists

LEMMA ShowThisLists ==
    ASSUME FramesTypeOK, StackOK, Sound', Lists, ShowThis
    PROVE  Lists'
<1>. DEFINE f == calls[1].frame
            l == frame[f].level
<1>1. calls # <<>> /\ calls[1].op = "ShowThis" /\ CallFits(calls[1], Made)
      /\ Members(calls) = {calls[1]} \cup Behind
  BY FirstCall DEF StackOK, ShowThis, Running, Behind
<1>2. f \in Made /\ Made' = Made /\ l \in Levels
  BY <1>1, ShowThisSound DEF CallFits, FramesTypeOK, FrameRecords
<1>3. RemovalsSame
  <2>1. Watched' = Watched
    BY PlainCalls DEF Plain
  <2>2. \A c : c.op \in WatchedOps => (c \in Members(calls) <=> c \in Watched)
    BY DEF Watched
  <2>3. \A c : c.op \in WatchedOps => (c \in Members(calls') <=> c \in Watched')
    BY DEF Watched
  <2>. QED  BY <2>1, <2>2, <2>3 DEF RemovalsSame, WatchedOps
<1>4. CASE ~ MayShow(f)
  <2>1. node' = node /\ frame' = frame /\ quirks' = quirks
    BY <1>4 DEF ShowThis
  <2>. QED  BY <1>2, <1>3, <2>1, ListsStay DEF Placed, ListsSame, QuirksGrow
<1>5. CASE MayShow(f)
  <2>1. /\ frame' = [frame EXCEPT ![f].visible = TRUE]
        /\ node' = AddFrame(node, f, l)
        /\ quirks \subseteq quirks'
        /\ "reshown" \notin quirks' => ~ BeingHidden(f)
        /\ "late" \notin quirks' => ~ Waits(f, node')
    BY <1>5 DEF ShowThis
  <2>2. \A g \in Made : /\ g # f => frame'[g] = frame[g]
                        /\ frame'[g].level = frame[g].level
    BY <1>2, <2>1 DEF FramesTypeOK, FrameRecords
  <2>3. frame'[f].visible
    BY <1>2, <2>1 DEF FramesTypeOK, FrameRecords
  <2>4. \A g : /\ Stacked("RemoveFrame", g)' <=> Stacked("RemoveFrame", g)
               /\ Removing(g)' <=> Removing(g)
    BY <1>3 DEF RemovalsSame, Stacked, Removing
  <2>5. BeingHidden(f) <=> Removing(f)
    BY PendingStacked DEF BeingHidden, Removing
  <2>. HIDE DEF f, l
  <2>6. node \in [Levels -> NodeRecords] /\ ListedOnce(node)
    BY DEF FramesTypeOK, Lists
  <2>7. \A k \in Levels : Adds(node', node, f, l, k)
    BY <1>2, <2>1, <2>6, AddFrameLists
  <2>8. ListedOnce(node') /\ OnLists(node', f)
    BY <1>2, <2>1, <2>6, AddFrameOnce
  <2>9. \A k \in Levels : \A g : g \in At(node'[k]) =>
            g \in At(node[k]) \/ (g = f /\ k = l)
    BY <2>7 DEF Adds
  <2>10. \A g : OnLists(node, g) => OnLists(node', g)
    BY <2>7 DEF Adds, OnLists
  <2>11. ListsServe'
    <3>1. (\A k \in Levels : \A g \in At(node[k]) : frame[g].visible \/ Stacked("RemoveFrame", g))'
      <4>1. ASSUME NEW k \in Levels, NEW g \in At(node'[k])
            PROVE  frame'[g].visible \/ Stacked("RemoveFrame", g)'
        <5>1. CASE g = f
          BY <2>3, <5>1
        <5>2. CASE g # f
          <6>1. g \in At(node[k]) /\ g \in Made
            BY <2>9, <4>1, <5>2, ListedMade
          <6>. QED  BY <2>2, <2>4, <5>2, <6>1 DEF Lists, ListsServe
        <5>. QED  BY <5>1, <5>2
      <4>. QED  BY <4>1
    <3>2. ("shifted" \notin quirks => \A k \in Levels : \A g \in At(node[k]) : frame[g].level = k)'
      <4>1. ASSUME "shifted" \notin quirks', NEW k \in Levels, NEW g \in At(node'[k])
            PROVE  frame'[g].level = k
        <5>1. CASE g \in At(node[k])
          <6>1. g \in Made
            BY <5>1, ListedMade
          <6>. QED  BY <2>1, <2>2, <4>1, <5>1, <6>1 DEF Lists, ListsServe
        <5>2. CASE g = f /\ k = l
          BY <1>2, <2>2, <5>2 DEF l
        <5>. QED  BY <2>9, <4>1, <5>1, <5>2
      <4>. QED  BY <4>1
    <3>3. ("reshown" \notin quirks => \A g \in Made : frame[g].visible => OnLists(node, g))'
      BY <1>2, <2>1, <2>2, <2>8, <2>10 DEF Lists, ListsServe
    <3>4. ("late" \notin quirks => \A k \in Levels : node[k].pendingFrames = <<>>)'
      <4>1. ASSUME "late" \notin quirks', NEW k \in Levels
            PROVE  node'[k].pendingFrames = <<>>
        <5>1. f \notin Members(node'[k].pendingFrames)
          <6>1. ~ Contains(node'[k].pendingFrames, f)
            BY <2>1, <4>1 DEF Waits
          <6>2. node'[k].pendingFrames \in Seq(Made)
            BY <1>2, ShowThisSound DEF FramesTypeOK, NodeRecords
          <6>. QED  BY <6>1, <6>2, LenProperties DEF Contains, Members
        <5>2. node'[k].pendingFrames = node[k].pendingFrames
          BY <2>7, <5>1 DEF Adds
        <5>. QED  BY <2>1, <4>1, <5>2 DEF Lists, ListsServe
      <4>. QED  BY <4>1
    <3>. QED  BY <3>1, <3>2, <3>3, <3>4 DEF ListsServe
  <2>12. HiddenStays'
    BY <1>2, <2>1, <2>2, <2>4, <2>5 DEF Lists, HiddenStays
  <2>. QED  BY <2>8, <2>11, <2>12 DEF Lists
<1>. QED  BY <1>4, <1>5

LEMMA SetFrameLevelLists ==
    ASSUME FramesAssumption, FramesTypeOK, StackOK, Sound', Lists, SetFrameLevel
    PROVE  Lists'
<1>. DEFINE f == calls[1].frame
            l == frame[f].level
            n == Clamped(l, calls[1].arg)
<1>1. calls # <<>> /\ calls[1].op = "SetFrameLevel" /\ CallFits(calls[1], Made)
      /\ Members(calls) = {calls[1]} \cup Behind
  BY FirstCall DEF StackOK, SetFrameLevel, Running, Behind
<1>2. f \in Made /\ Made' = Made /\ l \in Levels /\ n \in Nat
  BY <1>1, SetFrameLevelSound DEF CallFits
<1>3. RemovalsSame
  <2>1. Watched' = Watched
    BY PlainCalls DEF Plain
  <2>2. \A c : c.op \in WatchedOps => (c \in Members(calls) <=> c \in Watched)
    BY DEF Watched
  <2>3. \A c : c.op \in WatchedOps => (c \in Members(calls') <=> c \in Watched')
    BY DEF Watched
  <2>. QED  BY <2>1, <2>2, <2>3 DEF RemovalsSame, WatchedOps
<1>0. n <= MaxLevel /\ ~ (n > MaxLevel) /\ n \in Levels
  <2>1. n > MaxLevel => "overflow" \in quirks'
    BY SetFrameLevelSound
  <2>. QED  BY <1>2, <2>1 DEF Sound, FramesAssumption, Levels
<1>4. CASE n = l
  <2>1. node' = node /\ frame' = frame /\ quirks' = quirks
    BY <1>0, <1>4 DEF SetFrameLevel, drawn
  <2>. QED  BY <1>2, <1>3, <2>1, ListsStay DEF Placed, ListsSame, QuirksGrow
<1>5. CASE n # l
  <2>1. /\ frame' = [frame EXCEPT ![f].level = n] /\ quirks \subseteq quirks'
        /\ frame[f].visible => /\ node' = AddFrame(RemoveFrame(f, l), f, n)
                               /\ "late" \notin quirks' => ~ Waits(f, node')
        /\ ~ frame[f].visible => /\ node' = node
                                 /\ "shifted" \notin quirks' => ~ BeingHidden(f)
    BY <1>0, <1>5 DEF SetFrameLevel, drawn
  <2>2. \A g \in Made : /\ g # f => frame'[g] = frame[g]
                        /\ frame'[g].visible = frame[g].visible
    BY <1>2, <2>1 DEF FramesTypeOK, FrameRecords
  <2>3. frame'[f].level = n /\ \A g \in Made : frame'[g].visible <=> frame[g].visible
    <3>1. frame'[f].level = n
      BY <1>2, <2>1 DEF FramesTypeOK, FrameRecords
    <3>. QED  BY <2>2, <3>1, Zenon
  <2>4. \A g : /\ Stacked("RemoveFrame", g)' <=> Stacked("RemoveFrame", g)
               /\ Removing(g)' <=> Removing(g)
    BY <1>3 DEF RemovalsSame, Stacked, Removing
  <2>5. BeingHidden(f) <=> Removing(f)
    BY PendingStacked DEF BeingHidden, Removing
  <2>. HIDE DEF f, l, n
  <2>6. HiddenStays'
    BY <1>2, <2>1, <2>3, <2>4 DEF Lists, HiddenStays
  <2>7. CASE ~ frame[f].visible
    <3>1. \A k \in Levels : At(node'[k]) = At(node[k])
      BY <2>1, <2>7
    <3>2. ListedOnce(node')
      BY <2>1, <2>7 DEF Lists
    <3>3. \A g : OnLists(node, g)' <=> OnLists(node, g)
      BY <3>1 DEF OnLists
    <3>4. "shifted" \notin quirks' => \A k \in Levels : f \notin At(node[k])
      <4>1. \A k \in Levels : f \in At(node[k]) => Stacked("RemoveFrame", f)
        BY <2>7 DEF Lists, ListsServe
      <4>2. Stacked("RemoveFrame", f) => Removing(f)
        BY DEF Removing
      <4>. QED  BY <2>1, <2>5, <2>7, <4>1, <4>2
    <3>5. (\A k \in Levels : \A g \in At(node[k]) : frame[g].visible \/ Stacked("RemoveFrame", g))'
      BY <2>3, <2>4, <3>1, ListedMade DEF Lists, ListsServe
    <3>6. ("shifted" \notin quirks => \A k \in Levels : \A g \in At(node[k]) : frame[g].level = k)'
      <4>1. ASSUME "shifted" \notin quirks', NEW k \in Levels, NEW g \in At(node'[k])
            PROVE  frame'[g].level = k
        <5>1. g \in At(node[k]) /\ g \in Made /\ g # f
          BY <3>1, <3>4, <4>1, ListedMade
        <5>. QED  BY <2>1, <2>2, <4>1, <5>1 DEF Lists, ListsServe
      <4>. QED  BY <4>1
    <3>7. ("reshown" \notin quirks => \A g \in Made : frame[g].visible => OnLists(node, g))'
      BY <1>2, <2>1, <2>3, <3>3 DEF Lists, ListsServe
    <3>8. ("late" \notin quirks => \A k \in Levels : node[k].pendingFrames = <<>>)'
      BY <2>1, <2>7 DEF Lists, ListsServe
    <3>. QED  BY <2>6, <3>2, <3>5, <3>6, <3>7, <3>8 DEF Lists, ListsServe
  <2>8. CASE frame[f].visible
    <3>. DEFINE gone == RemoveFrame(f, l)
    <3>1. gone \in [Levels -> NodeRecords]
      BY <1>2, RemoveFrameType
    <3>2. ListedOnce(gone) /\ ~ OnLists(gone, f)
      BY <1>2, RemoveFrameOnce DEF Lists
    <3>3. \A k \in Levels : /\ At(gone[k]) = At(node[k]) \ {f}
                            /\ node[k].pendingFrames = <<>> => gone[k].pendingFrames = <<>>
      <4>1. ASSUME NEW k \in Levels
            PROVE  At(gone[k]) = At(node[k]) \ {f}
        BY <1>2, RemoveFrameLists DEF Lists
      <4>2. ASSUME NEW k \in Levels, node[k].pendingFrames = <<>>
            PROVE  gone[k].pendingFrames = <<>>
        <5>1. gone[k].pendingFrames = Unlink(<<>>, f)
          BY <4>2 DEF RemoveFrame
        <5>. QED  BY <5>1 DEF Unlink
      <4>. QED  BY <4>1, <4>2
    <3>4. node' = AddFrame(gone, f, n)
      BY <2>1, <2>8
    <3>. HIDE DEF gone
    <3>5. \A k \in Levels : Adds(node', gone, f, n, k)
      BY <1>0, <1>2, <3>1, <3>2, <3>4, AddFrameLists
    <3>6. ListedOnce(node') /\ OnLists(node', f)
      BY <1>0, <1>2, <3>1, <3>2, <3>4, AddFrameOnce
    <3>7. \A k \in Levels : \A g : g \in At(node'[k]) <=>
            (g \in At(node[k]) /\ g # f) \/ (g = f /\ k = n)
      <4>1. ASSUME NEW k \in Levels, NEW g
            PROVE  g \in At(node'[k]) <=> g \in At(gone[k]) \/ (g = f /\ k = n)
        <5>1. Adds(node', gone, f, n, k)
          BY <3>5
        <5>. QED  BY <3>2, <5>1 DEF Adds
      <4>2. ASSUME NEW k \in Levels, NEW g
            PROVE  g \in At(gone[k]) <=> g \in At(node[k]) /\ g # f
        BY <3>3
      <4>. QED  BY <4>1, <4>2
    <3>8. \A g : OnLists(node, g) => OnLists(node', g)
      BY <3>6, <3>7 DEF OnLists
    <3>9. (\A k \in Levels : \A g \in At(node[k]) : frame[g].visible \/ Stacked("RemoveFrame", g))'
      <4>1. ASSUME NEW k \in Levels, NEW g \in At(node'[k])
            PROVE  frame'[g].visible \/ Stacked("RemoveFrame", g)'
        <5>1. CASE g = f
          BY <1>2, <2>3, <2>8, <5>1
        <5>2. CASE g # f
          <6>1. g \in At(node[k]) /\ g \in Made
            BY <3>7, <4>1, <5>2, ListedMade
          <6>. QED  BY <2>3, <2>4, <6>1 DEF Lists, ListsServe
        <5>. QED  BY <5>1, <5>2
      <4>. QED  BY <4>1
    <3>10. ("shifted" \notin quirks => \A k \in Levels : \A g \in At(node[k]) : frame[g].level = k)'
      <4>1. ASSUME "shifted" \notin quirks', NEW k \in Levels, NEW g \in At(node'[k])
            PROVE  frame'[g].level = k
        <5>1. CASE g = f
          BY <2>3, <3>7, <4>1, <5>1
        <5>2. CASE g # f
          <6>1. g \in At(node[k]) /\ g \in Made
            BY <3>7, <4>1, <5>2, ListedMade
          <6>. QED  BY <2>1, <2>2, <4>1, <5>2, <6>1 DEF Lists, ListsServe
        <5>. QED  BY <5>1, <5>2
      <4>. QED  BY <4>1
    <3>11. ("reshown" \notin quirks => \A g \in Made : frame[g].visible => OnLists(node, g))'
      BY <1>2, <2>1, <2>3, <3>8 DEF Lists, ListsServe
    <3>12. ("late" \notin quirks => \A k \in Levels : node[k].pendingFrames = <<>>)'
      <4>1. ASSUME "late" \notin quirks', NEW k \in Levels
            PROVE  node'[k].pendingFrames = <<>>
        <5>1. f \notin Members(node'[k].pendingFrames)
          <6>1. ~ Contains(node'[k].pendingFrames, f)
            BY <2>1, <2>8, <4>1 DEF Waits
          <6>2. node'[k].pendingFrames \in Seq(Made)
            BY <1>2, SetFrameLevelSound DEF FramesTypeOK, NodeRecords
          <6>. QED  BY <6>1, <6>2, LenProperties DEF Contains, Members
        <5>2. node'[k].pendingFrames = gone[k].pendingFrames
          BY <3>5, <5>1 DEF Adds
        <5>. QED  BY <2>1, <3>3, <4>1, <5>2 DEF Lists, ListsServe
      <4>. QED  BY <4>1
    <3>. QED  BY <2>6, <3>6, <3>9, <3>10, <3>11, <3>12 DEF Lists, ListsServe
  <2>. QED  BY <2>7, <2>8
<1>. QED  BY <1>4, <1>5

LEMMA ListsKept ==
    ASSUME FramesAssumption, FramesTypeOK, StackOK, Lists, FramesNext, Sound'
    PROVE  Lists'
<1>1. CASE Aside
  BY <1>1, AsideLists, ListsStay
<1>2. CASE Elsewhere
  BY <1>2, ElsewhereLists, ListsStay DEF ListsSame
<1>3. CASE HideThis \/ Removed \/ HideChildren
  BY <1>3, HideThisLists, RemovedLists, HideChildrenLists
<1>4. CASE ShowThis \/ SetFrameLevel
  BY <1>4, ShowThisLists, SetFrameLevelLists
<1>. QED  BY <1>1, <1>2, <1>3, <1>4 DEF FramesNext, Aside, Elsewhere

-----------------------------------------------------------------------------
(* The loop over the frames of a level: what is left of it. *)

\* The members of a list from a place on.
From(line, i) == {line[j] : j \in {k \in 1..Len(line) : i <= k}}

LEMMA AheadOf ==
    ASSUME NEW S, NEW line \in Seq(S), NoRepeats(line), NEW i \in 1..Len(line), NEW g, line[i] = g
    PROVE  Ahead(line, g) = From(line, i)
<1>1. DOMAIN line = 1..Len(line) /\ Len(line) \in Nat
  BY LenProperties
<1>2. ASSUME NEW x, x \in Ahead(line, g)
      PROVE  \E j \in 1..Len(line) : i <= j /\ x = line[j]
  <2>1. PICK j \in 1..Len(line) : x = line[j] /\ \E k \in 1..j : line[k] = line[i]
    BY <1>1, <1>2 DEF Ahead
  <2>2. PICK k \in 1..j : line[k] = line[i]
    BY <2>1
  <2>3. k \in DOMAIN line /\ i \in DOMAIN line
    BY <1>1
  <2>4. k = i
    BY <2>2, <2>3 DEF NoRepeats
  <2>5. i <= j
    BY <2>4
  <2>. QED  BY <2>1, <2>5
<1>3. ASSUME NEW x, NEW j \in 1..Len(line), i <= j, x = line[j]
      PROVE  x \in Ahead(line, g)
  <2>1. i \in 1..j /\ j \in DOMAIN line
    BY <1>1, <1>3
  <2>. QED  BY <1>3, <2>1 DEF Ahead
<1>. QED  BY <1>2, <1>3 DEF From

LEMMA AheadOfNone ==
    ASSUME NEW S, NEW line \in Seq(S), NEW f, f \notin Members(line)
    PROVE  Ahead(line, f) = {}
<1>1. DOMAIN line = 1..Len(line) /\ Len(line) \in Nat
  BY LenProperties
<1>2. ASSUME NEW j \in DOMAIN line, NEW k \in 1..j, line[k] = f
      PROVE  FALSE
  <2>1. k \in DOMAIN line
    BY <1>1
  <2>. QED  BY <1>2, <2>1 DEF Members
<1>. QED  BY <1>2 DEF Ahead

LEMMA AheadWithout ==
    ASSUME NEW S, NEW line \in Seq(S), NoRepeats(line), NEW f, NEW g \in Members(line), f # g
    PROVE  Ahead(Unlink(line, f), g) = Ahead(line, g) \ {f}
<1>1. DOMAIN line = 1..Len(line) /\ Len(line) \in Nat
  BY LenProperties
<1>2. PICK q \in 1..Len(line) : line[q] = g
  BY <1>1 DEF Members
<1>3. \A x : x \in Ahead(line, g) <=> \E j \in 1..Len(line) : q <= j /\ x = line[j]
  <2>1. Ahead(line, g) = From(line, q)
    BY <1>2, AheadOf
  <2>. QED  BY <2>1 DEF From
<1>4. CASE \A i \in DOMAIN line : line[i] # f
  <2>1. Unlink(line, f) = line
    BY <1>4 DEF Unlink
  <2>2. f \notin Ahead(line, g)
    BY <1>1, <1>3, <1>4
  <2>. QED  BY <2>1, <2>2
<1>5. CASE \E i \in DOMAIN line : line[i] = f
  <2>1. PICK p : p = CHOOSE i \in DOMAIN line : line[i] = f
    OBVIOUS
  <2>2. p \in 1..Len(line) /\ line[p] = f /\ Unlink(line, f) = RemoveAt(line, p)
    BY <1>1, <1>5, <2>1 DEF Unlink
  <2>. DEFINE r == RemoveAt(line, p)
  <2>3. /\ r \in Seq(S) /\ Len(r) = Len(line) - 1
        /\ \A j \in 1..(Len(line) - 1) : /\ j < p => r[j] = line[j]
                                         /\ j >= p => r[j] = line[j + 1]
    BY <2>2, RemoveAtProperties
  <2>4. NoRepeats(r)
    BY <2>2, UnlinkProperties
  <2>. HIDE DEF r
  <2>5. DOMAIN r = 1..(Len(line) - 1)
    BY <2>3, LenProperties
  <2>6. p # q
    BY <1>2, <2>2
  <2>. DEFINE s == IF q < p THEN q ELSE q - 1
  <2>7. s \in 1..Len(r) /\ r[s] = g /\ s \in 1..(Len(line) - 1)
    <3>1. CASE q < p
      BY <1>1, <1>2, <2>2, <2>3, <3>1
    <3>2. CASE q > p
      <4>1. q - 1 \in 1..(Len(line) - 1) /\ q - 1 >= p /\ (q - 1) + 1 = q
        BY <1>1, <1>2, <2>2, <3>2
      <4>2. r[q - 1] = line[q]
        BY <2>3, <4>1
      <4>3. ~ (q < p)
        BY <1>1, <1>2, <2>2, <3>2
      <4>. QED  BY <1>2, <2>3, <4>1, <4>2, <4>3
    <3>. QED  BY <1>2, <2>2, <2>6, <3>1, <3>2
  <2>8. \A x : x \in Ahead(r, g) <=> \E j \in 1..Len(r) : s <= j /\ x = r[j]
    <3>. HIDE DEF s
    <3>1. Ahead(r, g) = From(r, s)
      BY <2>3, <2>4, <2>7, AheadOf
    <3>. QED  BY <3>1 DEF From
  <2>9. ASSUME NEW x, x \in Ahead(r, g)
        PROVE  x \in Ahead(line, g) /\ x # f
    <3>1. PICK j \in 1..(Len(line) - 1) : s <= j /\ x = r[j]
      BY <2>3, <2>8, <2>9
    <3>2. CASE j < p
      <4>1. j \in 1..Len(line) /\ q <= j /\ x = line[j] /\ j # p
        BY <1>1, <1>2, <2>2, <2>3, <2>7, <3>1, <3>2
      <4>2. x # f
        BY <1>1, <2>2, <4>1 DEF NoRepeats
      <4>. QED  BY <1>3, <4>1, <4>2
    <3>3. CASE j >= p
      <4>1. j + 1 \in 1..Len(line) /\ q <= j + 1 /\ x = line[j + 1] /\ j + 1 # p
        BY <1>1, <1>2, <2>2, <2>3, <2>7, <3>1, <3>3
      <4>2. x # f
        BY <1>1, <2>2, <4>1 DEF NoRepeats
      <4>. QED  BY <1>3, <4>1, <4>2
    <3>. QED  BY <2>2, <3>2, <3>3
  <2>10. ASSUME NEW x, x \in Ahead(line, g), x # f
         PROVE  x \in Ahead(r, g)
    <3>1. PICK j \in 1..Len(line) : q <= j /\ x = line[j]
      BY <1>3, <2>10
    <3>2. j # p
      BY <2>2, <2>10, <3>1
    <3>3. CASE j < p
      <4>1. j \in 1..Len(r) /\ s <= j
        BY <1>1, <1>2, <2>2, <2>3, <3>1, <3>3
      <4>2. x = r[j]
        BY <1>1, <2>2, <2>3, <3>1, <3>3, <4>1
      <4>. QED  BY <2>8, <4>1, <4>2
    <3>4. CASE j > p
      <4>1. j - 1 \in 1..(Len(line) - 1) /\ j - 1 >= p /\ (j - 1) + 1 = j /\ s <= j - 1
        BY <1>1, <1>2, <2>2, <2>6, <3>1, <3>4
      <4>2. x = r[j - 1]
        BY <2>3, <3>1, <4>1
      <4>3. j - 1 \in 1..Len(r)
        BY <2>3, <4>1
      <4>. QED  BY <2>8, <4>1, <4>2, <4>3
    <3>. QED  BY <2>2, <3>1, <3>2, <3>3, <3>4
  <2>11. Ahead(r, g) = Ahead(line, g) \ {f}
    BY <2>9, <2>10
  <2>. QED  BY <2>2, <2>11 DEF r
<1>. QED  BY <1>4, <1>5

\* The frame that follows in the list of a level.
LEMMA NextInList ==
    ASSUME FramesTypeOK, ListedOnce(node), NEW l \in Levels, NEW i \in 1..Len(node[l].frames)
    PROVE  NextFrame(node[l].frames[i]) =
                IF i = Len(node[l].frames) THEN Nil ELSE node[l].frames[i + 1]
<1>. DEFINE fs == node[l].frames
            f == fs[i]
            lists == {node[k].frames : k \in Levels} \cup {node[k].pendingFrames : k \in Levels}
            after == UNION {{line[j + 1] : j \in {n \in 1..(Len(line) - 1) : line[n] = f}} :
                                line \in lists}
<1>1. NextFrame(f) = IF after = {} THEN Nil ELSE CHOOSE g \in after : TRUE
  BY DEF NextFrame
<1>2. \A k \in Levels : node[k].frames \in Seq(Made) /\ node[k].pendingFrames \in Seq(Made)
  BY DEF FramesTypeOK, NodeRecords
<1>3. DOMAIN fs = 1..Len(fs) /\ Len(fs) \in Nat /\ i \in DOMAIN fs
  BY <1>2, LenProperties
<1>4. f \in Members(fs) /\ f \in At(node[l])
  BY <1>3 DEF Members, At
<1>5. ASSUME NEW x \in after
      PROVE  i < Len(fs) /\ x = fs[i + 1]
  <2>1. PICK line \in lists : \E j \in 1..(Len(line) - 1) : line[j] = f /\ x = line[j + 1]
    BY <1>5
  <2>2. PICK j \in 1..(Len(line) - 1) : line[j] = f /\ x = line[j + 1]
    BY <2>1
  <2>3. line \in Seq(Made)
    BY <1>2, <2>1
  <2>4. j \in DOMAIN line /\ Len(line) \in Nat
    BY <2>3, LenProperties
  <2>5. f \in Members(line)
    BY <2>2, <2>4 DEF Members
  <2>6. line = fs
    <3>1. PICK k \in Levels : line = node[k].frames \/ line = node[k].pendingFrames
      BY <2>1
    <3>2. f \in At(node[k])
      BY <2>5, <3>1 DEF At
    <3>3. k = l
      BY <1>4, <3>2 DEF ListedOnce
    <3>4. f \notin Members(node[l].pendingFrames)
      BY <1>4 DEF ListedOnce
    <3>. QED  BY <2>5, <3>1, <3>3, <3>4
  <2>7. j = i
    BY <1>3, <2>2, <2>4, <2>6 DEF ListedOnce, NoRepeats
  <2>. QED  BY <1>3, <2>2, <2>6, <2>7
<1>6. ASSUME i < Len(fs)
      PROVE  fs[i + 1] \in after
  <2>1. fs \in lists
    OBVIOUS
  <2>2. i \in 1..(Len(fs) - 1)
    BY <1>3, <1>6
  <2>. HIDE DEF lists, fs
  <2>3. fs[i + 1] \in {fs[j + 1] : j \in {n \in 1..(Len(fs) - 1) : fs[n] = f}}
    BY <2>2
  <2>. QED  BY <2>1, <2>3
<1>. HIDE DEF after
<1>7. CASE i = Len(fs)
  <2>1. after = {}
    BY <1>3, <1>5, <1>7
  <2>. QED  BY <1>1, <1>7, <2>1
<1>8. CASE i < Len(fs)
  <2>1. after = {fs[i + 1]}
    BY <1>5, <1>6, <1>8
  <2>2. (CHOOSE g \in after : TRUE) = fs[i + 1]
    BY <2>1
  <2>3. i # Len(fs)
    BY <1>3, <1>8
  <2>. QED  BY <1>1, <2>1, <2>2, <2>3
<1>. QED  BY <1>3, <1>7, <1>8

LEMMA AheadOfNext ==
    ASSUME FramesAssumption, FramesTypeOK, ListedOnce(node), NEW l \in Levels,
           NEW f \in Members(node[l].frames)
    PROVE  /\ Ahead(node[l].frames, NextFrame(f)) = Ahead(node[l].frames, f) \ {f}
           /\ NextFrame(f) # f
           /\ NextFrame(f) # Nil => NextFrame(f) \in Members(node[l].frames)
<1>. DEFINE fs == node[l].frames
<1>1. fs \in Seq(Made) /\ NoRepeats(fs) /\ Nil \notin Made
  BY FramesAssumption DEF FramesTypeOK, NodeRecords, ListedOnce, FramesAssumption
<1>2. DOMAIN fs = 1..Len(fs) /\ Len(fs) \in Nat /\ \A i \in 1..Len(fs) : fs[i] \in Made
  BY <1>1, LenProperties, ElementOfSeq
<1>3. PICK i \in 1..Len(fs) : fs[i] = f
  BY <1>2 DEF Members
<1>4. NextFrame(f) = IF i = Len(fs) THEN Nil ELSE fs[i + 1]
  BY <1>3, NextInList
<1>. HIDE DEF fs
<1>5. Ahead(fs, f) = From(fs, i)
  BY <1>1, <1>3, AheadOf
<1>6. CASE i = Len(fs)
  <2>1. NextFrame(f) = Nil /\ Nil \notin Members(fs)
    BY <1>1, <1>2, <1>4, <1>6 DEF Members
  <2>2. Ahead(fs, Nil) = {}
    BY <1>1, <2>1, AheadOfNone
  <2>3. From(fs, i) = {f}
    BY <1>2, <1>3, <1>6 DEF From
  <2>4. Nil # f
    BY <1>1, <1>2, <1>3
  <2>. QED  BY <1>5, <2>1, <2>2, <2>3, <2>4 DEF fs
<1>7. CASE i # Len(fs)
  <2>1. i + 1 \in 1..Len(fs) /\ NextFrame(f) = fs[i + 1] /\ i < Len(fs)
    BY <1>2, <1>3, <1>4, <1>7
  <2>2. PICK g : g = fs[i + 1]
    OBVIOUS
  <2>3. Ahead(fs, g) = From(fs, i + 1)
    BY <1>1, <2>1, <2>2, AheadOf
  <2>4. \A j \in 1..Len(fs) : fs[j] = f => j = i
    BY <1>2, <1>3, <1>1 DEF NoRepeats
  <2>5. g # f
    BY <1>2, <1>3, <2>1, <2>2, <2>4
  <2>6. From(fs, i + 1) = From(fs, i) \ {f}
    <3>1. ASSUME NEW j \in 1..Len(fs)
          PROVE  i + 1 <= j <=> i <= j /\ fs[j] # f
      BY <1>2, <1>3, <2>4
    <3>. QED  BY <3>1 DEF From
  <2>7. g \in Members(fs)
    BY <1>2, <2>1, <2>2 DEF Members
  <2>. QED  BY <1>5, <2>1, <2>2, <2>3, <2>5, <2>6, <2>7 DEF fs
<1>. QED  BY <1>6, <1>7

\* The loop goes on behind a frame that is removed.
GoesOn(n, line, next, f) ==
    /\ n.pendingFrame # Nil => n.pendingFrame \in Members(n.frames)
    /\ Ahead(n.frames, n.pendingFrame) = Ahead(line, next) \ {f}

LEMMA RemovalGoesOn ==
    ASSUME FramesAssumption, FramesTypeOK, ListedOnce(node), NEW f \in Made, NEW l \in Levels,
           NEW k \in Levels, f \in At(node[k]) => k = l, NEW next, node[k].pendingFrame = next,
           next # Nil => next \in Members(node[k].frames)
    PROVE  GoesOn(RemoveFrame(f, l)[k], node[k].frames, next, f)
<1>. DEFINE fs == node[k].frames
            n == RemoveFrame(f, l)[k]
<1>1. fs \in Seq(Made) /\ NoRepeats(fs) /\ Nil \notin Made
  BY FramesAssumption DEF FramesTypeOK, NodeRecords, ListedOnce, FramesAssumption
<1>2. n.frames = Unlink(fs, f)
      /\ n.pendingFrame = IF k = l /\ next = f THEN NextFrame(f) ELSE next
  BY DEF RemoveFrame
<1>3. n.frames \in Seq(Made) /\ Members(n.frames) = Members(fs) \ {f}
  BY <1>1, <1>2, UnlinkProperties
<1>4. Nil \notin Members(fs)
  BY <1>1, ElementOfSeq, LenProperties DEF Members
<1>. HIDE DEF n
<1>5. Ahead(fs, Nil) = {} /\ Ahead(n.frames, Nil) = {}
  <2>1. Ahead(fs, Nil) = {}
    BY <1>1, <1>4, AheadOfNone
  <2>2. Nil \notin Members(n.frames)
    BY <1>3, <1>4
  <2>3. Ahead(n.frames, Nil) = {}
    BY <1>3, <2>2, AheadOfNone
  <2>. QED  BY <2>1, <2>3
<1>6. CASE next = Nil
  <2>1. n.pendingFrame = Nil
    BY <1>1, <1>2, <1>6
  <2>. QED  BY <1>5, <1>6, <2>1 DEF GoesOn, n
<1>7. CASE next # Nil /\ next # f
  <2>1. n.pendingFrame = next /\ next \in Members(fs)
    BY <1>2, <1>7
  <2>2. Ahead(Unlink(fs, f), next) = Ahead(fs, next) \ {f}
    <3>. HIDE DEF fs
    <3>. QED  BY <1>1, <1>7, <2>1, AheadWithout
  <2>3. n.pendingFrame \in Members(n.frames)
    BY <1>3, <1>7, <2>1
  <2>4. Ahead(n.frames, n.pendingFrame) = Ahead(fs, next) \ {f}
    BY <1>2, <2>1, <2>2
  <2>. QED  BY <2>3, <2>4 DEF GoesOn, n
<1>8. CASE next # Nil /\ next = f
  <2>1. f \in Members(fs) /\ k = l
    BY <1>8 DEF At
  <2>2. PICK g : g = NextFrame(f)
    OBVIOUS
  <2>3. /\ Ahead(fs, g) = Ahead(fs, f) \ {f} /\ g # f
        /\ g # Nil => g \in Members(fs)
    <3>1. /\ Ahead(fs, NextFrame(f)) = Ahead(fs, f) \ {f}
          /\ NextFrame(f) # f
          /\ NextFrame(f) # Nil => NextFrame(f) \in Members(fs)
      BY <2>1, AheadOfNext
    <3>. QED  BY <2>2, <3>1
  <2>4. n.pendingFrame = g
    BY <1>2, <1>8, <2>1, <2>2
  <2>5. CASE g = Nil
    <3>1. Ahead(fs, f) \ {f} = {}
      BY <1>5, <2>3, <2>5
    <3>. QED  BY <1>5, <1>8, <2>4, <2>5, <3>1 DEF GoesOn, n
  <2>6. CASE g # Nil
    <3>1. Ahead(Unlink(fs, f), g) = Ahead(fs, g) \ {f}
      <4>. HIDE DEF fs
      <4>. QED  BY <1>1, <2>3, <2>6, AheadWithout
    <3>2. Ahead(n.frames, g) = Ahead(fs, f) \ {f}
      BY <1>2, <2>3, <3>1
    <3>3. g \in Members(n.frames)
      BY <1>3, <2>3, <2>6
    <3>. QED  BY <1>8, <2>4, <3>2, <3>3 DEF GoesOn, n
  <2>. QED  BY <2>5, <2>6
<1>. QED  BY <1>6, <1>7, <1>8

\* A frame that is added is not before the loop.
LEMMA AdditionGoesOn ==
    ASSUME FramesAssumption, NEW nodes \in [Levels -> NodeRecords], Made \subseteq Frame,
           NEW f \in Made, NEW l \in Levels, NEW k \in Levels,
           nodes[k].pendingFrame # Nil => nodes[k].pendingFrame \in Members(nodes[k].frames)
    PROVE  LET n == AddFrame(nodes, f, l)[k]
           IN  /\ n.pendingFrame = nodes[k].pendingFrame
               /\ n.pendingFrame # Nil => n.pendingFrame \in Members(n.frames)
               /\ Ahead(n.frames, n.pendingFrame) = Ahead(nodes[k].frames, nodes[k].pendingFrame)
<1>. DEFINE n == AddFrame(nodes, f, l)[k]
<1>1. /\ nodes[k] \in NodeRecords /\ nodes[l] \in NodeRecords
      /\ nodes[k].frames \in Seq(Made) /\ Nil \notin Made
  BY FramesAssumption DEF NodeRecords, FramesAssumption
<1>2. \/ n = nodes[k]
      \/ n.frames = nodes[k].frames /\ n.pendingFrame = nodes[k].pendingFrame
      \/ /\ n.frames = Append(nodes[k].frames, f) /\ n.pendingFrame = nodes[k].pendingFrame
         /\ nodes[k].pendingFrame = Nil
  <2>1. \/ AddFrame(nodes, f, l) = nodes
        \/ AddFrame(nodes, f, l) = [nodes EXCEPT ![l].pendingFrames = Append(@, f)]
        \/ /\ nodes[l].pendingFrame = Nil
           /\ AddFrame(nodes, f, l) = [nodes EXCEPT ![l].frames = Append(@, f)]
    BY DEF AddFrame
  <2>2. CASE k # l
    BY <2>1, <2>2
  <2>3. CASE k = l
    BY <1>1, <2>1, <2>3 DEF NodeRecords
  <2>. QED  BY <2>2, <2>3
<1>. HIDE DEF n
<1>3. CASE n.frames = nodes[k].frames /\ n.pendingFrame = nodes[k].pendingFrame
  BY <1>3 DEF n
<1>4. CASE /\ n.frames = Append(nodes[k].frames, f) /\ n.pendingFrame = nodes[k].pendingFrame
           /\ nodes[k].pendingFrame = Nil
  <2>1. n.frames \in Seq(Made)
    BY <1>1, <1>4, AppendProperties
  <2>2. Nil \notin Members(n.frames)
    BY <1>1, <2>1, ElementOfSeq, LenProperties DEF Members
  <2>3. Nil \notin Members(nodes[k].frames)
    BY <1>1, ElementOfSeq, LenProperties DEF Members
  <2>4. Ahead(n.frames, Nil) = {} /\ Ahead(nodes[k].frames, Nil) = {}
    <3>1. Ahead(n.frames, Nil) = {}
      BY <2>1, <2>2, AheadOfNone
    <3>2. Ahead(nodes[k].frames, Nil) = {}
      BY <1>1, <2>3, AheadOfNone
    <3>. QED  BY <3>1, <3>2
  <2>. QED  BY <1>4, <2>4 DEF n
<1>. QED  BY <1>2, <1>3, <1>4

\* While a level is updated, what is due is what is ahead of the loop.
Updating(l) == \E c \in Members(calls) : c.op = "UpdateNode" /\ c.arg = l
LoopStands(l) ==
    /\ node[l].pendingFrame # Nil => Updating(l)
    /\ Updating(l) /\ "shifted" \notin quirks =>
        /\ node[l].pendingFrame # Nil => node[l].pendingFrame \in Members(node[l].frames)
        /\ due = Ahead(node[l].frames, node[l].pendingFrame)
LoopKept == \A l \in Levels : LoopStands(l)

LEMMA LoopStays ==
    ASSUME LoopKept, LoopSame, node' = node, due' = due, QuirksGrow
    PROVE  LoopKept'
<1>1. \A l : Updating(l)' <=> Updating(l)
  BY DEF Updating, LoopSame
<1>. QED  BY <1>1 DEF LoopKept, LoopStands, QuirksGrow

LEMMA UpdateLevelLoop ==
    ASSUME FramesAssumption, FramesTypeOK, StackOK, Lists, LoopKept, UpdateLevel
    PROVE  LoopKept'
<1>1. calls # <<>> /\ calls[1].op = "UpdateLevel" /\ Members(calls) = {calls[1]}
  <2>1. calls # <<>> /\ calls[1].op = "UpdateLevel"
    BY DEF UpdateLevel, Running
  <2>. QED  BY <2>1, FirstCall DEF StackOK, Lasts
<1>2. \A k : ~ Updating(k)
  BY <1>1 DEF Updating
<1>3. \A k \in Levels : node[k].pendingFrame = Nil
  BY <1>2 DEF LoopKept, LoopStands
<1>4. PICK l : l = Min(LevelsLeft)
  OBVIOUS
<1>5. l \in Levels /\ l \in LevelsLeft /\ Members(calls') = {Call("UpdateNode", Nil, l)}
  BY <1>4, UpdateLevelSound
<1>6. /\ node' = [node EXCEPT ![l].pendingFrame = Head(node[l].frames)]
      /\ due' = ToSet(node[l].frames) /\ quirks' = quirks
  BY <1>4 DEF UpdateLevel
<1>. DEFINE fs == node[l].frames
<1>7. fs \in Seq(Made) /\ NoRepeats(fs) /\ fs # <<>>
  BY <1>5 DEF FramesTypeOK, NodeRecords, LevelsLeft, Lists, ListedOnce
<1>8. /\ DOMAIN fs = 1..Len(fs) /\ Len(fs) \in Nat /\ 1 \in 1..Len(fs)
      /\ Head(fs) = fs[1]
  BY <1>7, LenProperties, EmptySeq
<1>9. \A k \in Levels : /\ node'[k].frames = node[k].frames
                        /\ node'[k].pendingFrame = IF k = l THEN fs[1] ELSE node[k].pendingFrame
  BY <1>5, <1>6, <1>8 DEF FramesTypeOK, NodeRecords
<1>10. \A k : Updating(k)' <=> k = l
  BY <1>5 DEF Updating, Call
<1>11. fs[1] \in Members(fs) /\ due' = Ahead(fs, fs[1])
  <2>. HIDE DEF fs
  <2>1. PICK g : g = fs[1]
    OBVIOUS
  <2>2. Ahead(fs, g) = From(fs, 1)
    BY <1>7, <1>8, <2>1, AheadOf
  <2>3. From(fs, 1) = ToSet(fs)
    BY <1>8 DEF From, ToSet
  <2>4. due' = ToSet(fs)
    BY <1>6 DEF fs
  <2>. QED  BY <1>8, <2>1, <2>2, <2>3, <2>4 DEF Members
<1>12. ASSUME NEW k \in Levels
       PROVE  LoopStands(k)'
  <2>1. CASE k = l
    BY <1>9, <1>10, <1>11, <2>1 DEF LoopStands
  <2>2. CASE k # l
    BY <1>3, <1>9, <1>10, <2>2 DEF LoopStands
  <2>. QED  BY <2>1, <2>2
<1>. QED  BY <1>12 DEF LoopKept

LEMMA UpdateNodeLoop ==
    ASSUME FramesAssumption, FramesTypeOK, StackOK, Lists, LoopKept, UpdateNode
    PROVE  LoopKept'
<1>1. calls # <<>> /\ calls[1].op = "UpdateNode" /\ Members(calls) = {calls[1]}
  <2>1. calls # <<>> /\ calls[1].op = "UpdateNode"
    BY DEF UpdateNode, Running
  <2>. QED  BY <2>1, FirstCall DEF StackOK, Lasts
<1>2. PICK l : l = calls[1].arg
  OBVIOUS
<1>3. PICK f : f = node[l].pendingFrame
  OBVIOUS
<1>4. \A k : Updating(k) <=> k = l
  BY <1>1, <1>2 DEF Updating
<1>5. \A k \in Levels : k # l => node[k].pendingFrame = Nil
  BY <1>4 DEF LoopKept, LoopStands
<1>6. /\ l \in Levels
      /\ f = Nil => Members(calls') = {Call("UpdateLevel", Nil, l + 1)}
      /\ f # Nil => Members(calls') = {Script(f), Call("UpdateNode", Nil, l)}
  BY <1>2, <1>3, UpdateNodeSound
<1>7. quirks' = quirks
  BY DEF UpdateNode
<1>8. CASE f = Nil
  <2>1. node' = node /\ due' = due
    BY <1>2, <1>3, <1>8 DEF UpdateNode
  <2>2. \A k : ~ Updating(k)'
    BY <1>6, <1>8 DEF Updating, Call
  <2>. QED  BY <1>3, <1>5, <1>8, <2>1, <2>2 DEF LoopKept, LoopStands
<1>9. CASE f # Nil
  <2>1. node' = [node EXCEPT ![l].pendingFrame = NextFrame(f)] /\ due' = due \ {f}
    BY <1>2, <1>3, <1>9 DEF UpdateNode
  <2>2. \A k : Updating(k)' <=> k = l
    <3>1. /\ Script(f).op = "Script" /\ Call("UpdateNode", Nil, l).op = "UpdateNode"
          /\ Call("UpdateNode", Nil, l).arg = l
      BY DEF Call, Script
    <3>. QED  BY <1>6, <1>9, <3>1 DEF Updating
  <2>3. \A k \in Levels : /\ node'[k].frames = node[k].frames
                          /\ node'[k].pendingFrame =
                                IF k = l THEN NextFrame(f) ELSE node[k].pendingFrame
    BY <1>6, <2>1 DEF FramesTypeOK, NodeRecords
  <2>4. ASSUME NEW k \in Levels
        PROVE  LoopStands(k)'
    <3>1. CASE k # l
      BY <1>5, <2>2, <2>3, <3>1 DEF LoopStands
    <3>2. CASE k = l /\ "shifted" \notin quirks
      <4>1. f \in Members(node[l].frames) /\ due = Ahead(node[l].frames, f)
        BY <1>3, <1>4, <1>6, <1>9, <3>2 DEF LoopKept, LoopStands
      <4>2. /\ Ahead(node[l].frames, NextFrame(f)) = Ahead(node[l].frames, f) \ {f}
            /\ NextFrame(f) # Nil => NextFrame(f) \in Members(node[l].frames)
        BY <1>6, <4>1, AheadOfNext DEF Lists
      <4>3. node'[l].frames = node[l].frames /\ node'[l].pendingFrame = NextFrame(f)
        BY <1>6, <2>3
      <4>. QED  BY <2>1, <2>2, <3>2, <4>1, <4>2, <4>3 DEF LoopStands
    <3>3. CASE k = l /\ "shifted" \in quirks
      BY <1>7, <2>2, <3>3 DEF LoopStands
    <3>. QED  BY <3>1, <3>2, <3>3
  <2>. QED  BY <2>4 DEF LoopKept
<1>. QED  BY <1>8, <1>9

\* Hiding: HideThis and HideChildren leave the lists alone, Removed does not.
LEMMA HidingLoop ==
    ASSUME FramesTypeOK, StackOK, LoopKept, HideThis \/ HideChildren
    PROVE  LoopKept'
<1>. DEFINE f == calls[1].frame
            n == calls[1].arg
            child == frame[f].children[n]
<1>1. /\ calls # <<>> /\ calls[1].op \in {"HideThis", "HideChildren"}
      /\ Members(calls) = {calls[1]} \cup Behind
  <2>1. calls # <<>> /\ calls[1].op \in {"HideThis", "HideChildren"}
    BY DEF HideThis, HideChildren, Running
  <2>. QED  BY <2>1, FirstCall DEF StackOK, Behind
<1>2. /\ Behind \subseteq Members(calls')
      /\ \A c \in Members(calls') : c \in Behind \/ c.op # "UpdateNode"
  <2>1. CASE HideThis
    <3>1. \/ Members(calls') = Behind
          \/ Members(calls') = {Call("RemoveFrame", f, 0)} \cup LeaveCalls(f, frame[f].eventmask) \cup Behind
      BY <2>1, HideThisSound
    <3>2. \A c \in LeaveCalls(f, frame[f].eventmask) : c.op = "CursorExit"
      BY DEF LeaveCalls, Call
    <3>. QED  BY <3>1, <3>2 DEF Call
  <2>2. CASE HideChildren
    <3>1. \/ Members(calls') = {Script(f)} \cup Behind
          \/ Members(calls') = {Call("HideThis", child, 0), Call("HideChildren", f, n + 1)} \cup Behind
      BY <2>2, HideChildrenSound
    <3>. QED  BY <3>1 DEF Call, Script
  <2>. QED  BY <2>1, <2>2
<1>3. LoopSame
  BY <1>1, <1>2 DEF LoopSame
<1>4. node' = node /\ due' = due /\ QuirksGrow
  BY DEF HideThis, HideChildren, drawn, histories, QuirksGrow
<1>. QED  BY <1>3, <1>4, LoopStays

LEMMA RemovedLoop ==
    ASSUME FramesAssumption, FramesTypeOK, StackOK, Lists, LoopKept, Removed
    PROVE  LoopKept'
<1>1. PICK f : f = calls[1].frame
  OBVIOUS
<1>2. PICK l : l = frame[f].level
  OBVIOUS
<1>3. /\ calls # <<>> /\ calls[1].op = "RemoveFrame" /\ CallFits(calls[1], Made)
      /\ Members(calls) = {calls[1]} \cup Behind
  BY FirstCall DEF StackOK, Removed, Running, Behind
<1>4. f \in Made /\ l \in Levels
  BY <1>1, <1>2, <1>3 DEF CallFits, FramesTypeOK, FrameRecords
<1>5. Members(calls') = {Call("HideChildren", f, 1)} \cup Behind
  BY <1>1, RemovedSound
<1>6. \A k : Updating(k)' <=> Updating(k)
  BY <1>3, <1>5 DEF Updating, Call
<1>7. node' = RemoveFrame(f, l) /\ due' = due \ {f} /\ quirks' = quirks
  BY <1>1, <1>2 DEF Removed
<1>8. ASSUME NEW k \in Levels
      PROVE  LoopStands(k)'
  <2>1. PICK next : next = node[k].pendingFrame
    OBVIOUS
  <2>2. node'[k].pendingFrame # Nil => next # Nil
    <3>1. node'[k].pendingFrame = IF k = l /\ next = f THEN NextFrame(f) ELSE next
      BY <1>7, <2>1 DEF RemoveFrame
    <3>2. f # Nil
      BY <1>4 DEF FramesAssumption, FramesTypeOK
    <3>. QED  BY <3>1, <3>2
  <2>3. node[k].pendingFrame # Nil => Updating(k)
    BY DEF LoopKept, LoopStands
  <2>4. CASE Updating(k) /\ "shifted" \notin quirks
    <3>1. /\ next # Nil => next \in Members(node[k].frames)
          /\ due = Ahead(node[k].frames, next)
      BY <2>1, <2>4 DEF LoopKept, LoopStands
    <3>2. f \in At(node[k]) => k = l
      BY <1>2, <2>4 DEF Lists, ListsServe
    <3>3. GoesOn(RemoveFrame(f, l)[k], node[k].frames, next, f)
      BY <1>4, <2>1, <3>1, <3>2, RemovalGoesOn DEF Lists
    <3>. QED  BY <1>6, <1>7, <2>4, <3>1, <3>3 DEF GoesOn, LoopStands
  <2>. QED  BY <1>6, <1>7, <2>1, <2>2, <2>3, <2>4 DEF LoopStands
<1>. QED  BY <1>8 DEF LoopKept

LEMMA AddFramePending ==
    ASSUME NEW nodes \in [Levels -> NodeRecords], NEW f, NEW l \in Levels, NEW k \in Levels
    PROVE  AddFrame(nodes, f, l)[k].pendingFrame = nodes[k].pendingFrame
<1>1. nodes[k] \in NodeRecords /\ nodes[l] \in NodeRecords
  OBVIOUS
<1>2. \/ AddFrame(nodes, f, l) = nodes
      \/ AddFrame(nodes, f, l) = [nodes EXCEPT ![l].pendingFrames = Append(@, f)]
      \/ AddFrame(nodes, f, l) = [nodes EXCEPT ![l].frames = Append(@, f)]
  BY DEF AddFrame
<1>3. CASE k # l
  BY <1>2, <1>3
<1>4. CASE k = l
  BY <1>1, <1>2, <1>4 DEF NodeRecords
<1>. QED  BY <1>3, <1>4

\* Showing, and shifting: the frame goes to the end of a list.
LEMMA ShowThisLoop ==
    ASSUME FramesAssumption, FramesTypeOK, StackOK, Sound', Lists, LoopKept, ShowThis
    PROVE  LoopKept'
<1>1. PICK f : f = calls[1].frame
  OBVIOUS
<1>2. PICK l : l = frame[f].level
  OBVIOUS
<1>3. f \in Made /\ l \in Levels
  <2>1. calls # <<>> /\ calls[1].op = "ShowThis" /\ CallFits(calls[1], Made)
    BY FirstCall DEF StackOK, ShowThis, Running
  <2>. QED  BY <1>1, <1>2, <2>1 DEF CallFits, FramesTypeOK, FrameRecords
<1>4. LoopSame /\ QuirksGrow /\ due' = due
  <2>1. Watched' = Watched
    BY PlainCalls DEF Plain
  <2>2. \A c : c.op \in WatchedOps => (c \in Members(calls) <=> c \in Watched)
    BY DEF Watched
  <2>3. \A c : c.op \in WatchedOps => (c \in Members(calls') <=> c \in Watched')
    BY DEF Watched
  <2>. QED  BY <2>1, <2>2, <2>3 DEF LoopSame, WatchedOps, ShowThis, QuirksGrow
<1>5. node' = node \/ node' = AddFrame(node, f, l)
  BY <1>1, <1>2 DEF ShowThis
<1>6. CASE node' = node
  BY <1>4, <1>6, LoopStays
<1>7. CASE node' = AddFrame(node, f, l)
  <2>1. \A k : Updating(k)' <=> Updating(k)
    BY <1>4 DEF Updating, LoopSame
  <2>2. ASSUME NEW k \in Levels
        PROVE  LoopStands(k)'
    <3>1. node'[k].pendingFrame = node[k].pendingFrame
      BY <1>3, <1>7, AddFramePending DEF FramesTypeOK
    <3>2. CASE Updating(k) /\ "shifted" \notin quirks
      <4>1. /\ node[k].pendingFrame # Nil => node[k].pendingFrame \in Members(node[k].frames)
            /\ due = Ahead(node[k].frames, node[k].pendingFrame)
        BY <3>2 DEF LoopKept, LoopStands
      <4>2. LET n == AddFrame(node, f, l)[k]
            IN  /\ n.pendingFrame # Nil => n.pendingFrame \in Members(n.frames)
                /\ Ahead(n.frames, n.pendingFrame) = Ahead(node[k].frames, node[k].pendingFrame)
        BY <1>3, <4>1, AdditionGoesOn DEF FramesTypeOK
      <4>. QED  BY <1>4, <1>7, <2>1, <3>2, <4>1, <4>2 DEF LoopStands
    <3>. QED  BY <1>4, <2>1, <3>1, <3>2 DEF LoopKept, LoopStands, QuirksGrow
  <2>. QED  BY <2>2 DEF LoopKept
<1>. QED  BY <1>5, <1>6, <1>7

LEMMA SetFrameLevelLoop ==
    ASSUME FramesAssumption, FramesTypeOK, StackOK, Sound', Lists, LoopKept, SetFrameLevel
    PROVE  LoopKept'
<1>1. PICK f : f = calls[1].frame
  OBVIOUS
<1>2. PICK l : l = frame[f].level
  OBVIOUS
<1>3. PICK n : n = Clamped(l, calls[1].arg)
  OBVIOUS
<1>4. f \in Made /\ l \in Levels /\ n \in Levels
  <2>1. f \in Made /\ l \in Levels /\ n \in Nat /\ (n > MaxLevel => "overflow" \in quirks')
    BY <1>1, <1>2, <1>3, SetFrameLevelSound
  <2>. QED  BY <2>1 DEF Sound, FramesAssumption, Levels
<1>5. LoopSame /\ QuirksGrow
  <2>1. Watched' = Watched
    BY PlainCalls DEF Plain
  <2>2. \A c : c.op \in WatchedOps => (c \in Members(calls) <=> c \in Watched)
    BY DEF Watched
  <2>3. \A c : c.op \in WatchedOps => (c \in Members(calls') <=> c \in Watched')
    BY DEF Watched
  <2>. QED  BY <2>1, <2>2, <2>3 DEF LoopSame, WatchedOps, SetFrameLevel, QuirksGrow
<1>6. \/ node' = node /\ due' = due
      \/ node' = AddFrame(RemoveFrame(f, l), f, n) /\ due' = due \ {f}
  BY <1>1, <1>2, <1>3 DEF SetFrameLevel, drawn
<1>7. CASE node' = node /\ due' = due
  BY <1>5, <1>7, LoopStays
<1>8. CASE node' = AddFrame(RemoveFrame(f, l), f, n) /\ due' = due \ {f}
  <2>1. \A k : Updating(k)' <=> Updating(k)
    BY <1>5 DEF Updating, LoopSame
  <2>2. PICK gone : gone = RemoveFrame(f, l)
    OBVIOUS
  <2>3. gone \in [Levels -> NodeRecords]
    BY <1>4, <2>2, RemoveFrameType
  <2>4. ASSUME NEW k \in Levels
        PROVE  LoopStands(k)'
    <3>1. PICK next : next = node[k].pendingFrame
      OBVIOUS
    <3>2. node'[k].pendingFrame = gone[k].pendingFrame
      BY <1>4, <1>8, <2>2, <2>3, AddFramePending
    <3>3. gone[k].pendingFrame # Nil => next # Nil
      <4>1. gone[k].pendingFrame = IF k = l /\ next = f THEN NextFrame(f) ELSE next
        BY <2>2, <3>1 DEF RemoveFrame
      <4>2. f # Nil
        BY <1>4 DEF FramesAssumption, FramesTypeOK
      <4>. QED  BY <4>1, <4>2
    <3>4. node[k].pendingFrame # Nil => Updating(k)
      BY DEF LoopKept, LoopStands
    <3>5. CASE Updating(k) /\ "shifted" \notin quirks
      <4>1. /\ next # Nil => next \in Members(node[k].frames)
            /\ due = Ahead(node[k].frames, next)
        BY <3>1, <3>5 DEF LoopKept, LoopStands
      <4>2. f \in At(node[k]) => k = l
        BY <1>2, <3>5 DEF Lists, ListsServe
      <4>3. GoesOn(RemoveFrame(f, l)[k], node[k].frames, next, f)
        BY <1>4, <3>1, <4>1, <4>2, RemovalGoesOn DEF Lists
      <4>4. /\ gone[k].pendingFrame # Nil => gone[k].pendingFrame \in Members(gone[k].frames)
            /\ Ahead(gone[k].frames, gone[k].pendingFrame) = due \ {f}
        BY <2>2, <4>1, <4>3 DEF GoesOn
      <4>5. LET m == AddFrame(gone, f, n)[k]
            IN  /\ m.pendingFrame # Nil => m.pendingFrame \in Members(m.frames)
                /\ Ahead(m.frames, m.pendingFrame) = Ahead(gone[k].frames, gone[k].pendingFrame)
        BY <1>4, <2>3, <4>4, AdditionGoesOn DEF FramesTypeOK
      <4>6. node'[k] = AddFrame(gone, f, n)[k]
        BY <1>8, <2>2
      <4>. QED  BY <1>8, <2>1, <3>4, <3>5, <4>4, <4>5, <4>6 DEF LoopStands
    <3>. QED  BY <1>5, <2>1, <3>1, <3>2, <3>3, <3>4, <3>5 DEF LoopStands, QuirksGrow
  <2>. QED  BY <2>4 DEF LoopKept
<1>. QED  BY <1>6, <1>7, <1>8

LEMMA LoopIsKept ==
    ASSUME FramesAssumption, FramesTypeOK, StackOK, Lists, LoopKept, FramesNext, Sound'
    PROVE  LoopKept'
<1>1. CASE Aside /\ ~ Update
  BY <1>1, AsideLists, LoopStays
<1>2. CASE Update
  BY <1>2, UpdateLevelLoop, UpdateNodeLoop DEF Update
<1>3. CASE Elsewhere
  BY <1>3, ElsewhereLists, LoopStays
<1>4. CASE HideThis \/ Removed \/ HideChildren
  BY <1>4, HidingLoop, RemovedLoop
<1>5. CASE ShowThis \/ SetFrameLevel
  BY <1>5, ShowThisLoop, SetFrameLevelLoop
<1>. QED  BY <1>1, <1>2, <1>3, <1>4, <1>5 DEF FramesNext, Aside, Elsewhere

-----------------------------------------------------------------------------
(* The tree of the frames: a frame is visible if it is shown and its       *)
(* parent is visible, but for the calls that are left.                     *)

\* A walk over the children has a frame before it.
LeftFor(c, f) ==
    \E i \in DOMAIN frame[c.frame].children : c.arg <= i /\ frame[c.frame].children[i] = f
Reaches(op, p, f) == \E c \in Members(calls) : c.op = op /\ c.frame = p /\ LeftFor(c, f)
\* A walk of SetBeingScrolled will show the frame again.
Rescrolled(f) ==
    \E c \in Members(calls) : c.op = "ScrollChildren" /\ c.frame = f /\ c.arg[2]
\* A visible frame is shown, or about to be hidden.
ShownFirst(f) == frame[f].visible => frame[f].shown \/ Stacked("HideThis", f)
\* A frame is listed by its parent, or will be.
ListedByParent(f) ==
    LET p == frame[f].parent
    IN  p # Nil => f \in Members(frame[p].children) \/ Stacked("Attach", f)
\* The parent of a visible frame is visible, or the hiding will come to the frame.
HiddenWith(f) ==
    LET p == frame[f].parent
    IN  p # Nil /\ frame[f].visible =>
            \/ frame[p].visible
            \/ Stacked("RemoveFrame", p) /\ f \in Members(frame[p].children)
            \/ Reaches("HideChildren", p, f) \/ Stacked("HideThis", f)
\* A shown frame of a visible parent is visible, or the showing will come to it.
ShownWith(f) ==
    LET p == frame[f].parent
    IN  /\ "orphaned" \notin quirks
        /\ frame[f].shown /\ ~ frame[f].visible
        /\ p # Nil => frame[p].visible
        => \/ Stacked("ShowThis", f) \/ Stacked("Reparent", f) \/ Stacked("Attach", f)
           \/ Rescrolled(f)
           \/ p # Nil /\ Reaches("ShowChildren", p, f)
\* Who hides a frame that is shown hid its parent, will give it another one, or
\* will show it again.
HiddenForReason(f) ==
    /\ "orphaned" \notin quirks
    /\ Stacked("HideThis", f) /\ frame[f].visible /\ frame[f].shown
    => \/ Stacked("Reparent", f) \/ Rescrolled(f)
       \/ frame[f].parent # Nil /\ ~ frame[frame[f].parent].visible
InTree(f) ==
    ShownFirst(f) /\ ListedByParent(f) /\ HiddenWith(f) /\ ShownWith(f) /\ HiddenForReason(f)
Astray == quirks \cap {"reshown", "unlisted"} # {}
TreeKept == ~ Astray => \A f \in Made : InTree(f)

\* What an action leaves alone of the tree.
TreeSame ==
    \A f \in Made : /\ frame'[f].shown <=> frame[f].shown
                    /\ frame'[f].visible <=> frame[f].visible
                    /\ frame'[f].parent = frame[f].parent
                    /\ frame'[f].children = frame[f].children
ChildrenGrow ==
    \A p \in Made : \A i \in DOMAIN frame[p].children :
        i \in DOMAIN frame'[p].children /\ frame'[p].children[i] = frame[p].children[i]
\* What is left of the calls: all but those of one operation.
StaysLeft(done) ==
    /\ \A op, f : op # done /\ Stacked(op, f) => Stacked(op, f)'
    /\ \A op, p, f : op # done /\ p \in Made /\ Reaches(op, p, f) => Reaches(op, p, f)'
    /\ \A f : done # "ScrollChildren" /\ Rescrolled(f) => Rescrolled(f)'

LEMMA CallsStayLeft ==
    ASSUME ChildrenGrow, NEW done, \A c \in Members(calls) : c.op # done => c \in Members(calls')
    PROVE  StaysLeft(done)
<1>1. \A op, f : op # done /\ Stacked(op, f) => Stacked(op, f)'
  BY DEF Stacked
<1>2. \A f : done # "ScrollChildren" /\ Rescrolled(f) => Rescrolled(f)'
  BY DEF Rescrolled
<1>3. \A op, p, f : op # done /\ p \in Made /\ Reaches(op, p, f) => Reaches(op, p, f)'
  <2>1. ASSUME NEW op, NEW p \in Made, NEW f, op # done, Reaches(op, p, f)
        PROVE  Reaches(op, p, f)'
    <3>1. PICK c \in Members(calls) : c.op = op /\ c.frame = p /\ LeftFor(c, f)
      BY <2>1 DEF Reaches
    <3>2. PICK i \in DOMAIN frame[p].children : c.arg <= i /\ frame[p].children[i] = f
      BY <3>1 DEF LeftFor
    <3>3. i \in DOMAIN frame'[p].children /\ frame'[p].children[i] = f
      BY <3>2 DEF ChildrenGrow
    <3>4. LeftFor(c, f)'
      BY <3>1, <3>2, <3>3 DEF LeftFor
    <3>5. c \in Members(calls')
      BY <2>1, <3>1
    <3>. QED  BY <3>1, <3>4, <3>5 DEF Reaches
  <2>. QED  BY <2>1
<1>. QED  BY <1>1, <1>2, <1>3 DEF StaysLeft

\* Only the first call is one of these.
LEMMA FirstsStacked ==
    ASSUME StackOK, calls # <<>>, NEW op \in Firsts, NEW f
    PROVE  Stacked(op, f) <=> calls[1].op = op /\ calls[1].frame = f
<1>1. Members(calls) = {calls[1]} \cup Behind /\ \A c \in Behind : c.op \notin Firsts
  BY FirstCall DEF StackOK, Behind
<1>. QED  BY <1>1 DEF Stacked

TreeOps == {"HideThis", "RemoveFrame", "HideChildren", "ShowThis", "ShowChildren", "Reparent",
            "Attach", "ScrollChildren"}
\* The calls of the walks over the tree stay, and no frame is newly to be hidden.
WalksSame ==
    /\ \A c \in Members(calls) : c.op \in TreeOps => c \in Members(calls')
    /\ \A c \in Members(calls') : c.op = "HideThis" => c \in Members(calls)

LEMMA TreeStays ==
    ASSUME FramesTypeOK, TreeKept, Made' = Made, TreeSame, WalksSame, QuirksGrow
    PROVE  TreeKept'
<1>. SUFFICES ASSUME ~ Astray', NEW f \in Made
              PROVE  InTree(f)'
  BY DEF TreeKept
<1>1. \A g \in Made : InTree(g)
  BY DEF TreeKept, QuirksGrow, Astray
<1>2. \A op \in TreeOps : \A g : Stacked(op, g) => Stacked(op, g)'
  BY DEF WalksSame, Stacked
<1>3. \A g : Rescrolled(g) => Rescrolled(g)'
  BY DEF WalksSame, Rescrolled, TreeOps
<1>4. \A g : Stacked("HideThis", g)' => Stacked("HideThis", g)
  BY DEF WalksSame, Stacked
<1>5. \A op \in TreeOps : \A p \in Made : \A g : Reaches(op, p, g) => Reaches(op, p, g)'
  <2>1. \A p \in Made : frame'[p].children = frame[p].children
    BY DEF TreeSame
  <2>. QED  BY <2>1 DEF WalksSame, Reaches, LeftFor
<1>6. frame[f].parent # Nil => frame[f].parent \in Made
  BY DEF FramesTypeOK, FrameRecords
<1>7. ShownFirst(f)'
  BY <1>1, <1>2 DEF InTree, ShownFirst, TreeSame, TreeOps
<1>8. ListedByParent(f)'
  BY <1>1, <1>2, <1>6 DEF InTree, ListedByParent, TreeSame, TreeOps
<1>9. HiddenWith(f)'
  BY <1>1, <1>2, <1>5, <1>6 DEF InTree, HiddenWith, TreeSame, TreeOps
<1>10. ShownWith(f)'
  BY <1>1, <1>2, <1>3, <1>5, <1>6 DEF InTree, ShownWith, TreeSame, TreeOps, QuirksGrow
<1>11. HiddenForReason(f)'
  BY <1>1, <1>2, <1>3, <1>4, <1>6 DEF InTree, HiddenForReason, TreeSame, TreeOps, QuirksGrow
<1>. QED  BY <1>7, <1>8, <1>9, <1>10, <1>11 DEF InTree

LEMMA TreeFlags ==
    ASSUME FramesTypeOK, NEW g \in Made, NEW v, NEW w,
           \/ frame' = frame
           \/ frame' = [frame EXCEPT ![g].level = v]
           \/ frame' = [frame EXCEPT ![g].eventmask = v]
           \/ frame' = [frame EXCEPT ![g].highlight = v]
           \/ frame' = [frame EXCEPT ![g].locked = v, ![g].highlight = w]
    PROVE  TreeSame
<1>. SUFFICES ASSUME NEW f \in Made
              PROVE  /\ frame'[f].shown = frame[f].shown /\ frame'[f].visible = frame[f].visible
                     /\ frame'[f].parent = frame[f].parent
                     /\ frame'[f].children = frame[f].children
  <2>1. \A f \in Made : /\ frame'[f].shown <=> frame[f].shown
                        /\ frame'[f].visible <=> frame[f].visible
    BY Zenon
  <2>. QED  BY <2>1 DEF TreeSame
<1>1. frame \in [Made -> FrameRecords] /\ frame[f] \in FrameRecords /\ frame[g] \in FrameRecords
  BY DEF FramesTypeOK
<1>2. CASE frame' = frame
  BY <1>2
<1>3. CASE frame' = [frame EXCEPT ![g].level = v]
  BY <1>1, <1>3 DEF FrameRecords
<1>4. CASE frame' = [frame EXCEPT ![g].eventmask = v]
  BY <1>1, <1>4 DEF FrameRecords
<1>5. CASE frame' = [frame EXCEPT ![g].highlight = v]
  BY <1>1, <1>5 DEF FrameRecords
<1>6. CASE frame' = [frame EXCEPT ![g].locked = v, ![g].highlight = w]
  BY <1>1, <1>6 DEF FrameRecords
<1>. QED  BY <1>2, <1>3, <1>4, <1>5, <1>6

\* The actions beside the walks.
Beside ==
    \/ ScriptCalls \/ ScriptReturns \/ SetFrameLevel \/ ShiftChildren
    \/ EnableEvent \/ DisableEvent \/ Disabled
    \/ LockHighlight \/ CursorEnter \/ CursorExit
    \/ OnMouseMove \/ OnMouseDown \/ OnMouseUp \/ MouseReleased
    \/ OnKeyDown \/ KeyLoop \/ KeyEaten \/ OnKeyUp \/ KeyReleased
    \/ OnLayerUpdate \/ UpdateLevel \/ UpdateNode \/ CheckFocus

LEMMA BesideFlags ==
    ASSUME FramesTypeOK, StackOK, Beside
    PROVE  TreeSame /\ QuirksGrow
<1>1. CASE ScriptCalls \/ ScriptReturns \/ ShiftChildren \/ DisableEvent \/ OnMouseMove
  <2>1. frame' = frame /\ quirks \subseteq quirks'
    BY <1>1 DEF ScriptCalls, ScriptReturns, ShiftChildren, DisableEvent, OnMouseMove, drawn, histories
  <2>. QED  BY <2>1 DEF TreeSame, QuirksGrow
<1>2. CASE OnMouseDown \/ OnMouseUp \/ MouseReleased \/ OnKeyDown \/ KeyLoop
  <2>1. frame' = frame /\ quirks \subseteq quirks'
    BY <1>2 DEF OnMouseDown, OnMouseUp, MouseReleased, OnKeyDown, KeyLoop, drawn, histories
  <2>. QED  BY <2>1 DEF TreeSame, QuirksGrow
<1>3. CASE KeyEaten \/ OnKeyUp \/ KeyReleased \/ OnLayerUpdate \/ UpdateLevel
  <2>1. frame' = frame /\ quirks \subseteq quirks'
    BY <1>3 DEF KeyEaten, OnKeyUp, KeyReleased, OnLayerUpdate, UpdateLevel, drawn, histories
  <2>. QED  BY <2>1 DEF TreeSame, QuirksGrow
<1>4. CASE UpdateNode \/ CheckFocus
  <2>1. frame' = frame /\ quirks \subseteq quirks'
    BY <1>4 DEF UpdateNode, CheckFocus, drawn, histories
  <2>. QED  BY <2>1 DEF TreeSame, QuirksGrow
<1>5. CASE SetFrameLevel
  <2>. PICK g : g = calls[1].frame
    OBVIOUS
  <2>1. g \in Made
    <3>1. calls # <<>> /\ calls[1].op = "SetFrameLevel" /\ CallFits(calls[1], Made)
      BY <1>5, FirstCall DEF StackOK, SetFrameLevel, Running
    <3>. QED  BY <3>1 DEF CallFits
  <2>2. frame' = frame \/ frame' = [frame EXCEPT ![g].level = Clamped(frame[g].level, calls[1].arg)]
    BY <1>5, <2>1 DEF SetFrameLevel
  <2>3. QuirksGrow
    BY <1>5 DEF SetFrameLevel, drawn, histories, QuirksGrow
  <2>. QED  BY <2>1, <2>2, <2>3, TreeFlags
<1>6. CASE EnableEvent
  <2>. PICK g : g = calls[1].frame
    OBVIOUS
  <2>1. g \in Made
    <3>1. calls # <<>> /\ calls[1].op = "EnableEvent" /\ CallFits(calls[1], Made)
      BY <1>6, FirstCall DEF StackOK, EnableEvent, Running
    <3>. QED  BY <3>1 DEF CallFits
  <2>2. frame' = frame \/ frame' = [frame EXCEPT ![g].eventmask = frame[g].eventmask \cup {"mouse"}]
    BY <1>6, <2>1 DEF EnableEvent
  <2>3. QuirksGrow
    BY <1>6 DEF EnableEvent, drawn, histories, QuirksGrow
  <2>. QED  BY <2>1, <2>2, <2>3, TreeFlags
<1>7. CASE Disabled
  <2>. PICK g : g = calls[1].frame
    OBVIOUS
  <2>1. g \in Made
    <3>1. calls # <<>> /\ calls[1].op = "Disabled" /\ CallFits(calls[1], Made)
      BY <1>7, FirstCall DEF StackOK, Disabled, Running
    <3>. QED  BY <3>1 DEF CallFits
  <2>2. frame' = frame \/ frame' = [frame EXCEPT ![g].eventmask = frame[g].eventmask \ {"mouse"}]
    BY <1>7, <2>1 DEF Disabled
  <2>3. QuirksGrow
    BY <1>7 DEF Disabled, drawn, histories, QuirksGrow
  <2>. QED  BY <2>1, <2>2, <2>3, TreeFlags
<1>8. CASE CursorEnter
  <2>. PICK g : g = calls[1].frame
    OBVIOUS
  <2>1. g \in Made
    <3>1. calls # <<>> /\ calls[1].op = "CursorEnter" /\ CallFits(calls[1], Made)
      BY <1>8, FirstCall DEF StackOK, CursorEnter, Running
    <3>. QED  BY <3>1 DEF CallFits
  <2>2. frame' = frame \/ frame' = [frame EXCEPT ![g].highlight = (frame[g].highlight \/ ~ frame[g].locked)]
    BY <1>8, <2>1 DEF CursorEnter
  <2>3. QuirksGrow
    BY <1>8 DEF CursorEnter, drawn, histories, QuirksGrow
  <2>. QED  BY <2>1, <2>2, <2>3, TreeFlags
<1>9. CASE CursorExit
  <2>. PICK g : g = calls[1].frame
    OBVIOUS
  <2>1. g \in Made
    <3>1. calls # <<>> /\ calls[1].op = "CursorExit" /\ CallFits(calls[1], Made)
      BY <1>9, FirstCall DEF StackOK, CursorExit, Running
    <3>. QED  BY <3>1 DEF CallFits
  <2>2. frame' = frame \/ frame' = [frame EXCEPT ![g].highlight = (frame[g].highlight /\ frame[g].locked)]
    BY <1>9, <2>1 DEF CursorExit
  <2>3. QuirksGrow
    BY <1>9 DEF CursorExit, drawn, histories, QuirksGrow
  <2>. QED  BY <2>1, <2>2, <2>3, TreeFlags
<1>10. CASE LockHighlight
  <2>. PICK g : g = calls[1].frame
    OBVIOUS
  <2>1. g \in Made
    <3>1. calls # <<>> /\ calls[1].op = "LockHighlight" /\ CallFits(calls[1], Made)
      BY <1>10, FirstCall DEF StackOK, LockHighlight, Running
    <3>. QED  BY <3>1 DEF CallFits
  <2>2. \/ frame' = frame
        \/ frame' = [frame EXCEPT ![g].locked = calls[1].arg,
                                  ![g].highlight = (calls[1].arg \/ top.mouseFocus = g)]
    BY <1>10, <2>1 DEF LockHighlight
  <2>3. QuirksGrow
    BY <1>10 DEF LockHighlight, histories, QuirksGrow
  <2>. QED  BY <2>1, <2>2, <2>3, TreeFlags
<1>. QED  BY <1>1, <1>2, <1>3, <1>4, <1>5, <1>6, <1>7, <1>8, <1>9, <1>10 DEF Beside

LEMMA BesideWalks ==
    ASSUME FramesTypeOK, FramesAssumption, StackOK, Sound', Beside
    PROVE  WalksSame
<1>1. CASE ScriptReturns
  <2>1. calls # <<>> /\ calls[1].op = "Script"
    BY <1>1 DEF ScriptReturns, Running
  <2>2. Members(calls) = {calls[1]} \cup Behind /\ Members(calls') = Behind
    BY <1>1, <2>1, FirstCall, ScriptReturnsSound DEF StackOK, Behind
  <2>. QED  BY <2>1, <2>2 DEF WalksSame, TreeOps
<1>2. CASE EnableEvent
  <2>1. calls # <<>> /\ calls[1].op = "EnableEvent"
    BY <1>2 DEF EnableEvent, Running
  <2>2. Members(calls) = {calls[1]} \cup Behind /\ Members(calls') = Behind
    BY <1>2, <2>1, FirstCall, EnableEventSound DEF StackOK, Behind
  <2>. QED  BY <2>1, <2>2 DEF WalksSame, TreeOps
<1>3. CASE Disabled
  <2>1. calls # <<>> /\ calls[1].op = "Disabled"
    BY <1>3 DEF Disabled, Running
  <2>2. Members(calls) = {calls[1]} \cup Behind /\ Members(calls') = Behind
    BY <1>3, <2>1, FirstCall, DisabledSound DEF StackOK, Behind
  <2>. QED  BY <2>1, <2>2 DEF WalksSame, TreeOps
<1>4. CASE LockHighlight
  <2>1. calls # <<>> /\ calls[1].op = "LockHighlight"
    BY <1>4 DEF LockHighlight, Running
  <2>2. Members(calls) = {calls[1]} \cup Behind /\ Members(calls') = Behind
    BY <1>4, <2>1, FirstCall, LockHighlightSound DEF StackOK, Behind
  <2>. QED  BY <2>1, <2>2 DEF WalksSame, TreeOps
<1>5. CASE MouseReleased
  <2>1. calls # <<>> /\ calls[1].op = "MouseReleased"
    BY <1>5 DEF MouseReleased, Running
  <2>2. Members(calls) = {calls[1]} \cup Behind /\ Members(calls') = Behind
    BY <1>5, <2>1, FirstCall, MouseReleasedSound DEF StackOK, Behind
  <2>. QED  BY <2>1, <2>2 DEF WalksSame, TreeOps
<1>6. CASE KeyEaten
  <2>1. calls # <<>> /\ calls[1].op = "KeyEaten"
    BY <1>6 DEF KeyEaten, Running
  <2>2. Members(calls) = {calls[1]} \cup Behind /\ Members(calls') = Behind
    BY <1>6, <2>1, FirstCall, KeyEatenSound DEF StackOK, Behind
  <2>. QED  BY <2>1, <2>2 DEF WalksSame, TreeOps
<1>7. CASE KeyReleased
  <2>1. calls # <<>> /\ calls[1].op = "KeyReleased"
    BY <1>7 DEF KeyReleased, Running
  <2>2. Members(calls) = {calls[1]} \cup Behind /\ Members(calls') = Behind
    BY <1>7, <2>1, FirstCall, KeyReleasedSound DEF StackOK, Behind
  <2>. QED  BY <2>1, <2>2 DEF WalksSame, TreeOps
<1>8. CASE CursorEnter
  <2>. PICK new : new = {Script(calls[1].frame)}
    OBVIOUS
  <2>1. calls # <<>> /\ calls[1].op = "CursorEnter"
    BY <1>8 DEF CursorEnter, Running
  <2>2. Members(calls) = {calls[1]} \cup Behind /\ Members(calls') = new \cup Behind
    BY <1>8, <2>1, FirstCall, CursorEnterSound DEF StackOK, Behind
  <2>3. \A c \in new : c.op # "HideThis"
    <3>1. \A o, g, a : Call(o, g, a).op = o
      BY DEF Call
    <3>. QED  BY <3>1 DEF Script, LeaveCalls
  <2>. QED  BY <2>1, <2>2, <2>3 DEF WalksSame, TreeOps
<1>9. CASE CursorExit
  <2>. PICK new : new = {Script(calls[1].frame)}
    OBVIOUS
  <2>1. calls # <<>> /\ calls[1].op = "CursorExit"
    BY <1>9 DEF CursorExit, Running
  <2>2. Members(calls) = {calls[1]} \cup Behind /\ Members(calls') = new \cup Behind
    BY <1>9, <2>1, FirstCall, CursorExitSound DEF StackOK, Behind
  <2>3. \A c \in new : c.op # "HideThis"
    <3>1. \A o, g, a : Call(o, g, a).op = o
      BY DEF Call
    <3>. QED  BY <3>1 DEF Script, LeaveCalls
  <2>. QED  BY <2>1, <2>2, <2>3 DEF WalksSame, TreeOps
<1>10. CASE DisableEvent
  <2>. PICK new : new = (IF "mouse" \notin frame[calls[1].frame].eventmask THEN {}
                     ELSE {Call("Disabled", calls[1].frame, 0)}
                          \cup (IF frame[calls[1].frame].visible
                                THEN LeaveCalls(calls[1].frame, {"mouse"}) ELSE {}))
    OBVIOUS
  <2>1. calls # <<>> /\ calls[1].op = "DisableEvent"
    BY <1>10 DEF DisableEvent, Running
  <2>2. Members(calls) = {calls[1]} \cup Behind /\ Members(calls') = new \cup Behind
    BY <1>10, <2>1, FirstCall, DisableEventSound DEF StackOK, Behind
  <2>3. \A c \in new : c.op # "HideThis"
    <3>1. \A o, g, a : Call(o, g, a).op = o
      BY DEF Call
    <3>. QED  BY <3>1 DEF Script, LeaveCalls
  <2>. QED  BY <2>1, <2>2, <2>3 DEF WalksSame, TreeOps
<1>11. CASE KeyLoop
  <2>. PICK new : new = (IF calls[1].arg > Len(queue["key"]) THEN {}
                     ELSE IF /\ frame[queue["key"][calls[1].arg].frame].visible
                             /\ queue["key"][calls[1].arg].frame \in KeyHandlers
                     THEN {Script(queue["key"][calls[1].arg].frame),
                           Call("KeyEaten", queue["key"][calls[1].arg].frame, 0)}
                     ELSE {Call("Key", Nil, calls[1].arg + 1)})
    OBVIOUS
  <2>1. calls # <<>> /\ calls[1].op = "Key"
    BY <1>11 DEF KeyLoop, Running
  <2>2. Members(calls) = {calls[1]} \cup Behind /\ Members(calls') = new \cup Behind
    BY <1>11, <2>1, FirstCall, KeyLoopSound DEF StackOK, Behind
  <2>3. \A c \in new : c.op # "HideThis"
    <3>1. \A o, g, a : Call(o, g, a).op = o
      BY DEF Call
    <3>. QED  BY <3>1 DEF Script, LeaveCalls
  <2>. QED  BY <2>1, <2>2, <2>3 DEF WalksSame, TreeOps
<1>12. CASE SetFrameLevel
  <2>. PICK f, n : f = calls[1].frame /\ n = Clamped(frame[calls[1].frame].level, calls[1].arg)
    OBVIOUS
  <2>. PICK new : new = {Call("ShiftChildren", f, <<1, n - frame[f].level>>)}
    OBVIOUS
  <2>1. calls # <<>> /\ calls[1].op = "SetFrameLevel"
    BY <1>12 DEF SetFrameLevel, Running
  <2>2. Members(calls) = {calls[1]} \cup Behind
    BY <2>1, FirstCall DEF StackOK, Behind
  <2>3. Members(calls') = Behind \/ Members(calls') = new \cup Behind
    <3>1. /\ n \in Nat /\ MaxLevel \in Nat
          /\ n > MaxLevel => "overflow" \in quirks'
      BY <1>12, SetFrameLevelSound, FramesAssumption DEF FramesAssumption
    <3>2. n <= MaxLevel
      BY <3>1 DEF Sound
    <3>. QED  BY <1>12, <3>2, SetFrameLevelSound
  <2>4. \A c \in new : c.op # "HideThis"
    BY DEF Call
  <2>. QED  BY <2>1, <2>2, <2>3, <2>4 DEF WalksSame, TreeOps
<1>13. CASE ShiftChildren
  <2>1. calls # <<>> /\ calls[1].op = "ShiftChildren"
    BY <1>13 DEF ShiftChildren, Running
  <2>2. PICK f, child, a, b :
            \/ Members(calls') = {} \cup Behind
            \/ Members(calls') = {Call("SetFrameLevel", child, a), Call("ShiftChildren", f, b)} \cup Behind
    BY <1>13, ShiftChildrenSound
  <2>3. \A o, g, x : Call(o, g, x).op = o
    BY DEF Call
  <2>4. Members(calls) = {calls[1]} \cup Behind
    BY <2>1, FirstCall DEF StackOK, Behind
  <2>. QED  BY <2>1, <2>2, <2>3, <2>4 DEF WalksSame, TreeOps
<1>14. CASE ScriptCalls
  <2>. PICK c : c.op \in ScriptOps /\ Members(calls') = {c} \cup Members(calls)
    BY <1>14, ScriptCallsSound
  <2>. QED  BY DEF WalksSame, ScriptOps
<1>15. CASE OnMouseMove \/ CheckFocus
  <2>1. calls = <<>> \/ (calls # <<>> /\ calls[1].op = "UpdateLevel")
    BY <1>15 DEF OnMouseMove, CheckFocus, Running
  <2>2. \A c \in Members(calls) : c.op = "UpdateLevel"
    <3>1. CASE calls = <<>>
      BY <3>1, NoCalls
    <3>2. CASE calls # <<>> /\ calls[1].op = "UpdateLevel"
      <4>1. Members(calls) = {calls[1]}
        BY <3>2, FirstCall DEF StackOK, Lasts
      <4>. QED  BY <3>2, <4>1
    <3>. QED  BY <2>1, <3>1, <3>2
  <2>3. \A c \in Members(calls') : c.op # "HideThis"
    <3>1. PICK hits : Members(calls') = Members(FocusChange(hits).scripts) \/ Members(calls') = {}
      BY <1>15, OnMouseMoveSound, CheckFocusSound
    <3>2. Members(FocusChange(hits).scripts) =
              IF FocusChange(hits).focus = top.mouseFocus THEN {}
              ELSE {Call("CursorExit", g, 0) : g \in {top.mouseFocus} \ {Nil}}
                    \cup {Call("CursorEnter", g, 0) : g \in {FocusChange(hits).focus} \ {Nil}}
      BY FocusScripts
    <3>. QED  BY <3>1, <3>2 DEF Call
  <2>. QED  BY <2>2, <2>3 DEF WalksSame, TreeOps
<1>16. CASE OnMouseDown
  <2>1. Members(calls) = {}
    BY <1>16, NoCalls DEF OnMouseDown
  <2>2. PICK new : /\ \E g : new = {Script(g)}
                   /\ Members(calls') = new
    BY <1>16, OnMouseDownSound
  <2>3. \A c \in new : c.op # "HideThis"
    BY <2>2 DEF Call, Script
  <2>. QED  BY <2>1, <2>2, <2>3 DEF WalksSame
<1>17. CASE OnMouseUp
  <2>1. Members(calls) = {}
    BY <1>17, NoCalls DEF OnMouseUp
  <2>2. PICK new : /\ \E g, last : new = {Script(g), Call("MouseReleased", Nil, last)}
                   /\ Members(calls') = new
    BY <1>17, OnMouseUpSound
  <2>3. \A c \in new : c.op # "HideThis"
    BY <2>2 DEF Call, Script
  <2>. QED  BY <2>1, <2>2, <2>3 DEF WalksSame
<1>18. CASE OnKeyDown
  <2>1. Members(calls) = {}
    BY <1>18, NoCalls DEF OnKeyDown
  <2>2. PICK new : /\ new = {Call("Key", Nil, 1)}
                   /\ Members(calls') = new
    BY <1>18, OnKeyDownSound
  <2>3. \A c \in new : c.op # "HideThis"
    BY <2>2 DEF Call, Script
  <2>. QED  BY <2>1, <2>2, <2>3 DEF WalksSame
<1>19. CASE OnLayerUpdate
  <2>1. Members(calls) = {}
    BY <1>19, NoCalls DEF OnLayerUpdate
  <2>2. PICK new : /\ new = {Call("UpdateLevel", Nil, 0)}
                   /\ Members(calls') = new
    BY <1>19, OnLayerUpdateSound
  <2>3. \A c \in new : c.op # "HideThis"
    BY <2>2 DEF Call, Script
  <2>. QED  BY <2>1, <2>2, <2>3 DEF WalksSame
<1>20. CASE OnKeyUp
  <2>1. Members(calls) = {}
    BY <1>20, NoCalls DEF OnKeyUp
  <2>2. PICK new : /\ new = (IF frame[top.keydownCapture].visible /\ top.keydownCapture \in KeyHandlers
                     THEN {Script(top.keydownCapture)} ELSE {})
                    \cup {Call("KeyReleased", top.keydownCapture, 0)}
                   /\ Members(calls') = new
    BY <1>20, OnKeyUpSound
  <2>3. \A c \in new : c.op # "HideThis"
    BY <2>2 DEF Call, Script
  <2>. QED  BY <2>1, <2>2, <2>3 DEF WalksSame
<1>21. CASE UpdateLevel \/ UpdateNode
  <2>1. calls # <<>> /\ calls[1].op \in {"UpdateLevel", "UpdateNode"}
    BY <1>21 DEF UpdateLevel, UpdateNode, Running
  <2>2. Members(calls) = {calls[1]}
    BY <2>1, FirstCall DEF StackOK, Lasts
  <2>3. \A c \in Members(calls') : c.op # "HideThis"
    BY <1>21, UpdateLevelSound, UpdateNodeSound DEF Call, Script
  <2>. QED  BY <2>1, <2>2, <2>3 DEF WalksSame, TreeOps
<1>. QED  BY <1>1, <1>2, <1>3, <1>4, <1>5, <1>6, <1>7, <1>8, <1>9, <1>10, <1>11, <1>12, <1>13, <1>14, <1>15, <1>16, <1>17, <1>18, <1>19, <1>20, <1>21 DEF Beside

LEMMA BesideTree ==
    ASSUME FramesAssumption, FramesTypeOK, StackOK, Sound', TreeKept, Beside
    PROVE  TreeKept'
<1>1. Made' = Made
  BY ScriptCallsSound, ScriptReturnsSound, SetFrameLevelSound, ShiftChildrenSound,
     EnableEventSound, DisableEventSound, DisabledSound, LockHighlightSound, CursorEnterSound,
     CursorExitSound, OnMouseMoveSound, OnMouseDownSound, OnMouseUpSound, MouseReleasedSound,
     OnKeyDownSound, KeyLoopSound, KeyEatenSound, OnKeyUpSound, KeyReleasedSound,
     OnLayerUpdateSound, UpdateLevelSound, UpdateNodeSound, CheckFocusSound DEF Beside
<1>. QED  BY <1>1, BesideFlags, BesideWalks, TreeStays

\* The invariant before a step, for a frame and for all.
LEMMA TreeBefore ==
    ASSUME FramesTypeOK, TreeKept, QuirksGrow, ~ Astray', NEW f \in Made
    PROVE  /\ ShownFirst(f) /\ ListedByParent(f) /\ HiddenWith(f) /\ ShownWith(f)
           /\ HiddenForReason(f)
           /\ frame[f].parent # Nil => frame[f].parent \in Made
<1>1. InTree(f)
  BY DEF TreeKept, QuirksGrow, Astray
<1>. QED  BY <1>1 DEF InTree, FramesTypeOK, FrameRecords

\* The members of a frame that the tree is about, when one of them changes.
TreeBut(f) ==
    \A g \in Made : /\ frame'[g].parent = frame[g].parent /\ frame'[g].children = frame[g].children
                    /\ g # f => /\ frame'[g].shown <=> frame[g].shown
                                /\ frame'[g].visible <=> frame[g].visible

LEMMA TreeFlagSet ==
    ASSUME FramesTypeOK, NEW f \in Made, NEW v \in BOOLEAN
    PROVE  /\ frame' = [frame EXCEPT ![f].shown = v] =>
                /\ TreeBut(f) /\ (frame'[f].visible <=> frame[f].visible)
                /\ frame'[f].shown <=> v
           /\ frame' = [frame EXCEPT ![f].visible = v] =>
                /\ TreeBut(f) /\ (frame'[f].shown <=> frame[f].shown)
                /\ frame'[f].visible <=> v
<1>1. frame \in [Made -> FrameRecords] /\ \A g \in Made : frame[g] \in FrameRecords
  BY DEF FramesTypeOK
<1>2. ASSUME frame' = [frame EXCEPT ![f].shown = v]
      PROVE  /\ TreeBut(f) /\ (frame'[f].visible <=> frame[f].visible)
             /\ frame'[f].shown <=> v
  <2>1. /\ \A g \in Made : /\ frame'[g].parent = frame[g].parent
                           /\ frame'[g].children = frame[g].children
                           /\ g # f => frame'[g] = frame[g]
        /\ frame'[f].visible = frame[f].visible /\ frame'[f].shown = v
    BY <1>1, <1>2 DEF FrameRecords
  <2>2. \A g \in Made : g # f => /\ frame'[g].shown <=> frame[g].shown
                                 /\ frame'[g].visible <=> frame[g].visible
    BY <2>1, Zenon
  <2>3. (frame'[f].visible <=> frame[f].visible) /\ (frame'[f].shown <=> v)
    BY <2>1, Zenon
  <2>. QED  BY <2>1, <2>2, <2>3 DEF TreeBut
<1>3. ASSUME frame' = [frame EXCEPT ![f].visible = v]
      PROVE  /\ TreeBut(f) /\ (frame'[f].shown <=> frame[f].shown)
             /\ frame'[f].visible <=> v
  <2>1. /\ \A g \in Made : /\ frame'[g].parent = frame[g].parent
                           /\ frame'[g].children = frame[g].children
                           /\ g # f => frame'[g] = frame[g]
        /\ frame'[f].shown = frame[f].shown /\ frame'[f].visible = v
    BY <1>1, <1>3 DEF FrameRecords
  <2>2. \A g \in Made : g # f => /\ frame'[g].shown <=> frame[g].shown
                                 /\ frame'[g].visible <=> frame[g].visible
    BY <2>1, Zenon
  <2>3. (frame'[f].shown <=> frame[f].shown) /\ (frame'[f].visible <=> v)
    BY <2>1, Zenon
  <2>. QED  BY <2>1, <2>2, <2>3 DEF TreeBut
<1>. QED  BY <1>2, <1>3

LEMMA HideTree ==
    ASSUME FramesTypeOK, StackOK, TreeKept, Hide
    PROVE  TreeKept'
<1>. PICK f : f = calls[1].frame
  OBVIOUS
<1>1. /\ calls # <<>> /\ calls[1].op = "Hide" /\ CallFits(calls[1], Made)
      /\ Members(calls) = {calls[1]} \cup Behind
  BY FirstCall DEF StackOK, Hide, Running, Behind
<1>2. f \in Made /\ Made' = Made /\ Members(calls') = {Call("HideThis", f, 0)} \cup Behind
  BY <1>1, HideSound DEF CallFits
<1>3. frame' = [frame EXCEPT ![f].shown = FALSE] /\ quirks' = quirks
  BY DEF Hide, histories
<1>4. TreeBut(f) /\ (frame'[f].visible <=> frame[f].visible) /\ ~ frame'[f].shown
  BY <1>2, <1>3, TreeFlagSet
<1>5. StaysLeft("Hide")
  <2>1. ChildrenGrow
    BY <1>4 DEF ChildrenGrow, TreeBut
  <2>2. \A c \in Members(calls) : c.op # "Hide" => c \in Members(calls')
    BY <1>1, <1>2
  <2>. QED  BY <2>1, <2>2, CallsStayLeft
<1>6. \A g : Stacked("HideThis", g)' <=> g = f
  <2>1. \A c \in Behind : c.op # "HideThis"
    BY <1>1, FirstCall DEF StackOK, Behind, Firsts
  <2>2. Call("HideThis", f, 0).op = "HideThis" /\ Call("HideThis", f, 0).frame = f
    BY DEF Call
  <2>. QED  BY <1>2, <2>1, <2>2 DEF Stacked
<1>. SUFFICES ASSUME ~ Astray', NEW g \in Made
              PROVE  InTree(g)'
  BY <1>2 DEF TreeKept
<1>7. /\ ShownFirst(g) /\ ListedByParent(g) /\ HiddenWith(g) /\ ShownWith(g)
      /\ HiddenForReason(g) /\ (frame[g].parent # Nil => frame[g].parent \in Made)
  BY <1>3, TreeBefore DEF QuirksGrow
<1>8. ShownFirst(g)' /\ HiddenForReason(g)'
  BY <1>4, <1>5, <1>6, <1>7 DEF ShownFirst, HiddenForReason, TreeBut, StaysLeft
<1>9. ListedByParent(g)'
  BY <1>4, <1>5, <1>7 DEF ListedByParent, TreeBut, StaysLeft
<1>10. HiddenWith(g)'
  BY <1>4, <1>5, <1>7 DEF HiddenWith, TreeBut, StaysLeft
<1>11. ShownWith(g)'
  BY <1>3, <1>4, <1>5, <1>7 DEF ShownWith, TreeBut, StaysLeft
<1>. QED  BY <1>8, <1>9, <1>10, <1>11 DEF InTree

LEMMA HideThisTree ==
    ASSUME FramesAssumption, FramesTypeOK, StackOK, TreeKept, HideThis
    PROVE  TreeKept'
<1>. PICK f : f = calls[1].frame
  OBVIOUS
<1>1. /\ calls # <<>> /\ calls[1].op = "HideThis" /\ CallFits(calls[1], Made)
      /\ Members(calls) = {calls[1]} \cup Behind
  BY FirstCall DEF StackOK, HideThis, Running, Behind
<1>2. f \in Made /\ Made' = Made /\ QuirksGrow
      /\ ("orphaned" \in quirks' <=> "orphaned" \in quirks)
  BY <1>1, HideThisSound DEF CallFits, HideThis, QuirksGrow
<1>3. \A g : Stacked("HideThis", g) <=> g = f
  BY <1>1, FirstsStacked DEF Firsts
<1>4. \A c \in Members(calls') : c \in Behind \/ c.op \in {"RemoveFrame", "CursorExit"}
  <2>1. \/ Members(calls') = Behind
        \/ Members(calls') = {Call("RemoveFrame", f, 0)} \cup LeaveCalls(f, frame[f].eventmask) \cup Behind
    BY HideThisSound
  <2>. QED  BY <2>1 DEF LeaveCalls, Call
<1>5. \A g : ~ Stacked("HideThis", g)'
  <2>1. \A c \in Behind : c.op # "HideThis"
    BY <1>1, FirstCall DEF StackOK, Behind, Firsts
  <2>. QED  BY <1>4, <2>1 DEF Stacked
<1>6. \A c \in Members(calls) : c.op # "HideThis" => c \in Members(calls')
  BY <1>1, HideThisSound
<1>. SUFFICES ASSUME ~ Astray', NEW g \in Made
              PROVE  InTree(g)'
  BY <1>2 DEF TreeKept
<1>7. \A h \in Made :
        /\ ShownFirst(h) /\ ListedByParent(h) /\ HiddenWith(h) /\ ShownWith(h)
        /\ HiddenForReason(h) /\ (frame[h].parent # Nil => frame[h].parent \in Made)
  BY <1>2, TreeBefore
<1>8. CASE ~ frame[f].visible
  <2>1. frame' = frame
    BY <1>8 DEF HideThis
  <2>2. StaysLeft("HideThis")
    BY <1>6, <2>1, CallsStayLeft DEF ChildrenGrow
  <2>3. ShownFirst(g)' /\ HiddenForReason(g)'
    BY <1>3, <1>5, <1>7, <1>8, <2>1 DEF ShownFirst, HiddenForReason
  <2>4. ListedByParent(g)'
    BY <1>7, <2>1, <2>2 DEF ListedByParent, StaysLeft
  <2>5. HiddenWith(g)'
    BY <1>3, <1>7, <1>8, <2>1, <2>2 DEF HiddenWith, StaysLeft
  <2>6. ShownWith(g)'
    BY <1>2, <1>7, <2>1, <2>2 DEF ShownWith, StaysLeft
  <2>. QED  BY <2>3, <2>4, <2>5, <2>6 DEF InTree
<1>9. CASE frame[f].visible
  <2>1. frame' = [frame EXCEPT ![f].visible = FALSE]
    BY <1>9 DEF HideThis
  <2>2. TreeBut(f) /\ ~ frame'[f].visible /\ (frame'[f].shown <=> frame[f].shown)
    BY <1>2, <2>1, TreeFlagSet
  <2>3. StaysLeft("HideThis")
    <3>1. ChildrenGrow
      BY <2>2 DEF ChildrenGrow, TreeBut
    <3>. QED  BY <1>6, <3>1, CallsStayLeft
  <2>4. Stacked("RemoveFrame", f)'
    <3>1. Call("RemoveFrame", f, 0) \in Members(calls')
      BY <1>9, HideThisSound
    <3>2. Call("RemoveFrame", f, 0).op = "RemoveFrame" /\ Call("RemoveFrame", f, 0).frame = f
      BY DEF Call
    <3>. QED  BY <3>1, <3>2 DEF Stacked
  <2>5. ShownFirst(g)' /\ HiddenForReason(g)'
    BY <1>3, <1>5, <1>7, <2>2 DEF ShownFirst, HiddenForReason, TreeBut
  <2>6. ListedByParent(g)'
    BY <1>7, <2>2, <2>3 DEF ListedByParent, TreeBut, StaysLeft
  <2>7. HiddenWith(g)'
    <3>1. CASE g = f
      BY <2>2, <3>1 DEF HiddenWith
    <3>2. CASE g # f /\ frame[g].parent = f
      <4>1. ~ LeavesBehind(f) \/ ~ frame[g].visible
        BY <1>9 DEF HideThis, Astray
      <4>2. frame[g].visible => g \in Members(frame[f].children)
        <5>1. frame[f].children \in Seq(Made)
          BY <1>2 DEF FramesTypeOK, FrameRecords
        <5>. QED  BY <3>2, <4>1, <5>1, LenProperties DEF LeavesBehind, Contains, Members
      <4>. QED  BY <1>2, <2>2, <2>4, <3>2, <4>2 DEF HiddenWith, TreeBut
    <3>3. CASE g # f /\ frame[g].parent # f
      BY <1>3, <1>7, <2>2, <2>3, <3>3 DEF HiddenWith, TreeBut, StaysLeft
    <3>. QED  BY <3>1, <3>2, <3>3
  <2>8. ShownWith(g)'
    <3>1. CASE g = f
      BY <1>2, <1>3, <1>7, <1>9, <2>2, <2>3, <3>1 DEF ShownWith, HiddenForReason, TreeBut, StaysLeft
    <3>2. CASE frame[g].parent = f
      <4>1. f # Nil
        BY <1>2 DEF FramesAssumption, FramesTypeOK
      <4>. QED  BY <2>2, <3>2, <4>1 DEF ShownWith, TreeBut
    <3>3. CASE g # f /\ frame[g].parent # f
      BY <1>2, <1>7, <2>2, <2>3, <3>3 DEF ShownWith, TreeBut, StaysLeft
    <3>. QED  BY <3>1, <3>2, <3>3
  <2>. QED  BY <2>5, <2>6, <2>7, <2>8 DEF InTree
<1>. QED  BY <1>8, <1>9

LEMMA RemovedTree ==
    ASSUME FramesTypeOK, StackOK, TreeKept, Removed
    PROVE  TreeKept'
<1>. PICK f : f = calls[1].frame
  OBVIOUS
<1>1. /\ calls # <<>> /\ calls[1].op = "RemoveFrame" /\ CallFits(calls[1], Made)
      /\ Members(calls) = {calls[1]} \cup Behind
  BY FirstCall DEF StackOK, Removed, Running, Behind
<1>2. f \in Made /\ Made' = Made /\ Members(calls') = {Call("HideChildren", f, 1)} \cup Behind
  BY <1>1, RemovedSound DEF CallFits
<1>3. frame' = frame /\ quirks' = quirks
  BY DEF Removed
<1>4. /\ Call("HideChildren", f, 1).op = "HideChildren" /\ Call("HideChildren", f, 1).frame = f
      /\ Call("HideChildren", f, 1).arg = 1
  BY DEF Call
<1>5. StaysLeft("RemoveFrame")
  <2>1. \A c \in Members(calls) : c.op # "RemoveFrame" => c \in Members(calls')
    BY <1>1, <1>2
  <2>. QED  BY <1>3, <2>1, CallsStayLeft DEF ChildrenGrow
<1>6. \A g : Stacked("RemoveFrame", g) => g = f \/ Stacked("RemoveFrame", g)'
  BY <1>1, <1>2 DEF Stacked
<1>7. \A g \in Members(frame[f].children) : Reaches("HideChildren", f, g)'
  <2>1. ASSUME NEW g \in Members(frame[f].children)
        PROVE  Reaches("HideChildren", f, g)'
    <3>1. PICK i \in DOMAIN frame[f].children : frame[f].children[i] = g
      BY DEF Members
    <3>2. frame[f].children \in Seq(Made)
      BY <1>2 DEF FramesTypeOK, FrameRecords
    <3>3. 1 <= i
      BY <3>1, <3>2, LenProperties
    <3>4. LeftFor(Call("HideChildren", f, 1), g)'
      BY <1>3, <1>4, <3>1, <3>3 DEF LeftFor
    <3>. QED  BY <1>2, <1>4, <3>4 DEF Reaches
  <2>. QED  BY <2>1
<1>8. \A g : ~ Stacked("HideThis", g)'
  <2>1. \A c \in Behind : c.op # "HideThis"
    BY <1>1, FirstCall DEF StackOK, Behind, Firsts
  <2>. QED  BY <1>2, <1>4, <2>1 DEF Stacked
<1>. SUFFICES ASSUME ~ Astray', NEW g \in Made
              PROVE  InTree(g)'
  BY <1>2 DEF TreeKept
<1>9. /\ ShownFirst(g) /\ ListedByParent(g) /\ HiddenWith(g) /\ ShownWith(g)
      /\ HiddenForReason(g) /\ (frame[g].parent # Nil => frame[g].parent \in Made)
  BY <1>3, TreeBefore DEF QuirksGrow
<1>10. ShownFirst(g)' /\ HiddenForReason(g)'
  BY <1>3, <1>5, <1>8, <1>9 DEF ShownFirst, HiddenForReason, StaysLeft
<1>11. ListedByParent(g)'
  BY <1>3, <1>5, <1>9 DEF ListedByParent, StaysLeft
<1>12. HiddenWith(g)'
  BY <1>3, <1>5, <1>6, <1>7, <1>9 DEF HiddenWith, ListedByParent, StaysLeft
<1>13. ShownWith(g)'
  BY <1>3, <1>5, <1>9 DEF ShownWith, StaysLeft
<1>. QED  BY <1>10, <1>11, <1>12, <1>13 DEF InTree

LEMMA HideChildrenTree ==
    ASSUME FramesAssumption, FramesTypeOK, StackOK, TreeKept, HiddenStays, HideChildren
    PROVE  TreeKept'
<1>. PICK f, n, child : f = calls[1].frame /\ n = calls[1].arg /\ child = frame[f].children[n]
  OBVIOUS
<1>. DEFINE len == Len(frame[f].children)
<1>1. /\ calls # <<>> /\ calls[1].op = "HideChildren" /\ CallFits(calls[1], Made)
      /\ Members(calls) = {calls[1]} \cup Behind
  BY FirstCall DEF StackOK, HideChildren, Running, Behind
<1>2. /\ f \in Made /\ Made' = Made /\ n \in Nat \ {0}
      /\ n > len => Members(calls') = {Script(f)} \cup Behind
      /\ ~ (n > len) =>
            Members(calls') = {Call("HideThis", child, 0), Call("HideChildren", f, n + 1)} \cup Behind
  BY <1>1, HideChildrenSound DEF CallFits
<1>3. /\ frame' = frame /\ QuirksGrow
      /\ ~ (n > len) /\ "orphaned" \notin quirks' => frame[child].parent = f \/ ~ frame[child].visible
  BY DEF HideChildren, QuirksGrow
<1>4. frame[f].children \in Seq(Made) /\ len \in Nat /\ DOMAIN frame[f].children = 1..len
  BY <1>2, LenProperties DEF FramesTypeOK, FrameRecords
<1>5. /\ Call("HideThis", child, 0).op = "HideThis" /\ Call("HideThis", child, 0).frame = child
      /\ Call("HideChildren", f, n + 1).op = "HideChildren"
      /\ Call("HideChildren", f, n + 1).frame = f /\ Call("HideChildren", f, n + 1).arg = n + 1
      /\ Script(f).op = "Script"
  BY DEF Call, Script
<1>6. StaysLeft("HideChildren")
  <2>1. \A c \in Members(calls) : c.op # "HideChildren" => c \in Members(calls')
    BY <1>1, <1>2
  <2>. QED  BY <1>3, <2>1, CallsStayLeft DEF ChildrenGrow
<1>7. ~ (n > len) => \A g : Stacked("HideThis", g)' <=> g = child
  <2>1. \A c \in Behind : c.op # "HideThis"
    BY <1>1, FirstCall DEF StackOK, Behind, Firsts
  <2>2. ASSUME ~ (n > len)
        PROVE  \A c : c \in Members(calls') /\ c.op = "HideThis" <=> c = Call("HideThis", child, 0)
    BY <1>2, <1>5, <2>1, <2>2
  <2>. QED  BY <1>5, <2>2 DEF Stacked
<1>8. n > len => \A g : ~ Stacked("HideThis", g)'
  <2>1. \A c \in Behind : c.op # "HideThis"
    BY <1>1, FirstCall DEF StackOK, Behind, Firsts
  <2>. QED  BY <1>2, <1>5, <2>1 DEF Stacked
<1>9. \A p, g : Reaches("HideChildren", p, g) =>
            Reaches("HideChildren", p, g)' \/ (~ (n > len) /\ g = child)
  <2>1. ASSUME NEW p, NEW g, Reaches("HideChildren", p, g)
        PROVE  Reaches("HideChildren", p, g)' \/ (~ (n > len) /\ g = child)
    <3>1. PICK c \in Members(calls) : c.op = "HideChildren" /\ c.frame = p /\ LeftFor(c, g)
      BY <2>1 DEF Reaches
    <3>2. CASE c \in Behind
      <4>1. c \in Members(calls') /\ LeftFor(c, g)'
        BY <1>2, <1>3, <3>1, <3>2 DEF LeftFor
      <4>. QED  BY <3>1, <4>1 DEF Reaches
    <3>3. CASE c = calls[1]
      <4>1. PICK i \in DOMAIN frame[f].children : n <= i /\ frame[f].children[i] = g
        BY <3>1, <3>3 DEF LeftFor
      <4>2. ~ (n > len)
        BY <1>2, <1>4, <4>1
      <4>3. CASE i = n
        BY <4>1, <4>2, <4>3
      <4>4. CASE i # n
        <5>1. n + 1 <= i
          BY <1>2, <1>4, <4>1, <4>4
        <5>2. LeftFor(Call("HideChildren", f, n + 1), g)'
          BY <1>3, <1>5, <4>1, <5>1 DEF LeftFor
        <5>3. Call("HideChildren", f, n + 1) \in Members(calls')
          BY <1>2, <4>2
        <5>4. p = f
          BY <3>1, <3>3
        <5>. QED  BY <1>5, <5>2, <5>3, <5>4 DEF Reaches
      <4>. QED  BY <4>3, <4>4
    <3>. QED  BY <1>1, <3>2, <3>3
  <2>. QED  BY <2>1
<1>. SUFFICES ASSUME ~ Astray', NEW g \in Made
              PROVE  InTree(g)'
  BY <1>2 DEF TreeKept
<1>10. /\ ShownFirst(g) /\ ListedByParent(g) /\ HiddenWith(g) /\ ShownWith(g)
       /\ HiddenForReason(g) /\ (frame[g].parent # Nil => frame[g].parent \in Made)
  BY <1>3, TreeBefore
<1>11. ~ frame[f].visible
  <2>1. Removing(f)
    BY <1>1 DEF Removing, Stacked
  <2>. QED  BY <1>2, <1>3, <2>1 DEF HiddenStays, QuirksGrow, Astray
<1>12. ShownFirst(g)'
  BY <1>3, <1>6, <1>10 DEF ShownFirst, StaysLeft
<1>13. HiddenForReason(g)'
  <2>1. f # Nil
    BY <1>2 DEF FramesAssumption, FramesTypeOK
  <2>. QED  BY <1>3, <1>7, <1>8, <1>11, <2>1 DEF HiddenForReason
<1>14. ListedByParent(g)'
  BY <1>3, <1>6, <1>10 DEF ListedByParent, StaysLeft
<1>15. HiddenWith(g)'
  BY <1>3, <1>6, <1>7, <1>9, <1>10 DEF HiddenWith, StaysLeft
<1>16. ShownWith(g)'
  BY <1>3, <1>6, <1>10 DEF ShownWith, StaysLeft, QuirksGrow
<1>. QED  BY <1>12, <1>13, <1>14, <1>15, <1>16 DEF InTree

LEMMA ShowTree ==
    ASSUME FramesTypeOK, StackOK, TreeKept, Show
    PROVE  TreeKept'
<1>. PICK f : f = calls[1].frame
  OBVIOUS
<1>1. /\ calls # <<>> /\ calls[1].op = "Show" /\ CallFits(calls[1], Made)
      /\ Members(calls) = {calls[1]} \cup Behind
  BY FirstCall DEF StackOK, Show, Running, Behind
<1>2. f \in Made /\ Made' = Made /\ Members(calls') = {Call("ShowThis", f, 0)} \cup Behind
  BY <1>1, ShowSound DEF CallFits
<1>3. frame' = [frame EXCEPT ![f].shown = TRUE] /\ quirks' = quirks
  BY DEF Show, histories
<1>4. TreeBut(f) /\ (frame'[f].visible <=> frame[f].visible) /\ frame'[f].shown
  BY <1>2, <1>3, TreeFlagSet
<1>5. StaysLeft("Show")
  <2>1. ChildrenGrow
    BY <1>4 DEF ChildrenGrow, TreeBut
  <2>2. \A c \in Members(calls) : c.op # "Show" => c \in Members(calls')
    BY <1>1, <1>2
  <2>. QED  BY <2>1, <2>2, CallsStayLeft
<1>6. Stacked("ShowThis", f)' /\ \A g : ~ Stacked("HideThis", g)'
  <2>1. \A c \in Behind : c.op # "HideThis"
    BY <1>1, FirstCall DEF StackOK, Behind, Firsts
  <2>2. Call("ShowThis", f, 0).op = "ShowThis" /\ Call("ShowThis", f, 0).frame = f
    BY DEF Call
  <2>. QED  BY <1>2, <2>1, <2>2 DEF Stacked
<1>. SUFFICES ASSUME ~ Astray', NEW g \in Made
              PROVE  InTree(g)'
  BY <1>2 DEF TreeKept
<1>7. /\ ShownFirst(g) /\ ListedByParent(g) /\ HiddenWith(g) /\ ShownWith(g)
      /\ HiddenForReason(g) /\ (frame[g].parent # Nil => frame[g].parent \in Made)
  BY <1>3, TreeBefore DEF QuirksGrow
<1>8. ShownFirst(g)' /\ HiddenForReason(g)'
  BY <1>4, <1>5, <1>6, <1>7 DEF ShownFirst, HiddenForReason, TreeBut, StaysLeft
<1>9. ListedByParent(g)'
  BY <1>4, <1>5, <1>7 DEF ListedByParent, TreeBut, StaysLeft
<1>10. HiddenWith(g)'
  BY <1>4, <1>5, <1>7 DEF HiddenWith, TreeBut, StaysLeft
<1>11. ShownWith(g)'
  BY <1>3, <1>4, <1>5, <1>6, <1>7 DEF ShownWith, TreeBut, StaysLeft
<1>. QED  BY <1>8, <1>9, <1>10, <1>11 DEF InTree

LEMMA ShowThisTree ==
    ASSUME FramesAssumption, FramesTypeOK, StackOK, TreeKept, ShowThis
    PROVE  TreeKept'
<1>. PICK f : f = calls[1].frame
  OBVIOUS
<1>1. /\ calls # <<>> /\ calls[1].op = "ShowThis" /\ CallFits(calls[1], Made)
      /\ Members(calls) = {calls[1]} \cup Behind
  BY FirstCall DEF StackOK, ShowThis, Running, Behind
<1>2. f \in Made /\ Made' = Made /\ QuirksGrow
  BY <1>1, ShowThisSound DEF CallFits, ShowThis, QuirksGrow
<1>3. \A g : Stacked("ShowThis", g) <=> g = f
  BY <1>1, FirstsStacked DEF Firsts
<1>4. \A g : ~ Stacked("HideThis", g)
  BY <1>1, FirstsStacked DEF Firsts
<1>5. Members(calls') = (IF MayShow(f) THEN {Call("ShowChildren", f, 1)} ELSE {}) \cup Behind
  BY ShowThisSound
<1>6. /\ Call("ShowChildren", f, 1).op = "ShowChildren" /\ Call("ShowChildren", f, 1).frame = f
      /\ Call("ShowChildren", f, 1).arg = 1
  BY DEF Call
<1>7. \A g : ~ Stacked("HideThis", g)'
  <2>1. \A c \in Behind : c.op # "HideThis"
    BY <1>1, FirstCall DEF StackOK, Behind, Firsts
  <2>. QED  BY <1>5, <1>6, <2>1 DEF Stacked
<1>8. \A c \in Members(calls) : c.op # "ShowThis" => c \in Members(calls')
  BY <1>1, <1>5
<1>. SUFFICES ASSUME ~ Astray', NEW g \in Made
              PROVE  InTree(g)'
  BY <1>2 DEF TreeKept
<1>9. \A h \in Made :
        /\ ShownFirst(h) /\ ListedByParent(h) /\ HiddenWith(h) /\ ShownWith(h)
        /\ HiddenForReason(h) /\ (frame[h].parent # Nil => frame[h].parent \in Made)
  BY <1>2, TreeBefore
<1>10. CASE ~ MayShow(f)
  <2>1. frame' = frame /\ quirks' = quirks
    BY <1>10 DEF ShowThis
  <2>2. StaysLeft("ShowThis")
    BY <1>8, <2>1, CallsStayLeft DEF ChildrenGrow
  <2>3. ShownFirst(g)' /\ HiddenForReason(g)'
    BY <1>7, <1>9, <2>1, <2>2 DEF ShownFirst, HiddenForReason, StaysLeft
  <2>4. ListedByParent(g)'
    BY <1>9, <2>1, <2>2 DEF ListedByParent, StaysLeft
  <2>5. HiddenWith(g)'
    BY <1>9, <2>1, <2>2 DEF HiddenWith, StaysLeft
  <2>6. ShownWith(g)'
    BY <1>3, <1>9, <1>10, <2>1, <2>2 DEF ShownWith, MayShow, StaysLeft
  <2>. QED  BY <2>3, <2>4, <2>5, <2>6 DEF InTree
<1>11. CASE MayShow(f)
  <2>1. frame' = [frame EXCEPT ![f].visible = TRUE]
    BY <1>11 DEF ShowThis
  <2>2. TreeBut(f) /\ frame'[f].visible /\ (frame'[f].shown <=> frame[f].shown)
    BY <1>2, <2>1, TreeFlagSet
  <2>3. StaysLeft("ShowThis")
    <3>1. ChildrenGrow
      BY <2>2 DEF ChildrenGrow, TreeBut
    <3>. QED  BY <1>8, <3>1, CallsStayLeft
  <2>5. \A h \in Members(frame[f].children) : Reaches("ShowChildren", f, h)'
    <3>1. ASSUME NEW h \in Members(frame[f].children)
          PROVE  Reaches("ShowChildren", f, h)'
      <4>1. PICK i \in DOMAIN frame[f].children : frame[f].children[i] = h
        BY DEF Members
      <4>2. frame[f].children \in Seq(Made)
        BY <1>2 DEF FramesTypeOK, FrameRecords
      <4>3. 1 <= i
        BY <4>1, <4>2, LenProperties
      <4>4. LeftFor(Call("ShowChildren", f, 1), h)'
        BY <1>2, <1>6, <2>2, <4>1, <4>3 DEF LeftFor, TreeBut
      <4>. QED  BY <1>5, <1>6, <1>11, <4>4 DEF Reaches
    <3>. QED  BY <3>1
  <2>6. \A h \in Made : frame[h].visible => frame'[h].visible
    BY <2>2 DEF TreeBut
  <2>7. ShownFirst(g)' /\ HiddenForReason(g)'
    BY <1>4, <1>7, <1>9, <1>11, <2>2 DEF ShownFirst, HiddenForReason, TreeBut, MayShow
  <2>8. ListedByParent(g)'
    BY <1>9, <2>2, <2>3 DEF ListedByParent, TreeBut, StaysLeft
  <2>9. HiddenWith(g)'
    <3>1. CASE g = f
      BY <1>9, <1>11, <2>2, <2>6, <3>1 DEF HiddenWith, TreeBut, MayShow
    <3>2. CASE g # f
      BY <1>4, <1>9, <2>2, <2>3, <2>6, <3>2 DEF HiddenWith, TreeBut, StaysLeft
    <3>. QED  BY <3>1, <3>2
  <2>10. ShownWith(g)'
    <3>1. CASE g = f
      BY <2>2, <3>1 DEF ShownWith
    <3>2. CASE g # f /\ frame[g].parent = f
      <4>1. f # Nil
        BY <1>2 DEF FramesAssumption, FramesTypeOK
      <4>2. g \in Members(frame[f].children) \/ Stacked("Attach", g)'
        BY <1>9, <2>3, <3>2, <4>1 DEF ListedByParent, StaysLeft
      <4>. QED  BY <2>2, <2>5, <3>2, <4>1, <4>2 DEF ShownWith, TreeBut
    <3>3. CASE g # f /\ frame[g].parent # f
      BY <1>2, <1>3, <1>9, <2>2, <2>3, <3>3 DEF ShownWith, TreeBut, StaysLeft, QuirksGrow
    <3>. QED  BY <3>1, <3>2, <3>3
  <2>. QED  BY <2>7, <2>8, <2>9, <2>10 DEF InTree
<1>. QED  BY <1>10, <1>11

LEMMA ShowChildrenTree ==
    ASSUME FramesAssumption, FramesTypeOK, StackOK, TreeKept, ShowChildren
    PROVE  TreeKept'
<1>. PICK f, n, child : f = calls[1].frame /\ n = calls[1].arg /\ child = frame[f].children[n]
  OBVIOUS
<1>. DEFINE len == Len(frame[f].children)
<1>1. /\ calls # <<>> /\ calls[1].op = "ShowChildren" /\ CallFits(calls[1], Made)
      /\ Members(calls) = {calls[1]} \cup Behind
  BY FirstCall DEF StackOK, ShowChildren, Running, Behind
<1>2. /\ f \in Made /\ Made' = Made /\ n \in Nat \ {0}
      /\ n > len => Members(calls') = {Script(f)} \cup Behind
      /\ ~ (n > len) =>
            Members(calls') = {Call("ShowThis", child, 0), Call("ShowChildren", f, n + 1)} \cup Behind
  BY <1>1, ShowChildrenSound DEF CallFits
<1>3. frame' = frame /\ quirks' = quirks
  BY DEF ShowChildren, histories
<1>4. frame[f].children \in Seq(Made) /\ len \in Nat /\ DOMAIN frame[f].children = 1..len
  BY <1>2, LenProperties DEF FramesTypeOK, FrameRecords
<1>5. /\ Call("ShowThis", child, 0).op = "ShowThis" /\ Call("ShowThis", child, 0).frame = child
      /\ Call("ShowChildren", f, n + 1).op = "ShowChildren"
      /\ Call("ShowChildren", f, n + 1).frame = f /\ Call("ShowChildren", f, n + 1).arg = n + 1
      /\ Script(f).op = "Script"
  BY DEF Call, Script
<1>6. StaysLeft("ShowChildren")
  <2>1. \A c \in Members(calls) : c.op # "ShowChildren" => c \in Members(calls')
    BY <1>1, <1>2
  <2>. QED  BY <1>3, <2>1, CallsStayLeft DEF ChildrenGrow
<1>7. \A g : ~ Stacked("HideThis", g)'
  <2>1. \A c \in Behind : c.op # "HideThis"
    BY <1>1, FirstCall DEF StackOK, Behind, Firsts
  <2>2. \A c \in Members(calls') : c.op # "HideThis"
    <3>1. CASE n > len
      BY <1>2, <1>5, <2>1, <3>1
    <3>2. CASE ~ (n > len)
      BY <1>2, <1>5, <2>1, <3>2
    <3>. QED  BY <3>1, <3>2
  <2>. QED  BY <2>2 DEF Stacked
<1>8. ~ (n > len) => Stacked("ShowThis", child)'
  BY <1>2, <1>5 DEF Stacked
<1>9. \A p, g : Reaches("ShowChildren", p, g) =>
            Reaches("ShowChildren", p, g)' \/ (~ (n > len) /\ g = child)
  <2>1. ASSUME NEW p, NEW g, Reaches("ShowChildren", p, g)
        PROVE  Reaches("ShowChildren", p, g)' \/ (~ (n > len) /\ g = child)
    <3>1. PICK c \in Members(calls) : c.op = "ShowChildren" /\ c.frame = p /\ LeftFor(c, g)
      BY <2>1 DEF Reaches
    <3>2. CASE c \in Behind
      <4>1. c \in Members(calls') /\ LeftFor(c, g)'
        BY <1>2, <1>3, <3>1, <3>2 DEF LeftFor
      <4>. QED  BY <3>1, <4>1 DEF Reaches
    <3>3. CASE c = calls[1]
      <4>1. PICK i \in DOMAIN frame[f].children : n <= i /\ frame[f].children[i] = g
        BY <3>1, <3>3 DEF LeftFor
      <4>2. ~ (n > len)
        BY <1>2, <1>4, <4>1
      <4>3. CASE i = n
        BY <4>1, <4>2, <4>3
      <4>4. CASE i # n
        <5>1. n + 1 <= i
          BY <1>2, <1>4, <4>1, <4>4
        <5>2. LeftFor(Call("ShowChildren", f, n + 1), g)'
          BY <1>3, <1>5, <4>1, <5>1 DEF LeftFor
        <5>3. Call("ShowChildren", f, n + 1) \in Members(calls')
          BY <1>2, <4>2
        <5>4. p = f
          BY <3>1, <3>3
        <5>. QED  BY <1>5, <5>2, <5>3, <5>4 DEF Reaches
      <4>. QED  BY <4>3, <4>4
    <3>. QED  BY <1>1, <3>2, <3>3
  <2>. QED  BY <2>1
<1>. SUFFICES ASSUME ~ Astray', NEW g \in Made
              PROVE  InTree(g)'
  BY <1>2 DEF TreeKept
<1>10. /\ ShownFirst(g) /\ ListedByParent(g) /\ HiddenWith(g) /\ ShownWith(g)
       /\ HiddenForReason(g) /\ (frame[g].parent # Nil => frame[g].parent \in Made)
  BY <1>3, TreeBefore DEF QuirksGrow
<1>11. ShownFirst(g)' /\ HiddenForReason(g)'
  BY <1>3, <1>6, <1>7, <1>10 DEF ShownFirst, HiddenForReason, StaysLeft
<1>12. ListedByParent(g)'
  BY <1>3, <1>6, <1>10 DEF ListedByParent, StaysLeft
<1>13. HiddenWith(g)'
  BY <1>3, <1>6, <1>10 DEF HiddenWith, StaysLeft
<1>14. ShownWith(g)'
  BY <1>3, <1>6, <1>8, <1>9, <1>10 DEF ShownWith, StaysLeft
<1>. QED  BY <1>11, <1>12, <1>13, <1>14 DEF InTree

LEMMA SetParentTree ==
    ASSUME FramesTypeOK, StackOK, TreeKept, SetParent
    PROVE  TreeKept'
<1>. PICK f, p : f = calls[1].frame /\ p = calls[1].arg
  OBVIOUS
<1>1. /\ calls # <<>> /\ calls[1].op = "SetParent" /\ CallFits(calls[1], Made)
      /\ Members(calls) = {calls[1]} \cup Behind
  BY FirstCall DEF StackOK, SetParent, Running, Behind
<1>2. /\ f \in Made /\ Made' = Made
      /\ \/ Members(calls') = Behind
         \/ Members(calls') = {Call("HideThis", f, 0), Call("Reparent", f, p)} \cup Behind
  BY <1>1, SetParentSound DEF CallFits
<1>3. frame' = frame /\ quirks' = quirks
  BY DEF SetParent, histories
<1>4. /\ Call("HideThis", f, 0).op = "HideThis" /\ Call("HideThis", f, 0).frame = f
      /\ Call("Reparent", f, p).op = "Reparent" /\ Call("Reparent", f, p).frame = f
  BY DEF Call
<1>5. StaysLeft("SetParent")
  <2>1. \A c \in Members(calls) : c.op # "SetParent" => c \in Members(calls')
    BY <1>1, <1>2
  <2>. QED  BY <1>3, <2>1, CallsStayLeft DEF ChildrenGrow
<1>6. \A g : Stacked("HideThis", g)' => g = f /\ Stacked("Reparent", f)'
  <2>1. \A c \in Behind : c.op # "HideThis"
    BY <1>1, FirstCall DEF StackOK, Behind, Firsts
  <2>. QED  BY <1>2, <1>4, <2>1 DEF Stacked
<1>. SUFFICES ASSUME ~ Astray', NEW g \in Made
              PROVE  InTree(g)'
  BY <1>2 DEF TreeKept
<1>7. /\ ShownFirst(g) /\ ListedByParent(g) /\ HiddenWith(g) /\ ShownWith(g)
      /\ HiddenForReason(g) /\ (frame[g].parent # Nil => frame[g].parent \in Made)
  BY <1>3, TreeBefore DEF QuirksGrow
<1>8. ShownFirst(g)' /\ HiddenForReason(g)'
  BY <1>3, <1>5, <1>6, <1>7 DEF ShownFirst, HiddenForReason, StaysLeft
<1>9. ListedByParent(g)'
  BY <1>3, <1>5, <1>7 DEF ListedByParent, StaysLeft
<1>10. HiddenWith(g)'
  BY <1>3, <1>5, <1>7 DEF HiddenWith, StaysLeft
<1>11. ShownWith(g)'
  BY <1>3, <1>5, <1>7 DEF ShownWith, StaysLeft
<1>. QED  BY <1>8, <1>9, <1>10, <1>11 DEF InTree

LEMMA ReparentTree ==
    ASSUME FramesAssumption, FramesTypeOK, StackOK, TreeKept, Reparent
    PROVE  TreeKept'
<1>. PICK f, p, a : f = calls[1].frame /\ p = calls[1].arg
                    /\ a = IF calls[1].arg = Nil THEN 0 ELSE frame[calls[1].arg].level + 1
  OBVIOUS
<1>1. /\ calls # <<>> /\ calls[1].op = "Reparent" /\ CallFits(calls[1], Made)
      /\ Members(calls) = {calls[1]} \cup Behind
  BY FirstCall DEF StackOK, Reparent, Running, Behind
<1>2. /\ f \in Made /\ Made' = Made
      /\ Members(calls') = {Call("SetFrameLevel", f, a), Call("SetBeingScrolled", f, 0),
                            Call("Attach", f, 0)} \cup Behind
  BY <1>1, ReparentSound DEF CallFits
<1>3. /\ frame' = [frame EXCEPT ![f].parent = p] /\ QuirksGrow
      /\ ~ Astray' => ~ frame[f].visible
  BY DEF Reparent, QuirksGrow, Astray
<1>4. \A g \in Made : /\ frame'[g].children = frame[g].children
                      /\ frame'[g].shown <=> frame[g].shown
                      /\ frame'[g].visible <=> frame[g].visible
                      /\ frame'[g].parent = IF g = f THEN p ELSE frame[g].parent
  <2>1. \A g \in Made : /\ frame'[g].children = frame[g].children
                        /\ frame'[g].shown = frame[g].shown
                        /\ frame'[g].visible = frame[g].visible
                        /\ frame'[g].parent = IF g = f THEN p ELSE frame[g].parent
    BY <1>2, <1>3 DEF FramesTypeOK, FrameRecords
  <2>2. \A g \in Made : /\ frame'[g].shown <=> frame[g].shown
                        /\ frame'[g].visible <=> frame[g].visible
    BY <2>1, Zenon
  <2>. QED  BY <2>1, <2>2
<1>5. StaysLeft("Reparent")
  <2>1. \A c \in Members(calls) : c.op # "Reparent" => c \in Members(calls')
    BY <1>1, <1>2
  <2>2. ChildrenGrow
    BY <1>4 DEF ChildrenGrow
  <2>. QED  BY <2>1, <2>2, CallsStayLeft
<1>6. Stacked("Attach", f)' /\ \A g : ~ Stacked("HideThis", g)'
  <2>1. \A c \in Behind : c.op # "HideThis"
    BY <1>1, FirstCall DEF StackOK, Behind, Firsts
  <2>2. /\ Call("Attach", f, 0).op = "Attach" /\ Call("Attach", f, 0).frame = f
        /\ Call("SetBeingScrolled", f, 0).op = "SetBeingScrolled"
        /\ Call("SetFrameLevel", f, a).op = "SetFrameLevel"
    BY DEF Call
  <2>. QED  BY <1>2, <2>1, <2>2 DEF Stacked
<1>7. \A g : g # f /\ Stacked("Reparent", g) => Stacked("Reparent", g)'
  BY <1>1, <1>2 DEF Stacked
<1>. SUFFICES ASSUME ~ Astray', NEW g \in Made
              PROVE  InTree(g)'
  BY <1>2 DEF TreeKept
<1>8. /\ ShownFirst(g) /\ ListedByParent(g) /\ HiddenWith(g) /\ ShownWith(g)
      /\ HiddenForReason(g) /\ (frame[g].parent # Nil => frame[g].parent \in Made)
  BY <1>3, TreeBefore
<1>9. p # Nil => p \in Made
  BY <1>1 DEF CallFits
<1>10. ShownFirst(g)' /\ HiddenForReason(g)'
  BY <1>4, <1>5, <1>6, <1>8 DEF ShownFirst, HiddenForReason, StaysLeft
<1>11. CASE g = f
  <2>1. ListedByParent(g)' /\ HiddenWith(g)' /\ ShownWith(g)'
    BY <1>2, <1>3, <1>4, <1>6, <1>11 DEF ListedByParent, HiddenWith, ShownWith
  <2>. QED  BY <1>10, <2>1 DEF InTree
<1>12. CASE g # f
  <2>1. ListedByParent(g)'
    BY <1>4, <1>5, <1>8, <1>12 DEF ListedByParent, StaysLeft
  <2>2. HiddenWith(g)'
    BY <1>4, <1>5, <1>8, <1>12 DEF HiddenWith, StaysLeft
  <2>3. ShownWith(g)'
    BY <1>3, <1>4, <1>5, <1>7, <1>8, <1>12 DEF ShownWith, StaysLeft, QuirksGrow
  <2>. QED  BY <1>10, <2>1, <2>2, <2>3 DEF InTree
<1>. QED  BY <1>11, <1>12

LEMMA SetBeingScrolledTree ==
    ASSUME FramesTypeOK, StackOK, Sound', TreeKept, SetBeingScrolled
    PROVE  TreeKept'
<1>. PICK f, a, b : /\ f = calls[1].frame /\ a = Call("HideThis", f, 0)
                    /\ b = Call("ScrollChildren", f, <<1, frame[f].visible>>)
  OBVIOUS
<1>1. /\ calls # <<>> /\ calls[1].op = "SetBeingScrolled"
      /\ Members(calls) = {calls[1]} \cup Behind
  BY FirstCall DEF StackOK, SetBeingScrolled, Running, Behind
<1>2. /\ f \in Made /\ Made' = Made /\ quirks' = quirks /\ Members(calls') = {a, b} \cup Behind
  BY SetBeingScrolledSound DEF Sound
<1>3. frame' = frame
  BY DEF SetBeingScrolled
<1>4. /\ a.op = "HideThis" /\ a.frame = f /\ b.op = "ScrollChildren" /\ b.frame = f
      /\ frame[f].visible => b.arg[2]
  BY DEF Call
<1>5. StaysLeft("SetBeingScrolled")
  <2>1. \A c \in Members(calls) : c.op # "SetBeingScrolled" => c \in Members(calls')
    BY <1>1, <1>2
  <2>. QED  BY <1>3, <2>1, CallsStayLeft DEF ChildrenGrow
<1>6. \A g : Stacked("HideThis", g)' => g = f
  <2>1. \A c \in Behind : c.op # "HideThis"
    BY <1>1, FirstCall DEF StackOK, Behind, Firsts
  <2>. QED  BY <1>2, <1>4, <2>1 DEF Stacked
<1>7. frame[f].visible => Rescrolled(f)'
  BY <1>2, <1>4 DEF Rescrolled
<1>. SUFFICES ASSUME ~ Astray', NEW g \in Made
              PROVE  InTree(g)'
  BY <1>2 DEF TreeKept
<1>8. /\ ShownFirst(g) /\ ListedByParent(g) /\ HiddenWith(g) /\ ShownWith(g)
      /\ HiddenForReason(g) /\ (frame[g].parent # Nil => frame[g].parent \in Made)
  BY <1>2, TreeBefore DEF QuirksGrow
<1>9. ShownFirst(g)'
  BY <1>3, <1>5, <1>8 DEF ShownFirst, StaysLeft
<1>10. HiddenForReason(g)'
  BY <1>3, <1>6, <1>7 DEF HiddenForReason
<1>11. ListedByParent(g)'
  BY <1>3, <1>5, <1>8 DEF ListedByParent, StaysLeft
<1>12. HiddenWith(g)'
  BY <1>3, <1>5, <1>8 DEF HiddenWith, StaysLeft
<1>13. ShownWith(g)'
  BY <1>2, <1>3, <1>5, <1>8 DEF ShownWith, StaysLeft
<1>. QED  BY <1>9, <1>10, <1>11, <1>12, <1>13 DEF InTree

LEMMA ScrollChildrenTree ==
    ASSUME FramesTypeOK, StackOK, TreeKept, ScrollChildren
    PROVE  TreeKept'
<1>. PICK f, a, b, d, over :
        /\ f = calls[1].frame /\ over = (calls[1].arg[1] > Len(frame[f].children))
        /\ a = Call("SetBeingScrolled", frame[f].children[calls[1].arg[1]], 0)
        /\ b = Call("ScrollChildren", f, <<calls[1].arg[1] + 1, calls[1].arg[2]>>)
        /\ d = Call("ShowThis", f, 0)
  OBVIOUS
<1>1. /\ calls # <<>> /\ calls[1].op = "ScrollChildren"
      /\ Members(calls) = {calls[1]} \cup Behind
  BY FirstCall DEF StackOK, ScrollChildren, Running, Behind
<1>2. /\ f \in Made /\ Made' = Made
      /\ Members(calls') = (IF over THEN IF calls[1].arg[2] THEN {d} ELSE {}
                            ELSE {a, b}) \cup Behind
  BY ScrollChildrenSound
<1>3. frame' = frame /\ quirks' = quirks
  BY DEF ScrollChildren, histories
<1>4. /\ a.op = "SetBeingScrolled" /\ d.op = "ShowThis" /\ d.frame = f
      /\ b.op = "ScrollChildren" /\ b.frame = f
      /\ b.arg[2] <=> calls[1].arg[2]
  BY DEF Call
<1>5. StaysLeft("ScrollChildren")
  <2>1. \A c \in Members(calls) : c.op # "ScrollChildren" => c \in Members(calls')
    BY <1>1, <1>2
  <2>. QED  BY <1>3, <2>1, CallsStayLeft DEF ChildrenGrow
<1>6. \A g : ~ Stacked("HideThis", g)'
  <2>1. \A c \in Behind : c.op # "HideThis"
    BY <1>1, FirstCall DEF StackOK, Behind, Firsts
  <2>. QED  BY <1>2, <1>4, <2>1 DEF Stacked
<1>7. \A g : Rescrolled(g) => Rescrolled(g)' \/ Stacked("ShowThis", g)'
  <2>1. ASSUME NEW g, Rescrolled(g)
        PROVE  Rescrolled(g)' \/ Stacked("ShowThis", g)'
    <3>1. PICK c \in Members(calls) : c.op = "ScrollChildren" /\ c.frame = g /\ c.arg[2]
      BY <2>1 DEF Rescrolled
    <3>2. CASE c \in Behind
      BY <1>2, <3>1, <3>2 DEF Rescrolled
    <3>3. CASE c = calls[1]
      <4>1. g = f /\ calls[1].arg[2]
        BY <3>1, <3>3
      <4>2. CASE over
        <5>1. d \in Members(calls')
          BY <1>2, <4>1, <4>2
        <5>. QED  BY <1>4, <4>1, <5>1 DEF Stacked
      <4>3. CASE ~ over
        <5>1. b \in Members(calls')
          BY <1>2, <4>3
        <5>. QED  BY <1>4, <4>1, <5>1 DEF Rescrolled
      <4>. QED  BY <4>2, <4>3
    <3>. QED  BY <1>1, <3>1, <3>2, <3>3
  <2>. QED  BY <2>1
<1>. SUFFICES ASSUME ~ Astray', NEW g \in Made
              PROVE  InTree(g)'
  BY <1>2 DEF TreeKept
<1>8. /\ ShownFirst(g) /\ ListedByParent(g) /\ HiddenWith(g) /\ ShownWith(g)
      /\ HiddenForReason(g) /\ (frame[g].parent # Nil => frame[g].parent \in Made)
  BY <1>3, TreeBefore DEF QuirksGrow
<1>9. ShownFirst(g)' /\ HiddenForReason(g)'
  BY <1>3, <1>5, <1>6, <1>8 DEF ShownFirst, HiddenForReason, StaysLeft
<1>10. ListedByParent(g)'
  BY <1>3, <1>5, <1>8 DEF ListedByParent, StaysLeft
<1>11. HiddenWith(g)'
  BY <1>3, <1>5, <1>8 DEF HiddenWith, StaysLeft
<1>12. ShownWith(g)'
  BY <1>3, <1>5, <1>7, <1>8 DEF ShownWith, StaysLeft
<1>. QED  BY <1>9, <1>10, <1>11, <1>12 DEF InTree

LEMMA AttachTree ==
    ASSUME FramesAssumption, FramesTypeOK, StackOK, TreeKept, Attach
    PROVE  TreeKept'
<1>. PICK f, p : f = calls[1].frame /\ p = frame[calls[1].frame].parent
  OBVIOUS
<1>1. /\ calls # <<>> /\ calls[1].op = "Attach" /\ CallFits(calls[1], Made)
      /\ Members(calls) = {calls[1]} \cup Behind
  BY FirstCall DEF StackOK, Attach, Running, Behind
<1>2. f \in Made /\ Made' = Made /\ Members(calls') = {Call("ShowThis", f, 0)} \cup Behind
  BY <1>1, AttachSound DEF CallFits
<1>3. /\ frame' = IF p = Nil THEN frame
                  ELSE [frame EXCEPT ![p].children = Append(frame[p].children, f)]
      /\ QuirksGrow
  BY DEF Attach, QuirksGrow
<1>4. p # Nil => p \in Made
  BY <1>2 DEF FramesTypeOK, FrameRecords
<1>5. \A g \in Made : /\ frame'[g].children = IF p # Nil /\ g = p THEN Append(frame[g].children, f)
                                              ELSE frame[g].children
                      /\ frame'[g].shown <=> frame[g].shown
                      /\ frame'[g].visible <=> frame[g].visible
                      /\ frame'[g].parent = frame[g].parent
  <2>1. CASE p = Nil
    BY <1>3, <2>1
  <2>2. CASE p # Nil
    <3>1. \A g \in Made : /\ frame'[g].children = IF g = p THEN Append(frame[g].children, f)
                                                  ELSE frame[g].children
                          /\ frame'[g].shown = frame[g].shown
                          /\ frame'[g].visible = frame[g].visible
                          /\ frame'[g].parent = frame[g].parent
      <4>1. frame \in [Made -> FrameRecords]
        BY DEF FramesTypeOK
      <4>2. frame' = [frame EXCEPT ![p].children = Append(frame[p].children, f)] /\ p \in Made
        BY <1>3, <1>4, <2>2
      <4>3. DOMAIN frame = Made /\ frame[p] \in FrameRecords
        BY <4>1, <4>2
      <4>4. /\ frame[p] \in FrameRecords
            /\ frame'[p] = [frame[p] EXCEPT !.children = Append(frame[p].children, f)]
        BY <4>1, <4>2, <4>3
      <4>5. /\ frame'[p].children = Append(frame[p].children, f)
            /\ frame'[p].shown = frame[p].shown
            /\ frame'[p].visible = frame[p].visible
            /\ frame'[p].parent = frame[p].parent
        BY <4>4 DEF FrameRecords
      <4>6. \A g \in Made : g # p => frame'[g] = frame[g]
        BY <4>1, <4>2, <4>3
      <4>. QED  BY <4>5, <4>6
    <3>2. \A g \in Made : /\ frame'[g].shown <=> frame[g].shown
                          /\ frame'[g].visible <=> frame[g].visible
      BY <3>1, Zenon
    <3>. QED  BY <2>2, <3>1, <3>2
  <2>. QED  BY <2>1, <2>2
<1>6. \A g \in Made : /\ frame[g].children \in Seq(Made)
                      /\ Members(frame[g].children) \subseteq Members(frame'[g].children)
                      /\ p # Nil /\ g = p => f \in Members(frame'[g].children)
                      /\ \A i \in DOMAIN frame[g].children :
                            i \in DOMAIN frame'[g].children
                            /\ frame'[g].children[i] = frame[g].children[i]
  <2>1. ASSUME NEW g \in Made
        PROVE  /\ frame[g].children \in Seq(Made)
               /\ Members(frame[g].children) \subseteq Members(frame'[g].children)
               /\ p # Nil /\ g = p => f \in Members(frame'[g].children)
               /\ \A i \in DOMAIN frame[g].children :
                     i \in DOMAIN frame'[g].children
                     /\ frame'[g].children[i] = frame[g].children[i]
    <3>1. frame[g].children \in Seq(Made)
      BY DEF FramesTypeOK, FrameRecords
    <3>2. CASE p # Nil /\ g = p
      <4>. DEFINE line == frame[g].children
                  more == Append(line, f)
      <4>1. /\ more \in Seq(Made) /\ Len(more) = Len(line) + 1 /\ more[Len(line) + 1] = f
            /\ \A i \in 1..Len(line) : more[i] = line[i]
        BY <1>2, <3>1, AppendProperties
      <4>2. DOMAIN line = 1..Len(line) /\ Len(line) \in Nat /\ DOMAIN more = 1..Len(more)
        BY <3>1, <4>1, LenProperties
      <4>3. \A i \in DOMAIN line : i \in DOMAIN more /\ more[i] = line[i]
        BY <4>1, <4>2
      <4>4. Len(line) + 1 \in DOMAIN more
        BY <4>1, <4>2
      <4>5. frame'[g].children = more
        BY <1>5, <3>2
      <4>. HIDE DEF more
      <4>6. Members(line) \subseteq Members(more) /\ f \in Members(more)
        BY <4>1, <4>3, <4>4 DEF Members
      <4>. QED  BY <3>1, <4>3, <4>5, <4>6
    <3>3. CASE ~ (p # Nil /\ g = p)
      BY <1>5, <3>1, <3>3
    <3>. QED  BY <3>2, <3>3
  <2>. QED  BY <2>1
<1>7. StaysLeft("Attach")
  <2>1. \A c \in Members(calls) : c.op # "Attach" => c \in Members(calls')
    BY <1>1, <1>2
  <2>2. ChildrenGrow
    BY <1>6 DEF ChildrenGrow
  <2>. QED  BY <2>1, <2>2, CallsStayLeft
<1>8. Stacked("ShowThis", f)' /\ \A g : ~ Stacked("HideThis", g)'
  <2>1. \A c \in Behind : c.op # "HideThis"
    BY <1>1, FirstCall DEF StackOK, Behind, Firsts
  <2>2. Call("ShowThis", f, 0).op = "ShowThis" /\ Call("ShowThis", f, 0).frame = f
    BY DEF Call
  <2>. QED  BY <1>2, <2>1, <2>2 DEF Stacked
<1>9. \A g : g # f /\ Stacked("Attach", g) => Stacked("Attach", g)'
  BY <1>1, <1>2 DEF Stacked
<1>. SUFFICES ASSUME ~ Astray', NEW g \in Made
              PROVE  InTree(g)'
  BY <1>2 DEF TreeKept
<1>10. /\ ShownFirst(g) /\ ListedByParent(g) /\ HiddenWith(g) /\ ShownWith(g)
       /\ HiddenForReason(g) /\ (frame[g].parent # Nil => frame[g].parent \in Made)
  BY <1>3, TreeBefore
<1>11. ShownFirst(g)' /\ HiddenForReason(g)'
  BY <1>5, <1>7, <1>8, <1>10 DEF ShownFirst, HiddenForReason, StaysLeft
<1>12. ListedByParent(g)'
  <2>1. CASE g = f
    BY <1>2, <1>4, <1>5, <1>6, <2>1 DEF ListedByParent
  <2>2. CASE g # f
    BY <1>5, <1>6, <1>9, <1>10, <2>2 DEF ListedByParent
  <2>. QED  BY <2>1, <2>2
<1>13. HiddenWith(g)'
  BY <1>5, <1>6, <1>7, <1>10 DEF HiddenWith, StaysLeft
<1>14. ShownWith(g)'
  BY <1>3, <1>5, <1>7, <1>8, <1>9, <1>10 DEF ShownWith, StaysLeft, QuirksGrow
<1>. QED  BY <1>11, <1>12, <1>13, <1>14 DEF InTree

LEMMA TreeIsKept ==
    ASSUME FramesAssumption, FramesTypeOK, StackOK, HiddenStays, TreeKept, FramesNext, Sound'
    PROVE  TreeKept'
<1>1. CASE Beside
  BY <1>1, BesideTree
<1>2. CASE Hide \/ HideThis \/ Removed \/ HideChildren
  BY <1>2, HideTree, HideThisTree, RemovedTree, HideChildrenTree
<1>3. CASE Show \/ ShowThis \/ ShowChildren
  BY <1>3, ShowTree, ShowThisTree, ShowChildrenTree
<1>4. CASE SetParent \/ Reparent \/ SetBeingScrolled \/ ScrollChildren \/ Attach
  BY <1>4, SetParentTree, ReparentTree, SetBeingScrolledTree, ScrollChildrenTree, AttachTree
<1>. QED  BY <1>1, <1>2, <1>3, <1>4 DEF FramesNext, Beside
-----------------------------------------------------------------------------
(* The initial states, and the invariant of every step. *)

LEMMA StepSound ==
    ASSUME FramesTypeOK, StackOK, FramesNext
    PROVE  FramesTypeOK' /\ StackOK'
<1>1. CASE ScriptCalls \/ ScriptReturns \/ Hide \/ HideThis \/ Removed \/ HideChildren
  BY <1>1, ScriptCallsSound, ScriptReturnsSound, HideSound, HideThisSound, RemovedSound,
     HideChildrenSound
<1>2. CASE Show \/ ShowThis \/ ShowChildren \/ SetFrameLevel \/ ShiftChildren \/ SetParent
  BY <1>2, ShowSound, ShowThisSound, ShowChildrenSound, SetFrameLevelSound, ShiftChildrenSound,
     SetParentSound
<1>3. CASE \/ Reparent \/ SetBeingScrolled \/ ScrollChildren \/ Attach
           \/ EnableEvent \/ DisableEvent \/ Disabled \/ LockHighlight
  BY <1>3, ReparentSound, SetBeingScrolledSound, ScrollChildrenSound, AttachSound, EnableEventSound, DisableEventSound, DisabledSound,
     LockHighlightSound
<1>4. CASE CursorEnter \/ CursorExit \/ OnMouseMove \/ OnMouseDown \/ OnMouseUp \/ MouseReleased
  BY <1>4, CursorEnterSound, CursorExitSound, OnMouseMoveSound, OnMouseDownSound, OnMouseUpSound,
     MouseReleasedSound
<1>5. CASE OnKeyDown \/ KeyLoop \/ KeyEaten \/ OnKeyUp \/ KeyReleased
  BY <1>5, OnKeyDownSound, KeyLoopSound, KeyEatenSound, OnKeyUpSound, KeyReleasedSound
<1>6. CASE OnLayerUpdate \/ UpdateLevel \/ UpdateNode \/ CheckFocus
  BY <1>6, OnLayerUpdateSound, UpdateLevelSound, UpdateNodeSound, CheckFocusSound
<1>. QED  BY <1>1, <1>2, <1>3, <1>4, <1>5, <1>6 DEF FramesNext

\* The queue of the frames of a list: the root, of level 0, is the last.
FirstQueue(fs, root) ==
    [i \in DOMAIN fs |-> [frame |-> fs[i], priority |-> IF fs[i] = root THEN 0 ELSE 1]]
FirstlyQueued(q, made, root, F) ==
    /\ q \in Seq([frame : made, priority : Levels])
    /\ Neat(q)
    /\ \A x : x \in Members(q) <=>
            /\ x.frame \in F
            /\ x = [frame |-> x.frame, priority |-> IF x.frame = root THEN 0 ELSE 1]

LEMMA FirstQueueNeat ==
    ASSUME FramesAssumption, NEW made \in SUBSET Frame, NEW children \in Seq(made),
           NEW root \in made, NoRepeats(children), root \notin Members(children), NEW S
    PROVE  FirstlyQueued(FirstQueue(UnlinkAll(Append(children, root), S), root),
                         made, root, (Members(children) \cup {root}) \ S)
<1>. DEFINE all == Append(children, root)
            fs == UnlinkAll(all, S)
            q == FirstQueue(fs, root)
            P(f) == IF f = root THEN 0 ELSE 1
<1>1. all \in Seq(made) /\ Len(all) = Len(children) + 1 /\ all[Len(all)] = root
      /\ \A i \in 1..Len(children) : all[i] = children[i]
  BY AppendProperties, LenProperties
<1>2. Members(all) = Members(children) \cup {root} /\ NoRepeats(all)
  BY AppendMembers
<1>3. \A i \in 1..Len(children) : all[i] # root
  BY <1>1, LenProperties DEF Members
<1>. HIDE DEF all
<1>4. fs \in Seq(made) /\ Members(fs) = Members(all) \ S /\ NoRepeats(fs) /\ IsSubsequence(fs, all)
  BY <1>1, <1>2, UnlinkAllProperties
<1>. HIDE DEF fs
<1>5. /\ DOMAIN fs = 1..Len(fs) /\ Len(fs) \in Nat /\ \A i \in 1..Len(fs) : fs[i] \in made
      /\ DOMAIN all = 1..Len(all) /\ Len(children) \in Nat
  BY <1>1, <1>4, LenProperties, ElementOfSeq
<1>6. \A f : P(f) \in Levels
  BY FramesAssumption DEF Levels, FramesAssumption
<1>7. /\ q = [i \in 1..Len(fs) |-> [frame |-> fs[i], priority |-> P(fs[i])]]
      /\ \A i \in 1..Len(fs) : [frame |-> fs[i], priority |-> P(fs[i])] \in [frame : made, priority : Levels]
  BY <1>5, <1>6 DEF FirstQueue
<1>8. q \in [1..Len(fs) -> [frame : made, priority : Levels]]
  BY <1>7
<1>9. q \in Seq([frame : made, priority : Levels])
  <2>. DEFINE T == [frame : made, priority : Levels]
  <2>1. q \in [1..Len(fs) -> T] /\ Len(fs) \in Nat
    BY <1>5, <1>8
  <2>. HIDE DEF q, T
  <2>2. q \in Seq(T)
    BY <2>1, SeqDef
  <2>. QED  BY <2>2 DEF T
<1>10. /\ DOMAIN q = 1..Len(fs)
       /\ \A i \in 1..Len(fs) : q[i] = [frame |-> fs[i], priority |-> P(fs[i])]
                                /\ q[i].frame = fs[i] /\ q[i].priority = P(fs[i])
  BY <1>7
<1>. HIDE DEF q
<1>11. NoRepeats(q)
  <2>1. ASSUME NEW i \in DOMAIN q, NEW j \in DOMAIN q, q[i] = q[j]
        PROVE  i = j
    <3>1. fs[i] = fs[j]
      BY <1>10, <2>1
    <3>. QED  BY <1>4, <1>5, <1>10, <3>1 DEF NoRepeats
  <2>. QED  BY <2>1 DEF NoRepeats
<1>12. \A x, y \in Members(q) : x.frame = y.frame => x = y
  BY <1>10 DEF Members
<1>13. Ordered(q, Rank)
  <2>. PICK place \in [DOMAIN fs -> DOMAIN all] :
        /\ \A n \in DOMAIN place : fs[n] = all[place[n]]
        /\ \A m, n \in DOMAIN place : m < n => place[m] < place[n]
    BY <1>4 DEF IsSubsequence
  <2>1. ASSUME NEW i \in DOMAIN q, NEW j \in DOMAIN q, i < j
        PROVE  Rank[q[i]] <= Rank[q[j]]
    <3>1. place[i] \in 1..Len(all) /\ place[j] \in 1..Len(all) /\ place[i] < place[j]
          /\ fs[i] = all[place[i]]
      BY <1>5, <1>10, <2>1
    <3>2. place[i] \in 1..Len(children)
      BY <1>1, <1>5, <3>1
    <3>3. fs[i] # root
      BY <1>3, <3>1, <3>2
    <3>4. q[i].priority = 1 /\ q[j].priority \in {0, 1}
      BY <1>10, <3>3
    <3>5. \A n \in DOMAIN q : q[n] \in [frame : Frame, priority : Levels]
      BY <1>8, <1>10
    <3>6. Rank[q[i]] = MaxLevel - q[i].priority /\ Rank[q[j]] = MaxLevel - q[j].priority
      BY <3>5 DEF Rank
    <3>. QED  BY <3>4, <3>6, FramesAssumption DEF FramesAssumption
  <2>. QED  BY <2>1 DEF Ordered
<1>14. ASSUME NEW x
       PROVE  x \in Members(q) <=>
                    /\ x.frame \in (Members(children) \cup {root}) \ S
                    /\ x = [frame |-> x.frame, priority |-> P(x.frame)]
  <2>1. ASSUME x \in Members(q)
        PROVE  /\ x.frame \in (Members(children) \cup {root}) \ S
               /\ x = [frame |-> x.frame, priority |-> P(x.frame)]
    <3>1. PICK i \in 1..Len(fs) : x = [frame |-> fs[i], priority |-> P(fs[i])] /\ x.frame = fs[i]
      BY <1>10, <2>1 DEF Members
    <3>2. fs[i] \in Members(fs)
      BY <1>5 DEF Members
    <3>. QED  BY <1>2, <1>4, <3>1, <3>2
  <2>2. ASSUME x.frame \in (Members(children) \cup {root}) \ S,
               x = [frame |-> x.frame, priority |-> P(x.frame)]
        PROVE  x \in Members(q)
    <3>0. x.frame \in Members(fs)
      BY <1>2, <1>4, <2>2
    <3>1. PICK i \in 1..Len(fs) : fs[i] = x.frame
      BY <1>5, <3>0 DEF Members
    <3>. QED  BY <1>10, <2>2, <3>1 DEF Members
  <2>. QED  BY <2>1, <2>2
<1>15. Neat(q)
  BY <1>11, <1>12, <1>13 DEF Neat
<1>. QED  BY <1>9, <1>14, <1>15 DEF q, fs, all, FirstlyQueued

LEMMA AtFirst ==
    ASSUME FramesAssumption, FramesInit
    PROVE  FramesTypeOK /\ StackOK /\ Highlights /\ Served /\ Lists /\ LoopKept /\ TreeKept
<1>1. PICK scene \in Scenes : InitScene(scene)
  BY DEF FramesInit
<1>. DEFINE created == scene.created
            made == Members(created)
            root == created[1]
            children == Tail(created)
            P(f) == IF f = root THEN 0 ELSE 1
<1>2. /\ created \in Seq(Frame) /\ created # <<>> /\ NoRepeats(created)
      /\ scene.ops \in Seq(SUBSET (ScriptOps \X Frame))
      /\ Enabled \in [Frame -> SUBSET {"key", "mouse"}] /\ MaxLevel \in Nat \ {0} /\ Nil \notin Frame
  BY FramesAssumption DEF FramesAssumption
<1>3. made \subseteq Frame /\ created \in Seq(made) /\ ToSet(created) = made
  <2>1. DOMAIN created = 1..Len(created) /\ Len(created) \in Nat
        /\ \A i \in 1..Len(created) : created[i] \in Frame
    BY <1>2, LenProperties, ElementOfSeq
  <2>2. \A i \in 1..Len(created) : created[i] \in made
    BY <2>1 DEF Members
  <2>3. made \subseteq Frame
    BY <2>1 DEF Members
  <2>4. created \in [1..Len(created) -> made]
    BY <1>2, <2>1, <2>2, LenProperties
  <2>5. created \in Seq(made)
    BY <2>1, <2>4, SeqDef
  <2>. QED  BY <2>3, <2>5 DEF ToSet, Members
<1>4. /\ frame = [f \in made |->
            [parent |-> IF f = root THEN Nil ELSE root,
             children |-> IF f = root THEN children ELSE <<>>,
             shown |-> TRUE, visible |-> TRUE, level |-> P(f), eventmask |-> Enabled[f],
             highlight |-> FALSE, locked |-> FALSE]]
      /\ node = [l \in Levels |->
            [frames |-> IF l = 0 THEN <<root>> ELSE IF l = 1 THEN children ELSE <<>>,
             pendingFrames |-> <<>>, pendingFrame |-> Nil]]
      /\ queue = [e \in Events |->
            FirstQueue(UnlinkAll(Append(children, root), {f \in Frame : e \notin Enabled[f]}), root)]
      /\ ops = scene.ops
  BY <1>1, <1>3 DEF InitScene, FirstQueue
<1>5. /\ top = [mouseFocus |-> Nil, mouseCapture |-> Nil, keydownCapture |-> Nil,
                checkFocus |-> TRUE, hits |-> {}]
      /\ calls = <<>> /\ entered = {} /\ quirks = {} /\ due = {}
  BY DEF FramesInit
<1>6. root \in made /\ children \in Seq(made) /\ Members(children) = made \ {root}
      /\ NoRepeats(children)
  <2>1. Head(created) = root
    BY <1>2, HeadTailProperties
  <2>2. NoRepeats(created) =>
            Members(Tail(created)) = Members(created) \ {Head(created)} /\ NoRepeats(Tail(created))
    BY <1>2, HeadTailMembers
  <2>3. /\ Head(created) \in made /\ Tail(created) \in Seq(made)
        /\ Head(created) \in Members(created)
    BY <1>2, <1>3, HeadTailMembers
  <2>. QED  BY <1>2, <2>1, <2>2, <2>3
<1>. HIDE DEF made, root, children, created
<1>7. Made = made /\ \A f \in made : /\ frame[f].visible /\ frame[f].level = P(f)
                                     /\ frame[f].eventmask = Enabled[f]
                                     /\ ~ frame[f].highlight /\ ~ frame[f].locked
  BY <1>4 DEF Made
<1>8. \A f : P(f) \in Levels
  BY <1>2 DEF Levels
<1>. HIDE DEF P
<1>9. ASSUME NEW e \in Events
      PROVE  /\ queue[e] \in Seq([frame : made, priority : Levels])
             /\ Neat(queue[e])
             /\ \A x : x \in Members(queue[e]) <=>
                    x.frame \in made /\ e \in Enabled[x.frame]
                    /\ x = [frame |-> x.frame, priority |-> P(x.frame)]
  <2>. DEFINE S == {f \in Frame : e \notin Enabled[f]}
  <2>1. queue[e] = FirstQueue(UnlinkAll(Append(children, root), S), root)
    BY <1>4
  <2>2. root \notin Members(children) /\ made \in SUBSET Frame
    BY <1>3, <1>6
  <2>3. \A f : f \in (Members(children) \cup {root}) \ S <=> f \in made /\ e \in Enabled[f]
    BY <1>3, <1>6
  <2>. HIDE DEF S
  <2>4. FirstlyQueued(queue[e], made, root, (Members(children) \cup {root}) \ S)
    <3>1. children \in Seq(made) /\ root \in made /\ NoRepeats(children)
      BY <1>6
    <3>2. FirstlyQueued(FirstQueue(UnlinkAll(Append(children, root), S), root),
                        made, root, (Members(children) \cup {root}) \ S)
      BY <2>2, <3>1, FirstQueueNeat, FramesAssumption
    <3>. QED  BY <2>1, <3>2
  <2>. QED  BY <2>3, <2>4 DEF P, FirstlyQueued
<1>10. FramesTypeOK
  <2>1. Made \subseteq Frame
    BY <1>3, <1>7
  <2>2. frame \in [Made -> FrameRecords]
    <3>1. ASSUME NEW f \in made
          PROVE  [parent |-> IF f = root THEN Nil ELSE root,
                  children |-> IF f = root THEN children ELSE <<>>,
                  shown |-> TRUE, visible |-> TRUE, level |-> P(f), eventmask |-> Enabled[f],
                  highlight |-> FALSE, locked |-> FALSE] \in FrameRecords
      <4>1. (IF f = root THEN Nil ELSE root) \in Made \cup {Nil}
        BY <1>6, <1>7
      <4>2. (IF f = root THEN children ELSE <<>>) \in Seq(Made)
        BY <1>6, <1>7, EmptySeq
      <4>3. P(f) \in Levels /\ Enabled[f] \in SUBSET Events
        BY <1>2, <1>3, <1>8 DEF Events
      <4>. QED  BY <4>1, <4>2, <4>3 DEF FrameRecords
    <3>. QED  BY <1>4, <1>7, <3>1
  <2>3. node \in [Levels -> NodeRecords]
    <3>1. ASSUME NEW l \in Levels
          PROVE  [frames |-> IF l = 0 THEN <<root>> ELSE IF l = 1 THEN children ELSE <<>>,
                  pendingFrames |-> <<>>, pendingFrame |-> Nil] \in NodeRecords
      <4>1. <<root>> \in Seq(Made) /\ children \in Seq(Made) /\ <<>> \in Seq(Made)
        BY <1>6, <1>7, EmptySeq
      <4>. QED  BY <4>1 DEF NodeRecords
    <3>. QED  BY <1>4, <3>1
  <2>4. queue \in [Events -> Seq(QueueEntries)]
    <3>1. QueueEntries = [frame : made, priority : Levels]
      BY <1>7 DEF QueueEntries
    <3>2. \A e \in Events : queue[e] \in Seq(QueueEntries)
      BY <1>9, <3>1
    <3>3. queue = [e \in Events |-> queue[e]]
      BY <1>4
    <3>. QED  BY <3>2, <3>3
  <2>5. top \in TopRecords
    BY <1>5 DEF TopRecords
  <2>. QED  BY <1>2, <1>4, <1>5, <2>1, <2>2, <2>3, <2>4, <2>5 DEF FramesTypeOK
<1>11. StackOK /\ Members(calls) = {}
  <2>1. calls = <<>>
    BY <1>5
  <2>2. Members(calls) = {} /\ DOMAIN calls = {} /\ calls \in Seq({})
    BY <2>1, EmptySeq, LenProperties DEF Members
  <2>. QED  BY <2>2 DEF StackOK, StackFits, InOrder
<1>12. Highlights
  <2>1. \A op, f : ~ Stacked(op, f)
    BY <1>11 DEF Stacked
  <2>2. top.mouseFocus = Nil /\ \A f \in Made : f # Nil
    BY <1>2, <1>3, <1>5, <1>7
  <2>3. \A f \in Made : Entered(f)
    BY <1>5, <2>1, <2>2 DEF Entered
  <2>4. \A f \in Made : Lit(f)
    BY <1>7, <2>1, <2>2 DEF Lit
  <2>. QED  BY <2>3, <2>4 DEF Highlights
<1>13. QueuesServe
  <2>1. \A op, f : ~ Stacked(op, f)
    BY <1>11 DEF Stacked
  <2>2. \A e \in Events : \A x \in Members(queue[e]) :
            /\ frame[x.frame].visible /\ e \in frame[x.frame].eventmask
            /\ x.priority = frame[x.frame].level
    <3>1. ASSUME NEW e \in Events, NEW x \in Members(queue[e])
          PROVE  /\ frame[x.frame].visible /\ e \in frame[x.frame].eventmask
                 /\ x.priority = frame[x.frame].level
      <4>1. x.frame \in made /\ e \in Enabled[x.frame]
            /\ x = [frame |-> x.frame, priority |-> P(x.frame)]
        BY <1>9, <3>1
      <4>2. x.priority = P(x.frame)
        <5>1. PICK f : f = x.frame
          OBVIOUS
        <5>2. x = [frame |-> f, priority |-> P(f)]
          BY <4>1, <5>1
        <5>. QED  BY <5>1, <5>2
      <4>. QED  BY <1>7, <4>1, <4>2
    <3>. QED  BY <3>1
  <2>3. \A e \in Events : \A f \in Made : frame[f].visible /\ e \in frame[f].eventmask => Queued(f, e)
    <3>1. ASSUME NEW e \in Events, NEW f \in Made, e \in frame[f].eventmask
          PROVE  Queued(f, e)
      <4>. DEFINE x == [frame |-> f, priority |-> P(f)]
      <4>1. x.frame = f /\ f \in made /\ e \in Enabled[f]
        BY <1>7, <3>1
      <4>2. x \in Members(queue[e])
        BY <1>9, <4>1
      <4>. QED  BY <4>1, <4>2, QueuedEntries
    <3>. QED  BY <3>1
  <2>4. \A e \in Events : Neat(queue[e])
    BY <1>9
  <2>. QED  BY <2>1, <2>2, <2>3, <2>4 DEF QueuesServe
<1>14. FocusKept /\ KeysKept
  <2>1. \A op, f : ~ Stacked(op, f)
    BY <1>11 DEF Stacked
  <2>. QED  BY <1>5, <2>1 DEF FocusKept, KeysKept
<1>15. Lists
  <2>1. \A op, f : ~ Stacked(op, f)
    BY <1>11 DEF Stacked
  <2>2. /\ \A l \in Levels : /\ node[l].frames = IF l = 0 THEN <<root>>
                                               ELSE IF l = 1 THEN children ELSE <<>>
                            /\ node[l].pendingFrames = <<>>
    BY <1>4
  <2>3. /\ Members(<<>>) = {} /\ NoRepeats(<<>>)
        /\ Members(<<root>>) = {root} /\ NoRepeats(<<root>>)
    <3>1. DOMAIN <<root>> = {1} /\ <<root>>[1] = root /\ DOMAIN <<>> = {}
      OBVIOUS
    <3>. QED  BY <3>1 DEF Members, NoRepeats
  <2>4. \A l \in Levels : /\ NoRepeats(node[l].frames) /\ NoRepeats(node[l].pendingFrames)
                          /\ Members(node[l].pendingFrames) = {}
                          /\ \A f : f \in At(node[l]) <=> f \in made /\ l = P(f)
    <3>1. ASSUME NEW l \in Levels
          PROVE  /\ NoRepeats(node[l].frames) /\ NoRepeats(node[l].pendingFrames)
                 /\ Members(node[l].pendingFrames) = {}
                 /\ \A f : f \in At(node[l]) <=> f \in made /\ l = P(f)
      <4>1. NoRepeats(node[l].frames) /\ NoRepeats(node[l].pendingFrames)
            /\ Members(node[l].pendingFrames) = {}
        BY <1>6, <2>2, <2>3
      <4>2. CASE l = 0
        <5>1. Members(node[l].frames) = {root}
          BY <2>2, <2>3, <4>2
        <5>. QED  BY <1>6, <4>1, <4>2, <5>1 DEF At, P
      <4>3. CASE l = 1
        <5>1. Members(node[l].frames) = made \ {root}
          BY <1>6, <2>2, <4>3
        <5>. QED  BY <1>6, <4>1, <4>3, <5>1 DEF At, P
      <4>4. CASE l # 0 /\ l # 1
        <5>1. Members(node[l].frames) = {}
          BY <2>2, <2>3, <4>4
        <5>. QED  BY <4>1, <4>4, <5>1 DEF At, P
      <4>. QED  BY <4>1, <4>2, <4>3, <4>4
    <3>. QED  BY <3>1
  <2>5. ListedOnce(node)
    BY <2>4 DEF ListedOnce
  <2>6. ListsServe
    <3>1. \A l \in Levels : \A f \in At(node[l]) : frame[f].visible /\ frame[f].level = l
      BY <1>7, <2>4
    <3>2. \A f \in Made : OnLists(node, f)
      BY <1>7, <1>8, <2>4 DEF OnLists
    <3>. QED  BY <2>2, <3>1, <3>2 DEF ListsServe
  <2>7. HiddenStays
    BY <2>1 DEF HiddenStays, Removing
  <2>. QED  BY <2>5, <2>6, <2>7 DEF Lists
<1>16. LoopKept
  <2>1. \A l : ~ Updating(l)
    BY <1>11 DEF Updating
  <2>2. \A l \in Levels : node[l].pendingFrame = Nil
    BY <1>4
  <2>. QED  BY <2>1, <2>2 DEF LoopKept, LoopStands
<1>17. TreeKept
  <2>1. \A op, f : ~ Stacked(op, f)
    BY <1>11 DEF Stacked
  <2>2. \A f \in Made : /\ frame[f].shown /\ frame[f].visible
                        /\ frame[f].parent = IF f = root THEN Nil ELSE root
                        /\ root \in Made /\ frame[root].children = children
                        /\ frame[root].visible
    BY <1>4, <1>6, <1>7
  <2>3. \A f \in Made : f # root => f \in Members(children)
    BY <1>6, <1>7
  <2>4. ASSUME NEW f \in Made
        PROVE  InTree(f)
    <3>1. ShownFirst(f) /\ ShownWith(f)
      BY <2>2 DEF ShownFirst, ShownWith
    <3>2. ListedByParent(f) /\ HiddenWith(f)
      BY <2>2, <2>3 DEF ListedByParent, HiddenWith
    <3>3. HiddenForReason(f)
      BY <2>1 DEF HiddenForReason
    <3>. QED  BY <3>1, <3>2, <3>3 DEF InTree
  <2>. QED  BY <2>4 DEF TreeKept
<1>. QED  BY <1>10, <1>11, <1>12, <1>13, <1>14, <1>15, <1>16, <1>17 DEF Served

\* What every step keeps: the types, the order of the call stack, and, until
\* the recursion has no end and the calls are cut off, the highlight, the
\* queues, the lists of the levels, the loop over one of them, and the tree.
FramesKept == Highlights /\ Served /\ Lists /\ LoopKept /\ TreeKept
FramesInv ==
    /\ FramesTypeOK
    /\ StackOK
    /\ Sound \/ calls = <<>>
    /\ Sound => FramesKept

LEMMA CutOff ==
    ASSUME FramesNext, ~ Sound'
    PROVE  calls' = <<>>
<1>1. Sound
  BY DEF FramesNext, Sound
<1>2. ASSUME quirks' = quirks
      PROVE  FALSE
  BY <1>1, <1>2 DEF Sound
<1>3. CASE ScriptCalls \/ ScriptReturns \/ Hide \/ ScrollChildren
  BY <1>2, <1>3 DEF ScriptCalls, ScriptReturns, Hide, ScrollChildren, histories
<1>16. CASE HideThis
  BY <1>1, <1>16 DEF HideThis, Sound
<1>17. CASE SetBeingScrolled
  BY <1>1, <1>17 DEF SetBeingScrolled, Sound
<1>4. CASE Removed \/ Show \/ ShowChildren
  BY <1>2, <1>4 DEF Removed, Show, ShowChildren, histories
<1>5. CASE HideChildren
  <2>1. quirks' = quirks \/ quirks' = quirks \cup {"orphaned"}
    BY <1>5 DEF HideChildren
  <2>. QED  BY <1>1, <2>1 DEF Sound
<1>6. CASE ShowThis
  BY <1>1, <1>6 DEF ShowThis, Sound
<1>7. CASE SetFrameLevel
  BY <1>1, <1>7 DEF SetFrameLevel, Sound
<1>8. CASE ShiftChildren \/ SetParent
  BY <1>2, <1>8 DEF ShiftChildren, SetParent, histories
<1>9. CASE Reparent
  <2>1. "overflow" \notin quirks'
    BY <1>1, <1>9 DEF Reparent, Sound
  <2>. QED  BY <2>1 DEF Sound
<1>10. CASE Attach
  <2>1. "overflow" \notin quirks'
    BY <1>1, <1>10 DEF Attach, Sound
  <2>. QED  BY <2>1 DEF Sound
<1>11. CASE EnableEvent \/ DisableEvent \/ Disabled \/ LockHighlight
  BY <1>1, <1>11 DEF EnableEvent, DisableEvent, Disabled, LockHighlight, histories, Sound
<1>12. CASE CursorEnter
  <2>1. "overflow" \notin quirks'
    BY <1>1, <1>12 DEF CursorEnter, Sound
  <2>. QED  BY <2>1 DEF Sound
<1>13. CASE CursorExit \/ OnMouseMove \/ OnMouseDown \/ OnMouseUp \/ MouseReleased
  BY <1>2, <1>13 DEF CursorExit, OnMouseMove, OnMouseDown, OnMouseUp, MouseReleased, histories
<1>14. CASE OnKeyDown \/ KeyLoop \/ KeyEaten \/ OnKeyUp \/ KeyReleased
  BY SMTT(30), <1>1, <1>14 DEF OnKeyDown, KeyLoop, KeyEaten, OnKeyUp, KeyReleased, histories, Sound
<1>15. CASE OnLayerUpdate \/ UpdateLevel \/ UpdateNode \/ CheckFocus
  BY <1>2, <1>15 DEF OnLayerUpdate, UpdateLevel, UpdateNode, CheckFocus, histories
<1>. QED  BY <1>3, <1>4, <1>5, <1>6, <1>7, <1>8, <1>9, <1>10, <1>11, <1>12, <1>13, <1>14, <1>15,
         <1>16, <1>17 DEF FramesNext

LEMMA FramesInvKept ==
    ASSUME FramesAssumption, FramesInv, FramesNext
    PROVE  FramesInv'
<1>1. FramesTypeOK' /\ StackOK'
  BY StepSound DEF FramesInv
<1>2. FramesTypeOK /\ StackOK /\ Highlights /\ Served /\ Lists /\ LoopKept /\ TreeKept
      /\ HiddenStays
  <2>1. Sound
    BY DEF FramesNext, Sound
  <2>. QED  BY <2>1 DEF FramesInv, FramesKept, Lists
<1>3. Sound' => Highlights' /\ Served'
  BY <1>2, HighlightsKept, ServedKept
<1>4. Sound' => Lists' /\ LoopKept' /\ TreeKept'
  BY <1>2, ListsKept, LoopIsKept, TreeIsKept
<1>5. Sound' \/ calls' = <<>>
  BY CutOff
<1>. QED  BY <1>1, <1>3, <1>4, <1>5 DEF FramesInv, FramesKept

LEMMA FramesInvUnchanged ==
    ASSUME FramesInv, UNCHANGED framesVars
    PROVE  FramesInv'
<1>1. /\ frame' = frame /\ node' = node /\ queue' = queue /\ top' = top /\ calls' = calls
      /\ ops' = ops /\ entered' = entered /\ quirks' = quirks /\ due' = due /\ Made' = Made
  BY DEF framesVars, Made
<1>2. FramesTypeOK'
  BY <1>1 DEF FramesInv, FramesTypeOK, FrameRecords, NodeRecords, QueueEntries, TopRecords
<1>3. StackOK'
  BY <1>1 DEF FramesInv, StackOK
<1>4. (\A op, f : Stacked(op, f)' <=> Stacked(op, f)) /\ (\A f, e : Queued(f, e)' <=> Queued(f, e))
  BY <1>1 DEF Stacked, Queued
<1>5. Sound' <=> Sound
  BY <1>1 DEF Sound
<1>6. Highlights => Highlights'
  BY <1>1, <1>4 DEF Highlights, Entered, Lit
<1>7. QueuesServe => QueuesServe'
  BY <1>1, <1>4 DEF QueuesServe
<1>8. FocusKept => FocusKept'
  BY <1>1, <1>4 DEF FocusKept
<1>9. KeysKept => KeysKept'
  BY <1>1, <1>4 DEF KeysKept
<1>10. QuirksGrow
  BY <1>1 DEF QuirksGrow
<1>11. Lists => Lists'
  <2>1. ListsSame /\ Placed /\ RemovalsSame
    BY <1>1 DEF ListsSame, Placed, RemovalsSame
  <2>. QED  BY <1>1, <1>10, <2>1, ListsStay DEF FramesInv
<1>12. LoopKept => LoopKept'
  <2>1. LoopSame
    BY <1>1 DEF LoopSame
  <2>. QED  BY <1>1, <1>10, <2>1, LoopStays
<1>13. TreeKept => TreeKept'
  <2>1. TreeSame /\ WalksSame
    BY <1>1 DEF TreeSame, WalksSame
  <2>. QED  BY <1>1, <1>10, <2>1, TreeStays DEF FramesInv
<1>. QED  BY <1>1, <1>2, <1>3, <1>5, <1>6, <1>7, <1>8, <1>9, <1>11, <1>12, <1>13
           DEF FramesInv, FramesKept, Served

\* When nothing is called, the invariant has no exceptions left.
LEMMA AtRest ==
    ASSUME FramesInv, Idle
    PROVE  /\ FramesTypeOK /\ FramesKept /\ \A op, f : ~ Stacked(op, f)
           /\ \A op, p, f : ~ Reaches(op, p, f) /\ ~ Rescrolled(f)
<1>1. Members(calls) = {}
  BY NoCalls DEF Idle
<1>. QED  BY <1>1 DEF FramesInv, Sound, Idle, Stacked, Reaches, Rescrolled

LEMMA TreeFollows ==
    ASSUME FramesAssumption, FramesInv
    PROVE  VisibleTree
<1>. SUFFICES ASSUME Idle, quirks \cap {"reshown", "orphaned", "unlisted"} = {}, NEW f \in Made
              PROVE  frame[f].visible <=>
                        /\ frame[f].shown
                        /\ frame[f].parent # Nil => frame[frame[f].parent].visible
  BY DEF VisibleTree
<1>1. \A op, g : ~ Stacked(op, g)
  BY AtRest
<1>2. \A op, p, g : ~ Reaches(op, p, g) /\ ~ Rescrolled(g)
  BY AtRest
<1>3. InTree(f)
  BY AtRest DEF FramesKept, TreeKept, Astray
<1>4. frame[f].visible => frame[f].shown
  BY <1>1, <1>3 DEF InTree, ShownFirst
<1>5. frame[f].visible /\ frame[f].parent # Nil => frame[frame[f].parent].visible
  BY <1>1, <1>2, <1>3 DEF InTree, HiddenWith
<1>6. frame[f].shown /\ (frame[f].parent # Nil => frame[frame[f].parent].visible) => frame[f].visible
  BY <1>1, <1>2, <1>3 DEF InTree, ShownWith
<1>. QED  BY <1>4, <1>5, <1>6

LEMMA ServiceFollows ==
    ASSUME FramesAssumption, FramesInv
    PROVE  ServedIfVisible
<1>. SUFFICES ASSUME Idle, quirks \cap {"reshown", "requeued", "shifted"} = {}, NEW f \in Made
              PROVE  /\ \A l \in Levels :
                        /\ node[l].pendingFrames = <<>> \/ "late" \in quirks
                        /\ Contains(node[l].frames \o node[l].pendingFrames, f)
                               <=> frame[f].visible /\ l = frame[f].level
                     /\ \A e \in Events :
                        IF frame[f].visible /\ e \in frame[f].eventmask
                        THEN \E i \in 1..Len(queue[e]) :
                                Entries(f, e) = {i} /\ queue[e][i].priority = frame[f].level
                        ELSE Entries(f, e) = {}
  BY DEF ServedIfVisible
<1>1. FramesTypeOK /\ ListsServe /\ QueuesServe
  BY AtRest DEF FramesKept, Lists, Served
<1>2. \A op, g : ~ Stacked(op, g)
  BY AtRest
<1>3. ASSUME NEW l \in Levels
      PROVE  /\ node[l].pendingFrames = <<>> \/ "late" \in quirks
             /\ Contains(node[l].frames \o node[l].pendingFrames, f)
                    <=> frame[f].visible /\ l = frame[f].level
  <2>1. node[l].frames \in Seq(Made) /\ node[l].pendingFrames \in Seq(Made)
    BY <1>1 DEF FramesTypeOK, NodeRecords
  <2>2. Contains(node[l].frames \o node[l].pendingFrames, f) <=> f \in At(node[l])
    BY <2>1, ContainedInEither DEF At
  <2>3. f \in At(node[l]) => frame[f].visible /\ frame[f].level = l
    BY <1>1, <1>2 DEF ListsServe
  <2>4. frame[f].visible => \E k \in Levels : f \in At(node[k]) /\ frame[f].level = k
    BY <1>1 DEF ListsServe, OnLists
  <2>5. node[l].pendingFrames = <<>> \/ "late" \in quirks
    BY <1>1 DEF ListsServe
  <2>. QED  BY <2>2, <2>3, <2>4, <2>5
<1>4. ASSUME NEW e \in Events
      PROVE  IF frame[f].visible /\ e \in frame[f].eventmask
             THEN \E i \in 1..Len(queue[e]) :
                     Entries(f, e) = {i} /\ queue[e][i].priority = frame[f].level
             ELSE Entries(f, e) = {}
  <2>1. queue[e] \in Seq(QueueEntries) /\ DOMAIN queue[e] = 1..Len(queue[e])
    BY <1>1, LenProperties DEF FramesTypeOK
  <2>2. ASSUME NEW i \in DOMAIN queue[e], queue[e][i].frame = f
        PROVE  /\ frame[f].visible /\ e \in frame[f].eventmask
               /\ queue[e][i].priority = frame[f].level
    <3>1. queue[e][i] \in Members(queue[e])
      BY DEF Members
    <3>. QED  BY <1>1, <2>2, <3>1 DEF QueuesServe
  <2>3. CASE frame[f].visible /\ e \in frame[f].eventmask
    <3>1. Queued(f, e)
      BY <1>1, <1>2, <2>3 DEF QueuesServe
    <3>2. PICK i \in DOMAIN queue[e] : queue[e][i].frame = f
      BY <3>1 DEF Queued
    <3>3. ASSUME NEW j \in DOMAIN queue[e], queue[e][j].frame = f
          PROVE  j = i
      <4>1. queue[e][i] \in Members(queue[e]) /\ queue[e][j] \in Members(queue[e])
        BY DEF Members
      <4>2. Neat(queue[e])
        BY <1>1 DEF QueuesServe
      <4>3. queue[e][i] = queue[e][j]
        BY <3>2, <3>3, <4>1, <4>2 DEF Neat
      <4>. QED  BY <4>2, <4>3 DEF Neat, NoRepeats
    <3>4. Entries(f, e) = {i}
      BY <3>2, <3>3 DEF Entries
    <3>5. queue[e][i].priority = frame[f].level
      BY <2>2, <3>2
    <3>. QED  BY <2>1, <2>3, <3>4, <3>5
  <2>4. CASE ~ (frame[f].visible /\ e \in frame[f].eventmask)
    <3>1. Entries(f, e) = {}
      BY <2>2, <2>4 DEF Entries
    <3>. QED  BY <2>4, <3>1
  <2>. QED  BY <2>3, <2>4
<1>. QED  BY <1>3, <1>4

LEMMA LoopFollows ==
    ASSUME FramesAssumption, FramesInv
    PROVE  UpdatesTheRest
<1>. DEFINE l == calls[Len(calls)].arg
            next == node[l].pendingFrame
<1>. SUFFICES ASSUME calls # <<>>, calls[Len(calls)].op = "UpdateNode", "shifted" \notin quirks
              PROVE  /\ due = Ahead(node[l].frames, next)
                     /\ next # Nil => next \in due
  BY DEF UpdatesTheRest
<1>1. FramesTypeOK /\ StackOK /\ FramesKept
  BY DEF FramesInv
<1>2. calls[Len(calls)] \in Members(calls) /\ l \in Levels
  <2>1. calls[Len(calls)] \in Members(calls)
    BY <1>1, FirstCall DEF StackOK
  <2>2. CallFits(calls[Len(calls)], Made)
    BY <1>1, <2>1 DEF StackOK, StackFits
  <2>. QED  BY <2>1, <2>2 DEF CallFits
<1>3. Updating(l)
  BY <1>2 DEF Updating
<1>. HIDE DEF l
<1>4. /\ next # Nil => next \in Members(node[l].frames)
      /\ due = Ahead(node[l].frames, next)
  BY <1>1, <1>2, <1>3 DEF FramesKept, LoopKept, LoopStands
<1>5. next # Nil => next \in Ahead(node[l].frames, next)
  <2>. SUFFICES ASSUME next # Nil
                PROVE  next \in Ahead(node[l].frames, next)
    OBVIOUS
  <2>1. node[l].frames \in Seq(Made) /\ DOMAIN node[l].frames = 1..Len(node[l].frames)
    BY <1>1, <1>2, LenProperties DEF FramesTypeOK, NodeRecords
  <2>2. PICK i \in DOMAIN node[l].frames : node[l].frames[i] = next
    BY <1>4 DEF Members
  <2>3. i \in 1..i
    BY <2>1
  <2>. QED  BY <2>2, <2>3 DEF Ahead
<1>. QED  BY <1>4, <1>5

LEMMA FocusFollows ==
    ASSUME FramesAssumption, FramesInv
    PROVE  FocusAgrees
<1>. SUFFICES ASSUME Idle
              PROVE  FocusAgrees
  BY DEF FocusAgrees, FocusOnTop, HighlightFollows, CapturesVisible
<1>1. FramesTypeOK /\ Highlights /\ Served /\ \A op, f : ~ Stacked(op, f)
  <2>1. Members(calls) = {}
    BY NoCalls DEF Idle
  <2>. QED  BY <2>1 DEF FramesInv, FramesKept, Sound, Idle, Stacked
<1>. DEFINE q == queue["mouse"]
<1>2. q \in Seq(QueueEntries) /\ DOMAIN q = 1..Len(q) /\ Len(q) \in Nat
      /\ \A i \in 1..Len(q) : q[i] \in QueueEntries /\ q[i].frame \in Made
  <2>1. q \in Seq(QueueEntries)
    BY <1>1 DEF FramesTypeOK, Events
  <2>2. \A i \in 1..Len(q) : q[i] \in QueueEntries
    BY <2>1, ElementOfSeq
  <2>. QED  BY <2>1, <2>2, LenProperties DEF QueueEntries
<1>3. top.mouseFocus \in Made \cup {Nil} /\ Nil \notin Made
  BY <1>1, FramesAssumption DEF FramesTypeOK, TopRecords, FramesAssumption
<1>4. FocusOnTop
  <2>. SUFFICES ASSUME ~ top.checkFocus, "requeued" \notin quirks
                PROVE  /\ top.mouseFocus = FocusChange(top.hits).focus
                       /\ top.mouseFocus # Nil =>
                            \A f \in top.hits \cap Made : Queued(f, "mouse") =>
                                frame[f].level <= frame[top.mouseFocus].level
    BY DEF FocusOnTop
  <2>1. FirstUnder(q, top.hits, top.mouseFocus) /\ QueuesServe
    BY <1>1 DEF Served, FocusKept
  <2>2. FocusChange(top.hits).focus = FirstFrame(q, top.hits)
    BY DEF FocusChange, FirstFrame
  <2>3. top.mouseFocus = FirstFrame(q, top.hits)
    <3>. HIDE DEF q
    <3>1. FirstUnder(q, top.hits, FirstFrame(q, top.hits))
      BY <1>2, FirstFrameIsUnder
    <3>. QED  BY <1>1, <1>2, <2>1, <3>1, OnlyFirstUnder
  <2>4. ASSUME top.mouseFocus # Nil, NEW f \in top.hits \cap Made, Queued(f, "mouse")
        PROVE  frame[f].level <= frame[top.mouseFocus].level
    <3>1. PICK i \in 1..Len(q) : /\ q[i].frame = top.mouseFocus
                                 /\ \A j \in 1..(i - 1) : q[j].frame \notin top.hits
      BY <1>2, <2>1, <2>4 DEF FirstUnder
    <3>2. PICK k \in 1..Len(q) : q[k].frame = f
      BY <1>2, <2>4 DEF Queued
    <3>3. ~ (k < i)
      BY <2>4, <3>1, <3>2
    <3>4. Rank[q[i]] <= Rank[q[k]]
      <4>1. CASE i = k
        BY <1>1, <1>2, <4>1, RankType
      <4>2. CASE i < k
        <5>1. Neat(q)
          BY <2>1 DEF QueuesServe, Events
        <5>. QED  BY <1>2, <4>2, <5>1 DEF Neat, Ordered
      <4>. QED  BY <3>3, <4>1, <4>2
    <3>5. /\ Rank[q[i]] = MaxLevel - q[i].priority /\ q[i].priority \in Levels
          /\ Rank[q[k]] = MaxLevel - q[k].priority /\ q[k].priority \in Levels
      BY <1>1, <1>2, RankType DEF QueueEntries
    <3>6. q[k].priority <= q[i].priority
      BY <3>4, <3>5, FramesAssumption DEF FramesAssumption, Levels
    <3>7. q[i] \in Members(q) /\ q[k] \in Members(q)
      BY <1>2 DEF Members
    <3>8. q[i].priority = frame[q[i].frame].level /\ q[k].priority = frame[q[k].frame].level
      BY <2>1, <3>7 DEF QueuesServe, Events
    <3>. QED  BY <3>1, <3>2, <3>6, <3>8
  <2>. QED  BY <2>3, <2>2, <2>4
<1>5. HighlightFollows
  <2>. SUFFICES ASSUME "hasty" \notin quirks
                PROVE  /\ entered = {top.mouseFocus} \ {Nil}
                       /\ \A f \in Made :
                            frame[f].highlight <=> (frame[f].locked \/ top.mouseFocus = f)
    BY DEF HighlightFollows
  <2>1. \A f \in Made : Entered(f) /\ Lit(f)
    BY <1>1 DEF Highlights
  <2>2. \A f \in Made : f \in entered <=> f = top.mouseFocus
    BY <1>1, <2>1 DEF Entered
  <2>3. entered \subseteq Made
    BY <1>1 DEF FramesTypeOK
  <2>4. \A f \in Made : frame[f].highlight <=> (frame[f].locked \/ top.mouseFocus = f)
    BY <1>1, <2>1 DEF Lit
  <2>. QED  BY <1>3, <2>2, <2>3, <2>4
<1>6. CapturesVisible
  <2>. SUFFICES ASSUME "requeued" \notin quirks
                PROVE  /\ \A f \in {top.mouseCapture, top.mouseFocus} \ {Nil} :
                            frame[f].visible /\ "mouse" \in frame[f].eventmask
                       /\ top.keydownCapture # Nil /\ "escaped" \notin quirks =>
                            frame[top.keydownCapture].visible
    BY DEF CapturesVisible
  <2>1. QueuesServe /\ FocusKept /\ KeysKept
    BY <1>1 DEF Served
  <2>2. ASSUME NEW f, Queued(f, "mouse")
        PROVE  frame[f].visible /\ "mouse" \in frame[f].eventmask
    <3>1. PICK x \in Members(q) : x.frame = f
      BY <2>2, QueuedEntries
    <3>. QED  BY <2>1, <3>1 DEF QueuesServe, Events
  <2>. QED  BY <2>1, <2>2 DEF FocusKept, KeysKept
<1>. QED  BY <1>4, <1>5, <1>6 DEF FocusAgrees

\* However the scripts nest that CSimpleFrame and CSimpleTop call: the frames,
\* lists, queues and the call stack have their types and are in order, and the
\* highlight, the queues, the lists, the loop and the tree are kept.
THEOREM FramesInvHolds == FramesSpec => []FramesInv
<1>1. FramesInit => FramesInv
  <2>1. FramesInit => Sound
    BY DEF FramesInit, Sound
  <2>. QED  BY <2>1, AtFirst, FramesAssumption DEF FramesInv, FramesKept
<1>2. FramesInv /\ [FramesNext]_framesVars => FramesInv'
  BY FramesInvKept, FramesInvUnchanged, FramesAssumption
<1>. QED  BY <1>1, <1>2, PTL DEF FramesSpec

\* However the scripts nest, when they have returned a frame is visible if it
\* is shown and its parent visible, it is in the list of its level and in the
\* queues of its events once, and nowhere if it is not visible (ShowThis,
\* HideThis, SetParent, SetFrameLevel, EnableEvent, DisableEvent); and a level
\* is never negative.  Whatever the OnUpdate scripts do to the list that
\* OnLayerUpdate walks, what is left to update is what was in the level at the
\* start and has not left it: no frame is skipped, updated twice, or updated
\* after it was hidden.
THEOREM FramesAlwaysAgree == FramesSpec => []FramesAgree
<1>1. FramesInv => UpdatesTheRest
  BY LoopFollows, FramesAssumption
<1>2. FramesInv => FramesAgree
  BY <1>1, TreeFollows, ServiceFollows, FramesAssumption DEF FramesAgree, FramesInv
<1>. QED  BY <1>2, FramesInvHolds, PTL

\* However the scripts nest, when they have returned the mouse and the keys
\* belong to visible frames, the focus is what a search of the queue would
\* find and the frame on top, and the highlight follows it (OnMouseMove,
\* HideThis, DisableEvent, SetFrameLevel, ShowThis, LockHighlight).
THEOREM FocusAlwaysAgrees == FramesSpec => []FocusAgrees
<1>1. FramesInv => FocusAgrees
  BY FocusFollows, FramesAssumption
<1>. QED  BY <1>1, FramesInvHolds, PTL

=============================================================================
