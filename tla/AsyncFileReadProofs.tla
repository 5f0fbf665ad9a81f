------------------------- MODULE AsyncFileReadProofs -------------------------
(***************************************************************************)
(* Theorems about AsyncFileRead, for any set of objects, any priorities    *)
(* and any bounds.                                                         *)
(***************************************************************************)
EXTENDS AsyncFileRead, IntrusiveListLemmas, FiniteSetTheorems

----------------------------------------------------------------------------
(* Type correctness.                                                       *)

\* Calls push frames, returns drop the top one, and a call that goes on
\* replaces it.
LEMMA PushType ==
    ASSUME stack \in Seq(Frame), NEW f \in Frame, Push(f)
    PROVE  stack' \in Seq(Frame)
BY DEF Push

LEMMA PopType ==
    ASSUME stack \in Seq(Frame), stack # <<>>, Pop
    PROVE  stack' \in Seq(Frame)
<1>1. Len(stack) - 1 \in 0..Len(stack)
  OBVIOUS
<1>. QED  BY <1>1, SubSeqProperties DEF Pop

LEMMA ResumeType ==
    ASSUME stack \in Seq(Frame), stack # <<>>, NEW op,
           Call(op, Top.obj) \in Frame, Resume(op)
    PROVE  stack' \in Seq(Frame)
BY ExceptSeq DEF Resume

LEMMA TopIsFrame ==
    ASSUME stack \in Seq(Frame), NEW op, OnTop(op)
    PROVE  /\ stack # <<>>
           /\ Len(stack) \in DOMAIN stack
           /\ Top \in Frame
           /\ Top.op = op
BY DEF OnTop, Top

\* The frames of calls about an object name one.
LEMMA TopObject ==
    ASSUME stack \in Seq(Frame), NEW op, OnTop(op),
           op \in {"user", "after", "cleanup", "none", "wait", "destroy"}
    PROVE  Top.obj \in Objects
<1>1. Top \in Frame /\ Top.op = op
  BY TopIsFrame
<1>. QED  BY <1>1 DEF Frame

LEMMA ObjectFrame ==
    ASSUME NEW o \in Objects,
           NEW op \in {"user", "after", "cleanup", "none", "wait", "destroy"}
    PROVE  Call(op, o) \in Frame
BY DEF Call, Frame

LEMMA PollFrame ==
    /\ Call("poll", NULL) \in Frame
    /\ Call("check", NULL) \in Frame
BY DEF Call, Frame

\* The list operations of a destroyed object.
LEMMA GiveBackType ==
    ASSUME TypeOK, NEW o \in Objects, GiveBack(o)
    PROVE  /\ freeList' \in Seq(Objects)
           /\ readList' \in Seq(Objects)
           /\ postList' \in Seq(Objects)
           /\ held' \subseteq Objects
           /\ UNCHANGED <<fresh, currentObject, asyncWaitObject, awaited,
                          requests>>
           /\ UNCHANGED objectVars
BY UnlinkProperties, LinkToHeadProperties DEF GiveBack, TypeOK

\* Every step of the specification preserves the types.
LEMMA TypeStep == TypeOK /\ [Next]_vars => TypeOK'
<1>. SUFFICES ASSUME TypeOK, [Next]_vars
              PROVE  TypeOK'
  OBVIOUS
<1>. USE DEF objectVars, userVars, flagVars, readerVars
<1>1. ASSUME NEW o \in Objects, NEW p \in Priorities, NEW a2 \in BOOLEAN,
             UserRequest(o, p, a2)
      PROVE  TypeOK'
  <2>1. readList' \in Seq(Objects)
    BY <1>1, InsertAtProperties DEF UserRequest, Request, TypeOK
  <2>2. fresh' \subseteq Objects
    BY <1>1 DEF UserRequest, Request, Allocated, TypeOK
  <2>3. freeList' \in Seq(Objects)
    <3>1. Allocated(o)
      BY <1>1 DEF UserRequest, Request
    <3>2. freeList # <<>> => Tail(freeList) \in Seq(Objects)
      BY HeadTailProperties DEF TypeOK
    <3>. QED  BY <3>1, <3>2 DEF Allocated, TypeOK
  <2>4. p \in 0..255
    BY PrioritiesAssumption
  <2>. QED  BY <1>1, <2>1, <2>2, <2>3, <2>4 DEF UserRequest, Request, TypeOK
<1>2. ASSUME NEW o \in Objects, UserWait(o)
      PROVE  TypeOK'
  <2>1. readList' \in Seq(Objects)
    BY <1>2, UnlinkProperties, LinkToHeadProperties DEF UserWait, WaitBegin, TypeOK
  <2>2. stack' \in Seq(Frame)
    BY <1>2, ObjectFrame, PushType DEF UserWait, WaitBegin, TypeOK
  <2>. QED  BY <1>2, <2>1, <2>2 DEF UserWait, WaitBegin, TypeOK
<1>3. ASSUME NEW o \in Objects, UserCancel(o)
      PROVE  TypeOK'
  <2>1. /\ freeList' \in Seq(Objects)
        /\ readList' \in Seq(Objects)
        /\ postList' \in Seq(Objects)
    BY <1>3, UnlinkProperties, LinkToHeadProperties DEF UserCancel, Cancel, TypeOK
  <2>. QED  BY <1>3, <2>1 DEF UserCancel, Cancel, CleanupCallback, TypeOK
<1>4. ASSUME NEW o \in Objects, UserDestroy(o)
      PROVE  TypeOK'
  <2>1. CASE isCurrent[o]
    <3>1. stack' \in Seq(Frame)
      BY <1>4, <2>1, ObjectFrame, PushType DEF UserDestroy, TypeOK
    <3>. QED  BY <1>4, <2>1, <3>1 DEF UserDestroy, TypeOK
  <2>2. CASE ~ isCurrent[o]
    BY ZenonT(40), <1>4, <2>2, GiveBackType DEF UserDestroy, TypeOK
  <2>. QED  BY <2>1, <2>2
<1>5. CASE PollEnter
  <2>1. stack' \in Seq(Frame)
    BY <1>5, PollFrame, PushType DEF PollEnter, TypeOK
  <2>. QED  BY <1>5, <2>1 DEF PollEnter, TypeOK
<1>6. CASE PollPost
  <2>. DEFINE o == Head(postList)
  <2>1. o \in Objects /\ postList' \in Seq(Objects)
    BY <1>6 DEF PollPost, TypeOK
  <2>2. stack # <<>>
    BY <1>6 DEF PollPost, OnTop
  <2>3. [stack EXCEPT ![Len(stack)] = Call("check", NULL)] \in Seq(Frame)
    BY <2>2, PollFrame, ExceptSeq DEF TypeOK
  <2>4. Call(callback[o], o) \in Frame
    <3>1. callback[o] \in {"user", "after", "cleanup", "none", "wait", "destroy"}
      BY <2>1 DEF TypeOK
    <3>. QED  BY <2>1, <3>1, ObjectFrame
  <2>5. stack' \in Seq(Frame)
    BY <1>6, <2>3, <2>4 DEF PollPost
  <2>6. isProcessed' \in [Objects -> BOOLEAN] /\ asyncWaitObject' \in Objects \cup {NULL}
    BY <1>6 DEF PollPost, TypeOK
  <2>. QED  BY <1>6, <2>1, <2>5, <2>6 DEF PollPost, TypeOK
<1>7. CASE PollContinue
  <2>1. stack # <<>> /\ Top \in Frame /\ Top.op = "check"
    BY <1>7, TopIsFrame DEF PollContinue, TypeOK
  <2>2. Call("poll", Top.obj) \in Frame
    BY <2>1 DEF Call, Frame
  <2>3. stack' \in Seq(Frame)
    BY <1>7, <2>1, <2>2, ResumeType DEF PollContinue, TypeOK
  <2>. QED  BY <1>7, <2>3 DEF PollContinue, TypeOK
<1>8. CASE PollReturn
  BY <1>8, PopType DEF PollReturn, OnTop, TypeOK
<1>9. CASE WaitEnd
  BY <1>9, PopType DEF WaitEnd, OnTop, TypeOK
<1>10. CASE DestroyEnd
  <2>1. stack # <<>> /\ Top.obj \in Objects
    BY <1>10, TopIsFrame, TopObject DEF DestroyEnd, TypeOK
  <2>2. GiveBack(Top.obj) /\ stack' \in Seq(Frame)
    BY <1>10, <2>1, PopType DEF DestroyEnd, TypeOK
  <2>. QED  BY ZenonT(40), <2>1, <2>2, GiveBackType DEF TypeOK
<1>11. CASE CallbackDestroy
  <2>1. stack # <<>> /\ Top.obj \in Objects
    BY <1>11, TopIsFrame, TopObject DEF CallbackDestroy, TypeOK
  <2>2. stack' \in Seq(Frame)
    BY <1>11, <2>1, ObjectFrame, ResumeType DEF CallbackDestroy, TypeOK
  <2>3. GiveBack(Top.obj)
    BY <1>11 DEF CallbackDestroy
  <2>. QED  BY <2>1, <2>2, <2>3, GiveBackType DEF TypeOK
<1>12. CASE CleanupDestroy
  <2>1. stack # <<>> /\ Top.obj \in Objects
    BY <1>12, TopIsFrame, TopObject DEF CleanupDestroy, TypeOK
  <2>2. GiveBack(Top.obj) /\ stack' \in Seq(Frame)
    BY <1>12, <2>1, PopType DEF CleanupDestroy, TypeOK
  <2>. QED  BY ZenonT(40), <2>1, <2>2, GiveBackType DEF TypeOK
<1>13. CASE CallbackReturn
  BY <1>13, PopType DEF CallbackReturn, OnTop, TypeOK
<1>14. CASE ThreadTake
  <2>1. Head(readList) \in Objects /\ readList' \in Seq(Objects)
    BY <1>14, HeadTailProperties DEF ThreadTake, TypeOK
  <2>. QED  BY <1>14, <2>1 DEF ThreadTake, TypeOK
<1>15. CASE ThreadPost
  <2>1. currentObject \in Objects
    BY <1>15 DEF ThreadPost, Reading, TypeOK
  <2>2. postList' \in Seq(Objects)
    BY <1>15, <2>1 DEF ThreadPost, TypeOK
  <2>. QED  BY <1>15, <2>1, <2>2 DEF ThreadPost, TypeOK
<1>16. CASE UNCHANGED vars
  BY <1>16 DEF vars, TypeOK
<1>. QED
  BY <1>1, <1>2, <1>3, <1>4, <1>5, <1>6, <1>7, <1>8, <1>9, <1>10, <1>11,
     <1>12, <1>13, <1>14, <1>15, <1>16
  DEF Next, MainSystem, Thread, User

\* Every variable always holds a value of its type.
THEOREM TypeCorrect == Spec => []TypeOK
<1>1. Init => TypeOK
  BY DEF Init, TypeOK
<1>. QED  BY <1>1, TypeStep, PTL DEF Spec
----------------------------------------------------------------------------
(* The stack of callbacks.                                                 *)

\* Calling adds the object of a callback, and nothing for any other call.
LEMMA PushOpen ==
    ASSUME NEW s \in Seq(Frame), NEW f \in Frame
    PROVE  /\ f.op \in OpenOps =>
                OpenObjects(Append(s, f)) = OpenObjects(s) \cup {f.obj}
           /\ f.op \notin OpenOps => OpenObjects(Append(s, f)) = OpenObjects(s)
           /\ OpenOnce(s) /\ (f.op \in OpenOps => f.obj \notin OpenObjects(s))
                => OpenOnce(Append(s, f))
<1>. DEFINE t == Append(s, f)
<1>1. /\ DOMAIN t = 1..(Len(s) + 1) /\ DOMAIN s = 1..Len(s)
      /\ \A i \in 1..Len(s) : t[i] = s[i]
      /\ t[Len(s) + 1] = f
  BY AppendProperties, LenProperties
<1>. HIDE DEF t
<1>2. ASSUME f.op \in OpenOps
      PROVE  OpenObjects(t) = OpenObjects(s) \cup {f.obj}
  BY <1>1, <1>2 DEF OpenObjects
<1>3. ASSUME f.op \notin OpenOps
      PROVE  OpenObjects(t) = OpenObjects(s)
  BY <1>1, <1>3 DEF OpenObjects
<1>4. ASSUME OpenOnce(s), f.op \in OpenOps => f.obj \notin OpenObjects(s)
      PROVE  OpenOnce(t)
  BY <1>1, <1>4 DEF OpenOnce, OpenObjects
<1>. QED  BY <1>2, <1>3, <1>4 DEF t

\* Putting a frame that is no open callback in place of the top one, or
\* dropping the top one, removes the object of the callback it was.
LEMMA CloseTop ==
    ASSUME NEW s \in Seq(Frame), s # <<>>, OpenOnce(s), NEW t,
           \/ t = SubSeq(s, 1, Len(s) - 1)
           \/ \E f \in Frame : f.op \notin OpenOps /\ t = [s EXCEPT ![Len(s)] = f]
    PROVE  /\ OpenOnce(t)
           /\ s[Len(s)].op \in OpenOps =>
                OpenObjects(t) = OpenObjects(s) \ {s[Len(s)].obj}
           /\ s[Len(s)].op \notin OpenOps => OpenObjects(t) = OpenObjects(s)
<1>. DEFINE n == Len(s)
<1>1. n \in Nat /\ n >= 1 /\ DOMAIN s = 1..n
  BY LenProperties, EmptySeq
<1>2. /\ \A i \in 1..(n - 1) : i \in DOMAIN t /\ t[i] = s[i]
      /\ \A i \in DOMAIN t : i \in 1..n /\ (i # n \/ t[i].op \notin OpenOps)
  <2>1. CASE t = SubSeq(s, 1, n - 1)
    <3>1. t \in Seq(Frame) /\ Len(t) = n - 1 /\ \A i \in 1..(n - 1) : t[i] = s[i]
      <4>1. \A i \in 1..(n - 1) : s[i] \in Frame
        BY <1>1, ElementOfSeq
      <4>. QED  BY <1>1, <2>1, <4>1, SubSeqProperties
    <3>. QED  BY <1>1, <3>1, LenProperties
  <2>2. ASSUME NEW f \in Frame, f.op \notin OpenOps, t = [s EXCEPT ![n] = f]
        PROVE  /\ \A i \in 1..(n - 1) : i \in DOMAIN t /\ t[i] = s[i]
               /\ \A i \in DOMAIN t :
                    i \in 1..n /\ (i # n \/ t[i].op \notin OpenOps)
    <3>1. n \in 1..Len(s)
      BY <1>1
    <3>2. /\ t \in Seq(Frame) /\ Len(t) = n
          /\ \A i \in 1..n : t[i] = IF i = n THEN f ELSE s[i]
      BY <2>2, <3>1, ExceptSeq
    <3>3. DOMAIN t = 1..n
      BY <3>2, LenProperties
    <3>. HIDE DEF n
    <3>4. \A i \in 1..(n - 1) : i \in 1..n /\ i # n
      BY <1>1
    <3>5. \A i \in 1..(n - 1) : t[i] = s[i]
      BY <3>2, <3>4
    <3>6. t[n] = f
      BY <1>1, <3>2
    <3>. QED  BY <2>2, <3>3, <3>4, <3>5, <3>6
  <2>. QED  BY <2>1, <2>2
<1>. HIDE DEF n
<1>3. OpenOnce(t)
  BY <1>1, <1>2 DEF OpenOnce
<1>4. ASSUME s[n].op \in OpenOps
      PROVE  OpenObjects(t) = OpenObjects(s) \ {s[n].obj}
  <2>1. ASSUME NEW x \in OpenObjects(t)
        PROVE  x \in OpenObjects(s) \ {s[n].obj}
    <3>1. PICK i \in DOMAIN t : t[i].op \in OpenOps /\ t[i].obj = x
      BY DEF OpenObjects
    <3>2. i \in 1..(n - 1) /\ s[i].op \in OpenOps /\ s[i].obj = x
      BY <1>1, <1>2, <3>1
    <3>. QED  BY <1>1, <1>4, <3>2 DEF OpenObjects, OpenOnce
  <2>2. ASSUME NEW x \in OpenObjects(s) \ {s[n].obj}
        PROVE  x \in OpenObjects(t)
    <3>1. PICK i \in DOMAIN s : s[i].op \in OpenOps /\ s[i].obj = x
      BY DEF OpenObjects
    <3>2. i \in 1..(n - 1)
      BY <1>1, <3>1
    <3>. QED  BY <1>2, <3>1, <3>2 DEF OpenObjects
  <2>. QED  BY <2>1, <2>2
<1>5. ASSUME s[n].op \notin OpenOps
      PROVE  OpenObjects(t) = OpenObjects(s)
  <2>1. ASSUME NEW x \in OpenObjects(t)
        PROVE  x \in OpenObjects(s)
    <3>1. PICK i \in DOMAIN t : t[i].op \in OpenOps /\ t[i].obj = x
      BY DEF OpenObjects
    <3>2. i \in 1..(n - 1) /\ s[i].op \in OpenOps /\ s[i].obj = x
      BY <1>1, <1>2, <3>1
    <3>. QED  BY <1>1, <3>2 DEF OpenObjects
  <2>2. ASSUME NEW x \in OpenObjects(s)
        PROVE  x \in OpenObjects(t)
    <3>1. PICK i \in DOMAIN s : s[i].op \in OpenOps /\ s[i].obj = x
      BY DEF OpenObjects
    <3>2. i \in 1..(n - 1)
      BY <1>1, <1>5, <3>1
    <3>. QED  BY <1>2, <3>1, <3>2 DEF OpenObjects
  <2>. QED  BY <2>1, <2>2
<1>. QED  BY <1>3, <1>4, <1>5 DEF n
----------------------------------------------------------------------------
(* Every object is in one place.                                           *)

IInv == TypeOK /\ OnePlace /\ FlagsMatchLists

\* Six sets that share nothing and together hold every object.
Split(a, b, c, d, e, f) ==
    /\ a \cap b = {} /\ a \cap c = {} /\ a \cap d = {} /\ a \cap e = {} /\ a \cap f = {}
    /\ b \cap c = {} /\ b \cap d = {} /\ b \cap e = {} /\ b \cap f = {}
    /\ c \cap d = {} /\ c \cap e = {} /\ c \cap f = {}
    /\ d \cap e = {} /\ d \cap f = {}
    /\ e \cap f = {}
    /\ a \cup b \cup c \cup d \cup e \cup f = Objects

LEMMA SplitPlaces ==
    ASSUME NEW a, NEW b, NEW c, NEW d, NEW e, NEW f
    PROVE  LET P == <<a, b, c, d, e, f>>
           IN /\ \A i, j \in 1..6 : i # j => P[i] \cap P[j] = {}
              /\ UNION {P[i] : i \in 1..6} = Objects
           <=> Split(a, b, c, d, e, f)
<1>. DEFINE P == <<a, b, c, d, e, f>>
<1>1. /\ P[1] = a /\ P[2] = b /\ P[3] = c /\ P[4] = d /\ P[5] = e /\ P[6] = f
  OBVIOUS
<1>2. \A i : i \in 1..6 <=> i \in {1, 2, 3, 4, 5, 6}
  OBVIOUS
<1>. HIDE DEF P
<1>3. UNION {P[i] : i \in 1..6} = a \cup b \cup c \cup d \cup e \cup f
  BY <1>1, <1>2
<1>4. (\A i, j \in 1..6 : i # j => P[i] \cap P[j] = {})
      <=> (\A i, j \in {1, 2, 3, 4, 5, 6} : i # j => P[i] \cap P[j] = {})
  BY <1>2
<1>5. (\A i, j \in {1, 2, 3, 4, 5, 6} : i # j => P[i] \cap P[j] = {})
      <=> /\ a \cap b = {} /\ a \cap c = {} /\ a \cap d = {} /\ a \cap e = {}
          /\ a \cap f = {} /\ b \cap c = {} /\ b \cap d = {} /\ b \cap e = {}
          /\ b \cap f = {} /\ c \cap d = {} /\ c \cap e = {} /\ c \cap f = {}
          /\ d \cap e = {} /\ d \cap f = {} /\ e \cap f = {}
  BY <1>1
<1>6. /\ \A i, j \in 1..6 : i # j => P[i] \cap P[j] = {}
      /\ UNION {P[i] : i \in 1..6} = Objects
      <=> Split(a, b, c, d, e, f)
  BY <1>3, <1>4, <1>5 DEF Split
<1>. QED  BY <1>6 DEF P

LEMMA OnePlaceSplit ==
    OnePlace <=>
      /\ NoRepeats(freeList) /\ NoRepeats(readList) /\ NoRepeats(postList)
      /\ OpenOnce(stack)
      /\ Split(fresh, Members(freeList), Members(readList), Members(postList),
               {currentObject} \ {NULL}, InCallback)
BY SplitPlaces DEF OnePlace, Places

LEMMA OnePlaceSplitNext ==
    OnePlace' <=>
      /\ NoRepeats(freeList') /\ NoRepeats(readList') /\ NoRepeats(postList')
      /\ OpenOnce(stack')
      /\ Split(fresh', Members(freeList'), Members(readList'), Members(postList'),
               {currentObject'} \ {NULL}, InCallback')
BY SplitPlaces DEF OnePlace, Places

----------------------------------------------------------------------------
(* What a call, a return and a call that goes on do to the stack.          *)

StackInv(s) == OpenOnce(s) /\ SpinsOnTop(s)

LEMMA PushStack ==
    ASSUME NEW s \in Seq(Frame), NEW f \in Frame, StackInv(s),
           f.op \in OpenOps => f.obj \notin OpenObjects(s),
           s # <<>> => s[Len(s)].op # "destroy"
    PROVE  /\ StackInv(Append(s, f))
           /\ Append(s, f) # <<>>
           /\ Append(s, f)[Len(Append(s, f))] = f
           /\ Members(Append(s, f)) = Members(s) \cup {f}
           /\ f.op \in OpenOps =>
                OpenObjects(Append(s, f)) = OpenObjects(s) \cup {f.obj}
           /\ f.op \notin OpenOps => OpenObjects(Append(s, f)) = OpenObjects(s)
<1>. DEFINE t == Append(s, f)
            n == Len(s)
<1>1. /\ DOMAIN t = 1..(n + 1) /\ DOMAIN s = 1..n /\ n \in Nat
      /\ \A i \in 1..n : t[i] = s[i]
      /\ t[n + 1] = f
      /\ Len(t) = n + 1
      /\ t # <<>>
  BY AppendProperties, LenProperties
<1>2. s = <<>> <=> n = 0
  BY EmptySeq
<1>. HIDE DEF t, n
<1>3. \A i \in DOMAIN t : t[i].op = "destroy" => i = n + 1
  BY <1>1, <1>2 DEF StackInv, SpinsOnTop, n
<1>. QED  BY <1>1, <1>3, PushOpen, AppendMembers DEF StackInv, SpinsOnTop, t

LEMMA PopStack ==
    ASSUME NEW s \in Seq(Frame), s # <<>>, StackInv(s), NEW t,
           t = SubSeq(s, 1, Len(s) - 1)
    PROVE  /\ StackInv(t)
           /\ Members(t) \subseteq Members(s)
           /\ \A f \in Members(t) : f.op # "destroy"
           /\ s[Len(s)].op \in OpenOps =>
                OpenObjects(t) = OpenObjects(s) \ {s[Len(s)].obj}
           /\ s[Len(s)].op \notin OpenOps => OpenObjects(t) = OpenObjects(s)
<1>1. Len(s) \in Nat /\ Len(s) >= 1 /\ DOMAIN s = 1..Len(s)
  BY LenProperties, EmptySeq
<1>2. /\ DOMAIN t = 1..(Len(s) - 1)
      /\ \A i \in 1..(Len(s) - 1) : t[i] = s[i]
  <2>1. \A i \in 1..(Len(s) - 1) : s[i] \in Frame
    BY <1>1, ElementOfSeq
  <2>. QED  BY <1>1, <2>1, SubSeqProperties, LenProperties
<1>3. \A f \in Members(t) : f.op # "destroy"
  BY <1>1, <1>2 DEF Members, StackInv, SpinsOnTop
<1>4. SpinsOnTop(t)
  BY <1>3 DEF SpinsOnTop, Members
<1>5. Members(t) \subseteq Members(s)
  BY <1>1, <1>2 DEF Members
<1>. QED  BY <1>3, <1>4, <1>5, CloseTop DEF StackInv

WithTop(s, f) == [s EXCEPT ![Len(s)] = f]

LEMMA ReplaceStack ==
    ASSUME NEW s \in Seq(Frame), s # <<>>, StackInv(s), NEW t, NEW f \in Frame,
           f.op \notin OpenOps \cup {"destroy"}, t = WithTop(s, f)
    PROVE  /\ StackInv(t)
           /\ t \in Seq(Frame)
           /\ t # <<>>
           /\ t[Len(t)] = f
           /\ Members(t) \subseteq Members(s) \cup {f}
           /\ \A g \in Members(t) : g.op # "destroy"
           /\ s[Len(s)].op \in OpenOps =>
                OpenObjects(t) = OpenObjects(s) \ {s[Len(s)].obj}
           /\ s[Len(s)].op \notin OpenOps => OpenObjects(t) = OpenObjects(s)
<1>. DEFINE n == Len(s)
<1>1. n \in Nat /\ n >= 1 /\ DOMAIN s = 1..n
  BY LenProperties, EmptySeq
<1>2. n \in 1..n
  BY <1>1
<1>3. /\ t \in Seq(Frame) /\ Len(t) = n
      /\ \A i \in 1..n : t[i] = IF i = n THEN f ELSE s[i]
  BY <1>2, ExceptSeq DEF WithTop
<1>4. DOMAIN t = 1..n
  BY <1>3, LenProperties
<1>5. SpinsOnTop(s)
  BY DEF StackInv
<1>. HIDE DEF n
<1>6. t[n] = f
  BY <1>2, <1>3
<1>7. \A i \in DOMAIN t : t[i].op # "destroy"
  BY <1>1, <1>3, <1>4, <1>5 DEF SpinsOnTop, n
<1>8. Members(t) \subseteq Members(s) \cup {f}
  BY <1>1, <1>3, <1>4 DEF Members
<1>9. OpenOnce(t) /\ SpinsOnTop(t)
  BY <1>7, CloseTop DEF SpinsOnTop, StackInv, WithTop
<1>10. t # <<>>
  BY <1>2, <1>4
<1>11. /\ s[Len(s)].op \in OpenOps =>
            OpenObjects(t) = OpenObjects(s) \ {s[Len(s)].obj}
       /\ s[Len(s)].op \notin OpenOps => OpenObjects(t) = OpenObjects(s)
  BY CloseTop DEF StackInv, WithTop
<1>. QED
  BY <1>3, <1>6, <1>7, <1>8, <1>9, <1>10, <1>11 DEF StackInv, Members, n

----------------------------------------------------------------------------
(* Every step preserves the invariant.                                     *)

\* The invariant unfolded: the lists, the stack and the six places.
PlacesNow ==
    Split(fresh, Members(freeList), Members(readList), Members(postList),
          {currentObject} \ {NULL}, InCallback)

ListsNow == NoRepeats(freeList) /\ NoRepeats(readList) /\ NoRepeats(postList)

LEMMA Unfold ==
    IInv <=> TypeOK /\ ListsNow /\ StackInv(stack) /\ PlacesNow
               /\ UnderWayFlags /\ FrameFlags /\ References
BY OnePlaceSplit DEF IInv, ListsNow, StackInv, PlacesNow, FlagsMatchLists

LEMMA UnfoldNext ==
    IInv' <=> TypeOK' /\ ListsNow' /\ StackInv(stack') /\ PlacesNow'
                /\ UnderWayFlags' /\ FrameFlags' /\ References'
BY OnePlaceSplitNext DEF IInv, ListsNow, StackInv, PlacesNow, FlagsMatchLists

LEMMA OpenFrame ==
    ASSUME NEW s, NEW f \in Members(s), f.op \in OpenOps
    PROVE  f.obj \in OpenObjects(s)
BY DEF Members, OpenObjects

\* While a call other than the spinning one is on top, no call spins.
LEMMA NoSpin ==
    ASSUME NEW s, SpinsOnTop(s), s = <<>> \/ s[Len(s)].op # "destroy"
    PROVE  \A f \in Members(s) : f.op # "destroy"
BY DEF SpinsOnTop, Members

LEMMA RequestStep ==
    ASSUME IInv, TypeOK',
           NEW o \in Objects, NEW p \in Priorities, NEW a2 \in BOOLEAN,
           UserRequest(o, p, a2)
    PROVE  IInv'
<1>1. /\ TypeOK /\ ListsNow /\ StackInv(stack) /\ PlacesNow
      /\ UnderWayFlags /\ FrameFlags /\ References
  BY Unfold
<1>2. /\ o \in fresh \cup Members(freeList)
      /\ fresh' \cup Members(freeList') = (fresh \cup Members(freeList)) \ {o}
      /\ fresh' \subseteq fresh /\ Members(freeList') \subseteq Members(freeList)
      /\ NoRepeats(freeList')
  <2>1. Allocated(o)
    BY DEF UserRequest, Request
  <2>2. CASE freeList # <<>>
    <3>1. o = Head(freeList) /\ freeList' = Tail(freeList) /\ fresh' = fresh
      BY <2>1, <2>2 DEF Allocated
    <3>2. /\ o \in Members(freeList) /\ NoRepeats(freeList')
          /\ Members(freeList') = Members(freeList) \ {o}
      BY <1>1, <2>2, <3>1, HeadTailMembers DEF TypeOK, ListsNow
    <3>. QED  BY <1>1, <3>1, <3>2 DEF PlacesNow, Split
  <2>3. CASE freeList = <<>>
    BY <1>1, <2>1, <2>3 DEF Allocated, ListsNow, Members
  <2>. QED  BY <2>2, <2>3
<1>3. o \notin UnderWay \cup InCallback
  BY <1>1, <1>2 DEF PlacesNow, Split, UnderWay
<1>4. asyncWaitObject # o
  BY <1>1, <1>3, NullAssumption DEF References
<1>5. Members(readList') = Members(readList) \cup {o} /\ NoRepeats(readList')
  BY <1>1, <1>3, <1>4, InsertAtMembers
  DEF UserRequest, Request, TypeOK, ListsNow, UnderWay
<1>6. UNCHANGED <<postList, currentObject, asyncWaitObject, stack, awaited,
                  InCallback>>
  BY DEF UserRequest, Request, InCallback
<1>7. PlacesNow'
  BY <1>1, <1>2, <1>5, <1>6 DEF PlacesNow, Split
<1>8. UnderWay' = UnderWay \cup {o}
  BY <1>5, <1>6 DEF UnderWay
<1>9. /\ held' = held \cup {o}
      /\ \A q \in Objects \ {o} : /\ isCurrent'[q] = isCurrent[q]
                                  /\ isRead'[q] = isRead[q]
                                  /\ isProcessed'[q] = isProcessed[q]
                                  /\ queued'[q] = queued[q]
                                  /\ callback'[q] = callback[q]
      /\ ~ isCurrent'[o] /\ ~ isRead'[o] /\ ~ isProcessed'[o] /\ queued'[o]
      /\ callback'[o] = "user"
  BY <1>1 DEF UserRequest, Request, TypeOK
<1>10. \A f \in Members(stack) : f.op # "destroy"
  BY <1>1, NoSpin DEF UserRequest, UserRuns, OnTop, Top, StackInv
<1>11. UnderWay \subseteq Objects /\ InCallback \subseteq Objects
  BY <1>1 DEF PlacesNow, Split, UnderWay
<1>12. UnderWayFlags'
  <2>1. o # currentObject /\ o \notin Members(postList) /\ o \notin Members(readList)
    BY <1>3, NullAssumption DEF UnderWay
  <2>2. \A q : Spinning(q)' = Spinning(q)
    BY <1>6 DEF Spinning, OnTop, Top
  <2>3. Members(readList) \subseteq Objects
    BY <1>11 DEF UnderWay
  <2>. QED  BY <1>1, <1>5, <1>6, <1>8, <1>9, <1>11, <2>1, <2>2, <2>3 DEF UnderWayFlags
<1>13. FrameFlags'
  BY <1>1, <1>3, <1>6, <1>9, <1>10, <1>11, OpenFrame DEF FrameFlags, InCallback, OpenOps
<1>14. References'
  BY <1>1, <1>3, <1>6, <1>8, <1>9, <1>11 DEF References
<1>. QED  BY <1>1, <1>2, <1>5, <1>6, <1>7, <1>12, <1>13, <1>14, UnfoldNext DEF ListsNow

LEMMA WaitStep ==
    ASSUME IInv, TypeOK', NEW o \in Objects, UserWait(o)
    PROVE  IInv'
<1>1. /\ TypeOK /\ ListsNow /\ StackInv(stack) /\ PlacesNow
      /\ UnderWayFlags /\ FrameFlags /\ References
  BY Unfold
<1>2. /\ o \in held /\ ~ isProcessed[o]
      /\ stack' = Append(stack, Call("wait", o))
      /\ UNCHANGED <<fresh, freeList, postList, currentObject, held>>
      /\ UNCHANGED objectVars
      /\ asyncWaitObject' = o /\ awaited' = awaited \cup {o}
  BY DEF UserWait, WaitBegin, Push, userVars
<1>3. o \in UnderWay
  BY <1>1, <1>2, OpenFrame DEF References, FrameFlags, InCallback, OpenObjects, Members
<1>4. Members(readList') = Members(readList) /\ NoRepeats(readList')
  <2>1. CASE ~ isCurrent[o] /\ ~ isRead[o]
    <3>1. o \in Members(readList)
      BY <1>1, <1>3, <2>1 DEF UnderWayFlags, UnderWay
    <3>2. readList' = LinkToHead(Unlink(readList, o), o)
      BY <2>1 DEF UserWait, WaitBegin
    <3>. DEFINE u == Unlink(readList, o)
    <3>3. u \in Seq(Objects) /\ Members(u) = Members(readList) \ {o} /\ NoRepeats(u)
      BY <1>1, UnlinkProperties DEF ListsNow, TypeOK
    <3>. HIDE DEF u
    <3>4. Members(LinkToHead(u, o)) = Members(u) \cup {o} /\ NoRepeats(LinkToHead(u, o))
      BY <3>3, LinkToHeadProperties
    <3>. QED  BY <3>1, <3>2, <3>3, <3>4 DEF u
  <2>2. CASE isCurrent[o] \/ isRead[o]
    BY <1>1, <2>2 DEF UserWait, WaitBegin, ListsNow
  <2>. QED  BY <2>1, <2>2
<1>5. \A f \in Members(stack) : f.op # "destroy"
  BY <1>1, NoSpin DEF UserWait, UserRuns, OnTop, Top, StackInv
<1>. DEFINE c == Call("wait", o)
<1>6. c \in Frame /\ c.op = "wait" /\ c.obj = o /\ "wait" \notin OpenOps
  BY ObjectFrame DEF Call, OpenOps
<1>7. stack \in Seq(Frame) /\ (stack # <<>> => stack[Len(stack)].op # "destroy")
  BY <1>1 DEF TypeOK, UserWait, UserRuns, OnTop, Top
<1>8. /\ StackInv(stack') /\ stack' # <<>> /\ stack'[Len(stack')] = c
      /\ Members(stack') = Members(stack) \cup {c} /\ InCallback' = InCallback
  <2>. HIDE DEF c
  <2>1. stack' = Append(stack, c)
    BY <1>2 DEF c
  <2>. QED  BY <1>1, <1>6, <1>7, <2>1, PushStack DEF InCallback
<1>9. UnderWay' = UnderWay /\ \A q : ~ Spinning(q)' /\ ~ Spinning(q)
  BY <1>2, <1>4, <1>6, <1>7, <1>8 DEF UnderWay, Spinning, OnTop, Top
<1>10. PlacesNow'
  BY <1>1, <1>2, <1>4, <1>8 DEF PlacesNow
<1>11. UnderWayFlags'
  BY <1>1, <1>2, <1>4, <1>9 DEF UnderWayFlags, objectVars
<1>12. FrameFlags'
  BY <1>1, <1>2, <1>5, <1>6, <1>8 DEF FrameFlags, objectVars
<1>13. References'
  BY <1>1, <1>2, <1>8, <1>9 DEF References, objectVars
<1>. QED  BY <1>1, <1>2, <1>4, <1>8, <1>10, <1>11, <1>12, <1>13, UnfoldNext DEF ListsNow

\* Unlinking o from every list and putting it on the free list, when it is
\* neither being read nor new nor in a callback that stays open.
LEMMA FreedPlaces ==
    ASSUME TypeOK, ListsNow, NEW o \in Objects,
           freeList' = LinkToHead(Unlink(freeList, o), o),
           readList' = Unlink(readList, o),
           postList' = Unlink(postList, o)
    PROVE  /\ ListsNow'
           /\ Members(freeList') = Members(freeList) \cup {o}
           /\ Members(readList') = Members(readList) \ {o}
           /\ Members(postList') = Members(postList) \ {o}
<1>. DEFINE u == Unlink(freeList, o)
<1>1. u \in Seq(Objects) /\ Members(u) = Members(freeList) \ {o} /\ NoRepeats(u)
  BY UnlinkProperties DEF ListsNow, TypeOK
<1>2. /\ NoRepeats(readList') /\ Members(readList') = Members(readList) \ {o}
      /\ NoRepeats(postList') /\ Members(postList') = Members(postList) \ {o}
  BY UnlinkProperties DEF ListsNow, TypeOK
<1>. HIDE DEF u
<1>3. Members(LinkToHead(u, o)) = Members(u) \cup {o} /\ NoRepeats(LinkToHead(u, o))
  BY <1>1, LinkToHeadProperties
<1>4. freeList' = LinkToHead(u, o)
  BY DEF u
<1>. QED  BY <1>1, <1>2, <1>3, <1>4 DEF ListsNow

LEMMA Unwound ==
    ASSUME TypeOK, ListsNow, PlacesNow, NEW o \in Objects, o # currentObject,
           o \in UnderWay \cup InCallback,
           freeList' = LinkToHead(Unlink(freeList, o), o),
           readList' = Unlink(readList, o),
           postList' = Unlink(postList, o),
           UNCHANGED <<fresh, currentObject>>,
           InCallback' = InCallback \ {o}
    PROVE  /\ ListsNow' /\ PlacesNow'
           /\ Members(readList') = Members(readList) \ {o}
           /\ Members(postList') = Members(postList) \ {o}
           /\ UnderWay' = UnderWay \ {o}
<1>1. /\ ListsNow'
      /\ Members(freeList') = Members(freeList) \cup {o}
      /\ Members(readList') = Members(readList) \ {o}
      /\ Members(postList') = Members(postList) \ {o}
  BY FreedPlaces
<1>2. UnderWay' = UnderWay \ {o}
  BY <1>1 DEF UnderWay
<1>3. PlacesNow'
  BY <1>1 DEF PlacesNow, Split, UnderWay
<1>. QED  BY <1>1, <1>2, <1>3

\* A request whose user still waits for it is on its way.
LEMMA HeldUnderWay ==
    ASSUME References, FrameFlags, NEW o \in held, ~ isProcessed[o]
    PROVE  o \in UnderWay \ InCallback
BY DEF References, FrameFlags, InCallback, OpenObjects, Members

\* Giving up an object that is neither current nor called back, by either
\* AsyncFileReadCancel or AsyncFileReadDestroyObject.
LEMMA DropStep ==
    ASSUME IInv, TypeOK', NEW o \in Objects, UserRuns, o \in held,
           ~ isProcessed[o], o \notin awaited, ~ isCurrent[o],
           freeList' = LinkToHead(Unlink(freeList, o), o),
           readList' = Unlink(readList, o),
           postList' = Unlink(postList, o),
           held' = held \ {o},
           UNCHANGED <<fresh, currentObject, asyncWaitObject, awaited, stack>>,
           UNCHANGED objectVars
    PROVE  IInv'
<1>1. /\ TypeOK /\ ListsNow /\ StackInv(stack) /\ PlacesNow
      /\ UnderWayFlags /\ FrameFlags /\ References
  BY Unfold
<1>2. o \in UnderWay \ InCallback /\ o # currentObject
  BY <1>1, HeldUnderWay DEF UnderWayFlags
<1>3. InCallback' = InCallback
  BY DEF InCallback
<1>4. /\ ListsNow' /\ PlacesNow'
      /\ Members(readList') = Members(readList) \ {o}
      /\ Members(postList') = Members(postList) \ {o}
      /\ UnderWay' = UnderWay \ {o}
  <2>1. InCallback' = InCallback \ {o}
    BY <1>2, <1>3
  <2>. QED  BY <1>1, <1>2, <2>1, Unwound
<1>5. \A f \in Members(stack) : f.op # "destroy"
  BY <1>1, NoSpin DEF UserRuns, OnTop, Top, StackInv
<1>6. \A q : Spinning(q)' = Spinning(q)
  BY DEF Spinning, OnTop, Top
<1>7. UnderWayFlags'
  BY <1>1, <1>4, <1>6 DEF UnderWayFlags, objectVars
<1>8. FrameFlags'
  BY <1>1, <1>5 DEF FrameFlags, objectVars
<1>9. References'
  BY <1>1, <1>3, <1>4 DEF References, objectVars
<1>. QED  BY <1>1, <1>4, <1>7, <1>8, <1>9, UnfoldNext

LEMMA CancelStep ==
    ASSUME IInv, TypeOK', NEW o \in Objects, UserCancel(o)
    PROVE  IInv'
<1>1. CASE ~ isCurrent[o]
  BY <1>1, DropStep DEF UserCancel, Cancel, objectVars, flagVars
<1>2. CASE isCurrent[o]
  <2>1. /\ TypeOK /\ ListsNow /\ StackInv(stack) /\ PlacesNow
        /\ UnderWayFlags /\ FrameFlags /\ References
    BY Unfold
  <2>2. o = currentObject
    BY <1>2, <2>1 DEF UnderWayFlags
  <2>3. /\ UNCHANGED <<fresh, freeList, readList, postList, currentObject,
                       asyncWaitObject, awaited, stack, queued>>
        /\ UNCHANGED flagVars
        /\ callback'[o] = "cleanup"
        /\ \A q \in Objects \ {o} : callback'[q] = callback[q]
        /\ held' = held \ {o} /\ o \notin awaited
    BY <1>2, <2>1 DEF UserCancel, Cancel, CleanupCallback, TypeOK
  <2>4. UnderWay' = UnderWay /\ InCallback' = InCallback /\ PlacesNow'
    BY <2>1, <2>3 DEF UnderWay, InCallback, PlacesNow
  <2>5. \A f \in Members(stack) : f.op # "destroy"
    BY <2>1, NoSpin DEF UserCancel, UserRuns, OnTop, Top, StackInv
  <2>6. \A q : Spinning(q)' = Spinning(q)
    BY <2>3 DEF Spinning, OnTop, Top
  <2>7. UnderWay \subseteq Objects /\ Members(readList) \subseteq Objects \ {o}
    BY <2>1, <2>2, NullAssumption DEF PlacesNow, Split, UnderWay
  <2>8. UnderWayFlags'
    BY <2>1, <2>2, <2>3, <2>4, <2>6, <2>7 DEF UnderWayFlags, flagVars
  <2>9. FrameFlags'
    BY <2>1, <2>3, <2>5 DEF FrameFlags, flagVars
  <2>10. References'
    BY <2>1, <2>3, <2>4 DEF References, flagVars
  <2>. QED  BY <2>1, <2>3, <2>4, <2>8, <2>9, <2>10, UnfoldNext DEF ListsNow
<1>. QED  BY <1>1, <1>2

LEMMA DestroyStep ==
    ASSUME IInv, TypeOK', NEW o \in Objects, UserDestroy(o)
    PROVE  IInv'
<1>1. CASE ~ isCurrent[o]
  BY <1>1, DropStep DEF UserDestroy, GiveBack
<1>2. CASE isCurrent[o]
  <2>1. /\ TypeOK /\ ListsNow /\ StackInv(stack) /\ PlacesNow
        /\ UnderWayFlags /\ FrameFlags /\ References
    BY Unfold
  <2>2. o = currentObject
    BY <1>2, <2>1 DEF UnderWayFlags
  <2>. DEFINE c == Call("destroy", o)
  <2>3. c \in Frame /\ c.op = "destroy" /\ c.obj = o /\ "destroy" \notin OpenOps
    BY ObjectFrame DEF Call, OpenOps
  <2>4. /\ UNCHANGED <<fresh, freeList, readList, postList, currentObject,
                       asyncWaitObject, awaited>>
        /\ UNCHANGED objectVars
        /\ stack' = Append(stack, c)
        /\ held' = held \ {o} /\ o \notin awaited /\ o \in held
    BY <1>2 DEF UserDestroy, Push
  <2>. HIDE DEF c
  <2>5. stack \in Seq(Frame) /\ (stack # <<>> => stack[Len(stack)].op # "destroy")
    BY <2>1 DEF TypeOK, UserDestroy, UserRuns, OnTop, Top
  <2>6. /\ StackInv(stack') /\ stack' # <<>> /\ stack'[Len(stack')] = c
        /\ Members(stack') = Members(stack) \cup {c} /\ InCallback' = InCallback
    BY <2>1, <2>3, <2>4, <2>5, PushStack DEF InCallback
  <2>7. UnderWay' = UnderWay /\ PlacesNow' /\ o \in UnderWay \ Members(readList)
    BY <2>1, <2>2, <2>4, <2>6, NullAssumption DEF UnderWay, PlacesNow, Split
  <2>8. \A q : ~ Spinning(q) /\ (Spinning(q)' <=> q = o)
    BY <2>3, <2>5, <2>6 DEF Spinning, OnTop, Top
  <2>9. \A f \in Members(stack) : f.op # "destroy"
    BY <2>1, <2>5, NoSpin DEF StackInv
  <2>10. UnderWayFlags'
    BY <2>1, <2>4, <2>7, <2>8 DEF UnderWayFlags, objectVars
  <2>11. FrameFlags'
    BY <2>1, <2>3, <2>4, <2>6, <2>7, <2>9 DEF FrameFlags, objectVars
  <2>12. References'
    BY <2>1, <2>4, <2>6, <2>7 DEF References, objectVars
  <2>. QED  BY <2>1, <2>4, <2>6, <2>7, <2>10, <2>11, <2>12, UnfoldNext DEF ListsNow
<1>. QED  BY <1>1, <1>2

\* What the three ways of leaving an object behind share: it is on no list
\* but the free one, in no callback, and no user or wait refers to it.
LEMMA GivenBack ==
    ASSUME IInv, TypeOK', NEW o \in Objects, o # currentObject, GiveBack(o),
           o \in UnderWay \cup InCallback, o \notin awaited,
           InCallback' = InCallback \ {o}, StackInv(stack'),
           \A q \in UnderWay : Spinning(q) => q = o,
           \A f \in Members(stack') :
                /\ f.op # "destroy"
                /\ f \in Members(stack) \/ f.op \notin OpenOps
    PROVE  IInv'
<1>1. /\ TypeOK /\ ListsNow /\ StackInv(stack) /\ PlacesNow
      /\ UnderWayFlags /\ FrameFlags /\ References
  BY Unfold
<1>2. /\ ListsNow' /\ PlacesNow'
      /\ Members(readList') = Members(readList) \ {o}
      /\ Members(postList') = Members(postList) \ {o}
      /\ UnderWay' = UnderWay \ {o}
  BY <1>1, Unwound DEF GiveBack
<1>3. /\ UNCHANGED <<fresh, currentObject, asyncWaitObject, awaited>>
      /\ UNCHANGED objectVars
      /\ held' = held \ {o}
  BY DEF GiveBack
<1>4. UnderWayFlags'
  BY <1>1, <1>2, <1>3 DEF UnderWayFlags, objectVars
<1>5. FrameFlags'
  BY <1>1, <1>3 DEF FrameFlags, objectVars, OpenOps
<1>6. References'
  BY <1>1, <1>2, <1>3 DEF References, objectVars
<1>. QED  BY <1>1, <1>2, <1>4, <1>5, <1>6, UnfoldNext

LEMMA GiveBackStep ==
    ASSUME IInv, TypeOK', DestroyEnd \/ CallbackDestroy \/ CleanupDestroy
    PROVE  IInv'
<1>1. /\ TypeOK /\ ListsNow /\ StackInv(stack) /\ PlacesNow
      /\ UnderWayFlags /\ FrameFlags /\ References
  BY Unfold
<1>. DEFINE o == Top.obj
<1>2. /\ stack \in Seq(Frame) /\ stack # <<>> /\ o \in Objects
      /\ Top \in Members(stack) /\ Top = stack[Len(stack)]
  BY <1>1, TopIsFrame, TopObject
  DEF TypeOK, DestroyEnd, CallbackDestroy, CleanupDestroy, Top, Members
<1>3. o # currentObject /\ GiveBack(o)
  BY <1>1, <1>2 DEF UnderWayFlags, DestroyEnd, CallbackDestroy, CleanupDestroy
<1>4. CASE DestroyEnd
  <2>1. /\ Top.op = "destroy" /\ o \in UnderWay /\ o \notin held
        /\ stack' = SubSeq(stack, 1, Len(stack) - 1) /\ "destroy" \notin OpenOps
    BY <1>1, <1>2, <1>4 DEF DestroyEnd, OnTop, Pop, FrameFlags, OpenOps
  <2>2. InCallback' = InCallback \ {o}
    <3>1. InCallback' = InCallback
      BY ZenonT(40), <1>1, <1>2, <2>1, PopStack DEF InCallback
    <3>2. o \notin InCallback
      BY <1>1, <2>1 DEF PlacesNow, Split, UnderWay
    <3>. QED  BY <3>1, <3>2
  <2>3. /\ StackInv(stack') /\ Members(stack') \subseteq Members(stack)
        /\ \A f \in Members(stack') : f.op # "destroy"
    BY <1>1, <1>2, <2>1, PopStack
  <2>4. o \notin awaited /\ \A q : Spinning(q) => q = o
    BY <1>1, <2>1 DEF References, Spinning
  <2>. QED  BY <1>2, <1>3, <2>1, <2>2, <2>3, <2>4, GivenBack
<1>5. CASE CallbackDestroy \/ CleanupDestroy
  <2>1. Top.op \in OpenOps /\ Top.op # "destroy"
    BY <1>5 DEF CallbackDestroy, CleanupDestroy, OnTop, OpenOps
  <2>2. o \in InCallback /\ isProcessed[o]
    BY <1>1, <1>2, <2>1, OpenFrame DEF InCallback, FrameFlags
  <2>3. o \notin awaited /\ \A q : ~ Spinning(q)
    BY <1>1, <2>1, <2>2 DEF References, Spinning, OnTop
  <2>4. /\ StackInv(stack') /\ InCallback' = InCallback \ {o}
        /\ \A f \in Members(stack') :
             /\ f.op # "destroy"
             /\ f \in Members(stack) \/ f.op \notin OpenOps
    <3>1. CASE CallbackDestroy
      <4>. DEFINE c == Call("after", o)
      <4>1. c \in Frame /\ c.op = "after" /\ "after" \notin OpenOps \cup {"destroy"}
        BY <1>2, ObjectFrame DEF Call, OpenOps
      <4>2. stack' = WithTop(stack, c)
        BY <3>1 DEF CallbackDestroy, Resume, WithTop
      <4>. HIDE DEF c
      <4>3. /\ StackInv(stack') /\ Members(stack') \subseteq Members(stack) \cup {c}
            /\ \A f \in Members(stack') : f.op # "destroy"
            /\ stack[Len(stack)].op \in OpenOps =>
                 OpenObjects(stack') = OpenObjects(stack) \ {stack[Len(stack)].obj}
        BY <1>1, <1>2, <4>1, <4>2, ReplaceStack
      <4>. QED  BY <1>2, <2>1, <4>1, <4>3 DEF InCallback
    <3>2. CASE CleanupDestroy
      <4>1. stack' = SubSeq(stack, 1, Len(stack) - 1)
        BY <3>2 DEF CleanupDestroy, Pop
      <4>. QED  BY <1>1, <1>2, <2>1, <4>1, PopStack DEF InCallback
    <3>. QED  BY <1>5, <3>1, <3>2
  <2>. QED  BY <1>2, <1>3, <2>2, <2>3, <2>4, GivenBack
<1>. QED  BY <1>4, <1>5

\* Steps that only move the stack, and may end a wait.
LEMMA StackStep ==
    ASSUME IInv, TypeOK', StackInv(stack'), InCallback' = InCallback,
           \A f \in Members(stack') :
                /\ f.op # "destroy"
                /\ f \in Members(stack) \/ f.op \notin OpenOps,
           stack = <<>> \/ Top.op # "destroy",
           UNCHANGED <<fresh, freeList, readList, postList, currentObject,
                       asyncWaitObject, held>>,
           UNCHANGED objectVars,
           awaited' \subseteq awaited, asyncWaitObject \in awaited' \cup {NULL}
    PROVE  IInv'
<1>1. /\ TypeOK /\ ListsNow /\ StackInv(stack) /\ PlacesNow
      /\ UnderWayFlags /\ FrameFlags /\ References
  BY Unfold
<1>2. PlacesNow' /\ ListsNow' /\ UnderWay' = UnderWay
  BY <1>1 DEF PlacesNow, ListsNow, UnderWay
<1>3. \A q : ~ Spinning(q)
  BY DEF Spinning, OnTop
<1>4. UnderWayFlags'
  BY <1>1, <1>2, <1>3 DEF UnderWayFlags, objectVars
<1>5. FrameFlags'
  BY <1>1 DEF FrameFlags, objectVars, OpenOps
<1>6. References'
  BY <1>1, <1>2 DEF References, objectVars
<1>. QED  BY <1>2, <1>4, <1>5, <1>6, UnfoldNext

LEMMA ReturnStep ==
    ASSUME IInv, TypeOK', CallbackReturn \/ PollReturn \/ WaitEnd
    PROVE  IInv'
<1>1. TypeOK /\ StackInv(stack) /\ References
  BY Unfold
<1>2. /\ stack # <<>> /\ Top.op \notin OpenOps \cup {"destroy"}
      /\ stack' = SubSeq(stack, 1, Len(stack) - 1)
  BY DEF CallbackReturn, PollReturn, WaitEnd, OnTop, OpenOps, Pop
<1>3. /\ UNCHANGED <<fresh, freeList, readList, postList, currentObject,
                     asyncWaitObject, held>>
      /\ UNCHANGED objectVars
      /\ awaited' \subseteq awaited /\ asyncWaitObject \in awaited' \cup {NULL}
  BY <1>1 DEF CallbackReturn, PollReturn, WaitEnd, readerVars, userVars, References
<1>4. /\ StackInv(stack') /\ Members(stack') \subseteq Members(stack)
      /\ \A f \in Members(stack') : f.op # "destroy"
      /\ InCallback' = InCallback
  BY <1>1, <1>2, PopStack DEF TypeOK, Top, InCallback
<1>. QED  BY <1>2, <1>3, <1>4, StackStep

LEMMA PollStep ==
    ASSUME IInv, TypeOK', PollEnter \/ PollContinue
    PROVE  IInv'
<1>1. TypeOK /\ StackInv(stack) /\ References
  BY Unfold
<1>2. /\ UNCHANGED <<fresh, freeList, readList, postList, currentObject,
                     asyncWaitObject, held, awaited>>
      /\ UNCHANGED objectVars
  BY DEF PollEnter, PollContinue, readerVars, userVars
<1>3. stack = <<>> \/ Top.op # "destroy"
  BY DEF PollEnter, PollDue, PollContinue, OnTop
<1>. DEFINE c == Call("poll", NULL)
<1>4. c \in Frame /\ c.op = "poll" /\ "poll" \notin OpenOps \cup {"destroy"}
  BY PollFrame DEF Call, OpenOps
<1>5. /\ StackInv(stack') /\ InCallback' = InCallback
      /\ \A f \in Members(stack') :
           /\ f.op # "destroy"
           /\ f \in Members(stack) \/ f.op \notin OpenOps
  <2>1. CASE PollEnter
    <3>1. stack' = Append(stack, c)
      BY <2>1 DEF PollEnter, Push
    <3>2. \A f \in Members(stack) : f.op # "destroy"
      BY <1>1, <1>3, NoSpin DEF StackInv, Top
    <3>. HIDE DEF c
    <3>. QED  BY <1>1, <1>3, <1>4, <3>1, <3>2, PushStack DEF TypeOK, Top, InCallback
  <2>2. CASE PollContinue
    <3>1. stack # <<>> /\ Top.op = "check" /\ Top \in Frame
      BY <1>1, <2>2, TopIsFrame DEF PollContinue, TypeOK
    <3>2. Top.obj = NULL /\ Top.op \notin OpenOps
      BY <3>1, NullAssumption DEF Frame, OpenOps
    <3>3. stack' = WithTop(stack, c)
      BY <2>2, <3>2 DEF PollContinue, Resume, WithTop
    <3>. HIDE DEF c
    <3>4. stack \in Seq(Frame) /\ stack[Len(stack)].op \notin OpenOps
      BY <1>1, <3>2 DEF TypeOK, Top
    <3>5. /\ StackInv(stack') /\ Members(stack') \subseteq Members(stack) \cup {c}
          /\ \A f \in Members(stack') : f.op # "destroy"
          /\ OpenObjects(stack') = OpenObjects(stack)
      BY <1>1, <1>4, <3>1, <3>3, <3>4, ReplaceStack
    <3>. QED  BY <1>4, <3>5 DEF InCallback
  <2>. QED  BY <2>1, <2>2
<1>6. awaited' \subseteq awaited /\ asyncWaitObject \in awaited' \cup {NULL}
  BY <1>1, <1>2 DEF References
<1>. HIDE DEF c
<1>. QED  BY <1>2, <1>3, <1>5, <1>6, StackStep

LEMMA PostStep ==
    ASSUME IInv, TypeOK', PollPost
    PROVE  IInv'
<1>1. /\ TypeOK /\ ListsNow /\ StackInv(stack) /\ PlacesNow
      /\ UnderWayFlags /\ FrameFlags /\ References
  BY Unfold
<1>. DEFINE o == Head(postList)
            c == Call(callback[o], o)
            k == Call("check", NULL)
            s == WithTop(stack, k)
<1>2. /\ o \in Objects /\ o \in Members(postList) /\ NoRepeats(postList')
      /\ Members(postList') = Members(postList) \ {o}
  BY <1>1, HeadTailMembers DEF PollPost, TypeOK, ListsNow
<1>3. /\ UNCHANGED <<fresh, freeList, readList, currentObject, held>>
      /\ UNCHANGED <<isRead, isCurrent, queued, priority, callback>>
      /\ asyncWaitObject' = (IF asyncWaitObject = o THEN NULL ELSE asyncWaitObject)
      /\ isProcessed'[o] /\ \A q \in Objects \ {o} : isProcessed'[q] = isProcessed[q]
      /\ awaited' = awaited \ {o}
      /\ stack' = Append(s, c)
  BY <1>1, <1>2 DEF PollPost, EndsWait, TypeOK, readerVars, userVars, WithTop
<1>4. /\ o \in UnderWay /\ o \notin InCallback
      /\ UnderWay' = UnderWay \ {o}
  BY <1>1, <1>2, <1>3 DEF UnderWay, PlacesNow, Split
<1>5. callback[o] = "user" \/ (callback[o] = "cleanup" /\ o \notin held)
  BY <1>1, <1>4 DEF UnderWayFlags
<1>6. /\ c \in Frame /\ c.op \in OpenOps \ {"none"} /\ c.op = callback[o] /\ c.obj = o
      /\ k \in Frame /\ k.op = "check" /\ "check" \notin OpenOps \cup {"destroy"}
  <2>1. c \in Frame
    BY <1>2, <1>5, ObjectFrame
  <2>2. c.op = callback[o] /\ c.obj = o /\ k.op = "check"
    BY DEF Call
  <2>. QED  BY <1>5, <2>1, <2>2, PollFrame DEF OpenOps
<1>7. /\ stack \in Seq(Frame) /\ stack # <<>> /\ stack[Len(stack)] = Top
      /\ Top.op = "poll" /\ Top.op \notin OpenOps
  BY <1>1 DEF PollPost, OnTop, Top, TypeOK, OpenOps
<1>. HIDE DEF o, c, k, s
<1>8. /\ StackInv(s) /\ s \in Seq(Frame) /\ s # <<>> /\ s[Len(s)] = k
      /\ Members(s) \subseteq Members(stack) \cup {k}
      /\ \A f \in Members(s) : f.op # "destroy"
      /\ OpenObjects(s) = InCallback
  <2>1. s = WithTop(stack, k)
    BY DEF s
  <2>. QED  BY <1>1, <1>6, <1>7, <2>1, ReplaceStack DEF InCallback
<1>9. /\ StackInv(stack') /\ InCallback' = InCallback \cup {o}
      /\ Members(stack') = Members(s) \cup {c}
  BY <1>3, <1>4, <1>6, <1>8, PushStack DEF InCallback
<1>10. stack' # <<>> /\ Top' = c
  BY <1>3, <1>6, <1>8, PushStack DEF Top
<1>11. \A q : ~ Spinning(q) /\ ~ Spinning(q)'
  BY <1>6, <1>7, <1>10 DEF Spinning, OnTop, OpenOps
<1>12. PlacesNow'
  BY <1>1, <1>2, <1>3, <1>4, <1>9 DEF PlacesNow, Split
<1>13. UnderWay \subseteq Objects /\ InCallback \subseteq Objects
  BY <1>1 DEF PlacesNow, Split, UnderWay
<1>14. UnderWayFlags'
  BY <1>1, <1>2, <1>3, <1>4, <1>11, <1>13 DEF UnderWayFlags
<1>15. FrameFlags'
  <2>1. ASSUME NEW f \in Members(stack), f.op \in OpenOps
        PROVE  isProcessed'[f.obj]
    BY <1>1, <1>3, <1>13, <2>1, OpenFrame DEF FrameFlags, InCallback
  <2>. QED  BY <1>1, <1>3, <1>5, <1>6, <1>8, <1>9, <2>1 DEF FrameFlags, OpenOps
<1>16. References'
  BY <1>1, <1>3, <1>4, <1>9, <1>13 DEF References
<1>. QED
  BY <1>1, <1>2, <1>3, <1>9, <1>12, <1>14, <1>15, <1>16, UnfoldNext DEF ListsNow

LEMMA ThreadStep ==
    ASSUME IInv, TypeOK', Thread
    PROVE  IInv'
<1>1. /\ TypeOK /\ ListsNow /\ StackInv(stack) /\ PlacesNow
      /\ UnderWayFlags /\ FrameFlags /\ References
  BY Unfold
<1>2. /\ UNCHANGED <<fresh, freeList, isProcessed, callback, asyncWaitObject,
                     stack, awaited, held>>
      /\ InCallback' = InCallback
  BY DEF Thread, ThreadTake, ThreadPost, userVars, InCallback
<1>3. \A q : Spinning(q)' = Spinning(q)
  BY <1>2 DEF Spinning, OnTop, Top
<1>4. UnderWay \subseteq Objects
  BY <1>1 DEF PlacesNow, Split, UnderWay
<1>5. CASE ThreadTake
  <2>. DEFINE o == Head(readList)
  <2>1. /\ o \in Objects /\ o \in Members(readList) /\ NoRepeats(readList')
        /\ Members(readList') = Members(readList) \ {o}
    BY <1>1, <1>5, HeadTailMembers DEF ThreadTake, TypeOK, ListsNow
  <2>2. /\ currentObject = NULL /\ currentObject' = o
        /\ UNCHANGED <<postList, isRead>>
        /\ isCurrent'[o]
        /\ \A q \in Objects \ {o} : isCurrent'[q] = isCurrent[q] /\ queued'[q] = queued[q]
    BY <1>1, <1>5, <2>1 DEF ThreadTake, TypeOK
  <2>. HIDE DEF o
  <2>3. o # NULL /\ UnderWay' = UnderWay
    BY <2>1, <2>2, NullAssumption DEF UnderWay
  <2>4. PlacesNow' /\ ListsNow'
    BY <1>1, <1>2, <2>1, <2>2, <2>3 DEF PlacesNow, ListsNow, Split
  <2>5. UnderWayFlags'
    BY <1>1, <1>2, <1>3, <1>4, <2>1, <2>2, <2>3, NullAssumption
    DEF UnderWayFlags, UnderWay
  <2>6. FrameFlags'
    BY <1>1, <1>2, <2>1, <2>3 DEF FrameFlags
  <2>7. References'
    BY <1>1, <1>2, <2>3 DEF References
  <2>. QED  BY <1>1, <1>2, <2>4, <2>5, <2>6, <2>7, UnfoldNext
<1>6. CASE ThreadPost
  <2>. DEFINE o == currentObject
  <2>1. o \in Objects /\ o # NULL /\ o \notin Members(postList) \cup Members(readList)
    BY <1>1, <1>6 DEF ThreadPost, Reading, TypeOK, PlacesNow, Split
  <2>2. Members(postList') = Members(postList) \cup {o} /\ NoRepeats(postList')
    BY <1>1, <1>6, <2>1, AppendMembers DEF ThreadPost, TypeOK, ListsNow
  <2>3. /\ currentObject' = NULL /\ UNCHANGED <<readList, queued>>
        /\ ~ isCurrent'[o] /\ isRead'[o]
        /\ \A q \in Objects \ {o} : isCurrent'[q] = isCurrent[q] /\ isRead'[q] = isRead[q]
    BY <1>1, <1>6, <2>1 DEF ThreadPost, TypeOK
  <2>4. UnderWay' = UnderWay
    BY <2>1, <2>2, <2>3 DEF UnderWay
  <2>5. PlacesNow' /\ ListsNow'
    BY <1>1, <1>2, <2>1, <2>2, <2>3 DEF PlacesNow, ListsNow, Split
  <2>6. UnderWayFlags'
    BY <1>1, <1>2, <1>3, <1>4, <2>1, <2>2, <2>3, <2>4, NullAssumption
    DEF UnderWayFlags
  <2>7. FrameFlags'
    BY <1>1, <1>2, <2>3, <2>4 DEF FrameFlags
  <2>8. References'
    BY <1>1, <1>2, <2>4 DEF References
  <2>. QED  BY <1>1, <1>2, <2>5, <2>6, <2>7, <2>8, UnfoldNext
<1>. QED  BY <1>5, <1>6 DEF Thread

LEMMA IInvStep == IInv /\ [Next]_vars => IInv'
<1>. SUFFICES ASSUME IInv, [Next]_vars
              PROVE  IInv'
  OBVIOUS
<1>1. TypeOK'
  BY TypeStep DEF IInv
<1>2. CASE MainSystem
  BY <1>1, <1>2, PollStep, PostStep, ReturnStep, GiveBackStep DEF MainSystem
<1>3. CASE Thread
  BY <1>1, <1>3, ThreadStep
<1>4. CASE User
  BY <1>1, <1>4, RequestStep, WaitStep, CancelStep, DestroyStep DEF User
<1>5. CASE UNCHANGED vars
  <2>1. /\ UNCHANGED <<fresh, freeList, readList, postList, currentObject,
                       asyncWaitObject, stack, awaited, held>>
        /\ UNCHANGED objectVars
    BY <1>5 DEF vars, objectVars
  <2>2. UnderWay' = UnderWay /\ InCallback' = InCallback
        /\ \A q : Spinning(q)' = Spinning(q)
    BY <2>1 DEF UnderWay, InCallback, Spinning, OnTop, Top
  <2>. QED
    BY <1>1, <2>1, <2>2, Unfold, UnfoldNext
    DEF ListsNow, PlacesNow, UnderWayFlags, FrameFlags, References, objectVars
<1>. QED  BY <1>2, <1>3, <1>4, <1>5 DEF Next

LEMMA IInvInit == Init => IInv
<1>. SUFFICES ASSUME Init
              PROVE  IInv
  OBVIOUS
<1>1. TypeOK
  BY DEF Init, TypeOK
<1>2. /\ Members(freeList) = {} /\ Members(readList) = {} /\ Members(postList) = {}
      /\ InCallback = {} /\ Members(stack) = {}
      /\ {currentObject} \ {NULL} = {} /\ ListsNow /\ StackInv(stack)
  BY DEF Init, Members, InCallback, OpenObjects, ListsNow, NoRepeats, StackInv,
         OpenOnce, SpinsOnTop
<1>3. PlacesNow /\ UnderWay = {}
  BY <1>2 DEF PlacesNow, Split, UnderWay, Init
<1>4. UnderWayFlags
  BY <1>2, <1>3, NullAssumption DEF UnderWayFlags, Init
<1>. QED  BY <1>1, <1>2, <1>3, <1>4, Unfold DEF FrameFlags, References, Init

LEMMA AlwaysIInv == Spec => []IInv
BY IInvInit, IInvStep, PTL DEF Spec

\* An object is in exactly one place, always: never free while the thread
\* reads into its buffer, never on two lists, never lost.
THEOREM ObjectsInOnePlace == Spec => []OnePlace
<1>1. IInv => OnePlace
  BY DEF IInv
<1>. QED  BY <1>1, AlwaysIInv, PTL

\* The flags of the objects, the three lists, the thread's current object
\* and the pointers users and waits keep always agree.
THEOREM FlagsAgree == Spec => []FlagsMatchLists
<1>1. IInv => FlagsMatchLists
  BY DEF IInv
<1>. QED  BY <1>1, AlwaysIInv, PTL

\* Once an object is cancelled or destroyed, its user's callback is not
\* called for that request.
THEOREM NoCallbackAfterCancel == Spec => []NoLateCallback
<1>1. IInv => NoLateCallback
  BY DEF IInv, FlagsMatchLists, UnderWayFlags, NoLateCallback
<1>. QED  BY <1>1, AlwaysIInv, PTL

\* AsyncFileReadWait never follows a null queue and the poll handler never
\* calls a null callback.
THEOREM PointersNotNull == Spec => []NoNullPointer
<1>1. ASSUME IInv
      PROVE  NoNullPointer
  <2>1. UnderWayFlags /\ FrameFlags /\ References
    BY <1>1 DEF IInv, FlagsMatchLists
  <2>2. \A o \in held : ~ isProcessed[o] /\ ~ isCurrent[o] /\ ~ isRead[o] => queued[o]
    <3>1. TAKE o \in held
    <3>2. HAVE ~ isProcessed[o] /\ ~ isCurrent[o] /\ ~ isRead[o]
    <3>3. o \in UnderWay /\ o # currentObject
      <4>1. o \in UnderWay
        BY <2>1, <3>2, HeldUnderWay
      <4>2. o \in Objects
        BY <1>1 DEF IInv, TypeOK
      <4>. QED  BY <2>1, <3>2, <4>1, <4>2 DEF UnderWayFlags
    <3>. QED  BY <2>1, <3>2, <3>3 DEF UnderWayFlags, UnderWay
  <2>3. \A o \in Members(postList) : callback[o] # "none"
    BY <2>1 DEF UnderWayFlags, UnderWay
  <2>. QED  BY <2>2, <2>3 DEF NoNullPointer
<1>2. IInv => NoNullPointer
  BY <1>1
<1>. QED  BY <1>2, AlwaysIInv, PTL

----------------------------------------------------------------------------
(* The order of the read list.                                             *)

LEMMA SortedIsOrdered == Sorted <=> Ordered(readList, priority)
BY DEF Sorted, Ordered

LEMMA SortedIsOrdered2 == Sorted' <=> Ordered(readList', priority')
BY DEF Sorted, Ordered

\* The rank of the members is all that an order depends on.
LEMMA SameOrder ==
    ASSUME NEW list, NEW rank, NEW other, Ordered(list, rank),
           \A q \in Members(list) : other[q] = rank[q]
    PROVE  Ordered(list, other)
BY DEF Ordered, Members

LEMMA RequestSorted ==
    ASSUME IInv, Sorted, NEW o \in Objects, NEW p \in Priorities, NEW a2 \in BOOLEAN,
           UserRequest(o, p, a2)
    PROVE  Sorted'
<1>1. TypeOK /\ PlacesNow /\ References
  BY Unfold
<1>2. o \in fresh \cup Members(freeList)
  <2>1. Allocated(o)
    BY DEF UserRequest, Request
  <2>. QED  BY <1>1, <2>1, HeadTailMembers DEF Allocated, TypeOK
<1>3. o \notin UnderWay \cup InCallback
  BY <1>1, <1>2 DEF PlacesNow, Split, UnderWay
<1>4. asyncWaitObject # o
  BY <1>1, <1>3, NullAssumption DEF References
<1>5. o \notin Members(readList)
  BY <1>3 DEF UnderWay
<1>6. p \in 0..255 /\ priority \in [Objects -> 0..255] /\ readList \in Seq(Objects)
  BY <1>1, PrioritiesAssumption DEF TypeOK
<1>7. priority' = [priority EXCEPT ![o] = p]
  BY <1>4 DEF UserRequest, Request
<1>8. PICK k \in 1..(Len(readList) + 1) :
        IsLinkPosition(k, p, a2) /\ readList' = InsertAt(readList, k, o)
  BY <1>4 DEF UserRequest, Request
<1>9. /\ \A q \in Objects : priority'[q] \in Nat
      /\ priority'[o] = p
      /\ \A q \in Objects \ {o} : priority'[q] = priority[q]
  <2>1. priority' \in [Objects -> 0..255]
    BY <1>6, <1>7
  <2>2. \A q \in Objects : priority'[q] \in 0..255
    BY <2>1
  <2>3. 0..255 \subseteq Nat
    OBVIOUS
  <2>. QED  BY <1>6, <1>7, <2>2, <2>3
<1>10. \A j \in DOMAIN readList : readList[j] \in Objects \ {o}
  BY <1>5, <1>6, ElementOfSeq DEF Members
<1>11. Ordered(readList, priority')
  BY <1>9, <1>10, SameOrder, SortedIsOrdered DEF Members
<1>12. DOMAIN readList = 1..Len(readList) /\ Len(readList) \in Nat
  BY <1>6
<1>13. k <= Len(readList) => p <= priority'[readList[k]]
  <2>1. k <= Len(readList) => k \in DOMAIN readList
    BY <1>12
  <2>. QED  BY <1>8, <1>9, <1>10, <2>1 DEF IsLinkPosition, LinksBefore
<1>14. \A j \in 1..(k - 1) : priority'[readList[j]] <= p
  <2>1. SUFFICES ASSUME NEW j \in 1..(k - 1)
                 PROVE  priority'[readList[j]] <= p
    OBVIOUS
  <2>2. j \in DOMAIN readList
    BY <1>8, <1>12
  <2>3. ~ (p <= priority[readList[j]] /\ (a2 \/ p # priority[readList[j]]))
    BY <1>8 DEF IsLinkPosition, LinksBefore
  <2>4. readList[j] \in Objects \ {o}
    BY <1>10, <2>2
  <2>5. priority'[readList[j]] = priority[readList[j]] /\ priority[readList[j]] \in 0..255
    <3>1. priority[readList[j]] \in 0..255
      BY <1>6, <2>4
    <3>. QED  BY <1>9, <2>4, <3>1
  <2>6. ~ (p <= priority[readList[j]]) \/ p = priority[readList[j]]
    BY <2>3
  <2>7. \A x, y \in 0..255 : ~ (x <= y) \/ x = y => y <= x
    OBVIOUS
  <2>. QED  BY <1>6, <2>5, <2>6, <2>7
<1>15. Ordered(readList', priority')
  BY <1>6, <1>8, <1>9, <1>11, <1>13, <1>14, InsertAtOrdered
<1>. QED  BY <1>15, SortedIsOrdered2

\* Whatever is submitted, read, cancelled and destroyed keeps the read list in
\* the order of the priorities; only a wait, which puts its object first, may
\* disturb it.
THEOREM OrderKept == Spec => KeepsOrder
<1>1. ASSUME IInv, Sorted, Next
      PROVE  Sorted' \/ (OnTop("wait")' /\ stack' # stack)
  <2>1. readList \in Seq(Objects) /\ Ordered(readList, priority)
    BY <1>1, SortedIsOrdered DEF IInv, TypeOK
  <2>2. ASSUME priority' = priority, readList' = readList
        PROVE  Sorted'
    BY <1>1, <2>2 DEF Sorted
  <2>3. ASSUME NEW o \in Objects, priority' = priority, readList' = Unlink(readList, o)
        PROVE  Sorted'
    BY <2>1, <2>3, UnlinkOrdered, SortedIsOrdered2
  <2>4. CASE MainSystem
    <3>1. CASE CallbackDestroy \/ CleanupDestroy \/ DestroyEnd
      <4>1. TypeOK
        BY <1>1 DEF IInv
      <4>2. Top.obj \in Objects
        BY <3>1, <4>1, TopObject DEF CallbackDestroy, CleanupDestroy, DestroyEnd, TypeOK
      <4>. QED
        BY <2>3, <3>1, <4>2 DEF CallbackDestroy, CleanupDestroy, DestroyEnd, GiveBack, objectVars
    <3>. QED
      BY <2>2, <2>4, <3>1 DEF MainSystem, PollEnter, PollPost, PollContinue, PollReturn,
         WaitEnd, CallbackReturn, readerVars, objectVars
  <2>5. CASE Thread
    <3>1. CASE ThreadTake
      BY <2>1, <3>1, TailOrdered, SortedIsOrdered2 DEF ThreadTake
    <3>2. CASE ThreadPost
      BY <2>2, <3>2 DEF ThreadPost
    <3>. QED  BY <2>5, <3>1, <3>2 DEF Thread
  <2>6. ASSUME NEW o \in Objects, UserWait(o)
        PROVE  OnTop("wait")' /\ stack' # stack
    <3>1. stack' = Append(stack, Call("wait", o)) /\ stack \in Seq(Frame)
      BY <1>1, <2>6 DEF UserWait, WaitBegin, Push, IInv, TypeOK
    <3>2. Len(stack') = Len(stack) + 1 /\ stack'[Len(stack')] = Call("wait", o)
          /\ stack' # <<>>
      BY <3>1, AppendProperties, ObjectFrame
    <3>. QED  BY <3>1, <3>2 DEF OnTop, Top, Call
  <2>7. ASSUME NEW o \in Objects, UserCancel(o) \/ UserDestroy(o)
        PROVE  Sorted'
    <3>1. priority' = priority
      BY <2>7 DEF UserCancel, UserDestroy, Cancel, GiveBack, objectVars
    <3>2. readList' = readList \/ readList' = Unlink(readList, o)
      BY <2>7 DEF UserCancel, UserDestroy, Cancel, GiveBack
    <3>. QED  BY <2>2, <2>3, <3>1, <3>2
  <2>. QED  BY <1>1, <2>4, <2>5, <2>6, <2>7, RequestSorted DEF Next, User
<1>2. IInv /\ [Next]_vars
        => [Sorted => Sorted' \/ (OnTop("wait")' /\ stack' # stack)]_vars
  BY <1>1
<1>. QED  BY <1>2, AlwaysIInv, PTL DEF Spec, KeepsOrder

----------------------------------------------------------------------------
(* Waits.                                                                  *)

LEMMA PushKeeps ==
    ASSUME NEW s \in Seq(Frame), NEW f \in Frame
    PROVE  Members(Append(s, f)) = Members(s) \cup {f}
BY AppendMembers

\* Returning from a call, or going on in it, leaves the other calls.
LEMMA PopLeaves ==
    ASSUME NEW s \in Seq(Frame), s # <<>>, NEW t, t = SubSeq(s, 1, Len(s) - 1)
    PROVE  /\ Members(t) \subseteq Members(s)
           /\ \A g \in Members(s) : g # s[Len(s)] => g \in Members(t)
<1>1. Len(s) \in Nat /\ Len(s) >= 1 /\ DOMAIN s = 1..Len(s)
  BY LenProperties, EmptySeq
<1>2. DOMAIN t = 1..(Len(s) - 1) /\ \A i \in 1..(Len(s) - 1) : t[i] = s[i]
  <2>1. \A i \in 1..(Len(s) - 1) : s[i] \in Frame
    BY <1>1, ElementOfSeq
  <2>. QED  BY <1>1, <2>1, SubSeqProperties, LenProperties
<1>3. \A i \in DOMAIN s : s[i] # s[Len(s)] => i \in 1..(Len(s) - 1)
  BY <1>1
<1>. QED  BY <1>1, <1>2, <1>3 DEF Members

LEMMA ReplaceLeaves ==
    ASSUME NEW s \in Seq(Frame), s # <<>>, NEW f \in Frame, NEW t, t = WithTop(s, f)
    PROVE  /\ Members(t) \subseteq Members(s) \cup {f}
           /\ \A g \in Members(s) : g # s[Len(s)] => g \in Members(t)
<1>1. Len(s) \in Nat /\ Len(s) >= 1 /\ DOMAIN s = 1..Len(s)
  BY LenProperties, EmptySeq
<1>2. Len(s) \in 1..Len(s)
  BY <1>1
<1>3. /\ t \in Seq(Frame) /\ Len(t) = Len(s)
      /\ \A i \in 1..Len(s) : t[i] = IF i = Len(s) THEN f ELSE s[i]
  BY <1>2, ExceptSeq DEF WithTop
<1>4. DOMAIN t = DOMAIN s
  BY <1>1, <1>3, LenProperties
<1>. QED  BY <1>1, <1>3, <1>4 DEF Members

\* The calls that begin and end in a step: a user's callback ends by destroying
\* its object, a wait by returning, and the poll handler begins callbacks.
LEMMA CallsStay ==
    ASSUME TypeOK, [Next]_vars
    PROVE  /\ \A g \in Members(stack) :
                \/ g \in Members(stack')
                \/ /\ g = Top
                   /\ g.op = "user" => CallbackDestroy
                   /\ g.op = "wait" => WaitEnd
           /\ \A g \in Members(stack') :
                \/ g \in Members(stack)
                \/ g.op # "user"
                \/ PollPost /\ g = Call(callback[Head(postList)], Head(postList))
<1>. DEFINE Kept ==
              /\ \A g \in Members(stack) :
                   \/ g \in Members(stack')
                   \/ /\ g = Top
                      /\ g.op = "user" => CallbackDestroy
                      /\ g.op = "wait" => WaitEnd
              /\ \A g \in Members(stack') :
                   \/ g \in Members(stack)
                   \/ g.op # "user"
                   \/ PollPost /\ g = Call(callback[Head(postList)], Head(postList))
<1>1. stack \in Seq(Frame)
  BY DEF TypeOK
<1>2. CASE stack' = stack
  BY <1>2
<1>3. ASSUME NEW f \in Frame, f.op # "user", stack' = Append(stack, f)
      PROVE  Kept
  BY <1>1, <1>3, PushKeeps
<1>4. ASSUME NEW op, OnTop(op), op \notin {"user", "wait"}, Pop
      PROVE  Kept
  BY <1>1, <1>4, TopIsFrame, PopLeaves DEF Pop, Top
<1>5. \A op, o : Call(op, o).op = op /\ Call(op, o).obj = o
  BY DEF Call
<1>6. CASE MainSystem
  <2>1. CASE PollEnter
    BY <1>3, <1>5, <2>1, PollFrame DEF PollEnter, Push
  <2>2. CASE PollPost
    <3>. DEFINE o == Head(postList)
                s == WithTop(stack, Call("check", NULL))
    <3>1. Call(callback[o], o) \in Frame
      <4>1. o \in Objects
        BY <2>2 DEF PollPost, TypeOK
      <4>. QED  BY <4>1, ObjectFrame DEF TypeOK
    <3>2. stack # <<>> /\ Len(stack) \in DOMAIN stack /\ Top.op = "poll"
      BY <1>1, <2>2, TopIsFrame DEF PollPost
    <3>3. s \in Seq(Frame)
      BY <1>1, <3>2, PollFrame, ExceptSeq DEF WithTop
    <3>4. /\ Members(s) \subseteq Members(stack) \cup {Call("check", NULL)}
          /\ \A g \in Members(stack) : g # Top => g \in Members(s)
      BY <1>1, <3>2, PollFrame, ReplaceLeaves DEF Top
    <3>5. Members(stack') = Members(s) \cup {Call(callback[o], o)}
      <4>1. stack' = Append(s, Call(callback[o], o))
        BY <2>2 DEF PollPost, WithTop
      <4>. HIDE DEF s, o
      <4>. QED  BY <3>1, <3>3, <4>1, PushKeeps
    <3>. HIDE DEF s
    <3>. QED  BY <1>5, <2>2, <3>2, <3>4, <3>5
  <2>3. CASE PollContinue
    <3>1. OnTop("check") /\ Resume("poll")
      BY <2>3 DEF PollContinue
    <3>2. stack # <<>> /\ Top \in Frame /\ Top.op = "check"
      BY <1>1, <3>1, TopIsFrame
    <3>3. Call("poll", Top.obj) \in Frame
      BY <3>2 DEF Frame, Call
    <3>4. /\ Members(stack') \subseteq Members(stack) \cup {Call("poll", Top.obj)}
          /\ \A g \in Members(stack) : g # Top => g \in Members(stack')
      <4>1. stack' = WithTop(stack, Call("poll", Top.obj)) /\ Top = stack[Len(stack)]
        BY <3>1 DEF Resume, WithTop, Top
      <4>. QED  BY <1>1, <3>2, <3>3, <4>1, ReplaceLeaves
    <3>. QED  BY <1>5, <3>2, <3>4
  <2>4. CASE PollReturn
    BY <1>4, <2>4 DEF PollReturn
  <2>5. CASE WaitEnd
    <3>1. stack # <<>> /\ Top.op = "wait" /\ Pop
      BY <1>1, <2>5, TopIsFrame DEF WaitEnd
    <3>2. /\ Members(stack') \subseteq Members(stack)
          /\ \A g \in Members(stack) : g # Top => g \in Members(stack')
      BY <1>1, <3>1, PopLeaves DEF Pop, Top
    <3>. QED  BY <2>5, <3>1, <3>2
  <2>6. CASE CallbackDestroy
    <3>1. OnTop("user") /\ Resume("after")
      BY <2>6 DEF CallbackDestroy
    <3>2. stack # <<>> /\ Top.op = "user" /\ Top.obj \in Objects
      BY <1>1, <3>1, TopIsFrame, TopObject
    <3>3. Call("after", Top.obj) \in Frame
      BY <3>2, ObjectFrame
    <3>4. /\ Members(stack') \subseteq Members(stack) \cup {Call("after", Top.obj)}
          /\ \A g \in Members(stack) : g # Top => g \in Members(stack')
      <4>1. stack' = WithTop(stack, Call("after", Top.obj)) /\ Top = stack[Len(stack)]
        BY <3>1 DEF Resume, WithTop, Top
      <4>. QED  BY <1>1, <3>2, <3>3, <4>1, ReplaceLeaves
    <3>. QED  BY <1>5, <2>6, <3>2, <3>4
  <2>7. CASE DestroyEnd \/ CleanupDestroy \/ CallbackReturn
    BY <1>4, <2>7 DEF DestroyEnd, CleanupDestroy, CallbackReturn
  <2>. QED  BY <1>6, <2>1, <2>2, <2>3, <2>4, <2>5, <2>6, <2>7 DEF MainSystem
<1>7. CASE Thread
  BY <1>2, <1>7 DEF Thread, ThreadTake, ThreadPost
<1>8. ASSUME NEW o \in Objects, UserWait(o)
      PROVE  Kept
  BY <1>3, <1>5, <1>8, ObjectFrame DEF UserWait, WaitBegin, Push
<1>9. ASSUME NEW o \in Objects, UserDestroy(o)
      PROVE  Kept
  BY <1>2, <1>3, <1>5, <1>9, ObjectFrame DEF UserDestroy, GiveBack, Push
<1>10. ASSUME NEW o \in Objects,
              UserCancel(o) \/ \E p \in Priorities, a2 \in BOOLEAN : UserRequest(o, p, a2)
       PROVE  Kept
  BY <1>2, <1>10 DEF UserCancel, UserRequest
<1>11. CASE UNCHANGED vars
  BY <1>2, <1>11 DEF vars
<1>. QED  BY <1>6, <1>7, <1>8, <1>9, <1>10, <1>11 DEF Next, User

\* Every object that is awaited has a call of AsyncFileReadWait.
AwaitedByCall == \A o \in awaited : Call("wait", o) \in Members(stack)

LEMMA AwaitedStep ==
    ASSUME TypeOK, AwaitedByCall, [Next]_vars
    PROVE  AwaitedByCall'
<1>1. \A op, o : Call(op, o).op = op /\ Call(op, o).obj = o
  BY DEF Call
<1>2. CASE awaited' \subseteq awaited /\ ~ WaitEnd
  BY <1>1, <1>2, CallsStay DEF AwaitedByCall
<1>3. CASE WaitEnd
  <2>1. awaited' = awaited \ {Top.obj}
    BY <1>3 DEF WaitEnd
  <2>. QED  BY <1>1, <2>1, CallsStay DEF AwaitedByCall
<1>4. ASSUME NEW o \in Objects, UserWait(o)
      PROVE  AwaitedByCall'
  <2>1. /\ stack \in Seq(Frame) /\ Call("wait", o) \in Frame
        /\ stack' = Append(stack, Call("wait", o)) /\ awaited' = awaited \cup {o}
    BY <1>4, ObjectFrame DEF TypeOK, UserWait, WaitBegin, Push
  <2>. QED  BY <2>1, PushKeeps DEF AwaitedByCall
<1>5. CASE MainSystem /\ ~ WaitEnd
  <2>1. awaited' \subseteq awaited
    BY <1>5 DEF MainSystem, PollEnter, PollPost, PollContinue, PollReturn, DestroyEnd,
       CallbackDestroy, CleanupDestroy, CallbackReturn, GiveBack
  <2>. QED  BY <1>2, <1>5, <2>1
<1>6. CASE Thread /\ ~ WaitEnd
  BY <1>2, <1>6 DEF Thread, ThreadTake, ThreadPost
<1>7. CASE User /\ ~ WaitEnd
  BY <1>2, <1>4, <1>7 DEF User, UserRequest, Request, UserCancel, UserDestroy, GiveBack
<1>8. CASE UNCHANGED vars /\ ~ WaitEnd
  BY <1>2, <1>8 DEF vars
<1>. QED  BY <1>3, <1>5, <1>6, <1>7, <1>8 DEF Next

\* The objects that a user's callback runs for, which it has yet to destroy.
CalledBack == {o \in Objects : Call("user", o) \in Members(stack)}

\* Their users still keep them.
CalledBackHeld == CalledBack \subseteq held

LEMMA CalledBackStep ==
    ASSUME TypeOK, [Next]_vars
    PROVE  /\ \A o \in CalledBack :
                o \in CalledBack' \/ (CallbackDestroy /\ o = Top.obj)
           /\ \A o \in CalledBack' :
                \/ o \in CalledBack
                \/ PollPost /\ o = Head(postList) /\ callback[o] = "user"
<1>1. \A op, o : Call(op, o).op = op /\ Call(op, o).obj = o
  BY DEF Call
<1>. QED  BY <1>1, CallsStay DEF CalledBack

\* A callback that is begun is called back.
LEMMA PostCallsBack ==
    ASSUME TypeOK, PollPost, callback[Head(postList)] = "user"
    PROVE  Head(postList) \in CalledBack'
<1>. DEFINE o == Head(postList)
            s == [stack EXCEPT ![Len(stack)] = Call("check", NULL)]
<1>1. o \in Objects /\ Call("user", o) \in Frame
  <2>1. o \in Objects
    BY DEF PollPost, TypeOK
  <2>. QED  BY <2>1, ObjectFrame
<1>2. stack \in Seq(Frame) /\ Len(stack) \in DOMAIN stack
  BY TopIsFrame DEF PollPost, TypeOK
<1>3. s \in Seq(Frame)
  BY <1>2, PollFrame, ExceptSeq
<1>4. Members(stack') = Members(s) \cup {Call("user", o)}
  BY <1>1, <1>3, PushKeeps DEF PollPost
<1>. QED  BY <1>1, <1>4 DEF CalledBack

LEMMA HeldStep ==
    ASSUME IInv, IInv', CalledBackHeld, [Next]_vars
    PROVE  CalledBackHeld'
<1>. SUFFICES ASSUME NEW o \in CalledBack'
              PROVE  o \in held'
  BY DEF CalledBackHeld
<1>1. /\ TypeOK /\ ListsNow /\ PlacesNow /\ UnderWayFlags /\ FrameFlags
      /\ UnderWayFlags' /\ PlacesNow' /\ TypeOK'
  BY Unfold, UnfoldNext
<1>2. CASE o \in CalledBack
  <2>1. o \in held /\ o \in Objects /\ isProcessed[o]
    BY <1>1, <1>2 DEF CalledBackHeld, CalledBack, FrameFlags, Call, OpenOps
  <2>2. CASE held \subseteq held'
    BY <2>1, <2>2
  <2>3. CASE CallbackDestroy
    <3>1. held' = held \ {Top.obj} /\ Top.obj \in Members(freeList')
      <4>1. Top.obj \in Objects
        BY <1>1, <2>3, TopObject DEF CallbackDestroy, TypeOK
      <4>2. freeList \in Seq(Objects) /\ freeList' = LinkToHead(Unlink(freeList, Top.obj), Top.obj)
        BY <1>1, <2>3 DEF CallbackDestroy, GiveBack, TypeOK
      <4>3. Unlink(freeList, Top.obj) \in Seq(Objects)
        BY <4>2, UnlinkProperties
      <4>. QED  BY <2>3, <4>1, <4>2, <4>3, LinkToHeadProperties DEF CallbackDestroy, GiveBack
    <3>2. o \in InCallback'
      <4>1. Call("user", o) \in Members(stack') /\ Call("user", o).op \in OpenOps
            /\ Call("user", o).obj = o
        BY DEF CalledBack, Call, OpenOps
      <4>. QED  BY <4>1, OpenFrame DEF InCallback
    <3>3. o # Top.obj
      BY <1>1, <3>1, <3>2 DEF PlacesNow, Split
    <3>. QED  BY <2>1, <3>1, <3>3
  <2>4. CASE CleanupDestroy \/ DestroyEnd
    <3>1. held' = held \ {Top.obj}
      BY <2>4 DEF CleanupDestroy, DestroyEnd, GiveBack
    <3>2. Top \in Members(stack) /\ Top.op \in {"cleanup", "destroy"}
      BY <1>1, <2>4, TopIsFrame DEF CleanupDestroy, DestroyEnd, TypeOK, Members, Top
    <3>3. Top.obj \notin held
      BY <1>1, <3>2 DEF FrameFlags
    <3>. QED  BY <2>1, <3>1, <3>3
  <2>5. ASSUME NEW q \in Objects, UserCancel(q) \/ UserDestroy(q)
        PROVE  o \in held'
    <3>1. held' = held \ {q} /\ ~ isProcessed[q]
      BY <2>5 DEF UserCancel, UserDestroy, GiveBack
    <3>. QED  BY <2>1, <3>1
  <2>6. CASE MainSystem
    BY <2>2, <2>3, <2>4, <2>6 DEF MainSystem, PollEnter, PollPost, PollContinue, PollReturn,
       WaitEnd, CallbackReturn, userVars
  <2>7. CASE Thread
    BY <2>2, <2>7 DEF Thread, ThreadTake, ThreadPost, userVars
  <2>8. CASE User
    BY <2>2, <2>5, <2>8 DEF User, UserRequest, Request, UserWait, userVars
  <2>9. CASE UNCHANGED vars
    BY <2>2, <2>9 DEF vars
  <2>. QED  BY <2>6, <2>7, <2>8, <2>9 DEF Next
<1>3. CASE o \notin CalledBack
  <2>1. PollPost /\ o = Head(postList) /\ callback[o] = "user"
    BY <1>1, <1>3, CalledBackStep
  <2>2. o \in Members(postList)
    BY <1>1, <2>1, HeadTailMembers DEF PollPost, TypeOK
  <2>3. OnTop("poll") /\ Top.op = "poll"
    BY <2>1 DEF PollPost, OnTop
  <2>4. o \in held
    BY <1>1, <2>1, <2>2, <2>3 DEF UnderWayFlags, UnderWay, Spinning, OnTop
  <2>. QED  BY <2>1, <2>4 DEF PollPost, userVars
<1>. QED  BY <1>2, <1>3

\* What holds whenever the reader is used as this module's users do.
Invariants == IInv /\ AwaitedByCall /\ CalledBackHeld

LEMMA InvariantsInit == Init => Invariants
<1>1. Init => AwaitedByCall
  BY DEF Init, AwaitedByCall
<1>2. Init => CalledBackHeld
  BY DEF Init, CalledBackHeld, CalledBack, Members
<1>. QED  BY <1>1, <1>2, IInvInit DEF Invariants

LEMMA InvariantsStep == Invariants /\ [Next]_vars => Invariants'
<1>1. IInv => TypeOK
  BY DEF IInv
<1>. QED  BY <1>1, IInvStep, AwaitedStep, HeldStep DEF Invariants

LEMMA AlwaysInvariants == Spec => []Invariants
BY InvariantsInit, InvariantsStep, PTL DEF Spec

\* No wait is active when none of the calls is one.
LEMMA NoActiveWait ==
    ASSUME TypeOK, ActiveWaits = 0
    PROVE  \A f \in Members(stack) : f.op # "wait"
<1>. DEFINE W == {i \in DOMAIN stack : stack[i].op = "wait"}
<1>1. DOMAIN stack = 1..Len(stack) /\ Len(stack) \in Nat
  BY DEF TypeOK
<1>2. IsFiniteSet(1..Len(stack))
  BY <1>1, FS_Interval
<1>3. IsFiniteSet(W)
  BY <1>1, <1>2, FS_Subset
<1>4. W = {}
  BY <1>3, FS_EmptySet DEF ActiveWaits
<1>. QED  BY <1>4 DEF Members

\* What a wait that is not over waits for.
AwaitsOne == awaited \subseteq {asyncWaitObject}

\* AsyncFileReadWait is called by CM2Model::WaitForLoad and for the textures of
\* a character, and no callback of the reader waits.  So one wait is active at
\* a time, and it returns only when its request has been processed.
THEOREM WaitsUntilProcessed ==
    ASSUME MaxWaits <= 1
    PROVE  Spec => []WaitMeansProcessed
<1>1. Init => AwaitsOne
  BY DEF Init, AwaitsOne
<1>2. IInv /\ AwaitedByCall /\ AwaitsOne /\ [Next]_vars => AwaitsOne'
  <2>. SUFFICES ASSUME IInv, AwaitedByCall, AwaitsOne, [Next]_vars
                PROVE  AwaitsOne'
    OBVIOUS
  <2>1. CASE UNCHANGED <<asyncWaitObject, awaited>>
    BY <2>1 DEF AwaitsOne
  <2>2. CASE PollPost
    BY <2>2 DEF PollPost, EndsWait, AwaitsOne
  <2>3. CASE WaitEnd
    BY <2>3 DEF WaitEnd, AwaitsOne
  <2>4. ASSUME NEW o \in Objects, UserWait(o)
        PROVE  AwaitsOne'
    <3>1. TypeOK
      BY DEF IInv
    <3>2. ActiveWaits \in Nat
      <4>1. DOMAIN stack = 1..Len(stack) /\ Len(stack) \in Nat
        BY <3>1 DEF TypeOK
      <4>2. {i \in DOMAIN stack : stack[i].op = "wait"} \in SUBSET (1..Len(stack))
        BY <4>1
      <4>3. IsFiniteSet(1..Len(stack))
        BY <4>1, FS_Interval
      <4>4. IsFiniteSet({i \in DOMAIN stack : stack[i].op = "wait"})
        BY <4>2, <4>3, FS_Subset
      <4>. QED  BY <4>4, FS_CardinalityType DEF ActiveWaits
    <3>3. ActiveWaits = 0
      BY <2>4, <3>2, BoundsAssumption DEF UserWait
    <3>4. awaited = {}
      <4>1. \A q : Call("wait", q).op = "wait"
        BY DEF Call
      <4>. QED  BY <3>1, <3>3, <4>1, NoActiveWait DEF AwaitedByCall
    <3>. QED  BY <2>4, <3>4 DEF UserWait, WaitBegin, AwaitsOne
  <2>5. CASE MainSystem
    BY <2>1, <2>2, <2>3, <2>5 DEF MainSystem, PollEnter, PollContinue, PollReturn,
       DestroyEnd, CallbackDestroy, CleanupDestroy, CallbackReturn, GiveBack
  <2>6. CASE Thread
    BY <2>1, <2>6 DEF Thread, ThreadTake, ThreadPost
  <2>7. CASE User
    BY <2>1, <2>4, <2>7 DEF User, UserRequest, Request, UserCancel, Cancel, UserDestroy,
       GiveBack
  <2>8. CASE UNCHANGED vars
    BY <2>1, <2>8 DEF vars
  <2>. QED  BY <2>5, <2>6, <2>7, <2>8 DEF Next
<1>3. IInv /\ AwaitsOne => WaitMeansProcessed
  <2>. SUFFICES ASSUME IInv, AwaitsOne, asyncWaitObject = NULL
                PROVE  Top.obj \notin awaited
    BY DEF WaitMeansProcessed
  <2>. QED  BY NullAssumption DEF IInv, TypeOK, AwaitsOne
<1>. QED  BY <1>1, <1>2, <1>3, AlwaysInvariants, PTL DEF Spec, Invariants

----------------------------------------------------------------------------
(* What a user of the reader can rely on.                                  *)

LEMMA KeptObjects ==
    ASSUME Invariants
    PROVE  /\ held \subseteq Objects /\ CalledBack \subseteq held
           /\ asyncWaitObject \in held \cup {NULL}
<1>1. TypeOK /\ References
  BY Unfold DEF Invariants
<1>. QED  BY <1>1 DEF Invariants, CalledBackHeld, TypeOK, References

\* In the event loop nothing that a user keeps has been processed.
LEMMA WhenFree ==
    ASSUME Invariants, stack = <<>>
    PROVE  /\ \A o \in held : ~ isProcessed[o]
           /\ awaited = {} /\ asyncWaitObject = NULL /\ CalledBack = {}
<1>1. TypeOK /\ UnderWayFlags /\ References
  BY Unfold DEF Invariants
<1>2. Members(stack) = {}
  BY DEF Members
<1>3. InCallback = {}
  BY DEF InCallback, OpenObjects
<1>4. awaited = {} /\ CalledBack = {}
  BY <1>2 DEF Invariants, AwaitedByCall, CalledBack
<1>. QED  BY <1>1, <1>3, <1>4 DEF References, UnderWayFlags

\* What is allocated is nobody's.
LEMMA AllocatedIsNew ==
    ASSUME Invariants, NEW o, Allocated(o)
    PROVE  o \in Objects /\ o \notin held /\ o # asyncWaitObject
<1>1. TypeOK /\ PlacesNow /\ References
  BY Unfold DEF Invariants
<1>2. o \in fresh \cup Members(freeList)
  BY <1>1, HeadTailMembers DEF Allocated, TypeOK
<1>3. o \in Objects /\ o \notin UnderWay \cup InCallback
  BY <1>1, <1>2 DEF PlacesNow, Split, UnderWay
<1>. QED  BY <1>1, <1>3, NullAssumption DEF References

\* The poll handler calls a user back for what it keeps.
LEMMA PostsHeld ==
    ASSUME Invariants, PollPost, Head(postList) \in held
    PROVE  Head(postList) \in CalledBack'
<1>1. TypeOK /\ UnderWayFlags
  BY Unfold DEF Invariants
<1>2. Head(postList) \in Members(postList)
  BY <1>1, HeadTailMembers DEF PollPost, TypeOK
<1>3. callback[Head(postList)] = "user"
  BY <1>1, <1>2 DEF UnderWayFlags, UnderWay
<1>. QED  BY <1>1, <1>3, PostCallsBack

\* A callback on top is one of those that have yet to destroy their object.
LEMMA TopCalledBack ==
    ASSUME Invariants, OnTop("user")
    PROVE  Top.obj \in CalledBack
<1>1. TypeOK
  BY DEF Invariants, IInv
<1>2. Top \in Frame /\ Top.op = "user" /\ Len(stack) \in DOMAIN stack
  BY <1>1, TopIsFrame DEF TypeOK
<1>3. Top.obj \in Objects /\ Top = Call("user", Top.obj)
  BY <1>2 DEF Frame, Call
<1>4. Top \in Members(stack)
  BY <1>2 DEF Top, Members
<1>. QED  BY <1>3, <1>4 DEF CalledBack

\* A step ends the callbacks that destroy their objects, and no other.
LEMMA CallbacksStay ==
    ASSUME Invariants, [Next]_vars
    PROVE  \A o \in CalledBack : o \in CalledBack' \/ (CallbackDestroy /\ o = Top.obj)
<1>1. TypeOK
  BY DEF Invariants, IInv
<1>. QED  BY <1>1, CalledBackStep

\* A callback that Cancel installed destroys what no user keeps.
LEMMA CleanupKeepsHeld ==
    ASSUME Invariants, CleanupDestroy
    PROVE  held' = held
<1>1. TypeOK /\ FrameFlags
  BY Unfold DEF Invariants
<1>2. Top \in Frame /\ Top.op = "cleanup" /\ Len(stack) \in DOMAIN stack
  BY <1>1, TopIsFrame DEF TypeOK, CleanupDestroy, OnTop
<1>3. Top \in Members(stack)
  BY <1>2 DEF Top, Members
<1>4. Top.obj \notin held
  BY <1>1, <1>2, <1>3 DEF FrameFlags
<1>5. held' = held \ {Top.obj}
  BY DEF CleanupDestroy, GiveBack
<1>. QED  BY <1>4, <1>5

=============================================================================
