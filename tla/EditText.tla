------------------------------ MODULE EditText ------------------------------
(***************************************************************************)
(* The text of an edit box, CSimpleEditBox.  A text is bytes; m_textInfo   *)
(* holds, at the offset of the first byte of each quoted code or letter,   *)
(* what it is, how long, and whether it is in a hyperlink, and zero        *)
(* elsewhere.  Moving and deleting walk over that array by hand, across    *)
(* codes that draw nothing; deleting shifts it, and only inserting parses  *)
(* the text again.                                                         *)
(*                                                                         *)
(* A byte is a pair of a token and its number in the token.  Tokens are    *)
(* letters of one or two bytes, the codes that start and end a colour      *)
(* (those of textures are treated alike), and those of a hyperlink.        *)
(***************************************************************************)
EXTENDS Integers, Sequences, FiniteSets, SequencesExt

CONSTANTS
    ScriptTexts,    \* texts, as sequences of tokens, that scripts set
    MaxLength,      \* bound: bytes after which nothing is typed
    Block           \* the size of buffers is a multiple of it, 32 in the code

Starts == {"color", "link"}
Ends == {"restore", "unlink"}
Letters == {"char", "wide"}
Tokens == Starts \cup Ends \cup Letters
Keys == {"backspace", "delete", "left", "right"}

ASSUME EditTextAssumption ==
    /\ \A t \in ScriptTexts : t \in Seq(Tokens)
    /\ MaxLength \in Nat /\ Block \in Nat \ {0}

VARIABLES
    text,           \* m_text, without the terminating zero
    info,           \* m_textInfo, with m_textInfo[i] at i + 1
    size,           \* m_textSize
    cursor,         \* m_cursorPos
    dirty,          \* 0x1 and 0x8 of m_dirtyFlags: "text" and "user"
    doing,          \* "nothing", "report" in OnTextChanged, or "key"
    key,            \* the key to be handled after that, or "none"
    unreported,     \* history: the text changed and OnTextChanged did not run
    byUser,         \* history: the last change was the user's
    oddities        \* history: what happened to the text, a set of

(* "nested"    a script set a text with a colour inside a hyperlink        *)
(* "headless"  a script set a text that begins with an end code            *)
(* "intruded"  a letter was typed behind another letter of a hyperlink,    *)
(*             one of a single byte                                        *)
(* "broken"    a start or end of a link has lost the other                 *)
(* "underrun"  m_textInfo was read before its start: not followed further  *)
Oddities == {"nested", "headless", "intruded", "broken", "underrun"}

editVars == <<text, info, size, cursor, dirty, doing, key, unreported, byUser, oddities>>

LengthOf(token) == IF token = "char" THEN 1 ELSE 2
BytesOf(token) == [k \in 1..LengthOf(token) |-> <<token, k>>]
Bytes(tokens) == FlattenSeq([i \in DOMAIN tokens |-> BytesOf(tokens[i])])

-----------------------------------------------------------------------------
(* m_textInfo. *)

Zero == [code |-> "none", length |-> 0, linked |-> FALSE]

(* A byte is in a link from the start code to the end code, inclusive. *)
InLink(bytes, i) ==
    \E j \in 1..i :
        /\ bytes[j] = <<"link", 1>>
        /\ \A k \in j..(i - 1) : bytes[k] # <<"unlink", 1>>

(* UpdateTextInfo, with a zero at the end. *)
Parse(bytes) ==
    [i \in 1..(Len(bytes) + 1) |->
        IF i > Len(bytes) \/ bytes[i][2] # 1 THEN Zero
        ELSE [code |-> bytes[i][1], length |-> LengthOf(bytes[i][1]),
              linked |-> InLink(bytes, i)]]

(* Offsets are from zero, as in the code. *)
Length == Len(text)
At(o) == info[o + 1]
TokenOffsets == {o \in 0..(Length - 1) : At(o) # Zero}
LeastOf(S) == CHOOSE o \in S : \A p \in S : o <= p
GreatestOf(S) == CHOOSE o \in S : \A p \in S : o >= p

(* Behind the tokens of codes that begin at o. *)
Behind(o, codes) ==
    LeastOf({p \in {o, Length} \cup TokenOffsets : p >= o /\ At(p).code \notin codes})
(* The first of the tokens of codes that end at the token o. *)
Before(o, codes) ==
    LeastOf({p \in TokenOffsets : p <= o
        /\ \A q \in TokenOffsets : p <= q /\ q < o => At(q).code \in codes})

(* Mutant: a letter is one byte. *)
ForwardByte(o) ==
    LET p == Behind(o, Starts) IN Behind(p + 1, Ends)
(* GetNumToLen forward: the starts, one token, the ends behind it. *)
Forward(o) ==
    LET p == Behind(o, Starts) IN Behind(p + At(p).length, Ends)

(* GetNumToLen backward: over the ends, a letter or a whole link, and the  *)
(* starts before that.  It looks for the letter even before the array.     *)
Passes(p) == At(p).code \in Ends \/ (At(p).linked /\ At(p).code # "link")
(* Mutant: the first token is not looked at. *)
StopsLater(o) == {p \in TokenOffsets : 0 < p /\ p < o /\ ~Passes(p)}
Stops(o) == {p \in TokenOffsets : p < o /\ ~Passes(p)}
Backward(o) == Before(GreatestOf(Stops(o)), Starts)

(* PrevCharOffset stops behind the first byte of the character before. *)
PrevCharOffset(o) == LeastOf({p \in 0..o : \A q \in p..(o - 1) : At(q) = Zero})

-----------------------------------------------------------------------------
(* Changes of the text. *)

(* Mutant: no room for the terminating zero. *)
GrowsLate(n) == IF n <= size THEN size ELSE ((n + Block) \div Block) * Block
(* GrowText. *)
GrowText(n) == IF n + 1 <= size THEN size ELSE ((n + Block) \div Block) * Block

(* Insert, once it is not refused. *)
Insert(bytes, o, token, user) ==
    LET all == SubSeq(bytes, 1, o) \o token \o SubSeq(bytes, o + 1, Len(bytes))
    IN  /\ text' = all
        /\ info' = Parse(all)
        /\ size' = GrowText(Len(all))
        /\ cursor' = o + Len(token)
        /\ dirty' = {"text"} \cup {flag \in {"user"} : user}
        /\ byUser' = user
        /\ unreported' = TRUE

(* Mutant: from the start before it even if it is in no link. *)
FromStart(left) ==
    LET starts == {p \in TokenOffsets : p <= left /\ At(p).code \in Starts}
    IN  IF starts = {} THEN left ELSE Before(GreatestOf(starts), Starts)
(* DeleteSubstring begins with the link that the left end is in, and the   *)
(* starts before it; it takes the last start code for that of the link.    *)
Leftmost(left) ==
    LET starts == {p \in TokenOffsets : p <= left /\ At(p).code \in Starts}
    IN  IF ~At(left).linked THEN left
        ELSE IF starts = {} THEN 0
        ELSE Before(GreatestOf(starts), Starts)
(* Mutant: the right end stays where it is. *)
AsIsRight(right) == right
(* ... and ends behind the ends after the first end code. *)
Rightmost(right) ==
    LET ends == {p \in TokenOffsets : p >= right /\ At(p).code \in Ends}
    IN  IF ~At(right).linked THEN right
        ELSE IF ends = {} THEN Length
        ELSE Behind(LeastOf(ends), Ends)

(* Mutant: the array is not shifted with the text. *)
KeepsInfo(left, right) == SubSeq(info, 1, Length - (right - left)) \o <<Zero>>
ShiftInfo(left, right) == SubSeq(info, 1, left) \o SubSeq(info, right + 1, Length + 1)

DeleteSubstring(from, to) ==
    LET left == Leftmost(from)
        right == Rightmost(to)
        starts == {p \in left..(right - 1) : text[p + 1] = <<"link", 1>>}
        ends == {p \in left..(right - 1) : text[p + 1] = <<"unlink", 1>>}
    IN  /\ text' = SubSeq(text, 1, left) \o SubSeq(text, right + 1, Length)
        /\ info' = ShiftInfo(left, right)
        /\ cursor' = left
        /\ dirty' = {"text", "user"}
        /\ byUser' = TRUE
        /\ unreported' = TRUE
        /\ UNCHANGED size
        /\ oddities' = oddities
            \cup {q \in {"broken"} : Cardinality(starts) # Cardinality(ends)}

-----------------------------------------------------------------------------
(* The user. *)

EditInit ==
    /\ text = <<>> /\ info = <<Zero>> /\ size = Block
    /\ cursor = 0
    /\ dirty = {} /\ doing = "nothing" /\ key = "none"
    /\ unreported = FALSE /\ byUser = FALSE /\ oddities = {}

(* Mutant: only the start of a link is looked at. *)
TypesAtLink(o) == At(o).linked /\ At(o).code = "link"
(* Insert refuses to type between two letters of a link.  Because of       *)
(* PrevCharOffset it refuses too between a letter of one byte and a link,  *)
(* and does not between a letter of two bytes in a link and the next.      *)
TypesInLink(o) == At(o).linked /\ o > 0 /\ At(PrevCharOffset(o)).linked

OnLayerChar ==
    /\ doing = "nothing"
    /\ ~TypesInLink(cursor)
    /\ \E letter \in Letters :
        /\ Length + LengthOf(letter) <= MaxLength
        /\ Insert(text, cursor, BytesOf(letter), TRUE)
    /\ oddities' = oddities \cup {q \in {"intruded"} :
            At(cursor).linked /\ cursor > 0 /\ At(cursor - 1).code = "char"}
    /\ UNCHANGED <<doing, key>>

(* Mutant: what the script changes in OnTextChanged is forgotten. *)
ClearsAll == {}
(* UpdateDirtyBits clears 0x8 once OnTextChanged has run. *)
ClearsUser == dirty \ {"user"}

(* UpdateDirtyBits runs OnTextChanged, which may set the text again. *)
UpdateDirtyBits(next) ==
    /\ dirty' = dirty \ {"text"}
    /\ doing' = IF "text" \in dirty THEN "report" ELSE next
    /\ unreported' = (unreported /\ "text" \notin dirty)

(* OnLayerUpdate. *)
EditUpdates ==
    /\ doing = "nothing"
    /\ UpdateDirtyBits("nothing")
    /\ UNCHANGED <<text, info, size, cursor, key, byUser, oddities>>

(* UpdateSizes, when the frame has a new size: the text is drawn again and *)
(* OnTextChanged will run, though nothing changed.                         *)
UpdateSizes ==
    /\ doing \in {"nothing", "report"}
    /\ dirty' = dirty \cup {"text"}
    /\ UNCHANGED <<text, info, size, cursor, doing, key, unreported, byUser, oddities>>

Reported ==
    /\ doing = "report"
    /\ dirty' = ClearsUser
    /\ doing' = IF key = "none" THEN "nothing" ELSE "key"
    /\ UNCHANGED <<text, info, size, cursor, key, unreported, byUser, oddities>>

(* OnLayerKeyDown reports first. *)
OnLayerKeyDown ==
    /\ doing = "nothing"
    /\ \E k \in Keys : key' = k
    /\ UpdateDirtyBits("key")
    /\ UNCHANGED <<text, info, size, cursor, byUser, oddities>>

KeyHandled ==
    /\ doing = "key"
    /\ doing' = "nothing" /\ key' = "none"

TextStays == UNCHANGED <<text, info, size, dirty, unreported, byUser>>

(* MoveForward and MoveBackward, DeleteForward and DeleteBackward; without *)
(* a selection, which is not implemented.                                  *)
MoveForward ==
    /\ key = "right" /\ KeyHandled
    /\ cursor' = IF cursor < Length THEN Forward(cursor) ELSE cursor
    /\ TextStays /\ UNCHANGED oddities

DeleteForward ==
    /\ key = "delete" /\ KeyHandled
    /\ IF cursor < Length THEN DeleteSubstring(cursor, Forward(cursor))
       ELSE TextStays /\ UNCHANGED <<cursor, oddities>>

MoveBackward ==
    /\ key = "left" /\ KeyHandled
    /\ IF cursor = 0 \/ Stops(cursor) # {}
       THEN /\ cursor' = IF cursor = 0 THEN 0 ELSE Backward(cursor)
            /\ UNCHANGED oddities
       ELSE oddities' = oddities \cup {"underrun"} /\ UNCHANGED cursor
    /\ TextStays

DeleteBackward ==
    /\ key = "backspace" /\ KeyHandled
    /\ IF cursor = 0 THEN TextStays /\ UNCHANGED <<cursor, oddities>>
       ELSE IF Stops(cursor) # {} THEN DeleteSubstring(Backward(cursor), cursor)
       ELSE /\ oddities' = oddities \cup {"underrun"}
            /\ TextStays /\ UNCHANGED cursor

(* A colour begins or ends inside a link. *)
Nested(t) ==
    \E i, j, k \in DOMAIN t :
        /\ i < j /\ j < k
        /\ t[i] = "link" /\ t[j] \in {"color", "restore"} /\ t[k] = "unlink"
        /\ \A l \in i..j : t[l] # "unlink"

(* Scripts, whenever one runs: SetText deletes all and inserts at zero. *)
SetText ==
    /\ doing \in {"nothing", "report"}
    /\ \E t \in ScriptTexts :
        /\ Bytes(t) # text
        /\ Insert(<<>>, 0, Bytes(t), FALSE)
        /\ oddities' = {q \in {"nested"} : Nested(t)}
            \cup {q \in {"headless"} : t # <<>> /\ t[1] \in Ends}
    /\ UNCHANGED <<doing, key>>

EditNext ==
    /\ "underrun" \notin oddities
    /\ \/ OnLayerChar \/ EditUpdates \/ UpdateSizes \/ Reported
       \/ OnLayerKeyDown
       \/ MoveForward \/ DeleteForward \/ MoveBackward \/ DeleteBackward
       \/ SetText

EditSpec == EditInit /\ [][EditNext]_editVars

-----------------------------------------------------------------------------
(* Properties. *)

(* The members have their types; the cursor is in the text, and the text   *)
(* with its terminating zero is in its buffer.                             *)
EditTypeOK ==
    /\ text \in Seq(Tokens \X (1..2))
    /\ info \in Seq([code : Tokens \cup {"none"}, length : 0..2, linked : BOOLEAN])
    /\ size \in Nat /\ Length + 1 <= size
    /\ cursor \in 0..Length
    /\ dirty \subseteq {"text", "user"} /\ doing \in {"nothing", "report", "key"}
    /\ key \in Keys \cup {"none"}
    /\ unreported \in BOOLEAN /\ byUser \in BOOLEAN
    /\ oddities \subseteq Oddities

(* Shifting m_textInfo in DeleteSubstring gives what parsing would, even   *)
(* when links and colours go, unless a link was cut in two.                *)
InfoIsParse == "broken" \notin oddities => info = Parse(text)

(* No sequence of moving, deleting and typing leaves the cursor inside a   *)
(* letter or a code, where GetNumToLen would go wrong.                     *)
CursorOnToken == "broken" \notin oddities => cursor \in TokenOffsets \cup {Length}

(* GetNumToLen does not look for a letter before the start of the text: an *)
(* end code there is passed like any other, but no editing puts one there, *)
(* unless the script set such a text or a link was cut in two.             *)
ReadsInside == "underrun" \in oddities => oddities \cap {"headless", "broken"} # {}

(* Deleting takes a link as a whole, from its first code to its last, even *)
(* from the middle and from outside, unless a colour ends inside it.       *)
LinksWhole == "broken" \in oddities => "nested" \in oddities

(* Nothing is typed behind a letter of a single byte in a hyperlink.       *)
NoLetterIntoLink == "intruded" \notin oddities

(* A change that OnTextChanged has not been told of will be reported, also *)
(* one that OnTextChanged makes, as the user's if it is his and only then; *)
(* a report without a change does not take an earlier one for the user's.  *)
ChangeReported ==
    /\ unreported => "text" \in dirty /\ ("user" \in dirty <=> byUser)
    /\ ~unreported /\ doing # "report" => "user" \notin dirty

(* A key deletes at most one letter that is in no hyperlink.               *)
LettersOutside ==
    {o \in TokenOffsets : At(o).code \in Letters /\ ~At(o).linked}
DeletesOne ==
    [][doing = "key" /\ "broken" \notin oddities =>
        Cardinality(LettersOutside) - Cardinality(LettersOutside') <= 1]_editVars

(* Whatever the user types, deletes and walks over and whatever scripts    *)
(* set: m_textInfo is that of the text, the cursor is between its tokens,  *)
(* links stay whole and every change is reported as what it is.            *)
TextSound ==
    /\ EditTypeOK
    /\ InfoIsParse /\ CursorOnToken /\ ReadsInside
    /\ LinksWhole /\ NoLetterIntoLink
    /\ ChangeReported

=============================================================================
