---------------------------- MODULE IntrusiveList ----------------------------
(***************************************************************************)
(* The explicit linked lists of Storm (TSList, STORM_EXPLICIT_LIST) as     *)
(* src/src uses them: a list is the sequence of its members, head first.   *)
(* A member holds one link per kind of list, so linking it anywhere first  *)
(* unlinks it from the list of that kind it is on.                         *)
(***************************************************************************)
EXTENDS Integers, Sequences, FiniteSets, SequencesExt

Members(list) == {list[i] : i \in DOMAIN list}

NoRepeats(list) == \A i, j \in DOMAIN list : list[i] = list[j] => i = j

\* Linking without unlinking first.
UnlinkNothing(list, o) == list

\* The list without o, if o is on it.
Unlink(list, o) ==
    IF \E i \in DOMAIN list : list[i] = o
      THEN RemoveAt(list, CHOOSE i \in DOMAIN list : list[i] = o)
      ELSE list

\* The list without the objects of S: what is left of it, in the order of
\* the places.
UnlinkAll(list, S) ==
    LET kept == {i \in DOMAIN list : list[i] \notin S}
        Rank(i) == Cardinality({j \in kept : j <= i})
    IN  [n \in 1..Cardinality(kept) |-> list[CHOOSE i \in kept : Rank(i) = n]]

\* An object that is on no list of its kind goes to the head.
LinkToHead(list, o) == <<o>> \o list

=============================================================================
