---------------------------- MODULE OrderedTable ----------------------------
(***************************************************************************)
(* What a generic table of ntdll promises the guest, whatever tree is      *)
(* inside: a set of elements kept in the order of the compare routine, and *)
(* an enumeration that goes through them in that order and survives what   *)
(* is inserted and deleted while it is under way.  Module AvlTable         *)
(* implements it.                                                          *)
(*                                                                         *)
(* Elements are their keys, 1 .. MaxKey.  A call and its answer are one    *)
(* step; answer holds the answer, with the call, until the caller takes it.*)
(***************************************************************************)
EXTENDS Naturals, FiniteSets

CONSTANTS MaxKey, Null

VARIABLES
  elems,    \* the keys of the table
  passed,   \* the enumeration has gone past the keys up to this one
  answer    \* the call answered last, <<>> once its caller has returned

tableVars == <<elems, passed, answer>>

Key == 1 .. MaxKey

\* The least and the greatest of a set of keys, if there is one.
Least(S) == IF S = {} THEN Null ELSE CHOOSE x \in S : \A y \in S : x <= y
GreatestOr0(S) == IF S = {} THEN 0 ELSE CHOOSE x \in S : \A y \in S : x >= y

-----------------------------------------------------------------------------

Init == elems = {} /\ passed = 0 /\ answer = <<>>

Answer(a) == answer = <<>> /\ answer' = a

\* A new key is inserted, unless there is no memory for it; a key that is
\* there already is returned.
Insert(k) ==
  /\ \/ elems' = elems \cup {k} /\ Answer(<<"insert", k, k, k \notin elems>>)
     \/ k \notin elems /\ elems' = elems /\ Answer(<<"insert", k, Null, FALSE>>)
  /\ UNCHANGED passed

\* Deleting the key at which the enumeration stands moves it back, so that
\* it goes on with what followed the key.
Delete(k) ==
  /\ Answer(<<"delete", k, k \in elems>>)
  /\ elems' = elems \ {k}
  /\ passed' = IF k \in elems /\ k = passed
               THEN GreatestOr0({x \in elems : x < k}) ELSE passed

Lookup(k) ==
  /\ Answer(<<"lookup", k, IF k \in elems THEN k ELSE Null>>)
  /\ UNCHANGED <<elems, passed>>

\* The first of the elements that match a buffer: those from lo to hi.
FirstMatch(lo, hi) ==
  /\ Answer(<<"first", lo, hi, Least({x \in elems : lo <= x /\ x <= hi})>>)
  /\ UNCHANGED <<elems, passed>>

\* The next element in order.  At the end the enumeration stays where it is.
Enumerate(again) ==
  LET from == IF again THEN 0 ELSE passed
      next == Least({x \in elems : x > from})
  IN  /\ Answer(<<"enumerate", again, next>>)
      /\ passed' = IF next = Null THEN from ELSE next
      /\ UNCHANGED elems

Return == answer # <<>> /\ answer' = <<>> /\ UNCHANGED <<elems, passed>>

Next ==
  \/ \E k \in Key : Insert(k) \/ Delete(k) \/ Lookup(k)
  \/ \E lo, hi \in Key : FirstMatch(lo, hi)
  \/ \E again \in BOOLEAN : Enumerate(again)
  \/ Return

Spec == Init /\ [][Next]_tableVars

=============================================================================
