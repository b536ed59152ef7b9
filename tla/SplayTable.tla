----------------------------- MODULE SplayTable -----------------------------
(***************************************************************************)
(* The generic tables of libs/ntdll/splay.c: a tree that is splayed from   *)
(* the top at every access, and a list of the elements in the order of     *)
(* their insertion, which the enumeration follows.  The guest frees no     *)
(* element itself and starts an enumeration again when its RestartKey is   *)
(* deleted.  Parent links are written and never read; they are left out.   *)
(***************************************************************************)
EXTENDS Integers, SequencesExt

CONSTANTS
  SplayKeys,  \* the greatest key
  NoItem      \* the null pointer

ASSUME SplayAssumption == SplayKeys \in Nat /\ NoItem \notin 0 .. SplayKeys

VARIABLES
  branch,  \* branch[TRUE] is LeftChild, branch[FALSE] is RightChild
  root,    \* TableRoot
  order,   \* InsertOrderList
  count,   \* NumberGenericTableElements
  cursor,  \* the guest's RestartKey
  seen,    \* the elements that its enumeration returned and that still exist
  fault    \* a null pointer was dereferenced: the process has died

splayVars == <<branch, root, order, count, cursor, seen, fault>>

Item == 1 .. SplayKeys
Next0 == 0                         \* the local "next" of splay
ItemOrNext == Item \cup {Next0}
Left == TRUE
Right == FALSE
Side == {Left, Right}

NoBranches == [s \in Side |-> [i \in ItemOrNext |-> NoItem]]
Is(item) == item # NoItem
SideOf(item, at) == IF item < at THEN Left ELSE Right

-----------------------------------------------------------------------------
(* splay.                                                                  *)

\* Is the way down twice to the same side?
ZigZig(item, kid, s) == kid # item /\ SideOf(item, kid) = s

\* One turn of the loop: what it leaves behind, when it goes down on side s, is
\* hung to end[s], the node at the end of the tree that it builds there.  Where
\* the loop breaks, the turn changes nothing.
Turn(item, d) ==
  LET at == d.root
      s == SideOf(item, at)
      kid == d.branch[s][at]
      turned == IF ZigZig(item, kid, s)
                THEN [d.branch EXCEPT ![s][at] = d.branch[~s][kid], ![~s][kid] = at]
                ELSE d.branch
      top == IF ZigZig(item, kid, s) THEN kid ELSE at
  IN  IF item = at \/ ~Is(kid) THEN d
      ELSE IF ~Is(turned[s][top]) THEN [d EXCEPT !.branch = turned, !.root = top]
      ELSE [branch |-> [turned EXCEPT ![s][d.end[s]] = top], root |-> turned[s][top],
            end |-> [d.end EXCEPT ![s] = top]]

\* All turns: each but the last leaves an element behind.
Descend(item, b, at) ==
  LET turns[i \in 0 .. SplayKeys] ==
        IF i = 0 THEN [branch |-> b, root |-> at, end |-> [s \in Side |-> Next0]]
        ELSE Turn(item, turns[i - 1])
  IN  turns[SplayKeys]

\* The subtrees of the new root go to the ends of the two trees, which become
\* its children.
Assemble(d) ==
  LET b == [d.branch EXCEPT ![Right][d.end[Right]] = d.branch[Left][d.root],
                            ![Left][d.end[Left]] = d.branch[Right][d.root]]
  IN  [branch |-> [b EXCEPT ![Left][d.root] = b[Right][Next0],
                            ![Right][d.root] = b[Left][Next0],
                            ![Left][Next0] = NoItem, ![Right][Next0] = NoItem],
       root |-> d.root]

Splay(item, b, top) ==
  IF ~Is(top) THEN [branch |-> b, root |-> top]
  ELSE Assemble(Descend(item, b, top))

-----------------------------------------------------------------------------
(* Calls.                                                                  *)

SplayInit ==
  /\ branch = NoBranches /\ root = NoItem /\ order = <<>> /\ count = 0
  /\ cursor = NoItem /\ seen = {} /\ fault = FALSE

Linked(list, item) == Append(list, item)
EntryOf(key) == CHOOSE i \in DOMAIN order : order[i] = key

Tree(t) == branch' = t.branch /\ root' = t.root
Cleared(item, b) == [s \in Side |-> [b[s] EXCEPT ![item] = NoItem]]

\* The element that the splay brought to the root is split, and the new one
\* put above; AllocateRoutine may fail.
SplayInsert(item) ==
  LET t == Splay(item, branch, root)
      s == SideOf(item, t.root)
  IN  /\ \/ /\ t.root = item
            /\ Tree(t) /\ UNCHANGED <<order, count>>
         \/ /\ t.root # item
            /\ Tree(t) /\ UNCHANGED <<order, count>>
         \/ /\ t.root # item
            /\ branch' = IF ~Is(t.root) THEN Cleared(item, t.branch)
                         ELSE [t.branch EXCEPT ![s][item] = t.branch[s][t.root],
                                               ![~s][item] = t.root,
                                               ![s][t.root] = NoItem]
            /\ root' = item
            /\ order' = Linked(order, item)
            /\ count' = count + 1
      /\ UNCHANGED <<cursor, seen, fault>>

SplayLookup(item) ==
  /\ Tree(Splay(item, branch, root))
  /\ UNCHANGED <<order, count, cursor, seen, fault>>

\* Faulty variant: the left subtree is not splayed before the right one is
\* hung to its root.
JoinedAtTop(item, b) ==
  [branch |-> [b EXCEPT ![Right][b[Left][item]] = b[Right][item]], root |-> b[Left][item]]

\* The left subtree, splayed for the deleted element, gets the right one.
Joined(item, b) ==
  LET t == Splay(item, b, b[Left][item])
  IN  [t EXCEPT !.branch[Right][t.root] = b[Right][item]]

\* Deletion takes the element out of the list, once it was found.
SplayDelete(item) ==
  LET t == Splay(item, branch, root)
      b == t.branch
      rest == IF ~Is(b[Left][item])
              THEN [branch |-> b, root |-> b[Right][item]] ELSE Joined(item, b)
  IN  \/ /\ t.root # item
         /\ Tree(t) /\ UNCHANGED <<order, count, cursor, seen, fault>>
      \/ /\ t.root = item /\ Is(b[Right][item])
         /\ branch' = Cleared(item, rest.branch)
         /\ root' = rest.root
         /\ order' = RemoveAt(order, EntryOf(item))
         /\ count' = count - 1
         /\ seen' = IF cursor = item THEN {} ELSE seen \ {item}
         /\ cursor' = IF cursor = item THEN NoItem ELSE cursor
         /\ UNCHANGED fault
      \/ \* Line 286 or 294 writes the Parent of a right child that is null.
         /\ t.root = item /\ ~Is(b[Right][item])
         /\ fault' = TRUE
         /\ UNCHANGED <<branch, root, order, count, cursor, seen>>

\* The list goes round: after its last entry comes its head.
After(key) ==
  LET i == IF Is(key) THEN EntryOf(key) ELSE 0
  IN  IF i = Len(order) THEN NoItem ELSE order[i + 1]

Enumerate ==
  /\ Is(After(cursor))
  /\ cursor' = After(cursor)
  /\ seen' = seen \cup {After(cursor)}
  /\ UNCHANGED <<branch, root, order, count, fault>>

\* The end of the list: the guest starts again.
EnumerateEnd ==
  /\ ~Is(After(cursor)) /\ Is(cursor)
  /\ cursor' = NoItem /\ seen' = {}
  /\ UNCHANGED <<branch, root, order, count, fault>>

\* A process that has died is started anew.
Restart ==
  /\ fault
  /\ branch' = NoBranches /\ root' = NoItem /\ order' = <<>> /\ count' = 0
  /\ cursor' = NoItem /\ seen' = {} /\ fault' = FALSE

SplayNext ==
  \/ /\ ~fault
     /\ \/ \E i \in Item : SplayInsert(i) \/ SplayLookup(i) \/ SplayDelete(i)
        \/ Enumerate \/ EnumerateEnd
  \/ Restart

SplaySpec == SplayInit /\ [][SplayNext]_splayVars

-----------------------------------------------------------------------------
(* Properties.                                                             *)

\* The elements of the subtree below at, in the order of the tree.
InOrder(b, top) ==
  LET walk[d \in 0 .. SplayKeys] ==
        [at \in Item \cup {NoItem} |->
           IF ~Is(at) \/ d = 0 THEN <<>>
           ELSE walk[d - 1][b[Left][at]] \o <<at>> \o walk[d - 1][b[Right][at]]]
  IN  walk[SplayKeys][top]

\* The nodes on the way from the top to the item, the item included.
Path(b, top, item) ==
  LET walk[d \in 0 .. SplayKeys, at \in Item] ==
        IF at = item \/ d = 0 THEN <<at>> ELSE <<at>> \o walk[d - 1, b[SideOf(item, at)][at]]
  IN  walk[SplayKeys, top]

SplayTypeOK ==
  /\ branch \in [Side -> [ItemOrNext -> Item \cup {NoItem}]]
  /\ root \in Item \cup {NoItem} /\ cursor \in Item \cup {NoItem}
  /\ order \in Seq(Item) /\ count \in 0 .. SplayKeys
  /\ seen \subseteq Item /\ fault \in BOOLEAN

\* The tree and the list hold the same elements, each once, the tree in the
\* order of the keys, whatever order inserts, deletes and the splays of the
\* lookups come in (splay, RtlInsertElementGenericTable, ..Delete..).
TreeHoldsList ==
  LET keys == InOrder(branch, root)
  IN  /\ Len(keys) = Len(order) /\ count = Len(order)
      /\ ToSet(keys) = ToSet(order)
      /\ \A i, j \in 1 .. Len(keys) : i < j => keys[i] < keys[j]

\* An enumeration has met exactly the elements before its RestartKey, and so
\* all of them at the end, though the guest inserts, deletes and looks up
\* between its calls (RtlEnumerateGenericTableWithoutSplaying).
EnumerationIsComplete ==
  seen = {order[i] : i \in {k \in 1 .. Len(order) :
                              \E j \in k .. Len(order) : order[j] = cursor}}

\* Deletion kills the process exactly for the greatest element, also when it
\* is the only one: the splay leaves that one without a right child
\* (RtlDeleteElementGenericTable, lines 286 and 294).
OnlyTheGreatestIsFatal ==
  \A item \in ToSet(order) :
    LET t == Splay(item, branch, root)
    IN  ~Is(t.branch[Right][item]) <=> \A other \in ToSet(order) : other <= item

\* A table holds its elements, through splays and deletions (splay.c).
TablesHoldTheirItems ==
  SplayTypeOK /\ TreeHoldsList /\ EnumerationIsComplete /\ OnlyTheGreatestIsFatal

\* Of every step: a splay leaves the nodes of the path it took at about half the
\* depth of the path or above: turning in pairs does that, turning one by one
\* does not.
SplayHalvesPath ==
  \A item \in ToSet(order) : SplayLookup(item) =>
    LET path == Path(branch, root, item)
    IN  \A i \in 1 .. Len(path) :
          Len(Path(branch', root', path[i])) <= (Len(path) + 1) \div 2 + 1
=============================================================================
