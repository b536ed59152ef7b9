------------------------------ MODULE AvlTable ------------------------------
(***************************************************************************)
(* The AVL generic tables of libs/ntdll: avltable.c, the balancing of      *)
(* c/avlsupp.c and the neighbours of splaytree.c.  A table is a binary     *)
(* tree with parent links.  Its header BalancedRoot is a node of that tree *)
(* too: the top of the tree is its right child and it is its own parent.   *)
(*                                                                         *)
(* A node is named by its key, since nodes move within the tree and user   *)
(* data never moves between nodes.  The table has no lock; the guest makes *)
(* one call at a time.  The loops that go up the tree and change it are    *)
(* one step per iteration, so that what they rely on can be stated.        *)
(***************************************************************************)
EXTENDS Integers, FiniteSets

CONSTANTS
  MaxKey,   \* the keys are 1 .. MaxKey
  Null,     \* the null pointer
  Calls,    \* which services the guest calls: see CallName
  Thorough  \* FALSE: it makes only the calls that show a new shape of tree

CallName == {"insert", "delete", "lookup", "first", "enumerate"}

ASSUME AvlAssumption ==
  /\ MaxKey \in Nat
  /\ Null \notin 0 .. MaxKey
  /\ Calls \subseteq CallName
  /\ Thorough \in BOOLEAN

VARIABLES
  links,    \* LeftChild, RightChild, Parent and Balance of the nodes
  alive,    \* nodes that AllocateRoutine returned and FreeRoutine did not get
  number,   \* NumberGenericTableElements
  depth,    \* DepthOfTree
  restart,  \* RestartKey
  pc,       \* where the call is: idle, grow, shrink (the loops), return
  arg,      \* the node it inserts or deletes
  at,       \* the loop's NodeOrParent or ParentNode
  from,     \* grow: NewNode; shrink: DeleteNode
  side,     \* shrink: Balance, the side of at that lost height
  answer    \* what the call returns, <<>> while no call is at its return

loopVars == <<arg, at, from, side>>
vars == <<links, alive, number, depth, restart, pc, arg, at, from, side, answer>>

Head == 0                     \* &Table->BalancedRoot
Key == 1 .. MaxKey
Node == Key \cup {Head}
NodeOrNull == Node \cup {Null}

LeftHeavy == -1
Balanced == 0
RightHeavy == 1

-----------------------------------------------------------------------------
(* Links.  The operators take the links they read, because a rotation reads*)
(* what its earlier assignments wrote.                                     *)

\* The nodes that hang in the tree.
Linked(l) == {n \in Node : l.parent[n] # Null}

IsLeftChild(l, n) == l.left[l.parent[n]] = n
IsRightChild(l, n) == l.right[l.parent[n]] = n

Child(l, n, onLeft) == IF onLeft THEN l.left[n] ELSE l.right[n]

\* Faulty variant: the balance of the header is not kept.
SetBalanceBelow(l, n, b) == IF n = Head THEN l ELSE [l EXCEPT !.balance[n] = b]

SetBalance(l, n, b) == [l EXCEPT !.balance[n] = b]

SetChild(l, n, onLeft, c) ==
  IF onLeft THEN [l EXCEPT !.left[n] = c] ELSE [l EXCEPT !.right[n] = c]

\* Hang c, which may be null, below p.
Attach(l, p, onLeft, c) ==
  LET m == SetChild(l, p, onLeft, c)
  IN  IF c = Null THEN m ELSE [m EXCEPT !.parent[c] = p]

\* The last node on the way down from n along one side.
Outermost(l, n, onLeft) ==
  LET walk[x \in Node] ==
        IF Child(l, x, onLeft) = Null THEN x ELSE walk[Child(l, x, onLeft)]
  IN  walk[n]

\* RtlRealPredecessor (onLeft) and RtlRealSuccessor: the outermost node of
\* the subtree on that side; without one, the parent of the first ancestor
\* that is not a child on that side.
Neighbour(l, n, onLeft) ==
  LET IsChild(x, left) == Child(l, l.parent[x], left) = x
      climb[x \in Linked(l)] == IF IsChild(x, onLeft) THEN climb[l.parent[x]] ELSE x
  IN  IF Child(l, n, onLeft) # Null
      THEN Outermost(l, Child(l, n, onLeft), ~onLeft)
      ELSE IF IsChild(climb[n], ~onLeft) THEN l.parent[climb[n]] ELSE Null

\* The node at which the search for a buffer ends.  The buffer matches the
\* keys from lo to hi; the compare routine says on which side of n it is.
FoundOrParent(l, lo, hi) ==
  LET Below(n) == hi < n
      Match(n) == lo <= n /\ n <= hi
      walk[n \in Node] ==
        IF Match(n) \/ Child(l, n, Below(n)) = Null
        THEN n ELSE walk[Child(l, n, Below(n))]
  IN  walk[l.right[Head]]

Search(lo, hi) ==
  IF number = 0 THEN [result |-> "empty", node |-> Null]
  ELSE LET n == FoundOrParent(links, lo, hi)
       IN  [node |-> n,
            result |-> IF hi < n THEN "left" ELSE IF n < lo THEN "right" ELSE "found"]

-----------------------------------------------------------------------------
(* Rotations.                                                              *)

\* Faulty variant: the parent link of the subtree that changes sides is
\* left as it was.
PromoteOrphan(l, n) ==
  LET p == l.parent[n]
      super == l.parent[p]
      onLeft == IsLeftChild(l, n)
      inner == Child(l, n, ~onLeft)
      hung == SetChild(l, p, onLeft, inner)
      turned == Attach(hung, n, ~onLeft, p)
  IN  Attach(turned, super, turned.left[super] = p, n)

\* n takes the place of its parent, which becomes its child.
Promote(l, n) ==
  LET p == l.parent[n]
      super == l.parent[p]
      onLeft == IsLeftChild(l, n)
      hung == Attach(l, p, onLeft, Child(l, n, ~onLeft))
      turned == Attach(hung, n, ~onLeft, p)
  IN  Attach(turned, super, turned.left[super] = p, n)

\* Faulty variant: the two cases of the inner node's balance are swapped.
AfterDoubleSwapped(b, tilt) ==
  [node |-> IF tilt = -b THEN -b ELSE Balanced,
   child |-> IF tilt = b THEN b ELSE Balanced]

\* Faulty variant: the inner node's balance is added to that of the node.
AfterDoubleSum(b, tilt) ==
  [node |-> -(b + tilt), child |-> IF tilt = -b THEN b ELSE Balanced]

\* The balances of the two nodes left below an inner node that leant to tilt
\* and was promoted twice, b being the lean of the upper one.
AfterDouble(b, tilt) ==
  [node |-> IF tilt = b THEN -b ELSE Balanced,
   child |-> IF tilt = -b THEN b ELSE Balanced]

\* n leans to one side by two.  still: the height is what it was before the
\* side grew or the other shrank, so that nothing above n has to change.
Rebalance(l, n) ==
  LET b == l.balance[n]
      c == Child(l, n, b # RightHeavy)
      s == Child(l, c, b = RightHeavy)
      twice == Promote(Promote(l, s), s)
      after == AfterDouble(b, twice.balance[s])
  IN  CASE l.balance[c] = b ->
             [still |-> FALSE,
              links |-> [Promote(l, c) EXCEPT !.balance[n] = Balanced,
                                              !.balance[c] = Balanced]]
        [] l.balance[c] = -b ->
             [still |-> FALSE,
              links |-> [twice EXCEPT
                           !.balance[n] = after.node,
                           !.balance[c] = after.child,
                           !.balance[s] = Balanced]]
        [] OTHER ->
             [still |-> TRUE,
              links |-> [Promote(l, c) EXCEPT !.balance[c] = -b]]

-----------------------------------------------------------------------------

NoLinks == [left |-> [n \in Node |-> Null], right |-> [n \in Node |-> Null],
            parent |-> [n \in Node |-> IF n = Head THEN Head ELSE Null],
            balance |-> [n \in Node |-> Balanced]]

\* RtlInitializeGenericTableAvl.
Init ==
  /\ links = NoLinks
  /\ alive = {} /\ number = 0 /\ depth = 0 /\ restart = Null
  /\ pc = "idle" /\ arg = Null /\ at = Null /\ from = Null /\ side = Balanced
  /\ answer = <<>>

\* The call comes to its return with answer a.  What the loops leave behind
\* (the balance of the header, their own variables) is dead from here on.
Finish(l, a) ==
  /\ pc' = "return"
  /\ answer' = a
  /\ links' = SetBalance(l, Head, Balanced)
  /\ arg' = Null /\ at' = Null /\ from' = Null /\ side' = Balanced

\* A call that changes no node.
Reply(a) ==
  /\ Finish(links, a)
  /\ UNCHANGED <<alive, number, depth>>

Return ==
  /\ pc = "return"
  /\ pc' = "idle"
  /\ answer' = <<>>
  /\ UNCHANGED <<links, alive, number, depth, restart, loopVars>>

-----------------------------------------------------------------------------
(* RtlInsertElementGenericTableAvl.  RtlInsertElementGenericTableFullAvl   *)
(* after RtlLookupElementGenericTableFullAvl, with no call between the two *)
(* that changes the table, is the same sequence of steps.                  *)

Insert(k) ==
  LET s == Search(k, k)
      new == <<"insert", k, k, TRUE>>
  IN  \/ /\ \/ s.result = "found" /\ Reply(<<"insert", k, s.node, FALSE>>)
            \* The allocation fails.
            \/ s.result # "found" /\ Reply(<<"insert", k, Null, FALSE>>)
         /\ UNCHANGED restart
      \/ /\ s.result # "found"
         /\ alive' = alive \cup {k}
         /\ number' = number + 1
         /\ \/ /\ s.result = "empty"
               /\ depth' = 1
               /\ Finish(Attach(links, Head, FALSE, k), new)
            \/ /\ s.result # "empty"
               /\ links' = SetBalance(Attach(links, s.node, s.result = "left", k),
                                      Head, LeftHeavy)
               /\ pc' = "grow"
               /\ arg' = k /\ from' = k /\ at' = s.node
               /\ UNCHANGED <<depth, side, answer>>
         /\ UNCHANGED restart

\* One iteration of the loop: the subtree of from, a child of at, has grown.
Grow ==
  LET b == IF IsLeftChild(links, from) THEN LeftHeavy ELSE RightHeavy
      heavier == SetBalance(links, at, b)
      even == SetBalance(links, at, Balanced)
      done == <<"insert", arg, arg, TRUE>>
  IN  /\ pc = "grow"
      /\ \/ /\ links.balance[at] = Balanced
            /\ links' = heavier
            /\ from' = at /\ at' = links.parent[at]
            /\ UNCHANGED <<depth, pc, arg, side, answer>>
         \/ /\ links.balance[at] = -b
            \* The header was made left heavy to end the loop here.
            /\ depth' = IF even.balance[Head] = Balanced THEN depth + 1 ELSE depth
            /\ Finish(even, done)
         \/ /\ links.balance[at] = b
            /\ Finish(Rebalance(links, at).links, done)
            /\ UNCHANGED depth
      /\ UNCHANGED <<alive, number, restart>>

-----------------------------------------------------------------------------
(* RtlDeleteElementGenericTableAvl, and RtlDeleteElementGenericTableAvlEx  *)
(* of the node that a lookup has just found.                               *)

\* The node that is unlinked in place of n: n itself if it has a free side,
\* else its neighbour on the side that is not the shorter one.
DeleteNode(l, n) ==
  IF l.left[n] = Null \/ l.right[n] = Null THEN n
  ELSE Neighbour(l, n, l.balance[n] = LeftHeavy)

\* Faulty variant: the restart key stays on the node.
RestartStale(n) == restart

\* An enumeration that stands at n goes back to its predecessor, which is the
\* header if n is the first element.
RestartWithout(n) == IF n = restart THEN Neighbour(links, n, TRUE) ELSE restart

Delete(k) ==
  LET s == Search(k, k)
      n == s.node
      x == DeleteNode(links, n)
      onLeft == IsLeftChild(links, x)
      rest == IF links.left[x] # Null THEN links.left[x] ELSE links.right[x]
  IN  \/ /\ s.result # "found"
         /\ Reply(<<"delete", k, FALSE>>)
         /\ UNCHANGED restart
      \/ /\ s.result = "found"
         /\ restart' = RestartWithout(n)
         /\ links' = SetBalance(Attach(links, links.parent[x], onLeft, rest),
                                Head, Balanced)
         /\ pc' = "shrink"
         /\ arg' = n /\ from' = x /\ at' = links.parent[x]
         /\ side' = IF onLeft THEN LeftHeavy ELSE RightHeavy
         /\ UNCHANGED <<alive, number, depth, answer>>

\* x takes the place of n in the tree l, with its children and its balance.
Replace(l, n, x) ==
  LET copy == [l EXCEPT !.left[x] = l.left[n], !.right[x] = l.right[n],
                        !.parent[x] = l.parent[n], !.balance[x] = l.balance[n]]
      hung == Attach(copy, copy.parent[x], IsLeftChild(copy, n), x)
      half == Attach(hung, x, TRUE, hung.left[x])
  IN  Attach(half, x, FALSE, half.right[x])

\* The links of freed memory are not read any more.
Free(l, n) ==
  [l EXCEPT !.left[n] = Null, !.right[n] = Null, !.parent[n] = Null,
            !.balance[n] = Balanced]

\* After the loop: put DeleteNode where the node was, free the node.
Unlink(l) ==
  /\ Finish(Free(IF from = arg THEN l ELSE Replace(l, arg, from), arg),
            <<"delete", arg, TRUE>>)
  /\ alive' = alive \ {arg}
  /\ number' = number - 1

\* One iteration of the loop: at has lost height on the given side.
Shrink ==
  LET lower == SetBalance(links, at, Balanced)
      tilted == SetBalance(links, at, -side)
      turned == Rebalance(links, at)
      Up(l, n) == /\ links' = l
                  /\ side' = IF IsRightChild(l, n) THEN RightHeavy ELSE LeftHeavy
                  /\ at' = l.parent[n]
                  /\ UNCHANGED <<alive, number, pc, arg, from, answer>>
  IN  /\ pc = "shrink"
      /\ \/ /\ links.balance[at] = side
            /\ Up(lower, at)
            /\ UNCHANGED depth
         \/ /\ links.balance[at] = Balanced
            \* Only the header was balanced by assumption: the tree shrank.
            /\ depth' = IF tilted.balance[Head] # Balanced THEN depth - 1 ELSE depth
            /\ Unlink(tilted)
         \/ /\ links.balance[at] = -side
            /\ IF turned.still THEN Unlink(turned.links)
               ELSE Up(turned.links, turned.links.parent[at])
            /\ UNCHANGED depth
      /\ UNCHANGED restart

-----------------------------------------------------------------------------
(* Calls that only read the tree.                                          *)

\* RtlLookupElementGenericTableAvl, RtlLookupElementGenericTableFullAvl.
Lookup(k) ==
  LET s == Search(k, k)
  IN  /\ Reply(<<"lookup", k, IF s.result = "found" THEN s.node ELSE Null>>)
      /\ UNCHANGED restart

\* Faulty variant: the match that the search met.
FirstMatchMet(l, lo, n) == n

\* The first match: from a match, go to its predecessor while that matches.
\* The predecessor of the first element is the header, its own parent.
FirstMatchFrom(l, lo, n) ==
  LET back[x \in Linked(l)] ==
        LET p == Neighbour(l, x, TRUE)
        IN  IF p = Null \/ l.parent[p] = p \/ p < lo THEN x ELSE back[p]
  IN  back[n]

\* RtlLookupFirstMatchingElementGenericTableAvl.
LookupFirst(lo, hi) ==
  LET s == Search(lo, hi)
  IN  /\ lo <= hi
      /\ Reply(<<"first", lo, hi, IF s.result = "found"
                                 THEN FirstMatchFrom(links, lo, s.node) ELSE Null>>)
      /\ UNCHANGED restart

\* RtlEnumerateGenericTableAvl; RtlEnumerateGenericTableWithoutSplayingAvl is
\* the same on a restart key of the caller.
Enumerate(again) ==
  LET key == IF again THEN Null ELSE restart
      next == IF key = Null THEN Outermost(links, links.right[Head], TRUE)
              ELSE Neighbour(links, key, FALSE)
      node == IF number = 0 THEN Null ELSE next
  IN  /\ Reply(<<"enumerate", again, node>>)
      /\ restart' = IF node = Null THEN key ELSE node

\* Only the order of the keys matters to the tree.  A guest that is not
\* thorough makes no futile call, and deletes from a table only when its keys
\* are 1 .. n: every tree of n nodes, up to the names of its keys, is one of
\* those.
InsertKeys == IF Thorough THEN Key ELSE Key \ alive
DeleteKeys ==
  CASE Thorough -> Key
    [] ~Thorough /\ alive = 1 .. number -> alive
    [] OTHER -> {}

\* The guest makes its next call when the last one has returned.
Call ==
  /\ pc = "idle"
  /\ \/ "insert" \in Calls /\ \E k \in InsertKeys : Insert(k)
     \/ "delete" \in Calls /\ \E k \in DeleteKeys : Delete(k)
     \/ "lookup" \in Calls /\ \E k \in Key : Lookup(k)
     \/ "first" \in Calls /\ \E lo, hi \in Key : LookupFirst(lo, hi)
     \/ "enumerate" \in Calls /\ \E again \in BOOLEAN : Enumerate(again)

Step == Grow \/ Shrink \/ Return

Next == Call \/ Step

Spec == Init /\ [][Next]_vars

\* A call that has begun runs on; nobody has to make another.
FairSpec == Spec /\ WF_vars(Step)

-----------------------------------------------------------------------------
(* Properties.                                                             *)

\* Every variable keeps its type: pointers point to nodes, balance factors
\* are those of RTL_AVL_BALANCE_FACTOR without RtlUnbalancedAvlTree.
TypeOK ==
  /\ links \in [left : [Node -> NodeOrNull], right : [Node -> NodeOrNull],
                parent : [Node -> NodeOrNull], balance : [Node -> -1 .. 1]]
  /\ alive \subseteq Key
  /\ number \in 0 .. MaxKey
  /\ depth \in 0 .. MaxKey
  /\ restart \in NodeOrNull
  /\ pc \in {"idle", "grow", "shrink", "return"}
  /\ arg \in Key \cup {Null}
  /\ at \in NodeOrNull /\ from \in NodeOrNull
  /\ side \in -1 .. 1
  /\ (answer = <<>>) = (pc # "return")

\* The nodes in the tree: while a deletion goes up, DeleteNode is in none.
InTree == IF pc = "shrink" THEN alive \ {from} ELSE alive

\* The links of a search tree.  Parent and child links agree, no link leads
\* to freed memory, the header has no left child, and the way down from the
\* top by comparisons leads to each element; so the table holds exactly the
\* elements that were inserted and not deleted (avlsupp.c 97-123, 324-394).
SearchTree ==
  /\ \A n \in InTree \cup {Head}, onLeft \in BOOLEAN :
       LET c == Child(links, n, onLeft)
       IN  c # Null => c \in InTree /\ links.parent[c] = n
  /\ \A n \in InTree : IsLeftChild(links, n) # IsRightChild(links, n)
  /\ links.left[Head] = Null /\ links.parent[Head] = Head
  /\ \A n \in InTree : FoundOrParent(links, n, n) = n
  /\ number = Cardinality(alive)

\* The heights that the balance factors stand for.  While a call goes up the
\* tree the factors from at upwards do not know yet that one side of at has
\* grown (Grow) or lost a level (Shrink).
Behind(n, b) ==
  CASE pc = "grow" /\ n = at /\ Child(links, n, b = LeftHeavy) = from -> -1
    [] pc = "shrink" /\ n = at /\ b = side -> 1
    [] OTHER -> 0

Told ==
  LET SideOf(f, n, b) == f[Child(links, n, b = LeftHeavy)] + Behind(n, b)
      told[n \in NodeOrNull] ==
        IF n = Null THEN 0
        ELSE LET l == SideOf(told, n, LeftHeavy)
                 r == SideOf(told, n, RightHeavy)
             IN  1 + (IF l > r THEN l ELSE r)
      lean == [n \in InTree |-> SideOf(told, n, RightHeavy) - SideOf(told, n, LeftHeavy)]
  IN  [lean |-> lean, height |-> SideOf(told, Head, RightHeavy)]

\* Between calls every balance factor is the difference of the heights below
\* it, and DepthOfTree is the height of the tree; inside a call that holds
\* of the heights before the change that has not been told upwards yet.
\* A wrong factor after one rotation unbalances the tree calls later
\* (avlsupp.c 125-204).
AvlShape ==
  LET told == Told
  IN  /\ \A n \in InTree : links.balance[n] = told.lean[n]
      /\ depth = told.height

\* RestartKey never points to a node that has been freed (avltable.c 308).
RestartKeyAlive == restart \in alive \cup {Head, Null}

\* The table is a set of elements in order, with an enumeration that no
\* insertion or deletion disturbs: OrderedTable.  A call has its effect when
\* it enters the loop; the loop is not seen, but every later search and every
\* neighbour goes through the links it leaves.
Table == INSTANCE OrderedTable WITH
           elems <- IF pc = "shrink" THEN alive \ {arg} ELSE alive,
           passed <- IF restart = Null THEN 0 ELSE restart,
           answer <- CASE pc = "grow" -> <<"insert", arg, arg, TRUE>>
                       [] pc = "shrink" -> <<"delete", arg, TRUE>>
                       [] OTHER -> answer
ImplementsTable == Table!Spec

\* Every call returns: the loops up the tree end at the header at the latest.
CallsReturn == pc # "idle" ~> pc = "idle"

=============================================================================
