----------------------------- MODULE SplayLinks -----------------------------
(***************************************************************************)
(* The splay links of libs/ntdll/splaytree.c: trees that their user links  *)
(* with RtlInsertAsLeftChild and ..RightChild of rtl.h, and that RtlSplay, *)
(* RtlDelete and RtlDeleteNoSplay turn and cut.  The root is its own       *)
(* parent.  The user keeps its nodes in the order of their numbers.        *)
(***************************************************************************)
EXTENDS Integers, SequencesExt

CONSTANTS
  LinkCount,  \* the nodes are 1 .. LinkCount
  NoLink      \* the null pointer

VARIABLES
  kin,  \* child[TRUE] is LeftChild, child[FALSE] is RightChild; parent
  top   \* the root that the user keeps

linkVars == <<kin, top>>

Node == 1 .. LinkCount
Side == BOOLEAN
Left == TRUE
Right == FALSE

NoLinks == [child |-> [s \in Side |-> [n \in Node |-> NoLink]],
            parent |-> [n \in Node |-> NoLink]]

IsRoot(k, n) == k.parent[n] = n
SideOf(k, n) == IF k.child[Left][k.parent[n]] = n THEN Left ELSE Right
Linked == {n \in Node : kin.parent[n] # NoLink}

\* Make c, which may be null, the child of p.
Hang(k, p, s, c) ==
  IF c = NoLink THEN [k EXCEPT !.child[s][p] = c]
  ELSE [k EXCEPT !.child[s][p] = c, !.parent[c] = p]

\* n takes the place of g below the parent of g.
TakePlace(k, g, n) ==
  IF IsRoot(k, g) THEN [k EXCEPT !.parent[n] = n]
  ELSE Hang(k, k.parent[g], SideOf(k, g), n)

-----------------------------------------------------------------------------
(* RtlSplay.  Its six cases are three and their mirror images.             *)

Zig(k, n, p, s) ==
  LET hung == Hang(k, p, s, k.child[~s][n])
  IN  [Hang(hung, n, ~s, p) EXCEPT !.parent[n] = n]

ZigZig(k, n, p, g, s) ==
  LET hung == Hang(Hang(k, p, s, k.child[~s][n]), g, s, k.child[~s][p])
      placed == TakePlace(hung, g, n)
  IN  Hang(Hang(placed, n, ~s, p), p, ~s, g)

ZigZag(k, n, p, g, s) ==
  LET hung == Hang(Hang(k, g, ~s, k.child[s][n]), p, s, k.child[~s][n])
      placed == TakePlace(hung, g, n)
  IN  Hang(Hang(placed, n, s, g), n, ~s, p)

RECURSIVE RtlSplay(_, _)
RtlSplay(k, n) ==
  LET p == k.parent[n]
      g == k.parent[p]
      s == SideOf(k, n)
  IN  IF IsRoot(k, n) THEN k
      ELSE RtlSplay(IF IsRoot(k, p) THEN Zig(k, n, p, s)
                    ELSE IF SideOf(k, p) = s THEN ZigZig(k, n, p, g, s)
                    ELSE ZigZag(k, n, p, g, s), n)

-----------------------------------------------------------------------------
(* Deletion.                                                               *)

\* The last node on one side of the subtree below n on the other.
SubtreePredecessor(k, n) ==
  LET walk[m \in Node] ==
        IF k.child[Right][m] = NoLink THEN m ELSE walk[k.child[Right][m]]
  IN  walk[k.child[Left][n]]

\* FixupChildLinks
Fixup(k, n, isRoot, s) ==
  LET kids == Hang(Hang(k, n, Left, k.child[Left][n]), n, Right, k.child[Right][n])
  IN  IF isRoot THEN kids ELSE Hang(kids, kids.parent[n], s, n)

\* a and b exchange their places.  The case that b is a child of a, and the
\* case that a is the root, have a correction.
Exchange(k, a, b) ==
  LET sideA == SideOf(k, a)
      sideB == SideOf(k, b)
      exchanged == [child |-> [s \in Side |-> [k.child[s] EXCEPT ![a] = k.child[s][b],
                                                                 ![b] = k.child[s][a]]],
                    parent |-> [k.parent EXCEPT ![a] = k.parent[b], ![b] = k.parent[a]]]
      above == IF IsRoot(k, a) THEN exchanged
               ELSE Hang(exchanged, k.parent[a], sideA, b)
      adjacent == IF k.parent[b] = a THEN Hang(above, b, sideB, a) ELSE exchanged
      fixed == Fixup(Fixup(adjacent, a, FALSE, sideB), b, IsRoot(k, a), sideA)
  IN  IF IsRoot(k, a) THEN [fixed EXCEPT !.parent[b] = b] ELSE fixed

\* The upper one comes first.
SwapSplayLinks(k, x, y) ==
  IF k.parent[x] = y \/ IsRoot(k, y) THEN Exchange(k, y, x) ELSE Exchange(k, x, y)

Inherit(k, p, s, c) == Hang(k, p, s, c)

\* n, which has one child at most, leaves the tree: its links, the root unless
\* n is that, and the node that is splayed.
Lift(k, n, root) ==
  LET c == IF k.child[Left][n] # NoLink THEN k.child[Left][n] ELSE k.child[Right][n]
      p == k.parent[n]
  IN  IF IsRoot(k, n)
      THEN [top |-> c, splayed |-> NoLink,
            kin |-> IF c = NoLink THEN k ELSE [k EXCEPT !.parent[c] = c]]
      ELSE [top |-> root, splayed |-> p, kin |-> Inherit(k, p, SideOf(k, n), c)]

\* What RtlDelete and RtlDeleteNoSplay have in common.
Cut(k, n, root) ==
  LET pred == SubtreePredecessor(k, n)
  IN  IF k.child[Left][n] # NoLink /\ k.child[Right][n] # NoLink
      THEN Lift(SwapSplayLinks(k, pred, n), n, IF IsRoot(k, n) THEN pred ELSE root)
      ELSE Lift(k, n, root)

\* The user forgets the links of a node that it has deleted.
Forget(k, n) ==
  [child |-> [s \in Side |-> [k.child[s] EXCEPT ![n] = NoLink]],
   parent |-> [k.parent EXCEPT ![n] = NoLink]]

-----------------------------------------------------------------------------
(* Calls.                                                                  *)

LinkInit == kin = NoLinks /\ top = NoLink

\* The user links a new node where its number belongs.
InsertLeaf(n) ==
  /\ n \notin Linked
  /\ IF top = NoLink
     THEN kin' = [kin EXCEPT !.parent[n] = n] /\ top' = n
     ELSE LET side(m) == IF n < m THEN Left ELSE Right
              walk[m \in Node] == IF kin.child[side(m)][m] = NoLink THEN m
                                  ELSE walk[kin.child[side(m)][m]]
          IN  kin' = Hang(kin, walk[top], side(walk[top]), n) /\ UNCHANGED top

Splay(n) == n \in Linked /\ kin' = RtlSplay(kin, n) /\ top' = n

Delete(n) ==
  /\ n \in Linked
  /\ \E cut \in {Cut(kin, n, top)} :
       IF cut.splayed = NoLink
       THEN kin' = Forget(cut.kin, n) /\ top' = cut.top
       ELSE kin' = Forget(RtlSplay(cut.kin, cut.splayed), n) /\ top' = cut.splayed

DeleteNoSplay(n) ==
  /\ n \in Linked
  /\ \E cut \in {Cut(kin, n, top)} : kin' = Forget(cut.kin, n) /\ top' = cut.top

LinkNext == \E n \in Node : InsertLeaf(n) \/ Splay(n) \/ Delete(n) \/ DeleteNoSplay(n)

LinkSpec == LinkInit /\ [][LinkNext]_linkVars

-----------------------------------------------------------------------------
(* Properties.                                                             *)

InOrder(k, root) ==
  LET walk[d \in 0 .. LinkCount, n \in Node \cup {NoLink}] ==
        IF n = NoLink \/ d = 0 THEN <<>>
        ELSE walk[d - 1, k.child[Left][n]] \o <<n>> \o walk[d - 1, k.child[Right][n]]
  IN  walk[LinkCount, root]

\* The nodes from n up to the root.
Ancestry(k, n) ==
  LET climb[d \in 0 .. LinkCount, m \in Node] ==
        IF d = 0 \/ IsRoot(k, m) THEN <<m>> ELSE <<m>> \o climb[d - 1, k.parent[m]]
  IN  climb[LinkCount, n]

Depth(k, n) == Len(Ancestry(k, n))

LinksTypeOK ==
  /\ kin.child \in [Side -> [Node -> Node \cup {NoLink}]]
  /\ kin.parent \in [Node -> Node \cup {NoLink}]
  /\ top \in Node \cup {NoLink}

\* From the root that a call returns all nodes are reached, and no node that
\* was deleted, in their order; parent links and child links agree, whatever
\* splays and deletions went before (RtlSplay, SwapSplayLinks, RtlDelete,
\* RtlDeleteNoSplay).
WellLinked ==
  LET nodes == InOrder(kin, top)
  IN  /\ \A i, j \in 1 .. Len(nodes) : i < j => nodes[i] < nodes[j]
      /\ ToSet(nodes) = Linked
      /\ top # NoLink => IsRoot(kin, top)
      /\ \A n \in Linked, s \in Side :
           kin.child[s][n] # NoLink => kin.parent[kin.child[s][n]] = n

\* Of every step: a splay brings its node to the root and leaves every node of
\* the path at about half the depth of the path or above (RtlSplay, cases 1 to 4).
LinksHalvePath ==
  \A n \in Linked : Splay(n) =>
    LET path == Ancestry(kin, n)
    IN  /\ IsRoot(kin', n)
        /\ \A i \in 1 .. Len(path) : Depth(kin', path[i]) <= Len(path) \div 2 + 2

\* Of every step: RtlDeleteNoSplay brings no node that stays further down.
NoSplayNoDeeper ==
  \A n \in Linked : DeleteNoSplay(n) =>
    \A m \in Linked \ {n} : Depth(kin', m) <= Depth(kin, m)
=============================================================================
