------------------------------ MODULE AvlTrees ------------------------------
(***************************************************************************)
(* The trees of AvlTable as proofs see them, for any number of keys: what  *)
(* makes the links a search tree, where the searches and the ways up and   *)
(* down end, and that the operators that relink nodes (Attach, Promote,    *)
(* Replace) keep a tree a tree.                                            *)
(*                                                                         *)
(* The subtrees of a tree are given by a function D from a node to the set *)
(* of nodes below it.  Going down makes D smaller, going up makes it       *)
(* larger; a claim about all nodes is proved of one whose D is least among *)
(* those for which it fails.                                               *)
(***************************************************************************)
EXTENDS AvlTable, FiniteSetTheorems, TLAPS

\* RTL_BALANCED_LINKS of all nodes.
Links == [left : [Node -> NodeOrNull], right : [Node -> NodeOrNull],
          parent : [Node -> NodeOrNull], balance : [Node -> -1 .. 1]]

\* x is on side s of y in the order of the keys.
On(s, x, y) == IF s THEN x < y ELSE y < x

\* The links l are a search tree of the nodes T, and D[n] is the subtree of n.
IsTree(l, T, D) ==
  /\ l \in Links /\ T \subseteq Key
  /\ D \in [NodeOrNull -> SUBSET T]
  /\ D[Null] = {} /\ D[l.right[Head]] = T
  /\ l.left[Head] = Null /\ l.parent[Head] = Head
  /\ \A n \in Node, s \in BOOLEAN : Child(l, n, s) \in T \cup {Null}
  /\ \A n \in T \cup {Head}, s \in BOOLEAN :
       Child(l, n, s) # Null => l.parent[Child(l, n, s)] = n
  /\ \A n \in T : /\ l.parent[n] \in T \cup {Head}
                  /\ \E s \in BOOLEAN : Child(l, l.parent[n], s) = n
  /\ \A n \in T, s \in BOOLEAN : D[n] = {n} \cup D[Child(l, n, s)] \cup D[Child(l, n, ~s)]
  /\ \A n \in T, s \in BOOLEAN : \A x \in D[Child(l, n, s)] : On(s, x, n)

\* The header is below every key and the null pointer is none of them.
LEMMA Nodes == Key \subseteq Int /\ Head \in Int /\ Head \notin Key /\ Null \notin Node
               /\ IsFiniteSet(Node) /\ \A k \in Key : Head < k
<1>1. Null \notin 0 .. MaxKey BY AvlAssumption
<1>2. Node = 0 .. MaxKey BY AvlAssumption DEF Node, Key, Head
<1>3. IsFiniteSet(Node) BY <1>2, FS_Interval, AvlAssumption
<1>4. QED BY <1>1, <1>2, <1>3, AvlAssumption DEF Key, Head

\* A subtree is its top and the two below it, with their elements on its sides: the
\* links that RtlpPromoteAvlTreeNode and the searches go by.
LEMMA Parts ==
  ASSUME NEW l, NEW T, NEW D, IsTree(l, T, D), NEW n \in T, NEW s \in BOOLEAN
  PROVE  /\ Child(l, n, s) \in T \cup {Null} /\ n \in Key /\ n \in Node
         /\ D[Child(l, n, s)] \subseteq D[n] /\ n \in D[n] /\ D[n] \subseteq T
         /\ n \notin D[Child(l, n, s)]
         /\ \A x \in D[n] : x = n \/ x \in D[Child(l, n, s)] \/ x \in D[Child(l, n, ~s)]
         /\ \A x \in D[Child(l, n, s)] : On(s, x, n) /\ x \in Key
         /\ \A x \in D[Child(l, n, ~s)] : On(~s, x, n) /\ x \in Key
         /\ D[Child(l, n, ~s)] \subseteq D[n] /\ n \notin D[Child(l, n, ~s)]
         /\ Child(l, n, ~s) \in T \cup {Null}
<1> USE DEF IsTree
<1>1. n \in Key /\ n \in Node /\ n \in Int BY Nodes DEF Node
<1>2. Child(l, n, s) \in T \cup {Null} BY <1>1
<1>4. D[n] = {n} \cup D[Child(l, n, s)] \cup D[Child(l, n, ~s)] OBVIOUS
<1>5. D[n] \subseteq T BY <1>1 DEF NodeOrNull
<1>6. \A x \in D[Child(l, n, s)] : On(s, x, n) /\ x \in Key BY <1>4, <1>5
<1>7. n \notin D[Child(l, n, s)] BY <1>6, <1>1 DEF On
<1>8. PICK o \in BOOLEAN : o = ~s OBVIOUS
<1>9. /\ \A x \in D[Child(l, n, o)] : On(o, x, n) /\ x \in Key
      /\ Child(l, n, o) \in T \cup {Null}
  BY <1>1, <1>4, <1>5, <1>8
<1>10. n \notin D[Child(l, n, o)] BY <1>9, <1>1 DEF On
<1>11. QED BY <1>1, <1>2, <1>4, <1>5, <1>6, <1>7, <1>8, <1>9, <1>10

\* An element is in its own subtree, and is not the header.
LEMMA Self ==
  ASSUME NEW l, NEW T, NEW D, IsTree(l, T, D), NEW n \in T
  PROVE  /\ n \in D[n] /\ D[n] \subseteq T /\ n \in Key /\ n \in Node /\ n \in Int
         /\ n \in NodeOrNull /\ n # Null /\ n # Head
<1>1. n \in D[n] /\ n \in Key
  <2>1. D[n] = {n} \cup D[Child(l, n, TRUE)] \cup D[Child(l, n, FALSE)] BY DEF IsTree
  <2>2. QED BY <2>1 DEF IsTree
<1>2. n \in Node BY <1>1 DEF Node
<1>3. n \in NodeOrNull BY <1>2 DEF NodeOrNull
<1>4. D[n] \subseteq T BY <1>3 DEF IsTree
<1>5. QED BY <1>1, <1>2, <1>3, <1>4, Nodes

-----------------------------------------------------------------------------
(* Ways through a tree.                                                    *)

\* A family of subsets of a finite set, such as the subtrees, has a least one.
LEMMA LeastSet ==
  ASSUME NEW V, IsFiniteSet(V), NEW F \in SUBSET SUBSET V, F # {}
  PROVE  \E A \in F : \A B \in F : B \subseteq A => B = A
<1>1. FiniteSubsetsOf(V) = SUBSET V BY FS_FiniteSubsetsOfFinite
<1>2. IsWellFoundedOn(StrictSubsetOrdering(V), SUBSET V)
  BY <1>1, FS_StrictSubsetOrderingWellFounded
<1>3. \E A \in F : \A B \in F : <<B, A>> \notin StrictSubsetOrdering(V)
  BY <1>2, WFMin
<1>4. QED BY <1>3 DEF StrictSubsetOrdering

\* So a set of nodes has one whose D, its subtree say, is least.
LEMMA LeastPlace ==
  ASSUME NEW V, IsFiniteSet(V), NEW S, NEW D \in [S -> SUBSET V], NEW A \in SUBSET S, A # {}
  PROVE  \E x \in A : \A y \in A : D[y] \subseteq D[x] => D[y] = D[x]
<1> DEFINE F == {D[x] : x \in A}
<1>1. F \in SUBSET SUBSET V /\ F # {} OBVIOUS
<1>2. PICK B \in F : \A C \in F : C \subseteq B => C = B
  <2> HIDE DEF F
  <2>1. QED BY <1>1, LeastSet
<1>3. QED BY <1>2

\* A step to next makes D smaller, where it does not stop.
Descends(S, V, D, Stop, next) ==
  /\ IsFiniteSet(S) /\ IsFiniteSet(V) /\ D \in [S -> SUBSET V]
  /\ \A x \in S \ Stop : next[x] \in S /\ D[next[x]] \subseteq D[x] /\ D[next[x]] # D[x]

\* f follows next until it stops.
Follows(f, S, Stop, next) == f = [x \in S |-> IF x \in Stop THEN x ELSE f[next[x]]]

\* There is a function that does what a loop through the tree does, as its measure
\* falls: the while loops of splaytree.c and avlsupp.c end.
LEMMA WalkExists ==
  ASSUME NEW S, NEW V, NEW D, NEW Stop, NEW next, Descends(S, V, D, Stop, next)
  PROVE  \E f : Follows(f, S, Stop, next)
<1>0. /\ IsFiniteSet(S) /\ IsFiniteSet(V) /\ D \in [S -> SUBSET V]
      /\ \A x \in S \ Stop : next[x] \in S /\ D[next[x]] \subseteq D[x] /\ D[next[x]] # D[x]
  BY DEF Descends
<1> DEFINE Fits(f, x) == f[x] = IF x \in Stop THEN x ELSE f[next[x]]
           F == {A \in SUBSET S : \E f : \A x \in S \ A : (x \notin Stop => next[x] \notin A) /\ Fits(f, x)}
<1>1. S \in F OBVIOUS
<1>2. F \in SUBSET SUBSET S OBVIOUS
<1>3. PICK A \in F : \A B \in F : B \subseteq A => B = A
  <2> HIDE DEF F
  <2>1. F # {} BY <1>1
  <2>2. QED BY <1>0, <1>2, <2>1, LeastSet
<1>4. PICK f : \A x \in S \ A : (x \notin Stop => next[x] \notin A) /\ Fits(f, x) BY <1>3
<1>5. A = {}
  <2>1. SUFFICES ASSUME A # {} PROVE FALSE OBVIOUS
  <2>2. PICK x \in A : \A y \in A : D[y] \subseteq D[x] => D[y] = D[x]
    <3>1. A \in SUBSET S BY <1>3
    <3>2. QED BY <1>0, <2>1, <3>1, LeastPlace
  <2>3. x \in S BY <1>3
  <2>4. x \notin Stop => next[x] \notin A BY <1>0, <2>2, <2>3
  <2> DEFINE v == IF x \in Stop THEN x ELSE f[next[x]]
             g == [y \in S |-> IF y = x THEN v ELSE f[y]]
  <2>5. x \notin Stop => next[x] \in S /\ next[x] # x BY <1>0, <2>3
  <2>6. g[x] = v BY <2>3
  <2>7. Fits(g, x)
    <3>1. CASE x \in Stop BY <2>6, <3>1
    <3>2. CASE x \notin Stop
      <4>1. g[next[x]] = f[next[x]] BY <2>5, <3>2
      <4>2. QED BY <2>6, <3>2, <4>1
    <3>3. QED BY <3>1, <3>2
  <2>8. ASSUME NEW y \in S \ A PROVE (y \notin Stop => next[y] \notin A) /\ Fits(g, y)
    <3>1. y # x /\ g[y] = f[y] OBVIOUS
    <3>2. y \notin Stop => next[y] \notin A /\ next[y] \in S /\ next[y] # x BY <1>0, <1>4, <2>2
    <3>3. y \notin Stop => g[next[y]] = f[next[y]] BY <3>2
    <3>4. Fits(f, y) BY <1>4
    <3>5. QED BY <3>1, <3>2, <3>3, <3>4
  <2>9. \A y \in S \ (A \ {x}) : (y \notin Stop => next[y] \notin A) /\ Fits(g, y)
    BY <2>2, <2>4, <2>7, <2>8
  <2>10. A \ {x} \in F
    <3>1. A \ {x} \in SUBSET S BY <1>3
    <3>2. \E e : \A y \in S \ (A \ {x}) : (y \notin Stop => next[y] \notin A \ {x}) /\ Fits(e, y) BY <2>9
    <3>3. QED BY <3>1, <3>2
  <2>11. A \ {x} \subseteq A /\ A \ {x} # A BY <2>2
  <2>12. QED
    <3> HIDE DEF F
    <3>1. QED BY <1>3, <2>10, <2>11
<1>6. \A x \in S : Fits(f, x) BY <1>4, <1>5
<1> DEFINE h == [x \in S |-> f[x]]
<1>7. ASSUME NEW x \in S PROVE h[x] = IF x \in Stop THEN x ELSE h[next[x]]
  <2>1. x \notin Stop => h[next[x]] = f[next[x]] BY <1>0
  <2>2. QED BY <1>6, <2>1
<1>8. h = [x \in S |-> IF x \in Stop THEN x ELSE h[next[x]]] BY <1>7
<1>9. QED BY <1>8 DEF Follows

\* What a loop keeps holds where it ends.
LEMMA Walk ==
  ASSUME NEW S, NEW V, NEW D, NEW Stop, NEW next, Descends(S, V, D, Stop, next),
         NEW f, Follows(f, S, Stop, next),
         NEW I \in SUBSET S, \A x \in I \ Stop : next[x] \in I, NEW e \in I
  PROVE  f[e] \in I /\ f[e] \in Stop
<1>0. /\ IsFiniteSet(S) /\ IsFiniteSet(V) /\ D \in [S -> SUBSET V]
      /\ \A x \in S \ Stop : next[x] \in S /\ D[next[x]] \subseteq D[x] /\ D[next[x]] # D[x]
      /\ f = [x \in S |-> IF x \in Stop THEN x ELSE f[next[x]]]
  BY DEF Descends, Follows
<1> DEFINE A == {x \in I : ~ (f[x] \in I /\ f[x] \in Stop)}
<1>1. SUFFICES ASSUME A # {} PROVE FALSE OBVIOUS
<1>2. A \in SUBSET S OBVIOUS
<1>3. PICK x \in A : \A y \in A : D[y] \subseteq D[x] => D[y] = D[x]
  <2> HIDE DEF A
  <2>1. QED BY <1>0, <1>1, <1>2, LeastPlace
<1>4. x \in S /\ x \in I BY <1>3
<1>5. f[x] = IF x \in Stop THEN x ELSE f[next[x]] BY <1>0, <1>4
<1>6. CASE x \in Stop BY <1>3, <1>4, <1>5, <1>6
<1>7. CASE x \notin Stop
  <2>1. next[x] \in I /\ next[x] \notin A BY <1>0, <1>3, <1>4, <1>7
  <2>2. QED BY <1>3, <1>5, <1>7, <2>1
<1>8. QED BY <1>6, <1>7

\* The parent of a node of the tree: going up enlarges the subtree.
LEMMA Up ==
  ASSUME NEW l, NEW T, NEW D, IsTree(l, T, D), NEW n \in T
  PROVE  /\ l.parent[n] \in T \cup {Head} /\ n \in Key
         /\ l.parent[n] = Head => l.right[Head] = n /\ D[n] = T
         /\ l.parent[n] \in T =>
              /\ D[n] \subseteq D[l.parent[n]] /\ l.parent[n] \in D[l.parent[n]]
              /\ l.parent[n] \notin D[n]
         /\ \E s \in BOOLEAN : Child(l, l.parent[n], s) = n
<1> DEFINE p == l.parent[n]
<1>1. PICK s \in BOOLEAN : Child(l, p, s) = n BY DEF IsTree
<1>2. p \in T \cup {Head} /\ n \in Key BY DEF IsTree
<1>3. CASE p = Head
  <2>1. l.left[Head] = Null /\ D[l.right[Head]] = T BY DEF IsTree
  <2>2. Null # n /\ Head \notin T BY <1>2, Nodes DEF IsTree, Node
  <2>3. l.right[Head] = n BY <1>1, <1>3, <2>1, <2>2 DEF Child
  <2>4. QED BY <1>1, <1>2, <1>3, <2>1, <2>2, <2>3
<1>4. CASE p \in T
  <2>1. p # Head BY <1>4, Nodes DEF IsTree
  <2>2. QED BY <1>1, <1>4, <2>1, <1>2, Parts
<1>5. QED BY <1>2, <1>3, <1>4

\* A subtree is an interval of the keys of the tree.
LEMMA Convex ==
  ASSUME NEW l, NEW T, NEW D, IsTree(l, T, D), NEW n \in T, NEW y \in T \ D[n]
  PROVE  (\A x \in D[n] : y < x) \/ (\A x \in D[n] : x < y)
<1> DEFINE Good(m) == \A z \in T \ D[m] :
                        (\A x \in D[m] : z < x) \/ (\A x \in D[m] : x < z)
           B == {m \in T : ~Good(m)}
           C == [m \in T |-> T \ D[m]]
<1>0. T \subseteq Key /\ T \subseteq Node /\ IsFiniteSet(T)
  <2>1. T \subseteq Key BY DEF IsTree
  <2>2. T \subseteq Node BY <2>1 DEF Node
  <2>3. QED BY <2>1, <2>2, Nodes, FS_Subset
<1>1. SUFFICES ASSUME B # {} PROVE FALSE OBVIOUS
<1>2. PICK m \in B : \A k \in B : C[k] \subseteq C[m] => C[k] = C[m]
  <2>1. C \in [T -> SUBSET T] OBVIOUS
  <2>2. B \in SUBSET T OBVIOUS
  <2> HIDE DEF B, C
  <2>3. QED BY <1>0, <1>1, <2>1, <2>2, LeastPlace
<1> DEFINE p == l.parent[m]
<1>3. m \in T /\ m \in Key BY <1>0
<1>4. CASE p = Head
  <2>1. D[m] = T BY <1>3, <1>4, Up
  <2>2. QED BY <2>1
<1>5. CASE p \in T
  <2>1. PICK s \in BOOLEAN : Child(l, p, s) = m BY <1>3, Up
  <2>2. /\ D[m] \subseteq D[p] /\ p \in D[p] /\ p \notin D[m] /\ p \in Key /\ D[p] \subseteq T
        /\ \A x \in D[p] : x = p \/ x \in D[m] \/ x \in D[Child(l, p, ~s)]
        /\ \A x \in D[m] : On(s, x, p) /\ x \in Key
    BY <1>5, <2>1, Parts
  <2>3. \A x \in D[Child(l, p, ~s)] : On(~s, x, p) /\ x \in Key
    <3>1. D[Child(l, p, s)] = D[m] BY <2>1
    <3>2. QED BY <1>5, <3>1, Parts
  <2>4. Good(p) BY <1>5, <2>2, <1>2
  <2>5. ASSUME NEW z \in T \ D[m]
        PROVE  (\A x \in D[m] : z < x) \/ (\A x \in D[m] : x < z)
    <3>1. z \in Key /\ z \in Int /\ p \in Int /\ \A x \in D[m] : x \in Int BY <1>0, <2>2, Nodes
    <3>2. CASE z \notin D[p] BY <2>2, <2>4, <3>2
    <3>3. CASE z \in D[p]
      <4>1. z = p \/ On(~s, z, p) BY <2>2, <2>3, <3>3
      <4>2. CASE s = TRUE BY <2>2, <3>1, <4>1, <4>2 DEF On
      <4>3. CASE s = FALSE BY <2>2, <3>1, <4>1, <4>3 DEF On
      <4>4. QED BY <4>2, <4>3
    <3>4. QED BY <3>2, <3>3
  <2>6. QED BY <2>5, <1>2
<1>6. QED BY <1>3, <1>4, <1>5, Up

\* What measures the way down from a node.
Size(T, D) == [n \in Node |-> IF n \in T THEN D[n] ELSE T \cup {n}]

\* The way down of RtlpFindAvlTableNodeOrParent makes the subtree smaller.
LEMMA DownIsSmaller ==
  ASSUME NEW l, NEW T, NEW D, IsTree(l, T, D), NEW n \in Node, NEW s \in BOOLEAN,
         Child(l, n, s) # Null
  PROVE  /\ Child(l, n, s) \in T /\ Child(l, n, s) \in Node
         /\ Size(T, D)[Child(l, n, s)] \subseteq Size(T, D)[n]
         /\ Size(T, D)[Child(l, n, s)] # Size(T, D)[n]
<1> DEFINE c == Child(l, n, s)
<1>1. c \in T /\ T \subseteq Key BY DEF IsTree
<1>2. c \in Node BY <1>1 DEF Node
<1>3. Size(T, D)[c] = D[c] /\ D[c] \subseteq T BY <1>1, <1>2, Parts DEF Size
<1>4. CASE n \in T BY <1>1, <1>2, <1>3, <1>4, Parts DEF Size
<1>5. CASE n \notin T BY <1>1, <1>2, <1>3, <1>5 DEF Size
<1>6. QED BY <1>4, <1>5

\* The measure of the way down is a set of nodes.
LEMMA SizeType ==
  ASSUME NEW l, NEW T, NEW D, IsTree(l, T, D)
  PROVE  Size(T, D) \in [Node -> SUBSET Node] /\ T \subseteq Node
<1>1. T \subseteq Node BY DEF IsTree, Node
<1>2. ASSUME NEW n \in T PROVE D[n] \in SUBSET Node
  <2>1. n \in NodeOrNull BY <1>1 DEF NodeOrNull
  <2>2. QED BY <1>1, <2>1 DEF IsTree
<1>3. QED BY <1>1, <1>2 DEF Size

\* A subtree contains those of its nodes.
LEMMA Laminar ==
  ASSUME NEW l, NEW T, NEW D, IsTree(l, T, D), NEW n \in T, NEW x \in D[n]
  PROVE  x \in T /\ D[x] \subseteq D[n]
<1> DEFINE Good(m) == \A z \in D[m] : D[z] \subseteq D[m]
           B == {m \in T : ~Good(m)}
           C == [m \in T |-> D[m]]
<1>0. T \subseteq Node /\ IsFiniteSet(T)
  <2>1. T \subseteq Node BY DEF IsTree, Node
  <2>2. QED BY <2>1, Nodes, FS_Subset
<1>1. \A m \in T : m \in NodeOrNull /\ D[m] \subseteq T BY <1>0 DEF NodeOrNull, IsTree
<1>2. SUFFICES ASSUME B # {} PROVE FALSE BY <1>1
<1>3. PICK m \in B : \A k \in B : C[k] \subseteq C[m] => C[k] = C[m]
  <2>1. C \in [T -> SUBSET T] BY <1>1
  <2>2. B \in SUBSET T OBVIOUS
  <2> HIDE DEF B, C
  <2>3. QED BY <1>0, <1>2, <2>1, <2>2, LeastPlace
<1>4. PICK z \in D[m] : ~(D[z] \subseteq D[m]) OBVIOUS
<1>5. PICK s \in BOOLEAN : z \in D[Child(l, m, s)]
  <2>1. D[m] = {m} \cup D[Child(l, m, TRUE)] \cup D[Child(l, m, FALSE)] BY DEF IsTree
  <2>2. z # m BY <1>4
  <2>3. QED BY <2>1, <2>2
<1> DEFINE c == Child(l, m, s)
<1>6. c \in T \cup {Null} /\ D[c] \subseteq D[m] /\ m \in D[m] /\ m \notin D[c] BY Parts
<1>7. c \in T BY <1>5, <1>6 DEF IsTree
<1>8. Good(c) BY <1>3, <1>6, <1>7
<1>9. QED BY <1>4, <1>5, <1>6, <1>8

\* The outermost node of a subtree on one side.
LEMMA OutermostIs ==
  ASSUME NEW l, NEW T, NEW D, IsTree(l, T, D), NEW n \in T, NEW s \in BOOLEAN
  PROVE  LET y == Outermost(l, n, s)
         IN  /\ y \in D[n] /\ Child(l, y, s) = Null
             /\ \A z \in D[n] : z # y => On(~s, z, y)
<1> DEFINE Stop == {x \in Node : Child(l, x, s) = Null}
           next == [x \in Node |-> Child(l, x, s)]
           Down(f) == [x \in Node |-> IF Child(l, x, s) = Null THEN x ELSE f[Child(l, x, s)]]
           w == CHOOSE f : f = Down(f)
           I == {x \in D[n] : \A z \in D[n] : z \in D[x] \/ On(~s, z, x)}
<1>1. Outermost(l, n, s) = w[n] BY DEF Outermost
<1>2. ASSUME NEW f PROVE Down(f) = [x \in Node |-> IF x \in Stop THEN x ELSE f[next[x]]]
  OBVIOUS
<1>3. Size(T, D) \in [Node -> SUBSET Node] /\ T \subseteq Node BY SizeType
<1>4. Descends(Node, Node, Size(T, D), Stop, next)
  BY <1>3, DownIsSmaller, Nodes DEF Descends
<1>5. Follows(w, Node, Stop, next)
  <2> HIDE DEF Stop, next
  <2>1. PICK f : Follows(f, Node, Stop, next) BY <1>4, WalkExists
  <2>3. f = Down(f) BY <1>2, <2>1 DEF Follows
  <2>4. w = Down(w)
    <3> HIDE DEF Down
    <3>1. QED BY <2>3
  <2>5. QED BY <1>2, <2>4 DEF Follows
<1>6. D[n] \subseteq T /\ n \in D[n] BY Parts
<1>7. I \subseteq Node /\ n \in I BY <1>3, <1>6
<1>8. ASSUME NEW x \in I \ Stop PROVE next[x] \in I
  <2>1. x \in T /\ x \in Node /\ Child(l, x, s) # Null BY <1>6, <1>7
  <2> DEFINE c == Child(l, x, s)
  <2>2. /\ c \in T /\ D[c] \subseteq D[x]
        /\ \A z \in D[x] : z = x \/ z \in D[c] \/ z \in D[Child(l, x, ~s)]
        /\ \A z \in D[c] : On(s, z, x) /\ z \in Key
        /\ \A z \in D[Child(l, x, ~s)] : On(~s, z, x) /\ z \in Key
    BY <2>1, Parts
  <2>3. c \in D[c] BY <2>2, Parts
  <2>4. ASSUME NEW z \in D[n] PROVE z \in D[c] \/ On(~s, z, c)
    <3>1. z = x \/ z \in D[c] \/ On(~s, z, x) BY <2>2
    <3>2. z \in Int /\ x \in Int /\ c \in Int /\ On(s, c, x)
      BY <1>6, <2>1, <2>2, <2>3, Nodes DEF IsTree
    <3>3. QED BY <3>1, <3>2 DEF On
  <2>5. c \in D[n] BY <2>2, <2>3, Laminar
  <2>6. QED BY <2>1, <2>4, <2>5
<1>9. w[n] \in I /\ w[n] \in Stop
  <2> HIDE DEF w, Stop, next, I
  <2>1. QED BY <1>4, <1>5, <1>7, <1>8, Walk
<1>10. QED
  <2>1. w[n] \in T /\ w[n] \in D[n] /\ Child(l, w[n], s) = Null BY <1>6, <1>9
  <2>2. D[Null] = {} BY DEF IsTree
  <2>3. /\ \A z \in D[w[n]] : z = w[n] \/ z \in D[Child(l, w[n], s)] \/ z \in D[Child(l, w[n], ~s)]
        /\ \A z \in D[Child(l, w[n], ~s)] : On(~s, z, w[n])
    <3> HIDE DEF w
    <3>1. D[Child(l, w[n], s)] = {} BY <2>1, <2>2
    <3>2. QED BY <2>1, <3>1, Parts
  <2> HIDE DEF w
  <2>4. \A z \in D[n] : z # w[n] => On(~s, z, w[n]) BY <2>1, <2>2, <2>3, <1>9
  <2>5. QED BY <1>1, <2>1, <2>4

\* The keys z is compared with are on the same side of it as n.
Beside(lo, hi, n, z) == (hi < z /\ n < z) \/ (z < lo /\ z < n)

\* Where the search for a buffer ends: at a match if there is one, else at a
\* node that is next to where a match would be, with a free side there.
LEMMA SearchEnds ==
  ASSUME NEW l, NEW T, NEW D, IsTree(l, T, D), T # {}, NEW lo \in Key, NEW hi \in Key
  PROVE  LET n == FoundOrParent(l, lo, hi)
         IN  /\ n \in T
             /\ \/ lo <= n /\ n <= hi
                \/ /\ Child(l, n, hi < n) = Null
                   /\ hi < n \/ n < lo
                   /\ \A z \in T : z = n \/ Beside(lo, hi, n, z)
<1> DEFINE Stops(x) == (lo <= x /\ x <= hi) \/ Child(l, x, hi < x) = Null
           Stop == {x \in Node : Stops(x)}
           next == [x \in Node |-> Child(l, x, hi < x)]
           Down(f) == [x \in Node |-> IF Stops(x) THEN x ELSE f[Child(l, x, hi < x)]]
           w == CHOOSE f : f = Down(f)
           Aside(x) == \A z \in T \ D[x] : Beside(lo, hi, x, z)
           I == {x \in T : Aside(x)}
           r == l.right[Head]
<1>1. FoundOrParent(l, lo, hi) = w[r] BY DEF FoundOrParent
<1>2. ASSUME NEW f PROVE Down(f) = [x \in Node |-> IF x \in Stop THEN x ELSE f[next[x]]]
  OBVIOUS
<1>3. Size(T, D) \in [Node -> SUBSET Node] /\ T \subseteq Node BY SizeType
<1>4. Descends(Node, Node, Size(T, D), Stop, next)
  <2>1. \A x \in Node : (hi < x) \in BOOLEAN OBVIOUS
  <2>2. ASSUME NEW x \in Node, Child(l, x, hi < x) # Null
        PROVE  /\ Child(l, x, hi < x) \in Node
               /\ Size(T, D)[Child(l, x, hi < x)] \subseteq Size(T, D)[x]
               /\ Size(T, D)[Child(l, x, hi < x)] # Size(T, D)[x]
    <3> DEFINE b == hi < x
    <3>1. b \in BOOLEAN /\ Child(l, x, b) # Null BY <2>1, <2>2
    <3> HIDE DEF b
    <3>2. /\ Child(l, x, b) \in Node
          /\ Size(T, D)[Child(l, x, b)] \subseteq Size(T, D)[x]
          /\ Size(T, D)[Child(l, x, b)] # Size(T, D)[x]
      BY <3>1, DownIsSmaller
    <3>3. QED BY <3>2 DEF b
  <2>3. QED BY <1>3, <2>2, Nodes DEF Descends
<1>5. Follows(w, Node, Stop, next)
  <2> HIDE DEF Stop, next
  <2>1. PICK f : Follows(f, Node, Stop, next) BY <1>4, WalkExists
  <2>2. f = Down(f) BY <1>2, <2>1 DEF Follows
  <2>3. w = Down(w)
    <3> HIDE DEF Down
    <3>1. QED BY <2>2
  <2>4. QED BY <1>2, <2>3 DEF Follows
<1>6. r \in I
  <2>1. Head \in Node /\ FALSE \in BOOLEAN BY DEF Node
  <2>2. Child(l, Head, FALSE) \in T \cup {Null} BY <2>1 DEF IsTree
  <2>3. r \in T \cup {Null} /\ D[r] = T /\ D[Null] = {} BY <2>2 DEF Child, IsTree
  <2>4. QED BY <2>3
<1>7. ASSUME NEW x \in I \ Stop PROVE next[x] \in I
  <2> DEFINE s == hi < x
             c == Child(l, x, s)
  <2>1. x \in T /\ x \in Node /\ c # Null /\ ~(lo <= x /\ x <= hi) /\ Aside(x)
    BY <1>3
  <2>2. s \in BOOLEAN OBVIOUS
  <2>3. /\ c \in T /\ D[c] \subseteq D[x] /\ x \in Key
        /\ \A z \in D[x] : z = x \/ z \in D[c] \/ z \in D[Child(l, x, ~s)]
        /\ \A z \in D[c] : On(s, z, x) /\ z \in Key
        /\ \A z \in D[Child(l, x, ~s)] : On(~s, z, x) /\ z \in Key
    <3> HIDE DEF s
    <3>1. QED BY <2>1, <2>2, Parts
  <2>4. c \in D[c] /\ x \in D[x] BY <2>1, <2>3, Self
  <2>5. ASSUME NEW z \in T \ D[c] PROVE Beside(lo, hi, c, z)
    <3>1. z \in Int /\ x \in Int /\ c \in Int /\ lo \in Int /\ hi \in Int
      BY <2>3, Nodes DEF IsTree
    <3>2. On(s, c, x) /\ (hi < x \/ x < lo) BY <2>1, <2>3, <2>4, <3>1
    <3>3. CASE z \in D[x]
      <4>1. z = x \/ On(~s, z, x) BY <2>3, <3>3
      <4>2. QED BY <3>1, <3>2, <4>1 DEF On, Beside
    <3>4. CASE z \notin D[x]
      <4>1. (\A y \in D[x] : z < y) \/ (\A y \in D[x] : y < z) BY <2>1, <3>4, Convex
      <4>2. (z < c /\ z < x) \/ (c < z /\ x < z) BY <2>3, <2>4, <4>1
      <4>3. Beside(lo, hi, x, z) BY <2>1, <3>4
      <4>4. QED BY <3>1, <4>2, <4>3 DEF Beside
    <3>5. QED BY <3>3, <3>4
  <2>6. QED BY <2>1, <2>3, <2>5
<1>8. w[r] \in I /\ w[r] \in Stop
  <2> HIDE DEF w, Stop, next, I, r
  <2>1. I \in SUBSET Node BY <1>3 DEF I
  <2>2. QED BY <2>1, <1>4, <1>5, <1>6, <1>7, Walk
<1> DEFINE n == w[r]
<1>9. n \in T /\ n \in Node /\ Aside(n) BY <1>3, <1>8
<1>10. ASSUME ~(lo <= n /\ n <= hi)
       PROVE  /\ Child(l, n, hi < n) = Null
              /\ hi < n \/ n < lo
              /\ \A z \in T : z = n \/ Beside(lo, hi, n, z)
  <2> DEFINE s == hi < n
  <2>1. Child(l, n, s) = Null BY <1>8, <1>10
  <2> HIDE DEF w
  <2>2. n \in Int /\ lo \in Int /\ hi \in Int BY <1>9, Nodes DEF IsTree
  <2>3. hi < n \/ n < lo BY <1>10, <2>2
  <2>4. s \in BOOLEAN OBVIOUS
  <2>5. D[Child(l, n, s)] = {} BY <2>1 DEF IsTree
  <2>6. /\ \A z \in D[n] : z = n \/ z \in D[Child(l, n, s)] \/ z \in D[Child(l, n, ~s)]
        /\ \A z \in D[Child(l, n, ~s)] : On(~s, z, n) /\ z \in Key
    <3> HIDE DEF s, n
    <3>1. QED BY <1>9, <2>4, Parts
  <2>7. ASSUME NEW z \in T, z # n PROVE Beside(lo, hi, n, z)
    <3>1. CASE z \in D[n]
      <4>1. On(~s, z, n) /\ z \in Int BY <2>5, <2>6, <2>7, <3>1, Nodes
      <4>2. QED BY <2>2, <2>3, <4>1 DEF On, Beside
    <3>2. CASE z \notin D[n] BY <1>9, <3>2
    <3>3. QED BY <3>1, <3>2
  <2>8. QED BY <2>1, <2>3, <2>7
<1>11. QED BY <1>1, <1>9, <1>10

\* An element is found.
LEMMA SearchFinds ==
  ASSUME NEW l, NEW T, NEW D, IsTree(l, T, D), NEW k \in T
  PROVE  FoundOrParent(l, k, k) = k
<1>1. k \in Key /\ k \in Int BY Nodes DEF IsTree
<1>2. DEFINE n == FoundOrParent(l, k, k)
<1>3. n \in T /\ ((k <= n /\ n <= k) \/ k = n \/ Beside(k, k, n, k)) BY <1>1, SearchEnds
<1>4. n \in Int BY <1>3, Nodes DEF IsTree
<1>5. QED BY <1>1, <1>3, <1>4 DEF Beside

\* The nodes at which a way up ends that follows side s, and its steps.
ClimbStop(l, s) == {x \in Linked(l) : Child(l, l.parent[x], s) # x}
ClimbNext(l) == [x \in Linked(l) |-> l.parent[x]]
Climb(l, s, f) ==
  [x \in Linked(l) |-> IF Child(l, l.parent[x], s) = x THEN f[l.parent[x]] ELSE x]

\* The header is nobody's child.
LEMMA HeadIsTop ==
  ASSUME NEW l, NEW T, NEW D, IsTree(l, T, D), NEW o \in BOOLEAN
  PROVE  Child(l, l.parent[Head], o) # Head
<1>1. l.parent[Head] = Head /\ Head \notin T BY Nodes DEF IsTree
<1>2. Head \in Node /\ Head # Null BY Nodes DEF Node
<1>3. Child(l, Head, o) \in T \cup {Null} BY <1>2 DEF IsTree
<1>4. QED BY <1>1, <1>2, <1>3

\* The way up makes what is left above smaller.
LEMMA ClimbDescends ==
  ASSUME NEW l, NEW T, NEW D, IsTree(l, T, D), Linked(l) = T \cup {Head}, NEW s \in BOOLEAN
  PROVE  \E M : Descends(Linked(l), Node, M, ClimbStop(l, s), ClimbNext(l))
<1> DEFINE S == Linked(l)
           Stop == ClimbStop(l, s)
           next == ClimbNext(l)
           M == [x \in S |-> IF x = Head THEN {} ELSE (T \cup {Head}) \ D[x]]
<1>1. T \subseteq Node /\ Head \notin T BY Nodes DEF IsTree, Node
<1>2. IsFiniteSet(S) /\ IsFiniteSet(Node)
  <2>1. S \subseteq Node BY DEF Linked
  <2>2. QED BY <2>1, Nodes, FS_Subset
<1>3. M \in [S -> SUBSET Node] BY <1>1 DEF Node
<1>4. ASSUME NEW x \in S \ Stop
      PROVE  next[x] \in S /\ M[next[x]] \subseteq M[x] /\ M[next[x]] # M[x]
  <2>1. x \in T /\ x # Head /\ next[x] = l.parent[x]
    <3>1. x # Head BY <1>4, HeadIsTop DEF ClimbStop
    <3>2. QED BY <3>1 DEF ClimbNext
  <2>2. CASE l.parent[x] = Head
    <3>1. Head \in M[x]
      <4>1. D[x] \subseteq T BY <2>1, Self
      <4>2. QED BY <1>1, <2>1, <4>1
    <3>2. next[x] = Head /\ Head \in S /\ M[Head] = {} BY <2>1, <2>2
    <3>3. QED BY <3>1, <3>2
  <2>3. CASE l.parent[x] \in T
    <3>1. next[x] = l.parent[x] /\ next[x] \in S /\ next[x] # Head BY <1>1, <2>1, <2>3
    <3>2. /\ D[x] \subseteq D[l.parent[x]] /\ l.parent[x] \in D[l.parent[x]]
          /\ l.parent[x] \notin D[x]
      BY <2>1, <2>3, Up
    <3>3. M[x] = (T \cup {Head}) \ D[x] /\ M[next[x]] = (T \cup {Head}) \ D[l.parent[x]]
      BY <2>1, <3>1
    <3>4. QED BY <2>3, <3>1, <3>2, <3>3
  <2>4. l.parent[x] = Head \/ l.parent[x] \in T
    <3> HIDE DEF S, M, Stop, next
    <3>1. QED BY <2>1, Up
  <2>5. QED BY <2>2, <2>3, <2>4
<1> HIDE DEF S, M, Stop, next
<1>5. Descends(S, Node, M, Stop, next) BY <1>2, <1>3, <1>4 DEF Descends
<1>6. QED BY <1>5 DEF S, Stop, next

\* So there is a function that climbs, and the one chosen does.
LEMMA Climbs ==
  ASSUME NEW l, NEW T, NEW D, IsTree(l, T, D), Linked(l) = T \cup {Head}, NEW s \in BOOLEAN
  PROVE  Follows(CHOOSE f : f = Climb(l, s, f), Linked(l), ClimbStop(l, s), ClimbNext(l))
<1> DEFINE w == CHOOSE f : f = Climb(l, s, f)
<1>1. ASSUME NEW f
      PROVE  Climb(l, s, f) =
               [x \in Linked(l) |-> IF x \in ClimbStop(l, s) THEN x ELSE f[ClimbNext(l)[x]]]
  BY DEF Climb, ClimbStop, ClimbNext
<1>2. PICK f : Follows(f, Linked(l), ClimbStop(l, s), ClimbNext(l))
  <2>1. PICK M : Descends(Linked(l), Node, M, ClimbStop(l, s), ClimbNext(l))
    BY ClimbDescends
  <2>2. QED BY <2>1, WalkExists
<1>3. f = Climb(l, s, f) BY <1>1, <1>2 DEF Follows
<1>4. w = Climb(l, s, w) BY <1>3
<1> HIDE DEF w
<1>5. Follows(w, Linked(l), ClimbStop(l, s), ClimbNext(l)) BY <1>1, <1>4 DEF Follows
<1>6. QED BY <1>5 DEF w

\* The neighbour of a node on one side.  The predecessor of the first node is
\* the header, the last one has no successor.  Below a child it is an end.
LEMMA NeighbourIs ==
  ASSUME NEW l, NEW T, NEW D, IsTree(l, T, D), Linked(l) = T \cup {Head},
         NEW n \in T, NEW s \in BOOLEAN
  PROVE  LET r == Neighbour(l, n, s)
         IN  /\ \/ /\ r \in T /\ On(s, r, n)
                   /\ \A z \in T : On(s, z, n) => z = r \/ On(s, z, r)
                \/ /\ r = IF s THEN Head ELSE Null
                   /\ \A z \in T : ~On(s, z, n)
             /\ Child(l, n, s) # Null =>
                  r \in D[Child(l, n, s)] /\ Child(l, r, ~s) = Null
<1> DEFINE r == Neighbour(l, n, s)
           c == Child(l, n, s)
<1>1. T \subseteq Node /\ T \subseteq Int /\ Head \notin T BY Nodes DEF IsTree, Node
<1>2. CASE c # Null
  <2>1. /\ c \in T /\ D[c] \subseteq D[n] /\ n \in D[n] /\ D[n] \subseteq T
        /\ \A z \in D[n] : z = n \/ z \in D[c] \/ z \in D[Child(l, n, ~s)]
        /\ \A z \in D[c] : On(s, z, n)
        /\ \A z \in D[Child(l, n, ~s)] : On(~s, z, n) /\ z \in Key
    BY <1>2, Parts
  <2>2. r = Outermost(l, c, ~s) BY <1>2 DEF Neighbour
  <2>3. /\ r \in D[c] /\ Child(l, r, ~s) = Null
        /\ \A z \in D[c] : z # r => On(s, z, r)
    <3> DEFINE o == ~s
    <3>1. o \in BOOLEAN /\ ~o = s OBVIOUS
    <3>2. c \in T BY <2>1
    <3> HIDE DEF o, c
    <3>3. LET y == Outermost(l, c, o)
          IN  /\ y \in D[c] /\ Child(l, y, o) = Null
              /\ \A z \in D[c] : z # y => On(~o, z, y)
      BY <3>1, <3>2, OutermostIs
    <3>4. QED BY <2>2, <3>1, <3>3 DEF o
  <2> HIDE DEF r, c
  <2>4. r \in T /\ On(s, r, n) BY <2>1, <2>3
  <2>5. ASSUME NEW z \in T, On(s, z, n) PROVE z = r \/ On(s, z, r)
    <3>1. z \in Int /\ n \in Int /\ r \in Int BY <1>1, <2>4
    <3>2. CASE z \in D[c] BY <2>3, <3>2
    <3>3. CASE z \in D[n] \ D[c]
      <4>1. z = n \/ On(~s, z, n) BY <2>1, <3>3
      <4>2. QED BY <2>5, <3>1, <4>1 DEF On
    <3>4. CASE z \notin D[n]
      <4>1. (\A y \in D[n] : z < y) \/ (\A y \in D[n] : y < z) BY <3>4, Convex
      <4>2. r \in D[n] BY <2>1, <2>3
      <4>3. QED BY <2>1, <2>4, <2>5, <3>1, <4>1, <4>2 DEF On
    <3>5. QED BY <3>2, <3>3, <3>4
  <2>6. QED BY <2>3, <2>4, <2>5 DEF r, c
<1>3. CASE c = Null
  <2> DEFINE IsChild(x, left) == Child(l, l.parent[x], left) = x
             S == Linked(l)
             Stop == ClimbStop(l, s)
             next == ClimbNext(l)
             w == CHOOSE f : f = Climb(l, s, f)
             Below(x) == IF x = Head THEN T ELSE D[x]
             I == {x \in S : /\ n \in Below(x) /\ \A z \in Below(x) : ~On(s, z, n)
                             /\ s => x # Head}
  <2>1. r = IF IsChild(w[n], ~s) THEN l.parent[w[n]] ELSE Null
    BY <1>3 DEF Neighbour, Climb
  <2>2. PICK M : Descends(S, Node, M, Stop, next) BY ClimbDescends
  <2>3. ASSUME NEW o \in BOOLEAN PROVE ~IsChild(Head, o) BY HeadIsTop
  <2>4. Follows(w, S, Stop, next) BY Climbs
  <2>5. /\ Stop = {x \in S : ~IsChild(x, s)}
        /\ \A x \in S : next[x] = l.parent[x]
    BY DEF ClimbStop, ClimbNext
  <2> HIDE DEF Stop, next
  <2>6. n \in I
    <3>1. n # Head /\ n \in D[n] BY <1>1, Self
    <3>2. D[c] = {} BY <1>3 DEF IsTree
    <3>3. \A z \in D[n] : z = n \/ (On(~s, z, n) /\ z \in Key)
      <4>1. /\ \A z \in D[n] : z = n \/ z \in D[c] \/ z \in D[Child(l, n, ~s)]
            /\ \A z \in D[Child(l, n, ~s)] : On(~s, z, n) /\ z \in Key
        BY Parts
      <4>2. QED BY <3>2, <4>1
    <3>4. ASSUME NEW z \in D[n] PROVE ~On(s, z, n)
      <4>1. n \in Int /\ z \in Int BY <1>1, <3>3, Nodes
      <4>2. z = n \/ On(~s, z, n) BY <3>3
      <4> HIDE DEF S, I
      <4>3. QED BY <4>1, <4>2 DEF On
    <3>5. QED BY <3>1, <3>4
  <2>7. ASSUME NEW x \in I \ Stop PROVE next[x] \in I
    <3>1. x \in T /\ x # Head /\ IsChild(x, s) BY <1>1, <2>3, <2>5
    <3>2. n \in D[x] /\ \A z \in D[x] : ~On(s, z, n) BY <3>1
    <3>3. next[x] = l.parent[x] /\ x \in S BY <2>5
    <3>4. CASE l.parent[x] = Head
      <4>1. ~s BY <3>1, <3>4, Nodes DEF IsTree, Child
      <4>2. D[x] = T BY <3>1, <3>4, Up
      <4>3. QED BY <3>2, <3>3, <3>4, <4>1, <4>2
    <3>5. CASE l.parent[x] \in T
      <4> DEFINE p == l.parent[x]
      <4>1. Child(l, p, s) = x BY <3>1
      <4>2. /\ \A z \in D[p] : z = p \/ z \in D[Child(l, p, s)] \/ z \in D[Child(l, p, ~s)]
            /\ \A z \in D[Child(l, p, s)] : On(s, z, p) /\ z \in Key
            /\ \A z \in D[Child(l, p, ~s)] : On(~s, z, p) /\ z \in Key
            /\ D[Child(l, p, s)] \subseteq D[p]
        BY <3>5, Parts
      <4>3. On(s, n, p) /\ n \in Int /\ p \in Int BY <1>1, <3>2, <3>5, <4>1, <4>2
      <4>4. ASSUME NEW z \in D[p] PROVE ~On(s, z, n)
        <5>1. z = p \/ z \in D[x] \/ (On(~s, z, p) /\ z \in Int) BY <4>1, <4>2, Nodes
        <5>2. QED BY <3>2, <4>3, <5>1 DEF On
      <4>5. p # Head /\ n \in D[p] BY <1>1, <3>2, <3>5, <4>1, <4>2
      <4>6. QED BY <3>3, <3>5, <4>4, <4>5
    <3>6. QED BY <3>1, <3>4, <3>5, Up
  <2>8. w[n] \in I /\ w[n] \in Stop
    <3> HIDE DEF S, I, w
    <3>1. I \in SUBSET S BY DEF I
    <3>2. QED BY <2>2, <2>4, <2>6, <2>7, <3>1, Walk
  <2> DEFINE y == w[n]
  <2>9. y \in T \cup {Head} /\ ~IsChild(y, s) /\ n \in Below(y)
        /\ (\A z \in Below(y) : ~On(s, z, n)) /\ (s => y # Head)
    <3> HIDE DEF w
    <3>1. QED BY <2>5, <2>8 DEF Linked
  <2> HIDE DEF w, r
  <2>10. CASE y = Head
    <3>1. r = Null BY <2>1, <2>3, <2>10
    <3>2. QED BY <1>3, <2>9, <2>10, <3>1 DEF r
  <2>11. CASE y \in T
    <3> DEFINE p == l.parent[y]
    <3>1. \E o \in BOOLEAN : Child(l, p, o) = y BY <2>11, Up
    <3>2. IsChild(y, ~s)
      <4>1. \A o \in BOOLEAN : o = s \/ o = ~s OBVIOUS
      <4>2. QED BY <2>9, <3>1, <4>1
    <3>3. r = p BY <2>1, <3>2
    <3>4. y # Head /\ n \in D[y] /\ \A z \in D[y] : ~On(s, z, n) BY <1>1, <2>9, <2>11
    <3>5. CASE p = Head
      <4>1. s BY <3>2, <3>5, <2>11, <3>4, Nodes DEF IsTree, Child
      <4>2. D[y] = T BY <2>11, <3>5, Up
      <4>3. QED BY <1>3, <3>3, <3>4, <3>5, <4>1, <4>2 DEF r
    <3>6. CASE p \in T
      <4>1. /\ \A z \in D[p] : z = p \/ z \in D[y] \/ z \in D[Child(l, p, s)]
            /\ \A z \in D[y] : On(~s, z, p) /\ z \in Key
            /\ \A z \in D[Child(l, p, s)] : On(s, z, p) /\ z \in Key
            /\ D[y] \subseteq D[p]
        <5>1. Child(l, p, ~s) = y BY <3>2
        <5>2. QED BY SMTT(30), <3>6, <5>1, Parts
      <4>2. On(s, p, n) /\ n \in Int /\ p \in Int BY <1>1, <3>4, <3>6, <4>1 DEF On
      <4>3. ASSUME NEW z \in T, On(s, z, n) PROVE z = p \/ On(s, z, p)
        <5>1. z \notin D[y] BY <3>4, <4>3
        <5>2. CASE z \in D[p] BY <4>1, <5>1, <5>2
        <5>3. CASE z \notin D[p]
          <6>1. (\A x \in D[p] : z < x) \/ (\A x \in D[p] : x < z) BY <3>6, <5>3, Convex
          <6>2. p \in D[p] /\ n \in D[p] BY <3>4, <3>6, <4>1, Self
          <6>3. QED BY <1>1, <4>2, <4>3, <6>1, <6>2 DEF On
        <5>4. QED BY <5>2, <5>3
      <4>4. QED BY <1>3, <3>3, <3>6, <4>2, <4>3 DEF r
    <3>7. QED BY <2>11, <3>5, <3>6, Up
  <2>12. QED BY <2>9, <2>10, <2>11
<1>4. QED BY <1>2, <1>3

-----------------------------------------------------------------------------
(* What the operators that relink nodes do.                                *)

\* m is l with c below p on side s.
Hangs(m, l, p, s, c) ==
  /\ m \in Links /\ m.balance = l.balance
  /\ \A n \in Node, o \in BOOLEAN :
       Child(m, n, o) = IF n = p /\ o = s THEN c ELSE Child(l, n, o)
  /\ \A n \in Node : m.parent[n] = IF n = c THEN p ELSE l.parent[n]

\* RtlInsertAsLeftChild and RtlInsertAsRightChild, of a node that may be null, change
\* one link down and one link up.
LEMMA AttachLinks ==
  ASSUME NEW l \in Links, NEW p \in Node, NEW s \in BOOLEAN, NEW c \in NodeOrNull
  PROVE  Hangs(Attach(l, p, s, c), l, p, s, c)
<1> DEFINE m == SetChild(l, p, s, c)
<1>1. Null \notin Node BY Nodes
<1>2. /\ m \in Links /\ m.balance = l.balance /\ m.parent = l.parent
      /\ m.left = IF s THEN [l.left EXCEPT ![p] = c] ELSE l.left
      /\ m.right = IF s THEN l.right ELSE [l.right EXCEPT ![p] = c]
  <2>1. CASE s BY <2>1 DEF Links, SetChild
  <2>2. CASE ~s BY <2>2 DEF Links, SetChild
  <2>3. QED BY <2>1, <2>2
<1>3. l.left \in [Node -> NodeOrNull] /\ l.right \in [Node -> NodeOrNull] BY DEF Links
<1>4. ASSUME NEW n \in Node, NEW o \in BOOLEAN
      PROVE  Child(m, n, o) = IF n = p /\ o = s THEN c ELSE Child(l, n, o)
  <2> HIDE DEF m
  <2>1. CASE s BY <1>2, <1>3, <2>1 DEF Child
  <2>2. CASE ~s BY <1>2, <1>3, <2>2 DEF Child
  <2>3. QED BY <2>1, <2>2
<1>5. Attach(l, p, s, c) = IF c = Null THEN m ELSE [m EXCEPT !.parent[c] = p]
  BY DEF Attach
<1>6. CASE c = Null
  <2>2. \A n \in Node : m.parent[n] = IF n = c THEN p ELSE l.parent[n] BY <1>1, <1>2, <1>6
  <2>3. m \in Links /\ m.balance = l.balance BY <1>2
  <2> HIDE DEF m
  <2>4. Hangs(m, l, p, s, c) BY <1>4, <2>2, <2>3 DEF Hangs
  <2>5. Attach(l, p, s, c) = m BY <1>6, <1>5
  <2>6. QED BY <2>4, <2>5
<1>7. CASE c # Null
  <2> DEFINE w == [m EXCEPT !.parent[c] = p]
  <2>2. c \in Node /\ p \in NodeOrNull BY <1>7 DEF NodeOrNull
  <2>7. m \in Links BY <1>2
  <2> HIDE DEF m
  <2>1. Attach(l, p, s, c) = w BY <1>7, <1>5
  <2>3. /\ w \in Links /\ w.balance = m.balance /\ w.left = m.left /\ w.right = m.right
        /\ w.parent = [m.parent EXCEPT ![c] = p]
    BY <2>2, <2>7 DEF Links
  <2> HIDE DEF w
  <2>4. \A n \in Node : w.parent[n] = IF n = c THEN p ELSE l.parent[n]
    BY <1>2, <2>3 DEF Links
  <2>5. \A n \in Node, o \in BOOLEAN : Child(w, n, o) = Child(m, n, o) BY <2>3 DEF Child
  <2>6. QED BY <1>2, <1>4, <2>1, <2>3, <2>4, <2>5 DEF Hangs
<1>8. QED BY <1>6, <1>7

\* A node is a child on one side only.
LEMMA OneSide ==
  ASSUME NEW l, NEW T, NEW D, IsTree(l, T, D), NEW n \in T, NEW s \in BOOLEAN,
         Child(l, l.parent[n], s) = n
  PROVE  /\ IsLeftChild(l, n) = s /\ IsRightChild(l, n) = ~s
         /\ Child(l, l.parent[n], ~s) # n
<1> DEFINE p == l.parent[n]
<1>1. Child(l, p, ~s) # n
  <2>1. CASE p = Head
    <3>1. n # Null BY Nodes, Self
    <3>2. l.left[Head] = Null BY DEF IsTree
    <3>3. ~s BY <2>1, <3>1, <3>2 DEF Child
    <3>4. QED BY <2>1, <3>1, <3>2, <3>3 DEF Child
  <2>2. CASE p \in T
    <3>1. \A x \in D[Child(l, p, s)] : On(s, x, p) /\ x \in Key BY <2>2, Parts
    <3>2. \A x \in D[Child(l, p, ~s)] : On(~s, x, p) /\ x \in Key
      <4>1. D[Child(l, p, s)] = D[Child(l, p, s)] OBVIOUS
      <4>2. QED BY <2>2, <4>1, Parts
    <3>3. n \in D[n] /\ n \in Int /\ p \in Int BY <2>2, Self
    <3>4. QED BY <3>1, <3>2, <3>3 DEF On
  <2>3. QED BY <2>1, <2>2, Up
<1>2. CASE s = TRUE BY <1>1, <1>2 DEF IsLeftChild, IsRightChild, Child
<1>3. CASE s = FALSE BY <1>1, <1>3 DEF IsLeftChild, IsRightChild, Child
<1>4. QED BY <1>1, <1>2, <1>3

\* RtlpPromoteAvlTreeNode changes three links down and three up (avlsupp.c 99-123).
LEMMA PromoteLinks ==
  ASSUME NEW l, NEW T, NEW D, IsTree(l, T, D), NEW n \in T,
         NEW p \in T, l.parent[n] = p, NEW super, l.parent[p] = super,
         NEW s \in BOOLEAN, Child(l, p, s) = n, NEW u \in BOOLEAN, Child(l, super, u) = p
  PROVE  LET m == Promote(l, n)
         IN  /\ m \in Links /\ m.balance = l.balance
             /\ n # p /\ super # p /\ super # n
             /\ \A x \in Node, o \in BOOLEAN :
                  Child(m, x, o) = IF x = p /\ o = s THEN Child(l, n, ~s)
                                   ELSE IF x = n /\ o = ~s THEN p
                                   ELSE IF x = super /\ o = u THEN n
                                   ELSE Child(l, x, o)
             /\ \A x \in Node :
                  m.parent[x] = IF x = n THEN super
                                ELSE IF x = p THEN n
                                ELSE IF x = Child(l, n, ~s) THEN p
                                ELSE l.parent[x]
<1>1. PICK e \in BOOLEAN : e = ~s OBVIOUS
<1> DEFINE inner == Child(l, n, e)
           hung == Attach(l, p, s, inner)
           turned == Attach(hung, n, e, p)
           m == Attach(turned, super, u, n)
<1>2. l \in Links BY DEF IsTree
<1>3. n # p /\ super # p /\ super # n /\ super \in T \cup {Head}
  <2>1. super \in T \cup {Head} BY Up
  <2>2. p \notin D[n] /\ D[n] \subseteq D[p] BY Up
  <2>3. n # p /\ n # Head /\ p # Head /\ n \in D[n] BY <2>2, Self
  <2>4. CASE super = Head BY <2>3, <2>4
  <2>5. CASE super \in T
    <3>1. super \notin D[p] /\ p \in D[p] BY <2>5, Up, Self
    <3>2. QED BY <2>2, <2>3, <2>5, <3>1
  <2>6. QED BY <2>1, <2>4, <2>5
<1>4. /\ n \in Node /\ p \in Node /\ super \in Node
      /\ n \in NodeOrNull /\ p \in NodeOrNull /\ n # Null /\ p # Null
  <2>1. Head \in Node BY DEF Node
  <2>2. QED BY <1>3, <2>1, Self
<1>5. inner \in NodeOrNull /\ inner # n /\ inner # p
  <2>1. inner \in T \cup {Null} /\ n \notin D[inner] /\ D[inner] \subseteq D[n] BY Parts
  <2>2. p \notin D[n] BY Up
  <2>3. inner \in T => inner \in D[inner] /\ inner \in NodeOrNull BY Self
  <2>4. QED BY <1>4, <2>1, <2>2, <2>3 DEF NodeOrNull
<1>6. Hangs(hung, l, p, s, inner)
  <2> HIDE DEF inner
  <2>1. QED BY <1>2, <1>4, <1>5, AttachLinks
<1>7. /\ hung \in Links /\ hung.balance = l.balance
      /\ \A x \in Node, o \in BOOLEAN :
           Child(hung, x, o) = IF x = p /\ o = s THEN inner ELSE Child(l, x, o)
      /\ \A x \in Node : hung.parent[x] = IF x = inner THEN p ELSE l.parent[x]
  BY <1>6 DEF Hangs
<1>8. Hangs(turned, hung, n, e, p)
  <2> HIDE DEF inner, hung
  <2>1. QED BY <1>4, <1>7, AttachLinks
<1>9. /\ turned \in Links /\ turned.balance = hung.balance
      /\ \A x \in Node, o \in BOOLEAN :
           Child(turned, x, o) = IF x = n /\ o = e THEN p ELSE Child(hung, x, o)
      /\ \A x \in Node : turned.parent[x] = IF x = p THEN n ELSE hung.parent[x]
  BY <1>8 DEF Hangs
<1>10. Hangs(m, turned, super, u, n)
  <2> HIDE DEF inner, hung, turned
  <2>1. QED BY <1>4, <1>9, AttachLinks
<1>11. /\ m \in Links /\ m.balance = turned.balance
       /\ \A x \in Node, o \in BOOLEAN :
            Child(m, x, o) = IF x = super /\ o = u THEN n ELSE Child(turned, x, o)
       /\ \A x \in Node : m.parent[x] = IF x = n THEN super ELSE turned.parent[x]
  BY <1>10 DEF Hangs
<1>12. Promote(l, n) = m
  <2>1. IsLeftChild(l, n) = s BY OneSide
  <2>2. (turned.left[super] = p) = u
    <3>1. Child(turned, super, TRUE) = Child(l, super, TRUE)
      <4> HIDE DEF inner, hung, turned
      <4>1. QED BY <1>3, <1>4, <1>7, <1>9
    <3>2. IsLeftChild(l, p) = u BY OneSide
    <3>3. QED BY <3>1, <3>2 DEF Child, IsLeftChild
  <2>3. QED BY <1>1, <2>1, <2>2 DEF Promote
<1> HIDE DEF inner, hung, turned, m
<1>13. ASSUME NEW x \in Node, NEW o \in BOOLEAN
      PROVE  Child(m, x, o) = IF x = p /\ o = s THEN inner
                               ELSE IF x = n /\ o = ~s THEN p
                               ELSE IF x = super /\ o = u THEN n
                               ELSE Child(l, x, o)
  BY <1>1, <1>3, <1>7, <1>9, <1>11
<1>14. ASSUME NEW x \in Node
       PROVE  m.parent[x] = IF x = n THEN super ELSE IF x = p THEN n
                            ELSE IF x = inner THEN p ELSE l.parent[x]
  BY <1>7, <1>9, <1>11
<1>15. inner = Child(l, n, ~s) BY <1>1 DEF inner
<1>16. QED BY <1>3, <1>12, <1>7, <1>9, <1>11, <1>13, <1>14, <1>15

\* There are two sides.
LEMMA EitherSide ==
  ASSUME NEW s \in BOOLEAN, NEW o \in BOOLEAN
  PROVE  (o = s \/ o = ~s) /\ ~(o = s /\ o = ~s) /\ ~(~s) = s
OBVIOUS

\* The order of the keys is one on each side.
LEMMA Sided ==
  ASSUME NEW s \in BOOLEAN, NEW x \in Int, NEW y \in Int
  PROVE  /\ ~(On(s, x, y) /\ On(~s, x, y)) /\ (On(s, x, y) <=> On(~s, y, x))
         /\ x = y \/ On(s, x, y) \/ On(~s, x, y)
         /\ \A z \in Int : On(s, x, y) /\ On(s, y, z) => On(s, x, z)
         /\ \A z \in Int : On(~s, x, y) /\ On(~s, y, z) => On(~s, x, z)
BY DEF On

\* A rotation keeps the tree and its order.
LEMMA PromoteTree ==
  ASSUME NEW l, NEW T, NEW D, IsTree(l, T, D), NEW n \in T, l.parent[n] \in T
  PROVE  \E E : IsTree(Promote(l, n), T, E)
<1> DEFINE p == l.parent[n]
           super == l.parent[p]
           m == Promote(l, n)
<1>1. PICK s \in BOOLEAN : Child(l, p, s) = n BY Up
<1>2. PICK u \in BOOLEAN : Child(l, super, u) = p BY Up
<1>3. p \in T /\ super \in T \cup {Head} BY Up
<1> DEFINE inner == Child(l, n, ~s)
           outer == Child(l, n, s)
           other == Child(l, p, ~s)
           E == [D EXCEPT ![n] = D[p], ![p] = {p} \cup D[inner] \cup D[other]]
<1> HIDE DEF p, super, m
<1>4. /\ m \in Links /\ n # p /\ super # p /\ super # n
      /\ \A x \in Node, o \in BOOLEAN :
           Child(m, x, o) = IF x = p /\ o = s THEN inner
                            ELSE IF x = n /\ o = ~s THEN p
                            ELSE IF x = super /\ o = u THEN n
                            ELSE Child(l, x, o)
      /\ \A x \in Node : m.parent[x] = IF x = n THEN super ELSE IF x = p THEN n
                                      ELSE IF x = inner THEN p ELSE l.parent[x]
  BY <1>1, <1>2, <1>3, PromoteLinks DEF p, super, m
<1>5. /\ n \in Node /\ p \in Node /\ super \in Node /\ n # Null /\ p # Null
      /\ n \in Int /\ p \in Int /\ Head # n /\ Head # p /\ T \subseteq Node
      /\ Head \in Node /\ T \subseteq Key /\ T \subseteq Int
  BY <1>3, Self, Nodes DEF Node, IsTree
<1>6. /\ D[n] = {n} \cup D[outer] \cup D[inner] /\ n \notin D[inner]
      /\ D[inner] \subseteq D[n] /\ D[n] \subseteq T
      /\ \A x \in D[outer] : On(s, x, n) /\ x \in Key
      /\ \A x \in D[inner] : On(~s, x, n) /\ x \in Key
      /\ outer \in T \cup {Null} /\ inner \in T \cup {Null}
  <2>1. D[n] = {n} \cup D[outer] \cup D[inner] BY DEF IsTree
  <2>2. QED BY <2>1, Parts
<1>7. /\ D[p] = {p} \cup D[n] \cup D[other] /\ D[p] \subseteq T
      /\ \A x \in D[n] : On(s, x, p) /\ x \in Key
      /\ \A x \in D[other] : On(~s, x, p) /\ x \in Key
      /\ other \in T \cup {Null} /\ p \notin D[n]
  <2>1. D[p] = {p} \cup D[n] \cup D[other] BY <1>1, <1>3 DEF IsTree
  <2>2. QED BY <1>1, <1>3, <2>1, Parts
<1>8. /\ inner # n /\ inner # p /\ outer # n /\ outer # p /\ other # p /\ other # n
  <2>1. n \in D[n] /\ p \in D[p] /\ (inner \in T => inner \in D[inner])
        /\ (outer \in T => outer \in D[outer]) /\ (other \in T => other \in D[other])
    BY <1>3, Self
  <2>2. On(s, n, p) /\ ~On(s, n, n) /\ ~On(s, p, p) /\ ~On(~s, n, n) /\ ~On(~s, p, p)
        /\ ~On(~s, n, p)
    BY <1>5, <1>7, <2>1 DEF On
  <2>3. D[outer] \subseteq D[n] BY <1>6
  <2>4. QED BY <1>5, <1>6, <1>7, <2>1, <2>2, <2>3
<1>9. /\ E \in [NodeOrNull -> SUBSET T] /\ E[Null] = {}
      /\ E[n] = D[p] /\ E[p] = {p} \cup D[inner] \cup D[other]
      /\ \A x \in NodeOrNull : x # n /\ x # p => E[x] = D[x]
  <2>1. D \in [NodeOrNull -> SUBSET T] /\ D[Null] = {} BY DEF IsTree
  <2>2. {p} \cup D[inner] \cup D[other] \in SUBSET T BY <1>3, <1>6, <1>7
  <2>3. n \in NodeOrNull /\ p \in NodeOrNull /\ Null \in NodeOrNull BY <1>5 DEF NodeOrNull
  <2>4. QED BY <1>4, <1>5, <1>7, <2>1, <2>2, <2>3
<1>10. \A x \in Node, o \in BOOLEAN : Child(l, x, o) \in T \cup {Null} BY DEF IsTree
<1>11. \A x \in Node, o \in BOOLEAN : Child(m, x, o) \in T \cup {Null}
  BY <1>3, <1>4, <1>6, <1>10
<1>12. \A x \in T \cup {Head}, o \in BOOLEAN :
         Child(l, x, o) # Null => l.parent[Child(l, x, o)] = x
  BY DEF IsTree
<1>13. l.parent[n] = p /\ l.parent[p] = super BY DEF p, super
<1>14. Child(l, p, ~s) # n /\ Child(l, super, ~u) # p
  BY <1>1, <1>2, <1>3, <1>13, OneSide
<1>15. ASSUME NEW x \in T \cup {Head}, NEW o \in BOOLEAN, Child(m, x, o) # Null
       PROVE  m.parent[Child(m, x, o)] = x
  <2>1. CASE x = p /\ o = s BY <1>4, <1>5, <1>6, <1>8, <2>1, <1>15
  <2>2. CASE x = n /\ o = ~s BY <1>4, <1>5, <2>2
  <2>3. CASE x = super /\ o = u BY <1>4, <1>5, <2>3
  <2>4. CASE ~(x = p /\ o = s) /\ ~(x = n /\ o = ~s) /\ ~(x = super /\ o = u)
    <3> DEFINE c == Child(l, x, o)
    <3>1. Child(m, x, o) = c BY <1>4, <1>5, <2>4
    <3>2. c \in T /\ c \in Node /\ l.parent[c] = x BY <1>5, <1>10, <1>12, <1>15, <3>1
    <3>3. c # n
      <4>1. CASE x # p BY <1>13, <3>2, <4>1
      <4>2. CASE x = p /\ o = ~s BY <1>14, <4>2
      <4>3. QED BY <2>4, <4>1, <4>2
    <3>4. c # p
      <4>1. CASE x # super BY <1>13, <3>2, <4>1
      <4>2. CASE x = super /\ o = ~u BY <1>14, <4>2
      <4>3. QED BY <2>4, <4>1, <4>2
    <3>5. c # inner
      <4>1. CASE x # n
        <5>1. inner # Null => l.parent[inner] = n BY <1>12
        <5>2. QED BY <3>1, <3>2, <4>1, <5>1, <1>15
      <4>2. CASE x = n /\ o = s
        <5>1. inner \in T => inner \in D[inner] BY Self
        <5>2. outer \in T => outer \in D[outer] BY Self
        <5>3. c = outer BY <4>2
        <5>4. c = inner => On(s, c, n) /\ On(~s, c, n) BY <1>6, <3>2, <5>1, <5>2, <5>3
        <5>5. ~(On(s, c, n) /\ On(~s, c, n))
          <6> HIDE DEF c
          <6>1. c \in Int BY <1>5, <3>2
          <6>2. QED BY <1>5, <6>1, Sided
        <5>6. QED BY <5>4, <5>5
      <4>3. QED BY <2>4, <4>1, <4>2
    <3>6. QED BY <1>4, <3>1, <3>2, <3>3, <3>4, <3>5
  <2>5. QED BY <2>1, <2>2, <2>3, <2>4
<1>16. ASSUME NEW x \in T
       PROVE  m.parent[x] \in T \cup {Head} /\ \E o \in BOOLEAN : Child(m, m.parent[x], o) = x
  <2>1. CASE x = n BY <1>2, <1>3, <1>4, <1>5, <2>1
  <2>2. CASE x = p
    <3>1. PICK e \in BOOLEAN : e = ~s OBVIOUS
    <3>2. Child(m, n, e) = p /\ m.parent[p] = n BY <1>4, <1>5, <3>1
    <3>3. QED BY <2>2, <3>1, <3>2
  <2>3. CASE x = inner /\ x # n /\ x # p
    <3>1. Child(m, p, s) = inner /\ m.parent[x] = p BY <1>4, <1>5, <2>3
    <3>2. QED BY <1>3, <2>3, <3>1
  <2>4. CASE x # n /\ x # p /\ x # inner
    <3>1. PICK o \in BOOLEAN : Child(l, l.parent[x], o) = x BY DEF IsTree
    <3>2. l.parent[x] \in T \cup {Head} /\ l.parent[x] \in Node
      <4>1. l.parent[x] \in T \cup {Head} BY DEF IsTree
      <4>2. QED BY <1>5, <4>1
    <3>3. m.parent[x] = l.parent[x] BY <1>4, <1>5, <2>4
    <3>4. Child(m, l.parent[x], o) = x BY <1>1, <1>2, <1>4, <2>4, <3>1, <3>2
    <3>5. QED BY <3>2, <3>3, <3>4
  <2>5. QED BY <2>1, <2>2, <2>3, <2>4
<1>17. \A x \in T \cup {Head}, o \in BOOLEAN :
         Child(l, x, o) # n /\ Child(l, x, o) # p => E[Child(l, x, o)] = D[Child(l, x, o)]
  BY <1>5, <1>9, <1>10 DEF NodeOrNull
<1>18. E[inner] = D[inner] /\ E[outer] = D[outer] /\ E[other] = D[other]
  BY <1>5, <1>6, <1>7, <1>8, <1>9 DEF NodeOrNull
<1>19. ASSUME NEW x \in T
       PROVE  /\ \A o \in BOOLEAN : E[x] = {x} \cup E[Child(m, x, o)] \cup E[Child(m, x, ~o)]
              /\ \A o \in BOOLEAN : \A z \in E[Child(m, x, o)] : On(o, z, x)
  <2>1. PICK e \in BOOLEAN : e = ~s OBVIOUS
  <2>2. CASE x = p
    <3>1. Child(m, x, s) = inner /\ Child(m, x, e) = other BY <1>4, <1>5, <2>1, <2>2
    <3>2. E[x] = {x} \cup E[Child(m, x, s)] \cup E[Child(m, x, e)]
      BY <1>9, <1>18, <2>2, <3>1
    <3>3. \A z \in E[Child(m, x, s)] : On(s, z, x) BY <1>6, <1>7, <1>18, <2>2, <3>1
    <3>4. \A z \in E[Child(m, x, e)] : On(e, z, x) BY <1>7, <1>18, <2>1, <2>2, <3>1
    <3>5. QED BY <2>1, <3>2, <3>3, <3>4, EitherSide
  <2>3. CASE x = n
    <3>1. Child(m, x, s) = outer /\ Child(m, x, e) = p BY <1>4, <1>5, <2>1, <2>3
    <3>2. E[x] = {x} \cup E[Child(m, x, s)] \cup E[Child(m, x, e)]
      <4>1. E[Child(m, x, s)] = D[outer] /\ E[Child(m, x, e)] = E[p] /\ E[x] = D[p]
        BY <1>9, <1>18, <2>3, <3>1
      <4> HIDE DEF E, inner, outer, other
      <4>2. D[p] = {n} \cup D[outer] \cup E[p] BY <1>6, <1>7, <1>9
      <4>3. QED BY <2>3, <4>1, <4>2
    <3>3. \A z \in E[Child(m, x, s)] : On(s, z, x) BY <1>6, <1>18, <2>3, <3>1
    <3>4. ASSUME NEW z \in E[p] PROVE On(e, z, n)
      <4>1. On(s, n, p) BY <1>6, <1>7
      <4>2. z = p \/ On(~s, z, n) \/ (On(~s, z, p) /\ z \in Int)
        <5> HIDE DEF E, inner, outer, other
        <5>1. z = p \/ z \in D[inner] \/ z \in D[other] BY <1>9
        <5>2. QED BY <1>6, <1>7, <5>1, Nodes
      <4>3. On(~s, p, n) BY <1>5, <4>1, Sided
      <4>4. CASE On(~s, z, p) /\ z \in Int BY <1>5, <2>1, <4>3, <4>4, Sided
      <4>5. QED BY <2>1, <4>2, <4>3, <4>4
    <3>5. QED BY <2>1, <2>3, <3>1, <3>2, <3>3, <3>4, EitherSide
  <2>4. CASE x # p /\ x # n
    <3>1. ASSUME NEW o \in BOOLEAN PROVE E[Child(m, x, o)] = D[Child(l, x, o)]
      <4>1. CASE x = super /\ o = u BY <1>2, <1>4, <1>5, <1>9, <4>1
      <4>2. CASE ~(x = super /\ o = u)
        <5>1. Child(m, x, o) = Child(l, x, o) BY <1>4, <1>5, <2>4, <4>2
        <5>2. Child(l, x, o) # n BY <1>5, <1>12, <1>13, <2>4
        <5>3. Child(l, x, o) # p
          <6>1. CASE x # super BY <1>5, <1>12, <1>13, <6>1
          <6>2. CASE x = super /\ o = ~u BY <1>14, <6>2
          <6>3. QED BY <4>2, <6>1, <6>2
        <5>4. QED BY <1>17, <5>1, <5>2, <5>3
      <4>3. QED BY <4>1, <4>2
    <3>2. E[x] = D[x] BY <1>5, <1>9, <2>4 DEF NodeOrNull
    <3>3. ASSUME NEW o \in BOOLEAN
          PROVE  /\ E[x] = {x} \cup E[Child(m, x, o)] \cup E[Child(m, x, ~o)]
                 /\ \A z \in E[Child(m, x, o)] : On(o, z, x)
      <4>1. PICK a \in BOOLEAN : a = ~o OBVIOUS
      <4>2. E[Child(m, x, a)] = D[Child(l, x, a)] BY <3>1
      <4>3. E[Child(m, x, o)] = D[Child(l, x, o)] BY <3>1
      <4>4. D[x] = {x} \cup D[Child(l, x, o)] \cup D[Child(l, x, ~o)]
            /\ \A z \in D[Child(l, x, o)] : On(o, z, x)
        BY DEF IsTree
      <4>5. QED BY <3>2, <4>1, <4>2, <4>3, <4>4
    <3>4. QED BY <3>3
  <2>5. QED BY <2>2, <2>3, <2>4
<1>20. /\ m.left[Head] = Null /\ m.parent[Head] = Head /\ E[m.right[Head]] = T
  <2>1. l.left[Head] = Null /\ l.parent[Head] = Head /\ D[l.right[Head]] = T BY DEF IsTree
  <2>2. m.parent[Head] = Head
    <3>1. Head \notin T /\ Head # Null BY Nodes, <1>5
    <3>2. QED BY <1>4, <1>5, <1>6, <2>1, <3>1
  <2>3. CASE super = Head
    <3>1. u = FALSE BY <1>2, <1>5, <2>1, <2>3 DEF Child
    <3>2. Child(m, Head, FALSE) = n /\ Child(m, Head, TRUE) = Child(l, Head, TRUE)
      BY <1>4, <1>5, <2>3, <3>1
    <3>3. D[p] = T BY <1>3, <1>13, <2>3, Up
    <3>4. QED BY <1>9, <2>1, <2>2, <3>2, <3>3 DEF Child
  <2>4. CASE super # Head
    <3>1. \A o \in BOOLEAN : Child(m, Head, o) = Child(l, Head, o) BY <1>4, <1>5, <2>4
    <3>2. Child(l, Head, FALSE) # n /\ Child(l, Head, FALSE) # p
      BY <1>5, <1>12, <1>13, <2>4
    <3>3. E[Child(l, Head, FALSE)] = D[Child(l, Head, FALSE)] BY <1>17, <3>2
    <3>4. Child(m, Head, FALSE) = Child(l, Head, FALSE) /\ Child(m, Head, TRUE) = Child(l, Head, TRUE)
      BY <3>1
    <3>5. QED BY <2>1, <2>2, <3>3, <3>4 DEF Child
  <2>5. QED BY <2>3, <2>4
<1>21. IsTree(m, T, E)
  <2> HIDE DEF E, inner, outer, other
  <2>1. QED BY <1>4, <1>5, <1>9, <1>11, <1>15, <1>16, <1>19, <1>20 DEF IsTree
<1>22. QED BY <1>21 DEF m

\* Balances are no matter to the tree, nor are the links of nodes outside.
LEMMA SameTree ==
  ASSUME NEW l, NEW T, NEW D, IsTree(l, T, D), NEW m \in Links,
         \A n \in T \cup {Head} : m.left[n] = l.left[n] /\ m.right[n] = l.right[n]
                                  /\ m.parent[n] = l.parent[n],
         \A n \in Node \ (T \cup {Head}), s \in BOOLEAN : Child(m, n, s) \in T \cup {Null}
  PROVE  IsTree(m, T, D)
<1>1. \A n \in T \cup {Head}, s \in BOOLEAN : Child(m, n, s) = Child(l, n, s) BY DEF Child
<1>2. \A n \in T \cup {Head} : n \in Node BY Self DEF Node
<1>3. T \subseteq Key /\ D \in [NodeOrNull -> SUBSET T] /\ D[Null] = {}
      /\ D[m.right[Head]] = T /\ m.left[Head] = Null /\ m.parent[Head] = Head
  BY DEF IsTree
<1>4. \A n \in Node, s \in BOOLEAN : Child(m, n, s) \in T \cup {Null} BY <1>1, <1>2 DEF IsTree
<1>5. ASSUME NEW n \in T \cup {Head}, NEW s \in BOOLEAN, Child(m, n, s) # Null
      PROVE  m.parent[Child(m, n, s)] = n
  <2>1. l.parent[Child(l, n, s)] = n /\ Child(l, n, s) \in T
    BY <1>1, <1>2, <1>5 DEF IsTree
  <2>2. Child(m, n, s) = Child(l, n, s) BY <1>1
  <2>3. QED BY <2>1, <2>2
<1>6. ASSUME NEW n \in T
      PROVE  m.parent[n] \in T \cup {Head} /\ \E s \in BOOLEAN : Child(m, m.parent[n], s) = n
  <2>1. l.parent[n] \in T \cup {Head} /\ \E s \in BOOLEAN : Child(l, l.parent[n], s) = n
    BY DEF IsTree
  <2>2. QED BY <1>1, <2>1
<1>7. ASSUME NEW n \in T, NEW s \in BOOLEAN
      PROVE  /\ D[n] = {n} \cup D[Child(m, n, s)] \cup D[Child(m, n, ~s)]
             /\ \A x \in D[Child(m, n, s)] : On(s, x, n)
  <2>1. PICK o \in BOOLEAN : o = ~s OBVIOUS
  <2>2. Child(m, n, s) = Child(l, n, s) /\ Child(m, n, o) = Child(l, n, o) BY <1>1
  <2>3. QED BY <2>1, <2>2 DEF IsTree
<1>8. QED BY <1>3, <1>4, <1>5, <1>6, <1>7 DEF IsTree

\* The first node.
LEMMA AttachFirst ==
  ASSUME NEW l, NEW D, IsTree(l, {}, D), NEW k \in Key,
         \A s \in BOOLEAN : Child(l, k, s) = Null
  PROVE  \E E : IsTree(Attach(l, Head, FALSE, k), {k}, E)
<1> DEFINE m == Attach(l, Head, FALSE, k)
           E == [x \in NodeOrNull |-> IF x = k THEN {k} ELSE {}]
<1>1. l \in Links /\ Head \in Node /\ k \in Node /\ k \in NodeOrNull /\ k # Head /\ k # Null
      /\ Null \in NodeOrNull
  BY Nodes DEF IsTree, Node, NodeOrNull
<1>2. Hangs(m, l, Head, FALSE, k) BY <1>1, AttachLinks
<1> HIDE DEF m
<1>3. /\ m \in Links
      /\ \A n \in Node, o \in BOOLEAN :
           Child(m, n, o) = IF n = Head /\ o = FALSE THEN k ELSE Child(l, n, o)
      /\ \A n \in Node : m.parent[n] = IF n = k THEN Head ELSE l.parent[n]
  BY <1>2 DEF Hangs
<1>4. \A n \in Node, o \in BOOLEAN : Child(l, n, o) = Null BY DEF IsTree
<1>5. l.left[Head] = Null /\ l.parent[Head] = Head BY DEF IsTree
<1>6. Child(m, Head, FALSE) = k /\ Child(m, Head, TRUE) = Null BY <1>1, <1>3, <1>4
<1>7. m.right[Head] = k /\ m.left[Head] = Null /\ m.parent[Head] = Head
  BY <1>1, <1>3, <1>5, <1>6 DEF Child
<1>8. \A o \in BOOLEAN : Child(m, k, o) = Null BY <1>1, <1>3, <1>4
<1>9. E \in [NodeOrNull -> SUBSET {k}] /\ E[k] = {k} /\ E[Null] = {} BY <1>1
<1>10. \A o \in BOOLEAN : Child(m, k, ~o) = Null BY <1>8
<1>11. m.parent[k] = Head BY <1>1, <1>3
<1>12. ASSUME NEW n \in {k} \cup {Head}, NEW s \in BOOLEAN, Child(m, n, s) # Null
       PROVE  m.parent[Child(m, n, s)] = n
  <2>1. n = Head BY <1>8, <1>12
  <2>2. s = FALSE BY <1>6, <1>12, <2>1
  <2>3. QED BY <1>6, <1>11, <2>1, <2>2
<1> HIDE DEF E
<1>13. IsTree(m, {k}, E)
  <2>1. \A n \in Node, s \in BOOLEAN : Child(m, n, s) \in {k} \cup {Null} BY <1>3, <1>4
  <2>2. \A n \in {k} : /\ m.parent[n] \in {k} \cup {Head}
                       /\ \E s \in BOOLEAN : Child(m, m.parent[n], s) = n
    BY <1>6, <1>11
  <2>3. QED BY <1>3, <1>7, <1>8, <1>9, <1>10, <1>12, <2>1, <2>2 DEF IsTree
<1>14. QED BY <1>13 DEF m

\* A leaf, hung where the search ended.
LEMMA AttachLeaf ==
  ASSUME NEW l, NEW T, NEW D, IsTree(l, T, D), NEW k \in Key \ T, NEW n \in T,
         NEW s \in BOOLEAN, On(s, k, n), Child(l, n, s) = Null,
         \A z \in T : z = n \/ Beside(k, k, n, z),
         \A o \in BOOLEAN : Child(l, k, o) = Null
  PROVE  \E E : IsTree(Attach(l, n, s, k), T \cup {k}, E)
<1> DEFINE m == Attach(l, n, s, k)
           U == T \cup {k}
           E == [x \in NodeOrNull |-> IF x = k THEN {k}
                                      ELSE IF n \in D[x] THEN D[x] \cup {k} ELSE D[x]]
<1>1. /\ l \in Links /\ n \in Node /\ k \in Node /\ k \in NodeOrNull /\ k # Null /\ k # n
      /\ k \in Int /\ n \in Int /\ k # Head /\ n # Null /\ n # Head
      /\ U \subseteq Node /\ U \subseteq Key /\ Head \in Node
      /\ D \in [NodeOrNull -> SUBSET T] /\ D[Null] = {} /\ T \subseteq Int
      /\ Null \in NodeOrNull /\ Node \subseteq NodeOrNull
  BY Nodes, Self DEF IsTree, Node, NodeOrNull
<1>2. Hangs(m, l, n, s, k) BY <1>1, AttachLinks
<1> HIDE DEF m
<1>3. /\ m \in Links
      /\ \A x \in Node, o \in BOOLEAN :
           Child(m, x, o) = IF x = n /\ o = s THEN k ELSE Child(l, x, o)
      /\ \A x \in Node : m.parent[x] = IF x = k THEN n ELSE l.parent[x]
  BY <1>2 DEF Hangs
<1>4. /\ E \in [NodeOrNull -> SUBSET U] /\ E[k] = {k} /\ E[Null] = {}
      /\ \A x \in NodeOrNull : x # k => E[x] = IF n \in D[x] THEN D[x] \cup {k} ELSE D[x]
  BY <1>1
<1>5. \A x \in Node, o \in BOOLEAN : Child(l, x, o) \in T \cup {Null} BY DEF IsTree
<1>6. \A x \in Node, o \in BOOLEAN : Child(m, x, o) \in U \cup {Null} BY <1>3, <1>5
<1>7. l.left[Head] = Null /\ l.parent[Head] = Head /\ D[l.right[Head]] = T BY DEF IsTree
<1>8. \A o \in BOOLEAN : Child(m, Head, o) = Child(l, Head, o) BY <1>1, <1>3
<1>9. m.left[Head] = Null /\ m.parent[Head] = Head /\ m.right[Head] = l.right[Head]
  <2>1. Child(m, Head, TRUE) = Child(l, Head, TRUE)
        /\ Child(m, Head, FALSE) = Child(l, Head, FALSE)
    BY <1>8
  <2>2. QED BY <1>1, <1>3, <1>7, <2>1 DEF Child
<1>10. E[m.right[Head]] = U
  <2>1. l.right[Head] \in T \cup {Null}
    <3>1. Child(l, Head, FALSE) \in T \cup {Null} BY <1>1, <1>5
    <3>2. QED BY <3>1 DEF Child
  <2>2. l.right[Head] # k BY <1>1, <2>1
  <2>3. n \in D[l.right[Head]] /\ l.right[Head] \in NodeOrNull BY <1>1, <1>7, <2>1
  <2>4. QED BY <1>4, <1>7, <1>9, <2>2, <2>3
<1>11. ASSUME NEW x \in U \cup {Head}, NEW o \in BOOLEAN, Child(m, x, o) # Null
       PROVE  m.parent[Child(m, x, o)] = x
  <2>1. CASE x = n /\ o = s BY <1>1, <1>3, <2>1
  <2>2. CASE x # k /\ ~(x = n /\ o = s)
    <3>1. Child(m, x, o) = Child(l, x, o) /\ x \in T \cup {Head} BY <1>1, <1>3, <2>2
    <3>2. Child(l, x, o) \in T /\ l.parent[Child(l, x, o)] = x
      BY <1>1, <1>5, <1>11, <3>1 DEF IsTree
    <3>3. QED BY <1>1, <1>3, <3>1, <3>2
  <2>3. CASE x = k
    <3>1. Child(m, x, o) = Null BY <1>1, <1>3, <2>3
    <3>2. QED BY <1>11, <3>1
  <2>4. QED BY <2>1, <2>2, <2>3
<1>12. ASSUME NEW x \in U
       PROVE  m.parent[x] \in U \cup {Head} /\ \E o \in BOOLEAN : Child(m, m.parent[x], o) = x
  <2>1. CASE x = k BY <1>1, <1>3, <2>1
  <2>2. CASE x # k
    <3>1. PICK o \in BOOLEAN : Child(l, l.parent[x], o) = x BY <2>2 DEF IsTree
    <3>2. l.parent[x] \in T \cup {Head} BY <2>2 DEF IsTree
    <3>3. m.parent[x] = l.parent[x] /\ l.parent[x] \in Node BY <1>1, <1>3, <2>2, <3>2
    <3>4. x # Null BY <2>2, Self
    <3>5. ~(l.parent[x] = n /\ o = s) BY <3>1, <3>4
    <3>6. Child(m, l.parent[x], o) = x BY <1>3, <3>1, <3>3, <3>5
    <3>7. QED BY <3>2, <3>3, <3>6
  <2>3. QED BY <2>1, <2>2
<1>13. ASSUME NEW x \in U, NEW o \in BOOLEAN
       PROVE  /\ E[x] = {x} \cup E[Child(m, x, o)] \cup E[Child(m, x, ~o)]
              /\ \A z \in E[Child(m, x, o)] : On(o, z, x)
  <2>1. PICK e \in BOOLEAN : e = ~o OBVIOUS
  <2>2. CASE x = k
    <3>1. Child(m, x, o) = Null /\ Child(m, x, e) = Null BY <1>1, <1>3, <2>2
    <3>2. QED BY <1>4, <2>1, <2>2, <3>1
  <2>3. CASE x # k
    <3>0. x \in T /\ x \in Node /\ x \in Int BY <1>1, <2>3
    <3> DEFINE a == Child(l, x, o)
               b == Child(l, x, e)
    <3>1. /\ D[x] = {x} \cup D[a] \cup D[b]
          /\ \A z \in D[a] : On(o, z, x) /\ z \in Key
          /\ \A z \in D[b] : On(e, z, x) /\ z \in Key
          /\ a \in T \cup {Null} /\ b \in T \cup {Null}
      <4>1. D[x] = {x} \cup D[a] \cup D[b] BY <2>1, <3>0 DEF IsTree
      <4>2. QED BY <2>1, <3>0, <4>1, Parts
    <3>2. a \in NodeOrNull /\ b \in NodeOrNull /\ a # k /\ b # k /\ x \in NodeOrNull
      BY <1>1, <3>0, <3>1
    <3>3. CASE x = n
      <4>1. n \in D[n] /\ n \notin D[a] /\ n \notin D[b]
        BY <1>1, <3>1, <3>3 DEF On
      <4>2. E[x] = D[x] \cup {k} /\ E[a] = D[a] /\ E[b] = D[b] BY <1>4, <3>2, <3>3, <4>1
      <4>3. CASE o = s
        <5>1. Child(m, x, o) = k /\ Child(m, x, e) = b /\ D[a] = {}
          BY <1>1, <1>3, <2>1, <3>0, <3>3, <4>3
        <5> HIDE DEF E, U, a, b
        <5>2. E[x] = {x} \cup E[Child(m, x, o)] \cup E[Child(m, x, e)]
          BY <1>4, <3>1, <4>2, <5>1
        <5>3. \A z \in E[Child(m, x, o)] : On(o, z, x) BY <1>4, <3>3, <4>3, <5>1
        <5>4. QED BY <2>1, <5>2, <5>3
      <4>4. CASE o = ~s
        <5>0. e = s /\ o # s BY <2>1, <4>4, EitherSide
        <5>1. Child(m, x, o) = a /\ Child(m, x, e) = k /\ D[b] = {}
          BY <1>1, <1>3, <3>0, <3>3, <5>0
        <5> HIDE DEF E, U, a, b
        <5>2. E[x] = {x} \cup E[Child(m, x, o)] \cup E[Child(m, x, e)]
          BY <1>4, <3>1, <4>2, <5>1
        <5>3. \A z \in E[Child(m, x, o)] : On(o, z, x) BY <3>1, <4>2, <5>1
        <5>4. QED BY <2>1, <5>2, <5>3
      <4>5. QED BY <4>3, <4>4, EitherSide
    <3>4. CASE x # n
      <4>1. Child(m, x, o) = a /\ Child(m, x, e) = b BY <1>3, <3>0, <3>4
      <4>2. /\ E[x] = IF n \in D[x] THEN D[x] \cup {k} ELSE D[x]
            /\ E[a] = IF n \in D[a] THEN D[a] \cup {k} ELSE D[a]
            /\ E[b] = IF n \in D[b] THEN D[b] \cup {k} ELSE D[b]
        BY <1>4, <2>3, <3>2
      <4>3. E[x] = {x} \cup E[a] \cup E[b]
        <5> HIDE DEF E, U, a, b
        <5>1. n \in D[x] <=> n \in D[a] \/ n \in D[b] BY <3>1, <3>4
        <5>2. CASE n \in D[a] BY <3>1, <4>2, <5>1, <5>2
        <5>3. CASE n \in D[b] BY <3>1, <4>2, <5>1, <5>3
        <5>4. CASE n \notin D[x] BY <3>1, <4>2, <5>1, <5>4
        <5>5. QED BY <5>1, <5>2, <5>3, <5>4
      <4>4. n \in D[a] => On(o, k, x)
        <5>1. Beside(k, k, n, x) BY <3>0, <3>4
        <5>2. n \in D[a] => On(o, n, x) BY <3>1
        <5>3. QED BY <1>1, <3>0, <5>1, <5>2 DEF On, Beside
      <4>5. \A z \in E[a] : On(o, z, x) BY <3>1, <4>2, <4>4
      <4>6. QED BY <2>1, <4>1, <4>3, <4>5
    <3>5. QED BY <3>3, <3>4
  <2>4. QED BY <2>2, <2>3
<1>14. IsTree(m, U, E)
  <2> HIDE DEF E, U
  <2>1. QED BY <1>1, <1>3, <1>4, <1>6, <1>9, <1>10, <1>11, <1>12, <1>13 DEF IsTree
<1>15. QED BY <1>14 DEF m

\* A node with a free side is taken out, its subtree takes its place.
LEMMA TakeOut ==
  ASSUME NEW l, NEW T, NEW D, IsTree(l, T, D), NEW x \in T, NEW p, l.parent[x] = p,
         NEW s \in BOOLEAN, Child(l, p, s) = x,
         NEW f \in BOOLEAN, Child(l, x, f) = Null, NEW rest, rest = Child(l, x, ~f),
         \A y \in Node \ (T \cup {Head}), e \in BOOLEAN : Child(l, y, e) = Null
  PROVE  \E E : IsTree(Attach(l, p, s, rest), T \ {x}, E)
<1> DEFINE m == Attach(l, p, s, rest)
           U == T \ {x}
           E == [y \in NodeOrNull |-> D[y] \ {x}]
<1>1. /\ l \in Links /\ T \subseteq Node /\ T \subseteq Key /\ T \subseteq Int /\ Head \in Node
      /\ x # Null /\ x # Head /\ Node \subseteq NodeOrNull /\ Null \in NodeOrNull
      /\ D \in [NodeOrNull -> SUBSET T] /\ D[Null] = {} /\ Head \notin T
  BY Nodes, Self DEF IsTree, Node, NodeOrNull
<1>2. /\ D[x] = {x} \cup D[rest] /\ x \notin D[rest] /\ rest \in T \cup {Null} /\ rest # x
      /\ p \in T \cup {Head} /\ p # x
  <2>1. PICK e \in BOOLEAN : e = ~f OBVIOUS
  <2>2. D[x] = {x} \cup D[Child(l, x, f)] \cup D[Child(l, x, e)] BY <2>1 DEF IsTree
  <2>3. x \notin D[rest] /\ rest \in T \cup {Null} BY <2>1, Parts
  <2>4. rest # x BY <2>3, Self
  <2>5. p \in T \cup {Head} /\ p # x BY <1>1, Up, Self
  <2>6. QED BY <1>1, <2>1, <2>2, <2>3, <2>4, <2>5
<1>3. Hangs(m, l, p, s, rest) BY <1>1, <1>2, AttachLinks
<1> HIDE DEF m
<1>4. /\ m \in Links
      /\ \A y \in Node, o \in BOOLEAN :
           Child(m, y, o) = IF y = p /\ o = s THEN rest ELSE Child(l, y, o)
      /\ \A y \in Node : m.parent[y] = IF y = rest THEN p ELSE l.parent[y]
  BY <1>3 DEF Hangs
<1>5. \A y \in Node, o \in BOOLEAN : Child(l, y, o) \in T \cup {Null} BY DEF IsTree
<1>6. ASSUME NEW y \in T \cup {Head}, NEW o \in BOOLEAN, Child(l, y, o) # Null
      PROVE  l.parent[Child(l, y, o)] = y
  BY <1>6 DEF IsTree
<1>7. Child(l, p, ~s) # x BY OneSide
<1>8. ASSUME NEW y \in Node, NEW o \in BOOLEAN, ~(y = p /\ o = s)
      PROVE  Child(l, y, o) \in U \cup {Null}
  <2>1. SUFFICES ASSUME Child(l, y, o) = x PROVE FALSE BY <1>5
  <2>2. y \in T \cup {Head} BY <1>1, <2>1
  <2>3. y = p BY <1>1, <1>6, <2>1, <2>2
  <2>4. o = ~s BY <1>8, <2>3
  <2>5. QED BY <1>7, <2>1, <2>3, <2>4
<1>9. \A y \in Node, o \in BOOLEAN : Child(m, y, o) \in U \cup {Null} BY <1>2, <1>4, <1>8
<1>10. /\ E \in [NodeOrNull -> SUBSET U] /\ E[Null] = {} /\ E[rest] = D[rest] /\ E[rest] = E[x]
       /\ \A y \in NodeOrNull : E[y] = D[y] \ {x}
  BY <1>1, <1>2
<1> HIDE DEF E
<1>11. \A y \in Node, o \in BOOLEAN : E[Child(m, y, o)] = E[Child(l, y, o)]
  <2>1. SUFFICES ASSUME NEW y \in Node, NEW o \in BOOLEAN
                 PROVE  E[Child(m, y, o)] = E[Child(l, y, o)]
    OBVIOUS
  <2>2. CASE y = p /\ o = s BY <1>4, <1>10, <2>2
  <2>3. CASE ~(y = p /\ o = s) BY <1>4, <2>3
  <2>4. QED BY <2>2, <2>3
<1>12. l.left[Head] = Null /\ l.parent[Head] = Head /\ D[l.right[Head]] = T BY DEF IsTree
<1>13. m.parent[Head] = Head /\ m.left[Head] = Null /\ E[m.right[Head]] = U
  <2>1. m.parent[Head] = Head BY <1>1, <1>2, <1>4, <1>12, Nodes
  <2>2. Child(m, Head, TRUE) = Null
    <3>1. Child(l, Head, TRUE) = Null BY <1>12 DEF Child
    <3>2. ~(Head = p /\ TRUE = s) BY <1>1, <3>1
    <3>3. QED BY <1>1, <1>4, <3>1, <3>2
  <2>3. E[Child(m, Head, FALSE)] = E[Child(l, Head, FALSE)] BY <1>1, <1>11
  <2>4. Child(l, Head, FALSE) \in NodeOrNull BY <1>1, <1>5
  <2>5. D[Child(l, Head, FALSE)] = T BY <1>12 DEF Child
  <2>6. E[Child(m, Head, FALSE)] = U BY <1>10, <2>3, <2>4, <2>5
  <2>7. QED BY <2>1, <2>2, <2>6 DEF Child
<1>14. ASSUME NEW y \in U \cup {Head}, NEW o \in BOOLEAN, Child(m, y, o) # Null
       PROVE  m.parent[Child(m, y, o)] = y
  <2>0. y \in Node /\ y \in T \cup {Head} BY <1>1
  <2>1. CASE y = p /\ o = s
    <3>1. Child(m, y, o) = rest BY <1>4, <2>0, <2>1
    <3>2. rest \in Node BY <1>1, <1>2, <1>14, <3>1
    <3>3. QED BY <1>4, <2>1, <3>1, <3>2
  <2>2. CASE ~(y = p /\ o = s)
    <3>1. Child(m, y, o) = Child(l, y, o) BY <1>4, <2>0, <2>2
    <3>2. l.parent[Child(l, y, o)] = y /\ Child(l, y, o) \in Node
      BY <1>1, <1>5, <1>6, <1>14, <2>0, <3>1
    <3>3. Child(l, y, o) # rest
      <4>1. SUFFICES ASSUME Child(l, y, o) = rest PROVE FALSE OBVIOUS
      <4>2. rest # Null BY <1>14, <3>1, <4>1
      <4>3. PICK e \in BOOLEAN : e = ~f OBVIOUS
      <4>4. l.parent[rest] = x BY <1>6, <4>2, <4>3
      <4>5. QED BY <1>1, <3>2, <4>1, <4>4
    <3>4. QED BY <1>4, <3>1, <3>2, <3>3
  <2>3. QED BY <2>1, <2>2
<1>15. ASSUME NEW y \in U
       PROVE  m.parent[y] \in U \cup {Head} /\ \E o \in BOOLEAN : Child(m, m.parent[y], o) = y
  <2>0. y \in T /\ y # x /\ y \in Node /\ p \in Node BY <1>1, <1>2
  <2>1. CASE y = rest
    <3>1. m.parent[y] = p /\ Child(m, p, s) = y BY <1>4, <2>0, <2>1
    <3>2. QED BY <1>2, <3>1
  <2>2. CASE y # rest
    <3>1. l.parent[y] \in T \cup {Head} /\ \E o \in BOOLEAN : Child(l, l.parent[y], o) = y
      BY <2>0 DEF IsTree
    <3>2. PICK o \in BOOLEAN : Child(l, l.parent[y], o) = y BY <3>1
    <3>3. m.parent[y] = l.parent[y] BY <1>4, <2>0, <2>2
    <3>4. l.parent[y] # x
      <4>1. SUFFICES ASSUME l.parent[y] = x PROVE FALSE OBVIOUS
      <4>2. y # Null BY <2>0, Self
      <4>3. o = ~f BY <3>2, <4>1, <4>2
      <4>4. QED BY <2>2, <3>2, <4>1, <4>3
    <3>5. l.parent[y] \in Node BY <1>1, <3>1
    <3>6. ~(l.parent[y] = p /\ o = s) BY <2>0, <3>2
    <3>7. Child(m, l.parent[y], o) = y BY <1>4, <3>2, <3>5, <3>6
    <3>8. QED BY <3>1, <3>3, <3>4, <3>7
  <2>3. QED BY <2>1, <2>2
<1>16. ASSUME NEW y \in U, NEW o \in BOOLEAN
       PROVE  /\ E[y] = {y} \cup E[Child(m, y, o)] \cup E[Child(m, y, ~o)]
              /\ \A z \in E[Child(m, y, o)] : On(o, z, y)
  <2>1. PICK e \in BOOLEAN : e = ~o OBVIOUS
  <2>2. y \in T /\ y # x /\ y \in Node BY <1>1
  <2> DEFINE a == Child(l, y, o)
             b == Child(l, y, e)
  <2>3. D[y] = {y} \cup D[a] \cup D[b] /\ \A z \in D[a] : On(o, z, y)
    BY <2>1, <2>2 DEF IsTree
  <2>4. a \in NodeOrNull /\ b \in NodeOrNull /\ y \in NodeOrNull BY <1>1, <1>5, <2>2
  <2>5. E[Child(m, y, o)] = E[a] /\ E[Child(m, y, e)] = E[b] BY <1>11, <2>2
  <2> HIDE DEF a, b
  <2>6. E[y] = D[y] \ {x} /\ E[a] = D[a] \ {x} /\ E[b] = D[b] \ {x} BY <1>10, <2>4
  <2>7. E[y] = {y} \cup E[a] \cup E[b] BY <2>2, <2>3, <2>6
  <2>8. \A z \in E[a] : On(o, z, y) BY <2>3, <2>6
  <2>9. QED BY <2>1, <2>5, <2>7, <2>8
<1>17. IsTree(m, U, E)
  <2>1. U \subseteq Key BY <1>1
  <2> HIDE DEF U
  <2>2. QED BY <1>4, <1>9, <1>10, <1>13, <1>14, <1>15, <1>16, <2>1 DEF IsTree
<1>18. QED BY <1>17 DEF m

\* m is l with x in the place of n, the child of p on side s: x has the links of
\* n, and what pointed to n points to x.
Replaces(m, l, n, x, p, s) ==
  /\ m \in Links
  /\ \A y \in Node, o \in BOOLEAN :
       Child(m, y, o) = IF y = x THEN Child(l, n, o)
                        ELSE IF y = p /\ o = s THEN x ELSE Child(l, y, o)
  /\ \A y \in Node :
       m.parent[y] = IF y = x THEN p
                     ELSE IF y = Child(l, n, TRUE) \/ y = Child(l, n, FALSE) THEN x
                     ELSE l.parent[y]
  /\ m.balance = [l.balance EXCEPT ![x] = l.balance[n]]

\* Putting DeleteNode in the place of the deleted node gives it the links of that
\* node (avlsupp.c 379-393).
LEMMA ReplaceLinks ==
  ASSUME NEW l, NEW T, NEW D, IsTree(l, T, D), NEW n \in T, NEW x \in Key \ T,
         NEW p, l.parent[n] = p, NEW s \in BOOLEAN, Child(l, p, s) = n
  PROVE  Replaces(Replace(l, n, x), l, n, x, p, s)
<1> DEFINE copy == [l EXCEPT !.left[x] = l.left[n], !.right[x] = l.right[n],
                             !.parent[x] = l.parent[n], !.balance[x] = l.balance[n]]
           a == Child(l, n, TRUE)
           b == Child(l, n, FALSE)
           hung == Attach(copy, p, s, x)
           half == Attach(hung, x, TRUE, a)
           full == Attach(half, x, FALSE, b)
<1>1. /\ l \in Links /\ n \in Node /\ x \in Node /\ p \in Node /\ x \in NodeOrNull
      /\ x # n /\ p # x /\ a \in T \cup {Null} /\ b \in T \cup {Null}
      /\ a \in NodeOrNull /\ b \in NodeOrNull /\ a # x /\ b # x /\ x # Null /\ n # Null
  <2>1. l \in Links /\ T \subseteq Key BY DEF IsTree
  <2>2. n \in Node /\ n # Null /\ x \in Node /\ x # Null /\ x # Head BY Self, Nodes DEF Node
  <2>3. p \in T \cup {Head} BY Up
  <2>4. a \in T \cup {Null} /\ b \in T \cup {Null} BY <2>2 DEF IsTree
  <2>5. Head \in Node BY DEF Node
  <2>6. \A y \in T : y \in Node BY Self
  <2>7. QED BY <2>1, <2>2, <2>3, <2>4, <2>5, <2>6 DEF NodeOrNull
<1>2. /\ copy \in Links
      /\ \A y \in Node, o \in BOOLEAN :
           Child(copy, y, o) = IF y = x THEN Child(l, n, o) ELSE Child(l, y, o)
      /\ \A y \in Node : copy.parent[y] = IF y = x THEN p ELSE l.parent[y]
      /\ copy.balance = [l.balance EXCEPT ![x] = l.balance[n]]
  <2>1. copy \in Links BY <1>1 DEF Links
  <2>2. \A y \in Node : Child(copy, y, TRUE) = IF y = x THEN Child(l, n, TRUE) ELSE Child(l, y, TRUE)
    BY <1>1 DEF Links, Child
  <2>3. \A y \in Node : Child(copy, y, FALSE) = IF y = x THEN Child(l, n, FALSE) ELSE Child(l, y, FALSE)
    BY <1>1 DEF Links, Child
  <2>4. \A y \in Node : copy.parent[y] = IF y = x THEN p ELSE l.parent[y]
    BY <1>1 DEF Links
  <2>5. copy.balance = [l.balance EXCEPT ![x] = l.balance[n]] BY <1>1 DEF Links
  <2> HIDE DEF copy
  <2>6. ASSUME NEW y \in Node, NEW o \in BOOLEAN
        PROVE  Child(copy, y, o) = IF y = x THEN Child(l, n, o) ELSE Child(l, y, o)
    <3>1. CASE o = TRUE BY <2>2, <3>1
    <3>2. CASE o = FALSE BY <2>3, <3>2
    <3>3. QED BY <3>1, <3>2
  <2>7. QED BY <2>1, <2>4, <2>5, <2>6
<1>3. IsLeftChild(copy, n) = s
  <2>1. IsLeftChild(l, n) = s BY OneSide
  <2>2. copy.parent[n] = p BY <1>1, <1>2
  <2>3. Child(copy, p, TRUE) = Child(l, p, TRUE) BY <1>1, <1>2
  <2> HIDE DEF copy
  <2>4. QED BY <2>1, <2>2, <2>3 DEF IsLeftChild, Child
<1>4. copy.parent[x] = p BY <1>1, <1>2
<1>5. Hangs(hung, copy, p, s, x)
  <2> HIDE DEF copy
  <2>1. QED BY <1>1, <1>2, AttachLinks
<1>6. /\ hung \in Links /\ hung.balance = copy.balance
      /\ \A y \in Node, o \in BOOLEAN :
           Child(hung, y, o) = IF y = p /\ o = s THEN x ELSE Child(copy, y, o)
      /\ \A y \in Node : hung.parent[y] = IF y = x THEN p ELSE copy.parent[y]
  BY <1>5 DEF Hangs
<1>7. hung.left[x] = a
  <2> HIDE DEF hung, copy
  <2>1. Child(hung, x, TRUE) = Child(copy, x, TRUE) BY <1>1, <1>6
  <2>2. Child(copy, x, TRUE) = a BY <1>1, <1>2
  <2> HIDE DEF a
  <2>3. QED BY <2>1, <2>2 DEF Child
<1>8. Hangs(half, hung, x, TRUE, a)
  <2> HIDE DEF hung, a
  <2>1. QED BY <1>1, <1>6, AttachLinks
<1>9. /\ half \in Links /\ half.balance = hung.balance
      /\ \A y \in Node, o \in BOOLEAN :
           Child(half, y, o) = IF y = x /\ o = TRUE THEN a ELSE Child(hung, y, o)
      /\ \A y \in Node : half.parent[y] = IF y = a THEN x ELSE hung.parent[y]
  BY <1>8 DEF Hangs
<1>10. half.right[x] = b
  <2> HIDE DEF half, hung, copy
  <2>1. Child(half, x, FALSE) = Child(hung, x, FALSE) BY <1>1, <1>9
  <2>2. Child(hung, x, FALSE) = Child(copy, x, FALSE) BY <1>1, <1>6
  <2>3. Child(copy, x, FALSE) = b BY <1>1, <1>2
  <2> HIDE DEF b
  <2>4. QED BY <2>1, <2>2, <2>3 DEF Child
<1>11. Hangs(full, half, x, FALSE, b)
  <2> HIDE DEF half, b
  <2>1. QED BY <1>1, <1>9, AttachLinks
<1>12. /\ full \in Links /\ full.balance = half.balance
       /\ \A y \in Node, o \in BOOLEAN :
            Child(full, y, o) = IF y = x /\ o = FALSE THEN b ELSE Child(half, y, o)
       /\ \A y \in Node : full.parent[y] = IF y = b THEN x ELSE half.parent[y]
  BY <1>11 DEF Hangs
<1>13. Replace(l, n, x) = full
  <2> HIDE DEF a, b
  <2>1. Replace(l, n, x) = Attach(Attach(Attach(copy, copy.parent[x], IsLeftChild(copy, n), x),
                                         x, TRUE, Attach(copy, copy.parent[x], IsLeftChild(copy, n), x).left[x]),
                                  x, FALSE,
                                  Attach(Attach(copy, copy.parent[x], IsLeftChild(copy, n), x),
                                         x, TRUE, Attach(copy, copy.parent[x], IsLeftChild(copy, n), x).left[x]).right[x])
    BY DEF Replace
  <2> HIDE DEF copy
  <2>2. Attach(copy, copy.parent[x], IsLeftChild(copy, n), x) = hung BY <1>3, <1>4
  <2> HIDE DEF hung
  <2>3. Replace(l, n, x) = Attach(half, x, FALSE, half.right[x]) BY <1>7, <2>1, <2>2
  <2> HIDE DEF half
  <2>4. QED BY <1>10, <2>3
<1> HIDE DEF copy, hung, half, full
<1>14. ASSUME NEW y \in Node, NEW o \in BOOLEAN
       PROVE  Child(full, y, o) = IF y = x THEN Child(l, n, o)
                                  ELSE IF y = p /\ o = s THEN x ELSE Child(l, y, o)
  <2>1. CASE y = x /\ o = TRUE BY <1>1, <1>9, <1>12, <2>1
  <2>2. CASE y = x /\ o = FALSE BY <1>1, <1>12, <2>2
  <2>3. CASE y # x
    <3>1. Child(full, y, o) = Child(hung, y, o) BY <1>9, <1>12, <2>3
    <3>2. Child(copy, y, o) = Child(l, y, o) BY <1>2, <2>3
    <3>3. QED BY <1>6, <2>3, <3>1, <3>2
  <2>4. QED BY <2>1, <2>2, <2>3
<1>15. ASSUME NEW y \in Node
       PROVE  full.parent[y] = IF y = x THEN p ELSE IF y = a \/ y = b THEN x ELSE l.parent[y]
  <2> HIDE DEF a, b
  <2>1. QED BY <1>1, <1>2, <1>6, <1>9, <1>12
<1>16. Replaces(full, l, n, x, p, s) BY <1>2, <1>6, <1>9, <1>12, <1>14, <1>15 DEF Replaces
<1>17. QED BY <1>13, <1>16

\* A node that is next to n in the order may take its place.
LEMMA ReplaceTree ==
  ASSUME NEW l, NEW T, NEW D, IsTree(l, T, D), NEW n \in T, NEW x \in Key \ T,
         \A z \in T : z = n \/ Beside(x, x, n, z),
         \A y \in Node \ (T \cup {Head, x}), e \in BOOLEAN : Child(l, y, e) = Null
  PROVE  \E E : IsTree(Replace(l, n, x), (T \ {n}) \cup {x}, E)
<1> DEFINE p == l.parent[n]
           m == Replace(l, n, x)
           U == (T \ {n}) \cup {x}
           Moved(S) == IF n \in S THEN (S \ {n}) \cup {x} ELSE S
           E == [y \in NodeOrNull |-> Moved(D[IF y = x THEN n ELSE y])]
<1>1. PICK s \in BOOLEAN : Child(l, p, s) = n BY Up
<1>2. /\ l \in Links /\ T \subseteq Node /\ T \subseteq Key /\ T \subseteq Int /\ Head \in Node
      /\ n \in Node /\ x \in Node /\ n \in Int /\ x \in Int /\ Null \notin Node
      /\ n # Head /\ x # Head /\ Node \subseteq NodeOrNull /\ Null \in NodeOrNull
      /\ D \in [NodeOrNull -> SUBSET T] /\ D[Null] = {} /\ Head \notin T
      /\ p \in T \cup {Head} /\ p # x /\ p # n /\ n \in D[n]
      /\ U \subseteq Key /\ U \subseteq Node
  <2>1. p \in T \cup {Head} /\ p # n BY Up, Self
  <2>2. /\ l \in Links /\ T \subseteq Key /\ Null \in NodeOrNull /\ Node \subseteq NodeOrNull
        /\ D \in [NodeOrNull -> SUBSET T] /\ D[Null] = {} /\ Head \in Node
    BY DEF IsTree, Node, NodeOrNull
  <2>3. n \in D[n] /\ n \in Int /\ n \in Node /\ n # Head BY Self
  <2>4. x \in Node /\ x \in Int /\ x # Head /\ Null \notin Node /\ Head \notin Key
    BY Nodes DEF Node
  <2>5. T \subseteq Node /\ T \subseteq Int /\ Head \notin T BY <2>2, <2>4, Nodes DEF Node
  <2>6. U \subseteq Key BY <2>2
  <2>7. U \subseteq Node BY <2>6 DEF Node
  <2>8. QED BY <2>1, <2>2, <2>3, <2>4, <2>5, <2>6, <2>7
<1>3. /\ m \in Links
      /\ \A y \in Node, o \in BOOLEAN :
           Child(m, y, o) = IF y = x THEN Child(l, n, o)
                            ELSE IF y = p /\ o = s THEN x ELSE Child(l, y, o)
      /\ \A y \in Node :
           m.parent[y] = IF y = x THEN p
                         ELSE IF y = Child(l, n, TRUE) \/ y = Child(l, n, FALSE) THEN x
                         ELSE l.parent[y]
  <2> HIDE DEF p
  <2>1. l.parent[n] = p BY DEF p
  <2>2. Replaces(Replace(l, n, x), l, n, x, p, s) BY <1>1, <2>1, ReplaceLinks
  <2>3. QED BY <2>2 DEF Replaces
<1> HIDE DEF p, m
<1>4. \A y \in Node, o \in BOOLEAN : Child(l, y, o) \in T \cup {Null} BY DEF IsTree
<1>5. ASSUME NEW y \in T \cup {Head}, NEW o \in BOOLEAN, Child(l, y, o) # Null
      PROVE  l.parent[Child(l, y, o)] = y
  BY <1>5 DEF IsTree
<1>6. Child(l, p, ~s) # n BY <1>1, OneSide DEF p
<1>7. ASSUME NEW y \in Node, NEW o \in BOOLEAN, y # x, Child(l, y, o) = n
      PROVE  y = p /\ o = s
  <2>1. y \in T \cup {Head} BY <1>2, <1>7
  <2>2. y = p BY <1>2, <1>5, <1>7, <2>1 DEF p
  <2>3. o # ~s BY <1>6, <1>7, <2>2
  <2>4. QED BY <2>2, <2>3
<1>8. \A o \in BOOLEAN : Child(l, n, o) # n
  <2>1. SUFFICES ASSUME NEW o \in BOOLEAN, Child(l, n, o) = n PROVE FALSE OBVIOUS
  <2>2. n = p /\ o = s BY <1>2, <1>7, <2>1
  <2>3. QED BY <1>2, <2>2
<1>9. \A y \in Node, o \in BOOLEAN : Child(m, y, o) \in U \cup {Null}
  <2>1. SUFFICES ASSUME NEW y \in Node, NEW o \in BOOLEAN PROVE Child(m, y, o) \in U \cup {Null}
    OBVIOUS
  <2>2. CASE y = x BY <1>2, <1>3, <1>4, <1>8, <2>2
  <2>3. CASE y # x /\ y = p /\ o = s BY <1>3, <2>3
  <2>4. CASE y # x /\ ~(y = p /\ o = s)
    <3>1. Child(l, y, o) # n BY <1>7, <2>4
    <3>2. QED BY <1>3, <1>4, <2>4, <3>1
  <2>5. QED BY <2>2, <2>3, <2>4
<1>10. /\ E \in [NodeOrNull -> SUBSET U] /\ E[Null] = {} /\ E[x] = Moved(D[n])
       /\ \A y \in NodeOrNull : y # x => E[y] = Moved(D[y])
  <2>1. \A S \in SUBSET T : Moved(S) \in SUBSET U OBVIOUS
  <2>2. \A y \in NodeOrNull : D[IF y = x THEN n ELSE y] \in SUBSET T BY <1>2
  <2> HIDE DEF U
  <2>3. E \in [NodeOrNull -> SUBSET U]
    <3> HIDE DEF Moved
    <3>1. QED BY <2>1, <2>2
  <2>4. x \in NodeOrNull /\ x # Null BY <1>2
  <2>5. QED BY <1>2, <2>3, <2>4
<1> HIDE DEF E
<1>11. ASSUME NEW y \in Node, NEW o \in BOOLEAN, y # x
       PROVE  E[Child(m, y, o)] = Moved(D[Child(l, y, o)])
  <2>1. CASE y = p /\ o = s BY <1>1, <1>2, <1>3, <1>10, <1>11, <2>1
  <2>2. CASE ~(y = p /\ o = s)
    <3>1. Child(m, y, o) = Child(l, y, o) BY <1>3, <1>11, <2>2
    <3>2. Child(l, y, o) \in NodeOrNull /\ Child(l, y, o) # x BY <1>2, <1>4
    <3> HIDE DEF Moved
    <3>3. QED BY <1>10, <3>1, <3>2
  <2>3. QED BY <2>1, <2>2
<1>12. l.left[Head] = Null /\ l.parent[Head] = Head /\ D[l.right[Head]] = T BY DEF IsTree
<1>13. m.parent[Head] = Head /\ m.left[Head] = Null /\ E[m.right[Head]] = U
  <2>1. m.parent[Head] = Head
    <3>1. Child(l, n, TRUE) # Head /\ Child(l, n, FALSE) # Head BY <1>2, <1>4
    <3>2. QED BY <1>2, <1>3, <1>12, <3>1
  <2>2. Child(m, Head, TRUE) = Null
    <3>1. Child(l, Head, TRUE) = Null BY <1>12 DEF Child
    <3>2. ~(Head = p /\ TRUE = s) BY <1>1, <1>2, <3>1
    <3>3. QED BY <1>2, <1>3, <3>1, <3>2
  <2>3. E[Child(m, Head, FALSE)] = Moved(D[Child(l, Head, FALSE)]) BY <1>2, <1>11
  <2>4. D[Child(l, Head, FALSE)] = T BY <1>12 DEF Child
  <2>5. E[Child(m, Head, FALSE)] = U BY <2>3, <2>4
  <2>6. QED BY <2>1, <2>2, <2>5 DEF Child
<1>14. ASSUME NEW y \in U \cup {Head}, NEW o \in BOOLEAN, Child(m, y, o) # Null
       PROVE  m.parent[Child(m, y, o)] = y
  <2>0. y \in Node BY <1>2
  <2>1. CASE y = x
    <3>1. Child(m, y, o) = Child(l, n, o) /\ Child(l, n, o) \in Node /\ Child(l, n, o) # x
      BY <1>2, <1>3, <1>4, <1>14, <2>0, <2>1
    <3>2. Child(l, n, o) = Child(l, n, TRUE) \/ Child(l, n, o) = Child(l, n, FALSE)
      <4>1. o = TRUE \/ o = FALSE OBVIOUS
      <4>2. QED BY <4>1
    <3>3. QED BY <1>3, <2>1, <3>1, <3>2
  <2>2. CASE y # x /\ y = p /\ o = s BY <1>2, <1>3, <2>2
  <2>3. CASE y # x /\ ~(y = p /\ o = s)
    <3>1. Child(m, y, o) = Child(l, y, o) /\ y \in T \cup {Head} /\ y # n
      BY <1>2, <1>3, <2>0, <2>3
    <3> DEFINE c == Child(l, y, o)
    <3>2. c \in T /\ l.parent[c] = y BY <1>4, <1>5, <1>14, <2>0, <3>1
    <3>3. \A e \in BOOLEAN : Child(l, n, e) # Null => l.parent[Child(l, n, e)] = n BY <1>5
    <3> HIDE DEF c
    <3>4. c \in Node /\ c # x /\ c # Null BY <1>2, <3>2
    <3>5. \A e \in BOOLEAN : c # Child(l, n, e) BY <3>1, <3>2, <3>3, <3>4
    <3>6. c # Child(l, n, TRUE) /\ c # Child(l, n, FALSE) BY <3>5
    <3>7. Child(m, y, o) = c BY <3>1 DEF c
    <3>8. QED BY <1>3, <3>2, <3>4, <3>6, <3>7
  <2>4. QED BY <2>1, <2>2, <2>3
<1>15. ASSUME NEW y \in U
       PROVE  m.parent[y] \in U \cup {Head} /\ \E o \in BOOLEAN : Child(m, m.parent[y], o) = y
  <2>0. y \in Node /\ p \in Node BY <1>2
  <2>1. CASE y = x
    <3>1. m.parent[y] = p /\ Child(m, p, s) = x BY <1>2, <1>3, <2>0, <2>1
    <3>2. QED BY <1>2, <2>1, <3>1
  <2>2. CASE y # x
    <3>1. y \in T /\ y # n /\ y # Null BY <1>2, <2>2
    <3>2. l.parent[y] \in T \cup {Head} /\ \E o \in BOOLEAN : Child(l, l.parent[y], o) = y
      BY <3>1 DEF IsTree
    <3>3. PICK o \in BOOLEAN : Child(l, l.parent[y], o) = y BY <3>2
    <3>4. CASE l.parent[y] = n
      <4>1. y = Child(l, n, TRUE) \/ y = Child(l, n, FALSE)
        <5>1. o = TRUE \/ o = FALSE OBVIOUS
        <5>2. QED BY <3>3, <3>4, <5>1
      <4>2. m.parent[y] = x BY <1>3, <2>0, <2>2, <4>1
      <4>3. Child(m, x, o) = y BY <1>2, <1>3, <3>3, <3>4
      <4>4. QED BY <4>2, <4>3
    <3>5. CASE l.parent[y] # n
      <4>1. y # Child(l, n, TRUE) /\ y # Child(l, n, FALSE)
        <5>1. \A e \in BOOLEAN : Child(l, n, e) # Null => l.parent[Child(l, n, e)] = n BY <1>5
        <5>2. QED BY <3>1, <3>5, <5>1
      <4>2. m.parent[y] = l.parent[y] BY <1>3, <2>0, <2>2, <4>1
      <4>3. l.parent[y] \in Node /\ l.parent[y] # x BY <1>2, <3>2
      <4>4. ~(l.parent[y] = p /\ o = s) BY <1>1, <3>1, <3>3
      <4>5. Child(m, l.parent[y], o) = y BY <1>3, <3>3, <4>3, <4>4
      <4>6. QED BY <3>2, <3>5, <4>2, <4>5
    <3>6. QED BY <3>4, <3>5
  <2>3. QED BY <2>1, <2>2
<1>16. ASSUME NEW y \in U, NEW o \in BOOLEAN
       PROVE  /\ E[y] = {y} \cup E[Child(m, y, o)] \cup E[Child(m, y, ~o)]
              /\ \A z \in E[Child(m, y, o)] : On(o, z, y)
  <2>1. PICK e \in BOOLEAN : e = ~o OBVIOUS
  <2>2. CASE y = x
    <3> DEFINE a == Child(l, n, o)
               b == Child(l, n, e)
    <3>1. /\ D[n] = {n} \cup D[a] \cup D[b] /\ n \notin D[a] /\ n \notin D[b]
          /\ \A z \in D[a] : On(o, z, n) /\ z \in Key
          /\ D[a] \subseteq T
      <4>1. D[n] = {n} \cup D[a] \cup D[b] BY <2>1 DEF IsTree
      <4>2. QED BY <2>1, <4>1, Parts
    <3>2. Child(m, y, o) = a /\ Child(m, y, e) = b BY <1>2, <1>3, <2>2
    <3>3. a \in NodeOrNull /\ b \in NodeOrNull /\ a # x /\ b # x BY <1>2, <1>4
    <3> HIDE DEF a, b
    <3>4. E[a] = D[a] /\ E[b] = D[b] BY <1>10, <3>1, <3>3
    <3>5. E[y] = (D[n] \ {n}) \cup {x} BY <1>2, <1>10, <2>2
    <3>6. E[y] = {y} \cup E[a] \cup E[b] BY <2>2, <3>1, <3>4, <3>5
    <3>7. ASSUME NEW z \in D[a] PROVE On(o, z, x)
      <4>1. On(o, z, n) /\ z \in T /\ z # n /\ z \in Int BY <1>2, <3>1
      <4>2. Beside(x, x, n, z) BY <4>1
      <4>3. QED BY <1>2, <4>1, <4>2 DEF On, Beside
    <3>8. QED BY <2>1, <2>2, <3>2, <3>4, <3>6, <3>7
  <2>3. CASE y # x
    <3> DEFINE a == Child(l, y, o)
               b == Child(l, y, e)
    <3>0. y \in T /\ y # n /\ y \in Node /\ y \in Int /\ y \in NodeOrNull BY <1>2, <2>3
    <3>1. D[y] = {y} \cup D[a] \cup D[b] /\ \A z \in D[a] : On(o, z, y)
      BY <2>1, <3>0 DEF IsTree
    <3>2. E[Child(m, y, o)] = Moved(D[a]) /\ E[Child(m, y, e)] = Moved(D[b])
      <4> HIDE DEF Moved
      <4>1. QED BY <1>11, <2>3, <3>0
    <3>3. E[y] = Moved(D[y])
      <4> HIDE DEF Moved
      <4>1. QED BY <1>10, <2>3, <3>0
    <3> HIDE DEF a, b
    <3>4. Moved(D[y]) = {y} \cup Moved(D[a]) \cup Moved(D[b]) BY <3>0, <3>1
    <3>5. ASSUME NEW z \in Moved(D[a]) PROVE On(o, z, y)
      <4>1. CASE z \in D[a] BY <3>1, <4>1
      <4>2. CASE z = x /\ n \in D[a]
        <5>1. On(o, n, y) /\ Beside(x, x, n, y) BY <3>0, <3>1, <4>2
        <5>2. QED BY <1>2, <3>0, <4>2, <5>1 DEF On, Beside
      <4>3. QED BY <4>1, <4>2
    <3>6. QED BY <2>1, <3>2, <3>3, <3>4, <3>5
  <2>4. QED BY <2>2, <2>3
<1>17. IsTree(m, U, E)
  <2>1. U \subseteq Key BY <1>2
  <2> HIDE DEF U
  <2>2. QED BY <1>3, <1>9, <1>10, <1>13, <1>14, <1>15, <1>16, <2>1 DEF IsTree
<1>18. QED BY <1>17 DEF m

=============================================================================
