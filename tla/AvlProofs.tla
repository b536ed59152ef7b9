----------------------------- MODULE AvlProofs -----------------------------
(***************************************************************************)
(* Proofs about module AvlTable, for any number of keys: that the links    *)
(* stay a search tree of the elements in use and the restart key one of    *)
(* them, that every balance factor is the difference of the heights below  *)
(* its node, and that the table does what OrderedTable promises.           *)
(*                                                                         *)
(* Heights are a function h from nodes to numbers that the factors agree   *)
(* with.  Inside a call the heights differ from what the factors say on    *)
(* one side of one node only: side t of node a is d higher or lower than   *)
(* it was told, and the loop up the tree moves that place upwards.         *)
(***************************************************************************)
EXTENDS AvlTrees

\* The height of one side of n.  The heights h are those that the balance factors
\* stand for: side t of node a differs by d, which they do not know yet.
SideHeight(l, h, a, t, d, n, s) ==
  IF n = a /\ s = t THEN h[Child(l, n, s)] + d ELSE h[Child(l, n, s)]

\* A node of height k with balance factor b has sides of height x and y.
Leans(x, y, b, k) == b = y - x /\ k = 1 + IF x > y THEN x ELSE y

\* The balance factor of n and its height are those of its sides.
LevelAt(l, h, a, t, d, n) ==
  Leans(SideHeight(l, h, a, t, d, n, TRUE), SideHeight(l, h, a, t, d, n, FALSE),
        l.balance[n], h[n])

\* The same of a node below which nothing differs.
Even(l, h, n) == Leans(h[l.left[n]], h[l.right[n]], l.balance[n], h[n])

\* So it is at every node of the tree, whose own height is e.
Levels(l, T, h, a, t, d, e) ==
  /\ h \in [NodeOrNull -> Nat] /\ h[Null] = 0
  /\ \A n \in T : LevelAt(l, h, a, t, d, n)
  /\ SideHeight(l, h, a, t, d, Head, FALSE) = e

\* m is l with the nodes of W relinked among themselves; top is where n was.
Grafts(m, l, T, W, n, top) ==
  /\ n \in W /\ top \in W /\ W \subseteq T /\ l.parent[n] \notin W
  /\ \A w \in W \ {n} : l.parent[w] \in W
  /\ \A z \in (T \cup {Head}) \ W, o \in BOOLEAN :
       Child(m, z, o) = IF Child(l, z, o) = n THEN top ELSE Child(l, z, o)
  /\ \A z \in T \ W : m.balance[z] = l.balance[z]

\* m is l with another balance factor at n.
Weighs(m, l, n, b) ==
  /\ m \in Links /\ m.left = l.left /\ m.right = l.right /\ m.parent = l.parent
  /\ m.balance = [l.balance EXCEPT ![n] = b]

\* RtlSetBalance changes one factor.
LEMMA SetBalanceLinks ==
  ASSUME NEW l \in Links, NEW n, NEW b \in -1 .. 1
  PROVE  Weighs(SetBalance(l, n, b), l, n, b)
BY DEF Weighs, SetBalance, Links

\* Heights are numbers.
LEMMA HeightType ==
  ASSUME NEW l, NEW T, NEW D, IsTree(l, T, D), NEW h \in [NodeOrNull -> Nat], h[Null] = 0
  PROVE  /\ \A n \in T \cup {Head, Null} : h[n] \in Nat /\ n \in NodeOrNull
         /\ \A n \in Node, s \in BOOLEAN : h[Child(l, n, s)] \in Nat
<1>1. \A n \in T : n \in NodeOrNull BY Self
<1>2. Head \in NodeOrNull /\ Null \in NodeOrNull BY DEF NodeOrNull, Node
<1>3. \A n \in Node, s \in BOOLEAN : Child(l, n, s) \in T \cup {Null} BY DEF IsTree
<1>4. \A n \in T \cup {Head, Null} : h[n] \in Nat /\ n \in NodeOrNull BY <1>1, <1>2
<1>5. \A n \in Node, s \in BOOLEAN : h[Child(l, n, s)] \in Nat BY <1>3, <1>4
<1>6. QED BY <1>4, <1>5

\* A balance factor from either side.
LEMMA EvenSide ==
  ASSUME NEW l, NEW h, NEW n, NEW s \in BOOLEAN,
         h[Child(l, n, s)] \in Int, h[Child(l, n, ~s)] \in Int
  PROVE  LET x == h[Child(l, n, s)]
             y == h[Child(l, n, ~s)]
         IN  Even(l, h, n) <=> /\ l.balance[n] = IF s THEN y - x ELSE x - y
                               /\ h[n] = 1 + IF x > y THEN x ELSE y
<1>1. CASE s = TRUE BY <1>1 DEF Even, Leans, Child
<1>2. CASE s = FALSE
  <2>1. h[l.right[n]] \in Int /\ h[l.left[n]] \in Int BY <1>2 DEF Child
  <2>2. /\ Child(l, n, s) = l.right[n] /\ Child(l, n, ~s) = l.left[n] BY <1>2 DEF Child
  <2>3. QED BY <1>2, <2>1, <2>2 DEF Even, Leans
<1>3. QED BY <1>1, <1>2

\* Where nothing differs, the two notions are one.
LEMMA EvenLevel ==
  ASSUME NEW l, NEW h, NEW a, NEW t \in BOOLEAN, NEW d, NEW n, n # a \/ d = 0,
         \A o \in BOOLEAN : h[Child(l, n, o)] \in Int
  PROVE  LevelAt(l, h, a, t, d, n) <=> Even(l, h, n)
<1> DEFINE x == h[Child(l, n, TRUE)]
           y == h[Child(l, n, FALSE)]
<1>1. \A s \in BOOLEAN : SideHeight(l, h, a, t, d, n, s) = h[Child(l, n, s)]
  BY DEF SideHeight
<1>2. LevelAt(l, h, a, t, d, n) <=> Leans(x, y, l.balance[n], h[n]) BY <1>1 DEF LevelAt
<1>3. QED BY <1>2 DEF Even, Child

\* A change below a node is seen above it as a change of one height.
LEMMA GraftLevels ==
  ASSUME NEW l, NEW T, NEW D, IsTree(l, T, D), NEW n \in T, NEW m, NEW E, IsTree(m, T, E),
         NEW h, NEW t \in BOOLEAN, NEW d, NEW e, Levels(l, T, h, n, t, d, e),
         NEW W, NEW top, Grafts(m, l, T, W, n, top),
         NEW u \in BOOLEAN, Child(l, l.parent[n], u) = n,
         NEW g \in [NodeOrNull -> Nat],
         \A x \in NodeOrNull \ W : g[x] = h[x],
         \A w \in W : Even(m, g, w)
  PROVE  Levels(m, T, g, l.parent[n], u, h[n] - g[top], e)
<1> DEFINE p == l.parent[n]
           c == h[n] - g[top]
<1>1. /\ h \in [NodeOrNull -> Nat] /\ h[Null] = 0 /\ T \subseteq Node /\ Head \in Node
      /\ Head \notin T /\ n # Head /\ Null \notin Node /\ p \in T \cup {Head} /\ top \in T
  <2>1. h \in [NodeOrNull -> Nat] /\ h[Null] = 0 BY DEF Levels
  <2>2. T \subseteq Node /\ Head \notin T BY Self
  <2>3. top \in T BY DEF Grafts
  <2>4. QED BY <2>1, <2>2, <2>3, Nodes, Up DEF Node
<1>2. g[Null] = 0
  <2>1. Null \in NodeOrNull /\ Null \notin W BY <1>1 DEF NodeOrNull, Grafts
  <2>2. QED BY <1>1, <2>1
<1>3. /\ \A x \in Node, o \in BOOLEAN : h[Child(l, x, o)] \in Nat /\ g[Child(m, x, o)] \in Nat
      /\ h[n] \in Nat /\ g[top] \in Nat /\ c \in Int
  BY <1>1, <1>2, HeightType
<1>4. ASSUME NEW z \in (T \cup {Head}) \ W, NEW o \in BOOLEAN
      PROVE  SideHeight(m, g, p, u, c, z, o) = SideHeight(l, h, n, t, d, z, o)
  <2> DEFINE k == Child(l, z, o)
  <2>1. z # n /\ z \in Node BY <1>1 DEF Grafts
  <2>2. SideHeight(l, h, n, t, d, z, o) = h[k] BY <1>3, <2>1 DEF SideHeight
  <2>3. Child(m, z, o) = IF k = n THEN top ELSE k BY DEF Grafts
  <2>4. CASE k = n
    <3>1. l.parent[n] = z BY <1>1, <2>4, Self DEF IsTree
    <3>2. Child(l, p, ~u) # n BY OneSide
    <3>3. z = p /\ o = u BY <2>4, <3>1, <3>2
    <3>4. SideHeight(m, g, p, u, c, z, o) = g[top] + c BY <2>3, <2>4, <3>3 DEF SideHeight
    <3>5. g[top] + c = h[n] BY <1>3
    <3>6. QED BY <2>2, <2>4, <3>4, <3>5
  <2>5. CASE k # n
    <3>1. ~(z = p /\ o = u) BY <2>5
    <3>2. Child(m, z, o) = k BY <2>3, <2>5
    <3>3. k \notin W
      <4>1. SUFFICES ASSUME k \in W PROVE FALSE OBVIOUS
      <4>2. k \in T /\ l.parent[k] \in W BY <2>5, <4>1 DEF Grafts
      <4>3. k # Null BY <1>1, <4>2
      <4>4. l.parent[k] = z BY <4>3 DEF IsTree
      <4>5. QED BY <4>2, <4>4
    <3>4. k \in NodeOrNull BY <1>1, <2>1 DEF IsTree, NodeOrNull
    <3>5. g[k] = h[k] BY <3>3, <3>4
    <3>6. g[Child(m, z, o)] \in Nat BY <1>3, <2>1
    <3> HIDE DEF c, p, k
    <3>7. SideHeight(m, g, p, u, c, z, o) = g[k] BY <3>1, <3>2, <3>6 DEF SideHeight
    <3>8. QED BY <2>2, <3>5, <3>7
  <2>6. QED BY <2>4, <2>5
<1> HIDE DEF c, p
<1>5. ASSUME NEW z \in T PROVE LevelAt(m, g, p, u, c, z)
  <2>1. CASE z \in W
    <3>1. p \notin W BY DEF Grafts, p
    <3>2. z # p /\ Even(m, g, z) /\ z \in Node BY <1>1, <2>1, <3>1
    <3>3. \A o \in BOOLEAN : g[Child(m, z, o)] \in Int BY <1>3, <3>2
    <3>4. QED BY <3>2, <3>3, EvenLevel
  <2>2. CASE z \notin W
    <3>1. m.balance[z] = l.balance[z] BY <2>2 DEF Grafts
    <3>2. g[z] = h[z] BY <1>1, <2>2 DEF NodeOrNull
    <3>3. LevelAt(l, h, n, t, d, z) BY DEF Levels
    <3>4. \A o \in BOOLEAN :
            SideHeight(m, g, p, u, c, z, o) = SideHeight(l, h, n, t, d, z, o)
      BY <1>4, <2>2
    <3>5. QED BY <3>1, <3>2, <3>3, <3>4 DEF LevelAt
  <2>3. QED BY <2>1, <2>2
<1>6. SideHeight(m, g, p, u, c, Head, FALSE) = e
  <2>1. Head \notin W BY <1>1 DEF Grafts
  <2>2. SideHeight(l, h, n, t, d, Head, FALSE) = e BY DEF Levels
  <2>3. QED BY <1>4, <2>1, <2>2
<1>7. QED BY <1>2, <1>5, <1>6 DEF Levels, p, c

-----------------------------------------------------------------------------
(* Rotations: one promotion, or two of the inner node.                     *)

\* Nothing outside the tree T and its header is changed from l to m.
Apart(m, l, T) ==
  /\ \A x \in Node \ T : m.parent[x] = l.parent[x] /\ m.balance[x] = l.balance[x]
  /\ \A x \in Node \ (T \cup {Head}), s \in BOOLEAN : Child(m, x, s) = Child(l, x, s)

\* A node hangs below its parent on one side, and nowhere else.
LEMMA OnlyChild ==
  ASSUME NEW l, NEW T, NEW D, IsTree(l, T, D), NEW n \in T, NEW u \in BOOLEAN,
         Child(l, l.parent[n], u) = n, NEW z \in T \cup {Head}, NEW o \in BOOLEAN
  PROVE  Child(l, z, o) = n <=> z = l.parent[n] /\ o = u
<1>1. n # Null BY Self
<1>2. Child(l, z, o) = n => z = l.parent[n] BY <1>1 DEF IsTree
<1>3. Child(l, l.parent[n], ~u) # n BY OneSide
<1>4. QED BY <1>2, <1>3

\* A rotation leaves the balance factors to its caller.
LEMMA PromoteType ==
  ASSUME NEW l, NEW T, NEW D, IsTree(l, T, D), NEW n \in T, l.parent[n] \in T
  PROVE  Promote(l, n) \in Links /\ Promote(l, n).balance = l.balance
<1>1. PICK s \in BOOLEAN : Child(l, l.parent[n], s) = n BY Up
<1>2. PICK u \in BOOLEAN : Child(l, l.parent[l.parent[n]], u) = l.parent[n] BY Up
<1>3. QED BY <1>1, <1>2, PromoteLinks

\* The two children of a node are not the same.
LEMMA TwoChildren ==
  ASSUME NEW l, NEW T, NEW D, IsTree(l, T, D), NEW n \in T, NEW s \in BOOLEAN,
         NEW o \in BOOLEAN, s # o, Child(l, n, o) # Null
  PROVE  Child(l, n, s) # Child(l, n, o)
<1> DEFINE k == Child(l, n, o)
<1>1. k \in T /\ l.parent[k] = n
  <2>1. n \in Node BY Self
  <2>2. QED BY <2>1 DEF IsTree
<1>2. Child(l, l.parent[k], o) = k BY <1>1
<1> HIDE DEF k
<1>3. Child(l, n, s) = k <=> n = l.parent[k] /\ s = o BY <1>1, <1>2, OnlyChild
<1>4. QED BY <1>3 DEF k

\* A child c of n on side o was promoted.
Once(m, l, T, n, c, o) ==
  /\ c # n /\ c \in T /\ Grafts(m, l, T, {n, c}, n, c) /\ Apart(m, l, T)
  /\ m.parent[n] = c /\ m.parent[c] = l.parent[n]
  /\ Child(m, n, o) = Child(l, c, ~o) /\ Child(m, n, ~o) = Child(l, n, ~o)
  /\ Child(m, c, o) = Child(l, c, o) /\ Child(m, c, ~o) = n

\* What one RtlpPromoteAvlTreeNode of the heavy child does (avlsupp.c 135-146).
LEMMA RotateOnce ==
  ASSUME NEW l, NEW T, NEW D, IsTree(l, T, D), NEW n \in T, NEW o \in BOOLEAN,
         NEW c, c = Child(l, n, o), c # Null, NEW m \in Links,
         m.left = Promote(l, c).left, m.right = Promote(l, c).right,
         m.parent = Promote(l, c).parent,
         \A z \in Node \ {n, c} : m.balance[z] = l.balance[z]
  PROVE  (\E E : IsTree(m, T, E)) /\ Once(m, l, T, n, c, o)
<1> DEFINE v == Promote(l, c)
           p == l.parent[n]
<1>1. c \in T /\ l.parent[c] = n /\ n \in Node /\ c \in Node
  <2>1. n \in Node BY Self
  <2>2. c \in T /\ l.parent[c] = n BY <2>1 DEF IsTree
  <2>3. QED BY <2>1, <2>2, Self
<1>2. PICK u \in BOOLEAN : Child(l, p, u) = n BY Up
<1>3. p \in T \cup {Head} /\ p \in Node
  <2>1. p \in T \cup {Head} BY Up
  <2>2. QED BY <2>1, Self DEF Node
<1>4. PICK i \in BOOLEAN : i = ~o OBVIOUS
<1> DEFINE inner == Child(l, c, i)
<1>5. /\ v \in Links /\ c # n /\ p # n /\ p # c
      /\ \A x \in Node, q \in BOOLEAN :
           Child(v, x, q) = IF x = n /\ q = o THEN inner
                            ELSE IF x = c /\ q = i THEN n
                            ELSE IF x = p /\ q = u THEN c
                            ELSE Child(l, x, q)
      /\ \A x \in Node : v.parent[x] = IF x = c THEN p ELSE IF x = n THEN c
                                      ELSE IF x = inner THEN n ELSE l.parent[x]
  BY <1>1, <1>2, <1>4, PromoteLinks
<1>6. PICK E : IsTree(v, T, E) BY <1>1, PromoteTree
<1>7. /\ m.left = v.left /\ m.right = v.right /\ m.parent = v.parent OBVIOUS
<1> HIDE DEF v, p, inner
<1>8. \A x \in Node, q \in BOOLEAN : Child(m, x, q) = Child(v, x, q) BY <1>7 DEF Child
<1>9. IsTree(m, T, E)
  <2>1. \A x \in Node \ (T \cup {Head}), q \in BOOLEAN : Child(m, x, q) \in T \cup {Null}
    BY <1>6, <1>8 DEF IsTree
  <2>2. QED BY <1>6, <1>7, <2>1, SameTree
<1>10. /\ Child(m, n, o) = Child(l, c, i) /\ Child(m, n, i) = Child(l, n, i)
       /\ Child(m, c, o) = Child(l, c, o) /\ Child(m, c, i) = n
  <2>1. inner = Child(l, c, i) /\ o # i BY <1>4 DEF inner
  <2>2. p # n /\ p # c /\ n # c BY <1>5
  <2>3. Child(v, n, o) = inner BY <1>1, <1>5
  <2>4. Child(v, n, i) = Child(l, n, i) BY <1>1, <1>5, <2>1, <2>2
  <2>5. Child(v, c, o) = Child(l, c, o) BY <1>1, <1>5, <2>1, <2>2
  <2>6. Child(v, c, i) = n BY <1>1, <1>5, <2>2
  <2>7. QED BY <1>1, <1>8, <2>1, <2>3, <2>4, <2>5, <2>6
<1>11. m.parent[n] = c /\ m.parent[c] = p BY <1>1, <1>5, <1>7
<1>12. \A z \in (T \cup {Head}) \ {n, c}, q \in BOOLEAN :
         Child(m, z, q) = IF Child(l, z, q) = n THEN c ELSE Child(l, z, q)
  <2>1. SUFFICES ASSUME NEW z \in (T \cup {Head}) \ {n, c}, NEW q \in BOOLEAN
                 PROVE  Child(m, z, q) = IF Child(l, z, q) = n THEN c ELSE Child(l, z, q)
    OBVIOUS
  <2>2. Child(l, z, q) = n <=> z = p /\ q = u BY <1>2, OnlyChild DEF p
  <2>3. z \in Node BY Self DEF Node
  <2>4. QED BY <1>5, <1>8, <2>2, <2>3
<1>13. Grafts(m, l, T, {n, c}, n, c)
  <2>1. \A z \in T : z \in Node BY Self
  <2>2. \A z \in T \ {n, c} : m.balance[z] = l.balance[z] BY <2>1
  <2>3. l.parent[n] \notin {n, c} BY <1>5 DEF p
  <2>4. QED BY <1>1, <1>12, <2>2, <2>3 DEF Grafts
<1>14. Apart(m, l, T)
  <2>1. ASSUME NEW x \in Node \ T
        PROVE  m.parent[x] = l.parent[x] /\ m.balance[x] = l.balance[x]
    <3>1. inner \in T \cup {Null} BY <1>1 DEF inner, IsTree
    <3>2. x # inner /\ x # n /\ x # c BY <1>1, <3>1, Nodes
    <3>3. m.parent[x] = l.parent[x] BY <1>5, <1>7, <3>2
    <3>4. QED BY <3>2, <3>3
  <2>2. ASSUME NEW x \in Node \ (T \cup {Head}), NEW q \in BOOLEAN
        PROVE  Child(m, x, q) = Child(l, x, q)
    <3>1. x # n /\ x # c /\ x # p BY <1>1, <1>3
    <3>2. QED BY <1>5, <1>8, <3>1
  <2>3. QED BY <2>1, <2>2 DEF Apart
<1>15. QED
  <2>1. Once(m, l, T, n, c, o) BY <1>1, <1>4, <1>5, <1>10, <1>11, <1>13, <1>14 DEF Once, p
  <2>2. QED BY <1>9, <2>1

\* The inner child of c, itself the child of n on side o, was promoted twice.
Twice(m, l, T, n, c, s, o) ==
  /\ s # n /\ s # c /\ c # n /\ s \in T /\ c \in T
  /\ Grafts(m, l, T, {n, c, s}, n, s) /\ Apart(m, l, T)
  /\ m.parent[n] = s /\ m.parent[s] = l.parent[n]
  /\ Child(m, n, o) = Child(l, s, ~o) /\ Child(m, n, ~o) = Child(l, n, ~o)
  /\ Child(m, c, o) = Child(l, c, o) /\ Child(m, c, ~o) = Child(l, s, o)
  /\ Child(m, s, o) = c /\ Child(m, s, ~o) = n

\* What the two of the inner child do (avlsupp.c 148-183).
LEMMA RotateTwice ==
  ASSUME NEW l, NEW T, NEW D, IsTree(l, T, D), NEW n \in T, NEW o \in BOOLEAN,
         NEW c, c = Child(l, n, o), c # Null,
         NEW s, s = Child(l, c, ~o), s # Null, NEW m \in Links,
         m.left = Promote(Promote(l, s), s).left, m.right = Promote(Promote(l, s), s).right,
         m.parent = Promote(Promote(l, s), s).parent,
         \A z \in Node \ {n, c, s} : m.balance[z] = l.balance[z]
  PROVE  (\E E : IsTree(m, T, E)) /\ Twice(m, l, T, n, c, s, o)
<1> DEFINE v == Promote(l, s)
           w == Promote(v, s)
<1>0. PICK i \in BOOLEAN : i = ~o OBVIOUS
<1>1. c \in T /\ s \in T /\ l.parent[c] = n /\ l.parent[s] = c
      /\ n \in Node /\ c \in Node /\ s \in Node /\ s = Child(l, c, i)
  <2>1. n \in Node BY Self
  <2>2. c \in T /\ l.parent[c] = n BY <2>1 DEF IsTree
  <2>3. c \in Node BY <2>2, Self
  <2>4. s = Child(l, c, i) BY <1>0
  <2>5. s \in T /\ l.parent[s] = c BY <2>2, <2>3, <2>4 DEF IsTree
  <2>6. QED BY <2>1, <2>2, <2>3, <2>4, <2>5, Self
<1>2. PICK u \in BOOLEAN : Child(l, l.parent[n], u) = n BY Up
<1>3. /\ v \in Links /\ v.balance = l.balance
  <2>1. l.parent[c] = n /\ Child(l, n, o) = c BY <1>1
  <2>2. QED BY <1>1, <2>1, PromoteLinks
<1> HIDE DEF v
<1>4. \A z \in Node \ {c, s} : v.balance[z] = l.balance[z] BY <1>3
<1>5. PICK E : IsTree(v, T, E) BY <1>1, <1>3, <1>4, RotateOnce DEF v
<1>6. Once(v, l, T, c, s, i) BY <1>1, <1>3, <1>4, RotateOnce DEF v
<1>7. s = Child(v, n, o)
  <2>1. Child(l, n, o) = c /\ n \notin {c, s} /\ n \in (T \cup {Head}) \ {c, s}
    BY <1>1, <1>6 DEF Once, Grafts
  <2>2. QED BY <1>6, <2>1 DEF Once, Grafts
<1>8. w \in Links /\ w.balance = v.balance
  <2>1. v.parent[s] = n BY <1>1, <1>6 DEF Once
  <2>2. PICK a \in BOOLEAN : Child(v, v.parent[n], a) = n BY <1>5, Up
  <2>3. QED BY <1>1, <1>5, <1>7, <2>1, <2>2, PromoteLinks
<1>9. m.left = w.left /\ m.right = w.right /\ m.parent = w.parent BY DEF v
<1> HIDE DEF w
<1>10. (\E F : IsTree(w, T, F)) /\ Once(w, v, T, n, s, o)
  <2>1. \A z \in Node \ {n, s} : w.balance[z] = v.balance[z] BY <1>8
  <2>2. s # Null /\ w.left = Promote(v, s).left /\ w.right = Promote(v, s).right
        /\ w.parent = Promote(v, s).parent
    BY DEF w
  <2>3. QED BY <1>5, <1>7, <1>8, <2>1, <2>2, RotateOnce
<1>11. \A x \in Node, a \in BOOLEAN : Child(m, x, a) = Child(w, x, a) BY <1>9 DEF Child
<1>12. \E F : IsTree(m, T, F)
  <2>1. PICK F : IsTree(w, T, F) BY <1>10
  <2>2. \A x \in Node \ (T \cup {Head}), a \in BOOLEAN : Child(m, x, a) \in T \cup {Null}
    BY <2>1, <1>11 DEF IsTree
  <2>3. IsTree(m, T, F) BY <1>9, <2>1, <2>2, SameTree
  <2>4. QED BY <2>3
<1>13. c # n /\ s # c /\ s # n
  <2>1. n \notin D[c] /\ c \in D[c] BY <1>1, Parts, Self
  <2>2. QED BY <1>6, <1>10, <2>1 DEF Once
<1>14. l.parent[n] # c /\ l.parent[n] # s
  <2>1. D[c] \subseteq D[n] /\ c \in D[c] BY <1>1, Parts, Self
  <2>2. D[s] \subseteq D[c] /\ s \in D[s] BY <1>1, Parts, Self
  <2>3. l.parent[n] \in T => l.parent[n] \notin D[n] BY Up
  <2>4. QED BY <1>1, <2>1, <2>2, <2>3
<1>15. /\ Child(m, n, o) = Child(l, s, i) /\ Child(m, n, i) = Child(l, n, i)
       /\ Child(m, s, o) = c /\ Child(m, s, i) = n
  <2>1. Child(w, n, o) = Child(v, s, i) /\ Child(w, n, i) = Child(v, n, i)
        /\ Child(w, s, o) = Child(v, s, o) /\ Child(w, s, i) = n
    BY <1>0, <1>10 DEF Once
  <2>2. Child(v, s, i) = Child(l, s, i) /\ Child(v, s, o) = c
    BY <1>0, <1>6, EitherSide DEF Once
  <2>3. Child(v, n, i) = Child(l, n, i)
    <3>1. Child(l, n, i) # c
      <4>1. Child(l, n, ~o) # Child(l, n, o)
        <5>1. l.parent[c] = n /\ Child(l, n, o) = c BY <1>1
        <5>2. QED BY <1>1, <5>1, OneSide
      <4>2. QED BY <1>0, <4>1
    <3>2. n \in (T \cup {Head}) \ {c, s} BY <1>13
    <3>3. QED BY <1>6, <3>1, <3>2 DEF Once, Grafts
  <2>4. QED BY <1>1, <1>11, <2>1, <2>2, <2>3
<1>16. Child(m, c, o) = Child(l, c, o) /\ Child(m, c, i) = Child(l, s, o)
  <2>1. Child(v, c, i) = Child(l, s, o) /\ Child(v, c, o) = Child(l, c, o)
    BY <1>0, <1>6, EitherSide DEF Once
  <2>2. ASSUME NEW a \in BOOLEAN PROVE Child(w, c, a) = Child(v, c, a)
    <3>1. c \in (T \cup {Head}) \ {n, s} BY <1>1, <1>13
    <3>2. Child(w, c, a) = IF Child(v, c, a) = n THEN s ELSE Child(v, c, a)
      BY <1>10, <3>1 DEF Once, Grafts
    <3>3. Child(v, c, a) # n
      <4>1. SUFFICES ASSUME Child(v, c, a) = n PROVE FALSE OBVIOUS
      <4>2. CASE a = i
        <5>1. Child(l, s, o) = n BY <2>1, <4>1, <4>2
        <5>2. l.parent[n] = s BY <1>1, <5>1, Self DEF IsTree
        <5>3. QED BY <1>14, <5>2
      <4>3. CASE a = o
        <5>1. Child(l, c, o) = n BY <2>1, <4>1, <4>3
        <5>2. l.parent[n] = c BY <1>1, <5>1, Self DEF IsTree
        <5>3. QED BY <1>14, <5>2
      <4>4. QED BY <1>0, <4>2, <4>3
    <3>4. QED BY <3>2, <3>3
  <2>3. QED BY <1>1, <1>11, <2>1, <2>2
<1>17. Grafts(m, l, T, {n, c, s}, n, s)
  <2>1. ASSUME NEW z \in (T \cup {Head}) \ {n, c, s}, NEW a \in BOOLEAN
        PROVE  Child(m, z, a) = IF Child(l, z, a) = n THEN s ELSE Child(l, z, a)
    <3>1. z \in Node BY Self DEF Node
    <3>2. Child(w, z, a) = IF Child(v, z, a) = n THEN s ELSE Child(v, z, a)
      BY <1>10, <2>1 DEF Once, Grafts
    <3>3. Child(v, z, a) = IF Child(l, z, a) = c THEN s ELSE Child(l, z, a)
      BY <1>6, <2>1 DEF Once, Grafts
    <3>4. Child(l, z, a) # c
      <4>1. Child(l, z, a) = c => l.parent[c] = z BY <1>1, Self DEF IsTree
      <4>2. QED BY <1>1, <4>1
    <3>5. QED BY <1>11, <3>1, <3>2, <3>3, <3>4
  <2>2. \A z \in T \ {n, c, s} : m.balance[z] = l.balance[z] BY Self
  <2>3. l.parent[n] \notin {n, c, s} BY <1>14, Up, Self
  <2>4. \A z \in {n, c, s} \ {n} : l.parent[z] \in {n, c, s} BY <1>1
  <2>5. QED BY <1>1, <2>1, <2>2, <2>3, <2>4 DEF Grafts
<1>18. Apart(m, l, T)
  <2>1. ASSUME NEW x \in Node \ T
        PROVE  m.parent[x] = l.parent[x] /\ m.balance[x] = l.balance[x]
    <3>1. w.parent[x] = v.parent[x] /\ v.parent[x] = l.parent[x]
      BY <1>6, <1>10 DEF Once, Apart
    <3>2. x # n /\ x # c /\ x # s BY <1>1
    <3>3. QED BY <1>9, <3>1, <3>2
  <2>2. ASSUME NEW x \in Node \ (T \cup {Head}), NEW a \in BOOLEAN
        PROVE  Child(m, x, a) = Child(l, x, a)
    <3>1. Child(w, x, a) = Child(v, x, a) /\ Child(v, x, a) = Child(l, x, a)
      BY <1>6, <1>10 DEF Once, Apart
    <3>2. QED BY <1>11, <3>1
  <2>3. QED BY <2>1, <2>2 DEF Apart
<1>19. m.parent[n] = s /\ m.parent[s] = l.parent[n]
  <2>1. w.parent[n] = s /\ w.parent[s] = v.parent[n] BY <1>10 DEF Once
  <2>2. v.parent[n] = l.parent[n]
    <3>1. Child(v, l.parent[n], u) = n
      <4>1. l.parent[n] \in (T \cup {Head}) \ {c, s} BY <1>14, Up
      <4>2. n # c BY <1>13
      <4>3. QED BY <1>2, <1>6, <4>1, <4>2 DEF Once, Grafts
    <3>2. l.parent[n] \in T \cup {Head} BY Up
    <3>3. \A y \in T \cup {Head}, a \in BOOLEAN :
            Child(v, y, a) # Null => v.parent[Child(v, y, a)] = y
      BY <1>5 DEF IsTree
    <3>4. n # Null BY Self
    <3>5. QED BY <3>1, <3>2, <3>3, <3>4
  <2>3. QED BY <1>9, <2>1, <2>2
<1>20. Twice(m, l, T, n, c, s, o)
  BY <1>0, <1>1, <1>13, <1>15, <1>16, <1>17, <1>18, <1>19 DEF Twice
<1>21. QED BY <1>12, <1>20

-----------------------------------------------------------------------------
(* Heights after a rotation.                                               *)

\* The balance factor of a node that leans to side s.
Sign(s) == IF s THEN LeftHeavy ELSE RightHeavy

\* With nothing behind, it does not matter where.
LEMMA NothingBehind ==
  ASSUME NEW l, NEW T, NEW D, IsTree(l, T, D), NEW h, NEW e,
         NEW a, NEW t, NEW b, NEW u, Levels(l, T, h, a, t, 0, e)
  PROVE  Levels(l, T, h, b, u, 0, e)
<1>1. \A n \in Node, s \in BOOLEAN : h[Child(l, n, s)] \in Nat BY HeightType DEF Levels
<1>2. \A n \in Node, s \in BOOLEAN :
        SideHeight(l, h, a, t, 0, n, s) = SideHeight(l, h, b, u, 0, n, s)
  BY <1>1 DEF SideHeight
<1>3. \A n \in T \cup {Head} : n \in Node BY Self DEF Node
<1>4. ASSUME NEW n \in T PROVE LevelAt(l, h, b, u, 0, n)
  <2>1. \A s \in BOOLEAN : SideHeight(l, h, a, t, 0, n, s) = SideHeight(l, h, b, u, 0, n, s)
    BY <1>2, <1>3
  <2>2. QED BY <2>1 DEF Levels, LevelAt
<1>5. SideHeight(l, h, b, u, 0, Head, FALSE) = e
  <2>1. \A s \in BOOLEAN :
          SideHeight(l, h, a, t, 0, Head, s) = SideHeight(l, h, b, u, 0, Head, s)
    BY <1>2, <1>3
  <2>2. QED BY <2>1 DEF Levels
<1>6. QED BY <1>4, <1>5 DEF Levels

\* A node whose factor leans to side o already, when that side grew (d = -1) or
\* the other one shrank (d = 1): o is higher by two.
LEMMA TwoHigher ==
  ASSUME NEW l, NEW T, NEW D, IsTree(l, T, D), NEW n \in T, NEW o \in BOOLEAN,
         l.balance[n] = Sign(o), NEW h, NEW t \in BOOLEAN, NEW d, NEW e,
         Levels(l, T, h, n, t, d, e), (t = o /\ d = -1) \/ (t = ~o /\ d = 1)
  PROVE  LET x == h[Child(l, n, o)]
             y == h[Child(l, n, ~o)]
         IN  /\ y \in Nat /\ x = y + 2
             /\ h[n] = IF t = o THEN y + 2 ELSE y + 3
<1> DEFINE x == h[Child(l, n, o)]
           y == h[Child(l, n, ~o)]
           S(s) == SideHeight(l, h, n, t, d, n, s)
<1>0. PICK i \in BOOLEAN : i = ~o OBVIOUS
<1>1. \A s \in BOOLEAN : h[Child(l, n, s)] \in Nat
  <2>1. n \in Node BY Self
  <2>2. QED BY <2>1, HeightType DEF Levels
<1>2. x \in Nat /\ y \in Nat BY <1>0, <1>1
<1>3. S(o) = (IF t = o THEN x - 1 ELSE x) /\ S(i) = (IF t = o THEN y ELSE y + 1)
  <2>1. CASE t = o /\ d = -1
    <3>1. S(o) = x + d /\ S(i) = y BY <1>0, <2>1 DEF SideHeight
    <3>2. QED BY <1>2, <2>1, <3>1
  <2>2. CASE t = ~o /\ d = 1
    <3>1. S(o) = x /\ S(i) = y + d /\ t # o BY <1>0, <2>2 DEF SideHeight
    <3>2. QED BY <1>2, <2>2, <3>1
  <2>3. QED BY <2>1, <2>2
<1>4. LevelAt(l, h, n, t, d, n) BY DEF Levels
<1> HIDE DEF x, y
<1>5. CASE o = TRUE
  <2>1. i = FALSE BY <1>0, <1>5
  <2>2. Leans(S(o), S(i), l.balance[n], h[n]) BY <1>4, <1>5, <2>1 DEF LevelAt
  <2> HIDE DEF S
  <2>3. l.balance[n] = -1 BY <1>5 DEF Sign, LeftHeavy
  <2>4. QED BY <1>2, <1>3, <2>2, <2>3 DEF Leans, x, y
<1>6. CASE o = FALSE
  <2>1. i = TRUE BY <1>0, <1>6
  <2>2. Leans(S(i), S(o), l.balance[n], h[n]) BY <1>4, <1>6, <2>1 DEF LevelAt
  <2> HIDE DEF S
  <2>3. l.balance[n] = 1 BY <1>6 DEF Sign, RightHeavy
  <2>4. QED BY <1>2, <1>3, <2>2, <2>3 DEF Leans, x, y
<1>7. QED BY <1>5, <1>6

\* The subtree of n is balanced again in m; its new top, where n was, is c lower.
Settles(m, l, T, n, c, e) ==
  /\ Apart(m, l, T) /\ m.parent[n] \in T /\ m.parent[m.parent[n]] = l.parent[n]
  /\ \E E : IsTree(m, T, E)
  /\ \E u \in BOOLEAN : \E g : /\ Child(m, l.parent[n], u) = m.parent[n]
                               /\ Levels(m, T, g, l.parent[n], u, c, e)

\* The situation in which Rebalance is called, o being the heavy side of n.
Tilted(l, T, n, o, h, t, d, e) ==
  /\ n \in T /\ o \in BOOLEAN /\ t \in BOOLEAN /\ l.balance[n] = Sign(o)
  /\ Levels(l, T, h, n, t, d, e) /\ ((t = o /\ d = -1) \/ (t = ~o /\ d = 1))

\* The heavy child c of n, and the heights of its sides.
Heavy(l, T, n, o, i, h, t, c, y) ==
  /\ y \in Nat /\ h[n] = (IF t = o THEN y + 2 ELSE y + 3) /\ h[c] = y + 2
  /\ c # Null /\ c \in T /\ c # n /\ c \in Node /\ n \in Node /\ l.parent[c] = n
  /\ h[Child(l, c, o)] \in Nat /\ h[Child(l, c, i)] \in Nat
  /\ l.balance[c] = (IF o THEN h[Child(l, c, i)] - h[Child(l, c, o)]
            ELSE h[Child(l, c, o)] - h[Child(l, c, i)])
  /\ y + 1 = IF h[Child(l, c, o)] > h[Child(l, c, i)]
      THEN h[Child(l, c, o)] ELSE h[Child(l, c, i)]

\* The heavy child of a node that RtlpRebalanceAvlTreeNode gets is there, and leans to
\* either side or to none.
LEMMA HeavyChild ==
  ASSUME NEW l, NEW T, NEW D, IsTree(l, T, D), NEW n, NEW o, NEW h, NEW t, NEW d, NEW e,
         Tilted(l, T, n, o, h, t, d, e), NEW c, c = Child(l, n, o),
         NEW y, y = h[Child(l, n, ~o)], NEW i \in BOOLEAN, i = ~o
  PROVE  Heavy(l, T, n, o, i, h, t, c, y)
<1>1. /\ n \in T /\ o \in BOOLEAN /\ t \in BOOLEAN /\ Levels(l, T, h, n, t, d, e)
      /\ l.balance[n] = Sign(o) /\ ((t = o /\ d = -1) \/ (t = ~o /\ d = 1))
  BY DEF Tilted
<1>2. y \in Nat /\ h[c] = y + 2 /\ h[n] = IF t = o THEN y + 2 ELSE y + 3 BY <1>1, TwoHigher
<1>3. h \in [NodeOrNull -> Nat] /\ h[Null] = 0 BY <1>1 DEF Levels
<1>4. c # Null BY <1>2, <1>3
<1>5. n \in Node BY <1>1, Self
<1>6. c \in T /\ l.parent[c] = n BY <1>1, <1>4, <1>5 DEF IsTree
<1>7. c \in Node BY <1>6, Self
<1>8. c # n
  <2>1. n \notin D[c] /\ c \in D[c] BY <1>1, <1>6, Parts, Self
  <2>2. QED BY <2>1
<1>9. \A s \in BOOLEAN : h[Child(l, c, s)] \in Nat BY <1>3, <1>7, HeightType
<1>10. Even(l, h, c)
  <2>1. LevelAt(l, h, n, t, d, c) BY <1>1, <1>6 DEF Levels
  <2>2. \A s \in BOOLEAN : h[Child(l, c, s)] \in Int BY <1>9
  <2>3. QED BY <1>8, <2>1, <2>2, <1>1, EvenLevel
<1>11. /\ l.balance[c] = IF o THEN h[Child(l, c, ~o)] - h[Child(l, c, o)]
                              ELSE h[Child(l, c, o)] - h[Child(l, c, ~o)]
       /\ h[c] = 1 + IF h[Child(l, c, o)] > h[Child(l, c, ~o)]
                     THEN h[Child(l, c, o)] ELSE h[Child(l, c, ~o)]
  <2>1. h[Child(l, c, o)] \in Nat /\ h[Child(l, c, i)] \in Nat BY <1>1, <1>9
  <2>2. h[Child(l, c, o)] \in Int /\ h[Child(l, c, ~o)] \in Int BY <2>1
  <2>3. QED BY <1>1, <1>10, <2>2, EvenSide
<1>12. h[Child(l, c, o)] \in Nat /\ h[Child(l, c, i)] \in Nat BY <1>1, <1>9
<1>13. y + 1 = IF h[Child(l, c, o)] > h[Child(l, c, i)]
               THEN h[Child(l, c, o)] ELSE h[Child(l, c, i)]
  <2> DEFINE a == h[Child(l, c, o)]
             b == h[Child(l, c, i)]
  <2>1. y + 2 = 1 + IF a > b THEN a ELSE b BY <1>2, <1>11
  <2> HIDE DEF a, b
  <2>2. a \in Nat /\ b \in Nat BY <1>12 DEF a, b
  <2>3. y + 1 = IF a > b THEN a ELSE b BY <1>2, <2>1, <2>2
  <2>4. QED BY <2>3 DEF a, b
<1>14. QED BY <1>2, <1>4, <1>5, <1>6, <1>7, <1>8, <1>11, <1>12, <1>13 DEF Heavy

\* The heavy child c of n, the other side of n and the sides of c.
Around(l, n, o, i, h, c, y, a, z) ==
  /\ i \in BOOLEAN /\ i = ~o /\ c = Child(l, n, o) /\ y = h[Child(l, n, ~o)]
  /\ a = h[Child(l, c, o)] /\ z = h[Child(l, c, i)]

\* m has the links of v, and the balance factors of l outside W.
Relinks(m, v, l, W) ==
  /\ m \in Links /\ m.left = v.left /\ m.right = v.right /\ m.parent = v.parent
  /\ \A x \in Node \ W : m.balance[x] = l.balance[x]

\* A balance factor b and a height k fit sides of heights x (on side o) and y.
Fits(o, x, y, b, k) ==
  k \in Nat /\ b = (IF o THEN y - x ELSE x - y) /\ k = 1 + (IF x > y THEN x ELSE y)

\* One promotion settles, if the balance factors written fit the new heights.
LEMMA OnceSettles ==
  ASSUME NEW l, NEW T, NEW D, IsTree(l, T, D), NEW n, NEW o, NEW h, NEW t, NEW d, NEW e,
         Tilted(l, T, n, o, h, t, d, e), NEW i, NEW c, NEW y, NEW a, NEW z,
         Around(l, n, o, i, h, c, y, a, z), NEW m, Relinks(m, Promote(l, c), l, {n, c}),
         NEW kn, Fits(o, z, y, m.balance[n], kn), NEW kc, Fits(o, a, kn, m.balance[c], kc)
  PROVE  Settles(m, l, T, n, h[n] - kc, e)
<1>0. /\ i \in BOOLEAN /\ i = ~o /\ c = Child(l, n, o) /\ y = h[Child(l, n, ~o)]
      /\ a = h[Child(l, c, o)] /\ z = h[Child(l, c, i)]
      /\ m \in Links /\ m.left = Promote(l, c).left /\ m.right = Promote(l, c).right
      /\ m.parent = Promote(l, c).parent
      /\ \A x \in Node \ {n, c} : m.balance[x] = l.balance[x]
      /\ kn \in Nat /\ kc \in Nat
      /\ m.balance[n] = (IF o THEN y - z ELSE z - y) /\ kn = 1 + (IF z > y THEN z ELSE y)
      /\ m.balance[c] = (IF o THEN kn - a ELSE a - kn) /\ kc = 1 + (IF a > kn THEN a ELSE kn)
  BY DEF Around, Relinks, Fits
<1>1. /\ n \in T /\ o \in BOOLEAN /\ t \in BOOLEAN /\ Levels(l, T, h, n, t, d, e) BY DEF Tilted
<1>2. /\ y \in Nat /\ c # Null /\ c \in T /\ c # n /\ c \in Node /\ n \in Node
      /\ l.parent[c] = n /\ a \in Nat /\ z \in Nat
  <2>1. Heavy(l, T, n, o, i, h, t, c, y) BY <1>0, HeavyChild
  <2>2. QED BY <1>0, <2>1 DEF Heavy
<1>3. (\E E : IsTree(m, T, E)) /\ Once(m, l, T, n, c, o) BY <1>0, <1>1, <1>2, RotateOnce
<1>4. PICK E : IsTree(m, T, E) BY <1>3
<1>5. /\ Grafts(m, l, T, {n, c}, n, c) /\ Apart(m, l, T)
      /\ m.parent[n] = c /\ m.parent[c] = l.parent[n]
      /\ Child(m, n, o) = Child(l, c, i) /\ Child(m, n, i) = Child(l, n, i)
      /\ Child(m, c, o) = Child(l, c, o) /\ Child(m, c, i) = n
  BY <1>0, <1>3 DEF Once
<1> DEFINE g == [h EXCEPT ![n] = kn, ![c] = kc]
<1>6. h \in [NodeOrNull -> Nat] /\ n \in NodeOrNull /\ c \in NodeOrNull
  BY <1>1, <1>2 DEF Levels, NodeOrNull
<1>7. /\ g \in [NodeOrNull -> Nat] /\ g[n] = kn /\ g[c] = kc
      /\ \A x \in NodeOrNull \ {n, c} : g[x] = h[x]
  BY <1>0, <1>2, <1>6
<1> HIDE DEF g
<1>8. \A k \in (T \cup {Null}) \ {n, c} : g[k] = h[k] BY <1>7, Self DEF NodeOrNull
<1>14. /\ \A x \in T, s \in BOOLEAN : Child(l, x, s) \in T \cup {Null}
      /\ \A x \in T, s \in BOOLEAN :
           Child(l, x, s) # Null => l.parent[Child(l, x, s)] = x
  BY Self DEF IsTree
<1>15. n # Null /\ l.parent[n] # c /\ l.parent[n] # n BY <1>1, <1>5, Self DEF Grafts
<1>16. ASSUME NEW s \in BOOLEAN PROVE g[Child(l, c, s)] = h[Child(l, c, s)]
  <2> DEFINE k == Child(l, c, s)
  <2>1. k \in T \cup {Null} /\ (k # Null => l.parent[k] = c) BY <1>0, <1>2, <1>14
  <2> HIDE DEF k
  <2>2. k \notin {n, c} BY <1>2, <1>15, <2>1
  <2>3. g[k] = h[k] BY <1>8, <2>1, <2>2
  <2>4. QED BY <2>3 DEF k
<1>17. g[Child(l, n, i)] = h[Child(l, n, i)]
  <2> DEFINE k == Child(l, n, i)
  <2>1. k \in T \cup {Null} /\ (k # Null => l.parent[k] = n) BY <1>0, <1>1, <1>14
  <2>2. k # c
    <3>1. Child(l, l.parent[c], o) = c BY <1>0, <1>2
    <3>2. Child(l, l.parent[c], ~o) # c BY <1>1, <1>2, <3>1, OneSide
    <3>3. QED BY <1>0, <1>2, <3>2
  <2> HIDE DEF k
  <2>3. k # n BY <1>15, <2>1
  <2>4. g[k] = h[k] BY <1>8, <2>1, <2>2, <2>3
  <2>5. QED BY <2>4 DEF k
<1>9. h[Child(l, n, i)] = y BY <1>0
<1>10. Even(m, g, n)
  <2>1. g[Child(m, n, o)] = z /\ g[Child(m, n, ~o)] = y BY <1>0, <1>1, <1>5, <1>9, <1>16, <1>17
  <2> HIDE DEF Even
  <2>2. QED BY <1>0, <1>1, <1>2, <1>7, <2>1, EvenSide
<1>11. Even(m, g, c)
  <2>1. g[Child(m, c, o)] = a /\ g[Child(m, c, ~o)] = kn BY <1>0, <1>1, <1>5, <1>7, <1>16
  <2>2. QED BY <1>0, <1>1, <1>2, <1>7, <2>1, EvenSide
<1>12. PICK u \in BOOLEAN : Child(l, l.parent[n], u) = n BY <1>1, Up
<1>13. Levels(m, T, g, l.parent[n], u, h[n] - g[c], e)
  <2>1. \A w \in {n, c} : Even(m, g, w) BY <1>10, <1>11
  <2>2. QED BY <1>1, <1>4, <1>5, <1>7, <1>12, <2>1, GraftLevels
<1>18. Child(m, l.parent[n], u) = c
  <2>1. l.parent[n] \in (T \cup {Head}) \ {n, c} BY <1>1, <1>5, Up DEF Grafts
  <2>2. QED BY <1>5, <1>12, <2>1 DEF Grafts
<1>19. QED BY <1>2, <1>4, <1>5, <1>7, <1>13, <1>18 DEF Settles

\* So do two promotions of the inner child s of the heavy child c.
LEMMA TwiceSettles ==
  ASSUME NEW l, NEW T, NEW D, IsTree(l, T, D), NEW n, NEW o, NEW h, NEW t, NEW d, NEW e,
         Tilted(l, T, n, o, h, t, d, e), NEW i, NEW c, NEW y, NEW a, NEW z,
         Around(l, n, o, i, h, c, y, a, z),
         NEW s, s = Child(l, c, i), s # Null,
         NEW b, b = h[Child(l, s, o)], b \in Nat, NEW f, f = h[Child(l, s, i)], f \in Nat,
         NEW m, Relinks(m, Promote(Promote(l, s), s), l, {n, c, s}),
         NEW kn, Fits(o, f, y, m.balance[n], kn), NEW kc, Fits(o, a, b, m.balance[c], kc),
         NEW ks, Fits(o, kc, kn, m.balance[s], ks)
  PROVE  Settles(m, l, T, n, h[n] - ks, e)
<1>0. /\ i \in BOOLEAN /\ i = ~o /\ c = Child(l, n, o) /\ y = h[Child(l, n, ~o)]
      /\ a = h[Child(l, c, o)] /\ z = h[Child(l, c, i)] /\ m \in Links
      /\ m.left = Promote(Promote(l, s), s).left /\ m.right = Promote(Promote(l, s), s).right
      /\ m.parent = Promote(Promote(l, s), s).parent
      /\ \A x \in Node \ {n, c, s} : m.balance[x] = l.balance[x]
      /\ kn \in Nat /\ kc \in Nat /\ ks \in Nat
      /\ m.balance[n] = (IF o THEN y - f ELSE f - y) /\ kn = 1 + (IF f > y THEN f ELSE y)
      /\ m.balance[c] = (IF o THEN b - a ELSE a - b) /\ kc = 1 + (IF a > b THEN a ELSE b)
      /\ m.balance[s] = (IF o THEN kn - kc ELSE kc - kn)
      /\ ks = 1 + (IF kc > kn THEN kc ELSE kn)
  BY DEF Around, Relinks, Fits
<1>1. /\ n \in T /\ o \in BOOLEAN /\ t \in BOOLEAN /\ Levels(l, T, h, n, t, d, e) BY DEF Tilted
<1>2. /\ y \in Nat /\ c # Null /\ c \in T /\ c \in Node /\ n \in Node
      /\ l.parent[c] = n /\ a \in Nat
  <2>1. Heavy(l, T, n, o, i, h, t, c, y) BY ZenonT(30), <1>0, HeavyChild
  <2>2. QED BY <1>0, <2>1 DEF Heavy
<1>3. s \in T /\ s \in Node /\ l.parent[s] = c
  <2>1. s \in T /\ l.parent[s] = c BY <1>0, <1>2 DEF IsTree
  <2>2. QED BY <2>1, Self
<1>4. (\E E : IsTree(m, T, E)) /\ Twice(m, l, T, n, c, s, o)
  <2>1. s = Child(l, c, ~o) BY <1>0
  <2>2. QED BY SMTT(30), <1>0, <1>1, <1>2, <2>1, RotateTwice
<1>5. PICK E : IsTree(m, T, E) BY <1>4
<1>6. /\ Grafts(m, l, T, {n, c, s}, n, s) /\ Apart(m, l, T)
      /\ m.parent[n] = s /\ m.parent[s] = l.parent[n] /\ s # n /\ s # c /\ c # n
      /\ Child(m, n, o) = Child(l, s, i) /\ Child(m, n, i) = Child(l, n, i)
      /\ Child(m, c, o) = Child(l, c, o) /\ Child(m, c, i) = Child(l, s, o)
      /\ Child(m, s, o) = c /\ Child(m, s, i) = n
  BY <1>0, <1>4 DEF Twice
<1> DEFINE g == [h EXCEPT ![n] = kn, ![c] = kc, ![s] = ks]
<1>7. h \in [NodeOrNull -> Nat] /\ n \in NodeOrNull /\ c \in NodeOrNull /\ s \in NodeOrNull
  BY <1>1, <1>2, <1>3 DEF Levels, NodeOrNull
<1>8. /\ g \in [NodeOrNull -> Nat] /\ g[n] = kn /\ g[c] = kc /\ g[s] = ks
      /\ \A x \in NodeOrNull \ {n, c, s} : g[x] = h[x]
  BY <1>0, <1>6, <1>7
<1> HIDE DEF g
<1>9. \A k \in (T \cup {Null}) \ {n, c, s} : g[k] = h[k] BY <1>8, Self DEF NodeOrNull
<1>10. /\ \A x \in T, q \in BOOLEAN : Child(l, x, q) \in T \cup {Null}
       /\ \A x \in T, q \in BOOLEAN :
            Child(l, x, q) # Null => l.parent[Child(l, x, q)] = x
  BY Self DEF IsTree
<1>11. n # Null /\ l.parent[n] \notin {n, c, s} BY <1>1, <1>6, Self DEF Grafts
<1>12. ASSUME NEW q \in BOOLEAN PROVE g[Child(l, s, q)] = h[Child(l, s, q)]
  <2> DEFINE k == Child(l, s, q)
  <2>1. k \in T \cup {Null} /\ (k # Null => l.parent[k] = s) BY <1>0, <1>3, <1>10
  <2> HIDE DEF k
  <2>2. k \notin {n, c, s} BY <1>2, <1>3, <1>6, <1>11, <2>1
  <2>3. g[k] = h[k] BY <1>9, <2>1, <2>2
  <2>4. QED BY <2>3 DEF k
<1>13. g[Child(l, c, o)] = h[Child(l, c, o)]
  <2> DEFINE k == Child(l, c, o)
  <2>1. k \in T \cup {Null} /\ (k # Null => l.parent[k] = c) BY <1>0, <1>1, <1>2, <1>10
  <2>2. k # s
    <3>1. o # i BY <1>0, <1>1
    <3>2. Child(l, c, o) # Child(l, c, i) BY <1>0, <1>1, <1>2, <3>1, TwoChildren
    <3>3. QED BY <3>2
  <2> HIDE DEF k
  <2>3. k \notin {n, c} BY <1>2, <1>6, <1>11, <2>1
  <2>4. g[k] = h[k] BY <1>9, <2>1, <2>2, <2>3
  <2>5. QED BY <2>4 DEF k
<1>14. g[Child(l, n, i)] = h[Child(l, n, i)]
  <2> DEFINE k == Child(l, n, i)
  <2>1. k \in T \cup {Null} /\ (k # Null => l.parent[k] = n) BY <1>0, <1>1, <1>10
  <2>2. k # c
    <3>1. Child(l, l.parent[c], o) = c BY <1>0, <1>2
    <3>2. Child(l, l.parent[c], ~o) # c BY <1>1, <1>2, <3>1, OneSide
    <3>3. QED BY <1>0, <1>2, <3>2
  <2> HIDE DEF k
  <2>3. k \notin {n, s} BY <1>3, <1>6, <1>11, <2>1
  <2>4. g[k] = h[k] BY <1>9, <2>1, <2>2, <2>3
  <2>5. QED BY <2>4 DEF k
<1>15. Even(m, g, n)
  <2>1. g[Child(m, n, o)] = f /\ g[Child(m, n, ~o)] = y BY <1>0, <1>1, <1>6, <1>12, <1>14
  <2>2. QED BY SMTT(30), <1>1, <1>2, <1>8, <1>0, <2>1, EvenSide
<1>16. Even(m, g, c)
  <2>1. g[Child(m, c, o)] = a /\ g[Child(m, c, ~o)] = b BY <1>0, <1>1, <1>6, <1>12, <1>13
  <2>2. QED BY SMTT(30), <1>1, <1>2, <1>8, <1>0, <2>1, EvenSide
<1>17. Even(m, g, s)
  <2>1. g[Child(m, s, o)] = kc /\ g[Child(m, s, ~o)] = kn BY <1>0, <1>6, <1>8
  <2>2. QED BY SMTT(30), <1>1, <1>8, <1>0, <2>1, EvenSide
<1>18. PICK u \in BOOLEAN : Child(l, l.parent[n], u) = n BY <1>1, Up
<1>19. Levels(m, T, g, l.parent[n], u, h[n] - g[s], e)
  <2>1. \A w \in {n, c, s} : Even(m, g, w) BY <1>15, <1>16, <1>17
  <2>2. QED BY SMTT(30), <1>1, <1>5, <1>6, <1>0, <1>8, <1>18, <2>1, GraftLevels
<1>20. Child(m, l.parent[n], u) = s
  <2>1. l.parent[n] \in (T \cup {Head}) \ {n, c, s} BY <1>1, <1>11, Up
  <2>2. QED BY <1>6, <1>18, <2>1 DEF Grafts
<1>21. QED BY <1>3, <1>5, <1>6, <1>8, <1>19, <1>20 DEF Settles

\* Rebalance settles the subtree.  If the heavy child leant to neither side, which
\* a side that has grown never is, the height is what it was before the loss.
LEMMA RebalanceSettles ==
  ASSUME NEW l, NEW T, NEW D, IsTree(l, T, D), NEW n, NEW o, NEW h, NEW t, NEW d, NEW e,
         Tilted(l, T, n, o, h, t, d, e), t = o => l.balance[Child(l, n, o)] # Balanced
  PROVE  Settles(Rebalance(l, n).links, l, T, n,
                 IF t = o \/ Rebalance(l, n).still THEN 0 ELSE 1, e)
<1> DEFINE c == Child(l, n, o)
           y == h[Child(l, n, ~o)]
<1>0. PICK i \in BOOLEAN : i = ~o OBVIOUS
<1> DEFINE s == Child(l, c, i)
           a == h[Child(l, c, o)]
           z == h[Child(l, c, i)]
           b == Sign(o)
           r == Rebalance(l, n)
<1>1. /\ n \in T /\ o \in BOOLEAN /\ t \in BOOLEAN /\ Levels(l, T, h, n, t, d, e)
      /\ l.balance[n] = b
  BY DEF Tilted
<1>2. Heavy(l, T, n, o, i, h, t, c, y) BY <1>0, HeavyChild
<1> HIDE DEF c, y, s, a, z
<1>3. /\ y \in Nat /\ h[n] = (IF t = o THEN y + 2 ELSE y + 3) /\ a \in Nat /\ z \in Nat
      /\ c # Null /\ c \in T /\ c # n /\ c \in Node /\ n \in Node /\ l.parent[c] = n
      /\ l.balance[c] = (IF o THEN z - a ELSE a - z)
      /\ y + 1 = (IF a > z THEN a ELSE z)
  BY <1>2 DEF Heavy, a, z
<1>4. l \in Links /\ l.balance[c] \in -1 .. 1 BY <1>3 DEF IsTree, Links
<1>5. (b # RightHeavy) = o /\ (b = RightHeavy) = i
  BY <1>0, <1>1 DEF Sign, LeftHeavy, RightHeavy
<1>6. b = (IF o THEN -1 ELSE 1) BY DEF Sign, LeftHeavy, RightHeavy
<1> HIDE DEF b
<1>8. b \in -1 .. 1 /\ -b \in -1 .. 1 /\ b # -b /\ b # 0
  <2>1. b = -1 \/ b = 1 BY <1>6
  <2>2. QED BY <2>1
<1>9. Around(l, n, o, i, h, c, y, a, z)
  BY <1>0 DEF Around, c, y, a, z
<1> DEFINE w == Promote(Promote(l, s), s)
           after == AfterDouble(b, w.balance[s])
           single == [Promote(l, c) EXCEPT !.balance[n] = Balanced, !.balance[c] = Balanced]
           double == [w EXCEPT !.balance[n] = after.node, !.balance[c] = after.child,
                               !.balance[s] = Balanced]
           flat == [Promote(l, c) EXCEPT !.balance[c] = -b]
<1>7. r = CASE l.balance[c] = b -> [still |-> FALSE, links |-> single]
            [] l.balance[c] = -b -> [still |-> FALSE, links |-> double]
            [] OTHER -> [still |-> TRUE, links |-> flat]
  <2>1. c = Child(l, n, l.balance[n] # RightHeavy) BY <1>1, <1>5 DEF c
  <2>2. s = Child(l, c, l.balance[n] = RightHeavy) BY <1>1, <1>5 DEF s
  <2>3. QED BY <1>1, <2>1, <2>2, Zenon DEF Rebalance
<1> HIDE DEF single, double, flat, r

<1>10. CASE l.balance[c] = b
  <2>1. r.links = single /\ r.still = FALSE BY <1>7, <1>8, <1>10
  <2>2. a = y + 1 /\ z = y BY <1>3, <1>6, <1>10
  <2> DEFINE v == Promote(l, c)
             m == single
             kn == y + 1
             kc == y + 2
  <2>3. v \in Links /\ v.balance = l.balance BY <1>1, <1>3, PromoteType
  <2>4. /\ m \in Links /\ m.left = v.left /\ m.right = v.right /\ m.parent = v.parent
        /\ m.balance = [l.balance EXCEPT ![n] = 0, ![c] = 0]
    <3> DEFINE k == SetBalance(v, n, 0)
    <3> HIDE DEF v
    <3>1. single = SetBalance(k, c, 0) BY DEF v, single, Balanced, SetBalance
    <3>2. Weighs(k, v, n, 0) BY <2>3, SetBalanceLinks
    <3> HIDE DEF k
    <3>4. k \in Links BY <3>2 DEF Weighs
    <3>3. Weighs(single, k, c, 0) BY <3>1, <3>4, SetBalanceLinks
    <3>5. QED BY <2>3, <3>2, <3>3 DEF Weighs
  <2>5. /\ m.balance[n] = 0 /\ m.balance[c] = 0
        /\ \A x \in Node \ {n, c} : m.balance[x] = l.balance[x]
    BY <1>3, <1>4, <2>4 DEF Links
  <2> HIDE DEF m
  <2>6. Fits(o, z, y, m.balance[n], kn) /\ Fits(o, a, kn, m.balance[c], kc)
    BY <1>3, <2>2, <2>5 DEF Fits
  <2> HIDE DEF kn, kc
  <2>7. Settles(m, l, T, n, h[n] - kc, e)
    <3>1. Relinks(m, Promote(l, c), l, {n, c}) BY <2>4, <2>5 DEF Relinks
    <3>2. QED BY <1>9, <2>6, <3>1, OnceSettles
  <2>8. h[n] - kc = IF t = o THEN 0 ELSE 1 BY <1>3 DEF kc
  <2>9. QED BY <2>1, <2>7, <2>8 DEF m, r
<1>11. CASE l.balance[c] = Balanced
  <2>0. t # o BY <1>9, <1>11 DEF Around
  <2>1. r.links = flat /\ r.still = TRUE
    <3>1. l.balance[c] # b /\ l.balance[c] # -b BY <1>8, <1>11 DEF Balanced
    <3>2. QED BY <1>7, <3>1
  <2>2. a = y + 1 /\ z = y + 1 BY <1>3, <1>6, <1>11 DEF Balanced
  <2> DEFINE v == Promote(l, c)
             m == flat
             kn == y + 2
             kc == y + 3
  <2>3. v \in Links /\ v.balance = l.balance BY <1>1, <1>3, PromoteType
  <2>4. /\ m \in Links /\ m.left = v.left /\ m.right = v.right /\ m.parent = v.parent
        /\ m.balance = [l.balance EXCEPT ![c] = -b]
    <3> HIDE DEF v
    <3>1. flat = SetBalance(v, c, -b) BY DEF v, flat, SetBalance
    <3>2. Weighs(flat, v, c, -b) BY <1>8, <2>3, <3>1, SetBalanceLinks
    <3>3. QED BY <2>3, <3>2 DEF Weighs
  <2>5. /\ m.balance[n] = b /\ m.balance[c] = -b
        /\ \A x \in Node \ {n, c} : m.balance[x] = l.balance[x]
    BY <1>1, <1>3, <1>4, <2>4 DEF Links
  <2> HIDE DEF m
  <2>6. Fits(o, z, y, m.balance[n], kn) /\ Fits(o, a, kn, m.balance[c], kc)
    BY <1>3, <1>6, <2>2, <2>5 DEF Fits
  <2> HIDE DEF kn, kc
  <2>7. Settles(m, l, T, n, h[n] - kc, e)
    <3>1. Relinks(m, Promote(l, c), l, {n, c}) BY <2>4, <2>5 DEF Relinks
    <3>2. QED BY <1>9, <2>6, <3>1, OnceSettles
  <2>8. h[n] - kc = 0 BY <1>3, <2>0 DEF kc
  <2>9. QED BY <2>1, <2>7, <2>8 DEF m, r
<1>12. CASE l.balance[c] = -b
  <2>1. r.links = double /\ r.still = FALSE
    <3>1. l.balance[c] # b BY <1>8, <1>12
    <3>2. QED BY <1>7, <1>12, <3>1
  <2>2. a = y /\ z = y + 1 BY <1>3, <1>6, <1>12
  <2>3. s # Null /\ s \in T /\ s \in Node /\ s # n /\ s # c /\ h[s] = z /\ l.parent[s] = c
    <3>1. h[Null] = 0 /\ h[s] = z BY <1>1 DEF Levels, z, s
    <3>2. s # Null BY <1>3, <2>2, <3>1
    <3>3. s \in T /\ l.parent[s] = c BY <1>3, <3>2 DEF s, IsTree
    <3>4. s \in Node /\ s # c
      <4>1. c \notin D[s] /\ s \in D[s] BY <1>3, <3>3, Parts, Self DEF s
      <4>2. QED BY <3>3, <4>1, Self
    <3>5. s # n
      <4>1. c \in D[c] /\ D[s] \subseteq D[c] BY <1>3, Parts DEF s
      <4>2. n \notin D[c] BY <1>1, <1>3, Parts DEF c
      <4>3. s \in D[s] BY <3>3, Self
      <4>4. QED BY <4>1, <4>2, <4>3
    <3>6. QED BY <3>1, <3>2, <3>3, <3>4, <3>5
  <2> DEFINE v == Promote(l, s)
             m == double
             q == h[Child(l, s, o)]
             f == h[Child(l, s, i)]
             tilt == l.balance[s]
             kn == y + 1
             kc == y + 1
             ks == y + 2
  <2>4. s = Child(l, c, i) /\ (~(~o)) = o BY <1>1 DEF s
  <2>5. w \in Links /\ w.balance = l.balance
    <3>1. v \in Links /\ v.balance = l.balance BY <1>3, <2>3, PromoteType
    <3> HIDE DEF v
    <3>2. /\ v.left = Promote(l, s).left /\ v.right = Promote(l, s).right
          /\ v.parent = Promote(l, s).parent
      BY DEF v
    <3>3. (\E E : IsTree(v, T, E)) /\ Once(v, l, T, c, s, i)
      <4>1. \A x \in Node \ {c, s} : v.balance[x] = l.balance[x] BY <3>1
      <4>2. QED BY <1>3, <2>3, <2>4, <3>1, <3>2, <4>1, RotateOnce
    <3>4. PICK E : IsTree(v, T, E) BY <3>3
    <3>5. v.parent[s] \in T BY <1>1, <1>3, <3>3 DEF Once
    <3>6. w = Promote(v, s) BY DEF v, w
    <3>7. QED BY <2>3, <3>1, <3>4, <3>5, <3>6, PromoteType
  <2>6. q \in Nat /\ f \in Nat
    <3>1. h \in [NodeOrNull -> Nat] /\ h[Null] = 0 BY <1>1 DEF Levels
    <3>2. QED BY <1>1, <2>3, <3>1, HeightType
  <2>7. /\ tilt = (IF o THEN f - q ELSE q - f)
        /\ z = 1 + IF q > f THEN q ELSE f
    <3>1. LevelAt(l, h, n, t, d, s) BY <1>1, <2>3 DEF Levels
    <3>2. \A x \in BOOLEAN : h[Child(l, s, x)] \in Int
      <4>1. h \in [NodeOrNull -> Nat] /\ h[Null] = 0 BY <1>1 DEF Levels
      <4>2. QED BY <2>3, <4>1, HeightType
    <3>3. Even(l, h, s) BY <1>1, <2>3, <3>1, <3>2, EvenLevel
    <3>4. q \in Int /\ h[Child(l, s, ~o)] \in Int BY <1>0, <1>1, <3>2
    <3>5. QED BY <1>0, <1>1, <2>3, <3>3, <3>4, EvenSide
  <2>8. tilt \in -1 .. 1 BY <1>4, <2>3 DEF IsTree, Links
  <2>9. /\ after.node \in -1 .. 1 /\ after.node = (IF tilt = b THEN -b ELSE 0)
        /\ after.child \in -1 .. 1 /\ after.child = (IF tilt = -b THEN b ELSE 0)
    <3>1. w.balance[s] = tilt BY <2>5
    <3>2. after.node = (IF tilt = b THEN -b ELSE 0) /\ after.child = (IF tilt = -b THEN b ELSE 0)
      BY <3>1 DEF AfterDouble, Balanced
    <3>3. QED BY <1>8, <3>2
  <2>10. /\ m \in Links /\ m.left = w.left /\ m.right = w.right /\ m.parent = w.parent
         /\ m.balance = [l.balance EXCEPT ![n] = after.node, ![c] = after.child, ![s] = 0]
    <3> DEFINE j == SetBalance(w, n, after.node)
               k == SetBalance(j, c, after.child)
    <3> HIDE DEF w
    <3>1. double = SetBalance(k, s, 0) BY DEF double, w, Balanced, SetBalance
    <3> HIDE DEF after
    <3>2. Weighs(j, w, n, after.node) BY <2>5, <2>9, SetBalanceLinks
    <3> HIDE DEF j
    <3>3. j \in Links BY <3>2 DEF Weighs
    <3>4. Weighs(k, j, c, after.child) BY <2>9, <3>3, SetBalanceLinks
    <3> HIDE DEF k
    <3>5. k \in Links BY <3>4 DEF Weighs
    <3>6. Weighs(double, k, s, 0) BY <3>1, <3>5, SetBalanceLinks
    <3>7. QED BY <2>5, <3>2, <3>4, <3>6 DEF Weighs
  <2> HIDE DEF after, m
  <2>11. /\ m.balance[n] = after.node /\ m.balance[c] = after.child /\ m.balance[s] = 0
         /\ \A x \in Node \ {n, c, s} : m.balance[x] = l.balance[x]
    <3>1. l.balance \in [Node -> -1 .. 1] BY <1>4 DEF Links
    <3>2. QED BY <1>3, <2>3, <2>10, <3>1
  <2>12. Relinks(m, w, l, {n, c, s}) BY <2>10, <2>11 DEF Relinks
  <2> HIDE DEF q, f, tilt
  <2>13. Fits(o, f, y, m.balance[n], kn) /\ Fits(o, a, q, m.balance[c], kc)
         /\ Fits(o, kc, kn, m.balance[s], ks)
    <3>1. CASE o = TRUE
      <4>1. b = -1 /\ tilt = f - q BY <1>6, <2>7, <3>1
      <4>2. QED BY <1>3, <2>2, <2>6, <2>7, <2>8, <2>9, <2>11, <3>1, <4>1 DEF Fits
    <3>2. CASE o = FALSE
      <4>1. b = 1 /\ tilt = q - f BY <1>6, <2>7, <3>2
      <4>2. QED BY <1>3, <2>2, <2>6, <2>7, <2>8, <2>9, <2>11, <3>2, <4>1 DEF Fits
    <3>3. QED BY <1>1, <3>1, <3>2
  <2> HIDE DEF kn, kc, ks
  <2>14. q = h[Child(l, s, o)] /\ f = h[Child(l, s, i)] BY DEF q, f
  <2>15. Relinks(m, Promote(Promote(l, s), s), l, {n, c, s}) BY <2>12 DEF w
  <2>16. Settles(m, l, T, n, h[n] - ks, e)
    BY <1>9, <2>3, <2>4, <2>6, <2>13, <2>14, <2>15, TwiceSettles
  <2>17. h[n] - ks = IF t = o THEN 0 ELSE 1 BY <1>3 DEF ks
  <2>18. QED BY <2>1, <2>16, <2>17 DEF m, r
<1>13. l.balance[c] = b \/ l.balance[c] = Balanced \/ l.balance[c] = -b
  <2>1. b = -1 \/ b = 1 BY <1>6
  <2>2. QED BY <1>4, <2>1 DEF Balanced
<1>14. QED BY <1>10, <1>11, <1>12, <1>13

-----------------------------------------------------------------------------
(* The inductive invariant.                                                *)

\* A tree of the nodes T, with heights.
Shaped(l, T, a, t, d, e) ==
  (\E D : IsTree(l, T, D)) /\ (\E h : Levels(l, T, h, a, t, d, e))

\* The nodes that are not in use.
Clear(l, A) ==
  \A k \in Key \ A : /\ l.left[k] = Null /\ l.right[k] = Null /\ l.parent[k] = Null
                     /\ l.balance[k] = Balanced

\* The side of at that the loop is about, and by how much its height differs from
\* what the factors from at upwards say.
LateSide == IF pc = "grow" THEN IsLeftChild(links, from) ELSE side = LeftHeavy
Late == CASE pc = "grow" -> -1 [] pc = "shrink" -> 1 [] OTHER -> 0

\* NumberGenericTableElements counts the elements.
Counted == alive \subseteq Key /\ number = Cardinality(alive)

\* Between calls, and at the return of one, nothing is left of the loops.
IdleInv ==
  pc \in {"idle", "return"} =>
    /\ links.balance[Head] = Balanced
    /\ arg = Null /\ at = Null /\ from = Null /\ side = Balanced

\* In the loop of an insertion the new node is a leaf, and a subtree that has grown leans
\* to a side; the header is left heavy, which ends the loop.
GrowInv ==
  pc = "grow" =>
    /\ arg \in alive /\ from \in alive /\ at = links.parent[from] /\ side = Balanced
    /\ links.balance[Head] = LeftHeavy
    /\ links.balance[from] = Balanced => links.left[from] = Null /\ links.right[from] = Null

\* In the loop of a deletion at has lost a level on the given side, the enumeration has
\* left the node to delete, and DeleteNode is next to that node in the order.
ShrinkInv ==
  pc = "shrink" =>
    /\ arg \in alive /\ from \in alive /\ at \in InTree \cup {Head}
    /\ side \in {LeftHeavy, RightHeavy} /\ (at = Head => side = RightHeavy)
    /\ links.balance[Head] = Balanced /\ restart # arg
    /\ from # arg => \A z \in InTree : z = arg \/ Beside(from, from, arg, z)

\* The inductive invariant.
AvlInv ==
  /\ Counted /\ Clear(links, alive)
  /\ Shaped(links, InTree, at, LateSide, Late, depth)
  /\ restart \in alive \cup {Head, Null}
  /\ pc \in {"idle", "grow", "shrink", "return"} /\ (answer = <<>>) = (pc # "return")
  /\ IdleInv /\ GrowInv /\ ShrinkInv

\* A change of the balance of the header, or of a node outside, is not seen.
LEMMA HeadShaped ==
  ASSUME NEW l, NEW T, NEW a, NEW t, NEW d, NEW e, Shaped(l, T, a, t, d, e),
         NEW A, Clear(l, A), NEW b \in -1 .. 1
  PROVE  LET m == SetBalance(l, Head, b)
         IN  /\ Shaped(m, T, a, t, d, e) /\ Clear(m, A) /\ m.balance[Head] = b
             /\ Weighs(m, l, Head, b)
<1> DEFINE m == SetBalance(l, Head, b)
<1>1. PICK D : IsTree(l, T, D) BY DEF Shaped
<1>2. PICK h : Levels(l, T, h, a, t, d, e) BY DEF Shaped
<1>3. l \in Links BY <1>1 DEF IsTree
<1>4. Weighs(m, l, Head, b) BY <1>3, SetBalanceLinks
<1> HIDE DEF m
<1>5. /\ m \in Links /\ m.left = l.left /\ m.right = l.right /\ m.parent = l.parent
      /\ m.balance[Head] = b /\ \A x \in Node \ {Head} : m.balance[x] = l.balance[x]
  BY <1>3, <1>4 DEF Weighs, Links, Node
<1>6. IsTree(m, T, D)
  <2>1. \A x \in Node, s \in BOOLEAN : Child(m, x, s) = Child(l, x, s) BY <1>5 DEF Child
  <2>2. \A x \in Node \ (T \cup {Head}), s \in BOOLEAN : Child(m, x, s) \in T \cup {Null}
    BY <1>1, <2>1 DEF IsTree
  <2>3. QED BY <1>1, <1>5, <2>2, SameTree
<1>7. Levels(m, T, h, a, t, d, e)
  <2>1. \A x, s : SideHeight(m, h, a, t, d, x, s) = SideHeight(l, h, a, t, d, x, s)
    BY <1>5 DEF SideHeight, Child
  <2>2. \A x \in T : m.balance[x] = l.balance[x] BY <1>1, <1>5, Self
  <2>3. QED BY <1>2, <2>1, <2>2 DEF Levels, LevelAt
<1>8. Clear(m, A)
  <2>1. \A x \in Key : x \in Node \ {Head} BY Nodes DEF Node
  <2>2. QED BY <1>5, <2>1 DEF Clear
<1>9. QED BY <1>4, <1>5, <1>6, <1>7, <1>8 DEF Shaped, m

\* What a balance factor says of the sides t and ~t of its node.
LEMMA LevelFits ==
  ASSUME NEW l, NEW T, NEW D, IsTree(l, T, D), NEW n \in T, NEW h, NEW t \in BOOLEAN,
         NEW d \in Int, NEW e, Levels(l, T, h, n, t, d, e)
  PROVE  LET x == h[Child(l, n, t)]
             y == h[Child(l, n, ~t)]
         IN  x \in Nat /\ y \in Nat /\ Fits(t, x + d, y, l.balance[n], h[n])
<1> DEFINE x == h[Child(l, n, t)]
           y == h[Child(l, n, ~t)]
           S(s) == SideHeight(l, h, n, t, d, n, s)
<1>0. PICK i \in BOOLEAN : i = ~t OBVIOUS
<1>1. \A s \in BOOLEAN : h[Child(l, n, s)] \in Nat
  <2>1. n \in Node BY Self
  <2>2. QED BY <2>1, HeightType DEF Levels
<1>2. x \in Nat /\ y \in Nat BY <1>0, <1>1
<1>3. S(t) = x + d /\ S(i) = y BY <1>0 DEF SideHeight
<1>4. LevelAt(l, h, n, t, d, n) BY DEF Levels
<1>5. h[n] \in Nat
  <2>1. n \in NodeOrNull BY Self
  <2>2. QED BY <2>1 DEF Levels
<1> HIDE DEF x, y
<1>6. CASE t = TRUE
  <2>1. i = FALSE BY <1>0, <1>6
  <2>2. Leans(S(t), S(i), l.balance[n], h[n]) BY <1>4, <1>6, <2>1 DEF LevelAt
  <2> HIDE DEF S
  <2>3. Fits(t, x + d, y, l.balance[n], h[n])
    BY <1>2, <1>3, <1>5, <1>6, <2>2 DEF Leans, Fits
  <2>4. QED BY <1>2, <2>3 DEF x, y
<1>7. CASE t = FALSE
  <2>1. i = TRUE BY <1>0, <1>7
  <2>2. Leans(S(i), S(t), l.balance[n], h[n]) BY <1>4, <1>7, <2>1 DEF LevelAt
  <2> HIDE DEF S
  <2>3. Fits(t, x + d, y, l.balance[n], h[n])
    BY <1>2, <1>3, <1>5, <1>7, <2>2 DEF Leans, Fits
  <2>4. QED BY <1>2, <2>3 DEF x, y
<1>8. QED BY <1>6, <1>7

\* Side t of n differs by d; the factor b and the height k fit its true sides.
Reweighs(l, T, n, h, t, d, e, b, k) ==
  /\ n \in T /\ t \in BOOLEAN /\ Levels(l, T, h, n, t, d, e) /\ b \in -1 .. 1
  /\ Fits(t, h[Child(l, n, t)], h[Child(l, n, ~t)], b, k)

\* A new factor at n makes its subtree right; above it, its height is behind.
LEMMA WeighSettles ==
  ASSUME NEW l, NEW T, NEW D, IsTree(l, T, D), NEW n, NEW h, NEW t, NEW d, NEW e,
         NEW b, NEW k, Reweighs(l, T, n, h, t, d, e, b, k)
  PROVE  LET m == SetBalance(l, n, b)
         IN  /\ Weighs(m, l, n, b) /\ IsTree(m, T, D)
             /\ \E u \in BOOLEAN : \E g : /\ Child(m, l.parent[n], u) = n
                                          /\ Levels(m, T, g, l.parent[n], u, h[n] - k, e)
<1> DEFINE m == SetBalance(l, n, b)
           g == [h EXCEPT ![n] = k]
<1>0. /\ n \in T /\ t \in BOOLEAN /\ Levels(l, T, h, n, t, d, e) /\ b \in -1 .. 1
      /\ Fits(t, h[Child(l, n, t)], h[Child(l, n, ~t)], b, k)
  BY DEF Reweighs
<1>1. l \in Links /\ n \in Node /\ n \in NodeOrNull BY <1>0, Self DEF IsTree
<1>2. Weighs(m, l, n, b) BY <1>0, <1>1, SetBalanceLinks
<1> HIDE DEF m
<1>3. /\ m \in Links /\ m.left = l.left /\ m.right = l.right /\ m.parent = l.parent
      /\ m.balance[n] = b /\ \A x \in Node \ {n} : m.balance[x] = l.balance[x]
  BY <1>0, <1>1, <1>2 DEF Weighs, Links
<1>4. \A x, s : Child(m, x, s) = Child(l, x, s) BY <1>0, <1>3 DEF Child
<1>5. IsTree(m, T, D)
  <2>1. \A x \in Node \ (T \cup {Head}), s \in BOOLEAN : Child(m, x, s) \in T \cup {Null}
    BY <1>0, <1>4 DEF IsTree
  <2>2. QED BY <1>0, <1>3, <2>1, SameTree
<1>6. PICK u \in BOOLEAN : Child(l, l.parent[n], u) = n BY <1>0, Up
<1>7. l.parent[n] # n /\ l.parent[n] \in T \cup {Head} BY <1>0, Up, Self
<1>8. \A x \in T \cup {Head}, s \in BOOLEAN : Child(l, x, s) = n => l.parent[n] = x
  BY <1>0, Self DEF IsTree
<1>9. h \in [NodeOrNull -> Nat] /\ k \in Nat BY <1>0 DEF Levels, Fits
<1>10. /\ g \in [NodeOrNull -> Nat] /\ g[n] = k /\ \A x \in NodeOrNull \ {n} : g[x] = h[x]
  BY <1>0, <1>1, <1>9
<1> HIDE DEF g
<1>11. Grafts(m, l, T, {n}, n, n)
  <2>1. \A x \in T \ {n} : m.balance[x] = l.balance[x] BY <1>0, <1>3, Self
  <2>2. QED BY <1>0, <1>4, <1>7, <2>1 DEF Grafts
<1>12. Even(m, g, n)
  <2>1. ASSUME NEW s \in BOOLEAN PROVE g[Child(m, n, s)] = h[Child(l, n, s)] /\ h[Child(l, n, s)] \in Nat
    <3>1. Child(l, n, s) # n BY <1>0, <1>7, <1>8
    <3>2. Child(l, n, s) \in NodeOrNull
      <4>1. Child(l, n, s) \in T \cup {Null} BY <1>0, <1>1 DEF IsTree
      <4>2. QED BY <1>0, <4>1, Self DEF NodeOrNull
    <3>3. QED BY <1>0, <1>4, <1>9, <1>10, <3>1, <3>2
  <2>2. PICK i \in BOOLEAN : i = ~t OBVIOUS
  <2>3. /\ g[Child(m, n, t)] = h[Child(l, n, t)] /\ g[Child(m, n, t)] \in Int
        /\ g[Child(m, n, i)] = h[Child(l, n, i)] /\ g[Child(m, n, i)] \in Int
    BY <1>0, <2>1
  <2>4. g[Child(m, n, ~t)] = h[Child(l, n, ~t)] /\ g[Child(m, n, ~t)] \in Int
    BY <1>0, <2>2, <2>3
  <2>5. QED BY <1>0, <1>3, <1>10, <2>3, <2>4, EvenSide DEF Fits
<1>13. Levels(m, T, g, l.parent[n], u, h[n] - g[n], e)
  BY <1>0, <1>5, <1>6, <1>10, <1>11, <1>12, GraftLevels
<1>14. QED BY <1>0, <1>2, <1>4, <1>5, <1>6, <1>10, <1>13 DEF m

\* With nothing behind, it does not matter where.
LEMMA Anywhere ==
  ASSUME NEW l, NEW T, NEW a, NEW t, NEW e, Shaped(l, T, a, t, 0, e), NEW b, NEW u
  PROVE  Shaped(l, T, b, u, 0, e)
<1>1. PICK D : IsTree(l, T, D) BY DEF Shaped
<1>2. PICK h : Levels(l, T, h, a, t, 0, e) BY DEF Shaped
<1>3. Levels(l, T, h, b, u, 0, e) BY <1>1, <1>2, NothingBehind
<1>4. QED BY <1>1, <1>3 DEF Shaped

\* What Finish leaves is good between calls, if the tree it is given is.
LEMMA Finished ==
  ASSUME NEW l, NEW ans, ans # <<>>, Finish(l, ans),
         NEW a, NEW t, Shaped(l, alive', a, t, 0, depth'), Clear(l, alive'), Counted',
         restart' \in alive' \cup {Head, Null}
  PROVE  AvlInv'
<1> DEFINE m == SetBalance(l, Head, Balanced)
<1>1. Shaped(m, alive', a, t, 0, depth') /\ Clear(m, alive') /\ m.balance[Head] = Balanced
  <2>1. Balanced \in -1 .. 1 BY DEF Balanced
  <2>2. QED BY <2>1, HeadShaped
<1> HIDE DEF m
<1>2. /\ links' = m /\ pc' = "return" /\ answer' # <<>>
      /\ arg' = Null /\ at' = Null /\ from' = Null /\ side' = Balanced
  BY DEF Finish, m
<1>3. InTree' = alive' /\ Late' = 0 BY <1>2 DEF InTree, Late
<1>4. Shaped(m, alive', Null, LateSide', 0, depth') BY <1>1, Anywhere
<1>5. Shaped(links, InTree, at, LateSide, Late, depth)' BY <1>2, <1>3, <1>4
<1>6. IdleInv' /\ GrowInv' /\ ShrinkInv'
  BY <1>1, <1>2 DEF IdleInv, GrowInv, ShrinkInv
<1>7. QED BY <1>1, <1>2, <1>5, <1>6 DEF AvlInv

\* The first node.
LEMMA FirstShaped ==
  ASSUME NEW l, NEW a, NEW t, NEW e, Shaped(l, {}, a, t, 0, e), Clear(l, {}), NEW k \in Key
  PROVE  LET m == Attach(l, Head, FALSE, k)
         IN  Shaped(m, {k}, Null, FALSE, 0, 1) /\ Clear(m, {k})
<1> DEFINE m == Attach(l, Head, FALSE, k)
<1>1. PICK D : IsTree(l, {}, D) BY DEF Shaped
<1>2. PICK h : Levels(l, {}, h, a, t, 0, e) BY DEF Shaped
<1>3. l \in Links /\ Head \in Node /\ k \in Node /\ k \in NodeOrNull /\ k # Head /\ k # Null
      /\ Null \in NodeOrNull
  BY <1>1, Nodes DEF IsTree, Node, NodeOrNull
<1>4. Hangs(m, l, Head, FALSE, k)
  <2>1. FALSE \in BOOLEAN OBVIOUS
  <2>2. QED BY <1>3, <2>1, AttachLinks
<1>5. \A s \in BOOLEAN : Child(l, k, s) = Null BY DEF Clear, Child
<1>6. PICK E : IsTree(m, {k}, E) BY <1>1, <1>5, AttachFirst
<1> HIDE DEF m
<1>7. \A s \in BOOLEAN : Child(m, k, s) = Null BY <1>3, <1>4, <1>5 DEF Hangs
<1>8. m.left[k] = Null /\ m.right[k] = Null
  <2>1. PICK i, j \in BOOLEAN : i = TRUE /\ j = FALSE OBVIOUS
  <2>2. QED BY <1>7, <2>1 DEF Child
<1>9. m.right[Head] = k
  <2>1. Child(m, Head, FALSE) = k BY <1>3, <1>4 DEF Hangs
  <2>2. QED BY <2>1 DEF Child
<1>10. m.balance[k] = 0 BY <1>4 DEF Hangs, Clear, Balanced
<1> DEFINE g == [h EXCEPT ![k] = 1]
<1>11. g \in [NodeOrNull -> Nat] /\ g[Null] = 0 /\ g[k] = 1 BY <1>2, <1>3 DEF Levels
<1> HIDE DEF g
<1>12. Levels(m, {k}, g, Null, FALSE, 0, 1)
  <2>1. g[m.left[k]] = 0 /\ g[m.right[k]] = 0 BY <1>8, <1>11
  <2>2. LevelAt(m, g, Null, FALSE, 0, k)
    BY <1>3, <1>10, <1>11, <2>1 DEF LevelAt, Leans, SideHeight, Child
  <2>3. SideHeight(m, g, Null, FALSE, 0, Head, FALSE) = 1
    BY <1>3, <1>9, <1>11, Nodes DEF SideHeight, Child
  <2>4. QED BY <1>11, <2>2, <2>3 DEF Levels
<1>13. Clear(m, {k})
  <2> SUFFICES ASSUME NEW x \in Key \ {k}
               PROVE  /\ m.left[x] = Null /\ m.right[x] = Null /\ m.parent[x] = Null
                      /\ m.balance[x] = Balanced
    BY DEF Clear
  <2>1. /\ l.left[x] = Null /\ l.right[x] = Null /\ l.parent[x] = Null
        /\ l.balance[x] = Balanced
    BY DEF Clear
  <2>2. x \in Node /\ x # Head BY Nodes DEF Node
  <2>3. \A s \in BOOLEAN : Child(m, x, s) = Child(l, x, s) BY <1>4, <2>2 DEF Hangs
  <2>4. PICK i, j \in BOOLEAN : i = TRUE /\ j = FALSE OBVIOUS
  <2>5. m.left[x] = l.left[x] /\ m.right[x] = l.right[x] BY <2>3, <2>4 DEF Child
  <2>6. m.parent[x] = l.parent[x] /\ m.balance = l.balance BY <1>4, <2>2 DEF Hangs
  <2>7. QED BY <2>1, <2>5, <2>6
<1>14. QED BY <1>6, <1>12, <1>13 DEF Shaped, m

\* k belongs below n on side s, which is free.
Room(l, T, k, n, s) ==
  /\ k \in Key \ T /\ n \in T /\ s \in BOOLEAN /\ On(s, k, n) /\ Child(l, n, s) = Null
  /\ \A z \in T : z = n \/ Beside(k, k, n, z)

\* A leaf on the side of n where its key belongs: that side has grown by one.
LEMMA LeafShaped ==
  ASSUME NEW l, NEW T, NEW a, NEW t, NEW e, Shaped(l, T, a, t, 0, e), Clear(l, T),
         NEW k, NEW n, NEW s, Room(l, T, k, n, s)
  PROVE  LET m == Attach(l, n, s, k)
         IN  /\ Shaped(m, T \cup {k}, n, s, -1, e) /\ Clear(m, T \cup {k})
             /\ m.parent[k] = n /\ Child(m, n, s) = k
             /\ m.left[k] = Null /\ m.right[k] = Null
<1> DEFINE m == Attach(l, n, s, k)
           U == T \cup {k}
<1>0. /\ k \in Key \ T /\ n \in T /\ s \in BOOLEAN /\ On(s, k, n) /\ Child(l, n, s) = Null
      /\ \A z \in T : z = n \/ Beside(k, k, n, z)
  BY DEF Room
<1>1. PICK D : IsTree(l, T, D) BY DEF Shaped
<1>2. PICK h : Levels(l, T, h, a, t, 0, e) BY DEF Shaped
<1>3. /\ l \in Links /\ T \subseteq Key /\ n \in Node /\ n # Head /\ n # Null /\ k # n
      /\ k \in Node /\ k \in NodeOrNull /\ k # Head /\ k # Null /\ Null \in NodeOrNull
  <2>1. l \in Links /\ T \subseteq Key BY <1>0, <1>1 DEF IsTree
  <2>2. QED BY <1>0, <1>1, <2>1, Self, Nodes DEF Node, NodeOrNull
<1>4. Hangs(m, l, n, s, k) BY <1>0, <1>3, AttachLinks
<1>5. \A o \in BOOLEAN : Child(l, k, o) = Null BY <1>0 DEF Clear, Child
<1>6. PICK E : IsTree(m, U, E) BY <1>0, <1>1, <1>5, AttachLeaf
<1> HIDE DEF m
<1>7. \A o \in BOOLEAN : Child(m, k, o) = Null BY <1>0, <1>3, <1>4, <1>5 DEF Hangs
<1>8. m.parent[k] = n /\ Child(m, n, s) = k BY <1>0, <1>3, <1>4 DEF Hangs
<1>9. PICK i, j \in BOOLEAN : i = TRUE /\ j = FALSE OBVIOUS
<1>10. m.left[k] = Null /\ m.right[k] = Null BY <1>0, <1>7, <1>9 DEF Child
<1>11. m.balance = l.balance /\ m.balance[k] = 0 BY <1>0, <1>4 DEF Hangs, Clear, Balanced
<1> DEFINE g == [h EXCEPT ![k] = 1]
<1>12. /\ h \in [NodeOrNull -> Nat] /\ h[Null] = 0 /\ g \in [NodeOrNull -> Nat]
       /\ g[Null] = 0 /\ g[k] = 1 /\ \A x \in NodeOrNull \ {k} : g[x] = h[x]
  BY <1>0, <1>2, <1>3 DEF Levels
<1> HIDE DEF g
<1>13. \A x \in T \cup {Head}, o \in BOOLEAN :
         /\ Child(l, x, o) \in NodeOrNull \ {k}
         /\ ~(x = n /\ o = s) => Child(m, x, o) = Child(l, x, o)
  <2>1. T \subseteq Node \ {k} /\ Head \in Node BY <1>0, <1>3, Nodes DEF Node
  <2>2. \A x \in T \cup {Head}, o \in BOOLEAN : Child(l, x, o) \in T \cup {Null}
    BY <1>0, <1>1, <2>1 DEF IsTree
  <2>3. T \cup {Null} \subseteq NodeOrNull \ {k} BY <1>0, <1>3, <2>1 DEF NodeOrNull
  <2>4. QED BY <1>0, <1>4, <2>1, <2>2, <2>3 DEF Hangs
<1>14. \A x \in T \cup {Head}, o \in BOOLEAN :
         SideHeight(m, g, n, s, -1, x, o) = h[Child(l, x, o)]
  <2> TAKE x \in T \cup {Head}, o \in BOOLEAN
  <2>1. CASE x = n /\ o = s
    BY <1>0, <1>8, <1>12, <2>1 DEF SideHeight
  <2>2. CASE ~(x = n /\ o = s)
    BY <1>0, <1>12, <1>13, <2>2 DEF SideHeight
  <2>3. QED BY <1>0, <2>1, <2>2
<1>15. \A x \in T \cup {Head}, o \in BOOLEAN :
         SideHeight(l, h, a, t, 0, x, o) = h[Child(l, x, o)]
  <2>1. \A x \in T \cup {Head}, o \in BOOLEAN : h[Child(l, x, o)] \in Nat
    BY <1>0, <1>12, <1>13
  <2>2. QED BY <1>0, <2>1 DEF SideHeight
<1>16. Levels(m, U, g, n, s, -1, e)
  <2>1. ASSUME NEW x \in T PROVE LevelAt(m, g, n, s, -1, x)
    <3>1. LevelAt(l, h, a, t, 0, x) BY <1>0, <1>2 DEF Levels
    <3>2. \A o \in BOOLEAN :
            SideHeight(m, g, n, s, -1, x, o) = SideHeight(l, h, a, t, 0, x, o)
      BY <1>0, <1>14, <1>15
    <3>3. m.balance[x] = l.balance[x] /\ g[x] = h[x]
      BY <1>0, <1>1, <1>11, <1>12, Self
    <3>4. QED BY <1>0, <1>9, <3>1, <3>2, <3>3 DEF LevelAt
  <2>2. LevelAt(m, g, n, s, -1, k)
    <3>1. g[m.left[k]] = 0 /\ g[m.right[k]] = 0 BY <1>0, <1>10, <1>12
    <3>2. QED BY <1>0, <1>3, <1>11, <1>12, <3>1 DEF LevelAt, Leans, SideHeight, Child
  <2>3. SideHeight(m, g, n, s, -1, Head, FALSE) = e
    <3>1. \A o \in BOOLEAN :
            SideHeight(m, g, n, s, -1, Head, o) = SideHeight(l, h, a, t, 0, Head, o)
      BY <1>0, <1>14, <1>15
    <3>2. SideHeight(l, h, a, t, 0, Head, FALSE) = e BY <1>0, <1>2 DEF Levels
    <3>3. QED BY <1>0, <1>9, <3>1, <3>2
  <2>4. QED BY <1>0, <1>12, <2>1, <2>2, <2>3 DEF Levels
<1>17. Clear(m, U)
  <2> SUFFICES ASSUME NEW x \in Key \ U
               PROVE  /\ m.left[x] = Null /\ m.right[x] = Null /\ m.parent[x] = Null
                      /\ m.balance[x] = Balanced
    BY DEF Clear
  <2>1. /\ l.left[x] = Null /\ l.right[x] = Null /\ l.parent[x] = Null
        /\ l.balance[x] = Balanced
    BY DEF Clear
  <2>2. x \in Node /\ x # n /\ x # k BY <1>0 DEF Node
  <2>3. \A o \in BOOLEAN : Child(m, x, o) = Child(l, x, o) BY <1>0, <1>4, <2>2 DEF Hangs
  <2>4. m.left[x] = l.left[x] /\ m.right[x] = l.right[x] BY <1>0, <1>9, <2>3 DEF Child
  <2>5. m.parent[x] = l.parent[x] BY <1>0, <1>4, <2>2 DEF Hangs
  <2>6. QED BY <1>0, <1>11, <2>1, <2>4, <2>5
<1>18. QED BY <1>0, <1>6, <1>8, <1>10, <1>16, <1>17 DEF Shaped, m, U

\* The count of a set of keys follows what is added to and taken from it.
LEMMA AliveFinite ==
  ASSUME Counted
  PROVE  /\ IsFiniteSet(alive) /\ (number = 0) = (alive = {}) /\ number \in Nat
         /\ \A k \in Key \ alive : Cardinality(alive \cup {k}) = number + 1
         /\ \A k \in alive : Cardinality(alive \ {k}) = number - 1
         /\ number <= MaxKey
<1>1. IsFiniteSet(Key) /\ Cardinality(Key) = MaxKey
  BY FS_Interval, AvlAssumption DEF Key
<1>2. IsFiniteSet(alive) /\ Cardinality(alive) <= Cardinality(Key)
  BY <1>1, FS_Subset DEF Counted
<1>3. Cardinality(alive) \in Nat BY <1>2, FS_CardinalityType
<1>4. (Cardinality(alive) = 0) = (alive = {}) BY <1>2, FS_EmptySet
<1>5. \A k \in Key \ alive : Cardinality(alive \cup {k}) = number + 1
  BY <1>2, FS_AddElement DEF Counted
<1>6. \A k \in alive : Cardinality(alive \ {k}) = number - 1
  BY <1>2, FS_RemoveElement DEF Counted
<1>7. QED BY <1>1, <1>2, <1>3, <1>4, <1>5, <1>6 DEF Counted

\* What a search in a tree answers.
LEMMA SearchIs ==
  ASSUME Counted, NEW D, IsTree(links, alive, D), NEW lo \in Key, NEW hi \in Key, lo <= hi
  PROVE  LET s == Search(lo, hi)
         IN  /\ (s.result = "empty") = (alive = {})
             /\ s.result \in {"empty", "left", "right", "found"}
             /\ alive # {} =>
                  /\ s.node = FoundOrParent(links, lo, hi) /\ s.node \in alive
                  /\ (s.result = "left") = (hi < s.node)
                  /\ (s.result = "found") = (lo <= s.node /\ s.node <= hi)
             /\ s.result = "found" => s.node \in alive
<1>1. (number = 0) = (alive = {}) BY AliveFinite
<1> DEFINE n == FoundOrParent(links, lo, hi)
<1>2. alive # {} => n \in alive BY SearchEnds
<1> HIDE DEF n
<1>3. alive # {} => n \in Int BY <1>2, Self
<1>4. lo \in Int /\ hi \in Int BY Nodes
<1>5. number = 0 => Search(lo, hi) = [result |-> "empty", node |-> Null] BY DEF Search
<1>6. number # 0 => Search(lo, hi) =
         [node |-> n, result |-> IF hi < n THEN "left" ELSE IF n < lo THEN "right" ELSE "found"]
  BY DEF Search, n
<1>7. CASE number = 0 BY <1>1, <1>5, <1>7
<1>8. CASE number # 0
  <2>1. alive # {} /\ Search(lo, hi).node = n BY <1>1, <1>6, <1>8
  <2>2. Search(lo, hi).result =
          IF hi < n THEN "left" ELSE IF n < lo THEN "right" ELSE "found"
    BY <1>6, <1>8
  <2>3. QED BY <1>2, <1>3, <1>4, <2>1, <2>2 DEF n
<1>9. QED BY <1>7, <1>8

\* An answer is not the empty one that stands for no call.
LEMMA Answers ==
  /\ \A a, b, c : <<a, b, c>> # <<>>
  /\ \A a, b, c, d : <<a, b, c, d>> # <<>>
OBVIOUS

\* Between calls.
LEMMA Rests ==
  ASSUME AvlInv, pc = "idle"
  PROVE  /\ Counted /\ Clear(links, alive) /\ Shaped(links, alive, at, LateSide, 0, depth)
         /\ restart \in alive \cup {Head, Null} /\ side = Balanced
<1>1. InTree = alive /\ Late = 0 BY DEF AvlInv, InTree, Late
<1>2. QED BY <1>1 DEF AvlInv, IdleInv

\* A call that changes nothing but the restart key.
LEMMA ReplyKeeps ==
  ASSUME AvlInv, pc = "idle", NEW ans, ans # <<>>, Reply(ans),
         restart' \in alive \cup {Head, Null}
  PROVE  AvlInv'
<1>1. Finish(links, ans) /\ alive' = alive /\ number' = number /\ depth' = depth
  BY DEF Reply
<1>2. Counted' BY <1>1, Rests DEF Counted
<1>3. Shaped(links, alive', at, LateSide, 0, depth') /\ Clear(links, alive')
  BY <1>1, Rests
<1>4. QED BY <1>1, <1>2, <1>3, Finished

\* An insertion up to its loop keeps the invariant (avlsupp.c 208-252).
LEMMA InsertKeeps ==
  ASSUME AvlInv, pc = "idle", NEW k \in Key, Insert(k)
  PROVE  AvlInv'
<1> DEFINE s == Search(k, k)
           n == s.node
           new == <<"insert", k, k, TRUE>>
<1>1. /\ Counted /\ Clear(links, alive) /\ Shaped(links, alive, at, LateSide, 0, depth)
      /\ restart \in alive \cup {Head, Null} /\ side = Balanced
  BY Rests
<1>2. PICK D : IsTree(links, alive, D) BY <1>1 DEF Shaped
<1>3. k <= k BY Nodes
<1>4. /\ (s.result = "empty") = (alive = {})
      /\ s.result \in {"empty", "left", "right", "found"}
      /\ alive # {} => /\ n = FoundOrParent(links, k, k) /\ n \in alive
                       /\ (s.result = "left") = (k < n)
                       /\ (s.result = "found") = (k <= n /\ n <= k)
  BY <1>1, <1>2, <1>3, SearchIs
<1>5. s.result # "found" => k \notin alive
  <2>1. SUFFICES ASSUME k \in alive PROVE s.result = "found" OBVIOUS
  <2>2. n = k BY <1>2, <1>4, <2>1, SearchFinds
  <2>3. QED BY <1>3, <1>4, <2>1, <2>2
<1>6. new # <<>> BY Answers
<1>7. CASE Reply(<<"insert", k, n, FALSE>>) /\ restart' = restart
  <2>1. <<"insert", k, n, FALSE>> # <<>> BY Answers
  <2> HIDE DEF s
  <2>2. QED BY <1>1, <1>7, <2>1, ReplyKeeps
<1>8. CASE Reply(<<"insert", k, Null, FALSE>>) /\ restart' = restart
  <2>1. <<"insert", k, Null, FALSE>> # <<>> BY Answers
  <2>2. QED BY <1>1, <1>8, <2>1, ReplyKeeps
<1>9. CASE /\ s.result = "empty" /\ alive' = alive \cup {k} /\ number' = number + 1
           /\ depth' = 1 /\ Finish(Attach(links, Head, FALSE, k), new) /\ restart' = restart
  <2>1. alive = {} /\ alive' = {k} BY <1>4, <1>9
  <2>2. Counted' BY <1>1, <1>5, <1>9, <2>1, AliveFinite DEF Counted
  <2>3. Shaped(Attach(links, Head, FALSE, k), {k}, Null, FALSE, 0, 1)
        /\ Clear(Attach(links, Head, FALSE, k), {k})
    BY <1>1, <2>1, FirstShaped
  <2> HIDE DEF new
  <2>4. Finish(Attach(links, Head, FALSE, k), new) BY <1>9
  <2>5. restart' \in alive' \cup {Head, Null} BY <1>1, <1>9, <2>1
  <2>6. depth' = 1 BY <1>9
  <2>7. QED BY <1>6, <2>1, <2>2, <2>3, <2>4, <2>5, <2>6, Finished
<1>10. CASE /\ s.result # "found" /\ s.result # "empty"
            /\ alive' = alive \cup {k} /\ number' = number + 1
            /\ links' = SetBalance(Attach(links, n, s.result = "left", k), Head, LeftHeavy)
            /\ pc' = "grow" /\ arg' = k /\ from' = k /\ at' = n
            /\ depth' = depth /\ side' = side /\ answer' = answer /\ restart' = restart
  <2>1. n \in alive /\ k \notin alive /\ n = FoundOrParent(links, k, k)
    BY <1>4, <1>5, <1>10
  <2>2. PICK o \in BOOLEAN : o = (s.result = "left") OBVIOUS
  <2>3. o = (k < n) /\ ~(k <= n /\ n <= k) BY <1>4, <1>10, <2>1, <2>2
  <2> HIDE DEF s, n
  <2>4. k \in Int /\ n \in Int BY <1>2, <2>1, Nodes, Self
  <2>5. /\ Child(links, n, k < n) = Null
        /\ \A z \in alive : z = n \/ Beside(k, k, n, z)
    BY <1>2, <2>1, <2>3, SearchEnds
  <2>6. On(o, k, n) /\ Child(links, n, o) = Null /\ k \in Key \ alive
    <3>1. CASE o = TRUE BY <2>1, <2>3, <2>4, <2>5, <3>1 DEF On, Child
    <3>2. CASE o = FALSE
      <4>1. ~(k < n) BY <2>3, <3>2
      <4>2. n < k BY <2>3, <2>4, <4>1
      <4>3. links.right[n] = Null BY <2>5, <4>1 DEF Child
      <4>4. QED BY <2>1, <3>2, <4>2, <4>3 DEF On, Child
    <3>3. QED BY <3>1, <3>2
  <2> DEFINE m == Attach(links, n, o, k)
             v == SetBalance(m, Head, LeftHeavy)
  <2>7. /\ Shaped(m, alive \cup {k}, n, o, -1, depth) /\ Clear(m, alive \cup {k})
        /\ m.parent[k] = n /\ Child(m, n, o) = k /\ m.left[k] = Null /\ m.right[k] = Null
    <3>1. Room(links, alive, k, n, o) BY <2>1, <2>5, <2>6 DEF Room
    <3>2. QED BY <1>1, <3>1, LeafShaped
  <2> HIDE DEF m
  <2>8. /\ Shaped(v, alive \cup {k}, n, o, -1, depth) /\ Clear(v, alive \cup {k})
        /\ v.balance[Head] = LeftHeavy /\ Weighs(v, m, Head, LeftHeavy)
    <3>1. LeftHeavy \in -1 .. 1 BY DEF LeftHeavy
    <3>2. QED BY <2>7, <3>1, HeadShaped
  <2>9. links' = v BY <1>10, <2>2 DEF m, n
  <2> HIDE DEF v
  <2>10. /\ v.parent[k] = n /\ Child(v, n, o) = k /\ v.left[k] = Null /\ v.right[k] = Null
    BY <2>7, <2>8 DEF Weighs, Child
  <2>11. IsLeftChild(v, k) = o
    <3>1. PICK E : IsTree(v, alive \cup {k}, E) BY <2>8 DEF Shaped
    <3>2. QED BY <2>10, <3>1, OneSide
  <2>12. InTree' = alive \cup {k} /\ Late' = -1 /\ LateSide' = o
    BY <1>10, <2>9, <2>11 DEF InTree, Late, LateSide, IsLeftChild
  <2>13. at' = n /\ depth' = depth /\ alive' = alive \cup {k} BY <1>10
  <2>14. Shaped(links, InTree, at, LateSide, Late, depth)'
    BY <2>8, <2>9, <2>12, <2>13
  <2>15. Counted' BY <1>1, <1>10, <2>1, AliveFinite DEF Counted
  <2>16. GrowInv' BY <1>1, <1>10, <2>8, <2>9, <2>10 DEF GrowInv
  <2>17. IdleInv' /\ ShrinkInv' BY <1>10 DEF IdleInv, ShrinkInv
  <2>18. restart' \in alive' \cup {Head, Null} /\ Clear(links', alive')
    BY <1>1, <1>10, <2>8, <2>9
  <2>19. (answer' = <<>>) = (pc' # "return") BY <1>10 DEF AvlInv
  <2>20. QED BY <1>10, <2>14, <2>15, <2>16, <2>17, <2>18, <2>19 DEF AvlInv
<1>11. QED BY <1>7, <1>8, <1>9, <1>10 DEF Insert, loopVars

\* What is behind at the header is the height of the whole tree.
LEMMA HeadLate ==
  ASSUME NEW l, NEW T, NEW t, t = FALSE, NEW d \in Int, NEW e,
         Shaped(l, T, Head, t, d, e)
  PROVE  Shaped(l, T, Null, t, 0, e - d)
<1>1. PICK D : IsTree(l, T, D) BY DEF Shaped
<1>2. PICK h : Levels(l, T, h, Head, t, d, e) BY DEF Shaped
<1>3. h \in [NodeOrNull -> Nat] /\ h[Null] = 0 /\ h[l.right[Head]] \in Nat
  <2>1. PICK j \in BOOLEAN : j = FALSE OBVIOUS
  <2>2. Head \in Node BY DEF Node
  <2>3. h[Child(l, Head, j)] \in Nat BY <1>1, <1>2, <2>2, HeightType DEF Levels
  <2>4. QED BY <1>2, <2>1, <2>3 DEF Levels, Child
<1>4. e - d = h[l.right[Head]]
  BY <1>2, <1>3 DEF Levels, SideHeight, Child
<1>5. \A n \in T, s \in BOOLEAN :
        SideHeight(l, h, Null, t, 0, n, s) = SideHeight(l, h, Head, t, d, n, s)
  <2> TAKE n \in T, s \in BOOLEAN
  <2>1. n # Head /\ n # Null BY <1>1, Self
  <2>2. QED BY <2>1 DEF SideHeight
<1>6. \A n \in T : LevelAt(l, h, Null, t, 0, n)
  <2>1. PICK i, j \in BOOLEAN : i = TRUE /\ j = FALSE OBVIOUS
  <2>2. \A n \in T : LevelAt(l, h, Head, t, d, n) BY <1>2 DEF Levels
  <2>3. QED BY <1>5, <2>1, <2>2 DEF LevelAt
<1>7. SideHeight(l, h, Null, t, 0, Head, FALSE) = e - d
  BY <1>4, Nodes DEF SideHeight, Child, Node
<1>8. Levels(l, T, h, Null, t, 0, e - d) BY <1>3, <1>6, <1>7 DEF Levels
<1>9. QED BY <1>1, <1>8 DEF Shaped

\* The node n, a child of its parent in the tree T of m, is the top of the subtree
\* whose height differs by c from what the factors above it say.
Tops(m, A, T, n, c, e) ==
  /\ n \in T /\ Clear(m, A)
  /\ \E u \in BOOLEAN : Child(m, m.parent[n], u) = n /\ Shaped(m, T, m.parent[n], u, c, e)

\* After a new balance factor at n.
LEMMA WeighTops ==
  ASSUME NEW l, NEW T, NEW D, IsTree(l, T, D), NEW n, NEW h, NEW t, NEW d, NEW e,
         NEW b, NEW k, Reweighs(l, T, n, h, t, d, e, b, k), NEW A, Clear(l, A), T \subseteq A
  PROVE  LET m == SetBalance(l, n, b)
         IN  Weighs(m, l, n, b) /\ Tops(m, A, T, n, h[n] - k, e)
<1> DEFINE m == SetBalance(l, n, b)
<1>1. /\ Weighs(m, l, n, b) /\ IsTree(m, T, D)
      /\ \E u \in BOOLEAN : \E g : /\ Child(m, l.parent[n], u) = n
                                   /\ Levels(m, T, g, l.parent[n], u, h[n] - k, e)
  BY WeighSettles
<1> HIDE DEF m
<1>2. l \in Links BY DEF IsTree
<1>3. /\ m.left = l.left /\ m.right = l.right /\ m.parent = l.parent
      /\ \A x \in Node \ {n} : m.balance[x] = l.balance[x]
  BY <1>1, <1>2 DEF Weighs, Links
<1>4. Clear(m, A)
  <2>1. \A x \in Key \ A : x \in Node \ {n} BY DEF Node, Reweighs
  <2>2. QED BY <1>3, <2>1 DEF Clear
<1>5. n \in T BY DEF Reweighs
<1>6. QED BY <1>1, <1>3, <1>4, <1>5 DEF Tops, Shaped, m

\* After a rebalancing.
LEMMA SettlesTops ==
  ASSUME NEW l, NEW T, NEW m, NEW n, NEW c, NEW e, Settles(m, l, T, n, c, e),
         NEW A, Clear(l, A), T \subseteq A
  PROVE  /\ Tops(m, A, T, m.parent[n], c, e) /\ m.parent[m.parent[n]] = l.parent[n]
         /\ T \subseteq Key => m.balance[Head] = l.balance[Head]
<1>1. /\ Apart(m, l, T) /\ m.parent[n] \in T /\ m.parent[m.parent[n]] = l.parent[n]
      /\ \E E : IsTree(m, T, E)
      /\ \E u \in BOOLEAN : \E g : /\ Child(m, l.parent[n], u) = m.parent[n]
                                   /\ Levels(m, T, g, l.parent[n], u, c, e)
  BY DEF Settles
<1>2. Clear(m, A)
  <2> SUFFICES ASSUME NEW x \in Key \ A
               PROVE  /\ m.left[x] = Null /\ m.right[x] = Null /\ m.parent[x] = Null
                      /\ m.balance[x] = Balanced
    BY DEF Clear
  <2>1. /\ l.left[x] = Null /\ l.right[x] = Null /\ l.parent[x] = Null
        /\ l.balance[x] = Balanced
    BY DEF Clear
  <2>2. x \in Node \ (T \cup {Head}) BY Nodes DEF Node
  <2>3. \A o \in BOOLEAN : Child(m, x, o) = Child(l, x, o) BY <1>1, <2>2 DEF Apart
  <2>4. PICK i, j \in BOOLEAN : i = TRUE /\ j = FALSE OBVIOUS
  <2>5. m.left[x] = l.left[x] /\ m.right[x] = l.right[x] BY <2>3, <2>4 DEF Child
  <2>6. m.parent[x] = l.parent[x] /\ m.balance[x] = l.balance[x] BY <1>1, <2>2 DEF Apart
  <2>7. QED BY <2>1, <2>5, <2>6
<1>3. T \subseteq Key => m.balance[Head] = l.balance[Head] BY <1>1, Nodes DEF Apart, Node
<1>4. QED BY <1>1, <1>2, <1>3 DEF Tops, Shaped

\* The call returns with the subtree of n right, and so the tree.
LEMMA TopsFinished ==
  ASSUME NEW m, NEW n, NEW ans, ans # <<>>, Finish(m, ans),
         Tops(m, alive', alive', n, 0, depth'), Counted', restart' \in alive' \cup {Head, Null}
  PROVE  AvlInv'
<1>1. PICK u \in BOOLEAN : Shaped(m, alive', m.parent[n], u, 0, depth') BY DEF Tops
<1>2. Clear(m, alive') BY DEF Tops
<1>3. QED BY <1>1, <1>2, Finished

\* In the loop of an insertion.
LEMMA Growing ==
  ASSUME AvlInv, pc = "grow"
  PROVE  LET t == IsLeftChild(links, from)
         IN  /\ Counted /\ Clear(links, alive) /\ restart \in alive \cup {Head, Null}
             /\ Shaped(links, alive, at, t, -1, depth) /\ t \in BOOLEAN
             /\ at \in alive \cup {Head} /\ Child(links, at, t) = from
             /\ at = Head => t = FALSE
             /\ arg \in alive /\ from \in alive /\ at = links.parent[from] /\ side = Balanced
             /\ links.balance[Head] = LeftHeavy
             /\ links.balance[from] = Balanced =>
                  links.left[from] = Null /\ links.right[from] = Null
<1> DEFINE t == IsLeftChild(links, from)
<1>1. InTree = alive /\ Late = -1 /\ LateSide = t BY DEF InTree, Late, LateSide
<1>2. /\ arg \in alive /\ from \in alive /\ at = links.parent[from] /\ side = Balanced
      /\ links.balance[Head] = LeftHeavy
      /\ links.balance[from] = Balanced => links.left[from] = Null /\ links.right[from] = Null
  BY DEF AvlInv, GrowInv
<1>3. Counted /\ Clear(links, alive) /\ Shaped(links, alive, at, t, -1, depth)
      /\ restart \in alive \cup {Head, Null}
  BY <1>1 DEF AvlInv
<1>4. PICK D : IsTree(links, alive, D) BY <1>3 DEF Shaped
<1>5. PICK s \in BOOLEAN : Child(links, at, s) = from BY <1>2, <1>4, Up
<1>6. t = s BY <1>2, <1>4, <1>5, OneSide
<1>7. at \in alive \cup {Head} BY <1>2, <1>4, Up
<1>8. at = Head => t = FALSE
  <2>1. from # Null BY <1>2, <1>4, Self
  <2>2. at = Head => links.left[at] # from BY <1>4, <2>1 DEF IsTree
  <2>3. QED BY <1>2, <2>2 DEF IsLeftChild
<1>9. QED BY <1>2, <1>3, <1>5, <1>6, <1>7, <1>8

\* Each iteration of the loop of an insertion keeps it (avlsupp.c 254-291).
LEMMA GrowKeeps ==
  ASSUME AvlInv, Grow
  PROVE  AvlInv'
<1> DEFINE t == IsLeftChild(links, from)
           b == IF t THEN LeftHeavy ELSE RightHeavy
           done == <<"insert", arg, arg, TRUE>>
<1>1. pc = "grow" /\ alive' = alive /\ number' = number /\ restart' = restart BY DEF Grow
<1>2. /\ Counted /\ Clear(links, alive) /\ restart \in alive \cup {Head, Null}
      /\ Shaped(links, alive, at, t, -1, depth) /\ t \in BOOLEAN
      /\ at \in alive \cup {Head} /\ Child(links, at, t) = from
      /\ at = Head => t = FALSE
      /\ arg \in alive /\ from \in alive /\ at = links.parent[from] /\ side = Balanced
      /\ links.balance[Head] = LeftHeavy
      /\ links.balance[from] = Balanced => links.left[from] = Null /\ links.right[from] = Null
  BY <1>1, Growing
<1>3. PICK D : IsTree(links, alive, D) BY <1>2 DEF Shaped
<1>4. PICK h : Levels(links, alive, h, at, t, -1, depth) BY <1>2 DEF Shaped
<1>5. PICK i \in BOOLEAN : i = ~t BY <1>2
<1>6. done # <<>> BY Answers
<1>7. Counted' /\ restart' \in alive' \cup {Head, Null} BY <1>1, <1>2 DEF Counted
<1>8. b = Sign(t) /\ b \in {-1, 1} /\ b # 0 /\ -b \in {-1, 1} /\ (t => b = -1) /\ (~t => b = 1)
  <2> HIDE DEF t
  <2>1. t \in BOOLEAN BY <1>2
  <2>2. CASE t
    <3>1. b = Sign(t) BY <2>2 DEF Sign
    <3>2. b = -1 BY <2>2 DEF LeftHeavy
    <3> HIDE DEF b
    <3>3. b \in Int /\ 0 - b = 1 BY <3>2
    <3>4. -b = 1
      <4>1. -b = 0 - b BY <3>3
      <4>2. QED BY <3>3, <4>1
    <3>5. b \in {-1, 1} /\ b # 0 BY <3>2
    <3>6. QED BY <2>2, <3>1, <3>2, <3>4, <3>5
  <2>3. CASE ~t BY <2>3 DEF Sign, LeftHeavy, RightHeavy
  <2>4. QED BY <2>1, <2>2, <2>3
<1>9. alive \subseteq Key /\ links \in Links BY <1>2, <1>3 DEF Counted, IsTree
<1>10. at \in alive => /\ h[Child(links, at, t)] \in Nat /\ h[Child(links, at, ~t)] \in Nat
                       /\ Fits(t, h[Child(links, at, t)] + -1, h[Child(links, at, ~t)],
                               links.balance[at], h[at])
  BY <1>2, <1>3, <1>4, LevelFits
<1> DEFINE x == h[Child(links, at, t)]
           y == h[Child(links, at, ~t)]
<1>11. at \in alive => at # Head /\ at \in Node BY <1>3, Self
<1> HIDE DEF done, x, y
<1>12. at \in alive => /\ x \in Nat /\ y \in Nat /\ h[at] \in Nat
                       /\ h[at] = 1 + (IF x - 1 > y THEN x - 1 ELSE y)
                       /\ links.balance[at] = IF t THEN y - (x - 1) ELSE x - 1 - y
  BY <1>10 DEF Fits, x, y
<1> HIDE DEF t
<1>13. CASE /\ links.balance[at] = Balanced /\ links' = SetBalance(links, at, b)
            /\ from' = at /\ at' = links.parent[at] /\ depth' = depth /\ pc' = pc
            /\ arg' = arg /\ side' = side /\ answer' = answer
  <2>1. at \in alive BY <1>2, <1>13 DEF Balanced, LeftHeavy
  <2>2. x - 1 = y /\ h[at] = 1 + y
    <3>1. links.balance[at] = 0 BY <1>13 DEF Balanced
    <3>2. CASE t BY <1>12, <2>1, <3>1, <3>2
    <3>3. CASE ~t BY <1>12, <2>1, <3>1, <3>3
    <3>4. QED BY <3>2, <3>3
  <2>3. Fits(t, x, y, b, h[at] + 1)
    <3>1. h[at] + 1 \in Nat /\ h[at] + 1 = 1 + IF x > y THEN x ELSE y BY <1>12, <2>1, <2>2
    <3>2. b = IF t THEN y - x ELSE x - y BY <1>8, <1>12, <2>1, <2>2
    <3>3. QED BY <3>1, <3>2 DEF Fits
  <2> DEFINE m == SetBalance(links, at, b)
  <2>4. Weighs(m, links, at, b) /\ Tops(m, alive, alive, at, h[at] - (h[at] + 1), depth)
    <3>1. b \in -1 .. 1 BY <1>8
    <3>2. Reweighs(links, alive, at, h, t, -1, depth, b, h[at] + 1)
      BY <1>2, <1>4, <2>1, <2>3, <3>1 DEF Reweighs, x, y
    <3>3. QED BY <1>2, <1>3, <3>2, WeighTops
  <2>5. h[at] - (h[at] + 1) = -1 BY <1>12, <2>1
  <2>6. links' = m BY <1>13
  <2> HIDE DEF m, b
  <2>7. PICK u \in BOOLEAN : Child(m, m.parent[at], u) = at
                             /\ Shaped(m, alive, m.parent[at], u, -1, depth)
    BY <2>4, <2>5 DEF Tops
  <2>8. IsLeftChild(m, at) = u
    <3>1. PICK E : IsTree(m, alive, E) BY <2>7 DEF Shaped
    <3>2. QED BY <2>1, <2>7, <3>1, OneSide
  <2>9. m.parent = links.parent /\ m.balance[Head] = LeftHeavy /\ m.balance[at] # Balanced
    BY <1>2, <1>8, <1>9, <1>11, <2>1, <2>4 DEF Weighs, Links, Balanced, Node
  <2>10. Late' = -1 /\ LateSide' = u /\ InTree' = alive
    BY <1>1, <1>13, <2>6, <2>8 DEF Late, LateSide, InTree, IsLeftChild
  <2>11. Shaped(links, InTree, at, LateSide, Late, depth)'
    BY <1>13, <2>6, <2>7, <2>9, <2>10
  <2>12. Clear(links', alive') BY <1>1, <2>4, <2>6 DEF Tops
  <2>13. GrowInv' BY <1>1, <1>2, <1>13, <2>1, <2>6, <2>9 DEF GrowInv
  <2>14. IdleInv' /\ ShrinkInv' /\ (answer' = <<>>) = (pc' # "return") /\ pc' = "grow"
    BY <1>1, <1>13 DEF IdleInv, ShrinkInv, AvlInv
  <2>15. QED BY <1>7, <2>11, <2>12, <2>13, <2>14 DEF AvlInv
<1>14. CASE /\ links.balance[at] = -b /\ Finish(SetBalance(links, at, Balanced), done)
            /\ depth' = IF SetBalance(links, at, Balanced).balance[Head] = Balanced
                        THEN depth + 1 ELSE depth
  <2> DEFINE m == SetBalance(links, at, Balanced)
  <2>1. Balanced \in -1 .. 1 BY DEF Balanced
  <2>2. Weighs(m, links, at, Balanced) BY <1>9, <2>1, SetBalanceLinks
  <2>3. Finish(m, done) /\ depth' = IF m.balance[Head] = Balanced THEN depth + 1 ELSE depth
    BY <1>14
  <2>4. CASE at = Head
    <3>1. Shaped(m, alive, Head, t, -1, depth) /\ Clear(m, alive) /\ m.balance[Head] = Balanced
      <4>1. Shaped(links, alive, Head, t, -1, depth) BY <1>2, <2>4
      <4>2. QED BY <1>2, <2>1, <2>4, <4>1, HeadShaped
    <3> HIDE DEF m
    <3>2. Shaped(m, alive, Null, t, 0, depth - (-1))
      <4>1. t = FALSE /\ -1 \in Int BY <1>2, <2>4
      <4>2. QED BY <3>1, <4>1, HeadLate
    <3>3. depth \in Int
      <4>1. h[Child(links, at, t)] \in Int
        <5>1. Head \in Node BY DEF Node
        <5>2. QED BY <1>2, <1>3, <1>4, <2>4, <5>1, HeightType DEF Levels
      <4>2. Child(links, at, t) = links.right[Head] BY <1>2, <2>4 DEF Child
      <4>3. depth = h[links.right[Head]] + -1
        BY <1>2, <1>4, <2>4 DEF Levels, SideHeight, Child
      <4>4. QED BY <4>1, <4>2, <4>3
    <3>4. depth' = depth + 1 /\ depth - (-1) = depth + 1 BY <2>3, <3>1, <3>3
    <3>5. QED BY <1>1, <1>6, <1>7, <2>3, <3>1, <3>2, <3>4, Finished
  <2>5. CASE at \in alive
    <3>1. x = y /\ h[at] = 1 + y
      <4>1. CASE t BY <1>8, <1>12, <1>14, <2>5, <4>1
      <4>2. CASE ~t BY <1>8, <1>12, <1>14, <2>5, <4>2
      <4>3. QED BY <4>1, <4>2
    <3>2. Fits(t, x, y, Balanced, h[at])
      BY <1>12, <2>5, <3>1 DEF Fits, Balanced
    <3>3. Tops(m, alive, alive, at, h[at] - h[at], depth)
      <4>1. Reweighs(links, alive, at, h, t, -1, depth, Balanced, h[at])
        BY <1>2, <1>4, <2>1, <2>5, <3>2 DEF Reweighs, x, y
      <4>2. QED BY <1>2, <1>3, <4>1, WeighTops
    <3> HIDE DEF m
    <3>4. h[at] - h[at] = 0 BY <1>12, <2>5
    <3>5. m.balance[Head] = LeftHeavy
      BY <1>2, <1>9, <1>11, <2>2, <2>5 DEF Weighs, Links, Node
    <3>6. depth' = depth BY <2>3, <3>5 DEF Balanced, LeftHeavy
    <3>7. QED BY <1>1, <1>6, <1>7, <2>3, <3>3, <3>4, <3>6, TopsFinished
  <2>6. QED BY <1>2, <2>4, <2>5
<1>15. CASE /\ links.balance[at] = b /\ Finish(Rebalance(links, at).links, done)
            /\ depth' = depth
  <2>1. at \in alive
    <3>1. SUFFICES ASSUME at = Head PROVE FALSE BY <1>2
    <3>2. QED BY <1>2, <1>8, <1>15, <3>1 DEF LeftHeavy
  <2>2. Tilted(links, alive, at, t, h, t, -1, depth)
    BY <1>2, <1>4, <1>8, <1>15, <2>1 DEF Tilted
  <2>3. links.balance[Child(links, at, t)] # Balanced
    <3>1. SUFFICES ASSUME links.balance[from] = Balanced PROVE FALSE BY <1>2
    <3>2. h[from] = h[Child(links, at, t)] /\ h[Child(links, at, ~t)] \in Nat
          /\ h[Child(links, at, t)] = h[Child(links, at, ~t)] + 2
      BY <1>2, <1>3, <1>4, <1>8, <1>15, <2>1, TwoHigher
    <3>3. LevelAt(links, h, at, t, -1, from) /\ h[Null] = 0 BY <1>2, <1>4 DEF Levels
    <3>4. links.left[from] = Null /\ links.right[from] = Null BY <1>2, <3>1
    <3>5. from # at
      <4>1. PICK s \in BOOLEAN : s = t BY <1>2
      <4>2. Child(links, at, t) # at
        <5>1. at \notin D[Child(links, at, t)] /\ at \in D[at] BY <1>2, <1>3, <2>1, Parts
        <5>2. QED BY <5>1
      <4>3. QED BY <1>2, <4>2
    <3>6. h[from] = 1 BY <3>3, <3>4, <3>5 DEF LevelAt, Leans, SideHeight, Child
    <3>7. QED BY <3>2, <3>6
  <2> DEFINE m == Rebalance(links, at).links
  <2>4. Settles(m, links, alive, at, 0, depth)
    <3>1. Settles(m, links, alive, at,
                  IF t = t \/ Rebalance(links, at).still THEN 0 ELSE 1, depth)
      BY <1>3, <2>2, <2>3, RebalanceSettles
    <3> HIDE DEF m
    <3>2. QED BY <3>1
  <2> HIDE DEF m
  <2>5. Tops(m, alive, alive, m.parent[at], 0, depth) BY <1>2, <2>4, SettlesTops
  <2>6. Finish(m, done) /\ depth' = depth BY <1>15 DEF m
  <2>7. QED BY <1>1, <1>6, <1>7, <2>5, <2>6, TopsFinished
<1>16. QED BY <1>13, <1>14, <1>15 DEF Grow, t, done

\* The nodes that hang in the tree are those in use.
LEMMA LinkedIs ==
  ASSUME NEW l, NEW T, NEW D, IsTree(l, T, D), Clear(l, T)
  PROVE  Linked(l) = T \cup {Head}
<1>1. T \subseteq Key /\ T \subseteq Node /\ Head \in Node /\ l.parent[Head] = Head
  BY DEF IsTree, Node
<1>2. Head # Null BY Nodes DEF Node
<1>3. \A n \in T : l.parent[n] # Null
  <2> TAKE n \in T
  <2>1. l.parent[n] \in T \cup {Head} BY Up
  <2>2. \A x \in T : x # Null BY Self
  <2>3. QED BY <1>2, <2>1, <2>2
<1>4. \A n \in Key \ T : l.parent[n] = Null BY DEF Clear
<1>5. \A n \in Node : n \in Key \/ n = Head BY DEF Node
<1>6. QED BY <1>1, <1>2, <1>3, <1>4, <1>5 DEF Linked

\* The node x has a free side, and rest on the other one; it hangs below p on side s.
HasRest(l, T, x, rest, p, s) ==
  /\ x \in T /\ p = l.parent[x] /\ s = IsLeftChild(l, x)
  /\ \E f \in BOOLEAN : Child(l, x, f) = Null /\ rest = Child(l, x, ~f)

\* The node x, which has a free side, is taken out: that side of its parent has
\* lost a level.
LEMMA TakeShaped ==
  ASSUME NEW l, NEW T, NEW a, NEW t, NEW e, Shaped(l, T, a, t, 0, e), Clear(l, T),
         NEW x, NEW rest, NEW p, NEW s, HasRest(l, T, x, rest, p, s)
  PROVE  LET m == Attach(l, p, s, rest)
         IN  /\ Shaped(m, T \ {x}, p, s, 1, e) /\ Clear(m, T) /\ s \in BOOLEAN
             /\ p \in (T \ {x}) \cup {Head}
<1> DEFINE m == Attach(l, p, s, rest)
           U == T \ {x}
<1>1. PICK D : IsTree(l, T, D) BY DEF Shaped
<1>2. PICK h : Levels(l, T, h, a, t, 0, e) BY DEF Shaped
<1>0. x \in T /\ p = l.parent[x] /\ s = IsLeftChild(l, x) BY DEF HasRest
<1>5. PICK f \in BOOLEAN : Child(l, x, f) = Null /\ rest = Child(l, x, ~f) BY DEF HasRest
<1>3. s \in BOOLEAN /\ Child(l, p, s) = x
  <2>1. PICK o \in BOOLEAN : Child(l, p, o) = x BY <1>0, <1>1, Up
  <2>2. o = s BY <1>0, <1>1, <2>1, OneSide
  <2>3. QED BY <2>1, <2>2
<1>4. p \in U \cup {Head} /\ p \in Node /\ x # Null /\ x \in Node /\ T \subseteq Key
      /\ x # Head /\ x # p
  <2>1. p \in T \cup {Head} /\ (p \in T => p \notin D[x]) /\ x \in D[x] BY <1>0, <1>1, Up, Self
  <2>2. x # Null /\ x # Head /\ x \in Node BY <1>0, <1>1, Self
  <2>3. T \subseteq Key BY <1>1 DEF IsTree
  <2>4. QED BY <2>1, <2>2, <2>3 DEF Node
<1>6. rest \in T \cup {Null} /\ rest \in NodeOrNull /\ l \in Links
  <2>1. rest \in T \cup {Null} BY <1>0, <1>5, <1>1, Parts
  <2>2. QED BY <1>1, <1>4, <2>1 DEF IsTree, NodeOrNull, Node
<1>7. Hangs(m, l, p, s, rest) BY <1>3, <1>4, <1>6, AttachLinks
<1>8. \A y \in Node \ (T \cup {Head}), o \in BOOLEAN : Child(l, y, o) = Null
  <2>1. \A y \in Node \ (T \cup {Head}) : y \in Key \ T BY DEF Node
  <2>2. QED BY <2>1 DEF Clear, Child
<1>9. PICK E : IsTree(m, U, E) BY <1>0, <1>5, <1>1, <1>3, <1>8, TakeOut
<1> HIDE DEF m
<1>10. PICK i, j \in BOOLEAN : i = TRUE /\ j = FALSE OBVIOUS
<1>11. h \in [NodeOrNull -> Nat] /\ h[Null] = 0 /\ h[rest] \in Nat BY <1>2, <1>6 DEF Levels
<1>12. \A y \in T \cup {Head}, o \in BOOLEAN : h[Child(l, y, o)] \in Nat
  <2>1. T \cup {Head} \subseteq Node BY <1>4 DEF Node
  <2>2. QED BY <1>1, <1>11, <2>1, HeightType
<1>13. h[x] = h[rest] + 1
  <2>1. LevelAt(l, h, a, t, 0, x) BY <1>0, <1>2 DEF Levels
  <2>2. h[Child(l, x, f)] = 0 BY <1>5, <1>11
  <2>3. CASE f = TRUE
    <3>1. h[l.left[x]] = 0 /\ l.right[x] = rest BY <1>5, <2>2, <2>3 DEF Child
    <3>2. QED BY <1>11, <2>1, <3>1 DEF LevelAt, Leans, SideHeight, Child
  <2>4. CASE f = FALSE
    <3>1. h[l.right[x]] = 0 /\ l.left[x] = rest BY <1>5, <2>2, <2>4 DEF Child
    <3>2. QED BY <1>11, <2>1, <3>1 DEF LevelAt, Leans, SideHeight, Child
  <2>5. QED BY <2>3, <2>4
<1>14. \A y \in T \cup {Head}, o \in BOOLEAN :
         SideHeight(m, h, p, s, 1, y, o) = SideHeight(l, h, a, t, 0, y, o)
  <2> TAKE y \in T \cup {Head}, o \in BOOLEAN
  <2>1. y \in Node BY <1>4 DEF Node
  <2>2. SideHeight(l, h, a, t, 0, y, o) = h[Child(l, y, o)]
    <3>1. h[Child(l, y, o)] \in Nat BY <1>12
    <3>2. QED BY <3>1 DEF SideHeight
  <2>3. CASE y = p /\ o = s
    <3>1. Child(m, y, o) = rest BY <1>7, <2>1, <2>3 DEF Hangs
    <3>2. SideHeight(m, h, p, s, 1, y, o) = h[rest] + 1 BY <2>3, <3>1 DEF SideHeight
    <3>3. QED BY <1>3, <1>13, <2>2, <2>3, <3>2
  <2>4. CASE ~(y = p /\ o = s)
    <3>1. Child(m, y, o) = Child(l, y, o) BY <1>7, <2>1, <2>4 DEF Hangs
    <3>2. QED BY <2>2, <2>4, <3>1 DEF SideHeight
  <2>5. QED BY <2>3, <2>4
<1>15. Levels(m, U, h, p, s, 1, e)
  <2>1. ASSUME NEW y \in U PROVE LevelAt(m, h, p, s, 1, y)
    <3>1. LevelAt(l, h, a, t, 0, y) BY <1>2 DEF Levels
    <3>2. m.balance[y] = l.balance[y] BY <1>7 DEF Hangs
    <3>3. \A o \in BOOLEAN :
            SideHeight(m, h, p, s, 1, y, o) = SideHeight(l, h, a, t, 0, y, o)
      BY <1>14
    <3>4. QED BY <1>10, <3>1, <3>2, <3>3 DEF LevelAt
  <2>2. SideHeight(m, h, p, s, 1, Head, FALSE) = e
    <3>1. SideHeight(l, h, a, t, 0, Head, FALSE) = e BY <1>2 DEF Levels
    <3>2. \A o \in BOOLEAN :
            SideHeight(m, h, p, s, 1, Head, o) = SideHeight(l, h, a, t, 0, Head, o)
      BY <1>14
    <3>3. QED BY <1>10, <3>1, <3>2
  <2>3. QED BY <1>11, <2>1, <2>2 DEF Levels
<1>16. Clear(m, T)
  <2> SUFFICES ASSUME NEW y \in Key \ T
               PROVE  /\ m.left[y] = Null /\ m.right[y] = Null /\ m.parent[y] = Null
                      /\ m.balance[y] = Balanced
    BY DEF Clear
  <2>1. /\ l.left[y] = Null /\ l.right[y] = Null /\ l.parent[y] = Null
        /\ l.balance[y] = Balanced
    BY DEF Clear
  <2>2. y \in Node /\ y # p /\ y # rest BY <1>4, <1>6, Nodes DEF Node
  <2>3. \A o \in BOOLEAN : Child(m, y, o) = Child(l, y, o) BY <1>7, <2>2 DEF Hangs
  <2>4. m.left[y] = l.left[y] /\ m.right[y] = l.right[y] BY <1>10, <2>3 DEF Child
  <2>5. m.parent[y] = l.parent[y] /\ m.balance = l.balance BY <1>7, <2>2 DEF Hangs
  <2>6. QED BY <2>1, <2>4, <2>5
<1>17. QED BY <1>3, <1>4, <1>9, <1>15, <1>16 DEF Shaped, m, U

\* DeleteNode is a node with a free side.  If it is not the node that is deleted,
\* it is next to it in the order.
LEMMA DeleteNodeIs ==
  ASSUME NEW l, NEW T, NEW D, IsTree(l, T, D), Clear(l, T), NEW n \in T
  PROVE  LET x == DeleteNode(l, n)
         IN  /\ x \in T /\ \E f \in BOOLEAN : Child(l, x, f) = Null
             /\ x # n => \A z \in T \ {x} : z = n \/ Beside(x, x, n, z)
<1> DEFINE x == DeleteNode(l, n)
           o == l.balance[n] = LeftHeavy
<1>1. PICK i, j \in BOOLEAN : i = TRUE /\ j = FALSE OBVIOUS
<1>2. CASE l.left[n] = Null \/ l.right[n] = Null
  <2>1. x = n BY <1>2 DEF DeleteNode
  <2>2. Child(l, n, i) = Null \/ Child(l, n, j) = Null BY <1>1, <1>2 DEF Child
  <2> HIDE DEF x
  <2>3. \E f \in BOOLEAN : Child(l, x, f) = Null BY <2>1, <2>2
  <2>4. QED BY <2>1, <2>3 DEF x
<1>3. CASE l.left[n] # Null /\ l.right[n] # Null
  <2>1. x = Neighbour(l, n, o) BY <1>3 DEF DeleteNode
  <2>2. PICK s \in BOOLEAN : s = o OBVIOUS
  <2>3. x = Neighbour(l, n, s) BY <2>1, <2>2
  <2> HIDE DEF x, o
  <2>4. Child(l, n, s) # Null BY <1>3 DEF Child
  <2>5. Linked(l) = T \cup {Head} BY LinkedIs
  <2>6. /\ \/ /\ x \in T /\ On(s, x, n)
              /\ \A z \in T : On(s, z, n) => z = x \/ On(s, z, x)
           \/ /\ x = IF s THEN Head ELSE Null
              /\ \A z \in T : ~On(s, z, n)
        /\ Child(l, n, s) # Null => x \in D[Child(l, n, s)] /\ Child(l, x, ~s) = Null
    BY <2>3, <2>5, NeighbourIs
  <2>7. x \in T /\ Child(l, x, ~s) = Null
    <3>1. D[Child(l, n, s)] \subseteq T BY Parts
    <3>2. QED BY <2>4, <2>6, <3>1
  <2>8. On(s, x, n) /\ \A z \in T : On(s, z, n) => z = x \/ On(s, z, x)
    <3>1. x # Null /\ x # Head BY <2>7, Self
    <3>2. QED BY <2>6, <3>1
  <2>9. ASSUME NEW z \in T \ {x}, z # n PROVE Beside(x, x, n, z)
    <3>1. x \in Int /\ n \in Int /\ z \in Int BY <2>7, Self
    <3>2. CASE s = TRUE
      <4>1. x < n /\ (z < n => z < x) BY <2>8, <2>9, <3>2 DEF On
      <4>2. QED BY <2>9, <3>1, <4>1 DEF Beside
    <3>3. CASE s = FALSE
      <4>1. n < x /\ (n < z => x < z) BY <2>8, <2>9, <3>3 DEF On
      <4>2. QED BY <2>9, <3>1, <4>1 DEF Beside
    <3>4. QED BY <3>2, <3>3
  <2>10. \E f \in BOOLEAN : Child(l, x, f) = Null
    <3>1. PICK f \in BOOLEAN : f = ~s OBVIOUS
    <3>2. QED BY <2>7, <3>1
  <2>11. QED BY <2>7, <2>9, <2>10 DEF x
<1>4. QED BY <1>2, <1>3

\* The restart key does not stay on a node that is deleted.
LEMMA RestartIs ==
  ASSUME NEW D, IsTree(links, alive, D), Clear(links, alive), NEW n \in alive,
         restart \in alive \cup {Head, Null}
  PROVE  RestartWithout(n) \in (alive \ {n}) \cup {Head, Null}
<1>1. CASE n = restart
  <2> DEFINE r == Neighbour(links, n, TRUE)
  <2>1. Linked(links) = alive \cup {Head} BY LinkedIs
  <2>2. PICK i \in BOOLEAN : i = TRUE OBVIOUS
  <2>3. r = Neighbour(links, n, i) BY <2>2
  <2> HIDE DEF r
  <2>4. (r \in alive /\ On(i, r, n)) \/ r = (IF i THEN Head ELSE Null)
    BY <2>1, <2>3, NeighbourIs
  <2>5. n \in Int BY Self
  <2>6. r \in (alive \ {n}) \cup {Head, Null} BY <2>2, <2>4, <2>5 DEF On
  <2>7. QED BY <1>1, <2>6 DEF RestartWithout, r
<1>2. CASE n # restart BY <1>2 DEF RestartWithout
<1>3. QED BY <1>1, <1>2

\* A deletion up to its loop keeps it (avlsupp.c 294-342).
LEMMA DeleteKeeps ==
  ASSUME AvlInv, pc = "idle", NEW k \in Key, Delete(k)
  PROVE  AvlInv'
<1> DEFINE s == Search(k, k)
           n == s.node
           x == DeleteNode(links, n)
           onLeft == IsLeftChild(links, x)
           rest == IF links.left[x] # Null THEN links.left[x] ELSE links.right[x]
<1>1. /\ Counted /\ Clear(links, alive) /\ Shaped(links, alive, at, LateSide, 0, depth)
      /\ restart \in alive \cup {Head, Null} /\ side = Balanced
  BY Rests
<1>2. PICK D : IsTree(links, alive, D) BY <1>1 DEF Shaped
<1>3. s.result = "found" => n \in alive
  <2>1. k <= k BY Nodes
  <2>2. QED BY <1>1, <1>2, <2>1, SearchIs
<1>4. CASE Reply(<<"delete", k, FALSE>>) /\ restart' = restart
  <2>1. <<"delete", k, FALSE>> # <<>> BY Answers
  <2>2. QED BY <1>1, <1>4, <2>1, ReplyKeeps
<1>5. CASE /\ s.result = "found" /\ restart' = RestartWithout(n)
           /\ links' = SetBalance(Attach(links, links.parent[x], onLeft, rest), Head, Balanced)
           /\ pc' = "shrink" /\ arg' = n /\ from' = x /\ at' = links.parent[x]
           /\ side' = (IF onLeft THEN LeftHeavy ELSE RightHeavy)
           /\ alive' = alive /\ number' = number /\ depth' = depth /\ answer' = answer
  <2>1. n \in alive BY <1>3, <1>5
  <2> HIDE DEF s, n
  <2>2. /\ x \in alive /\ \E f \in BOOLEAN : Child(links, x, f) = Null
        /\ x # n => \A z \in alive \ {x} : z = n \/ Beside(x, x, n, z)
    BY <1>1, <1>2, <2>1, DeleteNodeIs
  <2>3. restart' \in (alive \ {n}) \cup {Head, Null} BY <1>1, <1>2, <1>5, <2>1, RestartIs
  <2> HIDE DEF x
  <2>4. PICK f \in BOOLEAN : f = (links.left[x] = Null) OBVIOUS
  <2>5. Child(links, x, f) = Null /\ rest = Child(links, x, ~f)
    <3>1. links.left[x] = Null \/ links.right[x] = Null BY <2>2 DEF Child
    <3>2. QED BY <2>4, <3>1 DEF Child
  <2> DEFINE p == links.parent[x]
             m == Attach(links, p, onLeft, rest)
             v == SetBalance(m, Head, Balanced)
  <2> HIDE DEF rest
  <2>6. /\ Shaped(m, alive \ {x}, p, onLeft, 1, depth) /\ Clear(m, alive) /\ onLeft \in BOOLEAN
        /\ p \in (alive \ {x}) \cup {Head} /\ (p = Head => onLeft = FALSE)
    <3>1. HasRest(links, alive, x, rest, p, onLeft) BY <2>2, <2>5 DEF HasRest
    <3> HIDE DEF p, onLeft
    <3>2. /\ Shaped(Attach(links, p, onLeft, rest), alive \ {x}, p, onLeft, 1, depth)
          /\ Clear(Attach(links, p, onLeft, rest), alive) /\ onLeft \in BOOLEAN
          /\ p \in (alive \ {x}) \cup {Head}
      BY <1>1, <3>1, TakeShaped
    <3>3. p = Head => onLeft = FALSE
      <4>1. x # Null BY <1>2, <2>2, Self
      <4>2. links.left[Head] # x BY <1>2, <4>1 DEF IsTree
      <4>3. QED BY <4>2 DEF p, onLeft, IsLeftChild
    <3>4. QED BY <3>2, <3>3
  <2>7. links' = v /\ at' = p BY <1>5
  <2> HIDE DEF m, p, onLeft
  <2>8. /\ Shaped(v, alive \ {x}, p, onLeft, 1, depth) /\ Clear(v, alive)
        /\ v.balance[Head] = Balanced
    <3>1. Balanced \in -1 .. 1 BY DEF Balanced
    <3>2. QED BY <2>6, <3>1, HeadShaped
  <2> HIDE DEF v
  <2>9. InTree' = alive \ {x} /\ Late' = 1 BY <1>5 DEF InTree, Late
  <2>10. LateSide' = onLeft
    <3>1. LateSide' = (side' = LeftHeavy) BY <1>5 DEF LateSide
    <3>2. side' = IF onLeft THEN LeftHeavy ELSE RightHeavy BY <1>5
    <3>3. QED BY <2>6, <3>1, <3>2 DEF LeftHeavy, RightHeavy
  <2>11. Shaped(links, InTree, at, LateSide, Late, depth)'
    BY <1>5, <2>7, <2>8, <2>9, <2>10
  <2>12. ShrinkInv'
    <3>1. arg' \in alive' /\ from' \in alive' BY <1>5, <2>1, <2>2 DEF x, n
    <3>2. at' \in InTree' \cup {Head} BY <2>6, <2>7, <2>9
    <3>3. side' \in {LeftHeavy, RightHeavy} /\ (at' = Head => side' = RightHeavy)
      BY <1>5, <2>6, <2>7
    <3>4. links'.balance[Head] = Balanced BY <2>7, <2>8
    <3>5. restart' # arg'
      <4>1. n # Head /\ n # Null BY <1>2, <2>1, Self
      <4>2. QED BY <1>5, <2>3, <4>1
    <3>6. from' # arg' => \A z \in InTree' : z = arg' \/ Beside(from', from', arg', z)
      BY <1>5, <2>2, <2>9 DEF x
    <3>7. QED BY <3>1, <3>2, <3>3, <3>4, <3>5, <3>6 DEF ShrinkInv
  <2>13. Counted' /\ Clear(links', alive') BY <1>1, <1>5, <2>7, <2>8 DEF Counted
  <2>14. restart' \in alive' \cup {Head, Null} BY <1>5, <2>3
  <2>15. IdleInv' /\ GrowInv' /\ pc' = "shrink" /\ (answer' = <<>>) = (pc' # "return")
    BY <1>5 DEF IdleInv, GrowInv, AvlInv
  <2>16. QED BY <2>11, <2>12, <2>13, <2>14, <2>15 DEF AvlInv
<1>6. QED BY <1>4, <1>5 DEF Delete

\* A node that is in no tree is freed.
LEMMA FreeShaped ==
  ASSUME NEW l, NEW T, NEW a, NEW t, NEW e, Shaped(l, T, a, t, 0, e),
         NEW n \in Key \ T, Clear(l, T \cup {n})
  PROVE  Shaped(Free(l, n), T, a, t, 0, e) /\ Clear(Free(l, n), T)
<1> DEFINE m == Free(l, n)
<1>1. PICK D : IsTree(l, T, D) BY DEF Shaped
<1>2. PICK h : Levels(l, T, h, a, t, 0, e) BY DEF Shaped
<1>3. l \in Links /\ T \subseteq Key BY <1>1 DEF IsTree
<1>4. n \in Node /\ n # Head /\ n \notin T BY Nodes DEF Node
<1>5. /\ m \in Links
      /\ m.left[n] = Null /\ m.right[n] = Null /\ m.parent[n] = Null /\ m.balance[n] = Balanced
      /\ \A y \in Node \ {n} : /\ m.left[y] = l.left[y] /\ m.right[y] = l.right[y]
                               /\ m.parent[y] = l.parent[y] /\ m.balance[y] = l.balance[y]
  <2>1. /\ l.left \in [Node -> NodeOrNull] /\ l.right \in [Node -> NodeOrNull]
        /\ l.parent \in [Node -> NodeOrNull] /\ l.balance \in [Node -> -1 .. 1]
        /\ Null \in NodeOrNull /\ Balanced \in -1 .. 1
    BY <1>3 DEF Links, NodeOrNull, Balanced
  <2>2. m \in Links BY <1>3, <1>4, <2>1 DEF Free, Links
  <2>3. m.left = [l.left EXCEPT ![n] = Null] BY <1>3 DEF Free, Links
  <2>4. m.right = [l.right EXCEPT ![n] = Null] BY <1>3 DEF Free, Links
  <2>5. m.parent = [l.parent EXCEPT ![n] = Null] BY <1>3 DEF Free, Links
  <2>6. m.balance = [l.balance EXCEPT ![n] = Balanced] BY <1>3 DEF Free, Links
  <2> HIDE DEF m
  <2>7. QED BY <1>4, <2>1, <2>2, <2>3, <2>4, <2>5, <2>6
<1> HIDE DEF m
<1>6. \A y \in T \cup {Head} : y \in Node \ {n} BY <1>3, <1>4 DEF Node
<1>7. \A y \in Node \ {n}, o \in BOOLEAN : Child(m, y, o) = Child(l, y, o) BY <1>5 DEF Child
<1>8. IsTree(m, T, D)
  <2>1. \A y \in Node \ (T \cup {Head}), o \in BOOLEAN : Child(m, y, o) \in T \cup {Null}
    <3> TAKE y \in Node \ (T \cup {Head}), o \in BOOLEAN
    <3>1. CASE y = n BY <1>5, <3>1 DEF Child
    <3>2. CASE y # n BY <1>1, <1>7, <3>2 DEF IsTree
    <3>3. QED BY <3>1, <3>2
  <2>2. QED BY <1>1, <1>5, <1>6, <2>1, SameTree
<1>9. Levels(m, T, h, a, t, 0, e)
  <2>1. \A y \in T \cup {Head}, o \in BOOLEAN :
          SideHeight(m, h, a, t, 0, y, o) = SideHeight(l, h, a, t, 0, y, o)
    BY <1>6, <1>7 DEF SideHeight
  <2>2. PICK i, j \in BOOLEAN : i = TRUE /\ j = FALSE OBVIOUS
  <2>3. \A y \in T : LevelAt(m, h, a, t, 0, y)
    BY <1>2, <1>5, <1>6, <2>1, <2>2 DEF Levels, LevelAt
  <2>4. SideHeight(m, h, a, t, 0, Head, FALSE) = e BY <1>2, <2>1, <2>2 DEF Levels
  <2>5. QED BY <1>2, <2>3, <2>4 DEF Levels
<1>10. Clear(m, T)
  <2>1. \A y \in Key \ T : y = n \/ (y \in Key \ (T \cup {n}) /\ y \in Node \ {n})
    BY DEF Node
  <2>2. QED BY <1>5, <2>1 DEF Clear
<1>11. QED BY <1>8, <1>9, <1>10 DEF Shaped, m

\* x takes the place of n, with its height.
LEMMA ReplaceShaped ==
  ASSUME NEW l, NEW T, NEW a, NEW t, NEW e, Shaped(l, T, a, t, 0, e),
         NEW x \in Key \ T, Clear(l, T \cup {x}), NEW n \in T,
         \A z \in T : z = n \/ Beside(x, x, n, z)
  PROVE  LET m == Replace(l, n, x)
         IN  Shaped(m, (T \ {n}) \cup {x}, a, t, 0, e) /\ Clear(m, T \cup {x})
<1> DEFINE m == Replace(l, n, x)
           U == (T \ {n}) \cup {x}
           p == l.parent[n]
<1>1. PICK D : IsTree(l, T, D) BY DEF Shaped
<1>2. PICK h : Levels(l, T, h, a, t, 0, e) BY DEF Shaped
<1>3. PICK s \in BOOLEAN : Child(l, p, s) = n BY <1>1, Up
<1>4. Replaces(m, l, n, x, p, s) BY <1>1, <1>3, ReplaceLinks
<1>5. /\ T \subseteq Node /\ x \in Node /\ x \in NodeOrNull /\ x # Head /\ x # Null
      /\ l \in Links /\ Head \in Node /\ Null \in NodeOrNull /\ n \in NodeOrNull
      /\ n # Head /\ n # x
  <2>1. l \in Links /\ T \subseteq Key BY <1>1 DEF IsTree
  <2>2. QED BY <2>1, Nodes DEF Node, NodeOrNull
<1>6. p \in T \cup {Head} /\ p # n /\ p # x
  <2>1. p \in T \cup {Head} /\ (p \in T => p \notin D[n]) /\ n \in D[n] BY <1>1, Up, Self
  <2>2. QED BY <1>5, <2>1
<1>7. \A y \in Node \ (T \cup {Head, x}), o \in BOOLEAN : Child(l, y, o) = Null
  <2>1. \A y \in Node \ (T \cup {Head, x}) : y \in Key \ (T \cup {x}) BY DEF Node
  <2>2. QED BY <2>1 DEF Clear, Child
<1>8. PICK E : IsTree(m, U, E) BY <1>1, <1>7, ReplaceTree
<1> HIDE DEF m
<1> DEFINE g == [h EXCEPT ![x] = h[n]]
<1>9. /\ h \in [NodeOrNull -> Nat] /\ h[Null] = 0 /\ g \in [NodeOrNull -> Nat]
      /\ g[Null] = 0 /\ g[x] = h[n] /\ \A y \in NodeOrNull \ {x} : g[y] = h[y]
  BY <1>2, <1>5 DEF Levels
<1> HIDE DEF g, p
<1>10. PICK i, j \in BOOLEAN : i = TRUE /\ j = FALSE OBVIOUS
<1>11. \A y \in T \cup {Head}, o \in BOOLEAN :
         Child(l, y, o) \in T \cup {Null} /\ Child(l, y, o) \in NodeOrNull \ {x}
  <2>1. \A y \in T \cup {Head}, o \in BOOLEAN : Child(l, y, o) \in T \cup {Null}
    BY <1>1, <1>5 DEF IsTree
  <2>2. T \cup {Null} \subseteq NodeOrNull \ {x} BY <1>5 DEF NodeOrNull
  <2>3. QED BY <2>1, <2>2
<1>12. \A y \in T \cup {Head}, o \in BOOLEAN :
         SideHeight(l, h, a, t, 0, y, o) = h[Child(l, y, o)]
  <2>1. \A y \in T \cup {Head}, o \in BOOLEAN : h[Child(l, y, o)] \in Nat BY <1>9, <1>11
  <2>2. QED BY <2>1 DEF SideHeight
<1>13. \A y \in Node, o \in BOOLEAN : g[Child(m, y, o)] \in Nat
  <2>1. \A y \in Node, o \in BOOLEAN : Child(m, y, o) \in U \cup {Null} BY <1>8 DEF IsTree
  <2>2. U \cup {Null} \subseteq NodeOrNull BY <1>5 DEF NodeOrNull
  <2>3. QED BY <1>9, <2>1, <2>2
<1>14. \A y \in (T \cup {Head}) \ {n}, o \in BOOLEAN : g[Child(m, y, o)] = h[Child(l, y, o)]
  <2> TAKE y \in (T \cup {Head}) \ {n}, o \in BOOLEAN
  <2>1. y \in Node /\ y # x BY <1>5
  <2>2. CASE y = p /\ o = s
    BY <1>3, <1>4, <1>9, <2>1, <2>2 DEF Replaces, p
  <2>3. CASE ~(y = p /\ o = s)
    <3>1. Child(m, y, o) = Child(l, y, o) BY <1>4, <2>1, <2>3 DEF Replaces
    <3>2. QED BY <1>9, <1>11, <3>1
  <2>4. QED BY <2>2, <2>3
<1>15. \A o \in BOOLEAN : g[Child(m, x, o)] = h[Child(l, n, o)]
  BY <1>4, <1>5, <1>9, <1>11 DEF Replaces
<1>16. \A y \in U \cup {Head}, o \in BOOLEAN :
         SideHeight(m, g, a, t, 0, y, o) = g[Child(m, y, o)]
  <2>1. \A y \in U \cup {Head}, o \in BOOLEAN : g[Child(m, y, o)] \in Nat BY <1>5, <1>13
  <2>2. QED BY <2>1 DEF SideHeight
<1>17. Levels(m, U, g, a, t, 0, e)
  <2>1. \A y \in T : LevelAt(l, h, a, t, 0, y) BY <1>2 DEF Levels
  <2>2. \A y \in T \ {n} : LevelAt(m, g, a, t, 0, y)
    <3> TAKE y \in T \ {n}
    <3>1. m.balance[y] = l.balance[y] /\ g[y] = h[y]
      <4>1. y \in Node \ {x} /\ y \in NodeOrNull BY <1>5 DEF NodeOrNull
      <4>2. QED BY <1>4, <1>5, <1>9, <4>1 DEF Replaces, Links
    <3>2. \A o \in BOOLEAN : SideHeight(m, g, a, t, 0, y, o) = SideHeight(l, h, a, t, 0, y, o)
      BY <1>12, <1>14, <1>16
    <3>3. QED BY <1>10, <2>1, <3>1, <3>2 DEF LevelAt
  <2>3. LevelAt(m, g, a, t, 0, x)
    <3>1. m.balance[x] = l.balance[n] BY <1>4, <1>5 DEF Replaces, Links
    <3>2. \A o \in BOOLEAN : SideHeight(m, g, a, t, 0, x, o) = SideHeight(l, h, a, t, 0, n, o)
      BY <1>12, <1>15, <1>16
    <3>3. QED BY <1>9, <1>10, <2>1, <3>1, <3>2 DEF LevelAt
  <2>4. SideHeight(m, g, a, t, 0, Head, FALSE) = e
    <3>1. \A o \in BOOLEAN :
            SideHeight(m, g, a, t, 0, Head, o) = SideHeight(l, h, a, t, 0, Head, o)
      BY <1>5, <1>12, <1>14, <1>16
    <3>2. SideHeight(l, h, a, t, 0, Head, FALSE) = e BY <1>2 DEF Levels
    <3>3. QED BY <1>10, <3>1, <3>2
  <2>5. QED BY <1>9, <2>2, <2>3, <2>4 DEF Levels
<1>18. Clear(m, T \cup {x})
  <2> SUFFICES ASSUME NEW y \in Key \ (T \cup {x})
               PROVE  /\ m.left[y] = Null /\ m.right[y] = Null /\ m.parent[y] = Null
                      /\ m.balance[y] = Balanced
    BY DEF Clear
  <2>1. /\ l.left[y] = Null /\ l.right[y] = Null /\ l.parent[y] = Null
        /\ l.balance[y] = Balanced
    BY DEF Clear
  <2>2. y \in Node /\ y # p /\ y # x /\ y # Null BY <1>6, Nodes DEF Node
  <2>3. \A o \in BOOLEAN : Child(m, y, o) = Child(l, y, o) BY <1>4, <2>2 DEF Replaces
  <2>4. m.left[y] = l.left[y] /\ m.right[y] = l.right[y] BY <1>10, <2>3 DEF Child
  <2>5. y # Child(l, n, i) /\ y # Child(l, n, j) BY <1>11, <2>2
  <2>6. m.parent[y] = l.parent[y] BY <1>4, <1>10, <2>2, <2>5 DEF Replaces
  <2>7. m.balance[y] = l.balance[y] BY <1>4, <1>5, <2>2 DEF Replaces, Links
  <2>8. QED BY <2>1, <2>4, <2>6, <2>7
<1>19. QED BY <1>8, <1>17, <1>18 DEF Shaped, m, U

\* In the loop of a deletion.
LEMMA Shrinking ==
  ASSUME AvlInv, pc = "shrink"
  PROVE  /\ Counted /\ Clear(links, alive) /\ restart \in alive \cup {Head, Null}
         /\ Shaped(links, alive \ {from}, at, side = LeftHeavy, 1, depth)
         /\ at \in (alive \ {from}) \cup {Head} /\ arg \in alive /\ from \in alive
         /\ side \in {LeftHeavy, RightHeavy} /\ (at = Head => side = RightHeavy)
         /\ links.balance[Head] = Balanced /\ restart # arg
         /\ from # arg =>
              \A z \in alive \ {from} : z = arg \/ Beside(from, from, arg, z)
<1>1. InTree = alive \ {from} /\ Late = 1 /\ LateSide = (side = LeftHeavy)
  BY DEF InTree, Late, LateSide
<1>2. QED BY <1>1 DEF AvlInv, ShrinkInv

\* After the loop.
LEMMA UnlinkKeeps ==
  ASSUME AvlInv, pc = "shrink", NEW l, Unlink(l), restart' = restart,
         NEW a, NEW t, Shaped(l, alive \ {from}, a, t, 0, depth'), Clear(l, alive)
  PROVE  AvlInv'
<1> DEFINE done == <<"delete", arg, TRUE>>
           turned == IF from = arg THEN l ELSE Replace(l, arg, from)
<1>1. /\ Counted /\ restart \in alive \cup {Head, Null} /\ arg \in alive /\ from \in alive
      /\ restart # arg
      /\ from # arg => \A z \in alive \ {from} : z = arg \/ Beside(from, from, arg, z)
  BY Shrinking
<1>2. /\ Finish(Free(turned, arg), done) /\ alive' = alive \ {arg} /\ number' = number - 1
  BY DEF Unlink
<1>3. alive \subseteq Key BY <1>1 DEF Counted
<1>4. Shaped(turned, alive', a, t, 0, depth') /\ Clear(turned, alive)
  <2>1. CASE from = arg BY <1>2, <2>1
  <2>2. CASE from # arg
    <3>1. turned = Replace(l, arg, from) BY <2>2
    <3> HIDE DEF turned
    <3> DEFINE T == alive \ {from}
    <3>2. T \cup {from} = alive /\ (T \ {arg}) \cup {from} = alive' BY <1>1, <1>2, <2>2
    <3>3. from \in Key \ T /\ arg \in T /\ \A z \in T : z = arg \/ Beside(from, from, arg, z)
      BY <1>1, <1>3, <2>2
    <3>4. Shaped(l, T, a, t, 0, depth') /\ Clear(l, T \cup {from}) BY <3>2
    <3> HIDE DEF T
    <3>5. /\ Shaped(turned, (T \ {arg}) \cup {from}, a, t, 0, depth')
          /\ Clear(turned, T \cup {from})
      BY <3>1, <3>3, <3>4, ReplaceShaped
    <3>6. QED BY <3>2, <3>5
  <2>3. QED BY <2>1, <2>2
<1> HIDE DEF turned, done
<1>5. Shaped(Free(turned, arg), alive', a, t, 0, depth') /\ Clear(Free(turned, arg), alive')
  <2>1. alive' \cup {arg} = alive /\ arg \in Key \ alive' BY <1>1, <1>2, <1>3
  <2>2. Clear(turned, alive' \cup {arg}) BY <1>4, <2>1
  <2>3. QED BY <1>4, <2>1, <2>2, FreeShaped
<1>6. Counted' BY <1>1, <1>2, AliveFinite DEF Counted
<1>7. restart' \in alive' \cup {Head, Null} BY <1>1, <1>2
<1>8. done # <<>> BY Answers DEF done
<1>9. QED BY <1>2, <1>5, <1>6, <1>7, <1>8, Finished

\* The loop goes on at the parent of the top of the subtree that has lost a level.
LEMMA UpKeeps ==
  ASSUME AvlInv, pc = "shrink", NEW m, NEW n, Tops(m, alive, alive \ {from}, n, 1, depth'),
         m.balance[Head] = Balanced, links' = m,
         side' = IF IsRightChild(m, n) THEN RightHeavy ELSE LeftHeavy,
         at' = m.parent[n], alive' = alive, number' = number, restart' = restart,
         pc' = pc, arg' = arg, from' = from, answer' = answer
  PROVE  AvlInv'
<1> DEFINE T == alive \ {from}
<1>1. /\ Counted /\ restart \in alive \cup {Head, Null} /\ arg \in alive /\ from \in alive
      /\ restart # arg
      /\ from # arg => \A z \in T : z = arg \/ Beside(from, from, arg, z)
  BY Shrinking
<1>2. n \in T /\ Clear(m, alive) BY DEF Tops
<1>3. PICK u \in BOOLEAN : Child(m, m.parent[n], u) = n /\ Shaped(m, T, m.parent[n], u, 1, depth')
  BY DEF Tops
<1> HIDE DEF T
<1>4. PICK E : IsTree(m, T, E) BY <1>3 DEF Shaped
<1>5. IsLeftChild(m, n) = u /\ IsRightChild(m, n) = ~u BY <1>2, <1>3, <1>4, OneSide
<1>6. side' = (IF u THEN LeftHeavy ELSE RightHeavy) BY <1>5
<1>7. InTree' = T /\ Late' = 1 /\ LateSide' = (side' = LeftHeavy)
  BY DEF InTree, Late, LateSide, T
<1>8. (side' = LeftHeavy) = u BY <1>6 DEF LeftHeavy, RightHeavy
<1>9. Shaped(links, InTree, at, LateSide, Late, depth)' BY <1>3, <1>7, <1>8
<1>10. ShrinkInv'
  <2>1. at' \in T \cup {Head} BY <1>2, <1>4, Up
  <2>2. at' = Head => side' = RightHeavy
    <3>1. n # Null BY <1>2, <1>4, Self
    <3>2. m.left[Head] # n BY <1>4, <3>1 DEF IsTree
    <3>3. at' = Head => u = FALSE BY <1>5, <3>2 DEF IsLeftChild
    <3>4. QED BY <1>6, <3>3
  <2>3. side' \in {LeftHeavy, RightHeavy} BY <1>6
  <2>4. QED BY <1>1, <1>7, <2>1, <2>2, <2>3 DEF ShrinkInv
<1>11. Counted' BY <1>1 DEF Counted
<1>12. IdleInv' /\ GrowInv' /\ pc' = "shrink" /\ (answer' = <<>>) = (pc' # "return")
  BY DEF IdleInv, GrowInv, AvlInv
<1>13. QED BY <1>1, <1>2, <1>9, <1>10, <1>11, <1>12 DEF AvlInv

\* Each iteration of the loop of a deletion keeps it (avlsupp.c 344-393).
LEMMA ShrinkKeeps ==
  ASSUME AvlInv, Shrink
  PROVE  AvlInv'
<1> DEFINE t == side = LeftHeavy
           T == alive \ {from}
           lower == SetBalance(links, at, Balanced)
           tilted == SetBalance(links, at, -side)
           turned == Rebalance(links, at)
<1>1. pc = "shrink" /\ restart' = restart BY DEF Shrink
<1>2. /\ Counted /\ Clear(links, alive) /\ restart \in alive \cup {Head, Null}
      /\ Shaped(links, T, at, t, 1, depth)
      /\ at \in T \cup {Head} /\ arg \in alive /\ from \in alive
      /\ side \in {LeftHeavy, RightHeavy} /\ (at = Head => side = RightHeavy)
      /\ links.balance[Head] = Balanced /\ restart # arg
  BY <1>1, Shrinking
<1>3. PICK D : IsTree(links, T, D) BY <1>2 DEF Shaped
<1>4. PICK h : Levels(links, T, h, at, t, 1, depth) BY <1>2 DEF Shaped
<1>5. PICK i \in BOOLEAN : i = ~t OBVIOUS
<1>6. t \in BOOLEAN /\ side = Sign(t) /\ -side = Sign(i) /\ side \in -1 .. 1 /\ side # 0
      /\ -side \in -1 .. 1 /\ -side # 0 /\ (t => side = -1 /\ -side = 1) /\ (~t => side = 1 /\ -side = -1)
  <2>1. (t /\ side = -1) \/ (~t /\ side = 1) BY <1>2 DEF LeftHeavy, RightHeavy
  <2>2. -side = 0 - side BY <2>1
  <2>3. t => -side = 1
    <3>1. SUFFICES ASSUME t PROVE -side = 1 OBVIOUS
    <3>2. 0 - side = 1 BY <2>1, <3>1 DEF LeftHeavy
    <3>3. QED BY <2>2, <3>2
  <2>4. ~t => -side = -1
    <3>1. SUFFICES ASSUME ~t PROVE -side = -1 OBVIOUS
    <3>2. 0 - side = -1 BY <2>1, <3>1 DEF LeftHeavy
    <3>3. QED BY <2>2, <3>2
  <2>5. side = Sign(t) /\ -side = Sign(i)
    BY <1>5, <2>1, <2>3, <2>4 DEF Sign, LeftHeavy, RightHeavy
  <2>6. QED BY <2>1, <2>3, <2>4, <2>5
<1>7. links \in Links /\ T \subseteq alive /\ T \subseteq Key BY <1>3 DEF IsTree
<1>8. at \in T => at # Head /\ at \in Node BY <1>3, Self
<1> HIDE DEF t, T
<1>9. at \in T => /\ h[Child(links, at, t)] \in Nat /\ h[Child(links, at, ~t)] \in Nat
                  /\ Fits(t, h[Child(links, at, t)] + 1, h[Child(links, at, ~t)],
                          links.balance[at], h[at])
  BY <1>3, <1>4, <1>6, LevelFits
<1> DEFINE x == h[Child(links, at, t)]
           y == h[Child(links, at, ~t)]
<1> HIDE DEF x, y
<1>10. at \in T => /\ x \in Nat /\ y \in Nat /\ h[at] \in Nat
                   /\ h[at] = 1 + (IF x + 1 > y THEN x + 1 ELSE y)
                   /\ links.balance[at] = IF t THEN y - (x + 1) ELSE x + 1 - y
  BY <1>9 DEF Fits, x, y
<1>11. CASE /\ links.balance[at] = side /\ links' = lower
            /\ side' = (IF IsRightChild(lower, at) THEN RightHeavy ELSE LeftHeavy)
            /\ at' = lower.parent[at] /\ depth' = depth
            /\ UNCHANGED <<alive, number, pc, arg, from, answer>>
  <2>1. at \in T BY <1>2, <1>6, <1>11 DEF Balanced
  <2>2. x = y /\ h[at] = x + 2
    <3>1. CASE t
      <4>1. links.balance[at] = -1 BY <1>6, <1>11, <3>1
      <4>2. QED BY <1>10, <2>1, <3>1, <4>1
    <3>2. CASE ~t
      <4>1. links.balance[at] = 1 BY <1>6, <1>11, <3>2
      <4>2. QED BY <1>10, <2>1, <3>2, <4>1
    <3>3. QED BY <3>1, <3>2
  <2>3. Fits(t, x, y, Balanced, h[at] - 1) BY <1>10, <2>1, <2>2 DEF Fits, Balanced
  <2>4. Weighs(lower, links, at, Balanced)
        /\ Tops(lower, alive, T, at, h[at] - (h[at] - 1), depth)
    <3>1. Balanced \in -1 .. 1 BY DEF Balanced
    <3>2. Reweighs(links, T, at, h, t, 1, depth, Balanced, h[at] - 1)
      BY <1>4, <1>6, <2>1, <2>3, <3>1 DEF Reweighs, x, y
    <3>3. QED BY <1>2, <1>3, <1>7, <3>2, WeighTops
  <2> HIDE DEF lower
  <2>5. h[at] - (h[at] - 1) = 1 BY <1>10, <2>1
  <2>6. Tops(lower, alive, alive \ {from}, at, 1, depth') BY <1>11, <2>4, <2>5 DEF T
  <2>7. lower.balance[Head] = Balanced
    BY <1>2, <1>7, <1>8, <2>1, <2>4 DEF Weighs, Links, Node
  <2>8. QED BY <1>1, <1>11, <2>6, <2>7, UpKeeps
<1>12. CASE /\ links.balance[at] = Balanced /\ Unlink(tilted)
            /\ depth' = IF tilted.balance[Head] # Balanced THEN depth - 1 ELSE depth
  <2>1. Weighs(tilted, links, at, -side) BY <1>6, <1>7, SetBalanceLinks
  <2>2. CASE at = Head
    <3>1. t = FALSE BY <1>2, <1>6, <2>2 DEF RightHeavy
    <3>2. Shaped(tilted, T, Head, t, 1, depth) /\ Clear(tilted, alive)
          /\ tilted.balance[Head] = -side
      <4>1. Shaped(links, T, Head, t, 1, depth) BY <1>2, <2>2
      <4>2. QED BY ZenonT(30), <1>2, <1>6, <2>2, <4>1, HeadShaped
    <3> HIDE DEF tilted
    <3>3. Shaped(tilted, T, Null, t, 0, depth - 1)
      <4>1. 1 \in Int OBVIOUS
      <4>2. QED BY <3>1, <3>2, <4>1, HeadLate
    <3>4. depth' = depth - 1 BY <1>6, <1>12, <3>2 DEF Balanced
    <3>5. Shaped(tilted, alive \ {from}, Null, t, 0, depth') BY <3>3, <3>4 DEF T
    <3>6. Unlink(tilted) BY <1>12
    <3>7. QED BY <1>1, <3>2, <3>5, <3>6, UnlinkKeeps
  <2>3. CASE at \in T
    <3>1. y = x + 1 /\ h[at] = y + 1
      <4>1. links.balance[at] = 0 BY <1>12 DEF Balanced
      <4>2. CASE t BY <1>10, <2>3, <4>1, <4>2
      <4>3. CASE ~t BY <1>10, <2>3, <4>1, <4>3
      <4>4. QED BY <4>2, <4>3
    <3>2. Fits(t, x, y, -side, h[at])
      <4>1. -side = IF t THEN y - x ELSE x - y BY <1>6, <1>10, <2>3, <3>1
      <4>2. h[at] \in Nat /\ h[at] = 1 + IF x > y THEN x ELSE y BY <1>10, <2>3, <3>1
      <4>3. QED BY <4>1, <4>2 DEF Fits
    <3>3. Tops(tilted, alive, T, at, h[at] - h[at], depth)
      <4>1. Reweighs(links, T, at, h, t, 1, depth, -side, h[at])
        BY <1>4, <1>6, <2>3, <3>2 DEF Reweighs, x, y
      <4>2. QED BY <1>2, <1>3, <1>7, <4>1, WeighTops
    <3> HIDE DEF tilted
    <3>4. h[at] - h[at] = 0 BY <1>10, <2>3
    <3>5. tilted.balance[Head] = Balanced
      BY <1>2, <1>7, <1>8, <2>1, <2>3 DEF Weighs, Links, Node
    <3>6. depth' = depth BY <1>12, <3>5
    <3>7. Clear(tilted, alive)
          /\ \E u \in BOOLEAN : Shaped(tilted, alive \ {from}, tilted.parent[at], u, 0, depth')
      BY <3>3, <3>4, <3>6 DEF Tops, T
    <3>8. Unlink(tilted) BY <1>12
    <3>9. QED BY <1>1, <3>7, <3>8, UnlinkKeeps
  <2>4. QED BY <1>2, <2>2, <2>3
<1>13. CASE links.balance[at] = -side /\ depth' = depth
            /\ IF turned.still THEN Unlink(turned.links)
               ELSE /\ links' = turned.links
                    /\ side' = (IF IsRightChild(turned.links, turned.links.parent[at])
                                THEN RightHeavy ELSE LeftHeavy)
                    /\ at' = turned.links.parent[turned.links.parent[at]]
                    /\ UNCHANGED <<alive, number, pc, arg, from, answer>>
  <2>1. at \in T BY <1>2, <1>6, <1>13 DEF Balanced
  <2>2. Tilted(links, T, at, i, h, t, 1, depth)
    <3>1. t = ~i BY <1>5, <1>6
    <3>2. QED BY <1>4, <1>6, <1>13, <2>1, <3>1 DEF Tilted
  <2>3. t # i BY <1>5, <1>6
  <2> DEFINE m == turned.links
             c == IF t = i \/ turned.still THEN 0 ELSE 1
  <2>4. Settles(m, links, T, at, c, depth)
    <3>1. t = i => links.balance[Child(links, at, i)] # Balanced BY <2>3
    <3>2. QED BY <1>3, <2>2, <3>1, RebalanceSettles
  <2>5. c = IF turned.still THEN 0 ELSE 1 BY <2>3
  <2> HIDE DEF c, m, turned
  <2>6. /\ Tops(m, alive, T, m.parent[at], c, depth)
        /\ m.balance[Head] = Balanced
    BY <1>2, <1>7, <2>4, SettlesTops
  <2>7. CASE turned.still
    <3>1. c = 0 /\ Unlink(m) BY <1>13, <2>5, <2>7 DEF m
    <3>2. Clear(m, alive)
          /\ \E u \in BOOLEAN :
               Shaped(m, alive \ {from}, m.parent[m.parent[at]], u, 0, depth')
      BY <1>13, <2>6, <3>1 DEF Tops, T
    <3>3. QED BY <1>1, <3>1, <3>2, UnlinkKeeps
  <2>8. CASE ~turned.still
    <3>1. /\ c = 1 /\ links' = m
          /\ side' = (IF IsRightChild(m, m.parent[at]) THEN RightHeavy ELSE LeftHeavy)
          /\ at' = m.parent[m.parent[at]]
          /\ alive' = alive /\ number' = number /\ pc' = pc /\ arg' = arg
          /\ from' = from /\ answer' = answer
      BY <1>13, <2>5, <2>8 DEF m
    <3>2. Tops(m, alive, alive \ {from}, m.parent[at], 1, depth') BY <1>13, <2>6, <3>1 DEF T
    <3>3. QED BY <1>1, <2>6, <3>1, <3>2, UpKeeps
  <2>9. QED BY <2>7, <2>8
<1>14. QED BY <1>11, <1>12, <1>13 DEF Shrink

\* An enumeration leaves the restart key on an element or on the header.
LEMMA EnumerateKeeps ==
  ASSUME AvlInv, pc = "idle", NEW again \in BOOLEAN, Enumerate(again)
  PROVE  AvlInv'
<1> DEFINE key == IF again THEN Null ELSE restart
           next == IF key = Null THEN Outermost(links, links.right[Head], TRUE)
                   ELSE Neighbour(links, key, FALSE)
           node == IF number = 0 THEN Null ELSE next
<1>1. /\ Counted /\ Clear(links, alive) /\ Shaped(links, alive, at, LateSide, 0, depth)
      /\ restart \in alive \cup {Head, Null} /\ side = Balanced
  BY Rests
<1>2. PICK D : IsTree(links, alive, D) BY <1>1 DEF Shaped
<1>3. Reply(<<"enumerate", again, node>>) /\ restart' = IF node = Null THEN key ELSE node
  BY DEF Enumerate
<1>4. key \in alive \cup {Head, Null} BY <1>1
<1>5. number # 0 => Outermost(links, links.right[Head], TRUE) \in alive
  <2> SUFFICES ASSUME number # 0 PROVE Outermost(links, links.right[Head], TRUE) \in alive
    OBVIOUS
  <2>1. alive # {} BY <1>1, AliveFinite
  <2>2. links.right[Head] \in alive
    <3>1. PICK j \in BOOLEAN : j = FALSE OBVIOUS
    <3>2. Head \in Node /\ links.right[Head] = Child(links, Head, j) BY <3>1 DEF Node, Child
    <3>3. links.right[Head] \in alive \cup {Null} BY <1>2, <3>2 DEF IsTree
    <3>4. links.right[Head] # Null BY <1>2, <2>1 DEF IsTree
    <3>5. QED BY <3>3, <3>4
  <2>3. PICK i \in BOOLEAN : i = TRUE OBVIOUS
  <2>4. Outermost(links, links.right[Head], i) \in D[links.right[Head]]
    BY <1>2, <2>2, OutermostIs
  <2>5. D[links.right[Head]] = alive BY <1>2 DEF IsTree
  <2>6. QED BY <2>3, <2>4, <2>5
<1>6. number # 0 /\ key = Head => Neighbour(links, key, FALSE) \in alive
  <2> SUFFICES ASSUME number # 0 PROVE Neighbour(links, Head, FALSE) \in alive OBVIOUS
  <2>1. Outermost(links, links.right[Head], TRUE) \in alive BY <1>5
  <2>2. links.right[Head] # Null
    <3>1. alive # {} BY <1>1, AliveFinite
    <3>2. QED BY <1>2, <3>1 DEF IsTree
  <2>3. QED BY <2>1, <2>2 DEF Neighbour, Child
<1>7. key \in alive => Neighbour(links, key, FALSE) \in alive \cup {Null}
  <2> SUFFICES ASSUME key \in alive PROVE Neighbour(links, key, FALSE) \in alive \cup {Null}
    OBVIOUS
  <2> HIDE DEF key
  <2>1. Linked(links) = alive \cup {Head} BY <1>1, <1>2, LinkedIs
  <2>2. PICK j \in BOOLEAN : j = FALSE OBVIOUS
  <2>3. \/ Neighbour(links, key, j) \in alive
        \/ Neighbour(links, key, j) = IF j THEN Head ELSE Null
    BY <1>2, <2>1, NeighbourIs
  <2>4. QED BY <2>2, <2>3
<1> HIDE DEF key
<1>8. node \in alive \cup {Null} BY <1>4, <1>5, <1>6, <1>7
<1>9. restart' \in alive \cup {Head, Null} BY <1>3, <1>4, <1>8
<1> HIDE DEF node
<1>10. <<"enumerate", again, node>> # <<>> BY Answers
<1>11. QED BY <1>3, <1>9, <1>10, ReplyKeeps

\* A lookup keeps the invariant.
LEMMA LookupKeeps ==
  ASSUME AvlInv, pc = "idle", NEW k, Lookup(k)
  PROVE  AvlInv'
<1>1. PICK n : Reply(<<"lookup", k, n>>) /\ restart' = restart BY DEF Lookup
<1>2. <<"lookup", k, n>> # <<>> BY Answers
<1>3. restart' \in alive \cup {Head, Null} BY <1>1, Rests
<1>4. QED BY <1>1, <1>2, <1>3, ReplyKeeps

\* So does the lookup of a range.
LEMMA LookupFirstKeeps ==
  ASSUME AvlInv, pc = "idle", NEW lo, NEW hi, LookupFirst(lo, hi)
  PROVE  AvlInv'
<1>1. PICK n : Reply(<<"first", lo, hi, n>>) /\ restart' = restart BY DEF LookupFirst
<1>2. <<"first", lo, hi, n>> # <<>> BY Answers
<1>3. restart' \in alive \cup {Head, Null} BY <1>1, Rests
<1>4. QED BY <1>1, <1>2, <1>3, ReplyKeeps

\* Every call of the guest keeps it.
LEMMA CallKeeps ==
  ASSUME AvlInv, Call
  PROVE  AvlInv'
<1>1. pc = "idle" BY DEF Call
<1>2. ASSUME NEW k \in InsertKeys, Insert(k) PROVE AvlInv'
  BY <1>1, <1>2, InsertKeeps DEF InsertKeys
<1>3. ASSUME NEW k \in DeleteKeys, Delete(k) PROVE AvlInv'
  <2>1. alive \subseteq Key BY DEF AvlInv, Counted
  <2>2. k \in Key BY <2>1, AvlAssumption DEF DeleteKeys
  <2>3. QED BY <1>1, <1>3, <2>2, DeleteKeeps
<1>4. ASSUME NEW k \in Key, Lookup(k) PROVE AvlInv' BY <1>1, <1>4, LookupKeeps
<1>5. ASSUME NEW lo \in Key, NEW hi \in Key, LookupFirst(lo, hi) PROVE AvlInv'
  BY <1>1, <1>5, LookupFirstKeeps
<1>6. ASSUME NEW again \in BOOLEAN, Enumerate(again) PROVE AvlInv'
  BY <1>1, <1>6, EnumerateKeeps
<1>7. QED BY <1>2, <1>3, <1>4, <1>5, <1>6 DEF Call

\* The return of a call keeps it.
LEMMA ReturnKeeps ==
  ASSUME AvlInv, Return
  PROVE  AvlInv'
<1>1. /\ pc = "return" /\ pc' = "idle" /\ answer' = <<>> /\ links' = links /\ alive' = alive
      /\ number' = number /\ depth' = depth /\ restart' = restart
      /\ arg' = arg /\ at' = at /\ from' = from /\ side' = side
  BY DEF Return, loopVars
<1>2. InTree' = InTree /\ Late' = Late /\ LateSide' = LateSide
  BY <1>1 DEF InTree, Late, LateSide
<1>3. Shaped(links, InTree, at, LateSide, Late, depth)' BY <1>1, <1>2 DEF AvlInv
<1>4. Counted' /\ Clear(links', alive') BY <1>1 DEF AvlInv, Counted
<1>5. IdleInv' /\ GrowInv' /\ ShrinkInv'
  BY <1>1 DEF AvlInv, IdleInv, GrowInv, ShrinkInv
<1>6. QED BY <1>1, <1>3, <1>4, <1>5 DEF AvlInv

\* RtlInitializeGenericTableAvl establishes it.
LEMMA InitKeeps ==
  ASSUME Init
  PROVE  AvlInv
<1>1. /\ links = NoLinks /\ alive = {} /\ number = 0 /\ depth = 0 /\ restart = Null
      /\ pc = "idle" /\ arg = Null /\ at = Null /\ from = Null /\ side = Balanced
      /\ answer = <<>>
  BY DEF Init
<1> DEFINE D == [n \in NodeOrNull |-> {}]
           h == [n \in NodeOrNull |-> 0]
<1>2. Head \in Node /\ Head \in NodeOrNull /\ Null \in NodeOrNull /\ Node \subseteq NodeOrNull
  BY DEF Node, NodeOrNull
<1>3. /\ \A n \in Node : /\ NoLinks.left[n] = Null /\ NoLinks.right[n] = Null
                         /\ NoLinks.balance[n] = Balanced
      /\ NoLinks.parent[Head] = Head
      /\ \A n \in Key : NoLinks.parent[n] = Null
      /\ NoLinks \in Links
  BY <1>2, Nodes DEF NoLinks, Links, Balanced, Node, NodeOrNull
<1>4. \A n \in Node, s \in BOOLEAN : Child(NoLinks, n, s) = Null BY <1>3 DEF Child
<1> HIDE DEF NoLinks
<1>5. IsTree(NoLinks, {}, D)
  <2>1. D \in [NodeOrNull -> SUBSET {}] /\ D[Null] = {} /\ D[NoLinks.right[Head]] = {}
    BY <1>2, <1>3
  <2> HIDE DEF D
  <2>2. \A n \in {Head}, s \in BOOLEAN :
          Child(NoLinks, n, s) # Null => NoLinks.parent[Child(NoLinks, n, s)] = n
    BY <1>2, <1>4
  <2>3. QED BY <1>2, <1>3, <1>4, <2>1, <2>2 DEF IsTree
<1>6. Levels(NoLinks, {}, h, Null, LateSide, 0, 0)
  <2>1. h \in [NodeOrNull -> Nat] /\ h[Null] = 0 BY <1>2
  <2>2. Head # Null BY Nodes DEF Node
  <2> HIDE DEF h
  <2>3. QED BY <1>2, <1>3, <2>1, <2>2 DEF Levels, SideHeight, Child
<1>7. InTree = alive /\ Late = 0 BY <1>1 DEF InTree, Late
<1>8. Shaped(links, InTree, at, LateSide, Late, depth) BY <1>1, <1>5, <1>6, <1>7 DEF Shaped
<1>9. Counted /\ Clear(links, alive)
  BY <1>1, <1>3, FS_EmptySet DEF Counted, Clear, Node
<1>10. IdleInv /\ GrowInv /\ ShrinkInv
  BY <1>1, <1>2, <1>3 DEF IdleInv, GrowInv, ShrinkInv
<1>11. QED BY <1>1, <1>8, <1>9, <1>10 DEF AvlInv

\* In every state the nodes form a search tree of the elements in use, and the balance
\* factors and DepthOfTree are those of the heights below each node, up to the level
\* that a call in its loop has still to tell upwards.
THEOREM AvlInvariant == Spec => []AvlInv
<1>1. Init => AvlInv BY InitKeeps
<1>2. AvlInv /\ [Next]_vars => AvlInv'
  <2> SUFFICES ASSUME AvlInv, [Next]_vars PROVE AvlInv' OBVIOUS
  <2>1. CASE Call BY <2>1, CallKeeps
  <2>2. CASE Grow BY <2>2, GrowKeeps
  <2>3. CASE Shrink BY <2>3, ShrinkKeeps
  <2>4. CASE Return BY <2>4, ReturnKeeps
  <2>5. CASE UNCHANGED vars
    <3>1. InTree' = InTree /\ Late' = Late /\ LateSide' = LateSide
      BY <2>5 DEF vars, loopVars, InTree, Late, LateSide
    <3>2. /\ links' = links /\ alive' = alive /\ number' = number /\ depth' = depth
          /\ restart' = restart /\ pc' = pc /\ answer' = answer
          /\ arg' = arg /\ at' = at /\ from' = from /\ side' = side
      BY <2>5 DEF vars
    <3>3. Shaped(links, InTree, at, LateSide, Late, depth)' BY <3>1, <3>2 DEF AvlInv
    <3>4. Counted' /\ Clear(links', alive') BY <3>2 DEF AvlInv, Counted
    <3>5. IdleInv' /\ GrowInv' /\ ShrinkInv'
      BY <3>1, <3>2 DEF AvlInv, IdleInv, GrowInv, ShrinkInv
    <3>6. QED BY <3>2, <3>3, <3>4, <3>5 DEF AvlInv
  <2>6. QED BY <2>1, <2>2, <2>3, <2>4, <2>5 DEF Next, Step
<1>3. QED BY <1>1, <1>2, PTL DEF Spec

\* RestartKey never points to a node that has been freed: a deletion moves it back
\* first (avltable.c 308).
THEOREM RestartKeyIsAlive == Spec => []RestartKeyAlive
<1>1. AvlInv => RestartKeyAlive BY DEF AvlInv, RestartKeyAlive
<1>2. QED BY <1>1, AvlInvariant, PTL

\* The links are those of a search tree of exactly the elements in use, whatever the
\* rotations and replacements, also inside a call (avlsupp.c 97-123, 324-393).
THEOREM TreeIsOrdered == Spec => []SearchTree
<1>1. ASSUME AvlInv PROVE SearchTree
  <2>1. PICK D : IsTree(links, InTree, D) BY <1>1 DEF AvlInv, Shaped
  <2>2. ASSUME NEW n \in InTree \cup {Head}, NEW onLeft \in BOOLEAN,
               Child(links, n, onLeft) # Null
        PROVE  /\ Child(links, n, onLeft) \in InTree
               /\ links.parent[Child(links, n, onLeft)] = n
    <3>1. n \in Node BY <2>1 DEF IsTree, Node
    <3>2. QED BY <2>1, <2>2, <3>1 DEF IsTree
  <2>3. ASSUME NEW n \in InTree PROVE IsLeftChild(links, n) # IsRightChild(links, n)
    <3>1. PICK s \in BOOLEAN : Child(links, links.parent[n], s) = n BY <2>1, Up
    <3>2. IsLeftChild(links, n) = s /\ IsRightChild(links, n) = ~s BY <2>1, <3>1, OneSide
    <3>3. QED BY <3>2
  <2>4. links.left[Head] = Null /\ links.parent[Head] = Head BY <2>1 DEF IsTree
  <2>5. \A n \in InTree : FoundOrParent(links, n, n) = n BY <2>1, SearchFinds
  <2>6. number = Cardinality(alive) BY <1>1 DEF AvlInv, Counted
  <2>7. QED BY <2>2, <2>3, <2>4, <2>5, <2>6 DEF SearchTree
<1>2. QED BY <1>1, AvlInvariant, PTL

\* By how much side s of n differs.
Diff(a, t, d, n, s) == IF n = a /\ s = t THEN d ELSE 0

\* The height that f gives to n, from those it gives to the children of n.
Above(l, f, t, d, a, n) ==
  LET x == f[Child(l, n, TRUE)] + Diff(a, t, d, n, TRUE)
      y == f[Child(l, n, FALSE)] + Diff(a, t, d, n, FALSE)
  IN  1 + (IF x > y THEN x ELSE y)

\* f is computed from the links, as Told does.
TellsAs(f, l, t, d, a) ==
  f = [n \in NodeOrNull |-> IF n = Null THEN 0 ELSE Above(l, f, t, d, a, n)]

\* Two functions that agree on the tree tell the same of every node.
LEMMA SameAbove ==
  ASSUME NEW l, NEW T, NEW D, IsTree(l, T, D), NEW h, NEW f, NEW n \in Node,
         \A s \in BOOLEAN : f[Child(l, n, s)] = h[Child(l, n, s)],
         NEW t, NEW d, NEW a
  PROVE  Above(l, f, t, d, a, n) = Above(l, h, t, d, a, n)
<1>1. PICK i, j \in BOOLEAN : i = TRUE /\ j = FALSE OBVIOUS
<1>2. /\ f[Child(l, n, TRUE)] = h[Child(l, n, TRUE)]
      /\ f[Child(l, n, FALSE)] = h[Child(l, n, FALSE)]
  BY <1>1
<1>3. QED BY <1>2 DEF Above

\* The factors are the differences of what h tells of the sides, e is the height.
TellsShape(l, T, h, t, d, a, e) ==
  /\ \A n \in T : l.balance[n] = (h[Child(l, n, FALSE)] + Diff(a, t, d, n, FALSE))
                                   - (h[Child(l, n, TRUE)] + Diff(a, t, d, n, TRUE))
  /\ e = h[Child(l, Head, FALSE)] + Diff(a, t, d, Head, FALSE)

\* The certificate tells what Told does.
LEMMA LevelsTell ==
  ASSUME NEW l, NEW T, NEW D, IsTree(l, T, D), NEW h, NEW t \in BOOLEAN, NEW d \in Int,
         NEW a, NEW e, Levels(l, T, h, a, t, d, e)
  PROVE  /\ h[Null] = 0 /\ \A n \in T : h[n] = Above(l, h, t, d, a, n)
         /\ TellsShape(l, T, h, t, d, a, e)
<1>1. PICK i, j \in BOOLEAN : i = TRUE /\ j = FALSE OBVIOUS
<1>2. h[Null] = 0 /\ h \in [NodeOrNull -> Nat] BY DEF Levels
<1>3. \A n \in Node, s \in BOOLEAN :
        SideHeight(l, h, a, t, d, n, s) = h[Child(l, n, s)] + Diff(a, t, d, n, s)
  <2> TAKE n \in Node, s \in BOOLEAN
  <2>1. h[Child(l, n, s)] \in Nat BY <1>2, HeightType
  <2>2. QED BY <2>1 DEF SideHeight, Diff
<1>4. \A n \in Node :
        /\ SideHeight(l, h, a, t, d, n, TRUE) = h[Child(l, n, TRUE)] + Diff(a, t, d, n, TRUE)
        /\ SideHeight(l, h, a, t, d, n, FALSE) = h[Child(l, n, FALSE)] + Diff(a, t, d, n, FALSE)
  BY <1>1, <1>3
<1>5. ASSUME NEW n \in T
      PROVE  /\ h[n] = Above(l, h, t, d, a, n)
             /\ l.balance[n] = (h[Child(l, n, FALSE)] + Diff(a, t, d, n, FALSE))
                                 - (h[Child(l, n, TRUE)] + Diff(a, t, d, n, TRUE))
  <2>1. n \in Node BY Self
  <2>2. LevelAt(l, h, a, t, d, n) BY DEF Levels
  <2>3. QED BY <1>4, <2>1, <2>2 DEF LevelAt, Leans, Above
<1>6. Head \in Node BY DEF Node
<1>7. e = SideHeight(l, h, a, t, d, Head, FALSE) BY DEF Levels
<1>8. QED BY <1>2, <1>4, <1>5, <1>6, <1>7 DEF TellsShape

\* There is a function that computes the heights from the factors: AvlShape has one.
LEMMA TellsExists ==
  ASSUME NEW l, NEW T, NEW D, IsTree(l, T, D), NEW h, NEW t \in BOOLEAN, NEW d \in Int,
         NEW a, NEW e, Levels(l, T, h, a, t, d, e)
  PROVE  \E f : TellsAs(f, l, t, d, a)
<1> DEFINE M(n) == Above(l, h, t, d, a, n)
           f == [n \in NodeOrNull |-> IF n = Null THEN 0 ELSE IF n \in T THEN h[n] ELSE M(n)]
<1>1. h[Null] = 0 /\ \A n \in T : h[n] = M(n) BY LevelsTell
<1>2. \A n \in T \cup {Null} : n \in NodeOrNull /\ f[n] = h[n]
  <2>1. \A n \in T : n \in NodeOrNull /\ n # Null BY Self
  <2> HIDE DEF M
  <2>2. QED BY <1>1, <2>1 DEF NodeOrNull
<1>3. \A n \in Node : Above(l, f, t, d, a, n) = M(n)
  <2> TAKE n \in Node
  <2>1. \A s \in BOOLEAN : Child(l, n, s) \in T \cup {Null} BY DEF IsTree
  <2>2. \A s \in BOOLEAN : f[Child(l, n, s)] = h[Child(l, n, s)] BY <1>2, <2>1
  <2> HIDE DEF f
  <2>3. QED BY <2>2, SameAbove
<1> DEFINE N(n) == Above(l, f, t, d, a, n)
<1>4. \A n \in NodeOrNull : f[n] = IF n = Null THEN 0 ELSE N(n)
  <2> TAKE n \in NodeOrNull
  <2>1. f[n] = IF n = Null THEN 0 ELSE IF n \in T THEN h[n] ELSE M(n) OBVIOUS
  <2>2. n # Null => N(n) = M(n)
    <3> HIDE DEF f, M
    <3>1. QED BY <1>3 DEF NodeOrNull
  <2> HIDE DEF f, N, M
  <2>3. QED BY <1>1, <2>1, <2>2
<1>5. f = [n \in NodeOrNull |-> IF n = Null THEN 0 ELSE N(n)]
  <2>1. f = [n \in NodeOrNull |-> f[n]] OBVIOUS
  <2> HIDE DEF f, N
  <2>2. QED BY <1>4, <2>1
<1>6. TellsAs(f, l, t, d, a)
  <2> HIDE DEF f
  <2>1. QED BY <1>5 DEF TellsAs
<1>7. QED BY <1>6

\* What it computes are the heights of the invariant.
LEMMA TellsOne ==
  ASSUME NEW l, NEW T, NEW D, IsTree(l, T, D), NEW h, NEW t \in BOOLEAN, NEW d \in Int,
         NEW a, NEW e, Levels(l, T, h, a, t, d, e), NEW f, TellsAs(f, l, t, d, a)
  PROVE  \A n \in T \cup {Null} : f[n] = h[n]
<1>1. f[Null] = 0 /\ h[Null] = 0 BY DEF TellsAs, Levels, NodeOrNull
<1> DEFINE A == {n \in T : f[n] # h[n]}
<1>2. SUFFICES ASSUME A # {} PROVE FALSE BY <1>1
<1>3. IsFiniteSet(T) /\ T \subseteq NodeOrNull /\ D \in [NodeOrNull -> SUBSET T]
  <2>1. T \subseteq Node /\ T \subseteq NodeOrNull BY DEF IsTree, Node, NodeOrNull
  <2>2. QED BY <2>1, Nodes, FS_Subset DEF IsTree
<1>4. A \in SUBSET NodeOrNull BY <1>3
<1>5. PICK n \in A : \A y \in A : D[y] \subseteq D[n] => D[y] = D[n]
  <2> HIDE DEF A
  <2>1. QED BY <1>2, <1>3, <1>4, LeastPlace
<1>6. n \in T /\ f[n] # h[n] /\ n \in Node /\ n \in NodeOrNull /\ n # Null BY <1>5, Self
<1>7. \A s \in BOOLEAN : f[Child(l, n, s)] = h[Child(l, n, s)]
  <2> TAKE s \in BOOLEAN
  <2>1. /\ Child(l, n, s) \in T \cup {Null} /\ D[Child(l, n, s)] \subseteq D[n]
        /\ n \in D[n] /\ n \notin D[Child(l, n, s)]
    BY <1>6, Parts
  <2>2. Child(l, n, s) \notin A BY <1>5, <2>1
  <2>3. QED BY <1>1, <2>1, <2>2
<1>8. Above(l, f, t, d, a, n) = Above(l, h, t, d, a, n) BY <1>6, <1>7, SameAbove
<1>9. f[n] = Above(l, f, t, d, a, n) BY <1>6 DEF TellsAs
<1>10. h[n] = Above(l, h, t, d, a, n) BY <1>6, LevelsTell
<1>11. QED BY <1>6, <1>8, <1>9, <1>10

\* What Behind says of a side is what the invariant does.
LEMMA BehindIs ==
  ASSUME AvlInv, NEW n \in Node, NEW b \in {LeftHeavy, RightHeavy}
  PROVE  Behind(n, b) = Diff(at, LateSide, Late, n, b = LeftHeavy)
<1>1. pc \in {"idle", "grow", "shrink", "return"} BY DEF AvlInv
<1>2. CASE pc = "grow"
  <2> DEFINE t == IsLeftChild(links, from)
  <2>1. /\ Shaped(links, alive, at, t, -1, depth) /\ t \in BOOLEAN /\ from \in alive
        /\ at = links.parent[from] /\ Child(links, at, t) = from
    BY <1>2, Growing
  <2>2. PICK D : IsTree(links, alive, D) BY <2>1 DEF Shaped
  <2>3. LateSide = t /\ Late = -1 BY <1>2 DEF LateSide, Late
  <2> HIDE DEF t
  <2>4. Child(links, at, ~t) # from BY <2>1, <2>2, OneSide
  <2>5. (Child(links, at, b = LeftHeavy) = from) = ((b = LeftHeavy) = t)
    <3>1. PICK s \in BOOLEAN : s = (b = LeftHeavy) OBVIOUS
    <3>2. PICK i \in BOOLEAN : i = ~t OBVIOUS
    <3>3. s = t \/ s = i BY <2>1, <3>2
    <3>4. Child(links, at, i) # from BY <2>4, <3>2
    <3>5. (Child(links, at, s) = from) = (s = t)
      <4>1. CASE s = t BY <2>1, <4>1
      <4>2. CASE s = i BY <2>1, <3>2, <3>4, <4>2
      <4>3. QED BY <3>3, <4>1, <4>2
    <3>6. QED BY <3>1, <3>5
  <2>6. Behind(n, b) = IF n = at /\ Child(links, n, b = LeftHeavy) = from THEN -1 ELSE 0
    BY <1>2 DEF Behind
  <2>7. QED BY <2>3, <2>5, <2>6 DEF Diff
<1>3. CASE pc = "shrink"
  <2>1. side \in {LeftHeavy, RightHeavy} BY <1>3, Shrinking
  <2>2. (b = side) = ((b = LeftHeavy) = (side = LeftHeavy))
    BY <2>1 DEF LeftHeavy, RightHeavy
  <2>3. Behind(n, b) = IF n = at /\ b = side THEN 1 ELSE 0 BY <1>3 DEF Behind
  <2>4. QED BY <1>3, <2>2, <2>3 DEF Diff, LateSide, Late
<1>4. CASE pc \in {"idle", "return"}
  <2>1. Behind(n, b) = 0 BY <1>4 DEF Behind
  <2>2. QED BY <1>4, <2>1 DEF Diff, Late
<1>5. QED BY <1>1, <1>2, <1>3, <1>4

\* Every balance factor is the difference of the heights below its node, and
\* DepthOfTree the height of the tree, but for what a call has still to tell upwards:
\* so no sequence of calls makes the tree higher than its factors say
\* (avlsupp.c 125-204).
THEOREM BalanceIsHeight == Spec => []AvlShape
<1>1. ASSUME AvlInv PROVE AvlShape
  <2> DEFINE t == LateSide
             d == Late
             SideOf(f, n, b) == f[Child(links, n, b = LeftHeavy)] + Behind(n, b)
             Down(f) == [n \in NodeOrNull |->
                           IF n = Null THEN 0
                           ELSE LET l == SideOf(f, n, LeftHeavy)
                                    r == SideOf(f, n, RightHeavy)
                                IN  1 + (IF l > r THEN l ELSE r)]
             w == CHOOSE f : f = Down(f)
  <2>1. PICK D : IsTree(links, InTree, D) BY <1>1 DEF AvlInv, Shaped
  <2>2. PICK h : Levels(links, InTree, h, at, t, d, depth) BY <1>1 DEF AvlInv, Shaped
  <2>3. t \in BOOLEAN /\ d \in Int
    <3>1. t \in BOOLEAN BY DEF LateSide, IsLeftChild
    <3>2. d \in Int BY DEF Late
    <3>3. QED BY <3>1, <3>2
  <2>4. \A n \in Node :
          /\ Behind(n, LeftHeavy) = Diff(at, t, d, n, TRUE)
          /\ Behind(n, RightHeavy) = Diff(at, t, d, n, FALSE)
    <3> TAKE n \in Node
    <3>1. (LeftHeavy = LeftHeavy) = TRUE /\ (RightHeavy = LeftHeavy) = FALSE
      BY DEF LeftHeavy, RightHeavy
    <3>2. /\ Behind(n, LeftHeavy) = Diff(at, t, d, n, LeftHeavy = LeftHeavy)
          /\ Behind(n, RightHeavy) = Diff(at, t, d, n, RightHeavy = LeftHeavy)
      BY <1>1, BehindIs
    <3>3. QED BY <3>1, <3>2
  <2>5. ASSUME NEW f, NEW n \in Node
        PROVE  /\ SideOf(f, n, LeftHeavy) = f[Child(links, n, TRUE)] + Diff(at, t, d, n, TRUE)
               /\ SideOf(f, n, RightHeavy) = f[Child(links, n, FALSE)] + Diff(at, t, d, n, FALSE)
    <3>1. Child(links, n, LeftHeavy = LeftHeavy) = Child(links, n, TRUE)
          /\ Child(links, n, RightHeavy = LeftHeavy) = Child(links, n, FALSE)
      BY DEF LeftHeavy, RightHeavy, Child
    <3>2. QED BY <2>4, <3>1
  <2> HIDE DEF t, d
  <2>6. ASSUME NEW f PROVE Down(f) = [n \in NodeOrNull |->
                                        IF n = Null THEN 0 ELSE Above(links, f, t, d, at, n)]
    <3>1. \A n \in NodeOrNull : n = Null \/ n \in Node BY DEF NodeOrNull
    <3> HIDE DEF SideOf
    <3>2. QED BY <2>5, <3>1 DEF Above
  <2>7. TellsAs(w, links, t, d, at)
    <3>1. PICK f : TellsAs(f, links, t, d, at) BY <2>1, <2>2, <2>3, TellsExists
    <3>2. f = Down(f) BY <2>6, <3>1 DEF TellsAs
    <3>3. w = Down(w)
      <4> HIDE DEF Down
      <4>1. QED BY <3>2
    <3> HIDE DEF Down, w
    <3>4. QED BY <2>6, <3>3 DEF TellsAs
  <2>8. Told = [lean |-> [n \in InTree |-> SideOf(w, n, RightHeavy) - SideOf(w, n, LeftHeavy)],
                height |-> SideOf(w, Head, RightHeavy)]
    BY DEF Told
  <2> HIDE DEF w, SideOf, Down
  <2>9. \A n \in InTree \cup {Null} : w[n] = h[n]
    BY <2>1, <2>2, <2>3, <2>7, TellsOne
  <2>10. \A n \in Node : /\ w[Child(links, n, TRUE)] = h[Child(links, n, TRUE)]
                         /\ w[Child(links, n, FALSE)] = h[Child(links, n, FALSE)]
    <3>1. \A n \in Node, s \in BOOLEAN : Child(links, n, s) \in InTree \cup {Null}
      BY <2>1 DEF IsTree
    <3>2. PICK i, j \in BOOLEAN : i = TRUE /\ j = FALSE OBVIOUS
    <3>3. QED BY <2>9, <3>1, <3>2
  <2>11. /\ \A n \in InTree :
              links.balance[n] = (h[Child(links, n, FALSE)] + Diff(at, t, d, n, FALSE))
                                   - (h[Child(links, n, TRUE)] + Diff(at, t, d, n, TRUE))
         /\ depth = h[Child(links, Head, FALSE)] + Diff(at, t, d, Head, FALSE)
    <3>1. TellsShape(links, InTree, h, t, d, at, depth) BY <2>1, <2>2, <2>3, LevelsTell
    <3>2. QED BY <3>1 DEF TellsShape
  <2>12. \A n \in InTree : links.balance[n] = SideOf(w, n, RightHeavy) - SideOf(w, n, LeftHeavy)
    <3> TAKE n \in InTree
    <3>1. n \in Node BY <2>1, Self
    <3>2. /\ SideOf(w, n, LeftHeavy) = h[Child(links, n, TRUE)] + Diff(at, t, d, n, TRUE)
          /\ SideOf(w, n, RightHeavy) = h[Child(links, n, FALSE)] + Diff(at, t, d, n, FALSE)
      BY <2>5, <2>10, <3>1
    <3>3. QED BY <2>11, <3>2
  <2>13. depth = SideOf(w, Head, RightHeavy)
    <3>1. Head \in Node BY DEF Node
    <3>2. QED BY <2>5, <2>10, <2>11, <3>1
  <2>14. QED BY <2>8, <2>12, <2>13 DEF AvlShape
<1>2. QED BY <1>1, AvlInvariant, PTL

\* What a height may exceed the size of its subtree by.
Extra(D, d, a, n) == IF d = 1 /\ a \in D[n] THEN 1 ELSE 0

\* A tree is not higher than it is large, up to the level that has still to be told.
LEMMA HeightBound ==
  ASSUME NEW l, NEW T, NEW D, IsTree(l, T, D), NEW h, NEW t \in BOOLEAN, NEW d \in -1 .. 1,
         NEW a, NEW e, Levels(l, T, h, a, t, d, e)
  PROVE  \A n \in T \cup {Null} : /\ h[n] \in Nat /\ Cardinality(D[n]) \in Nat
                                  /\ h[n] <= Cardinality(D[n]) + Extra(D, d, a, n)
<1>1. /\ IsFiniteSet(T) /\ T \subseteq NodeOrNull /\ D \in [NodeOrNull -> SUBSET T]
      /\ D[Null] = {} /\ h \in [NodeOrNull -> Nat] /\ h[Null] = 0
  <2>1. T \subseteq Node /\ T \subseteq NodeOrNull BY DEF IsTree, Node, NodeOrNull
  <2>2. QED BY <2>1, Nodes, FS_Subset DEF IsTree, Levels
<1>2. \A n \in T \cup {Null} : IsFiniteSet(D[n]) /\ Cardinality(D[n]) \in Nat /\ h[n] \in Nat
  <2> TAKE n \in T \cup {Null}
  <2>1. n \in NodeOrNull BY <1>1 DEF NodeOrNull
  <2>2. D[n] \subseteq T BY <1>1, <2>1
  <2>3. IsFiniteSet(D[n]) BY <1>1, <2>2, FS_Subset
  <2>4. QED BY <1>1, <2>1, <2>3, FS_CardinalityType
<1>3. Cardinality(D[Null]) = 0 BY <1>1, FS_EmptySet
<1> DEFINE R(n) == Cardinality(D[n]) + Extra(D, d, a, n)
           A == {n \in T : ~(h[n] <= R(n))}
<1>4. h[Null] <= R(Null) BY <1>1, <1>3 DEF Extra
<1>5. SUFFICES ASSUME A # {} PROVE FALSE BY <1>2, <1>4
<1>6. PICK n \in A : \A y \in A : D[y] \subseteq D[n] => D[y] = D[n]
  <2>1. A \in SUBSET NodeOrNull BY <1>1
  <2> HIDE DEF A
  <2>2. QED BY <1>1, <1>5, <2>1, LeastPlace
<1>7. n \in T /\ ~(h[n] <= R(n)) /\ n \in Node BY <1>6, Self
<1>8. ASSUME NEW s \in BOOLEAN
      PROVE  /\ SideHeight(l, h, a, t, d, n, s) \in Int
             /\ SideHeight(l, h, a, t, d, n, s) <= R(n) - 1
  <2> DEFINE c == Child(l, n, s)
  <2>1. /\ c \in T \cup {Null} /\ D[c] \subseteq D[n] /\ n \in D[n] /\ n \notin D[c]
    BY <1>7, Parts
  <2> HIDE DEF c
  <2>2. Cardinality(D[c]) + 1 <= Cardinality(D[n])
    <3>1. Cardinality(D[c] \cup {n}) = Cardinality(D[c]) + 1
      BY <1>2, <2>1, FS_AddElement
    <3>2. D[c] \cup {n} \subseteq D[n] BY <2>1
    <3>3. Cardinality(D[c] \cup {n}) <= Cardinality(D[n]) BY <1>2, <1>7, <3>2, FS_Subset
    <3>4. QED BY <3>1, <3>3
  <2>3. h[c] <= R(c)
    <3>1. c \notin A BY <1>6, <2>1
    <3>2. CASE c \in T BY <3>1, <3>2
    <3>3. CASE c = Null BY <1>4, <3>3
    <3>4. QED BY <2>1, <3>2, <3>3
  <2>4. /\ h[c] \in Nat /\ Cardinality(D[c]) \in Nat /\ Cardinality(D[n]) \in Nat
    BY <1>2, <1>7, <2>1
  <2>5. Extra(D, d, a, c) \in 0 .. 1 /\ Extra(D, d, a, n) \in 0 .. 1
        /\ Extra(D, d, a, c) <= Extra(D, d, a, n)
    BY <2>1 DEF Extra
  <2>6. CASE n = a /\ s = t
    <3>1. SideHeight(l, h, a, t, d, n, s) = h[c] + d BY <2>6 DEF SideHeight, c
    <3>2. Extra(D, d, a, c) = 0 /\ (d = 1 => Extra(D, d, a, n) = 1)
      BY <2>1, <2>6 DEF Extra
    <3>3. QED BY <2>2, <2>3, <2>4, <2>5, <3>1, <3>2
  <2>7. CASE ~(n = a /\ s = t)
    <3>1. SideHeight(l, h, a, t, d, n, s) = h[c] BY <2>7 DEF SideHeight, c
    <3>2. QED BY <2>2, <2>3, <2>4, <2>5, <3>1
  <2>8. QED BY <2>6, <2>7
<1>9. LevelAt(l, h, a, t, d, n) BY <1>7 DEF Levels
<1>10. PICK i, j \in BOOLEAN : i = TRUE /\ j = FALSE OBVIOUS
<1> DEFINE x == SideHeight(l, h, a, t, d, n, TRUE)
           y == SideHeight(l, h, a, t, d, n, FALSE)
<1>11. x \in Int /\ x <= R(n) - 1 /\ y \in Int /\ y <= R(n) - 1 BY <1>8, <1>10
<1>12. R(n) \in Int BY <1>2, <1>7 DEF Extra
<1> HIDE DEF x, y, R, A
<1>13. h[n] = 1 + IF x > y THEN x ELSE y BY <1>9 DEF LevelAt, Leans, x, y
<1>14. h[n] <= R(n) BY <1>11, <1>12, <1>13
<1>15. QED BY <1>7, <1>14

\* The depth is a height, at most the number of elements.
LEMMA DepthBound ==
  ASSUME AvlInv
  PROVE  depth \in 0 .. number
<1> DEFINE t == LateSide
           d == Late
<1>1. PICK D : IsTree(links, InTree, D) BY DEF AvlInv, Shaped
<1>2. PICK h : Levels(links, InTree, h, at, t, d, depth) BY DEF AvlInv, Shaped
<1>3. t \in BOOLEAN /\ d \in -1 .. 1
  <2>1. t \in BOOLEAN BY DEF LateSide, IsLeftChild
  <2>2. d \in -1 .. 1 BY DEF Late
  <2>3. QED BY <2>1, <2>2
<1>4. Counted /\ number \in Nat /\ IsFiniteSet(alive) /\ number = Cardinality(alive)
  <2>1. Counted BY DEF AvlInv
  <2>2. QED BY <2>1, AliveFinite DEF Counted
<1>5. Cardinality(InTree) = IF d = 1 THEN number - 1 ELSE number
  <2>1. CASE pc = "shrink"
    <3>1. from \in alive BY <2>1, Shrinking
    <3>2. QED BY <1>4, <2>1, <3>1, AliveFinite DEF InTree, Late
  <2>2. CASE pc # "shrink" BY <1>4, <2>2 DEF InTree, Late
  <2>3. QED BY <2>1, <2>2
<1> DEFINE top == links.right[Head]
<1>6. top \in InTree \cup {Null} /\ D[top] = InTree /\ Head \in Node
  <2>1. PICK j \in BOOLEAN : j = FALSE OBVIOUS
  <2>2. Head \in Node /\ top = Child(links, Head, j) BY <2>1 DEF Node, Child
  <2> HIDE DEF top
  <2>3. top \in InTree \cup {Null} BY <1>1, <2>2 DEF IsTree
  <2>4. D[top] = InTree BY <1>1 DEF IsTree, top
  <2>5. QED BY <2>2, <2>3, <2>4
<1>7. /\ h[top] \in Nat /\ Cardinality(D[top]) \in Nat
      /\ h[top] <= Cardinality(D[top]) + Extra(D, d, at, top)
  <2> HIDE DEF t, d, top
  <2>1. QED BY <1>1, <1>2, <1>3, <1>6, HeightBound
<1>8. depth = IF at = Head /\ t = FALSE THEN h[top] + d ELSE h[top]
  <2> HIDE DEF t, d
  <2>1. QED BY <1>2, <1>3 DEF Levels, SideHeight, Child
<1>9. at = Head => at \notin D[top]
  <2>1. Head \notin InTree BY <1>1, Nodes DEF IsTree
  <2>2. QED BY <1>6, <2>1
<1>10. d = -1 /\ at = Head => h[top] >= 1
  <2> SUFFICES ASSUME pc = "grow", at = Head PROVE h[top] >= 1 BY DEF Late
  <2>1. /\ Child(links, at, IsLeftChild(links, from)) = from /\ from \in alive
        /\ IsLeftChild(links, from) = FALSE
    BY Growing
  <2>2. InTree = alive BY DEF InTree
  <2>3. top = from BY <2>1 DEF Child
  <2>4. LevelAt(links, h, at, t, d, from) /\ from \in NodeOrNull /\ from \in Node
        /\ from # Head
    BY <1>1, <1>2, <2>1, <2>2, Self DEF Levels
  <2>5. h[from] \in Nat /\ h[links.left[from]] \in Nat /\ h[links.right[from]] \in Nat
    <3>1. \A s \in BOOLEAN : h[Child(links, from, s)] \in Nat
      BY <1>1, <1>2, <2>4, HeightType DEF Levels
    <3>2. PICK i, j \in BOOLEAN : i = TRUE /\ j = FALSE OBVIOUS
    <3>3. h[links.left[from]] \in Nat /\ h[links.right[from]] \in Nat
      BY <3>1, <3>2 DEF Child
    <3>4. QED BY <1>2, <2>4, <3>3 DEF Levels
  <2> HIDE DEF t, d, top
  <2>6. h[from] >= 1 BY <2>4, <2>5 DEF LevelAt, Leans, SideHeight, Child
  <2>7. QED BY <2>3, <2>6
<1>11. Extra(D, d, at, top) = IF d = 1 /\ at # Head /\ at \in D[top] THEN 1 ELSE 0
  BY <1>9 DEF Extra
<1> HIDE DEF t, d, top
<1>12. d = -1 \/ d = 0 \/ d = 1 BY <1>3
<1>13. CASE d = 1 BY <1>4, <1>5, <1>6, <1>7, <1>8, <1>11, <1>13
<1>14. CASE d = 0 BY <1>4, <1>5, <1>6, <1>7, <1>8, <1>11, <1>14
<1>15. CASE d = -1 BY <1>4, <1>5, <1>6, <1>7, <1>8, <1>10, <1>11, <1>15
<1>16. QED BY <1>12, <1>13, <1>14, <1>15

\* The variables keep their types: no link leaves the nodes, no factor is that of an
\* unbalanced tree.
THEOREM TypeCorrect == Spec => []TypeOK
<1>1. ASSUME AvlInv PROVE TypeOK
  <2>1. links \in Links /\ InTree \subseteq Key
    <3>1. PICK D : IsTree(links, InTree, D) BY <1>1 DEF AvlInv, Shaped
    <3>2. QED BY <3>1 DEF IsTree
  <2>2. Counted BY <1>1 DEF AvlInv
  <2>3. alive \subseteq Key /\ number \in Nat /\ number <= MaxKey
    BY <2>2, AliveFinite DEF Counted
  <2>4. number \in 0 .. MaxKey /\ depth \in 0 .. MaxKey
    BY <1>1, <2>3, DepthBound, AvlAssumption
  <2>5. restart \in NodeOrNull BY <1>1, <2>3 DEF AvlInv, NodeOrNull, Node
  <2>6. pc \in {"idle", "grow", "shrink", "return"} /\ (answer = <<>>) = (pc # "return")
    BY <1>1 DEF AvlInv
  <2>7. arg \in Key \cup {Null} /\ at \in NodeOrNull /\ from \in NodeOrNull /\ side \in -1 .. 1
    <3>1. CASE pc \in {"idle", "return"}
      BY <1>1, <3>1 DEF AvlInv, IdleInv, NodeOrNull, Balanced
    <3>2. CASE pc = "grow"
      <4>1. at \in alive \cup {Head} /\ arg \in alive /\ from \in alive /\ side = Balanced
        BY <1>1, <3>2, Growing
      <4>2. QED BY <2>3, <4>1 DEF NodeOrNull, Node, Balanced
    <3>3. CASE pc = "shrink"
      <4>1. /\ at \in (alive \ {from}) \cup {Head} /\ arg \in alive /\ from \in alive
            /\ side \in {LeftHeavy, RightHeavy}
        BY <1>1, <3>3, Shrinking
      <4>2. QED BY <2>3, <4>1 DEF NodeOrNull, Node, LeftHeavy, RightHeavy
    <3>4. QED BY <2>6, <3>1, <3>2, <3>3
  <2>8. QED BY <2>1, <2>3, <2>4, <2>5, <2>6, <2>7 DEF TypeOK, Links
<1>2. QED BY <1>1, AvlInvariant, PTL

\* The header has no neighbour on the side where it has no child.
LEMMA HeadAlone ==
  ASSUME NEW l, NEW T, NEW D, IsTree(l, T, D), Linked(l) = T \cup {Head},
         NEW s \in BOOLEAN, Child(l, Head, s) = Null
  PROVE  Neighbour(l, Head, s) = Null
<1> DEFINE w == CHOOSE f : f = Climb(l, s, f)
<1>1. Neighbour(l, Head, s) = IF Child(l, l.parent[w[Head]], ~s) = w[Head]
                              THEN l.parent[w[Head]] ELSE Null
  BY DEF Neighbour, Climb
<1>2. Follows(w, Linked(l), ClimbStop(l, s), ClimbNext(l)) BY Climbs
<1> HIDE DEF w
<1>3. Head \in Linked(l) /\ Head \in ClimbStop(l, s)
  <2>1. Child(l, l.parent[Head], s) # Head BY HeadIsTop
  <2>2. QED BY <2>1 DEF ClimbStop
<1>4. w[Head] = Head BY <1>2, <1>3 DEF Follows
<1>5. PICK i \in BOOLEAN : i = ~s OBVIOUS
<1>6. Child(l, l.parent[Head], i) # Head BY HeadIsTop
<1>7. QED BY <1>1, <1>4, <1>5, <1>6

\* Going back from a match, while the predecessor matches, ends at the first of all.
LEMMA FirstMatchIs ==
  ASSUME NEW l, NEW T, NEW D, IsTree(l, T, D), Linked(l) = T \cup {Head},
         NEW lo \in Key, NEW n \in T, lo <= n
  PROVE  LET r == FirstMatchFrom(l, lo, n)
         IN  r \in T /\ lo <= r /\ \A z \in T : lo <= z => r <= z
<1> DEFINE S == Linked(l)
           P(x) == Neighbour(l, x, TRUE)
           Ends(x) == P(x) = Null \/ l.parent[P(x)] = P(x) \/ P(x) < lo
           Stop == {x \in S : Ends(x)}
           next == [x \in S |-> P(x)]
           Back(f) == [x \in S |-> IF Ends(x) THEN x ELSE f[P(x)]]
           w == CHOOSE f : f = Back(f)
           M == [x \in S |-> {z \in T : z < x \/ z = x}]
           I == {x \in T : lo <= x}
<1>1. FirstMatchFrom(l, lo, n) = w[n] BY DEF FirstMatchFrom
<1>2. T \subseteq Node /\ lo \in Int /\ \A x \in T : x \in Int /\ x # Head /\ x # Null
  BY Self, Nodes
<1>3. P(Head) = Null
  <2>1. PICK i \in BOOLEAN : i = TRUE OBVIOUS
  <2>2. Child(l, Head, i) = Null BY <2>1 DEF IsTree, Child
  <2>3. Neighbour(l, Head, i) = Null BY <2>2, HeadAlone
  <2>4. QED BY <2>1, <2>3
<1>4. ASSUME NEW x \in T
      PROVE  \/ P(x) \in T /\ P(x) < x /\ \A z \in T : z < x => z = P(x) \/ z < P(x)
             \/ P(x) = Head /\ \A z \in T : ~(z < x)
  <2>1. PICK i \in BOOLEAN : i = TRUE OBVIOUS
  <2> DEFINE p == Neighbour(l, x, i)
  <2>2. \/ /\ p \in T /\ On(i, p, x)
           /\ \A z \in T : On(i, z, x) => z = p \/ On(i, z, p)
        \/ /\ p = IF i THEN Head ELSE Null
           /\ \A z \in T : ~On(i, z, x)
    BY NeighbourIs
  <2>3. p = P(x) BY <2>1
  <2> HIDE DEF p, P
  <2>4. QED BY <2>1, <2>2, <2>3 DEF On
<1>5. ASSUME NEW x \in T PROVE l.parent[x] # x
  <2>1. l.parent[x] \in T => l.parent[x] \notin D[x] BY Up
  <2>2. x \in D[x] BY Self
  <2>3. QED BY <2>1, <2>2
<1> HIDE DEF P
<1>6. ASSUME NEW x \in S \ Stop
      PROVE  x \in T /\ P(x) \in T /\ P(x) < x /\ ~(P(x) < lo) /\ next[x] = P(x)
  <2>1. x \in T BY <1>3, <1>6
  <2>2. P(x) # Head BY <1>6 DEF IsTree
  <2>3. QED BY <1>4, <1>6, <2>1, <2>2
<1>7. Descends(S, Node, M, Stop, next)
  <2>1. IsFiniteSet(S) /\ IsFiniteSet(Node)
    <3>1. S \subseteq Node BY DEF Linked
    <3>2. QED BY <3>1, Nodes, FS_Subset
  <2>2. M \in [S -> SUBSET Node] BY <1>2
  <2>3. ASSUME NEW x \in S \ Stop
        PROVE  next[x] \in S /\ M[next[x]] \subseteq M[x] /\ M[next[x]] # M[x]
    <3>1. x \in T /\ P(x) \in T /\ P(x) < x /\ next[x] = P(x) BY <1>6
    <3>2. M[x] = {z \in T : z < x \/ z = x} /\ M[P(x)] = {z \in T : z < P(x) \/ z = P(x)}
      BY <3>1
    <3>3. x \in Int /\ P(x) \in Int BY <1>2, <3>1
    <3>4. x \in M[x] /\ x \notin M[P(x)] BY <3>1, <3>2, <3>3
    <3>5. M[P(x)] \subseteq M[x]
      <4>1. \A z \in T : z < P(x) \/ z = P(x) => z < x BY <1>2, <3>1, <3>3
      <4>2. QED BY <3>2, <4>1
    <3> HIDE DEF M, next
    <3>6. QED BY <3>1, <3>4, <3>5
  <2> HIDE DEF S, M, Stop, next
  <2>4. QED BY <2>1, <2>2, <2>3 DEF Descends
<1>8. ASSUME NEW f
      PROVE  Back(f) = [x \in S |-> IF x \in Stop THEN x ELSE f[next[x]]]
  OBVIOUS
<1>9. Follows(w, S, Stop, next)
  <2>1. PICK f : Follows(f, S, Stop, next)
    <3> HIDE DEF S, M, Stop, next
    <3>1. QED BY <1>7, WalkExists
  <2>2. f = Back(f) BY <1>8, <2>1 DEF Follows
  <2>3. w = Back(w)
    <3> HIDE DEF Back
    <3>1. QED BY <2>2
  <2> HIDE DEF w, Back
  <2>4. QED BY <1>8, <2>3 DEF Follows
<1>10. w[n] \in I /\ w[n] \in Stop
  <2>1. I \in SUBSET S /\ n \in I OBVIOUS
  <2>2. ASSUME NEW x \in I \ Stop PROVE next[x] \in I
    <3>1. P(x) \in T /\ ~(P(x) < lo) /\ next[x] = P(x) BY <1>6
    <3>2. QED BY <1>2, <3>1
  <2> HIDE DEF S, M, Stop, next, I, w
  <2>3. QED BY <1>7, <1>9, <2>1, <2>2, Walk
<1> DEFINE r == w[n]
<1>11. r \in T /\ lo <= r /\ Ends(r) BY <1>10
<1> HIDE DEF w
<1>12. ASSUME NEW z \in T, lo <= z PROVE r <= z
  <2>1. z \in Int /\ r \in Int BY <1>2, <1>11
  <2>2. CASE P(r) = Head /\ \A y \in T : ~(y < r) BY <2>1, <2>2
  <2>3. CASE P(r) \in T /\ P(r) < r /\ \A y \in T : y < r => y = P(r) \/ y < P(r)
    <3>1. P(r) < lo /\ P(r) \in Int BY <1>2, <1>5, <1>11, <2>3
    <3>2. QED BY <1>2, <1>12, <2>1, <2>3, <3>1
  <2>4. QED BY <1>4, <1>11, <2>2, <2>3
<1>13. QED BY <1>1, <1>11, <1>12

\* What the refinement shows of the table.
Elems == IF pc = "shrink" THEN alive \ {arg} ELSE alive
Passed == IF restart = Null THEN 0 ELSE restart
Answered == CASE pc = "grow" -> <<"insert", arg, arg, TRUE>>
              [] pc = "shrink" -> <<"delete", arg, TRUE>>
              [] OTHER -> answer

\* The least and the greatest element of a set of keys are what their names say.
LEMMA LeastIs ==
  ASSUME NEW S \in SUBSET Int, NEW r \in S
  PROVE  /\ (\A x \in S : r <= x) => Table!Least(S) = r
         /\ (\A x \in S : x <= r) => Table!GreatestOr0(S) = r
<1>1. ASSUME \A x \in S : r <= x PROVE Table!Least(S) = r
  <2> DEFINE c == CHOOSE x \in S : \A y \in S : x <= y
  <2>1. c \in S /\ \A y \in S : c <= y BY <1>1
  <2>2. Table!Least(S) = c BY DEF Table!Least
  <2> HIDE DEF c
  <2>3. c <= r /\ r <= c BY <1>1, <2>1
  <2>4. c \in Int /\ r \in Int BY <2>1
  <2>5. QED BY <2>2, <2>3, <2>4
<1>2. ASSUME \A x \in S : x <= r PROVE Table!GreatestOr0(S) = r
  <2> DEFINE c == CHOOSE x \in S : \A y \in S : x >= y
  <2>1. \A y \in S : r >= y BY <1>2
  <2>2. c \in S /\ \A y \in S : c >= y BY <2>1
  <2>3. Table!GreatestOr0(S) = c BY DEF Table!GreatestOr0
  <2> HIDE DEF c
  <2>4. c >= r /\ c <= r BY <1>2, <2>2
  <2>5. c \in Int /\ r \in Int BY <2>2
  <2>6. QED BY <2>3, <2>4, <2>5
<1>3. QED BY <1>1, <1>2

\* Between calls the table shows its elements and no answer.
LEMMA Idle ==
  ASSUME AvlInv, pc = "idle"
  PROVE  Elems = alive /\ Answered = <<>>
BY DEF Elems, Answered, AvlInv

\* At the return of a call it shows the elements and the answer.
LEMMA Replied ==
  ASSUME NEW l, NEW a, Finish(l, a)
  PROVE  Elems' = alive' /\ Answered' = a
BY DEF Elems, Answered, Finish

\* A search finds the element there is, and none else.
LEMMA SearchAnswers ==
  ASSUME AvlInv, pc = "idle", NEW k \in Key
  PROVE  LET s == Search(k, k)
         IN  /\ (s.result = "found") = (k \in alive)
             /\ s.result = "found" => s.node = k
<1> DEFINE s == Search(k, k)
<1>1. Counted /\ Shaped(links, alive, at, LateSide, 0, depth) BY Rests
<1>2. PICK D : IsTree(links, alive, D) BY <1>1 DEF Shaped
<1>3. k \in Int /\ k <= k BY Nodes
<1>4. /\ (s.result = "empty") = (alive = {})
      /\ alive # {} => /\ s.node = FoundOrParent(links, k, k) /\ s.node \in alive
                       /\ (s.result = "found") = (k <= s.node /\ s.node <= k)
      /\ s.result = "found" => s.node \in alive
  BY <1>1, <1>2, <1>3, SearchIs
<1> HIDE DEF s
<1>5. ASSUME k \in alive PROVE s.result = "found"
  <2>1. FoundOrParent(links, k, k) = k BY <1>2, <1>5, SearchFinds
  <2>2. QED BY <1>3, <1>4, <1>5, <2>1
<1>6. ASSUME s.result = "found" PROVE s.node = k /\ k \in alive
  <2>1. s.node \in alive /\ alive # {} BY <1>4, <1>6
  <2>2. s.node \in Int BY <1>2, <2>1, Self
  <2>3. k <= s.node /\ s.node <= k BY <1>4, <1>6, <2>1
  <2>4. s.node = k BY <1>3, <2>2, <2>3
  <2>5. QED BY <2>1, <2>4
<1>7. QED BY <1>5, <1>6 DEF s

\* An insertion does what the table promises when it enters its loop.
LEMMA InsertImplements ==
  ASSUME AvlInv, pc = "idle", NEW k \in Key, Insert(k)
  PROVE  Table!Insert(k)
<1> DEFINE s == Search(k, k)
           new == <<"insert", k, k, TRUE>>
<1>1. (s.result = "found") = (k \in alive) /\ (s.result = "found" => s.node = k)
  BY SearchAnswers
<1>2. Elems = alive /\ Answered = <<>> BY Idle
<1>3. restart' = restart BY DEF Insert
<1>4. Passed' = Passed BY <1>3 DEF Passed
<1>5. \/ Elems' = Elems \cup {k} /\ Answered' = <<"insert", k, k, k \notin Elems>>
      \/ k \notin Elems /\ Elems' = Elems /\ Answered' = <<"insert", k, Null, FALSE>>
  <2> HIDE DEF s
  <2>1. CASE s.result = "found" /\ Reply(<<"insert", k, s.node, FALSE>>)
    <3>1. Finish(links, <<"insert", k, k, FALSE>>) /\ alive' = alive
      BY <1>1, <2>1 DEF Reply
    <3>2. Elems' = alive /\ Answered' = <<"insert", k, k, FALSE>> BY <3>1, Replied
    <3>3. alive \cup {k} = alive /\ (k \notin alive) = FALSE BY <1>1, <2>1
    <3>4. QED BY <1>2, <3>2, <3>3
  <2>2. CASE s.result # "found" /\ Reply(<<"insert", k, Null, FALSE>>)
    <3>1. Finish(links, <<"insert", k, Null, FALSE>>) /\ alive' = alive BY <2>2 DEF Reply
    <3>2. Elems' = alive /\ Answered' = <<"insert", k, Null, FALSE>> BY <3>1, Replied
    <3>3. QED BY <1>1, <1>2, <2>2, <3>2
  <2>3. CASE /\ s.result # "found" /\ alive' = alive \cup {k}
             /\ Finish(Attach(links, Head, FALSE, k), new)
    <3>1. Elems' = alive' /\ Answered' = new BY <2>3, Replied
    <3>2. (k \notin alive) = TRUE BY <1>1, <2>3
    <3>3. QED BY <1>2, <2>3, <3>1, <3>2
  <2>4. CASE s.result # "found" /\ alive' = alive \cup {k} /\ pc' = "grow" /\ arg' = k
    <3>1. Elems' = alive' /\ Answered' = new BY <2>4 DEF Elems, Answered
    <3>2. (k \notin alive) = TRUE BY <1>1, <2>4
    <3>3. QED BY <1>2, <2>4, <3>1, <3>2
  <2>5. QED BY <2>1, <2>2, <2>3, <2>4 DEF Insert, s
<1>6. QED BY <1>2, <1>4, <1>5 DEF Table!Insert, Table!Answer, Elems, Passed, Answered

\* A deletion does so too; the enumeration goes back to the greatest element below.
LEMMA DeleteImplements ==
  ASSUME AvlInv, pc = "idle", NEW k \in Key, Delete(k)
  PROVE  Table!Delete(k)
<1> DEFINE s == Search(k, k)
<1>1. (s.result = "found") = (k \in alive) /\ (s.result = "found" => s.node = k)
  BY SearchAnswers
<1>2. Elems = alive /\ Answered = <<>> BY Idle
<1>3. k \in Int /\ k # Head /\ k # Null /\ Head < k BY Nodes DEF Node
<1>4. /\ Answered' = <<"delete", k, k \in Elems>>
      /\ Elems' = Elems \ {k}
      /\ restart' = IF k \in alive THEN RestartWithout(k) ELSE restart
  <2> HIDE DEF s
  <2>1. CASE s.result # "found" /\ Reply(<<"delete", k, FALSE>>) /\ restart' = restart
    <3>1. Finish(links, <<"delete", k, FALSE>>) /\ alive' = alive BY <2>1 DEF Reply
    <3>2. Elems' = alive /\ Answered' = <<"delete", k, FALSE>> BY <3>1, Replied
    <3>3. alive \ {k} = alive /\ (k \in alive) = FALSE BY <1>1, <2>1
    <3>4. QED BY <1>2, <2>1, <3>2, <3>3
  <2>2. CASE /\ s.result = "found" /\ restart' = RestartWithout(s.node)
             /\ pc' = "shrink" /\ arg' = s.node /\ alive' = alive
    <3>1. s.node = k /\ (k \in alive) = TRUE BY <1>1, <2>2
    <3>2. Elems' = alive \ {k} /\ Answered' = <<"delete", k, TRUE>>
      BY <2>2, <3>1 DEF Elems, Answered
    <3>3. QED BY <1>2, <2>2, <3>1, <3>2
  <2>3. QED BY <2>1, <2>2 DEF Delete, s
<1>5. Passed' = IF k \in Elems /\ k = Passed
                THEN Table!GreatestOr0({x \in Elems : x < k}) ELSE Passed
  <2> HIDE DEF s
  <2>1. CASE k \in alive /\ k = restart
    <3>1. k = Passed BY <1>3, <2>1 DEF Passed
    <3> DEFINE r == Neighbour(links, k, TRUE)
               B == {x \in alive : x < k}
    <3>2. restart' = r BY <1>4, <2>1 DEF RestartWithout
    <3>3. \/ r \in alive /\ r < k /\ \A z \in alive : z < k => z = r \/ z < r
          \/ r = Head /\ \A z \in alive : ~(z < k)
      <4>1. PICK i \in BOOLEAN : i = TRUE OBVIOUS
      <4>2. r = Neighbour(links, k, i) BY <4>1
      <4>3. Clear(links, alive) /\ Shaped(links, alive, at, LateSide, 0, depth) BY Rests
      <4>4. PICK D : IsTree(links, alive, D) BY <4>3 DEF Shaped
      <4>5. Linked(links) = alive \cup {Head} BY <4>3, <4>4, LinkedIs
      <4> HIDE DEF r
      <4>6. \/ /\ r \in alive /\ On(i, r, k)
               /\ \A z \in alive : On(i, z, k) => z = r \/ On(i, z, r)
            \/ /\ r = IF i THEN Head ELSE Null
               /\ \A z \in alive : ~On(i, z, k)
        BY <2>1, <4>2, <4>4, <4>5, NeighbourIs
      <4>7. QED BY <4>1, <4>6 DEF On
    <3> HIDE DEF r
    <3>4. alive \subseteq Key BY Rests DEF Counted
    <3>5. B \in SUBSET Int BY <3>4, Nodes
    <3>6. CASE r \in alive /\ r < k /\ \A z \in alive : z < k => z = r \/ z < r
      <4>1. r \in B /\ \A x \in B : x <= r BY <3>5, <3>6
      <4> HIDE DEF B
      <4>2. Table!GreatestOr0(B) = r BY <3>5, <4>1, LeastIs
      <4>3. r # Null BY <3>4, <3>6, Nodes DEF Node
      <4>4. Passed' = r BY <3>2, <4>3 DEF Passed
      <4>5. QED BY <1>2, <2>1, <3>1, <4>2, <4>4 DEF B
    <3>7. CASE r = Head /\ \A z \in alive : ~(z < k)
      <4>1. B = {} BY <3>7
      <4> HIDE DEF B
      <4>2. Table!GreatestOr0(B) = 0 BY <4>1 DEF Table!GreatestOr0
      <4>3. Passed' = 0 BY <3>2, <3>7 DEF Passed, Head
      <4>4. QED BY <1>2, <2>1, <3>1, <4>2, <4>3 DEF B
    <3>8. QED BY <3>3, <3>6, <3>7
  <2>2. CASE ~(k \in alive /\ k = restart)
    <3>1. restart' = restart BY <1>4, <2>2 DEF RestartWithout
    <3>2. Passed' = Passed BY <3>1 DEF Passed
    <3>3. k = Passed => k = restart BY <1>3 DEF Passed, Head
    <3>4. QED BY <1>2, <2>2, <3>2, <3>3
  <2>3. QED BY <2>1, <2>2
<1>6. QED BY <1>2, <1>4, <1>5 DEF Table!Delete, Table!Answer, Elems, Passed, Answered

\* A lookup answers whether the element is there.
LEMMA LookupImplements ==
  ASSUME AvlInv, pc = "idle", NEW k \in Key, Lookup(k)
  PROVE  Table!Lookup(k)
<1> DEFINE s == Search(k, k)
           n == IF s.result = "found" THEN s.node ELSE Null
<1>1. (s.result = "found") = (k \in alive) /\ (s.result = "found" => s.node = k)
  BY SearchAnswers
<1>2. n = IF k \in alive THEN k ELSE Null BY <1>1
<1>3. Reply(<<"lookup", k, n>>) /\ restart' = restart BY DEF Lookup
<1> HIDE DEF n
<1>4. Finish(links, <<"lookup", k, n>>) /\ alive' = alive BY <1>3 DEF Reply
<1>5. Elems = alive /\ Answered = <<>> BY Idle
<1>6. Elems' = alive /\ Answered' = <<"lookup", k, n>> BY <1>4, Replied
<1>7. Passed' = Passed BY <1>3 DEF Passed
<1>8. QED BY <1>2, <1>5, <1>6, <1>7 DEF Table!Lookup, Table!Answer, Elems, Passed, Answered

\* The lookup of a range answers the first of the elements in it.
LEMMA LookupFirstImplements ==
  ASSUME AvlInv, pc = "idle", NEW lo \in Key, NEW hi \in Key, LookupFirst(lo, hi)
  PROVE  Table!FirstMatch(lo, hi)
<1> DEFINE s == Search(lo, hi)
           n == IF s.result = "found" THEN FirstMatchFrom(links, lo, s.node) ELSE Null
           B == {x \in alive : lo <= x /\ x <= hi}
<1>1. lo <= hi /\ Reply(<<"first", lo, hi, n>>) /\ restart' = restart BY DEF LookupFirst
<1>2. Counted /\ Clear(links, alive) /\ Shaped(links, alive, at, LateSide, 0, depth) BY Rests
<1>3. PICK D : IsTree(links, alive, D) BY <1>2 DEF Shaped
<1>4. /\ (s.result = "empty") = (alive = {})
      /\ alive # {} => /\ s.node = FoundOrParent(links, lo, hi) /\ s.node \in alive
                       /\ (s.result = "found") = (lo <= s.node /\ s.node <= hi)
      /\ s.result = "found" => s.node \in alive
  BY <1>1, <1>2, <1>3, SearchIs
<1> HIDE DEF s
<1>5. lo \in Int /\ hi \in Int /\ \A z \in alive : z \in Int BY <1>3, Self, Nodes
<1>6. B \in SUBSET Int BY <1>5
<1>7. n = Table!Least(B)
  <2>1. CASE s.result = "found"
    <3> DEFINE r == FirstMatchFrom(links, lo, s.node)
    <3>1. s.node \in alive /\ lo <= s.node /\ s.node <= hi BY <1>4, <2>1
    <3>2. r \in alive /\ lo <= r /\ \A z \in alive : lo <= z => r <= z
      <4>1. Linked(links) = alive \cup {Head} BY <1>2, <1>3, LinkedIs
      <4>2. QED BY <1>3, <3>1, <4>1, FirstMatchIs
    <3>3. n = r BY <2>1
    <3> HIDE DEF r, n
    <3>4. r <= s.node /\ r \in Int /\ s.node \in Int BY <1>5, <3>1, <3>2
    <3>5. r \in B /\ \A x \in B : r <= x BY <1>5, <3>1, <3>2, <3>4
    <3> HIDE DEF B
    <3>6. QED BY <1>6, <3>3, <3>5, LeastIs
  <2>2. CASE s.result # "found"
    <3>1. n = Null BY <2>2
    <3>2. B = {}
      <4> SUFFICES ASSUME NEW z \in alive, lo <= z, z <= hi PROVE FALSE OBVIOUS
      <4>1. s.node = FoundOrParent(links, lo, hi) /\ s.node \in alive
            /\ ~(lo <= s.node /\ s.node <= hi)
        BY <1>4, <2>2
      <4>2. z = s.node \/ Beside(lo, hi, s.node, z) BY <1>1, <1>3, <4>1, SearchEnds
      <4>3. z \in Int /\ s.node \in Int BY <1>5, <4>1
      <4>4. QED BY <1>5, <4>1, <4>2, <4>3 DEF Beside
    <3> HIDE DEF n, B
    <3>3. QED BY <3>1, <3>2 DEF Table!Least
  <2>3. QED BY <2>1, <2>2
<1> HIDE DEF n
<1>8. Finish(links, <<"first", lo, hi, n>>) /\ alive' = alive BY <1>1 DEF Reply
<1>9. Elems = alive /\ Answered = <<>> BY Idle
<1>10. Elems' = alive /\ Answered' = <<"first", lo, hi, n>> BY <1>8, Replied
<1>11. Passed' = Passed BY <1>1 DEF Passed
<1>12. QED
  BY <1>7, <1>9, <1>10, <1>11 DEF Table!FirstMatch, Table!Answer, Elems, Passed, Answered

\* The enumeration goes on with the least element above the one it is at.
LEMMA EnumerateImplements ==
  ASSUME AvlInv, pc = "idle", NEW again \in BOOLEAN, Enumerate(again)
  PROVE  Table!Enumerate(again)
<1> DEFINE key == IF again THEN Null ELSE restart
           next == IF key = Null THEN Outermost(links, links.right[Head], TRUE)
                   ELSE Neighbour(links, key, FALSE)
           node == IF number = 0 THEN Null ELSE next
           after == IF key = Null THEN 0 ELSE key
           B == {x \in alive : x > after}
<1>1. Reply(<<"enumerate", again, node>>) /\ restart' = IF node = Null THEN key ELSE node
  BY DEF Enumerate
<1>2. /\ Counted /\ Clear(links, alive) /\ Shaped(links, alive, at, LateSide, 0, depth)
      /\ restart \in alive \cup {Head, Null}
  BY Rests
<1>3. PICK D : IsTree(links, alive, D) BY <1>2 DEF Shaped
<1>4. key \in alive \cup {Head, Null} BY <1>2
<1>5. \A z \in alive : z \in Int /\ z # Null /\ z # Head /\ Head < z /\ z \in Key
  BY <1>3, Self, Nodes
<1>6. Head # Null /\ Head = 0 BY Nodes DEF Node, Head
<1>7. (number = 0) = (alive = {}) BY <1>2, AliveFinite
<1>8. after \in Int /\ B \in SUBSET Int BY <1>4, <1>5, <1>6
<1> DEFINE first == Outermost(links, links.right[Head], TRUE)
<1>9. alive # {} => first \in alive /\ \A z \in alive : z # first => first < z
  <2> SUFFICES ASSUME alive # {} PROVE first \in alive /\ \A z \in alive : z # first => first < z
    OBVIOUS
  <2> DEFINE top == links.right[Head]
  <2>1. top \in alive /\ D[top] = alive
    <3>1. PICK j \in BOOLEAN : j = FALSE OBVIOUS
    <3>2. Head \in Node /\ top = Child(links, Head, j) BY <3>1 DEF Node, Child
    <3>3. D[top] = alive /\ D[Null] = {} BY <1>3 DEF IsTree
    <3>4. top # Null BY <3>3
    <3> HIDE DEF top
    <3>5. top \in alive \cup {Null} BY <1>3, <3>2 DEF IsTree
    <3>6. QED BY <3>3, <3>4, <3>5
  <2>2. PICK i \in BOOLEAN : i = TRUE OBVIOUS
  <2> DEFINE y == Outermost(links, top, i)
  <2>3. y = first BY <2>2
  <2> HIDE DEF top
  <2>4. y \in D[top] /\ \A z \in D[top] : z # y => On(~i, z, y)
    BY <1>3, <2>1, OutermostIs
  <2> HIDE DEF y, first
  <2>5. y \in alive /\ \A z \in alive : z # y => y < z BY <2>1, <2>2, <2>4 DEF On
  <2>6. QED BY <2>3, <2>5
<1>10. alive # {} /\ key = Head => next = first
  <2> SUFFICES ASSUME alive # {}, key = Head PROVE next = first OBVIOUS
  <2>1. next = Neighbour(links, Head, FALSE) BY <1>6
  <2>2. links.right[Head] # Null BY <1>3 DEF IsTree
  <2> HIDE DEF next, key
  <2>3. QED BY <2>1, <2>2 DEF Neighbour, Child
<1>11. key \in alive =>
         \/ next \in alive /\ key < next /\ \A z \in alive : key < z => z = next \/ next < z
         \/ next = Null /\ \A z \in alive : ~(key < z)
  <2> SUFFICES ASSUME key \in alive
               PROVE  \/ /\ next \in alive /\ key < next
                         /\ \A z \in alive : key < z => z = next \/ next < z
                      \/ next = Null /\ \A z \in alive : ~(key < z)
    OBVIOUS
  <2> HIDE DEF key
  <2>1. Linked(links) = alive \cup {Head} BY <1>2, <1>3, LinkedIs
  <2>2. PICK j \in BOOLEAN : j = FALSE OBVIOUS
  <2>3. next = Neighbour(links, key, j) BY <1>5, <2>2
  <2> HIDE DEF next
  <2>4. \/ /\ next \in alive /\ On(j, next, key)
           /\ \A z \in alive : On(j, z, key) => z = next \/ On(j, z, next)
        \/ /\ next = IF j THEN Head ELSE Null
           /\ \A z \in alive : ~On(j, z, key)
    BY <1>3, <2>1, <2>3, NeighbourIs
  <2>5. QED BY <2>2, <2>4 DEF On
<1>12. (node \in B /\ \A x \in B : node <= x) \/ (node = Null /\ B = {})
  <2>1. CASE alive = {} BY <1>7, <2>1
  <2>2. CASE alive # {} /\ key \in {Head, Null}
    <3>1. next = first /\ after = 0 BY <1>6, <1>10, <2>2
    <3>2. node = first BY <1>7, <2>2, <3>1
    <3>3. B = alive
      <4> HIDE DEF after
      <4>1. QED BY <1>5, <1>6, <3>1
    <3> HIDE DEF B, node, first
    <3>4. \A x \in alive : first <= x BY <1>5, <1>9, <2>2
    <3>5. QED BY <1>9, <2>2, <3>2, <3>3, <3>4
  <2>3. CASE alive # {} /\ key \in alive
    <3>1. after = key /\ node = next BY <1>5, <1>7, <2>3
    <3> HIDE DEF key, node, next, after
    <3>2. CASE next \in alive /\ key < next /\ \A z \in alive : key < z => z = next \/ next < z
      <4>1. node \in B BY <1>5, <2>3, <3>1, <3>2
      <4>2. \A x \in B : node <= x BY <1>5, <2>3, <3>1, <3>2
      <4>3. QED BY <4>1, <4>2
    <3>3. CASE next = Null /\ \A z \in alive : ~(key < z)
      BY <1>5, <2>3, <3>1, <3>3
    <3>4. QED BY <1>11, <2>3, <3>2, <3>3
  <2>4. QED BY <1>4, <2>1, <2>2, <2>3
<1>13. after = IF again THEN 0 ELSE Passed BY DEF Passed
<1> HIDE DEF node, key
<1>14. Passed' = IF node = Null THEN after ELSE node BY <1>1 DEF Passed
<1> HIDE DEF B
<1>15. node = Table!Least(B)
  <2>1. CASE node \in B /\ \A x \in B : node <= x BY <1>8, <2>1, LeastIs
  <2>2. CASE node = Null /\ B = {} BY <2>2 DEF Table!Least
  <2>3. QED BY <1>12, <2>1, <2>2
<1>16. Finish(links, <<"enumerate", again, node>>) /\ alive' = alive BY <1>1 DEF Reply
<1>17. Elems = alive /\ Answered = <<>> BY Idle
<1>18. Elems' = alive /\ Answered' = <<"enumerate", again, node>> BY <1>16, Replied
<1> DEFINE start == IF again THEN 0 ELSE Passed
<1>19. /\ Answered' = <<"enumerate", again, Table!Least({x \in Elems : x > start})>>
       /\ Passed' = IF Table!Least({x \in Elems : x > start}) = Null THEN start
                    ELSE Table!Least({x \in Elems : x > start})
       /\ Elems' = Elems
  <2>1. {x \in Elems : x > start} = B BY <1>13, <1>17 DEF B
  <2>2. after = start BY <1>13
  <2> HIDE DEF after, start
  <2>3. QED BY <1>14, <1>15, <1>17, <1>18, <2>1, <2>2
<1>20. QED BY <1>17, <1>19 DEF Table!Enumerate, Table!Answer, Elems, Passed, Answered

\* The loops up the tree are not seen: neither their rotations nor the node that takes
\* the place of the deleted one.
LEMMA LoopIsHidden ==
  ASSUME AvlInv, Grow \/ Shrink
  PROVE  Elems' = Elems /\ Passed' = Passed /\ Answered' = Answered
<1>1. restart' = restart BY DEF Grow, Shrink
<1>2. Passed' = Passed BY <1>1 DEF Passed
<1>3. CASE Grow
  <2> DEFINE done == <<"insert", arg, arg, TRUE>>
  <2>1. pc = "grow" /\ alive' = alive BY <1>3 DEF Grow
  <2>2. Elems = alive /\ Answered = done BY <2>1 DEF Elems, Answered
  <2>3. (pc' = pc /\ arg' = arg) \/ \E l : Finish(l, done)
    BY <1>3 DEF Grow
  <2>4. CASE pc' = pc /\ arg' = arg BY <1>2, <2>1, <2>4 DEF Elems, Answered
  <2>5. CASE \E l : Finish(l, done)
    <3> HIDE DEF done
    <3>1. Elems' = alive' /\ Answered' = done BY <2>5, Replied
    <3>2. QED BY <1>2, <2>1, <2>2, <3>1
  <2>6. QED BY <1>2, <2>3, <2>4, <2>5
<1>4. CASE Shrink
  <2> DEFINE done == <<"delete", arg, TRUE>>
  <2>1. pc = "shrink" BY <1>4 DEF Shrink
  <2>2. Elems = alive \ {arg} /\ Answered = done BY <2>1 DEF Elems, Answered
  <2>3. \/ pc' = pc /\ arg' = arg /\ alive' = alive
        \/ (\E l : Finish(l, done)) /\ alive' = alive \ {arg}
    <3>1. (\E l : Unlink(l)) => (\E l : Finish(l, done)) /\ alive' = alive \ {arg}
      <4> HIDE DEF done
      <4>1. ASSUME NEW l, Unlink(l)
            PROVE  Finish(Free(IF from = arg THEN l ELSE Replace(l, arg, from), arg), done)
                   /\ alive' = alive \ {arg}
        BY <4>1 DEF Unlink, done
      <4>2. QED BY <4>1
    <3> HIDE DEF done
    <3>2. QED BY <1>4, <3>1 DEF Shrink
  <2>4. CASE pc' = pc /\ arg' = arg /\ alive' = alive BY <1>2, <2>1, <2>4 DEF Elems, Answered
  <2>5. CASE (\E l : Finish(l, done)) /\ alive' = alive \ {arg}
    <3> HIDE DEF done
    <3>1. Elems' = alive' /\ Answered' = done BY <2>5, Replied
    <3>2. QED BY <1>2, <2>2, <2>5, <3>1
  <2>6. QED BY <1>2, <2>3, <2>4, <2>5
<1>5. QED BY <1>2, <1>3, <1>4

\* A call that comes back takes its answer.
LEMMA ReturnImplements ==
  ASSUME AvlInv, Return
  PROVE  Table!Return
<1>1. /\ pc = "return" /\ pc' = "idle" /\ answer' = <<>> /\ alive' = alive
      /\ restart' = restart
  BY DEF Return
<1>2. Elems = alive /\ Elems' = alive /\ Answered = answer /\ Answered' = <<>>
  BY <1>1 DEF Elems, Answered
<1>3. Passed' = Passed BY <1>1 DEF Passed
<1>4. answer # <<>> BY <1>1 DEF AvlInv
<1>5. QED BY <1>2, <1>3, <1>4 DEF Table!Return, Elems, Passed, Answered

\* The calls of the guest are those of the table.
LEMMA CallImplements ==
  ASSUME AvlInv, Call
  PROVE  Table!Next
<1>1. pc = "idle" /\ Table!Key = Key BY DEF Call, Table!Key, Key
<1>2. ASSUME NEW k \in InsertKeys, Insert(k) PROVE Table!Next
  <2>1. k \in Key BY DEF InsertKeys
  <2>2. Table!Insert(k) BY <1>1, <1>2, <2>1, InsertImplements
  <2>3. QED BY <1>1, <2>1, <2>2 DEF Table!Next
<1>3. ASSUME NEW k \in DeleteKeys, Delete(k) PROVE Table!Next
  <2>1. alive \subseteq Key BY DEF AvlInv, Counted
  <2>2. k \in Key BY <2>1, AvlAssumption DEF DeleteKeys
  <2>3. Table!Delete(k) BY <1>1, <1>3, <2>2, DeleteImplements
  <2>4. QED BY <1>1, <2>2, <2>3 DEF Table!Next
<1>4. ASSUME NEW k \in Key, Lookup(k) PROVE Table!Next
  <2>1. Table!Lookup(k) BY <1>1, <1>4, LookupImplements
  <2>2. QED BY <1>1, <2>1 DEF Table!Next
<1>5. ASSUME NEW lo \in Key, NEW hi \in Key, LookupFirst(lo, hi) PROVE Table!Next
  <2>1. Table!FirstMatch(lo, hi) BY <1>1, <1>5, LookupFirstImplements
  <2>2. QED BY <1>1, <2>1 DEF Table!Next
<1>6. ASSUME NEW again \in BOOLEAN, Enumerate(again) PROVE Table!Next
  <2>1. Table!Enumerate(again) BY <1>1, <1>6, EnumerateImplements
  <2>2. QED BY <2>1 DEF Table!Next
<1>7. QED BY <1>2, <1>3, <1>4, <1>5, <1>6 DEF Call

\* The table with its tree, its loops and its restart key is the ordered set that a
\* generic table promises: every call answers as the set does, and an enumeration
\* meets every element that stays, in order, whatever is inserted and deleted under
\* way (avltable.c 46-345).
THEOREM Refinement == Spec => ImplementsTable
<1>1. Init => Table!Init BY DEF Init, Table!Init
<1>2. AvlInv /\ [Next]_vars => [Table!Next]_(Table!tableVars)
  <2> SUFFICES ASSUME AvlInv, [Next]_vars PROVE [Table!Next]_(Table!tableVars) OBVIOUS
  <2>1. CASE Call BY <2>1, CallImplements
  <2>2. CASE Grow \/ Shrink
    <3>1. Elems' = Elems /\ Passed' = Passed /\ Answered' = Answered BY <2>2, LoopIsHidden
    <3>2. QED BY <3>1 DEF Table!tableVars, Elems, Passed, Answered
  <2>3. CASE Return BY <2>3, ReturnImplements DEF Table!Next
  <2>4. CASE UNCHANGED vars BY <2>4 DEF vars, loopVars, Table!tableVars
  <2>5. QED BY <2>1, <2>2, <2>3, <2>4 DEF Next, Step
<1>3. QED BY <1>1, <1>2, AvlInvariant, PTL DEF Spec, ImplementsTable, Table!Spec

=============================================================================
