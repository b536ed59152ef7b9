----------------------------- MODULE RtlProofs -----------------------------
(***************************************************************************)
(* Proofs about the services of Rtl that compute in loops: bitmaps (the    *)
(* ranges that the masks reach, the runs that the searches find, and the   *)
(* map that a guest keeps with them), LZNT1, access control lists and the  *)
(* splay trees of the generic tables, for widths, sizes and numbers of     *)
(* keys of any kind.                                                       *)
(***************************************************************************)
EXTENDS Bitmap, Lznt1, Security, SplayTable, FiniteSetTheorems, SequenceTheorems, TLAPS

-----------------------------------------------------------------------------
(* Numbers.                                                                *)

\* Words and bits are a quotient and a rest (bitmap.c 69).
LEMMA Division ==
  ASSUME NEW a \in Int, NEW b \in Nat \ {0}
  PROVE  /\ a \div b \in Int /\ a % b \in 0 .. b - 1
         /\ a = b * (a \div b) + (a % b)
<1>1. b \in Int /\ b > 0 OBVIOUS
<1>2. a % b \in 0 .. b - 1 BY <1>1
<1>3. a = b * (a \div b) + (a % b) BY <1>1
<1>4. a \div b \in Int BY <1>1
<1>5. QED BY <1>2, <1>3, <1>4

\* A set of numbers has a least one: the first bit that stops a run.
LEMMA LeastNumber ==
  ASSUME NEW S \in SUBSET Nat, S # {}
  PROVE  Min(S) \in S /\ \A x \in S : Min(S) <= x
<1>1. PICK n \in S : TRUE OBVIOUS
<1>2. IsFiniteSet(0 .. n) BY FS_Interval
<1> DEFINE V == 0 .. n
           F == {0 .. x : x \in S \cap V}
<1>3. F \in SUBSET SUBSET V /\ F # {}
  <2>1. n \in S \cap V BY <1>1
  <2>2. QED BY <2>1
<1>4. FiniteSubsetsOf(V) = SUBSET V BY <1>2, FS_FiniteSubsetsOfFinite
<1>5. IsWellFoundedOn(StrictSubsetOrdering(V), SUBSET V)
  BY <1>4, FS_StrictSubsetOrderingWellFounded
<1>6. PICK A \in F : \A B \in F : <<B, A>> \notin StrictSubsetOrdering(V)
  BY <1>3, <1>5, WFMin
<1>7. PICK m \in S \cap V : A = 0 .. m BY <1>6
<1>8. ASSUME NEW x \in S, x < m PROVE FALSE
  <2>1. x \in V BY <1>7, <1>8
  <2>2. 0 .. x \in F BY <2>1
  <2>3. 0 .. x \in SUBSET V /\ 0 .. m \in SUBSET V BY <2>1, <1>7
  <2>4. 0 .. x \subseteq 0 .. m /\ 0 .. x # 0 .. m
    <3>1. m \in 0 .. m /\ m \notin 0 .. x BY <1>7, <1>8
    <3>2. QED BY <3>1, <1>7, <1>8
  <2>5. <<0 .. x, 0 .. m>> \in StrictSubsetOrdering(V) BY <2>3, <2>4 DEF StrictSubsetOrdering
  <2>6. QED BY <1>6, <1>7, <2>2, <2>5
<1>9. m \in S /\ \A x \in S : m <= x BY <1>7, <1>8
<1>10. QED BY <1>9 DEF Min

\* What holds of a number if it holds of those below holds of all: of the rounds of
\* a loop.
LEMMA Upwards ==
  ASSUME NEW N \in Nat, NEW Good,
         \A i \in 0 .. N : (\A j \in 0 .. N : j < i => j \in Good) => i \in Good
  PROVE  \A i \in 0 .. N : i \in Good
<1> DEFINE Bad == {i \in 0 .. N : i \notin Good}
<1>1. SUFFICES ASSUME Bad # {} PROVE FALSE OBVIOUS
<1>2. Bad \in SUBSET Nat OBVIOUS
<1>3. Min(Bad) \in Bad /\ \A x \in Bad : Min(Bad) <= x
  <2> HIDE DEF Bad
  <2>1. QED BY <1>1, <1>2, LeastNumber
<1>4. PICK i \in Bad : \A x \in Bad : i <= x BY <1>3
<1>5. \A j \in 0 .. N : j < i => j \in Good BY <1>4
<1>6. QED BY <1>4, <1>5

\* The same from the end: of the positions of a bitmap.
LEMMA Downwards ==
  ASSUME NEW N \in Nat, NEW Good,
         \A i \in 0 .. N : (\A j \in 0 .. N : j > i => j \in Good) => i \in Good
  PROVE  \A i \in 0 .. N : i \in Good
<1> DEFINE Back == {i \in 0 .. N : N - i \in Good}
<1>1. \A i \in 0 .. N : (\A j \in 0 .. N : j < i => j \in Back) => i \in Back
  <2>1. SUFFICES ASSUME NEW i \in 0 .. N, \A j \in 0 .. N : j < i => j \in Back
                 PROVE  N - i \in Good
    OBVIOUS
  <2>2. ASSUME NEW j \in 0 .. N, j > N - i PROVE j \in Good
    <3>1. N - j \in 0 .. N /\ N - j < i BY <2>2
    <3>2. N - j \in Back BY <2>1, <3>1
    <3>3. N - (N - j) = j OBVIOUS
    <3>4. QED BY <3>2, <3>3
  <2>3. N - i \in 0 .. N OBVIOUS
  <2>4. QED BY <2>2, <2>3
<1>2. \A i \in 0 .. N : i \in Back
  <2> HIDE DEF Back
  <2>1. QED BY <1>1, Upwards
<1>3. ASSUME NEW i \in 0 .. N PROVE i \in Good
  <2>1. N - i \in 0 .. N /\ N - (N - i) = i OBVIOUS
  <2>2. QED BY <1>2, <2>1
<1>4. QED BY <1>3

\* A set of numbers below another has a greatest one.
LEMMA GreatestNumber ==
  ASSUME NEW N \in Nat, NEW S \in SUBSET (0 .. N), S # {}
  PROVE  Max(S) \in S /\ \A x \in S : x <= Max(S)
<1> DEFINE T == {i \in 0 .. N : N - i \in S}
<1>1. T \in SUBSET Nat OBVIOUS
<1>2. T # {}
  <2>1. PICK x \in S : TRUE OBVIOUS
  <2>2. N - x \in 0 .. N /\ N - (N - x) = x OBVIOUS
  <2>3. N - x \in T BY <2>2
  <2>4. QED BY <2>3
<1>3. PICK i \in T : \A y \in T : i <= y
  <2> HIDE DEF T
  <2>1. QED BY <1>1, <1>2, LeastNumber
<1>4. ASSUME NEW x \in S PROVE x <= N - i
  <2>1. N - x \in 0 .. N /\ N - (N - x) = x OBVIOUS
  <2>2. N - x \in T BY <2>1
  <2>3. i <= N - x BY <1>3, <2>2
  <2>4. QED BY <1>3, <2>3
<1>5. N - i \in S /\ \A x \in S : N - i >= x BY <1>3, <1>4
<1>6. QED BY <1>5 DEF Max

-----------------------------------------------------------------------------
(* Loops.                                                                  *)

\* What a loop gives at x: what it has there if it stops, else it is made of what the
\* loop gives at the next place.
Gives(f, S, Stop, val, step, next) ==
  \A x \in S : f[x] = IF x \in Stop THEN val[x] ELSE step[<<x, f[next[x]]>>]

\* There is a function that gives what a loop does whose measure falls: the loops of
\* bitmap.c end.
LEMMA LoopEnds ==
  ASSUME NEW S, NEW N \in Nat, NEW D \in [S -> 0 .. N], NEW V,
         NEW Stop, NEW val, NEW step, NEW next,
         \A x \in S : x \in Stop => val[x] \in V,
         \A x \in S : x \notin Stop => next[x] \in S /\ D[next[x]] < D[x],
         \A x \in S : x \notin Stop => \A v \in V : step[<<x, v>>] \in V
  PROVE  \E f \in [S -> V] : Gives(f, S, Stop, val, step, next)
<1> DEFINE Holds(f, x) == /\ f[x] \in V
                          /\ f[x] = IF x \in Stop THEN val[x] ELSE step[<<x, f[next[x]]>>]
           Good == {k \in 0 .. N : \E f : \A x \in S : D[x] <= k => Holds(f, x)}
<1>1. ASSUME NEW k \in 0 .. N, \A j \in 0 .. N : j < k => j \in Good PROVE k \in Good
  <2>1. PICK g : \A x \in S : D[x] < k => Holds(g, x)
    <3>1. CASE k = 0
      <4>1. \A x \in S : ~(D[x] < k) BY <3>1
      <4>2. QED BY <4>1
    <3>2. CASE k # 0
      <4>1. k - 1 \in 0 .. N /\ k - 1 < k BY <3>2
      <4>2. k - 1 \in Good BY <1>1, <4>1
      <4>3. \A x \in S : D[x] < k => D[x] <= k - 1 OBVIOUS
      <4>4. QED BY <4>2, <4>3
    <3>3. QED BY <3>1, <3>2
  <2> DEFINE f == [x \in S |-> IF D[x] < k THEN g[x]
                               ELSE IF x \in Stop THEN val[x] ELSE step[<<x, g[next[x]]>>]]
  <2>2. ASSUME NEW x \in S, D[x] <= k PROVE Holds(f, x)
    <3>1. CASE x \in Stop BY <2>1, <3>1
    <3>2. CASE x \notin Stop
      <4>1. next[x] \in S /\ D[next[x]] < k
        <5>1. next[x] \in S /\ D[next[x]] < D[x] BY <3>2
        <5>2. D[next[x]] \in 0 .. N /\ D[x] \in 0 .. N BY <5>1
        <5>3. QED BY <2>2, <5>1, <5>2
      <4>2. f[next[x]] = g[next[x]] /\ g[next[x]] \in V BY <2>1, <4>1
      <4>3. f[x] = step[<<x, g[next[x]]>>] BY <2>1, <3>2
      <4>4. step[<<x, g[next[x]]>>] \in V BY <3>2, <4>2
      <4>5. QED BY <3>2, <4>2, <4>3, <4>4
    <3>3. QED BY <3>1, <3>2
  <2>3. \E e : \A x \in S : D[x] <= k => Holds(e, x)
    <3> HIDE DEF f
    <3>1. QED BY <2>2
  <2>4. QED BY <2>3
<1>2. N \in Good
  <2>1. \A k \in 0 .. N : k \in Good
    <3> HIDE DEF Good
    <3>1. QED BY <1>1, Upwards
  <2>2. N \in 0 .. N OBVIOUS
  <2> HIDE DEF Good
  <2>3. QED BY <2>1, <2>2
<1>3. PICK f : \A x \in S : D[x] <= N => Holds(f, x) BY <1>2
<1>4. \A x \in S : Holds(f, x)
  <2>1. \A x \in S : D[x] <= N OBVIOUS
  <2> HIDE DEF Holds
  <2>2. QED BY <1>3, <2>1
<1> DEFINE h == [x \in S |-> f[x]]
<1>5. h \in [S -> V] BY <1>4
<1>6. ASSUME NEW x \in S
      PROVE  h[x] = IF x \in Stop THEN val[x] ELSE step[<<x, h[next[x]]>>]
  <2>1. x \notin Stop => h[next[x]] = f[next[x]] OBVIOUS
  <2>2. QED BY <1>4, <2>1
<1>7. Gives(h, S, Stop, val, step, next)
  <2> HIDE DEF h
  <2>1. QED BY <1>6 DEF Gives
<1>8. QED BY <1>5, <1>7

-----------------------------------------------------------------------------
(* Words.                                                                  *)

\* What is left of a word from start on: the words that RtlpGetLengthOfRunClear and
\* RtlFillMemoryUlong reach hold all the bits they are for (bitmap.c 69, rtl.c 644).
LEMMA WordsSuffice ==
  ASSUME NEW n \in Nat
  PROVE  Words(n) \in Nat /\ n <= WordBits * Words(n)
<1>1. WordBits \in Nat \ {0} BY BitmapAssumption
<1>2. PICK q \in Int, r \in 0 .. WordBits - 1 :
        q = Words(n) /\ n + WordBits - 1 = WordBits * q + r
  <2>1. PICK a \in Int : a = n + WordBits - 1 BY <1>1
  <2>2. /\ a \div WordBits \in Int /\ a % WordBits \in 0 .. WordBits - 1
        /\ a = WordBits * (a \div WordBits) + (a % WordBits)
    BY <1>1, Division
  <2>3. QED BY <2>1, <2>2 DEF Words
<1>3. n <= WordBits * q
  <2>1. PICK p \in Int : p = WordBits * q BY <1>1
  <2>2. QED BY <1>1, <1>2, <2>1
<1>4. ASSUME q <= -1 PROVE FALSE
  <2>1. PICK p \in Int : p = WordBits * q BY <1>1
  <2>2. p <= -WordBits BY <1>1, <1>4, <2>1
  <2>3. QED BY <1>1, <1>3, <2>1, <2>2
<1>5. QED BY <1>2, <1>3, <1>4

\* The bitmap is part of its buffer, and that of the memory that is read.
LEMMA MapIsInMemory ==
  ASSUME size \in Nat
  PROVE  Map \subseteq Buffer /\ Buffer \subseteq Memory /\ Memory \subseteq Nat
<1>1. WordBits \in Nat \ {0} BY BitmapAssumption
<1>2. PICK w \in Nat : w = Words(size) /\ size <= WordBits * w BY WordsSuffice
<1>3. PICK p \in Nat : p = WordBits * w BY <1>1
<1>4. PICK e \in Nat : e = WordBits * (w + 1) /\ e = p + WordBits BY <1>1, <1>3
<1>5. Buffer = 0 .. p - 1 BY <1>2, <1>3 DEF Buffer
<1>6. Memory = 0 .. p + WordBits - 1
  <2>1. Memory = 0 .. e - 1 BY <1>2, <1>4 DEF Memory
  <2>2. e - 1 = p + WordBits - 1 BY <1>1, <1>4
  <2>3. QED BY <2>1, <2>2
<1>7. QED BY <1>1, <1>2, <1>3, <1>5, <1>6 DEF Map

\* RtlSetBits and RtlClearBits reach the bits of a range: those to the end of a word,
\* whole words, and the low bits of the last (bitmap.c 269, 326).
LEMMA RangesAreExact ==
  ASSUME NEW start \in Nat, NEW n \in Nat
  PROVE  RangeOf(start, n) = start .. start + n - 1
<1>1. WordBits \in Nat \ {0} BY BitmapAssumption
<1>2. PICK gap \in 0 .. WordBits - 1 : gap = Room(start)
  <2>1. start % WordBits \in 0 .. WordBits - 1 BY <1>1, Division
  <2>2. Room(start) \in 0 .. WordBits - 1 BY <1>1, <2>1 DEF Room
  <2>3. QED BY <2>2
<1>3. CASE n < gap BY <1>2, <1>3 DEF RangeOf
<1>4. CASE ~(n < gap)
  <2>1. PICK behind \in Nat : behind = n - gap BY <1>1, <1>2, <1>4
  <2>2. PICK q \in Int, r \in 0 .. WordBits - 1 :
          q = behind \div WordBits /\ r = behind % WordBits /\ behind = WordBits * q + r
    <3>1. behind \in Int OBVIOUS
    <3>2. behind \div WordBits \in Int /\ behind % WordBits \in 0 .. WordBits - 1
          /\ behind = WordBits * (behind \div WordBits) + (behind % WordBits)
      BY ONLY <1>1, <3>1, Division
    <3>3. QED BY <3>2
  <2>3. PICK whole \in Int : whole = WordBits * q BY <1>1
  <2>4. whole >= 0
    <3>1. ASSUME q <= -1 PROVE FALSE
      <4>1. whole <= -WordBits BY <1>1, <2>3, <3>1
      <4>2. QED BY <1>1, <2>1, <2>2, <2>3, <4>1
    <3>2. q >= 0 BY <3>1
    <3>3. QED BY <1>1, <2>3, <3>2
  <2>5. RangeOf(start, n) =
          (start .. start + gap - 1) \cup (start + gap .. start + gap + whole - 1)
            \cup (start + gap + whole .. start + gap + whole + r - 1)
    BY <1>2, <1>4, <2>1, <2>2, <2>3 DEF RangeOf, LastBits
  <2>6. n = gap + whole + r
    <3>1. behind = whole + r BY <2>2, <2>3
    <3>2. r \in Nat /\ gap \in Nat BY <1>1
    <3>3. QED BY <2>1, <3>1, <3>2
  <2>7. gap \in Nat /\ whole \in Nat /\ r \in Nat BY <1>1, <2>4
  <2>8. start .. start + n - 1 =
          (start .. start + gap - 1) \cup (start + gap .. start + gap + whole - 1)
            \cup (start + gap + whole .. start + gap + whole + r - 1)
    BY ONLY start \in Nat, n \in Nat, <2>6, <2>7
  <2>9. QED BY <2>5, <2>8
<1>5. QED BY <1>3, <1>4

-----------------------------------------------------------------------------
(* Runs.                                                                   *)

\* A run of length n from start on: no bit stops it before its end, and one does at
\* its end, if the search was not to end there.
IsRun(stop, start, most, n) ==
  /\ n \in Nat /\ start + n <= size
  /\ \A b \in stop : ~(start <= b /\ b < start + n)
  /\ n < most /\ start + n < size => start + n \in stop

\* RtlpGetLengthOfRunClear and ..Set return the length of a run, whatever the words
\* hold that it ends in (bitmap.c 69, 118).
LEMMA RunLengthIs ==
  ASSUME size \in Nat, NEW stop \in SUBSET Nat, NEW start \in 0 .. size, NEW most \in Nat
  PROVE  IsRun(stop, start, most, RunLength(stop, start, most))
<1>1. WordBits \in Nat \ {0} BY BitmapAssumption
<1>2. PICK longest \in Nat : /\ longest = Lesser(most, size - start)
                             /\ longest <= size - start
                             /\ longest = most \/ longest = size - start
  BY DEF Lesser
<1>3. PICK rest \in 0 .. WordBits - 1 : rest = start % WordBits BY <1>1, Division
<1>4. PICK words \in Nat : /\ words = WordsOfRun(start, longest)
                           /\ rest + longest <= WordBits * words
  <2>1. rest + longest \in Nat BY <1>1, <1>2, <1>3
  <2>2. QED BY <1>3, <2>1, WordsSuffice DEF WordsOfRun
<1>5. PICK read \in Nat : read = Max({1, words}) /\ words <= read
  <2>1. PICK N \in Nat : 1 <= N /\ words <= N
    <3>1. words <= words + 1 /\ 1 <= words + 1 /\ words + 1 \in Nat OBVIOUS
    <3>2. QED BY <3>1
  <2>2. {1, words} \in SUBSET (0 .. N) /\ {1, words} # {} BY <2>1
  <2>3. Max({1, words}) \in {1, words} /\ words <= Max({1, words}) BY <2>2, GreatestNumber
  <2>4. QED BY <2>3
<1>6. PICK end \in Int : end = start - rest + WordBits * read - 1 /\ start + longest - 1 <= end
  <2>1. PICK p, q \in Nat : p = WordBits * words /\ q = WordBits * read BY <1>1
  <2>2. p <= q BY <1>1, <1>5, <2>1
  <2>3. QED BY <1>1, <1>3, <1>4, <2>1, <2>2
<1> DEFINE hits == stop \cap (start .. end)
<1>7. RunLength(stop, start, most) =
        IF hits = {} THEN longest ELSE Lesser(Min(hits) - start, size - start)
  BY <1>2, <1>3, <1>4, <1>5, <1>6 DEF RunLength
<1>8. CASE hits = {}
  <2>1. RunLength(stop, start, most) = longest BY <1>7, <1>8
  <2>2. \A b \in stop : ~(start <= b /\ b < start + longest) BY <1>2, <1>6, <1>8
  <2>3. QED BY <1>2, <2>1, <2>2 DEF IsRun
<1>9. CASE hits # {}
  <2>1. hits \in SUBSET Nat OBVIOUS
  <2>2. PICK m \in hits : m = Min(hits) /\ \A x \in hits : m <= x
    <3> HIDE DEF hits
    <3>1. QED BY <1>9, <2>1, LeastNumber
  <2>3. RunLength(stop, start, most) = Lesser(m - start, size - start) BY <1>7, <1>9, <2>2
  <2>4. m \in stop /\ m \in Nat /\ start <= m /\ m <= end BY <2>2
  <2>5. \A b \in stop : ~(start <= b /\ b < m)
    <3>1. SUFFICES ASSUME NEW b \in stop, start <= b, b < m PROVE FALSE OBVIOUS
    <3>2. b \in hits BY <1>6, <2>4, <3>1
    <3>3. QED BY <2>2, <2>4, <3>1, <3>2
  <2>6. CASE m < size
    <3>1. RunLength(stop, start, most) = m - start BY <2>3, <2>4, <2>6 DEF Lesser
    <3>2. QED BY <2>4, <2>5, <2>6, <3>1 DEF IsRun
  <2>7. CASE size <= m
    <3>1. RunLength(stop, start, most) = size - start BY <2>3, <2>4, <2>7 DEF Lesser
    <3>2. QED BY <2>4, <2>5, <2>7, <3>1 DEF IsRun
  <2>8. QED BY <2>4, <2>6, <2>7
<1>10. QED BY <1>8, <1>9

\* Positions of the bitmap whose bit is clear.
Clear == Map \ bits
Used == Map \cap bits

\* What is not clear stops a search for clear bits, and the same for the others.
LEMMA Positions ==
  ASSUME size \in Nat, bits \subseteq Memory
  PROVE  /\ bits \in SUBSET Nat /\ Memory \ bits \in SUBSET Nat
         /\ \A b \in Map : (b \in Clear <=> b \notin bits) /\ (b \in Clear <=> b \in Memory \ bits)
         /\ \A b \in Map : (b \in Used <=> b \in bits) /\ (b \in Used <=> b \notin Memory \ bits)
         /\ Map = 0 .. size - 1
BY MapIsInMemory DEF Clear, Used, Map

\* RtlpGetLengthOfRunClear: the run is clear, and ends where a bit is set or at the
\* end of the bitmap (bitmap.c 69).
LEMMA RunClearIs ==
  ASSUME size \in Nat, bits \subseteq Memory, NEW start \in 0 .. size, NEW most \in Nat
  PROVE  LET n == RunClear(start, most)
         IN  /\ n \in Nat /\ start + n <= size
             /\ \A b \in start .. start + n - 1 : b \in Clear
             /\ n < most => start + n \notin Clear
<1>1. bits \in SUBSET Nat BY Positions
<1>2. PICK n : n = RunClear(start, most) OBVIOUS
<1>3. IsRun(bits, start, most, n) BY <1>1, <1>2, RunLengthIs DEF RunClear
<1>4. n \in Nat /\ start + n <= size BY <1>3 DEF IsRun
<1>5. ASSUME NEW b \in start .. start + n - 1 PROVE b \in Clear
  <2>1. b \in Map /\ start <= b /\ b < start + n BY <1>4 DEF Map
  <2>2. b \notin bits BY <1>3, <2>1 DEF IsRun
  <2>3. QED BY <2>1, <2>2, Positions
<1>6. ASSUME n < most PROVE start + n \notin Clear
  <2>1. start + n < size => start + n \in bits BY <1>3, <1>6 DEF IsRun
  <2>2. start + n < size <=> start + n \in Map BY <1>4 DEF Map
  <2>3. QED BY <2>1, <2>2 DEF Clear
<1>7. QED BY <1>2, <1>4, <1>5, <1>6

\* RtlpGetLengthOfRunSet: the run is set, and ends where a bit is clear or at the end
\* of the bitmap (bitmap.c 118).
LEMMA RunSetIs ==
  ASSUME size \in Nat, bits \subseteq Memory, NEW start \in 0 .. size, NEW most \in Nat
  PROVE  LET n == RunSet(start, most)
         IN  /\ n \in Nat /\ start + n <= size
             /\ \A b \in start .. start + n - 1 : b \in Used
             /\ n < most => start + n \notin Used
<1>1. Memory \ bits \in SUBSET Nat BY Positions
<1>2. PICK n : n = RunSet(start, most) OBVIOUS
<1>3. IsRun(Memory \ bits, start, most, n) BY <1>1, <1>2, RunLengthIs DEF RunSet
<1>4. n \in Nat /\ start + n <= size BY <1>3 DEF IsRun
<1>5. ASSUME NEW b \in start .. start + n - 1 PROVE b \in Used
  <2>1. b \in Map /\ start <= b /\ b < start + n BY <1>4 DEF Map
  <2>2. b \notin Memory \ bits BY <1>3, <2>1 DEF IsRun
  <2>3. QED BY <2>1, <2>2, Positions
<1>6. ASSUME n < most PROVE start + n \notin Used
  <2>1. start + n < size => start + n \in Memory \ bits BY <1>3, <1>6 DEF IsRun
  <2>2. start + n < size <=> start + n \in Map BY <1>4 DEF Map
  <2>3. QED BY <2>1, <2>2 DEF Used
<1>7. QED BY <1>2, <1>4, <1>5, <1>6

\* A bit of the bitmap is clear or set.
LEMMA ClearOrUsed ==
  ASSUME size \in Nat
  PROVE  \A b \in Int : /\ b \in Clear => 0 <= b /\ b < size /\ b \notin Used
                        /\ 0 <= b /\ b < size => b \in Clear \/ b \in Used
BY DEF Clear, Used, Map

\* Free ranges are those that consist of clear bits.
LEMMA FreeRanges ==
  ASSUME NEW start \in Int, NEW n \in Int
  PROVE  IsFree(start, n) <=> \A b \in start .. start + n - 1 : b \in Clear
BY DEF IsFree, Clear

\* RtlAreBitsClear is right about every range.
LEMMA AreBitsClearIs ==
  ASSUME size \in Nat, bits \subseteq Memory, NEW start \in Map, NEW n \in 1 .. size
  PROVE  AreBitsClear(start, n) <=> IsFree(start, n)
<1>1. start \in 0 .. size - 1 /\ start \in 0 .. size /\ n \in Nat BY DEF Map
<1>2. PICK m \in Nat : /\ m = RunClear(start, n)
                       /\ \A b \in start .. start + m - 1 : b \in Clear
                       /\ m < n => start + m \notin Clear
  BY <1>1, RunClearIs
<1>3. ASSUME m >= n PROVE IsFree(start, n)
  <2>1. \A b \in start .. start + n - 1 : b \in Clear BY <1>1, <1>2, <1>3
  <2>2. QED BY <1>1, <2>1, FreeRanges
<1>4. ASSUME m < n PROVE ~IsFree(start, n)
  <2>1. start + m \in start .. start + n - 1 BY <1>1, <1>4
  <2>2. QED BY <1>1, <1>2, <1>4, <2>1, FreeRanges
<1>5. QED BY <1>1, <1>2, <1>3, <1>4 DEF AreBitsClear

\* RtlAreBitsSet is right about every range.
LEMMA AreBitsSetIs ==
  ASSUME size \in Nat, bits \subseteq Memory, NEW start \in Map, NEW n \in 1 .. size
  PROVE  AreBitsSet(start, n) <=> start .. start + n - 1 \subseteq Map \cap bits
<1>1. start \in 0 .. size - 1 /\ start \in 0 .. size /\ n \in Nat BY DEF Map
<1>2. PICK m \in Nat : /\ m = RunSet(start, n)
                       /\ \A b \in start .. start + m - 1 : b \in Used
                       /\ m < n => start + m \notin Used
  BY <1>1, RunSetIs
<1>3. ASSUME m >= n PROVE start .. start + n - 1 \subseteq Used BY <1>1, <1>2, <1>3
<1>4. ASSUME m < n PROVE ~(start .. start + n - 1 \subseteq Used)
  <2>1. start + m \in start .. start + n - 1 BY <1>1, <1>4
  <2>2. QED BY <1>2, <1>4, <2>1
<1>5. QED BY <1>1, <1>2, <1>3, <1>4 DEF AreBitsSet, Used

-----------------------------------------------------------------------------
(* The searches for one run.                                               *)

\* From each position b on, the next run of wanted bits begins at free[b] and has
\* length[b] bits, if it is shorter than n.
Skips(Wanted, n, free, length) ==
  \A b \in 0 .. size :
    /\ free[b] \in Nat /\ length[b] \in Nat /\ b <= free[b] /\ free[b] + length[b] <= size
    /\ \A i \in b .. free[b] - 1 : i \notin Wanted
    /\ \A i \in free[b] .. free[b] + length[b] - 1 : i \in Wanted
    /\ length[b] < n => free[b] + length[b] \notin Wanted
    /\ length[b] = 0 => free[b] = size

\* The loops of RtlFindClearBits and RtlFindSetBits.
Search(f, n, margin, free, length) ==
  f = [b \in 0 .. size |-> IF b + n >= margin THEN NotFound
                           ELSE IF length[b] >= n THEN free[b] ELSE f[free[b] + length[b]]]

\* They end: each goes on behind the run that was too short (bitmap.c 468, 531).
LEMMA SearchEnds ==
  ASSUME size \in Nat, NEW Wanted, NEW n \in Nat \ {0}, NEW margin \in Int, margin <= size + 1,
         NEW free, NEW length, Skips(Wanted, n, free, length)
  PROVE  \E f : Search(f, n, margin, free, length)
<1> DEFINE S == 0 .. size
           D == [b \in S |-> size - b]
           Stop == {b \in S : b + n >= margin \/ length[b] >= n}
           val == [b \in S |-> IF b + n >= margin THEN NotFound ELSE free[b]]
           next == [b \in S |-> free[b] + length[b]]
           step == [p \in S \X Int |-> p[2]]
<1>1. ASSUME NEW b \in S
      PROVE  /\ val[b] \in Int
             /\ b \notin Stop => next[b] \in S /\ D[next[b]] < D[b]
  <2>1. /\ free[b] \in Nat /\ length[b] \in Nat /\ b <= free[b] /\ free[b] + length[b] <= size
        /\ length[b] = 0 => free[b] = size
    BY DEF Skips
  <2>2. ASSUME b \notin Stop PROVE next[b] \in S /\ D[next[b]] < D[b]
    <3>1. PICK c \in S : c = free[b] + length[b] BY <2>1
    <3>2. ~(b + n >= margin) /\ ~(length[b] >= n) BY <2>2
    <3>3. b < c BY <2>1, <3>1, <3>2
    <3>4. next[b] = c /\ D[c] = size - c /\ D[b] = size - b BY <3>1
    <3>5. QED BY <3>1, <3>3, <3>4
  <2>3. val[b] \in Int
    <3>1. val[b] = NotFound \/ val[b] = free[b] OBVIOUS
    <3>2. NotFound \in Int BY DEF NotFound
    <3>3. QED BY <2>1, <3>1, <3>2
  <2>4. QED BY <2>2, <2>3
<1>2. PICK f \in [S -> Int] : Gives(f, S, Stop, val, step, next)
  <2>1. D \in [S -> 0 .. size] OBVIOUS
  <2>2. \A x \in S : \A v \in Int : step[<<x, v>>] = v OBVIOUS
  <2> HIDE DEF S, D, Stop, val, step, next
  <2>3. \A x \in S : x \notin Stop => \A v \in Int : step[<<x, v>>] \in Int BY <2>2
  <2>4. QED BY <1>1, <2>1, <2>3, LoopEnds
<1>3. ASSUME NEW b \in S
      PROVE  f[b] = IF b + n >= margin THEN NotFound
                    ELSE IF length[b] >= n THEN free[b] ELSE f[free[b] + length[b]]
  <2>1. f[b] = IF b \in Stop THEN val[b] ELSE step[<<b, f[next[b]]>>] BY <1>2 DEF Gives
  <2>2. CASE b \in Stop
    <3>1. val[b] = IF b + n >= margin THEN NotFound ELSE free[b] OBVIOUS
    <3>2. QED BY <2>1, <2>2, <3>1
  <2>3. CASE b \notin Stop
    <3>1. next[b] = free[b] + length[b] /\ next[b] \in S BY <1>1, <2>3
    <3>2. step[<<b, f[next[b]]>>] = f[next[b]] BY <3>1
    <3>3. QED BY <2>1, <2>3, <3>1, <3>2
  <2>4. QED BY <2>2, <2>3
<1>4. Search(f, n, margin, free, length) BY <1>3 DEF Search
<1>5. QED BY <1>4

\* What the search from b on finds is a run of n wanted bits; if it finds none there is
\* none that ends before the margin.
Finds(b, r, n, margin, Wanted) ==
  \/ /\ r \in Nat /\ r + n <= size
     /\ \A i \in r .. r + n - 1 : i \in Wanted
  \/ /\ r = NotFound
     /\ \A s \in Int : b <= s /\ s + n < margin => \E i \in s .. s + n - 1 : i \notin Wanted

\* The searches of RtlFindClearBits and RtlFindSetBits find what is to be found
\* before their margin (bitmap.c 468, 531).
LEMMA SearchFinds ==
  ASSUME size \in Nat, NEW Wanted, NEW n \in Nat \ {0}, NEW margin \in Int, margin <= size + 1,
         NEW free, NEW length, Skips(Wanted, n, free, length),
         NEW f, Search(f, n, margin, free, length)
  PROVE  \A b \in 0 .. size : Finds(b, f[b], n, margin, Wanted)
<1> DEFINE Good == {b \in 0 .. size : Finds(b, f[b], n, margin, Wanted)}
<1>1. ASSUME NEW b \in 0 .. size, \A c \in 0 .. size : c > b => c \in Good
      PROVE  b \in Good
  <2>1. /\ free[b] \in Nat /\ length[b] \in Nat /\ b <= free[b] /\ free[b] + length[b] <= size
        /\ \A i \in b .. free[b] - 1 : i \notin Wanted
        /\ \A i \in free[b] .. free[b] + length[b] - 1 : i \in Wanted
        /\ length[b] < n => free[b] + length[b] \notin Wanted
        /\ length[b] = 0 => free[b] = size
    BY DEF Skips
  <2>2. f[b] = IF b + n >= margin THEN NotFound
               ELSE IF length[b] >= n THEN free[b] ELSE f[free[b] + length[b]]
    BY DEF Search
  <2>3. CASE b + n >= margin
    <3>1. \A s \in Int : ~(b <= s /\ s + n < margin) BY <2>3
    <3>2. QED BY <2>2, <2>3, <3>1 DEF Finds
  <2>4. CASE ~(b + n >= margin) /\ length[b] >= n
    <3>1. f[b] = free[b] BY <2>2, <2>4
    <3>2. \A i \in free[b] .. free[b] + n - 1 : i \in Wanted BY <2>1, <2>4
    <3>3. free[b] + n <= size BY <2>1, <2>4
    <3>4. QED BY <2>1, <3>1, <3>2, <3>3 DEF Finds
  <2>5. CASE ~(b + n >= margin) /\ length[b] < n
    <3>1. PICK c \in 0 .. size : c = free[b] + length[b] BY <2>1
    <3>2. f[b] = f[c] /\ c \in Good
      <4>1. b < c BY <2>1, <2>5, <3>1
      <4>2. QED BY <1>1, <2>1, <2>2, <2>5, <3>1, <4>1
    <3>3. Finds(c, f[c], n, margin, Wanted) BY <3>2
    <3>4. ASSUME NEW s \in Int, b <= s, s < c, s + n < margin
          PROVE  \E i \in s .. s + n - 1 : i \notin Wanted
      <4>1. CASE s < free[b]
        <5>1. s \in b .. free[b] - 1 /\ s \in s .. s + n - 1 BY <2>1, <3>4, <4>1
        <5>2. QED BY <2>1, <5>1
      <4>2. CASE free[b] <= s
        <5>1. c \in s .. s + n - 1 /\ c \notin Wanted BY <2>1, <2>5, <3>1, <3>4, <4>2
        <5>2. QED BY <5>1
      <4>3. QED BY <2>1, <4>1, <4>2
    <3>5. ASSUME f[c] = NotFound,
                 \A s \in Int : c <= s /\ s + n < margin =>
                   \E i \in s .. s + n - 1 : i \notin Wanted
          PROVE  Finds(b, f[c], n, margin, Wanted)
      <4>1. ASSUME NEW s \in Int, b <= s, s + n < margin
            PROVE  \E i \in s .. s + n - 1 : i \notin Wanted
        <5>1. CASE s < c BY <3>4, <4>1, <5>1
        <5>2. CASE c <= s BY <3>5, <4>1, <5>2
        <5>3. QED BY <5>1, <5>2
      <4>2. QED BY <3>5, <4>1 DEF Finds
    <3>6. Finds(b, f[c], n, margin, Wanted) BY <3>3, <3>5 DEF Finds
    <3>7. QED BY <3>2, <3>6
  <2>6. QED BY <2>1, <2>3, <2>4, <2>5
<1>2. QED
  <2>1. \A b \in 0 .. size : b \in Good
    <3> HIDE DEF Good
    <3>1. QED BY <1>1, Downwards
  <2>2. QED BY <2>1

\* RtlFindClearBits skips what is set and takes the clear run behind it (bitmap.c 468).
LEMMA ClearSkips ==
  ASSUME size \in Nat, bits \subseteq Memory, NEW n \in Nat \ {0}
  PROVE  Skips(Clear, n, [b \in 0 .. size |-> b + RunSet(b, size)],
                         [b \in 0 .. size |-> RunClear(b + RunSet(b, size), n)])
<1>1. ASSUME NEW b \in 0 .. size, NEW free, free = b + RunSet(b, size),
             NEW length, length = RunClear(free, n)
      PROVE  /\ free \in Nat /\ length \in Nat /\ b <= free /\ free + length <= size
             /\ \A i \in b .. free - 1 : i \notin Clear
             /\ \A i \in free .. free + length - 1 : i \in Clear
             /\ length < n => free + length \notin Clear
             /\ length = 0 => free = size
  <2>1. PICK m \in Nat : /\ m = RunSet(b, size) /\ b + m <= size
                         /\ \A i \in b .. b + m - 1 : i \in Used
                         /\ m < size => b + m \notin Used
    BY RunSetIs
  <2>2. free \in 0 .. size /\ b <= free /\ free = b + m BY <1>1, <2>1
  <2>3. /\ length \in Nat /\ free + length <= size
        /\ \A i \in free .. free + length - 1 : i \in Clear
        /\ length < n => free + length \notin Clear
    BY <1>1, <2>2, RunClearIs
  <2>4. \A i \in b .. free - 1 : i \notin Clear BY <2>1, <2>2, ClearOrUsed
  <2>5. ASSUME length = 0, free < size PROVE FALSE
    <3>1. free \in Used BY <2>2, <2>3, <2>5, ClearOrUsed
    <3>2. QED BY <2>1, <2>2, <2>5, <3>1
  <2>6. QED BY <2>2, <2>3, <2>4, <2>5
<1>2. QED BY <1>1 DEF Skips

\* RtlFindSetBits skips what is clear and takes the set run behind it (bitmap.c 531).
LEMMA SetSkips ==
  ASSUME size \in Nat, bits \subseteq Memory, NEW n \in Nat \ {0}
  PROVE  Skips(Used, n, [b \in 0 .. size |-> b + RunClear(b, size)],
                        [b \in 0 .. size |-> RunSet(b + RunClear(b, size), n)])
<1>1. ASSUME NEW b \in 0 .. size, NEW used, used = b + RunClear(b, size),
             NEW length, length = RunSet(used, n)
      PROVE  /\ used \in Nat /\ length \in Nat /\ b <= used /\ used + length <= size
             /\ \A i \in b .. used - 1 : i \notin Used
             /\ \A i \in used .. used + length - 1 : i \in Used
             /\ length < n => used + length \notin Used
             /\ length = 0 => used = size
  <2>1. PICK m \in Nat : /\ m = RunClear(b, size) /\ b + m <= size
                         /\ \A i \in b .. b + m - 1 : i \in Clear
                         /\ m < size => b + m \notin Clear
    BY RunClearIs
  <2>2. used \in 0 .. size /\ b <= used /\ used = b + m BY <1>1, <2>1
  <2>3. /\ length \in Nat /\ used + length <= size
        /\ \A i \in used .. used + length - 1 : i \in Used
        /\ length < n => used + length \notin Used
    BY <1>1, <2>2, RunSetIs
  <2>4. \A i \in b .. used - 1 : i \notin Used BY <2>1, <2>2, ClearOrUsed
  <2>5. ASSUME length = 0, used < size PROVE FALSE
    <3>1. used \in Clear BY <2>2, <2>3, <2>5, ClearOrUsed
    <3>2. QED BY <2>1, <2>2, <2>5, <3>1
  <2>6. QED BY <2>2, <2>3, <2>4, <2>5
<1>2. QED BY <1>1 DEF Skips

\* What RtlFindClearBits finds from each position on.
LEMMA ClearSearchFinds ==
  ASSUME size \in Nat, bits \subseteq Memory, NEW n \in Nat \ {0},
         NEW margin \in Int, margin <= size, NEW b \in 0 .. size
  PROVE  Finds(b, ClearSearch(n, margin)[b], n, margin, Clear)
<1> DEFINE free == [i \in 0 .. size |-> i + RunSet(i, size)]
           length == [i \in 0 .. size |-> RunClear(i + RunSet(i, size), n)]
           At(f) == [i \in 0 .. size |->
                       LET z == i + RunSet(i, size)
                           l == RunClear(z, n)
                       IN  IF i + n >= margin THEN NotFound
                           ELSE IF LongEnough(l, n) THEN z ELSE f[z + l]]
<1>1. ClearSearch(n, margin) = CHOOSE f : f = At(f) BY DEF ClearSearch
<1>2. ASSUME NEW f PROVE f = At(f) <=> Search(f, n, margin, free, length)
  BY DEF Search, LongEnough
<1>3. Skips(Clear, n, free, length) BY ClearSkips
<1> HIDE DEF free, length, At
<1>4. margin <= size + 1 OBVIOUS
<1>5. \E f : f = At(f) BY <1>2, <1>3, <1>4, SearchEnds
<1>6. ClearSearch(n, margin) = At(ClearSearch(n, margin)) BY <1>1, <1>5
<1>7. Search(ClearSearch(n, margin), n, margin, free, length) BY <1>2, <1>6
<1>8. QED BY <1>3, <1>4, <1>7, SearchFinds

\* What RtlFindSetBits finds from each position on.
LEMMA SetSearchFinds ==
  ASSUME size \in Nat, bits \subseteq Memory, NEW n \in Nat \ {0}, NEW b \in 0 .. size
  PROVE  Finds(b, SetSearch(n)[b], n, size + 1, Used)
<1> DEFINE free == [i \in 0 .. size |-> i + RunClear(i, size)]
           length == [i \in 0 .. size |-> RunSet(i + RunClear(i, size), n)]
           At(f) == [i \in 0 .. size |->
                       LET z == i + RunClear(i, size)
                           l == RunSet(z, n)
                       IN  IF i + n > size THEN NotFound
                           ELSE IF LongEnough(l, n) THEN z ELSE f[z + l]]
<1>1. SetSearch(n) = CHOOSE f : f = At(f) BY DEF SetSearch
<1>2. ASSUME NEW f PROVE f = At(f) <=> Search(f, n, size + 1, free, length)
  <2>1. \A i \in 0 .. size : i + n > size <=> i + n >= size + 1 OBVIOUS
  <2>2. QED BY <2>1 DEF Search, LongEnough
<1>3. Skips(Used, n, free, length) BY SetSkips
<1> HIDE DEF free, length, At
<1>4. size + 1 \in Int /\ size + 1 <= size + 1 OBVIOUS
<1>5. \E f : f = At(f) BY <1>2, <1>3, <1>4, SearchEnds
<1>6. SetSearch(n) = At(SetSearch(n)) BY <1>1, <1>5
<1>7. Search(SetSearch(n), n, size + 1, free, length) BY <1>2, <1>6
<1>8. QED BY <1>3, <1>4, <1>7, SearchFinds

\* RtlFindClearBits returns a clear run, and misses only one that ends with the bitmap:
\* after the search from the hint it looks at what the hint left out (bitmap.c 440).
LEMMA FindClearBitsIs ==
  ASSUME size \in Nat, bits \subseteq Memory, NEW n \in 1 .. size, NEW hint \in 0 .. size,
         NEW r, r = FindClearBits(n, hint)
  PROVE  \/ r \in Map /\ r + n <= size /\ IsFree(r, n)
         \/ r = NotFound /\ \A start \in Map : IsFree(start, n) => start + n = size
<1>1. n \in Nat \ {0} /\ 0 \in 0 .. size OBVIOUS
<1>2. \A f : f \in Nat /\ f + n <= size => f \in Map BY <1>1 DEF Map
<1>3. ASSUME NEW b \in 0 .. size, NEW margin \in Int, margin <= size,
             NEW f, f = ClearSearch(n, margin)[b]
      PROVE  \/ f # NotFound /\ f \in Map /\ f + n <= size /\ IsFree(f, n)
             \/ /\ f = NotFound
                /\ \A start \in Map : IsFree(start, n) => start < b \/ start + n >= margin
  <2>1. Finds(b, f, n, margin, Clear) BY <1>1, <1>3, ClearSearchFinds
  <2>2. CASE f \in Nat /\ f + n <= size /\ \A i \in f .. f + n - 1 : i \in Clear
    <3>1. f # NotFound BY <2>2 DEF NotFound
    <3>2. IsFree(f, n) BY <1>1, <2>2, FreeRanges
    <3>3. QED BY <1>2, <2>2, <3>1, <3>2
  <2>3. CASE /\ f = NotFound
             /\ \A s \in Int : b <= s /\ s + n < margin => \E i \in s .. s + n - 1 : i \notin Clear
    <3>1. ASSUME NEW start \in Map, IsFree(start, n) PROVE start < b \/ start + n >= margin
      <4>1. start \in Int BY DEF Map
      <4>2. \A i \in start .. start + n - 1 : i \in Clear BY <1>1, <3>1, <4>1, FreeRanges
      <4>3. QED BY <1>1, <2>3, <4>1, <4>2
    <3>2. QED BY <2>3, <3>1
  <2>4. QED BY <2>1, <2>2, <2>3 DEF Finds
<1>4. PICK first :
        /\ first = ClearSearch(n, size)[hint]
        /\ \/ first # NotFound /\ first \in Map /\ first + n <= size /\ IsFree(first, n)
           \/ /\ first = NotFound
              /\ \A start \in Map : IsFree(start, n) => start < hint \/ start + n >= size
  <2>1. size \in Int /\ size <= size OBVIOUS
  <2>2. QED BY <1>3, <2>1
<1>5. CASE first # NotFound
  <2>1. r = first BY <1>1, <1>4, <1>5 DEF FindClearBits
  <2>2. QED BY <1>3, <1>4, <1>5, <2>1
<1>6. CASE first = NotFound /\ hint = 0
  <2>1. r = NotFound BY <1>1, <1>4, <1>6 DEF FindClearBits
  <2>2. ASSUME NEW start \in Map, IsFree(start, n) PROVE start + n = size
    <3>1. start < 0 \/ start + n >= size BY <1>4, <1>6, <2>2
    <3>2. start + n - 1 \in start .. start + n - 1 /\ start >= 0 BY <1>1 DEF Map
    <3>3. start + n - 1 \in Map BY <2>2, <3>2 DEF IsFree
    <3>4. QED BY <1>1, <3>1, <3>2, <3>3 DEF Map
  <2>3. QED BY <2>1, <2>2
<1>7. CASE first = NotFound /\ hint # 0
  <2>1. PICK margin \in Int : margin = RetryMargin(n, hint) /\ margin <= size
                              /\ (margin = size \/ margin = hint + n)
    BY <1>1 DEF RetryMargin, Lesser
  <2>2. r = ClearSearch(n, margin)[0] BY <1>1, <1>4, <1>7, <2>1 DEF FindClearBits
  <2>3. CASE r # NotFound BY <1>1, <1>3, <2>1, <2>2, <2>3
  <2>4. CASE r = NotFound
    <3>1. ASSUME NEW start \in Map, IsFree(start, n) PROVE start + n = size
      <4>1. start < hint \/ start + n >= size BY <1>4, <1>7, <3>1
      <4>2. start < 0 \/ start + n >= margin BY <1>1, <1>3, <2>1, <2>2, <2>4, <3>1
      <4>3. start + n - 1 \in start .. start + n - 1 /\ start >= 0 BY <1>1 DEF Map
      <4>4. start + n - 1 \in Map BY <3>1, <4>3 DEF IsFree
      <4>5. QED BY <1>1, <2>1, <4>1, <4>2, <4>3, <4>4 DEF Map
    <3>2. QED BY <2>4, <3>1
  <2>5. QED BY <2>3, <2>4
<1>8. QED BY <1>5, <1>6, <1>7

\* RtlFindSetBits returns a set run (bitmap.c 506).
LEMMA FindSetBitsIs ==
  ASSUME size \in Nat, bits \subseteq Memory, NEW n \in 1 .. size, NEW hint \in 0 .. size,
         NEW r, r = FindSetBits(n, hint), r # NotFound
  PROVE  r \in Map /\ r + n <= size /\ r .. r + n - 1 \subseteq Map \cap bits
<1>1. n \in Nat \ {0} /\ 0 \in 0 .. size OBVIOUS
<1>2. r = SetSearch(n)[hint] BY <1>1 DEF FindSetBits
<1>3. Finds(hint, r, n, size + 1, Used) BY <1>1, <1>2, SetSearchFinds
<1>4. r \in Nat /\ r + n <= size /\ \A i \in r .. r + n - 1 : i \in Used BY <1>3 DEF Finds
<1>5. QED BY <1>1, <1>4 DEF Map, Used

\* What the searches return is a run, and the tests are right.
LEMMA FoundRuns ==
  ASSUME size \in Nat, bits \subseteq Memory
  PROVE  FoundRunIsOne /\ OnlyTheLastRunIsMissed
<1>1. \A start \in Map : start \in 0 .. size BY DEF Map
<1>2. ASSUME NEW start \in Map, NEW n \in 1 .. size
      PROVE  /\ FindClearBits(n, start) # NotFound => IsFree(FindClearBits(n, start), n)
             /\ LET f == FindSetBits(n, start)
                IN  f # NotFound => f .. f + n - 1 \subseteq Map \cap bits
             /\ AreBitsClear(start, n) <=> IsFree(start, n)
             /\ AreBitsSet(start, n) <=> start .. start + n - 1 \subseteq Map \cap bits
  BY <1>1, FindClearBitsIs, FindSetBitsIs, AreBitsClearIs, AreBitsSetIs
<1>3. FoundRunIsOne BY <1>2 DEF FoundRunIsOne
<1>4. ASSUME NEW n \in 1 .. size, NEW hint \in 0 .. size, FindClearBits(n, hint) = NotFound
      PROVE  \A start \in Map : IsFree(start, n) => start + n = size
  <2>1. NotFound \notin Map BY DEF NotFound, Map
  <2>2. QED BY <1>4, <2>1, FindClearBitsIs
<1>5. OnlyTheLastRunIsMissed BY <1>4 DEF OnlyTheLastRunIsMissed
<1>6. QED BY <1>3, <1>5

-----------------------------------------------------------------------------
(* The allocation map.                                                     *)

\* What the calls keep.
MapFits == BitmapTypeOK /\ RunsAreDisjoint

\* A bitmap has a size.
LEMMA SizesAre ==
  ASSUME BitmapTypeOK
  PROVE  size \in Nat \ {0} /\ bits \subseteq Memory /\ runs \subseteq SUBSET Map
BY BitmapAssumption DEF BitmapTypeOK

\* Bits that were clear are taken: RtlFindClearBitsAndSet, or RtlSetBits after
\* RtlAreBitsClear (bitmap.c 558, 326).
LEMMA TakeFits ==
  ASSUME MapFits, NEW start \in Map, NEW n \in 1 .. size, IsFree(start, n),
         SetBits(start, n), runs' = runs \cup {start .. start + n - 1}, size' = size
  PROVE  MapFits'
<1>1. size \in Nat /\ bits \subseteq Memory /\ runs \subseteq SUBSET Map BY SizesAre DEF MapFits
<1>2. start \in Nat /\ n \in Nat BY <1>1 DEF Map
<1> DEFINE range == start .. start + n - 1
<1>3. range = RangeOf(start, n) BY <1>2, RangesAreExact
<1>4. range \subseteq Map \ bits BY DEF IsFree
<1> HIDE DEF range
<1>5. bits' = bits \cup range /\ runs' = runs \cup {range} BY <1>3 DEF SetBits, range
<1>6. Map' = Map /\ Memory' = Memory BY DEF Map, Memory, Words
<1>7. Map \subseteq Memory BY <1>1, MapIsInMemory
<1>8. UNION runs = bits \cap Map /\ \A r, s \in runs : r = s \/ r \cap s = {}
  BY DEF MapFits, RunsAreDisjoint
<1>9. UNION runs' = (UNION runs) \cup range BY <1>5
<1>10. UNION runs' = bits' \cap Map BY <1>4, <1>5, <1>8, <1>9
<1>11. \A r \in runs : r \cap range = {} BY <1>4, <1>8
<1>12. \A r, s \in runs' : r = s \/ r \cap s = {} BY <1>5, <1>8, <1>11
<1>13. BitmapTypeOK'
  <2>1. size \in BitmapSizes BY DEF MapFits, BitmapTypeOK
  <2>2. bits' \subseteq Memory BY <1>1, <1>4, <1>5, <1>7
  <2>3. runs' \subseteq SUBSET Map BY <1>1, <1>4, <1>5
  <2>4. QED BY <1>6, <2>1, <2>2, <2>3 DEF BitmapTypeOK
<1>14. RunsAreDisjoint' BY <1>6, <1>10, <1>12 DEF RunsAreDisjoint
<1>15. QED BY <1>13, <1>14 DEF MapFits

\* Bits that were set are given back: RtlFindSetBitsAndClear, or RtlClearBits after
\* RtlAreBitsSet (bitmap.c 581, 269).
LEMMA GiveFits ==
  ASSUME MapFits, NEW start \in Map, NEW n \in 1 .. size,
         ClearBits(start, n), runs' = Without(start .. start + n - 1), size' = size
  PROVE  MapFits'
<1>1. size \in Nat /\ bits \subseteq Memory /\ runs \subseteq SUBSET Map BY SizesAre DEF MapFits
<1>2. start \in Nat /\ n \in Nat BY <1>1 DEF Map
<1> DEFINE range == start .. start + n - 1
<1>3. range = RangeOf(start, n) BY <1>2, RangesAreExact
<1> HIDE DEF range
<1>4. bits' = bits \ range /\ runs' = {run \ range : run \in runs} \ {{}}
  BY <1>3 DEF ClearBits, Without, range
<1>5. Map' = Map /\ Memory' = Memory BY DEF Map, Memory, Words
<1>6. UNION runs = bits \cap Map /\ \A r, s \in runs : r = s \/ r \cap s = {}
  BY DEF MapFits, RunsAreDisjoint
<1>7. UNION runs' = (UNION runs) \ range
  <2>1. ASSUME NEW b \in UNION runs' PROVE b \in (UNION runs) \ range BY <1>4
  <2>2. ASSUME NEW b \in (UNION runs) \ range PROVE b \in UNION runs'
    <3>1. PICK run \in runs : b \in run BY <2>2
    <3>2. b \in run \ range /\ run \ range \in runs' BY <1>4, <2>2, <3>1
    <3>3. QED BY <3>2
  <2>3. QED BY <2>1, <2>2
<1>8. UNION runs' = bits' \cap Map BY <1>4, <1>6, <1>7
<1>9. ASSUME NEW r \in runs', NEW s \in runs' PROVE r = s \/ r \cap s = {}
  <2>1. PICK p \in runs, q \in runs : r = p \ range /\ s = q \ range BY <1>4, <1>9
  <2>2. p = q \/ p \cap q = {} BY <1>6
  <2>3. QED BY <2>1, <2>2
<1>10. BitmapTypeOK'
  <2>1. size \in BitmapSizes BY DEF MapFits, BitmapTypeOK
  <2>2. bits' \subseteq Memory BY <1>1, <1>4
  <2>3. runs' \subseteq SUBSET Map BY <1>1, <1>4
  <2>4. QED BY <1>5, <2>1, <2>2, <2>3 DEF BitmapTypeOK
<1>11. RunsAreDisjoint' BY <1>5, <1>8, <1>9 DEF RunsAreDisjoint
<1>12. QED BY <1>10, <1>11 DEF MapFits

\* The whole map is taken or given back, by the words of the buffer (bitmap.c 221,
\* 231).
LEMMA AllFits ==
  ASSUME MapFits, SetAllBits \/ ClearAllBits
  PROVE  MapFits'
<1>1. size \in Nat /\ bits \subseteq Memory BY SizesAre DEF MapFits
<1>2. Map \subseteq Buffer /\ Buffer \subseteq Memory BY <1>1, MapIsInMemory
<1>3. size' = size BY DEF SetAllBits, ClearAllBits
<1>4. Map' = Map /\ Memory' = Memory BY <1>3 DEF Map, Memory, Words
<1>5. size \in BitmapSizes BY DEF MapFits, BitmapTypeOK
<1>6. CASE SetAllBits
  <2>1. bits' = bits \cup Buffer /\ runs' = {Map} BY <1>6 DEF SetAllBits
  <2>2. UNION runs' = bits' \cap Map BY <1>2, <2>1
  <2>3. QED BY <1>1, <1>2, <1>3, <1>4, <1>5, <2>1, <2>2 DEF MapFits, BitmapTypeOK, RunsAreDisjoint
<1>7. CASE ClearAllBits
  <2>1. bits' = bits \ Buffer /\ runs' = {} BY <1>7 DEF ClearAllBits
  <2>2. UNION runs' = bits' \cap Map BY <1>2, <2>1
  <2>3. QED BY <1>1, <1>3, <1>4, <1>5, <2>1, <2>2 DEF MapFits, BitmapTypeOK, RunsAreDisjoint
<1>8. QED BY <1>6, <1>7

\* Every call keeps the map so.
LEMMA MapStep ==
  ASSUME MapFits, [BitmapNext]_bitmapVars
  PROVE  MapFits'
<1>1. size \in Nat \ {0} /\ bits \subseteq Memory BY SizesAre DEF MapFits
<1>2. \A i \in 0 .. size - 1 : i \in Map /\ i \in 0 .. size BY <1>1 DEF Map
<1>3. NotFound \notin Map BY DEF NotFound, Map
<1>4. CASE UNCHANGED bitmapVars
  BY <1>4 DEF bitmapVars, MapFits, BitmapTypeOK, RunsAreDisjoint, Map, Memory, Words
<1>5. ASSUME NEW n \in 1 .. size, NEW hint \in 0 .. size - 1, FindClearBitsAndSet(n, hint)
      PROVE  MapFits'
  <2>1. PICK found : /\ found = FindClearBits(n, hint) /\ found # NotFound
                     /\ SetBits(found, n) /\ runs' = runs \cup {found .. found + n - 1}
                     /\ size' = size
    BY <1>5 DEF FindClearBitsAndSet
  <2>2. found \in Map /\ IsFree(found, n) BY <1>1, <1>2, <2>1, FindClearBitsIs
  <2>3. QED BY <2>1, <2>2, TakeFits
<1>6. ASSUME NEW n \in 1 .. size, NEW hint \in 0 .. size - 1, FindSetBitsAndClear(n, hint)
      PROVE  MapFits'
  <2>1. PICK found : /\ found = FindSetBits(n, hint) /\ found # NotFound
                     /\ ClearBits(found, n) /\ runs' = Without(found .. found + n - 1)
                     /\ size' = size
    BY <1>6 DEF FindSetBitsAndClear
  <2>2. found \in Map BY <1>1, <1>2, <2>1, FindSetBitsIs
  <2>3. QED BY <2>1, <2>2, GiveFits
<1>7. ASSUME NEW start \in Map, NEW n \in 1 .. size - start,
             TakeRange(start, n) \/ GiveRange(start, n)
      PROVE  MapFits'
  <2>1. n \in 1 .. size BY <1>1 DEF Map
  <2>2. CASE TakeRange(start, n)
    <3>1. IsFree(start, n) BY <1>1, <2>1, <2>2, AreBitsClearIs DEF TakeRange
    <3>2. QED BY <2>1, <2>2, <3>1, TakeFits DEF TakeRange
  <2>3. CASE GiveRange(start, n) BY <2>1, <2>3, GiveFits DEF GiveRange
  <2>4. QED BY <1>7, <2>2, <2>3
<1>8. QED BY <1>4, <1>5, <1>6, <1>7, AllFits DEF BitmapNext

\* Nothing of a new bitmap is taken, whatever is behind it (bitmap.c 206).
LEMMA MapStarts == BitmapInit => MapFits
<1>1. SUFFICES ASSUME BitmapInit PROVE MapFits OBVIOUS
<1>2. size \in BitmapSizes /\ size \in Nat BY <1>1, BitmapAssumption DEF BitmapInit
<1>3. Map \subseteq Buffer BY <1>2, MapIsInMemory
<1>4. bits \subseteq Memory /\ bits \cap Map = {} /\ runs = {} BY <1>1, <1>3 DEF BitmapInit
<1>5. QED BY <1>2, <1>4 DEF MapFits, BitmapTypeOK, RunsAreDisjoint

\* No bit is handed out twice and the bitmap knows which ones are taken, and ranges
\* are set and cleared without their neighbours, for words and bitmaps of any size
\* (RtlFindClearBitsAndSet, RtlFindSetBitsAndClear, RtlSetBits, RtlClearBits).
THEOREM BitmapIsExactAlways == BitmapSpec => []BitmapIsExact
<1>1. BitmapInit => MapFits BY MapStarts
<1>2. MapFits /\ [BitmapNext]_bitmapVars => MapFits' BY MapStep
<1>3. MapFits => BitmapIsExact
  <2>1. SUFFICES ASSUME MapFits PROVE BitmapIsExact OBVIOUS
  <2>2. size \in Nat BY <2>1, SizesAre DEF MapFits
  <2>3. ASSUME NEW start \in Map, NEW n \in 1 .. size - start
        PROVE  RangeOf(start, n) = start .. start + n - 1
    <3>1. start \in Nat /\ n \in Nat BY <2>2 DEF Map
    <3>2. QED BY <3>1, RangesAreExact
  <2>4. MasksAreExact BY <2>3 DEF MasksAreExact
  <2>5. QED BY <2>1, <2>4 DEF MapFits, BitmapIsExact
<1>4. QED BY <1>1, <1>2, <1>3, PTL DEF BitmapSpec

-----------------------------------------------------------------------------
(* The longest run.                                                        *)

\* RtlFindNextForwardRunClear: the next clear run, whole if the search does not begin
\* in it; a free range that begins in the run ends in it (bitmap.c 604).
LEMMA NextRunIs ==
  ASSUME size \in Nat \ {0}, bits \subseteq Memory, NEW from \in 0 .. size,
         NEW run, run = NextForwardRunClear(from)
  PROVE  /\ run = [start |-> run.start, length |-> run.length]
         /\ run.start \in Nat /\ run.length \in Nat
         /\ from <= run.start /\ run.start + run.length <= size
         /\ run.length > 0 => IsClearRun(run)
         /\ \A i \in from .. size - 1 : i \in Clear => run.length > 0 /\ run.start <= i
         /\ \A i \in Int, n \in Nat \ {0} :
              from <= i /\ i < run.start + run.length /\ IsFree(i, n)
                => run.start <= i /\ i + n <= run.start + run.length
<1> DEFINE free == [b \in 0 .. size |-> b + RunSet(b, size)]
           length == [b \in 0 .. size |-> RunClear(b + RunSet(b, size), size)]
<1>1. PICK s, l : /\ s = free[from] /\ l = length[from]
                  /\ run = [start |-> s, length |-> l]
  BY DEF NextForwardRunClear
<1>2. Skips(Clear, size, free, length) BY ClearSkips
<1>3. /\ s \in Nat /\ l \in Nat /\ from <= s /\ s + l <= size
      /\ \A i \in from .. s - 1 : i \notin Clear
      /\ \A i \in s .. s + l - 1 : i \in Clear
      /\ l < size => s + l \notin Clear
      /\ l = 0 => s = size
  <2> HIDE DEF free, length
  <2>1. QED BY <1>1, <1>2 DEF Skips
<1> HIDE DEF free, length
<1>4. s + l \notin Clear
  <2>1. l = size => ~(s + l < size) BY <1>3
  <2>2. QED BY <1>3, <2>1, ClearOrUsed
<1>5. run.start = s /\ run.length = l BY <1>1
<1>6. l > 0 => IsClearRun(run)
  <2>1. IsFree(s, l) BY <1>3, FreeRanges
  <2>2. QED BY <1>4, <1>5, <2>1 DEF IsClearRun, Clear
<1>7. \A i \in from .. size - 1 : i \in Clear => l > 0 /\ s <= i BY <1>3
<1>8. ASSUME NEW i \in Int, NEW n \in Nat \ {0}, from <= i, i < s + l, IsFree(i, n)
      PROVE  s <= i /\ i + n <= s + l
  <2>1. \A j \in i .. i + n - 1 : j \in Clear BY <1>8, FreeRanges
  <2>2. i \in i .. i + n - 1 /\ i \in from .. size - 1 BY <1>3, <1>8
  <2>3. s <= i BY <1>7, <2>1, <2>2
  <2>4. ~(s + l \in i .. i + n - 1) BY <1>4, <2>1
  <2>5. QED BY <1>3, <1>8, <2>3, <2>4
<1>9. QED BY <1>1, <1>3, <1>5, <1>6, <1>7, <1>8

\* A run as the searches return it.
Runs == [start : Nat, length : Nat]

\* The better of two runs, as RtlFindLongestRunClear has it (bitmap.c 752).
Longer(run, later) == IF run.length = 0 \/ run.length >= later.length THEN run ELSE later

\* Its loop ends: runs that have a length lead on (bitmap.c 740).
LEMMA LongestFromEnds ==
  ASSUME size \in Nat \ {0}, bits \subseteq Memory
  PROVE  \A from \in 0 .. size :
           LET run == NextForwardRunClear(from)
           IN  LongestFrom[from] = Longer(run, LongestFrom[from + run.length])
<1> DEFINE S == 0 .. size
           At(f) == [from \in S |-> Longer(NextForwardRunClear(from),
                                           f[from + NextForwardRunClear(from).length])]
           D == [b \in S |-> size - b]
           Stop == {b \in S : NextForwardRunClear(b).length = 0}
           val == [b \in S |-> NextForwardRunClear(b)]
           next == [b \in S |-> b + NextForwardRunClear(b).length]
           step == [p \in S \X Runs |-> Longer(val[p[1]], p[2])]
<1>1. LongestFrom = CHOOSE f : f = At(f) BY DEF LongestFrom, Longer
<1>2. ASSUME NEW b \in S, NEW run, run = NextForwardRunClear(b)
      PROVE  /\ run \in Runs /\ b + run.length \in S
             /\ b \notin Stop => D[b + run.length] < D[b]
  <2>1. /\ run = [start |-> run.start, length |-> run.length]
        /\ run.start \in Nat /\ run.length \in Nat
        /\ b <= run.start /\ run.start + run.length <= size
    <3> HIDE DEF Stop
    <3>1. QED BY <1>2, NextRunIs
  <2>2. run \in Runs /\ b + run.length \in S BY <2>1 DEF Runs
  <2>3. b \notin Stop => run.length > 0 BY <1>2, <2>1
  <2>4. b + run.length > b => D[b + run.length] < D[b] BY <2>2
  <2>5. QED BY <2>1, <2>2, <2>3, <2>4
<1>3. \A x \in S : val[x] \in Runs BY <1>2
<1>4. PICK f \in [S -> Runs] : Gives(f, S, Stop, val, step, next)
  <2>1. D \in [S -> 0 .. size] OBVIOUS
  <2>2. \A x \in S : x \notin Stop => next[x] \in S /\ D[next[x]] < D[x] BY <1>2
  <2>3. \A x \in S : \A v \in Runs : step[<<x, v>>] = val[x] \/ step[<<x, v>>] = v
    <3> HIDE DEF val
    <3>1. QED BY DEF Longer
  <2>4. \A x \in S : x \in Stop => val[x] \in Runs BY <1>3
  <2> HIDE DEF S, D, Stop, val, step, next
  <2>5. \A x \in S : x \notin Stop => \A v \in Runs : step[<<x, v>>] \in Runs BY <1>3, <2>3
  <2>6. QED BY <2>1, <2>2, <2>4, <2>5, LoopEnds
<1>5. f = At(f)
  <2>1. ASSUME NEW b \in S
        PROVE  f[b] = Longer(NextForwardRunClear(b), f[b + NextForwardRunClear(b).length])
    <3>1. PICK run : run = NextForwardRunClear(b) OBVIOUS
    <3>2. val[b] = run /\ next[b] = b + run.length /\ next[b] \in S /\ run \in Runs BY <1>2, <3>1
    <3>3. f[b] = IF b \in Stop THEN val[b] ELSE step[<<b, f[next[b]]>>] BY <1>4 DEF Gives
    <3>4. CASE b \in Stop
      <4>1. run.length = 0 BY <3>1, <3>4
      <4>2. QED BY <3>1, <3>2, <3>3, <3>4, <4>1 DEF Longer
    <3>5. CASE b \notin Stop
      <4>1. f[next[b]] \in Runs BY <1>4, <3>2
      <4>2. step[<<b, f[next[b]]>>] = Longer(val[b], f[next[b]])
        <5> HIDE DEF val, next
        <5>1. QED BY <4>1
      <4>3. QED BY <3>1, <3>2, <3>3, <3>5, <4>2
    <3>6. QED BY <3>4, <3>5
  <2>2. QED BY <2>1
<1>6. LongestFrom = At(LongestFrom)
  <2> HIDE DEF At
  <2>1. QED BY <1>1, <1>5
<1>7. QED BY <1>6

\* RtlFindLongestRunClear: no clear run from a position on is longer than the one
\* found, though parts of runs are met again (bitmap.c 740).
LEMMA LongestIs ==
  ASSUME size \in Nat \ {0}, bits \subseteq Memory
  PROVE  LongestRunIsLongest
<1> DEFINE IsLongest(from, r) ==
             /\ r \in Runs
             /\ r.length > 0 => IsClearRun(r)
             /\ \A i \in Int, n \in Nat \ {0} : from <= i /\ IsFree(i, n) => n <= r.length
           Good == {from \in 0 .. size : IsLongest(from, LongestFrom[from])}
<1>1. ASSUME NEW from \in 0 .. size, \A c \in 0 .. size : c > from => c \in Good
      PROVE  from \in Good
  <2>1. PICK run :
         /\ run = NextForwardRunClear(from)
         /\ run = [start |-> run.start, length |-> run.length]
         /\ run.start \in Nat /\ run.length \in Nat
         /\ from <= run.start /\ run.start + run.length <= size
         /\ run.length > 0 => IsClearRun(run)
         /\ \A i \in from .. size - 1 : i \in Clear => run.length > 0 /\ run.start <= i
         /\ \A i \in Int, n \in Nat \ {0} :
              from <= i /\ i < run.start + run.length /\ IsFree(i, n)
                => run.start <= i /\ i + n <= run.start + run.length
    BY NextRunIs
  <2>2. run \in Runs BY <2>1 DEF Runs
  <2>3. PICK later : later = LongestFrom[from + run.length]
                     /\ LongestFrom[from] = Longer(run, later)
    BY <2>1, LongestFromEnds
  <2>4. CASE run.length = 0
    <3>1. LongestFrom[from] = run BY <2>3, <2>4 DEF Longer
    <3>2. ASSUME NEW i \in Int, NEW n \in Nat \ {0}, from <= i, IsFree(i, n) PROVE FALSE
      <4>1. i \in i .. i + n - 1 BY <3>2
      <4>2. i \in Clear BY <3>2, <4>1, FreeRanges
      <4>3. i \in from .. size - 1 BY <3>2, <4>2, ClearOrUsed
      <4>4. QED BY <2>1, <2>4, <4>2, <4>3
    <3>3. IsLongest(from, run) BY <2>2, <2>4, <3>2
    <3>4. QED BY <3>1, <3>3
  <2>5. CASE run.length > 0
    <3>1. from + run.length \in 0 .. size /\ from + run.length > from BY <2>1, <2>5
    <3>2. IsLongest(from + run.length, later) BY <1>1, <2>3, <3>1
    <3>3. later.length \in Nat
      <4>1. later \in Runs BY <3>2
      <4>2. QED BY <4>1 DEF Runs
    <3>4. ASSUME NEW i \in Int, NEW n \in Nat \ {0}, from <= i, IsFree(i, n)
          PROVE  n <= run.length \/ n <= later.length
      <4>1. CASE i < run.start + run.length
        <5>1. run.start <= i /\ i + n <= run.start + run.length BY <2>1, <3>4, <4>1
        <5>2. QED BY <2>1, <5>1
      <4>2. CASE run.start + run.length <= i
        <5>1. from + run.length <= i BY <2>1, <4>2
        <5>2. QED BY <3>2, <3>4, <5>1
      <4>3. QED BY <2>1, <4>1, <4>2
    <3>5. CASE run.length >= later.length
      <4>1. LongestFrom[from] = run BY <2>3, <3>5 DEF Longer
      <4>2. \A n \in Nat : n <= later.length => n <= run.length BY <2>1, <3>3, <3>5
      <4>3. IsLongest(from, run) BY <2>1, <2>2, <3>4, <4>2
      <4>4. QED BY <4>1, <4>3
    <3>6. CASE ~(run.length >= later.length)
      <4>1. LongestFrom[from] = later BY <2>3, <2>5, <3>6 DEF Longer
      <4>2. \A n \in Nat : n <= run.length => n <= later.length BY <2>1, <3>3, <3>6
      <4>3. IsLongest(from, later) BY <3>2, <3>4, <4>2
      <4>4. QED BY <4>1, <4>3
    <3>7. QED BY <3>5, <3>6
  <2>6. QED BY <2>1, <2>4, <2>5
<1>2. \A from \in 0 .. size : from \in Good
  <2> HIDE DEF Good
  <2>1. QED BY <1>1, Downwards
<1>3. 0 \in 0 .. size OBVIOUS
<1>4. IsLongest(0, FindLongestRunClear) BY <1>2, <1>3 DEF FindLongestRunClear
<1>5. ASSUME NEW start \in Map, NEW n \in 1 .. size, IsFree(start, n)
      PROVE  FindLongestRunClear.length >= n
  <2>1. start \in Int /\ 0 <= start /\ n \in Nat \ {0} BY DEF Map
  <2>2. n <= FindLongestRunClear.length BY <1>4, <1>5, <2>1
  <2>3. FindLongestRunClear.length \in Nat
    <3>1. FindLongestRunClear \in Runs BY <1>4
    <3>2. QED BY <3>1 DEF Runs
  <2>4. QED BY <2>1, <2>2, <2>3
<1>6. FindLongestRunClear.length > 0 => IsClearRun(FindLongestRunClear) BY <1>4
<1> HIDE DEF IsLongest, Good
<1>7. QED BY <1>5, <1>6 DEF LongestRunIsLongest

-----------------------------------------------------------------------------
(* Lists of runs.                                                          *)

\* A table lists the clear runs before a position, each once.
Lists(table, from) ==
  /\ table \in Seq(Runs) /\ from \in 0 .. size
  /\ \A k \in 1 .. Len(table) :
       IsClearRun(table[k]) /\ table[k].start + table[k].length <= from
  /\ \A j, k \in 1 .. Len(table) : j # k => table[j].start # table[k].start
  /\ \A b \in Clear : b < from =>
       \E k \in 1 .. Len(table) : table[k].start <= b /\ b < table[k].start + table[k].length

\* No bit is clear from there on.
NoneFrom(from) == \A b \in Clear : b < from

\* One round of the first loop of RtlFindClearRuns (bitmap.c 672).
Fill(old) ==
  LET run == NextForwardRunClear(old.from)
  IN  IF run.length = 0 THEN old
      ELSE [table |-> Append(old.table, run), from |-> run.start + run.length]

\* The loop of RtlFindClearRuns goes round for each entry of the array.
LEMMA FirstRunsAre ==
  ASSUME size \in Nat \ {0}, bits \subseteq Memory, NEW slots \in Nat
  PROVE  /\ FirstRuns(slots)[0] = [table |-> <<>>, from |-> 0]
         /\ \A i \in 1 .. slots : FirstRuns(slots)[i] = Fill(FirstRuns(slots)[i - 1])
<1> DEFINE S == 0 .. slots
           None == [table |-> <<>>, from |-> 0]
           V == [table : Seq(Runs), from : 0 .. size]
           At(f) == [i \in S |-> IF i = 0 THEN None ELSE Fill(f[i - 1])]
           D == [i \in S |-> i]
           Stop == {0}
           val == [i \in S |-> None]
           next == [i \in S |-> i - 1]
           step == [p \in S \X V |-> Fill(p[2])]
<1>1. FirstRuns(slots) = CHOOSE f : f = At(f) BY DEF FirstRuns, Fill
<1>2. None \in V
  <2>1. <<>> \in Seq(Runs) /\ 0 \in 0 .. size OBVIOUS
  <2>2. QED BY <2>1
<1>3. ASSUME NEW old \in V PROVE Fill(old) \in V
  <2>1. PICK run :
         /\ run = NextForwardRunClear(old.from)
         /\ run = [start |-> run.start, length |-> run.length]
         /\ run.start \in Nat /\ run.length \in Nat
         /\ old.from <= run.start /\ run.start + run.length <= size
    BY NextRunIs
  <2>2. run \in Runs /\ run.start + run.length \in 0 .. size BY <2>1 DEF Runs
  <2>3. Append(old.table, run) \in Seq(Runs) BY <2>2
  <2>4. QED BY <2>1, <2>2, <2>3 DEF Fill
<1>4. PICK f \in [S -> V] : Gives(f, S, Stop, val, step, next)
  <2>1. D \in [S -> 0 .. slots] OBVIOUS
  <2>2. \A x \in S : x \notin Stop => next[x] \in S /\ D[next[x]] < D[x] OBVIOUS
  <2>3. \A x \in S : x \in Stop => val[x] \in V
    <3> HIDE DEF None, V
    <3>1. QED BY <1>2
  <2>4. \A x \in S : \A v \in V : step[<<x, v>>] \in V
    <3>1. \A x \in S : \A v \in V : step[<<x, v>>] = Fill(v)
      <4> HIDE DEF V
      <4>1. QED OBVIOUS
    <3> HIDE DEF V, step
    <3>2. QED BY <1>3, <3>1
  <2> HIDE DEF S, D, V, Stop, val, step, next
  <2>5. QED BY <2>1, <2>2, <2>3, <2>4, LoopEnds
<1>5. f = At(f)
  <2>1. ASSUME NEW i \in S PROVE f[i] = IF i = 0 THEN None ELSE Fill(f[i - 1])
    <3>1. f[i] = IF i \in Stop THEN val[i] ELSE step[<<i, f[next[i]]>>] BY <1>4 DEF Gives
    <3>2. CASE i = 0
      <4> HIDE DEF None
      <4>1. QED BY <3>1, <3>2
    <3>3. CASE i # 0
      <4>1. next[i] = i - 1 /\ i - 1 \in S BY <3>3
      <4>2. f[i - 1] \in V
        <5> HIDE DEF V
        <5>1. QED BY <1>4, <4>1
      <4>3. step[<<i, f[i - 1]>>] = Fill(f[i - 1])
        <5> HIDE DEF V
        <5>1. QED BY <4>2
      <4> HIDE DEF step, next, V
      <4>4. QED BY <3>1, <3>3, <4>1, <4>3
    <3>4. QED BY <3>2, <3>3
  <2> HIDE DEF None
  <2>2. QED BY <1>4, <2>1
<1>6. FirstRuns(slots) = At(FirstRuns(slots))
  <2> HIDE DEF At
  <2>1. QED BY <1>1, <1>5
<1>7. ASSUME NEW g, g = At(g)
      PROVE  g[0] = None /\ \A i \in 1 .. slots : g[i] = Fill(g[i - 1])
  <2>1. 0 \in S /\ \A i \in 1 .. slots : i \in S /\ i # 0 OBVIOUS
  <2>2. \A i \in S : g[i] = IF i = 0 THEN None ELSE Fill(g[i - 1])
    <3> HIDE DEF None
    <3>1. QED BY <1>7
  <2> HIDE DEF S, None, At
  <2>3. QED BY <2>1, <2>2
<1>8. QED
  <2> HIDE DEF At
  <2>1. QED BY <1>6, <1>7

\* The next clear run is listed behind the others; if there is none, no bit is left.
LEMMA FillLists ==
  ASSUME size \in Nat \ {0}, bits \subseteq Memory, NEW old, Lists(old.table, old.from),
         NEW new, new = Fill(old)
  PROVE  /\ Lists(new.table, new.from)
         /\ \/ Len(new.table) = Len(old.table) + 1 /\ ~NoneFrom(old.from)
            \/ new = old /\ NoneFrom(old.from)
<1>1. /\ old.table \in Seq(Runs) /\ old.from \in 0 .. size
      /\ \A k \in 1 .. Len(old.table) :
           /\ IsClearRun(old.table[k])
           /\ old.table[k].start + old.table[k].length <= old.from
      /\ \A j, k \in 1 .. Len(old.table) : j # k => old.table[j].start # old.table[k].start
      /\ \A b \in Clear : b < old.from =>
           \E k \in 1 .. Len(old.table) :
             old.table[k].start <= b /\ b < old.table[k].start + old.table[k].length
  BY DEF Lists
<1>2. PICK run :
       /\ run = NextForwardRunClear(old.from)
       /\ run = [start |-> run.start, length |-> run.length]
       /\ run.start \in Nat /\ run.length \in Nat
       /\ old.from <= run.start /\ run.start + run.length <= size
       /\ run.length > 0 => IsClearRun(run)
       /\ \A i \in old.from .. size - 1 : i \in Clear => run.length > 0 /\ run.start <= i
  BY <1>1, NextRunIs
<1>3. \A b \in Clear : b \in Int /\ b < size BY DEF Clear, Map
<1>4. CASE run.length = 0
  <2>1. new = old BY <1>2, <1>4 DEF Fill
  <2>2. NoneFrom(old.from) BY <1>1, <1>2, <1>3, <1>4 DEF NoneFrom
  <2>3. QED BY <2>1, <2>2
<1>5. CASE run.length > 0
  <2>1. new = [table |-> Append(old.table, run), from |-> run.start + run.length]
    BY <1>2, <1>5 DEF Fill
  <2>2. PICK m \in Nat : m = Len(old.table) BY <1>1
  <2>3. run \in Runs BY <1>2 DEF Runs
  <2>4. PICK table \in Seq(Runs) :
          /\ table = new.table /\ Len(table) = m + 1 /\ table[m + 1] = run
          /\ \A k \in 1 .. m : table[k] = old.table[k]
    <3>1. PICK table : table = Append(old.table, run) OBVIOUS
    <3>2. table \in Seq(Runs) /\ Len(table) = m + 1 BY <1>1, <2>2, <2>3, <3>1
    <3>3. table[m + 1] = run /\ \A k \in 1 .. m : table[k] = old.table[k]
      BY <1>1, <2>2, <2>3, <3>1
    <3>4. new.table = table BY <2>1, <3>1
    <3>5. QED BY <3>2, <3>3, <3>4
  <2>5. new.from = run.start + run.length /\ new.from \in 0 .. size /\ old.from < new.from
    BY <1>1, <1>2, <1>5, <2>1
  <2>6. \A k \in 1 .. m : old.table[k].start \in Nat /\ old.table[k].length \in Nat
                          /\ old.table[k].length > 0
    <3>1. SUFFICES ASSUME NEW k \in 1 .. m
                   PROVE  /\ old.table[k].start \in Nat /\ old.table[k].length \in Nat
                          /\ old.table[k].length > 0
      OBVIOUS
    <3>2. old.table[k] \in Runs BY <1>1, <2>2
    <3>3. IsClearRun(old.table[k]) BY <1>1, <2>2
    <3>4. QED BY <3>2, <3>3 DEF Runs, IsClearRun
  <2>7. \A k \in 1 .. m + 1 : k \in 1 .. m \/ k = m + 1 OBVIOUS
  <2>8. ASSUME NEW k \in 1 .. m + 1
        PROVE  IsClearRun(table[k]) /\ table[k].start + table[k].length <= new.from
    <3>1. CASE k \in 1 .. m
      <4>1. /\ IsClearRun(old.table[k])
            /\ old.table[k].start + old.table[k].length <= old.from
        BY <1>1, <2>2, <3>1
      <4>2. table[k] = old.table[k] BY <2>4, <3>1
      <4>3. old.from \in Nat /\ new.from \in Nat /\ old.from < new.from BY <1>1, <2>5
      <4>4. old.table[k].start \in Nat /\ old.table[k].length \in Nat BY <2>6, <3>1
      <4>5. QED BY <4>1, <4>2, <4>3, <4>4
    <3>2. CASE k = m + 1 BY <1>2, <1>5, <2>4, <2>5, <3>2
    <3>3. QED BY <2>7, <3>1, <3>2
  <2>9. ASSUME NEW k \in 1 .. m PROVE table[k].start < run.start
    <3>1. old.table[k].start + old.table[k].length <= old.from BY <1>1, <2>2
    <3>2. old.table[k].start < old.from BY <1>1, <2>6, <3>1
    <3>3. table[k] = old.table[k] BY <2>4
    <3>4. old.from \in Nat /\ run.start \in Nat /\ old.from <= run.start BY <1>1, <1>2
    <3>5. old.table[k].start \in Nat BY <2>6
    <3>6. QED BY <3>2, <3>3, <3>4, <3>5
  <2>10. ASSUME NEW j \in 1 .. m + 1, NEW k \in 1 .. m + 1, j # k
         PROVE  table[j].start # table[k].start
    <3>1. CASE j \in 1 .. m /\ k \in 1 .. m BY <1>1, <2>2, <2>4, <2>10, <3>1
    <3>2. CASE j = m + 1 /\ k \in 1 .. m
      <4>1. table[k].start < run.start /\ table[j] = run BY <2>4, <2>9, <3>2
      <4>2. table[k].start \in Nat BY <2>4, <2>6, <3>2
      <4>3. QED BY <1>2, <4>1, <4>2
    <3>3. CASE k = m + 1 /\ j \in 1 .. m
      <4>1. table[j].start < run.start /\ table[k] = run BY <2>4, <2>9, <3>3
      <4>2. table[j].start \in Nat BY <2>4, <2>6, <3>3
      <4>3. QED BY <1>2, <4>1, <4>2
    <3>4. QED BY <2>7, <2>10, <3>1, <3>2, <3>3
  <2>11. ASSUME NEW b \in Clear, b < new.from
         PROVE  \E k \in 1 .. m + 1 : table[k].start <= b /\ b < table[k].start + table[k].length
    <3>1. CASE b < old.from
      <4>1. PICK k \in 1 .. m :
              old.table[k].start <= b /\ b < old.table[k].start + old.table[k].length
        BY <1>1, <2>2, <3>1
      <4>2. k \in 1 .. m + 1 /\ table[k] = old.table[k] BY <2>4
      <4>3. QED BY <4>1, <4>2
    <3>2. CASE old.from <= b
      <4>1. b \in old.from .. size - 1 BY <1>1, <1>3, <3>2
      <4>2. run.start <= b /\ b < run.start + run.length BY <1>2, <2>5, <2>11, <4>1
      <4>3. m + 1 \in 1 .. m + 1 OBVIOUS
      <4>4. QED BY <2>4, <4>2, <4>3
    <3>3. QED BY <1>1, <1>3, <3>1, <3>2
  <2>12. Lists(new.table, new.from) BY <2>4, <2>5, <2>8, <2>10, <2>11 DEF Lists
  <2>13. ~NoneFrom(old.from)
    <3>1. run.start \in Clear BY <1>2, <1>5 DEF IsClearRun, IsFree, Clear
    <3>2. QED BY <1>1, <1>2, <3>1 DEF NoneFrom
  <2>14. QED BY <2>2, <2>4, <2>12, <2>13
<1>6. QED BY <1>2, <1>4, <1>5

\* The first runs are listed, and all of them if they fit (bitmap.c 672).
LEMMA FirstRunsFit ==
  ASSUME size \in Nat \ {0}, bits \subseteq Memory, NEW slots \in Nat
  PROVE  LET full == FirstRuns(slots)[slots]
         IN  /\ Lists(full.table, full.from) /\ Len(full.table) <= slots
             /\ Len(full.table) < slots => NoneFrom(full.from)
<1> DEFINE Holds(i, t) == /\ Lists(t.table, t.from) /\ Len(t.table) <= i
                          /\ Len(t.table) < i => NoneFrom(t.from)
           Good == {i \in 0 .. slots : Holds(i, FirstRuns(slots)[i])}
<1>1. Holds(0, [table |-> <<>>, from |-> 0])
  <2>1. <<>> \in Seq(Runs) /\ Len(<<>>) = 0 /\ 0 \in 0 .. size OBVIOUS
  <2>2. \A b \in Clear : ~(b < 0) BY DEF Clear, Map
  <2>3. QED BY <2>1, <2>2 DEF Lists
<1>2. ASSUME NEW i \in 0 .. slots, \A j \in 0 .. slots : j < i => j \in Good
      PROVE  i \in Good
  <2>1. CASE i = 0
    <3>1. FirstRuns(slots)[0] = [table |-> <<>>, from |-> 0] BY FirstRunsAre
    <3> HIDE DEF Holds
    <3>2. QED BY <1>1, <2>1, <3>1
  <2>2. CASE i # 0
    <3>1. i - 1 \in 0 .. slots /\ i - 1 < i /\ i \in 1 .. slots BY <2>2
    <3>2. PICK old, new : /\ old = FirstRuns(slots)[i - 1] /\ new = FirstRuns(slots)[i]
                          /\ new = Fill(old) /\ Holds(i - 1, old)
      BY <1>2, <3>1, FirstRunsAre
    <3>3. /\ Lists(new.table, new.from)
          /\ \/ Len(new.table) = Len(old.table) + 1 /\ ~NoneFrom(old.from)
             \/ new = old /\ NoneFrom(old.from)
      BY <3>2, FillLists
    <3>4. Len(old.table) \in Nat /\ Len(new.table) \in Nat BY <3>2, <3>3 DEF Lists
    <3>5. Holds(i, new) BY <3>1, <3>2, <3>3, <3>4
    <3>6. QED BY <3>2, <3>5
  <2>3. QED BY <2>1, <2>2
<1>3. slots \in Good
  <2>1. slots \in 0 .. slots OBVIOUS
  <2> HIDE DEF Good
  <2>2. QED BY <1>2, <2>1, Upwards
<1>4. QED BY <1>3

\* The entry that RtlFindClearRuns replaces is one of the array (bitmap.c 684).
LEMMA SmallestIs ==
  ASSUME NEW table \in Seq(Runs), Len(table) > 0
  PROVE  Smallest(table) \in 1 .. Len(table)
<1>1. PICK m \in Nat \ {0} : m = Len(table) OBVIOUS
<1>2. \A k \in 1 .. m : table[k].length \in Nat
  <2>1. SUFFICES ASSUME NEW k \in 1 .. m PROVE table[k].length \in Nat OBVIOUS
  <2>2. table[k] \in Runs BY <1>1
  <2>3. QED BY <2>2 DEF Runs
<1> DEFINE Lengths == {table[k].length : k \in 1 .. m}
           S == {i \in 1 .. m : \A j \in 1 .. m : table[i].length <= table[j].length}
<1>3. Lengths \in SUBSET Nat /\ Lengths # {}
  <2>1. 1 \in 1 .. m OBVIOUS
  <2>2. QED BY <1>2, <2>1
<1>4. PICK l \in Lengths : \A x \in Lengths : l <= x
  <2> HIDE DEF Lengths
  <2>1. QED BY <1>3, LeastNumber
<1>5. PICK i \in 1 .. m : l = table[i].length BY <1>4
<1>6. i \in S BY <1>4, <1>5
<1>7. S \in SUBSET Nat OBVIOUS
<1>8. Min(S) \in S
  <2> HIDE DEF S
  <2>1. QED BY <1>6, <1>7, LeastNumber
<1>9. Smallest(table) = Min(S) BY <1>1 DEF Smallest
<1>10. QED BY <1>1, <1>8, <1>9

\* One round of the second loop of RtlFindClearRuns (bitmap.c 702).
Enlarge(full, old) ==
  LET run == NextForwardRunClear(old.from)
      smallest == Smallest(full.table)
  IN  [table |-> IF run.length > 0 /\ BetterThan(run, old.table[smallest])
                 THEN [old.table EXCEPT ![smallest] = run] ELSE old.table,
       from |-> old.from + run.length]

\* Its loop goes on until no run is left, in at most as many rounds as there are bits.
LEMMA LargerRunsAre ==
  ASSUME size \in Nat \ {0}, bits \subseteq Memory, NEW full, Lists(full.table, full.from)
  PROVE  /\ LargerRuns(full)[0] = full
         /\ \A i \in 1 .. size : LargerRuns(full)[i] = Enlarge(full, LargerRuns(full)[i - 1])
<1> DEFINE S == 0 .. size
           Tables == [1 .. Len(full.table) -> Runs]
           V == {full} \cup [table : Tables, from : 0 .. size]
           At(f) == [i \in S |-> IF i = 0 THEN full ELSE Enlarge(full, f[i - 1])]
           D == [i \in S |-> i]
           Stop == {0}
           val == [i \in S |-> full]
           next == [i \in S |-> i - 1]
           step == [p \in S \X V |-> Enlarge(full, p[2])]
<1>1. LargerRuns(full) = CHOOSE f : f = At(f) BY DEF LargerRuns, Enlarge
<1>2. full \in V OBVIOUS
<1>3. ASSUME NEW old \in V PROVE Enlarge(full, old) \in V
  <2>1. old.from \in 0 .. size /\ old.table \in Tables
    <3>1. full.from \in 0 .. size /\ full.table \in Seq(Runs) BY DEF Lists
    <3>2. full.table \in Tables BY <3>1
    <3> HIDE DEF Tables
    <3>3. QED BY <3>1, <3>2
  <2>2. PICK run :
         /\ run = NextForwardRunClear(old.from)
         /\ run = [start |-> run.start, length |-> run.length]
         /\ run.start \in Nat /\ run.length \in Nat
         /\ old.from <= run.start /\ run.start + run.length <= size
    BY <2>1, NextRunIs
  <2>3. run \in Runs /\ old.from + run.length \in 0 .. size BY <2>1, <2>2 DEF Runs
  <2>4. [old.table EXCEPT ![Smallest(full.table)] = run] \in Tables BY <2>1, <2>3
  <2>5. PICK table, from : Enlarge(full, old) = [table |-> table, from |-> from]
                           /\ table \in Tables /\ from \in 0 .. size
    <3> HIDE DEF Tables
    <3>1. QED BY <2>1, <2>2, <2>3, <2>4 DEF Enlarge
  <2> HIDE DEF Tables
  <2>6. QED BY <2>5
<1>4. PICK f \in [S -> V] : Gives(f, S, Stop, val, step, next)
  <2>1. D \in [S -> 0 .. size] OBVIOUS
  <2>2. \A x \in S : x \notin Stop => next[x] \in S /\ D[next[x]] < D[x] OBVIOUS
  <2>3. \A x \in S : x \in Stop => val[x] \in V
    <3> HIDE DEF V
    <3>1. QED BY <1>2
  <2>4. \A x \in S : \A v \in V : step[<<x, v>>] \in V
    <3>1. \A x \in S : \A v \in V : step[<<x, v>>] = Enlarge(full, v)
      <4> HIDE DEF V
      <4>1. QED OBVIOUS
    <3> HIDE DEF V, step
    <3>2. QED BY <1>3, <3>1
  <2> HIDE DEF S, D, V, Stop, val, step, next
  <2>5. QED BY <2>1, <2>2, <2>3, <2>4, LoopEnds
<1>5. f = At(f)
  <2>1. ASSUME NEW i \in S PROVE f[i] = IF i = 0 THEN full ELSE Enlarge(full, f[i - 1])
    <3>1. f[i] = IF i \in Stop THEN val[i] ELSE step[<<i, f[next[i]]>>] BY <1>4 DEF Gives
    <3>2. CASE i = 0 BY <3>1, <3>2
    <3>3. CASE i # 0
      <4>1. next[i] = i - 1 /\ i - 1 \in S BY <3>3
      <4>2. f[i - 1] \in V
        <5> HIDE DEF V
        <5>1. QED BY <1>4, <4>1
      <4>3. step[<<i, f[i - 1]>>] = Enlarge(full, f[i - 1])
        <5> HIDE DEF V
        <5>1. QED BY <4>2
      <4> HIDE DEF step, next, V
      <4>4. QED BY <3>1, <3>3, <4>1, <4>3
    <3>4. QED BY <3>2, <3>3
  <2>2. QED BY <1>4, <2>1
<1>6. LargerRuns(full) = At(LargerRuns(full))
  <2> HIDE DEF At
  <2>1. QED BY <1>1, <1>5
<1>7. ASSUME NEW g, g = At(g)
      PROVE  g[0] = full /\ \A i \in 1 .. size : g[i] = Enlarge(full, g[i - 1])
  <2>1. 0 \in S /\ \A i \in 1 .. size : i \in S /\ i # 0 OBVIOUS
  <2>2. \A i \in S : g[i] = IF i = 0 THEN full ELSE Enlarge(full, g[i - 1]) BY <1>7
  <2> HIDE DEF S, At
  <2>3. QED BY <2>1, <2>2
<1>8. QED
  <2> HIDE DEF At
  <2>1. QED BY <1>6, <1>7

\* A free range that begins in a clear run ends in it.
LEMMA FreeInRun ==
  ASSUME size \in Nat, NEW run \in Runs, IsClearRun(run), NEW b \in Int, NEW n \in Nat \ {0},
         IsFree(b, n), run.start <= b, b < run.start + run.length
  PROVE  n <= run.length
<1>1. run.start \in Nat /\ run.length \in Nat BY DEF Runs
<1>2. run.start + run.length \notin Clear BY DEF IsClearRun, Clear
<1>3. \A i \in b .. b + n - 1 : i \in Clear BY FreeRanges
<1>4. ~(run.start + run.length \in b .. b + n - 1) BY <1>2, <1>3
<1>5. QED BY <1>1, <1>4

\* The table while larger runs are looked for: the entry that was the smallest is a
\* run behind the listed ones, or what it was; no free range before the position is
\* longer than all entries.
Enlarged(full, t) ==
  LET m == Len(full.table)
      smallest == Smallest(full.table)
  IN  /\ t.table \in [1 .. m -> Runs] /\ t.from \in full.from .. size
      /\ \A j \in 1 .. m : j # smallest => t.table[j] = full.table[j]
      /\ IsClearRun(t.table[smallest])
      /\ t.table[smallest] = full.table[smallest] \/ full.from <= t.table[smallest].start
      /\ \A b \in Int, n \in Nat \ {0} : b < t.from /\ IsFree(b, n)
           => \E j \in 1 .. m : n <= t.table[j].length

\* The table of the first loop is such a one.
LEMMA FullIsEnlarged ==
  ASSUME size \in Nat, NEW full, Lists(full.table, full.from), Len(full.table) > 0
  PROVE  Enlarged(full, full)
<1>1. /\ full.table \in Seq(Runs) /\ full.from \in 0 .. size
      /\ \A k \in 1 .. Len(full.table) : IsClearRun(full.table[k])
      /\ \A b \in Clear : b < full.from =>
           \E k \in 1 .. Len(full.table) :
             full.table[k].start <= b /\ b < full.table[k].start + full.table[k].length
  BY DEF Lists
<1>2. Smallest(full.table) \in 1 .. Len(full.table) BY <1>1, SmallestIs
<1>3. PICK m \in Nat : m = Len(full.table) BY <1>1
<1>4. full.table \in [1 .. m -> Runs] BY <1>1, <1>3
<1>5. ASSUME NEW b \in Int, NEW n \in Nat \ {0}, b < full.from, IsFree(b, n)
      PROVE  \E j \in 1 .. m : n <= full.table[j].length
  <2>1. b \in b .. b + n - 1 OBVIOUS
  <2>2. b \in Clear BY <1>5, <2>1, FreeRanges
  <2>3. PICK k \in 1 .. m :
          full.table[k].start <= b /\ b < full.table[k].start + full.table[k].length
    BY <1>1, <1>3, <1>5, <2>2
  <2>4. full.table[k] \in Runs /\ IsClearRun(full.table[k]) BY <1>1, <1>3, <1>4
  <2>5. n <= full.table[k].length BY <1>5, <2>3, <2>4, FreeInRun
  <2>6. QED BY <2>5
<1>6. full.from \in full.from .. size BY <1>1
<1>7. QED BY <1>1, <1>2, <1>3, <1>4, <1>5, <1>6 DEF Enlarged

\* A round of the second loop keeps it so, and goes on while runs are left (bitmap.c
\* 702), though it may meet a part of a run again.
LEMMA EnlargeKeeps ==
  ASSUME size \in Nat \ {0}, bits \subseteq Memory, NEW full, Lists(full.table, full.from),
         Len(full.table) > 0, NEW old, Enlarged(full, old), NEW new, new = Enlarge(full, old)
  PROVE  Enlarged(full, new) /\ (NoneFrom(old.from) \/ new.from > old.from)
                             /\ (NoneFrom(old.from) => NoneFrom(new.from))
<1>1. PICK m \in Nat, smallest \in Nat :
        m = Len(full.table) /\ smallest = Smallest(full.table) /\ smallest \in 1 .. m
  <2>1. full.table \in Seq(Runs) BY DEF Lists
  <2>2. QED BY <2>1, SmallestIs
<1>2. /\ old.table \in [1 .. m -> Runs] /\ old.from \in full.from .. size
      /\ \A j \in 1 .. m : j # smallest => old.table[j] = full.table[j]
      /\ IsClearRun(old.table[smallest])
      /\ old.table[smallest] = full.table[smallest] \/ full.from <= old.table[smallest].start
      /\ \A b \in Int, n \in Nat \ {0} : b < old.from /\ IsFree(b, n)
           => \E j \in 1 .. m : n <= old.table[j].length
  BY <1>1 DEF Enlarged
<1>3. full.from \in 0 .. size /\ old.from \in 0 .. size
  <2>1. full.from \in 0 .. size BY DEF Lists
  <2>2. QED BY <1>2, <2>1
<1>4. PICK run :
       /\ run = NextForwardRunClear(old.from)
       /\ run = [start |-> run.start, length |-> run.length]
       /\ run.start \in Nat /\ run.length \in Nat
       /\ old.from <= run.start /\ run.start + run.length <= size
       /\ run.length > 0 => IsClearRun(run)
       /\ \A i \in old.from .. size - 1 : i \in Clear => run.length > 0 /\ run.start <= i
       /\ \A i \in Int, n \in Nat \ {0} :
            old.from <= i /\ i < run.start + run.length /\ IsFree(i, n)
              => run.start <= i /\ i + n <= run.start + run.length
  BY <1>3, NextRunIs
<1>5. run \in Runs BY <1>4 DEF Runs
<1>6. old.table[smallest] \in Runs /\ old.table[smallest].length \in Nat
  <2>1. old.table[smallest] \in Runs BY <1>1, <1>2
  <2>2. QED BY <2>1 DEF Runs
<1>7. PICK table : table = IF run.length > 0 /\ run.length > old.table[smallest].length
                           THEN [old.table EXCEPT ![smallest] = run] ELSE old.table
  OBVIOUS
<1>8. new = [table |-> table, from |-> old.from + run.length]
  BY <1>1, <1>4, <1>7 DEF Enlarge, BetterThan
<1>9. table \in [1 .. m -> Runs] BY <1>2, <1>5, <1>7
<1>10. \A j \in 1 .. m : j # smallest => table[j] = old.table[j] BY <1>2, <1>7
<1>11. \/ table[smallest] = old.table[smallest] /\ run.length <= old.table[smallest].length
       \/ table[smallest] = run /\ run.length > 0 /\ run.length > old.table[smallest].length
  <2>1. PICK l \in Nat : l = old.table[smallest].length BY <1>6
  <2>2. PICK k \in Nat : k = run.length BY <1>4
  <2>3. CASE k > 0 /\ k > l
    <3>1. table = [old.table EXCEPT ![smallest] = run] BY <1>7, <2>1, <2>2, <2>3
    <3>2. table[smallest] = run BY <1>1, <1>2, <3>1
    <3>3. QED BY <2>1, <2>2, <2>3, <3>2
  <2>4. CASE ~(k > 0 /\ k > l)
    <3>1. table = old.table BY <1>7, <2>1, <2>2, <2>4
    <3>2. k <= l BY <2>4
    <3>3. QED BY <2>1, <2>2, <3>1, <3>2
  <2>5. QED BY <2>3, <2>4
<1>12. IsClearRun(table[smallest]) BY <1>2, <1>4, <1>11
<1>13. table[smallest] = full.table[smallest] \/ full.from <= table[smallest].start
  <2>1. full.from <= run.start BY <1>2, <1>3, <1>4
  <2>2. QED BY <1>2, <1>11, <2>1
<1>14. \A j \in 1 .. m, n \in Nat : n <= old.table[j].length => n <= table[j].length
  <2>1. SUFFICES ASSUME NEW j \in 1 .. m, NEW n \in Nat, n <= old.table[j].length
                 PROVE  n <= table[j].length
    OBVIOUS
  <2>2. CASE j = smallest BY <1>4, <1>6, <1>11, <2>1, <2>2
  <2>3. CASE j # smallest BY <1>10, <2>1, <2>3
  <2>4. QED BY <2>2, <2>3
<1>15. \A n \in Nat : n <= run.length => n <= table[smallest].length
  BY <1>4, <1>6, <1>11
<1>16. ASSUME NEW b \in Int, NEW n \in Nat \ {0}, b < old.from + run.length, IsFree(b, n)
       PROVE  \E j \in 1 .. m : n <= table[j].length
  <2>1. CASE b < old.from
    <3>1. PICK j \in 1 .. m : n <= old.table[j].length BY <1>2, <1>16, <2>1
    <3>2. n <= table[j].length BY <1>14, <3>1
    <3>3. QED BY <3>2
  <2>2. CASE old.from <= b
    <3>1. b < run.start + run.length BY <1>3, <1>4, <1>16
    <3>2. run.start <= b /\ b + n <= run.start + run.length BY <1>4, <1>16, <2>2, <3>1
    <3>3. n <= run.length BY <1>4, <3>2
    <3>4. QED BY <1>1, <1>15, <3>3
  <2>3. QED BY <1>3, <2>1, <2>2
<1>17. old.from + run.length \in full.from .. size BY <1>2, <1>3, <1>4
<1>18. Enlarged(full, new)
  <2>1. new.table = table /\ new.from = old.from + run.length BY <1>8
  <2>2. \A j \in 1 .. m : j # smallest => table[j] = full.table[j] BY <1>2, <1>10
  <2>3. QED BY <1>1, <1>9, <1>12, <1>13, <1>16, <1>17, <2>1, <2>2 DEF Enlarged
<1>19. NoneFrom(old.from) \/ new.from > old.from
  <2>1. CASE run.length > 0 BY <1>3, <1>4, <1>8, <2>1
  <2>2. CASE run.length = 0
    <3>1. \A i \in Clear : i \in Int /\ i < size BY DEF Clear, Map
    <3>2. NoneFrom(old.from) BY <1>3, <1>4, <2>2, <3>1 DEF NoneFrom
    <3>3. QED BY <3>2
  <2>3. QED BY <1>4, <2>1, <2>2
<1>20. NoneFrom(old.from) => NoneFrom(new.from)
  <2>1. \A i \in Clear : i \in Int BY DEF Clear, Map
  <2>2. QED BY <1>3, <1>4, <1>8, <2>1 DEF NoneFrom
<1>21. QED BY <1>18, <1>19, <1>20

\* After the second loop no free range is longer than all entries.
LEMMA LargerRunsFit ==
  ASSUME size \in Nat \ {0}, bits \subseteq Memory, NEW full, Lists(full.table, full.from),
         Len(full.table) > 0
  PROVE  /\ Enlarged(full, LargerRuns(full)[size])
         /\ NoneFrom(LargerRuns(full)[size].from)
<1> DEFINE Holds(i, t) == Enlarged(full, t) /\ (i <= t.from \/ NoneFrom(t.from))
           Good == {i \in 0 .. size : Holds(i, LargerRuns(full)[i])}
<1>1. full.from \in 0 .. size BY DEF Lists
<1>2. ASSUME NEW i \in 0 .. size, \A j \in 0 .. size : j < i => j \in Good
      PROVE  i \in Good
  <2>1. CASE i = 0
    <3>1. LargerRuns(full)[0] = full BY LargerRunsAre
    <3>2. Enlarged(full, full) BY FullIsEnlarged
    <3>3. QED BY <1>1, <2>1, <3>1, <3>2
  <2>2. CASE i # 0
    <3>1. i - 1 \in 0 .. size /\ i - 1 < i /\ i \in 1 .. size BY <2>2
    <3>2. PICK old, new : /\ old = LargerRuns(full)[i - 1] /\ new = LargerRuns(full)[i]
                          /\ new = Enlarge(full, old) /\ Holds(i - 1, old)
      BY <1>2, <3>1, LargerRunsAre
    <3>3. /\ Enlarged(full, new) /\ (NoneFrom(old.from) \/ new.from > old.from)
          /\ NoneFrom(old.from) => NoneFrom(new.from)
      BY <3>2, EnlargeKeeps
    <3>4. old.from \in Int /\ new.from \in Int BY <1>1, <3>2, <3>3 DEF Enlarged
    <3>5. Holds(i, new) BY <3>1, <3>2, <3>3, <3>4
    <3>6. QED BY <3>2, <3>5
  <2>3. QED BY <2>1, <2>2
<1>3. size \in Good
  <2>1. size \in 0 .. size OBVIOUS
  <2> HIDE DEF Good
  <2>2. QED BY <1>2, <2>1, Upwards
<1>4. PICK t : t = LargerRuns(full)[size] /\ Holds(size, t) BY <1>3
<1>5. NoneFrom(t.from)
  <2>1. \A b \in Clear : b \in Int /\ b < size BY DEF Clear, Map
  <2>2. t.from \in Int BY <1>1, <1>4 DEF Enlarged
  <2>3. QED BY <1>4, <2>1, <2>2 DEF NoneFrom
<1>6. QED BY <1>4, <1>5

\* The table is what ClearRunsAreListed asks for.
ListsRuns(slots, longest, table) ==
  /\ \A i \in 1 .. Len(table) : IsClearRun(table[i])
  /\ \A i, j \in 1 .. Len(table) : i = j \/ table[i].start # table[j].start
  /\ Len(table) < slots => \A b \in Map \ bits : \E i \in 1 .. Len(table) :
       b \in table[i].start .. table[i].start + table[i].length - 1
  /\ longest => \A start \in Map, n \in 1 .. size :
       IsFree(start, n) => \E i \in 1 .. Len(table) : table[i].length >= n

\* What RtlFindClearRuns lists, for arrays of any size (bitmap.c 660).
LEMMA ListedRuns ==
  ASSUME size \in Nat \ {0}, bits \subseteq Memory, NEW slots \in Nat \ {0},
         NEW longest \in BOOLEAN, NEW table, table = FindClearRuns(slots, longest)
  PROVE  ListsRuns(slots, longest, table)
<1>1. PICK full : /\ full = FirstRuns(slots)[slots]
                  /\ Lists(full.table, full.from) /\ Len(full.table) <= slots
                  /\ Len(full.table) < slots => NoneFrom(full.from)
  BY FirstRunsFit
<1>2. /\ full.table \in Seq(Runs) /\ full.from \in 0 .. size
      /\ \A k \in 1 .. Len(full.table) :
           /\ IsClearRun(full.table[k])
           /\ full.table[k].start + full.table[k].length <= full.from
      /\ \A j, k \in 1 .. Len(full.table) : j # k => full.table[j].start # full.table[k].start
      /\ \A b \in Clear : b < full.from =>
           \E k \in 1 .. Len(full.table) :
             full.table[k].start <= b /\ b < full.table[k].start + full.table[k].length
  BY <1>1 DEF Lists
<1>3. PICK m \in Nat : m = Len(full.table) /\ m <= slots BY <1>1, <1>2
<1>4. \A k \in 1 .. m : /\ full.table[k] \in Runs /\ full.table[k].start \in Nat
                        /\ full.table[k].length \in Nat
  <2>1. \A k \in 1 .. m : full.table[k] \in Runs BY <1>2, <1>3
  <2>2. QED BY <2>1 DEF Runs
<1>5. \A start \in Map, n \in 1 .. size :
        start \in Int /\ n \in Nat \ {0} /\ (IsFree(start, n) => start \in Clear)
  <2>1. SUFFICES ASSUME NEW start \in Map, NEW n \in 1 .. size
                 PROVE  /\ start \in Int /\ n \in Nat \ {0}
                        /\ IsFree(start, n) => start \in Clear
    OBVIOUS
  <2>2. start \in Int /\ start \in start .. start + n - 1 BY DEF Map
  <2>3. QED BY <2>2, FreeRanges
<1>6. CASE m < slots \/ ~longest
  <2>1. table = full.table BY <1>1, <1>3, <1>6 DEF FindClearRuns
  <2>2. ASSUME m < slots, NEW b \in Clear
        PROVE  \E k \in 1 .. m : full.table[k].start <= b
                                 /\ b < full.table[k].start + full.table[k].length
    <3>1. b < full.from BY <1>1, <1>3, <2>2 DEF NoneFrom
    <3>2. QED BY <1>2, <1>3, <3>1
  <2>3. ASSUME m < slots, NEW b \in Clear
        PROVE  \E k \in 1 .. m :
                 b \in full.table[k].start .. full.table[k].start + full.table[k].length - 1
    <3>1. PICK k \in 1 .. m : full.table[k].start <= b
                              /\ b < full.table[k].start + full.table[k].length
      BY <2>2, <2>3
    <3>2. b \in Int BY DEF Clear, Map
    <3>3. b \in full.table[k].start .. full.table[k].start + full.table[k].length - 1
      BY <1>4, <3>1, <3>2
    <3>4. QED BY <3>3
  <2>4. ASSUME m < slots, NEW start \in Map, NEW n \in 1 .. size, IsFree(start, n)
        PROVE  \E k \in 1 .. m : full.table[k].length >= n
    <3>1. PICK k \in 1 .. m : full.table[k].start <= start
                              /\ start < full.table[k].start + full.table[k].length
      BY <1>5, <2>2, <2>4
    <3>2. full.table[k] \in Runs /\ IsClearRun(full.table[k]) BY <1>2, <1>3, <1>4
    <3>3. n <= full.table[k].length BY <1>5, <2>4, <3>1, <3>2, FreeInRun
    <3>4. full.table[k].length >= n BY <1>4, <3>3
    <3>5. QED BY <3>4
  <2>5. \A i \in 1 .. m : IsClearRun(table[i]) BY <1>2, <1>3, <2>1
  <2>6. \A i, j \in 1 .. m : i = j \/ table[i].start # table[j].start BY <1>2, <1>3, <2>1
  <2>7. m < slots => \A b \in Map \ bits : \E i \in 1 .. m :
          b \in table[i].start .. table[i].start + table[i].length - 1
    BY <2>1, <2>3 DEF Clear
  <2>8. longest => \A start \in Map, n \in 1 .. size :
          IsFree(start, n) => \E i \in 1 .. m : table[i].length >= n
    BY <1>6, <2>1, <2>4
  <2>9. Len(table) = m BY <1>3, <2>1
  <2>10. QED BY <2>5, <2>6, <2>7, <2>8, <2>9 DEF ListsRuns
<1>7. CASE m = slots /\ longest
  <2>1. PICK t : /\ t = LargerRuns(full)[size] /\ Enlarged(full, t) /\ NoneFrom(t.from)
                 /\ table = t.table
    <3>1. Len(full.table) > 0 BY <1>3, <1>7
    <3>2. ~(Len(full.table) < slots) BY <1>3, <1>7
    <3>3. table = LargerRuns(full)[size].table BY <1>1, <1>7, <3>2 DEF FindClearRuns
    <3>4. QED BY <1>1, <3>1, <3>3, LargerRunsFit
  <2>2. PICK smallest \in 1 .. m : smallest = Smallest(full.table)
    <3>1. Len(full.table) > 0 BY <1>3, <1>7
    <3>2. Smallest(full.table) \in 1 .. Len(full.table) BY <1>2, <3>1, SmallestIs
    <3>3. QED BY <1>3, <3>2
  <2>3. /\ table \in [1 .. m -> Runs] /\ t.from \in full.from .. size
        /\ \A j \in 1 .. m : j # smallest => table[j] = full.table[j]
        /\ IsClearRun(table[smallest])
        /\ table[smallest] = full.table[smallest] \/ full.from <= table[smallest].start
        /\ \A b \in Int, n \in Nat \ {0} : b < t.from /\ IsFree(b, n)
             => \E j \in 1 .. m : n <= table[j].length
    BY <1>3, <2>1, <2>2 DEF Enlarged
  <2>4. Len(table) = m BY <2>3
  <2>5. \A k \in 1 .. m : table[k].start \in Nat /\ table[k].length \in Nat
    <3>1. \A k \in 1 .. m : table[k] \in Runs BY <2>3
    <3>2. QED BY <3>1 DEF Runs
  <2>6. ASSUME NEW i \in 1 .. m PROVE IsClearRun(table[i])
    <3>1. CASE i = smallest BY <2>3, <3>1
    <3>2. CASE i # smallest BY <1>2, <1>3, <2>3, <3>2
    <3>3. QED BY <3>1, <3>2
  <2>7. ASSUME NEW j \in 1 .. m, j # smallest PROVE table[j].start # table[smallest].start
    <3>1. table[j] = full.table[j] BY <2>3, <2>7
    <3>2. CASE table[smallest] = full.table[smallest] BY <1>2, <1>3, <2>7, <3>1, <3>2
    <3>3. CASE full.from <= table[smallest].start
      <4>1. IsClearRun(full.table[j]) /\ full.table[j].start + full.table[j].length <= full.from
        BY <1>2, <1>3
      <4>2. full.table[j].length > 0 BY <4>1 DEF IsClearRun
      <4>3. full.table[j].start < full.from
        <5>1. full.from \in Nat BY <1>2
        <5>2. full.table[j].start \in Nat /\ full.table[j].length \in Nat BY <1>4
        <5>3. QED BY <4>1, <4>2, <5>1, <5>2
      <4>4. QED BY <1>2, <1>4, <2>5, <3>1, <3>3, <4>3
    <3>4. QED BY <2>3, <3>2, <3>3
  <2>8. ASSUME NEW i \in 1 .. m, NEW j \in 1 .. m PROVE i = j \/ table[i].start # table[j].start
    <3>1. CASE i = smallest \/ j = smallest BY <2>7, <3>1
    <3>2. CASE i # smallest /\ j # smallest BY <1>2, <1>3, <2>3, <3>2
    <3>3. QED BY <3>1, <3>2
  <2>9. ASSUME NEW start \in Map, NEW n \in 1 .. size, IsFree(start, n)
        PROVE  \E i \in 1 .. m : table[i].length >= n
    <3>1. start < t.from BY <1>5, <2>1, <2>9 DEF NoneFrom
    <3>2. PICK j \in 1 .. m : n <= table[j].length BY <1>5, <2>3, <2>9, <3>1
    <3>3. table[j].length >= n BY <2>5, <3>2
    <3>4. QED BY <3>3
  <2>10. ~(m < slots) BY <1>7
  <2>11. QED BY <2>4, <2>6, <2>8, <2>9, <2>10 DEF ListsRuns
<1>8. QED BY <1>3, <1>6, <1>7

-----------------------------------------------------------------------------
(* Counts.                                                                 *)

\* The bytes that are counted hold the bitmap (bitmap.c 411).
LEMMA BytesSuffice ==
  ASSUME size \in Nat
  PROVE  Map \subseteq 0 .. ByteBits * CountedBytes - 1
<1>1. ByteBits \in Nat \ {0} BY BitmapAssumption
<1>2. PICK q \in Int, r \in 0 .. ByteBits - 1 :
        /\ q = (size + ByteBits - 1) \div ByteBits
        /\ size + ByteBits - 1 = ByteBits * q + r
  <2>1. PICK a \in Int : a = size + ByteBits - 1 BY <1>1
  <2>2. /\ a \div ByteBits \in Int /\ a % ByteBits \in 0 .. ByteBits - 1
        /\ a = ByteBits * (a \div ByteBits) + (a % ByteBits)
    BY <1>1, Division
  <2>3. QED BY <2>1, <2>2
<1>3. PICK p \in Int : p = ByteBits * q /\ ByteBits * (q + 1) = p + ByteBits BY <1>1
<1>4. size <= p + ByteBits
  <2>1. size + ByteBits - 1 = p + r BY <1>2, <1>3
  <2>2. QED BY <1>1, <2>1
<1>5. PICK e \in Int : e = ByteBits * CountedBytes /\ e = p + ByteBits
  <2>1. CountedBytes = q + 1 BY <1>2 DEF CountedBytes
  <2>2. QED BY <1>1, <1>3, <2>1
<1>6. QED BY <1>4, <1>5 DEF Map

\* The counts are those of the bits, if nothing is set behind the bitmap (bitmap.c 411,
\* 431).
LEMMA NumbersAgree ==
  ASSUME size \in Nat, bits \subseteq Map
  PROVE  NumberOfSetBits = Cardinality(bits) /\ NumberOfClearBits = Cardinality(Map \ bits)
<1>1. bits \cap 0 .. ByteBits * CountedBytes - 1 = bits BY BytesSuffice
<1>2. NumberOfSetBits = Cardinality(bits) BY <1>1 DEF NumberOfSetBits
<1>3. IsFiniteSet(Map) /\ Cardinality(Map) = size
  <2>1. IsFiniteSet(0 .. size - 1) /\ Cardinality(0 .. size - 1) = size BY FS_Interval
  <2>2. QED BY <2>1 DEF Map
<1>4. Cardinality(Map \ bits) = Cardinality(Map) - Cardinality(Map \cap bits)
  BY <1>3, FS_Difference
<1>5. Map \cap bits = bits OBVIOUS
<1>6. QED BY <1>2, <1>3, <1>4, <1>5 DEF NumberOfClearBits

\* The highest and the lowest bit are found across the halves (bitmap.c 172, 190).
LEMMA ExtremesAgree ==
  ASSUME NEW value \in SUBSET (0 .. 2 * WordBits - 1), value # {}
  PROVE  /\ FindMostSignificantBit(value) = Max(value)
         /\ FindLeastSignificantBit(value) = Min(value)
<1>1. WordBits \in Nat \ {0} BY BitmapAssumption
<1>2. PICK N \in Nat : N = 2 * WordBits - 1 BY <1>1
<1>3. value \in SUBSET (0 .. N) /\ value \in SUBSET Nat BY <1>2
<1>4. ASSUME NEW S \in SUBSET value, S # {}, \A x \in value \ S, y \in S : x <= y
      PROVE  Max(S) = Max(value)
  <2>1. S \in SUBSET (0 .. N) BY <1>3
  <2>2. Max(S) \in S /\ \A x \in S : x <= Max(S) BY <1>4, <2>1, GreatestNumber
  <2>3. Max(value) \in value /\ \A x \in value : x <= Max(value) BY <1>3, GreatestNumber
  <2>4. \A x \in value : x <= Max(S) BY <1>4, <2>2
  <2>5. Max(S) \in Nat /\ Max(value) \in Nat BY <1>3, <2>2, <2>3
  <2>6. Max(S) <= Max(value) /\ Max(value) <= Max(S) BY <2>2, <2>3, <2>4
  <2>7. QED BY <2>5, <2>6
<1>5. ASSUME NEW S \in SUBSET value, S # {}, \A x \in value \ S, y \in S : y <= x
      PROVE  Min(S) = Min(value)
  <2>1. S \in SUBSET Nat BY <1>3
  <2>2. Min(S) \in S /\ \A x \in S : Min(S) <= x BY <1>5, <2>1, LeastNumber
  <2>3. Min(value) \in value /\ \A x \in value : Min(value) <= x BY <1>3, LeastNumber
  <2>4. \A x \in value : Min(S) <= x BY <1>5, <2>2
  <2>5. Min(S) \in Nat /\ Min(value) \in Nat BY <1>3, <2>2, <2>3
  <2>6. Min(S) <= Min(value) /\ Min(value) <= Min(S) BY <2>2, <2>3, <2>4
  <2>7. QED BY <2>5, <2>6
<1> DEFINE high == {b \in value : b >= WordBits}
           low == {b \in value : b < WordBits}
<1>6. \A b \in value : b \in Nat /\ (b \in high <=> b \notin low) BY <1>1, <1>3
<1>7. value \ high = low /\ value \ low = high BY <1>6
<1>8. \A x \in low, y \in high : x <= y BY <1>1, <1>3
<1>9. FindMostSignificantBit(value) = Max(value)
  <2>1. CASE high # {}
    <3>1. Max(high) = Max(value) BY <1>4, <1>7, <1>8, <2>1
    <3>2. QED BY <2>1, <3>1 DEF FindMostSignificantBit
  <2>2. CASE high = {}
    <3>1. low = value BY <1>7, <2>2
    <3>2. FindMostSignificantBit(value) = IF value \ high # {} THEN Max(value \ high) ELSE -1
      BY <2>2 DEF FindMostSignificantBit
    <3>3. QED BY <1>7, <3>1, <3>2
  <2>3. QED BY <2>1, <2>2
<1>10. FindLeastSignificantBit(value) = Min(value)
  <2>1. CASE low # {}
    <3>1. Min(low) = Min(value) BY <1>5, <1>7, <1>8, <2>1
    <3>2. QED BY <2>1, <3>1 DEF FindLeastSignificantBit
  <2>2. CASE low = {}
    <3>1. high = value BY <1>7, <2>2
    <3>2. FindLeastSignificantBit(value) = IF value \ low # {} THEN Min(value \ low) ELSE -1
      BY <2>2 DEF FindLeastSignificantBit
    <3>3. QED BY <1>7, <3>1, <3>2
  <2>3. QED BY <2>1, <2>2
<1>11. QED BY <1>9, <1>10

\* Whatever has been taken and given back, every search returns a run, none misses one
\* but at the end of the bitmap, the longest run and all runs are found, and counts are
\* right, for words, bytes and bitmaps of any size (RtlFindClearBits, RtlFindSetBits,
\* RtlFindLongestRunClear, RtlFindClearRuns, RtlNumberOfSetBits).
THEOREM SearchesAreRightAlways == BitmapSpec => []SearchesAreRight
<1>1. BitmapInit => MapFits BY MapStarts
<1>2. MapFits /\ [BitmapNext]_bitmapVars => MapFits' BY MapStep
<1>3. MapFits => SearchesAreRight
  <2>1. SUFFICES ASSUME MapFits PROVE SearchesAreRight OBVIOUS
  <2>2. size \in Nat \ {0} /\ bits \subseteq Memory BY <2>1, SizesAre DEF MapFits
  <2>3. FoundRunIsOne /\ OnlyTheLastRunIsMissed BY <2>2, FoundRuns
  <2>4. LongestRunIsLongest BY <2>2, LongestIs
  <2>5. ASSUME NEW slots \in 1 .. 3, NEW longest \in BOOLEAN
        PROVE  ListsRuns(slots, longest, FindClearRuns(slots, longest))
    <3>1. slots \in Nat \ {0} OBVIOUS
    <3>2. QED BY <2>2, <3>1, ListedRuns
  <2>6. ClearRunsAreListed
    <3>1. \A slots \in 1 .. 3, longest \in BOOLEAN :
            ListsRuns(slots, longest, FindClearRuns(slots, longest))
      BY <2>5
    <3>2. QED BY <3>1 DEF ClearRunsAreListed, ListsRuns
  <2>7. CountsAgree
    <3> DEFINE value == bits \cap 0 .. 2 * WordBits - 1
    <3>1. value \in SUBSET (0 .. 2 * WordBits - 1) OBVIOUS
    <3>2. value # {} => /\ FindMostSignificantBit(value) = Max(value)
                        /\ FindLeastSignificantBit(value) = Min(value)
      BY <3>1, ExtremesAgree
    <3>3. QED BY <2>2, <3>2, NumbersAgree DEF CountsAgree
  <2>8. QED BY <2>3, <2>4, <2>6, <2>7 DEF SearchesAreRight
<1>4. QED BY <1>1, <1>2, <1>3, PTL DEF BitmapSpec

-----------------------------------------------------------------------------
(* LZNT1: loops of rounds, and the powers that widths are counted in.      *)

\* What each of n rounds of a loop leaves.
Rounds(f, n, start, step) ==
  f = [i \in 0 .. n |-> IF i = 0 THEN start ELSE step[<<i, f[i - 1]>>]]

\* A loop of n rounds, each of which works on what the one before it left, has a result:
\* the sum of the sizes of ACEs, the bytes that a back reference copies.
LEMMA RoundsEnd ==
  ASSUME NEW n \in Nat, NEW V, NEW start \in V, NEW step,
         \A i \in 1 .. n : \A v \in V : step[<<i, v>>] \in V
  PROVE  \E f \in [0 .. n -> V] : Rounds(f, n, start, step)
<1> DEFINE S == 0 .. n
           D == [i \in S |-> i]
           Stop == {0}
           val == [i \in S |-> start]
           next == [i \in S |-> i - 1]
<1>1. PICK f \in [S -> V] : Gives(f, S, Stop, val, step, next)
  <2>1. D \in [S -> 0 .. n] OBVIOUS
  <2>2. \A x \in S : x \notin Stop => next[x] \in S /\ D[next[x]] < D[x] OBVIOUS
  <2>3. \A x \in S : x \in Stop => val[x] \in V OBVIOUS
  <2>4. \A x \in S : x \notin Stop => \A v \in V : step[<<x, v>>] \in V
    <3>1. \A x \in S : x \notin Stop => x \in 1 .. n OBVIOUS
    <3>2. QED BY <3>1
  <2> HIDE DEF S, D, Stop, val, next
  <2>5. QED BY <2>1, <2>2, <2>3, <2>4, LoopEnds
<1>2. ASSUME NEW i \in S PROVE f[i] = IF i = 0 THEN start ELSE step[<<i, f[i - 1]>>]
  <2>1. f[i] = IF i \in Stop THEN val[i] ELSE step[<<i, f[next[i]]>>] BY <1>1 DEF Gives
  <2>2. QED BY <2>1
<1>3. Rounds(f, n, start, step) BY <1>1, <1>2 DEF Rounds
<1>4. QED BY <1>1, <1>3

\* The powers of two are what they are called.
LEMMA PowersDouble ==
  /\ Power \in [0 .. TokenBits -> Nat \ {0}]
  /\ Power[0] = 1
  /\ \A n \in 1 .. TokenBits : Power[n] = 2 * Power[n - 1]
<1> DEFINE V == Nat \ {0}
           step == [p \in (1 .. TokenBits) \X V |-> 2 * p[2]]
           At(f) == [n \in 0 .. TokenBits |-> IF n = 0 THEN 1 ELSE 2 * f[n - 1]]
<1>1. TokenBits \in Nat BY LzAssumption
<1>2. \A i \in 1 .. TokenBits : \A v \in V : step[<<i, v>>] = 2 * v OBVIOUS
<1>3. PICK f \in [0 .. TokenBits -> V] : Rounds(f, TokenBits, 1, step)
  <2>1. \A i \in 1 .. TokenBits : \A v \in V : step[<<i, v>>] \in V
    <3>1. \A v \in V : 2 * v \in V OBVIOUS
    <3> HIDE DEF step, V
    <3>2. QED BY <1>2, <3>1
  <2>2. 1 \in V OBVIOUS
  <2> HIDE DEF step, V
  <2>3. QED BY <1>1, <2>1, <2>2, RoundsEnd
<1>4. f = At(f)
  <2>1. ASSUME NEW i \in 0 .. TokenBits PROVE f[i] = IF i = 0 THEN 1 ELSE 2 * f[i - 1]
    <3>1. CASE i = 0 BY <1>3, <3>1 DEF Rounds
    <3>2. CASE i # 0
      <4>1. i \in 1 .. TokenBits /\ i - 1 \in 0 .. TokenBits BY <1>1, <3>2
      <4> HIDE DEF V, step
      <4>4. f[i - 1] \in V BY <1>3, <4>1
      <4>2. f[i] = step[<<i, f[i - 1]>>] BY <1>3, <3>2 DEF Rounds
      <4>3. QED BY <1>2, <3>2, <4>1, <4>2, <4>4
    <3>3. QED BY <3>1, <3>2
  <2>2. QED BY <1>3, <2>1
<1>5. Power = CHOOSE p : p = At(p) BY DEF Power
<1>6. Power = At(Power) BY <1>4, <1>5
<1>7. \A n \in 0 .. TokenBits : Power[n] \in Nat \ {0}
  <2> DEFINE Good == {n \in 0 .. TokenBits : Power[n] \in Nat \ {0}}
  <2>1. ASSUME NEW n \in 0 .. TokenBits, \A j \in 0 .. TokenBits : j < n => j \in Good
        PROVE  n \in Good
    <3>1. CASE n = 0 BY <1>6, <3>1
    <3>2. CASE n # 0
      <4>1. n - 1 \in 0 .. TokenBits /\ n - 1 < n BY <1>1, <3>2
      <4>2. Power[n - 1] \in Nat \ {0} BY <2>1, <4>1
      <4>3. Power[n] = 2 * Power[n - 1] BY <1>6, <3>2
      <4>4. QED BY <4>2, <4>3
    <3>3. QED BY <3>1, <3>2
  <2> HIDE DEF Good
  <2>2. \A n \in 0 .. TokenBits : n \in Good BY <1>1, <2>1, Upwards
  <2>3. QED BY <2>2 DEF Good
<1>8. QED BY <1>1, <1>6, <1>7

\* Larger powers are larger.
LEMMA PowersGrow ==
  ASSUME NEW j \in 0 .. TokenBits, NEW i \in 0 .. j
  PROVE  Power[i] <= Power[j]
<1> DEFINE Good == {k \in 0 .. TokenBits : \A n \in 0 .. k : Power[n] <= Power[k]}
<1>1. TokenBits \in Nat BY LzAssumption
<1>2. ASSUME NEW k \in 0 .. TokenBits, \A n \in 0 .. TokenBits : n < k => n \in Good
      PROVE  k \in Good
  <2>1. SUFFICES ASSUME NEW n \in 0 .. k PROVE Power[n] <= Power[k] OBVIOUS
  <2>2. Power[n] \in Nat \ {0} /\ Power[k] \in Nat \ {0} BY <1>1, PowersDouble
  <2>3. CASE n = k BY <2>2, <2>3
  <2>4. CASE n # k
    <3>1. k - 1 \in 0 .. TokenBits /\ k - 1 < k /\ n \in 0 .. k - 1 /\ k \in 1 .. TokenBits
      BY <1>1, <2>4
    <3>2. Power[n] <= Power[k - 1] BY <1>2, <3>1
    <3>3. Power[k] = 2 * Power[k - 1] /\ Power[k - 1] \in Nat \ {0} BY <3>1, PowersDouble
    <3>4. QED BY <2>2, <3>2, <3>3
  <2>5. QED BY <2>3, <2>4
<1>3. j \in Good
  <2> HIDE DEF Good
  <2>1. QED BY <1>1, <1>2, Upwards
<1>4. QED BY <1>3

\* What is halved until it fits: the loop over j (lznt1.c 102).
Halved(f, n) ==
  f = [j \in 0 .. n |-> IF j < Power[Least] THEN 0 ELSE 1 + f[j \div 2]]

\* Half of a number is smaller, and twice it is the number, or one less.
LEMMA Halves ==
  ASSUME NEW j \in Nat \ {0}
  PROVE  /\ j \div 2 \in 0 .. j - 1
         /\ j = 2 * (j \div 2) \/ j = 2 * (j \div 2) + 1
<1>1. j \in Int /\ 2 \in Nat \ {0} OBVIOUS
<1>2. /\ j \div 2 \in Int /\ j % 2 \in 0 .. 2 - 1
      /\ j = 2 * (j \div 2) + (j % 2)
  BY <1>1, Division
<1>3. QED BY <1>2

\* The widths of a token: a displacement has some bits, and no more than there are.
LEMMA Widths ==
  /\ TokenBits \in Nat /\ LengthBits \in Nat /\ LengthBits <= TokenBits
  /\ Least \in 0 .. TokenBits /\ Least + LengthBits = TokenBits
BY LzAssumption DEF Least

\* The loop ends (lznt1.c 102).
LEMMA HalvingEnds ==
  ASSUME NEW n \in Nat
  PROVE  \E f \in [0 .. n -> Nat] : Halved(f, n)
<1> DEFINE S == 0 .. n
           D == [j \in S |-> j]
           Stop == {j \in S : j < Power[Least]}
           val == [j \in S |-> 0]
           next == [j \in S |-> j \div 2]
           step == [p \in S \X Nat |-> 1 + p[2]]
<1>1. Power[Least] \in Nat \ {0} BY Widths, PowersDouble
<1>2. PICK f \in [S -> Nat] : Gives(f, S, Stop, val, step, next)
  <2>1. D \in [S -> 0 .. n] OBVIOUS
  <2>2. ASSUME NEW j \in S, j \notin Stop PROVE next[j] \in S /\ D[next[j]] < D[j]
    <3>1. j \in Nat \ {0} BY <1>1, <2>2
    <3>2. j \div 2 \in 0 .. j - 1 BY <3>1, Halves
    <3>3. PICK h \in 0 .. j - 1 : h = j \div 2 BY <3>2
    <3>4. next[j] = h BY <3>3
    <3>5. QED BY <3>3, <3>4
  <2>3. \A x \in S : x \in Stop => val[x] \in Nat OBVIOUS
  <2>4. \A x \in S : \A v \in Nat : step[<<x, v>>] \in Nat
    <3>1. \A x \in S : \A v \in Nat : step[<<x, v>>] = 1 + v OBVIOUS
    <3>2. ASSUME NEW x \in S, NEW v \in Nat PROVE step[<<x, v>>] \in Nat
      <4>1. 1 + v \in Nat OBVIOUS
      <4> HIDE DEF step, S
      <4>2. QED BY <3>1, <4>1
    <3>3. QED BY <3>2
  <2> HIDE DEF S, D, Stop, val, next, step
  <2>5. QED BY <2>1, <2>2, <2>3, <2>4, LoopEnds
<1>3. ASSUME NEW j \in S PROVE f[j] = IF j < Power[Least] THEN 0 ELSE 1 + f[j \div 2]
  <2>1. f[j] = IF j \in Stop THEN val[j] ELSE step[<<j, f[next[j]]>>] BY <1>2 DEF Gives
  <2>2. CASE j < Power[Least] BY <2>1, <2>2
  <2>3. CASE ~(j < Power[Least])
    <3>1. j \in Nat \ {0} BY <1>1, <2>3
    <3>2. j \div 2 \in S BY <3>1, Halves
    <3>3. f[j \div 2] \in Nat
      <4> HIDE DEF S
      <4>1. QED BY <1>2, <3>2
    <3>4. next[j] = j \div 2 OBVIOUS
    <3>5. step[<<j, f[j \div 2]>>] = 1 + f[j \div 2] BY <3>3
    <3> HIDE DEF step, next
    <3>6. QED BY <2>1, <2>3, <3>4, <3>5
  <2>4. QED BY <2>2, <2>3
<1>4. Halved(f, n) BY <1>2, <1>3 DEF Halved
<1>5. QED BY <1>2, <1>4

\* It finds how many more bits a number needs than are there in the beginning.
LEMMA HalvedIs ==
  ASSUME NEW n \in Nat, n < Power[TokenBits], NEW f, Halved(f, n)
  PROVE  \A j \in 0 .. n :
           /\ f[j] \in Nat /\ Least + f[j] \in 0 .. TokenBits /\ j < Power[Least + f[j]]
           /\ f[j] > 0 => j >= Power[Least + f[j] - 1]
<1> DEFINE Fitting(j) == /\ f[j] \in Nat /\ Least + f[j] \in 0 .. TokenBits
                         /\ j < Power[Least + f[j]]
                         /\ f[j] > 0 => j >= Power[Least + f[j] - 1]
           Good == {j \in 0 .. n : Fitting(j)}
<1>1. ASSUME NEW j \in 0 .. n, \A i \in 0 .. n : i < j => i \in Good PROVE j \in Good
  <2>1. f[j] = IF j < Power[Least] THEN 0 ELSE 1 + f[j \div 2] BY DEF Halved
  <2>2. CASE j < Power[Least]
    <3>1. f[j] = 0 /\ Least + f[j] = Least BY <2>1, <2>2, Widths
    <3>2. QED BY <2>2, <3>1, Widths
  <2>3. CASE ~(j < Power[Least])
    <3>1. Power[Least] \in Nat \ {0} BY Widths, PowersDouble
    <3>2. j \in Nat \ {0} BY <2>3, <3>1
    <3>3. PICK i \in 0 .. j - 1 : i = j \div 2 /\ (j = 2 * i \/ j = 2 * i + 1)
      BY <3>2, Halves
    <3>4. i \in Good /\ i \in 0 .. n BY <1>1, <3>2, <3>3
    <3>5. PICK h \in Nat : h = f[i] BY <3>4
    <3>6. /\ Least + h \in 0 .. TokenBits /\ i < Power[Least + h]
          /\ h > 0 => i >= Power[Least + h - 1]
      BY <3>4, <3>5
    <3>7. f[j] = 1 + h BY <2>1, <2>3, <3>3, <3>5
    <3>8. h > 0 => j >= Power[Least + h]
      <4>1. SUFFICES ASSUME h > 0 PROVE j >= Power[Least + h] OBVIOUS
      <4>2. Least + h \in 1 .. TokenBits BY <3>5, <3>6, <4>1, Widths
      <4>3. Power[Least + h] = 2 * Power[Least + h - 1] /\ Least + h - 1 \in 0 .. TokenBits
        BY <4>2, Widths, PowersDouble
      <4>4. Power[Least + h - 1] \in Nat BY <4>3, PowersDouble
      <4>5. QED BY <3>3, <3>6, <4>1, <4>3, <4>4
    <3>9. j >= Power[Least + h]
      <4>1. h = 0 => Least + h = Least BY Widths
      <4>2. QED BY <2>3, <3>1, <3>2, <3>5, <3>8, <4>1
    <3>10. Least + h # TokenBits
      <4>1. Power[TokenBits] \in Nat BY Widths, PowersDouble
      <4>2. j < Power[TokenBits] BY <4>1
      <4>3. QED BY <3>2, <3>9, <4>1, <4>2
    <3>11. Least + h + 1 \in 1 .. TokenBits /\ Least + h + 1 - 1 = Least + h
      <4>1. Least \in Nat /\ TokenBits \in Nat /\ Least + h <= TokenBits BY <3>6, Widths
      <4>2. QED BY <3>10, <4>1
    <3>12. Power[Least + h + 1] = 2 * Power[Least + h] /\ Power[Least + h] \in Nat
      BY <3>6, <3>11, PowersDouble
    <3>13. j < Power[Least + h + 1] BY <3>3, <3>6, <3>12
    <3>14. Least + f[j] = Least + h + 1 /\ Least + f[j] - 1 = Least + h BY <3>7, Widths
    <3>15. f[j] \in Nat /\ j >= Power[Least + f[j] - 1] BY <3>7, <3>9, <3>14
    <3>16. Least + f[j] \in 0 .. TokenBits BY <3>11, <3>14, Widths
    <3>17. QED BY <3>13, <3>14, <3>15, <3>16
  <2>4. QED BY <2>2, <2>3
<1>2. \A j \in 0 .. n : j \in Good
  <2> HIDE DEF Good
  <2>1. QED BY <1>1, Upwards
<1>3. QED BY <1>2

\* The shift of a position in the chunk is that of the format: as many bits as the
\* positions before it need (lznt1.c 99).
LEMMA ShiftIsMeant ==
  ASSUME NEW pos \in Nat \ {0}, pos <= Power[TokenBits]
  PROVE  /\ Shift(pos) = MeantShift(pos) /\ Shift(pos) \in 0 .. LengthBits
         /\ TokenBits - Shift(pos) \in 0 .. TokenBits /\ pos <= Power[TokenBits - Shift(pos)]
<1> DEFINE n == pos - 1
           At(f) == [j \in 0 .. n |-> IF j < Power[Least] THEN 0 ELSE 1 + f[j \div 2]]
           enough == {b \in Least .. TokenBits : Power[b] >= pos}
<1>1. n \in Nat /\ n < Power[TokenBits] /\ n \in 0 .. n
  <2>1. Power[TokenBits] \in Nat BY Widths, PowersDouble
  <2>2. QED BY <2>1
<1>2. Halvings(pos) = (CHOOSE f : f = At(f))[n] BY DEF Halvings
<1>3. PICK f : f = At(f) /\ f = CHOOSE g : g = At(g)
  <2>1. \E f : f = At(f) BY <1>1, HalvingEnds DEF Halved
  <2> HIDE DEF At
  <2>2. QED BY <2>1
<1>4. Halved(f, n) BY <1>3 DEF Halved
<1>5. PICK h \in Nat : /\ h = Halvings(pos) /\ Least + h \in 0 .. TokenBits
                       /\ n < Power[Least + h]
                       /\ h > 0 => n >= Power[Least + h - 1]
  <2>1. Halvings(pos) = f[n]
    <3> HIDE DEF At, n
    <3>1. QED BY <1>2, <1>3
  <2> HIDE DEF n
  <2>2. QED BY <1>1, <1>4, <2>1, HalvedIs
<1>6. PICK b \in Least .. TokenBits : b = Least + h BY <1>5, Widths
<1>7. b \in enough
  <2>1. Power[b] \in Nat BY <1>6, Widths, PowersDouble
  <2>2. QED BY <1>5, <1>6, <2>1
<1>8. \A c \in enough : b <= c
  <2>1. SUFFICES ASSUME NEW c \in enough, c < b PROVE FALSE BY <1>6, Widths
  <2>2. h > 0 BY <1>6, <2>1, Widths
  <2>3. b - 1 \in 0 .. TokenBits /\ c \in 0 .. b - 1 /\ b - 1 = Least + h - 1
    BY <1>6, <2>1, Widths
  <2>4. Power[c] <= Power[b - 1] BY <2>3, PowersGrow
  <2>5. Power[c] \in Nat /\ Power[b - 1] \in Nat BY <2>3, Widths, PowersDouble
  <2>6. QED BY <1>5, <2>1, <2>2, <2>3, <2>4, <2>5
<1>9. (CHOOSE x \in enough : \A c \in enough : x <= c) = b
  <2>1. \A x \in enough : (\A c \in enough : x <= c) => x = b
    <3>1. enough \subseteq Int /\ b \in Int BY <1>6, Widths
    <3> HIDE DEF enough
    <3>2. QED BY <1>7, <1>8, <3>1
  <2> HIDE DEF enough
  <2>2. QED BY <1>7, <1>8, <2>1
<1>10. MeantShift(pos) = TokenBits - b BY <1>9 DEF MeantShift
<1>11. Shift(pos) = LengthBits - h BY <1>5 DEF Shift
<1>12. QED BY <1>5, <1>6, <1>7, <1>10, <1>11, Widths

\* The length and the displacement of a token are those of the format, which are
\* some (lznt1.c 108).
LEMMA TokenIs ==
  ASSUME NEW pos \in Nat \ {0}, pos <= Power[TokenBits],
         NEW runlen \in 0 .. Power[TokenBits] - 1
  PROVE  /\ LengthOf(runlen, pos) = (runlen % Power[MeantShift(pos)]) + 3
         /\ BackOf(runlen, pos) = (runlen \div Power[MeantShift(pos)]) + 1
         /\ LengthOf(runlen, pos) \in Nat /\ BackOf(runlen, pos) \in Nat \ {0}
<1>1. PICK s \in 0 .. LengthBits : s = Shift(pos) /\ s = MeantShift(pos) BY ShiftIsMeant
<1>2. PICK p \in Nat \ {0} : p = Power[s] BY <1>1, Widths, PowersDouble
<1>3. runlen \in Nat BY Widths, PowersDouble
<1>4. /\ runlen \div p \in Int /\ runlen % p \in 0 .. p - 1
      /\ runlen = p * (runlen \div p) + (runlen % p)
  <2>1. runlen \in Int BY <1>3
  <2>2. QED BY ONLY <1>2, <2>1, Division
<1>5. runlen \div p >= 0
  <2>1. PICK q \in Int, r \in 0 .. p - 1 : q = runlen \div p /\ runlen = p * q + r BY <1>4
  <2>2. ASSUME q <= -1 PROVE FALSE
    <3>1. p * q <= -p BY <1>2, <2>1, <2>2
    <3>2. p * q \in Int BY <1>2, <2>1
    <3>3. QED BY <1>2, <1>3, <2>1, <3>1, <3>2
  <2>3. QED BY <2>1, <2>2
<1>6. (runlen % p) + 3 \in Nat /\ (runlen \div p) + 1 \in Nat \ {0}
  <2>1. PICK q \in Int, r \in 0 .. p - 1 : q = runlen \div p /\ r = runlen % p BY <1>4
  <2>2. q >= 0 BY <1>5, <2>1
  <2>3. r + 3 \in Nat /\ q + 1 \in Nat \ {0} BY <2>1, <2>2
  <2>4. QED BY <2>1, <2>3
<1>7. QED BY <1>1, <1>2, <1>6 DEF LengthOf, BackOf

-----------------------------------------------------------------------------
(* LZNT1: the bytes that a back reference copies.                          *)

\* Adding the divisor does not change the rest: the pattern of a copy goes round.
LEMMA SameRest ==
  ASSUME NEW a \in Nat, NEW b \in Nat \ {0}
  PROVE  (a + b) % b = a % b /\ (a < b => a % b = a)
<1>1. PICK q \in Int, r \in 0 .. b - 1 : r = a % b /\ a = b * q + r
  <2>1. a \in Int OBVIOUS
  <2>2. a \div b \in Int /\ a % b \in 0 .. b - 1 /\ a = b * (a \div b) + (a % b)
    BY ONLY <2>1, b \in Nat \ {0}, Division
  <2>3. QED BY <2>2
<1>2. PICK p \in Int, s \in 0 .. b - 1 : s = (a + b) % b /\ a + b = b * p + s
  <2>1. a + b \in Int OBVIOUS
  <2>2. PICK c \in Int : c = a + b BY <2>1
  <2>3. c \div b \in Int /\ c % b \in 0 .. b - 1 /\ c = b * (c \div b) + (c % b)
    BY ONLY c \in Int, b \in Nat \ {0}, Division
  <2>4. QED BY <2>2, <2>3
<1>3. PICK d \in Int : d = (q + 1) - p OBVIOUS
<1>4. b * d = s - r
  <2>1. b * d = b * q + b - b * p BY <1>3
  <2>2. QED BY <1>1, <1>2, <2>1
<1>5. d = 0
  <2>1. ASSUME d > 0 PROVE FALSE
    <3>1. b * d >= b BY <2>1
    <3>2. QED BY <1>4, <3>1
  <2>2. ASSUME d < 0 PROVE FALSE
    <3>1. b * d <= -b BY <2>2
    <3>2. QED BY <1>4, <3>1
  <2>3. QED BY <2>1, <2>2
<1>6. s = r
  <2>1. b * d = 0 BY <1>5
  <2>2. QED BY <1>4, <2>1
<1>7. ASSUME a < b PROVE a = r
  <2>1. ASSUME q > 0 PROVE FALSE
    <3>1. b * q >= b BY <2>1
    <3>2. QED BY <1>1, <1>7, <3>1
  <2>2. ASSUME q < 0 PROVE FALSE
    <3>1. b * q <= -b BY <2>2
    <3>2. QED BY <1>1, <3>1
  <2>3. q = 0 BY <2>1, <2>2
  <2>4. b * q = 0 BY <2>3
  <2>5. QED BY <1>1, <2>4
<1>8. QED BY <1>1, <1>2, <1>6, <1>7

\* The bytes of the buffer, and one read before it.
Byte == Symbols \cup {Stray}

\* The byte that is copied behind those written so far.
ByteBehind(old, back) == IF back > Len(old) THEN Stray ELSE old[Len(old) + 1 - back]

Copied(f, s, len, back) ==
  f = [n \in 0 .. len |-> IF n = 0 THEN s
                          ELSE Append(f[n - 1], ByteBehind(f[n - 1], back))]

\* It is a byte.
LEMMA ByteBehindIs ==
  ASSUME NEW old \in Seq(Byte), NEW back \in Nat \ {0}
  PROVE  ByteBehind(old, back) \in Byte
<1>1. CASE back > Len(old) BY <1>1 DEF ByteBehind, Byte
<1>2. CASE ~(back > Len(old))
  <2>1. Len(old) + 1 - back \in 1 .. Len(old) BY <1>2
  <2>2. old[Len(old) + 1 - back] \in Byte BY <2>1
  <2>3. QED BY <1>2, <2>2 DEF ByteBehind
<1>3. QED BY <1>1, <1>2

\* The loop that copies has a result, one byte longer at each round (lznt1.c 116).
LEMMA CopyEnds ==
  ASSUME NEW s \in Seq(Byte), NEW len \in Nat, NEW back \in Nat \ {0}
  PROVE  \E f : /\ CopyBack(s, len, back) = f[len] /\ Copied(f, s, len, back)
                /\ \A n \in 0 .. len : f[n] \in Seq(Byte)
<1> DEFINE V == Seq(Byte)
           At(f) == [n \in 0 .. len |-> IF n = 0 THEN s
                       ELSE Append(f[n - 1], ByteBehind(f[n - 1], back))]
           step == [p \in (1 .. len) \X V |-> Append(p[2], ByteBehind(p[2], back))]
<1>1. CopyBack(s, len, back) = (CHOOSE f : f = At(f))[len] BY DEF CopyBack, ByteBehind
<1>2. \A i \in 1 .. len : \A v \in V : step[<<i, v>>] = Append(v, ByteBehind(v, back))
  <2> HIDE DEF V
  <2>1. QED OBVIOUS
<1>3. PICK f \in [0 .. len -> V] : Rounds(f, len, s, step)
  <2>1. ASSUME NEW i \in 1 .. len, NEW v \in V PROVE step[<<i, v>>] \in V
    <3>1. ByteBehind(v, back) \in Byte BY ByteBehindIs
    <3>2. Append(v, ByteBehind(v, back)) \in V BY <3>1
    <3> HIDE DEF V, step
    <3>3. QED BY <1>2, <3>2
  <2> HIDE DEF V, step
  <2>2. s \in V BY DEF V
  <2>3. QED BY <2>1, <2>2, RoundsEnd
<1>4. f = At(f)
  <2>1. ASSUME NEW n \in 0 .. len
        PROVE  f[n] = IF n = 0 THEN s ELSE Append(f[n - 1], ByteBehind(f[n - 1], back))
    <3>1. CASE n = 0 BY <1>3, <3>1 DEF Rounds
    <3>2. CASE n # 0
      <4>1. n \in 1 .. len /\ n - 1 \in 0 .. len BY <3>2
      <4> HIDE DEF V, step
      <4>2. f[n - 1] \in V BY <1>3, <4>1
      <4>3. f[n] = step[<<n, f[n - 1]>>] BY <1>3, <3>2 DEF Rounds
      <4>4. QED BY <1>2, <3>2, <4>1, <4>2, <4>3
    <3>3. QED BY <3>1, <3>2
  <2> HIDE DEF V, step
  <2>2. QED BY <1>3, <2>1
<1>5. PICK g : g = At(g) /\ CopyBack(s, len, back) = g[len]
  <2> HIDE DEF At
  <2>1. QED BY <1>1, <1>4
<1>6. \A n \in 0 .. len : g[n] \in V
  <2> DEFINE Good == {n \in 0 .. len : g[n] \in V}
  <2>1. ASSUME NEW n \in 0 .. len, \A j \in 0 .. len : j < n => j \in Good PROVE n \in Good
    <3>1. CASE n = 0 BY <1>5, <3>1
    <3>2. CASE n # 0
      <4>1. n - 1 \in 0 .. len /\ n - 1 < n BY <3>2
      <4>2. g[n - 1] \in V BY <2>1, <4>1
      <4>3. ByteBehind(g[n - 1], back) \in Byte BY <4>2, ByteBehindIs
      <4>4. g[n] = Append(g[n - 1], ByteBehind(g[n - 1], back)) BY <1>5, <3>2
      <4>5. PICK old \in V, byte \in Byte :
              old = g[n - 1] /\ byte = ByteBehind(g[n - 1], back)
        BY <4>2, <4>3
      <4>6. Append(old, byte) \in V OBVIOUS
      <4>7. QED BY <4>4, <4>5, <4>6
    <3>3. QED BY <3>1, <3>2
  <2> HIDE DEF Good
  <2>2. \A n \in 0 .. len : n \in Good BY <2>1, Upwards
  <2>3. QED BY <2>2 DEF Good
<1>7. QED BY <1>5, <1>6 DEF Copied

\* The copy is as long as asked for, whatever the displacement is (lznt1.c 111).
LEMMA CopyIsLong ==
  ASSUME NEW s \in Seq(Byte), NEW len \in Nat, NEW back \in Nat \ {0}
  PROVE  CopyBack(s, len, back) \in Seq(Byte) /\ Len(CopyBack(s, len, back)) = Len(s) + len
<1>1. PICK f : /\ CopyBack(s, len, back) = f[len] /\ Copied(f, s, len, back)
               /\ \A n \in 0 .. len : f[n] \in Seq(Byte)
  BY CopyEnds
<1> DEFINE Good == {n \in 0 .. len : Len(f[n]) = Len(s) + n}
<1>2. ASSUME NEW n \in 0 .. len, \A j \in 0 .. len : j < n => j \in Good PROVE n \in Good
  <2>1. CASE n = 0 BY <1>1, <2>1 DEF Copied
  <2>2. CASE n # 0
    <3>1. n - 1 \in 0 .. len /\ n - 1 < n BY <2>2
    <3>2. PICK old, byte : /\ old \in Seq(Byte) /\ old = f[n - 1]
                           /\ byte = ByteBehind(f[n - 1], back)
                           /\ Len(old) = Len(s) + (n - 1)
      BY <1>1, <1>2, <3>1
    <3>3. f[n] = Append(old, byte) BY <1>1, <2>2, <3>2 DEF Copied
    <3>4. Len(f[n]) = Len(old) + 1 BY <3>3
    <3>5. QED BY <3>2, <3>4
  <2>3. QED BY <2>1, <2>2
<1>3. len \in Good
  <2>1. len \in 0 .. len OBVIOUS
  <2> HIDE DEF Good
  <2>2. QED BY <1>2, <2>1, Upwards
<1>4. QED BY <1>1, <1>3

\* Behind s, t has n bytes, which repeat those that begin back before the end of s.
Repeats(s, back, n, t) ==
  /\ Len(t) = Len(s) + n
  /\ \A i \in 1 .. Len(s) : t[i] = s[i]
  /\ \A i \in 1 .. n : t[Len(s) + i] = s[(Len(s) - back) + ((i - 1) % back) + 1]

\* A round repeats one byte more, be it of what was there or of what was copied.
LEMMA RepeatsOneMore ==
  ASSUME NEW s \in Seq(Byte), NEW back \in 1 .. Len(s), NEW n \in Nat \ {0},
         NEW old \in Seq(Byte), Repeats(s, back, n - 1, old)
  PROVE  Repeats(s, back, n, Append(old, ByteBehind(old, back)))
<1>1. PICK t : t = Append(old, ByteBehind(old, back)) OBVIOUS
<1>2. Len(old) = Len(s) + (n - 1) /\ Len(s) \in Nat BY DEF Repeats
<1>3. /\ Len(t) = Len(s) + n
      /\ \A i \in 1 .. Len(old) : t[i] = old[i]
      /\ t[Len(s) + n] = ByteBehind(old, back)
  <2>1. /\ Len(t) = Len(old) + 1 /\ t[Len(old) + 1] = ByteBehind(old, back)
        /\ \A i \in 1 .. Len(old) : t[i] = old[i]
    BY <1>1
  <2>2. Len(old) + 1 = Len(s) + n BY <1>2
  <2>3. QED BY <2>1, <2>2
<1>4. ByteBehind(old, back) = s[(Len(s) - back) + ((n - 1) % back) + 1]
  <2>1. PICK p \in 1 .. Len(old) : p = Len(s) + n - back /\ ByteBehind(old, back) = old[p]
    <3>1. Len(s) + n - back \in 1 .. Len(old) /\ ~(back > Len(old)) BY <1>2
    <3>2. Len(old) + 1 - back = Len(s) + n - back BY <1>2
    <3>3. ByteBehind(old, back) = old[Len(s) + n - back] BY <3>1, <3>2 DEF ByteBehind
    <3>4. QED BY <3>1, <3>3
  <2>2. CASE n - 1 < back
    <3>1. (n - 1) % back = n - 1
      <4>1. PICK a \in Nat, b \in Nat \ {0} : a = n - 1 /\ b = back OBVIOUS
      <4>2. a % b = a BY <2>2, <4>1, SameRest
      <4>3. QED BY <4>1, <4>2
    <3>2. p \in 1 .. Len(s) BY <1>2, <2>1, <2>2
    <3>3. old[p] = s[p] BY <3>2 DEF Repeats
    <3>4. (Len(s) - back) + (n - 1) + 1 = p BY <1>2, <2>1
    <3>5. QED BY <2>1, <3>1, <3>3, <3>4
  <2>3. CASE ~(n - 1 < back)
    <3>1. PICK i \in 1 .. n - 1 : i = n - back BY <2>3
    <3>2. p = Len(s) + i BY <1>2, <2>1, <3>1
    <3>3. old[p] = s[(Len(s) - back) + ((i - 1) % back) + 1] BY <3>2 DEF Repeats
    <3>4. (i - 1) + back = n - 1 /\ i - 1 \in Nat BY <3>1
    <3>5. (n - 1) % back = (i - 1) % back
      <4>1. PICK a \in Nat, b \in Nat \ {0} : a = i - 1 /\ b = back BY <3>4
      <4>2. (a + b) % b = a % b BY SameRest
      <4>3. QED BY <3>4, <4>1, <4>2
    <3>6. QED BY <2>1, <3>3, <3>5
  <2>4. QED BY <2>2, <2>3
<1>5. ASSUME NEW i \in 1 .. n
      PROVE  t[Len(s) + i] = s[(Len(s) - back) + ((i - 1) % back) + 1]
  <2>1. CASE i = n BY <1>3, <1>4, <2>1
  <2>2. CASE i # n
    <3>1. i \in 1 .. n - 1 /\ Len(s) + i \in 1 .. Len(old) BY <1>2, <2>2
    <3>2. t[Len(s) + i] = old[Len(s) + i] BY <1>3, <3>1
    <3>3. QED BY <3>1, <3>2 DEF Repeats
  <2>3. QED BY <2>1, <2>2
<1>6. ASSUME NEW i \in 1 .. Len(s) PROVE t[i] = s[i]
  <2>1. i \in 1 .. Len(old) BY <1>2
  <2>2. QED BY <1>3, <2>1 DEF Repeats
<1>7. QED BY <1>1, <1>3, <1>5, <1>6 DEF Repeats

\* The copy repeats what is there, its own bytes included, if the displacement is not
\* before the beginning (lznt1.c 116).
LEMMA CopyIs ==
  ASSUME NEW s \in Seq(Byte), NEW len \in Nat, NEW back \in 1 .. Len(s)
  PROVE  CopyBack(s, len, back)
           = s \o [i \in 1 .. len |-> s[(Len(s) - back) + ((i - 1) % back) + 1]]
<1> DEFINE More == [i \in 1 .. len |-> s[(Len(s) - back) + ((i - 1) % back) + 1]]
<1>1. back \in Nat \ {0} OBVIOUS
<1>2. PICK f : /\ CopyBack(s, len, back) = f[len] /\ Copied(f, s, len, back)
               /\ \A n \in 0 .. len : f[n] \in Seq(Byte)
  BY <1>1, CopyEnds
<1>3. Repeats(s, back, len, f[len])
  <2> DEFINE Good == {n \in 0 .. len : Repeats(s, back, n, f[n])}
  <2>1. ASSUME NEW n \in 0 .. len, \A j \in 0 .. len : j < n => j \in Good PROVE n \in Good
    <3>1. CASE n = 0
      <4>1. f[n] = s BY <1>2, <3>1 DEF Copied
      <4>2. QED BY <3>1, <4>1 DEF Repeats
    <3>2. CASE n # 0
      <4>1. n - 1 \in 0 .. len /\ n - 1 < n /\ n \in Nat \ {0} BY <3>2
      <4>2. PICK old \in Seq(Byte) : old = f[n - 1] /\ Repeats(s, back, n - 1, old)
        BY <1>2, <2>1, <4>1
      <4>3. f[n] = Append(old, ByteBehind(old, back)) BY <1>2, <3>2, <4>2 DEF Copied
      <4>4. QED BY <4>1, <4>2, <4>3, RepeatsOneMore
    <3>3. QED BY <3>1, <3>2
  <2>2. len \in 0 .. len OBVIOUS
  <2> HIDE DEF Good
  <2>3. len \in Good BY <2>1, <2>2, Upwards
  <2>4. QED BY <2>3 DEF Good
<1>4. More \in Seq(Byte) /\ Len(More) = len
  <2>1. ASSUME NEW i \in 1 .. len PROVE s[(Len(s) - back) + ((i - 1) % back) + 1] \in Byte
    <3>1. i - 1 \in Int OBVIOUS
    <3>2. (i - 1) % back \in 0 .. back - 1 BY ONLY <1>1, <3>1, Division
    <3>3. (Len(s) - back) + ((i - 1) % back) + 1 \in 1 .. Len(s) BY <3>2
    <3>4. QED BY <3>3
  <2>2. QED BY <2>1
<1>5. f[len] = s \o More
  <2>1. PICK t \in Seq(Byte) : t = f[len] BY <1>2
  <2>2. Len(t) = Len(s) + len /\ Len(s \o More) = Len(s) + len BY <1>3, <1>4, <2>1 DEF Repeats
  <2>3. ASSUME NEW i \in 1 .. Len(s) + len PROVE t[i] = (s \o More)[i]
    <3>1. CASE i <= Len(s)
      <4>1. i \in 1 .. Len(s) BY <3>1
      <4>2. (s \o More)[i] = s[i] BY <1>4, <4>1
      <4>3. QED BY <1>3, <2>1, <4>1, <4>2 DEF Repeats
    <3>2. CASE ~(i <= Len(s))
      <4>1. PICK k \in 1 .. len : i = Len(s) + k
        <5>1. i - Len(s) \in 1 .. len /\ i = Len(s) + (i - Len(s)) BY <3>2
        <5>2. QED BY <5>1
      <4>2. (s \o More)[i] = More[k]
        <5>1. (s \o More)[i] = More[i - Len(s)]
          <6> HIDE DEF More
          <6>1. QED BY <1>4, <3>2
        <5>2. i - Len(s) = k BY <4>1
        <5>3. QED BY <5>1, <5>2
      <4>3. t[i] = s[(Len(s) - back) + ((k - 1) % back) + 1] BY <1>3, <2>1, <4>1 DEF Repeats
      <4>4. QED BY <4>2, <4>3
    <3>3. QED BY <3>1, <3>2
  <2>4. s \o More \in Seq(Byte) BY <1>4
  <2> HIDE DEF More
  <2>5. Len(t) = Len(s \o More) /\ \A i \in 1 .. Len(t) : t[i] = (s \o More)[i]
    BY <2>2, <2>3
  <2>6. t = s \o More BY <2>4, <2>5, SeqEqual
  <2>7. QED BY <2>1, <2>6
<1>6. QED BY <1>2, <1>5

-----------------------------------------------------------------------------
(* LZNT1: the invariant of decompression.                                  *)

\* What holds all the time while a buffer is decompressed: the bytes are bytes of the
\* format as long as every token had a meaning, and the counters do not wrap.
LzTypes ==
  /\ stage \in {"header", "mask", "token"} \cup Done
  /\ out \in Seq(Byte) /\ text \in Seq(Symbols)
  /\ left \in Nat /\ room \in Nat /\ blocksz \in Nat /\ tokens \in Nat
  /\ blockpos \in 0 .. Power[TokenBits] - 1
  /\ sound \in BOOLEAN

LzInv == LzTypes /\ DecodedAsMeant /\ Len(out) + room = Capacity

\* It is what is to be shown, since no byte of the format is a stray one and the shift
\* is that of the format (lznt1.c 99).
LEMMA LzInvSuffices ==
  ASSUME LzInv
  PROVE  TextIsDecoded
<1>1. NothingBehindBuffer BY DEF LzInv, LzTypes, NothingBehindBuffer
<1>2. ASSUME stage = "token", blockpos \in 1 .. ChunkSize
      PROVE  Power[TokenBits - Shift(blockpos)] >= blockpos
  <2>1. Power[TokenBits] \in Nat BY Widths, PowersDouble
  <2>2. blockpos \in Nat \ {0} /\ blockpos <= Power[TokenBits]
    BY <1>2, <2>1 DEF LzInv, LzTypes
  <2>3. /\ TokenBits - Shift(blockpos) \in 0 .. TokenBits
        /\ blockpos <= Power[TokenBits - Shift(blockpos)]
    BY <2>2, ShiftIsMeant
  <2>4. Power[TokenBits - Shift(blockpos)] \in Nat BY <2>3, PowersDouble
  <2>5. QED BY <2>2, <2>3, <2>4
<1>3. ASSUME sound, NEW i \in DOMAIN out PROVE out[i] # Stray
  <2>1. out = text /\ text \in Seq(Symbols) BY <1>3 DEF LzInv, LzTypes, DecodedAsMeant
  <2>2. out[i] \in Symbols BY <1>3, <2>1
  <2>3. QED BY <2>2, LzAssumption
<1>4. QED BY <1>1, <1>2, <1>3 DEF TextIsDecoded, ChunkIsReachable, LzInv

\* A position in the chunk wraps at the width of its type.
LEMMA PositionWraps ==
  ASSUME NEW n \in Nat
  PROVE  n % Power[TokenBits] \in 0 .. Power[TokenBits] - 1
<1>1. PICK p \in Nat \ {0} : p = Power[TokenBits] BY Widths, PowersDouble
<1>2. n % p \in 0 .. p - 1
  <2>1. n \in Int OBVIOUS
  <2>2. QED BY ONLY <1>1, <2>1, Division
<1>3. QED BY <1>1, <1>2

\* A call that fails, and the steps between the parts of the input, write nothing.
LEMMA LzInvWhenNothingIsWritten ==
  ASSUME LzInv, UNCHANGED <<out, room, blockpos, text, sound>>,
         stage' \in {"header", "mask", "token"} \cup Done,
         left' \in Nat, blocksz' \in Nat, tokens' \in Nat
  PROVE  LzInv'
BY DEF LzInv, LzTypes, DecodedAsMeant

\* A chunk that is stored is copied (lznt1.c 158).
LEMMA LzInvStored ==
  ASSUME LzInv, StoredChunk
  PROVE  LzInv'
<1> ChunkSize \in Nat BY LzAssumption
<1>1. CASE ChunkSize > room \/ ChunkSize > left - 2
  <2>1. Fail("bad") BY <1>1 DEF StoredChunk
  <2>2. QED BY <2>1, LzInvWhenNothingIsWritten DEF Fail, Done, LzInv, LzTypes
<1>2. CASE ~(ChunkSize > room \/ ChunkSize > left - 2)
  <2>1. PICK s \in Symbols :
          /\ out' = out \o [i \in 1 .. ChunkSize |-> s]
          /\ text' = text \o [i \in 1 .. ChunkSize |-> s]
          /\ left' = left - 2 - ChunkSize /\ room' = room - ChunkSize
          /\ UNCHANGED <<stage, blocksz, blockpos, tokens, sound>>
    BY <1>2 DEF StoredChunk
  <2>2. PICK bytes : bytes = [i \in 1 .. ChunkSize |-> s] OBVIOUS
  <2>3. bytes \in Seq(Symbols) /\ bytes \in Seq(Byte) /\ Len(bytes) = ChunkSize
    BY <2>2 DEF Byte
  <2>4. /\ out' = out \o bytes /\ text' = text \o bytes BY <2>1, <2>2
  <2>5. out' \in Seq(Byte) /\ text' \in Seq(Symbols) /\ Len(out') = Len(out) + ChunkSize
    <3>1. out \in Seq(Byte) /\ text \in Seq(Symbols) BY DEF LzInv, LzTypes
    <3>2. out \o bytes \in Seq(Byte) BY <2>3, <3>1
    <3>3. text \o bytes \in Seq(Symbols) BY <2>3, <3>1
    <3>4. Len(out \o bytes) = Len(out) + ChunkSize BY <2>3, <3>1
    <3>5. QED BY <2>4, <3>2, <3>3, <3>4
  <2>6. left' \in Nat /\ room' \in Nat /\ Len(out') + room' = Capacity
    <3>1. out \in Seq(Byte) /\ left \in Nat /\ room \in Nat /\ Len(out) + room = Capacity
      BY DEF LzInv, LzTypes
    <3>2. Len(out) \in Nat BY <3>1
    <3>3. PICK chunk \in Nat : chunk = ChunkSize OBVIOUS
    <3>4. /\ chunk <= room /\ chunk <= left - 2 /\ left' = left - 2 - chunk
          /\ room' = room - chunk /\ Len(out') = Len(out) + chunk
      BY <1>2, <2>1, <2>5, <3>1, <3>3
    <3>5. QED BY ONLY <3>1, <3>2, <3>4, chunk \in Nat
  <2>7. LzTypes' BY <2>1, <2>5, <2>6 DEF LzInv, LzTypes
  <2>8. DecodedAsMeant' BY <2>1, <2>4 DEF LzInv, DecodedAsMeant
  <2>9. QED BY <2>6, <2>7, <2>8 DEF LzInv
<1>3. QED BY <1>1, <1>2

\* A byte is written as it is (lznt1.c 123).
LEMMA LzInvLiteral ==
  ASSUME LzInv, NEW s \in Symbols, Literal(s)
  PROVE  LzInv'
<1>1. CASE left = 0 \/ room = 0
  <2>1. Fail("bad") BY <1>1 DEF Literal
  <2>2. QED BY <2>1, LzInvWhenNothingIsWritten DEF Fail, Done, LzInv, LzTypes
<1>2. CASE ~(left = 0 \/ room = 0)
  <2>1. /\ out' = Append(out, s)
        /\ text' = IF sound THEN Append(text, s) ELSE text
        /\ left' = left - 1 /\ blocksz' = blocksz - 1 /\ tokens' = tokens - 1
        /\ room' = room - 1 /\ blockpos' = (blockpos + 1) % Power[TokenBits]
        /\ UNCHANGED <<stage, sound>>
        /\ tokens > 0 /\ blocksz > 0
    BY <1>2 DEF Literal
  <2>2. s \in Byte BY DEF Byte
  <2>3. out' \in Seq(Byte) /\ text' \in Seq(Symbols) /\ Len(out') = Len(out) + 1
    BY <2>1, <2>2 DEF LzInv, LzTypes
  <2>4. blockpos' \in 0 .. Power[TokenBits] - 1
    <3>1. Power[TokenBits] \in Nat BY Widths, PowersDouble
    <3>2. blockpos + 1 \in Nat BY <3>1 DEF LzInv, LzTypes
    <3>3. QED BY <2>1, <3>2, PositionWraps
  <2>5. /\ left' \in Nat /\ blocksz' \in Nat /\ tokens' \in Nat /\ room' \in Nat
        /\ Len(out') + room' = Capacity
    <3>1. /\ out \in Seq(Byte) /\ left \in Nat /\ room \in Nat /\ blocksz \in Nat
          /\ tokens \in Nat /\ Len(out) + room = Capacity
      BY DEF LzInv, LzTypes
    <3>2. Len(out) \in Nat BY <3>1
    <3>3. QED BY <1>2, <2>1, <2>3, <3>1, <3>2
  <2>6. LzTypes' BY <2>1, <2>3, <2>4, <2>5 DEF LzInv, LzTypes
  <2>7. DecodedAsMeant' BY <2>1 DEF LzInv, DecodedAsMeant
  <2>8. QED BY <2>5, <2>6, <2>7 DEF LzInv
<1>3. QED BY <1>1, <1>2

\* What a token refers to is what is copied, as long as it refers to what is there
\* (lznt1.c 108).
LEMMA ReferenceIsMeant ==
  ASSUME LzInv, blockpos # 0, NEW runlen \in 0 .. Power[TokenBits] - 1,
         sound, HasMeaning(runlen, blockpos)
  PROVE  /\ CopyBack(out, LengthOf(runlen, blockpos), BackOf(runlen, blockpos))
              = text \o Meant(runlen, blockpos)
         /\ Meant(runlen, blockpos) \in Seq(Symbols)
<1>1. /\ blockpos \in Nat \ {0} /\ blockpos <= Power[TokenBits]
  <2>1. Power[TokenBits] \in Nat BY Widths, PowersDouble
  <2>2. QED BY <2>1 DEF LzInv, LzTypes
<1>2. PICK len \in Nat, back \in Nat \ {0} :
        /\ len = LengthOf(runlen, blockpos) /\ back = BackOf(runlen, blockpos)
        /\ len = (runlen % Power[MeantShift(blockpos)]) + 3
        /\ back = (runlen \div Power[MeantShift(blockpos)]) + 1
  BY <1>1, TokenIs
<1>3. out = text /\ text \in Seq(Symbols) BY DEF LzInv, LzTypes, DecodedAsMeant
<1>4. back \in 1 .. Len(text) BY <1>2, <1>3 DEF HasMeaning
<1> DEFINE More == [i \in 1 .. len |-> text[(Len(text) - back) + ((i - 1) % back) + 1]]
<1>5. Meant(runlen, blockpos) = More BY <1>2 DEF Meant
<1>6. More \in Seq(Symbols)
  <2>1. ASSUME NEW i \in 1 .. len
        PROVE  text[(Len(text) - back) + ((i - 1) % back) + 1] \in Symbols
    <3>1. i - 1 \in Int OBVIOUS
    <3>2. (i - 1) % back \in 0 .. back - 1 BY ONLY <1>2, <3>1, Division
    <3>3. (Len(text) - back) + ((i - 1) % back) + 1 \in 1 .. Len(text)
      BY <1>3, <1>4, <3>2
    <3>4. QED BY <1>3, <3>3
  <2>2. QED BY <2>1
<1>7. CopyBack(text, len, back) = text \o More
  <2>1. text \in Seq(Byte) BY <1>3 DEF Byte, LzInv, LzTypes
  <2>2. QED BY <1>4, <2>1, CopyIs
<1>8. QED BY <1>2, <1>3, <1>5, <1>6, <1>7

\* A token writes as many bytes as it says and those that it means (lznt1.c 88).
LEMMA LzInvReference ==
  ASSUME LzInv, NEW runlen \in 0 .. Power[TokenBits] - 1, BackReference(runlen)
  PROVE  LzInv'
<1>1. CASE left < 2 \/ blocksz < 2 \/ blockpos = 0 \/ ~HasRoom(LengthOf(runlen, blockpos))
  <2>1. Fail("bad") BY <1>1 DEF BackReference
  <2>2. QED BY <2>1, LzInvWhenNothingIsWritten DEF Fail, Done, LzInv, LzTypes
<1>2. CASE ~(left < 2 \/ blocksz < 2 \/ blockpos = 0
              \/ ~HasRoom(LengthOf(runlen, blockpos)))
  <2>1. /\ left \in Nat /\ room \in Nat /\ blocksz \in Nat /\ tokens \in Nat
        /\ out \in Seq(Byte) /\ Len(out) \in Nat /\ Len(out) + room = Capacity
        /\ blockpos \in Nat \ {0} /\ blockpos <= Power[TokenBits] /\ sound \in BOOLEAN
    <3>1. Power[TokenBits] \in Nat BY Widths, PowersDouble
    <3>2. QED BY <1>2, <3>1 DEF LzInv, LzTypes
  <2>2. PICK len \in Nat, back \in Nat \ {0} :
          len = LengthOf(runlen, blockpos) /\ back = BackOf(runlen, blockpos)
    BY <2>1, TokenIs
  <2>3. /\ out' = CopyBack(out, len, back)
        /\ left' = left - 2 /\ blocksz' = blocksz - 2 /\ tokens' = tokens - 1
        /\ room' = room - len
        /\ blockpos' = (blockpos + len) % Power[TokenBits]
        /\ sound' = (sound /\ HasMeaning(runlen, blockpos))
        /\ text' = IF sound' THEN text \o Meant(runlen, blockpos) ELSE text
        /\ stage' = stage /\ tokens > 0 /\ left >= 2 /\ blocksz >= 2 /\ room >= len
    BY <1>2, <2>1, <2>2 DEF BackReference, HasRoom
  <2>4. out' \in Seq(Byte) /\ Len(out') = Len(out) + len BY <2>1, <2>3, CopyIsLong
  <2>5. /\ left' \in Nat /\ blocksz' \in Nat /\ tokens' \in Nat /\ room' \in Nat
        /\ Len(out') + room' = Capacity
    BY <2>1, <2>3, <2>4
  <2>6. blockpos' \in 0 .. Power[TokenBits] - 1
    <3>1. blockpos + len \in Nat BY <2>1
    <3>2. QED BY <2>3, <3>1, PositionWraps
  <2>7. sound' => out' = text' /\ text' \in Seq(Symbols)
    <3>1. SUFFICES ASSUME sound' PROVE out' = text' /\ text' \in Seq(Symbols) OBVIOUS
    <3>2. sound /\ HasMeaning(runlen, blockpos) BY <2>3, <3>1
    <3>3. /\ CopyBack(out, len, back) = text \o Meant(runlen, blockpos)
          /\ Meant(runlen, blockpos) \in Seq(Symbols)
      BY <1>2, <2>2, <3>2, ReferenceIsMeant
    <3>4. text' = text \o Meant(runlen, blockpos) BY <2>3, <3>1
    <3>5. text \in Seq(Symbols) BY DEF LzInv, LzTypes
    <3>6. PICK more \in Seq(Symbols) : more = Meant(runlen, blockpos) BY <3>3
    <3>7. text \o more \in Seq(Symbols) BY <3>5
    <3>8. QED BY <2>3, <3>3, <3>4, <3>6, <3>7
  <2>8. text' \in Seq(Symbols)
    <3>1. ~sound' => text' = text BY <2>3
    <3>2. QED BY <2>7, <3>1 DEF LzInv, LzTypes
  <2>9. sound' \in BOOLEAN BY <2>3
  <2>10. LzTypes' BY <2>3, <2>4, <2>5, <2>6, <2>8, <2>9 DEF LzInv, LzTypes
  <2>11. QED BY <2>5, <2>7, <2>10 DEF LzInv, DecodedAsMeant
<1>3. QED BY <1>1, <1>2

\* Every step keeps it (RtlDecompressBufferLZNT1).
LEMMA LzStep ==
  ASSUME LzInv, [LzNext]_lzVars
  PROVE  LzInv'
<1>1. CASE EndOfInput
  BY <1>1, LzInvWhenNothingIsWritten DEF EndOfInput, Fail, Done, LzInv, LzTypes
<1>2. CASE HalfHeader
  BY <1>2, LzInvWhenNothingIsWritten DEF HalfHeader, Fail, Done, LzInv, LzTypes
<1>3. CASE StoredChunk BY <1>3, LzInvStored
<1>4. CASE CompressedChunk
  <2>1. /\ stage' = "mask" /\ left' \in Nat /\ blocksz' \in Nat /\ blockpos' = 0
        /\ UNCHANGED <<out, room, tokens, text, sound>>
    BY <1>4, LzAssumption DEF CompressedChunk, LzInv, LzTypes
  <2>2. 0 \in 0 .. Power[TokenBits] - 1
    <3>1. Power[TokenBits] \in Nat \ {0} BY Widths, PowersDouble
    <3>2. QED BY <3>1
  <2>3. QED BY <2>1, <2>2 DEF LzInv, LzTypes, DecodedAsMeant
<1>5. CASE EndOfChunk
  BY <1>5, LzInvWhenNothingIsWritten DEF EndOfChunk, LzInv, LzTypes
<1>6. CASE Mask
  <2>1. CASE left = 0
    <3>1. Fail("bad") BY <1>6, <2>1 DEF Mask
    <3>2. QED BY <3>1, LzInvWhenNothingIsWritten DEF Fail, Done, LzInv, LzTypes
  <2>2. CASE left # 0
    <3>1. /\ left' = left - 1 /\ blocksz' = blocksz - 1 /\ tokens' = MaskTokens
          /\ stage' = "token" /\ blocksz > 0
          /\ UNCHANGED <<out, room, blockpos, text, sound>>
      BY <1>6, <2>2 DEF Mask
    <3>2. left' \in Nat /\ blocksz' \in Nat /\ tokens' \in Nat
      BY <2>2, <3>1, LzAssumption DEF LzInv, LzTypes
    <3>3. QED BY <3>1, <3>2, LzInvWhenNothingIsWritten
  <2>3. QED BY <2>1, <2>2
<1>7. CASE EndOfGroup
  BY <1>7, LzInvWhenNothingIsWritten DEF EndOfGroup, LzInv, LzTypes
<1>8. CASE \E runlen \in 0 .. Power[TokenBits] - 1 : BackReference(runlen)
  BY <1>8, LzInvReference
<1>9. CASE \E s \in Symbols : Literal(s) BY <1>9, LzInvLiteral
<1>10. CASE UNCHANGED lzVars
  BY <1>10, LzInvWhenNothingIsWritten DEF lzVars, LzInv, LzTypes
<1>11. QED BY <1>1, <1>2, <1>3, <1>4, <1>5, <1>6, <1>7, <1>8, <1>9, <1>10 DEF LzNext

\* Nothing is written in the beginning.
LEMMA LzStarts == LzInit => LzInv
<1>1. Power[TokenBits] \in Nat \ {0} BY Widths, PowersDouble
<1>2. 0 \in 0 .. Power[TokenBits] - 1 BY <1>1
<1>3. QED BY <1>2, LzAssumption DEF LzInit, LzInv, LzTypes, DecodedAsMeant

\* What is decompressed is what the tokens mean, nothing is written behind the buffer,
\* and a token can reach all of its chunk, for tokens, chunks and buffers of any size
\* (RtlDecompressBufferLZNT1).
THEOREM TextIsDecodedAlways == LzSpec => []TextIsDecoded
<1>1. LzInit => LzInv BY LzStarts
<1>2. LzInv /\ [LzNext]_lzVars => LzInv' BY LzStep
<1>3. LzInv => TextIsDecoded BY LzInvSuffices
<1>4. QED BY <1>1, <1>2, <1>3, PTL DEF LzSpec

-----------------------------------------------------------------------------
(* Access control lists: the bytes of ACEs.                                *)

\* The sizes of the first ACEs add up: the loop over ace->Header.AceSize (sd.c).
SumsTo(f, aces) ==
  f = [i \in 0 .. Len(aces) |-> IF i = 0 THEN 0 ELSE f[i - 1] + aces[i].size]

\* They have a sum.
LEMMA SumEnds ==
  ASSUME NEW aces \in Seq(Ace)
  PROVE  \E f \in [0 .. Len(aces) -> Nat] : SumsTo(f, aces)
<1> DEFINE step == [p \in (1 .. Len(aces)) \X Nat |-> p[2] + aces[p[1]].size]
<1>1. ASSUME NEW i \in 1 .. Len(aces) PROVE aces[i] \in Ace /\ aces[i].size \in Nat
  <2>1. aces[i] \in Ace OBVIOUS
  <2>2. QED BY <2>1 DEF Ace
<1>2. \A i \in 1 .. Len(aces) : \A v \in Nat : step[<<i, v>>] = v + aces[i].size OBVIOUS
<1>3. PICK f \in [0 .. Len(aces) -> Nat] : Rounds(f, Len(aces), 0, step)
  <2>1. ASSUME NEW i \in 1 .. Len(aces), NEW v \in Nat PROVE step[<<i, v>>] \in Nat
    <3>1. v + aces[i].size \in Nat BY <1>1
    <3> HIDE DEF step
    <3>2. QED BY <1>2, <3>1
  <2>2. Len(aces) \in Nat OBVIOUS
  <2> HIDE DEF step
  <2>3. QED BY <2>1, <2>2, RoundsEnd
<1>4. ASSUME NEW i \in 0 .. Len(aces)
      PROVE  f[i] = IF i = 0 THEN 0 ELSE f[i - 1] + aces[i].size
  <2>1. CASE i = 0 BY <1>3, <2>1 DEF Rounds
  <2>2. CASE i # 0
    <3>1. i \in 1 .. Len(aces) /\ i - 1 \in 0 .. Len(aces) BY <2>2
    <3> HIDE DEF step
    <3>2. f[i - 1] \in Nat BY <1>3, <3>1
    <3>3. f[i] = step[<<i, f[i - 1]>>] BY <1>3, <2>2 DEF Rounds
    <3>4. QED BY <1>2, <2>2, <3>1, <3>2, <3>3
  <2>3. QED BY <2>1, <2>2
<1>5. SumsTo(f, aces)
  <2> HIDE DEF step
  <2>1. QED BY <1>3, <1>4 DEF SumsTo
<1>6. QED BY <1>3, <1>5

\* The bytes of the ACEs before a place, which the walk of RtlFirstFreeAce counts.
LEMMA BytesAddUp ==
  ASSUME NEW aces \in Seq(Ace)
  PROVE  /\ BytesUpTo(aces, 0) = 0
         /\ \A i \in 0 .. Len(aces) : BytesUpTo(aces, i) \in Nat
         /\ \A i \in 1 .. Len(aces) :
              /\ aces[i].size \in Nat \ {0}
              /\ BytesUpTo(aces, i) = BytesUpTo(aces, i - 1) + aces[i].size
<1> DEFINE At(f) == [i \in 0 .. Len(aces) |-> IF i = 0 THEN 0 ELSE f[i - 1] + aces[i].size]
<1>1. \A n : BytesUpTo(aces, n) = (CHOOSE f : f = At(f))[n] BY DEF BytesUpTo
<1>2. PICK f : f = At(f) /\ f = CHOOSE g : g = At(g)
  <2>1. \E f : f = At(f) BY SumEnds DEF SumsTo
  <2> HIDE DEF At
  <2>2. QED BY <2>1
<1>3. \A n : BytesUpTo(aces, n) = f[n]
  <2> HIDE DEF At
  <2>1. QED BY <1>1, <1>2
<1>4. ASSUME NEW i \in 1 .. Len(aces) PROVE aces[i].size \in Nat \ {0}
  <2>1. aces[i] \in Ace OBVIOUS
  <2>2. QED BY <2>1 DEF Ace
<1>5. ASSUME NEW i \in 1 .. Len(aces) PROVE f[i] = f[i - 1] + aces[i].size BY <1>2
<1>6. f[0] = 0 BY <1>2
<1>7. \A i \in 0 .. Len(aces) : f[i] \in Nat
  <2> DEFINE Good == {i \in 0 .. Len(aces) : f[i] \in Nat}
  <2>1. ASSUME NEW i \in 0 .. Len(aces), \A j \in 0 .. Len(aces) : j < i => j \in Good
        PROVE  i \in Good
    <3>1. CASE i = 0 BY <1>6, <3>1
    <3>2. CASE i # 0
      <4>1. i \in 1 .. Len(aces) /\ i - 1 \in 0 .. Len(aces) /\ i - 1 < i BY <3>2
      <4>2. f[i - 1] \in Nat /\ aces[i].size \in Nat BY <1>4, <2>1, <4>1
      <4>3. f[i] = f[i - 1] + aces[i].size BY <1>5, <4>1
      <4>4. f[i] \in Nat BY <4>2, <4>3
      <4>5. QED BY <4>4
    <3>3. QED BY <3>1, <3>2
  <2>2. Len(aces) \in Nat OBVIOUS
  <2> HIDE DEF Good
  <2>3. \A i \in 0 .. Len(aces) : i \in Good BY <2>1, <2>2, Upwards
  <2>4. QED BY <2>3 DEF Good
<1> HIDE DEF At
<1>8. QED BY <1>3, <1>4, <1>5, <1>6, <1>7

\* Each ACE ends behind where it begins: later ones begin later.
LEMMA BytesGrow ==
  ASSUME NEW aces \in Seq(Ace), NEW j \in 0 .. Len(aces), NEW i \in 0 .. j
  PROVE  /\ BytesUpTo(aces, i) <= BytesUpTo(aces, j)
         /\ i < j => BytesUpTo(aces, i) < BytesUpTo(aces, j)
<1> DEFINE B(n) == BytesUpTo(aces, n)
           Good == {k \in 0 .. Len(aces) : \A n \in 0 .. k : n < k => B(n) < B(k)}
<1>1. Len(aces) \in Nat OBVIOUS
<1>2. ASSUME NEW k \in 0 .. Len(aces), \A n \in 0 .. Len(aces) : n < k => n \in Good
      PROVE  k \in Good
  <2>1. SUFFICES ASSUME NEW n \in 0 .. k, n < k PROVE B(n) < B(k) OBVIOUS
  <2>2. k \in 1 .. Len(aces) /\ k - 1 \in 0 .. Len(aces) /\ k - 1 < k /\ n \in 0 .. k - 1
        /\ n \in 0 .. Len(aces)
    BY <2>1
  <2>3. PICK bytes \in Nat \ {0} : bytes = aces[k].size /\ B(k) = B(k - 1) + bytes
    BY <2>2, BytesAddUp
  <2>4. B(n) \in Nat /\ B(k - 1) \in Nat BY <2>2, BytesAddUp
  <2>5. k - 1 \in Good BY <1>2, <2>2
  <2>6. n < k - 1 => B(n) < B(k - 1) BY <2>2, <2>5
  <2> HIDE DEF B
  <2>7. n = k - 1 => B(n) = B(k - 1) OBVIOUS
  <2>8. QED BY <2>1, <2>2, <2>3, <2>4, <2>6, <2>7
<1>3. j \in Good
  <2> HIDE DEF Good
  <2>1. QED BY <1>1, <1>2, Upwards
<1>4. B(i) \in Nat /\ B(j) \in Nat
  <2>1. i \in 0 .. Len(aces) OBVIOUS
  <2>2. QED BY <2>1, BytesAddUp
<1>5. i < j => B(i) < B(j) BY <1>3
<1> HIDE DEF B, Good
<1>6. B(i) <= B(j)
  <2>1. i = j \/ i < j OBVIOUS
  <2>2. QED BY <1>4, <1>5, <2>1
<1>7. QED BY <1>5, <1>6 DEF B

\* n ACEs of s behind the first c are those of t behind the first d.
SameAces(s, c, t, d, n) ==
  /\ c + n <= Len(s) /\ d + n <= Len(t)
  /\ \A i \in 1 .. n : t[d + i] = s[c + i]

\* Their bytes.
BytesOf(aces, c, n) == BytesUpTo(aces, c + n) - BytesUpTo(aces, c)

\* The same ACEs at other places have the same bytes: those that are moved and those
\* that are put between them (sd.c).
LEMMA SameBytes ==
  ASSUME NEW s \in Seq(Ace), NEW t \in Seq(Ace), NEW c \in Nat, NEW d \in Nat, NEW n \in Nat,
         SameAces(s, c, t, d, n)
  PROVE  BytesOf(t, d, n) = BytesOf(s, c, n)
<1> USE DEF SameAces
<1> DEFINE S(i) == BytesUpTo(s, c + i)
           T(i) == BytesUpTo(t, d + i)
           Good == {k \in 0 .. n : T(k) - T(0) = S(k) - S(0)}
<1>1. \A i \in 0 .. n : S(i) \in Nat /\ T(i) \in Nat
  <2>1. SUFFICES ASSUME NEW i \in 0 .. n PROVE S(i) \in Nat /\ T(i) \in Nat OBVIOUS
  <2>2. c + i \in 0 .. Len(s) /\ d + i \in 0 .. Len(t) OBVIOUS
  <2>3. QED BY <2>2, BytesAddUp
<1>2. ASSUME NEW k \in 0 .. n, \A i \in 0 .. n : i < k => i \in Good PROVE k \in Good
  <2>1. CASE k = 0
    <3> HIDE DEF S, T
    <3>1. S(k) = S(0) /\ T(k) = T(0) BY <2>1
    <3>2. QED BY <1>1, <3>1
  <2>2. CASE k # 0
    <3>1. k \in 1 .. n /\ k - 1 \in 0 .. n /\ k - 1 < k BY <2>2
    <3>2. c + k \in 1 .. Len(s) /\ d + k \in 1 .. Len(t) BY <3>1
    <3>3. /\ s[c + k].size \in Nat /\ S(k) = BytesUpTo(s, (c + k) - 1) + s[c + k].size
          /\ T(k) = BytesUpTo(t, (d + k) - 1) + t[d + k].size
      BY <3>2, BytesAddUp
    <3>4. (c + k) - 1 = c + (k - 1) /\ (d + k) - 1 = d + (k - 1) BY <3>1
    <3>5. PICK z \in Nat : z = s[c + k].size /\ z = t[d + k].size BY <3>1, <3>3
    <3>6. S(k) = S(k - 1) + z /\ T(k) = T(k - 1) + z BY <3>3, <3>4, <3>5
    <3>7. T(k - 1) - T(0) = S(k - 1) - S(0) BY <1>2, <3>1
    <3>8. 0 \in 0 .. n OBVIOUS
    <3> HIDE DEF S, T
    <3>9. PICK s0 \in Nat, t0 \in Nat, s1 \in Nat, t1 \in Nat :
            s0 = S(0) /\ t0 = T(0) /\ s1 = S(k - 1) /\ t1 = T(k - 1)
      BY <1>1, <3>1, <3>8
    <3>10. t1 - t0 = s1 - s0 BY <3>7, <3>9
    <3>11. PICK sk \in Nat, tk \in Nat : sk = s1 + z /\ tk = t1 + z OBVIOUS
    <3>12. tk - t0 = sk - s0 BY <3>10, <3>11
    <3>13. S(k) = sk /\ T(k) = tk BY <3>6, <3>9, <3>11
    <3>14. T(k) - T(0) = S(k) - S(0) BY <3>9, <3>12, <3>13
    <3>15. QED BY <3>14
  <2>3. QED BY <2>1, <2>2
<1>3. n \in Good
  <2>1. n \in 0 .. n OBVIOUS
  <2> HIDE DEF Good
  <2>2. QED BY <1>2, <2>1, Upwards
<1>4. T(n) - T(0) = S(n) - S(0) BY <1>3
<1>5. c + 0 = c /\ d + 0 = d OBVIOUS
<1>6. QED BY <1>4, <1>5 DEF BytesOf

\* An ACE behind the others adds its bytes (RtlpAddKnownAce).
LEMMA BytesWithOneMore ==
  ASSUME NEW aces \in Seq(Ace), NEW ace \in Ace
  PROVE  /\ Append(aces, ace) \in Seq(Ace)
         /\ AceBytes(Append(aces, ace)) = AceBytes(aces) + ace.size
<1>1. PICK t \in Seq(Ace) : t = Append(aces, ace) BY AppendProperties
<1>2. PICK n \in Nat : n = Len(aces) OBVIOUS
<1>3. Len(t) = n + 1 /\ t[n + 1] = ace /\ \A i \in 1 .. n : t[i] = aces[i] BY <1>1, <1>2
<1>4. BytesUpTo(t, n) = BytesUpTo(aces, n)
  <2>1. SameAces(aces, 0, t, 0, n) /\ 0 \in Nat BY <1>2, <1>3 DEF SameAces
  <2>2. BytesOf(t, 0, n) = BytesOf(aces, 0, n) BY <2>1, SameBytes
  <2>3. /\ BytesUpTo(t, 0) = 0 /\ BytesUpTo(aces, 0) = 0 /\ 0 + n = n
        /\ BytesUpTo(t, n) \in Nat /\ BytesUpTo(aces, n) \in Nat
    <3>1. n \in 0 .. Len(t) /\ n \in 0 .. Len(aces) BY <1>2, <1>3
    <3>2. QED BY <3>1, BytesAddUp
  <2>4. QED BY <2>2, <2>3 DEF BytesOf
<1>5. BytesUpTo(t, n + 1) = BytesUpTo(t, (n + 1) - 1) + t[n + 1].size
  <2>1. n + 1 \in 1 .. Len(t) BY <1>3
  <2>2. QED BY <2>1, BytesAddUp
<1>6. (n + 1) - 1 = n OBVIOUS
<1>7. QED BY <1>1, <1>2, <1>3, <1>4, <1>5, <1>6 DEF AceBytes

\* A list of ACEs within another.
Inserted(s, index, list) == SubSeq(s, 1, index) \o list \o SubSeq(s, index + 1, Len(s))

\* What stands where in t, which is s with list behind the first index ACEs.
HasInserted(t, s, index, list) ==
  /\ t \in Seq(Ace) /\ Len(t) = Len(s) + Len(list)
  /\ \A i \in 1 .. index : t[i] = s[i]
  /\ \A i \in 1 .. Len(list) : t[index + i] = list[i]
  /\ \A i \in 1 .. Len(s) - index : t[(index + Len(list)) + i] = s[index + i]

\* The ACEs that are moved are those that were there (RtlpAddData).
LEMMA InsertedIs ==
  ASSUME NEW s \in Seq(Ace), NEW list \in Seq(Ace), NEW index \in 0 .. Len(s),
         NEW t, t = Inserted(s, index, list)
  PROVE  HasInserted(t, s, index, list)
<1>1. PICK before \in Seq(Ace) :
        /\ before = SubSeq(s, 1, index) /\ Len(before) = index
        /\ \A i \in 1 .. index : before[i] = s[i]
  <2>1. SubSeq(s, 1, index) \in Seq(Ace)
    <3>1. \A i \in 1 .. index : s[i] \in Ace OBVIOUS
    <3>2. QED BY <3>1, SubSeqProperties
  <2>2. Len(SubSeq(s, 1, index)) = index OBVIOUS
  <2>3. \A i \in 1 .. index : SubSeq(s, 1, index)[i] = s[i] OBVIOUS
  <2>4. QED BY <2>1, <2>2, <2>3
<1>2. PICK behind \in Seq(Ace) :
        /\ behind = SubSeq(s, index + 1, Len(s)) /\ Len(behind) = Len(s) - index
        /\ \A i \in 1 .. Len(s) - index : behind[i] = s[index + i]
  <2>1. SubSeq(s, index + 1, Len(s)) \in Seq(Ace)
    <3>1. \A i \in index + 1 .. Len(s) : s[i] \in Ace OBVIOUS
    <3>2. QED BY <3>1, SubSeqProperties
  <2>2. Len(SubSeq(s, index + 1, Len(s))) = Len(s) - index OBVIOUS
  <2>3. \A i \in 1 .. Len(s) - index : SubSeq(s, index + 1, Len(s))[i] = s[index + i] OBVIOUS
  <2>4. QED BY <2>1, <2>2, <2>3
<1>3. t = (before \o list) \o behind BY <1>1, <1>2 DEF Inserted
<1>4. PICK both \in Seq(Ace) :
        /\ both = before \o list /\ Len(both) = index + Len(list)
        /\ \A i \in 1 .. index : both[i] = before[i]
        /\ \A i \in 1 .. Len(list) : both[index + i] = list[i]
  <2>1. before \o list \in Seq(Ace) /\ Len(before \o list) = index + Len(list) BY <1>1
  <2>2. \A i \in 1 .. index : (before \o list)[i] = before[i] BY <1>1
  <2>3. ASSUME NEW i \in 1 .. Len(list) PROVE (before \o list)[index + i] = list[i]
    <3>1. index + i \in Len(before) + 1 .. Len(before) + Len(list) /\ index + i - index = i BY <1>1
    <3>2. QED BY <1>1, <3>1
  <2>4. QED BY <2>1, <2>2, <2>3
<1>5. t \in Seq(Ace) /\ Len(t) = Len(s) + Len(list)
  <2>1. both \o behind \in Seq(Ace) /\ Len(both \o behind) = Len(both) + Len(behind) OBVIOUS
  <2>2. t = both \o behind BY <1>3, <1>4
  <2>3. Len(behind) = Len(s) - index /\ Len(both) = index + Len(list) BY <1>2, <1>4
  <2>4. Len(s) \in Nat /\ Len(list) \in Nat /\ index \in Nat OBVIOUS
  <2>5. Len(both) + Len(behind) = Len(s) + Len(list) BY <2>3, <2>4
  <2>6. QED BY <2>1, <2>2, <2>5
<1>6. \A i \in 1 .. index + Len(list) : t[i] = both[i]
  <2>1. \A i \in 1 .. Len(both) : (both \o behind)[i] = both[i] OBVIOUS
  <2>2. QED BY <1>3, <1>4, <2>1
<1>7. ASSUME NEW i \in 1 .. Len(s) - index
      PROVE  t[(index + Len(list)) + i] = s[index + i]
  <2>1. PICK k \in Len(both) + 1 .. Len(both) + Len(behind) :
          k = (index + Len(list)) + i /\ k - Len(both) = i
    <3>1. Len(behind) = Len(s) - index /\ Len(both) = index + Len(list) BY <1>2, <1>4
    <3>2. Len(s) \in Nat /\ Len(list) \in Nat /\ index \in Nat OBVIOUS
    <3>3. PICK k \in Nat : k = (index + Len(list)) + i BY <3>2
    <3>4. /\ k >= Len(both) + 1 /\ k <= Len(both) + Len(behind) /\ k - Len(both) = i
          /\ Len(both) \in Nat /\ Len(behind) \in Nat
      BY <3>1, <3>2, <3>3
    <3>5. QED BY <3>3, <3>4
  <2>2. (both \o behind)[k] = behind[k - Len(both)] OBVIOUS
  <2>3. QED BY <1>2, <1>3, <1>4, <2>1, <2>2
<1>8. ASSUME NEW i \in 1 .. index PROVE t[i] = s[i]
  <2>1. i \in 1 .. index + Len(list) OBVIOUS
  <2>2. QED BY <1>1, <1>4, <1>6, <2>1
<1>9. ASSUME NEW i \in 1 .. Len(list) PROVE t[index + i] = list[i]
  <2>1. index + i \in 1 .. index + Len(list) OBVIOUS
  <2>2. QED BY <1>4, <1>6, <2>1
<1>10. QED BY <1>5, <1>7, <1>8, <1>9 DEF HasInserted

\* The bytes of a list that is put into another add up (RtlpAddData).
LEMMA BytesWithMore ==
  ASSUME NEW s \in Seq(Ace), NEW list \in Seq(Ace), NEW index \in 0 .. Len(s)
  PROVE  AceBytes(Inserted(s, index, list)) = AceBytes(s) + AceBytes(list)
<1>1. PICK t \in Seq(Ace) :
        /\ t = Inserted(s, index, list) /\ Len(t) = Len(s) + Len(list)
        /\ \A i \in 1 .. index : t[i] = s[i]
        /\ \A i \in 1 .. Len(list) : t[index + i] = list[i]
        /\ \A i \in 1 .. Len(s) - index : t[(index + Len(list)) + i] = s[index + i]
  <2>1. PICK u : u = Inserted(s, index, list) OBVIOUS
  <2>2. HasInserted(u, s, index, list) BY <2>1, InsertedIs
  <2>3. QED BY <2>1, <2>2 DEF HasInserted
<1>2. PICK n \in Nat, m \in Nat : n = Len(s) /\ m = Len(list) OBVIOUS
<1>3. BytesUpTo(t, index) - BytesUpTo(t, 0) = BytesUpTo(s, index) - BytesUpTo(s, 0)
  <2>1. SameAces(s, 0, t, 0, index) /\ 0 \in Nat /\ index \in Nat
    BY <1>1, <1>2 DEF SameAces
  <2>2. BytesOf(t, 0, index) = BytesOf(s, 0, index) BY <2>1, SameBytes
  <2>3. 0 + index = index OBVIOUS
  <2>4. QED BY <2>2, <2>3 DEF BytesOf
<1>4. BytesUpTo(t, index + m) - BytesUpTo(t, index) = BytesUpTo(list, m) - BytesUpTo(list, 0)
  <2>1. SameAces(list, 0, t, index, m) /\ 0 \in Nat /\ index \in Nat
    BY <1>1, <1>2 DEF SameAces
  <2>2. BytesOf(t, index, m) = BytesOf(list, 0, m) BY <2>1, SameBytes
  <2>3. 0 + m = m OBVIOUS
  <2>4. QED BY <2>2, <2>3 DEF BytesOf
<1>5. BytesUpTo(t, n + m) - BytesUpTo(t, index + m) = BytesUpTo(s, n) - BytesUpTo(s, index)
  <2>1. index + m \in Nat /\ n - index \in Nat /\ index \in Nat BY <1>2
  <2>2. PICK d \in Nat, k \in Nat : d = index + m /\ k = n - index BY <2>1
  <2>3. SameAces(s, index, t, d, k) BY <1>1, <1>2, <2>2 DEF SameAces
  <2>4. BytesOf(t, d, k) = BytesOf(s, index, k) BY <2>1, <2>3, SameBytes
  <2>5. d + k = n + m /\ index + k = n BY <1>2, <2>2
  <2>6. QED BY <2>2, <2>4, <2>5 DEF BytesOf
<1>6. PICK ti \in Nat, tm \in Nat, tn \in Nat, si \in Nat, sn \in Nat, lm \in Nat :
        /\ ti = BytesUpTo(t, index) /\ tm = BytesUpTo(t, index + m)
        /\ tn = BytesUpTo(t, n + m) /\ si = BytesUpTo(s, index)
        /\ sn = BytesUpTo(s, n) /\ lm = BytesUpTo(list, m)
  <2>1. /\ index \in 0 .. Len(t) /\ index + m \in 0 .. Len(t) /\ n + m \in 0 .. Len(t)
        /\ n \in 0 .. Len(s) /\ m \in 0 .. Len(list)
    BY <1>1, <1>2
  <2>2. QED BY <2>1, BytesAddUp
<1>7. BytesUpTo(t, 0) = 0 /\ BytesUpTo(s, 0) = 0 /\ BytesUpTo(list, 0) = 0 BY BytesAddUp
<1>8. ti - 0 = si - 0 /\ tm - ti = lm - 0 /\ tn - tm = sn - si
  BY <1>3, <1>4, <1>5, <1>6, <1>7
<1>9. tn = sn + lm BY <1>8
<1>10. QED BY <1>1, <1>2, <1>6, <1>9 DEF AceBytes

-----------------------------------------------------------------------------
(* Access control lists: sizes, the walk over a list, and its room.        *)

\* Sizes are rounded up to a multiple of four, once (sd.c).
LEMMA RoundUpIs ==
  ASSUME NEW n \in Nat
  PROVE  /\ RoundUp(n) \in n .. n + 3
         /\ \E q \in Nat : RoundUp(n) = 4 * q
         /\ \A q \in Nat : n = 4 * q => RoundUp(n) = n
<1>1. PICK m \in Int : m = n + 3 OBVIOUS
<1>2. PICK q \in Int, r \in 0 .. 3 : q = m \div 4 /\ m = 4 * q + r
  <2>1. 4 \in Nat \ {0} OBVIOUS
  <2>2. m \div 4 \in Int /\ m % 4 \in 0 .. 4 - 1 /\ m = 4 * (m \div 4) + (m % 4)
    BY ONLY m \in Int, <2>1, Division
  <2>3. QED BY <2>2
<1>3. RoundUp(n) = 4 * q BY <1>1, <1>2 DEF RoundUp
<1>4. 4 * q \in n .. n + 3 /\ q \in Nat BY <1>1, <1>2
<1>5. ASSUME NEW p \in Nat, n = 4 * p PROVE q = p BY <1>1, <1>2, <1>5
<1>6. QED BY <1>3, <1>4, <1>5

\* The size that RtlCreateAcl stores has room for the header and stays as it is when
\* it is rounded, or it is nothing.
LEMMA StoredSizeIs ==
  ASSUME NEW bytes \in Nat, bytes >= AclHeader, bytes < SizeModulus,
         NEW stored, stored = RoundUp(bytes) % SizeModulus
  PROVE  /\ stored \in 0 .. SizeModulus - 1 /\ RoundUp(stored) = stored
         /\ stored = 0 \/ stored >= AclHeader
<1>1. PICK width \in Nat \ {0} : width = SizeModulus BY SecurityAssumption
<1>2. PICK m \in Int : width = 4 * m
  <2>1. width \in Int /\ 4 \in Nat \ {0} OBVIOUS
  <2>2. width \div 4 \in Int /\ width = 4 * (width \div 4) + (width % 4)
    BY ONLY <2>1, Division
  <2>3. width % 4 = 0 BY <1>1, SecurityAssumption
  <2>4. width = 4 * (width \div 4)
    <3>1. PICK q \in Int, r \in {0} : q = width \div 4 /\ r = width % 4 BY <2>2, <2>3
    <3>2. width = 4 * q + r BY <2>2, <3>1
    <3>3. QED BY <3>1, <3>2
  <2>5. QED BY <2>2, <2>4
<1>3. PICK q \in Nat : RoundUp(bytes) = 4 * q /\ 4 * q \in bytes .. bytes + 3 BY RoundUpIs
<1>4. 4 * q <= width BY <1>1, <1>2, <1>3
<1>5. CASE 4 * q = width
  <2>1. (0 + width) % width = 0 % width /\ 0 % width = 0 BY SameRest
  <2>2. stored = 0 BY <1>1, <1>3, <1>5, <2>1
  <2>3. RoundUp(0) = 0 BY RoundUpIs
  <2>4. QED BY <1>1, <2>2, <2>3
<1>6. CASE 4 * q < width
  <2>1. PICK a \in Nat : a = 4 * q OBVIOUS
  <2>2. a % width = a BY <1>6, <2>1, SameRest
  <2>3. stored = a BY <1>1, <1>3, <2>1, <2>2
  <2>4. RoundUp(a) = a BY <2>1, RoundUpIs
  <2>5. QED BY <1>1, <1>3, <1>6, <2>1, <2>3, <2>4 DEF AclHeader
<1>7. QED BY <1>4, <1>5, <1>6

\* The ACEs are in the list; a list whose size was rounded up to nothing has none.
AcesInside(a) ==
  IF a.size = 0 THEN a.aces = <<>> ELSE AclHeader + AceBytes(a.aces) <= a.size

Acl == [revision : Revisions \cup {2}, size : 0 .. SizeModulus - 1,
        aces : Seq(Ace), torn : BOOLEAN]

SecurityTypes ==
  acl \in Acl /\ present \in BOOLEAN /\ dacl \in BOOLEAN /\ group \in SubCounts \cup {-1}

SecurityInv == SecurityTypes /\ AcesInside(acl)

\* No ACEs have no bytes.
LEMMA NoBytes == AceBytes(<<>>) = 0 /\ <<>> \in Seq(Ace)
<1>1. <<>> \in Seq(Ace) /\ Len(<<>>) = 0 OBVIOUS
<1>2. BytesUpTo(<<>>, 0) = 0 BY <1>1, BytesAddUp
<1>3. QED BY <1>1, <1>2 DEF AceBytes

\* Where the walk over a list ends (RtlFirstFreeAce).
LEMMA FreeIs ==
  ASSUME NEW a \in Acl, AcesInside(a), a.size # 0, FirstFreeAce(a).ok
  PROVE  /\ AceBytes(a.aces) \in Nat /\ InUse(a) = AclHeader + AceBytes(a.aces)
         /\ FirstFreeAce(a).free # NoOffset =>
              FirstFreeAce(a).free = AclHeader + AceBytes(a.aces)
<1>1. PICK aces \in Seq(Ace), n \in Nat : aces = a.aces /\ n = Len(aces) BY DEF Acl
<1>2. PICK bytes \in Nat : bytes = AceBytes(aces) /\ bytes = BytesUpTo(aces, n)
  <2>1. n \in 0 .. Len(aces) BY <1>1
  <2>2. QED BY <1>1, <2>1, BytesAddUp DEF AceBytes
<1>3. a.size \in Nat /\ AclHeader + bytes <= a.size
  <2>1. a.size \in Nat BY SecurityAssumption DEF Acl
  <2>2. QED BY <1>1, <1>2, <2>1 DEF AcesInside
<1>4. CASE aces = <<>>
  <2>1. bytes = 0 BY <1>2, <1>4, NoBytes
  <2>2. FirstFreeAce(a).free = AclHeader BY <1>1, <1>4 DEF FirstFreeAce
  <2>3. QED BY <1>1, <1>2, <2>1, <2>2 DEF InUse, AclHeader, NoOffset
<1>5. CASE aces # <<>>
  <2>1. (n + 1) - 1 = n OBVIOUS
  <2>2. FirstFreeAce(a).free
          = IF AclHeader + bytes < a.size THEN AclHeader + bytes ELSE NoOffset
    BY <1>1, <1>2, <1>5, <2>1 DEF FirstFreeAce
  <2>3. QED BY <1>1, <1>2, <1>3, <2>2 DEF InUse, AclHeader, NoOffset
<1>6. QED BY <1>4, <1>5

\* It succeeds if the ACEs suit the revision of the list (RtlFirstFreeAce).
LEMMA WalkSucceeds ==
  ASSUME NEW a \in Acl, AcesInside(a),
         \A i \in 1 .. Len(a.aces) : a.aces[i].type = "compound" => ~(a.revision < 3)
  PROVE  FirstFreeAce(a).ok
<1>1. CASE a.aces = <<>> BY <1>1 DEF FirstFreeAce
<1>2. CASE a.aces # <<>>
  <2>1. PICK aces \in Seq(Ace), n \in Nat : aces = a.aces /\ n = Len(aces) BY DEF Acl
  <2>2. ASSUME NEW i \in 1 .. n PROVE AclHeader + BytesUpTo(aces, i - 1) < a.size
    <3>1. i - 1 \in 0 .. n /\ n \in 0 .. n /\ i - 1 < n OBVIOUS
    <3>2. PICK x \in Nat, y \in Nat : x = BytesUpTo(aces, i - 1) /\ y = BytesUpTo(aces, n)
      BY <2>1, <3>1, BytesAddUp
    <3>3. x < y
      <4>1. n \in 0 .. Len(aces) /\ i - 1 \in 0 .. n BY <2>1, <3>1
      <4>2. BytesUpTo(aces, i - 1) < BytesUpTo(aces, n) BY <3>1, <4>1, BytesGrow
      <4>3. QED BY <3>2, <4>2
    <3>4. a.size \in Nat /\ AclHeader + y <= a.size
      <4>1. a.size \in Nat BY SecurityAssumption DEF Acl
      <4>2. QED BY <1>2, <2>1, <3>2, <4>1 DEF AcesInside, AceBytes
    <3>5. QED BY <3>2, <3>3, <3>4 DEF AclHeader
  <2>3. ASSUME NEW i \in 1 .. n PROVE ~(AclHeader + BytesUpTo(aces, i - 1) >= a.size)
    <3>1. i - 1 \in 0 .. Len(aces) BY <2>1
    <3>2. BytesUpTo(aces, i - 1) \in Nat BY <3>1, BytesAddUp
    <3>3. a.size \in Nat BY SecurityAssumption DEF Acl
    <3>4. QED BY <2>2, <3>2, <3>3 DEF AclHeader
  <2>4. QED BY <1>2, <2>1, <2>3 DEF FirstFreeAce
<1>3. QED BY <1>1, <1>2

\* There is room for what is put into a list (RtlpAddKnownAce, RtlAddAce).
LEMMA RoomIs ==
  ASSUME NEW a \in Acl, AcesInside(a), FirstFreeAce(a).ok, NEW bytes \in Nat \ {0},
         Fits(a, bytes)
  PROVE  a.size # 0 /\ AclHeader + (AceBytes(a.aces) + bytes) <= a.size
<1>1. a.size \in Nat BY SecurityAssumption DEF Acl
<1>2. CASE a.size = 0
  <2>1. FirstFreeAce(a).free = AclHeader BY <1>2 DEF AcesInside, FirstFreeAce
  <2>2. QED BY <1>2, <2>1 DEF Fits, AclHeader
<1>3. CASE a.size # 0
  <2>1. /\ AceBytes(a.aces) \in Nat /\ FirstFreeAce(a).free = AclHeader + AceBytes(a.aces)
    BY <1>3, FreeIs DEF Fits
  <2>2. PICK n \in Nat : n = AceBytes(a.aces) BY <2>1
  <2>3. (AclHeader + n) + bytes <= a.size BY <2>1, <2>2 DEF Fits
  <2>4. QED BY <1>1, <1>3, <2>2, <2>3 DEF AclHeader
<1>4. QED BY <1>2, <1>3

\* A new list is empty (RtlCreateAcl).
LEMMA CreateKeepsInv ==
  ASSUME SecurityInv, NEW bytes \in AclSizes, NEW revision \in Revisions,
         CreateAcl(bytes, revision)
  PROVE  SecurityInv' /\ ValidAcl(acl')
<1>1. PICK stored : stored = RoundUp(bytes) % SizeModulus OBVIOUS
<1>2. acl' = [revision |-> revision, size |-> stored, aces |-> <<>>, torn |-> FALSE]
  BY <1>1 DEF CreateAcl
<1>3. /\ stored \in 0 .. SizeModulus - 1 /\ RoundUp(stored) = stored
      /\ stored = 0 \/ stored >= AclHeader
  <2>1. bytes \in Nat /\ bytes >= AclHeader /\ bytes < SizeModulus
    BY SecurityAssumption DEF CreateAcl
  <2>2. QED BY <1>1, <2>1, StoredSizeIs
<1>4. SecurityTypes'
  <2>1. acl' \in Acl BY <1>2, <1>3, NoBytes DEF Acl
  <2>2. QED BY <2>1 DEF CreateAcl, descriptor, SecurityInv, SecurityTypes
<1>5. AcesInside(acl')
  <2>1. AclHeader + AceBytes(<<>>) = AclHeader BY NoBytes DEF AclHeader
  <2>2. QED BY <1>2, <1>3, <2>1 DEF AcesInside
<1>6. ValidAcl(acl') BY <1>2, <1>3 DEF CreateAcl, ValidAcl, FirstFreeAce
<1>7. QED BY <1>4, <1>5, <1>6 DEF SecurityInv

\* An ACE for a SID is behind the others, where there is room for it, and of any
\* revision (RtlpAddKnownAce).
LEMMA AddKeepsInv ==
  ASSUME SecurityInv, NEW revision \in Revisions, NEW subs \in SubCounts,
         AddAccessAllowedAce(revision, subs)
  PROVE  SecurityInv' /\ (ValidAcl(acl) => ValidAcl(acl'))
<1>1. PICK ace \in Ace : ace = [type |-> "allowed", size |-> AceSize(subs)]
  <2>1. AceSize(subs) \in Nat \ {0}
    BY SecurityAssumption DEF AceSize, LengthSid, AceHeader
  <2>2. QED BY <2>1 DEF Ace
<1>2. PICK aces \in Seq(Ace), size0 \in 0 .. SizeModulus - 1, old \in Revisions \cup {2} :
        aces = acl.aces /\ size0 = acl.size /\ old = acl.revision
  BY DEF SecurityInv, SecurityTypes, Acl
<1>3. acl' = [acl EXCEPT !.aces = Append(aces, ace), !.revision = Raised(old, revision)]
  BY <1>1, <1>2 DEF AddAccessAllowedAce
<1>4. Raised(old, revision) \in Revisions \cup {2} BY DEF Raised
<1>5. PICK more \in Seq(Ace) :
        more = Append(aces, ace) /\ AceBytes(more) = AceBytes(aces) + ace.size
  BY BytesWithOneMore
<1>6. /\ acl' \in Acl /\ acl'.aces = more /\ acl'.size = size0
      /\ acl'.revision = Raised(old, revision)
  BY <1>2, <1>3, <1>4, <1>5 DEF SecurityInv, SecurityTypes, Acl
<1>7. SecurityTypes'
  BY <1>6 DEF AddAccessAllowedAce, descriptor, SecurityInv, SecurityTypes
<1>8. size0 # 0 /\ AclHeader + AceBytes(more) <= size0
  <2>1. ace.size \in Nat \ {0} /\ ace.size = AceSize(subs) BY <1>1 DEF Ace
  <2>2. acl.size # 0 /\ AclHeader + (AceBytes(acl.aces) + ace.size) <= acl.size
    BY <2>1, RoomIs DEF AddAccessAllowedAce, SecurityInv, SecurityTypes
  <2>3. QED BY <1>2, <1>5, <2>2
<1>9. AcesInside(acl') BY <1>6, <1>8 DEF AcesInside
<1>10. ASSUME ValidAcl(acl) PROVE ValidAcl(acl')
  <2>1. old \in 2 .. 4 /\ RoundUp(size0) = size0 BY <1>2, <1>10 DEF ValidAcl, ValidRevision
  <2>2. revision \in Nat /\ revision <= 4 BY SecurityAssumption DEF AddAccessAllowedAce
  <2>3. Raised(old, revision) \in old .. 4 BY <2>1, <2>2 DEF Raised
  <2>4. ASSUME NEW i \in 1 .. Len(more), more[i].type = "compound"
        PROVE  ~(Raised(old, revision) < 3)
    <3>1. Len(more) = Len(aces) + 1 /\ more[Len(aces) + 1] = ace
          /\ \A k \in 1 .. Len(aces) : more[k] = aces[k]
      BY <1>5
    <3>2. ace.type = "allowed" BY <1>1
    <3>3. i \in 1 .. Len(aces) /\ aces[i].type = "compound" BY <2>4, <3>1, <3>2
    <3>4. ~(old < 3)
      <4>1. aces # <<>> BY <3>3
      <4>2. QED BY <1>2, <1>10, <3>3, <4>1 DEF ValidAcl, FirstFreeAce
    <3>5. QED BY <2>1, <2>3, <3>4
  <2>5. FirstFreeAce(acl').ok BY <1>6, <1>9, <2>4, WalkSucceeds
  <2>6. QED BY <1>6, <2>1, <2>3, <2>5 DEF ValidAcl, ValidRevision
<1>11. QED BY <1>7, <1>9, <1>10 DEF SecurityInv

\* ACEs are put between those that are there as long as there is room for them, and
\* a list becomes invalid by the revision and by the ACEs that are not looked at
\* (RtlAddAce).
LEMMA AddAceKeepsInv ==
  ASSUME SecurityInv, NEW revision \in Revisions, NEW list \in AceLists,
         NEW index \in 0 .. Len(acl.aces), AddAce(revision, index, list)
  PROVE  /\ SecurityInv'
         /\ \/ revision < acl.revision
            \/ \E i \in 2 .. Len(list) : list[i].type = "compound"
            \/ ValidAcl(acl) => ValidAcl(acl')
<1>1. list \in Seq(Ace) /\ list # <<>> BY SecurityAssumption DEF AddAce
<1>2. PICK aces \in Seq(Ace), size0 \in 0 .. SizeModulus - 1, old \in Revisions \cup {2} :
        aces = acl.aces /\ size0 = acl.size /\ old = acl.revision
  BY DEF SecurityInv, SecurityTypes, Acl
<1>3. PICK lowered \in Revisions \cup {2} : lowered = IF old <= revision THEN old ELSE revision
  OBVIOUS
<1>4. index \in 0 .. Len(aces) BY <1>2
<1>5. PICK more \in Seq(Ace) : /\ more = Inserted(aces, index, list)
                               /\ HasInserted(more, aces, index, list)
                               /\ AceBytes(more) = AceBytes(aces) + AceBytes(list)
  <2>1. PICK t : t = Inserted(aces, index, list) OBVIOUS
  <2>2. HasInserted(t, aces, index, list) BY <1>1, <1>4, <2>1, InsertedIs
  <2>3. AceBytes(t) = AceBytes(aces) + AceBytes(list) BY <1>1, <1>4, <2>1, BytesWithMore
  <2>4. QED BY <2>1, <2>2, <2>3 DEF HasInserted
<1>6. PICK torn \in BOOLEAN :
        acl' = [acl EXCEPT !.aces = more, !.revision = lowered, !.torn = torn]
  <2>1. PICK overlaps \in BOOLEAN :
          overlaps = (AceBytes(acl.aces) - BytesUpTo(acl.aces, index) > AceBytes(list))
    <3>1. (AceBytes(acl.aces) - BytesUpTo(acl.aces, index) > AceBytes(list)) \in BOOLEAN
      OBVIOUS
    <3>2. QED BY <3>1, Zenon
  <2>2. \E t \in {FALSE, overlaps} :
          acl' = [acl EXCEPT !.aces = Inserted(acl.aces, index, list),
                             !.revision = IF acl.revision <= revision THEN acl.revision
                                          ELSE revision,
                             !.torn = t]
    BY <2>1 DEF AddAce, Inserted
  <2>3. PICK t \in BOOLEAN :
          acl' = [acl EXCEPT !.aces = Inserted(aces, index, list),
                             !.revision = IF old <= revision THEN old ELSE revision,
                             !.torn = t]
    BY <1>2, <2>2
  <2>4. QED BY <1>3, <1>5, <2>3
<1>7. acl' \in Acl /\ acl'.aces = more /\ acl'.size = size0 /\ acl'.revision = lowered
  BY <1>2, <1>6 DEF SecurityInv, SecurityTypes, Acl
<1>8. SecurityTypes' BY <1>7 DEF AddAce, descriptor, SecurityInv, SecurityTypes
<1>9. size0 # 0 /\ AclHeader + AceBytes(more) <= size0
  <2>1. AceBytes(list) \in Nat \ {0}
    <3>1. 0 \in 0 .. Len(list) /\ Len(list) \in 0 .. Len(list) /\ 0 < Len(list)
          /\ 0 \in 0 .. Len(list)
      BY <1>1
    <3>2. BytesUpTo(list, 0) < BytesUpTo(list, Len(list)) BY <1>1, <3>1, BytesGrow
    <3>3. BytesUpTo(list, 0) = 0 /\ BytesUpTo(list, Len(list)) \in Nat
      BY <1>1, <3>1, BytesAddUp
    <3>4. QED BY <3>2, <3>3 DEF AceBytes
  <2>2. acl.size # 0 /\ AclHeader + (AceBytes(acl.aces) + AceBytes(list)) <= acl.size
    BY <2>1, RoomIs DEF AddAce, SecurityInv, SecurityTypes
  <2>3. QED BY <1>2, <1>5, <2>2
<1>10. AcesInside(acl') BY <1>7, <1>9 DEF AcesInside
<1>11. ASSUME ~(revision < acl.revision), ValidAcl(acl),
              ~\E i \in 2 .. Len(list) : list[i].type = "compound"
       PROVE  ValidAcl(acl')
  <2>1. old \in 2 .. 4 /\ RoundUp(size0) = size0 BY <1>2, <1>11 DEF ValidAcl, ValidRevision
  <2>2. lowered = old
    <3>1. revision \in Nat BY SecurityAssumption
    <3>2. QED BY <1>2, <1>3, <1>11, <2>1, <3>1
  <2>3. ASSUME NEW i \in 1 .. Len(aces), aces[i].type = "compound" PROVE ~(old < 3)
    <3>1. aces # <<>> BY <2>3
    <3>2. QED BY <1>2, <1>11, <2>3, <3>1 DEF ValidAcl, FirstFreeAce
  <2>4. ASSUME NEW i \in 1 .. Len(list), list[i].type = "compound" PROVE ~(old < 3)
    <3>1. i = 1 BY <1>11, <2>4
    <3>2. ~(list[1].type = "compound" /\ lowered < 3) BY <1>2, <1>3 DEF AddAce
    <3>3. QED BY <2>2, <2>4, <3>1, <3>2
  <2>5. ASSUME NEW i \in 1 .. Len(more), more[i].type = "compound" PROVE ~(lowered < 3)
    <3>1. PICK n \in Nat, m \in Nat : n = Len(aces) /\ m = Len(list) BY <1>1
    <3>2. /\ Len(more) = n + m
          /\ \A k \in 1 .. index : more[k] = aces[k]
          /\ \A k \in 1 .. m : more[index + k] = list[k]
          /\ \A k \in 1 .. n - index : more[(index + m) + k] = aces[index + k]
      BY <1>5, <3>1 DEF HasInserted
    <3>3. i \in Nat /\ i >= 1 /\ i <= n + m /\ index \in Nat /\ index <= n
      BY <1>4, <2>5, <3>1, <3>2
    <3>4. CASE i <= index
      <4>1. i \in 1 .. index /\ i \in 1 .. Len(aces) BY <3>1, <3>3, <3>4
      <4>2. QED BY <2>2, <2>3, <2>5, <3>2, <4>1
    <3>5. CASE i > index /\ i <= index + m
      <4>1. PICK k \in 1 .. m : i = index + k
        <5>1. i - index \in 1 .. m /\ i = index + (i - index) BY <3>3, <3>5
        <5>2. QED BY <5>1
      <4>2. QED BY <2>2, <2>4, <2>5, <3>1, <3>2, <4>1
    <3>6. CASE i > index + m
      <4>1. PICK k \in 1 .. n - index : i = (index + m) + k
        <5>1. i - (index + m) \in 1 .. n - index /\ i = (index + m) + (i - (index + m))
          BY <3>3, <3>6
        <5>2. QED BY <5>1
      <4>2. index + k \in 1 .. Len(aces) BY <3>1, <3>3, <4>1
      <4>3. QED BY <2>2, <2>3, <2>5, <3>2, <4>1, <4>2
    <3>7. QED BY <3>3, <3>4, <3>5, <3>6
  <2>6. FirstFreeAce(acl').ok BY <1>7, <1>10, <2>5, WalkSucceeds
  <2>7. QED BY <1>7, <2>1, <2>2, <2>6 DEF ValidAcl, ValidRevision
<1>12. QED BY <1>8, <1>10, <1>11 DEF SecurityInv

\* The invariant is what is to be shown, at every offset that is looked at
\* (RtlQueryInformationAcl, RtlValidRelativeSecurityDescriptor).
LEMMA SecurityInvSuffices ==
  ASSUME SecurityInv
  PROVE  ListsStayInside
<1>1. SecurityTypeOK BY DEF SecurityInv, SecurityTypes, SecurityTypeOK, Acl
<1>2. acl \in Acl /\ AcesInside(acl) BY DEF SecurityInv, SecurityTypes
<1>3. PICK bytes \in Nat, size0 \in Nat : bytes = AceBytes(acl.aces) /\ size0 = acl.size
  <2>1. acl.aces \in Seq(Ace) /\ acl.size \in Nat BY <1>2, SecurityAssumption DEF Acl
  <2>2. Len(acl.aces) \in 0 .. Len(acl.aces) BY <2>1
  <2>3. QED BY <2>1, <2>2, BytesAddUp DEF AceBytes
<1>4. AcesFit
  <2>1. CASE acl.size = 0 BY <1>2, <2>1 DEF AcesFit, AcesInside
  <2>2. CASE acl.size # 0
    <3>1. FirstFreeAce(acl).ok => InUse(acl) = AclHeader + AceBytes(acl.aces)
      BY <1>2, <2>2, FreeIs
    <3>2. QED BY <1>2, <2>2, <3>1 DEF AcesFit, AcesInside
  <2>3. QED BY <2>1, <2>2
<1>5. ASSUME NEW length \in {24, 44, 60, 64}, NEW groupAt \in {0, 20, 21, 32},
             NEW subs \in SubCounts, ValidRelative(length, TRUE, groupAt, subs, FALSE, 0)
      PROVE  /\ groupAt >= DescriptorSize /\ groupAt + LengthSid(subs) <= length
             /\ groupAt % 4 = 0
  <2>1. groupAt # 0 /\ SafeBytes(groupAt, length, MinSid) > 0
        /\ LengthSid(subs) <= SafeBytes(groupAt, length, MinSid)
    BY <1>5 DEF ValidRelative
  <2>2. /\ ~(groupAt < DescriptorSize) /\ groupAt % 4 = 0
        /\ SafeBytes(groupAt, length, MinSid) = length - groupAt
    BY <2>1 DEF SafeBytes
  <2>3. subs \in Nat BY SecurityAssumption
  <2>4. QED BY <1>5, <2>1, <2>2, <2>3 DEF LengthSid, DescriptorSize
<1>6. ASSUME NEW length \in {24, 44, 60, 64}, NEW aclAt \in {0, 20, 32, 34, 40},
             ValidRelative(length, FALSE, 0, 0, TRUE, aclAt)
      PROVE  /\ aclAt >= DescriptorSize /\ aclAt % 4 = 0
             /\ aclAt + AclHeader + AceBytes(acl.aces) <= length
  <2>1. SafeBytes(aclAt, length, AclHeader) > 0 /\ acl.size <= SafeBytes(aclAt, length, AclHeader)
    BY <1>6 DEF ValidRelative
  <2>2. /\ ~(aclAt < DescriptorSize) /\ aclAt % 4 = 0 /\ ~(length - aclAt < AclHeader)
        /\ SafeBytes(aclAt, length, AclHeader) = length - aclAt
    BY <2>1 DEF SafeBytes
  <2>3. AclHeader + bytes <= length - aclAt
    <3>1. CASE size0 = 0
      <4>1. bytes = 0 BY <1>2, <1>3, <3>1, NoBytes DEF AcesInside
      <4>2. QED BY <2>2, <4>1 DEF AclHeader
    <3>2. CASE size0 # 0
      <4>1. AclHeader + bytes <= size0 BY <1>2, <1>3, <3>2 DEF AcesInside
      <4>2. QED BY <1>3, <2>1, <2>2, <4>1 DEF AclHeader
    <3>3. QED BY <3>1, <3>2
  <2>4. QED BY <1>3, <2>2, <2>3 DEF DescriptorSize, AclHeader
<1>7. AcceptedPartsAreInside BY <1>5, <1>6 DEF AcceptedPartsAreInside
<1>8. QED BY <1>1, <1>4, <1>7 DEF ListsStayInside

\* Every step keeps it, and a valid list valid but for the two ways of RtlAddAce.
LEMMA SecurityStep ==
  ASSUME SecurityInv, [SecurityNext]_securityVars
  PROVE  SecurityInv' /\ ValidListStaysValid
<1>1. CASE \E bytes \in AclSizes, revision \in Revisions : CreateAcl(bytes, revision)
  BY <1>1, CreateKeepsInv DEF ValidListStaysValid
<1>2. CASE \E revision \in Revisions, subs \in SubCounts : AddAccessAllowedAce(revision, subs)
  BY <1>2, AddKeepsInv DEF ValidListStaysValid
<1>3. CASE \E revision \in Revisions, list \in AceLists :
             \E index \in 0 .. Len(acl.aces) : AddAce(revision, index, list)
  BY <1>3, AddAceKeepsInv DEF ValidListStaysValid
<1>4. CASE acl' = acl /\ SecurityTypes'
  BY <1>4 DEF SecurityInv, ValidListStaysValid
<1>5. CASE CreateSecurityDescriptor
  BY <1>4, <1>5 DEF CreateSecurityDescriptor, SecurityInv, SecurityTypes
<1>6. CASE \E subs \in SubCounts \cup {-1} : SetGroup(subs)
  BY <1>4, <1>6 DEF SetGroup, SecurityInv, SecurityTypes
<1>7. CASE \E isPresent, toList \in BOOLEAN : SetDacl(isPresent, toList)
  BY <1>4, <1>7 DEF SetDacl, SecurityInv, SecurityTypes
<1>8. CASE UNCHANGED securityVars
  BY <1>4, <1>8 DEF securityVars, SecurityInv, SecurityTypes
<1>9. QED BY <1>1, <1>2, <1>3, <1>5, <1>6, <1>7, <1>8 DEF SecurityNext

\* The first list has room for its header.
LEMMA SecurityStarts == SecurityInit => SecurityInv
<1>1. SUFFICES ASSUME SecurityInit PROVE SecurityInv OBVIOUS
<1>2. AclHeader \in 0 .. SizeModulus - 1 BY SecurityAssumption DEF AclHeader
<1>3. acl \in Acl BY <1>1, <1>2, NoBytes DEF SecurityInit, Acl
<1>4. AcesInside(acl)
  <2>1. AclHeader + AceBytes(<<>>) = AclHeader BY NoBytes DEF AclHeader
  <2>2. QED BY <1>1, <2>1 DEF SecurityInit, AcesInside, AclHeader
<1>5. QED BY <1>1, <1>3, <1>4 DEF SecurityInit, SecurityInv, SecurityTypes

\* The ACEs of a list and the parts of an accepted descriptor are inside of it, for
\* lists, ACEs and SIDs of all sizes (RtlpAddKnownAce, RtlAddAce,
\* RtlValidRelativeSecurityDescriptor).
THEOREM ListsStayInsideAlways == SecuritySpec => []ListsStayInside
<1>1. SecurityInit => SecurityInv BY SecurityStarts
<1>2. SecurityInv /\ [SecurityNext]_securityVars => SecurityInv' BY SecurityStep
<1>3. SecurityInv => ListsStayInside BY SecurityInvSuffices
<1>4. QED BY <1>1, <1>2, <1>3, PTL DEF SecuritySpec

\* A valid list becomes invalid in the two ways of RtlAddAce only, and never by
\* RtlpAddKnownAce or RtlCreateAcl (sd.c).
THEOREM ListsStayValid == SecuritySpec => [][ValidListStaysValid]_securityVars
<1>1. SecurityInit => SecurityInv BY SecurityStarts
<1>2. SecurityInv /\ [SecurityNext]_securityVars => SecurityInv' BY SecurityStep
<1>3. SecurityInv /\ [SecurityNext]_securityVars => [ValidListStaysValid]_securityVars
  BY SecurityStep
<1>4. QED BY <1>1, <1>2, <1>3, PTL DEF SecuritySpec

-----------------------------------------------------------------------------
(* The trees of SplayTable.                                                *)

\* x is on side s of y in the order of the keys.
On(s, x, y) == IF s THEN x < y ELSE y < x

ItemOrNull == Item \cup {NoItem}
Branches == [Side -> [ItemOrNext -> ItemOrNull]]

\* The links B are trees of the elements T, and D[n] is the subtree of n.
Forest(B, T, D) ==
  /\ T \subseteq Item
  /\ D \in [ItemOrNull -> SUBSET T] /\ D[NoItem] = {}
  /\ \A n \in T, s \in Side : B[s][n] \in T \cup {NoItem}
  /\ \A n \in T, s \in Side : D[n] = {n} \cup D[B[s][n]] \cup D[B[~s][n]]
  /\ \A n \in T, s \in Side : \A x \in D[B[s][n]] : On(s, x, n)

\* Elements are numbers, the null pointer and the local "next" of splay are none.
LEMMA Items ==
  /\ Item \subseteq Nat /\ NoItem \notin Item /\ Next0 \notin Item /\ NoItem # Next0
  /\ IsFiniteSet(Item) /\ Cardinality(Item) = SplayKeys /\ Item \subseteq ItemOrNext
  /\ Side = BOOLEAN /\ \A s \in Side : (~s) \in Side /\ (~(~s)) = s
<1>1. SplayKeys \in Nat /\ NoItem \notin 0 .. SplayKeys BY SplayAssumption
<1>2. IsFiniteSet(Item) /\ Cardinality(Item) = SplayKeys
  <2>1. Cardinality(1 .. SplayKeys) = IF 1 > SplayKeys THEN 0 ELSE SplayKeys - 1 + 1
    BY <1>1, FS_Interval
  <2>2. QED BY <1>1, <2>1, FS_Interval DEF Item
<1>3. Side = BOOLEAN BY DEF Side, Left, Right
<1>4. Item \subseteq Nat /\ NoItem \notin Item /\ Next0 \notin Item /\ NoItem # Next0
  BY <1>1 DEF Item, Next0
<1>5. Item \subseteq ItemOrNext BY DEF ItemOrNext
<1>6. ASSUME NEW s \in Side PROVE (~s) \in Side /\ (~(~s)) = s
  <2>1. CASE s = TRUE BY <1>3, <2>1
  <2>2. CASE s = FALSE BY <1>3, <2>2
  <2>3. QED BY <1>3, <2>1, <2>2
<1>7. QED BY <1>2, <1>3, <1>4, <1>5, <1>6

\* Sides are an order of the elements.
LEMMA Sides ==
  ASSUME NEW s \in Side, NEW x \in Item, NEW y \in Item, NEW z \in Item
  PROVE  /\ ~On(s, x, x)
         /\ On(s, x, y) <=> On(~s, y, x)
         /\ On(s, x, y) => ~On(~s, x, y)
         /\ x # y => On(s, x, y) \/ On(~s, x, y)
         /\ On(s, x, y) /\ On(s, y, z) => On(s, x, z)
<1>1. x \in Nat /\ y \in Nat /\ z \in Nat /\ s \in BOOLEAN BY Items
<1>2. CASE s = TRUE BY <1>1, <1>2 DEF On
<1>3. CASE s = FALSE BY <1>1, <1>3 DEF On
<1>4. QED BY <1>1, <1>2, <1>3

\* The side that the search goes down on is the item's side.
LEMMA SideIs ==
  ASSUME NEW item \in Item, NEW n \in Item
  PROVE  /\ SideOf(item, n) \in Side
         /\ item # n => On(SideOf(item, n), item, n)
         /\ \A s \in Side : On(s, item, n) => SideOf(item, n) = s
<1>1. item \in Nat /\ n \in Nat /\ Side = BOOLEAN BY Items
<1>2. CASE item < n
  <2>1. SideOf(item, n) = TRUE BY <1>2 DEF SideOf, Left
  <2>2. On(TRUE, item, n) /\ ~On(FALSE, item, n) BY <1>1, <1>2 DEF On
  <2>3. QED BY <1>1, <2>1, <2>2
<1>3. CASE ~(item < n)
  <2>1. SideOf(item, n) = FALSE BY <1>3 DEF SideOf, Right
  <2>2. ~On(TRUE, item, n) /\ (item # n => On(FALSE, item, n)) BY <1>1, <1>3 DEF On
  <2>3. QED BY <1>1, <2>1, <2>2
<1>4. QED BY <1>2, <1>3

\* A subtree is its top and the two below it.
LEMMA Parts ==
  ASSUME NEW B, NEW T, NEW D, Forest(B, T, D), NEW n \in T, NEW s \in Side
  PROVE  /\ n \in Item /\ n \in D[n] /\ D[n] \subseteq T
         /\ B[s][n] \in T \cup {NoItem} /\ B[s][n] \in ItemOrNull
         /\ D[B[s][n]] \subseteq D[n] /\ n \notin D[B[s][n]]
         /\ \A x \in D[B[s][n]] : On(s, x, n) /\ x \notin D[B[~s][n]]
         /\ \A x \in D[n] : x = n \/ x \in D[B[s][n]] \/ x \in D[B[~s][n]]
         /\ B[s][n] # NoItem => B[s][n] \in D[B[s][n]]
<1> USE DEF Forest
<1>1. n \in Item /\ (~s) \in Side BY Items
<1>2. B[s][n] \in T \cup {NoItem} OBVIOUS
<1>3. D[n] = {n} \cup D[B[s][n]] \cup D[B[~s][n]] OBVIOUS
<1>4. D[n] \subseteq T BY <1>1 DEF ItemOrNull
<1>5. \A x \in D[B[s][n]] : On(s, x, n) OBVIOUS
<1>6. n \notin D[B[s][n]] BY <1>1, <1>5, Sides
<1>7. ASSUME NEW x \in D[B[s][n]] PROVE x \notin D[B[~s][n]]
  <2>1. On(s, x, n) /\ x \in Item BY <1>3, <1>4, <1>5
  <2>2. x \in D[B[~s][n]] => On(~s, x, n) BY <1>1
  <2>3. QED BY <1>1, <2>1, <2>2, Sides
<1>8. B[s][n] # NoItem => B[s][n] \in D[B[s][n]] BY <1>2
<1>9. QED BY <1>1, <1>2, <1>3, <1>4, <1>5, <1>6, <1>7, <1>8 DEF ItemOrNull

\* Below a top there are fewer elements.
LEMMA Smaller ==
  ASSUME NEW B, NEW T, NEW D, Forest(B, T, D), NEW n \in T, NEW s \in Side
  PROVE  /\ Cardinality(D[n]) \in 0 .. SplayKeys /\ Cardinality(D[n]) # 0
         /\ Cardinality(D[B[s][n]]) \in 0 .. SplayKeys
         /\ Cardinality(D[B[s][n]]) < Cardinality(D[n])
<1>1. T \subseteq Item /\ SplayKeys \in Nat BY SplayAssumption DEF Forest
<1>2. /\ D[n] \subseteq T /\ n \in D[n] /\ D[B[s][n]] \subseteq D[n] /\ n \notin D[B[s][n]]
  BY Parts
<1>3. IsFiniteSet(D[n]) /\ Cardinality(D[n]) <= SplayKeys
  <2>1. D[n] \in SUBSET Item BY <1>1, <1>2
  <2>2. QED BY <2>1, Items, FS_Subset
<1>4. /\ IsFiniteSet(D[B[s][n]]) /\ Cardinality(D[B[s][n]]) <= Cardinality(D[n])
      /\ Cardinality(D[B[s][n]]) # Cardinality(D[n])
  <2>1. D[B[s][n]] \in SUBSET D[n] /\ D[n] # D[B[s][n]] BY <1>2
  <2>2. QED BY <1>3, <2>1, FS_Subset
<1>5. Cardinality(D[n]) \in Nat /\ Cardinality(D[B[s][n]]) \in Nat BY <1>3, <1>4, FS_CardinalityType
<1>6. QED BY <1>1, <1>3, <1>4, <1>5

\* The subtrees below a top are inside of its subtree.
LEMMA Nested ==
  ASSUME NEW B, NEW T, NEW D, Forest(B, T, D)
  PROVE  \A n \in T : \A x \in D[n] : x \in T /\ D[x] \subseteq D[n]
<1> DEFINE Good == {k \in 0 .. SplayKeys :
                      \A n \in T : Cardinality(D[n]) = k => \A x \in D[n] : D[x] \subseteq D[n]}
<1>1. ASSUME NEW k \in 0 .. SplayKeys, \A j \in 0 .. SplayKeys : j < k => j \in Good
      PROVE  k \in Good
  <2>1. ASSUME NEW n \in T, Cardinality(D[n]) = k, NEW x \in D[n] PROVE D[x] \subseteq D[n]
    <3>1. ASSUME NEW s \in Side, x \in D[B[s][n]] PROVE D[x] \subseteq D[n]
      <4>1. B[s][n] \in T /\ D[B[s][n]] \subseteq D[n] BY <3>1, Parts DEF Forest
      <4>2. Cardinality(D[B[s][n]]) \in 0 .. SplayKeys /\ Cardinality(D[B[s][n]]) < k
        BY <2>1, Smaller
      <4>3. Cardinality(D[B[s][n]]) \in Good BY <1>1, <4>2
      <4>4. D[x] \subseteq D[B[s][n]] BY <3>1, <4>1, <4>3
      <4>5. QED BY <4>1, <4>4
    <3>2. PICK s \in Side : (~s) \in Side BY Items
    <3>3. x = n \/ x \in D[B[s][n]] \/ x \in D[B[~s][n]] BY Parts
    <3>4. QED BY <2>1, <3>1, <3>2, <3>3
  <2>2. QED BY <2>1
<1>2. SplayKeys \in Nat BY SplayAssumption
<1>3. \A k \in 0 .. SplayKeys : k \in Good
  <2> HIDE DEF Good
  <2>1. QED BY <1>1, <1>2, Upwards
<1>4. TRUE \in Side BY Items
<1>5. \A n \in T : Cardinality(D[n]) \in 0 .. SplayKeys /\ D[n] \subseteq T BY <1>4, Smaller, Parts
<1>6. QED BY <1>3, <1>5

-----------------------------------------------------------------------------
(* A tree of a set of elements.                                            *)

\* The links B make a tree of the elements S, with n at its top.
TreeOf(B, n, S) ==
  \E D : Forest(B, S, D) /\ n \in ItemOrNull /\ D[n] = S /\ (n # NoItem => n \in S)

\* The null pointer is the tree of no element, and there is no other.
LEMMA EmptyTree == ASSUME NEW B PROVE TreeOf(B, NoItem, {})
<1> DEFINE D == [m \in ItemOrNull |-> {}]
<1>1. Forest(B, {}, D) /\ D[NoItem] = {} /\ NoItem \in ItemOrNull BY DEF Forest, ItemOrNull
<1>2. QED BY <1>1 DEF TreeOf

\* A tree holds elements, and its top among them.
LEMMA TreeParts ==
  ASSUME NEW B, NEW n, NEW S, TreeOf(B, n, S)
  PROVE  /\ S \subseteq Item /\ n \in ItemOrNull /\ (n = NoItem <=> S = {})
         /\ n # NoItem => n \in S /\ n \in Item
<1>1. PICK D : Forest(B, S, D) /\ n \in ItemOrNull /\ D[n] = S /\ (n # NoItem => n \in S)
  BY DEF TreeOf
<1>2. QED BY <1>1, Items DEF Forest, ItemOrNull

\* P and Q are the elements of the tree S on side s of its top, and on the other.
Parted(B, n, S, s, P, Q) ==
  /\ S = {n} \cup P \cup Q /\ n \notin P /\ n \notin Q /\ P \cap Q = {}
  /\ TreeOf(B, B[s][n], P) /\ TreeOf(B, B[~s][n], Q)
  /\ \A x \in P : On(s, x, n)
  /\ \A x \in Q : On(~s, x, n)

\* A tree is its top, and the trees of the elements on each side of it.
LEMMA Split ==
  ASSUME NEW B, NEW n \in Item, NEW S, TreeOf(B, n, S), NEW s \in Side
  PROVE  \E P, Q \in SUBSET S : Parted(B, n, S, s, P, Q)
<1>1. PICK D : Forest(B, S, D) /\ D[n] = S /\ (n # NoItem => n \in S)
  BY DEF TreeOf
<1>2. n \in S /\ (~s) \in Side BY <1>1, Items
<1>3. ASSUME NEW t \in Side PROVE TreeOf(B, B[t][n], D[B[t][n]])
  <2> DEFINE T == D[B[t][n]]
             E == [m \in ItemOrNull |-> IF m \in T THEN D[m] ELSE {}]
  <2>1. T \subseteq S /\ B[t][n] \in ItemOrNull /\ (B[t][n] # NoItem => B[t][n] \in T)
    BY <1>1, <1>2, Parts
  <2>2. S \subseteq Item /\ NoItem \notin S BY <1>1, Items DEF Forest
  <2>3. \A m \in T : m \in S /\ D[m] \subseteq T
    <3>1. B[t][n] \in S \/ B[t][n] = NoItem BY <1>1, <1>2 DEF Forest
    <3>2. B[t][n] = NoItem => T = {} BY <1>1 DEF Forest
    <3>3. QED BY <1>1, <3>1, <3>2, Nested
  <2>4. ASSUME NEW m \in T, NEW u \in Side
        PROVE  /\ B[u][m] \in T \cup {NoItem} /\ E[B[u][m]] = D[B[u][m]] /\ E[m] = D[m]
    <3>1. /\ m \in S /\ B[u][m] \in S \cup {NoItem} /\ D[B[u][m]] \subseteq D[m]
          /\ (B[u][m] # NoItem => B[u][m] \in D[B[u][m]])
      BY <1>1, <2>3, Parts
    <3>2. B[u][m] \in T \cup {NoItem} BY <2>3, <3>1
    <3>3. B[u][m] \in ItemOrNull /\ m \in ItemOrNull BY <2>2, <3>1 DEF ItemOrNull
    <3>4. D[NoItem] = {} BY <1>1 DEF Forest
    <3>5. QED BY <2>1, <2>2, <3>2, <3>3, <3>4
  <2>5. E \in [ItemOrNull -> SUBSET T] /\ E[NoItem] = {}
    BY <2>1, <2>2, <2>3 DEF ItemOrNull
  <2>6. Forest(B, T, E)
    <3> HIDE DEF T, E
    <3>1. \A m \in T, u \in Side : D[m] = {m} \cup D[B[u][m]] \cup D[B[~u][m]]
      BY <1>1, <2>3 DEF Forest
    <3>2. \A m \in T, u \in Side : \A x \in D[B[u][m]] : On(u, x, m) BY <1>1, <2>3 DEF Forest
    <3>3. \A u \in Side : (~u) \in Side BY Items
    <3>4. \A m \in T, u \in Side : E[m] = {m} \cup E[B[u][m]] \cup E[B[~u][m]]
      BY <2>4, <3>1, <3>3
    <3>5. \A m \in T, u \in Side : \A x \in E[B[u][m]] : On(u, x, m) BY <2>4, <3>2
    <3>6. T \subseteq Item BY <2>1, <2>2
    <3>7. QED BY <2>4, <2>5, <3>4, <3>5, <3>6 DEF Forest
  <2>7. E[B[t][n]] = T BY <1>1, <2>1 DEF Forest
  <2>8. QED BY <2>1, <2>6, <2>7 DEF TreeOf
<1>4. S = {n} \cup D[B[s][n]] \cup D[B[~s][n]] BY <1>1, <1>2 DEF Forest
<1>5. /\ n \notin D[B[s][n]] /\ n \notin D[B[~s][n]]
      /\ \A x \in D[B[s][n]] : On(s, x, n) /\ x \notin D[B[~s][n]]
      /\ \A x \in D[B[~s][n]] : On(~s, x, n)
  BY <1>1, <1>2, Parts
<1>6. D[B[s][n]] \in SUBSET S /\ D[B[~s][n]] \in SUBSET S BY <1>4
<1>7. QED BY <1>2, <1>3, <1>4, <1>5, <1>6 DEF Parted

\* A top with a tree on each side of it is a tree.
LEMMA Crown ==
  ASSUME NEW B, NEW n \in Item, NEW s \in Side, NEW P, NEW Q,
         TreeOf(B, B[s][n], P), TreeOf(B, B[~s][n], Q),
         \A x \in P : On(s, x, n), \A x \in Q : On(~s, x, n)
  PROVE  TreeOf(B, n, {n} \cup P \cup Q)
<1> DEFINE S == {n} \cup P \cup Q
<1>1. PICK DP : Forest(B, P, DP) /\ DP[B[s][n]] = P /\ (B[s][n] # NoItem => B[s][n] \in P)
  BY DEF TreeOf
<1>2. PICK DQ : Forest(B, Q, DQ) /\ DQ[B[~s][n]] = Q /\ (B[~s][n] # NoItem => B[~s][n] \in Q)
  BY DEF TreeOf
<1>3. P \subseteq Item /\ Q \subseteq Item BY <1>1, <1>2 DEF Forest
<1>4. n \notin P /\ n \notin Q /\ NoItem \notin S /\ (~s) \in Side /\ (~(~s)) = s
  BY <1>3, Items, Sides
<1>5. ASSUME NEW x \in P, NEW y \in Q PROVE x # y
  BY <1>3, <1>4, Sides
<1> DEFINE D == [m \in ItemOrNull |-> IF m = n THEN S ELSE IF m \in P THEN DP[m]
                                      ELSE IF m \in Q THEN DQ[m] ELSE {}]
<1>6. /\ \A m \in P : D[m] = DP[m] /\ DP[m] \subseteq P
      /\ \A m \in Q : D[m] = DQ[m] /\ DQ[m] \subseteq Q
      /\ D[n] = S /\ D[NoItem] = {}
  <2>1. NoItem \notin P /\ NoItem \notin Q /\ NoItem # n BY <1>4
  <2>2. n \in ItemOrNull /\ NoItem \in ItemOrNull BY DEF ItemOrNull
  <2>3. ASSUME NEW m \in P PROVE D[m] = DP[m] /\ DP[m] \subseteq P
    <3>1. m \in ItemOrNull /\ m # n BY <1>3, <1>4 DEF ItemOrNull
    <3>2. QED BY <1>1, <3>1 DEF Forest
  <2>4. ASSUME NEW m \in Q PROVE D[m] = DQ[m] /\ DQ[m] \subseteq Q
    <3>1. m \in ItemOrNull /\ m # n /\ m \notin P BY <1>3, <1>4, <1>5 DEF ItemOrNull
    <3>2. QED BY <1>2, <3>1 DEF Forest
  <2>5. QED BY <2>1, <2>2, <2>3, <2>4
<1>7. D \in [ItemOrNull -> SUBSET S]
  <2>1. ASSUME NEW m \in ItemOrNull PROVE D[m] \in SUBSET S BY <1>6
  <2>2. QED BY <2>1
<1> HIDE DEF D
<1>8. D[B[s][n]] = P /\ D[B[~s][n]] = Q
  <2>1. DP[NoItem] = {} /\ DQ[NoItem] = {} BY <1>1, <1>2 DEF Forest
  <2>2. B[s][n] = NoItem \/ B[s][n] \in P BY <1>1
  <2>3. B[~s][n] = NoItem \/ B[~s][n] \in Q BY <1>2
  <2>4. QED BY <1>1, <1>2, <1>6, <2>1, <2>2, <2>3
<1>9. ASSUME NEW X, NEW E, Forest(B, X, E), \A m \in X : D[m] = E[m], NEW m \in X, NEW u \in Side
      PROVE  /\ B[u][m] \in X \cup {NoItem} /\ D[m] = {m} \cup D[B[u][m]] \cup D[B[~u][m]]
             /\ \A x \in D[B[u][m]] : On(u, x, m)
  <2>1. (~u) \in Side /\ E[NoItem] = {} BY <1>9, Items DEF Forest
  <2>2. B[u][m] \in X \cup {NoItem} /\ B[~u][m] \in X \cup {NoItem} BY <1>9, <2>1 DEF Forest
  <2>3. D[B[u][m]] = E[B[u][m]] /\ D[B[~u][m]] = E[B[~u][m]] BY <1>6, <1>9, <2>1, <2>2
  <2>4. E[m] = {m} \cup E[B[u][m]] \cup E[B[~u][m]] /\ \A x \in E[B[u][m]] : On(u, x, m)
    BY <1>9 DEF Forest
  <2>5. QED BY <1>9, <2>2, <2>3, <2>4
<1>10. ASSUME NEW u \in Side
       PROVE  /\ B[u][n] \in S \cup {NoItem} /\ D[n] = {n} \cup D[B[u][n]] \cup D[B[~u][n]]
              /\ \A x \in D[B[u][n]] : On(u, x, n)
  <2>1. u = s \/ u = (~s) BY Items
  <2>2. B[s][n] \in S \cup {NoItem} /\ B[~s][n] \in S \cup {NoItem} BY <1>1, <1>2
  <2>3. CASE u = s BY <1>6, <1>8, <2>2, <2>3
  <2>4. CASE u = (~s)
    <3>1. (~u) = s BY <1>4, <2>4
    <3>2. QED BY <1>6, <1>8, <2>2, <2>4, <3>1
  <2>5. QED BY <2>1, <2>3, <2>4
<1>11. ASSUME NEW m \in S, NEW u \in Side
       PROVE  /\ B[u][m] \in S \cup {NoItem} /\ D[m] = {m} \cup D[B[u][m]] \cup D[B[~u][m]]
              /\ \A x \in D[B[u][m]] : On(u, x, m)
  <2>1. CASE m \in P BY <1>1, <1>6, <1>9, <2>1
  <2>2. CASE m \in Q BY <1>2, <1>6, <1>9, <2>2
  <2>3. CASE m = n BY <1>10, <2>3
  <2>4. QED BY <2>1, <2>2, <2>3
<1>12. S \subseteq Item BY <1>3
<1>13. Forest(B, S, D) BY <1>6, <1>7, <1>11, <1>12 DEF Forest
<1>14. n \in ItemOrNull /\ n \in S BY DEF ItemOrNull
<1>15. QED BY <1>6, <1>13, <1>14 DEF TreeOf

\* What is written elsewhere leaves a tree alone.
LEMMA Frame ==
  ASSUME NEW B, NEW C, NEW n, NEW S, TreeOf(B, n, S), \A m \in S, s \in Side : C[s][m] = B[s][m]
  PROVE  TreeOf(C, n, S)
<1>1. PICK D : Forest(B, S, D) /\ n \in ItemOrNull /\ D[n] = S /\ (n # NoItem => n \in S)
  BY DEF TreeOf
<1>2. \A s \in Side : (~s) \in Side BY Items
<1>3. Forest(C, S, D) BY <1>1, <1>2 DEF Forest
<1>4. QED BY <1>1, <1>3 DEF TreeOf

\* The elements of a tree are finitely many, and each tree below has fewer.
LEMMA Fewer ==
  ASSUME NEW S \in SUBSET Item
  PROVE  /\ Cardinality(S) \in 0 .. SplayKeys
         /\ \A P \in SUBSET S, n \in S :
              n \notin P => Cardinality(P) \in 0 .. SplayKeys /\ Cardinality(P) < Cardinality(S)
<1>1. IsFiniteSet(S) /\ Cardinality(S) <= SplayKeys BY Items, FS_Subset
<1>2. Cardinality(S) \in 0 .. SplayKeys BY <1>1, FS_CardinalityType, SplayAssumption
<1>3. ASSUME NEW P \in SUBSET S, NEW n \in S, n \notin P
      PROVE  Cardinality(P) \in 0 .. SplayKeys /\ Cardinality(P) < Cardinality(S)
  <2>1. IsFiniteSet(P) /\ Cardinality(P) <= Cardinality(S) /\ P # S BY <1>1, <1>3, FS_Subset
  <2>2. Cardinality(P) \in Nat /\ Cardinality(P) # Cardinality(S)
    BY <1>1, <2>1, FS_Subset, FS_CardinalityType
  <2>3. QED BY <1>2, <2>1, <2>2, SplayAssumption
<1>4. QED BY <1>2, <1>3

\* One link is written; two of them are.
With(B, s, e, c) == [B EXCEPT ![s][e] = c]

Changed(B, C, s, e, c) ==
  /\ C \in Branches /\ C[s][e] = c
  /\ \A t \in Side, m \in ItemOrNext : t # s \/ m # e => C[t][m] = B[t][m]

ChangedTwice(B, C, s, e, c, r, f, g) ==
  /\ C \in Branches /\ C[s][e] = c /\ C[r][f] = g
  /\ \A t \in Side, m \in ItemOrNext :
       ~(t = s /\ m = e) /\ ~(t = r /\ m = f) => C[t][m] = B[t][m]

\* One link is written, and no other one changes (splay).
LEMMA Written ==
  ASSUME NEW B \in Branches, NEW s \in Side, NEW e \in ItemOrNext, NEW c \in ItemOrNull
  PROVE  Changed(B, With(B, s, e, c), s, e, c)
BY DEF Changed, With, Branches

\* Two links are written, one after the other, and no other link changes (splay).
LEMMA TwiceWritten ==
  ASSUME NEW B \in Branches, NEW s \in Side, NEW e \in ItemOrNext, NEW c \in ItemOrNull,
         NEW r \in Side, NEW f \in ItemOrNext, NEW g \in ItemOrNull, s # r \/ e # f
  PROVE  ChangedTwice(B, With(With(B, s, e, c), r, f, g), s, e, c, r, f, g)
<1>1. PICK A : A = With(B, s, e, c) OBVIOUS
<1>2. Changed(B, A, s, e, c) BY <1>1, Written
<1>3. PICK C : C = With(A, r, f, g) OBVIOUS
<1>4. Changed(A, C, r, f, g)
  <2>1. A \in Branches BY <1>2 DEF Changed
  <2>2. QED BY <1>3, <2>1, Written
<1>5. ChangedTwice(B, C, s, e, c, r, f, g) BY <1>2, <1>4 DEF Changed, ChangedTwice
<1>6. QED BY <1>1, <1>3, <1>5

\* All of R is on side s of T; all of T but e itself is on the other side of e.
Before(s, R, T) == \A x \in R, y \in T : On(s, x, y)
LastOn(s, e, T) == e \in T /\ \A y \in T : y = e \/ On(s, e, y)

\* A tree of elements beyond all others is hung to the last one on that side.
LEMMA Graft ==
  ASSUME NEW B, NEW C, NEW top \in Item, NEW T, TreeOf(B, top, T),
         NEW s \in Side, NEW e, LastOn(s, e, T), B[s][e] = NoItem,
         NEW c, NEW R, TreeOf(B, c, R), Before(s, R, T), Changed(B, C, s, e, c)
  PROVE  TreeOf(C, top, T \cup R)
<1>1. T \subseteq Item /\ R \subseteq Item /\ e \in T /\ e \in Item /\ (~s) \in Side
  BY TreeParts, Items DEF LastOn
<1>2. /\ C[s][e] = c /\ \A t \in Side, m \in Item : t # s \/ m # e => C[t][m] = B[t][m]
      /\ \A y \in T : y = e \/ On(s, e, y)
      /\ \A x \in R, y \in T : On(s, x, y)
  BY Items DEF Changed, LastOn, Before
<1>3. ASSUME NEW n, NEW S, TreeOf(B, n, S), e \notin S PROVE TreeOf(C, n, S)
  <2>1. S \subseteq Item BY <1>3, TreeParts
  <2>2. \A m \in S, t \in Side : C[t][m] = B[t][m] BY <1>2, <1>3, <2>1, Items
  <2>3. QED BY <1>3, <2>2, Frame
<1>4. e \notin R BY <1>1, <1>2, Sides
<1> DEFINE Good == {k \in 0 .. SplayKeys :
                      \A n \in Item : \A S \in SUBSET T :
                        Cardinality(S) = k /\ TreeOf(B, n, S) /\ e \in S => TreeOf(C, n, S \cup R)}
<1>5. ASSUME NEW k \in 0 .. SplayKeys, \A j \in 0 .. SplayKeys : j < k => j \in Good
      PROVE  k \in Good
  <2>1. ASSUME NEW n \in Item, NEW S \in SUBSET T, Cardinality(S) = k, TreeOf(B, n, S), e \in S
        PROVE  TreeOf(C, n, S \cup R)
    <3>1. PICK P, Q \in SUBSET S : Parted(B, n, S, s, P, Q)
      <4> HIDE DEF Good
      <4>1. TreeOf(B, n, S) BY <2>1
      <4>2. QED BY <4>1, Split
    <3> USE DEF Parted
    <3>2. \A x \in R : On(s, x, n) BY <1>2, <3>1
    <3>3. e \notin Q
      <4>1. n \in T BY <3>1
      <4>2. e = n \/ On(s, e, n) BY <1>2, <4>1
      <4>3. QED BY <1>1, <3>1, <4>2, Sides
    <3>4. TreeOf(C, B[~s][n], Q) BY <1>3, <3>1, <3>3
    <3>5. C[~s][n] = B[~s][n] BY <1>1, <1>2, Items
    <3>6. CASE n = e
      <4>1. P = {} BY <3>1, <3>6, TreeParts
      <4>2. TreeOf(C, C[s][n], R) BY <1>2, <1>3, <1>4, <3>6
      <4>3. TreeOf(C, n, {n} \cup R \cup Q) BY <3>1, <3>2, <3>4, <3>5, <4>2, Crown
      <4>4. {n} \cup R \cup Q = S \cup R BY <3>1, <4>1
      <4>5. QED BY <4>3, <4>4
    <3>7. CASE n # e
      <4>1. e \in P BY <2>1, <3>1, <3>3, <3>7
      <4>2. B[s][n] \in Item BY <3>1, <4>1, TreeParts
      <4>3. Cardinality(P) \in 0 .. SplayKeys /\ Cardinality(P) < k
        <5>1. S \in SUBSET Item /\ n \in S BY <1>1, <3>1
        <5>2. QED BY <2>1, <3>1, <5>1, Fewer
      <4>4. TreeOf(C, B[s][n], P \cup R) BY <1>5, <3>1, <4>1, <4>2, <4>3
      <4>5. C[s][n] = B[s][n] BY <1>2, <3>7, Items
      <4>6. TreeOf(C, n, {n} \cup (P \cup R) \cup Q)
        BY <3>1, <3>2, <3>4, <3>5, <4>4, <4>5, Crown
      <4>7. {n} \cup (P \cup R) \cup Q = S \cup R BY <3>1
      <4>8. QED BY <4>6, <4>7
    <3>8. QED BY <3>6, <3>7
  <2>2. QED BY <2>1
<1>6. SplayKeys \in Nat BY SplayAssumption
<1>7. \A k \in 0 .. SplayKeys : k \in Good
  <2> HIDE DEF Good
  <2>1. QED BY <1>5, <1>6, Upwards
<1>8. Cardinality(T) \in 0 .. SplayKeys BY <1>1, Fewer
<1>9. QED BY <1>1, <1>7, <1>8

\* Two nodes are turned: the lower one gets above.
LEMMA Rotated ==
  ASSUME NEW B, NEW C, NEW at \in Item, NEW s \in Side, NEW kid \in Item, kid = B[s][at],
         NEW r \in Side, r = (~s),
         NEW S, TreeOf(B, at, S),
         ChangedTwice(B, C, s, at, B[r][kid], r, kid, at)
  PROVE  TreeOf(C, kid, S)
<1>1. (~s) \in Side /\ (~(~s)) = s /\ s # (~s) BY Items
<1>6. PICK P, Q \in SUBSET S : Parted(B, at, S, s, P, Q)
  BY Split
<1>7. PICK X, Y \in SUBSET P : Parted(B, kid, P, s, X, Y)
  <2>1. TreeOf(B, kid, P) BY <1>6 DEF Parted
  <2>2. QED BY <2>1, Split
<1> USE DEF Parted
<1>8. S \subseteq Item BY TreeParts
<1>9. at # kid /\ kid \notin Q BY <1>6, <1>7
<1>2. /\ C[s][at] = B[r][kid] /\ C[r][kid] = at
      /\ \A t \in Side, m \in Item :
           ~(t = s /\ m = at) /\ ~(t = r /\ m = kid) => C[t][m] = B[t][m]
  BY Items DEF ChangedTwice
<1>10. /\ C[s][at] = B[~s][kid] /\ C[~s][at] = B[~s][at] /\ C[s][kid] = B[s][kid]
       /\ C[~s][kid] = at
  BY <1>1, <1>2, <1>9
<1>11. \A t \in Side, m \in Item : m # at /\ m # kid => C[t][m] = B[t][m]
  BY <1>2
<1>12. ASSUME NEW n, NEW K, TreeOf(B, n, K), K \subseteq S, at \notin K, kid \notin K
       PROVE  TreeOf(C, n, K)
  <2>1. \A m \in K, t \in Side : C[t][m] = B[t][m] BY <1>8, <1>11, <1>12
  <2>2. QED BY <1>12, <2>1, Frame
<1>13. TreeOf(C, B[s][kid], X) /\ TreeOf(C, B[~s][kid], Y) /\ TreeOf(C, B[~s][at], Q)
  <2>1. at \notin X /\ at \notin Y /\ X \subseteq S /\ Y \subseteq S BY <1>6, <1>7
  <2>2. QED BY <1>6, <1>7, <1>9, <1>12, <2>1
<1>14. TreeOf(C, at, {at} \cup Y \cup Q)
  <2>1. \A x \in Y : On(s, x, at) BY <1>6, <1>7
  <2>2. QED BY <1>6, <1>10, <1>13, <2>1, Crown
<1>15. \A x \in {at} \cup Y \cup Q : On(~s, x, kid)
  <2>1. On(s, kid, at) BY <1>6, <1>7
  <2>2. On(~s, at, kid) BY <1>1, <2>1, Sides
  <2>3. ASSUME NEW x \in Q PROVE On(~s, x, kid)
    <3>1. On(~s, x, at) /\ x \in Item BY <1>6, <1>8
    <3>2. QED BY <1>1, <2>2, <3>1, Sides
  <2>4. QED BY <1>7, <2>2, <2>3
<1>16. TreeOf(C, kid, {kid} \cup X \cup ({at} \cup Y \cup Q))
  <2>1. TreeOf(C, C[s][kid], X) /\ TreeOf(C, C[~s][kid], {at} \cup Y \cup Q)
    BY <1>10, <1>13, <1>14
  <2>2. \A x \in X : On(s, x, kid) BY <1>7
  <2> DEFINE Z == {at} \cup Y \cup Q
  <2> HIDE DEF Z, Parted
  <2>3. TreeOf(C, kid, {kid} \cup X \cup Z) BY <1>15, <2>1, <2>2, Crown DEF Z
  <2>4. QED BY <2>3 DEF Z
<1>17. {kid} \cup X \cup ({at} \cup Y \cup Q) = S BY <1>6, <1>7
<1>18. QED BY <1>16, <1>17

-----------------------------------------------------------------------------
(* The turns of splay.                                                     *)

Descents == [branch : Branches, root : Item, end : [Side -> ItemOrNext]]

\* What is below the ends of the two trees is not theirs.
Cut(d) ==
  [s \in Side |-> [n \in ItemOrNext |-> IF n = d.end[s] THEN NoItem ELSE d.branch[s][n]]]

\* On the way down the elements T are in three trees: those below the root, M,
\* and those beyond them on each side, O, which are also beyond the item; the end
\* of a tree is the one nearest to the others.
Going(item, d, T, M, O) ==
  /\ d \in Descents /\ O \in [Side -> SUBSET Item]
  /\ TreeOf(Cut(d), d.root, M)
  /\ \A s \in Side : TreeOf(Cut(d), Cut(d)[s][Next0], O[s])
  /\ \A s \in Side : T = M \cup O[s] \cup O[~s]
  /\ \A s \in Side : \A x \in M, y \in O[s] : On(s, x, y)
  /\ \A s \in Side : \A y \in O[s] : On(s, item, y)
  /\ \A s \in Side : O[s] = {} => d.end[s] = Next0
  /\ \A s \in Side : O[s] # {} => d.end[s] \in O[s]
                                  /\ \A y \in O[s] : y = d.end[s] \/ On(s, d.end[s], y)

\* There is nothing to go down to.
Stops(item, d) == item = d.root \/ ~Is(d.branch[SideOf(item, d.root)][d.root])

\* The links without those that leave an end of the two outer trees.
LEMMA CutIs ==
  ASSUME NEW d \in Descents
  PROVE  /\ Cut(d) \in Branches
         /\ \A s \in Side : Cut(d)[s][d.end[s]] = NoItem
         /\ \A s \in Side, n \in ItemOrNext : n # d.end[s] => Cut(d)[s][n] = d.branch[s][n]
<1>1. d.branch \in Branches /\ d.end \in [Side -> ItemOrNext] BY DEF Descents
<1>2. ASSUME NEW s \in Side, NEW n \in ItemOrNext
      PROVE  /\ Cut(d)[s][n] = IF n = d.end[s] THEN NoItem ELSE d.branch[s][n]
             /\ Cut(d)[s][n] \in ItemOrNull
  BY <1>1 DEF Cut, Branches, ItemOrNull
<1>3. Cut(d) \in Branches
  <2>1. Cut(d) = [s \in Side |-> [n \in ItemOrNext |-> Cut(d)[s][n]]] BY DEF Cut
  <2>2. QED BY <1>2, <2>1 DEF Branches
<1>4. QED BY <1>1, <1>2, <1>3

\* The ends are no part of the tree in the middle.
LEMMA Apart ==
  ASSUME NEW item \in Item, NEW d, NEW T, NEW M, NEW O, Going(item, d, T, M, O), NEW s \in Side
  PROVE  /\ d.end[s] \notin M /\ d.end[s] \notin O[~s] /\ M \cap O[s] = {} /\ O[s] \cap O[~s] = {}
         /\ d.end[s] \in ItemOrNext /\ M \subseteq Item /\ O[s] \subseteq Item
         /\ O[~s] \subseteq Item
         /\ d.root \in M /\ d.root \in Item
<1> USE DEF Going
<1>1. /\ M \subseteq Item /\ d.root \in M /\ d.root \in Item
  <2>1. d.root \in Item /\ TreeOf(Cut(d), d.root, M) BY DEF Descents
  <2>2. QED BY <2>1, TreeParts, Items
<1>2. O[s] \subseteq Item /\ O[~s] \subseteq Item /\ (~s) \in Side BY Items
<1>3. ASSUME NEW x \in M, x \in O[s] PROVE FALSE BY <1>1, <1>3, Sides
<1>4. ASSUME NEW x \in O[s], x \in O[~s] PROVE FALSE
  <2>1. On(s, item, x) /\ On(~s, item, x) /\ x \in Item BY <1>2, <1>4
  <2>2. QED BY <2>1, Sides
<1>5. d.end[s] \in ItemOrNext BY DEF Descents
<1>6. d.end[s] = Next0 \/ d.end[s] \in O[s] OBVIOUS
<1>7. QED BY <1>1, <1>2, <1>3, <1>4, <1>5, <1>6, Items

\* A turning keeps the three trees.
LEMMA TurningKeeps ==
  ASSUME NEW item \in Item, NEW d, NEW T, NEW M, NEW O, Going(item, d, T, M, O),
         NEW s \in Side, NEW r \in Side, r = (~s), NEW at, at = d.root,
         NEW kid \in Item, kid = d.branch[s][at],
         NEW turned, ChangedTwice(d.branch, turned, s, at, d.branch[r][kid], r, kid, at),
         NEW e, e \in Descents, e.branch = turned, e.root = kid, e.end = d.end
  PROVE  /\ Going(item, e, T, M, O)
         /\ turned[s][kid] = d.branch[s][kid] /\ kid \in M
<1> DEFINE B == Cut(d)
<1>1. /\ d \in Descents /\ O \in [Side -> SUBSET Item] /\ TreeOf(B, at, M)
      /\ d.branch \in Branches /\ at \in Item
  BY DEF Going, Descents
<1>2. s # r /\ Item \subseteq ItemOrNext
  BY Items
<1>3. B \in Branches BY <1>1, CutIs
<1>4. \A t \in Side, m \in M : B[t][m] = d.branch[t][m] /\ d.end[t] # m
  <2>1. \A t \in Side, m \in M : m # d.end[t] /\ m \in ItemOrNext BY <1>2, Apart
  <2>2. QED BY <1>1, <2>1, CutIs
<1>5. at \in M /\ kid = B[s][at] /\ kid \in M
  <2>1. at \in M BY <1>2, Apart
  <2>2. kid = B[s][at] BY <1>4, <2>1
  <2>3. PICK P, Q \in SUBSET M : Parted(B, at, M, s, P, Q) BY <1>1, Split
  <2>4. TreeOf(B, kid, P) BY <2>2, <2>3 DEF Parted
  <2>5. kid \in P BY <2>4, TreeParts, Items
  <2>6. QED BY <2>1, <2>2, <2>5
<1>6. at # kid
  <2>1. PICK P, Q \in SUBSET M : Parted(B, at, M, s, P, Q) BY <1>1, Split
  <2>2. TreeOf(B, kid, P) /\ at \notin P BY <1>5, <2>1 DEF Parted
  <2>3. QED BY <2>2, TreeParts, Items
<1>7. /\ turned \in Branches /\ turned[s][at] = d.branch[r][kid] /\ turned[r][kid] = at
      /\ \A t \in Side, m \in ItemOrNext :
           ~(t = s /\ m = at) /\ ~(t = r /\ m = kid) => turned[t][m] = d.branch[t][m]
  BY DEF ChangedTwice
<1>8. e \in Descents /\ e.branch = turned /\ e.root = kid /\ e.end = d.end
  OBVIOUS
<1> DEFINE C == Cut(e)
<1>9. ChangedTwice(B, C, s, at, B[r][kid], r, kid, at)
  <2>1. \A t \in Side, m \in ItemOrNext :
          /\ C[t][m] = IF m = d.end[t] THEN NoItem ELSE turned[t][m]
          /\ B[t][m] = IF m = d.end[t] THEN NoItem ELSE d.branch[t][m]
    BY <1>8 DEF Cut
  <2>2. at # d.end[s] /\ kid # d.end[r] /\ B[r][kid] = d.branch[r][kid]
    BY <1>2, <1>4, <1>5
  <2>3. C \in Branches BY <1>8, CutIs
  <2> HIDE DEF B, C
  <2>4. C[s][at] = B[r][kid] BY <1>1, <1>2, <1>7, <2>1, <2>2
  <2>5. C[r][kid] = at BY <1>1, <1>2, <1>7, <2>1, <2>2
  <2>6. ASSUME NEW t \in Side, NEW m \in ItemOrNext,
               ~(t = s /\ m = at) /\ ~(t = r /\ m = kid)
        PROVE  C[t][m] = B[t][m]
    <3>1. turned[t][m] = d.branch[t][m] BY <1>7, <2>6
    <3>2. QED BY <2>1, <3>1
  <2>7. QED BY <2>3, <2>4, <2>5, <2>6 DEF ChangedTwice
<1> HIDE DEF B, C
<1>10. TreeOf(C, kid, M)
  BY <1>1, <1>5, <1>9, Rotated
<1>11. ASSUME NEW t \in Side PROVE TreeOf(C, C[t][Next0], O[t])
  <2>1. O[t] \subseteq Item /\ at \notin O[t] /\ kid \notin O[t] BY <1>5, Apart
  <2>2. \A m \in O[t], u \in Side : C[u][m] = B[u][m]
    BY <1>2, <1>9, <2>1 DEF ChangedTwice
  <2>3. C[t][Next0] = B[t][Next0]
    <3>1. at # Next0 /\ kid # Next0 /\ Next0 \in ItemOrNext BY <1>1, Items DEF ItemOrNext
    <3>2. QED BY <1>9, <3>1 DEF ChangedTwice
  <2>4. TreeOf(B, B[t][Next0], O[t]) BY DEF Going, B
  <2>5. QED BY <2>2, <2>3, <2>4, Frame
<1>12. turned[s][kid] = d.branch[s][kid] BY <1>1, <1>2, <1>6, <1>7, Items
<1>13. Going(item, e, T, M, O)
  BY <1>8, <1>10, <1>11 DEF Going, C
<1>14. QED BY <1>5, <1>12, <1>13

\* The root is hung to the end of the elements beyond it, and the loop goes on
\* below it.
LEMMA HangingKeeps ==
  ASSUME NEW item \in Item, NEW d, NEW T, NEW M, NEW O, Going(item, d, T, M, O),
         NEW s \in Side, NEW r \in Side, r = (~s), NEW top, top = d.root, On(s, item, top),
         NEW kid \in Item, kid = d.branch[s][top],
         NEW hung, Changed(d.branch, hung, s, d.end[s], top),
         NEW e, e \in Descents, e.branch = hung, e.root = kid, e.end = [d.end EXCEPT ![s] = top]
  PROVE  \E P, Z : /\ P \in SUBSET M /\ Going(item, e, T, P, Z)
                   /\ Cardinality(P) < Cardinality(M)
<1> DEFINE B == Cut(d)
           C == Cut(e)
<1>1. /\ d \in Descents /\ O \in [Side -> SUBSET Item] /\ TreeOf(B, top, M)
      /\ d.branch \in Branches /\ top \in Item /\ d.end \in [Side -> ItemOrNext]
  BY DEF Going, Descents
<1>2. /\ s # r /\ Item \subseteq ItemOrNext /\ s = (~r) /\ \A t \in Side : t = s \/ t = r
      /\ Next0 \notin Item /\ Next0 \in ItemOrNext
  BY Items DEF ItemOrNext
<1>3. /\ hung \in Branches /\ hung[s][d.end[s]] = top
      /\ \A t \in Side, m \in ItemOrNext : t # s \/ m # d.end[s] => hung[t][m] = d.branch[t][m]
  BY DEF Changed
<1>4. /\ e \in Descents /\ e.branch = hung /\ e.root = kid /\ e.end[s] = top
      /\ e.end[r] = d.end[r]
  BY <1>1, <1>2, <1>3 DEF Descents
<1> HIDE DEF B, C
<1>5. /\ M \subseteq Item /\ top \in M /\ d.end[s] \notin M /\ d.end[r] \notin M
      /\ O[s] \subseteq Item /\ O[r] \subseteq Item /\ M \cap O[s] = {} /\ M \cap O[r] = {}
      /\ d.end[s] \notin O[r] /\ d.end[r] \notin O[s] /\ d.end[s] \in ItemOrNext
      /\ d.end[r] \in ItemOrNext
  BY <1>1, <1>2, Apart
<1>6. /\ B \in Branches /\ B[s][d.end[s]] = NoItem
      /\ \A t \in Side, n \in ItemOrNext : n # d.end[t] => B[t][n] = d.branch[t][n]
  BY <1>1, CutIs DEF B
<1>7. /\ C \in Branches /\ C[s][top] = NoItem
      /\ \A t \in Side, n \in ItemOrNext : n # e.end[t] => C[t][n] = hung[t][n]
  <2>1. /\ C \in Branches
        /\ \A t \in Side : C[t][e.end[t]] = NoItem
        /\ \A t \in Side, n \in ItemOrNext : n # e.end[t] => C[t][n] = e.branch[t][n]
    <3>1. e \in Descents BY <1>4
    <3>2. QED BY <3>1, CutIs DEF C
  <2>2. C[s][top] = NoItem BY <1>4, <2>1
  <2>3. QED BY <1>4, <2>1, <2>2
<1>8. \A n \in ItemOrNext : n # d.end[s] /\ n # top => C[s][n] = B[s][n]
  <2>1. ASSUME NEW n \in ItemOrNext, n # d.end[s], n # top PROVE C[s][n] = B[s][n]
    <3>1. C[s][n] = hung[s][n] BY <1>4, <1>7, <2>1
    <3>2. QED BY <1>3, <1>6, <2>1, <3>1
  <2>2. QED BY <2>1
<1>9. C[s][d.end[s]] = top
  <2>1. d.end[s] # top BY <1>5
  <2>2. C[s][d.end[s]] = hung[s][d.end[s]] BY <1>4, <1>5, <2>1, CutIs DEF C
  <2>3. QED BY <1>3, <2>2
<1>10. \A n \in ItemOrNext : C[r][n] = B[r][n]
  <2>1. ASSUME NEW n \in ItemOrNext, n # d.end[r] PROVE C[r][n] = B[r][n]
    <3>1. C[r][n] = hung[r][n] BY <1>4, <1>7, <2>1
    <3>2. QED BY <1>2, <1>3, <1>6, <2>1, <3>1
  <2>2. C[r][d.end[r]] = NoItem /\ B[r][d.end[r]] = NoItem
    BY <1>1, <1>4, CutIs DEF B, C
  <2>3. QED BY <2>1, <2>2
<1>11. ASSUME NEW n, NEW K, TreeOf(B, n, K), top \notin K, d.end[s] \notin K
       PROVE  TreeOf(C, n, K)
  <2>1. K \subseteq Item BY <1>11, TreeParts
  <2>2. \A m \in K, t \in Side : C[t][m] = B[t][m] BY <1>2, <1>8, <1>10, <1>11, <2>1
  <2>3. QED BY <1>11, <2>2, Frame
<1>12. PICK P, Q \in SUBSET M : Parted(B, top, M, s, P, Q) BY <1>1, Split
<1>13. /\ M = {top} \cup P \cup Q /\ top \notin P /\ top \notin Q /\ P \cap Q = {}
       /\ TreeOf(B, B[s][top], P) /\ TreeOf(B, B[r][top], Q)
       /\ \A x \in P : On(s, x, top)
       /\ \A x \in Q : On(r, x, top)
  BY <1>12 DEF Parted
<1>14. B[s][top] = kid /\ TreeOf(C, kid, P)
  <2>1. B[s][top] = kid BY <1>2, <1>5, <1>6
  <2>2. d.end[s] \notin P BY <1>5
  <2>3. QED BY <1>11, <1>13, <2>1, <2>2
<1> DEFINE R == {top} \cup Q
<1>15. TreeOf(C, top, R)
  <2>1. TreeOf(C, C[s][top], {}) BY <1>7, EmptyTree
  <2>2. d.end[s] \notin Q /\ top \in ItemOrNext BY <1>1, <1>2, <1>5
  <2>3. TreeOf(C, C[r][top], Q) BY <1>10, <1>11, <1>13, <2>2
  <2>4. TreeOf(C, top, {top} \cup {} \cup Q) BY <1>1, <1>13, <2>1, <2>3, Crown
  <2>5. {top} \cup {} \cup Q = R OBVIOUS
  <2>6. QED BY <2>4, <2>5
<1>16. /\ \A x \in R, y \in O[s] : On(s, x, y)
       /\ \A x \in P, y \in R : On(s, x, y)
       /\ \A y \in R : On(s, item, y)
       /\ \A y \in Q : On(s, top, y)
  <2>1. R \subseteq M /\ P \subseteq M BY <1>13
  <2>2. \A x \in M, y \in O[s] : On(s, x, y) BY DEF Going
  <2>3. ASSUME NEW y \in Q PROVE On(s, top, y)
    <3>1. y \in Item /\ On(r, y, top) BY <1>5, <1>13
    <3>2. QED BY <1>1, <1>2, <3>1, Sides
  <2>4. ASSUME NEW x \in Item, On(s, x, top), NEW y \in R PROVE On(s, x, y)
    <3>1. CASE y = top BY <2>4, <3>1
    <3>2. CASE y \in Q
      <4>1. y \in Item /\ On(s, top, y) BY <1>5, <2>3, <3>2
      <4>2. QED BY <1>1, <2>4, <4>1, Sides
    <3>3. QED BY <3>1, <3>2
  <2>5. \A x \in P, y \in R : On(s, x, y) BY <1>5, <1>13, <2>1, <2>4
  <2>6. \A y \in R : On(s, item, y) BY <2>4
  <2>7. QED BY <2>1, <2>2, <2>3, <2>5, <2>6
<1>17. R \subseteq Item /\ R \cap O[s] = {} /\ R \cap O[r] = {} /\ top \in R /\ P \cap R = {}
       /\ R \subseteq M
  BY <1>5, <1>13
<1>18. TreeOf(C, C[s][Next0], O[s] \cup R)
  <2>1. CASE O[s] = {}
    <3>1. d.end[s] = Next0 BY <2>1 DEF Going
    <3>2. C[s][Next0] = top BY <1>9, <3>1
    <3>3. O[s] \cup R = R BY <2>1
    <3>4. QED BY <1>15, <3>2, <3>3
  <2>2. CASE O[s] # {}
    <3>1. /\ d.end[s] \in O[s] /\ \A y \in O[s] : y = d.end[s] \/ On(s, d.end[s], y)
          /\ TreeOf(B, B[s][Next0], O[s])
      BY <2>2 DEF Going, B
    <3>2. B[s][Next0] \in Item BY <2>2, <3>1, TreeParts
    <3>3. C[s][Next0] = B[s][Next0]
      <4>1. Next0 # d.end[s] /\ Next0 # top BY <1>1, <1>2, <1>5, <3>1
      <4>2. QED BY <1>2, <1>8, <4>1
    <3> DEFINE A == [t \in Side |-> [n \in ItemOrNext |-> IF t = s /\ n = d.end[s] THEN NoItem
                                                         ELSE C[t][n]]]
    <3>4. /\ A[s][d.end[s]] = NoItem
          /\ \A t \in Side, m \in ItemOrNext : t # s \/ m # d.end[s] => A[t][m] = C[t][m]
      BY <1>2, <1>5
    <3>5. /\ \A m \in R, t \in Side : A[t][m] = C[t][m]
          /\ \A m \in O[s], t \in Side : A[t][m] = B[t][m]
      <4>1. ASSUME NEW m \in R, NEW t \in Side PROVE A[t][m] = C[t][m]
        <5>1. m \in ItemOrNext /\ m # d.end[s] BY <1>2, <1>5, <1>17
        <5>2. QED BY <3>4, <5>1
      <4>2. ASSUME NEW m \in O[s], NEW t \in Side PROVE A[t][m] = B[t][m]
        <5>1. m \in Item /\ m # top /\ m \in ItemOrNext BY <1>2, <1>5
        <5>2. CASE t = r BY <1>2, <1>10, <3>4, <5>1, <5>2
        <5>3. CASE t = s /\ m = d.end[s] BY <1>6, <3>4, <5>3
        <5>4. CASE t = s /\ m # d.end[s] BY <1>8, <3>4, <5>1, <5>4
        <5>5. QED BY <1>2, <5>2, <5>3, <5>4
      <4>3. QED BY <4>1, <4>2
    <3> HIDE DEF A, R
    <3>6. TreeOf(A, top, R) BY <1>15, <3>5, Frame
    <3>7. TreeOf(A, B[s][Next0], O[s]) BY <3>1, <3>5, Frame
    <3>8. Changed(A, C, s, d.end[s], top) BY <1>7, <1>9, <3>4 DEF Changed
    <3>9. TreeOf(C, B[s][Next0], O[s] \cup R)
      <4>1. LastOn(s, d.end[s], O[s]) /\ Before(s, R, O[s]) BY <1>16, <3>1 DEF LastOn, Before
      <4>2. QED BY <3>2, <3>4, <3>6, <3>7, <3>8, <4>1, Graft
    <3>10. QED BY <3>3, <3>9
  <2>3. QED BY <2>1, <2>2
<1>19. TreeOf(C, C[r][Next0], O[r])
  <2>1. C[r][Next0] = B[r][Next0] /\ TreeOf(B, B[r][Next0], O[r]) BY <1>2, <1>10 DEF Going, B
  <2>2. top \notin O[r] BY <1>5
  <2>3. QED BY <1>5, <1>11, <2>1, <2>2
<1> DEFINE Z == [O EXCEPT ![s] = O[s] \cup R]
<1>20. Z \in [Side -> SUBSET Item] /\ Z[s] = O[s] \cup R /\ Z[r] = O[r]
  BY <1>1, <1>2, <1>17
<1> HIDE DEF Z
<1>21. \A t \in Side : TreeOf(C, C[t][Next0], Z[t]) BY <1>2, <1>18, <1>19, <1>20
<1>22. \A t \in Side : T = P \cup Z[t] \cup Z[~t]
  <2>1. T = M \cup O[s] \cup O[r] BY DEF Going
  <2>2. T = P \cup Z[s] \cup Z[r] /\ T = P \cup Z[r] \cup Z[s] BY <1>13, <1>20, <2>1
  <2>3. QED BY <1>2, <2>2
<1>23. \A t \in Side : \A x \in P, y \in Z[t] : On(t, x, y)
  <2>1. \A t \in Side : \A x \in P, y \in O[t] : On(t, x, y) BY DEF Going
  <2>2. QED BY <1>2, <1>16, <1>20, <2>1
<1>24. \A t \in Side : \A y \in Z[t] : On(t, item, y)
  <2>1. \A t \in Side : \A y \in O[t] : On(t, item, y) BY DEF Going
  <2>2. QED BY <1>2, <1>16, <1>20, <2>1
<1>25. \A t \in Side : Z[t] = {} => e.end[t] = Next0
  <2>1. O[r] = {} => d.end[r] = Next0 BY DEF Going
  <2>2. QED BY <1>2, <1>4, <1>17, <1>20, <2>1
<1>26. ASSUME NEW t \in Side, Z[t] # {}
       PROVE  e.end[t] \in Z[t] /\ \A y \in Z[t] : y = e.end[t] \/ On(t, e.end[t], y)
  <2>1. CASE t = s
    <3>1. \A y \in O[s] : On(s, top, y) BY <1>16, <1>17
    <3>2. QED BY <1>4, <1>16, <1>17, <1>20, <2>1, <3>1
  <2>2. CASE t = r
    <3>1. O[r] # {} => /\ d.end[r] \in O[r]
                       /\ \A y \in O[r] : y = d.end[r] \/ On(r, d.end[r], y)
      BY DEF Going
    <3>2. QED BY <1>4, <1>20, <1>26, <2>2, <3>1
  <2>3. QED BY <1>2, <2>1, <2>2
<1>27. Going(item, e, T, P, Z)
  BY <1>4, <1>14, <1>20, <1>21, <1>22, <1>23, <1>24, <1>25, <1>26 DEF Going, C
<1>28. Cardinality(P) < Cardinality(M)
  <2>1. M \in SUBSET Item BY <1>5
  <2>2. QED BY <1>5, <1>13, <2>1, Fewer
<1>29. QED BY <1>27, <1>28

\* Below the top of a tree, a child is one of its elements or the null pointer.
LEMMA Child ==
  ASSUME NEW item \in Item, NEW d, NEW T, NEW M, NEW O, Going(item, d, T, M, O), NEW s \in Side
  PROVE  d.root \in Item /\ d.branch \in Branches /\ d.branch[s][d.root] \in ItemOrNull
<1>1. d.root \in Item /\ d.branch \in Branches BY DEF Going, Descents
<1>2. QED BY <1>1, Items DEF Branches

\* Links of other elements than T are kept.
Outside(B, C, T) == \A s \in Side, m \in Item : m \notin T => C[s][m] = B[s][m]

\* The ends are elements of the table or "next".
LEMMA EndsInside ==
  ASSUME NEW item \in Item, NEW d, NEW T, NEW M, NEW O, Going(item, d, T, M, O), NEW s \in Side
  PROVE  /\ M \subseteq T /\ d.end[s] \in T \cup {Next0} /\ d.end[s] \in ItemOrNext
         /\ \A m \in Item : m \notin T => m # d.end[s] /\ m # d.root
<1>1. T = M \cup O[s] \cup O[~s] /\ (O[s] = {} => d.end[s] = Next0)
      /\ (O[s] # {} => d.end[s] \in O[s])
  BY DEF Going
<1>2. d.root \in M /\ d.end[s] \in ItemOrNext BY Apart
<1>3. QED BY <1>1, <1>2, Items

\* One turn of the loop keeps the three trees, and leaves the loop or elements.
LEMMA TurnKeeps ==
  ASSUME NEW item \in Item, NEW d, NEW T, NEW M, NEW O, Going(item, d, T, M, O)
  PROVE  \E P, Z : /\ P \in SUBSET M /\ Going(item, Turn(item, d), T, P, Z)
                   /\ Stops(item, Turn(item, d)) \/ Cardinality(P) < Cardinality(M)
                   /\ Outside(d.branch, Turn(item, d).branch, T)
<1> DEFINE at == d.root
           s == SideOf(item, at)
           kid == d.branch[s][at]
<1>1. CASE Stops(item, d)
  <2>1. Turn(item, d) = d BY <1>1 DEF Stops, Turn
  <2>2. Outside(d.branch, d.branch, T) BY DEF Outside
  <2>3. QED BY <1>1, <2>1, <2>2
<1>2. CASE ~Stops(item, d)
  <2>1. item # at /\ Is(kid) BY <1>2 DEF Stops
  <2>2. s \in Side /\ (~s) \in Side /\ s # (~s) BY Items DEF SideOf, Side
  <2>3. at \in Item /\ d.branch \in Branches /\ kid \in Item /\ d.end \in [Side -> ItemOrNext]
    <3>1. kid \in ItemOrNull BY <2>2, Child
    <3>2. at \in Item /\ d.branch \in Branches BY <2>2, Child
    <3>3. QED BY <2>1, <3>1, <3>2 DEF Is, ItemOrNull, Going, Descents
  <2>4. ASSUME NEW n \in Item, n # item, SideOf(item, n) = s PROVE On(s, item, n)
    BY <2>4, SideIs
  <2>5. d \in Descents BY DEF Going
  <2> HIDE DEF at, s, kid
  <2> DEFINE turned == IF ZigZig(item, kid, s)
                       THEN [d.branch EXCEPT ![s][at] = d.branch[~s][kid], ![~s][kid] = at]
                       ELSE d.branch
             top == IF ZigZig(item, kid, s) THEN kid ELSE at
             f == [d EXCEPT !.branch = turned, !.root = top]
  <2>6. Going(item, f, T, M, O) /\ top \in Item /\ On(s, item, top)
        /\ turned \in Branches /\ f.branch = turned /\ f.root = top /\ f.end = d.end
        /\ Outside(d.branch, turned, T)
    <3>1. CASE ZigZig(item, kid, s)
      <4>1. /\ turned = With(With(d.branch, s, at, d.branch[~s][kid]), ~s, kid, at)
            /\ top = kid /\ f = [d EXCEPT !.branch = turned, !.root = kid]
        BY <3>1 DEF With
      <4>2. at \in ItemOrNull /\ d.branch[~s][kid] \in ItemOrNull /\ Item \subseteq ItemOrNext
        BY <2>2, <2>3, Items DEF Branches, ItemOrNull
      <4> HIDE DEF turned, f, top
      <4>3. ChangedTwice(d.branch, turned, s, at, d.branch[~s][kid], ~s, kid, at)
        <5>1. PICK r \in Side : r = (~s) BY <2>2
        <5>2. PICK c \in ItemOrNull : c = d.branch[r][kid] BY <4>2, <5>1
        <5>3. turned = With(With(d.branch, s, at, c), r, kid, at) BY <4>1, <5>1, <5>2
        <5>4. ChangedTwice(d.branch, With(With(d.branch, s, at, c), r, kid, at),
                           s, at, c, r, kid, at)
          <6>1. at \in ItemOrNext /\ kid \in ItemOrNext /\ s # r BY <2>2, <2>3, <4>2, <5>1
          <6>2. QED BY <2>2, <2>3, <4>2, <6>1, TwiceWritten
        <5>5. QED BY <5>1, <5>2, <5>3, <5>4
      <4>4. kid = d.branch[s][at] /\ at = d.root BY DEF kid, at
      <4>5. Going(item, f, T, M, O) /\ turned \in Branches /\ kid \in M
        <5>1. PICK r \in Side : r = (~s) BY <2>2
        <5>2. ChangedTwice(d.branch, turned, s, at, d.branch[r][kid], r, kid, at) BY <4>3, <5>1
        <5>3. f \in Descents /\ f.branch = turned /\ f.root = kid /\ f.end = d.end
          <6>1. turned \in Branches BY <5>2 DEF ChangedTwice
          <6>2. QED BY <2>3, <2>5, <4>1, <6>1 DEF Descents
        <5>4. Going(item, f, T, M, O)
          BY <2>2, <2>3, <4>4, <5>1, <5>2, <5>3, TurningKeeps
        <5>5. kid \in M BY <2>2, <2>3, <4>4, <5>1, <5>2, <5>3, TurningKeeps
        <5>6. QED BY <4>3, <5>4, <5>5 DEF ChangedTwice
      <4>6. On(s, item, kid) BY <2>3, <2>4, <3>1 DEF ZigZig
      <4>7. f.branch = turned /\ f.root = top /\ f.end = d.end BY <2>5 DEF f, Descents
      <4>8. Outside(d.branch, turned, T)
        <5>1. at \in T /\ kid \in T BY <2>2, <2>3, <4>4, <4>5, EndsInside
        <5>2. Item \subseteq ItemOrNext BY Items
        <5>3. QED BY <4>3, <5>1, <5>2 DEF ChangedTwice, Outside
      <4>9. QED BY <2>3, <4>1, <4>5, <4>6, <4>7, <4>8
    <3>2. CASE ~ZigZig(item, kid, s)
      <4>1. turned = d.branch /\ top = at /\ at = d.root BY <3>2 DEF at
      <4>2. f = d BY <2>5, <4>1 DEF Descents
      <4>3. SideOf(item, at) = s BY DEF s
      <4> HIDE DEF turned, f, top
      <4>4. On(s, item, at) BY <2>1, <2>3, <2>4, <4>3
      <4>5. Outside(d.branch, d.branch, T) BY DEF Outside
      <4>6. QED BY <2>3, <4>1, <4>2, <4>4, <4>5
    <3>3. QED BY <3>1, <3>2
  <2>7. Turn(item, d) =
          IF ~Is(turned[s][top]) THEN f
          ELSE [branch |-> [turned EXCEPT ![s][d.end[s]] = top], root |-> turned[s][top],
                end |-> [d.end EXCEPT ![s] = top]]
    BY <2>1 DEF Turn, at, s, kid
  <2> HIDE DEF turned, top, f
  <2>8. CASE ~Is(turned[s][top])
    <3>1. Turn(item, d) = f BY <2>7, <2>8
    <3>2. SideOf(item, top) = s BY <2>2, <2>6, SideIs
    <3>3. Stops(item, f) BY <2>6, <2>8, <3>2 DEF Stops
    <3>4. QED BY <2>6, <3>1, <3>3
  <2>9. CASE Is(turned[s][top])
    <3> DEFINE hung == [turned EXCEPT ![s][d.end[s]] = top]
               e == [branch |-> hung, root |-> turned[s][top], end |-> [d.end EXCEPT ![s] = top]]
    <3>1. Turn(item, d) = e BY <2>7, <2>9
    <3>2. turned[s][top] \in Item
      <4>1. turned[s][top] \in ItemOrNull BY <2>2, <2>6, Items DEF Branches
      <4>2. QED BY <2>9, <4>1 DEF Is, ItemOrNull
    <3>3. hung = With(turned, s, d.end[s], top) BY DEF With
    <3> HIDE DEF hung
    <3>4. Changed(turned, hung, s, d.end[s], top)
      <4>1. d.end[s] \in ItemOrNext /\ top \in ItemOrNull BY <2>2, <2>3, <2>6 DEF ItemOrNull
      <4>2. QED BY <2>2, <2>6, <3>3, <4>1, Written
    <3>5. /\ e \in Descents /\ e.branch = hung /\ e.root = turned[s][top]
          /\ e.end = [d.end EXCEPT ![s] = top]
      <4>1. hung \in Branches BY <3>4 DEF Changed
      <4>2. [d.end EXCEPT ![s] = top] \in [Side -> ItemOrNext] BY <2>3, <2>6, Items
      <4>3. QED BY <3>2, <4>1, <4>2 DEF Descents
    <3> HIDE DEF e
    <3>6. PICK r \in Side : r = (~s) BY <2>2
    <3>7. \E P, Z : /\ P \in SUBSET M /\ Going(item, e, T, P, Z)
                   /\ Cardinality(P) < Cardinality(M)
      <4>1. Changed(f.branch, hung, s, f.end[s], top) /\ e.end = [f.end EXCEPT ![s] = top]
        BY <2>6, <3>4, <3>5
      <4>2. PICK kid2 \in Item : kid2 = f.branch[s][top] BY <2>6, <3>2
      <4>3. e \in Descents /\ e.branch = hung /\ e.root = kid2 BY <2>6, <3>5, <4>2
      <4>4. Going(item, f, T, M, O) /\ top = f.root /\ On(s, item, top) BY <2>6
      <4>5. QED BY <2>2, <3>6, <4>1, <4>2, <4>3, <4>4, HangingKeeps
    <3>8. Outside(d.branch, hung, T)
      <4>1. \A m \in Item : m \notin T => m # d.end[s] BY <2>2, EndsInside
      <4>2. Item \subseteq ItemOrNext BY Items
      <4>3. Outside(turned, hung, T) BY <3>4, <4>1, <4>2 DEF Changed, Outside
      <4>4. QED BY <2>6, <4>3 DEF Outside
    <3>9. QED BY <3>1, <3>5, <3>7, <3>8
  <2>10. QED BY <2>8, <2>9
<1>3. QED BY <1>1, <1>2

\* All turns keep the three trees, and at their end the loop is left.
LEMMA DescendKeeps ==
  ASSUME NEW item \in Item, NEW b \in Branches, NEW top \in Item, NEW T, TreeOf(b, top, T)
  PROVE  LET d == Descend(item, b, top)
         IN  /\ Stops(item, d) /\ \E M, O : M \in SUBSET T /\ Going(item, d, T, M, O)
             /\ Outside(b, d.branch, T)
<1> DEFINE start == [branch |-> b, root |-> top, end |-> [s \in Side |-> Next0]]
<1>1. SplayKeys \in Nat /\ SplayKeys \in 0 .. SplayKeys BY SplayAssumption
<1>2. Going(item, start, T, T, [s \in Side |-> {}])
  <2> DEFINE B == Cut(start)
  <2>1. Next0 \in ItemOrNext /\ T \subseteq Item /\ \A s \in Side : (~s) \in Side
    BY TreeParts, Items DEF ItemOrNext
  <2>2. start \in Descents BY <2>1 DEF Descents
  <2>3. start.root = top /\ start.branch = b /\ \A s \in Side : start.end[s] = Next0 OBVIOUS
  <2> HIDE DEF start
  <2>4. \A s \in Side : B[s][Next0] = NoItem
    <3>1. \A s \in Side : B[s][start.end[s]] = NoItem BY <2>2, CutIs
    <3>2. QED BY <2>3, <3>1
  <2>5. \A m \in T, s \in Side : B[s][m] = b[s][m]
    <3>1. \A s \in Side, m \in ItemOrNext : m # start.end[s] => B[s][m] = start.branch[s][m]
      BY <2>2, CutIs
    <3>2. \A m \in T : m \in ItemOrNext /\ m # Next0 BY <2>1, Items
    <3>3. QED BY <2>3, <3>1, <3>2
  <2> HIDE DEF B
  <2>6. TreeOf(B, start.root, T) BY <2>3, <2>5, Frame
  <2> DEFINE O == [s \in Side |-> {}]
  <2>7. \A s \in Side : O[s] = {} /\ O[~s] = {} BY <2>1
  <2>8. O \in [Side -> SUBSET Item] OBVIOUS
  <2> HIDE DEF O
  <2>9. \A s \in Side : TreeOf(B, B[s][Next0], O[s]) BY <2>4, <2>7, EmptyTree
  <2>10. Going(item, start, T, T, O)
    BY <2>2, <2>3, <2>6, <2>7, <2>8, <2>9 DEF Going, B
  <2>11. QED BY <2>10 DEF O
<1> HIDE DEF start
<1> DEFINE Turns(k, f) == f = [i \in 0 .. k |-> IF i = 0 THEN start ELSE Turn(item, f[i - 1])]
<1>3. \E f : Turns(SplayKeys, f)
  <2> DEFINE Good == {k \in 0 .. SplayKeys : \E f : Turns(k, f)}
  <2>1. ASSUME NEW k \in 0 .. SplayKeys, \A j \in 0 .. SplayKeys : j < k => j \in Good
        PROVE  k \in Good
    <3>1. CASE k = 0
      <4> DEFINE f == [i \in 0 .. k |-> start]
      <4>1. Turns(k, f)
        <5>1. \A i \in 0 .. k : i = 0 BY <3>1
        <5>2. QED BY <5>1
      <4>2. QED BY <4>1
    <3>2. CASE k # 0
      <4>1. k - 1 \in 0 .. SplayKeys /\ k - 1 < k BY <3>2, <1>1
      <4>2. k - 1 \in Good BY <2>1, <4>1
      <4>3. PICK g : Turns(k - 1, g) BY <4>2
      <4> DEFINE f == [i \in 0 .. k |-> IF i = k THEN Turn(item, g[k - 1]) ELSE g[i]]
      <4>4. ASSUME NEW i \in 0 .. k
            PROVE  f[i] = IF i = 0 THEN start ELSE Turn(item, f[i - 1])
        <5>1. CASE i = k
          <6>1. k - 1 \in 0 .. k /\ k - 1 # k BY <3>2
          <6>2. f[k - 1] = g[k - 1] BY <6>1
          <6>3. f[i] = Turn(item, g[k - 1]) BY <5>1
          <6>4. QED BY <3>2, <5>1, <6>2, <6>3
        <5>2. CASE i # k
          <6>1. i \in 0 .. (k - 1) /\ i <= k - 1 BY <5>2
          <6>2. g[i] = IF i = 0 THEN start ELSE Turn(item, g[i - 1]) BY <4>3, <6>1
          <6>3. i # 0 => i - 1 \in 0 .. k /\ i - 1 # k BY <6>1
          <6>4. f[i] = g[i] /\ (i # 0 => f[i - 1] = g[i - 1]) BY <5>2, <6>3
          <6>5. QED BY <6>2, <6>4
        <5>3. QED BY <5>1, <5>2
      <4>5. f = [i \in 0 .. k |-> f[i]] OBVIOUS
      <4> HIDE DEF f
      <4>6. Turns(k, f) BY <4>4, <4>5
      <4>7. QED BY <4>6
    <3>3. QED BY <3>1, <3>2
  <2>2. \A k \in 0 .. SplayKeys : k \in Good
    <3> HIDE DEF Good
    <3>1. QED BY <1>1, <2>1, Upwards
  <2>3. QED BY <1>1, <2>2
<1> DEFINE turns == CHOOSE f : Turns(SplayKeys, f)
<1>4. Descend(item, b, top) = turns[SplayKeys] BY Zenon DEF Descend, start
<1>5. Turns(SplayKeys, turns) BY <1>3
<1> HIDE DEF turns
<1>6. \A i \in 0 .. SplayKeys : turns[i] = IF i = 0 THEN start ELSE Turn(item, turns[i - 1])
  BY <1>5
<1> HIDE DEF Turns
<1> DEFINE Good == {i \in 0 .. SplayKeys :
                      \E M, O :
                        /\ M \in SUBSET T /\ Going(item, turns[i], T, M, O)
                        /\ Stops(item, turns[i]) \/ Cardinality(M) + i <= SplayKeys
                        /\ Outside(b, turns[i].branch, T)}
<1>7. ASSUME NEW i \in 0 .. SplayKeys, \A j \in 0 .. SplayKeys : j < i => j \in Good
      PROVE  i \in Good
  <2>1. T \in SUBSET Item BY TreeParts
  <2>2. CASE i = 0
    <3>1. turns[i] = start BY <1>6, <2>2
    <3>2. Cardinality(T) + i <= SplayKeys BY <1>1, <2>1, <2>2, Fewer
    <3>3. start.branch = b BY DEF start
    <3>4. Outside(b, turns[i].branch, T) BY <3>1, <3>3 DEF Outside
    <3>5. QED BY <1>2, <3>1, <3>2, <3>4
  <2>3. CASE i # 0
    <3>1. i - 1 \in 0 .. SplayKeys /\ i - 1 < i /\ i \in Nat BY <1>1, <2>3
    <3>2. PICK M, O :
            /\ M \in SUBSET T /\ Going(item, turns[i - 1], T, M, O)
            /\ Stops(item, turns[i - 1]) \/ Cardinality(M) + (i - 1) <= SplayKeys
            /\ Outside(b, turns[i - 1].branch, T)
      BY <1>7, <3>1
    <3>3. turns[i] = Turn(item, turns[i - 1]) BY <1>6, <2>3
    <3>4. CASE Stops(item, turns[i - 1])
      <4>1. turns[i] = turns[i - 1] BY <3>3, <3>4 DEF Stops, Turn
      <4>2. QED BY <3>2, <3>4, <4>1
    <3>5. CASE ~Stops(item, turns[i - 1])
      <4>1. PICK P, Z : /\ P \in SUBSET M /\ Going(item, turns[i], T, P, Z)
                        /\ Stops(item, turns[i]) \/ Cardinality(P) < Cardinality(M)
                        /\ Outside(turns[i - 1].branch, turns[i].branch, T)
        BY <3>2, <3>3, TurnKeeps
      <4>2. Cardinality(M) \in Nat /\ Cardinality(P) \in Nat
        <5>1. M \in SUBSET Item /\ P \in SUBSET Item BY <2>1, <3>2, <4>1
        <5>2. QED BY <1>1, <5>1, Fewer
      <4>3. Stops(item, turns[i]) \/ Cardinality(P) + i <= SplayKeys
        BY <1>1, <3>1, <3>2, <3>5, <4>1, <4>2
      <4>4. P \in SUBSET T BY <3>2, <4>1
      <4>5. Outside(b, turns[i].branch, T) BY <3>2, <4>1 DEF Outside
      <4>6. QED BY <4>1, <4>3, <4>4, <4>5
    <3>6. QED BY <3>4, <3>5
  <2>4. QED BY <2>2, <2>3
<1>8. \A i \in 0 .. SplayKeys : i \in Good
  <2> HIDE DEF Good
  <2>1. QED BY <1>1, <1>7, Upwards
<1>9. PICK M, O :
        /\ M \in SUBSET T /\ Going(item, turns[SplayKeys], T, M, O)
        /\ Stops(item, turns[SplayKeys]) \/ Cardinality(M) + SplayKeys <= SplayKeys
        /\ Outside(b, turns[SplayKeys].branch, T)
  BY <1>1, <1>8
<1>10. ~(Cardinality(M) + SplayKeys <= SplayKeys)
  <2>1. PICK s \in Side : TRUE BY DEF Side
  <2>2. M \in SUBSET Item /\ turns[SplayKeys].root \in M BY <1>9, Apart
  <2>3. {} \in SUBSET M /\ Cardinality({}) \in 0 .. SplayKeys BY <2>2, Fewer
  <2>4. Cardinality({}) < Cardinality(M) BY <2>2, <2>3, Fewer
  <2>5. Cardinality(M) \in 0 .. SplayKeys BY <2>2, Fewer
  <2>6. QED BY <1>1, <2>3, <2>4, <2>5
<1>11. QED BY <1>4, <1>9, <1>10

\* Where the loop is left, an item of the tree is the root: the search found it.
LEMMA FoundAtTop ==
  ASSUME NEW item \in Item, NEW d, NEW T, NEW M, NEW O, Going(item, d, T, M, O),
         Stops(item, d), item \in T
  PROVE  d.root = item
<1>1. PICK s \in Side : s = SideOf(item, d.root) BY DEF SideOf, Side
<1>2. item \in M
  <2>1. \A y \in O[s] : On(s, item, y) BY DEF Going
  <2>2. \A y \in O[~s] : On(~s, item, y) BY Items DEF Going
  <2>3. T = M \cup O[s] \cup O[~s] BY DEF Going
  <2>4. QED BY <2>1, <2>2, <2>3, Items, Sides
<1>3. ASSUME d.root # item PROVE FALSE
  <2>1. d.root \in Item /\ d.root \in M /\ M \subseteq Item BY Apart
  <2>2. d.branch[s][d.root] = NoItem BY <1>1, <1>3 DEF Stops, Is
  <2>3. TreeOf(Cut(d), d.root, M) /\ d \in Descents BY DEF Going
  <2>4. Cut(d)[s][d.root] = NoItem
    <3>1. d.root # d.end[s] /\ d.root \in ItemOrNext
      <4>1. d.end[s] \notin M BY Apart
      <4>2. QED BY <2>1, <4>1, Items
    <3>2. QED BY <2>2, <2>3, <3>1, CutIs
  <2>5. PICK P, Q \in SUBSET M : Parted(Cut(d), d.root, M, s, P, Q) BY <2>1, <2>3, Split
  <2>6. P = {}
    <3>1. TreeOf(Cut(d), Cut(d)[s][d.root], P) BY <2>5 DEF Parted
    <3>2. QED BY <2>4, <3>1, TreeParts
  <2>7. M = {d.root} \cup P \cup Q /\ \A x \in Q : On(~s, x, d.root) BY <2>5 DEF Parted
  <2>8. On(~s, item, d.root) BY <1>2, <1>3, <2>6, <2>7
  <2>9. On(s, item, d.root) BY <1>1, <1>3, <2>1, SideIs
  <2>10. QED BY <2>1, <2>8, <2>9, Sides
<1>4. QED BY <1>3

\* Each end has got the root's subtree on its own side; other links are kept.
EndsTake(d, R) ==
  /\ R \in Branches
  /\ \A v \in Side, m \in Item :
       m # d.root => R[v][m] = IF m = d.end[v] THEN d.branch[~v][d.root] ELSE d.branch[v][m]

\* The end of the elements beyond the root takes the root's subtree on the other
\* side: t is the side that those elements hang on.
LEMMA EndTakes ==
  ASSUME NEW item \in Item, NEW d, NEW T, NEW M, NEW O, Going(item, d, T, M, O),
         NEW t \in Side, NEW u \in Side, u = (~t), NEW R, EndsTake(d, R),
         NEW K \in SUBSET M, d.root \notin K, TreeOf(Cut(d), Cut(d)[u][d.root], K),
         NEW h, h = IF d.end[t] = Next0 THEN d.branch[u][d.root] ELSE d.branch[t][Next0]
  PROVE  TreeOf(R, h, O[t] \cup K)
<1> DEFINE B == Cut(d)
           e == d.end[t]
           c == d.branch[u][d.root]
<1>0. /\ R \in Branches
      /\ \A v \in Side, m \in Item :
           m # d.root => R[v][m] = IF m = d.end[v] THEN d.branch[~v][d.root] ELSE d.branch[v][m]
  BY DEF EndsTake
<1>1. /\ M \subseteq Item /\ d.root \in M /\ \A v \in Side : d.end[v] \notin M
      /\ O[t] \subseteq Item /\ M \cap O[t] = {} /\ d.end[u] \notin O[t]
  <2>1. d.end[t] \notin M /\ O[t] \subseteq Item /\ M \cap O[t] = {} BY Apart
  <2>2. M \subseteq Item /\ d.root \in M /\ d.end[u] \notin M BY Apart
  <2>3. d.end[u] \notin O[~u] BY Apart
  <2>4. t = (~u) /\ \A v \in Side : v = t \/ v = u BY Items
  <2>5. QED BY <2>1, <2>2, <2>3, <2>4
<1>2. /\ t # u /\ Item \subseteq ItemOrNext /\ \A v \in Side : v = t \/ v = u
      /\ Next0 \notin Item /\ Next0 \in ItemOrNext
  BY Items DEF ItemOrNext
<1>3. /\ B \in Branches /\ B[t][e] = NoItem
      /\ \A v \in Side, n \in ItemOrNext : n # d.end[v] => B[v][n] = d.branch[v][n]
  <2>1. d \in Descents BY DEF Going
  <2>2. QED BY <2>1, CutIs
<1>4. TreeOf(B, B[u][d.root], K) /\ TreeOf(B, B[t][Next0], O[t]) BY DEF Going
<1>5. /\ \A x \in M, y \in O[t] : On(t, x, y)
      /\ O[t] = {} => e = Next0
      /\ O[t] # {} => e \in O[t] /\ \A y \in O[t] : y = e \/ On(t, e, y)
  BY DEF Going
<1> HIDE DEF B
<1>6. B[u][d.root] = c BY <1>1, <1>2, <1>3
<1>7. TreeOf(R, c, K)
  <2>1. \A m \in K, v \in Side : R[v][m] = B[v][m]
    <3>1. ASSUME NEW m \in K, NEW v \in Side PROVE R[v][m] = B[v][m]
      <4>1. m \in Item /\ m \in ItemOrNext /\ m # d.root /\ m # d.end[v] BY <1>1, <1>2
      <4>2. QED BY <1>0, <1>3, <4>1
    <3>2. QED BY <3>1
  <2>2. QED BY <1>4, <1>6, <2>1, Frame
<1>8. CASE O[t] = {}
  <2>1. h = c /\ O[t] \cup K = K BY <1>5, <1>8
  <2>2. QED BY <1>7, <2>1
<1>9. CASE O[t] # {}
  <2>1. e \in O[t] /\ LastOn(t, e, O[t]) /\ e \in Item /\ e # d.root
    BY <1>1, <1>5, <1>9 DEF LastOn
  <2>2. h = B[t][Next0] /\ B[t][Next0] \in Item
    <3>1. e # Next0 BY <1>2, <2>1
    <3>2. B[t][Next0] \in Item BY <1>4, <1>9, TreeParts
    <3>3. QED BY <1>2, <1>3, <3>1, <3>2
  <2>3. R[t][e] = c
    <3>1. R[t][e] = d.branch[~t][d.root] BY <1>0, <2>1
    <3>2. QED BY <3>1
  <2> DEFINE A == [v \in Side |-> [n \in ItemOrNext |-> IF v = t /\ n = e THEN NoItem
                                                       ELSE R[v][n]]]
  <2>4. /\ A[t][e] = NoItem
        /\ \A v \in Side, m \in ItemOrNext : v # t \/ m # e => A[v][m] = R[v][m]
    BY <1>2, <2>1
  <2> HIDE DEF A, e, c
  <2>5. Changed(A, R, t, e, c) BY <1>0, <2>3, <2>4 DEF Changed
  <2>6. TreeOf(A, c, K)
    <3>1. \A m \in K, v \in Side : A[v][m] = R[v][m]
      <4>1. \A m \in K : m \in ItemOrNext /\ m # e BY <1>1, <1>2, <2>1
      <4>2. QED BY <2>4, <4>1
    <3>2. QED BY <1>7, <3>1, Frame
  <2>7. TreeOf(A, B[t][Next0], O[t])
    <3>1. ASSUME NEW m \in O[t], NEW v \in Side PROVE A[v][m] = B[v][m]
      <4>1. m \in Item /\ m \in ItemOrNext /\ m # d.root /\ m # d.end[u] BY <1>1, <1>2
      <4>2. CASE v = t /\ m = e BY <1>3, <2>4, <4>2
      <4>3. CASE v # t \/ m # e
        <5>1. m # d.end[v] BY <1>2, <4>1, <4>3 DEF e
        <5>2. R[v][m] = d.branch[v][m] BY <1>0, <4>1, <5>1
        <5>3. QED BY <1>3, <2>4, <4>1, <4>3, <5>1, <5>2
      <4>4. QED BY <4>2, <4>3
    <3>2. QED BY <1>4, <3>1, Frame
  <2>8. Before(t, K, O[t]) BY <1>5 DEF Before
  <2>9. TreeOf(R, B[t][Next0], O[t] \cup K)
    BY <2>1, <2>2, <2>4, <2>5, <2>6, <2>7, <2>8, Graft
  <2>10. QED BY <2>2, <2>9
<1>10. QED BY <1>8, <1>9

\* What a splay leaves: a tree of the same elements, the item at its top if it is
\* one of them, and on each side of the top only elements on that side of the item.
Splayed(item, t, T) ==
  /\ t.branch \in Branches /\ t.root \in T /\ TreeOf(t.branch, t.root, T)
  /\ item \in T => t.root = item
  /\ \A s \in Side : \E P, Q \in SUBSET T :
       /\ Parted(t.branch, t.root, T, s, P, Q)
       /\ \A x \in P : On(s, x, item)
       /\ \A x \in Q : On(~s, x, item)

\* The links that the end of splay writes.
LEMMA Assembled ==
  ASSUME NEW d \in Descents
  PROVE  /\ EndsTake(d, Assemble(d).branch) /\ Assemble(d).root = d.root
         /\ \A v \in Side : (\A w \in Side : d.end[w] # d.root) =>
              Assemble(d).branch[v][d.root] =
                IF d.end[~v] = Next0 THEN d.branch[v][d.root] ELSE d.branch[~v][Next0]
<1> DEFINE top == d.root
           cl == d.branch[Left][top]
           cr == d.branch[Right][top]
           b == With(With(d.branch, Right, d.end[Right], cl), Left, d.end[Left], cr)
           hl == b[Left][Next0]
           hr == b[Right][Next0]
           k == With(With(b, Left, top, hr), Right, top, hl)
           a == With(With(k, Left, Next0, NoItem), Right, Next0, NoItem)
<1>1. /\ Left \in Side /\ Right \in Side /\ Left # Right /\ (~Left) = Right /\ (~Right) = Left
      /\ \A v \in Side : v = Left \/ v = Right
      /\ Item \subseteq ItemOrNext /\ Next0 \in ItemOrNext /\ Next0 \notin Item
  BY Items DEF Side, Left, Right, ItemOrNext
<1>2. /\ d.branch \in Branches /\ top \in Item /\ d.end \in [Side -> ItemOrNext]
      /\ d.end[Left] \in ItemOrNext /\ d.end[Right] \in ItemOrNext
      /\ cl \in ItemOrNull /\ cr \in ItemOrNull /\ NoItem \in ItemOrNull
  BY <1>1 DEF Descents, Branches, ItemOrNull
<1>3. Assemble(d) = [branch |-> a, root |-> top]
  BY Zenon DEF Assemble, With
<1>4. ChangedTwice(d.branch, b, Right, d.end[Right], cl, Left, d.end[Left], cr)
  <2> HIDE DEF cl, cr, top
  <2>1. QED BY <1>1, <1>2, TwiceWritten
<1> HIDE DEF b
<1>5. b \in Branches /\ hl \in ItemOrNull /\ hr \in ItemOrNull
  <2>1. b \in Branches BY <1>4 DEF ChangedTwice
  <2>2. QED BY <1>1, <2>1 DEF Branches
<1>6. ChangedTwice(b, k, Left, top, hr, Right, top, hl)
  <2> HIDE DEF hl, hr, top
  <2>1. top \in ItemOrNext BY <1>1, <1>2
  <2>2. QED BY <1>1, <1>5, <2>1, TwiceWritten
<1> HIDE DEF k
<1>7. ChangedTwice(k, a, Left, Next0, NoItem, Right, Next0, NoItem)
  <2>1. k \in Branches BY <1>6 DEF ChangedTwice
  <2>2. QED BY <1>1, <1>2, <2>1, TwiceWritten
<1> HIDE DEF a
<1>8. a \in Branches BY <1>7 DEF ChangedTwice
<1>9. \A v \in Side, m \in Item : a[v][m] = k[v][m]
  BY <1>1, <1>7 DEF ChangedTwice
<1>10. ASSUME NEW v \in Side, NEW m \in Item, m # top
       PROVE  a[v][m] = IF m = d.end[v] THEN d.branch[~v][top] ELSE d.branch[v][m]
  <2>1. a[v][m] = b[v][m] BY <1>1, <1>6, <1>9, <1>10 DEF ChangedTwice
  <2>2. CASE v = Left BY <1>1, <1>4, <2>1, <2>2 DEF ChangedTwice
  <2>3. CASE v = Right BY <1>1, <1>4, <2>1, <2>3 DEF ChangedTwice
  <2>4. QED BY <1>1, <2>2, <2>3
<1>11. ASSUME NEW v \in Side
       PROVE  a[v][top] = IF d.end[~v] = Next0 THEN d.branch[v][top] ELSE d.branch[~v][Next0]
  <2>1. a[Left][top] = b[Right][Next0] /\ a[Right][top] = b[Left][Next0]
    BY <1>1, <1>2, <1>6, <1>9 DEF ChangedTwice
  <2>2. CASE v = Left BY <1>1, <1>4, <2>1, <2>2 DEF ChangedTwice
  <2>3. CASE v = Right BY <1>1, <1>4, <2>1, <2>3 DEF ChangedTwice
  <2>4. QED BY <1>1, <2>2, <2>3
<1>12. QED BY <1>3, <1>8, <1>10, <1>11 DEF EndsTake

\* The end of splay makes one tree of the three.
LEMMA AssembleKeeps ==
  ASSUME NEW item \in Item, NEW d, NEW T, NEW M, NEW O, Going(item, d, T, M, O), Stops(item, d)
  PROVE  Splayed(item, Assemble(d), T) /\ Outside(d.branch, Assemble(d).branch, T)
<1> DEFINE B == Cut(d)
           top == d.root
           R == Assemble(d).branch
<1>1. /\ d \in Descents /\ top \in Item /\ top \in M /\ M \subseteq Item
      /\ \A s \in Side : d.end[s] # top /\ M \cap O[s] = {} /\ O[s] \subseteq Item
  <2>1. d \in Descents BY DEF Going
  <2>2. ASSUME NEW s \in Side
        PROVE  /\ top \in Item /\ top \in M /\ M \subseteq Item
               /\ d.end[s] # top /\ M \cap O[s] = {} /\ O[s] \subseteq Item
    <3>1. top \in Item /\ top \in M /\ M \subseteq Item BY Apart
    <3>2. d.end[s] \notin M /\ M \cap O[s] = {} /\ O[s] \subseteq Item BY Apart
    <3>3. QED BY <3>1, <3>2
  <2>3. \E s \in Side : TRUE BY DEF Side
  <2>4. QED BY <2>1, <2>2, <2>3
<1>2. /\ EndsTake(d, R) /\ R \in Branches /\ Assemble(d).root = top
      /\ \A v \in Side :
           R[v][top] = IF d.end[~v] = Next0 THEN d.branch[v][top] ELSE d.branch[~v][Next0]
  BY <1>1, Assembled DEF EndsTake
<1> HIDE DEF R
<1>3. /\ \A s \in Side : \A x \in M, y \in O[s] : On(s, x, y)
      /\ \A s \in Side : \A y \in O[s] : On(s, item, y)
      /\ \A s \in Side : T = M \cup O[s] \cup O[~s]
  BY DEF Going
<1>4. ASSUME NEW s \in Side
      PROVE  \E P, Q \in SUBSET T :
               /\ Parted(R, top, T, s, P, Q) /\ TreeOf(R, top, T)
               /\ \A x \in P : On(s, x, item)
               /\ \A x \in Q : On(~s, x, item)
  <2>1. PICK r \in Side : r = (~s) /\ s = (~r) /\ r # s BY Items
  <2>2. PICK P, Q \in SUBSET M : Parted(B, top, M, s, P, Q)
    <3>1. TreeOf(B, top, M) BY DEF Going
    <3>2. QED BY <1>1, <3>1, Split
  <2>3. /\ M = {top} \cup P \cup Q /\ top \notin P /\ top \notin Q /\ P \cap Q = {}
        /\ TreeOf(B, B[s][top], P) /\ TreeOf(B, B[r][top], Q)
        /\ \A x \in P : On(s, x, top)
        /\ \A x \in Q : On(r, x, top)
    BY <2>1, <2>2 DEF Parted
  <2> HIDE DEF B, top
  <2> DEFINE X == O[r] \cup P
             Y == O[s] \cup Q
  <2>4. TreeOf(R, R[s][top], X)
    <3>1. R[s][top] = IF d.end[r] = Next0 THEN d.branch[s][top] ELSE d.branch[r][Next0]
      BY <1>2, <2>1
    <3>2. /\ EndsTake(d, R) /\ s = (~r) /\ P \in SUBSET M /\ d.root \notin P
          /\ TreeOf(Cut(d), Cut(d)[s][d.root], P)
      BY <1>2, <2>1, <2>3 DEF B, top
    <3>3. QED BY <3>1, <3>2, EndTakes DEF top
  <2>5. TreeOf(R, R[r][top], Y)
    <3>1. R[r][top] = IF d.end[s] = Next0 THEN d.branch[r][top] ELSE d.branch[s][Next0]
      BY <1>2, <2>1
    <3>2. /\ EndsTake(d, R) /\ r = (~s) /\ Q \in SUBSET M /\ d.root \notin Q
          /\ TreeOf(Cut(d), Cut(d)[r][d.root], Q)
      BY <1>2, <2>1, <2>3 DEF B, top
    <3>3. QED BY <3>1, <3>2, EndTakes DEF top
  <2>6. ASSUME NEW u \in Side, NEW v \in Side, v = (~u), NEW y \in O[v]
        PROVE  On(u, y, top) /\ On(u, y, item)
    <3>1. On(v, top, y) /\ On(v, item, y) /\ y \in Item /\ (~v) = u BY <1>1, <1>3, <2>6, Items
    <3>2. QED BY <1>1, <2>6, <3>1, Sides
  <2>7. ASSUME NEW u \in Side, NEW K \in SUBSET M, TreeOf(B, B[u][top], K),
               \A y \in K : On(u, y, top)
        PROVE  \A y \in K : On(u, y, item)
    <3>1. CASE item = top BY <2>7, <3>1
    <3>2. CASE item # top /\ u = SideOf(item, top)
      <4>1. B[u][top] = NoItem
        <5>1. d.branch[u][top] = NoItem BY <3>2 DEF Stops, Is, top
        <5>2. top \in ItemOrNext BY <1>1, Items
        <5>3. QED BY <1>1, <5>1, <5>2, CutIs DEF B
      <4>2. K = {} BY <2>7, <4>1, TreeParts
      <4>3. QED BY <4>2
    <3>3. CASE item # top /\ u # SideOf(item, top)
      <4>1. On(u, top, item)
        <5>1. ~On(u, item, top) BY <1>1, <3>3, SideIs
        <5>2. On(~u, item, top) BY <1>1, <3>3, <5>1, Sides
        <5>3. (~u) \in Side /\ (~(~u)) = u BY Items
        <5>4. QED BY <1>1, <5>2, <5>3, Sides
      <4>2. ASSUME NEW y \in K PROVE On(u, y, item)
        <5>1. y \in Item /\ On(u, y, top) BY <1>1, <2>7
        <5>2. QED BY <1>1, <4>1, <5>1, Sides
      <4>3. QED BY <4>2
    <3>4. QED BY <3>1, <3>2, <3>3
  <2>8. (\A x \in X : On(s, x, top) /\ On(s, x, item))
        /\ (\A y \in Y : On(r, y, top) /\ On(r, y, item))
    <3>1. \A x \in P : On(s, x, item) BY <2>3, <2>7
    <3>2. \A y \in Q : On(r, y, item) BY <2>1, <2>3, <2>7
    <3>3. \A x \in O[r] : On(s, x, top) /\ On(s, x, item) BY <2>1, <2>6
    <3>4. \A y \in O[s] : On(r, y, top) /\ On(r, y, item) BY <2>1, <2>6
    <3>5. QED BY <2>3, <3>1, <3>2, <3>3, <3>4
  <2>9. T = {top} \cup X \cup Y
    <3>1. T = M \cup O[s] \cup O[r] BY <1>3, <2>1
    <3>2. QED BY <2>3, <3>1
  <2>10. X \subseteq Item /\ Y \subseteq Item BY <1>1, <2>1
  <2> HIDE DEF X, Y
  <2>11. TreeOf(R, top, T)
    <3>1. TreeOf(R, R[~s][top], Y) /\ \A y \in Y : On(~s, y, top) BY <2>1, <2>5, <2>8
    <3>2. TreeOf(R, top, {top} \cup X \cup Y) BY <1>1, <2>4, <2>8, <3>1, Crown
    <3>3. QED BY <2>9, <3>2
  <2>12. top \notin X /\ top \notin Y /\ X \cap Y = {}
    <3>1. \A x \in X : x # top BY <1>1, <2>8, <2>10, Sides
    <3>2. \A y \in Y : y # top BY <1>1, <2>1, <2>8, <2>10, Sides
    <3>3. ASSUME NEW x \in X, x \in Y PROVE FALSE
      <4>1. On(s, x, top) /\ On(r, x, top) /\ x \in Item BY <2>8, <2>10, <3>3
      <4>2. QED BY <1>1, <2>1, <4>1, Sides
    <3>4. QED BY <3>1, <3>2, <3>3
  <2>13. Parted(R, top, T, s, X, Y)
    BY <2>1, <2>4, <2>5, <2>8, <2>9, <2>12 DEF Parted
  <2>14. X \in SUBSET T /\ Y \in SUBSET T BY <2>9
  <2>15. QED BY <2>1, <2>8, <2>11, <2>13, <2>14
<1>5. top \in T /\ TreeOf(R, top, T)
  <2>1. PICK s \in Side : TRUE BY DEF Side
  <2>2. TreeOf(R, top, T) BY <1>4
  <2>3. QED BY <1>1, <1>3, <2>1, <2>2
<1>6. item \in T => top = item BY FoundAtTop
<1>7. Outside(d.branch, R, T)
  <2>1. \A s \in Side, m \in Item : m \notin T => m # d.end[s] /\ m # top BY EndsInside
  <2>2. QED BY <1>2, <2>1 DEF Outside, EndsTake
<1>8. QED BY <1>2, <1>4, <1>5, <1>6, <1>7 DEF Splayed, R

\* A splay keeps the elements of a tree and brings the item to its top (splay).
LEMMA SplayKeeps ==
  ASSUME NEW item \in Item, NEW b \in Branches, NEW top \in Item, NEW T, TreeOf(b, top, T)
  PROVE  Splayed(item, Splay(item, b, top), T) /\ Outside(b, Splay(item, b, top).branch, T)
<1>1. Splay(item, b, top) = Assemble(Descend(item, b, top))
  <2>1. Is(top) BY Items DEF Is
  <2>2. QED BY <2>1 DEF Splay
<1>2. PICK d : d = Descend(item, b, top) OBVIOUS
<1>3. /\ Stops(item, d) /\ \E M, O : M \in SUBSET T /\ Going(item, d, T, M, O)
      /\ Outside(b, d.branch, T)
  BY <1>2, DescendKeeps
<1>4. PICK M, O : M \in SUBSET T /\ Going(item, d, T, M, O) BY <1>3
<1>5. Splayed(item, Assemble(d), T) /\ Outside(d.branch, Assemble(d).branch, T)
  BY <1>3, <1>4, AssembleKeeps
<1>6. Outside(b, Assemble(d).branch, T) BY <1>3, <1>5 DEF Outside
<1>7. QED BY <1>1, <1>2, <1>5, <1>6

-----------------------------------------------------------------------------
(* The elements in the order of the tree.                                  *)

Sorted(q, S) ==
  /\ q \in Seq(Item) /\ S = {q[i] : i \in 1 .. Len(q)}
  /\ \A i, j \in 1 .. Len(q) : i < j => q[i] < q[j]

\* A list without doubles is as long as its elements are many.
LEMMA ListOfSet ==
  ASSUME NEW q \in Seq(Item), \A i, j \in 1 .. Len(q) : i # j => q[i] # q[j]
  PROVE  /\ Len(q) \in 0 .. SplayKeys
         /\ Cardinality({q[i] : i \in 1 .. Len(q)}) = Len(q)
<1> DEFINE S == {q[i] : i \in 1 .. Len(q)}
<1>1. Len(q) \in Nat /\ \A i \in 1 .. Len(q) : q[i] \in Item OBVIOUS
<1>2. S \in SUBSET Item BY <1>1
<1>3. IsFiniteSet(1 .. Len(q)) /\ Cardinality(1 .. Len(q)) = Len(q)
  <2>1. Cardinality(1 .. Len(q)) = IF 1 > Len(q) THEN 0 ELSE Len(q) - 1 + 1
    BY <1>1, FS_Interval
  <2>2. QED BY <1>1, <2>1, FS_Interval
<1>4. ExistsBijection(1 .. Len(q), S)
  <2> DEFINE f == [i \in 1 .. Len(q) |-> q[i]]
  <2>1. f \in [1 .. Len(q) -> S] /\ \A i \in 1 .. Len(q) : f[i] = q[i] OBVIOUS
  <2>2. \A y \in S : \E i \in 1 .. Len(q) : f[i] = y OBVIOUS
  <2>3. \A i, j \in 1 .. Len(q) : f[i] = f[j] => i = j BY <2>1
  <2> HIDE DEF f, S
  <2>4. f \in Bijection(1 .. Len(q), S)
    BY <2>1, <2>2, <2>3 DEF Bijection, Injection, Surjection, IsInjective
  <2>5. QED BY <2>4 DEF ExistsBijection
<1>5. IsFiniteSet(S) /\ Cardinality(S) = Len(q) BY <1>3, <1>4, FS_Bijection
<1>6. Cardinality(S) \in 0 .. SplayKeys BY <1>2, Fewer
<1>7. QED BY <1>5, <1>6

\* An ascending list has no doubles.
LEMMA SortedHasNoDoubles ==
  ASSUME NEW q, NEW S, Sorted(q, S)
  PROVE  q \in Seq(Item) /\ \A i, j \in 1 .. Len(q) : i # j => q[i] # q[j]
<1>1. q \in Seq(Item) /\ \A i, j \in 1 .. Len(q) : i < j => q[i] < q[j] BY DEF Sorted
<1>2. Len(q) \in Nat /\ \A i \in 1 .. Len(q) : q[i] \in Nat
  <2>1. Len(q) \in Nat /\ \A i \in 1 .. Len(q) : q[i] \in Item BY <1>1
  <2>2. QED BY <2>1, Items
<1>3. ASSUME NEW i \in 1 .. Len(q), NEW j \in 1 .. Len(q), i # j PROVE q[i] # q[j]
  <2>1. i < j \/ j < i BY <1>2, <1>3
  <2>2. q[i] < q[j] \/ q[j] < q[i] BY <1>1, <2>1
  <2>3. QED BY <1>2, <2>2
<1>4. QED BY <1>1, <1>3

\* A top between two sorted lists makes one.
LEMMA SortedAround ==
  ASSUME NEW n \in Item, NEW p, NEW P, Sorted(p, P), NEW q, NEW Q, Sorted(q, Q),
         \A x \in P : x < n, \A x \in Q : n < x
  PROVE  Sorted(p \o <<n>> \o q, {n} \cup P \cup Q)
<1>1. /\ p \in Seq(Item) /\ q \in Seq(Item) /\ <<n>> \in Seq(Item) /\ Len(<<n>>) = 1
      /\ P = {p[i] : i \in 1 .. Len(p)} /\ Q = {q[i] : i \in 1 .. Len(q)}
      /\ \A i, j \in 1 .. Len(p) : i < j => p[i] < p[j]
      /\ \A i, j \in 1 .. Len(q) : i < j => q[i] < q[j]
      /\ Len(p) \in Nat /\ Len(q) \in Nat
  BY DEF Sorted
<1> DEFINE a == p \o <<n>>
           r == a \o q
<1>2. /\ a \in Seq(Item) /\ Len(a) = Len(p) + 1
      /\ (\A i \in 1 .. Len(p) : a[i] = p[i]) /\ a[Len(p) + 1] = n
  BY <1>1
<1> HIDE DEF a
<1>3. /\ r \in Seq(Item) /\ Len(r) = Len(p) + 1 + Len(q)
      /\ \A i \in 1 .. Len(a) : r[i] = a[i]
      /\ \A i \in 1 .. Len(q) : r[Len(a) + i] = q[i]
  BY <1>1, <1>2
<1> HIDE DEF r
<1>4. /\ \A i \in 1 .. Len(p) : r[i] = p[i]
      /\ r[Len(p) + 1] = n
      /\ \A i \in 1 .. Len(q) : r[Len(p) + 1 + i] = q[i]
  BY <1>1, <1>2, <1>3
<1>5. ASSUME NEW i \in 1 .. Len(r)
      PROVE  \/ i \in 1 .. Len(p) /\ r[i] = p[i] /\ r[i] \in P
             \/ i = Len(p) + 1 /\ r[i] = n
             \/ \E k \in 1 .. Len(q) : i = Len(p) + 1 + k /\ r[i] = q[k] /\ r[i] \in Q
  <2>1. CASE i <= Len(p) BY <1>1, <1>4, <2>1
  <2>2. CASE i = Len(p) + 1 BY <1>4, <2>2
  <2>3. CASE i > Len(p) + 1
    <3>1. PICK k \in 1 .. Len(q) : i = Len(p) + 1 + k
      <4>1. i - (Len(p) + 1) \in 1 .. Len(q) BY <1>1, <1>3, <2>3
      <4>2. i = Len(p) + 1 + (i - (Len(p) + 1)) BY <1>1
      <4>3. QED BY <4>1, <4>2
    <3>2. r[i] = q[k] /\ q[k] \in Q BY <1>1, <1>4, <3>1
    <3>3. QED BY <3>1, <3>2
  <2>4. QED BY <1>1, <1>3, <2>1, <2>2, <2>3
<1>6. {n} \cup P \cup Q = {r[i] : i \in 1 .. Len(r)}
  <2>1. ASSUME NEW x \in P PROVE \E i \in 1 .. Len(r) : x = r[i]
    <3>1. PICK k \in 1 .. Len(p) : x = p[k] BY <1>1
    <3>2. k \in 1 .. Len(r) BY <1>1, <1>3
    <3>3. QED BY <1>4, <3>1, <3>2
  <2>2. ASSUME NEW x \in Q PROVE \E i \in 1 .. Len(r) : x = r[i]
    <3>1. PICK k \in 1 .. Len(q) : x = q[k] BY <1>1
    <3>2. Len(p) + 1 + k \in 1 .. Len(r) BY <1>1, <1>3
    <3>3. QED BY <1>4, <3>1, <3>2
  <2>3. Len(p) + 1 \in 1 .. Len(r) BY <1>1, <1>3
  <2>4. QED BY <1>4, <1>5, <2>1, <2>2, <2>3
<1>7. ASSUME NEW i \in 1 .. Len(r), NEW j \in 1 .. Len(r), i < j PROVE r[i] < r[j]
  <2>1. P \subseteq Nat /\ Q \subseteq Nat /\ n \in Nat
    <3>1. \A k \in 1 .. Len(p) : p[k] \in Item BY <1>1
    <3>2. \A k \in 1 .. Len(q) : q[k] \in Item BY <1>1
    <3>3. P \subseteq Item /\ Q \subseteq Item BY <1>1, <3>1, <3>2
    <3>4. QED BY <3>3, Items
  <2>2. ASSUME NEW x \in P, NEW y \in Q PROVE x < y
    <3>1. x < n /\ n < y OBVIOUS
    <3>2. QED BY <2>1, <3>1
  <2>3. CASE i \in 1 .. Len(p) /\ r[i] = p[i] /\ r[i] \in P
    <3>1. CASE j \in 1 .. Len(p) BY <1>1, <1>4, <1>7, <2>3, <3>1
    <3>2. CASE j \notin 1 .. Len(p) BY <1>5, <2>2, <2>3, <3>2
    <3>3. QED BY <3>1, <3>2
  <2>4. CASE i = Len(p) + 1 /\ r[i] = n
    <3>1. j \notin 1 .. Len(p) /\ j # Len(p) + 1 BY <1>1, <1>7, <2>4
    <3>2. r[j] \in Q BY <1>5, <3>1
    <3>3. QED BY <2>4, <3>2
  <2>5. CASE \E k \in 1 .. Len(q) : i = Len(p) + 1 + k /\ r[i] = q[k] /\ r[i] \in Q
    <3>1. PICK k \in 1 .. Len(q) : i = Len(p) + 1 + k /\ r[i] = q[k] BY <2>5
    <3>2. PICK m \in 1 .. Len(q) : j = Len(p) + 1 + m /\ r[j] = q[m]
      <4>1. j \notin 1 .. Len(p) /\ j # Len(p) + 1 BY <1>1, <1>7, <3>1
      <4>2. QED BY <1>5, <4>1
    <3>3. k < m BY <1>1, <1>7, <3>1, <3>2
    <3>4. QED BY <1>1, <3>1, <3>2, <3>3
  <2>6. QED BY <1>5, <2>3, <2>4, <2>5
<1>8. QED BY <1>3, <1>6, <1>7 DEF Sorted, r, a

\* The walk from left to right meets the elements of a tree in the order of their
\* keys (InOrder, of the tree that the links make).
LEMMA InOrderIsSorted ==
  ASSUME NEW b \in Branches, NEW top, NEW T, TreeOf(b, top, T)
  PROVE  Sorted(InOrder(b, top), T)
<1> DEFINE Walks(k, f) ==
             f = [d \in 0 .. k |-> [at \in Item \cup {NoItem} |->
                    IF ~Is(at) \/ d = 0 THEN <<>>
                    ELSE f[d - 1][b[Left][at]] \o <<at>> \o f[d - 1][b[Right][at]]]]
<1>1. SplayKeys \in Nat /\ SplayKeys \in 0 .. SplayKeys BY SplayAssumption
<1>2. \A s \in Side, n \in Item : b[s][n] \in ItemOrNull BY Items DEF Branches
<1>3. Left \in Side /\ Right \in Side /\ (~Left) = Right BY DEF Side, Left, Right
<1>4. \E f : Walks(SplayKeys, f)
  <2> DEFINE Good == {k \in 0 .. SplayKeys : \E f : Walks(k, f)}
  <2>1. ASSUME NEW k \in 0 .. SplayKeys, \A j \in 0 .. SplayKeys : j < k => j \in Good
        PROVE  k \in Good
    <3>1. CASE k = 0
      <4> DEFINE f == [d \in 0 .. k |-> [at \in Item \cup {NoItem} |-> <<>>]]
      <4>1. Walks(k, f)
        <5>1. \A d \in 0 .. k : d = 0 BY <3>1
        <5>2. QED BY <5>1
      <4>2. QED BY <4>1
    <3>2. CASE k # 0
      <4>1. k - 1 \in 0 .. SplayKeys /\ k - 1 < k BY <3>2, <1>1
      <4>2. k - 1 \in Good BY <2>1, <4>1
      <4>3. PICK g : Walks(k - 1, g) BY <4>2
      <4> DEFINE step(at) == IF ~Is(at) THEN <<>>
                             ELSE g[k - 1][b[Left][at]] \o <<at>> \o g[k - 1][b[Right][at]]
                 f == [d \in 0 .. k |-> [at \in Item \cup {NoItem} |->
                         IF d = k THEN step(at) ELSE g[d][at]]]
      <4>4. ASSUME NEW d \in 0 .. k, NEW at \in Item \cup {NoItem}
            PROVE  f[d][at] = IF ~Is(at) \/ d = 0 THEN <<>>
                              ELSE f[d - 1][b[Left][at]] \o <<at>> \o f[d - 1][b[Right][at]]
        <5>1. Is(at) => b[Left][at] \in Item \cup {NoItem} /\ b[Right][at] \in Item \cup {NoItem}
          BY <1>2, <1>3 DEF Is, ItemOrNull
        <5>2. CASE d = k
          <6>1. f[d][at] = step(at) BY <5>2
          <6>2. CASE ~Is(at) BY <6>1, <6>2
          <6>3. CASE Is(at)
            <7>1. k - 1 \in 0 .. k /\ k - 1 # k BY <3>2
            <7>2. \A a \in Item \cup {NoItem} : f[k - 1][a] = g[k - 1][a] BY <7>1
            <7> HIDE DEF f
            <7>3. f[d - 1][b[Left][at]] = g[k - 1][b[Left][at]]
                  /\ f[d - 1][b[Right][at]] = g[k - 1][b[Right][at]]
              BY <5>1, <5>2, <6>3, <7>2
            <7>4. QED BY <3>2, <5>2, <6>1, <6>3, <7>3
          <6>4. QED BY <6>2, <6>3
        <5>3. CASE d # k
          <6>1. d \in 0 .. (k - 1) BY <5>3
          <6>2. g[d][at] = IF ~Is(at) \/ d = 0 THEN <<>>
                           ELSE g[d - 1][b[Left][at]] \o <<at>> \o g[d - 1][b[Right][at]]
            <7>1. g[d] = [a \in Item \cup {NoItem} |->
                            IF ~Is(a) \/ d = 0 THEN <<>>
                            ELSE g[d - 1][b[Left][a]] \o <<a>> \o g[d - 1][b[Right][a]]]
              BY <4>3, <6>1
            <7>2. QED BY <7>1
          <6>3. f[d][at] = g[d][at] BY <5>3
          <6>4. ASSUME d # 0, Is(at)
                PROVE  f[d - 1][b[Left][at]] = g[d - 1][b[Left][at]]
                       /\ f[d - 1][b[Right][at]] = g[d - 1][b[Right][at]]
            <7>1. d - 1 \in 0 .. k /\ d - 1 # k BY <6>1, <6>4
            <7>2. \A a \in Item \cup {NoItem} : f[d - 1][a] = g[d - 1][a] BY <7>1
            <7> HIDE DEF f
            <7>3. QED BY <5>1, <6>4, <7>2
          <6> HIDE DEF f
          <6>5. QED BY <6>2, <6>3, <6>4
        <5>4. QED BY <5>2, <5>3
      <4>5. f = [d \in 0 .. k |-> [at \in Item \cup {NoItem} |-> f[d][at]]] OBVIOUS
      <4> HIDE DEF f
      <4>6. Walks(k, f) BY <4>4, <4>5
      <4>7. QED BY <4>6
    <3>3. QED BY <3>1, <3>2
  <2>2. \A k \in 0 .. SplayKeys : k \in Good
    <3> HIDE DEF Good
    <3>1. QED BY <1>1, <2>1, Upwards
  <2>3. QED BY <1>1, <2>2
<1> DEFINE walk == CHOOSE f : Walks(SplayKeys, f)
<1>5. InOrder(b, top) = walk[SplayKeys][top] BY Zenon DEF InOrder
<1>6. Walks(SplayKeys, walk) BY <1>4
<1> HIDE DEF walk
<1>7. \A d \in 0 .. SplayKeys, at \in ItemOrNull :
        walk[d][at] = IF ~Is(at) \/ d = 0 THEN <<>>
                      ELSE walk[d - 1][b[Left][at]] \o <<at>> \o walk[d - 1][b[Right][at]]
  <2>1. ASSUME NEW d \in 0 .. SplayKeys, NEW at \in ItemOrNull
        PROVE  walk[d][at] = IF ~Is(at) \/ d = 0 THEN <<>>
                             ELSE walk[d - 1][b[Left][at]] \o <<at>> \o walk[d - 1][b[Right][at]]
    <3>1. walk[d] = [a \in Item \cup {NoItem} |->
                       IF ~Is(a) \/ d = 0 THEN <<>>
                       ELSE walk[d - 1][b[Left][a]] \o <<a>> \o walk[d - 1][b[Right][a]]]
      BY <1>6
    <3>2. QED BY <3>1 DEF ItemOrNull
  <2>2. QED BY <2>1
<1> HIDE DEF Walks
<1> DEFINE Good == {d \in 0 .. SplayKeys :
                      \A at \in ItemOrNull : \A S \in SUBSET Item :
                        TreeOf(b, at, S) /\ Cardinality(S) <= d => Sorted(walk[d][at], S)}
<1>8. ASSUME NEW d \in 0 .. SplayKeys, \A j \in 0 .. SplayKeys : j < d => j \in Good
      PROVE  d \in Good
  <2>1. ASSUME NEW at \in ItemOrNull, NEW S \in SUBSET Item, TreeOf(b, at, S), Cardinality(S) <= d
        PROVE  Sorted(walk[d][at], S)
    <3>1. CASE ~Is(at)
      <4>1. S = {} BY <2>1, <3>1, TreeParts DEF Is
      <4>2. walk[d][at] = <<>> BY <1>7, <3>1
      <4>3. QED BY <4>1, <4>2 DEF Sorted
    <3>2. CASE Is(at)
      <4>1. at \in Item BY <3>2 DEF Is, ItemOrNull
      <4>2. PICK P, Q \in SUBSET S : Parted(b, at, S, Left, P, Q)
        <5> HIDE DEF Good
        <5>1. QED BY <1>3, <2>1, <4>1, Split
      <4>3. /\ S = {at} \cup P \cup Q /\ at \notin P /\ at \notin Q
            /\ TreeOf(b, b[Left][at], P) /\ TreeOf(b, b[Right][at], Q)
            /\ \A x \in P : x < at
            /\ \A x \in Q : at < x
        <5>1. TreeOf(b, b[~Left][at], Q) /\ \A x \in Q : On(~Left, x, at) BY <4>2 DEF Parted
        <5>2. TreeOf(b, b[Right][at], Q) /\ \A x \in Q : On(Right, x, at) BY <1>3, <5>1
        <5>3. \A x \in P : On(Left, x, at) BY <4>2 DEF Parted
        <5>4. QED BY <4>2, <5>2, <5>3 DEF Parted, On, Left, Right
      <4>4. /\ Cardinality(P) \in 0 .. SplayKeys /\ Cardinality(P) < Cardinality(S)
            /\ Cardinality(Q) \in 0 .. SplayKeys /\ Cardinality(Q) < Cardinality(S)
            /\ Cardinality(S) \in 0 .. SplayKeys
        BY <4>3, Fewer
      <4>5. d # 0 /\ d - 1 \in 0 .. SplayKeys /\ d - 1 < d
            /\ Cardinality(P) <= d - 1 /\ Cardinality(Q) <= d - 1
        BY <1>1, <2>1, <4>4
      <4>6. d - 1 \in Good BY <1>8, <4>5
      <4>7. b[Left][at] \in ItemOrNull /\ b[Right][at] \in ItemOrNull BY <1>2, <1>3, <4>1
      <4>8. P \in SUBSET Item /\ Q \in SUBSET Item OBVIOUS
      <4>9. Sorted(walk[d - 1][b[Left][at]], P) /\ Sorted(walk[d - 1][b[Right][at]], Q)
        BY <4>3, <4>5, <4>6, <4>7, <4>8
      <4>10. walk[d][at] = walk[d - 1][b[Left][at]] \o <<at>> \o walk[d - 1][b[Right][at]]
        BY <1>7, <3>2, <4>5
      <4>11. PICK p : p = walk[d - 1][b[Left][at]] OBVIOUS
      <4>12. PICK q : q = walk[d - 1][b[Right][at]] OBVIOUS
      <4>13. Sorted(p \o <<at>> \o q, {at} \cup P \cup Q)
        BY <4>1, <4>3, <4>9, <4>11, <4>12, SortedAround
      <4>14. QED BY <4>3, <4>10, <4>11, <4>12, <4>13
    <3>3. QED BY <3>1, <3>2
  <2>2. QED BY <2>1
<1>9. SplayKeys \in Good
  <2> HIDE DEF Good
  <2>1. \A d \in 0 .. SplayKeys : d \in Good BY <1>1, <1>8, Upwards
  <2>2. QED BY <1>1, <2>1
<1>10. T \in SUBSET Item /\ top \in ItemOrNull BY TreeParts
<1>11. Cardinality(T) <= SplayKeys BY <1>1, <1>10, Fewer
<1>12. QED BY <1>5, <1>9, <1>10, <1>11

-----------------------------------------------------------------------------
(* What insertion and deletion do to the tree.                             *)

\* The new element gets between the halves of the tree (RtlInsertElement...).
LEMMA InsertedTree ==
  ASSUME NEW item \in Item, NEW t, NEW T, Splayed(item, t, T), t.root # item,
         NEW s, s = SideOf(item, t.root), NEW r \in Side, r = (~s), NEW A, NEW C,
         ChangedTwice(t.branch, A, s, item, t.branch[s][t.root], r, item, t.root),
         Changed(A, C, s, t.root, NoItem)
  PROVE  C \in Branches /\ TreeOf(C, item, {item} \cup T)
<1>1. /\ t.branch \in Branches /\ t.root \in T /\ TreeOf(t.branch, t.root, T) /\ item \notin T
      /\ T \subseteq Item /\ t.root \in Item
  <2>1. t.branch \in Branches /\ t.root \in T /\ TreeOf(t.branch, t.root, T) /\ item \notin T
    BY DEF Splayed
  <2>2. QED BY <2>1, TreeParts
<1>2. s \in Side /\ On(s, item, t.root) BY <1>1, SideIs
<1>3. r = (~s) /\ s = (~r) /\ r # s BY <1>2, Items
<1>4. PICK P, Q \in SUBSET T : /\ Parted(t.branch, t.root, T, s, P, Q)
                               /\ \A x \in P : On(s, x, item)
                               /\ \A x \in Q : On(~s, x, item)
  BY <1>2 DEF Splayed
<1>5. /\ T = {t.root} \cup P \cup Q /\ t.root \notin P /\ t.root \notin Q
      /\ TreeOf(t.branch, t.branch[s][t.root], P) /\ TreeOf(t.branch, t.branch[r][t.root], Q)
      /\ \A x \in Q : On(r, x, t.root)
  BY <1>3, <1>4 DEF Parted
<1> DEFINE c == t.branch[s][t.root]
<1>9. /\ C \in Branches /\ C[s][item] = c /\ C[r][item] = t.root /\ C[s][t.root] = NoItem
      /\ C[r][t.root] = t.branch[r][t.root]
      /\ \A m \in Item, u \in Side : m # item /\ m # t.root => C[u][m] = t.branch[u][m]
  <2>1. Item \subseteq ItemOrNext BY Items
  <2>2. /\ A[s][item] = c /\ A[r][item] = t.root
        /\ \A m \in Item, u \in Side : m # item => A[u][m] = t.branch[u][m]
    BY <1>3, <2>1 DEF ChangedTwice
  <2>3. /\ C \in Branches /\ C[s][t.root] = NoItem
        /\ \A m \in Item, u \in Side : u # s \/ m # t.root => C[u][m] = A[u][m]
    BY <2>1 DEF Changed
  <2>4. C[s][item] = c /\ C[r][item] = t.root BY <1>1, <1>2, <1>3, <2>2, <2>3
  <2>5. C[r][t.root] = t.branch[r][t.root] BY <1>1, <1>3, <2>2, <2>3
  <2>6. \A m \in Item, u \in Side : m # item /\ m # t.root => C[u][m] = t.branch[u][m]
    BY <2>2, <2>3
  <2>7. QED BY <2>3, <2>4, <2>5, <2>6
<1> HIDE DEF c
<1>10. TreeOf(C, c, P) /\ TreeOf(C, C[r][t.root], Q)
  <2>1. \A m \in P, u \in Side : C[u][m] = t.branch[u][m] BY <1>1, <1>5, <1>9
  <2>2. \A m \in Q, u \in Side : C[u][m] = t.branch[u][m] BY <1>1, <1>5, <1>9
  <2>3. TreeOf(t.branch, c, P) BY <1>5 DEF c
  <2>4. TreeOf(C, c, P) BY <2>1, <2>3, Frame
  <2>5. TreeOf(C, C[r][t.root], Q)
    <3>1. TreeOf(t.branch, C[r][t.root], Q) BY <1>5, <1>9
    <3>2. QED BY <2>2, <3>1, Frame
  <2>6. QED BY <2>4, <2>5
<1>11. TreeOf(C, t.root, {t.root} \cup Q)
  <2>1. TreeOf(C, C[s][t.root], {}) BY <1>9, EmptyTree
  <2>2. TreeOf(C, t.root, {t.root} \cup {} \cup Q)
    BY <1>1, <1>2, <1>3, <1>5, <1>10, <2>1, Crown
  <2>3. {t.root} \cup {} \cup Q = {t.root} \cup Q OBVIOUS
  <2>4. QED BY <2>2, <2>3
<1> DEFINE Z == {t.root} \cup Q
<1>12. \A x \in Z : On(r, x, item)
  <2>1. On(r, t.root, item) BY <1>1, <1>2, <1>3, Sides
  <2>2. QED BY <1>3, <1>4, <2>1
<1>13. TreeOf(C, C[s][item], P) /\ TreeOf(C, C[~s][item], Z)
  BY <1>3, <1>9, <1>10, <1>11
<1>14. {item} \cup P \cup Z = {item} \cup T BY <1>5
<1> HIDE DEF Z
<1>15. TreeOf(C, item, {item} \cup P \cup Z) BY <1>2, <1>3, <1>4, <1>12, <1>13, Crown
<1>16. QED BY <1>9, <1>14, <1>15

\* A cleared node is out of the way of every other tree.
LEMMA ClearedTree ==
  ASSUME NEW item \in Item, NEW b \in Branches
  PROVE  /\ Cleared(item, b) \in Branches /\ \A s \in Side : Cleared(item, b)[s][item] = NoItem
         /\ \A n, S : TreeOf(b, n, S) /\ item \notin S => TreeOf(Cleared(item, b), n, S)
<1>1. /\ Cleared(item, b) \in Branches /\ \A s \in Side : Cleared(item, b)[s][item] = NoItem
      /\ \A s \in Side, m \in ItemOrNext : m # item => Cleared(item, b)[s][m] = b[s][m]
  <2>1. item \in ItemOrNext /\ NoItem \in ItemOrNull BY Items DEF ItemOrNull
  <2>2. \A s \in Side : b[s] \in [ItemOrNext -> ItemOrNull] BY DEF Branches
  <2>3. \A s \in Side : Cleared(item, b)[s] = [b[s] EXCEPT ![item] = NoItem] BY DEF Cleared
  <2>4. ASSUME NEW s \in Side PROVE Cleared(item, b)[s] \in [ItemOrNext -> ItemOrNull]
    <3>1. PICK f \in [ItemOrNext -> ItemOrNull] : f = b[s] BY <2>2
    <3>2. [f EXCEPT ![item] = NoItem] \in [ItemOrNext -> ItemOrNull] BY <2>1
    <3>3. QED BY <2>3, <3>1, <3>2
  <2>5. Cleared(item, b) \in Branches
    <3>1. Cleared(item, b) = [s \in Side |-> Cleared(item, b)[s]] BY DEF Cleared
    <3>2. QED BY <2>4, <3>1 DEF Branches
  <2>6. QED BY <2>1, <2>2, <2>3, <2>5
<1>2. ASSUME NEW n, NEW S, TreeOf(b, n, S), item \notin S PROVE TreeOf(Cleared(item, b), n, S)
  <2>1. S \subseteq Item BY <1>2, TreeParts
  <2>2. \A m \in S, s \in Side : Cleared(item, b)[s][m] = b[s][m] BY <1>1, <1>2, <2>1, Items
  <2>3. QED BY <1>2, <2>2, Frame
<1>3. QED BY <1>1, <1>2

\* The left half, splayed for the deleted element, takes the right one: nothing in
\* it is above that element (RtlDeleteElementGenericTable).
LEMMA JoinedTree ==
  ASSUME NEW item \in Item, NEW t, NEW T, Splayed(item, t, T), t.root = item,
         Is(t.branch[Left][item])
  PROVE  /\ Joined(item, t.branch).branch \in Branches
         /\ TreeOf(Joined(item, t.branch).branch, Joined(item, t.branch).root, T \ {item})
<1> DEFINE b == t.branch
           u == Splay(item, b, b[Left][item])
<1>1. Left \in Side /\ Right \in Side /\ (~Left) = Right /\ (~Right) = Left /\ Left # Right
  BY DEF Side, Left, Right
<1>2. b \in Branches /\ T \subseteq Item
  <2>1. b \in Branches /\ TreeOf(t.branch, t.root, T) BY DEF Splayed
  <2>2. QED BY <2>1, TreeParts
<1>3. PICK P, Q \in SUBSET T : Parted(b, item, T, Left, P, Q) BY <1>1 DEF Splayed
<1>4. /\ T = {item} \cup P \cup Q /\ item \notin P /\ item \notin Q /\ P \cap Q = {}
      /\ TreeOf(b, b[Left][item], P) /\ TreeOf(b, b[Right][item], Q)
      /\ \A x \in P : On(Left, x, item)
      /\ \A x \in Q : On(Right, x, item)
  BY <1>1, <1>3 DEF Parted
<1>5. b[Left][item] \in Item /\ b[Right][item] \in ItemOrNull
  BY <1>4, TreeParts DEF Is, ItemOrNull
<1>6. Splayed(item, u, P) /\ Outside(b, u.branch, P)
  <2> HIDE DEF b
  <2>1. QED BY <1>2, <1>4, <1>5, SplayKeeps
<1>7. Joined(item, b) = [u EXCEPT !.branch[Right][u.root] = b[Right][item]]
  BY DEF Joined
<1>8. u = [branch |-> u.branch, root |-> u.root]
  <2>1. u = Assemble(Descend(item, b, b[Left][item])) BY DEF Splay
  <2>2. QED BY <2>1, Zenon DEF Assemble
<1> HIDE DEF u, b
<1>9. /\ u.branch \in Branches /\ u.root \in P /\ u.root \in Item /\ TreeOf(u.branch, u.root, P)
  <2>1. u.branch \in Branches /\ u.root \in P /\ TreeOf(u.branch, u.root, P) BY <1>6 DEF Splayed
  <2>2. QED BY <1>2, <1>4, <2>1
<1> DEFINE C == With(u.branch, Right, u.root, b[Right][item])
<1>10. Joined(item, b).branch = C /\ Joined(item, b).root = u.root
  BY <1>7, <1>8 DEF With
<1>11. Changed(u.branch, C, Right, u.root, b[Right][item])
  <2>1. u.root \in ItemOrNext BY <1>9, Items
  <2>2. QED BY <1>1, <1>5, <1>9, <2>1, Written
<1> HIDE DEF C
<1>12. PICK X, Y \in SUBSET P : /\ Parted(u.branch, u.root, P, Right, X, Y)
                                /\ \A x \in X : On(Right, x, item)
  BY <1>1, <1>6 DEF Splayed
<1>13. X = {}
  <2>1. ASSUME NEW x \in X PROVE FALSE
    <3>1. On(Right, x, item) /\ On(Left, x, item) /\ x \in Item BY <1>2, <1>4, <1>12
    <3>2. QED BY <1>1, <3>1, Sides
  <2>2. QED BY <2>1
<1>14. /\ P = {u.root} \cup Y /\ u.root \notin Y
       /\ TreeOf(u.branch, u.branch[Left][u.root], Y)
       /\ \A x \in Y : On(Left, x, u.root)
  BY <1>1, <1>12, <1>13 DEF Parted
<1>15. /\ C \in Branches /\ C[Right][u.root] = b[Right][item]
       /\ \A m \in Item : m # u.root => C[Right][m] = u.branch[Right][m]
       /\ \A m \in Item : C[Left][m] = u.branch[Left][m]
  BY <1>1, <1>11, Items DEF Changed
<1>16. TreeOf(C, C[Left][u.root], Y)
  <2>1. \A m \in Y, s \in Side : C[s][m] = u.branch[s][m]
    BY <1>1, <1>2, <1>14, <1>15 DEF Side
  <2>2. QED BY <1>9, <1>14, <1>15, <2>1, Frame
<1>17. TreeOf(C, C[Right][u.root], Q)
  <2>1. \A m \in Q, s \in Side : C[s][m] = b[s][m]
    <3>1. \A m \in Q : m \in Item /\ m \notin P /\ m # u.root BY <1>2, <1>4, <1>9
    <3>2. \A m \in Q, s \in Side : C[s][m] = u.branch[s][m] BY <1>15, <3>1 DEF Side
    <3>3. QED BY <1>6, <3>1, <3>2 DEF Outside
  <2>2. QED BY <1>4, <1>15, <2>1, Frame
<1>18. \A x \in Q : On(Right, x, u.root)
  <2>1. ASSUME NEW x \in Q PROVE On(Right, x, u.root)
    <3>1. On(Right, x, item) /\ On(Left, u.root, item) /\ x \in Item BY <1>2, <1>4, <1>9
    <3>2. On(Right, item, u.root) BY <1>1, <1>9, <3>1, Sides
    <3>3. QED BY <1>1, <1>9, <3>1, <3>2, Sides
  <2>2. QED BY <2>1
<1>19. TreeOf(C, u.root, {u.root} \cup Y \cup Q)
  BY <1>1, <1>9, <1>14, <1>16, <1>17, <1>18, Crown
<1>20. {u.root} \cup Y \cup Q = T \ {item} BY <1>4, <1>14
<1>21. QED BY <1>10, <1>15, <1>19, <1>20 DEF b

-----------------------------------------------------------------------------
(* The list of the elements, and what an enumeration has met of it.        *)

Elements(q) == {q[i] : i \in 1 .. Len(q)}
Distinct(q) == \A i, j \in 1 .. Len(q) : i # j => q[i] # q[j]
Met(q, c) == {q[i] : i \in {k \in 1 .. Len(q) : \E j \in k .. Len(q) : q[j] = c}}

\* Up to an entry of the list, an enumeration has met the entries before it.
LEMMA MetUpTo ==
  ASSUME NEW q \in Seq(Item), Distinct(q)
  PROVE  /\ \A i \in 1 .. Len(q) : Met(q, q[i]) = {q[k] : k \in 1 .. i}
         /\ \A c : c \notin Elements(q) => Met(q, c) = {}
<1>1. Len(q) \in Nat OBVIOUS
<1>2. ASSUME NEW i \in 1 .. Len(q) PROVE Met(q, q[i]) = {q[k] : k \in 1 .. i}
  <2> DEFINE K == {k \in 1 .. Len(q) : \E j \in k .. Len(q) : q[j] = q[i]}
  <2>1. K = 1 .. i
    <3>1. ASSUME NEW k \in 1 .. Len(q), NEW j \in k .. Len(q), q[j] = q[i] PROVE k \in 1 .. i
      <4>1. j \in 1 .. Len(q) BY <1>1
      <4>2. j = i BY <3>1, <4>1 DEF Distinct
      <4>3. QED BY <1>1, <4>2
    <3>2. ASSUME NEW k \in 1 .. i PROVE k \in 1 .. Len(q) /\ i \in k .. Len(q) BY <1>1
    <3>3. QED BY <3>1, <3>2
  <2>2. Met(q, q[i]) = {q[k] : k \in K} BY DEF Met
  <2>3. QED BY <2>1, <2>2
<1>3. ASSUME NEW c, c \notin Elements(q) PROVE Met(q, c) = {}
  <2>1. ASSUME NEW k \in 1 .. Len(q), NEW j \in k .. Len(q) PROVE q[j] # c
    <3>1. j \in 1 .. Len(q) BY <1>1
    <3>2. QED BY <1>3, <3>1 DEF Elements
  <2>2. QED BY <2>1 DEF Met
<1>4. QED BY <1>2, <1>3

\* A new entry comes last.
LEMMA Appended ==
  ASSUME NEW q \in Seq(Item), Distinct(q), NEW x \in Item, x \notin Elements(q)
  PROVE  LET r == Linked(q, x)
         IN  /\ r \in Seq(Item) /\ Distinct(r) /\ Len(r) = Len(q) + 1
             /\ Elements(r) = {x} \cup Elements(q)
             /\ \A c : c # x => Met(r, c) = Met(q, c)
<1> DEFINE r == Append(q, x)
<1>1. /\ r \in Seq(Item) /\ Len(r) = Len(q) + 1 /\ Len(q) \in Nat
      /\ (\A i \in 1 .. Len(q) : r[i] = q[i]) /\ r[Len(q) + 1] = x
  OBVIOUS
<1>2. r = Linked(q, x) BY DEF Linked
<1> HIDE DEF r
<1>3. \A i \in 1 .. Len(r) : i \in 1 .. Len(q) \/ i = Len(q) + 1 BY <1>1
<1>4. \A i \in 1 .. Len(q) : q[i] # x BY DEF Elements
<1>5. Distinct(r)
  <2>1. ASSUME NEW i \in 1 .. Len(r), NEW j \in 1 .. Len(r), i # j PROVE r[i] # r[j]
    <3>1. CASE i \in 1 .. Len(q) /\ j \in 1 .. Len(q) BY <1>1, <2>1, <3>1 DEF Distinct
    <3>2. CASE i = Len(q) + 1 \/ j = Len(q) + 1 BY <1>1, <1>3, <1>4, <2>1, <3>2
    <3>3. QED BY <1>3, <3>1, <3>2
  <2>2. QED BY <2>1 DEF Distinct
<1>6. Elements(r) = {x} \cup Elements(q)
  <2>1. \A i \in 1 .. Len(q) : i \in 1 .. Len(r) BY <1>1
  <2>2. Len(q) + 1 \in 1 .. Len(r) BY <1>1
  <2>3. \A y : (\E i \in 1 .. Len(r) : y = r[i]) <=> y = x \/ \E i \in 1 .. Len(q) : y = q[i]
    BY <1>1, <1>3, <2>1, <2>2
  <2>4. QED BY <2>3 DEF Elements
<1>7. ASSUME NEW c, c # x PROVE Met(r, c) = Met(q, c)
  <2>1. CASE c \in Elements(q)
    <3>1. PICK i \in 1 .. Len(q) : c = q[i] BY <2>1 DEF Elements
    <3>2. i \in 1 .. Len(r) /\ c = r[i] BY <1>1, <3>1
    <3>3. Met(q, c) = {q[k] : k \in 1 .. i} BY <3>1, MetUpTo
    <3>4. Met(r, c) = {r[k] : k \in 1 .. i} BY <1>1, <1>5, <3>2, MetUpTo
    <3>5. \A k \in 1 .. i : r[k] = q[k] BY <1>1
    <3>6. QED BY <3>3, <3>4, <3>5
  <2>2. CASE c \notin Elements(q)
    <3>1. c \notin Elements(r) BY <1>6, <1>7, <2>2
    <3>2. QED BY <1>1, <1>5, <2>2, <3>1, MetUpTo
  <2>3. QED BY <2>1, <2>2
<1>8. QED BY <1>1, <1>2, <1>5, <1>6, <1>7

\* An entry is taken out; the others stay in their order.
LEMMA TakenOut ==
  ASSUME NEW q \in Seq(Item), Distinct(q), NEW p \in 1 .. Len(q)
  PROVE  LET r == RemoveAt(q, p)
         IN  /\ r \in Seq(Item) /\ Distinct(r) /\ Len(r) = Len(q) - 1
             /\ Elements(r) = Elements(q) \ {q[p]}
             /\ \A c : c # q[p] => Met(r, c) = Met(q, c) \ {q[p]}
<1> DEFINE a == SubSeq(q, 1, p - 1)
           b == SubSeq(q, p + 1, Len(q))
           r == a \o b
<1>1. Len(q) \in Nat /\ \A i \in 1 .. Len(q) : q[i] \in Item OBVIOUS
<1>2. r = RemoveAt(q, p) BY DEF RemoveAt
<1>3. a \in Seq(Item) /\ Len(a) = p - 1 /\ \A i \in 1 .. p - 1 : a[i] = q[i]
  BY <1>1
<1>4. b \in Seq(Item) /\ Len(b) = Len(q) - p /\ \A i \in 1 .. Len(q) - p : b[i] = q[p + i]
  <2>1. b \in Seq(Item) BY <1>1
  <2>2. Len(b) = Len(q) - p BY <1>1
  <2>3. ASSUME NEW i \in 1 .. Len(q) - p PROVE b[i] = q[p + i] BY <1>1
  <2>4. QED BY <2>1, <2>2, <2>3
<1> HIDE DEF a, b
<1>5. /\ r \in Seq(Item) /\ Len(r) = Len(q) - 1
      /\ \A i \in 1 .. Len(r) : r[i] = IF i < p THEN q[i] ELSE q[i + 1]
  <2>1. r \in Seq(Item) /\ Len(r) = Len(q) - 1
    <3>1. r \in Seq(Item) /\ Len(r) = Len(a) + Len(b)
      <4>1. a \in Seq(Item) /\ b \in Seq(Item) BY <1>3, <1>4
      <4>2. QED BY <4>1, ConcatProperties
    <3>2. p - 1 + (Len(q) - p) = Len(q) - 1 BY <1>1
    <3> HIDE DEF r
    <3>3. QED BY <1>3, <1>4, <3>1, <3>2
  <2>2. ASSUME NEW i \in 1 .. Len(r) PROVE r[i] = IF i < p THEN q[i] ELSE q[i + 1]
    <3>1. CASE i < p BY <1>1, <1>3, <1>4, <3>1
    <3>2. CASE ~(i < p)
      <4>1. i - (p - 1) \in 1 .. Len(q) - p /\ p + (i - (p - 1)) = i + 1 BY <1>1, <2>1, <3>2
      <4>2. r[i] = b[i - (p - 1)] BY <1>1, <1>3, <1>4, <2>1, <3>2
      <4>3. b[i - (p - 1)] = q[p + (i - (p - 1))] BY <1>4, <4>1
      <4>4. QED BY <3>2, <4>1, <4>2, <4>3
    <3>3. QED BY <3>1, <3>2
  <2>3. QED BY <2>1, <2>2
<1> HIDE DEF r
<1>6. ASSUME NEW i \in 1 .. Len(q), i # p
      PROVE  \E k \in 1 .. Len(r) : r[k] = q[i] /\ k = IF i < p THEN i ELSE i - 1
  <2>1. CASE i < p BY <1>1, <1>5, <2>1
  <2>2. CASE i > p
    <3>1. i - 1 \in 1 .. Len(r) /\ (i - 1) + 1 = i /\ ~(i - 1 < p) BY <1>1, <1>5, <2>2
    <3>2. r[i - 1] = q[i] BY <1>5, <3>1
    <3>3. QED BY <2>2, <3>1, <3>2
  <2>3. QED BY <1>1, <1>6, <2>1, <2>2
<1>7. ASSUME NEW k \in 1 .. Len(r)
      PROVE  \E i \in 1 .. Len(q) : i # p /\ r[k] = q[i] /\ i = IF k < p THEN k ELSE k + 1
  <2>1. CASE k < p BY <1>1, <1>5, <2>1
  <2>2. CASE ~(k < p)
    <3>1. k + 1 \in 1 .. Len(q) /\ k + 1 # p BY <1>1, <1>5, <2>2
    <3>2. QED BY <1>5, <2>2, <3>1
  <2>3. QED BY <2>1, <2>2
<1>8. Distinct(r)
  <2>1. ASSUME NEW i \in 1 .. Len(r), NEW j \in 1 .. Len(r), i # j PROVE r[i] # r[j]
    <3>1. PICK x \in 1 .. Len(q) : r[i] = q[x] /\ x = IF i < p THEN i ELSE i + 1 BY <1>7
    <3>2. PICK y \in 1 .. Len(q) : r[j] = q[y] /\ y = IF j < p THEN j ELSE j + 1 BY <1>7
    <3>3. x # y BY <1>5, <2>1, <3>1, <3>2
    <3>4. QED BY <3>1, <3>2, <3>3 DEF Distinct
  <2>2. QED BY <2>1 DEF Distinct
<1>9. Elements(r) = Elements(q) \ {q[p]}
  <2>1. \A y : (\E k \in 1 .. Len(r) : y = r[k]) => y # q[p] /\ \E i \in 1 .. Len(q) : y = q[i]
    BY <1>7 DEF Distinct
  <2>2. \A y : (\E i \in 1 .. Len(q) : y = q[i]) /\ y # q[p] => \E k \in 1 .. Len(r) : y = r[k]
    BY <1>6
  <2>3. QED BY <2>1, <2>2 DEF Elements
<1>10. ASSUME NEW c, c # q[p] PROVE Met(r, c) = Met(q, c) \ {q[p]}
  <2>1. CASE c \in Elements(q)
    <3>1. PICK i \in 1 .. Len(q) : c = q[i] BY <2>1 DEF Elements
    <3>2. i # p BY <1>10, <3>1
    <3>3. PICK k \in 1 .. Len(r) : r[k] = q[i] /\ k = IF i < p THEN i ELSE i - 1 BY <1>6, <3>2
    <3>4. Met(q, c) = {q[m] : m \in 1 .. i} BY <3>1, MetUpTo
    <3>5. Met(r, c) = {r[m] : m \in 1 .. k} BY <1>5, <1>8, <3>1, <3>3, MetUpTo
    <3>6. ASSUME NEW m \in 1 .. k PROVE r[m] # q[p] /\ \E n \in 1 .. i : r[m] = q[n]
      <4>1. m \in 1 .. Len(r) BY <1>5, <3>3
      <4>2. PICK n \in 1 .. Len(q) : n # p /\ r[m] = q[n] /\ n = IF m < p THEN m ELSE m + 1
        BY <1>7, <4>1
      <4>3. n \in 1 .. i BY <3>3, <4>1, <4>2
      <4>4. QED BY <4>2, <4>3 DEF Distinct
    <3>7. ASSUME NEW n \in 1 .. i, q[n] # q[p] PROVE \E m \in 1 .. k : q[n] = r[m]
      <4>1. n \in 1 .. Len(q) /\ n # p BY <1>1, <3>7
      <4>2. PICK m \in 1 .. Len(r) : r[m] = q[n] /\ m = IF n < p THEN n ELSE n - 1
        BY <1>6, <4>1
      <4>3. m \in 1 .. k BY <3>3, <4>1, <4>2
      <4>4. QED BY <4>2, <4>3
    <3>8. QED BY <3>4, <3>5, <3>6, <3>7
  <2>2. CASE c \notin Elements(q)
    <3>1. c \notin Elements(r) BY <1>9, <2>2
    <3>2. Met(q, c) = {} /\ Met(r, c) = {} BY <1>5, <1>8, <2>2, <3>1, MetUpTo
    <3>3. QED BY <3>2
  <2>3. QED BY <2>1, <2>2
<1>11. QED BY <1>2, <1>5, <1>8, <1>9, <1>10

-----------------------------------------------------------------------------
(* The table.                                                              *)

Held == Elements(order)

\* The inductive invariant: the links make one tree of the elements of the list.
TableInv ==
  /\ branch \in Branches /\ root \in ItemOrNull /\ TreeOf(branch, root, Held)
  /\ order \in Seq(Item) /\ Distinct(order) /\ count = Len(order)
  /\ cursor \in Held \cup {NoItem} /\ seen = Met(order, cursor)
  /\ fault \in BOOLEAN

\* What the calls do to the tree, and what to the list.
TreeIs(b, top, T) == b \in Branches /\ top \in ItemOrNull /\ TreeOf(b, top, T)

\* The splay of a table that may be empty.
LEMMA TableSplayed ==
  ASSUME TableInv, NEW item \in Item
  PROVE  LET t == Splay(item, branch, root)
         IN  /\ TreeIs(t.branch, t.root, Held)
             /\ item \in Held => t.root = item
             /\ t.root = NoItem \/ Splayed(item, t, Held)
             /\ t.root = item => item \in Held
<1> DEFINE t == Splay(item, branch, root)
<1>1. TreeOf(branch, root, Held) /\ branch \in Branches /\ root \in ItemOrNull BY DEF TableInv
<1>2. CASE root = NoItem
  <2>1. Held = {} BY <1>1, <1>2, TreeParts
  <2>2. t.branch = branch /\ t.root = root BY <1>2 DEF Splay, Is
  <2>3. QED BY <1>1, <1>2, <2>1, <2>2, Items DEF TreeIs
<1>3. CASE root # NoItem
  <2>1. root \in Item BY <1>1, <1>3, TreeParts
  <2>2. Splayed(item, t, Held) BY <1>1, <2>1, SplayKeeps
  <2> HIDE DEF t
  <2>3. /\ t.branch \in Branches /\ t.root \in Held /\ TreeOf(t.branch, t.root, Held)
        /\ item \in Held => t.root = item
    BY <2>2 DEF Splayed
  <2>4. t.root \in ItemOrNull BY <2>3, TreeParts
  <2>5. QED BY <2>2, <2>3, <2>4 DEF TreeIs, t
<1>4. QED BY <1>2, <1>3

\* RtlInitializeGenericTable makes an empty tree and an empty list.
LEMMA SplayInitEstablishes == SplayInit => TableInv
<1>1. SUFFICES ASSUME SplayInit PROVE TableInv OBVIOUS
<1>2. order = <<>> /\ Len(order) = 0 /\ order \in Seq(Item) /\ count = Len(order)
  BY <1>1 DEF SplayInit
<1>3. Held = {} /\ Distinct(order) /\ Met(order, cursor) = {}
  BY <1>2 DEF Held, Elements, Distinct, Met
<1>4. branch \in Branches BY <1>1 DEF SplayInit, NoBranches, Branches, ItemOrNull
<1>5. QED BY <1>1, <1>2, <1>3, <1>4, EmptyTree DEF TableInv, SplayInit, ItemOrNull

\* An insert puts the new element at the top of the tree and at the end of the list
\* (RtlInsertElementGenericTable).
LEMMA InsertKeeps ==
  ASSUME TableInv, NEW item \in Item, SplayInsert(item)
  PROVE  TableInv'
<1> DEFINE t == Splay(item, branch, root)
           s == SideOf(item, t.root)
<1>1. /\ TreeIs(t.branch, t.root, Held) /\ (item \in Held => t.root = item)
      /\ t.root = NoItem \/ Splayed(item, t, Held)
  BY TableSplayed
<1>2. /\ order \in Seq(Item) /\ Distinct(order) /\ count = Len(order)
      /\ cursor \in Held \cup {NoItem} /\ seen = Met(order, cursor) /\ fault \in BOOLEAN
  BY DEF TableInv
<1>3. cursor' = cursor /\ seen' = seen /\ fault' = fault BY DEF SplayInsert
<1>4. CASE branch' = t.branch /\ root' = t.root /\ order' = order /\ count' = count
  <2>1. Held' = Held BY <1>4 DEF Held
  <2>2. QED BY <1>1, <1>2, <1>3, <1>4, <2>1 DEF TableInv, TreeIs
<1>5. CASE /\ t.root # item
           /\ branch' = IF ~Is(t.root) THEN Cleared(item, t.branch)
                        ELSE [t.branch EXCEPT ![s][item] = t.branch[s][t.root],
                                              ![~s][item] = t.root, ![s][t.root] = NoItem]
           /\ root' = item /\ order' = Linked(order, item) /\ count' = count + 1
  <2>1. item \notin Held BY <1>1, <1>5
  <2>2. /\ order' \in Seq(Item) /\ Distinct(order') /\ Len(order') = Len(order) + 1
        /\ Elements(order') = {item} \cup Held
        /\ \A c : c # item => Met(order', c) = Met(order, c)
    BY <1>2, <1>5, <2>1, Appended DEF Held
  <2>3. Held' = {item} \cup Held BY <2>2 DEF Held
  <2>4. TreeIs(branch', item, {item} \cup Held)
    <3>1. CASE ~Is(t.root)
      <4>1. Held = {} BY <1>1, <3>1, TreeParts DEF TreeIs, Is
      <4>2. PICK b \in Branches : b = t.branch BY <1>1 DEF TreeIs
      <4>3. branch' = Cleared(item, b) BY <1>5, <3>1, <4>2
      <4>4. branch' \in Branches /\ \A u \in Side : branch'[u][item] = NoItem
        BY <4>3, ClearedTree
      <4>5. PICK u \in Side : (~u) \in Side BY Items
      <4>6. TreeOf(branch', branch'[u][item], {}) /\ TreeOf(branch', branch'[~u][item], {})
        BY <4>4, <4>5, EmptyTree
      <4>7. TreeOf(branch', item, {item} \cup {} \cup {}) BY <4>6, Crown
      <4>8. {item} \cup {} \cup {} = {item} \cup Held BY <4>1
      <4>9. QED BY <4>4, <4>7, <4>8 DEF TreeIs, ItemOrNull
    <3>2. CASE Is(t.root)
      <4>1. Splayed(item, t, Held) BY <1>1, <3>2 DEF Is
      <4> HIDE DEF t
      <4>2. t.branch \in Branches /\ t.root \in Item
        BY <1>1, <3>2, TreeParts DEF TreeIs, Is
      <4>3. s \in Side BY <4>2, SideIs
      <4>4. PICK r \in Side : r = (~s) /\ r # s BY <4>3, Items
      <4> DEFINE c == t.branch[s][t.root]
                 A == With(With(t.branch, s, item, c), r, item, t.root)
      <4>5. branch' = With(A, s, t.root, NoItem)
        <5>1. branch' = [t.branch EXCEPT ![s][item] = t.branch[s][t.root],
                                         ![~s][item] = t.root, ![s][t.root] = NoItem]
          BY <1>5, <3>2
        <5>2. branch' = [t.branch EXCEPT ![s][item] = t.branch[s][t.root],
                                         ![r][item] = t.root, ![s][t.root] = NoItem]
          BY <4>4, <5>1
        <5>3. QED BY <5>2, Zenon DEF With
      <4> HIDE DEF s
      <4>6. /\ c \in ItemOrNull /\ item \in ItemOrNext /\ NoItem \in ItemOrNull
            /\ t.root \in ItemOrNull /\ t.root \in ItemOrNext
        <5>1. t.root \in ItemOrNext /\ item \in ItemOrNext BY <4>2, Items
        <5>2. c \in ItemOrNull BY <4>2, <4>3, <5>1 DEF Branches
        <5>3. QED BY <4>2, <5>1, <5>2 DEF ItemOrNull
      <4>7. ChangedTwice(t.branch, A, s, item, c, r, item, t.root)
        <5> HIDE DEF c
        <5>1. QED BY <4>2, <4>3, <4>4, <4>6, TwiceWritten
      <4> HIDE DEF A
      <4>8. Changed(A, branch', s, t.root, NoItem)
        <5>1. A \in Branches BY <4>7 DEF ChangedTwice
        <5>2. Changed(A, With(A, s, t.root, NoItem), s, t.root, NoItem)
          BY <4>3, <4>6, <5>1, Written
        <5>3. QED BY <4>5, <5>2
      <4>9. branch' \in Branches /\ TreeOf(branch', item, {item} \cup Held)
        BY <1>5, <4>1, <4>4, <4>7, <4>8, InsertedTree DEF s
      <4>10. QED BY <4>9 DEF TreeIs, ItemOrNull
    <3>3. QED BY <3>1, <3>2
  <2>5. cursor # item BY <1>2, <2>1, Items
  <2>6. cursor' \in Held' \cup {NoItem} /\ seen' = Met(order', cursor')
    BY <1>2, <1>3, <2>2, <2>3, <2>5
  <2>7. count' = Len(order') BY <1>2, <1>5, <2>2
  <2>8. QED BY <1>2, <1>3, <1>5, <2>2, <2>3, <2>4, <2>6, <2>7 DEF TableInv, TreeIs
<1>6. QED BY <1>4, <1>5 DEF SplayInsert, Tree

\* A lookup splays the tree and leaves the list alone (RtlLookupElementGenericTable).
LEMMA LookupKeeps ==
  ASSUME TableInv, NEW item \in Item, SplayLookup(item)
  PROVE  TableInv'
<1> DEFINE t == Splay(item, branch, root)
<1>1. TreeIs(t.branch, t.root, Held) BY TableSplayed
<1>2. branch' = t.branch /\ root' = t.root /\ UNCHANGED <<order, count, cursor, seen, fault>>
  BY DEF SplayLookup, Tree
<1>3. Held' = Held BY <1>2 DEF Held
<1>4. QED BY <1>1, <1>2, <1>3 DEF TableInv, TreeIs

\* A deletion takes the element out of the tree and out of the list
\* (RtlDeleteElementGenericTable).
LEMMA DeleteKeeps ==
  ASSUME TableInv, NEW item \in Item, SplayDelete(item)
  PROVE  TableInv'
<1> DEFINE t == Splay(item, branch, root)
           b == t.branch
           rest == IF ~Is(b[Left][item])
                   THEN [branch |-> b, root |-> b[Right][item]] ELSE Joined(item, b)
<1>1. /\ TreeIs(t.branch, t.root, Held) /\ (item \in Held => t.root = item)
      /\ t.root = NoItem \/ Splayed(item, t, Held)
      /\ t.root = item => item \in Held
  BY TableSplayed
<1>2. /\ order \in Seq(Item) /\ Distinct(order) /\ count = Len(order)
      /\ cursor \in Held \cup {NoItem} /\ seen = Met(order, cursor) /\ fault \in BOOLEAN
  BY DEF TableInv
<1>3. CASE Tree(t) /\ UNCHANGED <<order, count, cursor, seen, fault>>
  <2>1. Held' = Held BY <1>3 DEF Held
  <2>2. QED BY <1>1, <1>2, <1>3, <2>1 DEF TableInv, TreeIs, Tree
<1>4. CASE /\ t.root = item /\ Is(b[Right][item])
           /\ branch' = Cleared(item, rest.branch)
           /\ root' = rest.root
           /\ order' = RemoveAt(order, EntryOf(item))
           /\ count' = count - 1
           /\ seen' = IF cursor = item THEN {} ELSE seen \ {item}
           /\ cursor' = IF cursor = item THEN NoItem ELSE cursor
           /\ UNCHANGED fault
  <2>1. item \in Held /\ Splayed(item, t, Held) BY <1>1, <1>4, Items
  <2>2. EntryOf(item) \in 1 .. Len(order) /\ order[EntryOf(item)] = item
    <3>1. \E i \in DOMAIN order : order[i] = item BY <1>2, <2>1 DEF Held, Elements
    <3>2. QED BY <1>2, <3>1 DEF EntryOf
  <2>3. /\ order' \in Seq(Item) /\ Distinct(order') /\ Len(order') = Len(order) - 1
        /\ Elements(order') = Held \ {item}
        /\ \A c : c # item => Met(order', c) = Met(order, c) \ {item}
    BY <1>2, <1>4, <2>2, TakenOut DEF Held
  <2>4. Held' = Held \ {item} BY <2>3 DEF Held
  <2>5. TreeIs(rest.branch, rest.root, Held \ {item})
    <3>1. CASE ~Is(b[Left][item])
      <4>1. Left \in Side /\ (~Left) = Right BY DEF Side, Left, Right
      <4>2. PICK P, Q \in SUBSET Held : Parted(t.branch, t.root, Held, Left, P, Q)
        BY <2>1, <4>1 DEF Splayed
      <4> HIDE DEF t
      <4>3. /\ Held = {item} \cup P \cup Q /\ item \notin Q
            /\ TreeOf(t.branch, t.branch[Left][item], P)
            /\ TreeOf(t.branch, t.branch[Right][item], Q)
        BY <1>4, <4>1, <4>2 DEF Parted
      <4>4. P = {} BY <3>1, <4>3, TreeParts DEF Is
      <4>5. Q = Held \ {item} BY <4>3, <4>4
      <4>6. rest.branch = b /\ rest.root = b[Right][item] BY <3>1
      <4>7. b[Right][item] \in ItemOrNull BY <4>3, TreeParts
      <4>8. QED BY <1>1, <4>3, <4>5, <4>6, <4>7 DEF TreeIs
    <3>2. CASE Is(b[Left][item])
      <4>1. rest = Joined(item, b) BY <3>2
      <4> HIDE DEF t
      <4>2. /\ Joined(item, b).branch \in Branches
            /\ TreeOf(Joined(item, b).branch, Joined(item, b).root, Held \ {item})
        BY <1>4, <2>1, <3>2, JoinedTree
      <4> HIDE DEF rest, b
      <4>3. rest.branch \in Branches /\ TreeOf(rest.branch, rest.root, Held \ {item})
        BY <4>1, <4>2
      <4>4. rest.root \in ItemOrNull BY <4>3, TreeParts
      <4>5. QED BY <4>3, <4>4 DEF TreeIs
    <3>3. QED BY <3>1, <3>2
  <2> HIDE DEF rest, b, t
  <2>6. TreeIs(branch', root', Held')
    <3>1. /\ Cleared(item, rest.branch) \in Branches
          /\ \A n, S : TreeOf(rest.branch, n, S) /\ item \notin S
                         => TreeOf(Cleared(item, rest.branch), n, S)
      <4>1. PICK c \in Branches : c = rest.branch BY <2>5 DEF TreeIs
      <4>2. /\ Cleared(item, c) \in Branches
            /\ \A n, S : TreeOf(c, n, S) /\ item \notin S => TreeOf(Cleared(item, c), n, S)
        BY ClearedTree
      <4>3. QED BY <4>1, <4>2
    <3>2. TreeOf(rest.branch, rest.root, Held') /\ item \notin Held' BY <2>4, <2>5 DEF TreeIs
    <3>3. QED BY <1>4, <2>4, <2>5, <3>1, <3>2 DEF TreeIs
  <2>7. cursor' \in Held' \cup {NoItem} /\ seen' = Met(order', cursor')
    <3>1. CASE cursor = item
      <4>1. NoItem \notin Elements(order')
        <5>1. Held \subseteq Item BY <2>1, TreeParts DEF Splayed
        <5>2. QED BY <2>3, <5>1, Items
      <4>2. Met(order', NoItem) = {} BY <2>3, <4>1, MetUpTo
      <4>3. QED BY <1>4, <3>1, <4>2
    <3>2. CASE cursor # item BY <1>2, <1>4, <2>3, <2>4, <3>2
    <3>3. QED BY <3>1, <3>2
  <2>8. count' = Len(order') BY <1>2, <1>4, <2>3
  <2>9. QED BY <1>2, <1>4, <2>3, <2>6, <2>7, <2>8 DEF TableInv, TreeIs
<1>5. CASE fault' = TRUE /\ UNCHANGED <<branch, root, order, count, cursor, seen>>
  <2>1. Held' = Held BY <1>5 DEF Held
  <2>2. QED BY <1>5, <2>1 DEF TableInv
<1>6. QED BY <1>3, <1>4, <1>5 DEF SplayDelete

\* The next entry, from the head of the list or from the guest's key.
LEMMA AfterIs ==
  ASSUME TableInv
  PROVE  /\ cursor = NoItem => After(cursor) = IF Len(order) = 0 THEN NoItem ELSE order[1]
         /\ \A i \in 1 .. Len(order) : cursor = order[i] =>
              After(cursor) = IF i = Len(order) THEN NoItem ELSE order[i + 1]
<1>1. order \in Seq(Item) /\ Distinct(order) BY DEF TableInv
<1>2. ASSUME NEW i \in 1 .. Len(order), cursor = order[i] PROVE Is(cursor) /\ EntryOf(cursor) = i
  <2>1. order[i] \in Item BY <1>1
  <2>2. i \in DOMAIN order BY <1>1
  <2>3. EntryOf(cursor) \in DOMAIN order /\ order[EntryOf(cursor)] = cursor
    BY <1>2, <2>2 DEF EntryOf
  <2>4. DOMAIN order = 1 .. Len(order) BY <1>1
  <2>5. QED BY <1>1, <1>2, <2>1, <2>3, <2>4, Items DEF Distinct, Is
<1>3. QED BY <1>1, <1>2 DEF After, Is

\* The enumeration adds the next element of the list to those it has met
\* (RtlEnumerateGenericTableWithoutSplaying).
LEMMA EnumerateKeeps ==
  ASSUME TableInv, Enumerate
  PROVE  TableInv'
<1>1. /\ order \in Seq(Item) /\ Distinct(order) /\ cursor \in Held \cup {NoItem}
      /\ seen = Met(order, cursor) /\ Len(order) \in Nat
  BY DEF TableInv
<1>2. /\ Is(After(cursor)) /\ cursor' = After(cursor) /\ seen' = seen \cup {After(cursor)}
      /\ order' = order /\ Held' = Held
      /\ UNCHANGED <<branch, root, order, count, fault>>
  BY DEF Enumerate, Held
<1>3. cursor' \in Held' \cup {NoItem} /\ seen' = Met(order', cursor')
  <2>1. CASE cursor = NoItem
    <3>1. 1 \in 1 .. Len(order) /\ cursor' = order[1] BY <1>1, <1>2, <2>1, AfterIs DEF Is
    <3>2. NoItem \notin Elements(order)
      <4>1. \A i \in 1 .. Len(order) : order[i] \in Item BY <1>1
      <4>2. QED BY <4>1, Items DEF Elements
    <3>3. seen = {} BY <1>1, <2>1, <3>2, MetUpTo
    <3>4. Met(order, order[1]) = {order[k] : k \in 1 .. 1} BY <1>1, <3>1, MetUpTo
    <3>5. {order[k] : k \in 1 .. 1} = {order[1]} OBVIOUS
    <3>6. QED BY <1>2, <3>1, <3>3, <3>4, <3>5 DEF Held, Elements
  <2>2. CASE cursor # NoItem
    <3>1. PICK i \in 1 .. Len(order) : cursor = order[i] BY <1>1, <2>2 DEF Held, Elements
    <3>2. i + 1 \in 1 .. Len(order) /\ cursor' = order[i + 1]
      BY <1>1, <1>2, <3>1, AfterIs DEF Is
    <3>3. seen = {order[k] : k \in 1 .. i} BY <1>1, <3>1, MetUpTo
    <3>4. Met(order, order[i + 1]) = {order[k] : k \in 1 .. (i + 1)} BY <1>1, <3>2, MetUpTo
    <3>5. {order[k] : k \in 1 .. (i + 1)} = {order[k] : k \in 1 .. i} \cup {order[i + 1]}
      <4>1. 1 .. (i + 1) = (1 .. i) \cup {i + 1} BY <1>1
      <4>2. QED BY <4>1
    <3>6. QED BY <1>2, <3>2, <3>3, <3>4, <3>5 DEF Held, Elements
  <2>3. QED BY <2>1, <2>2
<1>4. QED BY <1>2, <1>3 DEF TableInv

\* After the last element the enumeration has met none again.
LEMMA EnumerateEndKeeps ==
  ASSUME TableInv, EnumerateEnd
  PROVE  TableInv'
<1>1. /\ cursor' = NoItem /\ seen' = {} /\ Held' = Held
      /\ UNCHANGED <<branch, root, order, count, fault>>
  BY DEF EnumerateEnd, Held
<1>2. NoItem \notin Elements(order) /\ order \in Seq(Item) /\ Distinct(order)
  <2>1. TreeOf(branch, root, Held) BY DEF TableInv
  <2>2. Held \subseteq Item BY <2>1, TreeParts
  <2>3. QED BY <2>2, Items DEF Held, TableInv
<1>3. Met(order, NoItem) = {} BY <1>2, MetUpTo
<1>4. QED BY <1>1, <1>3 DEF TableInv

\* Every step keeps the invariant.
LEMMA SplayStepKeeps == TableInv /\ [SplayNext]_splayVars => TableInv'
<1>1. SUFFICES ASSUME TableInv, [SplayNext]_splayVars PROVE TableInv' OBVIOUS
<1>2. CASE UNCHANGED splayVars
  <2>1. Held' = Held BY <1>2 DEF splayVars, Held
  <2>2. QED BY <1>1, <1>2, <2>1 DEF TableInv, splayVars
<1>3. ASSUME NEW i \in Item, SplayInsert(i) \/ SplayLookup(i) \/ SplayDelete(i) PROVE TableInv'
  BY <1>1, <1>3, InsertKeeps, LookupKeeps, DeleteKeeps
<1>4. CASE Enumerate \/ EnumerateEnd BY <1>1, <1>4, EnumerateKeeps, EnumerateEndKeeps
<1>5. CASE Restart
  <2>1. SplayInit' BY <1>5 DEF Restart, SplayInit
  <2>2. SplayInit' => TableInv'
    BY SplayInitEstablishes, PTL
  <2>3. QED BY <2>1, <2>2
<1>6. QED BY <1>1, <1>2, <1>3, <1>4, <1>5 DEF SplayNext

\* The inductive invariant says what the runs check of a table.
LEMMA TableHolds == TableInv => TablesHoldTheirItems
<1>1. SUFFICES ASSUME TableInv PROVE TablesHoldTheirItems OBVIOUS
<1>2. /\ branch \in Branches /\ root \in ItemOrNull /\ TreeOf(branch, root, Held)
      /\ order \in Seq(Item) /\ Distinct(order) /\ count = Len(order)
      /\ cursor \in Held \cup {NoItem} /\ seen = Met(order, cursor) /\ fault \in BOOLEAN
  BY <1>1 DEF TableInv
<1>3. Held \subseteq Item BY <1>2, TreeParts
<1>4. Len(order) \in 0 .. SplayKeys /\ Cardinality(Held) = Len(order)
  BY <1>2, ListOfSet DEF Distinct, Held, Elements
<1>5. ToSet(order) = Held
  <2>1. DOMAIN order = 1 .. Len(order) BY <1>2
  <2>2. QED BY <2>1 DEF ToSet, Held, Elements
<1>6. SplayTypeOK
  <2>1. seen \subseteq Item BY <1>2, <1>3 DEF Met, Held, Elements
  <2>2. QED BY <1>2, <1>3, <1>4, <2>1 DEF SplayTypeOK, Branches, ItemOrNull
<1>7. TreeHoldsList
  <2>1. PICK keys : keys = InOrder(branch, root) OBVIOUS
  <2>2. Sorted(keys, Held) BY <1>2, <2>1, InOrderIsSorted
  <2>3. keys \in Seq(Item) /\ \A i, j \in 1 .. Len(keys) : i # j => keys[i] # keys[j]
    BY <2>2, SortedHasNoDoubles
  <2>4. Cardinality({keys[i] : i \in 1 .. Len(keys)}) = Len(keys) BY <2>3, ListOfSet
  <2>5. /\ Held = {keys[i] : i \in 1 .. Len(keys)}
        /\ \A i, j \in 1 .. Len(keys) : i < j => keys[i] < keys[j]
    BY <2>2 DEF Sorted
  <2>6. Len(keys) = Len(order) BY <1>4, <2>4, <2>5
  <2>7. ToSet(keys) = Held
    <3>1. DOMAIN keys = 1 .. Len(keys) BY <2>3
    <3>2. QED BY <2>5, <3>1 DEF ToSet
  <2>8. QED BY <1>2, <1>5, <2>1, <2>5, <2>6, <2>7 DEF TreeHoldsList
<1>8. EnumerationIsComplete BY <1>2 DEF EnumerationIsComplete, Met
<1>9. OnlyTheGreatestIsFatal
  <2>1. ASSUME NEW item \in Held
        PROVE  LET t == Splay(item, branch, root)
               IN  ~Is(t.branch[Right][item]) <=> \A other \in Held : other <= item
    <3>1. PICK t : t = Splay(item, branch, root) OBVIOUS
    <3>2. item \in Item BY <1>3
    <3>3. t.root = item /\ Splayed(item, t, Held)
      <4>1. t.root = item /\ (t.root = NoItem \/ Splayed(item, t, Held))
        BY <1>1, <3>1, <3>2, TableSplayed
      <4>2. QED BY <3>2, <4>1, Items
    <3>4. Right \in Side BY DEF Side
    <3>5. PICK P, Q \in SUBSET Held : Parted(t.branch, t.root, Held, Right, P, Q)
      BY <3>3, <3>4 DEF Splayed
    <3>6. /\ Held = {item} \cup P \cup Q /\ TreeOf(t.branch, t.branch[Right][item], P)
          /\ \A x \in P : On(Right, x, item)
          /\ \A x \in Q : On(~Right, x, item)
      BY <3>3, <3>5 DEF Parted
    <3>7. t.branch[Right][item] = NoItem <=> P = {} BY <3>6, TreeParts
    <3>8. /\ \A x \in P : item < x
          /\ \A x \in Q : x < item
      BY <3>6 DEF On, Right
    <3>9. \A x \in Held : x \in Nat BY <1>3, Items
    <3>10. P = {} <=> \A other \in Held : other <= item BY <3>6, <3>8, <3>9
    <3>11. QED BY <3>1, <3>7, <3>10 DEF Is
  <2>2. QED BY <1>5, <2>1 DEF OnlyTheGreatestIsFatal
<1>10. QED BY <1>6, <1>7, <1>8, <1>9 DEF TablesHoldTheirItems

\* A table holds its elements, in the tree and in the list, its enumeration is
\* complete, and a deletion is fatal for the greatest element only, in every state
\* that inserts, lookups, deletions and enumerations lead to (splay.c).
THEOREM TablesHoldTheirItemsAlways == SplaySpec => []TablesHoldTheirItems
BY SplayInitEstablishes, SplayStepKeeps, TableHolds, PTL DEF SplaySpec

=============================================================================
