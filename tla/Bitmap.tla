------------------------------- MODULE Bitmap -------------------------------
(***************************************************************************)
(* The bitmaps of libs/ntdll: bitmap.c and RtlFillMemoryUlong of rtl.c.    *)
(* The buffer and the word behind it are the set of the positions that are *)
(* set, so that a call that leaves its buffer can be seen.  A word has     *)
(* WordBits bits and a byte ByteBits: 32 and 8 in the program.             *)
(*                                                                         *)
(* The guest keeps an allocation map: it takes bits with FindClearBitsAnd- *)
(* Set, or where it finds them clear, and gives them back.                 *)
(***************************************************************************)
EXTENDS Integers, Sequences, FiniteSets, FiniteSetsExt

CONSTANTS
  WordBits,    \* bits of a ULONG
  ByteBits,    \* bits of a byte
  BitmapSizes  \* the SizeOfBitMap that the guest uses

ASSUME BitmapAssumption ==
  /\ WordBits \in Nat \ {0} /\ ByteBits \in Nat \ {0}
  /\ BitmapSizes \subseteq Nat \ {0}

VARIABLES
  size,   \* SizeOfBitMap
  bits,   \* the positions in the buffer and behind it that are set
  runs    \* the sets of positions that the guest has taken and not given back

bitmapVars == <<size, bits, runs>>

NotFound == -1                          \* MAXULONG as a result
Lesser(a, b) == IF a < b THEN a ELSE b
Words(n) == (n + WordBits - 1) \div WordBits
Buffer == 0 .. WordBits * Words(size) - 1
Memory == 0 .. WordBits * (Words(size) + 1) - 1
Map == 0 .. size - 1

-----------------------------------------------------------------------------
(* Ranges.  A range starts in a word of which Room bits are left, goes on  *)
(* with whole words and ends with the low bits of a word.                  *)

Room(start) == IF start % WordBits = 0 THEN 0 ELSE WordBits - (start % WordBits)

\* Faulty variant: the word that is partly used at the end is left out.
LastBitsNone(left) == 0

LastBits(left) == left % WordBits

RangeOf(start, n) ==
  LET next == start + Room(start)
      left == n - Room(start)
      last == next + WordBits * (left \div WordBits)
  IN  IF n < Room(start) THEN start .. start + n - 1
      ELSE (start .. next - 1) \cup (next .. last - 1)
             \cup (last .. last + LastBits(left) - 1)

\* Faulty variant: the position of start in its word is not counted.
WordsOfRunShort(start, longest) == Words(longest)

WordsOfRun(start, longest) == Words((start % WordBits) + longest)

\* RtlpGetLengthOfRunClear and ..Set: the words, and at least one, are read
\* until one has a bit that stops the run.
RunLength(stop, start, most) ==
  LET longest == Lesser(most, size - start)
      word == start - (start % WordBits)
      read == start .. word + WordBits * Max({1, WordsOfRun(start, longest)}) - 1
      hits == stop \cap read
  IN  IF hits = {} THEN longest ELSE Lesser(Min(hits) - start, size - start)

RunClear(start, most) == RunLength(bits, start, most)
RunSet(start, most) == RunLength(Memory \ bits, start, most)

AreBitsClear(start, n) == RunClear(start, n) >= n
AreBitsSet(start, n) == RunSet(start, n) >= n
TestBit(b) == b \in bits

LongEnough(length, n) == length >= n

\* The second search ends where the first one began.
RetryMargin(n, hint) == Lesser(hint + n, size)

\* RtlFindClearBits, from each position: while CurrentBit + NumberToFind < Margin
ClearSearch(n, margin) ==
  LET at[b \in 0 .. size] ==
        LET free == b + RunSet(b, size)
            length == RunClear(free, n)
        IN  IF b + n >= margin THEN NotFound
            ELSE IF LongEnough(length, n) THEN free ELSE at[free + length]
  IN  at

FindClearBits(n, hint) ==
  LET first == ClearSearch(n, size)[hint]
  IN  IF n > size THEN NotFound
      ELSE IF n = 0 THEN hint
      ELSE IF first = NotFound /\ hint # 0 THEN ClearSearch(n, RetryMargin(n, hint))[0]
      ELSE first

\* RtlFindSetBits, from each position: while CurrentBit + NumberToFind <= SizeOfBitMap
SetSearch(n) ==
  LET at[b \in 0 .. size] ==
        LET used == b + RunClear(b, size)
            length == RunSet(used, n)
        IN  IF b + n > size THEN NotFound
            ELSE IF LongEnough(length, n) THEN used ELSE at[used + length]
  IN  at

FindSetBits(n, hint) ==
  IF n > size THEN NotFound
  ELSE IF n = 0 THEN hint ELSE SetSearch(n)[hint]

-----------------------------------------------------------------------------
(* Lists of runs, and counts.                                              *)

NextForwardRunClear(from) ==
  LET start == from + RunSet(from, size)
  IN  [start |-> start, length |-> RunClear(start, size)]

BetterThan(run, entry) == run.length > entry.length

\* The first runs, as many as fit, and where the search for the next one begins.
FirstRuns(slots) ==
  LET fill[i \in 0 .. slots] ==
        IF i = 0 THEN [table |-> <<>>, from |-> 0]
        ELSE LET old == fill[i - 1]
                 run == NextForwardRunClear(old.from)
             IN  IF run.length = 0 THEN old
                 ELSE [table |-> Append(old.table, run),
                       from |-> run.start + run.length]
  IN  fill

Smallest(table) ==
  Min({i \in 1 .. Len(table) : \A j \in 1 .. Len(table) : table[i].length <= table[j].length})

\* The entry of the array that was the smallest is replaced by larger runs.  It is
\* never chosen anew: the loop at 720 compares the new run with itself.  Here
\* FromIndex goes on by the length of the run from where the search began, not
\* from where the run did.
LargerRuns(full) ==
  LET rest[i \in 0 .. size] ==
        IF i = 0 THEN full
        ELSE LET old == rest[i - 1]
                 run == NextForwardRunClear(old.from)
                 smallest == Smallest(full.table)
             IN  [table |-> IF run.length > 0 /\ BetterThan(run, old.table[smallest])
                            THEN [old.table EXCEPT ![smallest] = run] ELSE old.table,
                  from |-> old.from + run.length]
  IN  rest

FindClearRuns(slots, longest) ==
  LET full == FirstRuns(slots)[slots]
  IN  IF Len(full.table) < slots \/ ~longest THEN full.table
      ELSE LargerRuns(full)[size].table

\* The longest run of those from each position on.
LongestFrom ==
  LET scan[from \in 0 .. size] ==
        LET run == NextForwardRunClear(from)
            later == scan[from + run.length]
        IN  IF run.length = 0 \/ run.length >= later.length THEN run ELSE later
  IN  scan

FindLongestRunClear == LongestFrom[0]

\* The loop ends after MaxByte, one byte behind the bitmap.
CountedBytes == (size + ByteBits - 1) \div ByteBits + 1

NumberOfSetBits == Cardinality(bits \cap 0 .. ByteBits * CountedBytes - 1)
NumberOfClearBits == size - NumberOfSetBits

\* The halves of a ULONGLONG are searched one after the other.
FindMostSignificantBit(value) ==
  LET high == {b \in value : b >= WordBits}
      low == value \ high
  IN  IF high # {} THEN Max(high) ELSE IF low # {} THEN Max(low) ELSE -1

FindLeastSignificantBit(value) ==
  LET low == {b \in value : b < WordBits}
      high == value \ low
  IN  IF low # {} THEN Min(low) ELSE IF high # {} THEN Min(high) ELSE -1

-----------------------------------------------------------------------------
(* Calls.                                                                  *)

\* What is behind the buffer is not the bitmap's.
BitmapInit ==
  /\ size \in BitmapSizes
  /\ bits \in {{}, Memory \ Buffer}
  /\ runs = {}

SetBits(start, n) == bits' = bits \cup RangeOf(start, n)
ClearBits(start, n) == bits' = bits \ RangeOf(start, n)

\* Give the bits of a range back, of which a run may keep some.
Without(range) == {run \ range : run \in runs} \ {{}}

FindClearBitsAndSet(n, hint) ==
  LET found == FindClearBits(n, hint)
  IN  /\ found # NotFound
      /\ SetBits(found, n)
      /\ runs' = runs \cup {found .. found + n - 1}
      /\ UNCHANGED size

FindSetBitsAndClear(n, hint) ==
  LET found == FindSetBits(n, hint)
  IN  /\ found # NotFound
      /\ ClearBits(found, n)
      /\ runs' = Without(found .. found + n - 1)
      /\ UNCHANGED size

\* The guest takes a range of its choice that it finds clear.
TakeRange(start, n) ==
  /\ AreBitsClear(start, n)
  /\ SetBits(start, n)
  /\ runs' = runs \cup {start .. start + n - 1}
  /\ UNCHANGED size

\* It gives back a range that it finds set.
GiveRange(start, n) ==
  /\ AreBitsSet(start, n) /\ TestBit(start)
  /\ ClearBits(start, n)
  /\ runs' = Without(start .. start + n - 1)
  /\ UNCHANGED size

SetAllBits == bits' = bits \cup Buffer /\ runs' = {Map} /\ UNCHANGED size
ClearAllBits == bits' = bits \ Buffer /\ runs' = {} /\ UNCHANGED size

BitmapNext ==
  \/ \E n \in 1 .. size, hint \in 0 .. size - 1 :
       FindClearBitsAndSet(n, hint) \/ FindSetBitsAndClear(n, hint)
  \/ \E start \in Map : \E n \in 1 .. size - start :
       TakeRange(start, n) \/ GiveRange(start, n)
  \/ SetAllBits
  \/ ClearAllBits

BitmapSpec == BitmapInit /\ [][BitmapNext]_bitmapVars

-----------------------------------------------------------------------------
(* Properties.                                                             *)

IsFree(start, n) == start .. start + n - 1 \subseteq Map \ bits
IsClearRun(run) ==
  /\ run.length > 0 /\ IsFree(run.start, run.length)
  /\ run.start + run.length \notin Map \ bits

BitmapTypeOK ==
  /\ size \in BitmapSizes
  /\ bits \subseteq Memory
  /\ runs \subseteq SUBSET Map

\* No bit is handed out twice, and the bitmap knows which ones are taken,
\* however takes and gives follow each other (RtlFindClearBitsAndSet,
\* RtlFindSetBitsAndClear, RtlAreBitsClear before RtlSetBits).
RunsAreDisjoint ==
  /\ UNION runs = bits \cap Map
  /\ \A r, s \in runs : r = s \/ r \cap s = {}

\* RtlSetBits and RtlClearBits, which go word by word, reach the bits of the
\* range and no other, in the bitmap or behind it.
MasksAreExact ==
  \A start \in Map : \A n \in 1 .. size - start :
    RangeOf(start, n) = start .. start + n - 1

\* A run that a search returns is one, whatever is in the rest of its last
\* word and in the word behind the buffer (RtlFindClearBits, RtlFindSetBits,
\* RtlAreBitsClear, RtlAreBitsSet).
FoundRunIsOne ==
  \A start \in Map, n \in 1 .. size :
    /\ FindClearBits(n, start) # NotFound => IsFree(FindClearBits(n, start), n)
    /\ LET f == FindSetBits(n, start)
       IN  f # NotFound => f .. f + n - 1 \subseteq Map \cap bits
    /\ AreBitsClear(start, n) <=> IsFree(start, n)
    /\ AreBitsSet(start, n) <=> start .. start + n - 1 \subseteq Map \cap bits

\* RtlFindClearBits fails only if the clear runs of that length end with the
\* last bit of the bitmap: its loop stops one position early (line 468).  The
\* hint makes no difference.
OnlyTheLastRunIsMissed ==
  \A n \in 1 .. size, hint \in 0 .. size :
    FindClearBits(n, hint) = NotFound =>
      \A start \in Map : IsFree(start, n) => start + n = size

\* RtlFindClearRuns lists different clear runs, all of them as long as they
\* fit, and with LocateLongestRuns the longest of all is listed, in spite of
\* its two slips.
ClearRunsAreListed ==
  \A slots \in 1 .. 3, longest \in BOOLEAN :
    LET table == FindClearRuns(slots, longest)
    IN  /\ \A i \in 1 .. Len(table) : IsClearRun(table[i])
        /\ \A i, j \in 1 .. Len(table) : i = j \/ table[i].start # table[j].start
        /\ Len(table) < slots => \A b \in Map \ bits : \E i \in 1 .. Len(table) :
             b \in table[i].start .. table[i].start + table[i].length - 1
        /\ longest => \A start \in Map, n \in 1 .. size :
             IsFree(start, n) => \E i \in 1 .. Len(table) : table[i].length >= n

\* RtlFindLongestRunClear goes on by the length of the run from where it began
\* to look, and so meets parts of runs again; it returns a longest run.
LongestRunIsLongest ==
  LET run == FindLongestRunClear
  IN  /\ run.length > 0 => IsClearRun(run)
      /\ \A start \in Map, n \in 1 .. size : IsFree(start, n) => run.length >= n

\* RtlNumberOfSetBits counts a byte too many; the result is right if nothing
\* is set behind the bitmap.  The highest and the lowest bit of a ULONGLONG
\* are found across its halves.
CountsAgree ==
  /\ bits \subseteq Map => NumberOfSetBits = Cardinality(bits)
  /\ bits \subseteq Map => NumberOfClearBits = Cardinality(Map \ bits)
  /\ LET value == bits \cap 0 .. 2 * WordBits - 1
     IN  value # {} => /\ FindMostSignificantBit(value) = Max(value)
                       /\ FindLeastSignificantBit(value) = Min(value)
\* Takes and gives of ranges keep the allocation map exact, over all words
\* (RtlFindClearBitsAndSet, RtlSetBits, RtlClearBits).
BitmapIsExact == BitmapTypeOK /\ RunsAreDisjoint /\ MasksAreExact

\* Searches return runs, miss none but one at the end, and count what is set
\* (RtlFindClearBits, RtlFindClearRuns, RtlFindLongestRunClear,
\* RtlNumberOfSetBits).
SearchesAreRight ==
  /\ FoundRunIsOne /\ OnlyTheLastRunIsMissed /\ LongestRunIsLongest
  /\ ClearRunsAreListed /\ CountsAgree
=============================================================================
