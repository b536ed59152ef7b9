-------------------------------- MODULE Heap --------------------------------
(***************************************************************************)
(* The heap of libs/ntdll/heap.c: blocks of malloc behind a header with a  *)
(* magic number and the size.  Contents are per byte: zero, what the guest *)
(* wrote, or what the memory had before.                                   *)
(***************************************************************************)
EXTENDS Integers

CONSTANTS
  Blocks,     \* addresses that malloc returns
  MaxSize     \* bound: largest size asked for

ASSUME HeapAssumption == MaxSize \in Nat

VARIABLES
  block,     \* each block: its magic, HEAP_OFFSIZE and bytes
  asked,     \* history: the size last asked for, of a block the guest holds
  cleared,   \* history: HEAP_ZERO_MEMORY was given by every call for the block
  pc         \* "runs", or "abort" where an assertion failed

heapVars == <<block, asked, cleared, pc>>

NotHeld == -1
MovedAway == -2

Bytes == 1 .. MaxSize
Free == [magic |-> "free", size |-> 0, bytes |-> [i \in Bytes |-> "junk"]]

HeapInit ==
  /\ block = [b \in Blocks |-> [Free EXCEPT !.magic = "none"]]
  /\ asked = [b \in Blocks |-> NotHeld]
  /\ cleared = [b \in Blocks |-> FALSE]
  /\ pc = "runs"

\* What a byte holds whose block is [old] long and becomes [size] long.
\* Faulty variant: what was beyond the end is taken for zero.
GrownKept(byte, i, old, size, zero) == byte

Grown(byte, i, old, size, zero) ==
  IF i > size THEN "junk" ELSE IF zero /\ i > old /\ size > old THEN "zero" ELSE byte

AllocateHeap(b, size, zero) ==
  /\ pc = "runs" /\ asked[b] < 0
  /\ block' = [block EXCEPT ![b] = [magic |-> "alloc", size |-> size,
                 bytes |-> [i \in Bytes |-> IF zero /\ i <= size THEN "zero" ELSE "junk"]]]
  /\ asked' = [asked EXCEPT ![b] = size] /\ cleared' = [cleared EXCEPT ![b] = zero]
  /\ UNCHANGED pc

\* realloc keeps what fits, in place or elsewhere; the block that is left is
\* returned to malloc with its magic as it was, unless malloc uses the place.
ReAllocateHeap(b, to, size, zero) ==
  /\ pc = "runs" /\ asked[b] >= 0 /\ (to = b \/ asked[to] < 0)
  /\ LET old == block[b]
         grown == [magic |-> "alloc", size |-> size,
                   bytes |-> [i \in Bytes |-> Grown(IF i <= old.size THEN old.bytes[i] ELSE "junk",
                                                    i, old.size, size, zero)]]
     IN  \E left \in {"alloc", "none"} :
           block' = [[block EXCEPT ![b] = [Free EXCEPT !.magic = left]] EXCEPT ![to] = grown]
  /\ asked' = [[asked EXCEPT ![b] = MovedAway] EXCEPT ![to] = size]
  /\ cleared' = [cleared EXCEPT ![to] = zero /\ cleared[b]]
  /\ UNCHANGED pc

Write(b, i) ==
  /\ pc = "runs" /\ asked[b] >= 0 /\ i \in 1 .. block[b].size
  /\ block' = [block EXCEPT ![b].bytes[i] = "written"]
  /\ UNCHANGED <<asked, cleared, pc>>

FreedMagic == "free"

\* The assertion of RtlFreeHeap reads the header of a block that may be free:
\* as long as malloc has not used it again it finds the inverted magic.
FreeHeap(b) ==
  /\ pc = "runs" /\ asked[b] # MovedAway /\ block[b].magic # "none"
  /\ IF block[b].magic # "alloc"
     THEN pc' = "abort" /\ UNCHANGED <<block, asked, cleared>>
     ELSE /\ block' = [block EXCEPT ![b] = [Free EXCEPT !.magic = FreedMagic]]
          /\ asked' = [asked EXCEPT ![b] = NotHeld]
          /\ cleared' = [cleared EXCEPT ![b] = FALSE] /\ UNCHANGED pc

HeapNext ==
  \E b \in Blocks :
    \/ FreeHeap(b)
    \/ \E size \in 0 .. MaxSize, zero \in BOOLEAN :
         \/ AllocateHeap(b, size, zero)
         \/ \E to \in Blocks : ReAllocateHeap(b, to, size, zero)
    \/ \E i \in Bytes : Write(b, i)

HeapSpec == HeapInit /\ [][HeapNext]_heapVars

-----------------------------------------------------------------------------
(* Properties.                                                             *)

\* A block that was asked for with HEAP_ZERO_MEMORY each time holds zeroes and
\* what the guest wrote, however often it shrank, grew and moved (RtlReAllocateHeap).
NoJunkInCleared ==
  \A b \in Blocks : asked[b] >= 0 /\ cleared[b] =>
    \A i \in 1 .. block[b].size : block[b].bytes[i] # "junk"

\* A block the guest holds has its magic number and the size asked for last;
\* one that it freed is not taken for allocated, so that freeing it again stops
\* the program, but one that realloc moved away may be (RtlFreeHeap, RtlSizeHeap).
HeadersAreRight ==
  \A b \in Blocks :
    /\ asked[b] >= 0 => block[b].magic = "alloc" /\ block[b].size = asked[b]
    /\ asked[b] = NotHeld => block[b].magic # "alloc"

\* A block that was asked for cleared is so at every growth, and a block has
\* the magic number and size of what it is (heap.c 58 to 121).
BlocksAreRight == NoJunkInCleared /\ HeadersAreRight

=============================================================================
