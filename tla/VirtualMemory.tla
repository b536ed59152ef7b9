--------------------------- MODULE VirtualMemory ---------------------------
(***************************************************************************)
(* NtAllocateVirtualMemory and NtFreeVirtualMemory of libs/ntdll/mm.c over *)
(* mmap and munmap.  Addresses are bytes; page 0 is never mapped.          *)
(***************************************************************************)
EXTENDS Integers

CONSTANTS
  PageSize,
  LastPage,     \* bound: the highest page of the address space
  MaxRegion,    \* bound: the largest size asked for
  NotMapped     \* no protection

ASSUME MemoryAssumption ==
  /\ PageSize \in Nat \ {0} /\ LastPage \in Nat /\ MaxRegion \in Nat
  /\ NotMapped \notin {"r", "rw", "x"}

VARIABLES
  mapped,     \* per page its PROT_ bits, or NotMapped
  holds,      \* history: the pages that the guest was told of and has not freed
  request     \* history: the last call, its arguments and its answer

memoryVars == <<mapped, holds, request>>

Page == 1 .. LastPage
Null == 0
MapFailed == -1

PageAlign(a) == a - (a % PageSize)

\* Faulty variant: a part of a page is not counted.
RoundToPagesDown(n) == PageAlign(n)

RoundToPages(n) == PageAlign(n + PageSize - 1)

\* The pages of n bytes from a.
PagesOf(a, n) == {p \in 0 .. LastPage + MaxRegion : p * PageSize < a + n /\ a < (p + 1) * PageSize}

\* The cases of the switch, and of every other protection.
ProtOf == [readonly |-> "r", readwrite |-> "rw", execute |-> "x"]

VirtualInit ==
  /\ mapped = [p \in Page |-> NotMapped] /\ holds = {}
  /\ request = [op |-> "none", base |-> Null, size |-> 0, at |-> Null,
                prot |-> NotMapped, status |-> "none"]

Running == request.status # "abort"

Answer(op, base, size, at, prot, status) ==
  request' = [op |-> op, base |-> base, size |-> size, at |-> at, prot |-> prot,
              status |-> status]

\* mmap maps where it is told with MAP_FIXED, over what is there, and to a
\* place of its choice otherwise; its MAP_FAILED is not NULL.
AllocateVirtualMemory(base, size, protect) ==
  /\ Running
  /\ IF size = 0
     THEN Answer("allocate", base, size, base, NotMapped, "invalid")
          /\ UNCHANGED <<mapped, holds>>
     ELSE IF protect \notin DOMAIN ProtOf
     THEN Answer("allocate", base, size, base, NotMapped, "abort")
          /\ UNCHANGED <<mapped, holds>>
     ELSE LET fixed == PageAlign(base)
              room(at) == PagesOf(at, RoundToPages(size)) \subseteq Page
          IN  \/ \E at \in {p * PageSize : p \in Page} :
                   /\ room(at)
                   /\ IF fixed # Null THEN at = fixed
                      ELSE \A p \in PagesOf(at, RoundToPages(size)) : mapped[p] = NotMapped
                   /\ mapped' = [p \in Page |-> IF p \in PagesOf(at, RoundToPages(size))
                                                THEN ProtOf[protect] ELSE mapped[p]]
                   /\ holds' = holds \cup PagesOf(at, RoundToPages(size))
                   /\ Answer("allocate", base, size, at, ProtOf[protect], "success")
              \/ /\ fixed = Null \/ ~room(fixed)
                 /\ Answer("allocate", base, size, MapFailed, ProtOf[protect], "success")
                 /\ UNCHANGED <<mapped, holds>>

\* munmap refuses an address inside of a page, as MAP_FAILED is, and no bytes
\* at all, and takes pages that are not mapped.
FreeVirtualMemory(base, size) ==
  /\ Running
  /\ IF base % PageSize # 0 \/ size = 0
     THEN /\ Answer("free", base, size, base, NotMapped, "unsuccessful")
          /\ UNCHANGED <<mapped, holds>>
     ELSE /\ mapped' = [p \in Page |-> IF p \in PagesOf(base, RoundToPages(size))
                                       THEN NotMapped ELSE mapped[p]]
          /\ holds' = holds \ PagesOf(base, size)
          /\ Answer("free", base, size, base, NotMapped, "success")

VirtualNext ==
  \E base \in MapFailed .. (LastPage + 1) * PageSize - 1, size \in 0 .. MaxRegion :
    \/ \E protect \in DOMAIN ProtOf \cup {"readwrite-execute"} :
         base >= Null /\ AllocateVirtualMemory(base, size, protect)
    \/ FreeVirtualMemory(base, size)

VirtualSpec == VirtualInit /\ [][VirtualNext]_memoryVars

-----------------------------------------------------------------------------
(* Properties.                                                             *)

\* No page is left mapped that the guest does not know of, and none that it
\* holds is missing, over all allocations on top of others and all partial
\* releases (ROUND_TO_PAGES is the same in both services).
HeldIsMapped == holds = {p \in Page : mapped[p] # NotMapped}

\* Every byte that was asked for and granted is mapped with the protection of
\* this call.  There are two exceptions: MAP_FAILED is taken for an address,
\* and the size is not enlarged by what PAGE_ALIGN takes off the base.
GrantIsMapped ==
  request.op = "allocate" /\ request.status = "success" =>
    LET first == IF PageAlign(request.base) = Null THEN request.at ELSE request.base
        offset == first - request.at
    IN  \/ request.at = MapFailed
        \/ PagesOf(first, request.size) \subseteq {p \in Page : mapped[p] = request.prot}
        \/ offset + request.size > RoundToPages(request.size)

\* The pages that are mapped are those of the regions that were granted, and
\* have the protection that was asked for (mm.c 33 to 86).
RegionsAreRight == HeldIsMapped /\ GrantIsMapped

=============================================================================
