------------------------------- MODULE Loader -------------------------------
(***************************************************************************)
(* setup_nloader of src/loader.c: a PE file becomes an image in memory,    *)
(* its imports are bound to stubs, its pages get their protections and the *)
(* process around it is set up.  Each failure ends the loading.            *)
(*                                                                         *)
(* File and memory are cells; an import descriptor, a thunk and the end of *)
(* a list are one cell each.  Addresses are relative to the image.         *)
(***************************************************************************)
EXTENDS Integers, Sequences, FiniteSetsExt

CONSTANTS
  Files,      \* the files that are loaded
  Exports,    \* the nl_exports records: a sequence of [dll, name]
  PageCells,  \* cells of a page
  ParamsAt    \* the page of the process parameters, which is at a fixed address

ASSUME LoaderAssumption ==
  /\ PageCells \in Nat \ {0}
  /\ ParamsAt \in Nat /\ ParamsAt % PageCells = 0
  /\ DOMAIN Exports \subseteq Nat \ {0}
  /\ \A f \in Files :
       /\ {f.dir, f.dirsize, f.peoff, f.hdrsize, f.base} \subseteq Nat
       /\ {Len(f.cells), Len(f.sections)} \subseteq Nat
       /\ f.defect \in BOOLEAN
       /\ \A c \in 1 .. Len(f.cells) :
            f.cells[c].kind = "import" => {f.cells[c].names, f.cells[c].addrs} \subseteq Nat
       /\ DOMAIN f.sections = 1 .. Len(f.sections)
       /\ \A i \in DOMAIN f.sections :
            {f.sections[i].va, f.sections[i].vsize, f.sections[i].raw, f.sections[i].rsize}
              \subseteq Nat
       /\ f.defect \/ (Len(f.sections) > 0 /\ f.base % PageCells = 0)

VARIABLES
  file,      \* the file
  phase,     \* where setup_nloader is; "entry" when it returns the entry point
  mem,       \* cells of the image
  prot,      \* protection of the pages of the image
  imports,   \* import_names, import_addrs, thunks, by number
  walk,      \* the import descriptor and the thunks that are looked at
  process    \* what of TEB, stack, parameters and shared page is set up

loaderVars == <<file, phase, mem, prot, imports, walk, process>>

Zero == [kind |-> "null"]
Wild == [kind |-> "foreign"]

\* PEALIGN and PESALIGN with an alignment of one page.
Down(o) == (o \div PageCells) * PageCells
Up(o) == Down(o + PageCells - 1)

Sections == DOMAIN file.sections
Rva(i) == Down(file.sections[i].va)
Extent(i) == Up(file.sections[i].vsize)

ImageSize == Max({Rva(i) + Extent(i) : i \in Sections})
MinRva == Min({Rva(i) : i \in Sections})

\* CLI_ISCONTAINED of one cell.
Contained(cell) == cell \in 0 .. ImageSize - 1

PagesIn(from, length) ==
  {p \in DOMAIN prot : p * PageCells < from + length /\ (p + 1) * PageCells > from}

LoaderInit ==
  /\ file \in Files
  /\ phase = "header" /\ mem = <<>> /\ prot = <<>> /\ imports = <<>>
  /\ walk = [left |-> 0, import |-> 0, dll |-> "", names |-> 0, addrs |-> 0]
  /\ process = {}

RefuseFile == phase' = "refused" /\ UNCHANGED <<file, mem, prot, imports, walk, process>>

\* The program touches memory that is not the image's: it dies, or changes it.
GoAstray == phase' = "stray" /\ UNCHANGED <<file, mem, prot, imports, walk, process>>

-----------------------------------------------------------------------------
(* Headers and sections.                                                   *)

Headers ==
  /\ phase = "header"
  /\ IF file.defect THEN RefuseFile
     ELSE phase' = "map" /\ UNCHANGED <<file, mem, prot, imports, walk, process>>

MapImage ==
  /\ phase = "map"
  /\ \/ RefuseFile
     \/ /\ mem' = [c \in 0 .. ImageSize - 1 |-> Zero]
        /\ prot' = [p \in 0 .. (ImageSize \div PageCells) - 1 |-> {"r", "w"}]
        /\ walk' = [walk EXCEPT !.left = file.dirsize, !.import = file.dir]
        /\ phase' = "sections"
        /\ UNCHANGED <<file, imports, process>>

\* Each section takes SizeOfRawData from the file, whatever VirtualSize is; a
\* later one is written over an earlier one.  GETB copies nothing where the file
\* ends too early, but its value is the offset behind what was asked for: that
\* the file is cut short is not noticed, and a section without place and size
\* in the file is refused.
InFile(i) == file.sections[i].raw + file.sections[i].rsize <= Len(file.cells)
InImage(i) == Rva(i) + file.sections[i].rsize <= ImageSize
GetbFails(behind) == behind = 0

Filled(upto) ==
  LET f[i \in 0 .. upto] ==
        IF i = 0 THEN mem
        ELSE LET s == file.sections[i]
                 old == f[i - 1]
             IN  [c \in DOMAIN mem |->
                    IF InFile(i) /\ c \in Rva(i) .. Rva(i) + s.rsize - 1
                    THEN file.cells[s.raw + (c - Rva(i)) + 1] ELSE old[c]]
  IN  f[upto]

CopySections ==
  /\ phase = "sections"
  /\ LET stray == {i \in Sections : InFile(i) /\ ~InImage(i)}
         refused == {i \in Sections : GetbFails(file.sections[i].raw + file.sections[i].rsize)}
     IN  IF stray \cup refused # {}
         THEN IF Min(stray \cup refused) \in stray THEN GoAstray ELSE RefuseFile
         ELSE /\ mem' = Filled(Len(file.sections)) /\ phase' = "library"
              /\ UNCHANGED <<file, prot, imports, walk, process>>

-----------------------------------------------------------------------------
(* Imports.                                                                *)

NextLibrary ==
  /\ phase = "library"
  /\ IF walk.left = 0
     THEN phase' = "patch" /\ UNCHANGED <<file, mem, prot, imports, walk, process>>
     ELSE IF ~Contained(walk.import) THEN RefuseFile
     ELSE LET import == mem[walk.import]
          IN  CASE import = Zero ->
                     phase' = "patch" /\ UNCHANGED <<file, mem, prot, imports, walk, process>>
                [] import # Zero /\ import.names = 0 -> RefuseFile         \* Borland
                [] OTHER ->
                     /\ walk' = [left |-> walk.left - 1, import |-> walk.import + 1,
                                 dll |-> import.dll, names |-> import.names,
                                 addrs |-> import.addrs]
                     /\ phase' = "function"
                     /\ UNCHANGED <<file, mem, prot, imports, process>>

\* nl_resolve: the first record that has the names, or 0.
Resolve(dll, name) ==
  LET found == {i \in DOMAIN Exports : Exports[i] = [dll |-> dll, name |-> name]}
  IN  IF found = {} THEN 0 ELSE Min(found)

NextFunctionAt(w) == [w EXCEPT !.names = @ + 1, !.addrs = @ + 1]

\* *names is read before it is known to be in the image.
NextFunction ==
  /\ phase = "function"
  /\ IF Contained(walk.names) /\ mem[walk.names] = Zero
     THEN phase' = "library" /\ UNCHANGED <<file, mem, prot, imports, walk, process>>
     ELSE IF ~Contained(walk.names)
     THEN \/ GoAstray \/ RefuseFile
          \/ phase' = "library" /\ UNCHANGED <<file, mem, prot, imports, walk, process>>
     ELSE IF ~Contained(walk.addrs) THEN RefuseFile
     ELSE /\ imports' = Append(imports,
               [dll |-> walk.dll, name |-> mem[walk.names].name, slot |-> walk.addrs,
                addr |-> Resolve(walk.dll, mem[walk.names].name)])
          /\ walk' = NextFunctionAt(walk)
          /\ UNCHANGED <<file, phase, mem, prot, process>>

\* Stub i is the one that pushes i; all slots are patched when all are read.
Stub(i) == [kind |-> "stub", number |-> i]

LastImportOf(slot) == Max({i \in DOMAIN imports : imports[i].slot = slot})

Patch ==
  /\ phase = "patch"
  /\ \/ imports # <<>> /\ RefuseFile
     \/ /\ mem' = [c \in DOMAIN mem |->
                     IF \E i \in DOMAIN imports : imports[i].slot = c
                     THEN Stub(LastImportOf(c)) ELSE mem[c]]
        /\ phase' = "headers"
        /\ UNCHANGED <<file, prot, imports, walk, process>>

-----------------------------------------------------------------------------
(* Headers, protections and the process.                                   *)

\* Faulty variant: the headers are as long as they say.
HeaderCellsAll == file.peoff + file.hdrsize

HeaderCells == Min({MinRva, file.peoff + file.hdrsize})

MapHeaders ==
  /\ phase = "headers"
  /\ \/ RefuseFile
     \/ /\ ~GetbFails(HeaderCells)
        /\ mem' = [c \in DOMAIN mem |->
                     IF c < HeaderCells /\ HeaderCells <= Len(file.cells)
                     THEN file.cells[c + 1] ELSE mem[c]]
        /\ prot' = [p \in DOMAIN prot |->
                      IF p \in PagesIn(0, HeaderCells) THEN {"r"} ELSE prot[p]]
        /\ phase' = "protect"
        /\ UNCHANGED <<file, imports, walk, process>>

Grant(old, new) == new

ProtectSections ==
  /\ phase = "protect"
  /\ \/ RefuseFile
     \/ /\ prot' = [p \in DOMAIN prot |->
                      LET on == {i \in Sections : p \in PagesIn(Rva(i), Extent(i))}
                      IN  IF on = {} THEN prot[p]
                          ELSE Grant(prot[p], file.sections[Max(on)].prot)]
        /\ phase' = "process"
        /\ UNCHANGED <<file, mem, imports, walk, process>>

\* In this order; the parameters are mapped over whatever is at their address.
Steps == <<"teb", "stack", "params", "shared">>

SetupProcess ==
  /\ phase = "process"
  /\ \/ RefuseFile
     \/ LET step == Steps[Cardinality(process) + 1]
        IN  /\ process' = process \cup {step}
            /\ IF step = "params"
               THEN /\ mem' = [c \in DOMAIN mem |->
                                 IF c + file.base \in ParamsAt .. ParamsAt + PageCells - 1
                                 THEN Wild ELSE mem[c]]
                    /\ prot' = [p \in DOMAIN prot |->
                                  IF p * PageCells + file.base = ParamsAt
                                  THEN {"r", "w"} ELSE prot[p]]
               ELSE UNCHANGED <<mem, prot>>
            /\ phase' = IF step = Steps[Len(Steps)] THEN "entry" ELSE phase
            /\ UNCHANGED <<file, imports, walk>>

LoaderNext ==
  \/ Headers \/ MapImage \/ CopySections \/ NextLibrary \/ NextFunction
  \/ Patch \/ MapHeaders \/ ProtectSections \/ SetupProcess

LoaderSpec == LoaderInit /\ [][LoaderNext]_loaderVars

-----------------------------------------------------------------------------
(* Properties.                                                             *)

\* What the file has for a cell of the image: that of the last section there.
Cell(c) ==
  LET on == {i \in Sections :
               InFile(i) /\ c \in Rva(i) .. Rva(i) + file.sections[i].rsize - 1}
  IN  IF on = {} THEN Zero
      ELSE file.cells[file.sections[Max(on)].raw + (c - Rva(Max(on))) + 1]

\* Sections in the usual order, none larger in the file than in memory, the
\* image not where the parameters go, and import descriptors where the directory
\* says that they are.
Regular ==
  /\ \A i \in Sections :
       /\ file.sections[i].rsize <= Extent(i)
       /\ \A j \in Sections : i < j => Rva(i) + Extent(i) <= Rva(j)
  /\ ParamsAt \notin file.base .. file.base + ImageSize - 1
  /\ \A c \in file.dir .. file.dir + file.dirsize - 1 :
       Cell(c) = Zero \/ Cell(c).kind = "import"

\* The imports as the file states them: the k-th thunk of a library, which the
\* descriptor at l is for, is for the k-th slot.
IsLibrary(l) == \A d \in file.dir .. l : Cell(d) # Zero
IsThunk(l, k) == \A n \in 0 .. k : Cell(Cell(l).names + n) # Zero
Import(l, k) ==
  [dll |-> Cell(l).dll, name |-> Cell(Cell(l).names + k).name, slot |-> Cell(l).addrs + k]

Asked ==
  UNION {{Import(l, k) : k \in {m \in 0 .. ImageSize : IsThunk(l, m)}} :
           l \in {d \in file.dir .. file.dir + file.dirsize - 1 : IsLibrary(d)}}

\* When the program is entered, the slot of each import the file asks for holds
\* a stub whose number finds the name of an import of that slot and the export
\* of this name, if there is one; that the list of names is the list of slots
\* in some files does no harm (IAT - functions, IAT - patching).  A slot in front
\* of the sections is lost to the headers.
SlotsHoldTheirStub ==
  phase = "entry" /\ Regular =>
    \A a \in {b \in Asked : b.slot >= MinRva} :
      /\ mem[a.slot].kind = "stub"
      /\ LET i == imports[mem[a.slot].number]
         IN  /\ [dll |-> i.dll, name |-> i.name, slot |-> i.slot] \in Asked
             /\ i.slot = a.slot
             /\ i.addr # 0 => Exports[i.addr] = [dll |-> i.dll, name |-> i.name]

\* The headers are copied after the slots are patched, and neither they nor
\* the parameters take a cell of a section: each holds what the file has or
\* its stub, and is empty if the file is cut short (MZ - mapping, GETB).
SectionsAreIntact ==
  phase = "entry" /\ Regular =>
    \A i \in Sections : \A c \in Rva(i) .. Rva(i) + file.sections[i].rsize - 1 :
      mem[c] = Cell(c) \/ \E k \in DOMAIN imports : imports[k].slot = c /\ mem[c].kind = "stub"

\* Each page of a section allows what the section asks for and nothing else,
\* though the pages were writable to be filled and those of the headers are
\* protected first (SECTIONS - protection).
PagesAreProtected ==
  phase = "entry" /\ Regular =>
    \A i \in Sections : \A p \in PagesIn(Rva(i), Extent(i)) : prot[p] = file.sections[i].prot

\* Only a section that is larger in the file than its room in memory, or a list
\* of thunks without an end, leads the loader out of the image.
StrayHasCause ==
  phase = "stray" =>
    \/ \E i \in Sections : file.sections[i].rsize > Extent(i)
    \/ ~Contained(walk.names)

\* A loaded image has the stubs of its imports, its sections and their
\* protections, and nothing strays without one of the known causes (loader.c).
ImageIsComplete ==
  SlotsHoldTheirStub /\ SectionsAreIntact /\ PagesAreProtected /\ StrayHasCause

=============================================================================
