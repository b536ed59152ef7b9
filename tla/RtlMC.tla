------------------------------- MODULE RtlMC -------------------------------
(***************************************************************************)
(* The services that share no state with each other, for TLC: the guest    *)
(* uses one of them, "part".  The modules that are extended have their     *)
(* constants in the cfg and stay in their initial state when they are not  *)
(* used; the instances have theirs here, and their variables are Off.      *)
(***************************************************************************)
EXTENDS Bitmap, SplayTable, Security, Lznt1, FileIo, Namespace, Threads, Heap,
        VirtualMemory, Loader, Answers, RtlInputs, TLC

CONSTANTS Off, t1, t2, h1, h2

VARIABLES
  part,
  kin, top,  \* SplayLinks
  msgpc, ask, dir, level, index, message, asArray, msg, taken, buffer  \* Messages

-----------------------------------------------------------------------------
(* The services, each of a size at which its rare cases occur.             *)

Links == INSTANCE SplayLinks WITH
         LinkCount <- 6, NoLink <- Off
Msgs == INSTANCE Messages WITH
         Trees <- MessageTrees, Tables <- MessageTables, Wanted <- 0 .. 6, Type <- 11,
         AnyLang <- 0, Langs <- {1033, 9}, Texts <- MessageTexts, pc <- msgpc

-----------------------------------------------------------------------------
(* One service at a time.                                                  *)

linkState == <<kin, top>>
messageState == <<msgpc, ask, dir, level, index, message, asArray, msg, taken, buffer>>

LinkOff == kin = Off /\ top = Off
MessagesOff ==
  /\ msgpc = Off /\ ask = Off /\ dir = Off /\ level = Off /\ index = Off
  /\ message = Off /\ asArray = Off /\ msg = Off /\ taken = Off /\ buffer = Off

Init ==
  /\ part \in {"bitmap", "splay", "links", "security", "files", "namespace", "lznt1",
              "loader", "devices", "registry", "clock", "calendar", "threads", "heap",
              "memory", "strings", "messages", "command line"}
  /\ part # "loader" => file = AnyFile
  /\ part # "namespace" => mounted = FALSE
  /\ part # "bitmap" => size = Min(BitmapSizes) /\ bits = {}
  /\ part # "devices" => disk = Min(DiskSizes)
  /\ part # "lznt1" => left = Min(InputSizes)
  /\ part # "calendar" => first = Min(FirstDays)
  /\ part # "command line" => argv = NoArguments
  /\ LoaderInit /\ BitmapInit /\ SplayInit /\ FileInit /\ NsInit /\ ThreadsInit /\ HeapInit
  /\ VirtualInit /\ DeviceInit /\ RegistryInit /\ ClockInit /\ CalendarInit
  /\ StringsInit /\ CommandInit /\ SecurityInit /\ LzInit
  /\ IF part = "links" THEN Links!LinkInit ELSE LinkOff
  /\ IF part = "messages" THEN Msgs!MessagesInit ELSE MessagesOff

\* The services that are not used stand still.
OthersRest ==
  /\ part # "bitmap" => UNCHANGED bitmapVars
  /\ part # "splay" => UNCHANGED splayVars
  /\ part # "links" => UNCHANGED linkState
  /\ part # "security" => UNCHANGED securityVars
  /\ part # "files" => UNCHANGED fileVars
  /\ part # "namespace" => UNCHANGED nsVars
  /\ part # "lznt1" => UNCHANGED lzVars
  /\ part # "loader" => UNCHANGED loaderVars
  /\ part # "devices" => UNCHANGED deviceVars
  /\ part # "registry" => UNCHANGED registryVars
  /\ part # "clock" => UNCHANGED clockVars
  /\ part # "calendar" => UNCHANGED calendarVars
  /\ part # "threads" => UNCHANGED threadVars
  /\ part # "heap" => UNCHANGED heapVars
  /\ part # "memory" => UNCHANGED memoryVars
  /\ part # "strings" => UNCHANGED stringVars
  /\ part # "messages" => UNCHANGED messageState
  /\ part # "command line" => UNCHANGED commandVars

Next ==
  /\ UNCHANGED part /\ OthersRest
  /\ CASE part = "bitmap" -> BitmapNext
       [] part = "splay" -> SplayNext
       [] part = "links" -> Links!LinkNext
       [] part = "security" -> SecurityNext
       [] part = "files" -> FileNext
       [] part = "namespace" -> NsNext
       [] part = "lznt1" -> LzNext
       [] part = "loader" -> LoaderNext
       [] part = "devices" -> DeviceNext
       [] part = "registry" -> RegistryNext
       [] part = "clock" -> ClockNext
       [] part = "calendar" -> CalendarNext
       [] part = "threads" -> ThreadsNext
       [] part = "heap" -> HeapNext
       [] part = "memory" -> VirtualNext
       [] part = "strings" -> StringsNext
       [] part = "messages" -> Msgs!MessagesNext
       [] part = "command line" -> CommandNext

vars ==
  << part, bitmapVars, fileVars, nsVars, threadVars, heapVars, memoryVars, splayVars,
     linkState, securityVars, lzVars, loaderVars, deviceVars, registryVars,
     clockVars, calendarVars, stringVars, messageState, commandVars >>

Spec == Init /\ [][Next]_vars

Symmetry == Permutations({t1, t2}) \cup Permutations({h1, h2})

-----------------------------------------------------------------------------
(* Properties, but for those of the modules that are extended.  Each is    *)
(* that of its module, which says what it means.                           *)

\* A message is found where the directories have it, and becomes what its items
\* mean (rtl.c).
TextsAreMeant ==
  part = "messages" => Msgs!ExpandedAsMeant /\ Msgs!ReadsToNul /\ Msgs!FoundIfThere

\* What every step keeps: a valid list stays valid but in the two ways of RtlAddAce
\* (sd.c); a splay halves the path to what it brings up (splay.c, splaytree.c);
\* links of parents and children agree, and RtlDeleteNoSplay moves no node down
\* (splaytree.c); what was announced suffices (registry.c).
StepsKeepPromises ==
  [][ /\ part = "security" => ValidListStaysValid
      /\ part = "splay" => SplayHalvesPath
      /\ part = "links" => Links!WellLinked' /\ Links!LinksHalvePath /\ Links!NoSplayNoDeeper
      /\ part = "registry" => AnnouncedLengthSuffices ]_vars
=============================================================================
