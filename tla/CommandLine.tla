---------------------------- MODULE CommandLine ----------------------------
(***************************************************************************)
(* What nloader.c and autochk.c put behind the process parameters of the   *)
(* guest: the name of the image and the command line, which is made of the *)
(* arguments, devices being wrapped in "Volume{" and "}".                  *)
(***************************************************************************)
EXTENDS Integers, Sequences, SequencesExt

CONSTANTS
  Programs,     \* bound: names of the guest
  Arguments,    \* bound: arguments, as sequences of characters
  MaxArgs,      \* bound: how many there are
  DeviceNames,  \* the arguments that begin with "/dev"
  Prefix,       \* VOLUME_PREFIX without its NUL
  LineLength,   \* elements of commandline
  CharBytes     \* sizeof(WCHAR)

\* Names and arguments are sequences, of whatever characters there are.
ASSUME CommandAssumption ==
  /\ \A text \in Programs \cup Arguments \cup {Prefix} : text \in Seq({text[k] : k \in DOMAIN text})
  /\ <<>> \notin Programs
  /\ MaxArgs \in Nat /\ LineLength \in Nat \ {0} /\ CharBytes \in Nat \ {0, 1}

VARIABLES
  argv,     \* the guest, whether it was named, and its arguments
  line,     \* commandline and what follows it on the stack, as far as written
  todo,     \* the arguments that are left
  params    \* what is behind the process parameters

commandVars == <<argv, line, todo, params>>

Default == <<"default">>
NoParams == <<"not yet">>

\* "autochk.exe *" stays if nloader is given nothing.
CommandInit ==
  /\ argv \in [name : Programs, named : BOOLEAN,
               args : UNION {[1 .. n -> Arguments] : n \in 0 .. MaxArgs}]
  /\ argv.named \/ argv.args = <<>>
  /\ todo = argv.args
  /\ line = IF argv.named THEN argv.name ELSE Default
  /\ params = NoParams

\* The comparison is with the bytes of commandline, not its elements.
LineRoom == LineLength * CharBytes - 1

Kept(c, arg) == SubSeq(arg, 1, Min({Len(arg), Max({LineRoom - c, 0})}))

\* One turn of the loop over the arguments.
AddArgument ==
  /\ todo # <<>>
  /\ LET arg == Head(todo)
         opened == line \o <<" ">> \o (IF arg \in DeviceNames THEN Prefix ELSE <<>>)
     IN  line' = opened \o Kept(Len(opened), arg) \o (IF arg \in DeviceNames THEN <<"}">> ELSE <<>>)
  /\ todo' = Tail(todo) /\ UNCHANGED <<argv, params>>

\* All of commandline is copied over the name of the image, behind its first
\* character.
StoreLine ==
  /\ todo = <<>> /\ params = NoParams
  /\ LET ended == IF argv.named THEN Append(line, "NUL") ELSE line
     IN  /\ line' = ended
         /\ params' = <<argv.name[1]>> \o SubSeq(ended, 1, Min({Len(ended), LineLength}))
  /\ UNCHANGED <<argv, todo>>

CommandNext == AddArgument \/ StoreLine

CommandSpec == CommandInit /\ [][CommandNext]_commandVars

-----------------------------------------------------------------------------
(* Properties.                                                             *)

Wrapped(arg) == IF arg \in DeviceNames THEN Prefix \o arg \o <<"}">> ELSE arg

Wanted ==
  argv.name \o FlattenSeq([k \in DOMAIN argv.args |-> <<" ">> \o Wrapped(argv.args[k])])
    \o <<"NUL">>

\* The guest finds its name and all arguments in their order, the devices
\* wrapped and the end marked, if that fits into commandline; if not, the
\* limit, which is too large, keeps nothing from being written behind it.
GuestReadsArguments ==
  params # NoParams =>
    IF ~argv.named THEN Tail(params) = Default
    ELSE IF Len(Wanted) <= LineLength THEN Tail(params) = Wanted ELSE Len(line) > LineLength
=============================================================================
