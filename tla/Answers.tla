------------------------------ MODULE Answers ------------------------------
(***************************************************************************)
(* The services that answer from what they are told, and keep little:      *)
(* device control, the registry, the clock, the calendar, the counted      *)
(* strings, and the command line.  Each is a state machine of its own;     *)
(* this module puts together the properties of those that are alike.       *)
(***************************************************************************)
EXTENDS Devices, Registry, Clock, Calendar, Strings, CommandLine

\* Values are handed out as far as they fit, a table for its first direct entry
\* that exists (registry.c); strings fit into what was allocated for them, but
\* for the known cases, and have the lengths of their texts (rtl.c); the guest
\* finds its arguments on the command line if they fit (nloader.c, autochk.c).
ValuesFit ==
  /\ RepliesFit /\ FirstDirectAnswers
  /\ OwnBufferSuffices /\ LengthsAreOfText
  /\ GuestReadsArguments

\* Deadlines are what the guest asked for but for long relative intervals; the
\* performance counter stays in its second (sync.c, time.c); the dates of the
\* calendar follow each other (timefields.c).
TimesAreRight ==
  /\ DeadlineIsRight /\ CounterStaysInSecond
  /\ TomorrowFollows /\ DatesExist
=============================================================================
