------------------------------ MODULE Strings ------------------------------
(***************************************************************************)
(* The counted strings of libs/ntdll/rtl.c: how long their buffers are,    *)
(* what Length and MaximumLength say, in numbers of a USHORT, and how far  *)
(* a conversion writes.  Characters are counted, not kept.                 *)
(***************************************************************************)
EXTENDS Integers

CONSTANTS
  UshortModulus,     \* 65536 in the program
  TextLengths        \* bound: lengths of the texts of the guest

\* The number of values of a USHORT is even.
ASSUME StringsAssumption ==
  /\ UshortModulus \in Nat \ {0} /\ UshortModulus % 2 = 0
  /\ TextLengths \subseteq Nat

VARIABLES
  ansi,      \* an ANSI_STRING
  wide,      \* a UNICODE_STRING
  upper,     \* the UNICODE_STRING that RtlUpcaseUnicodeString fills
  conversion \* history: the last conversion

stringVars == <<ansi, wide, upper, conversion>>

WcharSize == 2
Ushort(n) == n % UshortModulus

\* bytes: the size of the buffer, of the heap or of the guest; chars: the length
\* of the text it stands for.
NoString == [bytes |-> 0, heap |-> FALSE, len |-> 0, max |-> 0, chars |-> 0]

NoCall == [wrote |-> 0, room |-> 0, allocated |-> FALSE, source |-> NoString, unit |-> 1]

StringsInit == ansi = NoString /\ wide = NoString /\ upper = NoString /\ conversion = NoCall

\* A conversion from source wrote so many bytes to a buffer of room bytes.
Converted(source, unit, wrote, room, allocated) ==
  conversion' = [wrote |-> wrote, room |-> room, allocated |-> allocated,
                 source |-> source, unit |-> unit]

-----------------------------------------------------------------------------
(* Services.                                                               *)

InitUnicodeString(n) ==
  /\ wide' = [bytes |-> (n + 1) * WcharSize, heap |-> FALSE, chars |-> n,
              len |-> Ushort(n * WcharSize),
              max |-> Ushort(Ushort(n * WcharSize) + WcharSize)]
  /\ conversion' = NoCall /\ UNCHANGED <<ansi, upper>>

AnsiText(n) ==
  [bytes |-> n + 1, heap |-> FALSE, chars |-> n, len |-> Ushort(n), max |-> Ushort(Ushort(n) + 1)]

InitAnsiString(n) ==
  ansi' = AnsiText(n) /\ conversion' = NoCall /\ UNCHANGED <<wide, upper>>

\* RtlInitAnsiStringEx, STATUS_NAME_TOO_LONG where the other truncates.
InitAnsiStringEx(n) == n + 1 < UshortModulus /\ InitAnsiString(n)

AnsiRoom(source) == source.max \div WcharSize

\* RtlUnicodeStringToAnsiString: the terminator is written behind the text,
\* and the buffer of the guest is not measured.
UnicodeStringToAnsiString(source, allocate) ==
  LET len == source.len \div WcharSize
      room == IF allocate THEN AnsiRoom(source) ELSE ansi.bytes
  IN  /\ ansi' = [bytes |-> room, heap |-> allocate \/ ansi.heap, len |-> len,
                  max |-> source.max \div WcharSize, chars |-> source.chars]
      /\ Converted(source, WcharSize, len + 1, room, allocate)
      /\ UNCHANGED <<wide, upper>>

\* RtlAnsiStringToUnicodeString, of a given string.
ToUnicode(source, allocate) ==
  LET max == Ushort(source.max * WcharSize)
      room == IF allocate THEN max ELSE wide.bytes
  IN  /\ wide' = [bytes |-> room, heap |-> allocate \/ wide.heap, max |-> max,
                  len |-> Ushort(source.len * WcharSize), chars |-> source.chars]
      /\ Converted(source, 1, (source.len + 1) * WcharSize, room, allocate)

AnsiStringToUnicodeString(allocate) == ToUnicode(ansi, allocate) /\ UNCHANGED <<ansi, upper>>

CreateUnicodeStringFromAsciiz(n) == ToUnicode(AnsiText(n), TRUE) /\ UNCHANGED <<ansi, upper>>

\* The only one that looks at MaximumLength of its destination, and that
\* writes no terminator.
UpcaseUnicodeString(allocate) ==
  /\ allocate \/ wide.len <= upper.max
  /\ upper' = [bytes |-> IF allocate THEN wide.len ELSE upper.bytes, len |-> wide.len,
               max |-> IF allocate THEN wide.len ELSE upper.max,
               heap |-> allocate \/ upper.heap, chars |-> wide.chars]
  /\ Converted(wide, WcharSize, wide.len, upper'.bytes, allocate)
  /\ UNCHANGED <<ansi, wide>>

\* RtlFreeAnsiString, RtlFreeUnicodeString: memset to zero, so that a second
\* call does nothing.
FreeAnsiString ==
  ansi.heap /\ ansi' = NoString /\ conversion' = NoCall /\ UNCHANGED <<wide, upper>>
FreeUnicodeString ==
  /\ conversion' = NoCall /\ UNCHANGED ansi
  /\ \/ wide.heap /\ wide' = NoString /\ UNCHANGED upper
     \/ upper.heap /\ upper' = NoString /\ UNCHANGED wide

StringsNext ==
  \/ \E n \in TextLengths :
       \/ InitUnicodeString(n)
       \/ InitAnsiString(n)
       \/ InitAnsiStringEx(n)
       \/ CreateUnicodeStringFromAsciiz(n)
  \/ \E allocate \in BOOLEAN :
       \/ AnsiStringToUnicodeString(allocate)
       \/ UpcaseUnicodeString(allocate)
       \/ \E source \in {wide, upper} : UnicodeStringToAnsiString(source, allocate)
  \/ FreeAnsiString
  \/ FreeUnicodeString

StringsSpec == StringsInit /\ [][StringsNext]_stringVars

-----------------------------------------------------------------------------
(* Properties.                                                             *)

\* The text with its terminator is shorter than a USHORT tells.
IsShort(chars) == (chars + 1) * WcharSize < UshortModulus

\* A conversion into a buffer of its own stays inside, over every chain of
\* conversions, if the text is short and its string has room for a terminator.
\* RtlUpcaseUnicodeString returns strings that have none: to convert these
\* writes one character behind the buffer.
OwnBufferSuffices ==
  conversion.allocated /\ conversion.wrote > conversion.room =>
    ~IsShort(conversion.source.chars) \/ conversion.source.max = conversion.source.len

\* The lengths are those of the text as long as it is short, whatever it was
\* converted from (Length is in bytes, the loops run in characters).
LengthsAreOfText ==
  /\ IsShort(ansi.chars) => ansi.len = ansi.chars
  /\ \A s \in {wide, upper} : IsShort(s.chars) => s.len = s.chars * WcharSize
  /\ \A s \in {ansi, wide, upper} : s.heap /\ IsShort(s.chars) => s.len <= s.max
=============================================================================
