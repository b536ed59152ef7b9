------------------------------ MODULE Messages ------------------------------
(***************************************************************************)
(* RtlFindMessage and RtlFormatMessage of libs/ntdll/rtl.c: the walk       *)
(* through the resource directories down to a message, and the expansion   *)
(* of its inserts, one turn of the loop at a time.                         *)
(***************************************************************************)
EXTENDS Integers, Sequences, SequencesExt

CONSTANTS
  Trees,      \* bound: resource directories of type, name and language
  Tables,     \* bound: message tables, sequences of blocks
  Wanted,     \* bound: message numbers
  Type,       \* the type of message tables
  AnyLang,    \* language 0
  Langs,
  Texts       \* bound: messages as sequences of items, [text, means, arg]

VARIABLES
  pc,
  ask,       \* the arguments: the tree, the table, the number and the language
  dir,       \* the directory at which the walk is, a sequence of entries
  level,
  index,
  message,   \* the message that is expanded, as items
  asArray,   \* ArgumentIsArray
  msg,       \* the place of the next character, from 1; Len + 1 is that of the NUL
  taken,     \* the arguments that were taken from the ms_va_list
  buffer     \* what was expanded

messageVars == <<pc, ask, dir, level, index, message, asArray, msg, taken, buffer>>

Name == 1

-----------------------------------------------------------------------------
(* The walk.                                                               *)

\* An entry has an id or a name, and leads to a directory or to data.
IsDirectory(entry) == ~entry.named /\ entry.isDir

Descends(entry) ==
  /\ IsDirectory(entry)
  /\ \/ level = 1 /\ entry.id = Type
     \/ level = 2 /\ entry.id = Name

IsLeaf(entry) ==
  ~IsDirectory(entry) /\ level = 3 /\ (ask.lang = AnyLang \/ entry.id = ask.lang)

Walk ==
  /\ pc = "walk"
  /\ LET entry == dir[index]
     IN  IF Descends(entry)
         THEN /\ dir' = entry.dir /\ index' = 1 /\ level' = level + 1
              /\ pc' = IF entry.dir = <<>> THEN "not found" ELSE "walk"
         ELSE /\ index' = index + 1 /\ UNCHANGED <<dir, level>>
              /\ pc' = IF IsLeaf(entry) THEN "blocks"
                       ELSE IF index < Len(dir) THEN "walk" ELSE "not found"
  /\ UNCHANGED <<ask, message, asArray, msg, taken, buffer>>

MatchingBlocks == {b \in DOMAIN ask.table : ask.id >= ask.table[b].low /\ ask.id <= ask.table[b].high}

\* The first block that holds the number, and there the entry as far behind the
\* first one as the number is behind LowId.
FindInBlocks ==
  /\ pc = "blocks"
  /\ IF MatchingBlocks = {}
     THEN pc' = "not found" /\ UNCHANGED index
     ELSE LET b == CHOOSE b \in MatchingBlocks : \A c \in MatchingBlocks : b <= c
          IN  pc' = "found" /\ index' = ask.table[b].first + (ask.id - ask.table[b].low)
  /\ UNCHANGED <<ask, dir, level, message, asArray, msg, taken, buffer>>

-----------------------------------------------------------------------------
(* The expansion.                                                          *)

Chars == FlattenSeq([k \in DOMAIN message |-> message[k].text])

Nul == "NUL"

\* What is expanded: a character, or an argument of the caller.
Char(c) == [char |-> c, arg |-> 0]
Arg(no) == [char |-> Nul, arg |-> no]

At(p) == IF p <= Len(Chars) THEN Chars[p] ELSE Nul

Escapes == [r |-> "return", n |-> "newline", t |-> "tab", b |-> " "]
DigitValue == [c \in {"0", "1", "2", "3"} |->
                 CASE c = "0" -> 0 [] c = "1" -> 1 [] c = "2" -> 2 [] c = "3" -> 3]
IsDigit(c) == c \in DOMAIN DigitValue

\* Faulty variant: the closing "!" is left to be copied.
SkipSpecOpen(p) ==
  LET closing == {q \in p + 1 .. Len(Chars) : Chars[q] = "!"}
  IN  IF At(p) # "!" THEN p
      ELSE IF closing = {} THEN Len(Chars) + 1
      ELSE CHOOSE q \in closing : \A r \in closing : q <= r

\* Behind the "!...!" that may follow an insert.
SkipSpec(p) ==
  LET closing == {q \in p + 1 .. Len(Chars) : Chars[q] = "!"}
  IN  IF At(p) # "!" THEN p
      ELSE IF closing = {} THEN Len(Chars) + 1
      ELSE 1 + CHOOSE q \in closing : \A r \in closing : q <= r

\* get_arg, with no from 0: of an array the slot, of a list the last of the
\* arguments that it takes.
Taken(no) == IF no <= 1 THEN 1 ELSE no

GetArg(no) == IF asArray THEN no + 1 ELSE taken + Taken(no)

Insert(digit) ==
  LET two == IsDigit(At(msg + 2))
      number == IF two THEN DigitValue[digit] * 10 + DigitValue[At(msg + 2)]
                ELSE DigitValue[digit]
  IN  /\ buffer' = Append(buffer, Arg(GetArg(number - 1)))
      /\ taken' = IF asArray THEN taken ELSE taken + Taken(number - 1)
      /\ msg' = SkipSpec(msg + IF two THEN 3 ELSE 2)
      /\ UNCHANGED pc

\* After the escape character: %0 ends the text, the others stand for one
\* character, an unknown one for none, as does the NUL.
Escape(c) ==
  \/ c = "0" /\ pc' = "done" /\ UNCHANGED <<msg, taken, buffer>>
  \/ IsDigit(c) /\ c # "0" /\ Insert(c)
  \/ /\ ~IsDigit(c)
     /\ msg' = msg + 2
     /\ buffer' = IF c = "%" THEN Append(buffer, Char(c))
                  ELSE IF c \in DOMAIN Escapes THEN Append(buffer, Char(Escapes[c])) ELSE buffer
     /\ UNCHANGED <<pc, taken>>

Expand ==
  /\ pc = "expand"
  /\ LET c == At(msg)
     IN  IF msg > Len(Chars) + 1 THEN pc' = "beyond" /\ UNCHANGED <<msg, taken, buffer>>
         ELSE IF c = Nul THEN pc' = "done" /\ UNCHANGED <<msg, taken, buffer>>
         ELSE IF c # "%" THEN /\ buffer' = Append(buffer, Char(c)) /\ msg' = msg + 1
                              /\ UNCHANGED <<pc, taken>>
         ELSE Escape(At(msg + 1))
  /\ UNCHANGED <<ask, dir, level, index, message, asArray>>

-----------------------------------------------------------------------------
(* Calls.                                                                  *)

NoAsk == [tree |-> <<>>]

MessagesInit ==
  /\ msg = 1 /\ taken = 0 /\ buffer = <<>> /\ level = 1 /\ index = 1
  /\ \/ /\ pc = "walk" /\ message = <<>> /\ asArray = FALSE
        /\ ask \in [tree : Trees, table : Tables, id : Wanted, lang : Langs \cup {AnyLang}]
        /\ dir = ask.tree
     \/ /\ pc = "expand" /\ ask = NoAsk /\ dir = <<>>
        /\ message \in Texts /\ asArray \in BOOLEAN

MessagesNext == Walk \/ FindInBlocks \/ Expand

MessagesSpec == MessagesInit /\ [][MessagesNext]_messageVars

-----------------------------------------------------------------------------
(* Properties.                                                             *)

IsInsert(item) == item.arg # 0

EndsAt(k) == message[k].text = <<"%", "0">>

\* The items of the message are told apart by what the code looks at: a second
\* digit belongs to an insert, and so does a "!" behind it.
IsClear ==
  \A k \in 1 .. Len(message) :
    LET item == message[k]
        next == IF k < Len(message) THEN message[k + 1].text[1] ELSE Nul
    IN  /\ item.text = <<"%">> => next = Nul
        /\ IsInsert(item) /\ Last(item.text) # "!" => next # "!"
        /\ IsInsert(item) /\ Len(item.text) = 2 => ~IsDigit(next)

Shown ==
  LET ends == {k \in DOMAIN message : EndsAt(k)}
  IN  IF ends = {} THEN message ELSE SubSeq(message, 1, Min(ends) - 1)

Meaning ==
  FlattenSeq([k \in DOMAIN Shown |->
                IF IsInsert(Shown[k]) THEN <<Arg(Shown[k].arg)>>
                ELSE [c \in DOMAIN Shown[k].means |-> Char(Shown[k].means[c])]])

Inserts == SelectSeq(Shown, IsInsert)

\* A message becomes what its items mean, whatever their order, if the
\* arguments are an array; of a list they are the right ones only of messages
\* with %1 alone or %1 and one other insert (RtlFormatMessage, get_arg).
ExpandedAsMeant ==
  pc \in {"done", "beyond"} /\ IsClear =>
    (buffer = Meaning) =
      \/ asArray
      \/ Inserts = <<>>
      \/ Inserts[1].arg = 1 /\ Len(Inserts) <= 2 /\ (Len(Inserts) = 2 => Inserts[2].arg # 1)

\* The NUL of a message is passed only by a message that ends in a lone "%".
ReadsToNul ==
  pc = "beyond" => Last(Chars) = "%" /\ (IsClear => Last(message).text = <<"%">>)

\* The leaves to which the directories lead, by type, name and language.
LeavesAsked ==
  LET below(entries, id) ==
        UNION {ToSet(e.dir) : e \in {x \in entries : IsDirectory(x) /\ x.id = id}}
  IN  {e \in below(below(ToSet(ask.tree), Type), Name) :
         ~IsDirectory(e) /\ (ask.lang = AnyLang \/ e.id = ask.lang)}

\* A message is found if its number is in a block of a table that the tree
\* leads to, wherever among others the entries stand (RtlFindMessage).
FoundIfThere ==
  /\ pc = "not found" => LeavesAsked = {} \/ MatchingBlocks = {}
  /\ pc = "found" =>
       /\ LeavesAsked # {}
       /\ \E b \in DOMAIN ask.table :
            /\ ask.id \in ask.table[b].low .. ask.table[b].high
            /\ index - ask.table[b].first = ask.id - ask.table[b].low
=============================================================================
