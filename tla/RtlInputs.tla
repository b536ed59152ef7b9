----------------------------- MODULE RtlInputs -----------------------------
(* What the guest passes to the services of RtlMC. *)
EXTENDS Integers, Sequences

\* An ACE of the base revision, one of a later revision, and the latter behind
\* the former.
AceListsToAdd ==
  { <<[type |-> "allowed", size |-> 28]>>, <<[type |-> "compound", size |-> 24]>>,
    <<[type |-> "allowed", size |-> 16], [type |-> "compound", size |-> 20]>> }

-----------------------------------------------------------------------------
(* Files of two cells of headers, two of .text and eight of .idata.        *)

NullCell == [kind |-> "null"]
Thunk(name) == [kind |-> "thunk", name |-> name]
ImportCell(dll, names, addrs) == [kind |-> "import", dll |-> dll, names |-> names, addrs |-> addrs]
CellsOf(names, addrs, second, last) ==
  << [kind |-> "header"], [kind |-> "header"], [kind |-> "code"], [kind |-> "code"],
     ImportCell("ntdll", names, addrs), second, NullCell,
     Thunk("f"), Thunk("g"), last, Thunk("f"), NullCell >>

\* Headers that end before the sections or reach over them; an image with and
\* without an address of its own; with and without a gap before .text; address
\* tables over, beside and out of reach of the name tables, or none; name
\* tables that end, and run into each other; an import directory that is cut
\* short; sections that are larger and smaller in the file, or reach behind its
\* end.
GoodFiles ==
  { [ defect |-> FALSE, peoff |-> 1, hdrsize |-> hdrsize, base |-> base,
      dir |-> textAt + 2, dirsize |-> dirsize,
      cells |-> CellsOf(textAt + 5, textAt + addrs, second, last),
      sections |->
        << [va |-> textAt, vsize |-> 2, raw |-> 2, rsize |-> 2, prot |-> {"r", "x"}],
           [va |-> textAt + 2, vsize |-> vsize, raw |-> 4, rsize |-> rsize,
            prot |-> {"r", "w"}] >> ] :
    hdrsize \in {1, 5}, base \in {0, 20}, textAt \in {2, 4}, dirsize \in {1, 3},
    addrs \in {5, 6, 30}, vsize \in {6, 7, 12}, rsize \in {8, 9},
    second \in {NullCell, ImportCell("bcd", 0, 12), ImportCell("bcd", 10, 13)},
    last \in {NullCell, Thunk("f")} }

\* With a section that is not in the file, of which the linker gave the place or not.
EmptySection(raw) == [va |-> 16, vsize |-> 2, raw |-> raw, rsize |-> 0, prot |-> {"r", "w"}]

AnyFile == CHOOSE f \in GoodFiles : f.base = 20 /\ f.sections[2].vsize = 12

\* With a defect, and with a slot in the headers.
ExecutableFiles ==
  GoodFiles \cup {[AnyFile EXCEPT !.defect = TRUE], [AnyFile EXCEPT !.cells[5].addrs = 1]}
        \cup {[AnyFile EXCEPT !.sections = Append(@, EmptySection(raw))] : raw \in {0, 2}}

ExportTable == <<[dll |-> "ntdll", name |-> "g"], [dll |-> "bcd", name |-> "f"]>>

-----------------------------------------------------------------------------
(* Registry and clock.                                                     *)

ValueTable ==
  << [path |-> <<"nt", "root">>, len |-> 2], [path |-> <<"setup", "root">>, len |-> 4],
     [path |-> <<"setup", "boot">>, len |-> 3] >>

ValueHeaders == [full |-> 3, partial |-> 2]

QueryTablesUsed ==
  UNION {[1 .. n -> [name : {"root", "boot"}, direct : BOOLEAN, room : {3}]] : n \in 1 .. 2}

\* Relative intervals around a tick, a microsecond, a second and the width of
\* the numbers; absolute times around the epoch, the clock and its bound.
WaitIntervals ==
  { -512, -200, -129, -128, -127, -64, -31, -9, -8, -7, -3, -1, 0, 1, 16, 30,
    40, 41, 42, 43, 47, 48, 60, 100, 144, 158, 170, 500 }

-----------------------------------------------------------------------------
(* Messages.                                                               *)

Data(id, named) == [id |-> id, named |-> named, isDir |-> FALSE, dir |-> <<>>]
Dir(id, named, entries) == [id |-> id, named |-> named, isDir |-> TRUE, dir |-> entries]

\* Tables in two languages, one of them under a name or out of the way; a
\* directory of the type before or behind another, named like it, or empty.
MessageTrees ==
  LET leaves == {<<Data(1033, FALSE), Data(7, FALSE)>>, <<Data(7, FALSE), Data(1033, FALSE)>>,
                 <<Dir(7, FALSE, <<>>), Data(1033, TRUE)>>, <<>>}
      names == {<<Dir(1, FALSE, leaf)>> : leaf \in leaves}
                 \cup {<<Dir(2, FALSE, <<>>), Dir(1, FALSE, leaf)>> : leaf \in leaves}
                 \cup {<<Dir(2, FALSE, <<>>)>>, <<>>}
      other == {Dir(11, TRUE, <<>>), Dir(5, FALSE, <<>>), Data(11, FALSE)}
  IN  {<<Dir(11, FALSE, dir)>> : dir \in names}
        \cup {<<o, Dir(11, FALSE, dir)>> : o \in other, dir \in names} \cup {<<o>> : o \in other}

\* Two blocks with a gap, the second of which begins behind the first.
MessageTables ==
  {<<>>, <<[low |-> 1, high |-> 2, first |-> 10], [low |-> 4, high |-> 5, first |-> 12]>>}

Plain(text, means) == [text |-> text, means |-> means, arg |-> 0]
Parameter(text, arg) == [text |-> text, means |-> <<>>, arg |-> arg]

MessageItems ==
  { Plain(<<"a">>, <<"a">>), Plain(<<"2">>, <<"2">>), Plain(<<"!">>, <<"!">>),
    Plain(<<"%">>, <<>>), Plain(<<"%", "n">>, <<"newline">>),
    Plain(<<"%", "%">>, <<"%">>), Plain(<<"%", "0">>, <<>>),
    Parameter(<<"%", "1">>, 1), Parameter(<<"%", "2">>, 2), Parameter(<<"%", "3">>, 3),
    Parameter(<<"%", "1", "2">>, 12), Parameter(<<"%", "1", "!", "a", "!">>, 1) }

MessageTexts == UNION {[1 .. n -> MessageItems] : n \in 0 .. 3}

-----------------------------------------------------------------------------
(* Command lines.                                                          *)

ProgramNames == {<<"p">>, <<"p", "q">>}
DeviceTexts == {<<"d", "1">>}
VolumePrefix == <<"V", "{">>
ArgumentTexts == DeviceTexts \cup {<<>>, <<"a">>, [k \in 1 .. 13 |-> "x"]}

\* nloader is given nothing.
NoArguments == [name |-> <<"p">>, named |-> FALSE, args |-> <<>>]
=============================================================================
