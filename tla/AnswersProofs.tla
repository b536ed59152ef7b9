--------------------------- MODULE AnswersProofs ---------------------------
(***************************************************************************)
(* Proofs about the services of module Answers: device control for disks   *)
(* of any size, the registry for any table of values, counted strings for  *)
(* texts of any length, command lines of any arguments, deadlines for      *)
(* numbers of any width, and the dates of all days from January 1, 1601.   *)
(***************************************************************************)
EXTENDS Answers, FiniteSetTheorems, SequenceTheorems, TLAPS

-----------------------------------------------------------------------------
(* Division, the remainder, and the least of a set of numbers.             *)

\* What the division of C is for numbers that are not negative.
LEMMA Division ==
  ASSUME NEW a \in Int, NEW b \in Nat \ {0}
  PROVE  /\ a \div b \in Int /\ a % b \in 0 .. b - 1
         /\ a = b * (a \div b) + (a % b)
<1>1. b \in Int /\ b > 0 OBVIOUS
<1>2. a % b \in 0 .. b - 1 BY <1>1
<1>3. a = b * (a \div b) + (a % b) BY <1>1
<1>4. a \div b \in Int BY <1>1
<1>5. QED BY <1>2, <1>3, <1>4

\* Quotient and remainder are the only ones.
LEMMA DivisionIsOne ==
  ASSUME NEW b \in Nat \ {0}, NEW q \in Int, NEW r \in 0 .. b - 1
  PROVE  (b * q + r) \div b = q /\ (b * q + r) % b = r
<1>1. PICK a \in Int : a = b * q + r OBVIOUS
<1>2. PICK p \in Int : p = a \div b BY Division
<1>3. PICK s \in 0 .. b - 1 : s = a % b /\ a = b * p + s BY <1>2, Division
<1>4. b * q + r = b * p + s BY <1>1, <1>3
<1>5. b * (q - p) = s - r BY <1>4
<1>6. q = p
  <2>1. ASSUME q > p PROVE FALSE
    <3>1. b * (q - p) >= b BY <2>1
    <3>2. QED BY <3>1, <1>5
  <2>2. ASSUME q < p PROVE FALSE
    <3>1. b * (q - p) <= -b BY <2>2
    <3>2. QED BY <3>1, <1>5
  <2>3. QED BY <2>1, <2>2
<1>7. r = s BY <1>5, <1>6
<1>8. QED BY <1>1, <1>2, <1>3, <1>6, <1>7

\* A set of numbers has a least one: the first entry of a table that a loop finds.
LEMMA LeastNumber ==
  ASSUME NEW S \in SUBSET Nat, S # {}
  PROVE  Min(S) \in S /\ \A x \in S : Min(S) <= x
<1>1. PICK n \in S : TRUE OBVIOUS
<1>2. IsFiniteSet(0 .. n) BY FS_Interval
<1> DEFINE V == 0 .. n
           F == {0 .. x : x \in S \cap V}
<1>3. F \in SUBSET SUBSET V /\ F # {}
  <2>1. n \in S \cap V BY <1>1
  <2>2. QED BY <2>1
<1>4. FiniteSubsetsOf(V) = SUBSET V BY <1>2, FS_FiniteSubsetsOfFinite
<1>5. IsWellFoundedOn(StrictSubsetOrdering(V), SUBSET V)
  BY <1>4, FS_StrictSubsetOrderingWellFounded
<1>6. PICK A \in F : \A B \in F : <<B, A>> \notin StrictSubsetOrdering(V)
  BY <1>3, <1>5, WFMin
<1>7. PICK m \in S \cap V : A = 0 .. m BY <1>6
<1>8. ASSUME NEW x \in S, x < m PROVE FALSE
  <2>1. x \in V BY <1>7, <1>8
  <2>2. 0 .. x \in F BY <2>1
  <2>3. 0 .. x \in SUBSET V /\ 0 .. m \in SUBSET V BY <2>1, <1>7
  <2>4. 0 .. x \subseteq 0 .. m /\ 0 .. x # 0 .. m
    <3>1. m \in 0 .. m /\ m \notin 0 .. x BY <1>7, <1>8
    <3>2. QED BY <3>1, <1>7, <1>8
  <2>5. <<0 .. x, 0 .. m>> \in StrictSubsetOrdering(V) BY <2>3, <2>4 DEF StrictSubsetOrdering
  <2>6. QED BY <1>6, <1>7, <2>2, <2>5
<1>9. m \in S /\ \A x \in S : m <= x BY <1>7, <1>8
<1>10. QED BY <1>9 DEF Min

-----------------------------------------------------------------------------
(* Device control.                                                         *)

\* A reply is either silence, or all that the code writes for its question.
ReplyFits ==
  \/ /\ reply.written = 0 /\ reply.length = 0 /\ reply.facts = NoFacts
     /\ iosb.status = "success" => reply.code \in Settings \cup Orders
  \/ /\ reply.code \in FileQuestions \cup DiskQuestions
     /\ reply.length \in Nat /\ reply.length >= Needed(reply.code)
     /\ reply.written = Written(reply.code) /\ reply.facts = Facts(reply.code)
     /\ iosb.status = "success" =>
          /\ iosb.information = Needed(reply.code)
          /\ reply.code = "geometry" => ~DiskTooSmall

Statuses == {"none", "success", "too_small", "invalid", "invalid_request", "not_implemented",
             "abort"}

DevicesFit ==
  /\ disk \in DiskSizes
  /\ iosb \in [status : Statuses, information : Int]
  /\ ReplyFits

\* Every question is answered so (NtDeviceIoControlFile, NtFsControlFile and the
\* information classes).
LEMMA DevicesStep ==
  ASSUME DevicesFit, [DeviceNext]_deviceVars
  PROVE  DevicesFit'
<1>1. CASE UNCHANGED deviceVars
  BY <1>1 DEF deviceVars, DevicesFit, ReplyFits, Facts, Geometry, Partition, DiskTooSmall
<1>2. ASSUME NEW code \in Codes, NEW length \in Lengths, TooShort(code, length)
      PROVE  DevicesFit'
  BY <1>2 DEF TooShort, DevicesFit, ReplyFits, Silence, Statuses
<1>3. ASSUME NEW code \in Codes, NEW length \in Lengths, AnswerFully(code, length)
      PROVE  DevicesFit'
  <2>1. length \in Nat /\ Needed(code) \in Int
    BY DevicesAssumption DEF Needed, SizeOf, Entry, LayoutHead
  <2>2. length >= Needed(code) BY <1>3, <2>1 DEF AnswerFully, Short
  <2>3. disk' = disk /\ Facts(code)' = Facts(code) /\ DiskTooSmall' = DiskTooSmall
    BY <1>3 DEF AnswerFully, Facts, Geometry, Partition, DiskTooSmall
  <2>4. iosb' \in [status : Statuses, information : Int]
    BY <1>3, <2>1 DEF AnswerFully, DevicesFit, Statuses
  <2>5. /\ reply'.code = code /\ reply'.length = length
        /\ reply'.written = Written(code) /\ reply'.facts = Facts(code)
    BY <1>3 DEF AnswerFully
  <2>6. iosb'.status = "success" =>
          iosb'.information = Needed(code) /\ (code = "geometry" => ~DiskTooSmall)
    BY <1>3 DEF AnswerFully, DevicesFit
  <2>7. code \in FileQuestions \cup DiskQuestions BY <1>3 DEF AnswerFully
  <2>8. disk' \in DiskSizes BY <2>3 DEF DevicesFit
  <2>9. ReplyFits'
    <3>1. Facts(reply.code)' = Facts(code) BY <2>3, <2>5 DEF Facts, Partition, Geometry
    <3>2. QED BY <2>1, <2>2, <2>3, <2>5, <2>6, <2>7, <3>1 DEF ReplyFits
  <2>10. QED BY <2>4, <2>8, <2>9 DEF DevicesFit
<1>4. ASSUME NEW code \in Codes, NEW length \in Lengths, Accept(code, length)
      PROVE  DevicesFit'
  BY <1>4 DEF Accept, DevicesFit, ReplyFits, Silence, Statuses
<1>5. ASSUME NEW code \in Codes, NEW length \in Lengths, Refuse(code, length)
      PROVE  DevicesFit'
  BY <1>5 DEF Refuse, DevicesFit, ReplyFits, Silence, Statuses
<1>6. QED BY <1>1, <1>2, <1>3, <1>4, <1>5 DEF DeviceNext

\* What a reply says of sizes and disks follows (ioctl.c).
LEMMA RepliesAgree ==
  ASSUME DevicesFit
  PROVE  DiskAnswersAgree
<1>1. disk \in Nat /\ Cylinder \in Nat \ {0} /\ Track \in Nat
  BY DevicesAssumption DEF DevicesFit
<1>2. CASE /\ reply.written = 0 /\ reply.length = 0 /\ reply.facts = NoFacts
           /\ iosb.status = "success" => reply.code \in Settings \cup Orders
  BY <1>2 DEF DiskAnswersAgree, OnlyLayoutsOverrun, PartitionIsRight, GeometryCoversDisk,
     NoFacts, Unset, Settings, Orders
<1>3. CASE /\ reply.code \in FileQuestions \cup DiskQuestions
           /\ reply.length \in Nat /\ reply.length >= Needed(reply.code)
           /\ reply.written = Written(reply.code) /\ reply.facts = Facts(reply.code)
           /\ iosb.status = "success" =>
                /\ iosb.information = Needed(reply.code)
                /\ reply.code = "geometry" => ~DiskTooSmall
  <2>1. OnlyLayoutsOverrun
    <3>1. reply.code \notin {"layout", "layout_ex"} => Written(reply.code) = Needed(reply.code)
      BY <1>3 DEF Written, Needed
    <3>2. Needed(reply.code) \in Int BY DEF Needed, SizeOf, Entry, LayoutHead
    <3>3. QED BY <1>3, <3>1, <3>2 DEF OnlyLayoutsOverrun
  <2>2. disk \div Cylinder \in Int /\ disk % Cylinder \in 0 .. Cylinder - 1
        /\ disk = Cylinder * (disk \div Cylinder) + (disk % Cylinder)
    BY <1>1, Division
  <2>3. PartitionIsRight
    <3>1. Geometry.sector = 1 BY DEF Geometry, NoFacts
    <3>2. Partition.start = Track /\ Partition.length = disk
      BY <1>1, <3>1 DEF Partition, NoFacts, Unset
    <3>3. Geometry.length = Unset BY DEF Geometry, NoFacts
    <3>4. QED BY <1>3, <3>2, <3>3 DEF PartitionIsRight, Facts, NoFacts
  <2>4. GeometryCoversDisk
    <3>1. SUFFICES ASSUME iosb.status = "success", reply.code = "geometry"
                   PROVE  /\ reply.facts.cylinders * Cylinder > disk
                          /\ (reply.facts.cylinders - 1) * Cylinder \in 1 .. disk
      BY DEF GeometryCoversDisk
    <3>2. PICK q \in Int : q = disk \div Cylinder BY <2>2
    <3>3. Geometry.cylinders = 1 + q BY <3>2 DEF Geometry, NoFacts
    <3>4. reply.facts.cylinders = 1 + q /\ q >= 1
      BY <1>3, <3>1, <3>3 DEF Facts, DiskTooSmall
    <3>5. disk < Cylinder * q + Cylinder /\ Cylinder * q <= disk BY <1>1, <2>2, <3>2
    <3>6. (1 + q) * Cylinder = Cylinder * q + Cylinder /\ q * Cylinder = Cylinder * q
      BY <1>1
    <3>7. q * Cylinder >= 1 BY <1>1, <3>4
    <3>8. QED BY <1>1, <3>4, <3>5, <3>6, <3>7
  <2>5. QED BY <2>1, <2>3, <2>4 DEF DiskAnswersAgree
<1>4. QED BY <1>2, <1>3 DEF DevicesFit, ReplyFits

\* For disks and cylinders of any size and any buffers: replies fit but for the
\* layouts, and those about partition, geometry and size agree (ioctl.c).
THEOREM RepliesAgreeAlways == DeviceSpec => []DiskAnswersAgree
<1>1. DeviceInit => DevicesFit
  BY DEF DeviceInit, DevicesFit, ReplyFits, Silence, Unset, Statuses
<1>2. DevicesFit /\ [DeviceNext]_deviceVars => DevicesFit' BY DevicesStep
<1>3. DevicesFit => DiskAnswersAgree BY RepliesAgree
<1>4. QED BY <1>1, <1>2, <1>3, PTL DEF DeviceSpec

-----------------------------------------------------------------------------
(* The registry.                                                           *)

\* RegistryLookup returns the first value with the path, if there is one.
LEMMA LookupFinds ==
  ASSUME NEW path
  PROVE  /\ Lookup(path) # 0 =>
              /\ Lookup(path) \in DOMAIN RegKeys /\ RegKeys[Lookup(path)].path = path
              /\ RegKeys[Lookup(path)].len \in Nat
         /\ Lookup(path) = 0 => \A v \in DOMAIN RegKeys : RegKeys[v].path # path
<1> DEFINE found == {i \in DOMAIN RegKeys : RegKeys[i].path = path}
<1>1. /\ DOMAIN RegKeys = 1 .. Len(RegKeys) /\ Len(RegKeys) \in Nat
      /\ \A i \in DOMAIN RegKeys : RegKeys[i].len \in Nat
  <2> DEFINE Value == [path : Keys \X ValueNames, len : Nat]
  <2>1. RegKeys \in Seq(Value) BY RegistryAssumption
  <2>2. \A v \in Value : v.len \in Nat OBVIOUS
  <2> HIDE DEF Value
  <2>3. DOMAIN RegKeys = 1 .. Len(RegKeys) /\ Len(RegKeys) \in Nat BY <2>1
  <2>4. \A i \in 1 .. Len(RegKeys) : RegKeys[i] \in Value BY <2>1, ElementOfSeq
  <2>5. QED BY <2>2, <2>3, <2>4
<1>2. CASE found = {} BY <1>2 DEF Lookup
<1>3. CASE found # {}
  <2>1. found \in SUBSET Nat BY <1>1
  <2>2. Min(found) \in found BY <1>3, <2>1, LeastNumber
  <2>3. Lookup(path) = Min(found) BY <1>3 DEF Lookup
  <2>4. Min(found) \in DOMAIN RegKeys /\ Min(found) # 0 BY <1>1, <2>2
  <2>5. QED BY <1>1, <2>2, <2>3, <2>4
<1>4. QED BY <1>2, <1>3

\* The loop of RtlQueryRegistryValues stops at the first direct entry whose value
\* exists.
LEMMA AnswersFirst ==
  ASSUME NEW key, NEW table \in QueryTables, Answers(table, key) # 0
  PROVE  LET entry == Answers(table, key)
         IN  /\ entry \in DOMAIN table /\ entry \in Nat
             /\ table[entry].room \in Nat
             /\ Lookup(<<key, table[entry].name>>) # 0
             /\ \A i \in 1 .. entry - 1 :
                  ~table[i].direct \/ Lookup(<<key, table[i].name>>) = 0
<1> DEFINE found == {i \in DOMAIN table : table[i].direct /\ Lookup(<<key, table[i].name>>) # 0}
<1>1. /\ DOMAIN table = 1 .. Len(table) /\ Len(table) \in Nat
      /\ \A i \in DOMAIN table : table[i].room \in Nat
  <2> DEFINE Query == [name : ValueNames, direct : BOOLEAN, room : Nat]
  <2>1. table \in Seq(Query) BY RegistryAssumption
  <2>2. \A q \in Query : q.room \in Nat OBVIOUS
  <2> HIDE DEF Query
  <2>3. DOMAIN table = 1 .. Len(table) /\ Len(table) \in Nat BY <2>1
  <2>4. \A i \in 1 .. Len(table) : table[i] \in Query BY <2>1, ElementOfSeq
  <2>5. QED BY <2>2, <2>3, <2>4
<1>2. found # {} /\ Answers(table, key) = Min(found) BY DEF Answers
<1>3. found \in SUBSET Nat BY <1>1
<1>4. Min(found) \in found /\ \A x \in found : Min(found) <= x BY <1>2, <1>3, LeastNumber
<1>5. PICK e \in found : e = Min(found) BY <1>4
<1>6. ASSUME NEW i \in 1 .. e - 1
      PROVE  ~table[i].direct \/ Lookup(<<key, table[i].name>>) = 0
  <2>1. i \in DOMAIN table /\ ~ (e <= i) BY <1>1, <1>5
  <2>2. i \notin found BY <1>4, <1>5, <2>1
  <2>3. QED BY <2>1, <2>2
<1>7. e \in DOMAIN table /\ e \in Nat BY <1>1, <1>5
<1>8. QED BY <1>1, <1>2, <1>5, <1>6, <1>7

\* The last query did not get more than it had room for, and what was told about a
\* value is what the same question needs now: the table is never changed.
RegistryFits ==
  /\ RepliesFit /\ FirstDirectAnswers
  /\ told.path # <<>> =>
       /\ Lookup(told.path) # 0
       /\ told.length = ResultLength(Lookup(told.path), told.class)
  /\ query.status = "too_small" =>
       /\ query.path # <<>> /\ query.length \in Nat
       /\ query.length < ResultLength(Lookup(query.path), query.class)

\* NtQueryValueKey announces what it compares the buffer with.
LEMMA QueryValueFits ==
  ASSUME RegistryFits, NEW key \in Keys, NEW name \in ValueNames,
         NEW class \in DOMAIN Header \cup {"other"}, NEW length \in BufferLengths,
         QueryValue(key, name, class, length)
  PROVE  RegistryFits'
<1>1. PICK path : path = <<key, name>> /\ path # <<>>
  <2>1. <<key, name>> # <<>> OBVIOUS
  <2>2. QED BY <2>1, Zenon
<1>2. PICK value : value = Lookup(path) OBVIOUS
<1>3. length \in Nat BY RegistryAssumption
<1>4. multi' = NoMulti /\ FirstDirectAnswers' BY DEF QueryValue, FirstDirectAnswers, NoMulti
<1>5. CASE /\ UNCHANGED told
           /\ \E status \in {"not_found", "not_implemented"} : query'.status = status
  BY <1>4, <1>5 DEF RegistryFits, RepliesFit
<1>6. CASE /\ value # 0 /\ class # "other"
           /\ told' = [path |-> path, class |-> class, length |-> ResultLength(value, class)]
           /\ query' = [path |-> path, class |-> class, length |-> length,
                        status |-> IF TooSmall(value, class, length) THEN "too_small" ELSE "success",
                        bytes |-> IF TooSmall(value, class, length) THEN 0 ELSE RegKeys[value].len]
  <2>1. class \in DOMAIN Header /\ Header[class] \in Nat BY <1>6, RegistryAssumption
  <2>2. RegKeys[value].len \in Nat BY <1>2, <1>6, LookupFinds
  <2>3. /\ query'.path = path /\ query'.class = class /\ query'.length = length
        /\ told'.path = path /\ told'.class = class /\ told'.length = ResultLength(value, class)
    BY <1>6
  <2>4. CASE TooSmall(value, class, length)
    <3>1. query'.status = "too_small" BY <1>6, <2>4
    <3>2. length < ResultLength(value, class) BY <2>4 DEF TooSmall, ResultLength
    <3>3. RepliesFit' BY <3>1 DEF RepliesFit
    <3>4. QED BY <1>1, <1>2, <1>3, <1>4, <1>6, <2>3, <3>1, <3>2, <3>3 DEF RegistryFits
  <2>5. CASE ~TooSmall(value, class, length)
    <3>1. query'.status = "success" /\ query'.bytes = RegKeys[value].len BY <1>6, <2>5
    <3>2. RepliesFit' BY <1>3, <2>1, <2>2, <2>3, <2>5, <3>1 DEF RepliesFit, TooSmall
    <3>3. QED BY <1>1, <1>2, <1>4, <1>6, <2>3, <3>1, <3>2 DEF RegistryFits
  <2>6. QED BY <2>4, <2>5
<1>7. QED BY <1>1, <1>2, <1>5, <1>6 DEF QueryValue

\* RtlQueryRegistryValues copies what fits its string.
LEMMA QueryManyFits ==
  ASSUME RegistryFits, NEW key \in Keys, NEW table \in QueryTables, QueryMany(key, table)
  PROVE  RegistryFits'
<1>1. query' = NoQuery /\ told' = told BY DEF QueryMany
<1>2. PICK entry : entry = Answers(table, key) OBVIOUS
<1>3. CASE entry = 0
  <2>1. multi'.entry = 0 BY <1>2, <1>3 DEF QueryMany, NoMulti
  <2>2. FirstDirectAnswers' BY <2>1 DEF FirstDirectAnswers
  <2>3. QED BY <1>1, <2>2 DEF RegistryFits, RepliesFit, NoQuery
<1>4. CASE entry # 0
  <2>1. PICK len : len = RegKeys[Lookup(<<key, table[entry].name>>)].len OBVIOUS
  <2>2. /\ multi'.key = key /\ multi'.table = table /\ multi'.entry = entry
        /\ multi'.bytes = IF table[entry].room < len THEN 0 ELSE len
    BY <1>2, <1>4, <2>1 DEF QueryMany
  <2>3. /\ table[entry].room \in Nat /\ Lookup(<<key, table[entry].name>>) # 0
        /\ \A i \in 1 .. entry - 1 : ~table[i].direct \/ Lookup(<<key, table[i].name>>) = 0
    BY <1>2, <1>4, AnswersFirst
  <2>4. len \in Nat BY <2>1, <2>3, LookupFinds
  <2>5. multi'.bytes <= table[entry].room BY <2>2, <2>3, <2>4
  <2>6. \A i \in 1 .. entry - 1 :
          ~table[i].direct \/ ~\E v \in DOMAIN RegKeys : RegKeys[v].path = <<key, table[i].name>>
    BY <2>3, LookupFinds
  <2>7. FirstDirectAnswers' BY <2>2, <2>5, <2>6 DEF FirstDirectAnswers
  <2>8. QED BY <1>1, <2>7 DEF RegistryFits, RepliesFit, NoQuery
<1>5. QED BY <1>3, <1>4

\* Every call of the registry keeps it so.
LEMMA RegistryStep ==
  ASSUME RegistryFits, [RegistryNext]_registryVars
  PROVE  RegistryFits'
<1>1. CASE UNCHANGED <<query, told, multi>>
  BY <1>1 DEF RegistryFits, RepliesFit, FirstDirectAnswers
<1>2. ASSUME NEW key \in Keys, OpenKey(key) PROVE RegistryFits' BY <1>1, <1>2 DEF OpenKey
<1>3. QED BY <1>1, <1>2, QueryValueFits, QueryManyFits DEF RegistryNext, registryVars

\* The same question asked again with the length that was told is answered.
LEMMA RegistryTells ==
  ASSUME RegistryFits, [RegistryNext]_registryVars
  PROVE  AnnouncedLengthSuffices
<1>1. RegistryFits' BY RegistryStep
<1>2. SUFFICES ASSUME query'.status = "too_small", told.path = query'.path,
                      told.class = query'.class
               PROVE  query'.length < told.length
  BY DEF AnnouncedLengthSuffices
<1>3. /\ query'.path # <<>>
      /\ query'.length < ResultLength(Lookup(query'.path), query'.class)
  BY <1>1, <1>2 DEF RegistryFits, Lookup, ResultLength
<1>4. told.length = ResultLength(Lookup(told.path), told.class) BY <1>2, <1>3 DEF RegistryFits
<1>5. QED BY <1>2, <1>3, <1>4

\* The first state has no query.
LEMMA RegistryStarts == RegistryInit => RegistryFits
BY DEF RegistryInit, RegistryFits, RepliesFit, FirstDirectAnswers, NoQuery, NoMulti

\* For any table of values and any buffers: a length that was announced is enough
\* when the value is asked for again (NtQueryValueKey).
THEOREM AnnouncedLengthsSuffice == RegistrySpec => [][AnnouncedLengthSuffices]_registryVars
<1>1. RegistryInit => RegistryFits BY RegistryStarts
<1>2. RegistryFits /\ [RegistryNext]_registryVars => RegistryFits' BY RegistryStep
<1>3. RegistryFits /\ [RegistryNext]_registryVars => AnnouncedLengthSuffices BY RegistryTells
<1>4. QED BY <1>1, <1>2, <1>3, PTL DEF RegistrySpec

-----------------------------------------------------------------------------
(* Counted strings.                                                        *)

\* What a number becomes in a USHORT.
LEMMA UshortIs ==
  ASSUME NEW n \in Nat
  PROVE  /\ Ushort(n) \in Nat /\ Ushort(n) < UshortModulus
         /\ n < UshortModulus => Ushort(n) = n
         /\ n % 2 = 0 => Ushort(n) % 2 = 0
<1>1. UshortModulus \in Nat \ {0} /\ UshortModulus % 2 = 0 BY StringsAssumption
<1>2. PICK q \in Int, r \in 0 .. UshortModulus - 1 :
        r = n % UshortModulus /\ n = UshortModulus * q + r
  BY <1>1, Division
<1>3. n < UshortModulus => n = UshortModulus * 0 + n /\ n \in 0 .. UshortModulus - 1
  BY <1>1
<1>4. n < UshortModulus => Ushort(n) = n BY <1>1, <1>3, DivisionIsOne DEF Ushort
<1>5. PICK h \in Int : UshortModulus = 2 * h BY <1>1
<1>6. n % 2 = 0 => r % 2 = 0
  <2>1. SUFFICES ASSUME n % 2 = 0 PROVE r % 2 = 0 OBVIOUS
  <2>2. PICK g \in Int : n = 2 * g BY <2>1
  <2>3. PICK p \in Int : p = h * q OBVIOUS
  <2>4. PICK w \in Int : w = UshortModulus * q BY <1>1
  <2>5. w = 2 * p BY <1>5, <2>3, <2>4
  <2>6. n = w + r BY <1>2, <2>4
  <2>7. r = 2 * (g - p) BY <2>2, <2>5, <2>6
  <2>8. QED BY <2>7
<1>7. Ushort(n) = r BY <1>2 DEF Ushort
<1>8. QED BY <1>1, <1>4, <1>6, <1>7

\* An ANSI_STRING: the length is that of the text, in a USHORT also when doubled.
AnsiFits(s) ==
  /\ s.len \in Nat /\ s.max \in Nat /\ s.chars \in Nat
  /\ IsShort(s.chars) => /\ s.len = s.chars /\ s.len <= s.max
                         /\ s.max * WcharSize < UshortModulus

\* A UNICODE_STRING: the length is that of the text in bytes, and both lengths are
\* even, so that what is longer has room for a terminator.
WideFits(s) ==
  /\ s.len \in Nat /\ s.max \in Nat /\ s.chars \in Nat
  /\ s.len < UshortModulus /\ s.max < UshortModulus
  /\ s.len % WcharSize = 0 /\ s.max % WcharSize = 0
  /\ IsShort(s.chars) => s.len = s.chars * WcharSize /\ s.len <= s.max

StringsFit == AnsiFits(ansi) /\ WideFits(wide) /\ WideFits(upper) /\ OwnBufferSuffices

\* Texts of the guest (RtlInitAnsiString, RtlCreateUnicodeStringFromAsciiz).
LEMMA AnsiTextFits ==
  ASSUME NEW n \in TextLengths
  PROVE  AnsiFits(AnsiText(n))
<1>1. n \in Nat /\ UshortModulus \in Nat BY StringsAssumption
<1>2. Ushort(n) \in Nat BY <1>1, UshortIs
<1>3. Ushort(Ushort(n) + 1) \in Nat BY <1>2, UshortIs
<1>4. IsShort(n) => Ushort(n) = n /\ Ushort(Ushort(n) + 1) = n + 1
  <2>1. SUFFICES ASSUME IsShort(n) PROVE Ushort(n) = n /\ Ushort(Ushort(n) + 1) = n + 1
    OBVIOUS
  <2>2. n + 1 \in Nat /\ n < UshortModulus /\ n + 1 < UshortModulus
    BY <1>1, <2>1 DEF IsShort, WcharSize
  <2>3. QED BY <1>1, <2>2, UshortIs
<1>5. QED BY <1>1, <1>2, <1>3, <1>4 DEF AnsiFits, AnsiText, IsShort, WcharSize

\* RtlInitUnicodeString.
LEMMA InitWideFits ==
  ASSUME StringsFit, NEW n \in TextLengths, InitUnicodeString(n)
  PROVE  StringsFit'
<1>1. n \in Nat /\ UshortModulus \in Nat BY StringsAssumption
<1>2. PICK l \in Nat : l = Ushort(n * WcharSize) /\ l % WcharSize = 0 /\ l < UshortModulus
                       /\ (n * WcharSize < UshortModulus => l = n * WcharSize)
  <2>1. n * WcharSize \in Nat /\ (n * WcharSize) % 2 = 0 BY <1>1 DEF WcharSize
  <2>2. QED BY <2>1, UshortIs DEF WcharSize
<1>3. PICK m \in Nat : m = Ushort(l + WcharSize) /\ m % WcharSize = 0 /\ m < UshortModulus
                       /\ (l + WcharSize < UshortModulus => m = l + WcharSize)
  <2>1. l + WcharSize \in Nat /\ (l + WcharSize) % 2 = 0 BY <1>2 DEF WcharSize
  <2>2. QED BY <2>1, UshortIs DEF WcharSize
<1>4. wide'.len = l /\ wide'.max = m /\ wide'.chars = n
  BY <1>2, <1>3 DEF InitUnicodeString
<1>5. WideFits(wide') BY <1>1, <1>2, <1>3, <1>4 DEF WideFits, IsShort, WcharSize
<1>6. UNCHANGED <<ansi, upper>> /\ conversion' = NoCall BY DEF InitUnicodeString
<1>7. QED BY <1>5, <1>6 DEF StringsFit, AnsiFits, WideFits, IsShort, OwnBufferSuffices, NoCall

\* RtlUnicodeStringToAnsiString: half of the lengths, which are even.
LEMMA ToAnsiFits ==
  ASSUME StringsFit, NEW source \in {wide, upper}, NEW allocate \in BOOLEAN,
         UnicodeStringToAnsiString(source, allocate)
  PROVE  StringsFit'
<1>1. WideFits(source) /\ UshortModulus \in Nat BY StringsAssumption DEF StringsFit
<1>2. PICK l \in Nat, m \in Nat : source.len = 2 * l /\ source.max = 2 * m
                                  /\ l = source.len \div WcharSize /\ m = source.max \div WcharSize
  BY <1>1 DEF WideFits, WcharSize
<1>3. ansi'.len = l /\ ansi'.max = m /\ ansi'.chars = source.chars
  BY <1>2 DEF UnicodeStringToAnsiString
<1>4. AnsiFits(ansi') BY <1>1, <1>2, <1>3 DEF AnsiFits, WideFits, IsShort, WcharSize
<1>5. /\ conversion'.wrote = l + 1 /\ conversion'.allocated = allocate
      /\ allocate => conversion'.room = m
      /\ conversion'.source = source
  BY <1>2 DEF UnicodeStringToAnsiString, Converted, AnsiRoom
<1>6. OwnBufferSuffices'
  BY <1>1, <1>2, <1>5 DEF OwnBufferSuffices, WideFits, IsShort, WcharSize
<1>7. UNCHANGED <<wide, upper>> BY DEF UnicodeStringToAnsiString
<1>8. QED BY <1>4, <1>6, <1>7 DEF StringsFit, WideFits, IsShort

\* RtlAnsiStringToUnicodeString: twice the lengths, as far as a USHORT has room.
LEMMA ToUnicodeFits ==
  ASSUME StringsFit, NEW source, AnsiFits(source), NEW allocate \in BOOLEAN,
         ToUnicode(source, allocate), UNCHANGED <<ansi, upper>>
  PROVE  StringsFit'
<1>1. UshortModulus \in Nat /\ source.len \in Nat /\ source.max \in Nat
  BY StringsAssumption DEF AnsiFits
<1>2. PICK l \in Nat : l = Ushort(source.len * WcharSize) /\ l % WcharSize = 0 /\ l < UshortModulus
                       /\ (source.len * WcharSize < UshortModulus => l = source.len * WcharSize)
  <2>1. source.len * WcharSize \in Nat /\ (source.len * WcharSize) % 2 = 0
    BY <1>1 DEF WcharSize
  <2>2. QED BY <2>1, UshortIs DEF WcharSize
<1>3. PICK m \in Nat : m = Ushort(source.max * WcharSize) /\ m % WcharSize = 0 /\ m < UshortModulus
                       /\ (source.max * WcharSize < UshortModulus => m = source.max * WcharSize)
  <2>1. source.max * WcharSize \in Nat /\ (source.max * WcharSize) % 2 = 0
    BY <1>1 DEF WcharSize
  <2>2. QED BY <2>1, UshortIs DEF WcharSize
<1>4. wide'.len = l /\ wide'.max = m /\ wide'.chars = source.chars
  BY <1>2, <1>3 DEF ToUnicode
<1>5. WideFits(wide') BY <1>1, <1>2, <1>3, <1>4 DEF WideFits, AnsiFits, IsShort, WcharSize
<1>6. /\ conversion'.wrote = (source.len + 1) * WcharSize /\ conversion'.allocated = allocate
      /\ allocate => conversion'.room = m
      /\ conversion'.source = source
  BY <1>3 DEF ToUnicode, Converted
<1>7. OwnBufferSuffices'
  BY <1>1, <1>3, <1>6 DEF OwnBufferSuffices, AnsiFits, IsShort, WcharSize
<1>8. QED BY <1>5, <1>7 DEF StringsFit, WideFits, AnsiFits, IsShort

\* RtlUpcaseUnicodeString: a copy of the lengths, in a buffer that may be longer.
LEMMA UpcaseFits ==
  ASSUME StringsFit, NEW allocate \in BOOLEAN, UpcaseUnicodeString(allocate)
  PROVE  StringsFit'
<1>1. WideFits(wide) /\ WideFits(upper) /\ UshortModulus \in Nat
  BY StringsAssumption DEF StringsFit
<1>2. /\ upper'.len = wide.len /\ upper'.chars = wide.chars
      /\ upper'.max = IF allocate THEN wide.len ELSE upper.max
      /\ allocate => upper'.bytes = wide.len
      /\ allocate \/ wide.len <= upper.max
  BY DEF UpcaseUnicodeString
<1>3. WideFits(upper') BY <1>1, <1>2 DEF WideFits, IsShort, WcharSize
<1>4. /\ conversion'.wrote = wide.len /\ conversion'.allocated = allocate
      /\ conversion'.room = upper'.bytes
  BY DEF UpcaseUnicodeString, Converted
<1>5. OwnBufferSuffices' BY <1>1, <1>2, <1>4 DEF OwnBufferSuffices, WideFits
<1>6. UNCHANGED <<ansi, wide>> BY DEF UpcaseUnicodeString
<1>7. QED BY <1>3, <1>5, <1>6 DEF StringsFit, WideFits, AnsiFits, IsShort

\* Every service keeps it so.
LEMMA StringsStep ==
  ASSUME StringsFit, [StringsNext]_stringVars
  PROVE  StringsFit'
<1>1. CASE UNCHANGED stringVars
  BY <1>1 DEF stringVars, StringsFit, WideFits, AnsiFits, IsShort, OwnBufferSuffices
<1>2. AnsiFits(NoString) /\ WideFits(NoString)
  BY StringsAssumption DEF AnsiFits, WideFits, NoString, IsShort, WcharSize
<1>3. ASSUME NEW n \in TextLengths, InitAnsiString(n) PROVE StringsFit'
  <2>1. AnsiFits(ansi') BY <1>3, AnsiTextFits DEF InitAnsiString
  <2>2. QED BY <1>3, <2>1 DEF InitAnsiString, StringsFit, WideFits, IsShort, OwnBufferSuffices, NoCall
<1>4. ASSUME NEW n \in TextLengths, CreateUnicodeStringFromAsciiz(n) PROVE StringsFit'
  BY <1>4, AnsiTextFits, ToUnicodeFits DEF CreateUnicodeStringFromAsciiz
<1>5. ASSUME NEW allocate \in BOOLEAN, AnsiStringToUnicodeString(allocate) PROVE StringsFit'
  BY <1>5, ToUnicodeFits DEF AnsiStringToUnicodeString, StringsFit
<1>6. CASE FreeAnsiString
  BY <1>2, <1>6 DEF FreeAnsiString, StringsFit, AnsiFits, WideFits, IsShort, OwnBufferSuffices, NoCall
<1>7. CASE FreeUnicodeString
  <2>1. CASE wide' = NoString /\ UNCHANGED <<ansi, upper>> /\ conversion' = NoCall
    BY <1>2, <2>1 DEF StringsFit, AnsiFits, WideFits, IsShort, OwnBufferSuffices, NoCall
  <2>2. CASE upper' = NoString /\ UNCHANGED <<ansi, wide>> /\ conversion' = NoCall
    BY <1>2, <2>2 DEF StringsFit, AnsiFits, WideFits, IsShort, OwnBufferSuffices, NoCall
  <2>3. QED BY <1>7, <2>1, <2>2 DEF FreeUnicodeString
<1>8. QED BY <1>1, <1>3, <1>4, <1>5, <1>6, <1>7, InitWideFits, ToAnsiFits, UpcaseFits
          DEF StringsNext, InitAnsiStringEx

\* At first all strings are empty.
LEMMA StringsStart == StringsInit => StringsFit
BY StringsAssumption DEF StringsInit, StringsFit, AnsiFits, WideFits, NoString, IsShort, WcharSize,
   OwnBufferSuffices, NoCall

\* The lengths that are promised follow.
LEMMA StringsHaveLengths == StringsFit => LengthsAreOfText
BY DEF StringsFit, AnsiFits, WideFits, LengthsAreOfText

-----------------------------------------------------------------------------
(* The command line.                                                       *)

\* Induction up to a bound, by the least number that fails.
LEMMA Climb ==
  ASSUME NEW n \in Nat, NEW G,
         \A k \in 0 .. n : (\A j \in 0 .. n : j < k => j \in G) => k \in G
  PROVE  \A k \in 0 .. n : k \in G
<1> DEFINE F == {k \in 0 .. n : k \notin G}
<1>1. SUFFICES ASSUME F # {} PROVE FALSE OBVIOUS
<1>2. F \in SUBSET Nat OBVIOUS
<1>3. PICK m : m = Min(F) OBVIOUS
<1>4. m \in F /\ \A x \in F : m <= x
  <2> HIDE DEF F
  <2>1. QED BY <1>1, <1>2, <1>3, LeastNumber
<1>5. m \in 0 .. n /\ m \notin G BY <1>4
<1>6. \A j \in 0 .. n : j < m => j \in G BY <1>4, <1>5
<1>7. QED BY <1>5, <1>6

\* FlattenSeq appends one sequence after the other.
LEMMA FlattenAppends ==
  ASSUME NEW S, NEW seqs \in Seq(Seq(S))
  PROVE  \E g \in [0 .. Len(seqs) -> Seq(S)] :
           /\ g[0] = <<>>
           /\ \A k \in 1 .. Len(seqs) : g[k] = g[k - 1] \o seqs[k]
           /\ FlattenSeq(seqs) = g[Len(seqs)]
<1> DEFINE n == Len(seqs)
           Joins(k, f) == f = [i \in 1 .. k |-> IF i = 1 THEN seqs[i] ELSE f[i - 1] \o seqs[i]]
<1>1. n \in Nat /\ n \in 0 .. n OBVIOUS
<1>2. \A i \in 1 .. n : seqs[i] \in Seq(S) BY ElementOfSeq
<1>3. \E f : Joins(n, f)
  <2> DEFINE Good == {k \in 0 .. n : \E f : Joins(k, f)}
  <2>1. ASSUME NEW k \in 0 .. n, \A j \in 0 .. n : j < k => j \in Good
        PROVE  k \in Good
    <3>1. CASE k = 0
      <4> DEFINE f == [i \in 1 .. k |-> <<>>]
      <4>1. 1 .. k = {} BY <3>1
      <4>2. Joins(k, f) BY <4>1
      <4>3. QED BY <4>2
    <3>2. CASE k # 0
      <4>1. k - 1 \in 0 .. n /\ k - 1 < k BY <3>2, <1>1
      <4>2. PICK g : Joins(k - 1, g) BY <2>1, <4>1
      <4> DEFINE last == IF k = 1 THEN seqs[k] ELSE g[k - 1] \o seqs[k]
                 f == [i \in 1 .. k |-> IF i = k THEN last ELSE g[i]]
      <4>3. ASSUME NEW i \in 1 .. k
            PROVE  f[i] = IF i = 1 THEN seqs[i] ELSE f[i - 1] \o seqs[i]
        <5>1. i # 1 => i - 1 \in 1 .. k /\ i - 1 # k /\ f[i - 1] = g[i - 1] OBVIOUS
        <5>2. CASE i = k
          <6>1. f[i] = last BY <5>2
          <6> HIDE DEF f
          <6>2. QED BY <5>1, <5>2, <6>1
        <5>3. CASE i # k
          <6>1. i \in 1 .. (k - 1) BY <5>3
          <6>2. g[i] = IF i = 1 THEN seqs[i] ELSE g[i - 1] \o seqs[i] BY <4>2, <6>1
          <6>3. f[i] = g[i] BY <5>3
          <6> HIDE DEF f
          <6>4. QED BY <5>1, <6>2, <6>3
        <5>4. QED BY <5>2, <5>3
      <4>4. f = [i \in 1 .. k |-> f[i]] OBVIOUS
      <4> HIDE DEF f
      <4>5. Joins(k, f) BY <4>3, <4>4
      <4>6. QED BY <4>5
    <3>3. QED BY <3>1, <3>2
  <2>2. \A k \in 0 .. n : k \in Good
    <3> HIDE DEF Good, n
    <3>1. QED BY <1>1, <2>1, Climb
  <2>3. QED BY <1>1, <2>2
<1> DEFINE flat == CHOOSE f : Joins(n, f)
<1>4. FlattenSeq(seqs) = IF n = 0 THEN seqs ELSE flat[n] BY Zenon DEF FlattenSeq
<1>5. Joins(n, flat) BY <1>3
<1> HIDE DEF flat
<1>6. \A i \in 1 .. n : flat[i] = IF i = 1 THEN seqs[i] ELSE flat[i - 1] \o seqs[i] BY <1>5
<1>7. \A k \in 0 .. n : k = 0 \/ flat[k] \in Seq(S)
  <2> DEFINE Typed == {k \in 0 .. n : k = 0 \/ flat[k] \in Seq(S)}
  <2>1. ASSUME NEW k \in 0 .. n, \A j \in 0 .. n : j < k => j \in Typed
        PROVE  k \in Typed
    <3>1. CASE k \in {0, 1} BY <3>1, <1>2, <1>6
    <3>2. CASE k \notin {0, 1}
      <4>1. k - 1 \in 0 .. n /\ k - 1 < k /\ k - 1 # 0 /\ k \in 1 .. n BY <3>2, <1>1
      <4>2. flat[k - 1] \in Seq(S) BY <2>1, <4>1
      <4>3. flat[k] = flat[k - 1] \o seqs[k] BY <1>6, <3>2, <4>1
      <4>4. QED BY <1>2, <4>1, <4>2, <4>3, ConcatProperties
    <3>3. QED BY <3>1, <3>2
  <2>2. \A k \in 0 .. n : k \in Typed
    <3> HIDE DEF Typed, n
    <3>1. QED BY <1>1, <2>1, Climb
  <2>3. QED BY <2>2
<1> DEFINE g == [k \in 0 .. n |-> IF k = 0 THEN <<>> ELSE flat[k]]
<1>8. g \in [0 .. n -> Seq(S)] BY <1>7
<1>9. g[0] = <<>> BY <1>1
<1>10. ASSUME NEW k \in 1 .. n PROVE g[k] = g[k - 1] \o seqs[k]
  <2>1. g[k] = flat[k] /\ k - 1 \in 0 .. n OBVIOUS
  <2>2. CASE k = 1
    <3>1. g[k - 1] = <<>> BY <2>2, <2>1
    <3>2. <<>> \o seqs[k] = seqs[k] BY <1>2, ConcatEmptySeq
    <3> HIDE DEF g
    <3>3. QED BY <1>6, <2>1, <2>2, <3>1, <3>2
  <2>3. CASE k # 1
    <3>1. g[k - 1] = flat[k - 1] BY <2>3, <2>1
    <3> HIDE DEF g
    <3>2. QED BY <1>6, <2>1, <2>3, <3>1
  <2>4. QED BY <2>2, <2>3
<1>11. FlattenSeq(seqs) = g[n]
  <2>1. n = 0 => seqs = <<>> OBVIOUS
  <2>2. QED BY <1>1, <1>4, <2>1
<1> HIDE DEF g
<1>12. QED BY <1>8, <1>9, <1>10, <1>11

\* The characters that can be on a command line.
Letters ==
  {" ", "}", "NUL", "default"} \cup
    UNION {{text[k] : k \in DOMAIN text} : text \in Programs \cup Arguments \cup {Prefix}}

\* What is copied for the k-th argument, and what there is after each of them.
Pieces == [k \in DOMAIN argv.args |-> <<" ">> \o Wrapped(argv.args[k])]

Joined ==
  CHOOSE g \in [0 .. Len(Pieces) -> Seq(Letters)] :
    /\ g[0] = <<>>
    /\ \A k \in 1 .. Len(Pieces) : g[k] = g[k - 1] \o Pieces[k]
    /\ FlattenSeq(Pieces) = g[Len(Pieces)]

\* Names, arguments and the prefix are made of letters.
LEMMA TextsHaveLetters ==
  \A text \in Programs \cup Arguments \cup {Prefix} : text \in Seq(Letters)
<1>1. ASSUME NEW text \in Programs \cup Arguments \cup {Prefix} PROVE text \in Seq(Letters)
  <2>1. PICK S : S = {text[k] : k \in DOMAIN text} OBVIOUS
  <2>2. text \in Seq(S) BY <2>1, CommandAssumption
  <2>3. S \subseteq Letters
    <3> DEFINE Sets == {{t[k] : k \in DOMAIN t} : t \in Programs \cup Arguments \cup {Prefix}}
    <3>1. S \in Sets BY Zenon, <2>1
    <3> HIDE DEF Sets
    <3>2. S \subseteq UNION Sets BY <3>1
    <3> USE DEF Sets
    <3>3. UNION Sets \subseteq Letters BY Zenon DEF Letters
    <3> HIDE DEF Sets
    <3>4. QED BY <3>2, <3>3
  <2>4. QED BY <2>2, <2>3, SeqMonotonic
<1>2. QED BY <1>1

\* One character is a text.
LEMMA OneLetter ==
  ASSUME NEW c \in Letters
  PROVE  <<c>> \in Seq(Letters) /\ Len(<<c>>) = 1
OBVIOUS

\* The pieces of a command line, one after the other.
LEMMA PiecesAreJoined ==
  ASSUME argv.args \in Seq(Arguments)
  PROVE  /\ Len(Pieces) = Len(argv.args)
         /\ \A k \in 1 .. Len(argv.args) :
              argv.args[k] \in Seq(Letters) /\ Pieces[k] = <<" ">> \o Wrapped(argv.args[k])
         /\ Joined \in [0 .. Len(argv.args) -> Seq(Letters)]
         /\ Joined[0] = <<>>
         /\ \A k \in 1 .. Len(argv.args) : Joined[k] = Joined[k - 1] \o Pieces[k]
         /\ FlattenSeq(Pieces) = Joined[Len(argv.args)]
<1> DEFINE n == Len(argv.args)
<1>1. n \in Nat /\ DOMAIN argv.args = 1 .. n /\ \A k \in 1 .. n : argv.args[k] \in Arguments
  OBVIOUS
<1>2. \A k \in 1 .. n : argv.args[k] \in Seq(Letters) BY <1>1, TextsHaveLetters
<1>3. Prefix \in Seq(Letters) BY TextsHaveLetters
<1>4. <<" ">> \in Seq(Letters) /\ <<"}">> \in Seq(Letters)
  <2>1. " " \in Letters /\ "}" \in Letters BY Zenon DEF Letters
  <2>2. QED BY <2>1, OneLetter
<1>5. \A k \in 1 .. n : Wrapped(argv.args[k]) \in Seq(Letters)
  <2>1. \A k \in 1 .. n : Prefix \o argv.args[k] \in Seq(Letters) BY <1>2, <1>3, ConcatProperties
  <2>2. \A k \in 1 .. n : (Prefix \o argv.args[k]) \o <<"}">> \in Seq(Letters)
    BY <1>4, <2>1, ConcatProperties
  <2>3. QED BY <1>2, <2>2 DEF Wrapped
<1>6. \A k \in 1 .. n : <<" ">> \o Wrapped(argv.args[k]) \in Seq(Letters)
  BY <1>4, <1>5, ConcatProperties
<1>7. Pieces = [k \in 1 .. n |-> <<" ">> \o Wrapped(argv.args[k])] BY <1>1 DEF Pieces
<1>8. Pieces \in Seq(Seq(Letters)) /\ Len(Pieces) = n
  <2> DEFINE piece(k) == <<" ">> \o Wrapped(argv.args[k])
  <2>1. \A k \in 1 .. n : piece(k) \in Seq(Letters) BY <1>6
  <2>2. Pieces = [k \in 1 .. n |-> piece(k)] BY <1>7
  <2> HIDE DEF piece, n
  <2>3. QED BY <1>1, <2>1, <2>2
<1>9. \A k \in 1 .. n : Pieces[k] = <<" ">> \o Wrapped(argv.args[k]) BY <1>7
<1>10. \E g \in [0 .. Len(Pieces) -> Seq(Letters)] :
         /\ g[0] = <<>>
         /\ \A k \in 1 .. Len(Pieces) : g[k] = g[k - 1] \o Pieces[k]
         /\ FlattenSeq(Pieces) = g[Len(Pieces)]
  BY <1>8, FlattenAppends
<1>11. /\ Joined \in [0 .. Len(Pieces) -> Seq(Letters)]
       /\ Joined[0] = <<>>
       /\ \A k \in 1 .. Len(Pieces) : Joined[k] = Joined[k - 1] \o Pieces[k]
       /\ FlattenSeq(Pieces) = Joined[Len(Pieces)]
  BY <1>10 DEF Joined
<1>12. QED BY <1>2, <1>8, <1>9, <1>11

\* As much of an argument is copied as there is room for, by the comparison.
LEMMA KeptIs ==
  ASSUME NEW c \in Nat, NEW arg \in Seq(Letters)
  PROVE  /\ Kept(c, arg) \in Seq(Letters) /\ Len(Kept(c, arg)) <= Len(arg)
         /\ Kept(c, arg) = arg \/ c + Len(Kept(c, arg)) >= LineRoom
<1>1. Len(arg) \in Nat BY LenProperties
<1>2. LineRoom \in Int BY CommandAssumption DEF LineRoom
<1>3. PICK most \in Nat : most = Max({LineRoom - c, 0}) /\ most >= LineRoom - c
  <2> DEFINE S == {LineRoom - c, 0}
  <2>1. \E x \in S : \A y \in S : x >= y BY <1>2
  <2>2. Max(S) \in S /\ \A y \in S : Max(S) >= y BY <2>1 DEF Max
  <2>3. Max(S) \in Int /\ Max(S) >= 0 /\ Max(S) >= LineRoom - c BY <1>2, <2>2
  <2>4. QED BY <2>3
<1>4. PICK m \in Nat : m = Min({Len(arg), most}) /\ m <= Len(arg) /\ (m = Len(arg) \/ m = most)
  <2>1. {Len(arg), most} \in SUBSET Nat BY <1>1
  <2>2. Min({Len(arg), most}) \in {Len(arg), most} /\ Min({Len(arg), most}) <= Len(arg)
    BY <2>1, LeastNumber
  <2>3. QED BY <2>1, <2>2
<1>5. Kept(c, arg) = SubSeq(arg, 1, m) BY <1>3, <1>4 DEF Kept
<1>6. \A i \in 1 .. m : arg[i] \in Letters BY <1>1, <1>4, ElementOfSeq
<1>7. SubSeq(arg, 1, m) \in Seq(Letters) /\ Len(SubSeq(arg, 1, m)) = IF 1 <= m THEN m - 1 + 1 ELSE 0
  BY <1>6, SubSeqProperties
<1>8. Len(SubSeq(arg, 1, m)) = m BY <1>7
<1>9. m = Len(arg) => SubSeq(arg, 1, m) = arg BY SubSeqFull
<1>10. m = most => c + m >= LineRoom BY <1>2, <1>3
<1>11. QED BY <1>4, <1>5, <1>7, <1>8, <1>9, <1>10

\* It does not matter which texts are joined first.
LEMMA JoinsAssociate ==
  \A s, t, u \in Seq(Letters) : (s \o t) \o u = s \o (t \o u)
<1>1. ASSUME NEW S PROVE \A s, t, u \in Seq(S) : (s \o t) \o u = s \o (t \o u)
  <2>1. ASSUME NEW s \in Seq(S), NEW t \in Seq(S), NEW u \in Seq(S)
        PROVE  (s \o t) \o u = s \o (t \o u)
    BY ConcatAssociative
  <2>2. QED BY <2>1
<1>2. QED BY <1>1

\* What follows two texts that are equal is equal; a text that has outgrown what
\* commandline holds stays too long.
Reaches(written, meant) ==
  written = meant \/ (Len(written) >= LineLength /\ Len(meant) >= LineLength)

\* One argument more: if it is cut off, the text is too long already.
LEMMA ReachesOn ==
  ASSUME NEW w \in Seq(Letters), NEW m \in Seq(Letters), Reaches(w, m),
         NEW before \in Seq(Letters), NEW arg \in Seq(Letters), NEW after \in Seq(Letters),
         NEW kept, kept = Kept(Len(w \o before), arg)
  PROVE  /\ (w \o before) \o kept \o after \in Seq(Letters)
         /\ Reaches((w \o before) \o kept \o after, m \o (before \o (arg \o after)))
<1>1. LineLength \in Nat \ {0} /\ LineRoom >= LineLength /\ LineRoom \in Int
  <2>1. \A n \in Nat \ {0}, b \in Nat \ {0, 1} : n * b \in Int /\ n * b - 1 >= n
    <3>1. ASSUME NEW n \in Nat \ {0}, NEW b \in Nat \ {0, 1}
          PROVE  n * b \in Int /\ n * b - 1 >= n
      <4>1. PICK e \in Nat : b = 2 + e
        <5>1. b - 2 \in Nat /\ b = 2 + (b - 2) OBVIOUS
        <5>2. QED BY <5>1
      <4>2. n * b = 2 * n + n * e /\ n * e \in Nat BY <4>1
      <4>3. QED BY <4>2
    <3>2. QED BY <3>1
  <2>2. LineLength \in Nat \ {0} /\ CharBytes \in Nat \ {0, 1} BY CommandAssumption
  <2>3. LineLength * CharBytes \in Int /\ LineLength * CharBytes - 1 >= LineLength
    BY <2>1, <2>2
  <2>4. QED BY <2>2, <2>3 DEF LineRoom
<1>2. w \o before \in Seq(Letters) /\ Len(w \o before) = Len(w) + Len(before)
  BY ConcatProperties
<1>3. Len(w) \in Nat /\ Len(m) \in Nat /\ Len(before) \in Nat /\ Len(arg) \in Nat
      /\ Len(after) \in Nat
  BY LenProperties
<1>4. kept \in Seq(Letters) /\ Len(kept) <= Len(arg) /\ Len(kept) \in Nat
      /\ (kept = arg \/ Len(w \o before) + Len(kept) >= LineRoom)
  BY <1>2, <1>3, KeptIs, LenProperties
<1>5. (w \o before) \o kept \in Seq(Letters)
      /\ Len((w \o before) \o kept) = Len(w) + Len(before) + Len(kept)
  BY <1>2, <1>4, ConcatProperties
<1>6. (w \o before) \o kept \o after \in Seq(Letters)
      /\ Len((w \o before) \o kept \o after) = Len(w) + Len(before) + Len(kept) + Len(after)
  BY <1>5, ConcatProperties
<1>7. arg \o after \in Seq(Letters) /\ Len(arg \o after) = Len(arg) + Len(after)
  BY ConcatProperties
<1>8. before \o (arg \o after) \in Seq(Letters)
      /\ Len(before \o (arg \o after)) = Len(before) + Len(arg) + Len(after)
  BY <1>3, <1>7, ConcatProperties
<1>9. Len(m \o (before \o (arg \o after))) = Len(m) + Len(before) + Len(arg) + Len(after)
  BY <1>3, <1>8, ConcatProperties
<1>10. CASE w = m /\ kept = arg
  <2>1. (w \o before) \o kept \o after = (w \o before) \o (arg \o after)
    <3>1. PICK start \in Seq(Letters) : start = w \o before BY <1>2
    <3>2. (start \o arg) \o after = start \o (arg \o after) BY JoinsAssociate
    <3>3. QED BY <1>10, <3>1, <3>2
  <2>2. (w \o before) \o (arg \o after) = w \o (before \o (arg \o after))
    <3>1. PICK rest \in Seq(Letters) : rest = arg \o after BY <1>7
    <3>2. PICK start \in Seq(Letters) : start = w OBVIOUS
    <3>3. (start \o before) \o rest = start \o (before \o rest) BY JoinsAssociate
    <3>4. QED BY <3>1, <3>2, <3>3
  <2>3. QED BY <1>6, <1>10, <2>1, <2>2 DEF Reaches
<1>11. CASE w = m /\ kept # arg
  <2>1. Len(w) + Len(before) + Len(kept) >= LineLength BY <1>1, <1>2, <1>3, <1>4, <1>11
  <2>2. Len(w) = Len(m) BY <1>11
  <2>3. QED BY <1>1, <1>3, <1>4, <1>6, <1>9, <2>1, <2>2 DEF Reaches
<1>12. CASE w # m
  <2>1. Len(w) >= LineLength /\ Len(m) >= LineLength BY <1>12 DEF Reaches
  <2>2. QED BY <1>1, <1>3, <1>4, <1>6, <1>9, <2>1 DEF Reaches
<1>13. QED BY <1>10, <1>11, <1>12

\* What the loop has written is the name and the arguments it has met, unless it is
\* too long for commandline, as the name and these arguments are too.
CommandFits ==
  /\ argv.name \in Programs /\ argv.named \in BOOLEAN /\ argv.args \in Seq(Arguments)
  /\ argv.named \/ argv.args = <<>>
  /\ IF params = NoParams
     THEN /\ line \in Seq(Letters)
          /\ \E d \in 0 .. Len(argv.args) :
               /\ todo = SubSeq(argv.args, d + 1, Len(argv.args))
               /\ IF argv.named THEN Reaches(line, argv.name \o Joined[d]) ELSE line = Default
     ELSE todo = <<>> /\ GuestReadsArguments

\* At first there is the name.
LEMMA CommandStarts == CommandInit => CommandFits
<1> SUFFICES ASSUME CommandInit PROVE CommandFits OBVIOUS
<1>1. MaxArgs \in Nat BY CommandAssumption
<1>2. /\ argv.name \in Programs /\ argv.named \in BOOLEAN
      /\ argv.args \in UNION {[1 .. n -> Arguments] : n \in 0 .. MaxArgs}
      /\ argv.named \/ argv.args = <<>>
  BY DEF CommandInit
<1>3. argv.args \in Seq(Arguments)
  <2>1. PICK n \in 0 .. MaxArgs : argv.args \in [1 .. n -> Arguments] BY <1>2
  <2>2. n \in Nat BY <1>1
  <2>3. QED BY <2>1, <2>2
<1>4. Len(argv.args) \in Nat BY <1>3, LenProperties
<1>5. todo = SubSeq(argv.args, 0 + 1, Len(argv.args))
  BY <1>3, SubSeqFull DEF CommandInit
<1>6. argv.name \in Seq(Letters) BY <1>2, TextsHaveLetters
<1>7. argv.name \o Joined[0] = argv.name
  <2>1. Joined[0] = <<>> BY <1>3, PiecesAreJoined
  <2>2. QED BY <1>6, <2>1, ConcatEmptySeq
<1>8. line \in Seq(Letters)
  <2>1. "default" \in Letters BY Zenon DEF Letters
  <2>2. Default \in Seq(Letters) BY <2>1, OneLetter DEF Default
  <2>3. QED BY <1>6, <2>2 DEF CommandInit
<1>9. IF argv.named THEN Reaches(line, argv.name \o Joined[0]) ELSE line = Default
  BY <1>2, <1>7 DEF CommandInit, Reaches
<1>10. params = NoParams BY DEF CommandInit
<1>11. 0 \in 0 .. Len(argv.args) BY <1>4
<1>12. QED BY <1>2, <1>3, <1>5, <1>8, <1>9, <1>10, <1>11 DEF CommandFits

\* The loop goes on with the next argument.
LEMMA AddArgumentFits == CommandFits /\ AddArgument => CommandFits'
<1> SUFFICES ASSUME CommandFits, AddArgument PROVE CommandFits' OBVIOUS
<1> DEFINE n == Len(argv.args)
           arg == Head(todo)
           device == arg \in DeviceNames
           before == <<" ">> \o (IF device THEN Prefix ELSE <<>>)
           after == IF device THEN <<"}">> ELSE <<>>
           opened == line \o <<" ">> \o (IF device THEN Prefix ELSE <<>>)
<1>1. todo # <<>> /\ params = NoParams /\ argv' = argv /\ params' = params /\ todo' = Tail(todo)
  BY DEF AddArgument, CommandFits
<1>2. PICK d \in 0 .. n :
        /\ todo = SubSeq(argv.args, d + 1, n)
        /\ IF argv.named THEN Reaches(line, argv.name \o Joined[d]) ELSE line = Default
  BY <1>1 DEF CommandFits
<1>3. /\ argv.name \in Programs /\ argv.named \in BOOLEAN /\ argv.args \in Seq(Arguments)
      /\ argv.named \/ argv.args = <<>>
      /\ line \in Seq(Letters) /\ n \in Nat
  BY <1>1, LenProperties DEF CommandFits
<1>4. d + 1 \in 1 .. n
  <2>1. d = n => todo = <<>> BY <1>2, <1>3, SubSeqEmpty
  <2>2. QED BY <1>1, <1>3, <2>1
<1>5. arg = argv.args[d + 1] /\ todo' = SubSeq(argv.args, d + 2, n)
  <2>1. n \in (d + 1) .. n BY <1>4
  <2>2. Head(todo) = argv.args[d + 1] /\ Tail(todo) = SubSeq(argv.args, (d + 1) + 1, n)
    BY <1>2, <1>3, <1>4, <2>1, HeadTailOfSubSeq
  <2>3. (d + 1) + 1 = d + 2 OBVIOUS
  <2>4. QED BY <1>1, <2>2, <2>3
<1>6. argv.named
  <2>1. argv.args = <<>> => n = 0 OBVIOUS
  <2>2. QED BY <1>3, <1>4, <2>1
<1>7. /\ Joined \in [0 .. n -> Seq(Letters)] /\ Joined[d + 1] = Joined[d] \o Pieces[d + 1]
      /\ Pieces[d + 1] = <<" ">> \o Wrapped(arg) /\ arg \in Seq(Letters)
  <2>1. (d + 1) - 1 = d OBVIOUS
  <2>2. QED BY <1>3, <1>4, <1>5, <2>1, PiecesAreJoined
<1>8. d \in 0 .. n /\ Joined[d] \in Seq(Letters) /\ argv.name \in Seq(Letters)
  BY <1>3, <1>7, TextsHaveLetters
<1>9. <<" ">> \in Seq(Letters) /\ <<"}">> \in Seq(Letters) /\ <<>> \in Seq(Letters)
      /\ Prefix \in Seq(Letters)
  <2>1. " " \in Letters /\ "}" \in Letters BY Zenon DEF Letters
  <2>2. QED BY <2>1, OneLetter, EmptySeq, TextsHaveLetters
<1>10. before \in Seq(Letters) /\ after \in Seq(Letters) BY <1>9, ConcatProperties
<1>11. opened = line \o before
  <2>1. PICK p \in Seq(Letters) : p = (IF device THEN Prefix ELSE <<>>) BY <1>9
  <2>2. (line \o <<" ">>) \o p = line \o (<<" ">> \o p) BY <1>3, <1>9, JoinsAssociate
  <2>3. QED BY <2>1, <2>2
<1>12. Pieces[d + 1] = before \o (arg \o after)
  <2>1. CASE device
    <3>1. Wrapped(arg) = Prefix \o arg \o <<"}">> BY <2>1 DEF Wrapped
    <3>2. (Prefix \o arg) \o <<"}">> = Prefix \o (arg \o <<"}">>)
      BY <1>7, <1>9, JoinsAssociate
    <3>3. PICK rest \in Seq(Letters) : rest = arg \o <<"}">> BY <1>7, <1>9, ConcatProperties
    <3>4. (<<" ">> \o Prefix) \o rest = <<" ">> \o (Prefix \o rest) BY <1>9, JoinsAssociate
    <3>5. before = <<" ">> \o Prefix /\ after = <<"}">> BY <2>1
    <3> HIDE DEF before, after, arg
    <3>6. QED BY <1>7, <3>1, <3>2, <3>3, <3>4, <3>5
  <2>2. CASE ~device
    <3>1. Wrapped(arg) = arg BY <2>2 DEF Wrapped
    <3>2. before = <<" ">> /\ after = <<>> /\ arg \o after = arg
      BY <1>7, <1>9, <2>2, ConcatEmptySeq
    <3> HIDE DEF before, after, arg
    <3>3. QED BY <1>7, <3>1, <3>2
  <2>3. QED BY <2>1, <2>2
<1>13. PICK m \in Seq(Letters) : m = argv.name \o Joined[d] BY <1>8, ConcatProperties
<1>14. PICK piece \in Seq(Letters) : piece = before \o (arg \o after)
  BY <1>7, <1>10, ConcatProperties
<1>15. argv.name \o Joined[d + 1] = m \o piece
  <2>1. PICK j \in Seq(Letters) : j = Joined[d] BY <1>8
  <2>2. (argv.name \o j) \o piece = argv.name \o (j \o piece) BY Zenon, <1>8, JoinsAssociate
  <2> HIDE DEF before, after, arg
  <2>3. Joined[d + 1] = j \o piece BY <1>7, <1>12, <1>14, <2>1
  <2>4. QED BY <1>13, <2>1, <2>2, <2>3
<1>16. PICK kept : kept = Kept(Len(line \o before), arg) OBVIOUS
<1>17. line' = (line \o before) \o kept \o after
  <2>1. line' = opened \o Kept(Len(opened), arg) \o after BY Zenon DEF AddArgument
  <2> HIDE DEF opened, before, after, arg
  <2>2. QED BY <1>11, <1>16, <2>1
<1>18. line' \in Seq(Letters) /\ Reaches(line', m \o piece)
  <2>1. Reaches(line, m) BY <1>2, <1>6, <1>13
  <2> HIDE DEF before, after, arg
  <2>2. (line \o before) \o kept \o after \in Seq(Letters)
        /\ Reaches((line \o before) \o kept \o after, m \o (before \o (arg \o after)))
    BY <1>3, <1>7, <1>10, <1>16, <2>1, ReachesOn
  <2>3. QED BY <1>14, <1>17, <2>2
<1>19. Joined' = Joined /\ n' = n BY <1>1 DEF Joined, Pieces, Wrapped
<1>20. d + 1 \in 0 .. n /\ todo' = SubSeq(argv.args, (d + 1) + 1, n)
  <2>1. (d + 1) + 1 = d + 2 OBVIOUS
  <2>2. QED BY <1>4, <1>5, <2>1
<1>21. Reaches(line, argv.name \o Joined[d + 1])' BY <1>1, <1>15, <1>18, <1>19 DEF Reaches
<1>22. QED BY <1>1, <1>3, <1>6, <1>18, <1>19, <1>20, <1>21 DEF CommandFits

\* What is there when the loop has ended is copied as far as commandline goes.
LEMMA StoreLineFits == CommandFits /\ StoreLine => CommandFits'
<1> SUFFICES ASSUME CommandFits, StoreLine PROVE CommandFits' OBVIOUS
<1> DEFINE n == Len(argv.args)
<1>0. PICK ended : ended = IF argv.named THEN Append(line, "NUL") ELSE line OBVIOUS
<1>1. todo = <<>> /\ params = NoParams /\ argv' = argv /\ todo' = <<>> /\ line' = ended
      /\ params' = <<argv.name[1]>> \o SubSeq(ended, 1, Min({Len(ended), LineLength}))
  BY <1>0 DEF StoreLine
<1>2. PICK d \in 0 .. n :
        /\ todo = SubSeq(argv.args, d + 1, n)
        /\ IF argv.named THEN Reaches(line, argv.name \o Joined[d]) ELSE line = Default
  BY <1>1 DEF CommandFits
<1>3. /\ argv.name \in Programs /\ argv.named \in BOOLEAN /\ argv.args \in Seq(Arguments)
      /\ argv.named \/ argv.args = <<>>
      /\ line \in Seq(Letters) /\ n \in Nat
  BY <1>1, LenProperties DEF CommandFits
<1>4. d = n
  <2>1. \A i \in (d + 1) .. n : argv.args[i] \in Arguments BY <1>3, ElementOfSeq
  <2>2. Len(SubSeq(argv.args, d + 1, n)) = IF d + 1 <= n THEN n - (d + 1) + 1 ELSE 0
    BY <1>3, <2>1, SubSeqProperties
  <2>3. Len(<<>>) = 0 OBVIOUS
  <2> HIDE DEF n
  <2>4. QED BY <1>1, <1>2, <1>3, <2>2, <2>3
<1>5. LineLength \in Nat \ {0} BY CommandAssumption
<1>6. "NUL" \in Letters BY Zenon DEF Letters
<1>7. ended \in Seq(Letters) /\ Len(ended) \in Nat
  <2>1. Append(line, "NUL") \in Seq(Letters) BY <1>3, <1>6, AppendProperties
  <2>2. ended \in Seq(Letters) BY <1>3, <1>0, <2>1
  <2>3. QED BY <2>2, LenProperties
<1>8. argv.name \in Seq(Letters) /\ argv.name[1] \in Letters
  <2>1. argv.name \in Seq(Letters) /\ argv.name # <<>> BY <1>3, TextsHaveLetters, CommandAssumption
  <2>2. 1 \in 1 .. Len(argv.name) BY <2>1, EmptySeq
  <2>3. QED BY <2>1, <2>2, ElementOfSeq
<1>9. PICK m \in Nat : /\ m = Min({Len(ended), LineLength})
                       /\ m \in {Len(ended), LineLength} /\ m <= Len(ended) /\ m <= LineLength
  <2>1. {Len(ended), LineLength} \in SUBSET Nat BY <1>5, <1>7
  <2>2. QED BY <2>1, LeastNumber
<1>10. PICK copied : copied = SubSeq(ended, 1, m) OBVIOUS
<1>11. copied \in Seq(Letters) /\ Len(copied) = m
  <2>1. \A i \in 1 .. m : ended[i] \in Letters BY <1>7, <1>9, ElementOfSeq
  <2>2. SubSeq(ended, 1, m) \in Seq(Letters)
        /\ Len(SubSeq(ended, 1, m)) = IF 1 <= m THEN m - 1 + 1 ELSE 0
    BY <2>1, SubSeqProperties
  <2>3. Len(SubSeq(ended, 1, m)) = m BY <2>2
  <2>4. QED BY Zenon, <1>10, <2>2, <2>3
<1>12. Tail(params') = copied
  <2>1. params' = <<argv.name[1]>> \o copied BY <1>1, <1>9, <1>10
  <2>2. QED BY <1>8, <1>11, <2>1
<1>13. Len(ended) <= LineLength => copied = ended
  <2>1. Len(ended) <= LineLength => m = Len(ended) BY <1>5, <1>7, <1>9
  <2>2. QED BY <1>7, <1>10, <2>1, SubSeqFull
<1>14. Len(ended) > 0
  <2>1. argv.named => Len(ended) = Len(line) + 1 BY <1>3, <1>6, <1>0, AppendProperties
  <2>2. ~argv.named => Len(ended) = 1 BY <1>2, <1>0 DEF Default
  <2>3. Len(line) \in Nat BY <1>3, LenProperties
  <2>4. QED BY <2>1, <2>2, <2>3
<1>15. params' # NoParams
  <2>1. Len(params') = 1 + m
    <3>1. params' = <<argv.name[1]>> \o copied BY <1>1, <1>9, <1>10
    <3>2. <<argv.name[1]>> \in Seq(Letters) /\ Len(<<argv.name[1]>>) = 1 BY <1>8, OneLetter
    <3>3. QED BY <1>11, <3>1, <3>2, ConcatProperties
  <2>2. m # 0 BY <1>5, <1>9, <1>14
  <2>3. Len(NoParams) = 1 BY DEF NoParams
  <2>4. ASSUME params' = NoParams PROVE FALSE
    <3>1. Len(params') = Len(NoParams) BY <2>4
    <3>2. 1 + m = 1 BY <2>1, <2>3, <3>1
    <3>3. QED BY <2>2, <3>2
  <2>5. QED BY <2>4
<1>16. CASE ~argv.named
  <2>1. ended = Default /\ Len(ended) = 1 BY <1>2, <1>16, <1>0 DEF Default
  <2>2. Tail(params') = Default BY <1>5, <1>12, <1>13, <2>1
  <2>3. GuestReadsArguments' BY <1>1, <1>16, <2>2 DEF GuestReadsArguments, Default
  <2>4. QED BY <1>1, <1>3, <1>15, <2>3 DEF CommandFits
<1>17. CASE argv.named
  <2> DEFINE text == argv.name \o FlattenSeq(Pieces)
  <2>1. Pieces = [k \in DOMAIN argv.args |-> <<" ">> \o Wrapped(argv.args[k])] BY DEF Pieces
  <2>2. Wanted = text \o <<"NUL">> BY Zenon, <2>1 DEF Wanted
  <2>3. FlattenSeq(Pieces) = Joined[n] /\ Joined[n] \in Seq(Letters)
    <3>1. n \in 0 .. n BY <1>3
    <3>2. Joined \in [0 .. n -> Seq(Letters)] /\ FlattenSeq(Pieces) = Joined[n]
      BY <1>3, PiecesAreJoined
    <3> HIDE DEF n
    <3>3. QED BY <3>1, <3>2
  <2>4. text \in Seq(Letters) /\ Len(text) \in Nat BY <1>8, <2>3, ConcatProperties, LenProperties
  <2>5. Reaches(line, text) BY <1>2, <1>4, <1>17, <2>3
  <2> HIDE DEF text
  <2>6. Len(Wanted) = Len(text) + 1 BY <1>6, <2>2, <2>4, OneLetter, ConcatProperties
  <2>7. ended = line \o <<"NUL">> /\ Len(ended) = Len(line) + 1 /\ Len(line) \in Nat
    BY <1>3, <1>6, <1>17, <1>0, AppendIsConcat, AppendProperties, LenProperties
  <2>8. IF Len(Wanted) <= LineLength THEN Tail(params') = Wanted ELSE Len(ended) > LineLength
    <3>1. CASE line = text
      <4>1. ended = Wanted BY <2>2, <2>7, <3>1
      <4>2. QED BY <1>5, <1>7, <1>12, <1>13, <4>1
    <3>2. CASE line # text
      <4>1. Len(line) >= LineLength /\ Len(text) >= LineLength BY <2>5, <3>2 DEF Reaches
      <4>2. Len(Wanted) > LineLength /\ Len(ended) > LineLength
        BY <1>5, <2>4, <2>6, <2>7, <4>1
      <4>3. QED BY <1>5, <2>4, <2>6, <4>2
    <3>3. QED BY <3>1, <3>2
  <2>9. Wanted' = Wanted BY <1>1 DEF Wanted, Wrapped
  <2>10. GuestReadsArguments'
    BY <1>1, <1>17, <2>8, <2>9 DEF GuestReadsArguments
  <2>11. QED BY <1>1, <1>3, <1>15, <2>10 DEF CommandFits
<1>18. QED BY <1>3, <1>16, <1>17

\* A step that leaves the command line alone changes nothing.
LEMMA CommandStep == CommandFits /\ [CommandNext]_commandVars => CommandFits'
<1>1. CommandFits /\ UNCHANGED commandVars => CommandFits'
  <2> SUFFICES ASSUME CommandFits, UNCHANGED commandVars PROVE CommandFits' OBVIOUS
  <2>1. argv' = argv /\ line' = line /\ todo' = todo /\ params' = params BY DEF commandVars
  <2>2. Joined' = Joined /\ Wanted' = Wanted BY <2>1 DEF Joined, Pieces, Wrapped, Wanted
  <2>3. GuestReadsArguments => GuestReadsArguments' BY <2>1, <2>2 DEF GuestReadsArguments
  <2>4. QED BY <2>1, <2>2, <2>3 DEF CommandFits, Reaches
<1>2. QED BY <1>1, AddArgumentFits, StoreLineFits DEF CommandNext

-----------------------------------------------------------------------------
(* What is handed out.                                                     *)

\* Texts of the guest of any length, in numbers of any even width, tables of
\* registry values of any size, and any arguments, however many: values are handed
\* out as far as they fit, a table is answered for its first direct entry that
\* exists, strings fit into what was allocated for them, but for the known cases
\* (registry.c, rtl.c), and the guest finds its arguments if commandline has room
\* for them (nloader.c, autochk.c).
THEOREM ValuesFitAlways == RegistrySpec /\ StringsSpec /\ CommandSpec => []ValuesFit
<1>1. RegistryInit => RegistryFits BY RegistryStarts
<1>2. RegistryFits /\ [RegistryNext]_registryVars => RegistryFits' BY RegistryStep
<1>3. StringsInit => StringsFit BY StringsStart
<1>4. StringsFit /\ [StringsNext]_stringVars => StringsFit' BY StringsStep
<1>5. CommandInit => CommandFits BY CommandStarts
<1>6. CommandFits /\ [CommandNext]_commandVars => CommandFits' BY CommandStep
<1>7. CommandFits => GuestReadsArguments BY DEF CommandFits, GuestReadsArguments
<1>8. RegistryFits /\ StringsFit /\ CommandFits => ValuesFit
  BY <1>7, StringsHaveLengths DEF ValuesFit, RegistryFits, StringsFit
<1>9. QED
  BY <1>1, <1>2, <1>3, <1>4, <1>5, <1>6, <1>8, PTL DEF RegistrySpec, StringsSpec, CommandSpec

-----------------------------------------------------------------------------
(* The clock.                                                              *)

\* Seconds are whole numbers of ticks and of nanoseconds.
LEMMA Units ==
  /\ {TickNs, UsecTicks, SecUsecs, Limit, SecTicks, SecNs, UsecNs} \subseteq Nat \ {0}
  /\ SecTicks * TickNs = SecNs /\ UsecTicks * TickNs = UsecNs
  /\ SecNs = SecUsecs * UsecNs
<1>1. TickNs \in Nat \ {0} /\ UsecTicks \in Nat \ {0} /\ SecUsecs \in Nat \ {0}
      /\ Limit \in Nat \ {0}
  BY ClockAssumption
<1>2. \A a, b \in Nat \ {0} : a * b \in Nat \ {0} OBVIOUS
<1>3. SecTicks \in Nat \ {0} /\ UsecNs \in Nat \ {0} BY <1>1, <1>2 DEF SecTicks, UsecNs
<1>4. SecNs \in Nat \ {0} BY <1>1, <1>2, <1>3 DEF SecNs
<1>5. SecNs = SecUsecs * UsecNs
  <2>1. \A a, b, c \in Nat : (a * b) * c = b * (a * c) OBVIOUS
  <2>2. QED BY <1>1, <2>1 DEF SecNs, SecTicks, UsecNs
<1>6. QED BY <1>1, <1>3, <1>4, <1>5 DEF SecNs, UsecNs

\* A number that has 64 bits stays what it is.
LEMMA WrapKeeps ==
  ASSUME NEW n \in -Limit .. Limit - 1
  PROVE  Wrap(n) = n
<1>1. Limit \in Nat \ {0} /\ Limit \in Int BY ClockAssumption
<1>2. n + Limit \in 0 .. 2 * Limit - 1 /\ 2 * Limit \in Nat \ {0} BY <1>1
<1>3. (2 * Limit) * 0 = 0 BY <1>1
<1>4. ((2 * Limit) * 0 + (n + Limit)) % (2 * Limit) = n + Limit BY <1>2, DivisionIsOne
<1>5. (n + Limit) % (2 * Limit) = n + Limit BY <1>2, <1>3, <1>4
<1>6. QED BY <1>1, <1>5 DEF Wrap

\* A clock that goes on, and a counter in the second in which the machine started.
ClockFits ==
  /\ now.sec \in Nat /\ now.usec \in 0 .. SecUsecs - 1
  /\ now = [sec |-> now.sec, usec |-> now.usec]
  /\ DeadlineIsRight /\ CounterStaysInSecond

\* The last second of a deadline may be full: adding the microseconds of the clock
\* goes over by one second at most (interval_to_timespec).
LEMMA TimespecIs ==
  ASSUME NEW offset \in Nat, now.sec \in Nat, now.usec \in 0 .. SecUsecs - 1,
         NEW sec, sec = now.sec + Quotient(offset, SecNs),
         NEW nsec, nsec = now.usec * UsecNs + Remainder(offset, SecNs),
         NEW w, w.sec = (IF nsec >= SecNs THEN sec + 1 ELSE sec),
         w.nsec = (IF nsec >= SecNs THEN nsec - SecNs ELSE nsec)
  PROVE  /\ w.nsec \in 0 .. SecNs - 1
         /\ w.sec * SecNs + w.nsec = Ticks(now) * TickNs + offset
<1>1. SecNs \in Nat \ {0} /\ UsecNs \in Nat \ {0} /\ SecTicks \in Nat /\ UsecTicks \in Nat
      /\ TickNs \in Nat /\ SecUsecs \in Nat
  BY Units
<1>2. PICK q \in Int, r \in 0 .. SecNs - 1 :
        q = offset \div SecNs /\ offset = SecNs * q + r
  <2>1. PICK a \in Int, b \in Nat \ {0} : a = offset /\ b = SecNs BY <1>1
  <2>2. a \div b \in Int /\ a % b \in 0 .. b - 1 /\ a = b * (a \div b) + (a % b)
    BY Division
  <2>3. QED BY <2>1, <2>2
<1>3. Quotient(offset, SecNs) = q BY <1>2 DEF Quotient
<1>4. Remainder(offset, SecNs) = r
  <2>1. Remainder(offset, SecNs) = offset - SecNs * q BY <1>3 DEF Remainder
  <2>2. PICK p \in Int : p = SecNs * q BY <1>1
  <2>3. offset = p + r BY <1>2, <2>2
  <2>4. QED BY <2>1, <2>2, <2>3
<1>5. PICK s \in Nat, u \in 0 .. SecUsecs - 1 : s = now.sec /\ u = now.usec OBVIOUS
<1>6. u * UsecNs \in 0 .. SecNs - UsecNs
  <2>1. \A a, b, c \in Nat : a <= b - 1 => a * c <= b * c - c
    <3>1. SUFFICES ASSUME NEW a \in Nat, NEW b \in Nat, NEW c \in Nat, a <= b - 1
                   PROVE  a * c <= b * c - c
      OBVIOUS
    <3>2. PICK d \in Nat : b - 1 = a + d BY <3>1
    <3>3. b * c = a * c + c + d * c BY <3>2
    <3>4. d * c >= 0 /\ a * c \in Int /\ d * c \in Int OBVIOUS
    <3>5. QED BY <3>3, <3>4
  <2>2. u * UsecNs <= SecUsecs * UsecNs - UsecNs BY <1>1, <2>1
  <2>3. u * UsecNs \in Nat BY <1>1
  <2>4. SecNs = SecUsecs * UsecNs BY Units
  <2>5. QED BY <1>1, <2>2, <2>3, <2>4
<1>7. PICK v \in Nat : v = u * UsecNs /\ v < SecNs BY <1>1, <1>6
<1>8. nsec = v + r /\ sec = s + q BY <1>3, <1>4, <1>5, <1>7
<1>9. w.nsec \in 0 .. SecNs - 1 BY <1>1, <1>7, <1>8
<1>10. w.sec * SecNs + w.nsec = s * SecNs + q * SecNs + v + r
  <2>1. (s + q + 1) * SecNs = s * SecNs + q * SecNs + SecNs BY <1>1
  <2>2. (s + q) * SecNs = s * SecNs + q * SecNs BY <1>1
  <2>3. s * SecNs \in Int /\ q * SecNs \in Int BY <1>1
  <2>4. QED BY <1>1, <1>7, <1>8, <2>1, <2>2, <2>3
<1>11. Ticks(now) * TickNs = s * SecNs + v
  <2>1. Ticks(now) = s * SecTicks + u * UsecTicks BY <1>5 DEF Ticks
  <2>2. \A a, b, c, d, e \in Nat : (a * c + b * d) * e = a * (c * e) + b * (d * e) OBVIOUS
  <2>3. SecTicks * TickNs = SecNs /\ UsecTicks * TickNs = UsecNs BY Units
  <2>4. QED BY <1>1, <1>7, <2>1, <2>2, <2>3
<1>12. q * SecNs = SecNs * q BY <1>1
<1>13. s * SecNs \in Int /\ q * SecNs \in Int BY <1>1
<1>14. QED BY <1>1, <1>2, <1>7, <1>9, <1>10, <1>11, <1>12, <1>13

\* interval_to_timespec: the offset is the distance, or none for what has passed.
LEMMA OffsetIs ==
  ASSUME NEW interval \in Int \ {0}, now.sec \in Nat, now.usec \in 0 .. SecUsecs - 1,
         NEW distance,
         distance = (IF interval < 0 THEN -interval ELSE (interval - Epoch) - Ticks(now)),
         distance * TickNs \in -Limit .. Limit - 1
  PROVE  /\ distance \in Int /\ Offset(interval) \in Nat
         /\ Offset(interval) = (IF distance < 0 THEN 0 ELSE distance) * TickNs
<1>1. TickNs \in Nat \ {0} /\ SecTicks \in Nat /\ UsecTicks \in Nat /\ Limit \in Nat /\ Epoch \in Nat
      /\ SecUsecs \in Nat
  BY Units, ClockAssumption
<1>2. Ticks(now) \in Nat
  <2>1. \A a, b, c, d \in Nat : a * b + c * d \in Nat OBVIOUS
  <2>2. now.usec \in Nat BY <1>1
  <2>3. QED BY <1>1, <2>1, <2>2 DEF Ticks
<1>3. distance \in Int BY <1>1, <1>2
<1>4. Wrap(distance * TickNs) = distance * TickNs BY WrapKeeps
<1>5. CASE interval < 0
  <2>1. distance = -interval /\ distance >= 1 BY <1>5
  <2>2. distance <= distance * TickNs
    <3>1. PICK e \in Nat : TickNs = e + 1 BY <1>1
    <3>2. distance * TickNs = distance * e + distance BY <1>3, <3>1
    <3>3. distance * e >= 0 BY <2>1, <1>3
    <3>4. QED BY <1>3, <3>2, <3>3
  <2>3. distance \in -Limit .. Limit - 1 BY <1>1, <1>3, <2>1, <2>2
  <2>4. Wrap(distance) = distance BY <2>3, WrapKeeps
  <2>5. Offset(interval) = distance * TickNs BY <1>4, <1>5, <2>1, <2>4 DEF Offset
  <2>6. distance * TickNs \in Nat BY <1>1, <1>3, <2>1, <2>2
  <2>7. QED BY <1>3, <2>1, <2>5, <2>6
<1>6. CASE ~(interval < 0)
  <2>1. distance = (interval - Epoch) - Ticks(now) BY <1>6
  <2>2. Offset(interval) = IF distance * TickNs < 0 THEN 0 ELSE distance * TickNs
    BY <1>4, <1>6, <2>1 DEF Offset
  <2>3. distance < 0 => distance * TickNs < 0 BY <1>1, <1>3
  <2>4. distance >= 0 => distance * TickNs >= 0 BY <1>1, <1>3
  <2>5. distance * TickNs \in Int /\ 0 * TickNs = 0 BY <1>1, <1>3
  <2>6. QED BY <1>3, <2>2, <2>3, <2>4, <2>5
<1>7. QED BY <1>5, <1>6

\* AskForWait stores the deadline of its interval.
LEMMA AskForWaitFits ==
  ASSUME ClockFits, NEW interval \in Intervals, AskForWait(interval)
  PROVE  ClockFits'
<1>1. interval \in Int BY ClockAssumption
<1>2. now' = now /\ counter' = counter BY DEF AskForWait
<1>3. CASE interval = 0
  <2>1. wait'.interval = 0 BY <1>3 DEF AskForWait, NoWait
  <2>2. DeadlineIsRight' BY <2>1 DEF DeadlineIsRight
  <2>3. QED BY <1>2, <2>2 DEF ClockFits, CounterStaysInSecond
<1>4. CASE interval # 0
  <2>1. PICK offset : offset = Offset(interval) OBVIOUS
  <2>2. PICK sec, nsec : /\ sec = now.sec + Quotient(offset, SecNs)
                         /\ nsec = now.usec * UsecNs + Remainder(offset, SecNs)
    OBVIOUS
  <2>3. /\ wait'.interval = interval /\ wait'.at = Ticks(now)
        /\ wait'.sec = (IF nsec >= SecNs THEN sec + 1 ELSE sec)
        /\ wait'.nsec = (IF nsec >= SecNs THEN nsec - SecNs ELSE nsec)
    BY <1>4, <2>1, <2>2 DEF AskForWait
  <2>4. PICK distance : distance = (IF interval < 0 THEN -interval
                                    ELSE (interval - Epoch) - Ticks(now))
    OBVIOUS
  <2>5. ASSUME distance * TickNs \in -Limit .. Limit - 1
        PROVE  /\ wait'.nsec \in 0 .. SecNs - 1
               /\ wait'.sec * SecNs + wait'.nsec =
                    (Ticks(now) + (IF distance < 0 THEN 0 ELSE distance)) * TickNs
    <3>1. now.sec \in Nat /\ now.usec \in 0 .. SecUsecs - 1 BY DEF ClockFits
    <3>2. /\ distance \in Int /\ offset \in Nat
          /\ offset = (IF distance < 0 THEN 0 ELSE distance) * TickNs
      BY <1>1, <1>4, <2>1, <2>4, <2>5, <3>1, OffsetIs
    <3>3. /\ wait'.nsec \in 0 .. SecNs - 1
          /\ wait'.sec * SecNs + wait'.nsec = Ticks(now) * TickNs + offset
      BY <2>2, <2>3, <3>1, <3>2, TimespecIs
    <3>4. PICK d \in Int : d = (IF distance < 0 THEN 0 ELSE distance) BY <3>2
    <3>5. TickNs \in Nat /\ SecTicks \in Nat /\ UsecTicks \in Nat /\ SecUsecs \in Nat BY Units
    <3>6. Ticks(now) \in Int
      <4>1. \A a, b, c, e \in Int : a * b + c * e \in Int OBVIOUS
      <4>2. QED BY <3>1, <3>5, <4>1 DEF Ticks
    <3>7. \A a, b, c \in Int : (a + b) * c = a * c + b * c OBVIOUS
    <3>8. QED BY <3>2, <3>3, <3>4, <3>5, <3>6, <3>7
  <2>6. DeadlineIsRight' BY <2>3, <2>4, <2>5 DEF DeadlineIsRight
  <2>7. QED BY <1>2, <2>6 DEF ClockFits, CounterStaysInSecond
<1>5. QED BY <1>3, <1>4

\* NtQueryPerformanceCounter takes whole seconds off what is not less than the
\* time of the start.
LEMMA CounterFits ==
  ASSUME ClockFits, QueryPerformanceCounter
  PROVE  ClockFits'
<1>1. SecTicks \in Nat \ {0} /\ UsecTicks \in Nat /\ BootTicks \in Nat /\ SecUsecs \in Nat
  BY Units, ClockAssumption
<1>2. PICK ticks \in Int : ticks = Ticks(now)
  <2>1. now.sec \in Int /\ now.usec \in Int BY <1>1 DEF ClockFits
  <2>2. \A a, b, c, e \in Int : a * b + c * e \in Int OBVIOUS
  <2>3. QED BY <1>1, <2>1, <2>2 DEF Ticks
<1>3. PICK q \in Int, r \in 0 .. SecTicks - 1 :
        q = (ticks - BootTicks) \div SecTicks /\ ticks - BootTicks = SecTicks * q + r
  <2>1. PICK a \in Int : a = ticks - BootTicks BY <1>1
  <2>2. /\ a \div SecTicks \in Int /\ a % SecTicks \in 0 .. SecTicks - 1
        /\ a = SecTicks * (a \div SecTicks) + (a % SecTicks)
    BY <1>1, Division
  <2>3. QED BY <2>1, <2>2
<1>4. counter' = ticks - q * SecTicks
  BY <1>2, <1>3 DEF QueryPerformanceCounter, Uptime
<1>5. PICK p \in Int : p = SecTicks * q /\ p = q * SecTicks BY <1>1
<1>6. counter' = BootTicks + r BY <1>1, <1>3, <1>4, <1>5
<1>7. CounterStaysInSecond' BY <1>1, <1>6 DEF CounterStaysInSecond
<1>8. now' = now /\ wait' = wait BY DEF QueryPerformanceCounter
<1>9. QED BY <1>7, <1>8 DEF ClockFits, DeadlineIsRight

\* Every call, and the clock going on, keep it so.
LEMMA ClockStep ==
  ASSUME ClockFits, [ClockNext]_clockVars
  PROVE  ClockFits'
<1>1. CASE UNCHANGED clockVars
  BY <1>1 DEF clockVars, ClockFits, DeadlineIsRight, CounterStaysInSecond
<1>2. CASE Tick
  <2>1. SecUsecs \in Nat \ {0} BY ClockAssumption
  <2>2. PICK s \in Nat, u \in 0 .. SecUsecs - 1 : now = [sec |-> s, usec |-> u]
    BY DEF ClockFits
  <2>3. \/ now' = [sec |-> s, usec |-> u + 1] /\ u + 1 \in 0 .. SecUsecs - 1
        \/ now' = [sec |-> s + 1, usec |-> 0]
    BY <1>2, <2>1, <2>2 DEF Tick
  <2>4. /\ now'.sec \in Nat /\ now'.usec \in 0 .. SecUsecs - 1
        /\ now' = [sec |-> now'.sec, usec |-> now'.usec]
    BY <2>1, <2>2, <2>3
  <2>5. wait' = wait /\ counter' = counter BY <1>2 DEF Tick
  <2>6. QED BY <2>4, <2>5 DEF ClockFits, DeadlineIsRight, CounterStaysInSecond
<1>3. QED BY <1>1, <1>2, AskForWaitFits, CounterFits DEF ClockNext

\* The clock starts in the second after the machine.
LEMMA ClockStarts == ClockInit => ClockFits
<1>1. SUFFICES ASSUME ClockInit PROVE ClockFits OBVIOUS
<1>2. SecTicks \in Nat \ {0} /\ BootTicks \in Nat /\ SecUsecs \in Nat \ {0}
  BY Units, ClockAssumption
<1>3. BootTicks \div SecTicks >= 0 /\ BootTicks \div SecTicks \in Int
  <2>1. PICK q \in Int, r \in 0 .. SecTicks - 1 :
          q = BootTicks \div SecTicks /\ BootTicks = SecTicks * q + r
    <3>1. /\ BootTicks \div SecTicks \in Int /\ BootTicks % SecTicks \in 0 .. SecTicks - 1
          /\ BootTicks = SecTicks * (BootTicks \div SecTicks) + (BootTicks % SecTicks)
      BY <1>2, Division
    <3>2. QED BY <3>1
  <2>2. ASSUME q <= -1 PROVE FALSE
    <3>1. PICK p \in Int : p = SecTicks * q BY <1>2
    <3>2. p <= -SecTicks BY <1>2, <2>2, <3>1
    <3>3. BootTicks = p + r BY <2>1, <3>1
    <3>4. QED BY <1>2, <3>2, <3>3
  <2>3. QED BY <2>1, <2>2
<1>4. counter \in BootTicks .. BootTicks + SecTicks - 1 BY <1>1, <1>2 DEF ClockInit
<1>5. wait.interval = 0 BY <1>1 DEF ClockInit, NoWait
<1>6. QED BY <1>1, <1>2, <1>3, <1>4, <1>5 DEF ClockInit, ClockFits, DeadlineIsRight,
      CounterStaysInSecond

-----------------------------------------------------------------------------
(* The calendar.                                                           *)

\* Day d is day n of a year that begins in March: year b of a cycle of four years, of
\* which it is number a in its century; century j of 400 years, of which it is number
\* k since 1600.  Only the last year of a cycle can have a day more.
IsDay(d, k, j, a, b, n) ==
  /\ k \in Nat /\ j \in Nat /\ a \in Nat /\ b \in Nat /\ n \in Nat
  /\ j <= 3 /\ a <= 24 /\ b <= 3 /\ n <= 365
  /\ n = 365 => b = 3 /\ (a # 24 \/ j = 3)
  /\ d = 146097 * k + 36524 * j + 1461 * a + 365 * b + n - 306

March(k, j, a, b) == 1600 + 400 * k + 100 * j + 4 * a + b

\* A number is a multiple and a rest, as the quotients of RtlTimeToTimeFields have it.
LEMMA Multiples ==
  ASSUME NEW e \in Nat, NEW m \in Nat \ {0}
  PROVE  \E q, r \in Nat : e = m * q + r /\ r < m
<1>1. PICK q \in Int, r \in Int : q = e \div m /\ r = e % m /\ 0 <= r /\ r < m /\ e = m * q + r
  <2>1. e \div m \in Int /\ e % m \in 0 .. m - 1 /\ e = m * (e \div m) + (e % m) BY Division
  <2>2. QED BY <2>1
<1>2. ASSUME q <= -1 PROVE FALSE
  <2>1. m * q <= -m BY <1>2
  <2>2. PICK p \in Int : p = m * q OBVIOUS
  <2>3. QED BY <1>1, <2>1, <2>2
<1>3. q \in Nat BY <1>2
<1>4. QED BY <1>1, <1>3

\* The quotient of such a number.
LEMMA QuotientIs ==
  ASSUME NEW m \in Nat \ {0}, NEW q \in Int, NEW r \in Nat, r < m,
         NEW e \in Int, e = m * q + r
  PROVE  e \div m = q
<1>1. r \in 0 .. m - 1 OBVIOUS
<1>2. (m * q + r) \div m = q BY <1>1, DivisionIsOne
<1>3. QED BY <1>2

\* Every day is one of some year.
LEMMA DaysAreCounted ==
  ASSUME NEW d \in Nat
  PROVE  \E k, j, a, b, n \in Nat : IsDay(d, k, j, a, b, n)
<1>1. PICK k \in Nat, r \in Nat : d + 306 = 146097 * k + r /\ r < 146097
  <2>1. PICK e \in Nat, m \in Nat \ {0} : e = d + 306 /\ m = 146097 OBVIOUS
  <2>2. \E q, r \in Nat : e = m * q + r /\ r < m BY Multiples, Zenon
  <2>3. QED BY <2>1, <2>2
<1>2. PICK j \in Nat, e \in Nat :
        r = 36524 * j + e /\ j <= 3 /\ e <= 36524 /\ (e = 36524 => j = 3)
  <2>1. CASE r < 36524
    <3>1. r = 36524 * 0 + r BY <1>1
    <3>2. QED BY <2>1, <3>1
  <2>2. CASE 36524 <= r /\ r < 73048
    <3>1. PICK e \in Nat : r = 36524 * 1 + e BY <1>1, <2>2
    <3>2. QED BY <2>2, <3>1
  <2>3. CASE 73048 <= r /\ r < 109572
    <3>1. PICK e \in Nat : r = 36524 * 2 + e BY <1>1, <2>3
    <3>2. QED BY <2>3, <3>1
  <2>4. CASE 109572 <= r
    <3>1. PICK e \in Nat : r = 36524 * 3 + e BY <1>1, <2>4
    <3>2. QED BY <1>1, <2>4, <3>1
  <2>5. QED BY <2>1, <2>2, <2>3, <2>4
<1>3. PICK a \in Nat, f \in Nat : e = 1461 * a + f /\ f < 1461
  <2>1. PICK m \in Nat \ {0} : m = 1461 OBVIOUS
  <2>2. \E q, s \in Nat : e = m * q + s /\ s < m BY Multiples, Zenon
  <2>3. QED BY <2>1, <2>2
<1>4. a <= 24 BY <1>2, <1>3
<1>5. PICK b \in Nat, n \in Nat : f = 365 * b + n /\ b <= 3 /\ n <= 365 /\ (n = 365 => b = 3)
  <2>1. CASE f < 365
    <3>1. f = 365 * 0 + f BY <1>3
    <3>2. QED BY <2>1, <3>1
  <2>2. CASE 365 <= f /\ f < 730
    <3>1. PICK n \in Nat : f = 365 * 1 + n BY <1>3, <2>2
    <3>2. QED BY <2>2, <3>1
  <2>3. CASE 730 <= f /\ f < 1095
    <3>1. PICK n \in Nat : f = 365 * 2 + n BY <1>3, <2>3
    <3>2. QED BY <2>3, <3>1
  <2>4. CASE 1095 <= f
    <3>1. PICK n \in Nat : f = 365 * 3 + n BY <1>3, <2>4
    <3>2. QED BY <1>3, <2>4, <3>1
  <2>5. QED BY <2>1, <2>2, <2>3, <2>4
<1>6. n = 365 => b = 3 /\ (a # 24 \/ j = 3) BY <1>2, <1>3, <1>5
<1>7. d = 146097 * k + 36524 * j + 1461 * a + 365 * b + n - 306 BY <1>1, <1>2, <1>3, <1>5
<1>8. IsDay(d, k, j, a, b, n) BY <1>2, <1>4, <1>5, <1>6, <1>7 DEF IsDay
<1>9. QED BY <1>8

\* The quotients of RtlTimeToTimeFields: leap days that centuries lack, the year,
\* and the day of the year, which is counted from 123.
LEMMA QuotientsAre ==
  ASSUME NEW d \in Nat, NEW k, NEW j, NEW a, NEW b, NEW n, IsDay(d, k, j, a, b, n)
  PROVE  LET days == d + 28188 + CenturyLeaps(d)
             years == (20 * days - 2442) \div (5 * Quadrennium)
         IN  /\ years = March(k, j, a, b) - 1524
             /\ days - ((years * Quadrennium) \div 4) = n + 123
<1>1. /\ k \in Nat /\ j \in Nat /\ a \in Nat /\ b \in Nat /\ n \in Nat
      /\ j <= 3 /\ a <= 24 /\ b <= 3 /\ n <= 365
      /\ n = 365 => b = 3 /\ (a # 24 \/ j = 3)
      /\ d = 146097 * k + 36524 * j + 1461 * a + 365 * b + n - 306
  BY DEF IsDay
<1>2. (4 * d + 1227) \div 146097 = 4 * k + j
  <2>1. PICK q \in Int, r \in Nat :
          q = 4 * k + j /\ r = 4 * (1461 * a + 365 * b + n) + 3 - j
    BY <1>1
  <2>2. r < 146097 BY <1>1, <2>1
  <2>3. PICK e \in Int, m \in Nat \ {0} : e = 4 * d + 1227 /\ m = 146097 OBVIOUS
  <2>4. e = m * q + r BY <1>1, <2>1, <2>3
  <2>5. e \div m = q BY <2>2, <2>3, <2>4, QuotientIs
  <2>6. QED BY <2>1, <2>3, <2>5
<1>3. (3 * (4 * k + j) + 3) \div 4 = 3 * k + j
  <2>1. PICK q \in Int, r \in Nat : q = 3 * k + j /\ r = 3 - j BY <1>1
  <2>2. PICK e \in Int, m \in Nat \ {0} : e = 3 * (4 * k + j) + 3 /\ m = 4 BY <1>1
  <2>3. e = m * q + r /\ r < m BY <1>1, <2>1, <2>2
  <2>4. e \div m = q BY <2>3, QuotientIs
  <2>5. QED BY <2>1, <2>2, <2>4
<1>4. CenturyLeaps(d) = 3 * k + j
  <2>1. Quadricentennium = 146097 BY DEF Quadricentennium
  <2>2. PICK c \in Int : c = 4 * k + j BY <1>1
  <2>3. CenturyLeaps(d) = (3 * c + 3) \div 4 BY <1>2, <2>1, <2>2 DEF CenturyLeaps
  <2>4. QED BY <1>3, <2>2, <2>3
<1> DEFINE days == d + 28188 + CenturyLeaps(d)
           years == (20 * days - 2442) \div (5 * Quadrennium)
<1>5. days = 146100 * k + 36525 * j + 1461 * a + 365 * b + n + 27882 BY <1>1, <1>4
<1>6. years = 400 * k + 100 * j + 4 * a + b + 76
  <2>1. PICK q \in Int, r \in Nat :
          q = 400 * k + 100 * j + 4 * a + b + 76 /\ r = 20 * n + 18 - 5 * b
    BY <1>1
  <2>2. PICK e \in Int, m \in Nat \ {0} : e = 20 * days - 2442 /\ m = 7305 BY <1>1, <1>5
  <2>3. e = m * q + r /\ r < m BY <1>1, <1>5, <2>1, <2>2
  <2>4. e \div m = q BY <2>3, QuotientIs
  <2>5. 5 * Quadrennium = 7305 BY DEF Quadrennium
  <2>6. QED BY <2>1, <2>2, <2>4, <2>5
<1>7. (years * Quadrennium) \div 4 = 146100 * k + 36525 * j + 1461 * a + 365 * b + 27759
  <2>1. PICK q \in Int : q = 146100 * k + 36525 * j + 1461 * a + 365 * b + 27759 BY <1>1
  <2>2. Quadrennium = 1461 BY DEF Quadrennium
  <2>3. PICK e \in Int, m \in Nat \ {0} : e = years * Quadrennium /\ m = 4 BY <1>1, <1>6, <2>2
  <2>4. e = m * q + b /\ b < m BY <1>1, <1>6, <2>1, <2>2, <2>3
  <2>5. e \div m = q BY <1>1, <2>4, QuotientIs
  <2>6. QED BY <2>1, <2>3, <2>5
<1>8. days - ((years * Quadrennium) \div 4) = n + 123 BY <1>1, <1>5, <1>7
<1>9. years = March(k, j, a, b) - 1524 BY <1>1, <1>6 DEF March
<1>10. QED BY <1>8, <1>9

\* The days of the year before month m, of which the first is March, number 4.
Before(m) == (1959 * m) \div 64 - 122

\* The months have the lengths of the calendar.
LEMMA MonthsBegin ==
  /\ Before(4) = 0 /\ Before(5) = 31 /\ Before(6) = 61 /\ Before(7) = 92
  /\ Before(8) = 122 /\ Before(9) = 153 /\ Before(10) = 184 /\ Before(11) = 214
  /\ Before(12) = 245 /\ Before(13) = 275 /\ Before(14) = 306 /\ Before(15) = 337
BY DEF Before

\* Day n of the year is one of month m.
InMonth(m, n) ==
  /\ m \in Nat /\ 4 <= m /\ m <= 15
  /\ Before(m) <= n /\ (m < 15 => n < Before(m + 1))

\* Every day is one of some month, and that is the quotient of the code.
LEMMA DaysHaveMonths ==
  ASSUME NEW n \in Nat, n <= 365
  PROVE  \E m \in Nat : InMonth(m, n)
<1>1. CASE n < 61
  <2>1. InMonth(4, n) \/ InMonth(5, n) BY <1>1, MonthsBegin DEF InMonth
  <2>2. QED BY <2>1
<1>2. CASE 61 <= n /\ n < 122
  <2>1. InMonth(6, n) \/ InMonth(7, n) BY <1>2, MonthsBegin DEF InMonth
  <2>2. QED BY <2>1
<1>3. CASE 122 <= n /\ n < 184
  <2>1. InMonth(8, n) \/ InMonth(9, n) BY <1>3, MonthsBegin DEF InMonth
  <2>2. QED BY <2>1
<1>4. CASE 184 <= n /\ n < 245
  <2>1. InMonth(10, n) \/ InMonth(11, n) BY <1>4, MonthsBegin DEF InMonth
  <2>2. QED BY <2>1
<1>5. CASE 245 <= n /\ n < 306
  <2>1. InMonth(12, n) \/ InMonth(13, n) BY <1>5, MonthsBegin DEF InMonth
  <2>2. QED BY <2>1
<1>6. CASE 306 <= n
  <2>1. InMonth(14, n) \/ InMonth(15, n) BY <1>6, MonthsBegin DEF InMonth
  <2>2. QED BY <2>1
<1>7. QED BY <1>1, <1>2, <1>3, <1>4, <1>5, <1>6

\* The months of RtlTimeToTimeFields, 64 of which have 1959 days.
LEMMA MonthIs ==
  ASSUME NEW n \in Nat, n <= 365, NEW m \in Nat, InMonth(m, n)
  PROVE  (64 * (n + 123)) \div 1959 = m
<1>1. 1959 * m <= 64 * (n + 123) /\ 64 * (n + 123) < 1959 * m + 1959
  <2>1. m = 4 \/ m = 5 \/ m = 6 \/ m = 7 \/ m = 8 \/ m = 9 \/ m = 10 \/ m = 11
        \/ m = 12 \/ m = 13 \/ m = 14 \/ m = 15
    BY DEF InMonth
  <2>2. CASE m = 4 \/ m = 5 \/ m = 6 \/ m = 7 BY <2>2, MonthsBegin DEF InMonth
  <2>3. CASE m = 8 \/ m = 9 \/ m = 10 \/ m = 11 BY <2>3, MonthsBegin DEF InMonth
  <2>4. CASE m = 12 \/ m = 13 \/ m = 14 \/ m = 15 BY <2>4, MonthsBegin DEF InMonth
  <2>5. QED BY <2>1, <2>2, <2>3, <2>4
<1>2. PICK r \in Int : r = 64 * (n + 123) - 1959 * m OBVIOUS
<1>3. PICK e \in Int, c \in Nat \ {0} : e = 64 * (n + 123) /\ c = 1959 OBVIOUS
<1>4. e = c * m + r /\ r < c /\ r \in Nat BY <1>1, <1>2, <1>3
<1>5. e \div c = m BY <1>4, QuotientIs
<1>6. QED BY <1>3, <1>5

\* What RtlTimeToTimeFields answers: the year goes on to the end of February.
LEMMA FieldsAre ==
  ASSUME NEW d \in Nat, NEW k, NEW j, NEW a, NEW b, NEW n, IsDay(d, k, j, a, b, n),
         NEW m \in Nat, InMonth(m, n)
  PROVE  TimeFields(d) =
           [year |-> IF m < 14 THEN March(k, j, a, b) ELSE March(k, j, a, b) + 1,
            month |-> IF m < 14 THEN m - 1 ELSE m - 13,
            day |-> n - Before(m) + 1,
            weekday |-> (1 + d) % 7]
<1> DEFINE days == d + 28188 + CenturyLeaps(d)
           years == (20 * days - 2442) \div (5 * Quadrennium)
           yearday == days - ((years * Quadrennium) \div 4)
           months == (64 * yearday) \div 1959
<1>1. years = March(k, j, a, b) - 1524 /\ yearday = n + 123 BY QuotientsAre
<1>2. n \in Nat /\ n <= 365 /\ March(k, j, a, b) \in Int BY DEF IsDay, March
<1>3. months = m BY <1>1, <1>2, MonthIs
<1>4. yearday - ((1959 * months) \div 64) = n - Before(m) + 1
  <2>1. PICK f \in Int : f = (1959 * m) \div 64 OBVIOUS
  <2>2. Before(m) = f - 122 BY <2>1 DEF Before
  <2>3. (1959 * months) \div 64 = f BY <1>3, <2>1
  <2>4. QED BY <1>1, <1>2, <2>2, <2>3
<1>5. TimeFields(d) =
        [year |-> IF months < 14 THEN years + 1524 ELSE years + 1525,
         month |-> IF months < 14 THEN months - 1 ELSE months - 13,
         day |-> yearday - ((1959 * months) \div 64),
         weekday |-> (1 + d) % 7]
  BY DEF TimeFields
<1>6. (IF months < 14 THEN years + 1524 ELSE years + 1525)
        = (IF m < 14 THEN March(k, j, a, b) ELSE March(k, j, a, b) + 1)
  BY <1>1, <1>2, <1>3
<1>7. (IF months < 14 THEN months - 1 ELSE months - 13) = (IF m < 14 THEN m - 1 ELSE m - 13)
  BY <1>3
<1> HIDE DEF days, years, yearday, months
<1>8. QED BY <1>4, <1>5, <1>6, <1>7

\* A year that ends with the February of this one has a day more.
HasLeapDay(j, a, b) == b = 3 /\ (a # 24 \/ j = 3)

\* A remainder.
LEMMA RemainderIs ==
  ASSUME NEW m \in Nat \ {0}, NEW q \in Int, NEW r \in Nat, r < m,
         NEW e \in Int, e = m * q + r
  PROVE  e % m = r
<1>1. r \in 0 .. m - 1 OBVIOUS
<1>2. (m * q + r) % m = r BY <1>1, DivisionIsOne
<1>3. QED BY <1>2

\* The leap years of the calendar are those (timefields.c 78).
LEMMA LeapYearsAre ==
  ASSUME NEW k \in Nat, NEW j \in Nat, NEW a \in Nat, NEW b \in Nat,
         j <= 3, a <= 24, b <= 3
  PROVE  IsLeap(March(k, j, a, b) + 1) <=> HasLeapDay(j, a, b)
<1>1. PICK x \in Int : x = March(k, j, a, b) + 1 /\ x = 1601 + 400 * k + 100 * j + 4 * a + b
  BY DEF March
<1>2. x % 4 = 0 <=> b = 3
  <2>1. CASE b = 3
    <3>1. PICK q \in Int, m \in Nat \ {0}, z \in Nat :
            q = 401 + 100 * k + 25 * j + a /\ m = 4 /\ z = 0
      OBVIOUS
    <3>2. x = m * q + z /\ z < m BY <1>1, <2>1, <3>1
    <3>3. x % m = z BY <3>2, RemainderIs
    <3>4. QED BY <2>1, <3>1, <3>3
  <2>2. CASE b # 3
    <3>1. PICK q \in Int, m \in Nat \ {0}, z \in Nat :
            q = 400 + 100 * k + 25 * j + a /\ m = 4 /\ z = 1 + b
      OBVIOUS
    <3>2. x = m * q + z /\ z < m BY <1>1, <2>2, <3>1
    <3>3. x % m = z BY <3>2, RemainderIs
    <3>4. QED BY <2>2, <3>1, <3>3
  <2>3. QED BY <2>1, <2>2
<1>3. x % 100 = 0 <=> b = 3 /\ a = 24
  <2>1. CASE b = 3 /\ a = 24
    <3>1. PICK q \in Int, m \in Nat \ {0}, z \in Nat : q = 17 + 4 * k + j /\ m = 100 /\ z = 0
      OBVIOUS
    <3>2. x = m * q + z /\ z < m BY <1>1, <2>1, <3>1
    <3>3. x % m = z BY <3>2, RemainderIs
    <3>4. QED BY <2>1, <3>1, <3>3
  <2>2. CASE b # 3 \/ a # 24
    <3>1. PICK q \in Int, m \in Nat \ {0}, z \in Nat :
            q = 16 + 4 * k + j /\ m = 100 /\ z = 1 + 4 * a + b
      OBVIOUS
    <3>2. x = m * q + z BY <1>1, <3>1
    <3>3. z < m BY <2>2, <3>1
    <3>4. x % m = z BY <3>2, <3>3, RemainderIs
    <3>5. QED BY <2>2, <3>1, <3>4
  <2>3. QED BY <2>1, <2>2
<1>4. ASSUME b = 3, a = 24 PROVE x % 400 = 0 <=> j = 3
  <2>1. CASE j = 3
    <3>1. PICK q \in Int, m \in Nat \ {0}, z \in Nat : q = 5 + k /\ m = 400 /\ z = 0 OBVIOUS
    <3>2. x = m * q + z /\ z < m BY <1>1, <1>4, <2>1, <3>1
    <3>3. x % m = z BY <3>2, RemainderIs
    <3>4. QED BY <2>1, <3>1, <3>3
  <2>2. CASE j # 3
    <3>1. PICK q \in Int, m \in Nat \ {0}, z \in Nat : q = 4 + k /\ m = 400 /\ z = 100 * j + 100
      OBVIOUS
    <3>2. x = m * q + z BY <1>1, <1>4, <3>1
    <3>3. z < m BY <2>2, <3>1
    <3>4. x % m = z BY <3>2, <3>3, RemainderIs
    <3>5. QED BY <2>2, <3>1, <3>4
  <2>3. QED BY <2>1, <2>2
<1>5. QED BY <1>1, <1>2, <1>3, <1>4 DEF IsLeap, HasLeapDay

\* The day is the last of its month.
EndsMonth(m, j, a, b, n) ==
  IF m < 15 THEN n + 1 = Before(m + 1)
  ELSE n = IF HasLeapDay(j, a, b) THEN 365 ELSE 364

\* Days of a month are numbered from 1 to the length the calendar gives it.
LEMMA MonthsEnd ==
  ASSUME NEW d \in Nat, NEW k, NEW j, NEW a, NEW b, NEW n, IsDay(d, k, j, a, b, n),
         NEW m \in Nat, InMonth(m, n)
  PROVE  LET today == TimeFields(d)
         IN  /\ today.day \in 1 .. MonthDays(today.year, today.month)
             /\ today.day = MonthDays(today.year, today.month) <=> EndsMonth(m, j, a, b, n)
<1>1. PICK year, month, length :
        /\ year = (IF m < 14 THEN March(k, j, a, b) ELSE March(k, j, a, b) + 1)
        /\ month = (IF m < 14 THEN m - 1 ELSE m - 13)
        /\ length = MonthDays(year, month)
  OBVIOUS
<1>2. /\ TimeFields(d).year = year /\ TimeFields(d).month = month
      /\ TimeFields(d).day = n - Before(m) + 1
  BY <1>1, FieldsAre
<1>3. /\ k \in Nat /\ j \in Nat /\ a \in Nat /\ b \in Nat /\ n \in Nat
      /\ j <= 3 /\ a <= 24 /\ b <= 3 /\ n <= 365 /\ (n = 365 => HasLeapDay(j, a, b))
  BY DEF IsDay, HasLeapDay
<1>4. IsLeap(March(k, j, a, b) + 1) <=> HasLeapDay(j, a, b) BY <1>3, LeapYearsAre
<1>5. /\ length \in Nat /\ 1 <= n - Before(m) + 1 /\ n - Before(m) + 1 <= length
      /\ n - Before(m) + 1 = length <=> EndsMonth(m, j, a, b, n)
  <2>1. m = 4 \/ m = 5 \/ m = 6 \/ m = 7 \/ m = 8 \/ m = 9 \/ m = 10 \/ m = 11
        \/ m = 12 \/ m = 13 \/ m = 14 \/ m = 15
    BY DEF InMonth
  <2>2. CASE m = 4 \/ m = 6 \/ m = 8 \/ m = 9 \/ m = 11 \/ m = 13 \/ m = 14
    <3>1. month \notin {2, 4, 6, 9, 11} BY <1>1, <2>2
    <3>2. length = 31 BY <1>1, <3>1 DEF MonthDays
    <3>3. QED BY <1>3, <2>2, <3>2, MonthsBegin DEF InMonth, EndsMonth
  <2>3. CASE m = 5 \/ m = 7 \/ m = 10 \/ m = 12
    <3>1. month \in {4, 6, 9, 11} BY <1>1, <2>3
    <3>2. length = 30 BY <1>1, <3>1 DEF MonthDays
    <3>3. QED BY <1>3, <2>3, <3>2, MonthsBegin DEF InMonth, EndsMonth
  <2>4. CASE m = 15
    <3>1. month = 2 /\ year = March(k, j, a, b) + 1 BY <1>1, <2>4
    <3>2. length = IF HasLeapDay(j, a, b) THEN 29 ELSE 28 BY <1>1, <1>4, <3>1 DEF MonthDays
    <3>3. QED BY <1>3, <2>4, <3>2, MonthsBegin DEF InMonth, EndsMonth
  <2>5. QED BY <2>1, <2>2, <2>3, <2>4
<1>6. n - Before(m) + 1 \in 1 .. length
  <2>1. Before(m) \in Int BY DEF Before
  <2>2. QED BY <1>3, <1>5, <2>1
<1>7. QED BY <1>1, <1>2, <1>5, <1>6

\* The place of the next day: in the same year, or on the first day of the next one.
LEMMA NextDay ==
  ASSUME NEW d \in Nat, NEW k, NEW j, NEW a, NEW b, NEW n, IsDay(d, k, j, a, b, n)
  PROVE  \/ IsDay(d + 1, k, j, a, b, n + 1)
         \/ /\ n = IF HasLeapDay(j, a, b) THEN 365 ELSE 364
            /\ \E kk, jj, aa, bb \in Nat :
                 /\ IsDay(d + 1, kk, jj, aa, bb, 0)
                 /\ March(kk, jj, aa, bb) = March(k, j, a, b) + 1
<1>1. /\ k \in Nat /\ j \in Nat /\ a \in Nat /\ b \in Nat /\ n \in Nat
      /\ j <= 3 /\ a <= 24 /\ b <= 3 /\ n <= 365
      /\ n = 365 => HasLeapDay(j, a, b)
      /\ d = 146097 * k + 36524 * j + 1461 * a + 365 * b + n - 306
  BY DEF IsDay, HasLeapDay
<1>2. CASE n < 364 \/ (n = 364 /\ HasLeapDay(j, a, b))
  <2>1. n + 1 \in Nat /\ n + 1 <= 365 /\ (n + 1 = 365 => b = 3 /\ (a # 24 \/ j = 3))
    BY <1>1, <1>2 DEF HasLeapDay
  <2>2. d + 1 = 146097 * k + 36524 * j + 1461 * a + 365 * b + (n + 1) - 306 BY <1>1
  <2>3. QED BY <1>1, <2>1, <2>2 DEF IsDay
<1>3. CASE n = IF HasLeapDay(j, a, b) THEN 365 ELSE 364
  <2>1. CASE b # 3
    <3>1. n = 364 BY <1>3, <2>1 DEF HasLeapDay
    <3>2. IsDay(d + 1, k, j, a, b + 1, 0) BY <1>1, <2>1, <3>1 DEF IsDay
    <3>3. March(k, j, a, b + 1) = March(k, j, a, b) + 1 BY <1>1 DEF March
    <3>4. b + 1 \in Nat BY <1>1
    <3>5. QED BY <1>1, <1>3, <3>2, <3>3, <3>4
  <2>2. CASE b = 3 /\ a # 24
    <3>1. n = 365 BY <1>3, <2>2 DEF HasLeapDay
    <3>2. IsDay(d + 1, k, j, a + 1, 0, 0) BY <1>1, <2>2, <3>1 DEF IsDay
    <3>3. March(k, j, a + 1, 0) = March(k, j, a, b) + 1 BY <1>1, <2>2 DEF March
    <3>4. a + 1 \in Nat /\ 0 \in Nat BY <1>1
    <3>5. QED BY <1>1, <1>3, <3>2, <3>3, <3>4
  <2>3. CASE b = 3 /\ a = 24 /\ j # 3
    <3>1. n = 364 BY <1>3, <2>3 DEF HasLeapDay
    <3>2. IsDay(d + 1, k, j + 1, 0, 0, 0) BY <1>1, <2>3, <3>1 DEF IsDay
    <3>3. March(k, j + 1, 0, 0) = March(k, j, a, b) + 1 BY <1>1, <2>3 DEF March
    <3>4. j + 1 \in Nat /\ 0 \in Nat BY <1>1
    <3>5. QED BY <1>1, <1>3, <3>2, <3>3, <3>4
  <2>4. CASE b = 3 /\ a = 24 /\ j = 3
    <3>1. n = 365 BY <1>3, <2>4 DEF HasLeapDay
    <3>2. IsDay(d + 1, k + 1, 0, 0, 0, 0) BY <1>1, <2>4, <3>1 DEF IsDay
    <3>3. March(k + 1, 0, 0, 0) = March(k, j, a, b) + 1 BY <1>1, <2>4 DEF March
    <3>4. k + 1 \in Nat /\ 0 \in Nat BY <1>1
    <3>5. QED BY <1>1, <1>3, <3>2, <3>3, <3>4
  <2>5. QED BY <2>1, <2>2, <2>3, <2>4
<1>4. QED BY <1>1, <1>2, <1>3

\* Months are not empty.
LEMMA MonthsFollow ==
  ASSUME NEW m \in Nat, 4 <= m, m < 15
  PROVE  Before(m) \in Int /\ Before(m) < Before(m + 1) /\ Before(m + 1) <= 337
<1>1. m = 4 \/ m = 5 \/ m = 6 \/ m = 7 \/ m = 8 \/ m = 9 \/ m = 10 \/ m = 11
      \/ m = 12 \/ m = 13 \/ m = 14
  OBVIOUS
<1>2. CASE m = 4 \/ m = 5 \/ m = 6 \/ m = 7 BY <1>2, MonthsBegin
<1>3. CASE m = 8 \/ m = 9 \/ m = 10 \/ m = 11 BY <1>3, MonthsBegin
<1>4. CASE m = 12 \/ m = 13 \/ m = 14 BY <1>4, MonthsBegin
<1>5. QED BY <1>1, <1>2, <1>3, <1>4

\* Weekdays follow each other.
LEMMA WeekdaysFollow ==
  ASSUME NEW d \in Nat
  PROVE  (1 + (d + 1)) % 7 = (((1 + d) % 7) + 1) % 7
OBVIOUS

\* The date after the one of any day, of RtlTimeToTimeFields, is the next one.
LEMMA DatesFollow ==
  ASSUME NEW d \in Nat
  PROVE  LET today == TimeFields(d)
             last == today.day = MonthDays(today.year, today.month)
             newyear == last /\ today.month = 12
         IN  TimeFields(d + 1) =
               [year |-> IF newyear THEN today.year + 1 ELSE today.year,
                month |-> IF newyear THEN 1 ELSE IF last THEN today.month + 1 ELSE today.month,
                day |-> IF last THEN 1 ELSE today.day + 1,
                weekday |-> (today.weekday + 1) % 7]
<1>1. PICK k \in Nat, j \in Nat, a \in Nat, b \in Nat, n \in Nat : IsDay(d, k, j, a, b, n)
  BY DaysAreCounted, Zenon
<1>2. n <= 365 /\ (n = 365 => HasLeapDay(j, a, b)) BY <1>1 DEF IsDay, HasLeapDay
<1>3. PICK m \in Nat : InMonth(m, n) BY <1>2, DaysHaveMonths
<1>4. PICK march \in Int : march = March(k, j, a, b) BY DEF March
<1>5. PICK today : today = TimeFields(d) OBVIOUS
<1>6. /\ today.year = (IF m < 14 THEN march ELSE march + 1)
      /\ today.month = (IF m < 14 THEN m - 1 ELSE m - 13)
      /\ today.day = n - Before(m) + 1
      /\ today.weekday = (1 + d) % 7
  <2>1. today =
           [year |-> IF m < 14 THEN March(k, j, a, b) ELSE March(k, j, a, b) + 1,
            month |-> IF m < 14 THEN m - 1 ELSE m - 13,
            day |-> n - Before(m) + 1,
            weekday |-> (1 + d) % 7]
    BY <1>1, <1>3, <1>5, FieldsAre
  <2>2. QED BY <1>4, <2>1
<1> DEFINE last == today.day = MonthDays(today.year, today.month)
           newyear == last /\ today.month = 12
<1>7. last <=> EndsMonth(m, j, a, b, n) BY <1>1, <1>3, <1>5, MonthsEnd
<1>8. /\ m \in Nat /\ 4 <= m /\ m <= 15 /\ Before(m) <= n /\ (m < 15 => n < Before(m + 1))
      /\ Before(m) \in Int
  BY <1>3 DEF InMonth, Before
<1> HIDE DEF last
<1>9. CASE IsDay(d + 1, k, j, a, b, n + 1)
  <2>1. n + 1 <= 365 /\ (n + 1 = 365 => HasLeapDay(j, a, b)) BY <1>9 DEF IsDay, HasLeapDay
  <2>2. CASE m < 15 /\ n + 1 = Before(m + 1)
    <3>1. last BY <1>7, <2>2 DEF EndsMonth
    <3>2. m + 1 \in Nat /\ n + 1 - Before(m + 1) + 1 = 1 BY <1>8, <2>2
    <3>3. m + 1 < 15 => Before(m + 1) < Before(m + 2)
      <4>1. (m + 1) + 1 = m + 2 OBVIOUS
      <4>2. QED BY <1>8, <3>2, <4>1, MonthsFollow
    <3>4. InMonth(m + 1, n + 1)
      <4>1. (m + 1) + 1 = m + 2 OBVIOUS
      <4>2. QED BY <1>8, <2>2, <3>2, <3>3, <4>1 DEF InMonth
    <3>5. TimeFields(d + 1) =
            [year |-> IF m + 1 < 14 THEN March(k, j, a, b) ELSE March(k, j, a, b) + 1,
             month |-> IF m + 1 < 14 THEN (m + 1) - 1 ELSE (m + 1) - 13,
             day |-> (n + 1) - Before(m + 1) + 1,
             weekday |-> (1 + (d + 1)) % 7]
      BY <1>9, <3>2, <3>4, FieldsAre
    <3>6. (1 + (d + 1)) % 7 = (today.weekday + 1) % 7 BY <1>6, WeekdaysFollow
    <3>7. today.month = 12 <=> m = 13 BY <1>6, <1>8
    <3>8. (IF m + 1 < 14 THEN March(k, j, a, b) ELSE March(k, j, a, b) + 1)
            = (IF newyear THEN today.year + 1 ELSE today.year)
      BY <1>4, <1>6, <1>8, <2>2, <3>1, <3>7
    <3>9. (IF m + 1 < 14 THEN (m + 1) - 1 ELSE (m + 1) - 13)
            = (IF newyear THEN 1 ELSE today.month + 1)
      BY <1>6, <1>8, <2>2, <3>1, <3>7
    <3>10. (n + 1) - Before(m + 1) + 1 = 1
      <4>1. PICK c \in Int : c = Before(m + 1) /\ c = n + 1 BY <2>2
      <4>2. QED BY <4>1
    <3>11. QED BY <1>5, <3>1, <3>5, <3>6, <3>8, <3>9, <3>10 DEF last
  <2>3. CASE m = 15 \/ n + 1 # Before(m + 1)
    <3>1. ~last BY <1>2, <1>7, <1>8, <2>1, <2>3 DEF EndsMonth
    <3>2. InMonth(m, n + 1)
      <4>1. m < 15 => Before(m + 1) \in Int BY DEF Before
      <4>2. QED BY <1>8, <2>3, <4>1 DEF InMonth
    <3>3. TimeFields(d + 1) =
            [year |-> IF m < 14 THEN March(k, j, a, b) ELSE March(k, j, a, b) + 1,
             month |-> IF m < 14 THEN m - 1 ELSE m - 13,
             day |-> (n + 1) - Before(m) + 1,
             weekday |-> (1 + (d + 1)) % 7]
      BY <1>9, <3>2, FieldsAre
    <3>4. (1 + (d + 1)) % 7 = (today.weekday + 1) % 7 BY <1>6, WeekdaysFollow
    <3>5. (n + 1) - Before(m) + 1 = today.day + 1 BY <1>6, <1>8
    <3>6. QED BY <1>4, <1>5, <1>6, <3>1, <3>3, <3>4, <3>5 DEF last
  <2>4. QED BY <1>8, <2>2, <2>3
<1>10. CASE /\ n = IF HasLeapDay(j, a, b) THEN 365 ELSE 364
            /\ \E kk, jj, aa, bb \in Nat :
                 /\ IsDay(d + 1, kk, jj, aa, bb, 0)
                 /\ March(kk, jj, aa, bb) = March(k, j, a, b) + 1
  <2>1. PICK kk \in Nat, jj \in Nat, aa \in Nat, bb \in Nat :
          IsDay(d + 1, kk, jj, aa, bb, 0) /\ March(kk, jj, aa, bb) = march + 1
    BY <1>4, <1>10
  <2>2. m = 15
    <3>1. ASSUME m < 15 PROVE FALSE
      <4>1. n < Before(m + 1) /\ Before(m + 1) <= 337 /\ Before(m + 1) \in Int
        BY <1>8, <3>1, MonthsFollow DEF Before
      <4>2. n >= 364 BY <1>10
      <4>3. QED BY <4>1, <4>2
    <3>2. QED BY <1>8, <3>1
  <2>3. last BY <1>7, <1>10, <2>2 DEF EndsMonth
  <2>4. InMonth(4, 0) /\ Before(4) = 0 BY MonthsBegin DEF InMonth
  <2>5. TimeFields(d + 1) =
          [year |-> March(kk, jj, aa, bb), month |-> 3, day |-> 1,
           weekday |-> (1 + (d + 1)) % 7]
    <3>1. TimeFields(d + 1) =
            [year |-> IF 4 < 14 THEN March(kk, jj, aa, bb) ELSE March(kk, jj, aa, bb) + 1,
             month |-> IF 4 < 14 THEN 4 - 1 ELSE 4 - 13,
             day |-> 0 - Before(4) + 1,
             weekday |-> (1 + (d + 1)) % 7]
      BY <2>1, <2>4, FieldsAre
    <3>2. QED BY <2>4, <3>1
  <2>6. (1 + (d + 1)) % 7 = (today.weekday + 1) % 7 BY <1>6, WeekdaysFollow
  <2>7. today.month = 2 /\ today.year = march + 1 BY <1>6, <2>2
  <2>8. QED BY <1>5, <2>1, <2>3, <2>5, <2>6, <2>7 DEF last
<1>11. QED BY <1>1, <1>9, <1>10, NextDay

\* The first day of the count, and the day that Unix counts from.
LEMMA Epochs ==
  /\ TimeFields(0) = [year |-> 1601, month |-> 1, day |-> 1, weekday |-> 1]
  /\ TimeFields(134774) = [year |-> 1970, month |-> 1, day |-> 1, weekday |-> 4]
<1>1. InMonth(14, 306) BY MonthsBegin DEF InMonth
<1>2. IsDay(0, 0, 0, 0, 0, 306) BY DEF IsDay
<1>3. IsDay(134774, 0, 3, 17, 1, 306) BY DEF IsDay
<1>4. March(0, 0, 0, 0) = 1600 /\ March(0, 3, 17, 1) = 1969 BY DEF March
<1>5. TimeFields(0) =
        [year |-> IF 14 < 14 THEN March(0, 0, 0, 0) ELSE March(0, 0, 0, 0) + 1,
         month |-> IF 14 < 14 THEN 14 - 1 ELSE 14 - 13,
         day |-> 306 - Before(14) + 1,
         weekday |-> (1 + 0) % 7]
  BY <1>1, <1>2, FieldsAre
<1>6. PICK d \in Nat : d = 134774 OBVIOUS
<1>7. TimeFields(d) =
        [year |-> IF 14 < 14 THEN March(0, 3, 17, 1) ELSE March(0, 3, 17, 1) + 1,
         month |-> IF 14 < 14 THEN 14 - 1 ELSE 14 - 13,
         day |-> 306 - Before(14) + 1,
         weekday |-> (1 + d) % 7]
  BY <1>1, <1>3, <1>6, FieldsAre
<1>8. (1 + 0) % 7 = 1 /\ (1 + d) % 7 = 4 BY <1>6
<1>9. QED BY <1>4, <1>5, <1>6, <1>7, <1>8, MonthsBegin

\* RtlTimeToTimeFields answers a date of the calendar.
LEMMA DatesAreOfTheCalendar ==
  ASSUME NEW d \in Nat
  PROVE  LET today == TimeFields(d)
         IN  /\ today.month \in 1 .. 12
             /\ today.day \in 1 .. MonthDays(today.year, today.month)
<1>1. PICK k \in Nat, j \in Nat, a \in Nat, b \in Nat, n \in Nat : IsDay(d, k, j, a, b, n)
  BY DaysAreCounted, Zenon
<1>2. n <= 365 BY <1>1 DEF IsDay
<1>3. PICK m \in Nat : InMonth(m, n) BY <1>2, DaysHaveMonths
<1>4. TimeFields(d).month = IF m < 14 THEN m - 1 ELSE m - 13 BY <1>1, <1>3, FieldsAre
<1>5. TimeFields(d).month \in 1 .. 12 BY <1>3, <1>4 DEF InMonth
<1>6. TimeFields(d).day \in 1 .. MonthDays(TimeFields(d).year, TimeFields(d).month)
  BY <1>1, <1>3, MonthsEnd
<1>7. QED BY <1>5, <1>6

\* The dates that RtlTimeToTimeFields answers follow each other, from the first on.
LEMMA CalendarFits ==
  ASSUME day \in Nat
  PROVE  TomorrowFollows /\ DatesExist
<1>1. TomorrowFollows BY DatesFollow DEF TomorrowFollows
<1>2. DatesExist BY DatesAreOfTheCalendar, Epochs DEF DatesExist
<1>3. QED BY <1>1, <1>2

\* The days that are looked at are counted from the first.
LEMMA DaysAreCountedUp ==
  ASSUME day \in Nat, [CalendarNext]_calendarVars
  PROVE  day' \in Nat
BY DEF CalendarNext, calendarVars

\* Deadlines are what was asked for, the counter stays in its second, and the dates
\* that RtlTimeToTimeFields answers are those of the calendar, each after the one
\* before (sync.c 60, time.c 67, timefields.c 85).
THEOREM TimesAreRightAlways == ClockSpec /\ CalendarSpec => []TimesAreRight
<1>1. ClockSpec => []ClockFits
  <2>1. ClockInit => ClockFits BY ClockStarts
  <2>2. ClockFits /\ [ClockNext]_clockVars => ClockFits' BY ClockStep
  <2>3. QED BY <2>1, <2>2, PTL DEF ClockSpec
<1>2. CalendarSpec => [](day \in Nat)
  <2>1. CalendarInit => day \in Nat BY CalendarAssumption DEF CalendarInit
  <2>2. day \in Nat /\ [CalendarNext]_calendarVars => (day \in Nat)' BY DaysAreCountedUp
  <2>3. QED BY <2>1, <2>2, PTL DEF CalendarSpec
<1>3. ClockFits /\ day \in Nat => TimesAreRight BY CalendarFits DEF ClockFits, TimesAreRight
<1>4. QED BY <1>1, <1>2, <1>3, PTL
=============================================================================
