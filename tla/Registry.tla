------------------------------ MODULE Registry ------------------------------
(***************************************************************************)
(* The registry of libs/ntdll/registry.c: a fixed table of values, found   *)
(* by their full path; keys are only names, writing changes nothing.       *)
(***************************************************************************)
EXTENDS Integers, Sequences, FiniteSetsExt

CONSTANTS
  Keys, ValueNames,  \* names of keys and values; a path is a pair
  RegKeys,           \* the table: a sequence of [path, len]
  Header,            \* size of KEY_VALUE_..._INFORMATION, by class
  BufferLengths,     \* lengths of the guest's buffers
  QueryTables        \* tables of RtlQueryRegistryValues: [name, direct, room]

ASSUME RegistryAssumption ==
  /\ RegKeys \in Seq([path : Keys \X ValueNames, len : Nat])
  /\ Header \in [DOMAIN Header -> Nat] /\ "other" \notin DOMAIN Header
  /\ BufferLengths \subseteq Nat
  /\ QueryTables \subseteq Seq([name : ValueNames, direct : BOOLEAN, room : Nat])

VARIABLES
  keys,      \* names of the keys the guest has open
  query,     \* the last NtQueryValueKey
  told,      \* the last question that a ResultLength was returned for
  multi      \* the last RtlQueryRegistryValues

registryVars == <<keys, query, told, multi>>

NoQuery == [path |-> <<>>, class |-> "none", length |-> 0, status |-> "none", bytes |-> 0]
NoMulti == [key |-> "none", table |-> <<>>, entry |-> 0, bytes |-> 0, status |-> "none"]

RegistryInit ==
  /\ keys = {} /\ query = NoQuery /\ multi = NoMulti
  /\ told = [path |-> <<>>, class |-> "none", length |-> 0]

\* RegistryLookup: the first value of the table with this path, 0 if there is
\* none.
Lookup(path) ==
  LET found == {i \in DOMAIN RegKeys : RegKeys[i].path = path}
  IN  IF found = {} THEN 0 ELSE Min(found)

\* Any name opens.
OpenKey(key) ==
  /\ keys' = keys \cup {key} /\ UNCHANGED <<query, told, multi>>

-----------------------------------------------------------------------------
(* NtQueryValueKey.                                                        *)

ResultLength(value, class) == RegKeys[value].len + Header[class]

\* Faulty variant: the header is not counted.
TooSmallForData(value, class, length) == length < RegKeys[value].len

TooSmall(value, class, length) == length < RegKeys[value].len + Header[class]

\* ResultLength is set before the length is looked at.
QueryValue(key, name, class, length) ==
  LET path == <<key, name>>
      value == Lookup(path)
      Reply(status, bytes) ==
        query' = [path |-> path, class |-> class, length |-> length, status |-> status, bytes |-> bytes]
  IN  /\ key \in keys
      /\ \/ value = 0 /\ Reply("not_found", 0) /\ UNCHANGED told
         \/ value # 0 /\ class = "other" /\ Reply("not_implemented", 0) /\ UNCHANGED told
         \/ /\ value # 0 /\ class # "other"
            /\ told' = [path |-> path, class |-> class, length |-> ResultLength(value, class)]
            /\ IF TooSmall(value, class, length) THEN Reply("too_small", 0)
               ELSE Reply("success", RegKeys[value].len)
      /\ multi' = NoMulti /\ UNCHANGED keys

-----------------------------------------------------------------------------
(* RtlQueryRegistryValues.                                                 *)

\* The loop ends at the first entry with RTL_QUERY_REGISTRY_DIRECT whose value
\* exists, also when its string is too short; a QueryRoutine is never called.
Answers(table, key) ==
  LET found == {i \in DOMAIN table : table[i].direct /\ Lookup(<<key, table[i].name>>) # 0}
  IN  IF found = {} THEN 0 ELSE Min(found)

QueryMany(key, table) ==
  LET entry == Answers(table, key)
      len == RegKeys[Lookup(<<key, table[entry].name>>)].len
  IN  /\ multi' = IF entry = 0 THEN [NoMulti EXCEPT !.key = key, !.table = table, !.status = "not_found"]
                  ELSE [key |-> key, table |-> table, entry |-> entry,
                        bytes |-> IF table[entry].room < len THEN 0 ELSE len,
                        status |-> IF table[entry].room < len THEN "too_small" ELSE "success"]
      /\ query' = NoQuery /\ UNCHANGED <<keys, told>>

RegistryNext ==
  \/ \E key \in Keys :
       \/ OpenKey(key)
       \/ \E name \in ValueNames, class \in DOMAIN Header \cup {"other"}, length \in BufferLengths :
            QueryValue(key, name, class, length)
       \/ \E table \in QueryTables : QueryMany(key, table)

RegistrySpec == RegistryInit /\ [][RegistryNext]_registryVars

-----------------------------------------------------------------------------
(* Properties.                                                             *)

\* Of every step: a guest that asks with too short a buffer and asks again with
\* the length it was told gets the whole value: the length announced by an
\* earlier question is enough for a later one (NtQueryValueKey).
AnnouncedLengthSuffices ==
  query'.status = "too_small" /\ told.path = query'.path /\ told.class = query'.class =>
    query'.length < told.length

\* A value that is handed out fits with its header into the buffer (NtQueryValueKey).
RepliesFit == query.status = "success" => query.bytes + Header[query.class] <= query.length

\* The table is answered for the first value that exists and is asked for
\* directly, and for no other; it fits the string (RtlQueryRegistryValues).
FirstDirectAnswers ==
  multi.entry # 0 =>
    /\ \A i \in 1 .. multi.entry - 1 :
         ~multi.table[i].direct \/ ~\E v \in DOMAIN RegKeys : RegKeys[v].path = <<multi.key, multi.table[i].name>>
    /\ multi.bytes <= multi.table[multi.entry].room

=============================================================================
