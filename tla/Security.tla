------------------------------ MODULE Security ------------------------------
(***************************************************************************)
(* Access control lists and security descriptors: libs/ntdll/sd.c.  Sizes  *)
(* are in bytes as in the code, with a small modulus for the 16-bit field  *)
(* AclSize.  An ACE is its type and its size; what it grants is left out.  *)
(* The lists that the guest adds are whole ACEs.                           *)
(***************************************************************************)
EXTENDS Integers, Sequences

CONSTANTS
  SizeModulus,  \* 65536: AclSize is a WORD
  AclSizes,     \* the sizes that the guest creates lists of
  SubCounts,    \* sub-authorities of its SIDs
  Revisions,    \* revisions that it passes
  AceLists      \* the lists that it passes to RtlAddAce

Ace == [type : {"allowed", "compound"}, size : Nat \ {0}]

\* AclSize counts more than the 8 bytes of sizeof(ACL), and its width is a
\* multiple of the alignment.
ASSUME SecurityAssumption ==
  /\ SizeModulus \in Nat /\ SizeModulus > 8 /\ SizeModulus % 4 = 0
  /\ AclSizes \subseteq Nat /\ SubCounts \subseteq Nat /\ Revisions \subseteq Nat
  /\ AceLists \subseteq Seq(Ace)

VARIABLES
  acl,      \* AclRevision, AclSize, the ACEs; whether they were torn
  present,  \* SE_DACL_PRESENT of a descriptor that refers to the list
  dacl,     \* its Dacl is the list, not null
  group     \* the sub-authorities of its Group, -1 without one

securityVars == <<acl, present, dacl, group>>

AclHeader == 8                  \* sizeof(ACL)
AceHeader == 8                  \* sizeof(ACE)
DescriptorSize == 20            \* sizeof(SECURITY_DESCRIPTOR), also relative
NoOffset == -1
RoundUp(n) == 4 * ((n + 3) \div 4)

-----------------------------------------------------------------------------
(* SIDs and lists.                                                         *)

LengthSid(subs) == 8 + 4 * subs
ValidSid(subs) == subs <= 15
MinSid == 12                    \* sizeof(SID), with one sub-authority

\* AceSize of an ACE for a SID, without object types.
AceSize(subs) == LengthSid(subs) + AceHeader

\* The bytes of the first n ACEs, and of all.
BytesUpTo(aces, n) ==
  LET sum[i \in 0 .. Len(aces)] == IF i = 0 THEN 0 ELSE sum[i - 1] + aces[i].size
  IN  sum[n]

AceBytes(aces) == BytesUpTo(aces, Len(aces))

\* RtlFirstFreeAce: the walk over the ACEs, each of which has to begin within
\* the list and to suit its revision; it ends at the first free byte.
FirstFreeAce(a) ==
  LET begin(i) == AclHeader + BytesUpTo(a.aces, i - 1)
  IN  IF a.aces = <<>> THEN [ok |-> TRUE, free |-> AclHeader]
      ELSE IF \E i \in 1 .. Len(a.aces) :
                begin(i) >= a.size \/ (a.aces[i].type = "compound" /\ a.revision < 3)
      THEN [ok |-> FALSE, free |-> NoOffset]
      ELSE LET end == begin(Len(a.aces) + 1)
           IN  [ok |-> TRUE, free |-> IF end < a.size THEN end ELSE NoOffset]

ValidRevision(revision) == revision \in 2 .. 4

ValidAcl(a) ==
  ValidRevision(a.revision) /\ RoundUp(a.size) = a.size /\ FirstFreeAce(a).ok

\* RtlQueryInformationAcl, AclSizeInformation
InUse(a) == IF FirstFreeAce(a).free = NoOffset THEN a.size ELSE FirstFreeAce(a).free

-----------------------------------------------------------------------------
(* Calls on the list.                                                      *)

SecurityInit ==
  /\ acl = [revision |-> 2, size |-> AclHeader, aces |-> <<>>, torn |-> FALSE]
  /\ present = FALSE /\ dacl = FALSE /\ group = -1

descriptor == <<present, dacl, group>>

\* The size that is stored may have become 0: 0xfffd and above are rounded up
\* to 0x10000.
CreateAcl(size, revision) ==
  /\ size >= AclHeader /\ size < SizeModulus /\ ValidRevision(revision)
  /\ acl' = [revision |-> revision, size |-> RoundUp(size) % SizeModulus,
             aces |-> <<>>, torn |-> FALSE]
  /\ UNCHANGED descriptor

Fits(a, bytes) ==
  FirstFreeAce(a).free # NoOffset /\ FirstFreeAce(a).free + bytes <= a.size

\* Faulty variant: the revision of the list is set to that of the call.
RaisedTo(old, new) == new

Raised(old, new) == IF new < old THEN old ELSE new

\* RtlpAddKnownAce
AddAccessAllowedAce(revision, subs) ==
  /\ ~acl.torn
  /\ ValidSid(subs) /\ acl.revision <= 4 /\ revision <= 4
  /\ FirstFreeAce(acl).ok /\ Fits(acl, AceSize(subs))
  /\ acl' = [acl EXCEPT !.aces = Append(@, [type |-> "allowed", size |-> AceSize(subs)]),
                        !.revision = Raised(@, revision)]
  /\ UNCHANGED descriptor

\* Of the list only the type of the first ACE is looked at.  The revision is
\* lowered to that of the call, not raised.  RtlpAddData moves the ACEs behind
\* the place with memcpy: where they overlap with themselves they may be torn,
\* and the model follows such a list no further than to its next creation.
AddAce(revision, index, list) ==
  LET lowered == IF acl.revision <= revision THEN acl.revision ELSE revision
      moved == AceBytes(acl.aces) - BytesUpTo(acl.aces, index)
  IN  /\ ~acl.torn
      /\ ValidRevision(acl.revision) /\ FirstFreeAce(acl).ok /\ list # <<>>
      /\ ~(list[1].type = "compound" /\ lowered < 3)
      /\ Fits(acl, AceBytes(list))
      /\ \E torn \in {FALSE, moved > AceBytes(list)} :
           acl' = [acl EXCEPT !.aces = SubSeq(@, 1, index) \o list
                                         \o SubSeq(@, index + 1, Len(@)),
                              !.revision = lowered, !.torn = torn]
      /\ UNCHANGED descriptor

-----------------------------------------------------------------------------
(* The descriptor.                                                         *)

CreateSecurityDescriptor ==
  /\ present' = FALSE /\ dacl' = FALSE /\ group' = -1 /\ UNCHANGED acl

\* The flag for a default that both calls keep is left out.
SetGroup(subs) == group' = subs /\ UNCHANGED <<acl, present, dacl>>

SetDacl(isPresent, toList) ==
  /\ present' = isPresent
  /\ dacl' = IF isPresent THEN toList ELSE dacl
  /\ UNCHANGED <<acl, group>>

SecurityNext ==
  \/ \E size \in AclSizes, revision \in Revisions : CreateAcl(size, revision)
  \/ \E revision \in Revisions, subs \in SubCounts : AddAccessAllowedAce(revision, subs)
  \/ \E revision \in Revisions, list \in AceLists :
       \E index \in 0 .. Len(acl.aces) : AddAce(revision, index, list)
  \/ CreateSecurityDescriptor
  \/ \E subs \in SubCounts \cup {-1} : SetGroup(subs)
  \/ \E isPresent, toList \in BOOLEAN : SetDacl(isPresent, toList)

SecuritySpec == SecurityInit /\ [][SecurityNext]_securityVars

\* RtlpQuerySecurityDescriptorPointers hides a Dacl that is not present.
HasDacl == present /\ dacl

LengthSecurityDescriptor ==
  DescriptorSize + (IF group = -1 THEN 0 ELSE RoundUp(LengthSid(group)))
                 + (IF HasDacl THEN RoundUp(acl.size) ELSE 0)

ValidSecurityDescriptor ==
  /\ group # -1 => ValidSid(group)
  /\ HasDacl => ValidAcl(acl)

\* RtlpValidateSDOffsetAndSize: the bytes that a part may have, 0 if there is
\* no room for it at its offset.
\* Faulty variant: the alignment of the offset is not looked at.
SafeBytesUnaligned(offset, length, least) ==
  IF offset < DescriptorSize \/ offset >= length \/ length - offset < least
  THEN 0 ELSE length - offset

SafeBytes(offset, length, least) ==
  IF offset < DescriptorSize \/ offset >= length \/ length - offset < least
       \/ offset % 4 # 0
  THEN 0 ELSE length - offset

\* RtlValidRelativeSecurityDescriptor for a group at groupAt, 0 without one,
\* and the list at aclAt.
ValidRelative(length, needsGroup, groupAt, subs, hasDacl, aclAt) ==
  /\ length >= DescriptorSize
  /\ IF groupAt # 0
     THEN /\ SafeBytes(groupAt, length, MinSid) > 0 /\ ValidSid(subs)
          /\ LengthSid(subs) <= SafeBytes(groupAt, length, MinSid)
     ELSE ~needsGroup
  /\ hasDacl => /\ SafeBytes(aclAt, length, AclHeader) > 0 /\ ValidAcl(acl)
                /\ acl.size <= SafeBytes(aclAt, length, AclHeader)

-----------------------------------------------------------------------------
(* Properties.                                                             *)

SecurityTypeOK ==
  /\ acl.revision \in Revisions \cup {2} /\ acl.size \in 0 .. SizeModulus - 1
  /\ acl.aces \in Seq(Ace) /\ acl.torn \in BOOLEAN
  /\ present \in BOOLEAN /\ dacl \in BOOLEAN /\ group \in SubCounts \cup {-1}

\* The ACEs fill a list to its end at most, and what RtlQueryInformationAcl
\* says of its bytes is true (RtlFirstFreeAce, RtlpAddKnownAce, RtlAddAce);
\* not so for a list whose size was rounded up to nothing, which stays empty.
AcesFit ==
  IF acl.torn THEN TRUE
  ELSE IF acl.size = 0 THEN acl.aces = <<>>
  ELSE /\ AclHeader + AceBytes(acl.aces) <= acl.size
       /\ FirstFreeAce(acl).ok => InUse(acl) = AclHeader + AceBytes(acl.aces)

\* Of every step: a valid list becomes invalid in two ways only, both in
\* RtlAddAce: it takes over a revision below that of the list, or an ACE of a
\* later revision that is not the first of those added.  RtlpAddKnownAce keeps
\* a list valid.
ValidListStaysValid ==
  ValidAcl(acl) /\ ~ValidAcl(acl') =>
    \E revision \in Revisions, list \in AceLists :
      /\ \E index \in 0 .. Len(acl.aces) : AddAce(revision, index, list)
      /\ \/ revision < acl.revision
         \/ \E i \in 2 .. Len(list) : list[i].type = "compound"

\* What RtlValidRelativeSecurityDescriptor accepts lies between the header
\* and the end of the descriptor, aligned, and is valid (checked for groups, and
\* for the list of the state, at offsets beside and on the parts).
AcceptedPartsAreInside ==
  \A length \in {24, 44, 60, 64} :
    /\ \A groupAt \in {0, 20, 21, 32}, subs \in SubCounts :
         ValidRelative(length, TRUE, groupAt, subs, FALSE, 0) =>
           /\ groupAt >= DescriptorSize /\ groupAt + LengthSid(subs) <= length
           /\ groupAt % 4 = 0
    /\ \A aclAt \in {0, 20, 32, 34, 40} :
         ValidRelative(length, FALSE, 0, 0, TRUE, aclAt) =>
           /\ aclAt >= DescriptorSize /\ aclAt % 4 = 0
           /\ aclAt + AclHeader + AceBytes(acl.aces) <= length

\* The ACEs of a list and the parts of an accepted descriptor are inside of it
\* (RtlpAddKnownAce, RtlAddAce, RtlValidRelativeSecurityDescriptor).
ListsStayInside == SecurityTypeOK /\ AcesFit /\ AcceptedPartsAreInside
=============================================================================
