------------------------------- MODULE Devices -------------------------------
(***************************************************************************)
(* The questions about files and disks of libs/ntdll/ioctl.c.  A question  *)
(* has a code, a reply has a size that the buffer must have; some are put  *)
(* together from the replies to others.  Sizes are in units that keep      *)
(* which structure is the longer one; a disk is measured in sectors.       *)
(***************************************************************************)
EXTENDS Integers

CONSTANTS
  DiskSizes,  \* size of the image when it is opened
  Lengths,    \* buffer lengths of the guest
  Cylinder,   \* sectors of a cylinder (255 * 63)
  Track       \* sectors before the partition (63)

ASSUME DevicesAssumption ==
  /\ DiskSizes \subseteq Nat /\ Lengths \subseteq Nat
  /\ Cylinder \in Nat \ {0} /\ Track \in Nat

VARIABLES
  disk,    \* st.st_size of the handle
  iosb,    \* the status block, which the guest uses again
  reply    \* what the last call wrote: how much, and the facts of the disk

deviceVars == <<disk, iosb, reply>>

FileQuestions == {"alignment", "basic", "standard", "device"}
Settings == {"set_basic"}
DiskQuestions == {"number", "hotplug", "query_indicators", "length", "geometry", "partition",
                  "partition_ex", "layout", "layout_ex", "name", "dirty", "adapter"}
Orders == {"set_indicators", "is_writable", "verify", "set_partition", "lock", "dasd"}
Unanswered == {"retrieval_pointers", "access_alignment", "media_types", "other_property",
               "other_information"}
Codes == FileQuestions \cup Settings \cup DiskQuestions \cup Orders \cup Unanswered
           \cup {"other_fsctl", "other_ioctl"}

Entry(code) == IF code = "layout" THEN 2 ELSE 3
LayoutHead == 1

\* A drive layout has one entry of its own.
SizeOf(code) ==
  CASE code \in {"layout", "layout_ex"} -> LayoutHead + Entry(code)
    [] code = "partition" -> 2
    [] code \in {"partition_ex", "geometry", "name"} -> 3
    [] code \in FileQuestions \cup DiskQuestions \cup Settings -> 1
    [] code = "access_alignment" -> 2
    [] OTHER -> 0

\* The length that is asked for: with one entry more for a layout.
Needed(code) ==
  IF code \in {"layout", "layout_ex"} THEN SizeOf(code) + Entry(code) ELSE SizeOf(code)

\* Three entries are cleared behind the first one.
Written(code) ==
  IF code \in {"layout", "layout_ex"} THEN LayoutHead + 4 * Entry(code)
  ELSE IF code \in FileQuestions \cup DiskQuestions THEN SizeOf(code) ELSE 0

Unset == -1
NoFacts == [sector |-> Unset, cylinders |-> Unset, start |-> Unset, length |-> Unset]

\* Faulty variant: a disk that is too small is refused before the reply is begun.
GeometryLate ==
  LET cylinders == 1 + (disk \div Cylinder)
  IN  IF cylinders < 2 THEN [NoFacts EXCEPT !.cylinders = cylinders]
      ELSE [NoFacts EXCEPT !.sector = 1, !.cylinders = cylinders]

\* The reply has its sector size also when the disk turns out to be too small.
Geometry == [NoFacts EXCEPT !.sector = 1, !.cylinders = 1 + (disk \div Cylinder)]
DiskTooSmall == Geometry.cylinders < 2

\* The status of the inner call is not looked at.
Partition ==
  [NoFacts EXCEPT !.sector = Geometry.sector,
                  !.start = IF Geometry.sector = Unset THEN Unset ELSE Geometry.sector * Track,
                  !.length = disk]

Facts(code) ==
  CASE code = "geometry" -> Geometry
    [] code \in {"partition", "partition_ex", "layout", "layout_ex"} -> Partition
    [] code \in {"length", "standard"} -> [NoFacts EXCEPT !.length = disk]
    [] OTHER -> NoFacts

Silence(code) == [code |-> code, length |-> 0, written |-> 0, facts |-> NoFacts]

DeviceInit ==
  /\ disk \in DiskSizes
  /\ iosb = [status |-> "none", information |-> Unset]
  /\ reply = Silence("none")

-----------------------------------------------------------------------------

NotAborted == iosb.status # "abort"

Short(code, length) == length < Needed(code)

\* CTL_CHECK_SIZE and the comparisons of the information classes; Information
\* keeps its value.
TooShort(code, length) ==
  /\ NotAborted /\ Short(code, length)
  /\ iosb' = [iosb EXCEPT !.status = "too_small"]
  /\ reply' = Silence(code) /\ UNCHANGED disk

\* Answered in full.  A geometry that is refused was written all the same.
AnswerFully(code, length) ==
  /\ NotAborted /\ code \in FileQuestions \cup DiskQuestions /\ ~Short(code, length)
  /\ iosb' = IF code = "geometry" /\ DiskTooSmall THEN [iosb EXCEPT !.status = "invalid"]
             ELSE [status |-> "success", information |-> Needed(code)]
  /\ reply' = [code |-> code, length |-> length, written |-> Written(code), facts |-> Facts(code)]
  /\ UNCHANGED disk

\* Accepted, and nothing done; two of the codes clear Information.
Accept(code, length) ==
  /\ NotAborted /\ code \in Settings \cup Orders /\ ~Short(code, length)
  /\ iosb' = [status |-> "success",
              information |-> IF code \in {"verify", "set_partition"} THEN 0 ELSE iosb.information]
  /\ reply' = Silence(code) /\ UNCHANGED disk

\* A code that NtDeviceIoControlFile does not know ends the program; the others
\* are refused.
Refuse(code, length) ==
  /\ NotAborted /\ ~Short(code, length)
  /\ \/ code \in Unanswered /\ iosb' = [iosb EXCEPT !.status = "not_implemented"]
     \/ code = "other_fsctl" /\ iosb' = [iosb EXCEPT !.status = "invalid_request"]
     \/ code = "other_ioctl" /\ iosb' = [iosb EXCEPT !.status = "abort"]
  /\ reply' = Silence(code) /\ UNCHANGED disk

DeviceNext ==
  \E code \in Codes, length \in Lengths :
    \/ TooShort(code, length) \/ AnswerFully(code, length)
    \/ Accept(code, length) \/ Refuse(code, length)

DeviceSpec == DeviceInit /\ [][DeviceNext]_deviceVars

-----------------------------------------------------------------------------
(* Properties.                                                             *)

\* Nothing is written behind the buffer of the guest but the cleared entries of
\* a drive layout: its buffer is measured with two entries and written with
\* four (CTL_CHECK_SIZE; ioctl.c 464 and 481 against 472 and 492).
OnlyLayoutsOverrun ==
  /\ reply.written > reply.length => reply.code \in {"layout", "layout_ex"}
  /\ iosb.status = "success" /\ reply.written > 0 => iosb.information <= reply.length

\* A partition that is reported begins behind the first track whether or not
\* the disk was large enough for the question about its geometry, on which the
\* answer rests and whose status nobody looks at, also two calls deep; and its
\* length is the size when the file was opened (NtDeviceIoControlFile).
PartitionIsRight ==
  iosb.status = "success" /\ reply.facts.length # Unset =>
    /\ reply.facts.length = disk
    /\ reply.code \notin {"length", "standard"} => reply.facts.start = Track

\* The geometry that is reported has room for every sector of the disk, and is
\* larger by no more than one cylinder (IOCTL_DISK_GET_DRIVE_GEOMETRY).
GeometryCoversDisk ==
  iosb.status = "success" /\ reply.code = "geometry" =>
    /\ reply.facts.cylinders * Cylinder > disk
    /\ (reply.facts.cylinders - 1) * Cylinder \in 1 .. disk

\* Replies fit their buffers but for the layouts, and those about partition,
\* geometry and size agree (ioctl.c).
DiskAnswersAgree == OnlyLayoutsOverrun /\ PartitionIsRight /\ GeometryCoversDisk

=============================================================================
