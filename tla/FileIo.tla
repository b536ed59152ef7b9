------------------------------- MODULE FileIo -------------------------------
(***************************************************************************)
(* The files of libs/ntdll/io.c but for the keyboard (see Kbd): opening,   *)
(* transfers and NtClose.  A descriptor of the operating system has the    *)
(* position of its transfers, which all users of a handle share.           *)
(*                                                                         *)
(* Sizes and offsets are in blocks; a transfer is of one block.  The guest *)
(* closes no handle that one of its calls uses.  The event and the APC     *)
(* routine at the end of a transfer are left out.                          *)
(***************************************************************************)
EXTENDS Integers, FiniteSets, FiniteSetsExt

CONSTANTS
  IoThreads,   \* threads of the guest
  Handles,     \* the addresses that handles are allocated at
  Descriptors, \* descriptors that open returns; 0 and 1 are stdin and stdout
  MaxBlocks,   \* bound: no file grows beyond
  NoFile       \* the null handle, a closed descriptor, no offset

\* The volume, with the image that stands for it, is opened as any file here:
\* see Namespace for the look at /etc/mtab.
PathName == {"log", "image", "keyboard", "mailslot", "file"}
Access == {"read", "write", "append"}
Standard == {0, 1}

\* What a descriptor refers to, and what a handle records of it.
OpenFile == [store : {"terminal", "image", "null", "other"}, pos : 0 .. MaxBlocks]
FileHandle == [fd : Descriptors \cup Standard, mode : Access, size : 0 .. MaxBlocks]

ASSUME FileAssumption ==
  /\ IsFiniteSet(IoThreads) /\ IsFiniteSet(Handles)
  /\ Descriptors \subseteq Nat \ Standard
  /\ MaxBlocks \in Nat \ {0}
  /\ NoFile \notin Handles \cup Descriptors \cup Standard \cup 0 .. MaxBlocks
  /\ NoFile \notin OpenFile /\ NoFile \notin FileHandle

VARIABLES
  blocks,    \* size of the image
  fds,       \* open descriptors: what they refer to and the position
  handles,   \* live file handles: fh, st.st_size, the mode of the descriptor
  lost,      \* descriptors that no handle refers to
  io         \* the call of each thread

fileVars == <<blocks, fds, handles, lost, io>>

Idle == [pc |-> "idle", access |-> NoFile, fd |-> NoFile, handle |-> NoFile, kind |-> NoFile, offset |-> NoFile,
         alone |-> TRUE]

IsOpen(h) == handles[h] # NoFile
UsersOf(h) == {t \in IoThreads : io[t].handle = h}

Goto(t, pc) == io' = [io EXCEPT ![t].pc = pc]
Finish(t) == io' = [io EXCEPT ![t] = Idle]

FileInit ==
  /\ blocks = 1
  /\ fds = [d \in Descriptors \cup Standard |->
              IF d \in Standard THEN [store |-> "terminal", pos |-> 0] ELSE NoFile]
  /\ handles = [h \in Handles |-> NoFile]
  /\ lost = {}
  /\ io = [t \in IoThreads |-> Idle]

-----------------------------------------------------------------------------
(* NtCreateFile, NtOpenFile.                                               *)

\* unix_open: of the other files only those that are read are opened; open
\* returns the lowest free descriptor, or fails and the call with it.
Refused(path, access) == path = "file" /\ access # "read"

StoreOf(path) ==
  CASE path = "image" -> "image"
    [] path = "log" -> "null"
    [] path = "file" -> "other"
    [] OTHER -> "terminal"

Open(t, path, access) ==
  LET free == {d \in Descriptors : fds[d] = NoFile}
      lowest == {d \in free : \A e \in free : d <= e}
      Go(d) == io' = [io EXCEPT ![t].pc = "stat", ![t].fd = d, ![t].access = access]
  IN  /\ io[t].pc = "idle"
      /\ \E h \in Handles : ~IsOpen(h)
      /\ \/ path = "keyboard" /\ Go(0) /\ UNCHANGED fds
         \/ path = "mailslot" /\ Go(1) /\ UNCHANGED fds
         \/ /\ path \notin {"keyboard", "mailslot"} /\ ~Refused(path, access)
            /\ \E d \in lowest :
                 Go(d) /\ fds' = [fds EXCEPT ![d] = [store |-> StoreOf(path), pos |-> 0]]
      /\ UNCHANGED <<blocks, handles, lost>>

\* fstat takes the size of now; a handle is allocated.  Where fstat fails, the
\* descriptor stays open.
CreateHandle(t) ==
  /\ io[t].pc = "stat"
  /\ LET fd == io[t].fd
     IN  \/ \E h \in {x \in Handles : ~IsOpen(x)} :
              /\ handles' = [handles EXCEPT ![h] =
                   [fd |-> fd, mode |-> io[t].access,
                    size |-> CASE fds[fd].store = "image" -> blocks
                               [] fds[fd].store = "other" -> 1
                               [] OTHER -> 0]]
              /\ UNCHANGED lost
         \/ /\ UNCHANGED handles
            /\ lost' = lost \cup ({fd} \ Standard)
  /\ Finish(t)
  /\ UNCHANGED <<blocks, fds>>

-----------------------------------------------------------------------------
(* NtReadFile and NtWriteFile of a file.                                   *)

\* st.st_size < ByteOffset->QuadPart
BeyondSize(h, offset) == offset # NoFile /\ handles[h].size < offset

\* The call that begins and those under way on the handle cross each other.
TransferCall(t, h, kind, offset) ==
  /\ io[t].pc = "idle" /\ IsOpen(h) /\ handles[h].fd # 0
  /\ ~BeyondSize(h, offset)
  /\ io' = [u \in IoThreads |->
              IF u = t
              THEN [Idle EXCEPT !.pc = IF offset = NoFile THEN "move" ELSE "seek",
                                !.handle = h, !.kind = kind, !.offset = offset,
                                !.alone = UsersOf(h) = {}]
              ELSE IF u \in UsersOf(h) THEN [io[u] EXCEPT !.alone = FALSE] ELSE io[u]]
  /\ UNCHANGED <<blocks, fds, handles, lost>>

\* Faulty variant: the descriptor keeps its position.
SeekTargetOld(t) == fds[handles[io[t].handle].fd].pos

SeekTarget(t) == io[t].offset

Seek(t) ==
  /\ io[t].pc = "seek"
  /\ fds' = [fds EXCEPT ![handles[io[t].handle].fd].pos = SeekTarget(t)]
  /\ Goto(t, "move")
  /\ UNCHANGED <<blocks, handles, lost>>

\* Where the transfer of t begins: O_APPEND moves a write to the end.
Place(t) ==
  LET h == handles[io[t].handle]
  IN  IF io[t].kind = "write" /\ h.mode = "append" /\ fds[h.fd].store = "image"
      THEN blocks ELSE fds[h.fd].pos

Move(t) ==
  /\ io[t].pc = "move"
  /\ LET h == handles[io[t].handle]
         reads == io[t].kind = "read"
         end == CASE fds[h.fd].store = "image" -> blocks
                  [] fds[h.fd].store = "other" -> 1
                  [] OTHER -> 0
         to == IF reads THEN Max({Place(t), Min({Place(t) + 1, end})}) ELSE Place(t) + 1
     IN  \/ /\ reads \/ (h.mode # "read" /\ to <= MaxBlocks)
            /\ fds' = IF fds[h.fd].store \in {"terminal", "null"} THEN fds
                      ELSE [fds EXCEPT ![h.fd].pos = to]
            /\ blocks' = IF ~reads /\ fds[h.fd].store = "image"
                         THEN Max({blocks, to}) ELSE blocks
         \/ UNCHANGED <<fds, blocks>>         \* read or write fails
  /\ Finish(t)
  /\ UNCHANGED <<handles, lost>>

-----------------------------------------------------------------------------
(* NtClose.                                                                *)

IsClosed(fd) == fd \notin Standard

Close(t, h) ==
  /\ io[t].pc = "idle" /\ IsOpen(h) /\ UsersOf(h) = {}
  /\ handles' = [handles EXCEPT ![h] = NoFile]
  /\ fds' = IF IsClosed(handles[h].fd)
            THEN [fds EXCEPT ![handles[h].fd] = NoFile] ELSE fds
  /\ UNCHANGED <<blocks, lost, io>>

FileNext ==
  \/ \E t \in IoThreads :
       \/ \E path \in PathName, access \in Access : Open(t, path, access)
       \/ CreateHandle(t)
       \/ \E h \in Handles :
            \/ \E kind \in {"read", "write"}, offset \in {NoFile} \cup 0 .. MaxBlocks :
                 TransferCall(t, h, kind, offset)
            \/ Close(t, h)
       \/ Seek(t) \/ Move(t)

FileSpec == FileInit /\ [][FileNext]_fileVars

-----------------------------------------------------------------------------
(* Properties.                                                             *)

\* What a thread is in the middle of.
IoCall ==
  [pc : {"idle", "stat", "seek", "move"}, access : Access \cup {NoFile},
   fd : Descriptors \cup Standard \cup {NoFile}, handle : Handles \cup {NoFile},
   kind : {"read", "write", NoFile}, offset : 0 .. MaxBlocks \cup {NoFile},
   alone : BOOLEAN]

FilesTypeOK ==
  /\ blocks \in 1 .. MaxBlocks
  /\ fds \in [Descriptors \cup Standard -> OpenFile \cup {NoFile}]
  /\ handles \in [Handles -> FileHandle \cup {NoFile}]
  /\ lost \subseteq Descriptors
  /\ io \in [IoThreads -> IoCall]

\* A descriptor that is open belongs to one handle, to the call that opens it,
\* or was lost by a call that could not look at its size; the descriptor of a
\* live handle is open, those of the terminal always (NtCreateFile, NtClose).
DescriptorsAreOwned ==
  LET owners(d) == Cardinality({h \in Handles : IsOpen(h) /\ handles[h].fd = d})
                     + Cardinality({t \in IoThreads : io[t].fd = d})
  IN  /\ \A d \in Descriptors :
           owners(d) + (IF d \in lost THEN 1 ELSE 0) = IF fds[d] = NoFile THEN 0 ELSE 1
      /\ \A d \in Standard : fds[d] # NoFile

\* A transfer takes place at its ByteOffset unless another call on the handle
\* crosses it between lseek and the transfer, or the handle was opened to
\* append (NtReadFile, NtWriteFile).
InPlace(t) ==
  io[t].pc = "move" /\ io[t].offset # NoFile /\ io[t].alone =>
    \/ Place(t) = io[t].offset
    \/ handles[io[t].handle].mode = "append"
    \/ fds[handles[io[t].handle].fd].store \in {"terminal", "null"}

LoneTransferIsInPlace == \A t \in IoThreads : InPlace(t)

\* No transfer of the image begins behind its end, so that a write makes it
\* longer by what it writes at most and leaves no hole, though the size it is
\* compared with is that of the open (NtWriteFile, "avoid enlarging").
NoHoles ==
  \A d \in DOMAIN fds : fds[d] # NoFile /\ fds[d].store = "image" => fds[d].pos <= blocks

\* All of it: descriptors are those of live handles or lost, transfers that do
\* not meet others are in place, and the image has no holes.
TransfersAreInPlace ==
  FilesTypeOK /\ DescriptorsAreOwned /\ LoneTransferIsInPlace /\ NoHoles

=============================================================================
