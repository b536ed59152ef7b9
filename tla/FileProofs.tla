---------------------------- MODULE FileProofs ----------------------------
(***************************************************************************)
(* Proofs about module FileIo, for any number of threads, handles and      *)
(* descriptors and a file of any size: the descriptors belong to the live  *)
(* handles, transfers that meet no other are in place, and the image has   *)
(* no holes.                                                               *)
(*                                                                         *)
(* FilesFit is what makes these inductive: which call and which handle has *)
(* each descriptor, and that the size a handle recorded at its open is     *)
(* not more than the image has now, since the image never shrinks.         *)
(*                                                                         *)
(* The same for module Namespace: a volume that stays mounted is not       *)
(* opened, and scans that do not meet see it once.                         *)
(***************************************************************************)
EXTENDS FileIo, Namespace, FiniteSetTheorems, TLAPS

\* A call that opens a file has a descriptor that is open; one that transfers
\* has a live handle that is not the keyboard, and an offset that the handle
\* allows.
CallFits(t) ==
  LET c == io[t]
  IN  /\ c.pc = "idle" => c = Idle
      /\ c.pc = "stat" => c.fd # NoFile /\ c.handle = NoFile /\ c.access \in Access
      /\ c.pc \in {"seek", "move"} =>
           /\ c.fd = NoFile /\ c.handle \in Handles /\ IsOpen(c.handle)
           /\ c.offset # NoFile => c.offset <= handles[c.handle].size
           /\ c.pc = "seek" => c.offset # NoFile

\* No two transfers that have not crossed use one handle.
AloneFits ==
  \A t, u \in IoThreads :
    io[t].alone /\ io[t].handle # NoFile /\ io[u].handle = io[t].handle => u = t

\* A descriptor that is closed has no owner, one that is open has one.
OwnedBy(h, d) == IsOpen(h) /\ handles[h].fd = d

Owners ==
  \A d \in Descriptors :
    /\ \A g, h \in Handles : OwnedBy(g, d) /\ OwnedBy(h, d) => g = h
    /\ \A t, u \in IoThreads : io[t].fd = d /\ io[u].fd = d => t = u
    /\ \A h \in Handles, t \in IoThreads : ~(OwnedBy(h, d) /\ io[t].fd = d)
    /\ d \in lost =>
         /\ \A h \in Handles : ~OwnedBy(h, d)
         /\ \A t \in IoThreads : io[t].fd # d
    /\ fds[d] # NoFile <=>
         \/ d \in lost
         \/ \E h \in Handles : OwnedBy(h, d)
         \/ \E t \in IoThreads : io[t].fd = d

StandardIsTerminal ==
  \A d \in Standard : fds[d] # NoFile /\ fds[d].store = "terminal"

\* The size recorded in a handle of the image is not more than it has.
SizeIsOld ==
  \A h \in Handles :
    IsOpen(h) /\ fds[handles[h].fd].store = "image" => handles[h].size <= blocks

FilesFit ==
  /\ \A t \in IoThreads : CallFits(t)
  /\ AloneFits /\ Owners /\ StandardIsTerminal /\ SizeIsOld
  /\ LoneTransferIsInPlace /\ NoHoles

-----------------------------------------------------------------------------
(* Steps.                                                                  *)

\* What the assumption says of the values that stand for nothing.
LEMMA NoFileIsNothing ==
  /\ NoFile \notin Handles /\ NoFile \notin Descriptors /\ NoFile \notin Standard
  /\ NoFile \notin OpenFile /\ NoFile \notin FileHandle /\ NoFile \notin 0 .. MaxBlocks
  /\ MaxBlocks \in Nat /\ MaxBlocks >= 1
  /\ \A d \in Descriptors : d \notin Standard /\ d \in Nat
BY FileAssumption

\* Max and Min of two numbers.
LEMMA OfTwo ==
  ASSUME NEW a \in Int, NEW b \in Int
  PROVE  /\ Max({a, b}) = IF a >= b THEN a ELSE b
         /\ Min({a, b}) = IF a <= b THEN a ELSE b
<1>1. \A x \in {a, b} : (\A y \in {a, b} : x >= y) => x = IF a >= b THEN a ELSE b
  OBVIOUS
<1>2. \A x \in {a, b} : (\A y \in {a, b} : x <= y) => x = IF a <= b THEN a ELSE b
  OBVIOUS
<1>3. \E x \in {a, b} : \A y \in {a, b} : x >= y OBVIOUS
<1>4. \E x \in {a, b} : \A y \in {a, b} : x <= y OBVIOUS
<1>5. QED BY <1>1, <1>2, <1>3, <1>4 DEF Max, Min

\* What a live handle refers to is open.
LEMMA HandleIsOpen ==
  ASSUME FilesTypeOK, FilesFit, NEW h \in Handles, IsOpen(h)
  PROVE  /\ handles[h] \in FileHandle
         /\ handles[h].fd \in Descriptors \cup Standard
         /\ fds[handles[h].fd] \in OpenFile /\ fds[handles[h].fd] # NoFile
<1>1. handles[h] \in FileHandle BY DEF FilesTypeOK, IsOpen
<1>2. handles[h].fd \in Descriptors \cup Standard BY <1>1 DEF FileHandle
<1>3. fds[handles[h].fd] # NoFile
  BY <1>2 DEF FilesFit, StandardIsTerminal, Owners, OwnedBy
<1>4. QED BY <1>1, <1>2, <1>3 DEF FilesTypeOK

\* A transfer whose handle and descriptor are left alone stays in place.
LEMMA StaysInPlace ==
  ASSUME FilesTypeOK, FilesFit, NEW u \in IoThreads,
         io'[u] = io[u], handles'[io[u].handle] = handles[io[u].handle],
         LET fd == handles[io[u].handle].fd
         IN  fds'[fd] = fds[fd] \/ fds'[fd].store \in {"terminal", "null"}
  PROVE  InPlace(u)'
BY DEF FilesFit, LoneTransferIsInPlace, InPlace, Place

\* NtCreateFile: a free descriptor belongs to the call that opens it.
LEMMA OpenFits ==
  ASSUME FilesTypeOK, FilesFit, NEW t \in IoThreads, NEW path \in PathName,
         NEW access \in Access, Open(t, path, access)
  PROVE  FilesTypeOK' /\ FilesFit'
<1>1. PICK d \in Descriptors \cup Standard :
        /\ io' = [io EXCEPT ![t].pc = "stat", ![t].fd = d, ![t].access = access]
        /\ \/ d \in Standard /\ UNCHANGED fds
           \/ /\ d \in Descriptors /\ fds[d] = NoFile
              /\ fds' = [fds EXCEPT ![d] = [store |-> StoreOf(path), pos |-> 0]]
  <2>1. CASE UNCHANGED fds BY <2>1 DEF Open, Standard
  <2>2. CASE ~UNCHANGED fds BY <2>2 DEF Open, Standard
  <2>3. QED BY <2>1, <2>2
<1>2. UNCHANGED <<blocks, handles, lost>> BY DEF Open
<1>3. io[t] = Idle BY DEF Open, FilesFit, CallFits
<1>4. /\ io'[t] = [Idle EXCEPT !.pc = "stat", !.fd = d, !.access = access]
      /\ \A u \in IoThreads \ {t} : io'[u] = io[u]
  BY <1>1, <1>3 DEF FilesTypeOK
<1>5. FilesTypeOK'
  <2>1. io' \in [IoThreads -> IoCall]
    BY <1>1, <1>3, <1>4, NoFileIsNothing DEF FilesTypeOK, IoCall, Idle
  <2>2. [store |-> StoreOf(path), pos |-> 0] \in OpenFile
    BY NoFileIsNothing DEF OpenFile, StoreOf, PathName
  <2>3. QED BY <1>1, <1>2, <2>1, <2>2 DEF FilesTypeOK
<1>6. \A u \in IoThreads : CallFits(u)'
  <2>1. CallFits(t)' BY <1>4, NoFileIsNothing DEF CallFits, Idle
  <2>2. ASSUME NEW u \in IoThreads \ {t} PROVE CallFits(u)'
    BY <1>2, <1>4 DEF FilesFit, CallFits, IsOpen
  <2>3. QED BY <2>1, <2>2
<1>7. AloneFits'
  <2>1. \A u \in IoThreads : io'[u].handle = io[u].handle /\ io'[u].alone = io[u].alone
    <3>1. /\ io'[t].handle = Idle.handle /\ io'[t].alone = Idle.alone
      BY <1>4 DEF Idle
    <3>2. QED BY <1>3, <1>4, <3>1
  <2>2. QED BY <2>1 DEF FilesFit, AloneFits
<1>8. \A h \in Handles, e \in Descriptors : OwnedBy(h, e)' <=> OwnedBy(h, e)
  BY <1>2 DEF OwnedBy, IsOpen
<1>9. Owners'
  <2>1. /\ io[t].fd = NoFile /\ io'[t].fd = d
        /\ \A u \in IoThreads \ {t} : io'[u].fd = io[u].fd
    BY <1>3, <1>4 DEF Idle
  <2>2. CASE d \in Standard
    <3>1. \A u \in IoThreads, e \in Descriptors : io'[u].fd = e <=> io[u].fd = e
      BY <2>1, <2>2, NoFileIsNothing
    <3>2. fds' = fds BY <1>1, <2>2, NoFileIsNothing
    <3>3. QED BY <1>2, <1>8, <3>1, <3>2 DEF FilesFit, Owners
  <2>3. CASE d \in Descriptors
    <3>1. /\ fds[d] = NoFile
          /\ fds' = [fds EXCEPT ![d] = [store |-> StoreOf(path), pos |-> 0]]
          /\ [store |-> StoreOf(path), pos |-> 0] # NoFile
      BY <1>1, <2>3, NoFileIsNothing DEF OpenFile, StoreOf, PathName
    <3>2. /\ d \notin lost /\ \A h \in Handles : ~OwnedBy(h, d)
          /\ \A u \in IoThreads : io[u].fd # d
      BY <2>3, <3>1 DEF FilesFit, Owners
    <3>3. fds'[d] # NoFile /\ \A e \in Descriptors \ {d} : fds'[e] = fds[e]
      BY <2>3, <3>1 DEF FilesTypeOK
    <3>4. \A u \in IoThreads, e \in Descriptors \ {d} : io'[u].fd = e <=> io[u].fd = e
      BY <2>1, NoFileIsNothing
    <3>5. \A u \in IoThreads : io'[u].fd = d <=> u = t BY <2>1, <3>2
    <3>6. QED BY <1>2, <1>8, <3>2, <3>3, <3>4, <3>5 DEF FilesFit, Owners
  <2>4. QED BY <2>2, <2>3
<1>10. \A e \in Descriptors \cup Standard : fds[e] # NoFile => fds'[e] = fds[e]
  BY <1>1 DEF FilesTypeOK
<1>11. StandardIsTerminal' BY <1>10 DEF FilesFit, StandardIsTerminal
<1>12. \A h \in Handles : IsOpen(h) =>
         fds[handles[h].fd] # NoFile /\ handles[h].fd \in Descriptors \cup Standard
  BY HandleIsOpen
<1>13. SizeIsOld' BY <1>2, <1>10, <1>12 DEF FilesFit, SizeIsOld, IsOpen
<1>14. LoneTransferIsInPlace'
  <2>1. InPlace(t)' BY <1>4 DEF InPlace, Idle
  <2>2. ASSUME NEW u \in IoThreads \ {t} PROVE InPlace(u)'
    <3>1. CASE io[u].pc = "move"
      <4>1. IsOpen(io[u].handle) /\ io[u].handle \in Handles
        BY <3>1 DEF FilesFit, CallFits
      <4>2. QED BY <1>2, <1>4, <1>10, <4>1, HandleIsOpen, StaysInPlace
    <3>2. CASE io[u].pc # "move" BY <1>4, <3>2 DEF InPlace
    <3>3. QED BY <3>1, <3>2
  <2>3. QED BY <2>1, <2>2 DEF LoneTransferIsInPlace
<1>15. NoHoles'
  <2>1. DOMAIN fds' = Descriptors \cup Standard /\ DOMAIN fds = Descriptors \cup Standard
    BY <1>5 DEF FilesTypeOK
  <2>2. \A e \in Descriptors \cup Standard :
          fds'[e] = fds[e] \/ fds'[e].pos = 0
    BY <1>1 DEF FilesTypeOK
  <2>3. blocks' = blocks /\ blocks >= 0 BY <1>2 DEF FilesTypeOK
  <2>4. QED BY <2>1, <2>2, <2>3 DEF FilesFit, NoHoles
<1>16. QED BY <1>5, <1>6, <1>7, <1>9, <1>11, <1>13, <1>14, <1>15 DEF FilesFit

\* NtCreateFile: the handle takes the descriptor over, or it is lost.
LEMMA CreateFits ==
  ASSUME FilesTypeOK, FilesFit, NEW t \in IoThreads, CreateHandle(t)
  PROVE  FilesTypeOK' /\ FilesFit'
<1>1. /\ io[t].pc = "stat" /\ UNCHANGED <<blocks, fds>>
      /\ io'[t] = Idle /\ \A u \in IoThreads \ {t} : io'[u] = io[u]
  BY DEF CreateHandle, Finish, FilesTypeOK
<1>2. PICK d : d = io[t].fd OBVIOUS
<1>3. /\ d \in Descriptors \cup Standard /\ io[t].handle = NoFile /\ io[t].access \in Access
  BY <1>1, <1>2 DEF FilesFit, CallFits, FilesTypeOK, IoCall
<1>4. fds[d] \in OpenFile /\ fds[d] # NoFile
  BY <1>2, <1>3 DEF FilesFit, Owners, StandardIsTerminal, FilesTypeOK
<1>5. AloneFits'
  <2>1. \A u \in IoThreads : io'[u].handle # NoFile => u # t /\ io'[u] = io[u]
    BY <1>1 DEF Idle
  <2>2. QED BY <2>1 DEF FilesFit, AloneFits
<1>6. StandardIsTerminal' /\ NoHoles'
  BY <1>1 DEF FilesFit, StandardIsTerminal, NoHoles
<1>7. \A u \in IoThreads : io'[u].fd = IF u = t THEN NoFile ELSE io[u].fd
  BY <1>1 DEF Idle
<1>8. Idle \in IoCall BY DEF Idle, IoCall
<1>9. io' \in [IoThreads -> IoCall] BY <1>8 DEF CreateHandle, Finish, FilesTypeOK
<1>10. CASE \E h \in {x \in Handles : ~IsOpen(x)} :
              /\ handles' = [handles EXCEPT ![h] =
                   [fd |-> d, mode |-> io[t].access,
                    size |-> CASE fds[d].store = "image" -> blocks
                               [] fds[d].store = "other" -> 1
                               [] OTHER -> 0]]
              /\ UNCHANGED lost
  <2>1. PICK h \in {x \in Handles : ~IsOpen(x)}, size \in 0 .. MaxBlocks :
          /\ handles' = [handles EXCEPT ![h] = [fd |-> d, mode |-> io[t].access, size |-> size]]
          /\ fds[d].store = "image" => size <= blocks
    <3>1. PICK h \in {x \in Handles : ~IsOpen(x)} :
              handles' = [handles EXCEPT ![h] =
                   [fd |-> d, mode |-> io[t].access,
                    size |-> CASE fds[d].store = "image" -> blocks
                               [] fds[d].store = "other" -> 1
                               [] OTHER -> 0]]
      BY <1>10
    <3>2. blocks \in 0 .. MaxBlocks /\ 1 \in 0 .. MaxBlocks /\ 0 \in 0 .. MaxBlocks
      BY NoFileIsNothing DEF FilesTypeOK
    <3>3. PICK size : size = CASE fds[d].store = "image" -> blocks
                               [] fds[d].store = "other" -> 1
                               [] OTHER -> 0
      OBVIOUS
    <3>4. size \in 0 .. MaxBlocks /\ (fds[d].store = "image" => size <= blocks)
      BY <3>2, <3>3
    <3>5. QED BY <3>1, <3>3, <3>4
  <2>2. /\ handles'[h] = [fd |-> d, mode |-> io[t].access, size |-> size]
        /\ handles'[h] \in FileHandle /\ handles'[h] # NoFile
        /\ \A g \in Handles \ {h} : handles'[g] = handles[g]
    BY <1>3, <2>1, NoFileIsNothing DEF FilesTypeOK, FileHandle
  <2>3. FilesTypeOK' BY <1>1, <1>9, <1>10, <2>1, <2>2 DEF FilesTypeOK
  <2>4. \A g \in Handles : IsOpen(g) => g # h /\ handles'[g] = handles[g]
    BY <2>1, <2>2
  <2>5. \A u \in IoThreads : CallFits(u)'
    <3>1. CallFits(t)' BY <1>1 DEF CallFits, Idle
    <3>2. ASSUME NEW u \in IoThreads \ {t} PROVE CallFits(u)'
      BY <1>1, <2>4 DEF FilesFit, CallFits, IsOpen
    <3>3. QED BY <3>1, <3>2
  <2>6. \A g \in Handles, e \in Descriptors :
          OwnedBy(g, e)' <=> OwnedBy(g, e) \/ (g = h /\ e = d)
    BY <2>1, <2>2 DEF OwnedBy, IsOpen
  <2>7. ~\E e \in Descriptors : OwnedBy(h, e) BY <2>1 DEF OwnedBy
  <2>8. \A u \in IoThreads, e \in Descriptors :
          io'[u].fd = e <=> io[u].fd = e /\ ~(u = t)
    BY <1>7, NoFileIsNothing
  <2>9. Owners'
    <3> SUFFICES ASSUME NEW e \in Descriptors
                 PROVE  /\ \A f, g \in Handles : OwnedBy(f, e)' /\ OwnedBy(g, e)' => f = g
                        /\ \A u, v \in IoThreads : io'[u].fd = e /\ io'[v].fd = e => u = v
                        /\ \A g \in Handles, u \in IoThreads : ~(OwnedBy(g, e)' /\ io'[u].fd = e)
                        /\ e \in lost' =>
                             /\ \A g \in Handles : ~OwnedBy(g, e)'
                             /\ \A u \in IoThreads : io'[u].fd # e
                        /\ fds'[e] # NoFile <=>
                             \/ e \in lost'
                             \/ \E g \in Handles : OwnedBy(g, e)'
                             \/ \E u \in IoThreads : io'[u].fd = e
      BY DEF Owners
    <3>1. lost' = lost /\ fds' = fds BY <1>1, <1>10
    <3>2. CASE e = d
      <4>1. \A g \in Handles : ~OwnedBy(g, e) BY <1>2, <3>2 DEF FilesFit, Owners
      <4>2. \A g \in Handles : OwnedBy(g, e)' <=> g = h BY <2>6, <3>2, <4>1
      <4>3. \A u \in IoThreads : io'[u].fd # e
        BY <1>2, <2>8, <3>2 DEF FilesFit, Owners
      <4>4. e \notin lost BY <1>2, <3>2 DEF FilesFit, Owners
      <4>5. QED BY <1>4, <2>1, <3>1, <3>2, <4>2, <4>3, <4>4
    <3>3. CASE e # d
      <4>1. \A g \in Handles : OwnedBy(g, e)' <=> OwnedBy(g, e) BY <2>6, <3>3
      <4>2. \A u \in IoThreads : io'[u].fd = e <=> io[u].fd = e BY <1>2, <2>8, <3>3
      <4>3. QED BY <3>1, <4>1, <4>2 DEF FilesFit, Owners
    <3>4. QED BY <3>2, <3>3
  <2>10. SizeIsOld'
    <3>1. fds' = fds /\ blocks' = blocks BY <1>1
    <3>2. QED BY <2>1, <2>2, <3>1 DEF FilesFit, SizeIsOld, IsOpen
  <2>11. LoneTransferIsInPlace'
    <3>1. InPlace(t)' BY <1>1 DEF InPlace, Idle
    <3>2. ASSUME NEW u \in IoThreads \ {t} PROVE InPlace(u)'
      <4>1. CASE io[u].pc = "move"
        <5>1. IsOpen(io[u].handle) /\ io[u].handle \in Handles
          BY <4>1 DEF FilesFit, CallFits
        <5>2. QED BY <1>1, <2>4, <5>1, StaysInPlace
      <4>2. CASE io[u].pc # "move" BY <1>1, <4>2 DEF InPlace
      <4>3. QED BY <4>1, <4>2
    <3>3. QED BY <3>1, <3>2 DEF LoneTransferIsInPlace
  <2>12. QED BY <1>5, <1>6, <2>3, <2>5, <2>9, <2>10, <2>11 DEF FilesFit
<1>11. CASE UNCHANGED handles /\ lost' = lost \cup ({d} \ Standard)
  <2>1. FilesTypeOK' BY <1>1, <1>3, <1>9, <1>11 DEF FilesTypeOK
  <2>2. \A u \in IoThreads : CallFits(u)'
    <3>1. CallFits(t)' BY <1>1 DEF CallFits, Idle
    <3>2. ASSUME NEW u \in IoThreads \ {t} PROVE CallFits(u)'
      BY <1>1, <1>11 DEF FilesFit, CallFits, IsOpen
    <3>3. QED BY <3>1, <3>2
  <2>3. \A g \in Handles, e \in Descriptors : OwnedBy(g, e)' <=> OwnedBy(g, e)
    BY <1>11 DEF OwnedBy, IsOpen
  <2>4. \A u \in IoThreads, e \in Descriptors : io'[u].fd = e <=> io[u].fd = e /\ ~(u = t)
    BY <1>7, NoFileIsNothing
  <2>5. \A e \in Descriptors : e \in lost' <=> e \in lost \/ e = d
    BY <1>11, NoFileIsNothing
  <2>6. Owners' BY <1>1, <1>2, <1>4, <2>3, <2>4, <2>5 DEF FilesFit, Owners
  <2>7. SizeIsOld' BY <1>1, <1>11 DEF FilesFit, SizeIsOld, IsOpen
  <2>8. LoneTransferIsInPlace'
    <3>1. InPlace(t)' BY <1>1 DEF InPlace, Idle
    <3>2. ASSUME NEW u \in IoThreads \ {t} PROVE InPlace(u)'
      BY <1>1, <1>11, StaysInPlace
    <3>3. QED BY <3>1, <3>2 DEF LoneTransferIsInPlace
  <2>9. QED BY <1>5, <1>6, <2>1, <2>2, <2>6, <2>7, <2>8 DEF FilesFit
<1>12. QED BY <1>2, <1>10, <1>11 DEF CreateHandle

\* A transfer begins on a live handle.
LEMMA TransferFits ==
  ASSUME FilesTypeOK, FilesFit, NEW t \in IoThreads, NEW h \in Handles,
         NEW kind \in {"read", "write"}, NEW offset \in {NoFile} \cup 0 .. MaxBlocks,
         TransferCall(t, h, kind, offset)
  PROVE  FilesTypeOK' /\ FilesFit'
<1>1. /\ io[t] = Idle /\ IsOpen(h) /\ UNCHANGED <<blocks, fds, handles, lost>>
      /\ handles[h] \in FileHandle /\ h # NoFile
  BY NoFileIsNothing, HandleIsOpen DEF TransferCall, FilesFit, CallFits
<1>2. PICK pc : pc = IF offset = NoFile THEN "move" ELSE "seek" OBVIOUS
<1>3. /\ io' \in [IoThreads -> IoCall]
      /\ io'[t] = [Idle EXCEPT !.pc = pc, !.handle = h, !.kind = kind,
                               !.offset = offset, !.alone = UsersOf(h) = {}]
      /\ \A u \in IoThreads \ {t} :
           io'[u] = IF u \in UsersOf(h) THEN [io[u] EXCEPT !.alone = FALSE] ELSE io[u]
  <2>1. [Idle EXCEPT !.pc = pc, !.handle = h, !.kind = kind, !.offset = offset,
                     !.alone = UsersOf(h) = {}] \in IoCall
    BY <1>2 DEF Idle, IoCall
  <2>2. \A u \in IoThreads : [io[u] EXCEPT !.alone = FALSE] \in IoCall
    BY DEF FilesTypeOK, IoCall
  <2>3. QED BY <1>2, <2>1, <2>2 DEF TransferCall, FilesTypeOK
<1>4. FilesTypeOK' BY <1>1, <1>3 DEF FilesTypeOK
<1>5. \A u \in IoThreads \ {t} :
        /\ io'[u].pc = io[u].pc /\ io'[u].fd = io[u].fd /\ io'[u].handle = io[u].handle
        /\ io'[u].kind = io[u].kind /\ io'[u].offset = io[u].offset
        /\ io'[u].access = io[u].access
        /\ io'[u].alone => io[u].alone /\ u \notin UsersOf(h)
        /\ io'[u] = Idle <=> io[u] = Idle
  <2> SUFFICES ASSUME NEW u \in IoThreads \ {t}
               PROVE  /\ io'[u].pc = io[u].pc /\ io'[u].fd = io[u].fd
                      /\ io'[u].handle = io[u].handle /\ io'[u].kind = io[u].kind
                      /\ io'[u].offset = io[u].offset /\ io'[u].access = io[u].access
                      /\ io'[u].alone => io[u].alone /\ u \notin UsersOf(h)
                      /\ io'[u] = Idle <=> io[u] = Idle
    OBVIOUS
  <2>1. CASE u \notin UsersOf(h) BY <1>3, <2>1
  <2>2. CASE u \in UsersOf(h)
    <3>1. io'[u] = [io[u] EXCEPT !.alone = FALSE] BY <1>3, <2>2
    <3>2. io[u] \in IoCall /\ io[u].handle = h BY <2>2 DEF FilesTypeOK, UsersOf
    <3>3. /\ io'[u].pc = io[u].pc /\ io'[u].fd = io[u].fd
          /\ io'[u].handle = io[u].handle /\ io'[u].kind = io[u].kind
          /\ io'[u].offset = io[u].offset /\ io'[u].access = io[u].access
          /\ ~io'[u].alone
      BY <3>1, <3>2 DEF IoCall
    <3>4. io'[u] # Idle /\ io[u] # Idle BY <1>1, <3>2, <3>3, NoFileIsNothing DEF Idle
    <3>5. QED BY <3>3, <3>4
  <2>3. QED BY <2>1, <2>2
<1>6. \A u \in IoThreads : CallFits(u)'
  <2>1. CallFits(t)'
    <3>1. /\ io'[t].pc \in {"seek", "move"} /\ io'[t].fd = NoFile /\ io'[t].handle = h
          /\ io'[t].offset = offset /\ (io'[t].pc = "seek" => offset # NoFile)
      BY <1>2, <1>3 DEF Idle
    <3>2. offset # NoFile => offset <= handles[h].size
      <4>1. offset # NoFile => ~(handles[h].size < offset)
        <5>1. ~BeyondSize(h, offset) BY DEF TransferCall
        <5>2. QED BY <5>1 DEF BeyondSize
      <4>2. handles[h].size \in Int BY <1>1 DEF FileHandle
      <4>3. offset # NoFile => offset \in Int OBVIOUS
      <4>4. QED BY <4>1, <4>2, <4>3
    <3>3. QED BY <1>1, <3>1, <3>2 DEF CallFits, IsOpen
  <2>2. ASSUME NEW u \in IoThreads \ {t} PROVE CallFits(u)'
    BY <1>1, <1>5 DEF FilesFit, CallFits, IsOpen
  <2>3. QED BY <2>1, <2>2
<1>7. AloneFits'
  <2> SUFFICES ASSUME NEW u \in IoThreads, NEW v \in IoThreads, io'[u].alone,
                      io'[u].handle # NoFile, io'[v].handle = io'[u].handle
               PROVE  v = u
    BY DEF AloneFits
  <2>1. CASE u = t
    <3>1. UsersOf(h) = {} /\ io'[u].handle = h BY <1>3, <2>1 DEF Idle
    <3>2. QED BY <1>5, <2>1, <3>1 DEF UsersOf
  <2>2. CASE u # t
    <3>1. io[u].handle # h /\ io[u].alone /\ io'[u].handle = io[u].handle
      BY <1>5, <2>2 DEF UsersOf
    <3>2. v # t BY <1>3, <3>1 DEF Idle
    <3>3. QED BY <1>5, <3>1, <3>2 DEF FilesFit, AloneFits
  <2>3. QED BY <2>1, <2>2
<1>8. Owners'
  <2>1. \A u \in IoThreads : io'[u].fd = io[u].fd
    <3>1. io'[t].fd = NoFile /\ io[t].fd = NoFile BY <1>1, <1>3 DEF Idle
    <3>2. QED BY <1>5, <3>1
  <2>2. \A g \in Handles, e \in Descriptors : OwnedBy(g, e)' <=> OwnedBy(g, e)
    BY <1>1 DEF OwnedBy, IsOpen
  <2>3. QED BY <1>1, <2>1, <2>2 DEF FilesFit, Owners
<1>9. StandardIsTerminal' /\ SizeIsOld' /\ NoHoles'
  BY <1>1 DEF FilesFit, StandardIsTerminal, SizeIsOld, NoHoles, IsOpen
<1>10. LoneTransferIsInPlace'
  <2>1. InPlace(t)' BY <1>2, <1>3 DEF InPlace, Idle
  <2>2. ASSUME NEW u \in IoThreads \ {t} PROVE InPlace(u)'
    <3>1. Place(u)' = Place(u) BY <1>1, <1>5 DEF Place
    <3>2. QED BY <1>1, <1>5, <3>1 DEF FilesFit, LoneTransferIsInPlace, InPlace
  <2>3. QED BY <2>1, <2>2 DEF LoneTransferIsInPlace
<1>11. QED BY <1>4, <1>6, <1>7, <1>8, <1>9, <1>10 DEF FilesFit

\* lseek moves the descriptor that the handle shares with all its users.
LEMMA SeekFits ==
  ASSUME FilesTypeOK, FilesFit, NEW t \in IoThreads, Seek(t)
  PROVE  FilesTypeOK' /\ FilesFit'
<1>1. PICK h \in Handles, fd \in Descriptors \cup Standard :
        /\ h = io[t].handle /\ IsOpen(h) /\ fd = handles[h].fd
        /\ fds[fd] \in OpenFile /\ handles[h] \in FileHandle
        /\ io[t].offset # NoFile /\ io[t].offset <= handles[h].size
  BY HandleIsOpen DEF Seek, FilesFit, CallFits
<1>2. PICK at : at = io[t].offset /\ at \in 0 .. MaxBlocks
  BY <1>1 DEF FilesTypeOK, IoCall
<1>3. /\ UNCHANGED <<blocks, handles, lost>>
      /\ io[t].pc = "seek" /\ io[t] \in IoCall
      /\ io'[t] = [io[t] EXCEPT !.pc = "move"] /\ \A u \in IoThreads \ {t} : io'[u] = io[u]
      /\ fds' = [fds EXCEPT ![fd].pos = at]
  BY <1>1, <1>2 DEF Seek, Goto, SeekTarget, FilesTypeOK
<1>4. /\ fds'[fd] \in OpenFile /\ fds'[fd].store = fds[fd].store /\ fds'[fd].pos = at
      /\ \A e \in (Descriptors \cup Standard) \ {fd} : fds'[e] = fds[e]
  BY <1>1, <1>2, <1>3 DEF FilesTypeOK, OpenFile
<1>5. /\ io'[t].pc = "move" /\ io'[t].handle = h /\ io'[t].fd = io[t].fd
      /\ io'[t].offset = at /\ io'[t].kind = io[t].kind /\ io'[t].alone = io[t].alone
  BY <1>1, <1>2, <1>3 DEF IoCall
<1>6. FilesTypeOK'
  <2>1. io' \in [IoThreads -> IoCall]
    <3>1. [io[t] EXCEPT !.pc = "move"] \in IoCall BY <1>3 DEF IoCall
    <3>2. QED BY <3>1 DEF Seek, Goto, FilesTypeOK
  <2>2. fds' \in [Descriptors \cup Standard -> OpenFile \cup {NoFile}]
    BY <1>3, <1>4 DEF FilesTypeOK
  <2>3. QED BY <1>3, <2>1, <2>2 DEF FilesTypeOK
<1>7. \A u \in IoThreads : CallFits(u)'
  <2>1. CallFits(t)'
    BY <1>1, <1>2, <1>3, <1>5 DEF FilesFit, CallFits, IsOpen
  <2>2. ASSUME NEW u \in IoThreads \ {t} PROVE CallFits(u)'
    BY <1>3 DEF FilesFit, CallFits, IsOpen
  <2>3. QED BY <2>1, <2>2
<1>8. \A u \in IoThreads : io'[u].fd = io[u].fd /\ io'[u].handle = io[u].handle
                            /\ io'[u].alone = io[u].alone
  BY <1>1, <1>3, <1>5
<1>9. AloneFits' BY <1>8 DEF FilesFit, AloneFits
<1>10. \A e \in Descriptors \cup Standard :
         /\ fds'[e] # NoFile <=> fds[e] # NoFile
         /\ fds[e] # NoFile => fds'[e].store = fds[e].store
  BY <1>1, <1>4, NoFileIsNothing
<1>11. Owners'
  <2>1. \A g \in Handles, e \in Descriptors : OwnedBy(g, e)' <=> OwnedBy(g, e)
    BY <1>3 DEF OwnedBy, IsOpen
  <2>2. QED BY <1>3, <1>8, <1>10, <2>1 DEF FilesFit, Owners
<1>12. StandardIsTerminal' BY <1>10 DEF FilesFit, StandardIsTerminal
<1>13. SizeIsOld'
  BY <1>3, <1>10, HandleIsOpen DEF FilesFit, SizeIsOld, IsOpen
<1>14. NoHoles'
  <2>1. DOMAIN fds' = Descriptors \cup Standard /\ DOMAIN fds = Descriptors \cup Standard
    BY <1>6 DEF FilesTypeOK
  <2>2. fds[fd].store = "image" => at <= blocks
    <3>1. fds[fd].store = "image" => handles[h].size <= blocks
      BY <1>1 DEF FilesFit, SizeIsOld
    <3>2. handles[h].size \in Int /\ blocks \in Int BY <1>1 DEF FileHandle, FilesTypeOK
    <3>3. QED BY <1>1, <1>2, <3>1, <3>2
  <2>3. QED BY <1>3, <1>4, <2>1, <2>2 DEF FilesFit, NoHoles
<1>15. LoneTransferIsInPlace'
  <2>1. InPlace(t)' BY <1>1, <1>3, <1>4, <1>5 DEF InPlace, Place
  <2>2. ASSUME NEW u \in IoThreads \ {t} PROVE InPlace(u)'
    <3> SUFFICES ASSUME io'[u].pc = "move", io'[u].alone PROVE InPlace(u)'
      BY DEF InPlace
    <3>1. /\ io'[u] = io[u] /\ io[u].handle \in Handles /\ IsOpen(io[u].handle)
      BY <1>3 DEF FilesFit, CallFits
    <3>2. io[u].handle # h
      BY <1>1, <3>1, NoFileIsNothing DEF FilesFit, AloneFits
    <3>3. PICK e \in Descriptors \cup Standard : e = handles[io[u].handle].fd
      BY <3>1, HandleIsOpen
    <3>4. CASE e \in Descriptors
      <4>1. e # fd BY <1>1, <3>1, <3>2, <3>3, <3>4 DEF FilesFit, Owners, OwnedBy
      <4>2. QED BY <1>3, <1>4, <3>1, <3>3, <4>1, StaysInPlace
    <3>5. CASE e \in Standard
      <4>1. fds'[e].store = "terminal" BY <1>12, <3>5 DEF StandardIsTerminal
      <4>2. QED BY <1>3, <3>1, <3>3, <4>1, StaysInPlace
    <3>6. QED BY <3>4, <3>5
  <2>3. QED BY <2>1, <2>2 DEF LoneTransferIsInPlace
<1>16. QED BY <1>6, <1>7, <1>9, <1>11, <1>12, <1>13, <1>14, <1>15 DEF FilesFit

\* A transfer ends, and moves the descriptor unless it fails.
LEMMA MoveFits ==
  ASSUME FilesTypeOK, FilesFit, NEW t \in IoThreads, Move(t)
  PROVE  FilesTypeOK' /\ FilesFit'
<1>1. PICK h \in Handles, fd \in Descriptors \cup Standard :
        /\ h = io[t].handle /\ IsOpen(h) /\ fd = handles[h].fd
        /\ fds[fd] \in OpenFile /\ handles[h] \in FileHandle /\ io[t].fd = NoFile
  BY HandleIsOpen DEF Move, FilesFit, CallFits
<1>2. /\ UNCHANGED <<handles, lost>> /\ io[t].pc = "move"
      /\ io'[t] = Idle /\ \A u \in IoThreads \ {t} : io'[u] = io[u]
  BY DEF Move, Finish, FilesTypeOK
<1>3. /\ blocks' \in 1 .. MaxBlocks /\ blocks <= blocks'
      /\ \/ UNCHANGED fds
         \/ \E to \in 0 .. MaxBlocks :
              /\ fds[fd].store \notin {"terminal", "null"}
              /\ fds' = [fds EXCEPT ![fd].pos = to]
              /\ fds[fd].store = "image" => to <= blocks'
  <2>1. blocks \in 1 .. MaxBlocks /\ MaxBlocks \in Nat
    BY NoFileIsNothing DEF FilesTypeOK
  <2>2. CASE UNCHANGED <<fds, blocks>> BY <2>1, <2>2
  <2>3. CASE ~UNCHANGED <<fds, blocks>>
    <3> DEFINE end == CASE fds[fd].store = "image" -> blocks
                        [] fds[fd].store = "other" -> 1
                        [] OTHER -> 0
               reads == io[t].kind = "read"
               to == IF reads THEN Max({Place(t), Min({Place(t) + 1, end})})
                     ELSE Place(t) + 1
    <3>1. /\ reads \/ (handles[h].mode # "read" /\ to <= MaxBlocks)
          /\ fds' = IF fds[fd].store \in {"terminal", "null"} THEN fds
                    ELSE [fds EXCEPT ![fd].pos = to]
          /\ blocks' = IF ~reads /\ fds[fd].store = "image"
                       THEN Max({blocks, to}) ELSE blocks
      BY <1>1, <2>3 DEF Move
    <3>2. end \in 0 .. MaxBlocks BY <2>1, NoFileIsNothing
    <3>3. /\ Place(t) \in 0 .. MaxBlocks
          /\ fds[fd].store = "image" => Place(t) <= blocks
      <4>1. fds[fd].pos \in 0 .. MaxBlocks BY <1>1 DEF OpenFile
      <4>2. fds[fd].store = "image" => fds[fd].pos <= blocks
        BY <1>1, NoFileIsNothing DEF FilesFit, NoHoles, FilesTypeOK
      <4>3. Place(t) = fds[fd].pos \/ Place(t) = blocks BY <1>1 DEF Place
      <4>4. QED BY <2>1, <4>1, <4>2, <4>3
    <3>4. PICK p \in 0 .. MaxBlocks : p = Place(t) BY <3>3
    <3>5. PICK e \in 0 .. MaxBlocks : e = end BY <3>2
    <3>6. fds[fd].store = "image" => e = blocks BY <3>5
    <3>7. CASE reads
      <4>1. to = Max({p, Min({p + 1, e})}) BY <3>4, <3>5, <3>7
      <4>2. p \in Int /\ p + 1 \in Int /\ e \in Int BY <2>1
      <4>3. Min({p + 1, e}) = (IF p + 1 <= e THEN p + 1 ELSE e) BY <4>2, OfTwo
      <4>4. PICK m \in Int : m = Min({p + 1, e}) BY <4>2, <4>3
      <4>5. Max({p, m}) = (IF p >= m THEN p ELSE m) BY <4>2, OfTwo
      <4>6. to = (IF p >= m THEN p ELSE m) BY <4>1, <4>4, <4>5
      <4>7. to \in 0 .. MaxBlocks /\ (fds[fd].store = "image" => to <= blocks)
        BY <2>1, <3>3, <3>4, <3>6, <4>3, <4>4, <4>6
      <4>8. blocks' = blocks BY <3>1, <3>7
      <4>9. PICK q \in 0 .. MaxBlocks : q = to BY <4>7
      <4>10. fds' = IF fds[fd].store \in {"terminal", "null"} THEN fds
                    ELSE [fds EXCEPT ![fd].pos = q]
        BY <3>1, <4>9
      <4>11. fds[fd].store = "image" => q <= blocks' BY <4>7, <4>8, <4>9
      <4>12. CASE fds[fd].store \in {"terminal", "null"} BY <2>1, <4>8, <4>10, <4>12
      <4>13. CASE fds[fd].store \notin {"terminal", "null"}
        <5>1. /\ fds[fd].store \notin {"terminal", "null"}
              /\ fds' = [fds EXCEPT ![fd].pos = q]
              /\ fds[fd].store = "image" => q <= blocks'
          BY <4>10, <4>11, <4>13
        <5>2. blocks' \in 1 .. MaxBlocks /\ blocks <= blocks' BY <2>1, <4>8
        <5>3. \E x \in 0 .. MaxBlocks :
                /\ fds[fd].store \notin {"terminal", "null"}
                /\ fds' = [fds EXCEPT ![fd].pos = x]
                /\ fds[fd].store = "image" => x <= blocks'
          BY <5>1, Zenon
        <5>4. QED BY <5>2, <5>3
      <4>14. QED BY <4>12, <4>13
    <3>8. CASE ~reads
      <4>1. to = p + 1 /\ to \in 0 .. MaxBlocks BY <2>1, <3>1, <3>4, <3>8
      <4>2. blocks \in Int /\ to \in Int BY <2>1, <4>1
      <4>3. Max({blocks, to}) = (IF blocks >= to THEN blocks ELSE to)
        <5> HIDE DEF to
        <5>1. QED BY <4>2, OfTwo
      <4>4. /\ blocks' \in 1 .. MaxBlocks /\ blocks <= blocks'
            /\ fds[fd].store = "image" => to <= blocks'
        BY <2>1, <3>1, <3>8, <4>1, <4>3
      <4>5. QED BY <3>1, <4>1, <4>4
    <3>9. QED BY <3>7, <3>8
  <2>4. QED BY <2>2, <2>3
<1>4. \A e \in Descriptors \cup Standard :
        /\ fds'[e] # NoFile <=> fds[e] # NoFile
        /\ fds[e] # NoFile => fds'[e] \in OpenFile /\ fds'[e].store = fds[e].store
        /\ fds'[e] = fds[e]
           \/ (e = fd /\ (fds[fd].store = "image" => fds'[e].pos <= blocks'))
        /\ fds[e].store \in {"terminal", "null"} => fds'[e] = fds[e]
  <2>1. CASE UNCHANGED fds
    <3>1. \A e \in Descriptors \cup Standard :
            fds'[e] = fds[e] /\ (fds[e] # NoFile => fds[e] \in OpenFile)
      BY <2>1 DEF FilesTypeOK
    <3>2. QED BY <3>1, Zenon
  <2>2. CASE \E to \in 0 .. MaxBlocks :
              /\ fds[fd].store \notin {"terminal", "null"}
              /\ fds' = [fds EXCEPT ![fd].pos = to]
              /\ fds[fd].store = "image" => to <= blocks'
    <3>1. PICK to \in 0 .. MaxBlocks :
              /\ fds[fd].store \notin {"terminal", "null"}
              /\ fds' = [fds EXCEPT ![fd].pos = to]
              /\ fds[fd].store = "image" => to <= blocks'
      BY <2>2
    <3>2. /\ fds'[fd] = [fds[fd] EXCEPT !.pos = to]
          /\ \A e \in (Descriptors \cup Standard) \ {fd} : fds'[e] = fds[e]
      BY <1>1, <3>1 DEF FilesTypeOK
    <3>3. /\ fds'[fd] \in OpenFile /\ fds'[fd].store = fds[fd].store
          /\ fds'[fd].pos = to
      BY <1>1, <3>2 DEF OpenFile
    <3>4. ASSUME NEW e \in Descriptors \cup Standard
          PROVE  /\ fds'[e] # NoFile <=> fds[e] # NoFile
                 /\ fds[e] # NoFile => fds'[e] \in OpenFile /\ fds'[e].store = fds[e].store
                 /\ fds'[e] = fds[e]
                    \/ (e = fd /\ (fds[fd].store = "image" => fds'[e].pos <= blocks'))
                 /\ fds[e].store \in {"terminal", "null"} => fds'[e] = fds[e]
      <4>1. CASE e = fd BY <1>1, <3>1, <3>3, <4>1, NoFileIsNothing
      <4>2. CASE e # fd
        <5>1. fds'[e] = fds[e] /\ (fds[e] # NoFile => fds[e] \in OpenFile)
          BY <3>2, <4>2 DEF FilesTypeOK
        <5>2. QED BY <5>1, Zenon
      <4>3. QED BY <4>1, <4>2
    <3>5. QED BY <3>4
  <2>3. QED BY <1>3, <2>1, <2>2
<1>5. FilesTypeOK'
  <2>1. Idle \in IoCall BY DEF Idle, IoCall
  <2>2. io' \in [IoThreads -> IoCall] BY <2>1 DEF Move, Finish, FilesTypeOK
  <2>3. fds' \in [Descriptors \cup Standard -> OpenFile \cup {NoFile}]
    BY <1>3, <1>4 DEF FilesTypeOK
  <2>4. QED BY <1>2, <1>3, <2>2, <2>3 DEF FilesTypeOK
<1>6. \A u \in IoThreads : CallFits(u)'
  <2>1. CallFits(t)' BY <1>2 DEF CallFits, Idle
  <2>2. ASSUME NEW u \in IoThreads \ {t} PROVE CallFits(u)'
    BY <1>2 DEF FilesFit, CallFits, IsOpen
  <2>3. QED BY <2>1, <2>2
<1>7. \A u \in IoThreads : io'[u].handle # NoFile => u # t /\ io'[u] = io[u]
  BY <1>2 DEF Idle
<1>8. AloneFits' BY <1>7 DEF FilesFit, AloneFits
<1>9. Owners'
  <2>1. \A g \in Handles, e \in Descriptors : OwnedBy(g, e)' <=> OwnedBy(g, e)
    BY <1>2 DEF OwnedBy, IsOpen
  <2>2. \A u \in IoThreads : io'[u].fd = io[u].fd BY <1>1, <1>2 DEF Idle
  <2>3. QED BY <1>2, <1>4, <2>1, <2>2 DEF FilesFit, Owners
<1>10. StandardIsTerminal' BY <1>4 DEF FilesFit, StandardIsTerminal
<1>11. SizeIsOld'
  <2> SUFFICES ASSUME NEW g \in Handles, IsOpen(g), fds'[handles[g].fd].store = "image"
               PROVE  handles[g].size <= blocks'
    BY <1>2 DEF SizeIsOld, IsOpen
  <2>1. handles[g] \in FileHandle /\ fds[handles[g].fd].store = "image"
    BY <1>4, HandleIsOpen
  <2>2. handles[g].size <= blocks BY <2>1 DEF FilesFit, SizeIsOld
  <2>3. handles[g].size \in Int /\ blocks \in Int /\ blocks' \in Int /\ blocks <= blocks'
    BY <1>3, <2>1 DEF FileHandle, FilesTypeOK
  <2>4. QED BY <2>2, <2>3
<1>12. NoHoles'
  <2> SUFFICES ASSUME NEW e \in Descriptors \cup Standard, fds'[e] # NoFile,
                      fds'[e].store = "image"
               PROVE  fds'[e].pos <= blocks'
    BY <1>5 DEF NoHoles, FilesTypeOK
  <2>1. CASE fds'[e] = fds[e]
    <3>1. fds[e].pos <= blocks /\ fds[e] \in OpenFile
      BY <2>1 DEF FilesFit, NoHoles, FilesTypeOK
    <3>2. fds[e].pos \in Int /\ blocks \in Int /\ blocks' \in Int /\ blocks <= blocks'
      BY <1>3, <3>1 DEF OpenFile, FilesTypeOK
    <3>3. QED BY <2>1, <3>1, <3>2
  <2>2. CASE fds'[e] # fds[e] BY <1>4, <2>2
  <2>3. QED BY <2>1, <2>2
<1>13. LoneTransferIsInPlace'
  <2> SUFFICES ASSUME NEW u \in IoThreads, io'[u].pc = "move", io'[u].alone
               PROVE  InPlace(u)'
    BY DEF LoneTransferIsInPlace, InPlace
  <2>1. u # t /\ io'[u] = io[u] BY <1>2 DEF Idle
  <2>2. io[u].handle \in Handles /\ IsOpen(io[u].handle) BY <2>1 DEF FilesFit, CallFits
  <2>3. PICK e \in Descriptors \cup Standard : e = handles[io[u].handle].fd
    BY <2>2, HandleIsOpen
  <2>4. io[u].handle # h BY <1>1, <2>1, NoFileIsNothing DEF FilesFit, AloneFits
  <2>5. CASE e \in Descriptors
    <3>1. e # fd BY <1>1, <2>2, <2>3, <2>4, <2>5 DEF FilesFit, Owners, OwnedBy
    <3>2. QED BY <1>2, <1>4, <2>1, <2>3, <3>1, StaysInPlace
  <2>6. CASE e \in Standard
    <3>1. fds'[e].store = "terminal" BY <1>10, <2>6 DEF StandardIsTerminal
    <3>2. QED BY <1>2, <2>1, <2>3, <3>1, StaysInPlace
  <2>7. QED BY <2>5, <2>6
<1>14. QED BY <1>5, <1>6, <1>8, <1>9, <1>10, <1>11, <1>12, <1>13 DEF FilesFit

\* NtClose closes the descriptor of the handle with it.
LEMMA CloseFits ==
  ASSUME FilesTypeOK, FilesFit, NEW t \in IoThreads, NEW h \in Handles, Close(t, h)
  PROVE  FilesTypeOK' /\ FilesFit'
<1>1. PICK fd \in Descriptors \cup Standard :
        /\ IsOpen(h) /\ fd = handles[h].fd /\ fds[fd] # NoFile
        /\ handles' = [handles EXCEPT ![h] = NoFile]
        /\ fds' = IF fd \in Standard THEN fds ELSE [fds EXCEPT ![fd] = NoFile]
        /\ UNCHANGED <<blocks, lost, io>>
        /\ \A u \in IoThreads : io[u].handle # h
  BY HandleIsOpen DEF Close, IsClosed, UsersOf
<1>2. handles'[h] = NoFile /\ \A g \in Handles \ {h} : handles'[g] = handles[g]
  BY <1>1 DEF FilesTypeOK
<1>3. /\ \A e \in (Descriptors \cup Standard) \ {fd} : fds'[e] = fds[e]
      /\ fd \in Descriptors => fds'[fd] = NoFile
      /\ fd \in Standard => fds' = fds
  BY <1>1, NoFileIsNothing DEF FilesTypeOK
<1>4. FilesTypeOK' BY <1>1 DEF FilesTypeOK
<1>5. \A u \in IoThreads : CallFits(u)'
  BY <1>1, <1>2 DEF FilesFit, CallFits, IsOpen
<1>6. AloneFits' BY <1>1 DEF FilesFit, AloneFits
<1>7. \A g \in Handles, e \in Descriptors : OwnedBy(g, e)' <=> OwnedBy(g, e) /\ g # h
  BY <1>2 DEF OwnedBy, IsOpen
<1>8. Owners'
  <2> SUFFICES ASSUME NEW e \in Descriptors
               PROVE  /\ \A f, g \in Handles : OwnedBy(f, e)' /\ OwnedBy(g, e)' => f = g
                      /\ \A u, v \in IoThreads : io'[u].fd = e /\ io'[v].fd = e => u = v
                      /\ \A g \in Handles, u \in IoThreads : ~(OwnedBy(g, e)' /\ io'[u].fd = e)
                      /\ e \in lost' =>
                           /\ \A g \in Handles : ~OwnedBy(g, e)'
                           /\ \A u \in IoThreads : io'[u].fd # e
                      /\ fds'[e] # NoFile <=>
                           \/ e \in lost'
                           \/ \E g \in Handles : OwnedBy(g, e)'
                           \/ \E u \in IoThreads : io'[u].fd = e
    BY DEF Owners
  <2>1. CASE e = fd
    <3>1. OwnedBy(h, e) BY <1>1, <2>1 DEF OwnedBy
    <3>2. /\ \A g \in Handles : ~OwnedBy(g, e)'
          /\ e \notin lost /\ \A u \in IoThreads : io[u].fd # e
      BY <1>7, <3>1 DEF FilesFit, Owners
    <3>3. QED BY <1>1, <1>3, <2>1, <3>2
  <2>2. CASE e # fd
    <3>1. ~OwnedBy(h, e) BY <1>1, <2>2 DEF OwnedBy
    <3>2. \A g \in Handles : OwnedBy(g, e)' <=> OwnedBy(g, e) BY <1>7, <3>1
    <3>3. QED BY <1>1, <1>3, <2>2, <3>2 DEF FilesFit, Owners
  <2>3. QED BY <2>1, <2>2
<1>9. StandardIsTerminal' BY <1>3, NoFileIsNothing DEF FilesFit, StandardIsTerminal
<1>10. \A g \in Handles \ {h} : IsOpen(g) => fds'[handles[g].fd] = fds[handles[g].fd]
  <2> SUFFICES ASSUME NEW g \in Handles \ {h}, IsOpen(g), handles[g].fd = fd
               PROVE  fd \in Standard
    BY <1>3, HandleIsOpen
  <2>1. QED BY <1>1 DEF FilesFit, Owners, OwnedBy
<1>11. SizeIsOld' BY <1>1, <1>2, <1>10 DEF FilesFit, SizeIsOld, IsOpen
<1>12. NoHoles'
  <2>1. DOMAIN fds' = Descriptors \cup Standard /\ DOMAIN fds = Descriptors \cup Standard
    BY <1>4 DEF FilesTypeOK
  <2>2. QED BY <1>1, <1>3, <2>1 DEF FilesFit, NoHoles
<1>13. LoneTransferIsInPlace'
  <2> SUFFICES ASSUME NEW u \in IoThreads, io[u].pc = "move" PROVE InPlace(u)'
    BY <1>1 DEF LoneTransferIsInPlace, InPlace
  <2>1. io[u].handle \in Handles \ {h} /\ IsOpen(io[u].handle)
    BY <1>1 DEF FilesFit, CallFits
  <2>2. QED BY <1>1, <1>2, <1>10, <2>1, StaysInPlace
<1>14. QED BY <1>4, <1>5, <1>6, <1>8, <1>9, <1>11, <1>12, <1>13 DEF FilesFit

-----------------------------------------------------------------------------
(* The theorem.                                                            *)

\* Every descriptor has as many owners as it may have.
LEMMA OwnersCounted ==
  ASSUME FilesTypeOK, FilesFit
  PROVE  DescriptorsAreOwned
<1>1. ASSUME NEW d \in Descriptors
      PROVE  Cardinality({h \in Handles : IsOpen(h) /\ handles[h].fd = d})
               + Cardinality({t \in IoThreads : io[t].fd = d})
               + (IF d \in lost THEN 1 ELSE 0) = IF fds[d] = NoFile THEN 0 ELSE 1
  <2> DEFINE H == {h \in Handles : IsOpen(h) /\ handles[h].fd = d}
             T == {t \in IoThreads : io[t].fd = d}
  <2>1. /\ \A g, h \in H : g = h
        /\ \A t, u \in T : t = u
        /\ H = {} \/ T = {}
        /\ d \in lost => H = {} /\ T = {}
        /\ fds[d] # NoFile <=> d \in lost \/ H # {} \/ T # {}
    BY DEF FilesFit, Owners, OwnedBy
  <2>2. H = {} \/ \E h \in H : H = {h} BY <2>1
  <2>3. T = {} \/ \E t \in T : T = {t} BY <2>1
  <2>4. Cardinality({}) = 0 BY FS_EmptySet
  <2>5. Cardinality(H) = IF H = {} THEN 0 ELSE 1 BY <2>2, <2>4, FS_Singleton
  <2>6. Cardinality(T) = IF T = {} THEN 0 ELSE 1 BY <2>3, <2>4, FS_Singleton
  <2>7. QED BY <2>1, <2>5, <2>6
<1>2. \A d \in Standard : fds[d] # NoFile BY DEF FilesFit, StandardIsTerminal
<1>3. QED BY <1>1, <1>2 DEF DescriptorsAreOwned

\* However many threads open, read, write and close: an open descriptor has one
\* handle, or the call that opens it, or was lost where fstat failed; a transfer
\* that meets no other on its handle is at its ByteOffset; and none leaves a hole
\* in the image (unix_open, NtReadFile, NtWriteFile, NtClose of io.c).
THEOREM FilesAreInOrder == FileSpec => []TransfersAreInPlace
<1>1. FileInit => FilesTypeOK /\ FilesFit
  <2> SUFFICES ASSUME FileInit PROVE FilesTypeOK /\ FilesFit OBVIOUS
  <2>1. Idle \in IoCall /\ [store |-> "terminal", pos |-> 0] \in OpenFile
    BY NoFileIsNothing DEF Idle, IoCall, OpenFile
  <2>2. FilesTypeOK BY <2>1, NoFileIsNothing DEF FileInit, FilesTypeOK
  <2>3. \A t \in IoThreads : io[t] = Idle BY DEF FileInit
  <2>4. \A h \in Handles : ~IsOpen(h) BY DEF FileInit, IsOpen
  <2>5. /\ \A d \in Descriptors : fds[d] = NoFile
        /\ \A d \in Standard : fds[d] = [store |-> "terminal", pos |-> 0]
    BY NoFileIsNothing DEF FileInit
  <2>6. ASSUME NEW t \in IoThreads PROVE CallFits(t)
    <3>1. Idle.pc = "idle" BY DEF Idle
    <3>2. QED BY <2>3, <3>1 DEF CallFits
  <2>7. AloneFits BY <2>3 DEF AloneFits, Idle
  <2>8. Owners
    <3>1. \A t \in IoThreads : io[t].fd = NoFile BY <2>3 DEF Idle
    <3>2. QED BY <2>4, <2>5, <3>1, NoFileIsNothing DEF Owners, OwnedBy, FileInit
  <2>9. StandardIsTerminal BY <2>1, <2>5, NoFileIsNothing DEF StandardIsTerminal
  <2>10. SizeIsOld BY <2>4 DEF SizeIsOld
  <2>11. LoneTransferIsInPlace BY <2>3 DEF LoneTransferIsInPlace, InPlace, Idle
  <2>12. NoHoles BY <2>5 DEF NoHoles, FileInit
  <2>13. QED BY <2>2, <2>6, <2>7, <2>8, <2>9, <2>10, <2>11, <2>12 DEF FilesFit
<1>2. FilesTypeOK /\ FilesFit /\ [FileNext]_fileVars => (FilesTypeOK /\ FilesFit)'
  <2> SUFFICES ASSUME FilesTypeOK, FilesFit, [FileNext]_fileVars
               PROVE  FilesTypeOK' /\ FilesFit'
    OBVIOUS
  <2>1. CASE UNCHANGED fileVars
    BY <2>1 DEF fileVars, FilesTypeOK, FilesFit, CallFits, AloneFits, Owners, OwnedBy,
       StandardIsTerminal, SizeIsOld, LoneTransferIsInPlace, InPlace, Place, NoHoles, IsOpen
  <2>2. CASE FileNext
    BY <2>2, OpenFits, CreateFits, TransferFits, SeekFits, MoveFits, CloseFits DEF FileNext
  <2>3. QED BY <2>1, <2>2
<1>3. FilesTypeOK /\ FilesFit => TransfersAreInPlace
  BY OwnersCounted DEF FilesFit, TransfersAreInPlace
<1>4. QED BY <1>1, <1>2, <1>3, PTL DEF FileSpec

-----------------------------------------------------------------------------
(* Opening by name, and the scan of the object directory.                  *)


NsTypeOK ==
  /\ mounted \in BOOLEAN /\ counted \in BOOLEAN /\ crossed \in BOOLEAN
  /\ call \in [NsThreads ->
       [pc : {"idle", "mtab", "open", "opened", "refused"}, free : BOOLEAN]]
  /\ scan \in [NsThreads ->
       [pc : {"idle", "entry", "more", "end", "done"}, seen : 0 .. 2]]

\* A call that goes on to open the volume saw it free, or has yet to look while
\* it is.
CallIsRight(t) ==
  /\ call[t].pc \in {"open", "opened"} => call[t].free
  /\ call[t].pc = "mtab" /\ ~mounted => call[t].free

\* The position in the directory is that of the one scan there is.
ScanIsRight(t) ==
  /\ scan[t].pc = "idle" => scan[t].seen = 0
  /\ scan[t].pc = "entry" => ~counted /\ scan[t].seen = 0
  /\ scan[t].pc \in {"more", "end"} => counted /\ scan[t].seen = 1
  /\ scan[t].pc = "done" => scan[t].seen = 1

ScansAreRight ==
  ~crossed =>
    /\ \A t \in NsThreads : ScanIsRight(t)
    /\ \A t, u \in NsThreads : Scanning(t) /\ Scanning(u) => t = u
    /\ counted => \E t \in NsThreads : Scanning(t)

NamesFit == (\A t \in NsThreads : CallIsRight(t)) /\ ScansAreRight

-----------------------------------------------------------------------------
(* Steps.                                                                  *)

\* Types are kept.
LEMMA NsTypeStep ==
  ASSUME NsTypeOK, [NsNext]_nsVars
  PROVE  NsTypeOK'
<1> USE DEF NsTypeOK
<1>1. CASE UNCHANGED nsVars BY <1>1 DEF nsVars
<1>2. CASE Mount
  <2>1. ASSUME NEW t \in NsThreads
        PROVE  [call[t] EXCEPT !.free = TRUE] \in
                 [pc : {"idle", "mtab", "open", "opened", "refused"}, free : BOOLEAN]
    OBVIOUS
  <2>2. QED BY <1>2, <2>1 DEF Mount
<1>3. ASSUME NEW t \in NsThreads, OpenVolume(t) \/ IsMounted(t) \/ OpenDevice(t)
      PROVE  NsTypeOK'
  <2>1. CASE OpenVolume(t)
    <3>1. PICK f \in BOOLEAN : f = ~mounted BY Zenon
    <3>2. call' = [call EXCEPT ![t] = [pc |-> "mtab", free |-> f]] /\ mounted' = mounted
      BY <2>1, <3>1, Zenon DEF OpenVolume
    <3>3. QED BY <2>1, <3>2 DEF OpenVolume
  <2>2. CASE IsMounted(t) BY <2>2 DEF IsMounted, Refuses
  <2>3. CASE OpenDevice(t) BY <2>3 DEF OpenDevice
  <2>4. QED BY <1>3, <2>1, <2>2, <2>3
<1>4. ASSUME NEW t \in NsThreads,
             LookAtCount(t) \/ ReturnEntry(t) \/ NoMoreEntries(t) \/ GiveUp(t)
      PROVE  NsTypeOK'
  <2>1. CASE LookAtCount(t) BY <2>1 DEF LookAtCount, Scanning
  <2>2. CASE ReturnEntry(t)
    <3>1. scan[t].seen + 1 \in 0 .. 2 BY <2>2 DEF ReturnEntry
    <3>2. QED BY <2>2, <3>1 DEF ReturnEntry, CountAfter
  <2>3. CASE NoMoreEntries(t) \/ GiveUp(t) BY <2>3 DEF NoMoreEntries, GiveUp
  <2>4. QED BY <1>4, <2>1, <2>2, <2>3
<1>5. QED BY <1>1, <1>2, <1>3, <1>4 DEF NsNext

\* unix_open looks at mtab before it opens; the machine mounts when it likes.
LEMMA CallsStep ==
  ASSUME NsTypeOK, NamesFit, [NsNext]_nsVars, NEW u \in NsThreads
  PROVE  CallIsRight(u)'
<1> USE DEF NsTypeOK
<1>1. CallIsRight(u) BY DEF NamesFit
<1>2. CASE UNCHANGED <<mounted, call>> BY <1>1, <1>2 DEF CallIsRight
<1>3. CASE Mount BY <1>1, <1>3 DEF Mount, CallIsRight
<1>4. ASSUME NEW t \in NsThreads, OpenVolume(t) \/ IsMounted(t) \/ OpenDevice(t)
      PROVE  CallIsRight(u)'
  <2>1. mounted' = mounted BY <1>4 DEF OpenVolume, IsMounted, OpenDevice
  <2>2. CASE u # t
    BY <1>1, <1>4, <2>1, <2>2 DEF OpenVolume, IsMounted, OpenDevice, CallIsRight
  <2>3. CASE u = t
    <3>1. CASE OpenVolume(t)
      <4>1. call'[t] = [pc |-> "mtab", free |-> ~mounted] BY <3>1 DEF OpenVolume
      <4>2. call'[t].pc = "mtab" /\ call'[t].free = ~mounted BY <4>1
      <4>3. ~(call'[t].pc \in {"open", "opened"}) BY <4>2
      <4>4. QED BY <2>1, <2>3, <4>2, <4>3, Zenon DEF CallIsRight
    <3>2. CASE IsMounted(t)
      <4>1. call'[t].free = call[t].free
        BY <3>2 DEF IsMounted
      <4>2. (call'[t].pc = "open" /\ ~mounted) \/ call'[t].pc = "refused"
        BY <3>2 DEF IsMounted, Refuses
      <4>3. QED BY <1>1, <2>3, <3>2, <4>1, <4>2 DEF IsMounted, CallIsRight
    <3>3. CASE OpenDevice(t) BY <1>1, <2>3, <3>3 DEF OpenDevice, CallIsRight
    <3>4. QED BY <1>4, <3>1, <3>2, <3>3
  <2>4. QED BY <2>2, <2>3
<1>5. ASSUME NEW t \in NsThreads,
             LookAtCount(t) \/ ReturnEntry(t) \/ NoMoreEntries(t) \/ GiveUp(t)
      PROVE  CallIsRight(u)'
  BY <1>2, <1>5 DEF LookAtCount, ReturnEntry, NoMoreEntries, GiveUp
<1>6. QED BY <1>2, <1>3, <1>4, <1>5 DEF NsNext, nsVars

\* NtQueryDirectoryObject tells by count where the only scan is.
LEMMA ScansStep ==
  ASSUME NsTypeOK, NamesFit, [NsNext]_nsVars
  PROVE  ScansAreRight'
<1> SUFFICES ASSUME ~crossed' PROVE ScansAreRight' BY DEF ScansAreRight
<1> USE DEF NsTypeOK
<1>1. CASE UNCHANGED <<counted, scan, crossed>>
  BY <1>1 DEF NamesFit, ScansAreRight, ScanIsRight, Scanning
<1>2. ASSUME NEW t \in NsThreads,
             LookAtCount(t) \/ ReturnEntry(t) \/ NoMoreEntries(t) \/ GiveUp(t)
      PROVE  ScansAreRight'
  <2>1. /\ ~crossed /\ \A u \in NsThreads \ {t} : scan'[u] = scan[u]
    BY <1>2 DEF LookAtCount, ReturnEntry, NoMoreEntries, GiveUp
  <2>2. /\ \A u \in NsThreads : ScanIsRight(u)
        /\ \A u, v \in NsThreads : Scanning(u) /\ Scanning(v) => u = v
        /\ counted => \E u \in NsThreads : Scanning(u)
    BY <2>1 DEF NamesFit, ScansAreRight
  <2>3. \A u \in NsThreads \ {t} : ~Scanning(u)
    BY <1>2, <2>2 DEF LookAtCount, ReturnEntry, NoMoreEntries, GiveUp, Scanning
  <2>4. ScanIsRight(t)' /\ (counted' => Scanning(t)')
    <3>1. CASE LookAtCount(t)
      <4>1. CASE Scanning(t)
        BY <2>2, <3>1, <4>1 DEF LookAtCount, ScanIsRight, Scanning
      <4>2. CASE ~Scanning(t)
        <5>1. ~counted BY <2>2, <2>3, <4>2
        <5>2. QED BY <3>1, <4>2, <5>1 DEF LookAtCount, ScanIsRight, Scanning
      <4>3. QED BY <4>1, <4>2
    <3>2. CASE ReturnEntry(t)
      BY <2>2, <3>2 DEF ReturnEntry, CountAfter, ScanIsRight, Scanning
    <3>3. CASE NoMoreEntries(t)
      BY <2>2, <3>3 DEF NoMoreEntries, ScanIsRight, Scanning
    <3>4. CASE GiveUp(t) BY <3>4 DEF GiveUp
    <3>5. QED BY <1>2, <3>1, <3>2, <3>3, <3>4
  <2>5. ASSUME NEW u \in NsThreads \ {t} PROVE ScanIsRight(u)' /\ ~Scanning(u)'
    <3>1. scan[u].pc \in {"idle", "done"} /\ ScanIsRight(u)
      BY <2>2, <2>3 DEF Scanning
    <3>2. QED BY <2>1, <3>1 DEF ScanIsRight, Scanning
  <2>6. QED BY <2>4, <2>5 DEF ScansAreRight
<1>3. QED BY <1>1, <1>2 DEF NsNext, nsVars, Mount, OpenVolume, IsMounted, OpenDevice

-----------------------------------------------------------------------------
(* The theorem.                                                            *)

\* Whatever the threads and the rest of the machine do, a volume that stays
\* mounted is not opened; and as long as scans do not meet and go on to their
\* end, each finds the volume once (unix_open, is_mounted and
\* NtQueryDirectoryObject of io.c).
THEOREM VolumeFound == NsSpec => []VolumeIsFoundOnce
<1>1. NsInit => NsTypeOK /\ NamesFit
  <2> SUFFICES ASSUME NsInit PROVE NsTypeOK /\ NamesFit OBVIOUS
  <2>1. mounted \in BOOLEAN /\ counted \in BOOLEAN /\ crossed \in BOOLEAN
    BY Zenon DEF NsInit
  <2>2. call \in [NsThreads ->
          [pc : {"idle", "mtab", "open", "opened", "refused"}, free : BOOLEAN]]
    BY DEF NsInit
  <2>3. scan \in [NsThreads ->
          [pc : {"idle", "entry", "more", "end", "done"}, seen : 0 .. 2]]
    BY DEF NsInit
  <2>4. /\ \A t \in NsThreads : call[t].pc = "idle"
        /\ \A t \in NsThreads : scan[t].pc = "idle" /\ scan[t].seen = 0
        /\ counted = FALSE
    BY DEF NsInit
  <2>5. \A t \in NsThreads : CallIsRight(t) BY <2>4 DEF CallIsRight
  <2>6. ScansAreRight BY <2>4 DEF ScansAreRight, ScanIsRight, Scanning
  <2>7. QED BY <2>1, <2>2, <2>3, <2>5, <2>6 DEF NsTypeOK, NamesFit
<1>2. NsTypeOK /\ NamesFit /\ [NsNext]_nsVars => (NsTypeOK /\ NamesFit)'
  BY NsTypeStep, CallsStep, ScansStep DEF NamesFit
<1>3. NsTypeOK /\ NamesFit => VolumeIsFoundOnce
  <2> SUFFICES ASSUME NsTypeOK, NamesFit PROVE VolumeIsFoundOnce OBVIOUS
  <2>1. MountedIsRefused BY DEF NamesFit, CallIsRight, MountedIsRefused
  <2>2. ASSUME ~crossed, NEW t \in NsThreads
        PROVE  (scan[t].pc = "done" => scan[t].seen = 1) /\ scan[t].seen <= 1
    BY <2>2 DEF NamesFit, ScansAreRight, ScanIsRight, NsTypeOK
  <2>3. LoneScanIsRight BY <2>2 DEF NamesFit, ScansAreRight, LoneScanIsRight
  <2>4. QED BY <2>1, <2>3 DEF VolumeIsFoundOnce
<1>4. QED BY <1>1, <1>2, <1>3, PTL DEF NsSpec

=============================================================================
