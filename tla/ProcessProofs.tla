--------------------------- MODULE ProcessProofs ---------------------------
(***************************************************************************)
(* Proofs about what a process of the guest is made of.  Threads, for any  *)
(* number of threads, handles and exit statuses, and sections entered any  *)
(* number of times: a handle has the status of its thread, and a section   *)
(* is left by its owner only.  Heap and VirtualMemory, for any number of   *)
(* blocks and pages and any sizes: no junk comes into a block that is kept *)
(* cleared, headers tell what is allocated, and the pages that are mapped  *)
(* are those that were granted and not released.  Loader, for any files of *)
(* any sizes and any exports: the image that is entered is complete.       *)
(***************************************************************************)
EXTENDS Threads, Heap, VirtualMemory, Loader, FiniteSetTheorems, SequenceTheorems, TLAPS

-----------------------------------------------------------------------------
(* The threads and their handles.                                          *)


States == {"none", "starts", "runs", "ended"}

ThreadsTypeOK ==
  /\ thread \in [Tids -> States]
  /\ arg \in [Tids -> Addresses \cup {None}]
  /\ making \in [Tids -> Addresses \cup {None}]
  /\ own \in [Tids -> Addresses \cup {None}]
  /\ handleAt \in [Addresses -> HandleOfThread \cup {None}]
  /\ known \subseteq Addresses /\ hot \subseteq Addresses /\ lent \subseteq Tids
  /\ ended \in [Tids -> ExitCodes \cup {NotYet}]
  /\ section \in Mutex \cup {None}

\* A thread that runs knows its handle, and has one unless that was closed; a
\* thread that has not ended has no status.
Knows(t) ==
  /\ thread[t] = "runs" => own[t] = arg[t]
  /\ thread[t] \in {"starts", "runs"} /\ arg[t] # None /\ arg[t] \notin hot =>
       IsAllocated(arg[t]) /\ handleAt[arg[t]].of = t
  /\ thread[t] # "ended" => ended[t] = NotYet

\* A handle that is not stored yet can neither be closed nor be made again.
Unstored(t) ==
  making[t] # None =>
    /\ IsAllocated(making[t]) /\ making[t] \notin known
    /\ \A u \in Tids : making[u] = making[t] => u = t

\* A handle is that of a thread which was given it, and has its status.
Matches(h) ==
  IsAllocated(h) =>
    LET t == handleAt[h].of
    IN  /\ arg[t] = h /\ thread[t] # "none"
        /\ h \notin hot /\ t \notin lent => handleAt[h].status = ended[t]

HandlesMatch ==
  /\ \A t \in Tids : Knows(t) /\ Unstored(t)
  /\ \A h \in Addresses : Matches(h)
  /\ \A h \in known : IsAllocated(h)

\* A section has an owner as long as it is entered.
SectionFits == section # None => (section.owner = None <=> section.depth = 0)

-----------------------------------------------------------------------------
(* Handles and statuses.                                                   *)

\* What the assumption says of the value that stands for nothing.
LEMMA NoneIsNothing ==
  /\ None \notin Tids /\ None \notin Addresses
  /\ None \notin HandleOfThread /\ None \notin Mutex
BY ThreadsAssumption

\* What a live handle has.
LEMMA HandleHasThread ==
  ASSUME ThreadsTypeOK, NEW h \in Addresses, IsAllocated(h)
  PROVE  /\ handleAt[h] \in HandleOfThread /\ handleAt[h].of \in Tids
         /\ handleAt[h].status \in ExitCodes \cup {NotYet}
BY DEF ThreadsTypeOK, IsAllocated, HandleOfThread

\* RtlCreateUserThread: the thread has the new handle, which nobody knows.
LEMMA CreateKeeps ==
  ASSUME ThreadsTypeOK, HandlesMatch, NEW t \in Tids, NEW child \in Tids,
         NEW h \in Addresses, CreateThread(t, child, h)
  PROVE  ThreadsTypeOK' /\ HandlesMatch'
<1>1. /\ UNCHANGED <<own, known, ended, lent, hot, section>>
      /\ thread[t] = "runs" /\ making[t] = None
      /\ thread[child] = "none" /\ handleAt[h] = None
  BY DEF CreateThread, IsIdle, IsAllocated
<1>2. CASE UNCHANGED <<handleAt, thread, arg, making>>
  BY <1>1, <1>2 DEF ThreadsTypeOK, HandlesMatch, Knows, Unstored, Matches, IsAllocated
<1>3. CASE ~UNCHANGED <<handleAt, thread, arg, making>>
  <2>1. /\ handleAt' = [handleAt EXCEPT ![h] = [of |-> child, status |-> NotYet]]
        /\ thread' = [thread EXCEPT ![child] = "starts"]
        /\ arg' = [arg EXCEPT ![child] = h]
        /\ making' = [making EXCEPT ![t] = h]
    BY <1>3 DEF CreateThread
  <2>2. [of |-> child, status |-> NotYet] \in HandleOfThread BY DEF HandleOfThread
  <2>3. ThreadsTypeOK' BY <1>1, <2>1, <2>2 DEF ThreadsTypeOK, States
  <2>4. /\ handleAt'[h] = [of |-> child, status |-> NotYet] /\ handleAt'[h] # None
        /\ \A g \in Addresses \ {h} : handleAt'[g] = handleAt[g]
        /\ thread'[child] = "starts" /\ arg'[child] = h
        /\ \A u \in Tids \ {child} : thread'[u] = thread[u] /\ arg'[u] = arg[u]
        /\ making'[t] = h /\ \A u \in Tids \ {t} : making'[u] = making[u]
    BY <2>1, <2>2, NoneIsNothing DEF ThreadsTypeOK
  <2>5. \A u \in Tids : Knows(u)'
    <3>1. Knows(child)'
      BY <1>1, <2>4 DEF HandlesMatch, Knows, IsAllocated
    <3>2. ASSUME NEW u \in Tids \ {child} PROVE Knows(u)'
      <4>1. Knows(u) /\ arg[u] \in Addresses \cup {None} BY DEF HandlesMatch, ThreadsTypeOK
      <4>2. CASE arg[u] = h
        BY <1>1, <2>4, <4>1, <4>2, NoneIsNothing DEF Knows, IsAllocated
      <4>3. CASE arg[u] # h BY <1>1, <2>4, <4>1, <4>3 DEF Knows, IsAllocated
      <4>4. QED BY <4>2, <4>3
    <3>3. QED BY <3>1, <3>2
  <2>6. \A u \in Tids : making[u] # h BY <1>1, NoneIsNothing DEF HandlesMatch, Unstored, IsAllocated
  <2>7. h \notin known BY <1>1 DEF HandlesMatch, IsAllocated
  <2>8. ASSUME NEW u \in Tids PROVE Unstored(u)'
    <3>1. CASE u = t
      BY <1>1, <2>4, <2>6, <2>7, <3>1 DEF Unstored, IsAllocated
    <3>2. CASE u # t
      <4>1. Unstored(u) /\ making[u] \in Addresses \cup {None}
        BY DEF HandlesMatch, ThreadsTypeOK
      <4>2. QED BY <1>1, <2>4, <2>6, <3>2, <4>1 DEF Unstored, IsAllocated
    <3>3. QED BY <3>1, <3>2
  <2>9. ASSUME NEW g \in Addresses PROVE Matches(g)'
    <3>1. CASE g = h
      <4>1. ended[child] = NotYet BY <1>1 DEF HandlesMatch, Knows
      <4>2. QED BY <1>1, <2>4, <3>1, <4>1 DEF Matches
    <3>2. CASE g # h
      <4> SUFFICES ASSUME IsAllocated(g) PROVE Matches(g)'
        BY <2>4, <3>2 DEF Matches, IsAllocated
      <4>1. Matches(g) /\ handleAt[g].of \in Tids BY HandleHasThread DEF HandlesMatch
      <4>2. handleAt[g].of # child BY <1>1, <4>1 DEF Matches
      <4>3. QED BY <1>1, <2>4, <3>2, <4>1, <4>2 DEF Matches
    <3>3. QED BY <3>1, <3>2
  <2>10. \A g \in known' : IsAllocated(g)'
    BY <1>1, <2>4, <2>7 DEF HandlesMatch, ThreadsTypeOK, IsAllocated
  <2>11. QED BY <2>3, <2>5, <2>8, <2>9, <2>10 DEF HandlesMatch
<1>4. QED BY <1>2, <1>3

\* The handle is stored once.
LEMMA StoreKeeps ==
  ASSUME ThreadsTypeOK, HandlesMatch, NEW t \in Tids, StoreHandle(t)
  PROVE  ThreadsTypeOK' /\ HandlesMatch'
<1>1. /\ making[t] \in Addresses /\ known' = known \cup {making[t]}
      /\ making' = [making EXCEPT ![t] = None]
      /\ UNCHANGED <<thread, arg, own, handleAt, ended, lent, hot, section>>
  BY DEF StoreHandle, ThreadsTypeOK
<1>2. making'[t] = None /\ \A u \in Tids \ {t} : making'[u] = making[u]
  BY <1>1 DEF ThreadsTypeOK
<1>3. ThreadsTypeOK' BY <1>1 DEF ThreadsTypeOK
<1>4. \A u \in Tids : Knows(u)' BY <1>1 DEF HandlesMatch, Knows, IsAllocated
<1>5. ASSUME NEW u \in Tids PROVE Unstored(u)'
  <2>1. Unstored(u) /\ Unstored(t) BY DEF HandlesMatch
  <2>2. QED BY <1>1, <1>2, <2>1, NoneIsNothing DEF Unstored, IsAllocated
<1>6. \A h \in Addresses : Matches(h)' BY <1>1 DEF HandlesMatch, Matches, IsAllocated
<1>7. \A h \in known' : IsAllocated(h)'
  <2>1. IsAllocated(making[t]) BY <1>1, NoneIsNothing DEF HandlesMatch, Unstored
  <2>2. QED BY <1>1, <2>1 DEF HandlesMatch, IsAllocated
<1>8. QED BY <1>3, <1>4, <1>5, <1>6, <1>7 DEF HandlesMatch

\* thread_start: a thread has its own handle in CurrentThreadHandle.
LEMMA StartKeeps ==
  ASSUME ThreadsTypeOK, HandlesMatch, NEW t \in Tids, ThreadStart(t)
  PROVE  ThreadsTypeOK' /\ HandlesMatch'
<1>1. /\ thread[t] = "starts" /\ thread' = [thread EXCEPT ![t] = "runs"]
      /\ own' = [own EXCEPT ![t] = arg[t]]
      /\ UNCHANGED <<arg, making, handleAt, known, ended, lent, hot, section>>
  BY DEF ThreadStart, SetOwn
<1>2. /\ thread'[t] = "runs" /\ own'[t] = arg[t]
      /\ \A u \in Tids \ {t} : thread'[u] = thread[u] /\ own'[u] = own[u]
  BY <1>1 DEF ThreadsTypeOK
<1>3. ThreadsTypeOK' BY <1>1 DEF ThreadsTypeOK, States
<1>4. \A u \in Tids : Knows(u)' BY <1>1, <1>2 DEF HandlesMatch, Knows, IsAllocated
<1>5. \A u \in Tids : Unstored(u)' BY <1>1 DEF HandlesMatch, Unstored, IsAllocated
<1>6. ASSUME NEW h \in Addresses PROVE Matches(h)'
  BY <1>1, <1>2, HandleHasThread DEF HandlesMatch, Matches, IsAllocated
<1>7. \A h \in known' : IsAllocated(h)' BY <1>1 DEF HandlesMatch, IsAllocated
<1>8. QED BY <1>3, <1>4, <1>5, <1>6, <1>7 DEF HandlesMatch

\* A thread ends and stores its status in its own handle, or in that of another
\* thread, which the guest has mixed up with it.
LEMMA EndKeeps ==
  ASSUME ThreadsTypeOK, HandlesMatch, NEW t \in Tids, NEW status \in ExitCodes,
         NEW h \in Addresses \cup {None}, IsIdle(t), StoreStatus(h, status),
         thread' = [thread EXCEPT ![t] = "ended"],
         ended' = [ended EXCEPT ![t] = status],
         UNCHANGED <<arg, making, own, known, hot, section>>,
         \/ h = arg[t] /\ lent' = lent
         \/ IsAllocated(h) /\ h \in Addresses /\ lent' = lent \cup {handleAt[h].of, t}
  PROVE  ThreadsTypeOK' /\ HandlesMatch'
<1>1. /\ thread[t] = "runs" /\ thread'[t] = "ended" /\ ended'[t] = status
      /\ \A u \in Tids \ {t} : thread'[u] = thread[u] /\ ended'[u] = ended[u]
  BY DEF IsIdle, ThreadsTypeOK
<1>2. ASSUME NEW g \in Addresses
      PROVE  /\ IsAllocated(g)' <=> IsAllocated(g)
             /\ IsAllocated(g) =>
                  /\ handleAt'[g] \in HandleOfThread /\ handleAt'[g].of = handleAt[g].of
                  /\ g = h => handleAt'[g].status = status
                  /\ g # h => handleAt'[g] = handleAt[g]
  <2>1. CASE g = h /\ IsAllocated(g)
    <3>1. handleAt'[g] = [handleAt[g] EXCEPT !.status = status]
      BY <2>1, NoneIsNothing DEF StoreStatus, ThreadsTypeOK
    <3>2. handleAt[g] \in HandleOfThread BY <2>1, HandleHasThread
    <3>3. /\ handleAt'[g] \in HandleOfThread /\ handleAt'[g].of = handleAt[g].of
          /\ handleAt'[g].status = status
      BY <3>1, <3>2 DEF HandleOfThread
    <3>4. QED BY <2>1, <3>3, NoneIsNothing DEF IsAllocated
  <2>2. CASE g # h
    <3>1. handleAt'[g] = handleAt[g] BY <2>2 DEF StoreStatus, ThreadsTypeOK
    <3>2. QED BY <2>2, <3>1, HandleHasThread DEF IsAllocated
  <2>3. CASE g = h /\ ~IsAllocated(g)
    <3>1. handleAt' = handleAt BY <2>3 DEF StoreStatus
    <3>2. QED BY <2>3, <3>1 DEF IsAllocated
  <2>4. QED BY <2>1, <2>2, <2>3
<1>3. ThreadsTypeOK'
  <2>1. handleAt' \in [Addresses -> HandleOfThread \cup {None}]
    <3>1. DOMAIN handleAt' = Addresses /\ handleAt' = [g \in Addresses |-> handleAt'[g]]
      BY DEF StoreStatus, ThreadsTypeOK
    <3>2. \A g \in Addresses : handleAt'[g] \in HandleOfThread \cup {None}
      BY <1>2 DEF IsAllocated
    <3>3. QED BY <3>1, <3>2
  <2>2. lent' \subseteq Tids BY HandleHasThread DEF ThreadsTypeOK
  <2>3. QED BY <2>1, <2>2 DEF ThreadsTypeOK, States
<1>4. ASSUME NEW u \in Tids PROVE Knows(u)'
  <2>1. CASE u = t BY <1>1, <2>1 DEF Knows
  <2>2. CASE u # t
    <3>1. Knows(u) /\ arg[u] \in Addresses \cup {None} BY DEF HandlesMatch, ThreadsTypeOK
    <3>2. QED BY <1>1, <1>2, <2>2, <3>1 DEF Knows
  <2>3. QED BY <2>1, <2>2
<1>5. ASSUME NEW u \in Tids PROVE Unstored(u)'
  <2>1. Unstored(u) /\ making[u] \in Addresses \cup {None} BY DEF HandlesMatch, ThreadsTypeOK
  <2>2. QED BY <1>2, <2>1 DEF Unstored
<1>6. ASSUME NEW g \in Addresses PROVE Matches(g)'
  <2> SUFFICES ASSUME IsAllocated(g) PROVE Matches(g)' BY <1>2 DEF Matches
  <2>1. Matches(g) /\ handleAt[g].of \in Tids BY HandleHasThread DEF HandlesMatch
  <2>2. PICK u \in Tids : u = handleAt[g].of BY <2>1
  <2>3. handleAt'[g].of = u /\ arg'[u] = g /\ thread'[u] # "none"
    BY <1>1, <1>2, <2>1, <2>2 DEF Matches
  <2>4. ASSUME g \notin hot, u \notin lent' PROVE handleAt'[g].status = ended'[u]
    <3>1. u \notin lent /\ handleAt[g].status = ended[u] BY <2>1, <2>2, <2>4 DEF Matches
    <3>2. CASE g = h
      <4>1. h = arg[t] BY <2>2, <2>4, <3>2
      <4>2. handleAt[h].of = t
        BY <1>1, <2>4, <3>2, <4>1, NoneIsNothing DEF HandlesMatch, Knows
      <4>3. QED BY <1>1, <1>2, <2>2, <3>2, <4>2
    <3>3. CASE g # h
      <4>1. u # t BY <2>1, <2>2, <2>4, <3>3 DEF Matches
      <4>2. QED BY <1>1, <1>2, <3>1, <3>3, <4>1
    <3>4. QED BY <3>2, <3>3
  <2>5. QED BY <2>3, <2>4 DEF Matches
<1>7. \A g \in known' : IsAllocated(g)' BY <1>2 DEF HandlesMatch, ThreadsTypeOK
<1>8. QED BY <1>3, <1>4, <1>5, <1>6, <1>7 DEF HandlesMatch

\* The procedure of a thread returns.
LEMMA ReturnKeeps ==
  ASSUME ThreadsTypeOK, HandlesMatch, NEW t \in Tids, NEW status \in ExitCodes,
         Return(t, status)
  PROVE  ThreadsTypeOK' /\ HandlesMatch'
<1>1. PICK h \in Addresses \cup {None} : h = arg[t] BY DEF ThreadsTypeOK
<1>2. QED BY <1>1, EndKeeps DEF Return

\* NtTerminateThread, of the caller or not.
LEMMA TerminateKeeps ==
  ASSUME ThreadsTypeOK, HandlesMatch, NEW t \in Tids, NEW status \in ExitCodes,
         NEW h \in Addresses \cup {None}, TerminateThread(t, h, status)
  PROVE  ThreadsTypeOK' /\ HandlesMatch'
<1>1. CASE h = None
  <2>1. PICK g \in Addresses \cup {None} : g = own[t] BY DEF ThreadsTypeOK
  <2>2. g = arg[t] BY <2>1 DEF TerminateThread, IsIdle, HandlesMatch, Knows
  <2>3. QED BY <1>1, <2>1, <2>2, EndKeeps DEF TerminateThread
<1>2. CASE h # None
  <2>1. h \in Addresses /\ IsAllocated(h) /\ Matches(h)
    BY <1>2 DEF TerminateThread, HandlesMatch
  <2>2. CASE handleAt[h].of = t
    <3>1. h = arg[t] BY <2>1, <2>2 DEF Matches
    <3>2. QED BY <1>2, <2>2, <3>1, EndKeeps DEF TerminateThread
  <2>3. CASE handleAt[h].of # t BY <1>2, <2>1, <2>3, EndKeeps DEF TerminateThread
  <2>4. QED BY <2>2, <2>3
<1>3. QED BY <1>1, <1>2

\* NtClose of the handle of a thread: it is no longer the handle of one that runs.
LEMMA CloseKeeps ==
  ASSUME ThreadsTypeOK, HandlesMatch, NEW t \in Tids, NEW h \in Addresses,
         CloseThread(t, h)
  PROVE  ThreadsTypeOK' /\ HandlesMatch'
<1>1. /\ h \in known /\ handleAt' = [handleAt EXCEPT ![h] = None]
      /\ known' = known \ {h}
      /\ hot' = IF thread[handleAt[h].of] # "ended" THEN hot \cup {h} ELSE hot
      /\ UNCHANGED <<thread, arg, making, own, ended, lent, section>>
  BY DEF CloseThread
<1>2. handleAt'[h] = None /\ \A g \in Addresses \ {h} : handleAt'[g] = handleAt[g]
  BY <1>1 DEF ThreadsTypeOK
<1>3. ThreadsTypeOK' BY <1>1 DEF ThreadsTypeOK
<1>4. IsAllocated(h) /\ \A u \in Tids : making[u] # h
  BY <1>1, NoneIsNothing DEF HandlesMatch, Unstored
<1>5. ASSUME NEW u \in Tids PROVE Knows(u)'
  <2>1. Knows(u) /\ arg[u] \in Addresses \cup {None} BY DEF HandlesMatch, ThreadsTypeOK
  <2>2. CASE arg[u] = h
    <3>1. thread[u] \in {"starts", "runs"} => h \in hot'
      <4> SUFFICES ASSUME thread[u] \in {"starts", "runs"}, h \notin hot PROVE h \in hot'
        BY <1>1
      <4>1. handleAt[h].of = u BY <2>1, <2>2, NoneIsNothing DEF Knows
      <4>2. QED BY <1>1, <4>1
    <3>2. QED BY <1>1, <2>1, <2>2, <3>1 DEF Knows
  <2>3. CASE arg[u] # h BY <1>1, <1>2, <2>1, <2>3 DEF Knows, IsAllocated
  <2>4. QED BY <2>2, <2>3
<1>6. ASSUME NEW u \in Tids PROVE Unstored(u)'
  <2>1. Unstored(u) /\ making[u] \in Addresses \cup {None} BY DEF HandlesMatch, ThreadsTypeOK
  <2>2. QED BY <1>1, <1>2, <1>4, <2>1 DEF Unstored, IsAllocated
<1>7. ASSUME NEW g \in Addresses PROVE Matches(g)'
  <2>1. CASE g = h BY <1>2, <2>1 DEF Matches, IsAllocated
  <2>2. CASE g # h
    <3>1. Matches(g) BY DEF HandlesMatch
    <3>2. QED BY <1>1, <1>2, <2>2, <3>1 DEF Matches, IsAllocated
  <2>3. QED BY <2>1, <2>2
<1>8. \A g \in known' : IsAllocated(g)'
  BY <1>1, <1>2 DEF HandlesMatch, ThreadsTypeOK, IsAllocated
<1>9. QED BY <1>3, <1>5, <1>6, <1>7, <1>8 DEF HandlesMatch

\* NtClose, the critical section and the threads: every step keeps all of it.
LEMMA HandlesStep ==
  ASSUME ThreadsTypeOK, HandlesMatch, [ThreadsNext]_threadVars
  PROVE  ThreadsTypeOK' /\ HandlesMatch'
<1>1. ASSUME UNCHANGED <<thread, arg, making, own, handleAt, known, ended, lent, hot>>,
             section' \in Mutex \cup {None}
      PROVE  ThreadsTypeOK' /\ HandlesMatch'
  BY <1>1 DEF ThreadsTypeOK, HandlesMatch, Knows, Unstored, Matches, IsAllocated
<1>2. CASE UNCHANGED threadVars BY <1>1, <1>2 DEF threadVars, ThreadsTypeOK
<1>3. ASSUME NEW t \in Tids, InitializeCriticalSection(t) \/ DeleteCriticalSection(t)
      PROVE  ThreadsTypeOK' /\ HandlesMatch'
  <2>1. Unowned \in Mutex BY ThreadsAssumption DEF Unowned, Mutex
  <2>2. QED BY <1>1, <1>3, <2>1 DEF InitializeCriticalSection, DeleteCriticalSection
<1>4. ASSUME NEW t \in Tids, EnterCriticalSection(t)
      PROVE  ThreadsTypeOK' /\ HandlesMatch'
  <2>1. section \in Mutex BY <1>4 DEF EnterCriticalSection, ThreadsTypeOK
  <2>2. section' \in Mutex
    BY <1>4, <2>1, ThreadsAssumption DEF EnterCriticalSection, Mutex
  <2>3. QED BY <1>1, <1>4, <2>2 DEF EnterCriticalSection
<1>5. ASSUME NEW t \in Tids, LeaveCriticalSection(t)
      PROVE  ThreadsTypeOK' /\ HandlesMatch'
  <2>1. section \in Mutex BY <1>5 DEF LeaveCriticalSection, ThreadsTypeOK
  <2>2. section' \in Mutex
    BY <1>5, <2>1, ThreadsAssumption DEF LeaveCriticalSection, Mutex, Unowned
  <2>3. QED BY <1>1, <1>5, <2>2 DEF LeaveCriticalSection
<1>6. QED
  BY <1>2, <1>3, <1>4, <1>5, CreateKeeps, StoreKeeps, StartKeeps, ReturnKeeps,
     TerminateKeeps, CloseKeeps DEF ThreadsNext

\* Every reachable state has the right types, and its handles match the threads.
THEOREM HandlesAreMatched == ThreadsSpec => [](ThreadsTypeOK /\ HandlesMatch)
<1>1. ThreadsInit => ThreadsTypeOK /\ HandlesMatch
  BY ThreadsAssumption
  DEF ThreadsInit, ThreadsTypeOK, States, HandlesMatch, Knows, Unstored, Matches, IsAllocated
<1>2. QED BY <1>1, HandlesStep, PTL DEF ThreadsSpec

\* The status in a handle is that of its thread's end, unless the guest named
\* another thread in NtTerminateThread or closed the handle of one that ran
\* (thread_start, NtTerminateThread, thread.c 37 to 66).
THEOREM StatusesMatch == ThreadsSpec => []StatusIsItsThreads
<1>1. ThreadsTypeOK /\ HandlesMatch => StatusIsItsThreads
  <2> SUFFICES ASSUME ThreadsTypeOK, HandlesMatch, NEW h \in Addresses, IsAllocated(h),
                      h \notin hot, handleAt[h].of \notin lent
               PROVE  /\ handleAt[h].status = ended[handleAt[h].of]
                      /\ handleAt[h].status # NotYet => thread[handleAt[h].of] = "ended"
    BY DEF StatusIsItsThreads
  <2>1. Matches(h) /\ handleAt[h].of \in Tids BY HandleHasThread DEF HandlesMatch
  <2>2. QED BY <2>1 DEF Matches, HandlesMatch, Knows
<1>2. QED BY <1>1, HandlesAreMatched, PTL

-----------------------------------------------------------------------------
(* Critical sections.                                                      *)

\* A section that is entered has an owner, and one that is left has none.
LEMMA SectionStep ==
  ASSUME ThreadsTypeOK, SectionFits, [ThreadsNext]_threadVars
  PROVE  SectionFits'
<1>1. CASE UNCHANGED section BY <1>1 DEF SectionFits
<1>2. CASE ~UNCHANGED section
  <2>1. PICK t \in Tids :
          \/ InitializeCriticalSection(t) \/ DeleteCriticalSection(t)
          \/ EnterCriticalSection(t) \/ LeaveCriticalSection(t)
    BY <1>2 DEF ThreadsNext, threadVars, StoreHandle, ThreadStart, CloseThread,
       CreateThread, Return, TerminateThread
  <2>2. CASE InitializeCriticalSection(t) \/ DeleteCriticalSection(t)
    BY <2>2, ThreadsAssumption
    DEF InitializeCriticalSection, DeleteCriticalSection, Unowned, SectionFits, Mutex
  <2>3. CASE EnterCriticalSection(t) \/ LeaveCriticalSection(t)
    <3>1. section \in Mutex
      BY <2>3 DEF EnterCriticalSection, LeaveCriticalSection, ThreadsTypeOK
    <3>2. section.depth \in Nat BY <3>1, ThreadsAssumption DEF Mutex
    <3>3. CASE EnterCriticalSection(t)
      BY <3>2, <3>3, NoneIsNothing DEF EnterCriticalSection, SectionFits
    <3>4. CASE LeaveCriticalSection(t)
      BY <1>2, <3>1, <3>2, <3>4, NoneIsNothing
      DEF LeaveCriticalSection, MayUnlock, Unowned, SectionFits, Mutex
    <3>5. QED BY <2>3, <3>3, <3>4
  <2>4. QED BY <2>1, <2>2, <2>3
<1>3. QED BY <1>1, <1>2

\* Whatever is called by whichever thread, a critical section is left by its
\* owner, one level at a time, and stays shut when that has ended (thread.c 142
\* to 189).
THEOREM SectionsHaveOwners == ThreadsSpec => SectionsAreOwned
<1>1. ThreadsInit => SectionFits BY DEF ThreadsInit, SectionFits
<1>2. ASSUME ThreadsTypeOK, SectionFits, [ThreadsNext]_threadVars
      PROVE  [OnlyOwnerLeaves /\ AbandonedStaysShut]_threadVars
  <2> SUFFICES ASSUME ThreadsNext PROVE OnlyOwnerLeaves /\ AbandonedStaysShut
    BY <1>2
  <2>1. CASE UNCHANGED section
    <3>1. section # None => section.depth \in Nat
      BY <1>2, ThreadsAssumption DEF ThreadsTypeOK, Mutex
    <3>2. QED BY <2>1, <3>1 DEF OnlyOwnerLeaves, AbandonedStaysShut
  <2>2. CASE ~UNCHANGED section
    <3>1. PICK t \in Tids :
            \/ InitializeCriticalSection(t) \/ DeleteCriticalSection(t)
            \/ EnterCriticalSection(t) \/ LeaveCriticalSection(t)
      BY <2>2 DEF ThreadsNext, StoreHandle, ThreadStart, CloseThread, CreateThread,
         Return, TerminateThread
    <3>2. CASE InitializeCriticalSection(t) \/ DeleteCriticalSection(t)
      BY <3>2 DEF InitializeCriticalSection, DeleteCriticalSection, Unowned,
         OnlyOwnerLeaves, AbandonedStaysShut
    <3>3. CASE EnterCriticalSection(t)
      <4>1. section \in Mutex /\ section.depth \in Nat /\ section' # None
        BY <3>3, <1>2, ThreadsAssumption
        DEF EnterCriticalSection, ThreadsTypeOK, Mutex, SectionFits
      <4>2. QED BY <3>3, <4>1 DEF EnterCriticalSection, IsIdle, OnlyOwnerLeaves,
              AbandonedStaysShut
    <3>4. CASE LeaveCriticalSection(t)
      <4>1. section \in Mutex /\ section.depth \in Nat /\ section.owner = t
        BY <2>2, <3>4, ThreadsAssumption, <1>2
        DEF LeaveCriticalSection, MayUnlock, ThreadsTypeOK, Mutex
      <4>2. section' = IF section.depth > 1 THEN [section EXCEPT !.depth = section.depth - 1]
                       ELSE Unowned
        BY <3>4, <4>1 DEF LeaveCriticalSection, MayUnlock
      <4>3. section' # None /\ (section.depth > 0 => section'.depth = section.depth - 1)
        BY <4>1, <4>2, ThreadsAssumption DEF Mutex, Unowned
      <4>4. AbandonedStaysShut
        BY <3>4, <4>1 DEF LeaveCriticalSection, IsIdle, AbandonedStaysShut
      <4>5. OnlyOwnerLeaves
        BY <3>4, <4>1, <4>3 DEF LeaveCriticalSection, OnlyOwnerLeaves
      <4>6. QED BY <4>4, <4>5
    <3>5. QED BY <3>1, <3>2, <3>3, <3>4
  <2>3. QED BY <2>1, <2>2
<1>3. QED BY <1>1, <1>2, SectionStep, HandlesAreMatched, PTL DEF ThreadsSpec, SectionsAreOwned


-----------------------------------------------------------------------------
(* The heap.                                                               *)

Header == [magic : {"none", "alloc", "free"}, size : 0 .. MaxSize,
           bytes : [Bytes -> {"zero", "written", "junk"}]]

HeapTypeOK ==
  /\ block \in [Blocks -> Header]
  /\ asked \in [Blocks -> 0 .. MaxSize \cup {NotHeld, MovedAway}]
  /\ cleared \in [Blocks -> BOOLEAN]

\* What one block is.
BlockIsRight(b) ==
  /\ asked[b] >= 0 => block[b].magic = "alloc" /\ block[b].size = asked[b]
  /\ asked[b] = NotHeld => block[b].magic # "alloc"
  /\ asked[b] >= 0 /\ cleared[b] =>
       \A i \in 1 .. block[b].size : block[b].bytes[i] # "junk"

\* A block that no call is about stays as it is.
LEMMA BlockFrame ==
  ASSUME NEW b, BlockIsRight(b),
         block'[b] = block[b], asked'[b] = asked[b], cleared'[b] = cleared[b]
  PROVE  BlockIsRight(b)'
BY DEF BlockIsRight

\* RtlAllocateHeap.
LEMMA AllocateKeeps ==
  ASSUME HeapTypeOK, \A b \in Blocks : BlockIsRight(b),
         NEW b \in Blocks, NEW size \in 0 .. MaxSize, NEW zero \in BOOLEAN,
         AllocateHeap(b, size, zero)
  PROVE  HeapTypeOK' /\ \A c \in Blocks : BlockIsRight(c)'
<1> DEFINE new == [magic |-> "alloc", size |-> size,
                   bytes |-> [i \in Bytes |-> IF zero /\ i <= size THEN "zero" ELSE "junk"]]
<1>1. new \in Header BY DEF Header
<1>2. /\ block' = [block EXCEPT ![b] = new] /\ asked' = [asked EXCEPT ![b] = size]
      /\ cleared' = [cleared EXCEPT ![b] = zero]
  BY DEF AllocateHeap
<1>3. HeapTypeOK' BY <1>1, <1>2 DEF HeapTypeOK
<1>4. /\ block'[b] = new /\ asked'[b] = size /\ cleared'[b] = zero
      /\ \A c \in Blocks \ {b} :
           block'[c] = block[c] /\ asked'[c] = asked[c] /\ cleared'[c] = cleared[c]
  BY <1>2 DEF HeapTypeOK
<1>5. new.magic = "alloc" /\ new.size = size OBVIOUS
<1>6. ASSUME zero, NEW i \in 1 .. size PROVE new.bytes[i] # "junk"
  <2>1. i \in Bytes BY HeapAssumption DEF Bytes
  <2>2. QED BY <1>6, <2>1
<1>7. size \in Int /\ size >= 0 /\ size # NotHeld BY HeapAssumption DEF NotHeld
<1> HIDE DEF new
<1>8. BlockIsRight(b)' BY <1>4, <1>5, <1>6, <1>7 DEF BlockIsRight
<1>9. QED BY <1>3, <1>4, <1>8, BlockFrame

\* RtlReAllocateHeap clears what it adds, and only that.
LEMMA ReAllocateKeeps ==
  ASSUME HeapTypeOK, \A b \in Blocks : BlockIsRight(b),
         NEW b \in Blocks, NEW to \in Blocks, NEW size \in 0 .. MaxSize,
         NEW zero \in BOOLEAN, ReAllocateHeap(b, to, size, zero)
  PROVE  HeapTypeOK' /\ \A c \in Blocks : BlockIsRight(c)'
<1> DEFINE old == block[b]
           Kept(i) == IF i <= old.size THEN old.bytes[i] ELSE "junk"
           new == [magic |-> "alloc", size |-> size,
                   bytes |-> [i \in Bytes |-> Grown(Kept(i), i, old.size, size, zero)]]
<1>1. PICK left \in {"alloc", "none"} :
        block' = [[block EXCEPT ![b] = [Free EXCEPT !.magic = left]] EXCEPT ![to] = new]
  BY DEF ReAllocateHeap
<1>2. /\ asked[b] >= 0
      /\ asked' = [[asked EXCEPT ![b] = MovedAway] EXCEPT ![to] = size]
      /\ cleared' = [cleared EXCEPT ![to] = zero /\ cleared[b]]
  BY DEF ReAllocateHeap
<1>3. old \in Header /\ old.size \in 0 .. MaxSize /\ old.bytes \in [Bytes -> {"zero", "written", "junk"}]
  BY DEF HeapTypeOK, Header
<1>4. \A i \in Bytes : Grown(Kept(i), i, old.size, size, zero) \in {"zero", "written", "junk"}
  BY <1>3 DEF Grown
<1>5. new \in Header BY <1>4 DEF Header
<1>6. [Free EXCEPT !.magic = left] \in Header BY HeapAssumption DEF Free, Header
<1>7. PICK z \in BOOLEAN : z = (zero /\ cleared[b]) BY Zenon
<1>8. cleared' = [cleared EXCEPT ![to] = z] BY <1>2, <1>7, Zenon
<1>9. HeapTypeOK' BY <1>1, <1>2, <1>5, <1>6, <1>8 DEF HeapTypeOK
<1>10. /\ block'[to] = new /\ asked'[to] = size /\ cleared'[to] = z
       /\ b # to => asked'[b] = MovedAway
       /\ \A c \in Blocks \ {b, to} :
            block'[c] = block[c] /\ asked'[c] = asked[c] /\ cleared'[c] = cleared[c]
  BY <1>1, <1>2, <1>8 DEF HeapTypeOK
<1>11. new.magic = "alloc" /\ new.size = size OBVIOUS
<1>12. ASSUME z, NEW i \in 1 .. size PROVE new.bytes[i] # "junk"
  <2>1. i \in Bytes /\ i \in Int /\ size \in Int BY HeapAssumption DEF Bytes
  <2>2. new.bytes[i] = Grown(Kept(i), i, old.size, size, zero) BY <2>1
  <2>3. zero /\ cleared[b] BY <1>7, <1>12, Zenon
  <2>4. CASE i <= old.size
    <3>1. i \in 1 .. old.size BY <1>3, <2>1, <2>4
    <3>2. old.bytes[i] # "junk" BY <1>2, <2>3, <3>1 DEF BlockIsRight
    <3>3. QED BY <1>3, <2>1, <2>2, <2>4, <3>2 DEF Grown
  <2>5. CASE ~(i <= old.size)
    <3>1. i > old.size /\ size > old.size /\ ~(i > size) BY <1>3, <2>1, <2>5
    <3>2. QED BY <2>2, <2>3, <3>1 DEF Grown
  <2>6. QED BY <2>4, <2>5
<1>13. size \in Int /\ size >= 0 /\ size # NotHeld BY HeapAssumption DEF NotHeld
<1> HIDE DEF new
<1>14. BlockIsRight(to)' BY <1>10, <1>11, <1>12, <1>13 DEF BlockIsRight
<1>15. b # to => BlockIsRight(b)' BY <1>10 DEF BlockIsRight, MovedAway, NotHeld
<1>16. QED BY <1>9, <1>10, <1>14, <1>15, BlockFrame

\* The guest writes into a block, or gives it back.
LEMMA UseKeeps ==
  ASSUME HeapTypeOK, \A b \in Blocks : BlockIsRight(b), NEW b \in Blocks,
         FreeHeap(b) \/ \E i \in Bytes : Write(b, i)
  PROVE  HeapTypeOK' /\ \A c \in Blocks : BlockIsRight(c)'
<1>1. BlockIsRight(b) /\ block[b] \in Header BY DEF HeapTypeOK
<1>2. ASSUME NEW i \in Bytes, Write(b, i)
      PROVE  HeapTypeOK' /\ \A c \in Blocks : BlockIsRight(c)'
  <2> DEFINE new == [block[b] EXCEPT !.bytes[i] = "written"]
  <2>1. /\ new \in Header /\ new.magic = block[b].magic /\ new.size = block[b].size
        /\ \A j \in Bytes : new.bytes[j] = IF j = i THEN "written" ELSE block[b].bytes[j]
    BY <1>1 DEF Header
  <2>2. block' = [block EXCEPT ![b] = new] /\ UNCHANGED <<asked, cleared>>
    BY <1>2 DEF Write
  <2> HIDE DEF new
  <2>3. block'[b] = new /\ \A c \in Blocks \ {b} : block'[c] = block[c]
    BY <2>2 DEF HeapTypeOK
  <2>4. HeapTypeOK' BY <2>1, <2>2 DEF HeapTypeOK
  <2>5. \A j \in 1 .. block[b].size : j \in Bytes
    BY <1>1, HeapAssumption DEF Header, Bytes
  <2>6. BlockIsRight(b)' BY <1>1, <2>1, <2>2, <2>3, <2>5 DEF BlockIsRight
  <2>7. QED BY <2>2, <2>3, <2>4, <2>6, BlockFrame
<1>3. CASE FreeHeap(b)
  <2>1. CASE block[b].magic # "alloc"
    <3>1. UNCHANGED <<block, asked, cleared>> BY <1>3, <2>1 DEF FreeHeap
    <3>2. QED BY <3>1, BlockFrame DEF HeapTypeOK
  <2>2. CASE block[b].magic = "alloc"
    <3> DEFINE new == [Free EXCEPT !.magic = FreedMagic]
    <3>1. new \in Header /\ new.magic = "free"
      BY HeapAssumption DEF Free, FreedMagic, Header
    <3>2. /\ block' = [block EXCEPT ![b] = new] /\ asked' = [asked EXCEPT ![b] = NotHeld]
          /\ cleared' = [cleared EXCEPT ![b] = FALSE]
      BY <1>3, <2>2 DEF FreeHeap
    <3> HIDE DEF new
    <3>3. /\ block'[b] = new /\ asked'[b] = NotHeld
          /\ \A c \in Blocks \ {b} :
               block'[c] = block[c] /\ asked'[c] = asked[c] /\ cleared'[c] = cleared[c]
      BY <3>2 DEF HeapTypeOK
    <3>4. HeapTypeOK' BY <3>1, <3>2 DEF HeapTypeOK
    <3>5. BlockIsRight(b)' BY <3>1, <3>3 DEF BlockIsRight, NotHeld
    <3>6. QED BY <3>3, <3>4, <3>5, BlockFrame
  <2>3. QED BY <2>1, <2>2
<1>4. QED BY <1>2, <1>3

\* A block that every call asked to be cleared has no junk in it, however often
\* it shrank, grew and moved; a held block has its magic number and size, and a
\* freed one is not taken for held (heap.c 58 to 121).
THEOREM HeapIsRight == HeapSpec => []BlocksAreRight
<1>1. HeapInit => HeapTypeOK /\ \A b \in Blocks : BlockIsRight(b)
  <2> SUFFICES ASSUME HeapInit PROVE HeapTypeOK /\ \A b \in Blocks : BlockIsRight(b)
    OBVIOUS
  <2>1. [Free EXCEPT !.magic = "none"] \in Header BY HeapAssumption DEF Free, Header
  <2>2. HeapTypeOK BY <2>1 DEF HeapInit, HeapTypeOK
  <2>3. \A b \in Blocks : asked[b] = NotHeld /\ block[b].magic = "none"
    BY DEF HeapInit, Free
  <2>4. QED BY <2>2, <2>3 DEF BlockIsRight, NotHeld
<1>2. /\ HeapTypeOK /\ \A b \in Blocks : BlockIsRight(b)
      /\ [HeapNext]_heapVars
      => (HeapTypeOK /\ \A b \in Blocks : BlockIsRight(b))'
  <2> SUFFICES ASSUME HeapTypeOK, \A b \in Blocks : BlockIsRight(b), [HeapNext]_heapVars
               PROVE  HeapTypeOK' /\ \A b \in Blocks : BlockIsRight(b)'
    OBVIOUS
  <2>1. CASE UNCHANGED heapVars BY <2>1, BlockFrame DEF heapVars, HeapTypeOK
  <2>2. CASE HeapNext
    BY <2>2, AllocateKeeps, ReAllocateKeeps, UseKeeps DEF HeapNext
  <2>3. QED BY <2>1, <2>2
<1>3. HeapTypeOK /\ (\A b \in Blocks : BlockIsRight(b)) => BlocksAreRight
  BY DEF BlockIsRight, BlocksAreRight, NoJunkInCleared, HeadersAreRight
<1>4. QED BY <1>1, <1>2, <1>3, PTL DEF HeapSpec

-----------------------------------------------------------------------------
(* The address space.                                                      *)

\* PAGE_ALIGN goes down to a multiple of the page size.
LEMMA AlignsDown ==
  ASSUME NEW a \in Int
  PROVE  /\ PageAlign(a) \in Int /\ PageAlign(a) <= a /\ a < PageAlign(a) + PageSize
         /\ \E q \in Int : PageAlign(a) = q * PageSize
<1>1. PageSize \in Int /\ PageSize > 0 BY MemoryAssumption
<1>2. a % PageSize \in 0 .. PageSize - 1 BY <1>1
<1>3. a = PageSize * (a \div PageSize) + (a % PageSize) BY <1>1
<1>4. a \div PageSize \in Int BY <1>1
<1>5. PageAlign(a) = (a \div PageSize) * PageSize BY <1>1, <1>2, <1>3, <1>4 DEF PageAlign
<1>6. QED BY <1>1, <1>2, <1>4, <1>5 DEF PageAlign

\* ROUND_TO_PAGES goes up to one.
LEMMA RoundsUp ==
  ASSUME NEW n \in Nat
  PROVE  /\ RoundToPages(n) \in Int /\ n <= RoundToPages(n)
         /\ RoundToPages(n) < n + PageSize
         /\ \E q \in Int : RoundToPages(n) = q * PageSize
<1>1. PageSize \in Int /\ PageSize > 0 BY MemoryAssumption
<1>2. PICK a \in Int : a = n + PageSize - 1 BY <1>1
<1>3. RoundToPages(n) = PageAlign(a) BY <1>2 DEF RoundToPages
<1>4. PageAlign(a) \in Int /\ PageAlign(a) <= a /\ a < PageAlign(a) + PageSize
  BY AlignsDown
<1>5. PICK q \in Int : PageAlign(a) = q * PageSize BY AlignsDown
<1>6. n <= PageAlign(a) /\ PageAlign(a) < n + PageSize BY <1>1, <1>2, <1>4
<1>7. QED BY <1>3, <1>4, <1>5, <1>6

\* From an address of a page, a size and what it is rounded to have one set of
\* pages.
LEMMA SamePages ==
  ASSUME NEW a \in Int, a % PageSize = 0, NEW n \in Nat
  PROVE  PagesOf(a, RoundToPages(n)) = PagesOf(a, n)
<1>1. PageSize \in Int /\ PageSize > 0 BY MemoryAssumption
<1>2. PICK k \in Int : a = k * PageSize
  BY <1>1, AlignsDown DEF PageAlign
<1>3. PICK q \in Int : RoundToPages(n) = q * PageSize BY RoundsUp
<1>4. n <= q * PageSize /\ q * PageSize < n + PageSize BY <1>3, RoundsUp
<1>5. ASSUME NEW p \in Int
      PROVE  p * PageSize < a + RoundToPages(n) <=> p * PageSize < a + n
  <2>1. CASE p < k + q
    <3>1. p + 1 <= k + q BY <2>1
    <3>2. (p + 1) * PageSize <= (k + q) * PageSize BY <1>1, <3>1
    <3>3. /\ (p + 1) * PageSize = p * PageSize + PageSize
          /\ (k + q) * PageSize = k * PageSize + q * PageSize
      BY <1>1
    <3>4. p * PageSize \in Int /\ k * PageSize \in Int /\ q * PageSize \in Int BY <1>1
    <3>5. QED BY <1>1, <1>2, <1>3, <1>4, <3>2, <3>3, <3>4
  <2>2. CASE p >= k + q
    <3>1. p * PageSize >= (k + q) * PageSize BY <1>1, <2>2
    <3>2. (k + q) * PageSize = k * PageSize + q * PageSize BY <1>1
    <3>3. p * PageSize \in Int /\ k * PageSize \in Int /\ q * PageSize \in Int BY <1>1
    <3>4. QED BY <1>2, <1>3, <1>4, <3>1, <3>2, <3>3
  <2>3. QED BY <2>1, <2>2
<1>6. \A p \in 0 .. LastPage + MaxRegion : p \in Int BY MemoryAssumption
<1>7. QED BY <1>5, <1>6 DEF PagesOf

VirtualTypeOK ==
  /\ mapped \in [Page -> {"r", "rw", "x"} \cup {NotMapped}]
  /\ holds \subseteq Page

\* NtAllocateVirtualMemory.
LEMMA AllocateMaps ==
  ASSUME VirtualTypeOK, HeldIsMapped, NEW base \in Nat, NEW size \in 0 .. MaxRegion,
         NEW protect \in DOMAIN ProtOf \cup {"readwrite-execute"},
         AllocateVirtualMemory(base, size, protect)
  PROVE  VirtualTypeOK' /\ HeldIsMapped' /\ GrantIsMapped'
<1> DEFINE pages(at) == PagesOf(at, RoundToPages(size))
<1>1. size \in Nat BY MemoryAssumption
<1>2. CASE UNCHANGED <<mapped, holds>> /\ (request'.status # "success" \/ request'.at = MapFailed)
  BY <1>2 DEF VirtualTypeOK, HeldIsMapped, GrantIsMapped
<1>3. CASE \E at \in {p * PageSize : p \in Page} :
             /\ protect \in DOMAIN ProtOf /\ pages(at) \subseteq Page
             /\ PageAlign(base) # Null => at = PageAlign(base)
             /\ mapped' = [p \in Page |-> IF p \in pages(at) THEN ProtOf[protect]
                                          ELSE mapped[p]]
             /\ holds' = holds \cup pages(at)
             /\ Answer("allocate", base, size, at, ProtOf[protect], "success")
  <2>1. PICK at \in {p * PageSize : p \in Page} :
             /\ protect \in DOMAIN ProtOf /\ pages(at) \subseteq Page
             /\ PageAlign(base) # Null => at = PageAlign(base)
             /\ mapped' = [p \in Page |-> IF p \in pages(at) THEN ProtOf[protect]
                                          ELSE mapped[p]]
             /\ holds' = holds \cup pages(at)
             /\ Answer("allocate", base, size, at, ProtOf[protect], "success")
    BY <1>3
  <2>2. at \in Int BY MemoryAssumption DEF Page
  <2>3. ProtOf[protect] \in {"r", "rw", "x"} BY <2>1 DEF ProtOf
  <2>4. VirtualTypeOK' BY <2>1, <2>3 DEF VirtualTypeOK
  <2>5. HeldIsMapped'
    <3>1. ProtOf[protect] # NotMapped BY <2>3, MemoryAssumption
    <3>2. \A p \in Page : mapped'[p] # NotMapped <=> p \in pages(at) \/ mapped[p] # NotMapped
      BY <2>1, <3>1
    <3>3. QED BY <2>1, <3>2 DEF HeldIsMapped
  <2>6. GrantIsMapped'
    <3> DEFINE first == IF PageAlign(base) = Null THEN at ELSE base
    <3>1. /\ request'.base = base /\ request'.size = size /\ request'.at = at
          /\ request'.prot = ProtOf[protect]
      BY <2>1 DEF Answer
    <3>2. at <= first /\ first \in Int
      BY <2>1, <2>2, AlignsDown
    <3>3. ASSUME first - at + size <= RoundToPages(size),
                 NEW p \in PagesOf(first, size)
          PROVE  p \in pages(at)
      <4>1. p \in Int /\ p * PageSize \in Int /\ (p + 1) * PageSize \in Int
        BY MemoryAssumption DEF PagesOf
      <4>2. p \in 0 .. LastPage + MaxRegion /\ p * PageSize < first + size
             /\ first < (p + 1) * PageSize
        BY DEF PagesOf
      <4>3. p * PageSize < at + RoundToPages(size) /\ at < (p + 1) * PageSize
        BY <1>1, <2>2, <3>2, <3>3, <4>1, <4>2, RoundsUp
      <4>4. QED BY <4>2, <4>3 DEF PagesOf
    <3>4. first - at + size > RoundToPages(size) \/ first - at + size <= RoundToPages(size)
      BY <1>1, <2>2, <3>2, RoundsUp
    <3>5. CASE first - at + size <= RoundToPages(size)
      <4>1. PagesOf(first, size) \subseteq {p \in Page : mapped'[p] = ProtOf[protect]}
        BY <2>1, <3>3, <3>5
      <4>2. QED BY <3>1, <4>1 DEF GrantIsMapped
    <3>6. CASE first - at + size > RoundToPages(size)
      BY <3>1, <3>6 DEF GrantIsMapped
    <3>7. QED BY <3>4, <3>5, <3>6
  <2>7. QED BY <2>4, <2>5, <2>6
<1>4. QED BY <1>2, <1>3 DEF AllocateVirtualMemory, Answer

\* NtFreeVirtualMemory.
LEMMA FreeUnmaps ==
  ASSUME VirtualTypeOK, HeldIsMapped, NEW base \in Int, NEW size \in 0 .. MaxRegion,
         FreeVirtualMemory(base, size)
  PROVE  VirtualTypeOK' /\ HeldIsMapped' /\ GrantIsMapped'
<1>1. size \in Nat BY MemoryAssumption
<1>2. GrantIsMapped' BY DEF FreeVirtualMemory, Answer, GrantIsMapped
<1>3. CASE UNCHANGED <<mapped, holds>> BY <1>2, <1>3 DEF VirtualTypeOK, HeldIsMapped
<1>4. CASE ~UNCHANGED <<mapped, holds>>
  <2>1. /\ base % PageSize = 0
        /\ mapped' = [p \in Page |-> IF p \in PagesOf(base, RoundToPages(size))
                                     THEN NotMapped ELSE mapped[p]]
        /\ holds' = holds \ PagesOf(base, size)
    BY <1>4 DEF FreeVirtualMemory
  <2>2. PagesOf(base, RoundToPages(size)) = PagesOf(base, size) BY <1>1, <2>1, SamePages
  <2>3. QED BY <1>2, <2>1, <2>2 DEF VirtualTypeOK, HeldIsMapped
<1>5. QED BY <1>3, <1>4

\* The pages that are mapped are those that were granted and not released, and
\* what was asked for and granted has the protection of the call, but for a
\* failed mmap and for an address inside of a page (mm.c 33 to 86).
THEOREM MemoryIsRight == VirtualSpec => []RegionsAreRight
<1>1. VirtualInit => VirtualTypeOK /\ HeldIsMapped /\ GrantIsMapped
  BY DEF VirtualInit, VirtualTypeOK, HeldIsMapped, GrantIsMapped
<1>2. /\ VirtualTypeOK /\ HeldIsMapped /\ GrantIsMapped /\ [VirtualNext]_memoryVars
      => (VirtualTypeOK /\ HeldIsMapped /\ GrantIsMapped)'
  <2> SUFFICES ASSUME VirtualTypeOK, HeldIsMapped, GrantIsMapped, [VirtualNext]_memoryVars
               PROVE  VirtualTypeOK' /\ HeldIsMapped' /\ GrantIsMapped'
    OBVIOUS
  <2>1. CASE UNCHANGED memoryVars
    BY <2>1 DEF memoryVars, VirtualTypeOK, HeldIsMapped, GrantIsMapped
  <2>2. CASE VirtualNext
    <3>1. PICK base \in MapFailed .. (LastPage + 1) * PageSize - 1, size \in 0 .. MaxRegion :
            \/ \E protect \in DOMAIN ProtOf \cup {"readwrite-execute"} :
                 base >= Null /\ AllocateVirtualMemory(base, size, protect)
            \/ FreeVirtualMemory(base, size)
      BY <2>2 DEF VirtualNext
    <3>2. base \in Int BY MemoryAssumption DEF MapFailed
    <3>3. base >= Null => base \in Nat BY <3>2 DEF Null
    <3>4. QED BY <3>1, <3>2, <3>3, AllocateMaps, FreeUnmaps
  <2>3. QED BY <2>1, <2>2
<1>3. QED BY <1>1, <1>2, PTL DEF VirtualSpec, RegionsAreRight

-----------------------------------------------------------------------------
(* Numbers of sections, imports and cells.                                 *)

\* A set of numbers has a least one: the first bit that stops a run.
LEMMA LeastNumber ==
  ASSUME NEW S \in SUBSET Nat, S # {}
  PROVE  Min(S) \in S /\ \A x \in S : Min(S) <= x
<1>1. PICK n \in S : TRUE OBVIOUS
<1>2. IsFiniteSet(0 .. n) BY FS_Interval
<1> DEFINE V == 0 .. n
           F == {0 .. x : x \in S \cap V}
<1>3. F \in SUBSET SUBSET V /\ F # {}
  <2>1. n \in S \cap V BY <1>1
  <2>2. QED BY <2>1
<1>4. FiniteSubsetsOf(V) = SUBSET V BY <1>2, FS_FiniteSubsetsOfFinite
<1>5. IsWellFoundedOn(StrictSubsetOrdering(V), SUBSET V)
  BY <1>4, FS_StrictSubsetOrderingWellFounded
<1>6. PICK A \in F : \A B \in F : <<B, A>> \notin StrictSubsetOrdering(V)
  BY <1>3, <1>5, WFMin
<1>7. PICK m \in S \cap V : A = 0 .. m BY <1>6
<1>8. ASSUME NEW x \in S, x < m PROVE FALSE
  <2>1. x \in V BY <1>7, <1>8
  <2>2. 0 .. x \in F BY <2>1
  <2>3. 0 .. x \in SUBSET V /\ 0 .. m \in SUBSET V BY <2>1, <1>7
  <2>4. 0 .. x \subseteq 0 .. m /\ 0 .. x # 0 .. m
    <3>1. m \in 0 .. m /\ m \notin 0 .. x BY <1>7, <1>8
    <3>2. QED BY <3>1, <1>7, <1>8
  <2>5. <<0 .. x, 0 .. m>> \in StrictSubsetOrdering(V) BY <2>3, <2>4 DEF StrictSubsetOrdering
  <2>6. QED BY <1>6, <1>7, <2>2, <2>5
<1>9. m \in S /\ \A x \in S : m <= x BY <1>7, <1>8
<1>10. QED BY <1>9 DEF Min

\* What holds of a number if it holds of those below holds of all: of the rounds of
\* a loop.
LEMMA Upwards ==
  ASSUME NEW N \in Nat, NEW Good,
         \A i \in 0 .. N : (\A j \in 0 .. N : j < i => j \in Good) => i \in Good
  PROVE  \A i \in 0 .. N : i \in Good
<1> DEFINE Bad == {i \in 0 .. N : i \notin Good}
<1>1. SUFFICES ASSUME Bad # {} PROVE FALSE OBVIOUS
<1>2. Bad \in SUBSET Nat OBVIOUS
<1>3. Min(Bad) \in Bad /\ \A x \in Bad : Min(Bad) <= x
  <2> HIDE DEF Bad
  <2>1. QED BY <1>1, <1>2, LeastNumber
<1>4. PICK i \in Bad : \A x \in Bad : i <= x BY <1>3
<1>5. \A j \in 0 .. N : j < i => j \in Good BY <1>4
<1>6. QED BY <1>4, <1>5

\* A set of numbers up to N has a greatest one: the last section at a cell.
LEMMA GreatestNumber ==
  ASSUME NEW N \in Nat, NEW S \in SUBSET (0 .. N), S # {}
  PROVE  Max(S) \in S /\ \A x \in S : x <= Max(S)
<1> DEFINE T == {i \in 0 .. N : N - i \in S}
<1>1. T \in SUBSET Nat OBVIOUS
<1>2. T # {}
  <2>1. PICK x \in S : TRUE OBVIOUS
  <2>2. N - x \in 0 .. N /\ N - (N - x) = x OBVIOUS
  <2>3. N - x \in T BY <2>2
  <2>4. QED BY <2>3
<1>3. PICK i \in T : \A y \in T : i <= y
  <2> HIDE DEF T
  <2>1. QED BY <1>1, <1>2, LeastNumber
<1>4. ASSUME NEW x \in S PROVE x <= N - i
  <2>1. N - x \in 0 .. N /\ N - (N - x) = x OBVIOUS
  <2>2. N - x \in T BY <2>1
  <2>3. i <= N - x BY <1>3, <2>2
  <2>4. QED BY <1>3, <2>3
<1>5. N - i \in S /\ \A x \in S : N - i >= x BY <1>3, <1>4
<1>6. QED BY <1>5 DEF Max

\* One of n numbers is the greatest: the end of a section is that of the image.
LEMMA GreatestOf ==
  ASSUME NEW n \in Nat \ {0}, NEW g \in [1 .. n -> Nat]
  PROVE  \E i \in 1 .. n : \A j \in 1 .. n : g[j] <= g[i]
<1> DEFINE Good == {k \in 0 .. n : k = 0 \/ \E i \in 1 .. k : \A j \in 1 .. k : g[j] <= g[i]}
<1>1. ASSUME NEW k \in 0 .. n, \A l \in 0 .. n : l < k => l \in Good PROVE k \in Good
  <2>1. CASE k = 0 BY <2>1
  <2>2. CASE k = 1
    <3>1. 1 \in 1 .. n /\ g[1] \in Nat BY <2>2
    <3>2. \A j \in 1 .. k : g[j] <= g[1] BY <2>2, <3>1
    <3>3. QED BY <2>2, <3>2
  <2>3. CASE k > 1
    <3>1. k - 1 \in 0 .. n /\ k - 1 < k /\ k - 1 # 0 BY <2>3
    <3>2. PICK i \in 1 .. k - 1 : \A j \in 1 .. k - 1 : g[j] <= g[i] BY <1>1, <3>1
    <3>3. i \in 1 .. n /\ k \in 1 .. n /\ i \in 1 .. k /\ k \in 1 .. k BY <2>3, <3>2
    <3>4. g[i] \in Nat /\ g[k] \in Nat BY <3>3
    <3>5. \A j \in 1 .. k : j \in 1 .. k - 1 \/ j = k BY <2>3
    <3>6. CASE g[k] <= g[i]
      <4>1. \A j \in 1 .. k : g[j] <= g[i] BY <3>2, <3>5, <3>6
      <4>2. QED BY <3>3, <4>1
    <3>7. CASE g[k] > g[i]
      <4>1. ASSUME NEW j \in 1 .. k PROVE g[j] <= g[k]
        <5>1. CASE j = k BY <3>4, <5>1
        <5>2. CASE j # k
          <6>1. j \in 1 .. k - 1 /\ j \in 1 .. n BY <3>5, <5>2, <2>3
          <6>2. g[j] <= g[i] /\ g[j] \in Nat BY <3>2, <6>1
          <6>3. QED BY <3>4, <3>7, <6>2
        <5>3. QED BY <5>1, <5>2
      <4>2. QED BY <3>3, <4>1
    <3>8. QED BY <3>4, <3>6, <3>7
  <2>4. QED BY <2>1, <2>2, <2>3
<1>2. \A k \in 0 .. n : k \in Good
  <2> HIDE DEF Good
  <2>1. QED BY <1>1, Upwards
<1>3. n \in 0 .. n /\ n # 0 OBVIOUS
<1>4. QED BY <1>2, <1>3

-----------------------------------------------------------------------------
(* Sections.                                                               *)

\* A number of whole pages.
Multiple(x) == \E q \in Nat : x = q * PageCells

\* What PEALIGN gives is where a page begins.
LEMMA DownIs ==
  ASSUME NEW o \in Nat
  PROVE  Down(o) \in Nat /\ Multiple(Down(o)) /\ Down(o) <= o
<1>1. PICK b \in Nat \ {0} : b = PageCells BY LoaderAssumption
<1>2. o \div b \in Int /\ o % b \in 0 .. b - 1 /\ o = b * (o \div b) + (o % b)
  <2>1. b \in Int /\ b > 0 OBVIOUS
  <2>2. o % b \in 0 .. b - 1 BY <2>1
  <2>3. o = b * (o \div b) + (o % b) BY <2>1
  <2>4. o \div b \in Int BY <2>1
  <2>5. QED BY <2>2, <2>3, <2>4
<1>3. PICK q \in Int, r \in 0 .. b - 1 : q = o \div b /\ o = b * q + r BY <1>2
<1>4. q \in Nat
  <2>1. ASSUME q <= -1 PROVE FALSE
    <3>1. b * q <= -b BY <2>1
    <3>2. QED BY <1>3, <3>1
  <2>2. QED BY <2>1
<1>5. q * b = b * q /\ q * b \in Nat BY <1>4
<1>6. Down(o) = q * b BY <1>1, <1>3 DEF Down
<1>7. QED BY <1>1, <1>3, <1>4, <1>5, <1>6 DEF Multiple

\* The sections of a file without a defect: where they begin and end.
LEMMA SectionsAre ==
  ASSUME file \in Files, ~file.defect
  PROVE  /\ Len(file.sections) \in Nat \ {0}
         /\ Sections = 1 .. Len(file.sections)
         /\ \A i \in Sections :
              /\ Rva(i) \in Nat /\ Multiple(Rva(i))
              /\ Extent(i) \in Nat /\ Multiple(Extent(i))
              /\ file.sections[i].raw \in Nat /\ file.sections[i].rsize \in Nat
<1>1. /\ Len(file.sections) \in Nat /\ Len(file.sections) > 0
      /\ DOMAIN file.sections = 1 .. Len(file.sections)
  BY LoaderAssumption
<1>2. Len(file.sections) # 0 BY <1>1
<1>3. ASSUME NEW i \in Sections
      PROVE  /\ Rva(i) \in Nat /\ Multiple(Rva(i))
             /\ Extent(i) \in Nat /\ Multiple(Extent(i))
             /\ file.sections[i].raw \in Nat /\ file.sections[i].rsize \in Nat
  <2>1. {file.sections[i].va, file.sections[i].vsize, file.sections[i].raw,
         file.sections[i].rsize} \subseteq Nat
    BY LoaderAssumption DEF Sections
  <2>2. PICK v \in Nat : v = file.sections[i].va BY <2>1
  <2>3. PICK w \in Nat : w = file.sections[i].vsize + PageCells - 1
    <3>1. PageCells \in Nat \ {0} BY LoaderAssumption
    <3>2. file.sections[i].vsize \in Nat BY <2>1
    <3>3. file.sections[i].vsize + PageCells - 1 \in Nat BY <3>1, <3>2
    <3>4. QED BY <3>3
  <2>4. Rva(i) = Down(v) /\ Extent(i) = Down(w) BY <2>2, <2>3 DEF Rva, Extent, Up
  <2>5. QED BY <2>1, <2>4, DownIs
<1>4. QED BY <1>1, <1>2, <1>3 DEF Sections

\* The image has room for the sections, and they are behind the headers.
LEMMA ImageIs ==
  ASSUME file \in Files, ~file.defect
  PROVE  /\ ImageSize \in Nat /\ MinRva \in Nat
         /\ \A i \in Sections : Rva(i) + Extent(i) <= ImageSize /\ MinRva <= Rva(i)
<1>1. PICK n \in Nat \ {0} : Sections = 1 .. n BY SectionsAre
<1>2. \A i \in 1 .. n : Rva(i) \in Nat /\ Extent(i) \in Nat BY <1>1, SectionsAre
<1>3. /\ ImageSize \in {Rva(i) + Extent(i) : i \in 1 .. n}
      /\ \A i \in 1 .. n : Rva(i) + Extent(i) <= ImageSize
  <2> DEFINE g == [i \in 1 .. n |-> Rva(i) + Extent(i)]
             S == {Rva(i) + Extent(i) : i \in 1 .. n}
  <2>1. g \in [1 .. n -> Nat] BY <1>2
  <2>2. PICK k \in 1 .. n : \A j \in 1 .. n : g[j] <= g[k]
    <3> HIDE DEF g
    <3>1. QED BY <2>1, GreatestOf
  <2>3. Rva(k) + Extent(k) \in S /\ \A y \in S : Rva(k) + Extent(k) >= y
    <3>1. \A j \in 1 .. n : Rva(j) + Extent(j) <= Rva(k) + Extent(k) BY <2>2
    <3>2. \A j \in 1 .. n : Rva(j) + Extent(j) \in Int BY <1>2
    <3>3. QED BY <3>1, <3>2
  <2>4. Max(S) \in S /\ \A y \in S : Max(S) >= y BY <2>3 DEF Max
  <2>5. ImageSize = Max(S) BY <1>1 DEF ImageSize
  <2>6. \A y \in S : y \in Int BY <1>2
  <2>7. QED BY <2>4, <2>5, <2>6
<1>4. MinRva \in {Rva(i) : i \in 1 .. n} /\ \A i \in 1 .. n : MinRva <= Rva(i)
  <2> DEFINE S == {Rva(i) : i \in 1 .. n}
  <2>1. S \in SUBSET Nat BY <1>2
  <2>2. Rva(1) \in S OBVIOUS
  <2>3. Min(S) \in S /\ \A x \in S : Min(S) <= x
    <3> HIDE DEF S
    <3>1. QED BY <2>1, <2>2, LeastNumber
  <2>4. MinRva = Min(S) BY <1>1 DEF MinRva
  <2>5. QED BY <2>3, <2>4
<1>5. QED BY <1>1, <1>2, <1>3, <1>4

\* A page that begins before another one ends before it begins.
LEMMA PagesFollow ==
  ASSUME NEW p \in Int, NEW q \in Int, p < q
  PROVE  /\ (p + 1) * PageCells <= q * PageCells
         /\ (p + 1) * PageCells = p * PageCells + PageCells
<1>1. PICK b \in Nat \ {0} : b = PageCells BY LoaderAssumption
<1>2. PICK d \in Nat : q = p + 1 + d
  <2>1. q - p - 1 \in Nat /\ q = p + 1 + (q - p - 1) OBVIOUS
  <2>2. QED BY <2>1
<1>3. q * b = (p + 1) * b + d * b BY <1>2
<1>4. d * b \in Nat BY <1>2
<1>5. (p + 1) * b = p * b + b OBVIOUS
<1>6. (p + 1) * b \in Int /\ q * b \in Int OBVIOUS
<1>7. QED BY <1>1, <1>3, <1>4, <1>5, <1>6

\* The sections of a usual file share no page.
LEMMA PagesDiffer ==
  ASSUME file \in Files, ~file.defect, Regular, NEW i \in Sections, NEW j \in Sections, i # j,
         DOMAIN prot \subseteq Int, NEW p \in PagesIn(Rva(i), Extent(i))
  PROVE  p \notin PagesIn(Rva(j), Extent(j))
<1>1. ASSUME NEW a \in Sections, NEW b \in Sections, a < b,
             p \in PagesIn(Rva(a), Extent(a)), p \in PagesIn(Rva(b), Extent(b))
      PROVE  FALSE
  <2>1. Rva(a) + Extent(a) <= Rva(b) BY <1>1 DEF Regular
  <2>2. /\ p \in Int /\ p * PageCells < Rva(a) + Extent(a)
        /\ (p + 1) * PageCells > Rva(b)
    BY <1>1 DEF PagesIn
  <2>3. PICK q \in Nat : Rva(b) = q * PageCells BY SectionsAre DEF Multiple
  <2>4. PageCells \in Nat \ {0} BY LoaderAssumption
  <2>5. Rva(a) \in Nat /\ Extent(a) \in Nat /\ Rva(b) \in Nat BY SectionsAre
  <2>6. p * PageCells \in Int /\ (p + 1) * PageCells \in Int /\ q * PageCells \in Int BY <2>2, <2>4
  <2>7. CASE p < q
    <3>1. (p + 1) * PageCells <= q * PageCells BY <2>2, <2>7, PagesFollow
    <3>2. QED BY <2>2, <2>3, <2>5, <2>6, <3>1
  <2>8. CASE p >= q
    <3>1. CASE p = q BY <2>1, <2>2, <2>3, <2>5, <2>6, <3>1
    <3>2. CASE q < p
      <4>1. (q + 1) * PageCells <= p * PageCells /\ (q + 1) * PageCells = q * PageCells + PageCells
        BY <2>2, <3>2, PagesFollow
      <4>2. QED BY <2>1, <2>2, <2>3, <2>4, <2>5, <2>6, <4>1
    <3>3. QED BY <2>2, <2>8, <3>1, <3>2
  <2>9. QED BY <2>2, <2>7, <2>8
<1>2. i \in Nat /\ j \in Nat BY SectionsAre
<1>3. i < j \/ j < i BY <1>2
<1>4. QED BY <1>1, <1>3

\* The cells that CopySections fills for a section.
CellsOf(i) == Rva(i) .. Rva(i) + file.sections[i].rsize - 1

\* They share no cell either, whatever they take from the file (SECTIONS - mapping).
LEMMA CellsDiffer ==
  ASSUME file \in Files, ~file.defect, Regular, NEW i \in Sections, NEW c \in CellsOf(i)
  PROVE  /\ c \in 0 .. ImageSize - 1 /\ MinRva <= c
         /\ \A j \in Sections : c \in CellsOf(j) => j = i
<1>1. ASSUME NEW a \in Sections
      PROVE  /\ Rva(a) \in Nat /\ Extent(a) \in Nat /\ file.sections[a].rsize \in Nat
             /\ file.sections[a].rsize <= Extent(a) /\ Rva(a) + Extent(a) <= ImageSize
             /\ ImageSize \in Nat /\ MinRva \in Nat /\ MinRva <= Rva(a) /\ a \in Nat
  BY SectionsAre, ImageIs DEF Regular
<1>2. ASSUME NEW a \in Sections, NEW b \in Sections, a < b, c \in CellsOf(a), c \in CellsOf(b)
      PROVE  FALSE
  <2>1. Rva(a) + Extent(a) <= Rva(b) BY <1>2 DEF Regular
  <2>2. c < Rva(a) + file.sections[a].rsize /\ Rva(b) <= c /\ c \in Int BY <1>1, <1>2 DEF CellsOf
  <2>3. QED BY <1>1, <2>1, <2>2
<1>3. c \in Int /\ Rva(i) <= c /\ c < Rva(i) + file.sections[i].rsize BY <1>1 DEF CellsOf
<1>4. c \in 0 .. ImageSize - 1 /\ MinRva <= c BY <1>1, <1>3
<1>5. ASSUME NEW j \in Sections, c \in CellsOf(j) PROVE j = i
  <2>1. i \in Nat /\ j \in Nat BY <1>1
  <2>2. ~(i < j) /\ ~(j < i) BY <1>2, <1>5
  <2>3. QED BY <2>1, <2>2
<1>6. QED BY <1>4, <1>5

\* Behind the image there is nothing, in a usual file.
LEMMA NothingOutside ==
  ASSUME file \in Files, ~file.defect, Regular, NEW c, c \notin 0 .. ImageSize - 1
  PROVE  Cell(c) = Zero
<1>1. \A i \in Sections : c \notin CellsOf(i) BY CellsDiffer
<1>2. QED BY <1>1 DEF Cell, CellsOf

\* The parameters are beside the image.
LEMMA ParamsBeside ==
  ASSUME file \in Files, ~file.defect, Regular
  PROVE  /\ \A c \in 0 .. ImageSize - 1 : c + file.base \notin ParamsAt .. ParamsAt + PageCells - 1
         /\ \A p \in 0 .. (ImageSize \div PageCells) - 1 : p * PageCells + file.base # ParamsAt
<1>1. PICK b \in Nat \ {0} : b = PageCells BY LoaderAssumption
<1>2. PICK m \in Nat, base \in Nat, at \in Nat :
        m = ImageSize /\ base = file.base /\ at = ParamsAt /\ base % b = 0 /\ at % b = 0
  <2>1. ImageSize \in Nat BY ImageIs
  <2>2. file.base \in Nat /\ file.base % b = 0 BY <1>1, LoaderAssumption
  <2>3. ParamsAt \in Nat /\ ParamsAt % b = 0 BY <1>1, LoaderAssumption
  <2>4. QED BY <2>1, <2>2, <2>3
<1>3. at < base \/ at >= base + m
  <2>1. at \notin base .. base + m - 1 BY <1>2 DEF Regular
  <2>2. QED BY <2>1
<1>4. at < base => at + b <= base
  <2>1. PICK q \in Int : at = b * q
    <3>1. at = b * (at \div b) + (at % b) /\ at \div b \in Int OBVIOUS
    <3>2. at = b * (at \div b) BY <1>2, <3>1
    <3>3. QED BY <3>1, <3>2
  <2>2. PICK r \in Int : base = b * r
    <3>1. base = b * (base \div b) + (base % b) /\ base \div b \in Int OBVIOUS
    <3>2. base = b * (base \div b) BY <1>2, <3>1
    <3>3. QED BY <3>1, <3>2
  <2>3. ASSUME at < base PROVE at + b <= base
    <3>1. q < r
      <4>1. ASSUME q >= r PROVE FALSE
        <5>1. PICK d \in Nat : q = r + d
          <6>1. q - r \in Nat /\ q = r + (q - r) BY <4>1
          <6>2. QED BY <6>1
        <5>2. b * q = b * r + b * d BY <5>1
        <5>3. b * d >= 0 BY <5>1
        <5>4. QED BY <2>1, <2>2, <2>3, <5>2, <5>3
      <4>2. QED BY <4>1
    <3>2. PICK q1 \in Int, r1 \in Int : q1 = q /\ r1 = r OBVIOUS
    <3>3. (q + 1) * b <= r * b /\ (q + 1) * b = q * b + b BY <1>1, <3>1, PagesFollow
    <3>4. q * b = b * q /\ r * b = b * r OBVIOUS
    <3>5. QED BY <2>1, <2>2, <3>3, <3>4
  <2>4. QED BY <2>3
<1>5. ASSUME NEW c \in 0 .. m - 1 PROVE c + base \notin at .. at + b - 1 BY <1>3, <1>4
<1>6. ASSUME NEW p \in 0 .. (m \div b) - 1, p * b + base = at PROVE FALSE
  <2>1. m \div b \in Int /\ m = b * (m \div b) + (m % b) /\ m % b >= 0
    <3>1. m % b \in 0 .. b - 1 OBVIOUS
    <3>2. QED BY <3>1
  <2>2. PICK q \in Int : q = m \div b /\ b * q <= m
    <3>1. b * (m \div b) \in Int /\ m % b \in Int BY <2>1
    <3>2. b * (m \div b) <= m BY <2>1, <3>1
    <3>3. QED BY <2>1, <3>2
  <2>3. p \in Nat /\ p < q BY <2>2
  <2>4. (p + 1) * b <= q * b /\ (p + 1) * b = p * b + b BY <1>1, <2>3, PagesFollow
  <2>5. p * b \in Nat /\ q * b = b * q /\ q * b \in Int BY <2>3
  <2>6. p * b < m BY <2>2, <2>4, <2>5
  <2>7. at >= base /\ at < base + m BY <1>6, <2>5, <2>6
  <2>8. QED BY <1>3, <2>7
<1>7. QED BY <1>1, <1>2, <1>5, <1>6

-----------------------------------------------------------------------------
(* The sections in memory.                                                 *)

\* What the first m sections have for a cell.
Takes(i, c) == InFile(i) /\ c \in CellsOf(i)
CellUpTo(m, c) ==
  LET on == {i \in 1 .. m : Takes(i, c)}
  IN  IF on = {} THEN Zero
      ELSE file.cells[file.sections[Max(on)].raw + (c - Rva(Max(on))) + 1]

\* Each section is written over what those before it left.
LEMMA LaterIsOver ==
  ASSUME NEW m \in Nat \ {0}, NEW c
  PROVE  CellUpTo(m, c) = IF Takes(m, c) THEN file.cells[file.sections[m].raw + (c - Rva(m)) + 1]
                          ELSE CellUpTo(m - 1, c)
<1> DEFINE On(n) == {i \in 1 .. n : Takes(i, c)}
<1>1. CASE Takes(m, c)
  <2>1. m \in On(m) BY <1>1
  <2>2. On(m) \in SUBSET (0 .. m) OBVIOUS
  <2>3. \A x \in On(m) : x <= m OBVIOUS
  <2>4. Max(On(m)) = m
    <3> HIDE DEF On
    <3>1. Max(On(m)) \in On(m) /\ m <= Max(On(m)) BY <2>1, <2>2, GreatestNumber
    <3>2. Max(On(m)) \in 0 .. m BY <2>2, <3>1
    <3>3. QED BY <2>3, <3>1, <3>2
  <2>5. CellUpTo(m, c) = file.cells[file.sections[Max(On(m))].raw + (c - Rva(Max(On(m)))) + 1]
    BY <2>1 DEF CellUpTo
  <2> HIDE DEF On
  <2>6. QED BY <1>1, <2>4, <2>5
<1>2. CASE ~Takes(m, c)
  <2>1. On(m) = On(m - 1)
    <3>1. \A i \in 1 .. m : i = m \/ i \in 1 .. m - 1 OBVIOUS
    <3>2. QED BY <1>2, <3>1
  <2>2. QED BY <1>2, <2>1 DEF CellUpTo
<1>3. QED BY <1>1, <1>2

\* The image has what the file has (SECTIONS - mapping).
LEMMA FilledIs ==
  ASSUME file \in Files, ~file.defect, mem = [c \in 0 .. ImageSize - 1 |-> Zero]
  PROVE  Filled(Len(file.sections)) = [c \in 0 .. ImageSize - 1 |-> Cell(c)]
<1> DEFINE At(f, n) == [i \in 0 .. n |->
                         IF i = 0 THEN mem
                         ELSE [c \in DOMAIN mem |->
                                 IF Takes(i, c)
                                 THEN file.cells[file.sections[i].raw + (c - Rva(i)) + 1]
                                 ELSE f[i - 1][c]]]
           Part(i) == [c \in DOMAIN mem |-> CellUpTo(i, c)]
<1>1. PICK n \in Nat \ {0} : n = Len(file.sections) /\ Sections = 1 .. n BY SectionsAre
<1>2. Filled(n) = (CHOOSE f : f = At(f, n))[n] BY DEF Filled, Takes, CellsOf
<1>3. Part(0) = mem
  <2>1. \A c : CellUpTo(0, c) = Zero
    <3>1. 1 .. 0 = {} OBVIOUS
    <3>2. QED BY <3>1 DEF CellUpTo
  <2>2. QED BY <2>1
<1>4. ASSUME NEW i \in 1 .. n
      PROVE  Part(i) = [c \in DOMAIN mem |->
                          IF Takes(i, c) THEN file.cells[file.sections[i].raw + (c - Rva(i)) + 1]
                          ELSE Part(i - 1)[c]]
  <2>1. i \in Nat \ {0} OBVIOUS
  <2>2. \A c \in DOMAIN mem :
          CellUpTo(i, c) = IF Takes(i, c) THEN file.cells[file.sections[i].raw + (c - Rva(i)) + 1]
                           ELSE CellUpTo(i - 1, c)
    BY <2>1, LaterIsOver
  <2>3. \A c \in DOMAIN mem : Part(i - 1)[c] = CellUpTo(i - 1, c) OBVIOUS
  <2>4. QED BY <2>2, <2>3
<1> DEFINE f0 == [i \in 0 .. n |-> Part(i)]
<1>5. f0 = At(f0, n)
  <2>1. ASSUME NEW i \in 0 .. n PROVE f0[i] = At(f0, n)[i]
    <3>1. CASE i = 0 BY <1>3, <3>1
    <3>2. CASE i # 0
      <4>1. i \in 1 .. n /\ i - 1 \in 0 .. n BY <3>2
      <4>2. f0[i - 1] = Part(i - 1) /\ f0[i] = Part(i) BY <4>1
      <4> HIDE DEF Part
      <4>3. QED BY <1>4, <3>2, <4>1, <4>2
    <3>3. QED BY <3>1, <3>2
  <2>2. DOMAIN f0 = 0 .. n /\ f0 = [i \in 0 .. n |-> f0[i]] OBVIOUS
  <2>3. At(f0, n) = [i \in 0 .. n |-> At(f0, n)[i]] OBVIOUS
  <2> HIDE DEF f0, At
  <2>4. QED BY <2>1, <2>2, <2>3
<1>6. PICK g : g = At(g, n) /\ g = CHOOSE f : f = At(f, n)
  <2> HIDE DEF f0, At
  <2>1. QED BY <1>5
<1>7. \A i \in 0 .. n : g[i] = Part(i)
  <2> DEFINE Good == {i \in 0 .. n : g[i] = Part(i)}
  <2>1. ASSUME NEW i \in 0 .. n, \A j \in 0 .. n : j < i => j \in Good PROVE i \in Good
    <3> HIDE DEF Part
    <3>1. CASE i = 0 BY <1>3, <1>6, <3>1
    <3>2. CASE i # 0
      <4>1. i \in 1 .. n /\ i - 1 \in 0 .. n /\ i - 1 < i BY <3>2
      <4>2. g[i - 1] = Part(i - 1) BY <2>1, <4>1
      <4>3. g[i] = [c \in DOMAIN mem |->
                      IF Takes(i, c) THEN file.cells[file.sections[i].raw + (c - Rva(i)) + 1]
                      ELSE g[i - 1][c]]
        BY <1>6, <3>2
      <4>4. g[i] = Part(i) BY <1>4, <4>1, <4>2, <4>3
      <4>5. QED BY <4>4
    <3>3. QED BY <3>1, <3>2
  <2> HIDE DEF Good
  <2>2. \A i \in 0 .. n : i \in Good BY <2>1, Upwards
  <2>3. QED BY <2>2 DEF Good
<1>8. \A c : CellUpTo(n, c) = Cell(c) BY <1>1 DEF CellUpTo, Cell, Takes, CellsOf
<1>9. n \in 0 .. n OBVIOUS
<1>10. g[n] = [c \in 0 .. ImageSize - 1 |-> Cell(c)]
  <2>1. Part(n) = [c \in 0 .. ImageSize - 1 |-> Cell(c)] BY <1>8
  <2> HIDE DEF Part
  <2>2. QED BY <1>7, <1>9, <2>1
<1> HIDE DEF At
<1>11. QED BY <1>1, <1>2, <1>6, <1>10

-----------------------------------------------------------------------------
(* What the file determines does not change: the cells of the sections,    *)
(* and of the libraries the names and the slots.                           *)

\* What the file has for the cells, as a function.
CellAt == [c \in Int |-> Cell(c)]

\* setup_nloader reads one file: what it has for the image stays.
LEMMA SameCells ==
  ASSUME file' = file PROVE CellAt' = CellAt
<1> DEFINE on(f, c) == {i \in DOMAIN f.sections :
                          /\ f.sections[i].raw + f.sections[i].rsize <= Len(f.cells)
                          /\ c \in Down(f.sections[i].va)
                                     .. Down(f.sections[i].va) + f.sections[i].rsize - 1}
           at(f, c) == IF on(f, c) = {} THEN Zero
                       ELSE f.cells[f.sections[Max(on(f, c))].raw
                                      + (c - Down(f.sections[Max(on(f, c))].va)) + 1]
<1>1. CellAt = [c \in Int |-> at(file, c)] BY DEF CellAt, Cell, Sections, InFile, Rva
<1>2. CellAt' = [c \in Int |-> at(file', c)] BY DEF CellAt, Cell, Sections, InFile, Rva
<1> HIDE DEF at
<1>3. QED BY <1>1, <1>2

\* So do the sizes that are computed from its sections.
LEMMA SameSizes ==
  ASSUME file' = file
  PROVE  Sections' = Sections /\ ImageSize' = ImageSize /\ MinRva' = MinRva
<1> DEFINE ends(f) == Max({Down(f.sections[i].va) + Up(f.sections[i].vsize) :
                             i \in DOMAIN f.sections})
           begins(f) == Min({Down(f.sections[i].va) : i \in DOMAIN f.sections})
<1>1. ImageSize = ends(file) /\ MinRva = begins(file)
  BY DEF ImageSize, MinRva, Sections, Rva, Extent
<1>2. ImageSize' = ends(file') /\ MinRva' = begins(file')
  BY DEF ImageSize, MinRva, Sections, Rva, Extent
<1>3. Sections' = Sections BY DEF Sections
<1> HIDE DEF ends, begins
<1>4. QED BY <1>1, <1>2, <1>3

\* So do its form and the imports it asks for.
LEMMA SameFile ==
  ASSUME file' = file
  PROVE  (Regular' <=> Regular) /\ Asked' = Asked
<1> DEFINE rva(f, i) == Down(f.sections[i].va)
           extent(f, i) == Up(f.sections[i].vsize)
           end(f) == Max({rva(f, i) + extent(f, i) : i \in DOMAIN f.sections})
           on(f, c) == {i \in DOMAIN f.sections :
                          /\ f.sections[i].raw + f.sections[i].rsize <= Len(f.cells)
                          /\ c \in rva(f, i) .. rva(f, i) + f.sections[i].rsize - 1}
           at(f, c) == IF on(f, c) = {} THEN Zero
                       ELSE f.cells[f.sections[Max(on(f, c))].raw
                                      + (c - rva(f, Max(on(f, c)))) + 1]
           regular(f) ==
             /\ \A i \in DOMAIN f.sections :
                  /\ f.sections[i].rsize <= extent(f, i)
                  /\ \A j \in DOMAIN f.sections : i < j => rva(f, i) + extent(f, i) <= rva(f, j)
             /\ ParamsAt \notin f.base .. f.base + end(f) - 1
             /\ \A c \in f.dir .. f.dir + f.dirsize - 1 :
                  at(f, c) = Zero \/ at(f, c).kind = "import"
           listed(f) ==
             UNION {{[dll |-> at(f, l).dll, name |-> at(f, at(f, l).names + k).name,
                      slot |-> at(f, l).addrs + k] :
                       k \in {m \in 0 .. end(f) :
                               \A n \in 0 .. m : at(f, at(f, l).names + n) # Zero}} :
                     l \in {d \in f.dir .. f.dir + f.dirsize - 1 :
                             \A e \in f.dir .. d : at(f, e) # Zero}}
<1>1. Regular <=> regular(file)
  BY DEF Regular, Cell, Sections, InFile, Rva, Extent, ImageSize
<1>2. Regular' <=> regular(file')
  BY DEF Regular, Cell, Sections, InFile, Rva, Extent, ImageSize
<1>3. Asked = listed(file)
  BY DEF Asked, Import, IsThunk, IsLibrary, Cell, Sections, InFile, Rva, Extent, ImageSize
<1>4. Asked' = listed(file')
  BY DEF Asked, Import, IsThunk, IsLibrary, Cell, Sections, InFile, Rva, Extent, ImageSize
<1> HIDE DEF regular, listed
<1>5. QED BY <1>1, <1>2, <1>3, <1>4

\* In a usual file the directory lists descriptors.
LEMMA DescriptorsAre ==
  ASSUME file \in Files, ~file.defect, Regular,
         NEW l \in file.dir .. file.dir + file.dirsize - 1, CellAt[l] # Zero
  PROVE  CellAt[l].names \in Nat /\ CellAt[l].addrs \in Nat
<1>1. l \in Int /\ CellAt[l] = Cell(l)
  <2>1. file.dir \in Nat /\ file.dirsize \in Nat BY LoaderAssumption
  <2>2. l \in Int BY <2>1
  <2>3. QED BY <2>2 DEF CellAt
<1>2. Cell(l) # Zero /\ Cell(l).kind = "import" BY <1>1 DEF Regular
<1> DEFINE on == {i \in Sections : Takes(i, l)}
<1>3. on # {} /\ Cell(l) = file.cells[file.sections[Max(on)].raw + (l - Rva(Max(on))) + 1]
  BY <1>2 DEF Cell, Takes, CellsOf
<1>4. PICK n \in Nat \ {0} : Sections = 1 .. n BY SectionsAre
<1>5. PICK i \in Sections : Takes(i, l) /\ i = Max(on)
  <2>1. on \in SUBSET (0 .. n) BY <1>4
  <2> HIDE DEF on
  <2>2. Max(on) \in on BY <1>3, <1>4, <2>1, GreatestNumber
  <2>3. QED BY <2>2 DEF on
<1>6. PICK c \in Int : c = file.sections[i].raw + (l - Rva(i)) + 1 /\ c \in 1 .. Len(file.cells)
  <2>1. PICK r \in Nat, raw \in Nat, rsize \in Nat, len \in Nat :
          /\ r = Rva(i) /\ raw = file.sections[i].raw /\ rsize = file.sections[i].rsize
          /\ len = Len(file.cells)
    <3>1. Rva(i) \in Nat /\ file.sections[i].raw \in Nat /\ file.sections[i].rsize \in Nat
      BY SectionsAre
    <3>2. Len(file.cells) \in Nat BY LoaderAssumption
    <3>3. QED BY <3>1, <3>2
  <2>2. InFile(i) /\ l \in CellsOf(i) BY <1>5 DEF Takes
  <2>3. raw + rsize <= len BY <2>1, <2>2 DEF InFile
  <2>4. l \in r .. r + rsize - 1 BY <2>1, <2>2 DEF CellsOf
  <2>5. raw + (l - r) + 1 \in 1 .. len BY <1>1, <2>3, <2>4
  <2>6. QED BY <2>1, <2>5
<1>7. Cell(l) = file.cells[c] BY <1>3, <1>5, <1>6
<1>8. {file.cells[c].names, file.cells[c].addrs} \subseteq Nat
  BY <1>2, <1>6, <1>7, LoaderAssumption
<1>9. QED BY <1>1, <1>7, <1>8

\* The k-th thunk of a library is for the k-th slot, and nothing else is asked.
Entry(l, k) ==
  [dll |-> CellAt[l].dll, name |-> CellAt[CellAt[l].names + k].name,
   slot |-> CellAt[l].addrs + k]
IsListed(l, k) ==
  /\ l \in file.dir .. file.dir + file.dirsize - 1
  /\ \A d \in file.dir .. l : CellAt[d] # Zero
  /\ k \in Nat /\ \A n \in 0 .. k : CellAt[CellAt[l].names + n] # Zero

\* The lists of names end at the first that is empty (IAT - functions).
LEMMA AskedIs ==
  ASSUME file \in Files, ~file.defect, Regular
  PROVE  /\ \A l, k : IsListed(l, k) => Entry(l, k) \in Asked
         /\ \A a \in Asked : \E l, k : IsListed(l, k) /\ a = Entry(l, k)
<1>1. file.dir \in Nat /\ file.dirsize \in Nat BY LoaderAssumption
<1>2. ImageSize \in Nat BY ImageIs
<1>3. \A c \in Int : CellAt[c] = Cell(c) BY DEF CellAt
<1>4. ASSUME NEW l \in file.dir .. file.dir + file.dirsize - 1,
             \A d \in file.dir .. l : CellAt[d] # Zero
      PROVE  /\ l \in Int /\ Cell(l) = CellAt[l]
             /\ CellAt[l].names \in Nat /\ CellAt[l].addrs \in Nat
  <2>1. l \in Int /\ l \in file.dir .. l BY <1>1
  <2>2. CellAt[l] # Zero BY <1>4, <2>1
  <2>3. QED BY <1>3, <2>1, <2>2, DescriptorsAre
<1>5. ASSUME NEW l, NEW k, IsListed(l, k) PROVE Entry(l, k) \in Asked
  <2>1. /\ l \in file.dir .. file.dir + file.dirsize - 1 /\ k \in Nat
        /\ \A d \in file.dir .. l : CellAt[d] # Zero
        /\ \A n \in 0 .. k : CellAt[CellAt[l].names + n] # Zero
    BY <1>5 DEF IsListed
  <2>2. l \in Int /\ Cell(l) = CellAt[l] /\ CellAt[l].names \in Nat BY <1>4, <2>1
  <2>3. \A n \in 0 .. k : Cell(CellAt[l].names + n) = CellAt[CellAt[l].names + n] BY <1>3, <2>2
  <2>4. k \in 0 .. ImageSize
    <3>1. k \in 0 .. k BY <2>1
    <3>2. Cell(CellAt[l].names + k) # Zero BY <2>1, <2>3, <3>1
    <3>3. CellAt[l].names + k \in 0 .. ImageSize - 1 BY <3>2, NothingOutside
    <3>4. QED BY <1>2, <2>1, <2>2, <3>3
  <2>5. IsThunk(l, k) BY <2>1, <2>2, <2>3 DEF IsThunk
  <2>6. IsLibrary(l)
    <3>1. \A d \in file.dir .. l : d \in Int BY <1>1, <2>2
    <3>2. QED BY <1>3, <2>1, <3>1 DEF IsLibrary
  <2>7. Import(l, k) = Entry(l, k) BY <2>1, <2>2, <2>3 DEF Import, Entry
  <2>8. Import(l, k) \in Asked BY <2>1, <2>4, <2>5, <2>6 DEF Asked
  <2>9. QED BY <2>7, <2>8
<1>6. ASSUME NEW a \in Asked PROVE \E l, k : IsListed(l, k) /\ a = Entry(l, k)
  <2>1. PICK l \in file.dir .. file.dir + file.dirsize - 1, k \in 0 .. ImageSize :
          IsLibrary(l) /\ IsThunk(l, k) /\ a = Import(l, k)
    BY DEF Asked
  <2>2. \A d \in file.dir .. l : CellAt[d] # Zero
    <3>1. \A d \in file.dir .. l : d \in Int BY <1>1
    <3>2. QED BY <1>3, <2>1, <3>1 DEF IsLibrary
  <2>3. l \in Int /\ Cell(l) = CellAt[l] /\ CellAt[l].names \in Nat BY <1>4, <2>2
  <2>4. k \in Nat /\ \A n \in 0 .. k : Cell(CellAt[l].names + n) = CellAt[CellAt[l].names + n]
    BY <1>2, <1>3, <2>3
  <2>5. IsListed(l, k) BY <2>1, <2>2, <2>3, <2>4 DEF IsListed, IsThunk
  <2>6. Import(l, k) = Entry(l, k)
    <3>1. k \in 0 .. k BY <2>4
    <3>2. QED BY <2>3, <2>4, <3>1 DEF Import, Entry
  <2>7. QED BY <2>1, <2>5, <2>6
<1>7. QED BY <1>5, <1>6

-----------------------------------------------------------------------------
(* The invariant.  Of a file that is not Regular only the memory and what  *)
(* leads out of it are known.                                              *)

\* Where setup_nloader is: before the image is mapped, at the imports, behind them.
Early == {"header", "map"}
Importing == {"library", "function"}
Imported == {"patch", "headers", "protect", "process", "entry"}
Mapped == {"sections"} \cup Importing \cup Imported

\* Each import is one that the file asks for, with the export of its names.
Bindings ==
  {[dll |-> a.dll, name |-> a.name, slot |-> a.slot, addr |-> Resolve(a.dll, a.name)] : a \in Asked}

\* The slots of the imports, and the image when they are patched.
Bound == {c \in 0 .. ImageSize - 1 : \E i \in DOMAIN imports : imports[i].slot = c}
Patched == [c \in 0 .. ImageSize - 1 |->
              IF c \in Bound THEN Stub(LastImportOf(c)) ELSE CellAt[c]]

\* The slots of the library whose descriptor is at l.
Asks == [l \in Int |-> {CellAt[l].addrs + k : k \in {m \in Nat : IsListed(l, m)}}]

\* The descriptors that were looked at are there, and the others are left.
Walks ==
  /\ walk = [left |-> walk.left, import |-> walk.import, dll |-> walk.dll,
             names |-> walk.names, addrs |-> walk.addrs]
  /\ phase \notin Early =>
       /\ walk.left \in Nat /\ walk.import \in Nat /\ file.dir <= walk.import
       /\ walk.import + walk.left = file.dir + file.dirsize
       /\ \A d \in file.dir .. walk.import - 1 : CellAt[d] # Zero
  /\ phase = "sections" => walk.import = file.dir

\* The libraries before that of walk have their imports.
Done ==
  \A l \in file.dir .. walk.import - (IF phase = "function" THEN 2 ELSE 1) : Asks[l] \subseteq Bound

\* The library of walk has its first j ones.
InLibrary ==
  LET l == walk.import - 1
  IN  /\ file.dir <= l /\ walk.dll = CellAt[l].dll
      /\ \E j \in Nat :
           /\ walk.names = CellAt[l].names + j /\ walk.addrs = CellAt[l].addrs + j
           /\ \A n \in 0 .. j - 1 : /\ CellAt[CellAt[l].names + n] # Zero
                                    /\ CellAt[l].addrs + n \in Bound

\* Each page of a section has the protection of the section.
RightPages ==
  \A i \in Sections : \A p \in PagesIn(Rva(i), Extent(i)) : prot[p] = file.sections[i].prot

\* What is known at each place of setup_nloader.
Loads ==
  /\ imports \in Seq(Bindings)
  /\ phase \in Early \cup {"sections"} => imports = <<>>
  /\ phase \in Early \cup {"sections"} \cup Importing => Walks
  /\ phase \in Importing \cup {"patch"} => mem = [c \in 0 .. ImageSize - 1 |-> CellAt[c]]
  /\ phase \in Importing => Done
  /\ phase = "function" => InLibrary
  /\ phase \in Imported => \A a \in Asked : a.slot \in Bound
  /\ phase = "headers" => mem = Patched
  /\ phase \in {"protect", "process", "entry"} =>
       \A c \in 0 .. ImageSize - 1 : MinRva <= c => mem[c] = Patched[c]
  /\ phase \in {"process", "entry"} => RightPages

\* The inductive invariant.
LoaderInv ==
  /\ file \in Files /\ phase \in Early \cup Mapped \cup {"refused", "stray"}
  /\ phase \notin {"header", "refused"} => ~file.defect
  /\ phase \in Mapped =>
       DOMAIN mem = 0 .. ImageSize - 1 /\ DOMAIN prot = 0 .. (ImageSize \div PageCells) - 1
  /\ phase = "sections" => mem = [c \in 0 .. ImageSize - 1 |-> Zero]
  /\ StrayHasCause
  /\ Regular => Loads

\* What depends on the file, the imports or the pages stays if they do.
LEMMA FileKeeps ==
  ASSUME file' = file
  PROVE  /\ (Regular' <=> Regular) /\ Asked' = Asked /\ Bindings' = Bindings
         /\ CellAt' = CellAt /\ Asks' = Asks
         /\ Sections' = Sections /\ ImageSize' = ImageSize /\ MinRva' = MinRva
<1>1. (Regular' <=> Regular) /\ Asked' = Asked BY SameFile
<1>2. CellAt' = CellAt BY SameCells
<1>3. Sections' = Sections /\ ImageSize' = ImageSize /\ MinRva' = MinRva BY SameSizes
<1>4. Bindings' = Bindings BY <1>1 DEF Bindings
<1>5. Asks' = Asks
  <2> DEFINE asks(f, at) ==
        [l \in Int |-> {at[l].addrs + k :
                          k \in {m \in Nat :
                                   /\ l \in f.dir .. f.dir + f.dirsize - 1
                                   /\ \A d \in f.dir .. l : at[d] # Zero
                                   /\ m \in Nat
                                   /\ \A n \in 0 .. m : at[at[l].names + n] # Zero}}]
  <2>1. Asks = asks(file, CellAt) BY DEF Asks, IsListed
  <2>2. Asks' = asks(file', CellAt') BY DEF Asks, IsListed
  <2> HIDE DEF asks
  <2>3. QED BY <1>2, <2>1, <2>2
<1>6. QED BY <1>1, <1>2, <1>3, <1>4, <1>5

\* The slots with a stub are determined by the imports (IAT - patching).
LEMMA ImportsKeep ==
  ASSUME file' = file, imports' = imports
  PROVE  Bound' = Bound /\ Patched' = Patched
<1>1. ImageSize' = ImageSize /\ CellAt' = CellAt BY FileKeeps
<1>2. Bound' = Bound BY <1>1 DEF Bound
<1> DEFINE last(im, c) == Max({i \in DOMAIN im : im[i].slot = c})
           patched(s, im, b, at) ==
             [c \in 0 .. s - 1 |-> IF c \in b THEN Stub(last(im, c)) ELSE at[c]]
<1>3. Patched = patched(ImageSize, imports, Bound, CellAt) BY DEF Patched, LastImportOf
<1>4. Patched' = patched(ImageSize', imports', Bound', CellAt') BY DEF Patched, LastImportOf
<1> HIDE DEF patched
<1>5. QED BY <1>1, <1>2, <1>3, <1>4

\* The pages are right as long as nothing protects others.
LEMMA PagesKeep ==
  ASSUME file' = file, prot' = prot, RightPages
  PROVE  RightPages'
<1> DEFINE right(f, pr) ==
      \A i \in DOMAIN f.sections :
        \A p \in {q \in DOMAIN pr :
                    /\ q * PageCells < Down(f.sections[i].va) + Up(f.sections[i].vsize)
                    /\ (q + 1) * PageCells > Down(f.sections[i].va)} :
          pr[p] = f.sections[i].prot
<1>1. RightPages <=> right(file, prot) BY DEF RightPages, Sections, PagesIn, Rva, Extent
<1>2. RightPages' <=> right(file', prot') BY DEF RightPages, Sections, PagesIn, Rva, Extent
<1> HIDE DEF right
<1>3. QED BY <1>1, <1>2

-----------------------------------------------------------------------------
(* The steps.                                                              *)

\* Nothing is loaded yet.
LEMMA StartIs == LoaderInit => LoaderInv
<1>1. SUFFICES ASSUME LoaderInit PROVE LoaderInv OBVIOUS
<1>2. phase = "header" /\ file \in Files /\ imports = <<>> BY <1>1 DEF LoaderInit
<1>3. Loads
  <2>1. imports \in Seq(Bindings) BY <1>2
  <2>2. Walks BY <1>1 DEF LoaderInit, Walks, Early
  <2>3. QED BY <1>2, <2>1, <2>2 DEF Loads, Early, Importing, Imported
<1>4. QED BY <1>2, <1>3 DEF LoaderInv, Early, Mapped, Importing, Imported, StrayHasCause

\* After a failure nothing is left to do.
LEMMA RefuseKeeps ==
  ASSUME LoaderInv, RefuseFile
  PROVE  LoaderInv'
<1>1. /\ phase' = "refused" /\ file' = file /\ imports' = imports BY DEF RefuseFile
<1>2. (Regular' <=> Regular) /\ Bindings' = Bindings BY <1>1, FileKeeps
<1>3. Regular' => Loads'
  <2>1. SUFFICES ASSUME Regular PROVE Loads' BY <1>2
  <2>2. imports' \in Seq(Bindings') BY <1>1, <1>2, <2>1 DEF LoaderInv, Loads
  <2>3. QED BY <1>1, <2>2 DEF Loads, Early, Importing, Imported
<1>4. QED
  BY <1>1, <1>3 DEF LoaderInv, Early, Mapped, Importing, Imported, StrayHasCause

\* It leaves the image where a section or a list has no room in it.
LEMMA StrayKeeps ==
  ASSUME LoaderInv, phase \notin {"header", "refused"}, GoAstray,
         \/ \E i \in Sections : file.sections[i].rsize > Extent(i)
         \/ walk.names \notin 0 .. ImageSize - 1
  PROVE  LoaderInv'
<1>1. /\ phase' = "stray" /\ file' = file /\ imports' = imports /\ walk' = walk BY DEF GoAstray
<1>2. (Regular' <=> Regular) /\ Bindings' = Bindings BY <1>1, FileKeeps
<1>3. Regular' => Loads'
  <2>1. SUFFICES ASSUME Regular PROVE Loads' BY <1>2
  <2>2. imports' \in Seq(Bindings') BY <1>1, <1>2, <2>1 DEF LoaderInv, Loads
  <2>3. QED BY <1>1, <2>2 DEF Loads, Early, Importing, Imported
<1>4. StrayHasCause'
  <2>1. CASE \E i \in Sections : file.sections[i].rsize > Extent(i)
    BY <1>1, <2>1 DEF StrayHasCause, Sections, Extent
  <2>2. CASE walk.names \notin 0 .. ImageSize - 1
    <3>1. ImageSize' = ImageSize BY <1>1, FileKeeps
    <3>2. QED BY <1>1, <2>2, <3>1 DEF StrayHasCause, Contained
  <2>3. QED BY <2>1, <2>2
<1>5. QED BY <1>1, <1>3, <1>4 DEF LoaderInv, Early, Mapped, Importing, Imported

\* A file with a defect is not loaded (MZ HEADER to OPT HEADER).
LEMMA HeadersKeep ==
  ASSUME LoaderInv, Headers
  PROVE  LoaderInv'
<1>1. CASE file.defect BY <1>1, RefuseKeeps DEF Headers
<1>2. CASE ~file.defect
  <2>1. /\ phase = "header" /\ phase' = "map"
        /\ file' = file /\ imports' = imports /\ walk' = walk
    BY <1>2 DEF Headers
  <2>2. (Regular' <=> Regular) /\ Bindings' = Bindings BY <2>1, FileKeeps
  <2>3. Regular' => Loads'
    <3>1. SUFFICES ASSUME Regular PROVE Loads' BY <2>2
    <3>2. imports = <<>> /\ Walks BY <2>1, <3>1 DEF LoaderInv, Loads, Early
    <3>3. Walks' BY <2>1, <3>2 DEF Walks, Early
    <3>4. imports' \in Seq(Bindings') BY <2>1, <3>2
    <3>5. QED BY <2>1, <3>2, <3>3, <3>4 DEF Loads, Early, Importing, Imported
  <2>4. QED
    BY <1>2, <2>1, <2>3 DEF LoaderInv, Early, Mapped, Importing, Imported, StrayHasCause
<1>3. QED BY <1>1, <1>2

\* The image is mapped empty, and the directory of imports is known (OPT HEADER).
LEMMA MapKeeps ==
  ASSUME LoaderInv, MapImage
  PROVE  LoaderInv'
<1>1. CASE RefuseFile BY <1>1, RefuseKeeps
<1>2. CASE ~RefuseFile
  <2>1. /\ phase = "map" /\ phase' = "sections" /\ file' = file /\ imports' = imports
        /\ mem' = [c \in 0 .. ImageSize - 1 |-> Zero]
        /\ prot' = [p \in 0 .. (ImageSize \div PageCells) - 1 |-> {"r", "w"}]
        /\ walk' = [walk EXCEPT !.left = file.dirsize, !.import = file.dir]
    BY <1>2 DEF MapImage
  <2>2. /\ (Regular' <=> Regular) /\ Bindings' = Bindings /\ CellAt' = CellAt
        /\ ImageSize' = ImageSize
    BY <2>1, FileKeeps
  <2>3. Regular' => Loads'
    <3>1. SUFFICES ASSUME Regular PROVE Loads' BY <2>2
    <3>2. imports = <<>> /\ Walks BY <2>1, <3>1 DEF LoaderInv, Loads, Early
    <3>3. Walks'
      <4>1. walk = [left |-> walk.left, import |-> walk.import, dll |-> walk.dll,
                    names |-> walk.names, addrs |-> walk.addrs]
        BY <3>2 DEF Walks
      <4>2. walk' = [left |-> file.dirsize, import |-> file.dir, dll |-> walk.dll,
                     names |-> walk.names, addrs |-> walk.addrs]
        BY <2>1, <4>1
      <4>3. file.dir \in Nat /\ file.dirsize \in Nat BY LoaderAssumption DEF LoaderInv
      <4>4. file.dir .. file.dir - 1 = {} /\ file.dir + file.dirsize = file.dir + file.dirsize
        BY <4>3
      <4>5. walk'.left = file.dirsize /\ walk'.import = file.dir BY <4>2
      <4>6. walk' = [left |-> walk'.left, import |-> walk'.import, dll |-> walk'.dll,
                     names |-> walk'.names, addrs |-> walk'.addrs]
        BY <4>2
      <4>7. QED BY <2>1, <4>3, <4>4, <4>5, <4>6 DEF Walks, Early
    <3>4. imports' \in Seq(Bindings') BY <2>1, <3>2
    <3>5. QED BY <2>1, <3>2, <3>3, <3>4 DEF Loads, Early, Importing, Imported
  <2>4. QED
    BY <2>1, <2>2, <2>3 DEF LoaderInv, Early, Mapped, Importing, Imported, StrayHasCause
<1>3. QED BY <1>1, <1>2

\* The sections are copied, or one has no room (SECTIONS - mapping).
LEMMA CopyKeeps ==
  ASSUME LoaderInv, CopySections
  PROVE  LoaderInv'
<1> DEFINE S == {i \in Sections : InFile(i) /\ ~InImage(i)}
           R == {i \in Sections : GetbFails(file.sections[i].raw + file.sections[i].rsize)}
<1>1. phase = "sections" /\ file \in Files /\ ~file.defect BY DEF CopySections, LoaderInv
<1>2. \/ RefuseFile
      \/ S \cup R # {} /\ Min(S \cup R) \in S /\ GoAstray
      \/ /\ mem' = Filled(Len(file.sections)) /\ phase' = "library"
         /\ UNCHANGED <<file, prot, imports, walk, process>>
  BY DEF CopySections
<1>3. CASE RefuseFile BY <1>3, RefuseKeeps
<1>4. CASE S \cup R # {} /\ Min(S \cup R) \in S /\ GoAstray
  <2>1. PICK i \in Sections : ~InImage(i) BY <1>4
  <2>2. /\ Rva(i) \in Nat /\ Extent(i) \in Nat /\ file.sections[i].rsize \in Nat
        /\ ImageSize \in Nat /\ Rva(i) + Extent(i) <= ImageSize
    BY <1>1, SectionsAre, ImageIs
  <2>3. file.sections[i].rsize > Extent(i) BY <2>1, <2>2 DEF InImage
  <2>4. QED BY <1>1, <1>4, <2>3, StrayKeeps
<1>5. CASE /\ mem' = Filled(Len(file.sections)) /\ phase' = "library"
           /\ UNCHANGED <<file, prot, imports, walk, process>>
  <2>1. /\ (Regular' <=> Regular) /\ Bindings' = Bindings /\ CellAt' = CellAt
        /\ ImageSize' = ImageSize
    BY <1>5, FileKeeps
  <2>2. mem' = [c \in 0 .. ImageSize - 1 |-> CellAt[c]]
    <3>1. mem = [c \in 0 .. ImageSize - 1 |-> Zero] BY <1>1 DEF LoaderInv
    <3>2. mem' = [c \in 0 .. ImageSize - 1 |-> Cell(c)] BY <1>1, <1>5, <3>1, FilledIs
    <3>3. ImageSize \in Nat BY <1>1, ImageIs
    <3>4. \A c \in 0 .. ImageSize - 1 : CellAt[c] = Cell(c) BY <3>3 DEF CellAt
    <3>5. QED BY <3>2, <3>4
  <2>3. Regular' => Loads'
    <3>1. SUFFICES ASSUME Regular PROVE Loads' BY <2>1
    <3>2. imports = <<>> /\ Walks BY <1>1, <3>1 DEF LoaderInv, Loads
    <3>3. Walks' BY <1>1, <1>5, <2>1, <3>2 DEF Walks, Early
    <3>4. Done'
      <4>1. walk.import = file.dir /\ file.dir \in Nat
        BY <1>1, <3>2, LoaderAssumption DEF Walks
      <4>2. file.dir .. file.dir - 1 = {} BY <4>1
      <4>3. QED BY <1>5, <4>1, <4>2 DEF Done
    <3>5. imports' \in Seq(Bindings') BY <1>5, <2>1, <3>2
    <3>6. mem' = [c \in 0 .. ImageSize' - 1 |-> CellAt'[c]] BY <2>1, <2>2
    <3>7. QED BY <1>5, <3>3, <3>4, <3>5, <3>6 DEF Loads, Early, Importing, Imported
  <2>4. DOMAIN mem' = 0 .. ImageSize' - 1 /\ DOMAIN prot' = 0 .. (ImageSize' \div PageCells) - 1
    BY <1>1, <1>5, <2>1, <2>2 DEF LoaderInv, Mapped
  <2>5. QED
    BY <1>1, <1>5, <2>3, <2>4 DEF LoaderInv, Early, Mapped, Importing, Imported, StrayHasCause
<1>6. QED BY <1>2, <1>3, <1>4, <1>5

\* When the last library is read all slots are known.
LEMMA AllAreBound ==
  ASSUME file \in Files, ~file.defect, Regular, Walks, Done, phase = "library",
         walk.left = 0 \/ CellAt[walk.import] = Zero
  PROVE  \A a \in Asked : a.slot \in Bound
<1>1. SUFFICES ASSUME NEW a \in Asked PROVE a.slot \in Bound OBVIOUS
<1>2. PICK l, k : IsListed(l, k) /\ a = Entry(l, k) BY AskedIs
<1>3. /\ file.dir \in Nat /\ file.dirsize \in Nat
      /\ walk.import \in Nat /\ file.dir <= walk.import /\ walk.left \in Nat
      /\ walk.import + walk.left = file.dir + file.dirsize
  BY LoaderAssumption DEF Walks, Early
<1>4. /\ l \in file.dir .. file.dir + file.dirsize - 1 /\ k \in Nat
      /\ \A d \in file.dir .. l : CellAt[d] # Zero
  BY <1>2 DEF IsListed
<1>5. l < walk.import
  <2>1. l \in Int BY <1>3, <1>4
  <2>2. CASE walk.left = 0 BY <1>3, <1>4, <2>1, <2>2
  <2>3. CASE CellAt[walk.import] = Zero
    <3>1. walk.import \notin file.dir .. l BY <1>4, <2>3
    <3>2. QED BY <1>3, <2>1, <3>1
  <2>4. QED BY <2>2, <2>3
<1>6. l \in file.dir .. walk.import - 1 /\ l \in Int BY <1>3, <1>4, <1>5
<1>7. Asks[l] \subseteq Bound BY <1>6 DEF Done
<1>8. CellAt[l].addrs + k \in Asks[l] BY <1>2, <1>4, <1>6 DEF Asks
<1>9. a.slot = CellAt[l].addrs + k BY <1>2 DEF Entry
<1>10. QED BY <1>7, <1>8, <1>9

\* A descriptor is read, or the directory ends (IAT - libraries).
LEMMA LibraryKeeps ==
  ASSUME LoaderInv, NextLibrary
  PROVE  LoaderInv'
<1>1. /\ phase = "library" /\ file \in Files /\ ~file.defect
      /\ DOMAIN mem = 0 .. ImageSize - 1 /\ DOMAIN prot = 0 .. (ImageSize \div PageCells) - 1
  BY DEF NextLibrary, LoaderInv, Mapped, Importing
<1> DEFINE import == mem[walk.import]
           Patches == /\ phase' = "patch" /\ UNCHANGED <<file, mem, prot, imports, walk, process>>
                      /\ walk.left = 0 \/ (Contained(walk.import) /\ import = Zero)
           Enters == /\ walk.left # 0 /\ Contained(walk.import) /\ import # Zero
                     /\ walk' = [left |-> walk.left - 1, import |-> walk.import + 1,
                                 dll |-> import.dll, names |-> import.names,
                                 addrs |-> import.addrs]
                     /\ phase' = "function" /\ UNCHANGED <<file, mem, prot, imports, process>>
<1>2. RefuseFile \/ Patches \/ Enters BY DEF NextLibrary
<1>3. CASE RefuseFile BY <1>3, RefuseKeeps
<1>4. /\ ImageSize \in Nat
      /\ Regular => /\ Walks /\ Done /\ imports \in Seq(Bindings)
                    /\ mem = [c \in 0 .. ImageSize - 1 |-> CellAt[c]]
  BY <1>1, ImageIs DEF LoaderInv, Loads, Importing
<1>5. CASE Patches
  <2>1. /\ (Regular' <=> Regular) /\ Bindings' = Bindings /\ CellAt' = CellAt
        /\ ImageSize' = ImageSize /\ Asked' = Asked /\ Bound' = Bound
    BY <1>5, FileKeeps, ImportsKeep
  <2>2. Regular' => Loads'
    <3>1. SUFFICES ASSUME Regular PROVE Loads' BY <2>1
    <3>2. walk.left = 0 \/ CellAt[walk.import] = Zero BY <1>4, <1>5, <3>1 DEF Contained
    <3>3. \A a \in Asked' : a.slot \in Bound' BY <1>1, <1>4, <2>1, <3>1, <3>2, AllAreBound
    <3>4. mem' = [c \in 0 .. ImageSize' - 1 |-> CellAt'[c]] BY <1>4, <1>5, <2>1, <3>1
    <3>5. imports' \in Seq(Bindings') BY <1>4, <1>5, <2>1, <3>1
    <3>6. QED BY <1>5, <3>3, <3>4, <3>5 DEF Loads, Early, Importing, Imported
  <2>3. QED
    BY <1>1, <1>5, <2>1, <2>2 DEF LoaderInv, Early, Mapped, Importing, Imported, StrayHasCause
<1>6. CASE Enters
  <2>1. /\ (Regular' <=> Regular) /\ Bindings' = Bindings /\ CellAt' = CellAt /\ Asks' = Asks
        /\ ImageSize' = ImageSize /\ Bound' = Bound
    BY <1>6, FileKeeps, ImportsKeep
  <2>2. Regular' => Loads'
    <3>1. SUFFICES ASSUME Regular PROVE Loads' BY <2>1
    <3>2. /\ file.dir \in Nat /\ file.dirsize \in Nat
          /\ walk.import \in Nat /\ file.dir <= walk.import /\ walk.left \in Nat
          /\ walk.import + walk.left = file.dir + file.dirsize
          /\ \A d \in file.dir .. walk.import - 1 : CellAt[d] # Zero
      BY <1>1, <1>4, <3>1, LoaderAssumption DEF Walks, Early
    <3>3. PICK l \in Nat : l = walk.import BY <3>2
    <3>4. import = CellAt[l] /\ CellAt[l] # Zero BY <1>4, <1>6, <3>1, <3>3 DEF Contained
    <3>5. l \in file.dir .. file.dir + file.dirsize - 1 BY <1>6, <3>2, <3>3
    <3>6. CellAt[l].names \in Nat /\ CellAt[l].addrs \in Nat
      BY <1>1, <3>1, <3>4, <3>5, DescriptorsAre
    <3>7. walk' = [left |-> walk.left - 1, import |-> l + 1, dll |-> CellAt[l].dll,
                   names |-> CellAt[l].names, addrs |-> CellAt[l].addrs]
      BY <1>6, <3>3, <3>4
    <3>8. Walks'
      <4>1. \A d \in file.dir .. l : d \in file.dir .. walk.import - 1 \/ d = l
        BY <3>2, <3>3
      <4>2. \A d \in file.dir .. (l + 1) - 1 : CellAt[d] # Zero BY <3>2, <3>4, <4>1
      <4>3. walk.left - 1 \in Nat /\ (l + 1) + (walk.left - 1) = file.dir + file.dirsize
        BY <1>6, <3>2, <3>3
      <4>4. /\ walk'.left = walk.left - 1 /\ walk'.import = l + 1
            /\ walk' = [left |-> walk'.left, import |-> walk'.import, dll |-> walk'.dll,
                        names |-> walk'.names, addrs |-> walk'.addrs]
        BY <3>7
      <4>5. l + 1 \in Nat /\ file.dir <= l + 1 BY <3>2, <3>3
      <4>6. file' = file /\ phase' = "function" BY <1>6
      <4>7. QED BY <2>1, <4>2, <4>3, <4>4, <4>5, <4>6 DEF Walks, Early
    <3>9. Done'
      <4>1. Done /\ phase' = "function" /\ file' = file /\ walk'.import = l + 1
        BY <1>4, <1>6, <3>1, <3>7
      <4>2. walk'.import - 2 = walk.import - 1 BY <3>3, <4>1
      <4>3. QED BY <1>1, <2>1, <4>1, <4>2 DEF Done
    <3>10. InLibrary'
      <4>1. walk'.import - 1 = l BY <3>7
      <4>2. 0 \in Nat /\ CellAt[l].names = CellAt[l].names + 0
            /\ CellAt[l].addrs = CellAt[l].addrs + 0 /\ 0 .. 0 - 1 = {}
        BY <3>6
      <4>3. file' = file /\ file.dir <= l BY <1>6, <3>2, <3>3
      <4>4. QED BY <2>1, <3>7, <4>1, <4>2, <4>3 DEF InLibrary
    <3>11. mem' = [c \in 0 .. ImageSize' - 1 |-> CellAt'[c]] BY <1>4, <1>6, <2>1, <3>1
    <3>12. imports' \in Seq(Bindings') BY <1>4, <1>6, <2>1, <3>1
    <3>13. QED BY <1>6, <3>8, <3>9, <3>10, <3>11, <3>12 DEF Loads, Early, Importing, Imported
  <2>3. QED
    BY <1>1, <1>6, <2>1, <2>2 DEF LoaderInv, Early, Mapped, Importing, Imported, StrayHasCause
<1>7. QED BY <1>2, <1>3, <1>5, <1>6

\* Where the list of names ends, each of its slots has an import.
LEMMA ListIsDone ==
  ASSUME file \in Files, Walks, Done, InLibrary, phase = "function",
         CellAt[walk.names] = Zero
  PROVE  \A l \in file.dir .. walk.import - 1 : Asks[l] \subseteq Bound
<1>1. /\ file.dir \in Nat /\ walk.import \in Nat
  BY LoaderAssumption DEF Walks, Early
<1>2. SUFFICES ASSUME NEW l \in file.dir .. walk.import - 1 PROVE Asks[l] \subseteq Bound OBVIOUS
<1>3. l \in Int BY <1>1
<1>4. CASE l # walk.import - 1
  <2>1. l \in file.dir .. walk.import - 2 BY <1>1, <1>4
  <2>2. QED BY <2>1 DEF Done
<1>5. CASE l = walk.import - 1
  <2>1. PICK j \in Nat :
          /\ walk.names = CellAt[l].names + j
          /\ \A n \in 0 .. j - 1 : CellAt[l].addrs + n \in Bound
    BY <1>5 DEF InLibrary
  <2>2. ASSUME NEW k \in Nat, IsListed(l, k) PROVE CellAt[l].addrs + k \in Bound
    <3>1. \A n \in 0 .. k : CellAt[CellAt[l].names + n] # Zero BY <2>2 DEF IsListed
    <3>2. j \notin 0 .. k BY <2>1, <3>1
    <3>3. k \in 0 .. j - 1 BY <3>2
    <3>4. QED BY <2>1, <3>3
  <2>3. QED BY <1>3, <2>2 DEF Asks
<1>6. QED BY <1>4, <1>5

\* One more import takes one more slot of the image.
LEMMA OneMoreIsBound ==
  ASSUME file' = file, imports \in Seq(Bindings), NEW b \in Bindings,
         b.slot \in 0 .. ImageSize - 1, imports' = Append(imports, b)
  PROVE  imports' \in Seq(Bindings) /\ Bound \subseteq Bound' /\ b.slot \in Bound'
<1>1. ImageSize' = ImageSize BY FileKeeps
<1>2. imports' \in Seq(Bindings) BY AppendProperties
<1>3. PICK n \in Nat : n = Len(imports) /\ DOMAIN imports = 1 .. n BY LenProperties
<1>4. /\ DOMAIN imports' = 1 .. n + 1 /\ imports'[n + 1] = b
      /\ \A i \in 1 .. n : imports'[i] = imports[i]
  BY <1>3, AppendProperties
<1>5. n + 1 \in 1 .. n + 1 /\ \A i \in 1 .. n : i \in 1 .. n + 1 BY <1>3
<1>6. ASSUME NEW c \in Bound PROVE c \in Bound'
  <2>1. PICK i \in 1 .. n : imports[i].slot = c BY <1>3 DEF Bound
  <2>2. c \in 0 .. ImageSize' - 1 BY <1>1 DEF Bound
  <2>3. i \in DOMAIN imports' /\ imports'[i].slot = c BY <1>4, <1>5, <2>1
  <2>4. QED BY <2>2, <2>3 DEF Bound
<1>7. b.slot \in Bound'
  <2>1. n + 1 \in DOMAIN imports' /\ imports'[n + 1].slot = b.slot BY <1>4, <1>5
  <2>2. QED BY <1>1, <2>1 DEF Bound
<1>8. QED BY <1>2, <1>6, <1>7

\* A thunk is read, with the slot beside it, or the list ends (IAT - functions).
LEMMA FunctionKeeps ==
  ASSUME LoaderInv, NextFunction
  PROVE  LoaderInv'
<1>1. /\ phase = "function" /\ file \in Files /\ ~file.defect
      /\ DOMAIN mem = 0 .. ImageSize - 1 /\ DOMAIN prot = 0 .. (ImageSize \div PageCells) - 1
  BY DEF NextFunction, LoaderInv, Mapped, Importing
<1> DEFINE new == [dll |-> walk.dll, name |-> mem[walk.names].name, slot |-> walk.addrs,
                   addr |-> Resolve(walk.dll, mem[walk.names].name)]
           Ends == /\ ~Contained(walk.names) \/ mem[walk.names] = Zero
                   /\ phase' = "library" /\ UNCHANGED <<file, mem, prot, imports, walk, process>>
           Reads == /\ Contained(walk.names) /\ mem[walk.names] # Zero /\ Contained(walk.addrs)
                    /\ imports' = Append(imports, new) /\ walk' = NextFunctionAt(walk)
                    /\ UNCHANGED <<file, phase, mem, prot, process>>
<1>2. RefuseFile \/ (GoAstray /\ ~Contained(walk.names)) \/ Ends \/ Reads BY DEF NextFunction
<1>3. CASE RefuseFile BY <1>3, RefuseKeeps
<1>4. CASE GoAstray /\ ~Contained(walk.names) BY <1>1, <1>4, StrayKeeps DEF Contained
<1>5. /\ ImageSize \in Nat
      /\ Regular => /\ Walks /\ Done /\ InLibrary /\ imports \in Seq(Bindings)
                    /\ mem = [c \in 0 .. ImageSize - 1 |-> CellAt[c]]
  BY <1>1, ImageIs DEF LoaderInv, Loads, Importing
<1>6. Regular => \E l, j \in Nat :
        /\ file.dir \in Nat /\ walk.left \in Nat /\ file.dir <= l /\ walk.import = l + 1
        /\ walk.import + walk.left = file.dir + file.dirsize
        /\ \A d \in file.dir .. l : CellAt[d] # Zero
        /\ walk.dll = CellAt[l].dll /\ CellAt[l].names \in Nat /\ CellAt[l].addrs \in Nat
        /\ walk.names = CellAt[l].names + j /\ walk.addrs = CellAt[l].addrs + j
        /\ \A n \in 0 .. j - 1 : /\ CellAt[CellAt[l].names + n] # Zero
                                 /\ CellAt[l].addrs + n \in Bound
        /\ l \in file.dir .. file.dir + file.dirsize - 1
  <2>1. SUFFICES ASSUME Regular
                 PROVE \E l, j \in Nat :
        /\ file.dir \in Nat /\ walk.left \in Nat /\ file.dir <= l /\ walk.import = l + 1
        /\ walk.import + walk.left = file.dir + file.dirsize
        /\ \A d \in file.dir .. l : CellAt[d] # Zero
        /\ walk.dll = CellAt[l].dll /\ CellAt[l].names \in Nat /\ CellAt[l].addrs \in Nat
        /\ walk.names = CellAt[l].names + j /\ walk.addrs = CellAt[l].addrs + j
        /\ \A n \in 0 .. j - 1 : /\ CellAt[CellAt[l].names + n] # Zero
                                 /\ CellAt[l].addrs + n \in Bound
        /\ l \in file.dir .. file.dir + file.dirsize - 1
    OBVIOUS
  <2>2. /\ file.dir \in Nat /\ file.dirsize \in Nat
        /\ walk.import \in Nat /\ walk.left \in Nat
        /\ walk.import + walk.left = file.dir + file.dirsize
        /\ \A d \in file.dir .. walk.import - 1 : CellAt[d] # Zero
    BY <1>1, <1>5, <2>1, LoaderAssumption DEF Walks, Early
  <2>3. file.dir <= walk.import - 1 BY <1>5, <2>1 DEF InLibrary
  <2>4. PICK l \in Nat : l = walk.import - 1 /\ walk.import = l + 1
    <3>1. walk.import - 1 \in Nat BY <2>2, <2>3
    <3>2. QED BY <2>2, <3>1
  <2>5. l \in file.dir .. file.dir + file.dirsize - 1 /\ l \in file.dir .. l BY <2>2, <2>3, <2>4
  <2>6. CellAt[l].names \in Nat /\ CellAt[l].addrs \in Nat
    <3>1. CellAt[l] # Zero BY <2>2, <2>4, <2>5
    <3>2. QED BY <1>1, <2>1, <2>5, <3>1, DescriptorsAre
  <2>7. PICK j \in Nat :
           /\ walk.names = CellAt[l].names + j /\ walk.addrs = CellAt[l].addrs + j
           /\ \A n \in 0 .. j - 1 : /\ CellAt[CellAt[l].names + n] # Zero
                                    /\ CellAt[l].addrs + n \in Bound
    BY <1>5, <2>1, <2>4 DEF InLibrary
  <2>8. walk.dll = CellAt[l].dll BY <1>5, <2>1, <2>4 DEF InLibrary
  <2>9. QED BY <2>2, <2>3, <2>4, <2>5, <2>6, <2>7, <2>8
<1>7. CASE Ends
  <2>1. /\ (Regular' <=> Regular) /\ Bindings' = Bindings /\ CellAt' = CellAt /\ Asks' = Asks
        /\ ImageSize' = ImageSize /\ Bound' = Bound
    BY <1>7, FileKeeps, ImportsKeep
  <2>2. Regular' => Loads'
    <3>1. SUFFICES ASSUME Regular PROVE Loads' BY <2>1
    <3>2. CellAt[walk.names] = Zero
      <4>1. CASE Contained(walk.names) BY <1>5, <1>7, <3>1, <4>1 DEF Contained
      <4>2. CASE ~Contained(walk.names)
        <5>1. walk.names \in Int BY <1>6, <3>1
        <5>2. Cell(walk.names) = Zero BY <1>1, <3>1, <4>2, NothingOutside DEF Contained
        <5>3. QED BY <5>1, <5>2 DEF CellAt
      <4>3. QED BY <4>1, <4>2
    <3>3. \A l \in file.dir .. walk.import - 1 : Asks[l] \subseteq Bound
      BY <1>1, <1>5, <3>1, <3>2, ListIsDone
    <3>4. Done' BY <1>7, <2>1, <3>3 DEF Done
    <3>5. Walks' BY <1>1, <1>5, <1>7, <2>1, <3>1 DEF Walks, Early
    <3>6. mem' = [c \in 0 .. ImageSize' - 1 |-> CellAt'[c]] BY <1>5, <1>7, <2>1, <3>1
    <3>7. imports' \in Seq(Bindings') BY <1>5, <1>7, <2>1, <3>1
    <3>8. QED BY <1>7, <3>4, <3>5, <3>6, <3>7 DEF Loads, Early, Importing, Imported
  <2>3. QED
    BY <1>1, <1>7, <2>1, <2>2 DEF LoaderInv, Early, Mapped, Importing, Imported, StrayHasCause
<1>8. CASE Reads
  <2>1. /\ (Regular' <=> Regular) /\ Bindings' = Bindings /\ CellAt' = CellAt /\ Asks' = Asks
        /\ ImageSize' = ImageSize
    BY <1>8, FileKeeps
  <2>2. Regular' => Loads'
    <3>1. SUFFICES ASSUME Regular PROVE Loads' BY <2>1
    <3>2. PICK l \in Nat, j \in Nat :
        /\ file.dir \in Nat /\ walk.left \in Nat /\ file.dir <= l /\ walk.import = l + 1
        /\ walk.import + walk.left = file.dir + file.dirsize
        /\ \A d \in file.dir .. l : CellAt[d] # Zero
        /\ walk.dll = CellAt[l].dll /\ CellAt[l].names \in Nat /\ CellAt[l].addrs \in Nat
        /\ walk.names = CellAt[l].names + j /\ walk.addrs = CellAt[l].addrs + j
        /\ \A n \in 0 .. j - 1 : /\ CellAt[CellAt[l].names + n] # Zero
                                 /\ CellAt[l].addrs + n \in Bound
        /\ l \in file.dir .. file.dir + file.dirsize - 1
      BY <1>6, <3>1
    <3>3. mem[walk.names] = CellAt[walk.names] /\ CellAt[walk.names] # Zero
      BY <1>5, <1>8, <3>1 DEF Contained
    <3>4. \A n \in 0 .. j : n \in 0 .. j - 1 \/ n = j OBVIOUS
    <3>5. IsListed(l, j)
      <4>1. \A n \in 0 .. j : CellAt[CellAt[l].names + n] # Zero BY <3>2, <3>3, <3>4
      <4>2. QED BY <3>2, <4>1 DEF IsListed
    <3>6. new \in Bindings
      <4>1. Entry(l, j) \in Asked BY <1>1, <3>1, <3>5, AskedIs
      <4>2. Entry(l, j) = [dll |-> walk.dll, name |-> mem[walk.names].name, slot |-> walk.addrs]
        BY <3>2, <3>3 DEF Entry
      <4>3. QED BY <4>1, <4>2 DEF Bindings
    <3>7. new.slot = walk.addrs /\ walk.addrs \in 0 .. ImageSize - 1 BY <1>8 DEF Contained
    <3>8. imports' \in Seq(Bindings) /\ Bound \subseteq Bound' /\ walk.addrs \in Bound'
      <4> HIDE DEF new
      <4>1. new.slot \in 0 .. ImageSize - 1 BY <3>7
      <4>2. file' = file /\ imports' = Append(imports, new) /\ imports \in Seq(Bindings)
        BY <1>5, <1>8, <3>1
      <4>3. imports' \in Seq(Bindings) /\ Bound \subseteq Bound' /\ new.slot \in Bound'
        BY <3>6, <4>1, <4>2, OneMoreIsBound
      <4>4. QED BY <3>7, <4>3
    <3>9. walk = [left |-> walk.left, import |-> walk.import, dll |-> walk.dll,
                  names |-> walk.names, addrs |-> walk.addrs]
      BY <1>5, <3>1 DEF Walks
    <3>10. walk' = [left |-> walk.left, import |-> l + 1, dll |-> walk.dll,
                    names |-> CellAt[l].names + (j + 1), addrs |-> CellAt[l].addrs + (j + 1)]
      <4>1. walk' = [left |-> walk.left, import |-> walk.import, dll |-> walk.dll,
                    names |-> walk.names + 1, addrs |-> walk.addrs + 1]
        BY <1>8, <3>9 DEF NextFunctionAt
      <4>2. walk.names + 1 = CellAt[l].names + (j + 1) /\ walk.addrs + 1 = CellAt[l].addrs + (j + 1)
        BY <3>2
      <4>3. QED BY <3>2, <4>1, <4>2
    <3>11. /\ walk'.left = walk.left /\ walk'.import = walk.import /\ walk'.dll = walk.dll
           /\ walk'.names = CellAt[l].names + (j + 1) /\ walk'.addrs = CellAt[l].addrs + (j + 1)
           /\ walk' = [left |-> walk'.left, import |-> walk'.import, dll |-> walk'.dll,
                       names |-> walk'.names, addrs |-> walk'.addrs]
      BY <3>2, <3>10
    <3>12. file' = file /\ phase' = "function" BY <1>1, <1>8
    <3>13. Walks' BY <1>1, <1>5, <2>1, <3>1, <3>11, <3>12 DEF Walks, Early
    <3>14. Done'
      <4>1. walk'.import - 2 = walk.import - 2 BY <3>11
      <4>2. Done BY <1>5, <3>1
      <4>3. QED BY <1>1, <2>1, <3>8, <3>12, <4>1, <4>2 DEF Done
    <3>15. InLibrary'
      <4>1. walk'.import - 1 = l BY <3>2, <3>11
      <4>2. j + 1 \in Nat /\ (j + 1) - 1 = j OBVIOUS
      <4>3. ASSUME NEW n \in 0 .. (j + 1) - 1
            PROVE CellAt[CellAt[l].names + n] # Zero /\ CellAt[l].addrs + n \in Bound'
        <5>1. n \in 0 .. j BY <4>2
        <5>2. QED BY <3>2, <3>3, <3>4, <3>8, <5>1
      <4>4. QED BY <2>1, <3>2, <3>11, <3>12, <4>1, <4>2, <4>3 DEF InLibrary
    <3>16. mem' = [c \in 0 .. ImageSize' - 1 |-> CellAt'[c]] BY <1>5, <1>8, <2>1, <3>1
    <3>17. imports' \in Seq(Bindings') BY <2>1, <3>8
    <3>18. QED
      BY <3>12, <3>13, <3>14, <3>15, <3>16, <3>17 DEF Loads, Early, Importing, Imported
  <2>3. QED
    BY <1>1, <1>8, <2>1, <2>2 DEF LoaderInv, Early, Mapped, Importing, Imported, StrayHasCause
<1>9. QED BY <1>2, <1>3, <1>4, <1>7, <1>8

\* The steps behind the last library keep the imports, and what they are for.
LEMMA BehindImports ==
  ASSUME LoaderInv, phase \in Imported, file' = file, imports' = imports
  PROVE  /\ file \in Files /\ ~file.defect /\ file' \in Files /\ ~file'.defect
         /\ DOMAIN mem = 0 .. ImageSize - 1 /\ DOMAIN prot = 0 .. (ImageSize \div PageCells) - 1
         /\ ImageSize' = ImageSize /\ MinRva' = MinRva /\ CellAt' = CellAt /\ Patched' = Patched
         /\ ImageSize \in Nat /\ MinRva \in Nat
         /\ (Regular' <=> Regular)
         /\ Regular => /\ imports' \in Seq(Bindings') /\ \A a \in Asked' : a.slot \in Bound'
                       /\ Loads
<1>1. /\ file \in Files /\ ~file.defect
      /\ DOMAIN mem = 0 .. ImageSize - 1 /\ DOMAIN prot = 0 .. (ImageSize \div PageCells) - 1
  BY DEF LoaderInv, Mapped, Imported
<1>2. /\ ImageSize' = ImageSize /\ MinRva' = MinRva /\ CellAt' = CellAt
      /\ (Regular' <=> Regular) /\ Bindings' = Bindings /\ Asked' = Asked
  BY FileKeeps
<1>3. Bound' = Bound /\ Patched' = Patched BY ImportsKeep
<1>4. ImageSize \in Nat /\ MinRva \in Nat BY <1>1, ImageIs
<1>5. Regular => Loads BY DEF LoaderInv
<1>6. Regular => imports \in Seq(Bindings) /\ \A a \in Asked : a.slot \in Bound
  BY <1>5 DEF Loads
<1>7. QED BY <1>1, <1>2, <1>3, <1>4, <1>5, <1>6

\* Such a step keeps the invariant if it keeps the image and the pages.
LEMMA BehindKeeps ==
  ASSUME LoaderInv, phase \in Imported, file' = file, imports' = imports, phase' \in Imported,
         DOMAIN mem' = DOMAIN mem, DOMAIN prot' = DOMAIN prot,
         Regular => /\ phase' = "patch" => mem' = [c \in 0 .. ImageSize - 1 |-> CellAt[c]]
                    /\ phase' = "headers" => mem' = Patched
                    /\ phase' \in {"protect", "process", "entry"} =>
                         \A c \in 0 .. ImageSize - 1 : MinRva <= c => mem'[c] = Patched[c]
                    /\ phase' \in {"process", "entry"} => RightPages'
  PROVE  LoaderInv'
<1>1. /\ file' \in Files /\ ~file'.defect
      /\ DOMAIN mem = 0 .. ImageSize - 1 /\ DOMAIN prot = 0 .. (ImageSize \div PageCells) - 1
      /\ ImageSize' = ImageSize /\ MinRva' = MinRva /\ CellAt' = CellAt /\ Patched' = Patched
      /\ (Regular' <=> Regular)
      /\ Regular => imports' \in Seq(Bindings') /\ \A a \in Asked' : a.slot \in Bound'
  BY BehindImports
<1>2. Regular' => Loads'
  <2>1. SUFFICES ASSUME Regular PROVE Loads' BY <1>1
  <2>2. /\ phase' = "patch" => mem' = [c \in 0 .. ImageSize' - 1 |-> CellAt'[c]]
        /\ phase' = "headers" => mem' = Patched'
        /\ phase' \in {"protect", "process", "entry"} =>
             \A c \in 0 .. ImageSize' - 1 : MinRva' <= c => mem'[c] = Patched'[c]
        /\ phase' \in {"process", "entry"} => RightPages'
    BY <1>1, <2>1
  <2>3. /\ phase' \notin Early \cup {"sections"} \cup Importing
        /\ phase' = "patch" \/ phase' \notin Importing \cup {"patch"}
    BY DEF Early, Importing, Imported
  <2>4. QED BY <1>1, <2>1, <2>2, <2>3 DEF Loads, Early, Importing
<1>3. phase' \notin {"sections", "stray"} /\ phase' \in Early \cup Mapped \cup {"refused", "stray"}
  BY DEF Mapped, Imported
<1>4. StrayHasCause' BY <1>3 DEF StrayHasCause
<1>5. QED BY <1>1, <1>2, <1>3, <1>4 DEF LoaderInv

\* The slots are patched, all in one pass (IAT - patching).
LEMMA PatchKeeps ==
  ASSUME LoaderInv, Patch
  PROVE  LoaderInv'
<1>1. phase = "patch" /\ phase \in Imported BY DEF Patch, Imported
<1>2. CASE RefuseFile BY <1>2, RefuseKeeps
<1>3. CASE ~RefuseFile
  <2>1. /\ mem' = [c \in DOMAIN mem |->
                     IF \E i \in DOMAIN imports : imports[i].slot = c
                     THEN Stub(LastImportOf(c)) ELSE mem[c]]
        /\ phase' = "headers" /\ file' = file /\ imports' = imports /\ prot' = prot
    BY <1>3 DEF Patch
  <2>2. DOMAIN mem = 0 .. ImageSize - 1 BY <1>1, <2>1, BehindImports
  <2>3. Regular => mem' = Patched
    <3>1. SUFFICES ASSUME Regular PROVE mem' = Patched OBVIOUS
    <3>2. mem = [c \in 0 .. ImageSize - 1 |-> CellAt[c]]
      BY <1>1, <3>1 DEF LoaderInv, Loads, Imported, Importing
    <3>3. ASSUME NEW c \in 0 .. ImageSize - 1
          PROVE  /\ c \in Bound <=> \E i \in DOMAIN imports : imports[i].slot = c
                 /\ mem[c] = CellAt[c]
      BY <3>2 DEF Bound
    <3>4. QED BY <2>1, <2>2, <3>3 DEF Patched
  <2>4. phase' \in Imported BY <2>1 DEF Imported
  <2>5. DOMAIN mem' = DOMAIN mem /\ DOMAIN prot' = DOMAIN prot BY <2>1
  <2>6. QED BY <1>1, <2>1, <2>3, <2>4, <2>5, BehindKeeps
<1>4. QED BY <1>2, <1>3

\* The headers end where the first section begins, at the latest (MZ - mapping).
LEMMA MapHeadersKeeps ==
  ASSUME LoaderInv, MapHeaders
  PROVE  LoaderInv'
<1>1. phase = "headers" /\ phase \in Imported BY DEF MapHeaders, Imported
<1>2. CASE RefuseFile BY <1>2, RefuseKeeps
<1>3. CASE ~RefuseFile
  <2>1. /\ mem' = [c \in DOMAIN mem |->
                     IF c < HeaderCells /\ HeaderCells <= Len(file.cells)
                     THEN file.cells[c + 1] ELSE mem[c]]
        /\ prot' = [p \in DOMAIN prot |->
                      IF p \in PagesIn(0, HeaderCells) THEN {"r"} ELSE prot[p]]
        /\ phase' = "protect" /\ file' = file /\ imports' = imports
    BY <1>3 DEF MapHeaders
  <2>2. DOMAIN mem = 0 .. ImageSize - 1 /\ MinRva \in Nat /\ ImageSize \in Nat
        /\ file \in Files
    BY <1>1, <2>1, BehindImports
  <2>3. HeaderCells \in Nat /\ HeaderCells <= MinRva
    <3> DEFINE ends == {MinRva, file.peoff + file.hdrsize}
    <3>1. file.peoff \in Nat /\ file.hdrsize \in Nat BY <2>2, LoaderAssumption
    <3>2. ends \in SUBSET Nat /\ MinRva \in ends BY <2>2, <3>1
    <3>3. HeaderCells = Min(ends) BY DEF HeaderCells
    <3> HIDE DEF ends
    <3>4. QED BY <3>2, <3>3, LeastNumber
  <2>4. Regular => \A c \in 0 .. ImageSize - 1 : MinRva <= c => mem'[c] = Patched[c]
    <3>1. SUFFICES ASSUME Regular, NEW c \in 0 .. ImageSize - 1, MinRva <= c
                   PROVE  mem'[c] = Patched[c]
      OBVIOUS
    <3>2. mem = Patched BY <1>1, <3>1 DEF LoaderInv, Loads, Imported, Importing
    <3>3. ~(c < HeaderCells) BY <2>2, <2>3, <3>1
    <3>4. QED BY <2>1, <2>2, <3>2, <3>3
  <2>5. phase' \in Imported BY <2>1 DEF Imported
  <2>6. DOMAIN mem' = DOMAIN mem /\ DOMAIN prot' = DOMAIN prot BY <2>1
  <2>7. QED BY <1>1, <2>1, <2>4, <2>5, <2>6, BehindKeeps
<1>4. QED BY <1>2, <1>3

\* Each section protects its own pages (SECTIONS - protection).
LEMMA ProtectKeeps ==
  ASSUME LoaderInv, ProtectSections
  PROVE  LoaderInv'
<1>1. phase = "protect" /\ phase \in Imported BY DEF ProtectSections, Imported
<1>2. CASE RefuseFile BY <1>2, RefuseKeeps
<1>3. CASE ~RefuseFile
  <2> DEFINE on(p) == {i \in Sections : p \in PagesIn(Rva(i), Extent(i))}
  <2>1. /\ prot' = [p \in DOMAIN prot |->
                      IF on(p) = {} THEN prot[p]
                      ELSE Grant(prot[p], file.sections[Max(on(p))].prot)]
        /\ phase' = "process" /\ file' = file /\ imports' = imports /\ mem' = mem
    BY <1>3 DEF ProtectSections
  <2>2. /\ file \in Files /\ ~file.defect /\ file' = file
        /\ DOMAIN prot = 0 .. (ImageSize \div PageCells) - 1
    BY <1>1, <2>1, BehindImports
  <2>3. DOMAIN prot \subseteq Int BY <2>2
  <2>4. Regular => \A i \in Sections : \A p \in PagesIn(Rva(i), Extent(i)) :
                     prot'[p] = file.sections[i].prot
    <3>1. SUFFICES ASSUME Regular, NEW i \in Sections, NEW p \in PagesIn(Rva(i), Extent(i))
                   PROVE  prot'[p] = file.sections[i].prot
      OBVIOUS
    <3>2. on(p) = {i} BY <2>2, <2>3, <3>1, PagesDiffer
    <3>3. Max(on(p)) = i
      <4>1. PICK n \in Nat : i \in 0 .. n
        <5>1. i \in Nat BY <2>2, SectionsAre
        <5>2. i \in 0 .. i BY <5>1
        <5>3. QED BY <5>1, <5>2
      <4>2. on(p) \in SUBSET (0 .. n) /\ on(p) # {} BY <3>2, <4>1
      <4> HIDE DEF on
      <4>3. Max(on(p)) \in on(p) BY <4>2, GreatestNumber
      <4>4. QED BY <3>2, <4>3
    <3>4. p \in DOMAIN prot BY DEF PagesIn
    <3>5. prot'[p] = Grant(prot[p], file.sections[Max(on(p))].prot)
      <4>1. on(p) # {} BY <3>2
      <4> HIDE DEF on
      <4>2. QED BY <2>1, <3>4, <4>1
    <3> HIDE DEF on
    <3>6. QED BY <3>3, <3>5 DEF Grant
  <2>5. DOMAIN mem' = DOMAIN mem /\ DOMAIN prot' = DOMAIN prot BY <2>1
  <2>6. Regular => RightPages'
    <3> DEFINE right(f, pr, d) ==
          \A i \in DOMAIN f.sections :
            \A p \in {q \in d :
                        /\ q * PageCells < Down(f.sections[i].va) + Up(f.sections[i].vsize)
                        /\ (q + 1) * PageCells > Down(f.sections[i].va)} :
              pr[p] = f.sections[i].prot
    <3>1. Regular => right(file, prot', DOMAIN prot)
      BY <2>4 DEF Sections, PagesIn, Rva, Extent
    <3>2. RightPages' <=> right(file', prot', DOMAIN prot')
      BY DEF RightPages, Sections, PagesIn, Rva, Extent
    <3> HIDE DEF right
    <3>3. QED BY <2>1, <2>5, <3>1, <3>2
  <2>7. Regular => \A c \in 0 .. ImageSize - 1 : MinRva <= c => mem'[c] = Patched[c]
    BY <1>1, <2>1 DEF LoaderInv, Loads
  <2>8. phase' \in Imported BY <2>1 DEF Imported
  <2>9. QED BY <1>1, <2>1, <2>5, <2>6, <2>7, <2>8, BehindKeeps
<1>4. QED BY <1>2, <1>3

\* The parameters take no cell and no page of a usual image (TEB setup - main).
LEMMA SetupKeeps ==
  ASSUME LoaderInv, SetupProcess
  PROVE  LoaderInv'
<1>1. phase = "process" /\ phase \in Imported BY DEF SetupProcess, Imported
<1>2. CASE RefuseFile BY <1>2, RefuseKeeps
<1>3. CASE ~RefuseFile
  <2> DEFINE overMem == [c \in DOMAIN mem |->
                           IF c + file.base \in ParamsAt .. ParamsAt + PageCells - 1
                           THEN Wild ELSE mem[c]]
             overProt == [p \in DOMAIN prot |->
                            IF p * PageCells + file.base = ParamsAt THEN {"r", "w"} ELSE prot[p]]
  <2>1. /\ (mem' = overMem /\ prot' = overProt) \/ (mem' = mem /\ prot' = prot)
        /\ phase' \in {"process", "entry"} /\ file' = file /\ imports' = imports
    BY <1>1, <1>3 DEF SetupProcess
  <2>2. /\ file \in Files /\ ~file.defect
        /\ DOMAIN mem = 0 .. ImageSize - 1 /\ DOMAIN prot = 0 .. (ImageSize \div PageCells) - 1
    BY <1>1, <2>1, BehindImports
  <2>3. DOMAIN mem' = DOMAIN mem /\ DOMAIN prot' = DOMAIN prot
    BY <2>1
  <2>4. Regular => /\ \A c \in DOMAIN mem : mem'[c] = mem[c]
                   /\ \A p \in DOMAIN prot : prot'[p] = prot[p]
    <3>1. SUFFICES ASSUME Regular, mem' = overMem, prot' = overProt
                   PROVE  /\ \A c \in DOMAIN mem : mem'[c] = mem[c]
                          /\ \A p \in DOMAIN prot : prot'[p] = prot[p]
      BY <2>1
    <3>2. /\ \A c \in DOMAIN mem : c + file.base \notin ParamsAt .. ParamsAt + PageCells - 1
          /\ \A p \in DOMAIN prot : p * PageCells + file.base # ParamsAt
      BY <2>2, <3>1, ParamsBeside
    <3>3. QED BY <3>1, <3>2
  <2>5. Regular => RightPages'
    <3> DEFINE right(f, pr, d) ==
          \A i \in DOMAIN f.sections :
            \A p \in {q \in d :
                        /\ q * PageCells < Down(f.sections[i].va) + Up(f.sections[i].vsize)
                        /\ (q + 1) * PageCells > Down(f.sections[i].va)} :
              pr[p] = f.sections[i].prot
    <3>1. Regular => RightPages BY <1>1 DEF LoaderInv, Loads
    <3>2. RightPages <=> right(file, prot, DOMAIN prot)
      BY DEF RightPages, Sections, PagesIn, Rva, Extent
    <3>3. RightPages' <=> right(file', prot', DOMAIN prot')
      BY DEF RightPages, Sections, PagesIn, Rva, Extent
    <3>4. Regular => (right(file, prot, DOMAIN prot) => right(file, prot', DOMAIN prot))
      BY <2>4
    <3> HIDE DEF right
    <3>5. QED BY <2>1, <2>3, <3>1, <3>2, <3>3, <3>4
  <2>6. Regular => \A c \in 0 .. ImageSize - 1 : MinRva <= c => mem'[c] = Patched[c]
    <3>1. Regular => \A c \in 0 .. ImageSize - 1 : MinRva <= c => mem[c] = Patched[c]
      BY <1>1 DEF LoaderInv, Loads
    <3>2. QED BY <2>2, <2>4, <3>1
  <2>7. phase' \in Imported BY <2>1 DEF Imported
  <2>8. QED BY <1>1, <2>1, <2>3, <2>5, <2>6, <2>7, BehindKeeps
<1>4. QED BY <1>2, <1>3

\* What nothing touches stays.
LEMMA NothingKeeps ==
  ASSUME LoaderInv, UNCHANGED loaderVars
  PROVE  LoaderInv'
<1>1. /\ file' = file /\ phase' = phase /\ mem' = mem /\ prot' = prot /\ imports' = imports
      /\ walk' = walk
  BY DEF loaderVars
<1>2. /\ (Regular' <=> Regular) /\ Bindings' = Bindings /\ CellAt' = CellAt /\ Asks' = Asks
      /\ ImageSize' = ImageSize /\ MinRva' = MinRva /\ Asked' = Asked /\ Sections' = Sections
      /\ Bound' = Bound /\ Patched' = Patched
  BY <1>1, FileKeeps, ImportsKeep
<1>3. Regular => Loads'
  <2>1. SUFFICES ASSUME Regular PROVE Loads' OBVIOUS
  <2>2. Loads BY <2>1 DEF LoaderInv
  <2>3. Walks => Walks' BY <1>1, <1>2 DEF Walks
  <2>4. Done => Done' BY <1>1, <1>2 DEF Done
  <2>5. InLibrary => InLibrary' BY <1>1, <1>2 DEF InLibrary
  <2>6. RightPages => RightPages' BY <1>1, PagesKeep
  <2>7. QED BY <1>1, <1>2, <2>2, <2>3, <2>4, <2>5, <2>6 DEF Loads
<1>4. StrayHasCause'
  <2>1. StrayHasCause BY DEF LoaderInv
  <2>2. (\E i \in Sections : file.sections[i].rsize > Extent(i))
          => (\E i \in Sections : file.sections[i].rsize > Extent(i))'
    BY <1>1 DEF Sections, Extent
  <2>3. Contained(walk.names)' <=> Contained(walk.names) BY <1>1, <1>2 DEF Contained
  <2>4. QED BY <1>1, <2>1, <2>2, <2>3 DEF StrayHasCause
<1>5. QED BY <1>1, <1>2, <1>3, <1>4 DEF LoaderInv

\* Each step of setup_nloader keeps it.
LEMMA LoaderStep == LoaderInv /\ [LoaderNext]_loaderVars => LoaderInv'
<1>1. SUFFICES ASSUME LoaderInv, [LoaderNext]_loaderVars PROVE LoaderInv' OBVIOUS
<1>2. CASE Headers BY <1>1, <1>2, HeadersKeep
<1>3. CASE MapImage BY <1>1, <1>3, MapKeeps
<1>4. CASE CopySections BY <1>1, <1>4, CopyKeeps
<1>5. CASE NextLibrary BY <1>1, <1>5, LibraryKeeps
<1>6. CASE NextFunction BY <1>1, <1>6, FunctionKeeps
<1>7. CASE Patch BY <1>1, <1>7, PatchKeeps
<1>8. CASE MapHeaders BY <1>1, <1>8, MapHeadersKeeps
<1>9. CASE ProtectSections BY <1>1, <1>9, ProtectKeeps
<1>10. CASE SetupProcess BY <1>1, <1>10, SetupKeeps
<1>11. CASE UNCHANGED loaderVars BY <1>1, <1>11, NothingKeeps
<1>12. QED
  BY <1>1, <1>2, <1>3, <1>4, <1>5, <1>6, <1>7, <1>8, <1>9, <1>10, <1>11 DEF LoaderNext

-----------------------------------------------------------------------------
(* The loaded image.                                                       *)

\* What nl_resolve finds has the names it was asked for.
LEMMA ResolveIs ==
  ASSUME NEW dll, NEW name, Resolve(dll, name) # 0
  PROVE  Exports[Resolve(dll, name)] = [dll |-> dll, name |-> name]
<1> DEFINE found == {i \in DOMAIN Exports : Exports[i] = [dll |-> dll, name |-> name]}
<1>1. found # {} /\ Resolve(dll, name) = Min(found) BY DEF Resolve
<1>2. found \in SUBSET Nat BY LoaderAssumption
<1>3. Min(found) \in found
  <2> HIDE DEF found
  <2>1. QED BY <1>1, <1>2, LeastNumber
<1>4. QED BY <1>1, <1>3

\* The stub of a slot is that of its last import.
LEMMA LastImportIs ==
  ASSUME imports \in Seq(Bindings), NEW c \in Bound
  PROVE  LastImportOf(c) \in DOMAIN imports /\ imports[LastImportOf(c)].slot = c
<1> DEFINE on == {i \in DOMAIN imports : imports[i].slot = c}
<1>1. PICK n \in Nat : DOMAIN imports = 1 .. n
  <2>1. Len(imports) \in Nat /\ DOMAIN imports = 1 .. Len(imports) BY LenProperties
  <2>2. QED BY <2>1
<1>2. on \in SUBSET (0 .. n) /\ on # {} BY <1>1 DEF Bound
<1>3. Max(on) \in on
  <2> HIDE DEF on
  <2>1. QED BY <1>1, <1>2, GreatestNumber
<1>4. QED BY <1>3 DEF LastImportOf

\* The invariant says what a loaded image has.
LEMMA LoadedIsComplete == LoaderInv => ImageIsComplete
<1>1. SUFFICES ASSUME LoaderInv PROVE ImageIsComplete OBVIOUS
<1>2. phase = "entry" /\ Regular =>
        /\ file \in Files /\ ~file.defect /\ ImageSize \in Nat
        /\ imports \in Seq(Bindings) /\ \A a \in Asked : a.slot \in Bound
        /\ \A c \in 0 .. ImageSize - 1 : MinRva <= c => mem[c] = Patched[c]
        /\ RightPages
  <2>1. SUFFICES ASSUME phase = "entry", Regular
                 PROVE /\ file \in Files /\ ~file.defect /\ ImageSize \in Nat
                       /\ imports \in Seq(Bindings) /\ \A a \in Asked : a.slot \in Bound
                       /\ \A c \in 0 .. ImageSize - 1 : MinRva <= c => mem[c] = Patched[c]
                       /\ RightPages
    OBVIOUS
  <2>2. file \in Files /\ ~file.defect BY <1>1, <2>1 DEF LoaderInv
  <2>3. ImageSize \in Nat BY <2>2, ImageIs
  <2>4. Loads BY <1>1, <2>1 DEF LoaderInv
  <2>5. QED BY <2>1, <2>2, <2>3, <2>4 DEF Loads, Imported
<1>3. SlotsHoldTheirStub
  <2>1. SUFFICES ASSUME phase = "entry", Regular, NEW a \in Asked, a.slot >= MinRva
                 PROVE  /\ mem[a.slot].kind = "stub"
                        /\ LET i == imports[mem[a.slot].number]
                           IN  /\ [dll |-> i.dll, name |-> i.name, slot |-> i.slot] \in Asked
                               /\ i.slot = a.slot
                               /\ i.addr # 0 => Exports[i.addr] = [dll |-> i.dll, name |-> i.name]
    BY DEF SlotsHoldTheirStub
  <2>2. a.slot \in Bound /\ a.slot \in 0 .. ImageSize - 1 BY <1>2, <2>1 DEF Bound
  <2>3. MinRva <= a.slot /\ MinRva \in Nat BY <1>2, <2>1, <2>2, ImageIs
  <2>4. mem[a.slot] = Stub(LastImportOf(a.slot)) BY <1>2, <2>1, <2>2, <2>3 DEF Patched
  <2>5. PICK k \in DOMAIN imports : k = LastImportOf(a.slot) /\ imports[k].slot = a.slot
    BY <1>2, <2>1, <2>2, LastImportIs
  <2>6. mem[a.slot].kind = "stub" /\ mem[a.slot].number = k BY <2>4, <2>5 DEF Stub
  <2>7. imports[k] \in Bindings BY <1>2, <2>1, ElementOfSeq, LenProperties
  <2>8. PICK b \in Asked : imports[k] = [dll |-> b.dll, name |-> b.name, slot |-> b.slot,
                                         addr |-> Resolve(b.dll, b.name)]
    BY <2>7 DEF Bindings
  <2>9. b = [dll |-> b.dll, name |-> b.name, slot |-> b.slot]
    <3>1. \E l, n : b = Entry(l, n) BY <1>2, <2>1, AskedIs
    <3>2. QED BY <3>1 DEF Entry
  <2>10. Resolve(b.dll, b.name) # 0 =>
           Exports[Resolve(b.dll, b.name)] = [dll |-> b.dll, name |-> b.name]
    BY ResolveIs
  <2>11. QED BY <2>5, <2>6, <2>8, <2>9, <2>10
<1>4. SectionsAreIntact
  <2>1. SUFFICES ASSUME phase = "entry", Regular, NEW i \in Sections, NEW c \in CellsOf(i)
                 PROVE  mem[c] = Cell(c) \/ \E k \in DOMAIN imports :
                                               imports[k].slot = c /\ mem[c].kind = "stub"
    BY DEF SectionsAreIntact, CellsOf
  <2>2. c \in 0 .. ImageSize - 1 /\ MinRva <= c /\ c \in Int BY <1>2, <2>1, CellsDiffer
  <2>3. mem[c] = Patched[c] BY <1>2, <2>1, <2>2
  <2>4. CASE c \in Bound
    <3>1. mem[c].kind = "stub" BY <2>2, <2>3, <2>4 DEF Patched, Stub
    <3>2. QED BY <2>4, <3>1 DEF Bound
  <2>5. CASE c \notin Bound BY <2>2, <2>3, <2>5 DEF Patched, CellAt
  <2>6. QED BY <2>4, <2>5
<1>5. PagesAreProtected BY <1>2 DEF PagesAreProtected, RightPages
<1>6. StrayHasCause BY <1>1 DEF LoaderInv
<1>7. QED BY <1>3, <1>4, <1>5, <1>6 DEF ImageIsComplete

\* A loaded image has the stubs of its imports, its sections and their
\* protections, and nothing strays without one of the known causes (loader.c).
THEOREM ImagesAreComplete == LoaderSpec => []ImageIsComplete
<1>1. LoaderInit => LoaderInv BY StartIs
<1>2. LoaderInv /\ [LoaderNext]_loaderVars => LoaderInv' BY LoaderStep
<1>3. LoaderInv => ImageIsComplete BY LoadedIsComplete
<1>4. QED BY <1>1, <1>2, <1>3, PTL DEF LoaderSpec

=============================================================================
