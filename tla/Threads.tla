------------------------------ MODULE Threads ------------------------------
(***************************************************************************)
(* Threads, their handles and a critical section (libs/ntdll/thread.c).    *)
(* Waiting for a thread is in Sync.                                        *)
(*                                                                         *)
(* POSIX threads and recursive mutexes are modelled as the code uses them. *)
(* A thread is known by its number; the first one is that of the program   *)
(* and has no handle.  A handle is its address: what NtClose frees may be  *)
(* the address of the next handle.                                         *)
(***************************************************************************)
EXTENDS Integers, FiniteSets

CONSTANTS
  Tids,         \* threads that may run; 1 is the first
  Addresses,    \* where handles may be allocated
  ExitCodes,    \* exit statuses of the guest
  MaxDepth,     \* bound: how often a section is entered
  None          \* no thread, no handle, no section

VARIABLES
  thread,    \* where each thread is
  arg,       \* the handle that thread_start was given
  making,    \* the handle that a thread has yet to store in *ThreadHandle
  own,       \* CurrentHandleOfThread of each
  handleAt,  \* the handle at each address: its thread and ExitStatus
  known,     \* handles that the guest knows of
  ended,     \* history: the status each thread ended with
  lent,      \* history: threads that the guest mixed up in NtTerminateThread
  hot,       \* history: addresses where it closed the handle of a running thread
  section    \* the recursive mutex of the critical section

threadVars == <<thread, arg, making, own, handleAt, known, ended, lent, hot, section>>

First == 1
NotYet == -1    \* the ExitStatus that a handle is made with

\* What a handle records of its thread, and a recursive mutex of its owner.
HandleOfThread == [of : Tids, status : ExitCodes \cup {NotYet}]
Mutex == [owner : Tids \cup {None}, depth : 0 .. MaxDepth]

ASSUME ThreadsAssumption ==
  /\ First \in Tids /\ ExitCodes \subseteq Int /\ MaxDepth \in Nat
  /\ None \notin Tids \cup Addresses
  /\ None \notin HandleOfThread /\ None \notin Mutex

IsAllocated(h) == handleAt[h] # None
IsIdle(t) == thread[t] = "runs" /\ making[t] = None

ThreadsInit ==
  /\ thread = [t \in Tids |-> IF t = First THEN "runs" ELSE "none"]
  /\ arg = [t \in Tids |-> None]
  /\ making = [t \in Tids |-> None]
  /\ own = [t \in Tids |-> None]
  /\ handleAt = [h \in Addresses |-> None]
  /\ known = {} /\ lent = {} /\ hot = {}
  /\ ended = [t \in Tids |-> NotYet]
  /\ section = None

-----------------------------------------------------------------------------
(* RtlCreateUserThread and thread_start.                                   *)

\* The handle is made, and the thread that may at once be running; where there
\* is no thread, the handle is freed again.
CreateThread(t, child, h) ==
  /\ IsIdle(t) /\ thread[child] = "none" /\ ~IsAllocated(h)
  /\ \/ /\ handleAt' = [handleAt EXCEPT ![h] = [of |-> child, status |-> NotYet]]
        /\ thread' = [thread EXCEPT ![child] = "starts"]
        /\ arg' = [arg EXCEPT ![child] = h]
        /\ making' = [making EXCEPT ![t] = h]
     \/ UNCHANGED <<handleAt, thread, arg, making>>
  /\ UNCHANGED <<own, known, ended, lent, hot, section>>

\* *ThreadHandle = th.  A new thread that is there already may have ended before.
StoreHandle(t) ==
  /\ making[t] # None
  /\ known' = known \cup {making[t]}
  /\ making' = [making EXCEPT ![t] = None]
  /\ UNCHANGED <<thread, arg, own, handleAt, ended, lent, hot, section>>

\* Faulty variant: the variable is one for all threads.
SetOwnShared(t) == own' = [u \in Tids |-> arg[t]]

\* CurrentHandleOfThread = th, which each thread has its own of.
SetOwn(t) == own' = [own EXCEPT ![t] = arg[t]]

ThreadStart(t) ==
  /\ thread[t] = "starts"
  /\ SetOwn(t)
  /\ thread' = [thread EXCEPT ![t] = "runs"]
  /\ UNCHANGED <<arg, making, handleAt, known, ended, lent, hot, section>>

\* th->thread.ExitStatus = status.  If th was closed, this is free memory, or
\* what was allocated there since.
StoreStatus(h, status) ==
  handleAt' = IF h # None /\ IsAllocated(h) THEN [handleAt EXCEPT ![h].status = status]
              ELSE handleAt

\* The procedure returns, into the handle of its thread.
Return(t, status) ==
  /\ IsIdle(t) /\ t # First
  /\ StoreStatus(arg[t], status)
  /\ thread' = [thread EXCEPT ![t] = "ended"]
  /\ ended' = [ended EXCEPT ![t] = status]
  /\ UNCHANGED <<arg, making, own, known, lent, hot, section>>

-----------------------------------------------------------------------------
(* NtTerminateThread, NtClose.                                             *)

\* Whichever thread is named, the caller ends, and its status goes to the handle
\* that is named.  h = None is NtCurrentThread().
TerminateThread(t, h, status) ==
  /\ IsIdle(t) /\ h \in known \cup {None}
  /\ StoreStatus(IF h = None THEN own[t] ELSE h, status)
  /\ lent' = IF h # None /\ handleAt[h].of # t
             THEN lent \cup {handleAt[h].of, t} ELSE lent
  /\ thread' = [thread EXCEPT ![t] = "ended"]
  /\ ended' = [ended EXCEPT ![t] = status]
  /\ UNCHANGED <<arg, making, own, known, hot, section>>

\* The guest does not use a handle that it has closed.
CloseThread(t, h) ==
  /\ IsIdle(t) /\ h \in known
  /\ handleAt' = [handleAt EXCEPT ![h] = None]
  /\ known' = known \ {h}
  /\ hot' = IF thread[handleAt[h].of] # "ended" THEN hot \cup {h} ELSE hot
  /\ UNCHANGED <<thread, arg, making, own, ended, lent, section>>

-----------------------------------------------------------------------------
(* Critical sections.                                                      *)

Unowned == [owner |-> None, depth |-> 0]

InitializeCriticalSection(t) ==
  /\ IsIdle(t) /\ section = None /\ section' = Unowned
  /\ UNCHANGED <<thread, arg, making, own, handleAt, known, ended, lent, hot>>

\* The guest does not delete a section that a thread is in.
DeleteCriticalSection(t) ==
  /\ IsIdle(t) /\ section = Unowned /\ section' = None
  /\ UNCHANGED <<thread, arg, making, own, handleAt, known, ended, lent, hot>>

\* RtlTryEnterCriticalSection does the same, or nothing.
EnterCriticalSection(t) ==
  /\ IsIdle(t) /\ section # None
  /\ section.owner \in {None, t} /\ section.depth < MaxDepth
  /\ section' = [owner |-> t, depth |-> section.depth + 1]
  /\ UNCHANGED <<thread, arg, making, own, handleAt, known, ended, lent, hot>>

\* Faulty variant: a normal mutex, which whoever comes can unlock.
MayUnlockAny(t) == section.owner # None

\* pthread_mutex_unlock of a recursive mutex fails for all but its owner.
MayUnlock(t) == section.owner = t

LeaveCriticalSection(t) ==
  /\ IsIdle(t) /\ section # None
  /\ section' = IF ~MayUnlock(t) THEN section
                ELSE IF section.depth > 1 THEN [section EXCEPT !.depth = @ - 1]
                ELSE Unowned
  /\ UNCHANGED <<thread, arg, making, own, handleAt, known, ended, lent, hot>>

ThreadsNext ==
  \E t \in Tids :
    \/ StoreHandle(t) \/ ThreadStart(t)
    \/ InitializeCriticalSection(t) \/ DeleteCriticalSection(t)
    \/ EnterCriticalSection(t) \/ LeaveCriticalSection(t)
    \/ \E h \in Addresses :
         CloseThread(t, h) \/ \E child \in Tids : CreateThread(t, child, h)
    \/ \E status \in ExitCodes :
         Return(t, status) \/ \E h \in Addresses \cup {None} : TerminateThread(t, h, status)

ThreadsSpec == ThreadsInit /\ [][ThreadsNext]_threadVars

-----------------------------------------------------------------------------
(* Properties.                                                             *)

\* The status in a handle is that with which its thread ended, and is there only
\* when it has ended, but for two mistakes of the guest that the code does not
\* notice: to terminate another thread, which stores a status in the handle of a
\* thread that runs on, and none in that of the one that ends; and to close the
\* handle of a running thread, whose status may end in a later handle
\* (thread_start, NtTerminateThread, thread.c 43 and 59 to 62).
StatusIsItsThreads ==
  \A h \in Addresses :
    IsAllocated(h) /\ h \notin hot /\ handleAt[h].of \notin lent =>
      LET t == handleAt[h].of
      IN  /\ handleAt[h].status = ended[t]
          /\ handleAt[h].status # NotYet => thread[t] = "ended"

\* Of every step: nobody is put out of a critical section: it is left by the
\* thread that is in it and as often as it was entered, though
\* RtlLeaveCriticalSection may be called by any (PTHREAD_MUTEX_RECURSIVE).
OnlyOwnerLeaves ==
  section # None /\ section.depth > 0 =>
    /\ section' # None
    /\ section'.depth < section.depth =>
         /\ IsIdle(section.owner) /\ LeaveCriticalSection(section.owner)
         /\ section'.depth = section.depth - 1

\* Of every step: a section whose owner has ended stays shut for good:
\* pthread_exit unlocks nothing.
AbandonedStaysShut ==
  section # None /\ section.owner # None /\ thread[section.owner] = "ended"
    => section' = section

\* A critical section is left by its owner only, and by no one when that has
\* ended (thread.c 142 to 189).
SectionsAreOwned == [][OnlyOwnerLeaves /\ AbandonedStaysShut]_threadVars

=============================================================================
