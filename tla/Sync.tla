------------------------------- MODULE Sync -------------------------------
(***************************************************************************)
(* libs/ntdll/sync.c: NtSetEvent, NtResetEvent and NtClearEvent, and the   *)
(* two wait services, at the granularity of the POSIX calls they make.     *)
(* The state_mutex of an event is taken in one step and released in a      *)
(* later one; pthread_cond_wait releases it and falls asleep in one step,  *)
(* as POSIX guarantees, and takes it again before it returns.              *)
(*                                                                         *)
(* NtWaitForSingleObject(h) is the WaitAllObject call on the array <<h>>:  *)
(* NtWaitForMultipleObjects calls it once per element.  The parked         *)
(* keyboard read that a WaitAnyObject call also serves is in module Kbd.   *)
(***************************************************************************)
EXTENDS Naturals, Sequences

CONSTANTS
  Thread,      \* threads of the guest, each with a handle of its own
  NoThread,    \* the owner of a mutex that is free
  Event,       \* open event handles
  SyncEvent,   \* those created with EventType = SynchronizationEvent
  FileHandle,  \* some HANDLE_FILE
  NullHandle,  \* a NULL entry of an ObjectsArray
  Arrays,      \* the ObjectsArrays that are passed to the wait services
  Timeouts,    \* the kinds of Timeout passed: see TimeoutKind
  TimeoutTakesSignal  \* POSIX lets a timed wait that expires consume a
                      \* condition signal sent to it at the same time

Handle == Event \union Thread \union {FileHandle, NullHandle}

\* Timeout = NULL, *Timeout = 0, or a relative or absolute time.
TimeoutKind == {"null", "zero", "time"}

ASSUME SyncAssumption ==
  /\ SyncEvent \subseteq Event
  /\ Event \intersect Thread = {}
  /\ {FileHandle, NullHandle} \intersect (Event \union Thread) = {}
  /\ NoThread \notin Thread
  /\ Arrays \subseteq Seq(Handle) \ {<<>>}
  /\ Timeouts \subseteq TimeoutKind
  /\ TimeoutTakesSignal \in BOOLEAN

VARIABLES
  signaled,  \* event.signaled
  owner,     \* the thread that holds event.state_mutex, or NoThread
  pc,        \* where a thread is
  call,      \* the call a thread is in
  idx,       \* its loop variable i, counted from 1
  late,      \* the deadline of the current wait is over
  result,    \* the status of a thread's wait
  joined,    \* threads whose pthread_t was joined
  got        \* history: the events the current call has taken, in order

vars == <<signaled, owner, pc, call, idx, late, result, joined, got>>

-----------------------------------------------------------------------------

Call == [kind : {"none", "set", "reset", "all", "any"},
         objs : Seq(Handle), timeout : TimeoutKind]

NoCall == [kind |-> "none", objs |-> <<>>, timeout |-> "null"]

\* A call on one event that does not wait.
On(kind, e) == [kind |-> kind, objs |-> <<e>>, timeout |-> "null"]

\* The handle a thread is working on.
Cur(t) == call[t].objs[idx[t]]

\* interval_to_timespec: NULL and zero give no deadline.
HasDeadline(t) == call[t].timeout = "time"

\* The threads asleep in event.cond.
Asleep(e) == {t \in Thread : pc[t] = "block" /\ Cur(t) = e}

Go(t, label) == pc' = [pc EXCEPT ![t] = label]

\* Faulty variant: the loop variable keeps its value.
ReturnMidway(t) ==
  /\ Go(t, "idle")
  /\ call' = [call EXCEPT ![t] = NoCall]
  /\ late' = [late EXCEPT ![t] = FALSE]
  /\ got' = [got EXCEPT ![t] = <<>>]
  /\ UNCHANGED idx

\* Control returns to the guest.
Return(t) ==
  /\ Go(t, "idle")
  /\ call' = [call EXCEPT ![t] = NoCall]
  /\ idx' = [idx EXCEPT ![t] = 1]
  /\ late' = [late EXCEPT ![t] = FALSE]
  /\ got' = [got EXCEPT ![t] = <<>>]

\* pthread_mutex_lock and pthread_mutex_unlock of an event's state_mutex.
Lock(t, e) ==
  /\ owner[e] = NoThread
  /\ owner' = [owner EXCEPT ![e] = t]

Unlock(e) == owner' = [owner EXCEPT ![e] = NoThread]

\* Faulty variant: a wait leaves a SynchronizationEvent signaled.
ConsumeNothing(e) == signaled' = [signaled EXCEPT ![e] = TRUE]

\* A successful wait resets a SynchronizationEvent.
Consume(e) == signaled' = [signaled EXCEPT ![e] = e \notin SyncEvent]

-----------------------------------------------------------------------------

Init ==
  /\ signaled \in [Event -> BOOLEAN]
  /\ owner = [e \in Event |-> NoThread]
  /\ pc = [t \in Thread |-> "idle"]
  /\ call = [t \in Thread |-> NoCall]
  /\ idx = [t \in Thread |-> 1]
  /\ late = [t \in Thread |-> FALSE]
  /\ result = [t \in Thread |-> "success"]
  /\ joined = {}
  /\ got = [t \in Thread |-> <<>>]

-----------------------------------------------------------------------------
(* NtSetEvent and NtResetEvent.  A thread that waits for the mutex is not  *)
(* told apart from one that has not made the call yet.                     *)

SetLock(t, e) ==
  /\ pc[t] = "idle"
  /\ Lock(t, e)
  /\ Go(t, "store")
  /\ call' = [call EXCEPT ![t] = On("set", e)]
  /\ UNCHANGED <<signaled, idx, late, result, joined, got>>

SetStore(t) ==
  /\ pc[t] = "store"
  /\ signaled' = [signaled EXCEPT ![Cur(t)] = TRUE]
  /\ Go(t, "notify")
  /\ UNCHANGED <<owner, call, idx, late, result, joined, got>>

\* Faulty variants: one waiter is woken whatever the type of the event; the
\* condition variable is not notified.
WokenOne(e) ==
  IF Asleep(e) = {} THEN {{}} ELSE {{w} : w \in Asleep(e)}

WokenNone(e) == {{}}

\* pthread_cond_broadcast for a NotificationEvent, pthread_cond_signal for
\* a SynchronizationEvent: which of the sleeping threads wake up.
Woken(e) ==
  IF e \in SyncEvent
  THEN IF Asleep(e) = {} THEN {{}} ELSE {{w} : w \in Asleep(e)}
  ELSE {Asleep(e)}

SetNotify(t) ==
  /\ pc[t] = "notify"
  /\ \E W \in Woken(Cur(t)) :
       pc' = [x \in Thread |-> IF x \in W THEN "relock"
                               ELSE IF x = t THEN "idle" ELSE pc[x]]
  /\ Unlock(Cur(t))
  /\ call' = [call EXCEPT ![t] = NoCall]
  /\ UNCHANGED <<signaled, idx, late, result, joined, got>>

ResetLock(t, e) ==
  /\ pc[t] = "idle"
  /\ Lock(t, e)
  /\ Go(t, "clear")
  /\ call' = [call EXCEPT ![t] = On("reset", e)]
  /\ UNCHANGED <<signaled, idx, late, result, joined, got>>

ResetStore(t) ==
  /\ pc[t] = "clear"
  /\ signaled' = [signaled EXCEPT ![Cur(t)] = FALSE]
  /\ Unlock(Cur(t))
  /\ Go(t, "idle")
  /\ call' = [call EXCEPT ![t] = NoCall]
  /\ UNCHANGED <<idx, late, result, joined, got>>

-----------------------------------------------------------------------------
(* NtWaitForSingleObject, alone or called once per element of the array by *)
(* a WaitAllObject call.                                                   *)

\* pthread_join is defined for one joiner of a thread that was not joined
\* before: a guest that waits twice on a thread handle is not modelled here.
MayJoin(t, objs) ==
  \A i \in DOMAIN objs :
    objs[i] \in Thread =>
      /\ objs[i] \notin joined \union {t}
      /\ \A j \in DOMAIN objs : objs[j] = objs[i] => j = i
      /\ \A x \in Thread : \A j \in DOMAIN call[x].objs :
           call[x].objs[j] # objs[i]

WaitCall(t, kind, objs, timeout) ==
  /\ pc[t] = "idle"
  /\ MayJoin(t, objs)
  /\ call' = [call EXCEPT ![t] =
                [kind |-> kind, objs |-> objs, timeout |-> timeout]]
  /\ Go(t, IF kind = "all" THEN "obj" ELSE "scan")
  /\ result' = [result EXCEPT ![t] = "success"]
  /\ UNCHANGED <<signaled, owner, idx, late, joined, got>>

\* The clock passes the deadline of a timed wait.  A WaitAllObject call has
\* one deadline per element, a WaitAnyObject call has one.
DeadlinePasses(t) ==
  /\ pc[t] \in {"obj", "test", "block", "relock", "scan", "peek"}
  /\ HasDeadline(t)
  /\ ~late[t]
  /\ late' = [late EXCEPT ![t] = TRUE]
  /\ UNCHANGED <<signaled, owner, pc, call, idx, result, joined, got>>

\* Faulty variant: the last element of the array is not waited for.
AdvanceShort(t) ==
  IF idx[t] + 1 < Len(call[t].objs)
  THEN /\ idx' = [idx EXCEPT ![t] = @ + 1]
       /\ Go(t, "obj")
       /\ late' = [late EXCEPT ![t] = FALSE]
       /\ UNCHANGED <<call, got>>
  ELSE Return(t)

\* The wait on the current element succeeded: the next one, or return.
Advance(t) ==
  IF idx[t] < Len(call[t].objs)
  THEN /\ idx' = [idx EXCEPT ![t] = @ + 1]
       /\ Go(t, "obj")
       /\ late' = [late EXCEPT ![t] = FALSE]
       /\ UNCHANGED <<call, got>>
  ELSE Return(t)

ObjLock(t) ==
  /\ pc[t] = "obj"
  /\ Cur(t) \in Event
  /\ Lock(t, Cur(t))
  /\ Go(t, "test")
  /\ UNCHANGED <<signaled, call, idx, late, result, joined, got>>

\* The event is signaled: while (!signaled) leaves the loop, or the scan of a
\* WaitAnyObject call has found its object.
TakeSignal(t) ==
  /\ pc[t] \in {"test", "peek"}
  /\ signaled[Cur(t)]
  /\ Consume(Cur(t))
  /\ got' = [got EXCEPT ![t] = Append(@, Cur(t))]
  /\ Go(t, "leave")
  /\ UNCHANGED <<owner, call, idx, late, result, joined>>

\* while (!signaled) calls pthread_cond_wait or pthread_cond_timedwait, which
\* releases the mutex and sleeps, or returns ETIMEDOUT if it is too late.
TestSleep(t) ==
  /\ pc[t] = "test"
  /\ ~signaled[Cur(t)]
  /\ Unlock(Cur(t))
  /\ \/ /\ ~late[t]
        /\ Go(t, "block")
        /\ UNCHANGED result
     \/ /\ late[t]
        /\ Go(t, "relock")
        /\ result' = [result EXCEPT ![t] = "timeout"]
  /\ UNCHANGED <<signaled, call, idx, late, joined, got>>

\* POSIX allows a wakeup nobody asked for.
SpuriousWake(t) ==
  /\ pc[t] = "block"
  /\ ~late[t]
  /\ Go(t, "relock")
  /\ UNCHANGED <<signaled, owner, call, idx, late, result, joined, got>>

\* pthread_cond_timedwait returns ETIMEDOUT.
TimeoutWake(t) ==
  /\ pc[t] = "block"
  /\ late[t]
  /\ Go(t, "relock")
  /\ result' = [result EXCEPT ![t] = "timeout"]
  /\ UNCHANGED <<signaled, owner, call, idx, late, joined, got>>

\* The same for a thread a signal had been sent to.
TimeoutWins(t) ==
  /\ TimeoutTakesSignal
  /\ pc[t] = "relock"
  /\ late[t]
  /\ result[t] = "success"
  /\ result' = [result EXCEPT ![t] = "timeout"]
  /\ UNCHANGED <<signaled, owner, pc, call, idx, late, joined, got>>

\* The condition wait takes the mutex again and returns: 0 goes back to the
\* predicate, ETIMEDOUT leaves the loop without looking at it.
Relock(t) ==
  /\ pc[t] = "relock"
  /\ Lock(t, Cur(t))
  /\ Go(t, IF result[t] = "success" THEN "test" ELSE "leave")
  /\ UNCHANGED <<signaled, call, idx, late, result, joined, got>>

\* The status of the wait on the current object goes to the guest, or to the
\* loop of a WaitAllObject call.
PassOn(t) ==
  IF result[t] = "success" /\ call[t].kind = "all" THEN Advance(t) ELSE Return(t)

\* Faulty variants: the event is reset whatever the result of the wait; the
\* early return from the scan does not unlock.
LeaveReset(t) ==
  /\ pc[t] = "leave"
  /\ Unlock(Cur(t))
  /\ signaled' = [signaled EXCEPT ![Cur(t)] = @ /\ Cur(t) \notin SyncEvent]
  /\ PassOn(t)
  /\ UNCHANGED <<result, joined>>

LeaveLocked(t) ==
  /\ pc[t] = "leave"
  /\ IF call[t].kind = "all" THEN Unlock(Cur(t)) ELSE UNCHANGED owner
  /\ PassOn(t)
  /\ UNCHANGED <<signaled, result, joined>>

Leave(t) ==
  /\ pc[t] = "leave"
  /\ Unlock(Cur(t))
  /\ PassOn(t)
  /\ UNCHANGED <<signaled, result, joined>>

\* pthread_join: the Timeout is not used.
ObjJoin(t) ==
  /\ pc[t] = "obj"
  /\ Cur(t) \in Thread
  /\ pc[Cur(t)] = "exited"
  /\ joined' = joined \union {Cur(t)}
  /\ Advance(t)
  /\ UNCHANGED <<signaled, owner, result>>

\* A file handle is always ready; CHECK_POINTER rejects a NULL entry.
ObjOther(t) ==
  /\ pc[t] = "obj"
  /\ \/ /\ Cur(t) = FileHandle
        /\ Advance(t)
        /\ UNCHANGED result
     \/ /\ Cur(t) = NullHandle
        /\ result' = [result EXCEPT ![t] = "access_violation"]
        /\ Return(t)
  /\ UNCHANGED <<signaled, owner, joined>>

-----------------------------------------------------------------------------
(* NtWaitForMultipleObjects with WaitAnyObject: a scan of the array,       *)
(* repeated every 10 ms.                                                   *)

\* The next element, or the end of the scan.
NextObj(t) ==
  /\ idx' = [idx EXCEPT ![t] = @ + 1]
  /\ Go(t, "scan")
  /\ UNCHANGED <<call, late, got>>

AtEnd(t) == idx[t] > Len(call[t].objs)

AnyLock(t) ==
  /\ pc[t] = "scan" /\ ~AtEnd(t)
  /\ Cur(t) \in Event
  /\ Lock(t, Cur(t))
  /\ Go(t, "peek")
  /\ UNCHANGED <<signaled, call, idx, late, result, joined, got>>

AnySkip(t) ==
  /\ pc[t] = "peek"
  /\ ~signaled[Cur(t)]
  /\ Unlock(Cur(t))
  /\ NextObj(t)
  /\ UNCHANGED <<signaled, result, joined>>

\* The poll of a thread handle is a pthread_join, which blocks.
AnyJoin(t) ==
  /\ pc[t] = "scan" /\ ~AtEnd(t)
  /\ Cur(t) \in Thread
  /\ pc[Cur(t)] = "exited"
  /\ joined' = joined \union {Cur(t)}
  /\ Return(t)
  /\ UNCHANGED <<signaled, owner, result>>

AnyOther(t) ==
  /\ pc[t] = "scan" /\ ~AtEnd(t)
  /\ \/ Cur(t) = FileHandle /\ Return(t)
     \/ Cur(t) = NullHandle /\ NextObj(t)
  /\ UNCHANGED <<signaled, owner, result, joined>>

\* Faulty variants: a missing deadline is taken for one that is over; the
\* deadline is not looked at.
AnyEndEager(t) ==
  /\ pc[t] = "scan" /\ AtEnd(t)
  /\ IF late[t] \/ ~HasDeadline(t)
     THEN /\ result' = [result EXCEPT ![t] = "timeout"]
          /\ Return(t)
     ELSE /\ idx' = [idx EXCEPT ![t] = 1]
          /\ UNCHANGED <<pc, call, late, result, got>>
  /\ UNCHANGED <<signaled, owner, joined>>

AnyEndDeaf(t) ==
  /\ pc[t] = "scan" /\ AtEnd(t)
  /\ IF call[t].timeout = "zero"
     THEN /\ result' = [result EXCEPT ![t] = "timeout"]
          /\ Return(t)
     ELSE /\ idx' = [idx EXCEPT ![t] = 1]
          /\ UNCHANGED <<pc, call, late, result, got>>
  /\ UNCHANGED <<signaled, owner, joined>>

\* The whole array was scanned: time out, or sleep and scan again.
AnyEnd(t) ==
  /\ pc[t] = "scan" /\ AtEnd(t)
  /\ IF late[t] \/ call[t].timeout = "zero"
     THEN /\ result' = [result EXCEPT ![t] = "timeout"]
          /\ Return(t)
     ELSE /\ idx' = [idx EXCEPT ![t] = 1]
          /\ UNCHANGED <<pc, call, late, result, got>>
  /\ UNCHANGED <<signaled, owner, joined>>

-----------------------------------------------------------------------------

\* The thread procedure returns, or NtTerminateThread on the own thread.
Exit(t) ==
  /\ pc[t] = "idle"
  /\ Go(t, "exited")
  /\ UNCHANGED <<signaled, owner, call, idx, late, result, joined, got>>

\* Steps that compete for a mutex.
Acquire(t) == ObjLock(t) \/ Relock(t) \/ AnyLock(t)

\* Steps a thread takes by itself once it is in a call.
Proceed(t) ==
  \/ SetStore(t) \/ SetNotify(t) \/ ResetStore(t)
  \/ TakeSignal(t) \/ TestSleep(t) \/ TimeoutWake(t) \/ Leave(t)
  \/ ObjJoin(t) \/ ObjOther(t)
  \/ AnySkip(t) \/ AnyJoin(t) \/ AnyOther(t) \/ AnyEnd(t)

\* Steps the guest or its surroundings may take, but need not.
Begin(t) ==
  \/ \E e \in Event : SetLock(t, e) \/ ResetLock(t, e)
  \/ \E kind \in {"all", "any"}, objs \in Arrays, timeout \in Timeouts :
       WaitCall(t, kind, objs, timeout)
  \/ SpuriousWake(t) \/ TimeoutWins(t)
  \/ Exit(t)

Next ==
  \E t \in Thread : Begin(t) \/ Acquire(t) \/ Proceed(t) \/ DeadlinePasses(t)

Spec == Init /\ [][Next]_vars

(***************************************************************************)
(* A thread that is running or can run is scheduled, and the clock goes    *)
(* on.  A mutex is held for a few instructions at a time and a scan sleeps *)
(* 10 ms between two rounds, so a thread that competes for a mutex does    *)
(* not lose the race forever: strong fairness.                             *)
(***************************************************************************)
FairSpec ==
  /\ Spec
  /\ \A t \in Thread :
       /\ WF_vars(Proceed(t))
       /\ SF_vars(Acquire(t))
       /\ WF_vars(DeadlinePasses(t))

-----------------------------------------------------------------------------
(* Properties.                                                             *)

Label == {"idle", "store", "notify", "clear", "obj", "test", "block",
          "relock", "leave", "scan", "peek", "exited"}

\* Where a thread is between pthread_mutex_lock and pthread_mutex_unlock.
Holding == {"store", "notify", "clear", "test", "leave", "peek"}

\* Where Cur(t) is an event.
AtEvent == Holding \union {"block", "relock"}

\* What the program counter of a thread says about the call it is in.
Fits(t) ==
  /\ pc[t] \in {"idle", "exited"} => call[t] = NoCall
  /\ pc[t] \in {"idle", "exited", "store", "notify", "clear"} => idx[t] = 1
  /\ pc[t] \in AtEvent => Cur(t) \in Event
  /\ pc[t] \in AtEvent \union {"obj"} => idx[t] <= Len(call[t].objs)
  /\ pc[t] = "scan" => idx[t] <= Len(call[t].objs) + 1

\* Every variable has its type, and the program counters fit the calls.
TypeOK ==
  /\ signaled \in [Event -> BOOLEAN]
  /\ owner \in [Event -> Thread \union {NoThread}]
  /\ pc \in [Thread -> Label]
  /\ call \in [Thread -> Call]
  /\ idx \in [Thread -> Nat \ {0}]
  /\ late \in [Thread -> BOOLEAN]
  /\ result \in [Thread -> {"success", "timeout", "access_violation"}]
  /\ joined \in SUBSET Thread
  /\ got \in [Thread -> Seq(Event)]
  /\ \A t \in Thread : Fits(t)

\* The state_mutex of an event is owned by the one thread that is between
\* its lock and unlock calls, and every other mutex is free: no path through
\* NtSetEvent, NtResetEvent or a wait leaves one locked, and nobody falls
\* asleep with it.
Holds(t, e) == pc[t] \in Holding /\ Cur(t) = e

MutexHeld ==
  \A t \in Thread, e \in Event : owner[e] = t <=> Holds(t, e)

\* "avoids the lost-wakeup race the old code had" (sync.c:95): while a thread
\* sleeps on a signaled event, somebody is about to use the signal: a thread
\* in NtSetEvent that has not notified yet or, for a SynchronizationEvent,
\* one waiter that was woken and has not looked at the predicate yet.
WillLook(t, e) ==
  /\ \/ pc[t] = "test"
     \/ pc[t] = "relock" /\ result[t] = "success"
  /\ Cur(t) = e

NoLostWakeup ==
  \A e \in Event : signaled[e] /\ Asleep(e) # {} =>
    \/ \E t \in Thread : pc[t] = "notify" /\ Cur(t) = e
    \/ e \in SyncEvent /\ \E t \in Thread : WillLook(t, e)

Returns(t) == pc[t] # "idle" /\ pc'[t] = "idle"

\* A WaitAllObject call that reports success waited for every element of its
\* array, thread handles by joining them.
WaitAllComplete ==
  [][\A t \in Thread :
       Returns(t) /\ call[t].kind = "all" /\ result'[t] = "success" =>
         \A i \in DOMAIN call[t].objs :
           \/ call[t].objs[i] \in joined' \union {FileHandle}
           \/ \E k \in DOMAIN got[t] : got[t][k] = call[t].objs[i]]_vars

\* STATUS_TIMEOUT is reported only after the deadline, or by a WaitAnyObject
\* call that polls; a call without a deadline never times out, even when it
\* was woken for nothing.
TimeoutIsDue ==
  [][\A t \in Thread :
       Returns(t) /\ call[t].kind \in {"all", "any"} /\ result'[t] = "timeout" =>
         \/ late[t]
         \/ call[t].kind = "any" /\ call[t].timeout = "zero"]_vars

\* The events a thread waits for: the current one until the wait is decided
\* and the mutex released, or all those of the array.
Wants(t) ==
  CASE \/ pc[t] \in {"obj", "test", "block", "relock"}
       \/ pc[t] = "leave" /\ result[t] # "success" -> {Cur(t)} \intersect Event
    [] pc[t] \in {"scan", "peek"} ->
         {call[t].objs[i] : i \in DOMAIN call[t].objs} \intersect Event
    [] OTHER -> {}

\* The mutex and the condition variable implement the indivisible operations
\* of NtEvent: a SynchronizationEvent releases one waiter per signal, a wait
\* that times out takes no signal and clears none, and (under FairSpec) no
\* signal is slept on.
Events == INSTANCE NtEvent WITH want <- [t \in Thread |-> Wants(t)]

ImplementsNtEvent == Events!Spec
ImplementsNtEventSafely == Events!SafeSpec

\* A wait on a signaled event is over, or somebody else took the signal:
\* what the loops around pthread_cond_wait and nanosleep must guarantee.
SignalEndsWait ==
  \A t \in Thread, e \in Event :
    e \in Wants(t) /\ signaled[e] ~> ~(e \in Wants(t) /\ signaled[e])

\* A call with a deadline returns, whatever the other threads do.
TimedCallReturns ==
  \A t \in Thread : call[t].timeout = "time" ~> pc[t] = "idle"

=============================================================================
