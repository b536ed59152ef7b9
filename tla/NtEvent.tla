------------------------------ MODULE NtEvent ------------------------------
(***************************************************************************)
(* What the event objects of libs/ntdll/sync.c promise to the guest: a     *)
(* signal that is set, reset, and taken by waits, every operation one      *)
(* indivisible step.  Module Sync models the mutex and condition variable  *)
(* that implement it and shows that they do; module Kbd is written over    *)
(* the operations of this module.                                          *)
(***************************************************************************)
EXTENDS Sequences

CONSTANTS
  Thread,     \* threads of the guest
  Event,      \* open event handles (HANDLE_EV)
  SyncEvent   \* those created with EventType = SynchronizationEvent

VARIABLES
  signaled,   \* event.signaled of each event
  want,       \* the events that would end the thread's wait; {}: not waiting
  got         \* the events the thread took in its current call, in order

eventVars == <<signaled, want, got>>

-----------------------------------------------------------------------------

Init ==
  /\ signaled \in [Event -> BOOLEAN]
  /\ want = [t \in Thread |-> {}]
  /\ got = [t \in Thread |-> <<>>]

\* A thread starts to wait until one of the events in S is signaled.
Ask(t, S) ==
  /\ want[t] = {}
  /\ want' = [want EXCEPT ![t] = S]
  /\ UNCHANGED signaled

\* NtSetEvent.
Set(e) ==
  /\ signaled' = [signaled EXCEPT ![e] = TRUE]
  /\ UNCHANGED want

\* NtResetEvent, NtClearEvent.
Reset(e) ==
  /\ signaled' = [signaled EXCEPT ![e] = FALSE]
  /\ UNCHANGED want

\* A successful wait: a SynchronizationEvent releases one waiter and is
\* reset by it, a NotificationEvent stays signaled.
Take(t, e) ==
  /\ e \in want[t]
  /\ signaled[e]
  /\ signaled' = [signaled EXCEPT ![e] = e \notin SyncEvent]
  /\ want' = [want EXCEPT ![t] = {}]

\* A wait ends without an event: its deadline passed, or another object of
\* the array ended it.  It takes no signal with it.
GiveUp(t) ==
  /\ want[t] # {}
  /\ want' = [want EXCEPT ![t] = {}]
  /\ UNCHANGED signaled

\* The caller is told which event it took.
Obtain(t, e) ==
  /\ Take(t, e)
  /\ got' = [got EXCEPT ![t] = Append(@, e)]

\* Nothing is taken; a call may be over, or begin.
NothingTaken(t) == got' \in {got, [got EXCEPT ![t] = <<>>]}

Next ==
  \/ \E e \in Event : (Set(e) \/ Reset(e)) /\ UNCHANGED got
  \/ \E t \in Thread :
       \/ \E S \in SUBSET Event : Ask(t, S) /\ NothingTaken(t)
       \/ \E e \in Event : Obtain(t, e)
       \/ GiveUp(t) /\ NothingTaken(t)

SafeSpec == Init /\ [][Next]_eventVars

\* An event that stays signaled is not ignored by a thread that wants it.
Spec ==
  /\ SafeSpec
  /\ \A t \in Thread, e \in Event : WF_eventVars(Obtain(t, e))

=============================================================================
