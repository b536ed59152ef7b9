-------------------------------- MODULE Kbd --------------------------------
(***************************************************************************)
(* The keyboard of libs/ntdll/io.c.  KeyboardClass0 and KeyboardClass1 are *)
(* both standard input.  A read that finds no byte there is parked in      *)
(* g_stdin_kbd, which has room for one request, and NtReadFile returns     *)
(* STATUS_PENDING; nl_kbd_pump, called on each pass of a WaitAnyObject     *)
(* wait, completes the parked request once a byte can be read, and         *)
(* NtCancelIoFile withdraws it.                                            *)
(*                                                                         *)
(* A request is a buffer, an I/O status block and an event.  The guest     *)
(* keeps one of each per keyboard, so a request is named by its unit.  The *)
(* events are those of NtEvent, which module Sync implements.  The critical*)
(* sections of g_stdin_kbd.mu touch nothing but g_stdin_kbd and are one    *)
(* step each; everything done outside them can interleave.                 *)
(***************************************************************************)
EXTENDS Naturals, Sequences

CONSTANTS
  Thread,       \* threads of the guest
  Unit,         \* keyboard units, each with one file handle
  NoUnit,       \* no request: the empty slot
  SyncEvent,    \* units whose event is a SynchronizationEvent
  Calls,        \* which services the guest calls: see CallName
  Arrays,       \* the arrays of units whose events a WaitAnyObject call names
  StdinIsTty,   \* read() of the raw terminal returns 0 when there is no byte;
                \* that of a pipe blocks
  MaxKeys       \* bound on the number of keys typed

CallName == {"read", "waitany", "waitone", "cancel"}

ASSUME KbdAssumption ==
  /\ NoUnit \notin Unit
  /\ SyncEvent \subseteq Unit
  /\ Calls \subseteq CallName
  /\ Arrays \subseteq Seq(Unit) \ {<<>>}
  /\ StdinIsTty \in BOOLEAN
  /\ MaxKeys \in Nat

VARIABLES
  signaled, want,  \* the events of the requests: see NtEvent
  typed,     \* number of keys typed; the keys are 1 .. typed
  taken,     \* number of keys read from standard input
  slot,      \* the unit parked in g_stdin_kbd, or NoUnit if not active
  iosb,      \* Status of the unit's IO_STATUS_BLOCK
  buffer,    \* key in the unit's KEYBOARD_INPUT_DATA, 0 if none
  phase,     \* what the caller knows of the unit's read: see PhaseName
  pc,        \* where a thread is
  arg,       \* the unit passed to NtReadFile, NtCancelIoFile or a single wait
  objs,      \* the array of a WaitAnyObject call
  idx,       \* its loop variable i, counted from 1
  req,       \* request whose buffer, iosb and event the thread copied
  hand,      \* key the thread has read and not delivered, 0 if none
  lost       \* history: the keys that were dropped

eventVars == <<signaled, want>>
callVars == <<arg, objs, idx>>
vars == <<signaled, want, typed, taken, slot, iosb, buffer, phase, pc, arg,
          objs, idx, req, hand, lost>>

\* idle: the caller may free or reuse the request; calling: NtReadFile was
\* called; open: it returned STATUS_PENDING.
PhaseName == {"idle", "calling", "open"}

\* What the events have taught their waiters is not recorded here.
Ev == INSTANCE NtEvent WITH Event <- Unit, got <- <<>>

-----------------------------------------------------------------------------

\* poll() finds a byte on standard input.
Readable == taken < typed

Go(t, label) == pc' = [pc EXCEPT ![t] = label]

\* The thread's next byte of standard input.
TakeKey(t) ==
  /\ Readable
  /\ taken' = taken + 1
  /\ hand' = [hand EXCEPT ![t] = taken + 1]

\* The caller learns that the unit's read is over.
Release(u) == phase' = [phase EXCEPT ![u] = IF @ = "open" THEN "idle" ELSE @]

Init ==
  /\ signaled = [u \in Unit |-> FALSE]
  /\ want = [t \in Thread |-> {}]
  /\ typed = 0
  /\ taken = 0
  /\ slot = NoUnit
  /\ iosb = [u \in Unit |-> "none"]
  /\ buffer = [u \in Unit |-> 0]
  /\ phase = [u \in Unit |-> "idle"]
  /\ pc = [t \in Thread |-> "idle"]
  /\ arg = [t \in Thread |-> NoUnit]
  /\ objs = [t \in Thread |-> <<>>]
  /\ idx = [t \in Thread |-> 1]
  /\ req = [t \in Thread |-> NoUnit]
  /\ hand = [t \in Thread |-> 0]
  /\ lost = {}

\* The user presses a key.
TypeKey ==
  /\ typed < MaxKeys
  /\ typed' = typed + 1
  /\ UNCHANGED <<eventVars, taken, slot, iosb, buffer, phase, pc, callVars,
                 req, hand, lost>>

-----------------------------------------------------------------------------
(* deliver_kbd_event, on the request copied to req: fill the buffer and    *)
(* the status block, then set the event.  NtReadFile and the pump both use *)
(* it, and NtCancelIoFile does the same with STATUS_CANCELLED.             *)

Fill(t) ==
  /\ pc[t] \in {"rd_fill", "pm_fill"}
  /\ buffer' = [buffer EXCEPT ![req[t]] = hand[t]]
  /\ iosb' = [iosb EXCEPT ![req[t]] = "success"]
  /\ hand' = [hand EXCEPT ![t] = 0]
  /\ Go(t, IF pc[t] = "rd_fill" THEN "rd_signal" ELSE "pm_signal")
  /\ UNCHANGED <<eventVars, typed, taken, slot, phase, callVars, req, lost>>

Signal(t) ==
  /\ pc[t] \in {"rd_signal", "pm_signal", "cn_signal"}
  /\ Ev!Set(req[t])
  /\ req' = [req EXCEPT ![t] = NoUnit]
  /\ \/ /\ pc[t] = "rd_signal"             \* NtReadFile: STATUS_SUCCESS
        /\ phase' = [phase EXCEPT ![req[t]] = "idle"]
        /\ Go(t, "idle")
     \/ /\ pc[t] = "pm_signal"
        /\ UNCHANGED phase
        /\ Go(t, "scan")
     \/ /\ pc[t] = "cn_signal"
        /\ UNCHANGED phase
        /\ Go(t, "cn_done")
  /\ UNCHANGED <<typed, taken, slot, iosb, buffer, callVars, hand, lost>>

-----------------------------------------------------------------------------
(* NtReadFile on a keyboard.                                               *)

\* The guest starts a read with a request of its own that is not in use; its
\* event is new or was reset.
ReadCall(t, u) ==
  /\ "read" \in Calls
  /\ pc[t] = "idle"
  /\ phase[u] = "idle"
  /\ Ev!Reset(u)
  /\ phase' = [phase EXCEPT ![u] = "calling"]
  /\ iosb' = [iosb EXCEPT ![u] = "none"]
  /\ buffer' = [buffer EXCEPT ![u] = 0]
  /\ arg' = [arg EXCEPT ![t] = u]
  /\ Go(t, "rd_poll")
  /\ UNCHANGED <<typed, taken, slot, objs, idx, req, hand, lost>>

ReadPoll(t) ==
  /\ pc[t] = "rd_poll"
  /\ Go(t, IF Readable THEN "rd_read" ELSE "rd_park")
  /\ UNCHANGED <<eventVars, typed, taken, slot, iosb, buffer, phase, callVars,
                 req, hand, lost>>

\* Another thread may have read the byte that poll() saw.
ReadByte(t) ==
  /\ pc[t] = "rd_read"
  /\ \/ /\ TakeKey(t)
        /\ req' = [req EXCEPT ![t] = arg[t]]
        /\ Go(t, "rd_fill")
     \/ /\ ~Readable /\ StdinIsTty
        /\ Go(t, "rd_park")
        /\ UNCHANGED <<taken, req, hand>>
  /\ UNCHANGED <<eventVars, typed, slot, iosb, buffer, phase, callVars, lost>>

\* The request goes into the slot, whatever is there.
ReadPark(t) ==
  /\ pc[t] = "rd_park"
  /\ slot' = arg[t]
  /\ Go(t, "rd_pend")
  /\ UNCHANGED <<eventVars, typed, taken, iosb, buffer, phase, callVars, req,
                 hand, lost>>

\* STATUS_PENDING is stored after the slot was unlocked.
ReadPend(t) ==
  /\ pc[t] = "rd_pend"
  /\ iosb' = [iosb EXCEPT ![arg[t]] = "pending"]
  /\ phase' = [phase EXCEPT ![arg[t]] = "open"]
  /\ Go(t, "idle")
  /\ UNCHANGED <<eventVars, typed, taken, slot, buffer, callVars, req, hand,
                 lost>>

-----------------------------------------------------------------------------
(* nl_kbd_pump, then the scan of the events: one pass of WaitAnyObject.    *)

AnyCall(t, units) ==
  /\ "waitany" \in Calls
  /\ pc[t] = "idle"
  /\ Ev!Ask(t, {units[i] : i \in DOMAIN units})
  /\ objs' = [objs EXCEPT ![t] = units]
  /\ Go(t, "pm_look")
  /\ UNCHANGED <<typed, taken, slot, iosb, buffer, phase, arg, idx, req, hand,
                 lost>>

\* Faulty variant: the active flag is not tested.
PumpLookAlways(t) ==
  /\ pc[t] = "pm_look"
  /\ Go(t, "pm_poll")
  /\ UNCHANGED <<eventVars, typed, taken, slot, iosb, buffer, phase, callVars,
                 req, hand, lost>>

PumpLook(t) ==
  /\ pc[t] = "pm_look"
  /\ Go(t, IF slot = NoUnit THEN "scan" ELSE "pm_poll")
  /\ UNCHANGED <<eventVars, typed, taken, slot, iosb, buffer, phase, callVars,
                 req, hand, lost>>

PumpPoll(t) ==
  /\ pc[t] = "pm_poll"
  /\ Go(t, IF Readable THEN "pm_read" ELSE "scan")
  /\ UNCHANGED <<eventVars, typed, taken, slot, iosb, buffer, phase, callVars,
                 req, hand, lost>>

PumpRead(t) ==
  /\ pc[t] = "pm_read"
  /\ \/ TakeKey(t) /\ Go(t, "pm_claim")
     \/ /\ ~Readable /\ StdinIsTty
        /\ Go(t, "scan")
        /\ UNCHANGED <<taken, hand>>
  /\ UNCHANGED <<eventVars, typed, slot, iosb, buffer, phase, callVars, req,
                 lost>>

\* Faulty variant: the active flag is not cleared.
PumpClaimKeeps(t) ==
  /\ pc[t] = "pm_claim"
  /\ \/ /\ slot # NoUnit
        /\ req' = [req EXCEPT ![t] = slot]
        /\ Go(t, "pm_fill")
        /\ UNCHANGED <<hand, lost, slot>>
     \/ /\ slot = NoUnit
        /\ lost' = lost \union {hand[t]}
        /\ hand' = [hand EXCEPT ![t] = 0]
        /\ Go(t, "scan")
        /\ UNCHANGED <<req, slot>>
  /\ UNCHANGED <<eventVars, typed, taken, iosb, buffer, phase, callVars>>

\* The request may be gone by now: the byte is dropped.
PumpClaim(t) ==
  /\ pc[t] = "pm_claim"
  /\ \/ /\ slot # NoUnit
        /\ req' = [req EXCEPT ![t] = slot]
        /\ slot' = NoUnit
        /\ Go(t, "pm_fill")
        /\ UNCHANGED <<hand, lost>>
     \/ /\ slot = NoUnit
        /\ lost' = lost \union {hand[t]}
        /\ hand' = [hand EXCEPT ![t] = 0]
        /\ Go(t, "scan")
        /\ UNCHANGED <<req, slot>>
  /\ UNCHANGED <<eventVars, typed, taken, iosb, buffer, phase, callVars>>

AtEnd(t) == idx[t] > Len(objs[t])

\* Faulty variant: the next call starts where this one ended.
FinishMidway(t) ==
  /\ objs' = [objs EXCEPT ![t] = <<>>]
  /\ Go(t, "idle")
  /\ UNCHANGED idx

Finish(t) ==
  /\ objs' = [objs EXCEPT ![t] = <<>>]
  /\ idx' = [idx EXCEPT ![t] = 1]
  /\ Go(t, "idle")

\* The event of the i-th object is signaled: STATUS_WAIT_0 + i.
ScanTake(t) ==
  /\ pc[t] = "scan" /\ ~AtEnd(t)
  /\ Ev!Take(t, objs[t][idx[t]])
  /\ Release(objs[t][idx[t]])
  /\ Finish(t)
  /\ UNCHANGED <<typed, taken, slot, iosb, buffer, arg, req, hand, lost>>

ScanSkip(t) ==
  /\ pc[t] = "scan" /\ ~AtEnd(t)
  /\ ~signaled[objs[t][idx[t]]]
  /\ idx' = [idx EXCEPT ![t] = @ + 1]
  /\ UNCHANGED <<eventVars, typed, taken, slot, iosb, buffer, phase, pc, arg,
                 objs, req, hand, lost>>

\* Faulty variant: nl_kbd_pump is called once, before the loop.
ScanAgainUnpumped(t) ==
  /\ pc[t] = "scan" /\ AtEnd(t)
  /\ idx' = [idx EXCEPT ![t] = 1]
  /\ UNCHANGED <<eventVars, typed, taken, slot, iosb, buffer, phase, pc, arg,
                 objs, req, hand, lost>>

\* Sleep 10 ms and start the next pass.
ScanAgain(t) ==
  /\ pc[t] = "scan" /\ AtEnd(t)
  /\ idx' = [idx EXCEPT ![t] = 1]
  /\ Go(t, "pm_look")
  /\ UNCHANGED <<eventVars, typed, taken, slot, iosb, buffer, phase, arg, objs,
                 req, hand, lost>>

\* The deadline of the call is over.
ScanTimeout(t) ==
  /\ pc[t] = "scan" /\ AtEnd(t)
  /\ Ev!GiveUp(t)
  /\ Finish(t)
  /\ UNCHANGED <<typed, taken, slot, iosb, buffer, phase, arg, req, hand, lost>>

-----------------------------------------------------------------------------
(* NtWaitForSingleObject on the event of a unit: it does not pump.         *)

OneCall(t, u) ==
  /\ "waitone" \in Calls
  /\ pc[t] = "idle"
  /\ Ev!Ask(t, {u})
  /\ arg' = [arg EXCEPT ![t] = u]
  /\ Go(t, "one")
  /\ UNCHANGED <<typed, taken, slot, iosb, buffer, phase, objs, idx, req, hand,
                 lost>>

OneTake(t) ==
  /\ pc[t] = "one"
  /\ Ev!Take(t, arg[t])
  /\ Release(arg[t])
  /\ Go(t, "idle")
  /\ UNCHANGED <<typed, taken, slot, iosb, buffer, callVars, req, hand, lost>>

OneTimeout(t) ==
  /\ pc[t] = "one"
  /\ Ev!GiveUp(t)
  /\ Go(t, "idle")
  /\ UNCHANGED <<typed, taken, slot, iosb, buffer, phase, callVars, req, hand,
                 lost>>

-----------------------------------------------------------------------------
(* NtCancelIoFile on a keyboard.                                           *)

\* Faulty variant: the event is set before the status is stored.
CancelGrabUnfilled(t, u) ==
  /\ "cancel" \in Calls
  /\ pc[t] = "idle"
  /\ phase[u] # "calling"
  /\ arg' = [arg EXCEPT ![t] = u]
  /\ req' = [req EXCEPT ![t] = slot]
  /\ slot' = NoUnit
  /\ Go(t, IF slot = NoUnit THEN "cn_done" ELSE "cn_signal")
  /\ UNCHANGED <<eventVars, typed, taken, iosb, buffer, phase, objs, idx, hand,
                 lost>>

\* The slot is emptied whichever unit the call is for.
CancelGrab(t, u) ==
  /\ "cancel" \in Calls
  /\ pc[t] = "idle"
  /\ phase[u] # "calling"
  /\ arg' = [arg EXCEPT ![t] = u]
  /\ req' = [req EXCEPT ![t] = slot]
  /\ slot' = NoUnit
  /\ Go(t, IF slot = NoUnit THEN "cn_done" ELSE "cn_fill")
  /\ UNCHANGED <<eventVars, typed, taken, iosb, buffer, phase, objs, idx, hand,
                 lost>>

CancelFill(t) ==
  /\ pc[t] = "cn_fill"
  /\ iosb' = [iosb EXCEPT ![req[t]] = "cancelled"]
  /\ Go(t, "cn_signal")
  /\ UNCHANGED <<eventVars, typed, taken, slot, buffer, phase, callVars, req,
                 hand, lost>>

\* NtCancelIoFile returns; the caller takes the unit's request back.
CancelReturn(t) ==
  /\ pc[t] = "cn_done"
  /\ Release(arg[t])
  /\ Go(t, "idle")
  /\ UNCHANGED <<eventVars, typed, taken, slot, iosb, buffer, callVars, req,
                 hand, lost>>

-----------------------------------------------------------------------------

\* Calls the guest may make, keys the user may press, deadlines that pass.
Begin(t) ==
  \/ \E u \in Unit : ReadCall(t, u) \/ OneCall(t, u) \/ CancelGrab(t, u)
  \/ \E units \in Arrays : AnyCall(t, units)
  \/ ScanTimeout(t) \/ OneTimeout(t)

\* Steps a thread takes by itself once it is in a call.
Proceed(t) ==
  \/ Fill(t) \/ Signal(t)
  \/ ReadPoll(t) \/ ReadByte(t) \/ ReadPark(t) \/ ReadPend(t)
  \/ PumpLook(t) \/ PumpPoll(t) \/ PumpRead(t) \/ PumpClaim(t)
  \/ ScanTake(t) \/ ScanSkip(t) \/ ScanAgain(t) \/ OneTake(t)
  \/ CancelFill(t) \/ CancelReturn(t)

Next == TypeKey \/ \E t \in Thread : Begin(t) \/ Proceed(t)

Spec == Init /\ [][Next]_vars

\* A thread that can run is scheduled; nobody has to press a key.
FairSpec == Spec /\ \A t \in Thread : WF_vars(Proceed(t))

-----------------------------------------------------------------------------
(* Properties.                                                             *)

Label == {"idle", "rd_poll", "rd_read", "rd_park", "rd_pend", "rd_fill",
          "rd_signal", "pm_look", "pm_poll", "pm_read", "pm_claim", "pm_fill",
          "pm_signal", "scan", "one", "cn_fill", "cn_signal", "cn_done"}

\* Threads that work on a request taken out of the slot, or found a key for
\* the request they were called with.
Completing == {"rd_fill", "rd_signal", "pm_fill", "pm_signal", "cn_fill",
               "cn_signal"}

\* Where a thread holds a key it read.
Carrying == {"rd_fill", "pm_claim", "pm_fill"}

\* What the program counter of a thread says about its variables.
Fits(t) ==
  /\ pc[t] \in Completing <=> req[t] # NoUnit
  /\ pc[t] \in Carrying <=> hand[t] # 0
  /\ pc[t] \in {"rd_poll", "rd_read", "rd_park", "rd_pend", "one", "cn_fill",
                "cn_signal", "cn_done"} => arg[t] # NoUnit
  /\ IF pc[t] = "scan" THEN idx[t] <= Len(objs[t]) + 1 ELSE idx[t] = 1

\* Every variable has its type, a thread has a request or a key in hand just
\* where the code has copied one, and each pass of the scan starts at the
\* first object of the array.
TypeOK ==
  /\ signaled \in [Unit -> BOOLEAN]
  /\ want \in [Thread -> SUBSET Unit]
  /\ typed \in 0 .. MaxKeys
  /\ taken \in 0 .. typed
  /\ slot \in Unit \union {NoUnit}
  /\ iosb \in [Unit -> {"none", "pending", "success", "cancelled"}]
  /\ buffer \in [Unit -> 0 .. MaxKeys]
  /\ phase \in [Unit -> PhaseName]
  /\ pc \in [Thread -> Label]
  /\ arg \in [Thread -> Unit \union {NoUnit}]
  /\ objs \in [Thread -> Seq(Unit)]
  /\ idx \in [Thread -> Nat \ {0}]
  /\ req \in [Thread -> Unit \union {NoUnit}]
  /\ hand \in [Thread -> 0 .. MaxKeys]
  /\ lost \in SUBSET (1 .. MaxKeys)
  /\ \A t \in Thread : Fits(t)

\* A thread that claimed the request of a unit and has not completed it yet.
Claimed(t, u) == pc[t] \in Completing /\ req[t] = u

\* When the event of a pending read is signaled, its status block says how it
\* ended: what a caller woken from the wait relies on (io.c:376-378).
EventMeansDone ==
  \A u \in Unit :
    phase[u] = "open" /\ signaled[u] => iosb[u] \in {"success", "cancelled"}

\* Nobody fills the buffer of a request that its caller got back: "so the pump
\* doesn't write into a buffer the caller is about to free" (io.c:721-722).
NoWriteAfterRelease ==
  \A t \in Thread : pc[t] \in Completing => phase[req[t]] # "idle"

\* A parked request belongs to a read that is not over: a completion and a
\* cancellation both leave the slot empty.
SlotIsOpen == slot # NoUnit => phase[slot] # "idle"

\* At most one of the slot, the pumps of all threads, NtReadFile and
\* NtCancelIoFile is about to complete a request.
OneCompletion ==
  \A u \in Unit, t \in Thread : Claimed(t, u) =>
    /\ slot # u
    /\ \A x \in Thread \ {t} : ~Claimed(x, u)

\* A key that was read from standard input reaches a read: the branch that
\* drops the byte needs a cancellation at that moment (io.c:475).
NoKeyLost == lost = {}

\* A read that returned STATUS_PENDING waits in the slot, or somebody is
\* completing it: "The pump in the wait loop will complete it once stdin has a
\* byte" (io.c:537-538).
PendingIsParked ==
  \A u \in Unit : phase[u] = "open" /\ iosb[u] = "pending" =>
    slot = u \/ \E t \in Thread : Claimed(t, u)

\* A thread that waits for a parked read while a byte can be read is woken:
\* "nl_kbd_pump() is called each pass through the wait loops in sync.c"
\* (io.c:375-376).
KeyEndsWait ==
  \A t \in Thread, u \in Unit :
    slot = u /\ u \in want[t] /\ Readable ~> u \notin want[t]

=============================================================================
