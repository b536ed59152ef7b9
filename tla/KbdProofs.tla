----------------------------- MODULE KbdProofs -----------------------------
(***************************************************************************)
(* Proofs about module Kbd, for any number of keyboard units and keys.     *)
(* Any number of threads: type correctness, and, as long as nobody cancels,*)
(* that a request is completed once and while its caller waits for it.     *)
(* One thread, which may cancel: that an event which is set means a read   *)
(* that is done, and that no key is lost.                                  *)
(***************************************************************************)
EXTENDS Kbd, TLAPS

-----------------------------------------------------------------------------
(* Type correctness.                                                       *)

\* A step that leaves alone what a thread has keeps what Fits says of it.
LEMMA FitsFrame ==
  ASSUME NEW x, Fits(x),
         pc'[x] = pc[x], arg'[x] = arg[x], objs'[x] = objs[x], idx'[x] = idx[x],
         req'[x] = req[x], hand'[x] = hand[x]
  PROVE  Fits(x)'
BY DEF Fits

\* What a thread works on is a request of a unit, its key is one of the keys,
\* and its array has a length.
AtWork(t) ==
  /\ pc[t] \in Completing => req[t] \in Unit
  /\ pc[t] \in {"rd_poll", "rd_read", "rd_park", "rd_pend", "one", "cn_fill",
                "cn_signal", "cn_done"} => arg[t] \in Unit
  /\ pc[t] \in Carrying => hand[t] \in 1 .. MaxKeys
  /\ pc[t] = "scan" => idx[t] <= Len(objs[t]) + 1
  /\ pc[t] # "scan" => idx[t] = 1
  /\ Len(objs[t]) \in Nat /\ idx[t] \in Nat \ {0}
  /\ typed \in Nat /\ taken \in Nat /\ typed <= MaxKeys /\ taken <= typed
  /\ NoUnit \notin Unit /\ MaxKeys \in Nat

\* All of it is in the type invariant.
LEMMA Working ==
  ASSUME TypeOK, NEW t \in Thread
  PROVE  AtWork(t)
<1> USE DEF TypeOK
<1>1. pc[t] \in Completing => req[t] \in Unit BY DEF Fits
<1>2. pc[t] \in {"rd_poll", "rd_read", "rd_park", "rd_pend", "one", "cn_fill",
                "cn_signal", "cn_done"} => arg[t] \in Unit BY DEF Fits
<1>3. pc[t] \in Carrying => hand[t] \in 1 .. MaxKeys BY KbdAssumption DEF Fits
<1>4. /\ pc[t] = "scan" => idx[t] <= Len(objs[t]) + 1
      /\ pc[t] # "scan" => idx[t] = 1
  BY DEF Fits
<1>5. QED BY <1>1, <1>2, <1>3, <1>4, KbdAssumption DEF AtWork

\* NtReadFile and the delivery of a key preserve the types.
LEMMA ReadTypeOK ==
  ASSUME TypeOK, NEW t \in Thread
  PROVE  Fill(t) \/ Signal(t) \/ ReadPoll(t) \/ ReadByte(t) \/ ReadPark(t)
           \/ ReadPend(t) => TypeOK'
<1>0. AtWork(t) BY Working
<1> USE DEF AtWork
<1>1. ASSUME Fill(t) PROVE TypeOK'
  <2> USE <1>1, <1>0 DEF TypeOK, Fill, eventVars, callVars, Go, Completing, Carrying
  <2>1. \A x \in Thread \ {t} : Fits(x)' BY FitsFrame
  <2>2. Fits(t)' BY DEF Fits, Completing, Carrying
  <2>3. buffer' \in [Unit -> 0 .. MaxKeys] OBVIOUS
  <2>4. iosb' \in [Unit -> {"none", "pending", "success", "cancelled"}] OBVIOUS
  <2>5. hand' \in [Thread -> 0 .. MaxKeys] OBVIOUS
  <2>6. pc' \in [Thread -> Label] BY DEF Label
  <2>7. QED BY <2>1, <2>2, <2>3, <2>4, <2>5, <2>6
<1>2. ASSUME Signal(t) PROVE TypeOK'
  <2> USE <1>2, <1>0 DEF TypeOK, Signal, eventVars, callVars, Ev!Set, Go, Completing,
      Carrying
  <2>1. \A x \in Thread \ {t} : Fits(x)' BY FitsFrame
  <2>2. Fits(t)' BY DEF Fits, Completing, Carrying
  <2>3. signaled' \in [Unit -> BOOLEAN] OBVIOUS
  <2>4. req' \in [Thread -> Unit \union {NoUnit}] OBVIOUS
  <2>5. phase' \in [Unit -> PhaseName] BY DEF PhaseName
  <2>6. pc' \in [Thread -> Label] BY DEF Label
  <2>7. QED BY <2>1, <2>2, <2>3, <2>4, <2>5, <2>6
<1>3. ASSUME ReadPoll(t) PROVE TypeOK'
  <2> USE <1>3, <1>0 DEF TypeOK, ReadPoll, eventVars, callVars, Go
  <2>1. \A x \in Thread \ {t} : Fits(x)' BY FitsFrame
  <2>2. Fits(t)' BY DEF Fits, Completing, Carrying
  <2>3. pc' \in [Thread -> Label] BY DEF Label
  <2>4. QED BY <2>1, <2>2, <2>3
<1>4. ASSUME ReadByte(t) PROVE TypeOK'
  <2> USE <1>4, <1>0 DEF TypeOK, ReadByte, eventVars, callVars, TakeKey, Readable, Go
  <2>1. \A x \in Thread \ {t} : Fits(x)' BY FitsFrame
  <2>2. Fits(t)'
    <3>1. CASE TakeKey(t)
      <4>1. hand'[t] = taken + 1 /\ pc'[t] = "rd_fill" /\ req'[t] = arg[t] BY <3>1
      <4>2. QED BY <4>1 DEF Fits, Completing, Carrying
    <3>2. CASE ~TakeKey(t)
      <4>1. UNCHANGED <<hand, req>> /\ pc'[t] = "rd_park" BY <3>2
      <4>2. QED BY <4>1 DEF Fits, Completing, Carrying
    <3>3. QED BY <3>1, <3>2
  <2>3. taken' \in 0 .. typed' OBVIOUS
  <2>4. hand' \in [Thread -> 0 .. MaxKeys]
    <3>1. taken < typed => taken + 1 \in 0 .. MaxKeys OBVIOUS
    <3>2. QED BY <3>1
  <2>5. req' \in [Thread -> Unit \union {NoUnit}] OBVIOUS
  <2>6. pc' \in [Thread -> Label] BY DEF Label
  <2>7. QED BY <2>1, <2>2, <2>3, <2>4, <2>5, <2>6
<1>5. ASSUME ReadPark(t) PROVE TypeOK'
  <2> USE <1>5, <1>0 DEF TypeOK, ReadPark, eventVars, callVars, Go
  <2>1. \A x \in Thread \ {t} : Fits(x)' BY FitsFrame
  <2>2. Fits(t)' BY DEF Fits, Completing, Carrying
  <2>3. slot' \in Unit \union {NoUnit} OBVIOUS
  <2>4. pc' \in [Thread -> Label] BY DEF Label
  <2>5. QED BY <2>1, <2>2, <2>3, <2>4
<1>6. ASSUME ReadPend(t) PROVE TypeOK'
  <2> USE <1>6, <1>0 DEF TypeOK, ReadPend, eventVars, callVars, Go
  <2>1. \A x \in Thread \ {t} : Fits(x)' BY FitsFrame
  <2>2. Fits(t)' BY DEF Fits, Completing, Carrying
  <2>3. iosb' \in [Unit -> {"none", "pending", "success", "cancelled"}] OBVIOUS
  <2>4. phase' \in [Unit -> PhaseName] BY DEF PhaseName
  <2>5. pc' \in [Thread -> Label] BY DEF Label
  <2>6. QED BY <2>1, <2>2, <2>3, <2>4, <2>5
<1>7. QED BY <1>1, <1>2, <1>3, <1>4, <1>5, <1>6

\* So does nl_kbd_pump.
LEMMA PumpTypeOK ==
  ASSUME TypeOK, NEW t \in Thread
  PROVE  PumpLook(t) \/ PumpPoll(t) \/ PumpRead(t) \/ PumpClaim(t) => TypeOK'
<1>0. AtWork(t) BY Working
<1> USE DEF AtWork
<1>1. ASSUME PumpLook(t) PROVE TypeOK'
  <2> USE <1>1, <1>0 DEF TypeOK, PumpLook, eventVars, callVars, Go
  <2>1. \A x \in Thread \ {t} : Fits(x)' BY FitsFrame
  <2>2. Fits(t)'
    <3>1. pc'[t] \in {"scan", "pm_poll"} OBVIOUS
    <3>2. idx[t] = 1 /\ Len(objs[t]) \in Nat /\ req[t] = NoUnit /\ hand[t] = 0
      BY DEF Fits, Completing, Carrying
    <3>3. QED BY <3>1, <3>2 DEF Fits, Completing, Carrying
  <2>3. pc' \in [Thread -> Label] BY DEF Label
  <2>4. QED BY <2>1, <2>2, <2>3
<1>2. ASSUME PumpPoll(t) PROVE TypeOK'
  <2> USE <1>2, <1>0 DEF TypeOK, PumpPoll, eventVars, callVars, Go
  <2>1. \A x \in Thread \ {t} : Fits(x)' BY FitsFrame
  <2>2. Fits(t)'
    <3>1. pc'[t] \in {"scan", "pm_read"} OBVIOUS
    <3>2. idx[t] = 1 /\ Len(objs[t]) \in Nat /\ req[t] = NoUnit /\ hand[t] = 0
      BY DEF Fits, Completing, Carrying
    <3>3. QED BY <3>1, <3>2 DEF Fits, Completing, Carrying
  <2>3. pc' \in [Thread -> Label] BY DEF Label
  <2>4. QED BY <2>1, <2>2, <2>3
<1>3. ASSUME PumpRead(t) PROVE TypeOK'
  <2> USE <1>3, <1>0 DEF TypeOK, PumpRead, eventVars, callVars, TakeKey, Readable, Go
  <2>1. \A x \in Thread \ {t} : Fits(x)' BY FitsFrame
  <2>2. Fits(t)' BY DEF Fits, Completing, Carrying
  <2>3. taken' \in 0 .. typed' OBVIOUS
  <2>4. hand' \in [Thread -> 0 .. MaxKeys]
    <3>1. taken < typed => taken + 1 \in 0 .. MaxKeys OBVIOUS
    <3>2. QED BY <3>1
  <2>5. pc' \in [Thread -> Label] BY DEF Label
  <2>6. QED BY <2>1, <2>2, <2>3, <2>4, <2>5
<1>4. ASSUME PumpClaim(t) PROVE TypeOK'
  <2> USE <1>4, <1>0 DEF TypeOK, PumpClaim, eventVars, callVars, Go, Carrying
  <2>1. \A x \in Thread \ {t} : Fits(x)' BY FitsFrame
  <2>2. Fits(t)'
    <3>1. CASE slot = NoUnit
      <4>1. pc'[t] = "scan" /\ hand'[t] = 0 BY <3>1
      <4>2. idx[t] = 1 /\ Len(objs[t]) \in Nat /\ req[t] = NoUnit
        BY DEF Fits, Completing
      <4>3. QED BY <3>1, <4>1, <4>2 DEF Fits, Completing, Carrying
    <3>2. CASE slot # NoUnit
      <4>1. pc'[t] = "pm_fill" /\ req'[t] = slot BY <3>2
      <4>2. QED BY <3>2, <4>1 DEF Fits, Completing, Carrying
    <3>3. QED BY <3>1, <3>2
  <2>3. req' \in [Thread -> Unit \union {NoUnit}] OBVIOUS
  <2>4. slot' \in Unit \union {NoUnit} OBVIOUS
  <2>5. hand' \in [Thread -> 0 .. MaxKeys]
    <3>1. 0 \in 0 .. MaxKeys OBVIOUS
    <3>2. hand \in [Thread -> 0 .. MaxKeys] OBVIOUS
    <3>3. hand' \in {hand, [hand EXCEPT ![t] = 0]} OBVIOUS
    <3>4. QED BY <3>1, <3>2, <3>3
  <2>6. lost' \in SUBSET (1 .. MaxKeys) OBVIOUS
  <2>7. pc' \in [Thread -> Label] BY DEF Label
  <2>8. QED BY <2>1, <2>2, <2>3, <2>4, <2>5, <2>6, <2>7
<1>5. QED BY <1>1, <1>2, <1>3, <1>4

\* So do the scan of a WaitAnyObject call and a single wait.
LEMMA WaitTypeOK ==
  ASSUME TypeOK, NEW t \in Thread
  PROVE  ScanTake(t) \/ ScanSkip(t) \/ ScanAgain(t) \/ ScanTimeout(t)
           \/ OneTake(t) \/ OneTimeout(t) => TypeOK'
<1>0. AtWork(t) BY Working
<1> USE DEF AtWork
<1>1. ASSUME ScanTake(t) PROVE TypeOK'
  <2> USE <1>1, <1>0 DEF TypeOK, ScanTake, eventVars, callVars, AtEnd, Ev!Take,
      Release, Finish, Go
  <2>1. \A x \in Thread \ {t} : Fits(x)' BY FitsFrame
  <2>2. Fits(t)' BY DEF Fits, Completing, Carrying
  <2>3. signaled' \in [Unit -> BOOLEAN] OBVIOUS
  <2>4. want' \in [Thread -> SUBSET Unit] OBVIOUS
  <2>5. phase' \in [Unit -> PhaseName] BY DEF PhaseName
  <2>6. objs' \in [Thread -> Seq(Unit)] OBVIOUS
  <2>7. idx' \in [Thread -> Nat \ {0}] OBVIOUS
  <2>8. pc' \in [Thread -> Label] BY DEF Label
  <2>9. QED BY <2>1, <2>2, <2>3, <2>4, <2>5, <2>6, <2>7, <2>8
<1>2. ASSUME ScanSkip(t) PROVE TypeOK'
  <2> USE <1>2, <1>0 DEF TypeOK, ScanSkip, eventVars, callVars, AtEnd
  <2>1. \A x \in Thread \ {t} : Fits(x)' BY FitsFrame
  <2>2. Fits(t)'
    <3>1. idx[t] <= Len(objs[t]) /\ idx'[t] = idx[t] + 1 OBVIOUS
    <3>2. idx'[t] <= Len(objs'[t]) + 1 BY <3>1
    <3>3. pc'[t] = "scan" OBVIOUS
    <3>4. QED BY <3>2, <3>3 DEF Fits, Completing, Carrying
  <2>3. idx' \in [Thread -> Nat \ {0}] OBVIOUS
  <2>4. QED BY <2>1, <2>2, <2>3
<1>3. ASSUME ScanAgain(t) PROVE TypeOK'
  <2> USE <1>3, <1>0 DEF TypeOK, ScanAgain, eventVars, callVars, AtEnd, Go
  <2>1. \A x \in Thread \ {t} : Fits(x)' BY FitsFrame
  <2>2. Fits(t)' BY DEF Fits, Completing, Carrying
  <2>3. idx' \in [Thread -> Nat \ {0}] OBVIOUS
  <2>4. pc' \in [Thread -> Label] BY DEF Label
  <2>5. QED BY <2>1, <2>2, <2>3, <2>4
<1>4. ASSUME ScanTimeout(t) PROVE TypeOK'
  <2> USE <1>4, <1>0 DEF TypeOK, ScanTimeout, eventVars, callVars, AtEnd, Ev!GiveUp,
      Finish, Go
  <2>1. \A x \in Thread \ {t} : Fits(x)' BY FitsFrame
  <2>2. Fits(t)' BY DEF Fits, Completing, Carrying
  <2>3. want' \in [Thread -> SUBSET Unit] OBVIOUS
  <2>4. objs' \in [Thread -> Seq(Unit)] OBVIOUS
  <2>5. idx' \in [Thread -> Nat \ {0}] OBVIOUS
  <2>6. pc' \in [Thread -> Label] BY DEF Label
  <2>7. QED BY <2>1, <2>2, <2>3, <2>4, <2>5, <2>6
<1>5. ASSUME OneTake(t) PROVE TypeOK'
  <2> USE <1>5, <1>0 DEF TypeOK, OneTake, eventVars, callVars, Ev!Take, Release, Go
  <2>1. \A x \in Thread \ {t} : Fits(x)' BY FitsFrame
  <2>2. Fits(t)' BY DEF Fits, Completing, Carrying
  <2>3. signaled' \in [Unit -> BOOLEAN] OBVIOUS
  <2>4. want' \in [Thread -> SUBSET Unit] OBVIOUS
  <2>5. phase' \in [Unit -> PhaseName] BY DEF PhaseName
  <2>6. pc' \in [Thread -> Label] BY DEF Label
  <2>7. QED BY <2>1, <2>2, <2>3, <2>4, <2>5, <2>6
<1>6. ASSUME OneTimeout(t) PROVE TypeOK'
  <2> USE <1>6, <1>0 DEF TypeOK, OneTimeout, eventVars, callVars, Ev!GiveUp, Go
  <2>1. \A x \in Thread \ {t} : Fits(x)' BY FitsFrame
  <2>2. Fits(t)' BY DEF Fits, Completing, Carrying
  <2>3. want' \in [Thread -> SUBSET Unit] OBVIOUS
  <2>4. pc' \in [Thread -> Label] BY DEF Label
  <2>5. QED BY <2>1, <2>2, <2>3, <2>4
<1>7. QED BY <1>1, <1>2, <1>3, <1>4, <1>5, <1>6

\* So does NtCancelIoFile, once it has begun.
LEMMA CancelTypeOK ==
  ASSUME TypeOK, NEW t \in Thread
  PROVE  CancelFill(t) \/ CancelReturn(t) => TypeOK'
<1>0. AtWork(t) BY Working
<1> USE DEF AtWork
<1>1. ASSUME CancelFill(t) PROVE TypeOK'
  <2> USE <1>1, <1>0 DEF TypeOK, CancelFill, eventVars, callVars, Go, Completing
  <2>1. \A x \in Thread \ {t} : Fits(x)' BY FitsFrame
  <2>2. Fits(t)' BY DEF Fits, Completing, Carrying
  <2>3. iosb' \in [Unit -> {"none", "pending", "success", "cancelled"}] OBVIOUS
  <2>4. pc' \in [Thread -> Label] BY DEF Label
  <2>5. QED BY <2>1, <2>2, <2>3, <2>4
<1>2. ASSUME CancelReturn(t) PROVE TypeOK'
  <2> USE <1>2, <1>0 DEF TypeOK, CancelReturn, eventVars, callVars, Release, Go
  <2>1. \A x \in Thread \ {t} : Fits(x)' BY FitsFrame
  <2>2. Fits(t)' BY DEF Fits, Completing, Carrying
  <2>3. phase' \in [Unit -> PhaseName] BY DEF PhaseName
  <2>4. pc' \in [Thread -> Label] BY DEF Label
  <2>5. QED BY <2>1, <2>2, <2>3, <2>4
<1>3. QED BY <1>1, <1>2

\* So do the calls of the guest.
LEMMA CallTypeOK ==
  ASSUME TypeOK, NEW t \in Thread
  PROVE  /\ \A u \in Unit :
              ReadCall(t, u) \/ OneCall(t, u) \/ CancelGrab(t, u) => TypeOK'
         /\ \A units \in Arrays : AnyCall(t, units) => TypeOK'
<1>0. AtWork(t) BY Working
<1> USE DEF AtWork
<1>1. ASSUME NEW u \in Unit, ReadCall(t, u) PROVE TypeOK'
  <2> USE <1>1, <1>0 DEF TypeOK, ReadCall, eventVars, callVars, Ev!Reset, Go
  <2>1. \A x \in Thread \ {t} : Fits(x)' BY FitsFrame
  <2>2. Fits(t)' BY DEF Fits, Completing, Carrying
  <2>3. signaled' \in [Unit -> BOOLEAN] OBVIOUS
  <2>4. phase' \in [Unit -> PhaseName] BY DEF PhaseName
  <2>5. iosb' \in [Unit -> {"none", "pending", "success", "cancelled"}] OBVIOUS
  <2>6. buffer' \in [Unit -> 0 .. MaxKeys] OBVIOUS
  <2>7. arg' \in [Thread -> Unit \union {NoUnit}] OBVIOUS
  <2>8. pc' \in [Thread -> Label] BY DEF Label
  <2>9. QED BY <2>1, <2>2, <2>3, <2>4, <2>5, <2>6, <2>7, <2>8
<1>2. ASSUME NEW u \in Unit, OneCall(t, u) PROVE TypeOK'
  <2> USE <1>2, <1>0 DEF TypeOK, OneCall, eventVars, callVars, Ev!Ask, Go
  <2>1. \A x \in Thread \ {t} : Fits(x)' BY FitsFrame
  <2>2. Fits(t)' BY DEF Fits, Completing, Carrying
  <2>3. want' \in [Thread -> SUBSET Unit] OBVIOUS
  <2>4. arg' \in [Thread -> Unit \union {NoUnit}] OBVIOUS
  <2>5. pc' \in [Thread -> Label] BY DEF Label
  <2>6. QED BY <2>1, <2>2, <2>3, <2>4, <2>5
<1>3. ASSUME NEW u \in Unit, CancelGrab(t, u) PROVE TypeOK'
  <2> USE <1>3, <1>0 DEF TypeOK, CancelGrab, eventVars, callVars, Go
  <2>1. \A x \in Thread \ {t} : Fits(x)' BY FitsFrame
  <2>2. Fits(t)' BY DEF Fits, Completing, Carrying
  <2>3. arg' \in [Thread -> Unit \union {NoUnit}] OBVIOUS
  <2>4. req' \in [Thread -> Unit \union {NoUnit}] OBVIOUS
  <2>5. slot' \in Unit \union {NoUnit} OBVIOUS
  <2>6. pc' \in [Thread -> Label] BY DEF Label
  <2>7. QED BY <2>1, <2>2, <2>3, <2>4, <2>5, <2>6
<1>4. ASSUME NEW units \in Arrays, AnyCall(t, units) PROVE TypeOK'
  <2> USE <1>4, <1>0 DEF TypeOK, AnyCall, eventVars, callVars, Ev!Ask, Go
  <2>1. \A x \in Thread \ {t} : Fits(x)' BY FitsFrame
  <2>2. Fits(t)' BY DEF Fits, Completing, Carrying
  <2>3. want' \in [Thread -> SUBSET Unit]
    <3>1. units \in Seq(Unit) BY KbdAssumption
    <3>2. {units[i] : i \in DOMAIN units} \subseteq Unit BY <3>1
    <3>3. QED BY <3>2
  <2>4. objs' \in [Thread -> Seq(Unit)] BY KbdAssumption
  <2>5. pc' \in [Thread -> Label] BY DEF Label
  <2>6. QED BY <2>1, <2>2, <2>3, <2>4, <2>5
<1>5. QED BY <1>1, <1>2, <1>3, <1>4

\* The buffers, slots and threads of the keyboard have their types, and a
\* thread has a request or a key in hand just where the code copied one
\* (io.c:366-551 and 710-750).
THEOREM TypeCorrect == Spec => []TypeOK
<1>1. Init => TypeOK
  <2> SUFFICES ASSUME Init PROVE TypeOK
    OBVIOUS
  <2>1. \A t \in Thread : Fits(t) BY DEF Init, Fits, Completing, Carrying
  <2>2. QED BY <2>1, KbdAssumption DEF Init, TypeOK, Label, PhaseName
<1>2. TypeOK /\ [Next]_vars => TypeOK'
  <2> SUFFICES ASSUME TypeOK, [Next]_vars PROVE TypeOK'
    OBVIOUS
  <2>1. CASE UNCHANGED vars
    <3>1. \A x \in Thread : Fits(x)' BY <2>1, FitsFrame DEF vars, TypeOK
    <3>2. QED BY <2>1, <3>1 DEF vars, TypeOK
  <2>2. CASE TypeKey
    <3>1. \A x \in Thread : Fits(x)'
      BY <2>2, FitsFrame DEF TypeKey, callVars, TypeOK
    <3>2. QED BY <2>2, <3>1, KbdAssumption DEF TypeKey, eventVars, callVars, TypeOK
  <2>3. CASE \E t \in Thread : Begin(t) \/ Proceed(t)
    BY <2>3, ReadTypeOK, PumpTypeOK, WaitTypeOK, CancelTypeOK, CallTypeOK
    DEF Begin, Proceed
  <2>4. QED BY <2>1, <2>2, <2>3 DEF Next
<1>3. QED BY <1>1, <1>2, PTL DEF Spec

-----------------------------------------------------------------------------
(* What a thread and a unit have to do with each other.                    *)

\* Threads in NtReadFile.
ReadLabel == {"rd_poll", "rd_read", "rd_park", "rd_pend", "rd_fill", "rd_signal"}

Reading(t, u) == pc[t] \in ReadLabel /\ arg[t] = u

\* Before the call has found a byte or parked its request.
Fresh(t) == pc[t] \in {"rd_poll", "rd_read", "rd_park"}

\* Neither the slot nor a thread that completes requests has that of the unit.
Unclaimed(u) == slot # u /\ \A t \in Thread : ~Claimed(t, u)

\* No thread is in NtCancelIoFile with a request in hand.
Uncancelled ==
  \A t \in Thread : pc[t] \notin {"cn_fill", "cn_signal", "cn_done"}

\* A unit is read by one call at a time, which is of the caller that waits.
ReadsAlone ==
  \A t \in Thread, u \in Unit : Reading(t, u) =>
    /\ phase[u] = "calling"
    /\ \A x \in Thread \ {t} : ~Reading(x, u)

\* Until it parks its request or finds a byte, nobody knows of it.
FreshIsUnclaimed ==
  \A t \in Thread : Fresh(t) => Unclaimed(arg[t]) /\ ~signaled[arg[t]]

\* NtReadFile delivers to its own request.
OwnRequest == \A t \in Thread : pc[t] \in {"rd_fill", "rd_signal"} => req[t] = arg[t]

\* The event is set last.
SignalIsLast == \A u \in Unit : signaled[u] => Unclaimed(u)

\* What the steps of a guest that does not cancel keep, all parts together.
Requests ==
  /\ Uncancelled /\ ReadsAlone /\ FreshIsUnclaimed /\ OwnRequest /\ SignalIsLast
  /\ OneCompletion /\ NoWriteAfterRelease /\ SlotIsOpen

-----------------------------------------------------------------------------
(* Steps that change nothing between a thread and a unit.                  *)

\* No event is set, no request is claimed, parked or released.
Quiet ==
  /\ UNCHANGED <<slot, phase>>
  /\ \A u \in Unit : signaled'[u] => signaled[u]
  /\ \A x \in Thread :
       /\ pc'[x] \notin {"cn_fill", "cn_signal", "cn_done"}
       /\ pc'[x] \in ReadLabel => pc[x] \in ReadLabel /\ arg'[x] = arg[x]
       /\ Fresh(x)' => Fresh(x)
       /\ pc'[x] \in {"rd_fill", "rd_signal"} => pc[x] \in {"rd_fill", "rd_signal"}
       /\ pc'[x] \in Completing => pc[x] \in Completing /\ req'[x] = req[x]

\* Such a step keeps all that is said of requests.
LEMMA QuietStep ==
  ASSUME TypeOK, Requests, Quiet
  PROVE  Requests'
<1> USE DEF Quiet, Requests
<1>1. Uncancelled' BY DEF Uncancelled
<1>2. ReadsAlone' BY DEF ReadsAlone, Reading
<1>3. FreshIsUnclaimed'
  <2> SUFFICES ASSUME NEW x \in Thread, Fresh(x)'
               PROVE  Unclaimed(arg[x])' /\ ~signaled'[arg'[x]]
    BY DEF FreshIsUnclaimed
  <2>1. Fresh(x) /\ arg'[x] = arg[x] /\ arg[x] \in Unit
    BY Working DEF Fresh, ReadLabel, AtWork
  <2>2. QED BY <2>1 DEF FreshIsUnclaimed, Unclaimed, Claimed
<1>4. OwnRequest' BY DEF OwnRequest, ReadLabel, Completing
<1>5. SignalIsLast' BY DEF SignalIsLast, Unclaimed, Claimed
<1>6. OneCompletion' BY DEF OneCompletion, Claimed
<1>7. NoWriteAfterRelease' BY DEF NoWriteAfterRelease
<1>8. SlotIsOpen' BY DEF SlotIsOpen
<1>9. QED BY <1>1, <1>2, <1>3, <1>4, <1>5, <1>6, <1>7, <1>8

\* Calls to wait, looks and polls, a key that is read, and the end of a wait
\* that took nothing are quiet; so is the delivery of a key, which was claimed.
LEMMA QuietActions ==
  ASSUME TypeOK, Requests, NEW t \in Thread
  PROVE  /\ \A u \in Unit : OneCall(t, u) => Quiet
         /\ \A units \in Arrays : AnyCall(t, units) => Quiet
         /\ \/ Fill(t) \/ ReadPoll(t) \/ PumpLook(t) \/ PumpPoll(t) \/ PumpRead(t)
            \/ ScanSkip(t) \/ ScanAgain(t) \/ ScanTimeout(t) \/ OneTimeout(t)
            => Quiet
<1> USE DEF TypeOK, Requests, Uncancelled, Quiet, ReadLabel, Fresh, Completing,
        eventVars, callVars, Go
<1>1. ASSUME NEW u \in Unit, OneCall(t, u) PROVE Quiet BY <1>1 DEF OneCall, Ev!Ask
<1>2. ASSUME NEW units \in Arrays, AnyCall(t, units) PROVE Quiet
  BY <1>2 DEF AnyCall, Ev!Ask
<1>3. ASSUME Fill(t) PROVE Quiet BY <1>3 DEF Fill
<1>4. ASSUME ReadPoll(t) PROVE Quiet BY <1>4 DEF ReadPoll
<1>5. ASSUME PumpLook(t) PROVE Quiet BY <1>5 DEF PumpLook
<1>6. ASSUME PumpPoll(t) PROVE Quiet BY <1>6 DEF PumpPoll
<1>7. ASSUME PumpRead(t) PROVE Quiet BY <1>7 DEF PumpRead, TakeKey
<1>8. ASSUME ScanSkip(t) PROVE Quiet BY <1>8 DEF ScanSkip
<1>9. ASSUME ScanAgain(t) PROVE Quiet BY <1>9 DEF ScanAgain
<1>10. ASSUME ScanTimeout(t) PROVE Quiet BY <1>10 DEF ScanTimeout, Ev!GiveUp, Finish
<1>11. ASSUME OneTimeout(t) PROVE Quiet BY <1>11 DEF OneTimeout, Ev!GiveUp
<1>12. QED BY <1>1, <1>2, <1>3, <1>4, <1>5, <1>6, <1>7, <1>8, <1>9, <1>10, <1>11

\* NtReadFile keeps it: a request is its own until it parks it.
LEMMA ReadRequests ==
  ASSUME TypeOK, Requests, NEW t \in Thread
  PROVE  /\ \A u \in Unit : ReadCall(t, u) => Requests'
         /\ ReadByte(t) \/ ReadPark(t) \/ ReadPend(t) => Requests'
<1>0. \A x \in Thread : AtWork(x) BY Working
<1> USE DEF AtWork, TypeOK, Requests, Claimed, Completing, eventVars, callVars, Go
<1>1. ASSUME NEW u \in Unit, ReadCall(t, u) PROVE Requests'
  <2> USE <1>0, <1>1 DEF ReadCall, Ev!Reset
  <2>1. Uncancelled' BY DEF Uncancelled
  <2>2. ReadsAlone' BY DEF ReadsAlone, Reading, ReadLabel
  <2>3. FreshIsUnclaimed' BY DEF FreshIsUnclaimed, Fresh, Unclaimed, SlotIsOpen,
      NoWriteAfterRelease
  <2>4. OwnRequest' BY DEF OwnRequest
  <2>5. SignalIsLast' BY DEF SignalIsLast, Unclaimed
  <2>6. OneCompletion' BY DEF OneCompletion
  <2>7. NoWriteAfterRelease' BY DEF NoWriteAfterRelease
  <2>8. SlotIsOpen' BY DEF SlotIsOpen
  <2>9. QED BY <2>1, <2>2, <2>3, <2>4, <2>5, <2>6, <2>7, <2>8
<1>2. ASSUME ReadByte(t) PROVE Requests'
  <2> USE <1>0, <1>2 DEF ReadByte, TakeKey
  <2>1. Uncancelled' BY DEF Uncancelled
  <2>2. ReadsAlone' BY DEF ReadsAlone, Reading, ReadLabel
  <2>3. FreshIsUnclaimed'
    <3> SUFFICES ASSUME NEW x \in Thread, Fresh(x)'
                 PROVE  Unclaimed(arg[x])' /\ ~signaled'[arg'[x]]
      BY DEF FreshIsUnclaimed
    <3>1. Fresh(x) BY DEF Fresh
    <3>2. Unclaimed(arg[x]) /\ ~signaled[arg[x]] /\ arg'[x] = arg[x]
      BY <3>1 DEF FreshIsUnclaimed
    <3>3. \A y \in Thread \ {t} : ~Claimed(y, arg[x])' BY <3>2 DEF Unclaimed
    <3>4. ~Claimed(t, arg[x])'
      <4>1. CASE x = t BY <3>1, <4>1 DEF Fresh
      <4>2. CASE x # t
        BY <3>1, <4>2 DEF Fresh, ReadsAlone, Reading, ReadLabel
      <4>3. QED BY <4>1, <4>2
    <3>5. QED BY <3>2, <3>3, <3>4 DEF Unclaimed
  <2>4. OwnRequest' BY DEF OwnRequest
  <2>5. SignalIsLast' BY DEF SignalIsLast, Unclaimed, FreshIsUnclaimed, Fresh
  <2>6. OneCompletion'
    <3> SUFFICES ASSUME NEW u \in Unit, NEW x \in Thread, Claimed(x, u)'
                 PROVE  slot # u /\ \A y \in Thread \ {x} : ~Claimed(y, u)'
      BY DEF OneCompletion
    <3>1. Unclaimed(arg[t]) /\ arg[t] \in Unit BY DEF FreshIsUnclaimed, Fresh
    <3>2. CASE x = t
      <4>1. u = arg[t] BY <3>2
      <4>2. QED BY <3>1, <3>2, <4>1 DEF Unclaimed
    <3>3. CASE x # t
      <4>1. Claimed(x, u) BY <3>3
      <4>2. u # arg[t] BY <3>1, <4>1 DEF Unclaimed
      <4>3. ~Claimed(t, u)' BY <4>2
      <4>4. slot # u /\ \A y \in Thread \ {x} : ~Claimed(y, u)
        BY <4>1 DEF OneCompletion
      <4>5. \A y \in Thread \ {x, t} : ~Claimed(y, u)' BY <4>4
      <4>6. QED BY <4>3, <4>4, <4>5
    <3>4. QED BY <3>2, <3>3
  <2>7. NoWriteAfterRelease' BY DEF NoWriteAfterRelease, ReadsAlone, Reading, ReadLabel
  <2>8. SlotIsOpen' BY DEF SlotIsOpen
  <2>9. QED BY <2>1, <2>2, <2>3, <2>4, <2>5, <2>6, <2>7, <2>8
<1>3. ASSUME ReadPark(t) PROVE Requests'
  <2> USE <1>0, <1>3 DEF ReadPark
  <2>1. Uncancelled' BY DEF Uncancelled
  <2>2. ReadsAlone' BY DEF ReadsAlone, Reading, ReadLabel
  <2>3. FreshIsUnclaimed' BY DEF FreshIsUnclaimed, Fresh, Unclaimed, ReadsAlone,
      Reading, ReadLabel
  <2>4. OwnRequest' BY DEF OwnRequest
  <2>5. SignalIsLast' BY DEF SignalIsLast, Unclaimed, FreshIsUnclaimed, Fresh
  <2>6. OneCompletion' BY DEF OneCompletion, FreshIsUnclaimed, Fresh, Unclaimed
  <2>7. NoWriteAfterRelease' BY DEF NoWriteAfterRelease
  <2>8. SlotIsOpen' BY DEF SlotIsOpen, ReadsAlone, Reading, ReadLabel
  <2>9. QED BY <2>1, <2>2, <2>3, <2>4, <2>5, <2>6, <2>7, <2>8
<1>4. ASSUME ReadPend(t) PROVE Requests'
  <2> USE <1>0, <1>4 DEF ReadPend
  <2>1. Uncancelled' BY DEF Uncancelled
  <2>2. ReadsAlone' BY DEF ReadsAlone, Reading, ReadLabel
  <2>3. FreshIsUnclaimed' BY DEF FreshIsUnclaimed, Fresh, Unclaimed
  <2>4. OwnRequest' BY DEF OwnRequest
  <2>5. SignalIsLast' BY DEF SignalIsLast, Unclaimed
  <2>6. OneCompletion' BY DEF OneCompletion
  <2>7. NoWriteAfterRelease' BY DEF NoWriteAfterRelease
  <2>8. SlotIsOpen' BY DEF SlotIsOpen
  <2>9. QED BY <2>1, <2>2, <2>3, <2>4, <2>5, <2>6, <2>7, <2>8
<1>5. QED BY <1>1, <1>2, <1>3, <1>4

\* So do the claim of the pump and the signal at the end of a delivery.
LEMMA DeliverRequests ==
  ASSUME TypeOK, Requests, NEW t \in Thread
  PROVE  PumpClaim(t) \/ Signal(t) => Requests'
<1>0. \A x \in Thread : AtWork(x) BY Working
<1> USE DEF AtWork, TypeOK, Requests, Claimed, Completing, eventVars, callVars, Go
<1>1. ASSUME PumpClaim(t) PROVE Requests'
  <2> USE <1>0, <1>1 DEF PumpClaim
  <2>1. Uncancelled' BY DEF Uncancelled
  <2>2. ReadsAlone' BY DEF ReadsAlone, Reading, ReadLabel
  <2>3. FreshIsUnclaimed'
    <3> SUFFICES ASSUME NEW x \in Thread, Fresh(x)'
                 PROVE  Unclaimed(arg[x])' /\ ~signaled'[arg'[x]]
      BY DEF FreshIsUnclaimed
    <3>1. Fresh(x) BY DEF Fresh
    <3>2. Unclaimed(arg[x]) /\ ~signaled[arg[x]] /\ arg'[x] = arg[x] /\ arg[x] \in Unit
      BY <3>1 DEF FreshIsUnclaimed, Fresh
    <3>3. \A y \in Thread \ {t} : ~Claimed(y, arg[x])' BY <3>2 DEF Unclaimed
    <3>4. ~Claimed(t, arg[x])' BY <3>2 DEF Unclaimed
    <3>5. slot' # arg[x] BY <3>2 DEF Unclaimed
    <3>6. QED BY <3>2, <3>3, <3>4, <3>5 DEF Unclaimed
  <2>4. OwnRequest' BY DEF OwnRequest
  <2>5. SignalIsLast' BY DEF SignalIsLast, Unclaimed
  <2>6. OneCompletion'
    <3>1. \A x \in Thread \ {t}, u \in Unit : Claimed(x, u)' <=> Claimed(x, u) OBVIOUS
    <3>2. \A u \in Unit : Claimed(t, u)' => u = slot OBVIOUS
    <3>3. slot' = NoUnit OBVIOUS
    <3>4. QED BY <3>1, <3>2, <3>3 DEF OneCompletion
  <2>7. NoWriteAfterRelease' BY DEF NoWriteAfterRelease, SlotIsOpen
  <2>8. SlotIsOpen' BY DEF SlotIsOpen
  <2>9. QED BY <2>1, <2>2, <2>3, <2>4, <2>5, <2>6, <2>7, <2>8
<1>2. ASSUME Signal(t) PROVE Requests'
  <2> USE <1>0, <1>2 DEF Signal, Ev!Set
  <2>1. Uncancelled' BY DEF Uncancelled
  <2>2. ReadsAlone'
    <3> SUFFICES ASSUME NEW x \in Thread, NEW u \in Unit, Reading(x, u)'
                 PROVE  phase'[u] = "calling" /\ \A y \in Thread \ {x} : ~Reading(y, u)'
      BY DEF ReadsAlone
    <3>1. x # t BY DEF Reading, ReadLabel
    <3>2. Reading(x, u) BY <3>1 DEF Reading
    <3>3. pc[t] = "rd_signal" => req[t] # u
      BY <3>1, <3>2 DEF OwnRequest, ReadsAlone, Reading, ReadLabel
    <3>4. phase'[u] = "calling" BY <3>2, <3>3 DEF ReadsAlone
    <3>5. \A y \in Thread \ {x} : ~Reading(y, u)'
      BY <3>2 DEF ReadsAlone, Reading, ReadLabel
    <3>6. QED BY <3>4, <3>5
  <2>3. FreshIsUnclaimed' BY DEF FreshIsUnclaimed, Fresh, Unclaimed, Uncancelled
  <2>4. OwnRequest' BY DEF OwnRequest
  <2>5. SignalIsLast' BY DEF SignalIsLast, Unclaimed, OneCompletion, Uncancelled
  <2>6. OneCompletion' BY DEF OneCompletion
  <2>7. NoWriteAfterRelease' BY DEF NoWriteAfterRelease, OneCompletion, Uncancelled
  <2>8. SlotIsOpen' BY DEF SlotIsOpen, OneCompletion, Uncancelled
  <2>9. QED BY <2>1, <2>2, <2>3, <2>4, <2>5, <2>6, <2>7, <2>8
<1>3. QED BY <1>1, <1>2

\* So does the end of a wait, where the guest gets its request back.
LEMMA TakeRequests ==
  ASSUME TypeOK, Requests, NEW t \in Thread
  PROVE  ScanTake(t) \/ OneTake(t) => Requests'
<1>0. \A x \in Thread : AtWork(x) BY Working
<1> USE DEF AtWork, TypeOK, Requests, Claimed, Completing, eventVars, callVars, Go
<1>1. ASSUME ScanTake(t) PROVE Requests'
  <2> USE <1>0, <1>1 DEF ScanTake, Ev!Take, Release, Finish
  <2>1. Uncancelled' BY DEF Uncancelled
  <2>2. ReadsAlone' BY DEF ReadsAlone, Reading, ReadLabel
  <2>3. FreshIsUnclaimed' BY DEF FreshIsUnclaimed, Fresh, Unclaimed
  <2>4. OwnRequest' BY DEF OwnRequest
  <2>5. SignalIsLast' BY DEF SignalIsLast, Unclaimed
  <2>6. OneCompletion' BY DEF OneCompletion
  <2>7. NoWriteAfterRelease' BY DEF NoWriteAfterRelease, SignalIsLast, Unclaimed
  <2>8. SlotIsOpen' BY DEF SlotIsOpen, SignalIsLast, Unclaimed
  <2>9. QED BY <2>1, <2>2, <2>3, <2>4, <2>5, <2>6, <2>7, <2>8
<1>2. ASSUME OneTake(t) PROVE Requests'
  <2> USE <1>0, <1>2 DEF OneTake, Ev!Take, Release
  <2>1. Uncancelled' BY DEF Uncancelled
  <2>2. ReadsAlone' BY DEF ReadsAlone, Reading, ReadLabel
  <2>3. FreshIsUnclaimed' BY DEF FreshIsUnclaimed, Fresh, Unclaimed
  <2>4. OwnRequest' BY DEF OwnRequest
  <2>5. SignalIsLast' BY DEF SignalIsLast, Unclaimed
  <2>6. OneCompletion' BY DEF OneCompletion
  <2>7. NoWriteAfterRelease' BY DEF NoWriteAfterRelease, SignalIsLast, Unclaimed
  <2>8. SlotIsOpen' BY DEF SlotIsOpen, SignalIsLast, Unclaimed
  <2>9. QED BY <2>1, <2>2, <2>3, <2>4, <2>5, <2>6, <2>7, <2>8
<1>3. QED BY <1>1, <1>2

\* Every step keeps it, if the guest cancels nothing.
LEMMA RequestsStep ==
  ASSUME "cancel" \notin Calls, TypeOK, Requests, [Next]_vars
  PROVE  Requests'
<1>1. CASE UNCHANGED vars \/ TypeKey
  <2>1. Quiet
    BY <1>1 DEF Quiet, TypeKey, vars, eventVars, callVars, Requests, Uncancelled, Fresh
  <2>2. QED BY <2>1, QuietStep
<1>2. ASSUME NEW t \in Thread, Begin(t) PROVE Requests'
  <2>1. \A u \in Unit : ~CancelGrab(t, u) BY DEF CancelGrab
  <2>2. QED BY <1>2, <2>1, QuietActions, QuietStep, ReadRequests, DeliverRequests,
       TakeRequests DEF Begin
<1>3. ASSUME NEW t \in Thread, Proceed(t) PROVE Requests'
  <2>1. ~CancelFill(t) /\ ~CancelReturn(t)
    BY DEF CancelFill, CancelReturn, Requests, Uncancelled
  <2>2. QED BY <1>3, <2>1, QuietActions, QuietStep, ReadRequests, DeliverRequests,
       TakeRequests DEF Proceed
<1>4. QED BY <1>1, <1>2, <1>3 DEF Next

\* The strengthening of the three theorems below: what the threads in NtReadFile,
\* the pumps and the slot have to do with a request (io.c:433-551).
THEOREM RequestsAreKept ==
  ASSUME "cancel" \notin Calls
  PROVE  Spec => []Requests
<1>1. Init => Requests
  BY KbdAssumption DEF Init, Requests, Uncancelled, ReadsAlone, Reading, ReadLabel,
     FreshIsUnclaimed, Fresh, OwnRequest, SignalIsLast, OneCompletion,
     NoWriteAfterRelease, SlotIsOpen, Claimed, Completing
<1>2. TypeOK /\ Requests /\ [Next]_vars => Requests' BY RequestsStep
<1>3. QED BY <1>1, <1>2, TypeCorrect, PTL DEF Spec

\* At most one of the slot, the pumps and NtReadFile is about to complete a
\* request, however many pumps race for a byte (nl_kbd_pump, io.c:447-487).
THEOREM CompletedOnce ==
  ASSUME "cancel" \notin Calls
  PROVE  Spec => []OneCompletion
<1>1. Requests => OneCompletion BY DEF Requests
<1>2. QED BY <1>1, RequestsAreKept, PTL

\* Buffers are filled only while their caller waits for them (deliver_kbd_event,
\* io.c:433-445).  It takes a guest that does not cancel: with NtCancelIoFile a
\* pump that has claimed the request still fills it, see the run kbd_cancel_race.
THEOREM WritesWhileOwned ==
  ASSUME "cancel" \notin Calls
  PROVE  Spec => []NoWriteAfterRelease
<1>1. Requests => NoWriteAfterRelease BY DEF Requests
<1>2. QED BY <1>1, RequestsAreKept, PTL

\* What is parked in g_stdin_kbd is a read that is not over (io.c:539-551).
THEOREM ParkedIsOpen ==
  ASSUME "cancel" \notin Calls
  PROVE  Spec => []SlotIsOpen
<1>1. Requests => SlotIsOpen BY DEF Requests
<1>2. QED BY <1>1, RequestsAreKept, PTL

-----------------------------------------------------------------------------
(* A guest with one thread, which may cancel.                              *)

\* One thread reads, waits and cancels.
Alone == \A a, b \in Thread : a = b

\* What the program counter of a thread says of the requests, when it is the
\* only one.
InService(t) ==
  /\ \A u \in Unit : phase[u] = "calling" => Reading(t, u)
  /\ pc[t] \in ReadLabel => phase[arg[t]] = "calling"
  /\ Fresh(t) => slot # arg[t]
  /\ pc[t] \in {"rd_poll", "rd_read", "rd_park", "rd_pend"} => ~signaled[arg[t]]
  /\ pc[t] \in {"rd_fill", "rd_signal"} => req[t] = arg[t] /\ slot # arg[t]
  /\ pc[t] \in {"pm_poll", "pm_read", "pm_claim"} => slot # NoUnit
  /\ pc[t] \in {"pm_fill", "pm_signal", "cn_fill", "cn_signal"} =>
       phase[req[t]] # "idle"
  /\ pc[t] \in {"pm_fill", "pm_signal", "cn_fill", "cn_signal", "cn_done"} =>
       slot = NoUnit
  /\ pc[t] = "pm_signal" => iosb[req[t]] = "success"
  /\ pc[t] = "cn_signal" => iosb[req[t]] = "cancelled"

\* A parked request is of a read that is not over, and no event says otherwise.
Parked == slot # NoUnit => phase[slot] # "idle" /\ ~signaled[slot]

\* All that holds with one thread, which may cancel.
OneAtATime ==
  /\ \A t \in Thread : InService(t)
  /\ Parked
  /\ EventMeansDone
  /\ NoKeyLost

\* In a wait, and between two calls, a thread has nothing to do with requests.
LEMMA Elsewhere ==
  ASSUME NEW t, InService(t), pc[t] \notin ReadLabel,
         pc'[t] \in {"idle", "scan", "one", "pm_look"},
         \A u \in Unit : phase'[u] = "calling" => phase[u] = "calling"
  PROVE  InService(t)'
BY DEF InService, Reading, ReadLabel, Fresh

\* Then no request is being read.
LEMMA NobodyReads ==
  ASSUME NEW t, InService(t), pc[t] \notin ReadLabel
  PROVE  \A v \in Unit : phase[v] # "calling"
BY DEF InService, Reading

\* NtReadFile and the delivery of a key keep all of it.
LEMMA ReadOneAtATime ==
  ASSUME TypeOK, OneAtATime, NEW t \in Thread, \A x \in Thread : x = t
  PROVE  Fill(t) \/ Signal(t) \/ ReadPoll(t) \/ ReadByte(t) \/ ReadPark(t)
           \/ ReadPend(t) => OneAtATime'
<1>0. AtWork(t) BY Working
<1> USE DEF AtWork, TypeOK, OneAtATime, Completing, Carrying, eventVars, callVars, Go
<1>1. ASSUME Fill(t) PROVE OneAtATime'
  <2> USE <1>0, <1>1 DEF Fill
  <2>1. InService(t)' BY DEF InService, Reading, ReadLabel, Fresh, Parked, PhaseName
  <2>2. Parked' BY DEF InService, Reading, ReadLabel, Fresh, Parked
  <2>3. EventMeansDone' BY DEF InService, Reading, ReadLabel, Fresh, EventMeansDone
  <2>4. NoKeyLost' BY DEF InService, NoKeyLost
  <2>5. QED BY <2>1, <2>2, <2>3, <2>4
<1>2. ASSUME Signal(t) PROVE OneAtATime'
  <2> USE <1>0, <1>2 DEF Signal, Ev!Set
  <2>1. InService(t)' BY DEF InService, Reading, ReadLabel, Fresh, Parked, PhaseName
  <2>2. Parked' BY DEF InService, Reading, ReadLabel, Fresh, Parked
  <2>3. EventMeansDone' BY DEF InService, Reading, ReadLabel, Fresh, EventMeansDone
  <2>4. NoKeyLost' BY DEF InService, NoKeyLost
  <2>5. QED BY <2>1, <2>2, <2>3, <2>4
<1>3. ASSUME ReadPoll(t) PROVE OneAtATime'
  <2> USE <1>0, <1>3 DEF ReadPoll
  <2>1. InService(t)' BY DEF InService, Reading, ReadLabel, Fresh, Parked, PhaseName
  <2>2. Parked' BY DEF InService, Reading, ReadLabel, Fresh, Parked
  <2>3. EventMeansDone' BY DEF InService, Reading, ReadLabel, Fresh, EventMeansDone
  <2>4. NoKeyLost' BY DEF InService, NoKeyLost
  <2>5. QED BY <2>1, <2>2, <2>3, <2>4
<1>4. ASSUME ReadByte(t) PROVE OneAtATime'
  <2> USE <1>0, <1>4 DEF ReadByte, TakeKey
  <2>1. InService(t)' BY DEF InService, Reading, ReadLabel, Fresh, Parked, PhaseName
  <2>2. Parked' BY DEF InService, Reading, ReadLabel, Fresh, Parked
  <2>3. EventMeansDone' BY DEF InService, Reading, ReadLabel, Fresh, EventMeansDone
  <2>4. NoKeyLost' BY DEF InService, NoKeyLost
  <2>5. QED BY <2>1, <2>2, <2>3, <2>4
<1>5. ASSUME ReadPark(t) PROVE OneAtATime'
  <2> USE <1>0, <1>5 DEF ReadPark
  <2>1. InService(t)' BY DEF InService, Reading, ReadLabel, Fresh, Parked, PhaseName
  <2>2. Parked' BY DEF InService, Reading, ReadLabel, Fresh, Parked
  <2>3. EventMeansDone' BY DEF InService, Reading, ReadLabel, Fresh, EventMeansDone
  <2>4. NoKeyLost' BY DEF InService, NoKeyLost
  <2>5. QED BY <2>1, <2>2, <2>3, <2>4
<1>6. ASSUME ReadPend(t) PROVE OneAtATime'
  <2> USE <1>0, <1>6 DEF ReadPend
  <2>1. InService(t)' BY DEF InService, Reading, ReadLabel, Fresh, Parked, PhaseName
  <2>2. Parked' BY DEF InService, Reading, ReadLabel, Fresh, Parked
  <2>3. EventMeansDone' BY DEF InService, Reading, ReadLabel, Fresh, EventMeansDone
  <2>4. NoKeyLost' BY DEF InService, NoKeyLost
  <2>5. QED BY <2>1, <2>2, <2>3, <2>4
<1>7. QED BY <1>1, <1>2, <1>3, <1>4, <1>5, <1>6

\* So does nl_kbd_pump.
LEMMA PumpOneAtATime ==
  ASSUME TypeOK, OneAtATime, NEW t \in Thread, \A x \in Thread : x = t
  PROVE  PumpLook(t) \/ PumpPoll(t) \/ PumpRead(t) \/ PumpClaim(t) => OneAtATime'
<1>0. AtWork(t) BY Working
<1> USE DEF AtWork, TypeOK, OneAtATime, Completing, Carrying, eventVars, callVars, Go
<1>1. ASSUME PumpLook(t) PROVE OneAtATime'
  <2> USE <1>0, <1>1 DEF PumpLook
  <2>1. InService(t)'
    <3>1. CASE pc'[t] = "scan" BY <3>1, Elsewhere DEF ReadLabel
    <3>2. CASE pc'[t] = "pm_poll" /\ slot # NoUnit
      BY <3>2 DEF InService, Reading, ReadLabel, Fresh
    <3>3. QED BY <3>1, <3>2 DEF InService
  <2>2. Parked' BY DEF InService, Reading, ReadLabel, Fresh, Parked
  <2>3. EventMeansDone' BY DEF InService, Reading, ReadLabel, Fresh, EventMeansDone
  <2>4. NoKeyLost' BY DEF InService, NoKeyLost
  <2>5. QED BY <2>1, <2>2, <2>3, <2>4
<1>2. ASSUME PumpPoll(t) PROVE OneAtATime'
  <2> USE <1>0, <1>2 DEF PumpPoll
  <2>1. InService(t)'
    <3>1. CASE pc'[t] = "scan" BY <3>1, Elsewhere DEF ReadLabel
    <3>2. CASE pc'[t] = "pm_read" /\ slot # NoUnit
      BY <3>2 DEF InService, Reading, ReadLabel, Fresh
    <3>3. QED BY <3>1, <3>2 DEF InService
  <2>2. Parked' BY DEF InService, Reading, ReadLabel, Fresh, Parked
  <2>3. EventMeansDone' BY DEF InService, Reading, ReadLabel, Fresh, EventMeansDone
  <2>4. NoKeyLost' BY DEF InService, NoKeyLost
  <2>5. QED BY <2>1, <2>2, <2>3, <2>4
<1>3. ASSUME PumpRead(t) PROVE OneAtATime'
  <2> USE <1>0, <1>3 DEF PumpRead, TakeKey
  <2>1. InService(t)'
    <3>1. pc'[t] \in {"scan", "pm_claim"} /\ UNCHANGED <<slot, phase, arg>> OBVIOUS
    <3>2. slot # NoUnit /\ \A u \in Unit : phase[u] # "calling"
      BY DEF InService, Reading, ReadLabel
    <3>3. QED BY <3>1, <3>2 DEF InService, ReadLabel, Fresh
  <2>2. Parked' BY DEF InService, Reading, ReadLabel, Fresh, Parked
  <2>3. EventMeansDone' BY DEF InService, Reading, ReadLabel, Fresh, EventMeansDone
  <2>4. NoKeyLost' BY DEF InService, NoKeyLost
  <2>5. QED BY <2>1, <2>2, <2>3, <2>4
<1>4. ASSUME PumpClaim(t) PROVE OneAtATime'
  <2> USE <1>0, <1>4 DEF PumpClaim
  <2>1. InService(t)'
    <3>1. slot # NoUnit /\ \A u \in Unit : phase[u] # "calling"
      BY DEF InService, Reading, ReadLabel
    <3>2. /\ pc'[t] = "pm_fill" /\ req'[t] = slot /\ slot' = NoUnit /\ phase' = phase
      BY <3>1
    <3>3. QED BY <3>1, <3>2 DEF InService, ReadLabel, Fresh, Parked
  <2>2. Parked' BY DEF InService, Reading, ReadLabel, Fresh, Parked
  <2>3. EventMeansDone' BY DEF InService, Reading, ReadLabel, Fresh, EventMeansDone
  <2>4. NoKeyLost' BY DEF InService, NoKeyLost
  <2>5. QED BY <2>1, <2>2, <2>3, <2>4
<1>5. QED BY <1>1, <1>2, <1>3, <1>4

\* So do the waits.
LEMMA WaitOneAtATime ==
  ASSUME TypeOK, OneAtATime, NEW t \in Thread, \A x \in Thread : x = t
  PROVE  ScanTake(t) \/ ScanSkip(t) \/ ScanAgain(t) \/ ScanTimeout(t) \/ OneTake(t)
           \/ OneTimeout(t) => OneAtATime'
<1>0. AtWork(t) BY Working
<1> USE DEF AtWork, TypeOK, OneAtATime, Completing, Carrying, eventVars, callVars, Go
<1>1. ASSUME ScanTake(t) PROVE OneAtATime'
  <2> USE <1>0, <1>1 DEF ScanTake, Ev!Take, Release, Finish, AtEnd
  <2>1. InService(t)'
    <3>1. pc[t] \notin ReadLabel /\ pc'[t] \in {"idle", "scan", "one", "pm_look"}
      BY DEF ReadLabel
    <3>2. \A v \in Unit : phase'[v] = "calling" => phase[v] = "calling" OBVIOUS
    <3>3. QED BY <3>1, <3>2, Elsewhere
  <2>2. Parked' BY DEF InService, Reading, ReadLabel, Fresh, Parked
  <2>3. EventMeansDone' BY DEF InService, Reading, ReadLabel, Fresh, EventMeansDone
  <2>4. NoKeyLost' BY DEF InService, NoKeyLost
  <2>5. QED BY <2>1, <2>2, <2>3, <2>4
<1>2. ASSUME ScanSkip(t) PROVE OneAtATime'
  <2> USE <1>0, <1>2 DEF ScanSkip, AtEnd
  <2>1. InService(t)'
    <3>1. pc[t] \notin ReadLabel /\ pc'[t] \in {"idle", "scan", "one", "pm_look"}
      BY DEF ReadLabel
    <3>2. \A v \in Unit : phase'[v] = "calling" => phase[v] = "calling" OBVIOUS
    <3>3. QED BY <3>1, <3>2, Elsewhere
  <2>2. Parked' BY DEF InService, Reading, ReadLabel, Fresh, Parked
  <2>3. EventMeansDone' BY DEF InService, Reading, ReadLabel, Fresh, EventMeansDone
  <2>4. NoKeyLost' BY DEF InService, NoKeyLost
  <2>5. QED BY <2>1, <2>2, <2>3, <2>4
<1>3. ASSUME ScanAgain(t) PROVE OneAtATime'
  <2> USE <1>0, <1>3 DEF ScanAgain, AtEnd
  <2>1. InService(t)'
    <3>1. pc[t] \notin ReadLabel /\ pc'[t] \in {"idle", "scan", "one", "pm_look"}
      BY DEF ReadLabel
    <3>2. \A v \in Unit : phase'[v] = "calling" => phase[v] = "calling" OBVIOUS
    <3>3. QED BY <3>1, <3>2, Elsewhere
  <2>2. Parked' BY DEF InService, Reading, ReadLabel, Fresh, Parked
  <2>3. EventMeansDone' BY DEF InService, Reading, ReadLabel, Fresh, EventMeansDone
  <2>4. NoKeyLost' BY DEF InService, NoKeyLost
  <2>5. QED BY <2>1, <2>2, <2>3, <2>4
<1>4. ASSUME ScanTimeout(t) PROVE OneAtATime'
  <2> USE <1>0, <1>4 DEF ScanTimeout, Ev!GiveUp, Finish, AtEnd
  <2>1. InService(t)'
    <3>1. pc[t] \notin ReadLabel /\ pc'[t] \in {"idle", "scan", "one", "pm_look"}
      BY DEF ReadLabel
    <3>2. \A v \in Unit : phase'[v] = "calling" => phase[v] = "calling" OBVIOUS
    <3>3. QED BY <3>1, <3>2, Elsewhere
  <2>2. Parked' BY DEF InService, Reading, ReadLabel, Fresh, Parked
  <2>3. EventMeansDone' BY DEF InService, Reading, ReadLabel, Fresh, EventMeansDone
  <2>4. NoKeyLost' BY DEF InService, NoKeyLost
  <2>5. QED BY <2>1, <2>2, <2>3, <2>4
<1>5. ASSUME OneTake(t) PROVE OneAtATime'
  <2> USE <1>0, <1>5 DEF OneTake, Ev!Take, Release
  <2>1. InService(t)'
    <3>1. pc[t] \notin ReadLabel /\ pc'[t] \in {"idle", "scan", "one", "pm_look"}
      BY DEF ReadLabel
    <3>2. \A v \in Unit : phase'[v] = "calling" => phase[v] = "calling" OBVIOUS
    <3>3. QED BY <3>1, <3>2, Elsewhere
  <2>2. Parked' BY DEF InService, Reading, ReadLabel, Fresh, Parked
  <2>3. EventMeansDone' BY DEF InService, Reading, ReadLabel, Fresh, EventMeansDone
  <2>4. NoKeyLost' BY DEF InService, NoKeyLost
  <2>5. QED BY <2>1, <2>2, <2>3, <2>4
<1>6. ASSUME OneTimeout(t) PROVE OneAtATime'
  <2> USE <1>0, <1>6 DEF OneTimeout, Ev!GiveUp
  <2>1. InService(t)'
    <3>1. pc[t] \notin ReadLabel /\ pc'[t] \in {"idle", "scan", "one", "pm_look"}
      BY DEF ReadLabel
    <3>2. \A v \in Unit : phase'[v] = "calling" => phase[v] = "calling" OBVIOUS
    <3>3. QED BY <3>1, <3>2, Elsewhere
  <2>2. Parked' BY DEF InService, Reading, ReadLabel, Fresh, Parked
  <2>3. EventMeansDone' BY DEF InService, Reading, ReadLabel, Fresh, EventMeansDone
  <2>4. NoKeyLost' BY DEF InService, NoKeyLost
  <2>5. QED BY <2>1, <2>2, <2>3, <2>4
<1>7. QED BY <1>1, <1>2, <1>3, <1>4, <1>5, <1>6

\* So does NtCancelIoFile.
LEMMA CancelOneAtATime ==
  ASSUME TypeOK, OneAtATime, NEW t \in Thread, \A x \in Thread : x = t
  PROVE  CancelFill(t) \/ CancelReturn(t) => OneAtATime'
<1>0. AtWork(t) BY Working
<1> USE DEF AtWork, TypeOK, OneAtATime, Completing, Carrying, eventVars, callVars, Go
<1>1. ASSUME CancelFill(t) PROVE OneAtATime'
  <2> USE <1>0, <1>1 DEF CancelFill
  <2>1. InService(t)'
    <3>1. pc'[t] = "cn_signal" /\ iosb'[req[t]] = "cancelled" /\ req[t] \in Unit OBVIOUS
    <3>2. UNCHANGED <<slot, phase, req>> OBVIOUS
    <3>3. QED BY <3>1, <3>2 DEF InService, Reading, ReadLabel, Fresh
  <2>2. Parked' BY DEF InService, Reading, ReadLabel, Fresh, Parked
  <2>3. EventMeansDone' BY DEF InService, Reading, ReadLabel, Fresh, EventMeansDone
  <2>4. NoKeyLost' BY DEF InService, NoKeyLost
  <2>5. QED BY <2>1, <2>2, <2>3, <2>4
<1>2. ASSUME CancelReturn(t) PROVE OneAtATime'
  <2> USE <1>0, <1>2 DEF CancelReturn, Release
  <2>1. InService(t)'
    <3>1. pc[t] \notin ReadLabel /\ pc'[t] \in {"idle", "scan", "one", "pm_look"}
      BY DEF ReadLabel
    <3>2. \A v \in Unit : phase'[v] = "calling" => phase[v] = "calling" OBVIOUS
    <3>3. QED BY <3>1, <3>2, Elsewhere
  <2>2. Parked' BY DEF InService, Reading, ReadLabel, Fresh, Parked
  <2>3. EventMeansDone' BY DEF InService, Reading, ReadLabel, Fresh, EventMeansDone
  <2>4. NoKeyLost' BY DEF InService, NoKeyLost
  <2>5. QED BY <2>1, <2>2, <2>3, <2>4
<1>3. QED BY <1>1, <1>2

\* So do the calls of the guest.
LEMMA CallOneAtATime ==
  ASSUME TypeOK, OneAtATime, NEW t \in Thread, \A x \in Thread : x = t
  PROVE  /\ \A u \in Unit :
              ReadCall(t, u) \/ OneCall(t, u) \/ CancelGrab(t, u) => OneAtATime'
         /\ \A units \in Arrays : AnyCall(t, units) => OneAtATime'
<1>0. AtWork(t) BY Working
<1> USE DEF AtWork, TypeOK, OneAtATime, Completing, Carrying, eventVars, callVars, Go
<1>1. ASSUME NEW u \in Unit, ReadCall(t, u) PROVE OneAtATime'
  <2> USE <1>0, <1>1 DEF ReadCall, Ev!Reset
  <2>1. InService(t)'
    <3>1. /\ pc'[t] = "rd_poll" /\ arg'[t] = u /\ phase'[u] = "calling"
          /\ ~signaled'[u] /\ slot # u /\ slot' = slot
      BY DEF Parked
    <3>2. \A v \in Unit : phase'[v] = "calling" => v = u
      <4>1. pc[t] \notin ReadLabel BY DEF ReadLabel
      <4>2. \A v \in Unit : phase[v] # "calling" BY <4>1, NobodyReads
      <4>3. QED BY <4>2
    <3>3. QED BY <3>1, <3>2 DEF InService, Reading, ReadLabel, Fresh
  <2>2. Parked' BY DEF InService, Reading, ReadLabel, Fresh, Parked
  <2>3. EventMeansDone' BY DEF InService, Reading, ReadLabel, Fresh, EventMeansDone
  <2>4. NoKeyLost' BY DEF InService, NoKeyLost
  <2>5. QED BY <2>1, <2>2, <2>3, <2>4
<1>2. ASSUME NEW u \in Unit, OneCall(t, u) PROVE OneAtATime'
  <2> USE <1>0, <1>2 DEF OneCall, Ev!Ask
  <2>1. InService(t)'
    <3>1. pc[t] \notin ReadLabel /\ pc'[t] \in {"idle", "scan", "one", "pm_look"}
      BY DEF ReadLabel
    <3>2. \A v \in Unit : phase'[v] = "calling" => phase[v] = "calling" OBVIOUS
    <3>3. QED BY <3>1, <3>2, Elsewhere
  <2>2. Parked' BY DEF InService, Reading, ReadLabel, Fresh, Parked
  <2>3. EventMeansDone' BY DEF InService, Reading, ReadLabel, Fresh, EventMeansDone
  <2>4. NoKeyLost' BY DEF InService, NoKeyLost
  <2>5. QED BY <2>1, <2>2, <2>3, <2>4
<1>3. ASSUME NEW u \in Unit, CancelGrab(t, u) PROVE OneAtATime'
  <2> USE <1>0, <1>3 DEF CancelGrab
  <2>1. InService(t)'
    <3>1. slot' = NoUnit /\ req'[t] = slot /\ phase' = phase
          /\ pc'[t] = (IF slot = NoUnit THEN "cn_done" ELSE "cn_fill")
      OBVIOUS
    <3>2. \A v \in Unit : phase[v] # "calling"
      <4>1. pc[t] \notin ReadLabel BY DEF ReadLabel
      <4>2. QED BY <4>1, NobodyReads
    <3>3. QED BY <3>1, <3>2 DEF InService, ReadLabel, Fresh, Parked
  <2>2. Parked' BY DEF InService, Reading, ReadLabel, Fresh, Parked
  <2>3. EventMeansDone' BY DEF InService, Reading, ReadLabel, Fresh, EventMeansDone
  <2>4. NoKeyLost' BY DEF InService, NoKeyLost
  <2>5. QED BY <2>1, <2>2, <2>3, <2>4
<1>4. ASSUME NEW units \in Arrays, AnyCall(t, units) PROVE OneAtATime'
  <2> USE <1>0, <1>4 DEF AnyCall, Ev!Ask
  <2>1. InService(t)'
    <3>1. pc[t] \notin ReadLabel /\ pc'[t] \in {"idle", "scan", "one", "pm_look"}
      BY DEF ReadLabel
    <3>2. \A v \in Unit : phase'[v] = "calling" => phase[v] = "calling" OBVIOUS
    <3>3. QED BY <3>1, <3>2, Elsewhere
  <2>2. Parked' BY DEF InService, Reading, ReadLabel, Fresh, Parked
  <2>3. EventMeansDone' BY DEF InService, Reading, ReadLabel, Fresh, EventMeansDone
  <2>4. NoKeyLost' BY DEF InService, NoKeyLost
  <2>5. QED BY <2>1, <2>2, <2>3, <2>4
<1>5. QED BY <1>1, <1>2, <1>3, <1>4

\* Every step keeps it, whether the guest cancels or not.
LEMMA OneAtATimeStep ==
  ASSUME Alone, TypeOK, OneAtATime, [Next]_vars
  PROVE  OneAtATime'
<1>1. CASE UNCHANGED vars \/ TypeKey
  BY <1>1 DEF TypeKey, vars, eventVars, callVars, OneAtATime, InService, Reading,
     Fresh, Parked, EventMeansDone, NoKeyLost
<1>2. CASE \E t \in Thread : Begin(t) \/ Proceed(t)
  BY <1>2, ReadOneAtATime, PumpOneAtATime, WaitOneAtATime, CancelOneAtATime,
     CallOneAtATime DEF Alone, Begin, Proceed
<1>3. QED BY <1>1, <1>2 DEF Next

\* The strengthening of the theorems below.
THEOREM ServedOneAtATime ==
  ASSUME Alone
  PROVE  Spec => []OneAtATime
<1>1. Init => OneAtATime
  BY KbdAssumption DEF Init, OneAtATime, InService, Reading, ReadLabel, Fresh, Parked,
     EventMeansDone, NoKeyLost
<1>2. TypeOK /\ OneAtATime /\ [Next]_vars => OneAtATime' BY OneAtATimeStep
<1>3. QED BY <1>1, <1>2, TypeCorrect, PTL DEF Spec

\* A caller woken by the event of its read finds out from the status block how
\* the read ended (io.c:376-378).  It takes a guest whose one thread reads and
\* waits: with two, STATUS_PENDING is stored after the pump of the other thread
\* has completed the read, see the run kbd_pending_race.
THEOREM DoneWhenSignaled ==
  ASSUME Alone
  PROVE  Spec => []EventMeansDone
<1>1. OneAtATime => EventMeansDone BY DEF OneAtATime
<1>2. QED BY <1>1, ServedOneAtATime, PTL

\* The branch of nl_kbd_pump that drops a byte (io.c:475) is not reached by the
\* only thread of a guest, though it may cancel.
THEOREM KeysAreKept ==
  ASSUME Alone
  PROVE  Spec => []NoKeyLost
<1>1. OneAtATime => NoKeyLost BY DEF OneAtATime
<1>2. QED BY <1>1, ServedOneAtATime, PTL

\* The only thread of a guest may cancel, and no buffer is filled that its
\* caller got back (io.c:721-722).
THEOREM CancelledInTime ==
  ASSUME Alone
  PROVE  Spec => []NoWriteAfterRelease
<1>1. TypeOK /\ OneAtATime => NoWriteAfterRelease
  BY DEF OneAtATime, InService, Completing, ReadLabel, NoWriteAfterRelease
<1>2. QED BY <1>1, TypeCorrect, ServedOneAtATime, PTL

\* Nor is a read of that thread parked that is over (io.c:536-551, 724-731).
THEOREM ParkedWhileCancelled ==
  ASSUME Alone
  PROVE  Spec => []SlotIsOpen
<1>1. OneAtATime => SlotIsOpen BY DEF OneAtATime, Parked, SlotIsOpen
<1>2. QED BY <1>1, ServedOneAtATime, PTL

=============================================================================
