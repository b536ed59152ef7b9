----------------------------- MODULE SyncProofs -----------------------------
(***************************************************************************)
(* Proofs about module Sync, for any number of threads, events and object  *)
(* arrays: type correctness, mutual exclusion on the event mutexes, no     *)
(* lost wakeup, that every step is one of NtEvent, and what a wait that    *)
(* returns has waited for.                                                 *)
(***************************************************************************)
EXTENDS Sync, TLAPS

-----------------------------------------------------------------------------
(* The frame of a thread: its program counter, call and index.             *)

Same(x) == pc'[x] = pc[x] /\ call'[x] = call[x] /\ idx'[x] = idx[x]

\* A step that leaves a thread's frame alone keeps what Fits says of it.
LEMMA FitsFrame ==
  ASSUME NEW x, Fits(x), Same(x)
  PROVE  Fits(x)'
BY DEF Fits, Same, Cur

\* The arrays handed to the wait services have at least one element.
LEMMA ArrayLen ==
  ASSUME NEW objs \in Arrays
  PROVE  objs \in Seq(Handle) /\ 1 <= Len(objs)
BY SyncAssumption

\* The calls that NtSetEvent, NtResetEvent and the wait services record, and
\* the idle thread, have the type of a call.
LEMMA CallTypes ==
  /\ NoCall \in Call
  /\ \A e \in Event : On("set", e) \in Call /\ On("reset", e) \in Call
  /\ \A kind \in {"all", "any"}, objs \in Arrays, timeout \in Timeouts :
       [kind |-> kind, objs |-> objs, timeout |-> timeout] \in Call
BY SyncAssumption, ArrayLen DEF NoCall, On, Call, Handle, TimeoutKind

\* Returning to the guest leaves a well-formed idle thread.
LEMMA ReturnOK ==
  ASSUME TypeOK, NEW t \in Thread, Return(t)
  PROVE  /\ pc' \in [Thread -> Label]
         /\ call' \in [Thread -> Call]
         /\ idx' \in [Thread -> Nat \ {0}]
         /\ late' \in [Thread -> BOOLEAN]
         /\ got' \in [Thread -> Seq(Event)]
         /\ \A x \in Thread : Fits(x)'
<1> USE DEF TypeOK, Return, Go
<1>1. \A x \in Thread \ {t} : Fits(x)' BY FitsFrame DEF Same
<1>2. Fits(t)' BY DEF Fits, AtEvent, Holding, NoCall
<1>3. QED BY <1>1, <1>2, CallTypes DEF Label

\* So does going on to the next element of the array.
LEMMA AdvanceOK ==
  ASSUME TypeOK, NEW t \in Thread, Advance(t)
  PROVE  /\ pc' \in [Thread -> Label]
         /\ call' \in [Thread -> Call]
         /\ idx' \in [Thread -> Nat \ {0}]
         /\ late' \in [Thread -> BOOLEAN]
         /\ got' \in [Thread -> Seq(Event)]
         /\ \A x \in Thread : Fits(x)'
<1>1. CASE idx[t] < Len(call[t].objs)
  <2>0. call' = call /\ got' = got BY <1>1 DEF Advance
  <2>3. idx' \in [Thread -> Nat \ {0}]
    <3>1. idx \in [Thread -> Nat \ {0}] BY DEF TypeOK
    <3>2. idx' = [idx EXCEPT ![t] = @ + 1] BY <1>1 DEF Advance
    <3>3. QED BY <3>1, <3>2
  <2> USE <1>1 DEF TypeOK, Advance, Go
  <2>1. \A x \in Thread \ {t} : Fits(x)' BY FitsFrame DEF Same
  <2>2. Fits(t)' BY DEF Fits, AtEvent, Holding, Call
  <2>4. pc' \in [Thread -> Label] BY DEF Label
  <2>5. late' \in [Thread -> BOOLEAN] OBVIOUS
  <2>6. QED BY <2>0, <2>1, <2>2, <2>3, <2>4, <2>5 DEF TypeOK
<1>2. CASE ~(idx[t] < Len(call[t].objs)) BY <1>2, ReturnOK DEF Advance
<1>3. QED BY <1>1, <1>2

-----------------------------------------------------------------------------
(* Type correctness, one lemma per service.                                *)

\* NtSetEvent and NtResetEvent preserve the types.
LEMMA SetTypeOK ==
  ASSUME TypeOK, NEW t \in Thread
  PROVE  /\ \A e \in Event : SetLock(t, e) \/ ResetLock(t, e) => TypeOK'
         /\ SetStore(t) \/ SetNotify(t) \/ ResetStore(t) => TypeOK'
<1>1. ASSUME NEW e \in Event, SetLock(t, e) PROVE TypeOK'
  <2> USE <1>1 DEF TypeOK, SetLock, Lock, Go
  <2>1. \A x \in Thread \ {t} : Fits(x)' BY FitsFrame DEF Same
  <2>2. Fits(t)' BY DEF Fits, AtEvent, Holding, On, Cur
  <2>3. QED BY <2>1, <2>2, CallTypes DEF Label
<1>2. ASSUME NEW e \in Event, ResetLock(t, e) PROVE TypeOK'
  <2> USE <1>2 DEF TypeOK, ResetLock, Lock, Go
  <2>1. \A x \in Thread \ {t} : Fits(x)' BY FitsFrame DEF Same
  <2>2. Fits(t)' BY DEF Fits, AtEvent, Holding, On, Cur
  <2>3. QED BY <2>1, <2>2, CallTypes DEF Label
<1>3. ASSUME SetStore(t) PROVE TypeOK'
  <2> USE <1>3 DEF TypeOK, SetStore, Go
  <2>1. \A x \in Thread \ {t} : Fits(x)' BY FitsFrame DEF Same
  <2>2. Fits(t)' BY DEF Fits, AtEvent, Holding, Cur
  <2>3. QED BY <2>1, <2>2 DEF Label
<1>4. ASSUME ResetStore(t) PROVE TypeOK'
  <2> USE <1>4 DEF TypeOK, ResetStore, Unlock, Go
  <2>1. \A x \in Thread \ {t} : Fits(x)' BY FitsFrame DEF Same
  <2>2. Fits(t)' BY DEF Fits, AtEvent, Holding
  <2>3. QED BY <2>1, <2>2, CallTypes DEF Label
<1>5. ASSUME SetNotify(t) PROVE TypeOK'
  <2> USE <1>5 DEF TypeOK, SetNotify, Unlock
  <2>1. PICK W \in Woken(Cur(t)) :
          pc' = [x \in Thread |-> IF x \in W THEN "relock"
                                  ELSE IF x = t THEN "idle" ELSE pc[x]]
    OBVIOUS
  <2>2. \A x \in W : x \in Thread /\ pc[x] = "block"
    BY <2>1 DEF Woken, Asleep
  <2>3. \A x \in W : Fits(x)'
    BY <2>1, <2>2 DEF Fits, AtEvent, Holding, Cur
  <2>4. \A x \in Thread \ (W \union {t}) : Fits(x)'
    BY <2>1, FitsFrame DEF Same
  <2>5. t \notin W BY <2>2
  <2>6. Fits(t)' BY <2>1, <2>5 DEF Fits, AtEvent, Holding
  <2>7. pc' \in [Thread -> Label] BY <2>1 DEF Label
  <2>8. QED BY <2>3, <2>4, <2>6, <2>7, CallTypes
<1>6. QED BY <1>1, <1>2, <1>3, <1>4, <1>5

\* So does NtWaitForSingleObject, alone or as an element of a WaitAllObject
\* call.
LEMMA WaitTypeOK ==
  ASSUME TypeOK, NEW t \in Thread
  PROVE  /\ \A kind \in {"all", "any"}, objs \in Arrays, timeout \in Timeouts :
              WaitCall(t, kind, objs, timeout) => TypeOK'
         /\ \/ ObjLock(t) \/ TakeSignal(t) \/ TestSleep(t)
            \/ SpuriousWake(t) \/ TimeoutWake(t) \/ TimeoutWins(t)
            \/ Relock(t) \/ Leave(t) \/ ObjJoin(t) \/ ObjOther(t)
            => TypeOK'
<1>1. ASSUME NEW kind \in {"all", "any"}, NEW objs \in Arrays,
             NEW timeout \in Timeouts, WaitCall(t, kind, objs, timeout)
      PROVE  TypeOK'
  <2> USE <1>1 DEF TypeOK, WaitCall, Go
  <2>1. \A x \in Thread \ {t} : Fits(x)' BY FitsFrame DEF Same
  <2>2. Fits(t)' BY ArrayLen DEF Fits, AtEvent, Holding
  <2>3. QED BY <2>1, <2>2, CallTypes DEF Label
<1>2. ASSUME ObjLock(t) PROVE TypeOK'
  <2> USE <1>2 DEF TypeOK, ObjLock, Lock, Go
  <2>1. \A x \in Thread \ {t} : Fits(x)' BY FitsFrame DEF Same
  <2>2. Fits(t)' BY DEF Fits, AtEvent, Holding, Cur
  <2>3. QED BY <2>1, <2>2 DEF Label
<1>3. ASSUME TakeSignal(t) PROVE TypeOK'
  <2> USE <1>3 DEF TypeOK, TakeSignal, Consume, Go
  <2>1. \A x \in Thread \ {t} : Fits(x)' BY FitsFrame DEF Same
  <2>2. Fits(t)' BY DEF Fits, AtEvent, Holding, Cur
  <2>3. Cur(t) \in Event BY DEF Fits, AtEvent, Holding
  <2>4. QED BY <2>1, <2>2, <2>3 DEF Label
<1>4. ASSUME TestSleep(t) PROVE TypeOK'
  <2> USE <1>4 DEF TypeOK, TestSleep, Unlock, Go
  <2>1. \A x \in Thread \ {t} : Fits(x)' BY FitsFrame DEF Same
  <2>2. Fits(t)' BY DEF Fits, AtEvent, Holding, Cur
  <2>3. QED BY <2>1, <2>2 DEF Label
<1>5. ASSUME SpuriousWake(t) \/ TimeoutWake(t) PROVE TypeOK'
  <2> USE <1>5 DEF TypeOK, SpuriousWake, TimeoutWake, Go
  <2>1. \A x \in Thread \ {t} : Fits(x)' BY FitsFrame DEF Same
  <2>2. Fits(t)' BY DEF Fits, AtEvent, Holding, Cur
  <2>3. QED BY <2>1, <2>2 DEF Label
<1>6. ASSUME TimeoutWins(t) PROVE TypeOK'
  <2>1. \A x \in Thread : Fits(x)'
    BY <1>6, FitsFrame DEF Same, TypeOK, TimeoutWins
  <2>2. QED BY <1>6, <2>1 DEF TypeOK, TimeoutWins
<1>7. ASSUME Relock(t) PROVE TypeOK'
  <2> USE <1>7 DEF TypeOK, Relock, Lock, Go
  <2>1. \A x \in Thread \ {t} : Fits(x)' BY FitsFrame DEF Same
  <2>2. Fits(t)' BY DEF Fits, AtEvent, Holding, Cur
  <2>3. QED BY <2>1, <2>2 DEF Label
<1>8. ASSUME Leave(t) PROVE TypeOK'
  BY <1>8, AdvanceOK, ReturnOK DEF Leave, PassOn, Unlock, TypeOK
<1>9. ASSUME ObjJoin(t) PROVE TypeOK'
  BY <1>9, AdvanceOK DEF ObjJoin, TypeOK
<1>10. ASSUME ObjOther(t) PROVE TypeOK'
  BY <1>10, AdvanceOK, ReturnOK DEF ObjOther, TypeOK
<1>11. QED
  BY <1>1, <1>2, <1>3, <1>4, <1>5, <1>6, <1>7, <1>8, <1>9, <1>10

\* A scan that moves on by one element stays within the array and its end.
LEMMA NextObjOK ==
  ASSUME TypeOK, NEW t \in Thread, NextObj(t), pc[t] \in {"scan", "peek"},
         idx[t] <= Len(call[t].objs)
  PROVE  /\ pc' \in [Thread -> Label]
         /\ idx' \in [Thread -> Nat \ {0}]
         /\ \A x \in Thread : Fits(x)'
<1> USE DEF TypeOK, NextObj, Go
<1>1. \A x \in Thread \ {t} : Fits(x)' BY FitsFrame DEF Same
<1>2. Fits(t)' BY DEF Fits, AtEvent, Holding, Call
<1>3. idx' \in [Thread -> Nat \ {0}] OBVIOUS
<1>4. QED BY <1>1, <1>2, <1>3 DEF Label

\* So does the scan of a WaitAnyObject call.
LEMMA AnyTypeOK ==
  ASSUME TypeOK, NEW t \in Thread
  PROVE  AnyLock(t) \/ AnySkip(t) \/ AnyJoin(t) \/ AnyOther(t) \/ AnyEnd(t)
           => TypeOK'
<1>0. Len(call[t].objs) \in Nat /\ idx[t] \in Nat BY DEF TypeOK, Call
<1>1. ASSUME AnyLock(t) PROVE TypeOK'
  <2> USE <1>1 DEF TypeOK, AnyLock, Lock, Go
  <2>1. \A x \in Thread \ {t} : Fits(x)' BY FitsFrame DEF Same
  <2>2. Fits(t)' BY <1>0 DEF Fits, AtEvent, Holding, AtEnd, Cur
  <2>3. QED BY <2>1, <2>2 DEF Label
<1>2. ASSUME AnySkip(t) PROVE TypeOK'
  <2> USE <1>2 DEF AnySkip, Unlock
  <2>1. idx[t] <= Len(call[t].objs) BY DEF TypeOK, Fits, AtEvent, Holding
  <2>2. QED BY <2>1, NextObjOK DEF NextObj, TypeOK
<1>3. ASSUME AnyJoin(t) PROVE TypeOK'
  BY <1>3, ReturnOK DEF AnyJoin, TypeOK
<1>4. ASSUME AnyOther(t) PROVE TypeOK'
  <2> USE <1>4 DEF AnyOther
  <2>1. idx[t] <= Len(call[t].objs) BY <1>0 DEF AtEnd
  <2>2. CASE Return(t) BY <2>2, ReturnOK DEF TypeOK
  <2>3. CASE NextObj(t) BY <2>1, <2>3, NextObjOK DEF NextObj, TypeOK
  <2>4. QED BY <2>2, <2>3
<1>5. ASSUME AnyEnd(t) PROVE TypeOK'
  <2>1. CASE Return(t) BY <1>5, <2>1, ReturnOK DEF AnyEnd, TypeOK
  <2>2. CASE ~Return(t)
    <3> USE <1>5, <2>2 DEF TypeOK, AnyEnd
    <3>1. \A x \in Thread \ {t} : Fits(x)' BY FitsFrame DEF Same
    <3>2. pc'[t] = "scan" /\ call' = call /\ idx'[t] = 1 OBVIOUS
    <3>3. Fits(t)' BY ONLY <1>0, <3>2 DEF Fits, AtEvent, Holding
    <3>4. idx' \in [Thread -> Nat \ {0}] OBVIOUS
    <3>5. QED BY <3>1, <3>2, <3>3, <3>4
  <2>3. QED BY <2>1, <2>2
<1>6. QED BY <1>1, <1>2, <1>3, <1>4, <1>5

\* So do the clock and the exit of a thread.
LEMMA OtherTypeOK ==
  ASSUME TypeOK, NEW t \in Thread
  PROVE  Exit(t) \/ DeadlinePasses(t) => TypeOK'
<1>1. ASSUME Exit(t) PROVE TypeOK'
  <2> USE <1>1 DEF TypeOK, Exit, Go
  <2>1. \A x \in Thread \ {t} : Fits(x)' BY FitsFrame DEF Same
  <2>2. Fits(t)' BY DEF Fits, AtEvent, Holding
  <2>3. QED BY <2>1, <2>2 DEF Label
<1>2. ASSUME DeadlinePasses(t) PROVE TypeOK'
  <2>1. \A x \in Thread : Fits(x)'
    BY <1>2, FitsFrame DEF Same, TypeOK, DeadlinePasses
  <2>2. QED BY <1>2, <2>1 DEF TypeOK, DeadlinePasses
<1>3. QED BY <1>1, <1>2

\* So does a step in which nothing changes.
LEMMA StutterTypeOK == TypeOK /\ UNCHANGED vars => TypeOK'
<1> SUFFICES ASSUME TypeOK, UNCHANGED vars PROVE TypeOK'
  OBVIOUS
<1>1. \A x \in Thread : Fits(x)' BY FitsFrame DEF TypeOK, Same, vars
<1>2. QED BY <1>1 DEF TypeOK, vars

\* Type correctness of the wait and event services, for any set of threads,
\* events and arrays.
THEOREM TypeCorrect == Spec => []TypeOK
<1>1. Init => TypeOK
  <2> SUFFICES ASSUME Init PROVE TypeOK
    OBVIOUS
  <2>1. \A t \in Thread : Fits(t) BY DEF Init, Fits, AtEvent, Holding
  <2>2. QED BY <2>1, CallTypes DEF Init, TypeOK, Label
<1>2. TypeOK /\ [Next]_vars => TypeOK'
  <2> SUFFICES ASSUME TypeOK, [Next]_vars PROVE TypeOK'
    OBVIOUS
  <2>1. CASE UNCHANGED vars BY <2>1, StutterTypeOK
  <2>2. CASE Next
    <3>1. PICK t \in Thread :
            Begin(t) \/ Acquire(t) \/ Proceed(t) \/ DeadlinePasses(t)
      BY <2>2 DEF Next
    <3>2. CASE Begin(t)
      BY <3>2, SetTypeOK, WaitTypeOK, OtherTypeOK DEF Begin
    <3>3. CASE Acquire(t)
      BY <3>3, WaitTypeOK, AnyTypeOK DEF Acquire
    <3>4. CASE Proceed(t)
      BY <3>4, SetTypeOK, WaitTypeOK, AnyTypeOK DEF Proceed
    <3>5. QED BY <3>1, <3>2, <3>3, <3>4, OtherTypeOK
  <2>3. QED BY <2>1, <2>2
<1>3. QED BY <1>1, <1>2, PTL DEF Spec

-----------------------------------------------------------------------------
(* Mutual exclusion.  A step takes a mutex, releases one, or leaves every  *)
(* mutex alone.                                                            *)

\* A thread that takes a free mutex and moves into its critical section keeps
\* the owners in agreement with the program counters.
LEMMA LockStep ==
  ASSUME TypeOK, MutexHeld, NEW t \in Thread, NEW e \in Event, Lock(t, e),
         \A x \in Thread \ {t} : Same(x),
         pc[t] \notin Holding, Holds(t, e)'
  PROVE  MutexHeld'
<1> SUFFICES ASSUME NEW x \in Thread, NEW f \in Event
             PROVE  owner'[f] = x <=> Holds(x, f)'
  BY DEF MutexHeld
<1> USE SyncAssumption DEF TypeOK, MutexHeld, Lock, Holds
<1>1. CASE x = t BY <1>1 DEF Cur
<1>2. CASE x # t BY <1>2 DEF Same, Cur
<1>3. QED BY <1>1, <1>2

\* So does a thread that releases the mutex it holds and moves out.
LEMMA UnlockStep ==
  ASSUME TypeOK, MutexHeld, NEW t \in Thread, NEW e \in Event,
         Holds(t, e), Unlock(e), pc'[t] \notin Holding,
         \A x \in Thread \ {t}, f \in Event : Holds(x, f)' <=> Holds(x, f)
  PROVE  MutexHeld'
<1> SUFFICES ASSUME NEW x \in Thread, NEW f \in Event
             PROVE  owner'[f] = x <=> Holds(x, f)'
  BY DEF MutexHeld
<1> USE SyncAssumption DEF TypeOK, MutexHeld, Unlock
<1>1. CASE x = t BY <1>1 DEF Holds
<1>2. CASE x # t BY <1>2
<1>3. QED BY <1>1, <1>2

\* So does a step that changes neither the owners nor who holds what.
LEMMA NoMutexStep ==
  ASSUME MutexHeld, UNCHANGED owner,
         \A x \in Thread, e \in Event : Holds(x, e)' <=> Holds(x, e)
  PROVE  MutexHeld'
BY DEF MutexHeld

\* A thread whose frame does not change holds what it held.
LEMMA SameHolds ==
  ASSUME NEW x, Same(x), NEW e
  PROVE  Holds(x, e)' <=> Holds(x, e)
BY DEF Same, Holds, Cur

\* Who moves when a thread returns or goes on to the next element.
LEMMA MoveFrame ==
  ASSUME TypeOK, NEW t \in Thread, Return(t) \/ Advance(t) \/ NextObj(t)
  PROVE  /\ \A x \in Thread \ {t} : Same(x)
         /\ pc'[t] \in {"idle", "obj", "scan"}
BY DEF TypeOK, Return, Advance, NextObj, Go, Same

\* What any step of a thread does to the frames.
LEMMA OneMoves ==
  ASSUME TypeOK, NEW t \in Thread,
         Begin(t) \/ Acquire(t) \/ Proceed(t) \/ DeadlinePasses(t),
         ~SetNotify(t)
  PROVE  \A x \in Thread \ {t} : Same(x)
<1>1. CASE Begin(t)
  BY <1>1 DEF Begin, SetLock, ResetLock, WaitCall, SpuriousWake, TimeoutWins,
              Exit, TypeOK, Go, Same
<1>2. CASE Acquire(t)
  BY <1>2 DEF Acquire, ObjLock, Relock, AnyLock, TypeOK, Go, Same
<1>3. CASE Proceed(t)
  <2>1. CASE SetStore(t) \/ ResetStore(t) \/ TakeSignal(t) \/ TestSleep(t)
             \/ TimeoutWake(t)
    BY <2>1 DEF SetStore, ResetStore, TakeSignal, TestSleep, TimeoutWake,
                TypeOK, Go, Same
  <2>2. CASE Leave(t) \/ ObjJoin(t) \/ ObjOther(t) \/ AnySkip(t)
             \/ AnyJoin(t) \/ AnyOther(t)
    BY <2>2, MoveFrame DEF Leave, PassOn, ObjJoin, ObjOther, AnySkip, AnyJoin, AnyOther
  <2>3. CASE AnyEnd(t)
    BY <2>3, MoveFrame DEF AnyEnd, TypeOK, Same
  <2>4. QED BY <1>3, <2>1, <2>2, <2>3 DEF Proceed
<1>4. CASE DeadlinePasses(t) BY <1>4 DEF DeadlinePasses, Same
<1>5. QED BY <1>1, <1>2, <1>3, <1>4

\* The threads that SetNotify wakes are asleep: none holds a mutex.
LEMMA NotifyHolds ==
  ASSUME TypeOK, NEW t \in Thread, SetNotify(t)
  PROVE  \A x \in Thread \ {t}, e \in Event : Holds(x, e)' <=> Holds(x, e)
<1>1. PICK W \in Woken(Cur(t)) :
        pc' = [x \in Thread |-> IF x \in W THEN "relock"
                                ELSE IF x = t THEN "idle" ELSE pc[x]]
  BY DEF SetNotify
<1>2. \A x \in W : x \in Thread /\ pc[x] = "block"
  BY <1>1 DEF Woken, Asleep
<1>3. \A x \in Thread \ {t} : call'[x] = call[x] /\ idx'[x] = idx[x]
  BY DEF SetNotify, TypeOK
<1>4. QED BY <1>1, <1>2, <1>3 DEF Holds, Holding, Cur

\* Every step of Next keeps the owners in agreement with the program counters:
\* one case per action.
LEMMA MutexStep ==
  ASSUME TypeOK, MutexHeld, NEW t \in Thread,
         Begin(t) \/ Acquire(t) \/ Proceed(t) \/ DeadlinePasses(t)
  PROVE  MutexHeld'
<1>1. ASSUME NEW e \in Event, SetLock(t, e) \/ ResetLock(t, e)
      PROVE  MutexHeld'
  <2>1. \A x \in Thread \ {t} : Same(x)
    BY <1>1 DEF SetLock, ResetLock, TypeOK, Go, Same
  <2>2. pc[t] \notin Holding /\ Holds(t, e)'
    BY <1>1 DEF SetLock, ResetLock, TypeOK, Fits, Go, Holding, Holds, On, Cur
  <2>3. QED BY <1>1, <2>1, <2>2, LockStep DEF SetLock, ResetLock
<1>2. CASE Acquire(t)
  <2>1. \A x \in Thread \ {t} : Same(x)
    BY <1>2 DEF Acquire, ObjLock, Relock, AnyLock, TypeOK, Go, Same
  <2>2. PICK e \in Event : e = Cur(t)
    BY <1>2 DEF Acquire, ObjLock, Relock, AnyLock, TypeOK, Fits, AtEvent
  <2>3. pc[t] \notin Holding /\ Lock(t, e)
    BY <1>2, <2>2 DEF Acquire, ObjLock, Relock, AnyLock, Holding
  <2>4. Holds(t, e)'
    BY <1>2, <2>2 DEF Acquire, ObjLock, Relock, AnyLock, TypeOK, Go, Holding,
                      Holds, Cur
  <2>5. QED BY <2>1, <2>3, <2>4, LockStep
\* Steps that neither take nor release a mutex.
<1>3. CASE \/ SetStore(t) \/ TakeSignal(t)
           \/ \E kind \in {"all", "any"}, objs \in Arrays, timeout \in Timeouts :
                WaitCall(t, kind, objs, timeout)
           \/ SpuriousWake(t) \/ TimeoutWake(t) \/ TimeoutWins(t)
           \/ ObjJoin(t) \/ ObjOther(t) \/ AnyJoin(t) \/ AnyOther(t) \/ AnyEnd(t)
           \/ Exit(t) \/ DeadlinePasses(t)
  <2>1. \A x \in Thread \ {t} : Same(x)
    BY <1>3, OneMoves DEF Begin, Proceed, SetNotify, SetStore, TakeSignal, WaitCall,
         SpuriousWake, TimeoutWake, TimeoutWins, ObjJoin, ObjOther, AnyJoin,
         AnyOther, AnyEnd, Exit, DeadlinePasses
  <2>2. UNCHANGED owner
    BY <1>3 DEF SetStore, TakeSignal, WaitCall, SpuriousWake, TimeoutWake,
         TimeoutWins, ObjJoin, ObjOther, AnyJoin, AnyOther, AnyEnd, Exit,
         DeadlinePasses
  <2>3. \A e \in Event : Holds(t, e)' <=> Holds(t, e)
    <3>1. CASE ObjJoin(t) \/ ObjOther(t) \/ AnyJoin(t) \/ AnyOther(t) \/ AnyEnd(t)
      BY <3>1, MoveFrame DEF ObjJoin, ObjOther, AnyJoin, AnyOther, AnyEnd,
           Holds, Holding
    <3>2. CASE ~(ObjJoin(t) \/ ObjOther(t) \/ AnyJoin(t) \/ AnyOther(t) \/ AnyEnd(t))
      BY <1>3, <3>2 DEF SetStore, TakeSignal, WaitCall, SpuriousWake, TimeoutWake,
           TimeoutWins, Exit, DeadlinePasses, TypeOK, Go, Holds, Holding, Cur
    <3>3. QED BY <3>1, <3>2
  <2>4. \A x \in Thread, e \in Event : Holds(x, e)' <=> Holds(x, e)
    BY <2>1, <2>3, SameHolds
  <2>5. QED BY <2>2, <2>4, NoMutexStep
\* Steps that release the mutex of the current event.
<1>4. CASE SetNotify(t) \/ ResetStore(t) \/ TestSleep(t) \/ Leave(t) \/ AnySkip(t)
  <2>1. \A x \in Thread \ {t}, e \in Event : Holds(x, e)' <=> Holds(x, e)
    <3>1. CASE SetNotify(t) BY <3>1, NotifyHolds
    <3>2. CASE ~SetNotify(t) BY <1>4, <3>2, OneMoves, SameHolds DEF Proceed
    <3>3. QED BY <3>1, <3>2
  <2>2. PICK e \in Event : e = Cur(t)
    BY <1>4 DEF SetNotify, ResetStore, TestSleep, Leave, AnySkip, TypeOK, Fits,
                AtEvent, Holding
  <2>3. Holds(t, e) /\ Unlock(e)
    BY <1>4, <2>2 DEF SetNotify, ResetStore, TestSleep, Leave, AnySkip, Holds,
                      Holding
  <2>4. pc'[t] \notin Holding
    <3>1. CASE SetNotify(t) \/ ResetStore(t) \/ TestSleep(t)
      BY <3>1 DEF SetNotify, ResetStore, TestSleep, TypeOK, Go, Holding
    <3>2. CASE Leave(t) \/ AnySkip(t)
      BY <3>2, MoveFrame DEF Leave, PassOn, AnySkip, Holding
    <3>3. QED BY <1>4, <3>1, <3>2
  <2>5. QED BY <2>1, <2>3, <2>4, UnlockStep
<1>5. QED
  BY <1>1, <1>2, <1>3, <1>4 DEF Begin, Acquire, Proceed

\* A step in which nothing changes does too.
LEMMA StutterMutex == MutexHeld /\ UNCHANGED vars => MutexHeld'
BY DEF MutexHeld, Holds, Cur, vars

\* Mutual exclusion on every event: no path through NtSetEvent, NtResetEvent
\* and the wait services enters a critical section twice or leaves a mutex
\* locked behind it.
THEOREM MutualExclusion == Spec => []MutexHeld
<1>1. Init => MutexHeld
  BY SyncAssumption DEF Init, MutexHeld, Holds, Holding
<1>2. TypeOK /\ MutexHeld /\ [Next]_vars => MutexHeld'
  BY MutexStep, StutterMutex DEF Next
<1>3. QED BY <1>1, <1>2, TypeCorrect, PTL DEF Spec

-----------------------------------------------------------------------------
(* No lost wakeup.  NoLostWakeup is not inductive alone: it needs the      *)
(* mutexes, and that a thread still waiting has not been told it timed out.*)

Undecided ==
  \A t \in Thread :
    pc[t] \in {"obj", "test", "block", "scan", "peek"} => result[t] = "success"

\* A thread that is still waiting has not been told that it timed out: every
\* step of Next keeps that.
LEMMA UndecidedStep ==
  ASSUME TypeOK, Undecided, NEW t \in Thread,
         Begin(t) \/ Acquire(t) \/ Proceed(t) \/ DeadlinePasses(t)
  PROVE  Undecided'
<1> USE DEF TypeOK, Undecided
<1>1. CASE SetNotify(t)
  <2>1. PICK W \in Woken(Cur(t)) :
          pc' = [x \in Thread |-> IF x \in W THEN "relock"
                                  ELSE IF x = t THEN "idle" ELSE pc[x]]
    BY <1>1 DEF SetNotify
  <2>2. QED BY <1>1, <2>1 DEF SetNotify
<1>2. CASE Begin(t) \/ Acquire(t) \/ DeadlinePasses(t)
  BY <1>2 DEF Begin, SetLock, ResetLock, WaitCall, SpuriousWake, TimeoutWins,
              Exit, Acquire, ObjLock, Relock, AnyLock, DeadlinePasses, Go
<1>3. CASE SetStore(t) \/ ResetStore(t) \/ TakeSignal(t) \/ TestSleep(t)
           \/ TimeoutWake(t)
  BY <1>3 DEF SetStore, ResetStore, TakeSignal, TestSleep, TimeoutWake, Go
<1>4. CASE Leave(t) \/ ObjJoin(t) \/ ObjOther(t)
  BY <1>4 DEF Leave, PassOn, ObjJoin, ObjOther, Advance, Return, Go
<1>5. CASE AnySkip(t) \/ AnyJoin(t) \/ AnyOther(t) \/ AnyEnd(t)
  BY <1>5 DEF AnySkip, AnyJoin, AnyOther, AnyEnd, NextObj, Return, Go
<1>6. QED BY <1>1, <1>2, <1>3, <1>4, <1>5 DEF Proceed

Notifying(t, e) == pc[t] = "notify" /\ Cur(t) = e

\* A step of a thread that is neither asleep, nor to fall asleep, nor one of
\* the threads NoLostWakeup counts on, and that signals nothing.
LEMMA QuietStep ==
  ASSUME TypeOK, NoLostWakeup, NEW t \in Thread,
         \A x \in Thread \ {t} : Same(x) /\ result'[x] = result[x],
         \A e \in Event : signaled'[e] => signaled[e],
         pc[t] \notin {"notify", "test", "relock"},
         pc'[t] # "block"
  PROVE  NoLostWakeup'
<1> SUFFICES ASSUME NEW e \in Event, signaled'[e], Asleep(e)' # {}
             PROVE  \/ \E x \in Thread : Notifying(x, e)'
                    \/ e \in SyncEvent /\ \E x \in Thread : WillLook(x, e)'
  BY DEF NoLostWakeup, Notifying
<1>1. \A x \in Asleep(e)' : x \in Asleep(e)
  BY DEF Asleep, Same, Cur
<1>2. \/ \E x \in Thread : Notifying(x, e)
      \/ e \in SyncEvent /\ \E x \in Thread : WillLook(x, e)
  BY <1>1 DEF NoLostWakeup, Notifying
<1>3. \A x \in Thread : Notifying(x, e) => Notifying(x, e)'
  BY DEF Notifying, Same, Cur
<1>4. \A x \in Thread : WillLook(x, e) => WillLook(x, e)'
  BY DEF WillLook, Same, Cur
<1>5. QED BY <1>2, <1>3, <1>4

\* Broadcast leaves nobody asleep, signal wakes a thread that will look.
LEMMA NotifyWakes ==
  ASSUME TypeOK, Undecided, NoLostWakeup, NEW t \in Thread, SetNotify(t)
  PROVE  NoLostWakeup'
<1> SUFFICES ASSUME NEW e \in Event, signaled'[e], Asleep(e)' # {}
             PROVE  \/ \E x \in Thread : Notifying(x, e)'
                    \/ e \in SyncEvent /\ \E x \in Thread : WillLook(x, e)'
  BY DEF NoLostWakeup, Notifying
<1>1. PICK W \in Woken(Cur(t)) :
        pc' = [x \in Thread |-> IF x \in W THEN "relock"
                                ELSE IF x = t THEN "idle" ELSE pc[x]]
  BY DEF SetNotify
<1>2. \A x \in W : x \in Thread /\ pc[x] = "block" /\ Cur(x) = Cur(t)
  BY <1>1 DEF Woken, Asleep
<1>3. /\ pc[t] = "notify"
      /\ \A x \in Thread \ {t} : call'[x] = call[x] /\ idx'[x] = idx[x]
      /\ UNCHANGED <<signaled, result>>
  BY DEF SetNotify, TypeOK
<1>4. \A x \in Asleep(e)' : x \in Asleep(e) \ W
  BY <1>1, <1>2, <1>3 DEF Asleep, Cur
<1>5. CASE Cur(t) = e
  <2>1. e \in SyncEvent /\ Asleep(e) # {}
    BY <1>1, <1>4, <1>5 DEF Woken
  <2>2. PICK w \in Asleep(e) : W = {w}
    BY <1>1, <1>5, <2>1 DEF Woken
  <2>3. WillLook(w, e)'
    BY <1>1, <1>2, <1>3, <1>5, <2>2 DEF WillLook, Cur, Undecided, Asleep
  <2>4. QED BY <2>1, <2>2, <2>3 DEF Asleep
<1>6. CASE Cur(t) # e
  <2>1. \/ \E x \in Thread : Notifying(x, e)
        \/ e \in SyncEvent /\ \E x \in Thread : WillLook(x, e)
    BY <1>3, <1>4 DEF NoLostWakeup, Notifying
  <2>2. \A x \in Thread : Notifying(x, e) => Notifying(x, e)'
    BY <1>1, <1>2, <1>3, <1>6 DEF Notifying, Cur
  <2>3. \A x \in Thread : WillLook(x, e) => WillLook(x, e)'
    BY <1>1, <1>2, <1>3, <1>6 DEF WillLook, Cur
  <2>4. QED BY <2>1, <2>2, <2>3
<1>7. QED BY <1>5, <1>6

\* The steps that act on the event of the thread that takes them.
LEMMA EventStep ==
  ASSUME TypeOK, MutexHeld, NoLostWakeup, NEW t \in Thread,
         SetStore(t) \/ TakeSignal(t) \/ TestSleep(t) \/ Relock(t)
  PROVE  NoLostWakeup'
<1> SUFFICES ASSUME NEW e \in Event, signaled'[e], Asleep(e)' # {}
             PROVE  \/ \E x \in Thread : Notifying(x, e)'
                    \/ e \in SyncEvent /\ \E x \in Thread : WillLook(x, e)'
  BY DEF NoLostWakeup, Notifying
<1>1. \A x \in Thread \ {t} : Same(x) /\ result'[x] = result[x]
  BY DEF SetStore, TakeSignal, TestSleep, Relock, TypeOK, Go, Same
<1>2. Cur(t)' = Cur(t)
  BY DEF SetStore, TakeSignal, TestSleep, Relock, Cur
<1>3. \A x \in Thread \ {t} : Notifying(x, e) => Notifying(x, e)'
  BY <1>1 DEF Notifying, Same, Cur
<1>4. \A x \in Thread \ {t} : WillLook(x, e) => WillLook(x, e)'
  BY <1>1 DEF WillLook, Same, Cur
<1>5. CASE SetStore(t)
  <2>1. CASE Cur(t) = e
    BY <1>2, <1>5, <2>1 DEF SetStore, TypeOK, Go, Notifying
  <2>2. CASE Cur(t) # e
    <3>1. signaled[e] BY <1>5, <2>2 DEF SetStore, TypeOK
    <3>2. \A x \in Asleep(e)' : x \in Asleep(e)
      BY <1>1, <1>5 DEF SetStore, TypeOK, Go, Asleep, Same, Cur
    <3>3. ~Notifying(t, e) /\ ~WillLook(t, e)
      BY <2>2 DEF Notifying, WillLook
    <3>4. QED BY <1>3, <1>4, <3>1, <3>2, <3>3 DEF NoLostWakeup, Notifying
  <2>3. QED BY <2>1, <2>2
<1>6. CASE TakeSignal(t)
  <2>1. signaled[e] /\ (e = Cur(t) => e \notin SyncEvent)
    BY <1>6 DEF TakeSignal, Consume, TypeOK
  <2>2. \A x \in Asleep(e)' : x \in Asleep(e)
    BY <1>1, <1>6 DEF TakeSignal, TypeOK, Go, Asleep, Same, Cur
  <2>3. \/ \E x \in Thread : Notifying(x, e)
        \/ e \in SyncEvent /\ \E x \in Thread : WillLook(x, e)
    BY <2>1, <2>2 DEF NoLostWakeup, Notifying
  <2>4. pc[t] \in {"test", "peek"} BY <1>6 DEF TakeSignal
  <2>5. CASE e = Cur(t)
    <3>1. PICK x \in Thread : Notifying(x, e) BY <2>1, <2>3, <2>5
    <3>2. Holds(x, e) /\ Holds(t, e)
      BY <2>4, <2>5, <3>1 DEF Notifying, Holds, Holding
    <3>3. x = t BY <3>2 DEF MutexHeld
    <3>4. QED BY <2>4, <3>1, <3>3 DEF Notifying
  <2>6. CASE e # Cur(t)
    BY <1>3, <1>4, <2>3, <2>6 DEF Notifying, WillLook
  <2>7. QED BY <2>5, <2>6
<1>7. CASE TestSleep(t)
  <2>1. signaled[e] /\ e # Cur(t) BY <1>7 DEF TestSleep
  <2>2. \A x \in Asleep(e)' : x \in Asleep(e)
    BY <1>1, <1>2, <2>1 DEF Asleep, Same, Cur
  <2>3. ~Notifying(t, e) /\ ~WillLook(t, e)
    BY <2>1 DEF Notifying, WillLook
  <2>4. QED BY <1>3, <1>4, <2>1, <2>2, <2>3 DEF NoLostWakeup, Notifying
<1>8. CASE Relock(t)
  <2>1. signaled[e] BY <1>8 DEF Relock
  <2>2. \A x \in Asleep(e)' : x \in Asleep(e)
    BY <1>1, <1>8 DEF Relock, TypeOK, Go, Asleep, Same, Cur
  <2>3. ~Notifying(t, e) BY <1>8 DEF Relock, Notifying
  <2>4. WillLook(t, e) => WillLook(t, e)'
    BY <1>2, <1>8 DEF Relock, TypeOK, Go, WillLook
  <2>5. QED BY <1>3, <1>4, <2>1, <2>2, <2>3, <2>4 DEF NoLostWakeup, Notifying
<1>9. QED BY <1>5, <1>6, <1>7, <1>8

\* Every step of Next keeps signals from being slept on, if a wait that times
\* out takes no signal: one case per action.
LEMMA WakeupStep ==
  ASSUME ~TimeoutTakesSignal, TypeOK, MutexHeld, Undecided, NoLostWakeup,
         NEW t \in Thread,
         Begin(t) \/ Acquire(t) \/ Proceed(t) \/ DeadlinePasses(t)
  PROVE  NoLostWakeup'
<1>1. CASE SetNotify(t) BY <1>1, NotifyWakes
<1>2. CASE SetStore(t) \/ TakeSignal(t) \/ TestSleep(t) \/ Relock(t)
  BY <1>2, EventStep
<1>3. CASE DeadlinePasses(t)
  BY <1>3 DEF DeadlinePasses, NoLostWakeup, Asleep, WillLook, Cur
<1>4. CASE \/ \E e \in Event : SetLock(t, e) \/ ResetLock(t, e)
           \/ \E kind \in {"all", "any"}, objs \in Arrays, timeout \in Timeouts :
                WaitCall(t, kind, objs, timeout)
           \/ SpuriousWake(t) \/ TimeoutWake(t) \/ Exit(t)
           \/ ObjLock(t) \/ AnyLock(t) \/ ResetStore(t) \/ Leave(t)
           \/ ObjJoin(t) \/ ObjOther(t)
           \/ AnySkip(t) \/ AnyJoin(t) \/ AnyOther(t) \/ AnyEnd(t)
  <2>1. ~SetNotify(t)
    BY <1>4 DEF SetNotify, SetLock, ResetLock, WaitCall, SpuriousWake,
         TimeoutWake, Exit, ObjLock, AnyLock, ResetStore, Leave, ObjJoin,
         ObjOther, AnySkip, AnyJoin, AnyOther, AnyEnd
  <2>2. \A x \in Thread \ {t} : Same(x)
    BY <2>1, OneMoves
  <2>3. \A x \in Thread \ {t} : result'[x] = result[x]
    BY <1>4 DEF TypeOK, SetLock, ResetLock, WaitCall, SpuriousWake,
         TimeoutWake, Exit, ObjLock, AnyLock, ResetStore, Leave, ObjJoin,
         ObjOther, AnySkip, AnyJoin, AnyOther, AnyEnd
  <2>4. \A e \in Event : signaled'[e] => signaled[e]
    BY <1>4 DEF TypeOK, SetLock, ResetLock, WaitCall, SpuriousWake,
         TimeoutWake, Exit, ObjLock, AnyLock, ResetStore, Leave, ObjJoin,
         ObjOther, AnySkip, AnyJoin, AnyOther, AnyEnd
  <2>5. pc[t] \notin {"notify", "test", "relock"}
    BY <1>4 DEF SetLock, ResetLock, WaitCall, SpuriousWake,
         TimeoutWake, Exit, ObjLock, AnyLock, ResetStore, Leave, ObjJoin,
         ObjOther, AnySkip, AnyJoin, AnyOther, AnyEnd
  <2>6. pc'[t] # "block"
    <3>1. CASE Leave(t) \/ ObjJoin(t) \/ ObjOther(t) \/ AnySkip(t)
               \/ AnyJoin(t) \/ AnyOther(t) \/ AnyEnd(t)
      BY <3>1, MoveFrame DEF Leave, PassOn, ObjJoin, ObjOther, AnySkip,
           AnyJoin, AnyOther, AnyEnd
    <3>2. CASE ~(Leave(t) \/ ObjJoin(t) \/ ObjOther(t) \/ AnySkip(t)
                 \/ AnyJoin(t) \/ AnyOther(t) \/ AnyEnd(t))
      BY <1>4, <3>2 DEF TypeOK, Go, SetLock, ResetLock, WaitCall,
           SpuriousWake, TimeoutWake, Exit, ObjLock, AnyLock, ResetStore
    <3>3. QED BY <3>1, <3>2
  <2>7. QED BY <2>2, <2>3, <2>4, <2>5, <2>6, QuietStep
<1>5. ~TimeoutWins(t) BY DEF TimeoutWins
<1>6. QED BY <1>1, <1>2, <1>3, <1>4, <1>5 DEF Begin, Acquire, Proceed

\* No thread sleeps on a signaled event that nobody is about to take, if a
\* condition wait that times out takes no signal with it.
THEOREM NoWakeupIsLost ==
  ASSUME ~TimeoutTakesSignal
  PROVE  Spec => []NoLostWakeup
<1>1. Init => Undecided /\ NoLostWakeup
  BY DEF Init, Undecided, NoLostWakeup, Asleep
<1>2. TypeOK /\ Undecided /\ [Next]_vars => Undecided'
  <2>1. ASSUME TypeOK, Undecided, UNCHANGED vars PROVE Undecided'
    BY <2>1 DEF Undecided, vars
  <2>2. QED BY <2>1, UndecidedStep DEF Next
<1>3. TypeOK /\ MutexHeld /\ Undecided /\ NoLostWakeup /\ [Next]_vars
        => NoLostWakeup'
  <2>1. ASSUME NoLostWakeup, UNCHANGED vars PROVE NoLostWakeup'
    BY <2>1 DEF NoLostWakeup, Asleep, WillLook, Cur, vars
  <2>2. QED BY <2>1, WakeupStep DEF Next
<1>4. QED BY <1>1, <1>2, <1>3, TypeCorrect, MutualExclusion, PTL DEF Spec

-----------------------------------------------------------------------------
(* Every step is a step of NtEvent or leaves its variables alone.          *)

\* A thread whose frame does not change wants the same events.
LEMMA WantsSame ==
  ASSUME NEW x, Same(x), result'[x] = result[x]
  PROVE  Wants(x)' = Wants(x)
BY DEF Wants, Same, Cur

\* What a thread wants is a set of events.
LEMMA WantsEvents ==
  /\ \A x \in Thread : Wants(x) \subseteq Event
  /\ \A x \in Thread : Wants(x)' \subseteq Event
BY DEF Wants

\* The refinement mapping of a step in which one thread moves.
LEMMA MapOne ==
  ASSUME NEW t \in Thread, \A x \in Thread \ {t} : Wants(x)' = Wants(x),
         \/ /\ UNCHANGED signaled
            /\ \/ UNCHANGED got /\ Wants(t)' = Wants(t)
               \/ Events!NothingTaken(t) /\ (Wants(t) = {} \/ Wants(t)' = {})
         \/ /\ UNCHANGED got
            /\ Wants(t)' = Wants(t)
            /\ \E e \in Event : \/ signaled' = [signaled EXCEPT ![e] = TRUE]
                                \/ signaled' = [signaled EXCEPT ![e] = FALSE]
         \/ \E e \in Wants(t) :
              /\ signaled[e]
              /\ Consume(e)
              /\ got' = [got EXCEPT ![t] = Append(@, e)]
              /\ Wants(t)' = {}
  PROVE  [Events!Next]_(Events!eventVars)
<1> DEFINE w == [x \in Thread |-> Wants(x)]
<1>1. [x \in Thread |-> Wants(x)'] = [w EXCEPT ![t] = Wants(t)']
  OBVIOUS
<1>2. CASE UNCHANGED <<signaled, got>> /\ Wants(t)' = Wants(t)
  BY <1>1, <1>2 DEF Events!eventVars
<1>3. CASE UNCHANGED signaled /\ Events!NothingTaken(t) /\ Wants(t) = {}
  <2>1. Events!Ask(t, Wants(t)') BY <1>1, <1>3 DEF Events!Ask
  <2>2. QED BY <1>3, <2>1, WantsEvents DEF Events!Next
<1>4. CASE /\ UNCHANGED signaled /\ Events!NothingTaken(t)
           /\ Wants(t) # {} /\ Wants(t)' = {}
  <2>1. Events!GiveUp(t) BY <1>1, <1>4 DEF Events!GiveUp
  <2>2. QED BY <1>4, <2>1 DEF Events!Next
<1>5. ASSUME UNCHANGED got, Wants(t)' = Wants(t), NEW e \in Event,
             \/ signaled' = [signaled EXCEPT ![e] = TRUE]
             \/ signaled' = [signaled EXCEPT ![e] = FALSE]
      PROVE  [Events!Next]_(Events!eventVars)
  <2>1. Events!Set(e) \/ Events!Reset(e)
    BY <1>1, <1>5 DEF Events!Set, Events!Reset
  <2>2. QED BY <1>5, <2>1 DEF Events!Next
<1>6. ASSUME NEW e \in Wants(t), signaled[e], Consume(e), Wants(t)' = {},
             got' = [got EXCEPT ![t] = Append(@, e)]
      PROVE  [Events!Next]_(Events!eventVars)
  <2>1. Events!Obtain(t, e)
    BY <1>1, <1>6 DEF Events!Obtain, Events!Take, Consume
  <2>2. e \in Event BY WantsEvents
  <2>3. QED BY <2>1, <2>2 DEF Events!Next
<1>7. QED BY <1>2, <1>3, <1>4, <1>5, <1>6

\* What the return to the guest, or to the loop, does to the mapping.
LEMMA MapReturn ==
  ASSUME TypeOK, NEW t \in Thread
  PROVE  /\ Return(t) => Wants(t)' = {} /\ Events!NothingTaken(t)
         /\ Advance(t) => Events!NothingTaken(t)
BY DEF Return, Advance, TypeOK, Go, Wants, Events!NothingTaken

\* A thread that was notified wants what it wanted asleep.
LEMMA MapNotify ==
  ASSUME TypeOK, Undecided, NEW t \in Thread, SetNotify(t)
  PROVE  UNCHANGED Events!eventVars
<1>1. PICK W \in Woken(Cur(t)) :
        pc' = [x \in Thread |-> IF x \in W THEN "relock"
                                ELSE IF x = t THEN "idle" ELSE pc[x]]
  BY DEF SetNotify
<1>2. \A x \in W : x \in Thread /\ pc[x] = "block"
  BY <1>1 DEF Woken, Asleep
<1>3. /\ pc[t] = "notify"
      /\ \A x \in Thread \ {t} : call'[x] = call[x] /\ idx'[x] = idx[x]
      /\ UNCHANGED <<signaled, result, got>>
  BY DEF SetNotify, TypeOK
<1>4. \A x \in W : Wants(x)' = Wants(x)
  BY <1>1, <1>2, <1>3 DEF Wants, Cur, Undecided
<1>5. \A x \in Thread \ (W \union {t}) : Wants(x)' = Wants(x)
  BY <1>1, <1>3 DEF Wants, Cur
<1>6. Wants(t)' = Wants(t)
  BY <1>1, <1>2, <1>3 DEF Wants
<1>7. QED BY <1>3, <1>4, <1>5, <1>6 DEF Events!eventVars

\* NtSetEvent and NtResetEvent map to Set, Reset or a stutter of NtEvent; the
\* clock and the exit of a thread map to a stutter.
LEMMA MapEvent ==
  ASSUME TypeOK, NEW t \in Thread,
         \/ \E e \in Event : SetLock(t, e) \/ ResetLock(t, e)
         \/ SetStore(t) \/ ResetStore(t) \/ Exit(t) \/ DeadlinePasses(t)
  PROVE  [Events!Next]_(Events!eventVars)
<1>1. \A x \in Thread \ {t} : Wants(x)' = Wants(x)
  <2>1. ~SetNotify(t)
    BY DEF SetNotify, SetLock, ResetLock, SetStore, ResetStore, Exit, DeadlinePasses
  <2>2. result' = result
    BY DEF SetLock, ResetLock, SetStore, ResetStore, Exit, DeadlinePasses
  <2>3. QED BY <2>1, <2>2, OneMoves, WantsSame DEF Begin, Proceed
<1>2. Wants(t)' = Wants(t)
  <2>1. CASE DeadlinePasses(t) BY <2>1, WantsSame DEF DeadlinePasses, Same
  <2>2. CASE ~DeadlinePasses(t)
    BY <2>2 DEF SetLock, ResetLock, SetStore, ResetStore, Exit, TypeOK, Go, Wants
  <2>3. QED BY <2>1, <2>2
<1>3. \/ UNCHANGED signaled
      \/ \E e \in Event : \/ signaled' = [signaled EXCEPT ![e] = TRUE]
                          \/ signaled' = [signaled EXCEPT ![e] = FALSE]
  BY DEF SetLock, ResetLock, SetStore, ResetStore, Exit, DeadlinePasses,
         TypeOK, Fits, AtEvent, Holding
<1>4. UNCHANGED got
  BY DEF SetLock, ResetLock, SetStore, ResetStore, Exit, DeadlinePasses
<1>5. QED BY <1>1, <1>2, <1>3, <1>4, MapOne

\* The steps of NtWaitForSingleObject map to Ask, Take, GiveUp or a stutter.
LEMMA MapWait ==
  ASSUME TypeOK, Undecided, NEW t \in Thread,
         \/ \E kind \in {"all", "any"}, objs \in Arrays, timeout \in Timeouts :
              WaitCall(t, kind, objs, timeout)
         \/ ObjLock(t) \/ TakeSignal(t) \/ TestSleep(t) \/ SpuriousWake(t)
         \/ TimeoutWake(t) \/ TimeoutWins(t) \/ Relock(t)
         \/ Leave(t) \/ ObjJoin(t) \/ ObjOther(t)
  PROVE  [Events!Next]_(Events!eventVars)
<1>1. \A x \in Thread \ {t} : Wants(x)' = Wants(x)
  <2>1. ~SetNotify(t)
    BY DEF SetNotify, WaitCall, ObjLock, TakeSignal, TestSleep, SpuriousWake,
           TimeoutWake, TimeoutWins, Relock, Leave, ObjJoin, ObjOther
  <2>2. \A x \in Thread \ {t} : result'[x] = result[x]
    BY DEF TypeOK, WaitCall, ObjLock, TakeSignal, TestSleep, SpuriousWake,
           TimeoutWake, TimeoutWins, Relock, Leave, ObjJoin, ObjOther
  <2>3. QED BY <2>1, <2>2, OneMoves, WantsSame DEF Begin, Acquire, Proceed
<1>2. CASE TakeSignal(t)
  <2>1. Cur(t) \in Event BY <1>2 DEF TakeSignal, TypeOK, Fits, AtEvent, Holding
  <2>2. idx[t] \in DOMAIN call[t].objs
    BY <1>2 DEF TakeSignal, TypeOK, Fits, AtEvent, Holding, Call
  <2>3. Cur(t) \in Wants(t) BY <1>2, <2>1, <2>2 DEF TakeSignal, Wants, Cur
  <2>4. Wants(t)' = {} BY <1>2 DEF TakeSignal, TypeOK, Undecided, Go, Wants
  <2>5. QED BY <1>1, <1>2, <2>3, <2>4, MapOne DEF TakeSignal
<1>3. CASE \/ \E kind \in {"all", "any"}, objs \in Arrays, timeout \in Timeouts :
                WaitCall(t, kind, objs, timeout)
           \/ ObjJoin(t) \/ ObjOther(t)
  <2>1. Wants(t) = {}
    BY <1>3, SyncAssumption DEF WaitCall, ObjJoin, ObjOther, Wants
  <2>2. UNCHANGED signaled /\ Events!NothingTaken(t)
    BY <1>3, MapReturn DEF WaitCall, ObjJoin, ObjOther, Events!NothingTaken
  <2>3. QED BY <1>1, <2>1, <2>2, MapOne
<1>4. CASE Leave(t)
  <2>1. UNCHANGED signaled /\ Events!NothingTaken(t)
    BY <1>4, MapReturn DEF Leave, PassOn
  <2>2. CASE Return(t) BY <1>1, <2>1, <2>2, MapReturn, MapOne
  <2>3. CASE ~Return(t)
    <3>1. Wants(t) = {} BY <1>4, <2>3 DEF Leave, PassOn, Wants
    <3>2. QED BY <1>1, <2>1, <3>1, MapOne
  <2>4. QED BY <2>2, <2>3
<1>5. CASE \/ ObjLock(t) \/ SpuriousWake(t) \/ Relock(t) \/ TimeoutWake(t)
           \/ TimeoutWins(t) \/ TestSleep(t)
  <2>1. Wants(t)' = Wants(t)
    <3> USE DEF TypeOK, Undecided, Go, Wants, Cur
    <3>1. CASE ObjLock(t) \/ SpuriousWake(t)
      <4>1. /\ pc[t] \in {"obj", "block"} /\ pc'[t] \in {"test", "relock"}
            /\ UNCHANGED <<call, idx>>
        BY <3>1 DEF ObjLock, SpuriousWake
      <4>2. QED BY <4>1
    <3>2. CASE Relock(t)
      <4>1. /\ pc[t] = "relock" /\ UNCHANGED <<call, idx, result>>
            /\ pc'[t] = IF result[t] = "success" THEN "test" ELSE "leave"
        BY <3>2 DEF Relock
      <4>2. QED BY ONLY <4>1 DEF Wants, Cur
    <3>3. CASE TimeoutWake(t) BY <3>3 DEF TimeoutWake
    <3>4. CASE TimeoutWins(t) BY <3>4 DEF TimeoutWins
    <3>5. CASE TestSleep(t)
      BY <3>5 DEF TestSleep
    <3>6. QED BY <1>5, <3>1, <3>2, <3>3, <3>4, <3>5
  <2>2. UNCHANGED <<signaled, got>>
    BY <1>5 DEF ObjLock, SpuriousWake, Relock, TimeoutWake, TimeoutWins, TestSleep
  <2>3. QED BY <1>1, <2>1, <2>2, MapOne
<1>6. QED BY <1>2, <1>3, <1>4, <1>5

\* So do those of the WaitAnyObject scan.
LEMMA MapAny ==
  ASSUME TypeOK, NEW t \in Thread,
         AnyLock(t) \/ AnySkip(t) \/ AnyJoin(t) \/ AnyOther(t) \/ AnyEnd(t)
  PROVE  [Events!Next]_(Events!eventVars)
<1>1. \A x \in Thread \ {t} : Wants(x)' = Wants(x)
  <2>1. ~SetNotify(t)
    BY DEF SetNotify, AnyLock, AnySkip, AnyJoin, AnyOther, AnyEnd
  <2>2. \A x \in Thread \ {t} : result'[x] = result[x]
    BY DEF TypeOK, AnyLock, AnySkip, AnyJoin, AnyOther, AnyEnd
  <2>3. QED BY <2>1, <2>2, OneMoves, WantsSame DEF Acquire, Proceed
<1>2. ASSUME NextObj(t) \/ AnyLock(t) \/ (AnyEnd(t) /\ ~Return(t)),
             pc[t] \in {"scan", "peek"}
      PROVE  Wants(t)' = Wants(t) /\ UNCHANGED got
  BY <1>2 DEF NextObj, AnyLock, AnyEnd, TypeOK, Go, Wants
<1>3. UNCHANGED signaled /\ pc[t] \in {"scan", "peek"}
  BY DEF AnyLock, AnySkip, AnyJoin, AnyOther, AnyEnd
<1>4. CASE Return(t) BY <1>1, <1>3, <1>4, MapReturn, MapOne
<1>5. CASE ~Return(t)
  <2>1. Wants(t)' = Wants(t) /\ UNCHANGED got
    BY <1>2, <1>3, <1>5 DEF AnySkip, AnyJoin, AnyOther
  <2>2. QED BY <1>1, <1>3, <2>1, MapOne
<1>6. QED BY <1>4, <1>5

\* The mutex and condition variable implement NtEvent: the safety part of
\* the refinement that the runs check.
THEOREM Refinement == Spec => ImplementsNtEventSafely
<1>1. Init => Events!Init
  BY DEF Init, Events!Init, Wants
<1>2. TypeOK /\ Undecided /\ [Next]_vars => [Events!Next]_(Events!eventVars)
  <2>1. ASSUME UNCHANGED vars PROVE UNCHANGED Events!eventVars
    BY <2>1 DEF vars, Events!eventVars, Wants, Cur
  <2>2. ASSUME TypeOK, Undecided, NEW t \in Thread,
               Begin(t) \/ Acquire(t) \/ Proceed(t) \/ DeadlinePasses(t)
        PROVE  [Events!Next]_(Events!eventVars)
    BY <2>2, MapNotify, MapEvent, MapWait, MapAny DEF Begin, Acquire, Proceed
  <2>3. QED BY <2>1, <2>2 DEF Next
<1>3. Init => Undecided BY DEF Init, Undecided
<1>4. TypeOK /\ Undecided /\ [Next]_vars => Undecided'
  <2>1. ASSUME TypeOK, Undecided, UNCHANGED vars PROVE Undecided'
    BY <2>1 DEF Undecided, vars
  <2>2. QED BY <2>1, UndecidedStep DEF Next
<1>5. QED
  BY <1>1, <1>2, <1>3, <1>4, TypeCorrect, PTL
  DEF Spec, ImplementsNtEventSafely, Events!SafeSpec

-----------------------------------------------------------------------------
(* The wait services: a thread goes on to the next element of its array    *)
(* only when the current one has been waited for, and is told of a timeout *)
(* only when its deadline is over.                                         *)

\* The element i of the array has been waited for.
Waited(t, i) ==
  \/ call[t].objs[i] \in joined \union {FileHandle}
  \/ \E k \in DOMAIN got[t] : got[t][k] = call[t].objs[i]

\* What the program counter of a thread says of the service it is in, of the
\* status, and of the elements before the current one.
Progress(t) ==
  /\ pc[t] \in {"store", "notify", "clear"} => call[t].kind \in {"set", "reset"}
  /\ pc[t] \in {"obj", "test", "block", "relock"} => call[t].kind = "all"
  /\ pc[t] \in {"scan", "peek"} => call[t].kind = "any"
  /\ pc[t] \in {"obj", "test", "block", "scan", "peek"} => result[t] = "success"
  /\ pc[t] \in {"relock", "leave"} =>
       result[t] = "success" \/ (result[t] = "timeout" /\ late[t])
  /\ call[t].kind = "all" =>
       /\ \A i \in 1 .. idx[t] - 1 : Waited(t, i)
       /\ pc[t] = "leave" /\ result[t] = "success" => Waited(t, idx[t])

InProgress == \A t \in Thread : Progress(t)

\* A step of another thread leaves that alone.
LEMMA ProgressFrame ==
  ASSUME NEW x, Progress(x), Same(x),
         result'[x] = result[x], late'[x] = late[x], got'[x] = got[x],
         joined \subseteq joined'
  PROVE  Progress(x)'
<1>1. \A i : Waited(x, i) => Waited(x, i)' BY DEF Waited, Same
<1>2. QED BY <1>1 DEF Progress, Same

LEMMA ProgressReturn ==
  ASSUME TypeOK, InProgress, NEW t \in Thread, Return(t), joined \subseteq joined',
         \A x \in Thread \ {t} : result'[x] = result[x]
  PROVE  InProgress'
<1> USE DEF TypeOK, InProgress, Return, Go
<1>1. \A x \in Thread \ {t} : Progress(x)' BY ProgressFrame DEF Same
<1>2. Progress(t)' BY DEF Progress, NoCall
<1>3. QED BY <1>1, <1>2

LEMMA ProgressAdvance ==
  ASSUME TypeOK, InProgress, NEW t \in Thread, Advance(t), joined \subseteq joined',
         pc[t] \in {"obj", "leave"}, call[t].kind = "all", UNCHANGED result, 
         result[t] = "success",
         \/ Cur(t) \in joined' \union {FileHandle}
         \/ \E k \in DOMAIN got[t] : got[t][k] = Cur(t)
  PROVE  InProgress'
<1>1. CASE idx[t] < Len(call[t].objs)
  <2> USE <1>1 DEF TypeOK, InProgress, Advance, Go
  <2>1. \A x \in Thread \ {t} : Progress(x)' BY ProgressFrame DEF Same
  <2>2. idx'[t] = idx[t] + 1 /\ idx[t] \in Nat /\ call' = call /\ got' = got OBVIOUS
  <2>3. \A i : Waited(t, i) => Waited(t, i)' BY <2>2 DEF Waited
  <2>4. \A i \in 1 .. idx'[t] - 1 : Waited(t, i)'
    <3>1. \A i \in 1 .. idx[t] - 1 : Waited(t, i)' BY <2>3 DEF Progress
    <3>2. \A i : i = idx[t] => Waited(t, i)' BY <2>2 DEF Waited, Cur
    <3>3. QED BY <2>2, <3>1, <3>2
  <2>5. Progress(t)' BY <2>2, <2>4 DEF Progress
  <2>6. QED BY <2>1, <2>5
<1>2. CASE ~(idx[t] < Len(call[t].objs))
  BY <1>2, ProgressReturn DEF Advance
<1>3. QED BY <1>1, <1>2

\* Starting and ending the operations on one event.
LEMMA ProgressSet ==
  ASSUME TypeOK, InProgress, NEW t \in Thread
  PROVE  /\ \A e \in Event : SetLock(t, e) \/ ResetLock(t, e) => InProgress'
         /\ SetStore(t) \/ SetNotify(t) \/ ResetStore(t) => InProgress'
<1> USE DEF TypeOK, InProgress
<1>1. ASSUME NEW e \in Event, SetLock(t, e) \/ ResetLock(t, e) PROVE InProgress'
  <2> USE <1>1 DEF SetLock, ResetLock, On, Go
  <2>1. \A x \in Thread \ {t} : Progress(x)' BY ProgressFrame DEF Same
  <2>2. Progress(t)' BY DEF Progress
  <2>3. QED BY <2>1, <2>2
<1>2. ASSUME SetStore(t) PROVE InProgress'
  <2> USE <1>2 DEF SetStore, Go
  <2>1. \A x \in Thread \ {t} : Progress(x)' BY ProgressFrame DEF Same
  <2>2. Progress(t)' BY DEF Progress, Waited
  <2>3. QED BY <2>1, <2>2
<1>3. ASSUME SetNotify(t) PROVE InProgress'
  <2>1. PICK W \in Woken(Cur(t)) :
          pc' = [x \in Thread |-> IF x \in W THEN "relock"
                                  ELSE IF x = t THEN "idle" ELSE pc[x]]
    BY <1>3 DEF SetNotify
  <2>2. \A x \in W : x \in Thread /\ pc[x] = "block"
    BY <2>1 DEF Woken, Asleep
  <2> USE <1>3, <2>1, <2>2 DEF SetNotify
  <2>3. \A x \in Thread \ (W \union {t}) : Progress(x)' BY ProgressFrame DEF Same
  <2>4. Progress(t)' BY DEF Progress, NoCall
  <2>5. \A x \in W : Progress(x)' BY DEF Progress, Waited
  <2>6. QED BY <2>3, <2>4, <2>5
<1>4. ASSUME ResetStore(t) PROVE InProgress'
  <2> USE <1>4 DEF ResetStore, Go
  <2>1. \A x \in Thread \ {t} : Progress(x)' BY ProgressFrame DEF Same
  <2>2. Progress(t)' BY DEF Progress, NoCall
  <2>3. QED BY <2>1, <2>2
<1>5. QED BY <1>1, <1>2, <1>3, <1>4

\* A wait on one object goes on.
LEMMA ProgressWait ==
  ASSUME TypeOK, InProgress, NEW t \in Thread
  PROVE  /\ \A kind \in {"all", "any"}, objs \in Arrays, timeout \in Timeouts :
              WaitCall(t, kind, objs, timeout) => InProgress'
         /\ \/ ObjLock(t) \/ TakeSignal(t) \/ TestSleep(t) \/ SpuriousWake(t)
            \/ TimeoutWake(t) \/ TimeoutWins(t) \/ Relock(t) \/ Exit(t)
            \/ DeadlinePasses(t) \/ AnyLock(t)
            => InProgress'
<1> USE DEF TypeOK, InProgress
<1>1. ASSUME NEW kind \in {"all", "any"}, NEW objs \in Arrays, NEW timeout \in Timeouts,
             WaitCall(t, kind, objs, timeout)
      PROVE  InProgress'
  <2> USE <1>1 DEF WaitCall, Go
  <2>1. \A x \in Thread \ {t} : Progress(x)' BY ProgressFrame DEF Same
  <2>2. idx'[t] = 1 BY DEF Fits
  <2>3. Progress(t)' BY <2>2 DEF Progress
  <2>4. QED BY <2>1, <2>3
<1>2. ASSUME TakeSignal(t) PROVE InProgress'
  <2> USE <1>2 DEF TakeSignal, Go
  <2>1. \A x \in Thread \ {t} : Progress(x)' BY ProgressFrame DEF Same
  <2>2. Cur(t) \in Event BY DEF Fits, AtEvent, Holding
  <2>3. /\ Len(got[t]) \in Nat
        /\ got'[t] = Append(got[t], Cur(t))
        /\ DOMAIN got'[t] = 1 .. Len(got[t]) + 1
        /\ got'[t][Len(got[t]) + 1] = Cur(t)
        /\ \A k \in DOMAIN got[t] : k \in DOMAIN got'[t] /\ got'[t][k] = got[t][k]
    BY <2>2
  <2>4. \A i : Waited(t, i) => Waited(t, i)' BY <2>3 DEF Waited
  <2>5. Waited(t, idx[t])' BY <2>3 DEF Waited, Cur
  <2>6. Progress(t)' BY <2>4, <2>5 DEF Progress
  <2>7. QED BY <2>1, <2>6
<1>3. ASSUME ObjLock(t) \/ SpuriousWake(t) \/ TestSleep(t) \/ TimeoutWake(t) \/ AnyLock(t)
             \/ TimeoutWins(t) \/ Relock(t) \/ Exit(t) \/ DeadlinePasses(t)
      PROVE  InProgress'
  <2> USE <1>3 DEF ObjLock, SpuriousWake, TestSleep, TimeoutWake, AnyLock, TimeoutWins,
      Relock, Exit, DeadlinePasses, Go
  <2>1. \A x \in Thread \ {t} : Progress(x)' BY ProgressFrame DEF Same
  <2>2. UNCHANGED <<call, got, joined, idx>> OBVIOUS
  <2>3. \A i : Waited(t, i)' <=> Waited(t, i) BY <2>2 DEF Waited
  <2>4. Progress(t)' BY <2>2, <2>3 DEF Progress
  <2>5. QED BY <2>1, <2>4
<1>4. QED BY <1>1, <1>2, <1>3

\* An object has ended its wait, or the scan goes on.
LEMMA ProgressObject ==
  ASSUME TypeOK, InProgress, NEW t \in Thread
  PROVE  Leave(t) \/ ObjJoin(t) \/ ObjOther(t) \/ AnySkip(t) \/ AnyJoin(t)
           \/ AnyOther(t) \/ AnyEnd(t) => InProgress'
<1>0. Progress(t) BY DEF InProgress
<1>a. ASSUME NextObj(t), pc[t] \in {"scan", "peek"}, UNCHANGED <<result, joined>>
      PROVE  InProgress'
  <2> USE <1>a DEF TypeOK, InProgress, NextObj, Go
  <2>1. \A x \in Thread \ {t} : Progress(x)' BY ProgressFrame DEF Same
  <2>2. Progress(t)' BY DEF Progress
  <2>3. QED BY <2>1, <2>2
<1>1. ASSUME Leave(t) PROVE InProgress'
  <2>1. CASE Return(t) BY <1>1, <2>1, ProgressReturn DEF Leave
  <2>2. CASE Advance(t) /\ result[t] = "success" /\ call[t].kind = "all"
    <3>1. Waited(t, idx[t]) BY <1>0, <1>1, <2>2 DEF Progress, Leave
    <3>2. QED BY <1>1, <2>2, <3>1, ProgressAdvance DEF Leave, Waited, Cur
  <2>3. QED BY <1>1, <2>1, <2>2 DEF Leave, PassOn
<1>2. ASSUME ObjJoin(t) PROVE InProgress'
  <2>1. call[t].kind = "all" /\ result[t] = "success"
    BY <1>0, <1>2 DEF Progress, ObjJoin
  <2>2. QED BY <1>2, <2>1, ProgressAdvance DEF ObjJoin
<1>3. ASSUME ObjOther(t) PROVE InProgress'
  <2>1. call[t].kind = "all" /\ result[t] = "success"
    BY <1>0, <1>3 DEF Progress, ObjOther
  <2>2. CASE Advance(t) /\ Cur(t) = FileHandle /\ UNCHANGED result
    BY <1>3, <2>1, <2>2, ProgressAdvance DEF ObjOther
  <2>3. CASE Return(t) /\ result' = [result EXCEPT ![t] = "access_violation"]
    <3>1. \A x \in Thread \ {t} : result'[x] = result[x] BY <2>3 DEF TypeOK
    <3>2. QED BY <1>3, <2>3, <3>1, ProgressReturn DEF ObjOther
  <2>4. QED BY <1>3, <2>2, <2>3 DEF ObjOther
<1>4. ASSUME AnySkip(t) PROVE InProgress' BY <1>4, <1>a DEF AnySkip
<1>5. ASSUME AnyJoin(t) PROVE InProgress' BY <1>5, ProgressReturn DEF AnyJoin
<1>6. ASSUME AnyOther(t) PROVE InProgress'
  BY <1>6, <1>a, ProgressReturn DEF AnyOther
<1>7. ASSUME AnyEnd(t) PROVE InProgress'
  <2>1. CASE Return(t) /\ result' = [result EXCEPT ![t] = "timeout"]
    <3>1. \A x \in Thread \ {t} : result'[x] = result[x] BY <2>1 DEF TypeOK
    <3>2. QED BY <1>7, <2>1, <3>1, ProgressReturn DEF AnyEnd
  <2>2. CASE idx' = [idx EXCEPT ![t] = 1] /\ UNCHANGED <<pc, call, late, result, got>>
    <3> USE <1>7, <2>2 DEF AnyEnd, TypeOK, InProgress
    <3>1. \A x \in Thread \ {t} : Progress(x)' BY ProgressFrame DEF Same
    <3>2. Progress(t)' BY DEF Progress
    <3>3. QED BY <3>1, <3>2
  <2>3. QED BY <1>7, <2>1, <2>2 DEF AnyEnd
<1>8. QED BY <1>1, <1>2, <1>3, <1>4, <1>5, <1>6, <1>7

\* A wait goes on from element to element, and is told of a timeout when its
\* deadline is over, in every reachable state.
THEOREM WaitsProgress == Spec => []InProgress
<1>1. Init => InProgress
  <2> SUFFICES ASSUME Init, NEW t \in Thread PROVE Progress(t) BY DEF InProgress
  <2>1. pc[t] = "idle" /\ call[t].kind = "none" BY DEF Init, NoCall
  <2>2. QED BY <2>1 DEF Progress
<1>2. TypeOK /\ InProgress /\ [Next]_vars => InProgress'
  <2>1. ASSUME TypeOK, InProgress, UNCHANGED vars PROVE InProgress'
    BY <2>1, ProgressFrame DEF InProgress, Same, vars
  <2>2. QED BY <2>1, ProgressSet, ProgressWait, ProgressObject
               DEF Next, Begin, Acquire, Proceed
<1>3. QED BY <1>1, <1>2, TypeCorrect, PTL DEF Spec

\* A step in which a wait service returns is one of its own last steps.
LEMMA WaitReturns ==
  ASSUME TypeOK, InProgress, NEW t \in Thread, NEW x \in Thread, Returns(x),
         call[x].kind \in {"all", "any"},
         Begin(t) \/ Acquire(t) \/ Proceed(t) \/ DeadlinePasses(t)
  PROVE  /\ x = t
         /\ Leave(t) \/ ObjJoin(t) \/ ObjOther(t) \/ AnyJoin(t) \/ AnyOther(t) \/ AnyEnd(t)
<1>1. /\ pc[x] # "idle" /\ pc'[x] = "idle"
      /\ pc[x] \notin {"store", "notify", "clear"}
  BY DEF Returns, InProgress, Progress
<1>2. ~SetNotify(t)
  <2> SUFFICES ASSUME SetNotify(t) PROVE FALSE OBVIOUS
  <2>1. x # t BY <1>1 DEF SetNotify
  <2>2. PICK W \in Woken(Cur(t)) :
          pc' = [y \in Thread |-> IF y \in W THEN "relock"
                                  ELSE IF y = t THEN "idle" ELSE pc[y]]
    BY DEF SetNotify
  <2>3. QED BY <1>1, <2>1, <2>2
<1>3. x = t BY <1>1, <1>2, OneMoves DEF Same
<1>4. pc \in [Thread -> Label] BY DEF TypeOK
<1>5. ~Begin(t) /\ ~Acquire(t) /\ ~DeadlinePasses(t)
  BY <1>1, <1>3, <1>4 DEF Begin, SetLock, ResetLock, WaitCall, SpuriousWake,
     TimeoutWins, Exit, Acquire, ObjLock, Relock, AnyLock, DeadlinePasses, Go
<1>6. ~SetStore(t) /\ ~ResetStore(t) /\ ~TakeSignal(t) /\ ~TestSleep(t)
      /\ ~TimeoutWake(t) /\ ~AnySkip(t)
  BY <1>1, <1>3, <1>4 DEF SetStore, ResetStore, TakeSignal, TestSleep, TimeoutWake,
     AnySkip, NextObj, Go
<1>7. QED BY <1>2, <1>3, <1>5, <1>6 DEF Proceed

\* In such a step of a WaitAllObject call that reports success, the current
\* element is the last one and its wait has succeeded too.
LEMMA LastElement ==
  ASSUME TypeOK, InProgress, NEW t \in Thread, Returns(t), call[t].kind = "all",
         result'[t] = "success",
         Leave(t) \/ ObjJoin(t) \/ ObjOther(t) \/ AnyJoin(t) \/ AnyOther(t) \/ AnyEnd(t)
  PROVE  /\ idx[t] = Len(call[t].objs)
         /\ Cur(t) \in joined' \union {FileHandle}
            \/ \E k \in DOMAIN got[t] : got[t][k] = Cur(t)
<1>1. Progress(t) /\ Fits(t) /\ pc'[t] = "idle" /\ pc \in [Thread -> Label]
  BY DEF InProgress, TypeOK, Returns
<1>2. ~AnyJoin(t) /\ ~AnyOther(t) /\ ~AnyEnd(t)
  BY <1>1 DEF Progress, AnyJoin, AnyOther, AnyEnd
<1>3. ASSUME Advance(t) PROVE ~(idx[t] < Len(call[t].objs))
  BY <1>1, <1>3 DEF Advance, Go
<1>4. idx[t] <= Len(call[t].objs) /\ idx[t] \in Nat /\ Len(call[t].objs) \in Nat
  BY <1>1, <1>2 DEF Fits, AtEvent, Holding, TypeOK, Call, Leave, ObjJoin, ObjOther
<1>5. CASE Leave(t)
  <2>1. result[t] = "success" BY <1>5 DEF Leave
  <2>2. Advance(t) BY <1>5, <2>1 DEF Leave, PassOn
  <2>3. Waited(t, idx[t]) BY <1>1, <1>5, <2>1 DEF Progress, Leave
  <2>4. joined' = joined BY <1>5 DEF Leave
  <2>5. QED BY <1>3, <1>4, <2>2, <2>3, <2>4 DEF Waited, Cur
<1>6. CASE ObjJoin(t) BY <1>3, <1>4, <1>6 DEF ObjJoin
<1>7. CASE ObjOther(t)
  <2>1. result \in [Thread -> {"success", "timeout", "access_violation"}] BY DEF TypeOK
  <2>2. Advance(t) /\ Cur(t) = FileHandle BY <1>7, <2>1 DEF ObjOther
  <2>3. QED BY <1>3, <1>4, <2>2
<1>8. QED BY <1>2, <1>5, <1>6, <1>7

\* A WaitAllObject call of NtWaitForMultipleObjects (sync.c:149) that reports
\* success has waited for every element of its array.
THEOREM AllAreWaitedFor == Spec => WaitAllComplete
<1> DEFINE Done(t) ==
      Returns(t) /\ call[t].kind = "all" /\ result'[t] = "success" =>
        \A i \in DOMAIN call[t].objs :
          \/ call[t].objs[i] \in joined' \union {FileHandle}
          \/ \E k \in DOMAIN got[t] : got[t][k] = call[t].objs[i]
<1>1. TypeOK /\ InProgress /\ [Next]_vars => [\A t \in Thread : Done(t)]_vars
  <2> SUFFICES ASSUME TypeOK, InProgress, Next, NEW x \in Thread, Returns(x),
                      call[x].kind = "all", result'[x] = "success",
                      NEW i \in DOMAIN call[x].objs
               PROVE  \/ call[x].objs[i] \in joined' \union {FileHandle}
                      \/ \E k \in DOMAIN got[x] : got[x][k] = call[x].objs[i]
    OBVIOUS
  <2>1. PICK t \in Thread : Begin(t) \/ Acquire(t) \/ Proceed(t) \/ DeadlinePasses(t)
    BY DEF Next
  <2>2. /\ x = t
        /\ Leave(x) \/ ObjJoin(x) \/ ObjOther(x) \/ AnyJoin(x) \/ AnyOther(x) \/ AnyEnd(x)
    BY <2>1, WaitReturns
  <2>3. /\ idx[x] = Len(call[x].objs)
        /\ Cur(x) \in joined' \union {FileHandle}
           \/ \E k \in DOMAIN got[x] : got[x][k] = Cur(x)
    BY <2>2, LastElement
  <2>4. i \in 1 .. idx[x] - 1 \/ i = idx[x]
    <3>1. call[x].objs \in Seq(Handle) /\ idx[x] \in Nat BY DEF TypeOK, Call
    <3>2. QED BY <2>3, <3>1
  <2>5. CASE i = idx[x] BY <2>3, <2>5 DEF Cur
  <2>6. CASE i \in 1 .. idx[x] - 1
    <3>1. Waited(x, i) BY <2>6 DEF InProgress, Progress
    <3>2. joined \subseteq joined'
      BY <2>2 DEF Leave, ObjJoin, ObjOther, AnyJoin, AnyOther, AnyEnd
    <3>3. QED BY <3>1, <3>2 DEF Waited
  <2>7. QED BY <2>4, <2>5, <2>6
<1>2. QED BY <1>1, TypeCorrect, WaitsProgress, PTL DEF Spec, WaitAllComplete

\* STATUS_TIMEOUT is reported after the deadline of pthread_cond_timedwait
\* (sync.c:103) or of the scan (sync.c:202) only, or by a WaitAnyObject call
\* whose Timeout is zero: never after a wakeup nobody asked for.
THEOREM TimeoutsAreDue == Spec => TimeoutIsDue
<1> DEFINE Due(t) ==
      Returns(t) /\ call[t].kind \in {"all", "any"} /\ result'[t] = "timeout" =>
        \/ late[t]
        \/ call[t].kind = "any" /\ call[t].timeout = "zero"
<1>1. TypeOK /\ InProgress /\ [Next]_vars => [\A t \in Thread : Due(t)]_vars
  <2> SUFFICES ASSUME TypeOK, InProgress, Next, NEW x \in Thread, Returns(x),
                      call[x].kind \in {"all", "any"}, result'[x] = "timeout"
               PROVE  late[x] \/ (call[x].kind = "any" /\ call[x].timeout = "zero")
    OBVIOUS
  <2>1. PICK t \in Thread : Begin(t) \/ Acquire(t) \/ Proceed(t) \/ DeadlinePasses(t)
    BY DEF Next
  <2>2. Leave(x) \/ ObjJoin(x) \/ ObjOther(x) \/ AnyJoin(x) \/ AnyOther(x) \/ AnyEnd(x)
    BY <2>1, WaitReturns
  <2>3. Progress(x) BY DEF InProgress
  <2>4. CASE Leave(x) BY <2>3, <2>4 DEF Progress, Leave
  <2>5. CASE ObjJoin(x) BY <2>3, <2>5 DEF Progress, ObjJoin
  <2>6. CASE ObjOther(x)
    <3>1. result \in [Thread -> {"success", "timeout", "access_violation"}] BY DEF TypeOK
    <3>2. QED BY <2>3, <2>6, <3>1 DEF Progress, ObjOther
  <2>7. CASE AnyJoin(x) \/ AnyOther(x)
    BY <2>3, <2>7 DEF Progress, AnyJoin, AnyOther
  <2>8. CASE AnyEnd(x) BY <2>3, <2>8 DEF Progress, AnyEnd
  <2>9. QED BY <2>2, <2>4, <2>5, <2>6, <2>7, <2>8
<1>2. QED BY <1>1, TypeCorrect, WaitsProgress, PTL DEF Spec, TimeoutIsDue

=============================================================================
