------------------------------ MODULE SyncMC ------------------------------
(* Instances of Sync for TLC. *)
EXTENDS Sync, TLC

CONSTANTS t1, t2, t3, en, es

\* One array per way in which two events can be waited for together.
EventArrays == {<<en>>, <<es>>, <<es, en>>}

\* Every type of handle.  t3's handle is waited for.
MixedArrays == {<<es>>, <<t3, es>>, <<NullHandle, es>>, <<es, FileHandle>>}

\* A running thread stands before the event.
ThreadArray == {<<t1, es>>}

Threads3 == Permutations({t1, t2, t3})
=============================================================================
