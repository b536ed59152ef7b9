------------------------------- MODULE KbdMC -------------------------------
(* Instances of Kbd for TLC. *)
EXTENDS Kbd, TLC

CONSTANTS t1, t2, k0, k1

\* The countdown waits for both keyboards, a single wait for one.
BothUnits == {<<k0, k1>>}
OneUnit == {<<k0>>}

\* Waits of different threads for different keyboards, in both orders.
AllUnits == {<<k0, k1>>, <<k1>>}

Threads2 == Permutations({t1, t2})
=============================================================================
