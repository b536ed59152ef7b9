-------------------------------- MODULE Clock --------------------------------
(***************************************************************************)
(* Deadlines of waits (interval_to_timespec of libs/ntdll/sync.c) and the  *)
(* clocks of time.c.  Units are those of the code at a smaller scale: a    *)
(* tick of NT is 100 ns, a microsecond has 10 of them, a second a million  *)
(* microseconds, a number 64 bits.                                         *)
(***************************************************************************)
EXTENDS Integers

CONSTANTS
  TickNs, UsecTicks, SecUsecs, \* 100, 10, 1000000
  Epoch,      \* ticks from 1601 to 1970
  Limit,      \* numbers are in -Limit .. Limit - 1
  Intervals,  \* what the guest waits for
  BootTicks,  \* when the machine was started, in ticks since 1970
  LastSecond  \* bound of the clock

ASSUME ClockAssumption ==
  /\ {TickNs, UsecTicks, SecUsecs, Limit} \subseteq Nat \ {0}
  /\ {Epoch, BootTicks, LastSecond} \subseteq Nat
  /\ Intervals \subseteq Int

VARIABLES
  now,      \* gettimeofday
  wait,     \* the last interval, when it was asked for, and its timespec
  counter   \* the last value of the performance counter, before it is scaled

clockVars == <<now, wait, counter>>

SecTicks == UsecTicks * SecUsecs
SecNs == SecTicks * TickNs
UsecNs == UsecTicks * TickNs

Ticks(t) == t.sec * SecTicks + t.usec * UsecTicks

NoWait == [interval |-> 0, at |-> 0, sec |-> 0, nsec |-> 0]

ClockInit ==
  /\ now = [sec |-> (BootTicks \div SecTicks) + 1, usec |-> 0]
  /\ wait = NoWait /\ counter = BootTicks

Tick ==
  /\ now.sec < LastSecond
  /\ now' = IF now.usec + 1 < SecUsecs THEN [now EXCEPT !.usec = @ + 1]
            ELSE [sec |-> now.sec + 1, usec |-> 0]
  /\ UNCHANGED <<wait, counter>>

-----------------------------------------------------------------------------
(* interval_to_timespec.                                                   *)

\* Signed overflow, which wraps in what compilers make of it.
Wrap(n) == ((n + Limit) % (2 * Limit)) - Limit

\* Division and remainder of C.
Quotient(a, b) == IF a < 0 THEN -((-a) \div b) ELSE a \div b
Remainder(a, b) == a - b * Quotient(a, b)

\* Faulty variant: an absolute time is not compared with the present.
OffsetUnclamped(interval) ==
  IF interval < 0 THEN Wrap(Wrap(-interval) * TickNs)
  ELSE Wrap(((interval - Epoch) - Ticks(now)) * TickNs)

Offset(interval) ==
  IF interval < 0 THEN Wrap(Wrap(-interval) * TickNs)
  ELSE LET ns == Wrap(((interval - Epoch) - Ticks(now)) * TickNs) IN IF ns < 0 THEN 0 ELSE ns

\* No interval, or zero: no timespec.
AskForWait(interval) ==
  LET offset == Offset(interval)
      sec == now.sec + Quotient(offset, SecNs)
      nsec == now.usec * UsecNs + Remainder(offset, SecNs)
  IN  /\ wait' = IF interval = 0 THEN NoWait
                 ELSE [interval |-> interval, at |-> Ticks(now),
                       sec |-> IF nsec >= SecNs THEN sec + 1 ELSE sec,
                       nsec |-> IF nsec >= SecNs THEN nsec - SecNs ELSE nsec]
      /\ UNCHANGED <<now, counter>>

-----------------------------------------------------------------------------
(* NtQueryPerformanceCounter.                                              *)

\* Whole seconds.
Uptime == (Ticks(now) - BootTicks) \div SecTicks

QueryPerformanceCounter ==
  /\ counter' = Ticks(now) - Uptime * SecTicks
  /\ UNCHANGED <<now, wait>>

ClockNext ==
  \/ Tick \/ QueryPerformanceCounter
  \/ \E interval \in Intervals : AskForWait(interval)

ClockSpec == ClockInit /\ [][ClockNext]_clockVars

-----------------------------------------------------------------------------
(* Properties.                                                             *)

\* The deadline is a proper timespec and lies as far ahead as the interval
\* says, or at the present for an absolute time that has passed, as long as
\* the distance in nanoseconds has 64 bits (interval_to_timespec).
DeadlineIsRight ==
  LET distance == IF wait.interval < 0 THEN -wait.interval
                  ELSE (wait.interval - Epoch) - wait.at
  IN  wait.interval # 0 /\ distance * TickNs \in -Limit .. Limit - 1 =>
        /\ wait.nsec \in 0 .. SecNs - 1
        /\ wait.sec * SecNs + wait.nsec =
             (wait.at + (IF distance < 0 THEN 0 ELSE distance)) * TickNs

\* The performance counter stands still: what is taken off the time is the
\* time since the machine was started, not the time at which it was, so that
\* the counter goes through the same second again and again (time.c 79).
CounterStaysInSecond == counter \in BootTicks .. BootTicks + SecTicks - 1

=============================================================================
