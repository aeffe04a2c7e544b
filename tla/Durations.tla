----------------------------- MODULE Durations ------------------------------
(***************************************************************************)
(* How the reporters round durations (pkg/reporter/durationutils.go).      *)
(* Durations are whole numbers of nanoseconds, and never negative.         *)
(***************************************************************************)
EXTENDS Integers

CONSTANTS Microsecond, Millisecond, Second, Minute  \* in nanoseconds

Divides(m, n) == n % m = 0

ASSUME DurationsAssumption ==
  /\ {Microsecond, Millisecond, Second, Minute} \subseteq Nat \ {0}
  /\ Divides(10, Microsecond) /\ Divides(10 * Microsecond, Millisecond)
  /\ Divides(10 * Millisecond, Second) /\ Divides(10 * Second, Minute)

(* time.Duration.Round: to the nearest multiple, halfway values up.        *)
Round(d, unit) == IF 2 * (d % unit) < unit THEN d - (d % unit) ELSE d + unit - (d % unit)

(* What a duration is rounded to, the finer the shorter it is.             *)
Unit(d) ==
  IF d > Minute THEN 10 * Second
  ELSE IF d > Second THEN 10 * Millisecond
  ELSE IF d > Millisecond THEN 10 * Microsecond
  ELSE IF d > Microsecond THEN 10
  ELSE 1

RoundDuration(d) == Round(d, Unit(d))

Milliseconds(d) == d \div Millisecond
=============================================================================
