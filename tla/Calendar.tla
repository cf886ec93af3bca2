------------------------------ MODULE Calendar ------------------------------
(***************************************************************************)
(* The UTC calendar the archive is partitioned by.  One unit of time is    *)
(* one second of the code's clock; a day is DayLen of them and a month     *)
(* directory holds DaysPerMonth day directories (the year level behaves    *)
(* like the month level and is left out).                                  *)
(***************************************************************************)
EXTENDS Integers

CONSTANTS
  DayLen,         \* seconds in a day
  DaysPerMonth,   \* day directories under one month directory
  Retention       \* storage.retention: how long an archived day is kept

ASSUME CalendarAssumption ==
  /\ DayLen \in Nat \ {0}
  /\ DaysPerMonth \in Nat \ {0}
  /\ Retention \in Nat

\* The partition an instant belongs to (year/month/day of `received_ms`).
Day(t) == t \div DayLen

Month(d) == d \div DaysPerMonth

\* 00:00:00 and 23:59:59 of a day.
StartOfDay(d) == d * DayLen
EndOfDay(d) == (d + 1) * DayLen - 1

\* The retention test of the compactor: the day ended before now - retention.
DayOver(d, t) == EndOfDay(d) < t - Retention
=============================================================================
