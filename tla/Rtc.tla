-------------------------------- MODULE Rtc ---------------------------------
(***************************************************************************)
(* rtc_get_time of devices/rtc.c, which reads the six registers of a clock *)
(* that goes on ticking in between and starts again until the seconds are  *)
(* the same at the end as at the beginning.                                *)
(*                                                                         *)
(* A register holds a number in BCD; the clock itself is external.         *)
(***************************************************************************)
EXTENDS Integers, Sequences

CONSTANTS
  Starts,        \* times at which rtc_get_time may be called
  MaxTicks       \* bound: seconds that pass during the call, less than 60

RtcAssumption == MaxTicks \in 0..59

VARIABLES
  clock,         \* <<sec, min, hour, mday, mon, year>>
  seen,          \* the values read in this round
  ticks,
  shown,         \* history: the times the clock has shown
  result         \* time, or -1 before it is computed

vars == <<clock, seen, ticks, shown, result>>

SEC == 1
MIN == 2
HOUR == 3
MDAY == 4
MON == 5
YEAR == 6

BCD(x) == (x \div 10) * 16 + (x % 10)
bcd_to_bin(x) == (x % 16) + (x \div 16) * 10

cmos_read(reg) == BCD(clock[reg])

days_per_month == <<31, 28, 31, 30, 31, 30, 31, 31, 30, 31, 30, 31>>

(* The clock's own calendar: years 1970 to 2069 in two digits. *)
DaysOf(mon, year) == days_per_month[mon] + IF mon = 2 /\ year % 4 = 0 THEN 1 ELSE 0

(* A second passes. *)
Advance(c) ==
  IF c[SEC] < 59 THEN [c EXCEPT ![SEC] = @ + 1]
  ELSE IF c[MIN] < 59 THEN [c EXCEPT ![SEC] = 0, ![MIN] = @ + 1]
  ELSE IF c[HOUR] < 23 THEN [c EXCEPT ![SEC] = 0, ![MIN] = 0, ![HOUR] = @ + 1]
  ELSE IF c[MDAY] < DaysOf(c[MON], c[YEAR])
       THEN <<0, 0, 0, c[MDAY] + 1, c[MON], c[YEAR]>>
  ELSE IF c[MON] < 12 THEN <<0, 0, 0, 1, c[MON] + 1, c[YEAR]>>
  ELSE <<0, 0, 0, 1, 1, (c[YEAR] + 1) % 100>>

Init ==
  /\ clock \in Starts
  /\ shown = {clock}
  /\ seen = <<>> /\ ticks = 0 /\ result = -1

ClockTick ==
  /\ ticks < MaxTicks /\ result = -1
  /\ ticks' = ticks + 1
  /\ clock' = Advance(clock)
  /\ shown' = shown \union {clock'}
  /\ UNCHANGED <<seen, result>>

(* One of the six reads in the body of the loop. *)
ReadRegister ==
  /\ Len(seen) < 6 /\ result = -1
  /\ seen' = Append(seen, bcd_to_bin(cmos_read(Len(seen) + 1)))
  /\ UNCHANGED <<clock, ticks, shown, result>>

RECURSIVE Months(_)
Months(i) == IF i = 0 THEN 0 ELSE days_per_month[i] * 24 * 60 * 60 + Months(i - 1)

(* The computation after the loop. *)
Seconds(t) ==
  LET year == (IF t[YEAR] < 70 THEN t[YEAR] + 100 ELSE t[YEAR]) - 70
      leap == IF t[MON] > 2 /\ year % 4 = 0 THEN 24 * 60 * 60 ELSE 0
      \* the code's division rounds towards zero
      quarter == IF year = 0 THEN 0 ELSE (year - 1) \div 4
  IN  (year * 365 + quarter) * 24 * 60 * 60 + Months(t[MON]) + leap
      + (t[MDAY] - 1) * 24 * 60 * 60 + t[HOUR] * 60 * 60 + t[MIN] * 60 + t[SEC]

(* Mutant: what was read first is believed. *)
ReadAgainNot ==
  /\ Len(seen) = 6 /\ result = -1
  /\ result' = Seconds(seen)
  /\ UNCHANGED <<clock, seen, ticks, shown>>

(* The condition of the loop reads the seconds again. *)
ReadAgain ==
  /\ Len(seen) = 6 /\ result = -1
  /\ IF seen[SEC] # bcd_to_bin(cmos_read(SEC)) THEN seen' = <<>> /\ UNCHANGED result
     ELSE result' = Seconds(seen) /\ UNCHANGED seen
  /\ UNCHANGED <<clock, ticks, shown>>

(* The caller has its answer. *)
Return == result # -1 /\ UNCHANGED vars

Next == ClockTick \/ ReadRegister \/ ReadAgain \/ Return

Spec == Init /\ [][Next]_vars
-----------------------------------------------------------------------------
(* The six numbers that are converted were on the clock together at some   *)
(* moment of the call: no mixture of the time before and after a roll-over *)
(* of the seconds, the day or the century is returned.                     *)
SnapshotConsistent == result # -1 => seen \in shown

RECURSIVE DaysBefore(_, _)
(* Days of the months before mon. *)
DaysBefore(mon, year) ==
  IF mon = 1 THEN 0 ELSE DaysOf(mon - 1, year) + DaysBefore(mon - 1, year)

(* "Returns number of seconds since Unix epoch of January 1, 1970." *)
UnixTime ==
  result # -1 =>
    LET y == (IF seen[YEAR] < 70 THEN seen[YEAR] + 100 ELSE seen[YEAR]) - 70
        days == y * 365 + ((y + 1) \div 4) + DaysBefore(seen[MON], seen[YEAR]) + seen[MDAY] - 1
    IN  result = days * 24 * 60 * 60 + seen[HOUR] * 60 * 60 + seen[MIN] * 60 + seen[SEC]
=============================================================================
