---------------------------- MODULE Calibration -----------------------------
(***************************************************************************)
(* The arithmetic of devices/timer.c and devices/pit.c: calibration of     *)
(* loops_per_tick, delays, and the counter of the interval timer.  The     *)
(* speed of the machine is the number of loops it makes in a tick.         *)
(***************************************************************************)
EXTENDS Integers

(* 1u << 10 is the first guess; guesses are 32 bits wide. *)
FirstShift == 10
TIMER_FREQ == 100
PIT_HZ == 1193180

(* too_many_loops and busy_wait on a machine of the given speed. *)
too_many_loops(loops, speed) == loops > speed

RECURSIVE DoubledOnceMore(_, _)
(* Mutant: the guess that was too many is kept. *)
DoubledOnceMore(loops, speed) ==
  IF too_many_loops(loops, speed) THEN loops ELSE DoubledOnceMore(loops * 2, speed)

RECURSIVE Doubled(_, _)
(* The first loop of timer_calibrate. *)
Doubled(loops, speed) ==
  IF too_many_loops(loops * 2, speed) THEN loops ELSE Doubled(loops * 2, speed)

RECURSIVE Refined(_, _, _, _)
(* The second loop; high_bit and the test bits are powers of two, so that  *)
(* or-ing them is adding.  Every bit is tested with high_bit alone.        *)
Refined(loops, high_bit, test_bit, speed) ==
  IF test_bit = high_bit \div 2^FirstShift THEN loops
  ELSE Refined(IF too_many_loops(high_bit + test_bit, speed) THEN loops
               ELSE loops + test_bit, high_bit, test_bit \div 2, speed)

(* timer_calibrate: the value of loops_per_tick. *)
timer_calibrate(speed) ==
  LET high_bit == Doubled(2^FirstShift, speed)
  IN  Refined(high_bit, high_bit, high_bit \div 2, speed)

(* The ticks of real_time_sleep, which sleeps if there is at least one. *)
TicksFor(num, denom) == (num * TIMER_FREQ) \div denom

(* The loops of real_time_delay. *)
LoopsFor(num, denom, loops_per_tick) ==
  (((loops_per_tick * num) \div 1000) * TIMER_FREQ) \div (denom \div 1000)

(* The counter pit_configure_channel loads; 0 stands for 65536. *)
pit_count(frequency) ==
  IF frequency < 19 THEN 0
  ELSE IF frequency > PIT_HZ THEN 2
  ELSE (PIT_HZ + (frequency \div 2)) \div frequency
-----------------------------------------------------------------------------
(* loops_per_tick is right within a factor of two on every machine.  It is *)
(* no closer: the refinement tests each bit beside high_bit only, so that  *)
(* the bits it keeps may add up to more loops than a tick has.             *)
CalibrationWithinTwo(speed) ==
  LET loops == timer_calibrate(speed)
  IN  loops < 2 * speed /\ speed < 2 * loops

(* A delay of less than a tick, which real_time_sleep leaves to            *)
(* real_time_delay, takes less than loops_per_tick loops, and no more than *)
(* the exact number.                                                       *)
DelaysShort(num, denom, loops_per_tick) ==
  TicksFor(num, denom) = 0 =>
    LET loops == LoopsFor(num, denom, loops_per_tick)
    IN  loops < loops_per_tick /\ loops \in Nat

(* For frequencies up to two thirds of PIT_HZ the counter fits in 16 bits, *)
(* is not the count of 1 that mode 2 does not have, and is as near to the  *)
(* period asked for as an integer can be.                                  *)
CountersNear(frequency) ==
  frequency \in 19..((2 * PIT_HZ) \div 3) =>
    LET count == pit_count(frequency)
    IN  /\ count \in 2..65535
        /\ 2 * (count * frequency - PIT_HZ) \in (-frequency - 1)..frequency
=============================================================================
