----------------------------- MODULE MCDevices ------------------------------
(***************************************************************************)
(* The timer (Alarm), the serial port (Serial), a disk channel             *)
(* (IdeChannel), interrupts (Interrupts), the scheduler of -o mlfqs        *)
(* (Mlfqs), the real-time clock (Rtc), the screen (Vga) and the console    *)
(* (Console).  They share no state, so each behaviour is one of a single   *)
(* device: what holds of these behaviours holds of the devices together.   *)
(* The variables of the others are not used.                               *)
(***************************************************************************)
EXTENDS Integers, Sequences, TLC

CONSTANTS
  t1, t2, t3, t4, IDLE, TIME_SLICE,                         \* timer
  Bytes, INTQ_BUFSIZE, READER, WRITER, NULL,                \* serial port
  Threads, Boot, Devices, Sectors, Values, None, MaxSpurious   \* disks

VARIABLES
  device,
  running, ready, sleeping, sleep, elapsed, thread_ticks, late,
  buffer, txq, ier, rbr, thre, port_pc, byte,
  lock, expecting_interrupt, completion_wait, is_ata, pc, op, res, selected,
  status, command, intrq, data, disk, spurious,
  idt, on, in_external_intr, yield_on_return, current, stack, irr, isr,
  cpu, queue, waiters, nice, recent_cpu, priority, recently_up, load_avg,
  load_avg_coefficient, ticks, slice,
  clock, seen, seconds, shown, result,
  inited, cx, cy, fb, cursor, paper, row,
  holder, console_lock_depth, use_console_lock, calls, waiting, booted, only, group

Timer == INSTANCE Alarm WITH
  Threads  <- {t1, t2, t3, t4},
  Priority <- t1 :> 3 @@ t2 :> 2 @@ t3 :> 2 @@ t4 :> 1,
  Sleeps   <- {-1, 0, 1, 3}
Port == INSTANCE Serial WITH pc <- port_pc
Disks == INSTANCE IdeChannel
(* Line 0 is the master's, line 14 the slave's; 48 is a trap. *)
Gates == INSTANCE Interrupts WITH
  First <- Boot, Lines <- {0, 14}, Internal <- {48}, MaxDepth <- 2
(* Seconds of 4 ticks, and 6 bits of fraction. *)
Feedback == INSTANCE Mlfqs WITH
  all_list <- <<t1, IDLE, t2, t3>>, Nices <- {-20}, F_CONV <- 64, TIMER_FREQ <- 4,
  TIME_SLICE <- 2, PRI_DEFAULT <- 31, MaxTicks <- 4,
  running <- cpu, ready <- queue, thread_ticks <- slice
(* Before the end of a century, of a February and of an hour. *)
Clock == INSTANCE Rtc WITH
  Starts <- {<<58, 59, 23, 31, 12, 99>>, <<59, 59, 23, 28, 2, 72>>, <<57, 59, 12, 1, 1, 70>>},
  MaxTicks <- 3, ticks <- seconds
Screen == INSTANCE Vga WITH COL_CNT <- 4, ROW_CNT <- 2, Tab <- 2, MaxLines <- 3
Output == INSTANCE Console WITH MaxChars <- 2, MaxNested <- 2

ASSUME DevicesAssumption ==
  /\ Timer!SliceAssumption /\ Port!SizeAssumption /\ Disks!IdeAssumption
  /\ Clock!RtcAssumption /\ Screen!VgaAssumption /\ Gates!InterruptsAssumption

timer == <<running, ready, sleeping, sleep, elapsed, thread_ticks, late>>
port  == <<buffer, txq, ier, rbr, thre, port_pc, byte>>
disks == <<lock, expecting_interrupt, completion_wait, is_ata, pc, op, res,
           selected, status, command, intrq, data, disk, spurious>>
gates == <<idt, on, in_external_intr, yield_on_return, current, stack, irr, isr>>
feedback == <<cpu, queue, waiters, nice, recent_cpu, priority, recently_up, load_avg,
              load_avg_coefficient, ticks, slice>>
time    == <<clock, seen, seconds, shown, result>>
screen  == <<inited, cx, cy, fb, cursor, paper, row>>
output  == <<holder, console_lock_depth, use_console_lock, calls, waiting, booted,
             only, group>>
basic == <<timer, port, disks>>
vars == <<device, basic, gates, feedback, time, screen, output>>

Symmetry == Permutations(Bytes) \union Permutations(Values)

(* The variables of a device that does not move. *)
NoTimer ==
  /\ running = NULL /\ ready = NULL /\ sleeping = NULL /\ sleep = NULL
  /\ elapsed = NULL /\ thread_ticks = NULL /\ late = NULL
NoPort ==
  /\ buffer = NULL /\ txq = NULL /\ ier = NULL /\ rbr = NULL /\ thre = NULL
  /\ port_pc = NULL /\ byte = NULL
NoDisks ==
  /\ lock = NULL /\ expecting_interrupt = NULL /\ completion_wait = NULL
  /\ is_ata = NULL /\ pc = NULL /\ op = NULL /\ res = NULL /\ selected = NULL
  /\ status = NULL /\ command = NULL /\ intrq = NULL /\ data = NULL
  /\ disk = NULL /\ spurious = NULL
NoGates ==
  /\ idt = NULL /\ on = NULL /\ in_external_intr = NULL /\ yield_on_return = NULL
  /\ current = NULL /\ stack = NULL /\ irr = NULL /\ isr = NULL
NoFeedback ==
  /\ cpu = NULL /\ queue = NULL /\ waiters = NULL /\ nice = NULL
  /\ recent_cpu = NULL /\ priority = NULL /\ recently_up = NULL /\ load_avg = NULL
  /\ load_avg_coefficient = NULL /\ ticks = NULL /\ slice = NULL
NoTime ==
  /\ clock = NULL /\ seen = NULL /\ seconds = NULL /\ shown = NULL /\ result = NULL
NoScreen ==
  /\ inited = NULL /\ cx = NULL /\ cy = NULL /\ fb = NULL /\ cursor = NULL
  /\ paper = NULL /\ row = NULL
NoOutput ==
  /\ holder = NULL /\ console_lock_depth = NULL /\ use_console_lock = NULL
  /\ calls = NULL /\ waiting = NULL /\ booted = NULL /\ only = NULL /\ group = NULL

Init ==
  /\ device \in {"timer", "port", "disks", "gates", "feedback", "clock", "screen",
                 "output"}
  /\ IF device = "timer"    THEN Timer!Init    ELSE NoTimer
  /\ IF device = "port"     THEN Port!Init     ELSE NoPort
  /\ IF device = "disks"    THEN Disks!Init    ELSE NoDisks
  /\ IF device = "gates"    THEN Gates!Init    ELSE NoGates
  /\ IF device = "feedback" THEN Feedback!Init ELSE NoFeedback
  /\ IF device = "clock"    THEN Clock!Init    ELSE NoTime
  /\ IF device = "screen"   THEN Screen!Init   ELSE NoScreen
  /\ IF device = "output"   THEN Output!Init   ELSE NoOutput

BasicNext ==
  /\ \/ device = "timer" /\ Timer!Next /\ UNCHANGED <<port, disks>>
     \/ device = "port"  /\ Port!Next  /\ UNCHANGED <<timer, disks>>
     \/ device = "disks" /\ Disks!Next /\ UNCHANGED <<timer, port>>
  /\ UNCHANGED <<gates, feedback, time, screen, output>>

OtherNext ==
  /\ \/ device = "gates"  /\ Gates!Next  /\ UNCHANGED <<feedback, time, screen, output>>
     \/ /\ device = "feedback" /\ Feedback!Next
        /\ UNCHANGED <<gates, time, screen, output>>
     \/ device = "clock"  /\ Clock!Next  /\ UNCHANGED <<gates, feedback, screen, output>>
     \/ device = "screen" /\ Screen!Next /\ UNCHANGED <<gates, feedback, time, output>>
     \/ device = "output" /\ Output!Next /\ UNCHANGED <<gates, feedback, time, screen>>
  /\ UNCHANGED basic

Next == UNCHANGED device /\ (BasicNext \/ OtherNext)

Spec == Init /\ [][Next]_vars
-----------------------------------------------------------------------------
(* thread_tick: a better ready thread waits for a slice at most. *)
InversionBounded == device = "timer" => Timer!InversionBounded
(* alarm-priority: after a tick the running thread is the best one. *)
HigherPriorityFirst == device = "timer" => Timer!HigherPriorityFirst

(* input_putc, input_getc, serial_putc and serial_interrupt: the input and *)
(* the transmit queue are bounded first-in first-out queues, and no        *)
(* wake-up of a reader or a writer is lost.                                *)
QueuesSound ==
  /\ device = "port" => Port!QueuesInit
  /\ [][device = "port" => Port!QueuesStep]_port


(* intr_handler: external interrupts run alone and are acknowledged. *)
InterruptsInOrder == device = "gates" => Gates!TypeOK /\ Gates!InterruptsInOrder
(* intr_yield_on_return: whoever asks for it, and nobody else, yields. *)
YieldsAsAsked == [][device = "gates" => Gates!YieldAsAsked]_gates


(* rtc_get_time reads a time that was on the clock. *)
SnapshotConsistent == device = "clock" => Clock!SnapshotConsistent
(* "Returns number of seconds since Unix epoch of January 1, 1970." *)
UnixTime == device = "clock" => Clock!UnixTime

(* vga_putc: the screen shows the last rows; printf: what a thread prints  *)
(* is not mixed with what others print.                                    *)
OutputExact ==
  /\ device = "screen" => Screen!ScreenShowsTail
  /\ device = "output" => Output!TypeOK /\ Output!OutputWhole
=============================================================================
