----------------------------- MODULE IdeChannel -----------------------------
(***************************************************************************)
(* One ATA channel (devices/ide.c): threads that read and write sectors of *)
(* the disks on it, the interrupt handler, and the controller.             *)
(*                                                                         *)
(* A sector holds one value.  The lock and the semaphore are those of      *)
(* Synch; here they are a holder and a count.  The controller answers      *)
(* before wait_until_idle and wait_while_busy give up, and it may raise    *)
(* interrupts nobody asked for.                                            *)
(***************************************************************************)
EXTENDS Naturals

CONSTANTS
  Threads,
  Boot,          \* the thread that runs ide_init
  Devices,       \* the devices of the channel: 0 and perhaps 1
  Sectors, Values,
  None,
  MaxSpurious    \* bound: interrupts that nothing caused

IdeAssumption ==
  /\ Boot \in Threads
  /\ Devices \subseteq {0, 1} /\ 0 \in Devices
  /\ MaxSpurious \in Nat

VARIABLES
  lock,                  \* holder of channel.lock
  expecting_interrupt,
  completion_wait,       \* value of the semaphore
  is_ata,                \* the devices that may be used
  pc, op, res,           \* of every thread: place, request, sector read
  selected,              \* device and sector registers
  status,                \* the status register: BSY, DRQ or neither
  command,               \* the command register
  intrq,                 \* the controller requests an interrupt
  data,                  \* the data register: a sector on its way
  disk,                  \* the sectors
  spurious               \* interrupts so far that nothing caused

kernel == <<lock, expecting_interrupt, completion_wait, is_ata, pc, op, res>>
controller == <<selected, status, command, intrq, data, disk>>
vars == <<kernel, controller, spurious>>

Atomic == INSTANCE AtomicDisk
            WITH mem <- disk, call <- op, res <- res
Requests == Atomic!Requests
Identify == [kind: {"identify"}, dev: Devices]

TypeOK ==
  /\ lock \in Threads \union {None}
  /\ expecting_interrupt \in BOOLEAN
  /\ completion_wait \in 0..(MaxSpurious + 1)
  /\ is_ata \in [Devices -> BOOLEAN]
  /\ pc \in [Threads -> {"off", "idle", "acquire", "select", "issue",
                         "completion", "busy", "written", "release"}]
  /\ op \in [Threads -> Requests \union Identify \union {None}]
  /\ res \in [Threads -> Values \union {None}]
  /\ selected \in [dev: Devices, sec: Sectors \union {None}]
  /\ status \in {"idle", "BSY", "DRQ"}
  /\ command \in {"read", "write", "identify", None}
  /\ intrq \in BOOLEAN
  /\ data \in Values \union {None}
  /\ disk \in [Devices -> [Sectors -> Values]]
  /\ spurious \in 0..MaxSpurious
-----------------------------------------------------------------------------
(* ide_init up to the identification: reset_channel has left the           *)
(* controller idle and check_device_type found out which devices may be    *)
(* disks; a missing device 0 can hide device 1.                            *)
Init ==
  /\ lock = None
  /\ expecting_interrupt = FALSE
  /\ completion_wait = 0
  /\ is_ata \in [Devices -> BOOLEAN]
  /\ pc = [t \in Threads |-> "off"]
  /\ op = [t \in Threads |-> None]
  /\ res = [t \in Threads |-> None]
  /\ selected = [dev |-> 0, sec |-> None]
  /\ status = "idle" /\ command = None /\ intrq = FALSE /\ data = None
  /\ disk \in [Devices -> [Sectors -> Values]]
  /\ spurious = 0

(* The end of ide_init: identify_ata_device for the devices from d on, and *)
(* the other threads may start.                                            *)
IdentifyFrom(d) ==
  IF \E e \in Devices : e >= d /\ is_ata'[e]
  THEN LET e == CHOOSE x \in Devices : /\ x >= d /\ is_ata'[x]
                                       /\ \A y \in d..(x - 1) : ~is_ata'[y]
       IN  /\ op' = [op EXCEPT ![Boot] = [kind |-> "identify", dev |-> e]]
           /\ pc' = [pc EXCEPT ![Boot] = "select"]
  ELSE /\ op' = [op EXCEPT ![Boot] = None]
       /\ pc' = [t \in Threads |-> "idle"]

ide_init ==
  /\ pc[Boot] = "off"
  /\ UNCHANGED <<lock, expecting_interrupt, completion_wait, is_ata, res>>
  /\ IdentifyFrom(0)
  /\ UNCHANGED <<controller, spurious>>

(* block_read and block_write *)
Call(t, r) ==
  /\ pc[t] = "idle"
  /\ is_ata[r.dev]
  /\ op' = [op EXCEPT ![t] = r]
  /\ res' = [res EXCEPT ![t] = None]
  /\ pc' = [pc EXCEPT ![t] = "acquire"]
  /\ UNCHANGED <<lock, expecting_interrupt, completion_wait, is_ata,
                 controller, spurious>>

Acquire(t) ==
  /\ pc[t] = "acquire" /\ lock = None
  /\ lock' = t
  /\ pc' = [pc EXCEPT ![t] = "select"]
  /\ UNCHANGED <<expecting_interrupt, completion_wait, is_ata, op, res,
                 controller, spurious>>


(* Mutant: it also waits for interrupts that nobody took to be used up. *)
SelectSectorDrained(t) ==
  /\ pc[t] = "select"
  /\ intrq' = FALSE
  /\ IF status = "idle" /\ completion_wait = 0
     THEN /\ selected' = [dev |-> op[t].dev, sec |-> IF op[t].kind = "identify"
                                                     THEN None ELSE op[t].sec]
          /\ pc' = [pc EXCEPT ![t] = "issue"]
     ELSE UNCHANGED <<selected, pc>>
  /\ UNCHANGED <<lock, expecting_interrupt, completion_wait, is_ata, op, res,
                 status, command, data, disk, spurious>>

(* select_sector or, to identify, select_device_wait.  wait_until_idle     *)
(* reads the status register, which clears a pending interrupt, and gets   *)
(* no further while the controller is busy.                                *)
SelectSector(t) ==
  /\ pc[t] = "select"
  /\ intrq' = FALSE
  /\ IF status = "idle"
     THEN /\ selected' = [dev |-> op[t].dev, sec |-> IF op[t].kind = "identify"
                                                     THEN None ELSE op[t].sec]
          /\ pc' = [pc EXCEPT ![t] = "issue"]
     ELSE UNCHANGED <<selected, pc>>
  /\ UNCHANGED <<lock, expecting_interrupt, completion_wait, is_ata, op, res,
                 status, command, data, disk, spurious>>

(* issue_pio_command; a read then waits for the interrupt, a write for DRQ. *)
IssuePioCommand(t) ==
  /\ pc[t] = "issue"
  /\ expecting_interrupt' = TRUE
  /\ command' = op[t].kind
  /\ status' = "BSY"
  /\ pc' = [pc EXCEPT ![t] = IF op[t].kind = "write" THEN "busy"
                             ELSE "completion"]
  /\ UNCHANGED <<lock, completion_wait, is_ata, op, res, selected, intrq, data,
                 disk, spurious>>

(* sema_down(&c->completion_wait): before the transfer of a read, after    *)
(* that of a write.                                                        *)
Completion(t) ==
  /\ pc[t] \in {"completion", "written"}
  /\ completion_wait > 0
  /\ completion_wait' = completion_wait - 1
  /\ pc' = [pc EXCEPT ![t] = IF @ = "completion" THEN "busy" ELSE "release"]
  /\ UNCHANGED <<lock, expecting_interrupt, is_ata, op, res, controller,
                 spurious>>

(* The end of ide_read: wait_while_busy and input_sector. *)
InputSector(t) ==
  /\ pc[t] = "busy" /\ op[t].kind = "read"
  /\ status = "DRQ"
  /\ res' = [res EXCEPT ![t] = data]
  /\ status' = "idle" /\ command' = None /\ data' = None
  /\ pc' = [pc EXCEPT ![t] = "release"]
  /\ op' = [op EXCEPT ![t] = None]
  /\ UNCHANGED <<lock, expecting_interrupt, completion_wait, is_ata, selected,
                 intrq, disk, spurious>>

(* ide_write: wait_while_busy and output_sector. *)
OutputSector(t) ==
  /\ pc[t] = "busy" /\ op[t].kind = "write"
  /\ status = "DRQ"
  /\ data' = op[t].val
  /\ status' = "BSY"
  /\ pc' = [pc EXCEPT ![t] = "written"]
  /\ op' = [op EXCEPT ![t] = None]
  /\ UNCHANGED <<lock, expecting_interrupt, completion_wait, is_ata, res,
                 selected, command, intrq, disk, spurious>>

Release(t) ==
  /\ pc[t] = "release"
  /\ lock' = None
  /\ pc' = [pc EXCEPT ![t] = "idle"]
  /\ UNCHANGED <<expecting_interrupt, completion_wait, is_ata, op, res,
                 controller, spurious>>

(* The end of identify_ata_device: the device answers with its identity,   *)
(* which may be that of a disk too large to use, or does not answer.       *)
Identified ==
  /\ pc[Boot] = "busy" /\ op[Boot].kind = "identify"
  /\ status # "BSY"
  /\ \E large \in BOOLEAN :
       is_ata' = [is_ata EXCEPT ![op[Boot].dev] = status = "DRQ" /\ ~large]
  /\ status' = "idle" /\ command' = None
  /\ IdentifyFrom(op[Boot].dev + 1)
  /\ UNCHANGED <<lock, expecting_interrupt, completion_wait, res, selected,
                 intrq, data, disk, spurious>>

(* interrupt_handler; the processor takes the interrupt. *)
InterruptHandler ==
  /\ intrq
  /\ intrq' = FALSE
  /\ completion_wait' = completion_wait + IF expecting_interrupt THEN 1 ELSE 0
  /\ UNCHANGED <<lock, expecting_interrupt, is_ata, pc, op, res, selected,
                 status, command, data, disk, spurious>>
-----------------------------------------------------------------------------
(* The controller: it fetches a sector and interrupts, asks for the sector *)
(* to write, stores it and interrupts, answers or rejects IDENTIFY DEVICE. *)
Fetch ==
  /\ status = "BSY" /\ command = "read"
  /\ data' = disk[selected.dev][selected.sec]
  /\ status' = "DRQ" /\ intrq' = TRUE
  /\ UNCHANGED <<kernel, selected, command, disk, spurious>>

AskForData ==
  /\ status = "BSY" /\ command = "write" /\ data = None
  /\ status' = "DRQ"
  /\ UNCHANGED <<kernel, selected, command, intrq, data, disk, spurious>>

Store ==
  /\ status = "BSY" /\ command = "write" /\ data # None
  /\ disk' = [disk EXCEPT ![selected.dev][selected.sec] = data]
  /\ status' = "idle" /\ command' = None /\ data' = None /\ intrq' = TRUE
  /\ UNCHANGED <<kernel, selected, spurious>>

AnswerIdentify ==
  /\ status = "BSY" /\ command = "identify"
  /\ status' \in {"DRQ", "idle"}
  /\ intrq' = TRUE
  /\ UNCHANGED <<kernel, selected, command, data, disk, spurious>>

Spurious ==
  /\ spurious < MaxSpurious /\ ~intrq
  /\ intrq' = TRUE
  /\ spurious' = spurious + 1
  /\ UNCHANGED <<kernel, selected, status, command, data, disk>>

(* Without a disk nothing is left to do. *)
NoDisks ==
  /\ \A d \in Devices : ~is_ata[d]
  /\ pc[Boot] = "idle"
  /\ UNCHANGED vars

ThreadStep(t) == \/ Acquire(t) \/ SelectSector(t) \/ IssuePioCommand(t)
                 \/ Completion(t) \/ InputSector(t) \/ OutputSector(t)
                 \/ Release(t)

Controller == Fetch \/ AskForData \/ Store \/ AnswerIdentify

Next == \/ ide_init \/ Identified \/ InterruptHandler
        \/ Controller \/ Spurious \/ NoDisks
        \/ \E t \in Threads : ThreadStep(t) \/ \E r \in Requests : Call(t, r)

Spec == Init /\ [][Next]_vars

(* Threads run, the lock is handed to whoever waits for it, the controller *)
(* answers and its interrupts are delivered.                               *)
Fairness ==
  /\ WF_vars(ide_init) /\ WF_vars(Identified)
  /\ WF_vars(InterruptHandler) /\ WF_vars(Controller)
  /\ \A t \in Threads : WF_vars(ThreadStep(t)) /\ SF_vars(Acquire(t))
-----------------------------------------------------------------------------
(* What the sectors hold as far as threads can tell: a sector that the     *)
(* controller has accepted counts as written.                              *)
Mem == IF command = "write" /\ data # None
       THEN [disk EXCEPT ![selected.dev][selected.sec] = data]
       ELSE disk

Calls == [t \in Threads |-> IF op[t] \in Identify THEN None ELSE op[t]]

(* Reads and writes of sectors are atomic, whatever threads, disks and     *)
(* stray interrupts do: a read returns what was last written, also when a  *)
(* stray interrupt lets a writer return before the disk has stored its     *)
(* data.                                                                   *)
Disk == INSTANCE AtomicDisk WITH mem <- Mem, call <- Calls
AtomicStep == [Disk!Next]_<<Mem, Calls, res>>

(* Every read and write comes to its end. *)
CallsReturn == \A t \in Threads : pc[t] = "acquire" ~> pc[t] = "idle"

=============================================================================
