----------------------------- MODULE MCLiveness -----------------------------
(***************************************************************************)
(* What must happen in the end: in the processes, their calls on files,    *)
(* the serial port, a disk channel and demand paging.  The parts share no  *)
(* variable, so each behaviour is one of a single part, under the fairness *)
(* of that part, and the others stay as they are.                          *)
(***************************************************************************)
EXTENDS Integers, TLC

CONSTANTS
  NULL, None, Procs, MAIN, Names, Inodes, Files,  \* processes and their files
  Bytes, READER, WRITER,                          \* serial port
  Callers, Boot, Sectors, Values,                 \* disks
  CodePages, StackPages, Top, WildPages, KPages, FREED   \* frames

VARIABLES
  part,
  proc_pc, child, children, rel, last, exited, loaded, execRet, waitRet, proc_fault,
  fs_lock, fd_pc, call, exec, fdt, file, name, deny_write_cnt, version, orphans,
  buffer, txq, ier, rbr, thre, port_pc, byte,
  channel_lock, expecting_interrupt, completion_wait, is_ata, disk_pc, op, res,
  selected, disk_status, command, intrq, data, disk, spurious,
  supp, used_map, ft, ft_lock, user_pool, pd, place, fa, runs, lost, stopped

Processes == INSTANCE Process WITH
  Statuses <- {-1, 0}, pc <- proc_pc, fault <- proc_fault
Opened == INSTANCE Descriptors WITH Top <- 3, pc <- fd_pc
Port == INSTANCE Serial WITH INTQ_BUFSIZE <- 3, pc <- port_pc
Disks == INSTANCE IdeChannel WITH
  Threads <- Callers, Devices <- {0}, MaxSpurious <- 1,
  lock <- channel_lock, pc <- disk_pc, status <- disk_status
Paging == INSTANCE Frames WITH
  Slots <- {0, 1}, MaxRuns <- 1,
  used <- used_map, pool <- user_pool, pc <- place

processes == <<proc_pc, child, children, rel, last, exited, loaded, execRet,
               waitRet, proc_fault>>
opened == <<fs_lock, fd_pc, call, exec, fdt, file, name, deny_write_cnt, version,
            orphans>>
port == <<buffer, txq, ier, rbr, thre, port_pc, byte>>
disks == <<channel_lock, expecting_interrupt, completion_wait, is_ata, disk_pc,
           op, res, selected, disk_status, command, intrq, data, disk, spurious>>
paging == <<supp, used_map, ft, ft_lock, user_pool, pd, place, fa, runs, lost,
            stopped>>
vars == <<part, processes, opened, port, disks, paging>>

Init ==
  /\ part \in {"processes", "opened", "port", "disks", "paging"}
  /\ Processes!Init /\ Opened!Init /\ Port!Init /\ Disks!Init /\ Paging!Init
  /\ part # "disks" => is_ata = [d \in {0} |-> TRUE]
  /\ part # "opened" => \A n \in Names : name[n] = NULL

Next ==
  /\ UNCHANGED part
  /\ \/ /\ part = "processes" /\ Processes!Next
        /\ UNCHANGED <<opened, port, disks, paging>>
     \/ part = "opened" /\ Opened!Next /\ UNCHANGED <<processes, port, disks, paging>>
     \/ part = "port"   /\ Port!Next   /\ UNCHANGED <<processes, opened, disks, paging>>
     \/ part = "disks"  /\ Disks!Next  /\ UNCHANGED <<processes, opened, port, paging>>
     \/ part = "paging" /\ Paging!Next /\ UNCHANGED <<processes, opened, port, disks>>

Fairness ==
  \/ part = "processes" /\ Processes!Fairness
  \/ part = "opened"    /\ Opened!Fairness
  \/ part = "port"      /\ Port!Fairness
  \/ part = "disks"     /\ Disks!Fairness
  \/ part = "paging"    /\ Paging!Fairness

LiveSpec == Init /\ [][Next]_vars /\ Fairness
-----------------------------------------------------------------------------
(* process_wait ends once the child exits, and process_execute once the    *)
(* child has loaded or failed to.                                          *)
FamilyCallsEnd ==
  part = "processes" => Processes!WaitEnds /\ Processes!ExecEnds
(* serial_putc: a writer that waits for room is woken.  ide_read and       *)
(* ide_write return.                                                       *)
DevicesServe == /\ part = "port"  => Port!WriterWoken
                /\ part = "disks" => Disks!CallsReturn
=============================================================================
