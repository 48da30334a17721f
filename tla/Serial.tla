------------------------------- MODULE Serial -------------------------------
(***************************************************************************)
(* The interrupt queues (devices/intq.c) as the serial port                *)
(* (devices/serial.c), the keyboard (devices/kbd.c) and the input buffer   *)
(* (devices/input.c) use them: two circular buffers shared by threads and  *)
(* interrupt handlers.                                                     *)
(*                                                                         *)
(* All of this code runs with interrupts off, so a step is a handler, or   *)
(* the code of a thread up to thread_block.  Readers are serialized by     *)
(* fs_lock and writers by console_lock, so there is one of each.           *)
(***************************************************************************)
EXTENDS Naturals, Sequences

CONSTANTS
  Bytes,
  INTQ_BUFSIZE,
  READER, WRITER,   \* the threads in input_getc and serial_putc
  NULL

SizeAssumption == INTQ_BUFSIZE \in Nat /\ INTQ_BUFSIZE > 1

VARIABLES
  buffer,     \* input.c: keys from the keyboard and the serial port
  txq,        \* serial.c: bytes to transmit
  ier,        \* IER_REG: the interrupts that are enabled
  rbr,        \* RBR_REG: a received byte, NULL when LSR_DR is 0
  thre,       \* LSR_THRE: the UART takes a byte
  pc,         \* what the reader and the writer do
  byte        \* the byte the writer has to queue

vars == <<buffer, txq, ier, rbr, thre, pc, byte>>

Intq == [buf: [0..(INTQ_BUFSIZE - 1) -> Bytes \union {NULL}],
         head: 0..(INTQ_BUFSIZE - 1), tail: 0..(INTQ_BUFSIZE - 1),
         not_full: {WRITER, NULL}, not_empty: {READER, NULL}]

TypeOK ==
  /\ buffer \in Intq /\ txq \in Intq
  /\ ier \in [xmit: BOOLEAN, recv: BOOLEAN]
  /\ rbr \in Bytes \union {NULL}
  /\ thre \in BOOLEAN
  /\ pc \in [{READER, WRITER} -> {"out", "blocked", "ready"}]
  /\ byte \in Bytes \union {NULL}
-----------------------------------------------------------------------------
(* intq.c.  An operator takes a queue and returns the new one.             *)

intq_init == [buf |-> [k \in 0..(INTQ_BUFSIZE - 1) |-> NULL],
              head |-> 0, tail |-> 0, not_full |-> NULL, not_empty |-> NULL]

next(pos) == (pos + 1) % INTQ_BUFSIZE

intq_empty(q) == q.head = q.tail

(* Mutant: the last slot is used, too. *)
intq_full_all(q) == FALSE

intq_full(q) == next(q.head) = q.tail

(* The queue is not empty; buf[tail] is returned.  A byte that was taken   *)
(* is never read again, so NULL stands for it.                             *)
intq_getc(q) == [q EXCEPT !.buf[q.tail] = NULL, !.tail = next(q.tail),
                          !.not_full = NULL]

(* The queue is not full. *)
intq_putc(q, b) == [q EXCEPT !.buf[q.head] = b, !.head = next(q.head),
                             !.not_empty = NULL]

(* Mutant: the waiting thread is forgotten and not unblocked. *)
signal_forgets(p, waiter) == p

(* thread_unblock of a waiter that getc or putc has signalled. *)
signal(p, waiter) == IF waiter = NULL THEN p ELSE [p EXCEPT ![waiter] = "ready"]
-----------------------------------------------------------------------------
(* serial.c and input.c.                                                   *)

(* Mutant: transmit interrupts are left alone. *)
write_ier_recv_only(tx, in) == ier' = [ier EXCEPT !.recv = ~intq_full(in)]

(* The interrupt enable register for the given queues. *)
write_ier(tx, in) == ier' = [xmit |-> ~intq_empty(tx), recv |-> ~intq_full(in)]

(* init_poll, input_init and serial_init_queue *)
Init ==
  /\ buffer = intq_init /\ txq = intq_init
  /\ ier = [xmit |-> FALSE, recv |-> TRUE]
  /\ rbr = NULL /\ thre = TRUE
  /\ pc = [t \in {READER, WRITER} |-> "out"]
  /\ byte = NULL

(* input_getc, called or continued after thread_block. *)
InputGetc ==
  /\ pc[READER] \in {"out", "ready"}
  /\ IF intq_empty(buffer)
     THEN /\ buffer' = [buffer EXCEPT !.not_empty = READER]
          /\ pc' = [pc EXCEPT ![READER] = "blocked"]
          /\ UNCHANGED ier
     ELSE /\ buffer' = intq_getc(buffer)
          /\ write_ier(txq, buffer')
          /\ pc' = [pc EXCEPT ![READER] = "out"]
  /\ UNCHANGED <<txq, rbr, thre, byte>>

(* serial_putc with interrupts on, called or continued after thread_block. *)
SerialPutc(b) ==
  /\ \/ pc[WRITER] = "out" \/ (pc[WRITER] = "ready" /\ b = byte)
  /\ IF intq_full(txq)
     THEN /\ txq' = [txq EXCEPT !.not_full = WRITER]
          /\ pc' = [pc EXCEPT ![WRITER] = "blocked"]
          /\ byte' = b
          /\ UNCHANGED ier
     ELSE /\ txq' = intq_putc(txq, b)
          /\ write_ier(txq', buffer)
          /\ pc' = [pc EXCEPT ![WRITER] = "out"]
          /\ byte' = NULL
  /\ UNCHANGED <<buffer, rbr, thre>>

(* serial_putc with interrupts off, for example in a handler that prints:  *)
(* if the queue is full its first byte is sent by polling.                 *)
SerialPutcOff(b) ==
  /\ IF intq_full(txq)
     THEN /\ txq' = intq_putc(intq_getc(txq), b)
          /\ pc' = signal(pc, txq.not_full)
          /\ thre' = FALSE
     ELSE txq' = intq_putc(txq, b) /\ UNCHANGED <<pc, thre>>
  /\ write_ier(txq', buffer)
  /\ UNCHANGED <<buffer, rbr, byte>>

(* serial_flush sends everything by polling and leaves the register alone. *)
SerialFlush ==
  /\ ~intq_empty(txq)
  /\ txq' = [txq EXCEPT !.buf = intq_init.buf, !.tail = txq.head,
                        !.not_full = NULL]
  /\ pc' = signal(pc, txq.not_full)
  /\ thre' = FALSE
  /\ UNCHANGED <<buffer, ier, rbr, byte>>

(* keyboard_interrupt for a key that is a character; a key that does not   *)
(* fit is dropped.                                                         *)
KeyboardInterrupt(b) ==
  /\ ~intq_full(buffer)
  /\ buffer' = intq_putc(buffer, b)
  /\ pc' = signal(pc, buffer.not_empty)
  /\ write_ier(txq, buffer')
  /\ UNCHANGED <<txq, rbr, thre, byte>>

(* serial_interrupt: receives what there is room for and transmits what    *)
(* the UART takes.  Its FIFO is off, so each loop runs once at most.       *)
SerialInterrupt ==
  LET receives == ~intq_full(buffer) /\ rbr # NULL
      sends    == ~intq_empty(txq) /\ thre
  IN  /\ (ier.recv /\ rbr # NULL) \/ (ier.xmit /\ thre)
      /\ buffer' = IF receives THEN intq_putc(buffer, rbr) ELSE buffer
      /\ rbr' = IF receives THEN NULL ELSE rbr
      /\ txq' = IF sends THEN intq_getc(txq) ELSE txq
      /\ thre' = IF sends THEN FALSE ELSE thre
      /\ pc' = signal(signal(pc, IF receives THEN buffer.not_empty ELSE NULL),
                      IF sends THEN txq.not_full ELSE NULL)
      /\ write_ier(txq', buffer')
      /\ UNCHANGED byte

(* The other end of the line sends a byte; the UART has sent one. *)
Receive(b) ==
  /\ rbr = NULL
  /\ rbr' = b
  /\ UNCHANGED <<buffer, txq, ier, thre, pc, byte>>

Transmitted ==
  /\ ~thre
  /\ thre' = TRUE
  /\ UNCHANGED <<buffer, txq, ier, rbr, pc, byte>>

Next == \/ InputGetc \/ SerialFlush \/ SerialInterrupt \/ Transmitted
        \/ \E b \in Bytes : \/ SerialPutc(b) \/ SerialPutcOff(b)
                            \/ KeyboardInterrupt(b) \/ Receive(b)

Spec == Init /\ [][Next]_vars

(* The UART sends, its interrupts are delivered again and again, and a     *)
(* thread that is ready runs.                                              *)
Fairness == /\ WF_vars(Transmitted) /\ SF_vars(SerialInterrupt)
            /\ WF_vars(InputGetc /\ pc[READER] = "ready")
            /\ \A b \in Bytes :
                 SF_vars(SerialPutc(b) /\ pc[WRITER] = "ready")
-----------------------------------------------------------------------------
(* The bytes in a queue, first in first. *)
Contents(q) ==
  LET n == (q.head + INTQ_BUFSIZE - q.tail) % INTQ_BUFSIZE
  IN  [k \in 1..n |-> q.buf[(q.tail + k - 1) % INTQ_BUFSIZE]]

(* Both circular buffers are bounded FIFO queues, whoever adds and removes *)
(* bytes and in whatever context; one slot stays free so that a full queue *)
(* differs from an empty one.                                              *)
In == INSTANCE BoundedFifo WITH queue <- Contents(buffer),
                                Capacity <- INTQ_BUFSIZE - 1,
                                Flushed <- FALSE
Tx == INSTANCE BoundedFifo WITH queue <- Contents(txq),
                                Capacity <- INTQ_BUFSIZE - 1,
                                Flushed <- TRUE
QueuesInit == In!Init /\ Tx!Init
QueuesFifo == [In!Next]_(Contents(buffer)) /\ [Tx!Next]_(Contents(txq))

(* No wake-up is lost: a thread that is blocked is the one its queue       *)
(* remembers, and what it waits for has not happened yet.                  *)
WaitersRemembered ==
  /\ pc[READER] = "blocked" <=> buffer.not_empty = READER
  /\ pc[READER] = "blocked" => intq_empty(buffer)
  /\ pc[WRITER] = "blocked" <=> txq.not_full = WRITER
  /\ pc[WRITER] = "blocked" => intq_full(txq)

(* intq_getc, intq_putc and the handlers: the queues are first-in first-out *)
(* and their waiters are served.                                            *)
QueuesStep  == QueuesFifo /\ WaitersRemembered'
QueuesSound == QueuesInit /\ [][QueuesStep]_vars

(* A writer that waits for room is woken.  (It may find the room taken     *)
(* again by a handler that prints, as often as handlers print.)            *)
WriterWoken == pc[WRITER] = "blocked" ~> pc[WRITER] = "ready"

=============================================================================
