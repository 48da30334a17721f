----------------------------- MODULE Interrupts -----------------------------
(***************************************************************************)
(* Interrupt dispatch (threads/interrupt.c): the descriptor table, the     *)
(* level, the handler for all interrupts, and the two 8259A controllers    *)
(* that deliver the lines of devices to it.                                *)
(*                                                                         *)
(* Each thread has a stack of frames, the innermost first.  A frame stands *)
(* for an interrupt that is being handled (at = "handler") or for a call   *)
(* of thread_yield that has given the CPU away (at = "switched"), within   *)
(* the frame of an external interrupt or outside of any.  `on' is the      *)
(* interrupt flag to be restored when the frame is left, and `asked' a     *)
(* history variable: this interrupt's handler has called                   *)
(* intr_yield_on_return.                                                   *)
(***************************************************************************)
EXTENDS Integers, Sequences, FiniteSetsExt

CONSTANTS
  Threads,
  None,          \* no thread: schedule is choosing
  First,         \* the thread that boots
  Lines,         \* interrupt lines of devices, of 0..15 without 2
  Internal,      \* vectors of traps and exceptions
  MaxDepth       \* bound on the frames of a thread

VARIABLES
  idt,                 \* vector -> type of its gate and whether it has a handler
  on,                  \* the interrupt flag of the CPU
  in_external_intr, yield_on_return,
  current,             \* the running thread
  stack,               \* thread -> its frames
  irr, isr             \* lines requested, and lines in service

vars == <<idt, on, in_external_intr, yield_on_return, current, stack, irr, isr>>

(* The lines of two controllers, and traps that are not external vectors.  *)
InterruptsAssumption ==
  /\ None \notin Threads /\ First \in Threads
  /\ Lines \subseteq 0..15 /\ Internal \intersect 32..47 = {}
  /\ MaxDepth \in Nat \ {0}

External == 32..47
Vectors  == {32 + l : l \in Lines} \union {39, 47} \union Internal
Frame    == [vec: Vectors \union {None}, at: {"handler", "switched"},
             on: BOOLEAN, asked: BOOLEAN]
Yielded(level) == [vec |-> None, at |-> "switched", on |-> level, asked |-> FALSE]
-----------------------------------------------------------------------------
(* intr_init: every vector has an interrupt gate and no handler. *)
Init ==
  /\ idt = [v \in Vectors |-> [type |-> "intr", handler |-> FALSE]]
  /\ on = FALSE
  /\ in_external_intr = FALSE /\ yield_on_return = FALSE
  /\ current = First
  /\ stack = [t \in Threads |-> IF t = First THEN <<>> ELSE <<Yielded(TRUE)>>]
  /\ irr = {} /\ isr = {}

(* The running thread executes code that is not an external handler. *)
InThread == current # None /\ ~in_external_intr

(* Mutant: every handler runs behind a trap gate. *)
register_handler_trap(v, level) ==
  idt' = [idt EXCEPT ![v] = [type |-> "trap", handler |-> TRUE]]

register_handler(v, level) ==
  idt' = [idt EXCEPT ![v] = [type |-> IF level THEN "trap" ELSE "intr",
                             handler |-> TRUE]]

(* A driver registers its handler, once. *)
IntrRegisterExt(v) ==
  /\ InThread /\ v \in External /\ ~idt[v].handler
  /\ register_handler(v, FALSE)
  /\ UNCHANGED <<on, in_external_intr, yield_on_return, current, stack, irr, isr>>

IntrRegisterInt(v, level) ==
  /\ InThread /\ v \notin External /\ ~idt[v].handler
  /\ register_handler(v, level)
  /\ UNCHANGED <<on, in_external_intr, yield_on_return, current, stack, irr, isr>>

(* intr_enable and intr_disable, called outside of external handlers. *)
IntrSetLevel(level) ==
  /\ InThread /\ on # level
  /\ on' = level
  /\ UNCHANGED <<idt, in_external_intr, yield_on_return, current, stack, irr, isr>>
-----------------------------------------------------------------------------
(* The controllers deliver lower lines first; the slave is on line 2 of    *)
(* the master.                                                             *)
Master(l) == IF l >= 8 THEN 2 ELSE l
Before(k, l) == Master(k) < Master(l) \/ (Master(k) = Master(l) /\ k < l)

(* A device requests an interrupt. *)
Raise(l) ==
  /\ l \notin irr
  /\ irr' = irr \union {l}
  /\ UNCHANGED <<idt, on, in_external_intr, yield_on_return, current, stack, isr>>

(* The CPU enters the gate of vector v: it saves the flag, and clears it   *)
(* if the gate is an interrupt gate.                                       *)
Enter(v) ==
  /\ Len(stack[current]) < MaxDepth
  /\ stack' = [stack EXCEPT ![current] =
       <<[vec |-> v, at |-> "handler", on |-> on, asked |-> FALSE]>> \o @]
  /\ on' = (on /\ idt[v].type = "trap")

(* Mutant: the request of an earlier interrupt is kept. *)
IntrHandlerNoReset(v) ==
  /\ Enter(v)
  /\ in_external_intr' = (in_external_intr \/ v \in External)
  /\ UNCHANGED <<idt, yield_on_return, current>>

(* intr_handler up to the call of the handler. *)
IntrHandler(v) ==
  /\ Enter(v)
  /\ in_external_intr' = (in_external_intr \/ v \in External)
  /\ yield_on_return' = (v \notin External /\ yield_on_return)
  /\ UNCHANGED <<idt, current>>

(* The master interrupts the CPU for line l. *)
Deliver(l) ==
  /\ on /\ current # None
  /\ l \in irr
  /\ \A k \in (irr \ {l}) \union isr : ~Before(k, l) /\ (k \in isr => k # Master(l))
  /\ irr' = irr \ {l}
  /\ isr' = isr \union {l, Master(l)}
  /\ IntrHandler(32 + l)

(* A request that is gone when the CPU asks for its number: a controller   *)
(* answers with its line 7, which is not put in service.                   *)
Spurious(v) ==
  /\ on /\ current # None /\ isr = {}
  /\ isr' = IF v = 47 THEN isr \union {2} ELSE isr
  /\ UNCHANGED irr
  /\ IntrHandler(v)

(* A system call, a fault or an exception of the running thread. *)
Trap(v) ==
  /\ InThread
  /\ UNCHANGED <<irr, isr>>
  /\ IntrHandler(v)
-----------------------------------------------------------------------------
Top == Head(stack[current])
Handling == current # None /\ stack[current] # <<>> /\ Top.at = "handler"

(* The handler of an external interrupt wakes a better thread, say. *)
IntrYieldOnReturn ==
  /\ Handling /\ in_external_intr /\ idt[Top.vec].handler
  /\ yield_on_return' = TRUE
  /\ stack' = [stack EXCEPT ![current][1].asked = TRUE]
  /\ UNCHANGED <<idt, on, in_external_intr, current, irr, isr>>

(* A normal end of interrupt: the line in service that comes first is done. *)
EndOf(pic) == IF isr \intersect pic = {} THEN {} ELSE {Min(isr \intersect pic)}

(* Mutant: the slave is not told. *)
pic_end_of_interrupt_master(v) == isr' = isr \ EndOf(0..7)

pic_end_of_interrupt(v) ==
  isr' = (isr \ EndOf(0..7)) \ (IF v >= 40 THEN EndOf(8..15) ELSE {})

(* intr_handler after the call of an external handler. *)
IntrHandlerEnd ==
  /\ Handling /\ Top.vec \in External
  /\ in_external_intr' = FALSE
  /\ pic_end_of_interrupt(Top.vec)
  /\ IF yield_on_return
       THEN /\ stack' = [stack EXCEPT ![current][1].at = "switched"]
            /\ on' = FALSE /\ current' = None
       ELSE /\ stack' = [stack EXCEPT ![current] = Tail(@)]
            /\ on' = Top.on
            /\ UNCHANGED current
  /\ UNCHANGED <<idt, yield_on_return, irr>>

(* An internal handler returns. *)
InternalEnd ==
  /\ Handling /\ Top.vec \in Internal /\ ~in_external_intr
  /\ stack' = [stack EXCEPT ![current] = Tail(@)]
  /\ on' = Top.on
  /\ UNCHANGED <<idt, in_external_intr, yield_on_return, current, irr, isr>>

(* The running thread yields or blocks. *)
ThreadYield ==
  /\ InThread /\ Len(stack[current]) < MaxDepth
  /\ stack' = [stack EXCEPT ![current] = <<Yielded(on)>> \o @]
  /\ on' = FALSE /\ current' = None
  /\ UNCHANGED <<idt, in_external_intr, yield_on_return, irr, isr>>

(* schedule switches to t, which returns from thread_yield, and from the   *)
(* interrupt if it yielded on return from one.                             *)
Switch(t) ==
  /\ current = None
  /\ current' = t
  /\ stack' = [stack EXCEPT ![t] = Tail(@)]
  /\ on' = Head(stack[t]).on
  /\ UNCHANGED <<idt, in_external_intr, yield_on_return, irr, isr>>

Next ==
  \/ \E v \in Vectors : IntrRegisterExt(v) \/ \E b \in BOOLEAN : IntrRegisterInt(v, b)
  \/ \E b \in BOOLEAN : IntrSetLevel(b)
  \/ \E l \in Lines : Raise(l) \/ Deliver(l)
  \/ \E v \in {39, 47} : Spurious(v)
  \/ \E v \in Internal : Trap(v)
  \/ IntrYieldOnReturn \/ IntrHandlerEnd \/ InternalEnd \/ ThreadYield
  \/ \E t \in Threads : Switch(t)

Spec == Init /\ [][Next]_vars
-----------------------------------------------------------------------------
(* The types of the state of the interrupt system. *)
TypeOK ==
  /\ idt \in [Vectors -> [type: {"intr", "trap"}, handler: BOOLEAN]]
  /\ on \in BOOLEAN /\ in_external_intr \in BOOLEAN /\ yield_on_return \in BOOLEAN
  /\ current \in Threads \union {None}
  /\ stack \in [Threads -> Seq(Frame)]
  /\ irr \subseteq Lines /\ isr \subseteq 0..15

(* "External interrupts run with interrupts turned off, so they never      *)
(* nest, nor are they ever pre-empted": while intr_handler processes one,  *)
(* its frame is the innermost of the running thread, the flag is off, and  *)
(* no other frame of any thread is being processed; and intr_context tells *)
(* exactly this.                                                           *)
ExternalAlone ==
  LET Processed(t, i) == /\ i <= Len(stack[t]) /\ stack[t][i].at = "handler"
                         /\ stack[t][i].vec \in External
      external == {x \in Threads \X (1..MaxDepth) : Processed(x[1], x[2])}
  IN  IF in_external_intr THEN ~on /\ external = {<<current, 1>>}
                          ELSE external = {}

(* pic_end_of_interrupt: a line that is not acknowledged "will never be    *)
(* delivered to us again".  Outside of external handlers no controller has *)
(* a line in service, whoever was switched to in between.                  *)
LinesAcknowledged == ~in_external_intr => isr = {}

(* intr_handler: external interrupts run alone and with interrupts off,    *)
(* and leave no line unacknowledged.                                       *)
InterruptsInOrder == ExternalAlone /\ LinesAcknowledged

(* yield_on_return is one flag for all interrupts, of all threads.  An     *)
(* interrupted thread yields at the end of the interrupt if, and only if,  *)
(* the handler of that interrupt asked for it.                             *)
YieldAsAsked ==
  in_external_intr /\ ~in_external_intr' => (current' = None <=> Top.asked)
YieldsAsAsked == [][YieldAsAsked]_vars
=============================================================================
