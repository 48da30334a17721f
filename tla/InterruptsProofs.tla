-------------------------- MODULE InterruptsProofs --------------------------
(***************************************************************************)
(* External interrupts run alone, are acknowledged, and yield as they were *)
(* asked to: for all threads, lines, traps and depths of nesting.          *)
(***************************************************************************)
EXTENDS Interrupts, TLAPS

(* A frame in which an external interrupt is being processed. *)
Busy(f) == f.at = "handler" /\ f.vec \in External

(* ExternalAlone, frame by frame. *)
Alone ==
  /\ in_external_intr => /\ ~on /\ current \in Threads /\ stack[current] # <<>>
  /\ \A t \in Threads : \A i \in 1..Len(stack[t]) :
       Busy(stack[t][i]) <=> in_external_intr /\ t = current /\ i = 1

(* What is in service while the interrupt of frame f is processed: its     *)
(* line on its controller and on the master; nothing, or line 2 of the     *)
(* master, if it is spurious.                                              *)
Served(f) == {{}, {2}, {f.vec - 32, Master(f.vec - 32)}}

Acknowledging ==
  IF in_external_intr THEN isr \in Served(Top) ELSE isr = {}

(* A thread that does not run is in thread_yield, and has a frame for it. *)
Waiting == \A t \in Threads : t # current => stack[t] # <<>>

(* make_intr_gate: the gates of external vectors turn interrupts off. *)
Gates == \A v \in Vectors : v \in External => idt[v].type = "intr"

Bounded == \A t \in Threads : Len(stack[t]) <= MaxDepth

(* yield_on_return belongs to the interrupt that is being processed. *)
Asked == in_external_intr => (yield_on_return <=> Top.asked)

IInv == TypeOK /\ Alone /\ Acknowledging /\ Waiting /\ Gates /\ Bounded /\ Asked
-----------------------------------------------------------------------------
(* A stack may have one frame, or none. *)
LEMMA OneFrame ==
  ASSUME NEW S, NEW e \in S
  PROVE  <<>> \in Seq(S) /\ <<e>> \in Seq(S)
OBVIOUS

(* A frame put on a stack is its first; the others move up by one. *)
LEMMA PushFacts ==
  ASSUME NEW S, NEW s \in Seq(S), NEW e \in S
  PROVE  /\ <<e>> \o s \in Seq(S) /\ <<e>> \o s # <<>>
         /\ Len(<<e>> \o s) = Len(s) + 1
         /\ (<<e>> \o s)[1] = e /\ Head(<<e>> \o s) = e
         /\ \A i \in 2..(Len(s) + 1) : (<<e>> \o s)[i] = s[i - 1]
OBVIOUS

(* A frame that is left was the first; the others move down by one. *)
LEMMA PopFacts ==
  ASSUME NEW S, NEW s \in Seq(S), s # <<>>
  PROVE  /\ Tail(s) \in Seq(S) /\ Len(s) \in Nat \ {0} /\ Len(Tail(s)) = Len(s) - 1
         /\ Head(s) = s[1] /\ Head(s) \in S
         /\ \A i \in 1..(Len(s) - 1) : Tail(s)[i] = s[i + 1]
OBVIOUS

(* Changing the first frame of a stack changes no other. *)
LEMMA ChangeFacts ==
  ASSUME NEW S, NEW s \in Seq(S), s # <<>>, NEW e \in S
  PROVE  /\ [s EXCEPT ![1] = e] \in Seq(S) /\ [s EXCEPT ![1] = e] # <<>>
         /\ Len([s EXCEPT ![1] = e]) = Len(s)
         /\ [s EXCEPT ![1] = e][1] = e /\ Head([s EXCEPT ![1] = e]) = e
         /\ \A i \in 2..Len(s) : [s EXCEPT ![1] = e][i] = s[i]
OBVIOUS

(* pic_end_of_interrupt empties both controllers, whatever is in service   *)
(* for an external vector.                                                 *)
LEMMA Acknowledged ==
  ASSUME NEW v \in External, isr \in {{}, {2}, {v - 32, Master(v - 32)}},
         pic_end_of_interrupt(v)
  PROVE  isr' = {}
<1>1. ASSUME NEW n \in Int PROVE Min({n}) = n
  BY DEF Min
<1>2. CASE isr = {}
  BY <1>2 DEF pic_end_of_interrupt, EndOf
<1>3. CASE isr = {2}
  <2>1. isr \intersect 0..7 = {2}
    BY <1>3
  <2>2. EndOf(0..7) = {2}
    BY <2>1, <1>1 DEF EndOf
  <2> QED BY <1>3, <2>2 DEF pic_end_of_interrupt
<1>4. CASE isr = {v - 32, Master(v - 32)} /\ v < 40
  <2>1. v - 32 \in 0..7 /\ Master(v - 32) = v - 32
    BY <1>4 DEF Master, External
  <2>2. isr = {v - 32}
    BY <1>4, <2>1
  <2>3. isr \intersect 0..7 = {v - 32}
    BY <2>1, <2>2
  <2>4. EndOf(0..7) = {v - 32}
    BY <2>1, <2>3, <1>1 DEF EndOf
  <2> QED BY <2>2, <2>4 DEF pic_end_of_interrupt
<1>5. CASE isr = {v - 32, Master(v - 32)} /\ v >= 40
  <2>1. v - 32 \in 8..15 /\ Master(v - 32) = 2
    BY <1>5 DEF Master, External
  <2>2. isr = {v - 32, 2}
    BY <1>5, <2>1
  <2>3. isr \intersect 0..7 = {2}
    BY <2>1, <2>2
  <2>4. isr \intersect 8..15 = {v - 32}
    <3>1. 2 \notin 8..15
      OBVIOUS
    <3> QED BY <2>1, <2>2, <3>1, Zenon
  <2>5. EndOf(0..7) = {2} /\ EndOf(8..15) = {v - 32}
    BY <2>1, <2>3, <2>4, <1>1 DEF EndOf
  <2> QED BY <2>2, <2>5, <1>5 DEF pic_end_of_interrupt
<1> QED BY <1>2, <1>3, <1>4, <1>5 DEF External
-----------------------------------------------------------------------------
(* The initial state satisfies the invariant. *)
LEMMA InitIInv ==
  ASSUME InterruptsAssumption, Init
  PROVE  IInv
<1> USE DEF Init, InterruptsAssumption
<1>1. Yielded(TRUE) \in Frame
  BY DEF Yielded, Frame
<1>2. TypeOK
  <2>1. <<>> \in Seq(Frame) /\ <<Yielded(TRUE)>> \in Seq(Frame)
    BY <1>1, OneFrame
  <2>2. stack \in [Threads -> Seq(Frame)]
    BY <2>1
  <2>3. idt \in [Vectors -> [type: {"intr", "trap"}, handler: BOOLEAN]]
    OBVIOUS
  <2> QED BY <2>2, <2>3 DEF TypeOK
<1>3. Alone
  BY DEF Alone, Busy, Yielded
<1>4. Acknowledging /\ Waiting /\ Gates /\ Bounded /\ Asked
  BY DEF Acknowledging, Waiting, Gates, Bounded, Asked
<1> QED BY <1>2, <1>3, <1>4 DEF IInv

(* Putting a frame on the stack of the running thread keeps the types and  *)
(* the bound, and the frames that were there are not external handlers     *)
(* unless one was running.                                                 *)
LEMMA PushStep ==
  ASSUME InterruptsAssumption, IInv, current # None, ~in_external_intr,
         Len(stack[current]) < MaxDepth, NEW f \in Frame,
         stack' = [stack EXCEPT ![current] = <<f>> \o @]
  PROVE  /\ stack' \in [Threads -> Seq(Frame)] /\ Bounded'
         /\ current \in Threads
         /\ \A t \in Threads : stack'[t] # <<>>
         /\ Head(stack'[current]) = f /\ stack'[current][1] = f
         /\ \A t \in Threads : \A i \in 1..Len(stack'[t]) :
              Busy(stack'[t][i]) => t = current /\ i = 1 /\ Busy(f)
<1> DEFINE s == stack[current]
<1>1. current \in Threads /\ stack \in [Threads -> Seq(Frame)]
  BY DEF IInv, TypeOK
<1>2. s \in Seq(Frame) /\ stack' = [stack EXCEPT ![current] = <<f>> \o s]
  BY <1>1
<1>3. /\ <<f>> \o s \in Seq(Frame) /\ <<f>> \o s # <<>>
      /\ Len(<<f>> \o s) = Len(s) + 1
      /\ (<<f>> \o s)[1] = f /\ Head(<<f>> \o s) = f
      /\ \A i \in 2..(Len(s) + 1) : (<<f>> \o s)[i] = s[i - 1]
  BY <1>2, PushFacts
<1>4. stack'[current] = <<f>> \o s /\ \A t \in Threads \ {current} : stack'[t] = stack[t]
  BY <1>1, <1>2
<1>5. stack' \in [Threads -> Seq(Frame)]
  BY <1>1, <1>2, <1>3
<1>6. Len(s) \in Nat
  BY <1>2
<1>7. Bounded'
  BY <1>3, <1>4, <1>6 DEF Bounded, IInv, InterruptsAssumption
<1>8. \A t \in Threads : stack'[t] # <<>>
  BY <1>3, <1>4 DEF IInv, Waiting
<1>9. ASSUME NEW t \in Threads, NEW i \in 1..Len(stack'[t]), Busy(stack'[t][i])
      PROVE  t = current /\ i = 1 /\ Busy(f)
  <2>1. CASE t # current
    BY <2>1, <1>4, <1>9 DEF IInv, Alone
  <2>2. CASE t = current /\ i # 1
    <3>1. i \in 2..(Len(s) + 1) /\ i - 1 \in 1..Len(s)
      BY <2>2, <1>3, <1>4, <1>6, <1>9
    <3>2. stack'[t][i] = s[i - 1]
      BY <3>1, <2>2, <1>3, <1>4
    <3> QED BY <3>1, <3>2, <2>2, <1>1, <1>9 DEF IInv, Alone
  <2>3. CASE t = current /\ i = 1
    BY <2>3, <1>3, <1>4, <1>9
  <2> QED BY <2>1, <2>2, <2>3
<1> QED BY <1>1, <1>3, <1>4, <1>5, <1>7, <1>8, <1>9

(* Leaving the innermost frame of a thread keeps the types and the bound,  *)
(* and leaves no external handler behind if no other was running.          *)
LEMMA PopStep ==
  ASSUME InterruptsAssumption, IInv, NEW t \in Threads, stack[t] # <<>>,
         in_external_intr => t = current,
         stack' = [stack EXCEPT ![t] = Tail(@)]
  PROVE  /\ stack' \in [Threads -> Seq(Frame)] /\ Bounded'
         /\ \A u \in Threads : u # t => stack'[u] = stack[u]
         /\ Head(stack[t]) \in Frame /\ Head(stack[t]) = stack[t][1]
         /\ \A u \in Threads : \A i \in 1..Len(stack'[u]) : ~Busy(stack'[u][i])
<1> DEFINE s == stack[t]
<1>1. stack \in [Threads -> Seq(Frame)] /\ s \in Seq(Frame) /\ s # <<>>
  BY DEF IInv, TypeOK
<1>2. /\ Tail(s) \in Seq(Frame) /\ Len(s) \in Nat \ {0} /\ Len(Tail(s)) = Len(s) - 1
      /\ Head(s) = s[1] /\ Head(s) \in Frame
      /\ \A i \in 1..(Len(s) - 1) : Tail(s)[i] = s[i + 1]
  BY <1>1, PopFacts
<1>3. stack'[t] = Tail(s) /\ \A u \in Threads \ {t} : stack'[u] = stack[u]
  BY <1>1
<1>4. stack' \in [Threads -> Seq(Frame)]
  BY <1>1, <1>2
<1>5. Bounded'
  BY <1>2, <1>3 DEF Bounded, IInv, InterruptsAssumption
<1>6. ASSUME NEW u \in Threads, NEW i \in 1..Len(stack'[u]), Busy(stack'[u][i])
      PROVE  FALSE
  <2>1. CASE u # t
    BY <2>1, <1>3, <1>6 DEF IInv, Alone
  <2>2. CASE u = t
    <3>1. i \in 1..(Len(s) - 1)
      BY <2>2, <1>2, <1>3
    <3>2. i + 1 \in 1..Len(s) /\ i + 1 # 1
      BY <3>1, <1>2
    <3>3. stack'[u][i] = s[i + 1]
      BY <3>1, <2>2, <1>2, <1>3
    <3> QED BY <3>2, <3>3, <2>2, <1>6 DEF IInv, Alone
  <2> QED BY <2>1, <2>2
<1> QED BY <1>2, <1>3, <1>4, <1>5, <1>6

(* Entering the gate of an external vector with nothing in service. *)
LEMMA EnterExternal ==
  ASSUME InterruptsAssumption, IInv, on, current # None,
         NEW v \in Vectors, v \in External, IntrHandler(v),
         isr' \in {{}, {2}, {v - 32, Master(v - 32)}}, isr' \subseteq 0..15,
         irr' \subseteq Lines
  PROVE  IInv'
<1> DEFINE f == [vec |-> v, at |-> "handler", on |-> on, asked |-> FALSE]
<1>1. ~in_external_intr
  BY DEF IInv, Alone
<1>2. f \in Frame /\ Busy(f)
  BY DEF Frame, IInv, TypeOK, Busy
<1>3. /\ Len(stack[current]) < MaxDepth
      /\ stack' = [stack EXCEPT ![current] = <<f>> \o @]
      /\ on' = FALSE /\ in_external_intr' = TRUE /\ yield_on_return' = FALSE
      /\ UNCHANGED <<idt, current>>
  BY DEF IntrHandler, Enter, IInv, Gates
<1>4. /\ stack' \in [Threads -> Seq(Frame)] /\ Bounded'
      /\ current \in Threads
      /\ \A t \in Threads : stack'[t] # <<>>
      /\ Head(stack'[current]) = f /\ stack'[current][1] = f
      /\ \A t \in Threads : \A i \in 1..Len(stack'[t]) :
           Busy(stack'[t][i]) => t = current /\ i = 1 /\ Busy(f)
  BY <1>1, <1>2, <1>3, PushStep
<1> HIDE DEF f
<1>5. TypeOK'
  BY <1>3, <1>4 DEF IInv, TypeOK
<1>6. Alone'
  BY <1>2, <1>3, <1>4 DEF Alone
<1>7. Acknowledging' /\ Asked'
  BY <1>3, <1>4 DEF Acknowledging, Asked, Served, Top, f
<1>8. Waiting' /\ Gates' /\ Bounded'
  BY <1>3, <1>4 DEF IInv, Waiting, Gates
<1> QED BY <1>5, <1>6, <1>7, <1>8 DEF IInv

(* A thread, outside of external handlers, enters a trap or thread_yield. *)
LEMMA EnterOther ==
  ASSUME InterruptsAssumption, IInv, InThread, NEW f \in Frame, ~Busy(f),
         Len(stack[current]) < MaxDepth,
         stack' = [stack EXCEPT ![current] = <<f>> \o @],
         on' \in BOOLEAN, current' \in {current, None},
         yield_on_return' \in BOOLEAN, UNCHANGED <<idt, in_external_intr, irr, isr>>
  PROVE  IInv'
<1>1. current # None /\ ~in_external_intr
  BY DEF InThread
<1>2. /\ stack' \in [Threads -> Seq(Frame)] /\ Bounded'
      /\ current \in Threads
      /\ \A t \in Threads : stack'[t] # <<>>
      /\ \A t \in Threads : \A i \in 1..Len(stack'[t]) :
           Busy(stack'[t][i]) => t = current /\ i = 1 /\ Busy(f)
  BY <1>1, PushStep
<1>3. TypeOK'
  BY <1>2 DEF IInv, TypeOK
<1>4. Alone'
  BY <1>1, <1>2 DEF Alone
<1>5. Acknowledging' /\ Asked' /\ Waiting' /\ Gates'
  BY <1>1, <1>2 DEF IInv, Acknowledging, Asked, Waiting, Gates
<1> QED BY <1>2, <1>3, <1>4, <1>5 DEF IInv

(* The innermost frame of the thread that runs afterwards is left, and no  *)
(* line is in service.                                                     *)
LEMMA Leave ==
  ASSUME InterruptsAssumption, IInv, NEW t \in Threads, stack[t] # <<>>,
         current \in {t, None},
         stack' = [stack EXCEPT ![t] = Tail(@)],
         on' = Head(stack[t]).on, current' = t,
         in_external_intr' = FALSE, isr' = {}, UNCHANGED <<idt, yield_on_return, irr>>
  PROVE  IInv'
<1>1. in_external_intr => t = current
  BY DEF IInv, Alone, InterruptsAssumption
<1>2. /\ stack' \in [Threads -> Seq(Frame)] /\ Bounded'
      /\ \A u \in Threads : u # t => stack'[u] = stack[u]
      /\ Head(stack[t]) \in Frame
      /\ \A u \in Threads : \A i \in 1..Len(stack'[u]) : ~Busy(stack'[u][i])
  BY <1>1, PopStep
<1>3. TypeOK'
  BY <1>2 DEF IInv, TypeOK, Frame
<1>4. Alone'
  BY <1>2 DEF Alone
<1>5. Acknowledging' /\ Asked' /\ Waiting' /\ Gates'
  BY <1>2 DEF IInv, Acknowledging, Asked, Waiting, Gates, InterruptsAssumption
<1> QED BY <1>2, <1>3, <1>4, <1>5 DEF IInv

(* While an external interrupt is processed, its frame is innermost; a     *)
(* step that only changes this frame leaves the others as they are.        *)
LEMMA ChangeStep ==
  ASSUME InterruptsAssumption, IInv, in_external_intr, NEW f \in Frame,
         stack' = [stack EXCEPT ![current] = [@ EXCEPT ![1] = f]]
  PROVE  /\ stack' \in [Threads -> Seq(Frame)] /\ Bounded'
         /\ \A t \in Threads : Len(stack'[t]) = Len(stack[t])
         /\ \A t \in Threads : stack'[t] = <<>> => stack[t] = <<>>
         /\ Head(stack'[current]) = f /\ stack'[current][1] = f
         /\ stack'[current] # <<>>
         /\ \A t \in Threads : \A i \in 1..Len(stack'[t]) :
              Busy(stack'[t][i]) => t = current /\ i = 1
<1> DEFINE s == stack[current]
           r == [s EXCEPT ![1] = f]
<1>1. /\ current \in Threads /\ stack \in [Threads -> Seq(Frame)]
      /\ s \in Seq(Frame) /\ s # <<>> /\ stack' = [stack EXCEPT ![current] = r]
  BY DEF IInv, TypeOK, Alone
<1>2. /\ r \in Seq(Frame) /\ r # <<>> /\ Len(r) = Len(s)
      /\ r[1] = f /\ Head(r) = f /\ \A i \in 2..Len(s) : r[i] = s[i]
  BY <1>1, ChangeFacts
<1>3. stack'[current] = r /\ \A t \in Threads \ {current} : stack'[t] = stack[t]
  BY <1>1
<1>4. stack' \in [Threads -> Seq(Frame)]
  BY <1>1, <1>2
<1> HIDE DEF r
<1>5. \A t \in Threads : Len(stack'[t]) = Len(stack[t])
  BY <1>2, <1>3
<1>6. Bounded'
  BY <1>5 DEF Bounded, IInv
<1>7. ASSUME NEW t \in Threads, NEW i \in 1..Len(stack'[t]), Busy(stack'[t][i]),
             ~(t = current /\ i = 1)
      PROVE  FALSE
  <2>1. CASE t # current
    BY <2>1, <1>3, <1>7 DEF IInv, Alone
  <2>2. CASE t = current
    <3>1. i \in 1..Len(s) /\ i \in 2..Len(s)
      BY <2>2, <1>5, <1>7, <1>1
    <3>2. stack'[t][i] = s[i]
      BY <3>1, <2>2, <1>2, <1>3
    <3> QED BY <3>1, <3>2, <2>2, <1>7 DEF IInv, Alone
  <2> QED BY <2>1, <2>2
<1> QED BY <1>2, <1>3, <1>4, <1>5, <1>6, <1>7

(* Every step preserves the invariant. *)
LEMMA NextIInv ==
  ASSUME InterruptsAssumption, IInv, [Next]_vars
  PROVE  IInv'
<1>1. ASSUME NEW v \in Vectors, NEW level \in BOOLEAN,
             level => v \notin External, register_handler(v, level),
             UNCHANGED <<on, in_external_intr, yield_on_return, current, stack, irr, isr>>
      PROVE  IInv'
  <2>1. TypeOK'
    BY <1>1 DEF IInv, TypeOK, register_handler
  <2>2. Gates'
    BY <1>1 DEF IInv, TypeOK, Gates, register_handler
  <2>3. Alone' /\ Acknowledging' /\ Waiting' /\ Bounded' /\ Asked'
    BY <1>1 DEF IInv, Alone, Acknowledging, Waiting, Bounded, Asked, Top
  <2> QED BY <2>1, <2>2, <2>3 DEF IInv
<1>2. ASSUME NEW level \in BOOLEAN, IntrSetLevel(level)
      PROVE  IInv'
  BY <1>2 DEF IntrSetLevel, InThread, IInv, TypeOK, Alone, Acknowledging, Waiting,
              Gates, Bounded, Asked, Top
<1>3. ASSUME NEW l \in Lines, Raise(l)
      PROVE  IInv'
  BY <1>3 DEF Raise, IInv, TypeOK, Alone, Acknowledging, Waiting, Gates, Bounded,
              Asked, Top
<1>4. ASSUME NEW l \in Lines, Deliver(l)
      PROVE  IInv'
  <2>1. l \in 0..15 /\ Master(l) \in 0..15 /\ (32 + l) - 32 = l
    BY DEF InterruptsAssumption, Master
  <2>2. isr = {}
    BY <1>4 DEF Deliver, IInv, Alone, Acknowledging
  <2>3. isr' = {(32 + l) - 32, Master((32 + l) - 32)} /\ isr' \subseteq 0..15
    BY <1>4, <2>1, <2>2 DEF Deliver
  <2>4. 32 + l \in Vectors /\ 32 + l \in External
    BY <2>1 DEF Vectors, External
  <2>5. irr' \subseteq Lines /\ on /\ current # None /\ IntrHandler(32 + l)
    BY <1>4 DEF Deliver, IInv, TypeOK
  <2> QED BY <2>3, <2>4, <2>5, EnterExternal
<1>5. ASSUME NEW v \in {39, 47}, Spurious(v)
      PROVE  IInv'
  <2>1. v \in Vectors /\ v \in External
    BY DEF Vectors, External
  <2>2. isr' \in {{}, {2}} /\ isr' \subseteq 0..15
    BY <1>5 DEF Spurious
  <2>3. irr' \subseteq Lines /\ on /\ current # None /\ IntrHandler(v)
    BY <1>5 DEF Spurious, IInv, TypeOK
  <2> QED BY <2>1, <2>2, <2>3, EnterExternal
<1>6. ASSUME NEW v \in Internal, Trap(v)
      PROVE  IInv'
  <2> DEFINE f == [vec |-> v, at |-> "handler", on |-> on, asked |-> FALSE]
  <2>1. v \notin External
    BY DEF InterruptsAssumption, External
  <2>2. f \in Frame /\ ~Busy(f)
    BY <2>1 DEF Frame, Busy, Vectors, IInv, TypeOK
  <2>3. /\ InThread /\ Len(stack[current]) < MaxDepth
        /\ stack' = [stack EXCEPT ![current] = <<f>> \o @]
        /\ on' \in BOOLEAN /\ current' = current /\ yield_on_return' \in BOOLEAN
        /\ UNCHANGED <<idt, in_external_intr, irr, isr>>
    BY <1>6, <2>1 DEF Trap, InThread, IntrHandler, Enter, IInv, TypeOK
  <2> QED BY <2>2, <2>3, EnterOther
<1>7. ASSUME ThreadYield
      PROVE  IInv'
  <2>1. Yielded(on) \in Frame /\ ~Busy(Yielded(on))
    BY DEF Yielded, Frame, Busy, IInv, TypeOK
  <2> QED BY <1>7, <2>1, EnterOther DEF ThreadYield, IInv, TypeOK
<1>8. ASSUME NEW t \in Threads, Switch(t)
      PROVE  IInv'
  <2>1. stack[t] # <<>> /\ ~in_external_intr /\ isr = {}
    BY <1>8 DEF Switch, IInv, Waiting, Alone, Acknowledging, InterruptsAssumption
  <2> QED BY <1>8, <2>1, Leave DEF Switch, IInv, TypeOK
<1>9. ASSUME InternalEnd
      PROVE  IInv'
  <2>1. current \in Threads /\ stack[current] # <<>> /\ isr = {} /\ ~in_external_intr
    BY <1>9 DEF InternalEnd, Handling, IInv, TypeOK, Acknowledging
  <2> QED BY <1>9, <2>1, Leave DEF InternalEnd, Top, IInv, TypeOK
<1>10. ASSUME IntrYieldOnReturn
       PROVE  IInv'
  <2> DEFINE f == [Top EXCEPT !.asked = TRUE]
  <2>1. in_external_intr /\ current \in Threads /\ stack[current] # <<>>
    BY <1>10 DEF IntrYieldOnReturn, IInv, Alone
  <2>2. Top = stack[current][1] /\ Top \in Frame /\ 1 \in 1..Len(stack[current])
    BY <2>1 DEF Top, IInv, TypeOK
  <2>3. Busy(Top)
    BY <2>1, <2>2 DEF IInv, Alone
  <2>4. f \in Frame /\ Busy(f) /\ f.asked = TRUE /\ f.vec = Top.vec
    BY <2>2, <2>3 DEF Frame, Busy
  <2>5. stack' = [stack EXCEPT ![current] = [@ EXCEPT ![1] = f]]
    BY <1>10, <2>2 DEF IntrYieldOnReturn
  <2>6. /\ stack' \in [Threads -> Seq(Frame)] /\ Bounded'
        /\ \A t \in Threads : stack'[t] = <<>> => stack[t] = <<>>
        /\ Head(stack'[current]) = f /\ stack'[current][1] = f
        /\ stack'[current] # <<>>
        /\ \A t \in Threads : \A i \in 1..Len(stack'[t]) :
             Busy(stack'[t][i]) => t = current /\ i = 1
    BY <2>1, <2>4, <2>5, ChangeStep
  <2>7. /\ yield_on_return' = TRUE
        /\ UNCHANGED <<idt, on, in_external_intr, current, irr, isr>>
    BY <1>10 DEF IntrYieldOnReturn
  <2> HIDE DEF f
  <2>8. TypeOK'
    BY <2>6, <2>7 DEF IInv, TypeOK
  <2>9. Alone'
    BY <2>1, <2>4, <2>6, <2>7 DEF IInv, Alone
  <2>10. Top' = f
    BY <2>6, <2>7 DEF Top
  <2>11. Acknowledging' /\ Asked'
    BY <2>1, <2>4, <2>7, <2>10 DEF IInv, Acknowledging, Asked, Served
  <2>12. Waiting' /\ Gates'
    BY <2>6, <2>7 DEF IInv, Waiting, Gates
  <2> QED BY <2>6, <2>8, <2>9, <2>11, <2>12 DEF IInv
<1>11. ASSUME IntrHandlerEnd
       PROVE  IInv'
  <2>1. current \in Threads /\ stack[current] # <<>> /\ Top.at = "handler"
        /\ Top.vec \in External
    BY <1>11 DEF IntrHandlerEnd, Handling, IInv, TypeOK
  <2>2. Top = stack[current][1] /\ Top \in Frame /\ 1 \in 1..Len(stack[current])
    BY <2>1 DEF Top, IInv, TypeOK
  <2>3. in_external_intr
    BY <2>1, <2>2 DEF IInv, Alone, Busy
  <2>4. isr' = {}
    BY <1>11, <2>1, <2>3, Acknowledged DEF IntrHandlerEnd, IInv, Acknowledging, Served
  <2>5. CASE ~yield_on_return
    BY <1>11, <2>1, <2>4, <2>5, Leave DEF IntrHandlerEnd, Top
  <2>6. CASE yield_on_return
    <3> DEFINE f == [Top EXCEPT !.at = "switched"]
    <3>1. f \in Frame /\ ~Busy(f)
      BY <2>2 DEF Frame, Busy
    <3>2. /\ stack' = [stack EXCEPT ![current] = [@ EXCEPT ![1] = f]]
          /\ on' = FALSE /\ current' = None /\ in_external_intr' = FALSE
          /\ UNCHANGED <<idt, yield_on_return, irr>>
      BY <1>11, <2>2, <2>6 DEF IntrHandlerEnd
    <3>3. /\ stack' \in [Threads -> Seq(Frame)] /\ Bounded'
          /\ \A t \in Threads : stack'[t] = <<>> => stack[t] = <<>>
          /\ stack'[current][1] = f /\ stack'[current] # <<>>
          /\ \A t \in Threads : \A i \in 1..Len(stack'[t]) :
               Busy(stack'[t][i]) => t = current /\ i = 1
      BY <2>3, <3>1, <3>2, ChangeStep
    <3> HIDE DEF f
    <3>4. TypeOK'
      BY <2>4, <3>2, <3>3 DEF IInv, TypeOK
    <3>5. Alone'
      BY <3>1, <3>2, <3>3 DEF Alone
    <3>6. Acknowledging' /\ Asked' /\ Waiting' /\ Gates'
      BY <2>4, <3>2, <3>3 DEF IInv, Acknowledging, Asked, Waiting, Gates
    <3> QED BY <3>3, <3>4, <3>5, <3>6 DEF IInv
  <2> QED BY <2>5, <2>6
<1>12. CASE UNCHANGED vars
  BY <1>12 DEF vars, IInv, TypeOK, Alone, Acknowledging, Waiting, Gates, Bounded, Asked, Top
<1>13. ASSUME NEW v \in Vectors, IntrRegisterExt(v) \/ \E b \in BOOLEAN : IntrRegisterInt(v, b)
       PROVE  IInv'
  BY <1>1, <1>13 DEF IntrRegisterExt, IntrRegisterInt
<1> QED BY <1>2, <1>3, <1>4, <1>5, <1>6, <1>7, <1>8, <1>9, <1>10, <1>11, <1>12, <1>13
    DEF Next
-----------------------------------------------------------------------------
(* The invariant says that external handlers run alone, and acknowledge. *)
LEMMA IInvInOrder ==
  ASSUME InterruptsAssumption, IInv
  PROVE  InterruptsInOrder
<1> DEFINE Processed(t, i) == /\ i <= Len(stack[t]) /\ stack[t][i].at = "handler"
                              /\ stack[t][i].vec \in External
           external == {x \in Threads \X (1..MaxDepth) : Processed(x[1], x[2])}
<1>1. ASSUME NEW t \in Threads, NEW i \in 1..MaxDepth
      PROVE  Processed(t, i) <=> in_external_intr /\ t = current /\ i = 1
  <2>1. Len(stack[t]) \in Nat /\ MaxDepth \in Nat
    BY DEF IInv, TypeOK, InterruptsAssumption
  <2>2. CASE i <= Len(stack[t])
    <3>1. i \in 1..Len(stack[t])
      BY <2>1, <2>2
    <3> QED BY <2>2, <3>1 DEF IInv, Alone, Busy
  <2>3. CASE ~(i <= Len(stack[t]))
    <3>1. in_external_intr /\ t = current => 1 <= Len(stack[t])
      BY <2>1 DEF IInv, Alone, TypeOK
    <3> QED BY <2>1, <2>3, <3>1
  <2> QED BY <2>2, <2>3
<1> HIDE DEF Processed
<1>2. CASE in_external_intr
  <2>1. current \in Threads /\ 1 \in 1..MaxDepth
    BY <1>2 DEF IInv, Alone, InterruptsAssumption
  <2>2. external = {<<current, 1>>}
    BY <1>1, <1>2, <2>1
  <2> QED BY <1>2, <2>2 DEF InterruptsInOrder, ExternalAlone, LinesAcknowledged, IInv,
             Alone, Processed
<1>3. CASE ~in_external_intr
  <2>1. external = {}
    BY <1>1, <1>3
  <2> QED BY <1>3, <2>1 DEF InterruptsInOrder, ExternalAlone, LinesAcknowledged, IInv,
             Acknowledging, Processed
<1> QED BY <1>2, <1>3

(* intr_handler: external interrupts run alone and with interrupts off,    *)
(* and leave no line unacknowledged.                                       *)
THEOREM InterruptsAlwaysInOrder ==
  ASSUME InterruptsAssumption
  PROVE  Spec => []InterruptsInOrder
<1>1. Init => IInv
  BY InitIInv
<1>2. IInv /\ [Next]_vars => IInv'
  BY NextIInv
<1>3. IInv => InterruptsInOrder
  BY IInvInOrder
<1> QED BY <1>1, <1>2, <1>3, PTL DEF Spec

(* intr_yield_on_return: an interrupted thread yields at the end of the    *)
(* interrupt if and only if the handler of that interrupt asked for it.    *)
THEOREM YieldsOnlyAsAsked ==
  ASSUME InterruptsAssumption
  PROVE  Spec => YieldsAsAsked
<1>1. Init => IInv
  BY InitIInv
<1>2. IInv /\ [Next]_vars => IInv'
  BY NextIInv
<1>3. IInv /\ [Next]_vars => [YieldAsAsked]_vars
  <2> SUFFICES ASSUME IInv, Next, in_external_intr, ~in_external_intr'
               PROVE  current' = None <=> Top.asked
    BY DEF YieldAsAsked, vars
  <2>1. IntrHandlerEnd
    BY DEF Next, IntrRegisterExt, IntrRegisterInt, IntrSetLevel, Raise, Deliver, Spurious,
           Trap, InThread, IntrHandler, IntrYieldOnReturn, InternalEnd, ThreadYield, Switch
  <2>2. current # None /\ (yield_on_return <=> Top.asked)
    BY <2>1 DEF IntrHandlerEnd, Handling, IInv, Asked
  <2> QED BY <2>1, <2>2 DEF IntrHandlerEnd
<1> QED BY <1>1, <1>2, <1>3, PTL DEF Spec, YieldsAsAsked
=============================================================================
