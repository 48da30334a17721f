------------------------------ MODULE Division ------------------------------
(***************************************************************************)
(* lib/arithmetic.c: division of double words on a processor that divides  *)
(* a double word by a word.  A word has Bits bits (32 in the code) and a   *)
(* double word twice as many; unsigned numbers are kept modulo 2^w.        *)
(***************************************************************************)
EXTENDS Integers
LOCAL INSTANCE SequencesExt

CONSTANT Bits

BitsAssumption == Bits \in {2^k : k \in 1..3}

b == 2^Bits

Words == 0..(b - 1)
Doubles == 0..(b * b - 1)

Word(x) == x % b
Double(x) == x % (b * b)

(* The conversions of a word and of a double word to signed numbers. *)
SignedWord(x) == IF Word(x) < b \div 2 THEN Word(x) ELSE Word(x) - b
Signed(x) == IF Double(x) < (b * b) \div 2 THEN Double(x) ELSE Double(x) - b * b

(* divl traps unless the quotient fits in a word. *)
DivlTraps(n, d) == d = 0 \/ n \div d >= b

divl(n, d) == n \div d

(* The shifts of nlz: 16, 8, 4, 2, 1 for a word of 32 bits. *)
Shifts == LET Halve[k \in 1..Bits] == IF k = 1 THEN <<>>
                                      ELSE <<k \div 2>> \o Halve[k \div 2]
          IN  Halve[Bits]

(* Mutant: the bound of each test is one too high. *)
nlz_inclusive(x) ==
  FoldLeft(LAMBDA s, k : IF s.x <= 2^(Bits - k)
                         THEN [n |-> s.n + k, x |-> Word(s.x * 2^k)] ELSE s,
           [n |-> 0, x |-> x], Shifts).n

(* nlz: the number of leading zero bits of a word. *)
nlz(x) ==
  FoldLeft(LAMBDA s, k : IF s.x <= 2^(Bits - k) - 1
                         THEN [n |-> s.n + k, x |-> Word(s.x * 2^k)] ELSE s,
           [n |-> 0, x |-> x], Shifts).n

(* The divl that udiv64 executes, as dividend and divisor; udiv64 returns  *)
(* 0 without one if n < d and d is more than a word.                       *)
DivlOf(n, d) ==
  IF d \div b = 0 THEN [n |-> b * ((n \div b) % d) + (n % b), d |-> d]
  ELSE [n |-> n \div 2, d |-> Double(d * 2^nlz(d \div b)) \div b]

(* udiv64 for a nonzero divisor. *)
udiv64(n, d) ==
  LET x == DivlOf(n, d)
      q == divl(x.n, x.d) \div 2^(Bits - 1 - nlz(d \div b))
  IN  IF d \div b = 0 THEN Double(divl(x.n, x.d) + b * ((n \div b) \div d))
      ELSE IF n < d THEN 0
      ELSE IF Double(n - (q - 1) * d) < d THEN Double(q - 1) ELSE q

(* umod64 returns a word. *)
umod64(n, d) == Word(n - d * udiv64(n, d))

(* sdiv64; n and d are signed. *)
sdiv64(n, d) ==
  LET q_abs == udiv64(Double(IF n >= 0 THEN n ELSE -n), Double(IF d >= 0 THEN d ELSE -d))
  IN  IF (n < 0) = (d < 0) THEN Signed(q_abs) ELSE Signed(-Signed(q_abs))

(* smod64 returns a signed word. *)
smod64(n, d) == SignedWord(n - d * sdiv64(n, d))
-----------------------------------------------------------------------------
(* The exact quotient of integers, rounded towards zero. *)
Truncated(n, d) ==
  LET abs(x) == IF x < 0 THEN -x ELSE x
  IN  IF (n < 0) = (d < 0) THEN abs(n) \div abs(d) ELSE -(abs(n) \div abs(d))

(* __udivdi3 and __divdi3 return the quotient rounded towards zero for     *)
(* every dividend and every nonzero divisor, modulo the width for the most *)
(* negative number over -1, and the divl instruction never traps.          *)
QuotientsExact(n, d) ==
  /\ d <= n \/ d < b => ~DivlTraps(DivlOf(n, d).n, DivlOf(n, d).d)
  /\ udiv64(n, d) = n \div d
  /\ sdiv64(Signed(n), Signed(d)) = Signed(Truncated(Signed(n), Signed(d)))

(* __umoddi3 and __moddi3 return the remainder when the divisor is not     *)
(* more than a word, which is what their results have.                     *)
RemaindersFit(n, d) ==
  /\ d <= b => umod64(n, d) = n % d
  /\ Signed(d) \in (-(b \div 2))..(b \div 2)
       => smod64(Signed(n), Signed(d)) = Signed(n) - Signed(d) * Truncated(Signed(n), Signed(d))
=============================================================================
