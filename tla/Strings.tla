------------------------------- MODULE Strings ------------------------------
(***************************************************************************)
(* lib/string.c.  A memory is a function from addresses to bytes; a string *)
(* is the address of its first byte and ends before the first NUL.  The    *)
(* loops of the code are recursive operators over an address or a count.   *)
(***************************************************************************)
EXTENDS Integers, Sequences
LOCAL INSTANCE SequencesExt

NUL == 0

(* The null pointer; address 0 is an address of the model. *)
NoPtr == -1

RECURSIVE memcpy(_, _, _, _)
(* The memory after SIZE bytes are copied forwards. *)
memcpy(mem, dst, src, size) ==
  IF size = 0 THEN mem
  ELSE memcpy([mem EXCEPT ![dst] = mem[src]], dst + 1, src + 1, size - 1)

RECURSIVE CopyBackwards(_, _, _, _)
CopyBackwards(mem, dst, src, size) ==
  IF size = 0 THEN mem
  ELSE CopyBackwards([mem EXCEPT ![dst + size - 1] = mem[src + size - 1]],
                     dst, src, size - 1)

(* Mutant: always forwards. *)
memmove_forwards(mem, dst, src, size) == memcpy(mem, dst, src, size)

(* The memory memmove leaves. *)
memmove(mem, dst, src, size) ==
  IF dst < src THEN memcpy(mem, dst, src, size)
  ELSE CopyBackwards(mem, dst, src, size)

memset(mem, dst, value, size) ==
  [a \in DOMAIN mem |-> IF a \in dst..(dst + size - 1) THEN value ELSE mem[a]]

RECURSIVE memcmp(_, _, _, _)
memcmp(mem, a, c, size) ==
  IF size = 0 THEN 0
  ELSE IF mem[a] # mem[c] THEN (IF mem[a] > mem[c] THEN 1 ELSE -1)
  ELSE memcmp(mem, a + 1, c + 1, size - 1)

RECURSIVE strcmp(_, _, _)
strcmp(mem, a, c) ==
  IF mem[a] # NUL /\ mem[a] = mem[c] THEN strcmp(mem, a + 1, c + 1)
  ELSE IF mem[a] < mem[c] THEN -1 ELSE IF mem[a] > mem[c] THEN 1 ELSE 0

RECURSIVE memchr(_, _, _, _)
memchr(mem, block, ch, size) ==
  IF size = 0 THEN NoPtr
  ELSE IF mem[block] = ch THEN block ELSE memchr(mem, block + 1, ch, size - 1)

RECURSIVE strchr(_, _, _)
strchr(mem, string, c) ==
  IF mem[string] = c THEN string
  ELSE IF mem[string] = NUL THEN NoPtr ELSE strchr(mem, string + 1, c)

RECURSIVE strcspn(_, _, _)
strcspn(mem, string, stop) ==
  IF mem[string] = NUL \/ strchr(mem, stop, mem[string]) # NoPtr THEN 0
  ELSE 1 + strcspn(mem, string + 1, stop)

RECURSIVE strspn(_, _, _)
strspn(mem, string, skip) ==
  IF mem[string] = NUL \/ strchr(mem, skip, mem[string]) = NoPtr THEN 0
  ELSE 1 + strspn(mem, string + 1, skip)

RECURSIVE strpbrk(_, _, _)
strpbrk(mem, string, stop) ==
  IF mem[string] = NUL THEN NoPtr
  ELSE IF strchr(mem, stop, mem[string]) # NoPtr THEN string
  ELSE strpbrk(mem, string + 1, stop)

RECURSIVE LastBefore(_, _, _, _)
(* The loop of strrchr, p being the last occurrence so far. *)
LastBefore(mem, string, c, p) ==
  IF mem[string] = NUL THEN p
  ELSE LastBefore(mem, string + 1, c, IF mem[string] = c THEN string ELSE p)

strrchr(mem, string, c) == LastBefore(mem, string, c, NoPtr)

RECURSIVE strlen(_, _)
strlen(mem, string) == IF mem[string] = NUL THEN 0 ELSE 1 + strlen(mem, string + 1)

RECURSIVE strnlen(_, _, _)
strnlen(mem, string, maxlen) ==
  IF mem[string] = NUL \/ maxlen = 0 THEN 0 ELSE 1 + strnlen(mem, string + 1, maxlen - 1)

RECURSIVE Occurrence(_, _, _, _)
(* The loop of strstr over the offsets i, i + 1, ... *)
Occurrence(mem, haystack, needle, i) ==
  IF i > strlen(mem, haystack) - strlen(mem, needle) THEN NoPtr
  ELSE IF memcmp(mem, haystack + i, needle, strlen(mem, needle)) = 0 THEN haystack + i
  ELSE Occurrence(mem, haystack, needle, i + 1)

strstr(mem, haystack, needle) ==
  IF strlen(mem, haystack) >= strlen(mem, needle)
  THEN Occurrence(mem, haystack, needle, 0) ELSE NoPtr

(* Mutant: the byte after the last delimiter is skipped too. *)
strtok_r_skips(mem, s, delimiters) ==
  LET token == s + strspn(mem, s, delimiters)
      end == token + strcspn(mem, token, delimiters)
  IN  IF mem[token] = NUL THEN [mem |-> mem, token |-> NoPtr, save |-> token]
      ELSE IF mem[end] # NUL
           THEN [mem |-> [mem EXCEPT ![end] = NUL], token |-> token, save |-> end + 2]
           ELSE [mem |-> mem, token |-> token, save |-> end]

(* strtok_r from position s: the memory, the token and *save_ptr.  Its two *)
(* loops are those of strspn and strcspn.                                  *)
strtok_r(mem, s, delimiters) ==
  LET token == s + strspn(mem, s, delimiters)
      end == token + strcspn(mem, token, delimiters)
  IN  IF mem[token] = NUL THEN [mem |-> mem, token |-> NoPtr, save |-> token]
      ELSE IF mem[end] # NUL
           THEN [mem |-> [mem EXCEPT ![end] = NUL], token |-> token, save |-> end + 1]
           ELSE [mem |-> mem, token |-> token, save |-> end]

Least(x, y) == IF x < y THEN x ELSE y

(* Mutant: room for the terminator is forgotten. *)
strlcpy_full(mem, dst, src, size) ==
  LET dst_len == Least(size, strlen(mem, src))
  IN  IF size = 0 THEN mem
      ELSE [memcpy(mem, dst, src, dst_len) EXCEPT ![dst + dst_len] = NUL]

(* The memory strlcpy leaves; it returns the length of src. *)
strlcpy(mem, dst, src, size) ==
  LET dst_len == Least(size - 1, strlen(mem, src))
  IN  IF size = 0 THEN mem
      ELSE [memcpy(mem, dst, src, dst_len) EXCEPT ![dst + dst_len] = NUL]

(* The memory strlcat leaves; it returns the sum of the lengths. *)
strlcat(mem, dst, src, size) ==
  LET dst_len == strlen(mem, dst)
      copy_cnt == Least(size - dst_len - 1, strlen(mem, src))
  IN  IF size = 0 \/ dst_len >= size THEN mem
      ELSE [memcpy(mem, dst + dst_len, src, copy_cnt) EXCEPT ![dst + dst_len + copy_cnt] = NUL]
-----------------------------------------------------------------------------
(* What the functions promise, in terms of the sequences of characters. *)
RECURSIVE Text(_, _)
Text(mem, s) == IF mem[s] = NUL THEN <<>> ELSE <<mem[s]>> \o Text(mem, s + 1)

First(P(_), s) == IF \E i \in 1..Len(s) : P(s[i])
                  THEN CHOOSE i \in 1..Len(s) : P(s[i]) /\ \A j \in 1..(i - 1) : ~P(s[j])
                  ELSE Len(s) + 1

(* A block that memmove copies arrives as it was, also where source and    *)
(* destination overlap, and nothing else changes.                          *)
MovesExact(mem, dst, src, size) ==
  LET after == memmove(mem, dst, src, size)
  IN  \A a \in DOMAIN mem :
        after[a] = IF a \in dst..(dst + size - 1) THEN mem[src + a - dst] ELSE mem[a]

(* strlcpy and strlcat never write past the SIZE bytes they are given,     *)
(* leave a terminated string, and leave all of it when it fits.  The       *)
(* strings do not overlap: src comes after the SIZE bytes.                 *)
CopiesBounded(mem, dst, src, size) ==
  LET cpy == strlcpy(mem, dst, src, size)
      cat == strlcat(mem, dst, src, size)
      whole == Text(mem, dst) \o Text(mem, src)
  IN  /\ \A a \in DOMAIN mem \ (dst..(dst + size - 1)) : cpy[a] = mem[a] /\ cat[a] = mem[a]
      /\ size > 0 => Text(cpy, dst) = SubSeq(Text(mem, src), 1,
                                             Least(size - 1, strlen(mem, src)))
      /\ strlen(mem, dst) < size
           => Text(cat, dst) = SubSeq(whole, 1, Least(size - 1, Len(whole)))
      /\ size > 0 /\ strlen(mem, dst) >= size => cat = mem

(* The searching functions agree with what they are meant to find in the   *)
(* sequences of characters.  dst is the text and src the pattern.          *)
SearchesExact(mem, s, t, c) ==
  LET x == Text(mem, s)
      y == Text(mem, t)
      In(ch) == \E i \in 1..Len(y) : y[i] = ch
      At(p, i) == p = IF i > Len(x) THEN NoPtr ELSE s + i - 1
      IsChar(ch) == ch = c
      NotIn(ch) == ~In(ch)
      starts == {i \in 0..(Len(x) - Len(y)) : SubSeq(x, i + 1, i + Len(y)) = y}
  IN  /\ strcspn(mem, s, t) = First(In, x) - 1
      /\ strspn(mem, s, t) = First(NotIn, x) - 1
      /\ At(strpbrk(mem, s, t), First(In, x))
      /\ c # NUL => At(strchr(mem, s, c), First(IsChar, x))
      /\ strchr(mem, s, NUL) = s + Len(x)
      /\ At(memchr(mem, s, c, Len(x)), First(IsChar, x))
      /\ strrchr(mem, s, c) = IF \E i \in 1..Len(x) : x[i] = c
           THEN s - 1 + CHOOSE i \in 1..Len(x) :
                          x[i] = c /\ \A j \in (i + 1)..Len(x) : x[j] # c
           ELSE NoPtr
      /\ strstr(mem, s, t) = IF starts = {} THEN NoPtr
           ELSE s + CHOOSE i \in starts : \A j \in starts : i <= j
      /\ strcmp(mem, s, t) = 0 <=> x = y
      /\ memcmp(mem, s, t, Len(x) + 1) = 0 <=> x = y
      /\ strcmp(mem, s, t) = -strcmp(mem, t, s)
      /\ \A n \in 0..(Len(x) + 1) : strnlen(mem, s, n) = Least(n, Len(x))
=============================================================================
