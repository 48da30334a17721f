-------------------------------- MODULE Vga ---------------------------------
(***************************************************************************)
(* The text screen of devices/vga.c.  vga_putc runs with interrupts off,   *)
(* so that a character is one step.  The history variable paper is what    *)
(* would have been written on an endless roll of paper.                    *)
(***************************************************************************)
EXTENDS Integers, Sequences

CONSTANTS
  COL_CNT, ROW_CNT,
  Tab,           \* 8 in the code
  MaxLines       \* bound: rows of paper

VgaAssumption == /\ COL_CNT \in Nat \ {0} /\ ROW_CNT \in Nat \ {0} /\ Tab \in Nat \ {0}

VARIABLES
  inited, cx, cy,
  fb,            \* fb[y + 1][x + 1]: the character at (x, y)
  cursor,        \* the cursor position the hardware keeps
  paper, row     \* history: all rows, and the row of the cursor

vars == <<inited, cx, cy, fb, cursor, paper, row>>

Blank == [x \in 1..COL_CNT |-> " "]
Bios == [x \in 1..COL_CNT |-> "bios"]

(* The BIOS has left something on the screen and the cursor somewhere. *)
Init ==
  /\ inited = FALSE /\ cx = 0 /\ cy = 0
  /\ fb = [y \in 1..ROW_CNT |-> Bios]
  /\ cursor \in 0..(COL_CNT * ROW_CNT - 1)
  /\ paper = fb /\ row = (cursor \div COL_CNT) + 1

(* The screen as a record, so that the steps of vga_putc can be composed. *)
Screen == [x |-> cx, y |-> cy, fb |-> fb]

(* Mutant: the last row is not cleared. *)
newline_dirty(s) ==
  IF s.y + 1 >= ROW_CNT
  THEN [x |-> 0, y |-> ROW_CNT - 1, fb |-> Tail(s.fb) \o <<s.fb[ROW_CNT]>>]
  ELSE [s EXCEPT !.x = 0, !.y = @ + 1]

(* newline, scrolling with memmove and clear_row on the last row. *)
newline(s) ==
  IF s.y + 1 >= ROW_CNT
  THEN [x |-> 0, y |-> ROW_CNT - 1, fb |-> Tail(s.fb) \o <<Blank>>]
  ELSE [s EXCEPT !.x = 0, !.y = @ + 1]

cls == [x |-> 0, y |-> 0, fb |-> [y \in 1..ROW_CNT |-> Blank]]

(* Wraps when the cursor has left the row. *)
Wrapped(s) == IF s.x >= COL_CNT THEN newline(s) ELSE s

(* The position the hardware has, read from it and written to it. *)
find_cursor == [Screen EXCEPT !.x = cursor % COL_CNT, !.y = cursor \div COL_CNT]
move_cursor(s) == cursor' = s.x + COL_CNT * s.y

(* init: the position is read from the hardware once. *)
Found == IF inited THEN Screen ELSE find_cursor

(* The screen after the switch of vga_putc. *)
After(c) ==
  LET s == Found
  IN  CASE c = "newline" -> newline(s)
        [] c = "clear" -> cls
        [] c = "backspace" -> [s EXCEPT !.x = IF @ > 0 THEN @ - 1 ELSE @]
        [] c = "return" -> [s EXCEPT !.x = 0]
        [] c = "tab" -> Wrapped([s EXCEPT !.x = ((@ + 1 + Tab - 1) \div Tab) * Tab])
        [] c = "bell" -> s
        [] OTHER -> Wrapped([s EXCEPT !.fb[s.y + 1][s.x + 1] = c, !.x = @ + 1])

(* What the character does to the paper: printed at the row and column of  *)
(* the cursor; a new row is started when the cursor leaves the last one.   *)
OnPaper(c, x, moved) ==
  LET printed == IF c \in {"newline", "backspace", "return", "tab", "bell"} THEN paper
                 ELSE [paper EXCEPT ![row][x + 1] = c]
  IN  IF moved /\ row = Len(paper) THEN Append(printed, Blank) ELSE printed

(* vga_putc. *)
Putc(c) ==
  LET s == After(c)
      x == Found.x
      \* the column after the last one begins the next row
      moved == \/ c = "newline"
               \/ c = "tab" /\ ((x \div Tab) + 1) * Tab >= COL_CNT
               \/ c \notin {"newline", "backspace", "return", "tab", "bell"} /\ x = COL_CNT - 1
  IN  /\ inited' = TRUE
      /\ cx' = s.x /\ cy' = s.y /\ fb' = s.fb
      /\ move_cursor(s)
      /\ IF c = "clear"
         THEN paper' = [y \in 1..ROW_CNT |-> Blank] /\ row' = 1
         ELSE /\ paper' = OnPaper(c, x, moved)
              /\ row' = IF moved THEN row + 1 ELSE row
              /\ Len(paper') <= MaxLines

Chars == {"x", "newline", "clear", "backspace", "return", "tab", "bell"}

Next == \E c \in Chars : Putc(c)

Spec == Init /\ [][Next]_vars
-----------------------------------------------------------------------------
(* The screen always shows the last rows of the paper, however often it    *)
(* has been scrolled, wrapped or cleared, and the cursor, which never      *)
(* leaves the screen, is where the next character goes and where the       *)
(* hardware shows it.                                                      *)
ScreenShowsTail ==
  /\ fb = SubSeq(paper, Len(paper) - ROW_CNT + 1, Len(paper))
  /\ inited => /\ cx \in 0..(COL_CNT - 1) /\ cy \in 0..(ROW_CNT - 1)
               /\ row = Len(paper) - ROW_CNT + 1 + cy
               /\ cursor = cx + COL_CNT * cy
=============================================================================
