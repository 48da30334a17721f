------------------------------- MODULE Loader -------------------------------
(***************************************************************************)
(* What load in userprog/process.c computes: the pages of a loadable       *)
(* segment of an ELF file, and the stack a new process starts with.        *)
(*                                                                         *)
(* The stack is bytes of the memory of Strings.  A word on it is one value *)
(* at its lowest address, followed by zeros.                               *)
(***************************************************************************)
EXTENDS Strings, FiniteSets

CONSTANTS
  PGSIZE,
  PHYS_BASE,
  Wrap           \* 2^32: addresses and sizes are unsigned, modulo Wrap

LoaderAssumption == /\ PGSIZE \in Nat \ {0} /\ PHYS_BASE % PGSIZE = 0
                    /\ Wrap % PGSIZE = 0 /\ PHYS_BASE < Wrap
-----------------------------------------------------------------------------
is_user_vaddr(a) == a < PHYS_BASE
ROUND_UP(x) == ((x + PGSIZE - 1) \div PGSIZE) * PGSIZE

(* validate_segment, for a file of LENGTH bytes. *)
validate_segment(phdr, length) ==
  LET end == (phdr.p_vaddr + phdr.p_memsz) % Wrap
  IN  /\ phdr.p_offset % PGSIZE = phdr.p_vaddr % PGSIZE
      /\ phdr.p_offset <= length
      /\ phdr.p_memsz >= phdr.p_filesz
      /\ phdr.p_memsz # 0
      /\ is_user_vaddr(phdr.p_vaddr) /\ is_user_vaddr(end)
      /\ end >= phdr.p_vaddr
      /\ phdr.p_vaddr >= PGSIZE

RECURSIVE load_segment(_, _, _, _, _)
(* The supplementary page entries load_segment makes, one for each page. *)
load_segment(ofs, upage, read_bytes, zero_bytes, page_no) ==
  LET page_read_bytes == Least(read_bytes, PGSIZE)
      page_zero_bytes == PGSIZE - page_read_bytes
  IN  IF read_bytes = 0 /\ zero_bytes = 0 THEN <<>>
      ELSE <<[read_bytes |-> page_read_bytes, ofs |-> ofs + page_no * PGSIZE,
              upage |-> upage]>>
           \o load_segment(ofs, upage + PGSIZE, read_bytes - page_read_bytes,
                           zero_bytes - page_zero_bytes, page_no + 1)

(* Mutant: the offset in the first page is not counted. *)
SegmentPagesUnaligned(phdr) ==
  LET offset == phdr.p_vaddr % PGSIZE
      read_bytes == phdr.p_filesz
  IN  load_segment(phdr.p_offset - (phdr.p_offset % PGSIZE), phdr.p_vaddr - offset,
                   read_bytes, ROUND_UP(offset + phdr.p_memsz) - read_bytes, 0)

(* The PT_LOAD case of load. *)
SegmentPages(phdr) ==
  LET offset == phdr.p_vaddr % PGSIZE
      read_bytes == IF phdr.p_filesz > 0 THEN offset + phdr.p_filesz ELSE 0
  IN  load_segment(phdr.p_offset - (phdr.p_offset % PGSIZE), phdr.p_vaddr - offset,
                   read_bytes, ROUND_UP(offset + phdr.p_memsz) - read_bytes, 0)
-----------------------------------------------------------------------------
(* push: NUM_BYTES from address ADR go below the stack pointer. *)
push(s, adr, num_bytes) ==
  [mem |-> memcpy(s.mem, s.esp - num_bytes, adr, num_bytes), esp |-> s.esp - num_bytes]

(* push of a null pointer. *)
PushZeros(s, num_bytes) ==
  [mem |-> memset(s.mem, s.esp - num_bytes, 0, num_bytes), esp |-> s.esp - num_bytes]

(* push of a variable of four bytes. *)
PushWord(s, w) ==
  [mem |-> [memset(s.mem, s.esp - 4, 0, 4) EXCEPT ![s.esp - 4] = w], esp |-> s.esp - 4]

PushString(s, adr) == push(s, adr, strnlen(s.mem, adr, PGSIZE) + 1)

RECURSIVE parse_cmd_ln(_, _, _, _)
(* The stack after the words of cmdline are pushed, and their number. *)
parse_cmd_ln(s, cmdline, delimiters, count) ==
  LET t == strtok_r(s.mem, cmdline, delimiters)
      cut == [s EXCEPT !.mem = t.mem]
  IN  IF t.token = NoPtr THEN [s |-> cut, count |-> count]
      ELSE parse_cmd_ln(PushString(cut, t.token), t.save, delimiters, count + 1)

RECURSIVE PushPointers(_, _, _)
(* The loop of push_stack_args: a pointer to each string, lowest first. *)
PushPointers(s, ptr, n) ==
  IF n = 0 THEN s
  ELSE PushPointers(PushWord(s, ptr), ptr + strnlen(s.mem, ptr, PGSIZE) + 1, n - 1)

(* Mutant: no padding below the strings. *)
push_stack_args_unpadded(s, file_name, cmdline, delimiters) ==
  LET words == parse_cmd_ln(PushString(s, file_name), cmdline, delimiters, 0)
      argc == words.count + 1
      ptrs == PushPointers(PushWord(words.s, NUL), words.s.esp, argc)
  IN  PushZeros(PushWord(PushWord(ptrs, ptrs.esp), argc), 4)

push_stack_args(s, file_name, cmdline, delimiters) ==
  LET words == parse_cmd_ln(PushString(s, file_name), cmdline, delimiters, 0)
      argc == words.count + 1
      padded == PushZeros(words.s, words.s.esp % 4)
      ptrs == PushPointers(PushZeros(padded, 4), words.s.esp, argc)
  IN  PushZeros(PushWord(PushWord(ptrs, ptrs.esp), argc), 4)

(* start_process and load: the program's name is the first word of the     *)
(* line at address LINE, and the stack starts at TOP.                      *)
StartStack(mem, line, delimiters, top) ==
  LET t == strtok_r(mem, line, delimiters)
  IN  push_stack_args([mem |-> t.mem, esp |-> top], t.token, t.save, delimiters)
-----------------------------------------------------------------------------
(* A byte of a page: its offset in the file, or a zero. *)
ZERO == -1

(* The pages a valid segment is loaded into hold, at each address of the   *)
(* segment, the byte of the file that belongs there and zeros after those; *)
(* all are user pages, none is page 0, and no page is given twice.         *)
SegmentImage(phdr, length) ==
  LET pages == SegmentPages(phdr)
      Byte(page, i) == IF i < page.read_bytes THEN page.ofs + i ELSE ZERO
  IN  validate_segment(phdr, length) =>
        /\ \A i, j \in 1..Len(pages) : pages[i].upage = pages[j].upage => i = j
        /\ \A i \in 1..Len(pages) :
             pages[i].upage \in {k * PGSIZE : k \in 1..((PHYS_BASE \div PGSIZE) - 1)}
        /\ \A k \in 0..(phdr.p_memsz - 1) :
             \E i \in 1..Len(pages) :
               LET at == phdr.p_vaddr + k - pages[i].upage
               IN  /\ at \in 0..(PGSIZE - 1)
                   /\ Byte(pages[i], at) = IF k < phdr.p_filesz THEN phdr.p_offset + k
                                           ELSE ZERO

RECURSIVE Words(_, _)
(* The words of a text: its longest runs without a delimiter. *)
Words(text, D) ==
  LET Starts(ch) == ch \notin D
      Ends(ch) == ch \in D
      from == First(Starts, text)
      rest == SubSeq(text, from, Len(text))
      n == First(Ends, rest) - 1
  IN  IF rest = <<>> THEN <<>>
      ELSE <<SubSeq(rest, 1, n)>> \o Words(SubSeq(rest, n + 1, Len(rest)), D)

(* The stack start_process leaves is the one main expects: a return        *)
(* address, the number of words of the command line, and an aligned array  *)
(* of pointers to them, in order, that ends with a null pointer.  The      *)
(* words are those of the line as process_execute was given it, although   *)
(* strtok_r has cut it up.                                                 *)
ArgumentsPassed(mem, line, delimiters, D, top) ==
  LET s == StartStack(mem, line, delimiters, top)
      words == Words(Text(mem, line), D)
      argc == s.mem[s.esp + 4]
      argv == s.mem[s.esp + 8]
  IN  words # <<>> =>
        /\ s.mem[s.esp] = 0
        /\ argc = Len(words) /\ argv % 4 = 0 /\ s.esp % 4 = 0
        /\ \A i \in 1..argc : Text(s.mem, s.mem[argv + 4 * (i - 1)]) = words[i]
        /\ s.mem[argv + 4 * argc] = 0
=============================================================================
