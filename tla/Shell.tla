--------------------------------- MODULE Shell ---------------------------------
(***************************************************************************)
(* The shell (init.c) and what it uses of the C library: getline on a      *)
(* growing buffer (stdio.c), malloc over mmap (stdlib.c), strsep           *)
(* (strlib.c), exec (unistd.c).  Keys come through read one at a time      *)
(* (Keyboard), mmap and exec are those of Kernel as a program sees them.   *)
(***************************************************************************)
EXTENDS Strings, FiniteSets

CONSTANTS
  Letter,       \* the characters of keys other than these two:
  NL, BS,       \* enter and backspace
  Program,      \* the names of the modules that can be run
  PageSize,     \* PAGE_SIZE
  Align,        \* the 16 that malloc rounds to
  FirstSize,    \* the 120 that getline starts with
  Memory,       \* the pages of memory for mmap and programs
  Fresh         \* a byte of a page that nobody has written to: 0, for vm_map
                \* clears pages, but nothing that is proved depends on it

ASSUME SizeAssumption ==
  /\ PageSize \in Nat \ {0} /\ Align \in Nat \ {0, 1} /\ FirstSize \in Nat \ {0}
  /\ PageSize % Align = 0 /\ Memory \in Nat /\ Fresh \in 0..255
ASSUME CharAssumption ==
  Letter \subseteq 1..127 /\ {NL, BS} \subseteq (1..127) \ Letter /\ Program \subseteq Seq(Letter)

VARIABLES
  pc,        \* where the shell is; "program" while another program runs
  m,         \* the memory at the addresses mmap gives
  heap,      \* [bump, space]: malloc's bump and space_remaining
  maps,      \* [first, next, left]: the first page of this run of the shell, the
             \* page at mmap_next_start, and the pages of memory left
  line,      \* [ptr, n, num, cursor]: *lineptr, *n, num_read and cursor
  input,     \* the shell's `input', after strsep
  name,      \* its `input_trunc'
  keys,      \* the characters typed for this line (no code reads it)
  fault      \* the addresses outside its memory that it last stored to

vars == <<pc, m, heap, maps, line, input, name, keys, fault>>

Failed == -1      \* what mmap returns when there is no memory

Address == 0..((Memory + 1) * PageSize + 2)
Mapped(p) == (p.first * PageSize)..(p.next * PageSize - 1)

-----------------------------------------------------------------------------
RoundUp(x, y) == IF x % y = 0 THEN x ELSE x + (y - (x % y))

(* Definitions whose names end in Mistake are what the code would be with  *)
(* a likely mistake in it: the runs check that each one breaks a property. *)
MmapMistake(p, pages) ==
  [result |-> p.next * PageSize,
   maps |-> [p EXCEPT !.next = @ + pages, !.left = @ - pages]]

(* sys_mmap for a program: some pages may be mapped before it fails.       *)
Mmap(p, pages) ==
  LET got == IF pages <= p.left THEN pages ELSE p.left
  IN  [result |-> IF pages <= p.left THEN p.next * PageSize ELSE Failed,
       maps |-> [p EXCEPT !.next = @ + got, !.left = @ - got]]

(* malloc.  Its test of mmap's result, for NULL, never holds.              *)
MallocMistake(size) ==
  LET sz == RoundUp(size, Align)
      more == RoundUp(sz, PageSize)
      new == Mmap(maps, more \div PageSize)
  IN  IF heap.space >= sz
        THEN [result |-> heap.bump, maps |-> maps,
              heap |-> [bump |-> heap.bump + sz, space |-> heap.space - sz]]
        ELSE [result |-> new.result, maps |-> new.maps,
              heap |-> [bump |-> new.result, space |-> more]]

Malloc(size) ==
  LET sz == RoundUp(size, Align)
      more == RoundUp(sz, PageSize)
      new == Mmap(maps, more \div PageSize)
  IN  IF heap.space >= sz
        THEN [result |-> heap.bump, maps |-> maps,
              heap |-> [bump |-> heap.bump + sz, space |-> heap.space - sz]]
        ELSE [result |-> new.result, maps |-> new.maps,
              heap |-> [bump |-> new.result + sz, space |-> more - sz]]

NoHeap == [bump |-> NULL, space |-> 0]
NoLine == [ptr |-> NULL, n |-> 0, num |-> -1, cursor |-> NULL]

Init ==
  /\ pc = "prompt"
  /\ m = [a \in Address |-> Fresh]
  /\ heap = NoHeap
  /\ maps = [first |-> 1, next |-> 1, left |-> Memory]
  /\ line = NoLine
  /\ input = NULL /\ name = NULL
  /\ keys = <<>> /\ fault = {}

(* The prompt, and getline up to its loop.  The buffers of earlier lines   *)
(* are never freed and never used again: their bytes are forgotten.        *)
Prompt ==
  /\ pc = "prompt"
  /\ LET a == Malloc(FirstSize) IN
     /\ line' = [ptr |-> a.result, n |-> FirstSize, num |-> -1, cursor |-> a.result]
     /\ heap' = a.heap
     /\ maps' = a.maps
  /\ m' = [a \in Address |-> Fresh]
  /\ keys' = <<>>
  /\ input' = NULL /\ name' = NULL
  /\ pc' = "getline"
  /\ UNCHANGED fault

GrowMistake(n, num) == n < num

(* Whether the buffer is too short for character number num.               *)
Grows(n, num) == n <= num

(* One character that read returned, in getline's loop.                    *)
GetCharacter(c) ==
  LET num == line.num + 1
      grows == Grows(line.n, num)
      a == IF grows THEN Malloc(line.n * 2)
           ELSE [result |-> line.ptr, heap |-> heap, maps |-> maps]
      cursor == IF grows THEN a.result + num ELSE line.cursor
      stores == {cursor} \union (IF grows THEN a.result..(a.result + num - 1) ELSE {})
                  \union (IF c = NL THEN {cursor + 2} ELSE {})
      copied == IF grows THEN memcpy(m, a.result, line.ptr, num) ELSE m
      stored == [copied EXCEPT ![cursor] = c]
  IN  /\ pc = "getline"
      /\ keys' = Append(keys, c)
      /\ heap' = a.heap /\ maps' = a.maps
      /\ line' = [ptr |-> a.result, n |-> IF grows THEN line.n * 2 ELSE line.n,
                  num |-> num, cursor |-> cursor + 1]
      /\ fault' = stores \ Mapped(a.maps)
      /\ IF fault' # {} THEN pc' = "halted" /\ UNCHANGED m
         ELSE IF c = NL THEN pc' = "strsep" /\ m' = [stored EXCEPT ![cursor + 2] = NUL]
         ELSE pc' = "getline" /\ m' = stored
      /\ UNCHANGED <<input, name>>

(* A read of one character ignores a backspace, which kgetc has already    *)
(* shown on the screen.                                                    *)
Backspace == pc = "getline" /\ UNCHANGED vars

(* The shell cuts the line at its end, and goes back for another if there  *)
(* is nothing in it.                                                       *)
CutLine ==
  /\ pc = "strsep"
  /\ LET s == strsep(m, line.ptr, {NL}) IN
     /\ m' = s.m /\ name' = s.result /\ input' = s.rest
     /\ pc' = IF stringlen(s.m, s.result) = 0 THEN "prompt" ELSE "exec"
  /\ UNCHANGED <<heap, maps, line, keys, fault>>

(* exec returns only if nothing was loaded, and then always -1: the shell   *)
(* says that there is no such program.  A program that cannot be loaded    *)
(* for want of memory leaves no shell to return to (Kernel).               *)
Exec ==
  /\ pc = "exec"
  /\ IF \E p \in Program : strcmp(p \o <<NUL>>, 1, m, name) = 0
       THEN /\ pc' = IF maps.left = 0 THEN "halted" ELSE "program"
            /\ maps' = [maps EXCEPT !.left = IF @ = 0 THEN 0 ELSE @ - 1]
       ELSE pc' = "prompt" /\ UNCHANGED maps
  /\ UNCHANGED <<m, heap, line, input, name, keys, fault>>

(* The program maps memory of its own, and its exit loads the shell again.  *)
Exit ==
  /\ pc = "program"
  /\ \E pages \in 0..1 :
       LET p == Mmap(maps, pages).maps IN
       /\ pc' = IF p.left = 0 THEN "halted" ELSE "prompt"
       /\ maps' = [first |-> p.next, next |-> p.next, left |-> IF p.left = 0 THEN 0 ELSE p.left - 1]
  /\ heap' = NoHeap
  /\ line' = NoLine
  /\ UNCHANGED <<m, input, name, keys, fault>>

Next ==
  \/ Prompt
  \/ \E c \in Letter \union {NL} : GetCharacter(c)
  \/ Backspace
  \/ CutLine
  \/ Exec
  \/ Exit

Spec == Init /\ [][Next]_vars

-----------------------------------------------------------------------------
TypeOK ==
  /\ pc \in {"prompt", "getline", "strsep", "exec", "program", "halted"}
  /\ m \in [Address -> Letter \union {NL, NUL, Fresh}]
  /\ heap.bump \in Int /\ heap.space \in Nat
  /\ maps \in [first : 1..(Memory + 1), next : 1..(Memory + 1), left : 0..Memory]
  /\ maps.first <= maps.next
  /\ line.ptr \in Int /\ line.cursor \in Int /\ line.n \in Nat /\ line.num >= -1
  /\ input \in Address /\ name \in Address
  /\ keys \in Seq(Letter \union {NL})

(* The buffer that getline fills lies in memory that this run of the shell *)
(* mapped, and malloc will not give any of it out again, however often it  *)
(* has grown (stdlib.c:34-59), unless mmap has failed.                     *)
BufferIsOwned ==
  (pc \in {"getline", "strsep", "exec"} /\ line.ptr # Failed) =>
    LET buffer == line.ptr..(line.ptr + line.n - 1) IN
    /\ buffer \subseteq Mapped(maps)
    /\ buffer \intersect (heap.bump..(heap.bump + heap.space - 1)) = {}

(* getline stores outside mapped memory in two cases only: malloc has      *)
(* returned mmap's -1 (stdlib.c:45), or the byte that should end the line, *)
(* stored one place late (stdio.c:180), misses a buffer that the line      *)
(* fills and that ends where mapped memory ends.                           *)
FaultsOnlyAtTheEdge ==
  fault # {} =>
    \/ line.ptr = Failed
    \/ /\ fault \subseteq {line.ptr + line.n, line.ptr + line.n + 1}
       /\ line.ptr + RoundUp(line.n, Align) = maps.next * PageSize
       /\ Last(keys) = NL

(* What exec is called with is the line as typed, never empty, after any   *)
(* growth of the buffer and whatever its memory held (stdio.c:147-185,     *)
(* strlib.c:82-106, init.c:22-27).                                         *)
ExecsTypedName ==
  pc = "exec" => Len(keys) > 1 /\ Holds(m, name, Front(keys))

(* On any name typed, the string functions find its length, its first      *)
(* blank, its words (strtok_r, as long as it is not called again once the  *)
(* last word has reached the end of the text), its number if an int holds  *)
(* it, that number as printed in either base, whether it is the name of a  *)
(* program, and copy its characters; of the end of a copy StrcpyCopiesEnd  *)
(* speaks (strlib.c, stdlib.c:73-88, stdio.c:28-71).                       *)
StringsAgree ==
  pc = "exec" =>
    LET text == Front(keys)
        blank == {32}
        blanks == {i \in DOMAIN text : text[i] = 32}
        starts == WordStarts(text, blank)
        number == Number(text)
        value == atoi(m, name)
        copy == strcpy(memset(m, 0, 255, PageSize), 0, name)
    IN  /\ stringlen(m, name) = Len(text)
        /\ strpbrk(m, name, blank) =
             (IF blanks = {} THEN NULL ELSE name + (CHOOSE i \in blanks : \A j \in blanks : i <= j) - 1)
        /\ Tokens(m, name, text, blank) = {<<i, Word(text, blank, i)>> : i \in starts}
        /\ Len(number) < 10 =>
             /\ value = ValueOf(number, 10)
             /\ \A base \in {10, 16} :
                  LET d == print_digits(value, base)
                  IN  ValueOf(d, base) = value /\ (Len(d) > 1 => d[1] # 48)
        /\ \A p \in Program :
             LET order == strcmp(p \o <<NUL>>, 1, m, name) IN
             /\ order = 0 <=> p = text
             /\ order = -strcmp(m, name, p \o <<NUL>>, 1)
        /\ Len(text) < PageSize => \A i \in DOMAIN text : copy[i - 1] = text[i]

(* What strlib.c:62 and strlib.h:39 say of strcpy, that it also copies the *)
(* null terminator: a name copied over other characters is that name.      *)
StrcpyCopiesEnd ==
  pc = "exec" =>
    LET text == Front(keys)
        copy == strcpy(memset(m, 0, 255, PageSize), 0, name)
    IN  Len(text) < PageSize => Holds(copy, 0, text)

=============================================================================
