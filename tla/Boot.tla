--------------------------------- MODULE Boot ---------------------------------
(***************************************************************************)
(* The kernel from _start to user mode (boot.c): the order in which it     *)
(* prepares the interrupt controllers (pic.c), the interrupt table (idt.c) *)
(* and the segments (gdt.c), with interrupts coming at any moment, and how *)
(* the bootloader's memory map becomes the freelist (mem_init).            *)
(*                                                                         *)
(* The paging and loading that follow are AddressSpace and Kernel, what    *)
(* the keyboard handler does is KeyPress and Keyboard.                     *)
(***************************************************************************)
EXTENDS Integers, Sequences, SequencesExt, FiniteSets

CONSTANTS
  Handover,        \* the lists of tags that bootloaders hand over: [id, data]
  Irq,             \* the interrupt lines that devices raise
  PageSize,        \* PAGE_SIZE
  MaxMemSections   \* MAX_MEM_SECTIONS, the words in mem_init's arrays

(* The stivale2 protocol promises these tags, in any order and with others *)
(* between, and usable ranges that start at a page and do not overlap.     *)
IsMemoryMap(entries) ==
  /\ entries \in Seq([base : Nat, length : Nat, type : Nat])
  /\ \A i, j \in DOMAIN entries : entries[i].type = 1 /\ entries[j].type = 1 =>
       /\ entries[i].base % PageSize = 0
       /\ \/ i = j
          \/ entries[i].base + entries[i].length <= entries[j].base
          \/ entries[j].base + entries[j].length <= entries[i].base

ASSUME HandoverAssumption ==
  \A h \in Handover :
    /\ h \in Seq(ToSet(h))
    /\ {"hhdm", "memmap", "modules"} \subseteq {t.id : t \in ToSet(h)}
    /\ \A t \in ToSet(h) : t.id = "memmap" => IsMemoryMap(t.data)
ASSUME MachineAssumption ==
  Irq \subseteq 0..15 /\ PageSize \in Nat \ {0} /\ MaxMemSections \in Nat

VARIABLES
  pc,         \* where the kernel is; "user" once a program runs
  hdr,        \* the bootloader's tags
  lines,      \* the interrupt lines that are raised
  pics,       \* [word, offset, masked, requests] of the two controllers: word
              \* is the initialization word awaited, 0 if none; requests are
              \* the lines whose rise is latched
  cpu,        \* [interrupts, idt, gdt, tr]: the interrupt flag, whether the
              \* kernel's idt is loaded, the limit of its gdt (0 before lgdt),
              \* and whether the task register is loaded
  idt,        \* the gates that are present: interrupt number -> type
  gdt,        \* the descriptors: offset -> kind
  rsp0,       \* whether tss.rsp0 is the top of interrupt_stack
  sections,   \* get_mem_address's result, in pairs
  loop,       \* [i, addr]: the counter and start_addr of the loops over them
  free        \* the freelist, latest page first

tables == <<cpu, idt, gdt, rsp0>>
memory == <<sections, loop, free>>
vars == <<pc, hdr, lines, pics, tables, memory>>

-----------------------------------------------------------------------------
(* find_tag: the first tag of that kind, 0 if there is none.               *)
find_tag(id) ==
  LET at == {i \in DOMAIN hdr : hdr[i].id = id}
  IN  IF at = {} THEN 0 ELSE CHOOSE i \in at : \A j \in at : i <= j

memmap == hdr[find_tag("memmap")].data
Usable == 1
EndOf(e) == e.base + e.length

-----------------------------------------------------------------------------
(* The 8259 controllers.  They are edge-triggered: a line asks once when   *)
(* it rises, and the first initialization word forgets what was asked, so  *)
(* that a line that is up has to fall and rise again.                      *)
Weight == <<1, 2, 4, 8, 16, 32, 64, 128>>
Bits(byte) == {b \in 0..7 : (byte \div Weight[b + 1]) % 2 = 1}

Outb(p, port, byte) ==
  IF port = "command" THEN [p EXCEPT !.word = 2, !.masked = {}, !.requests = {}]
  ELSE CASE p.word = 2 -> [p EXCEPT !.word = 3, !.offset = byte - (byte % 8)]
         [] p.word = 3 -> [p EXCEPT !.word = 4]
         [] p.word = 4 -> [p EXCEPT !.word = 0]
         [] OTHER -> [p EXCEPT !.masked = Bits(byte)]

(* Definitions whose names end in Mistake are what the code would be with  *)
(* a likely mistake in it: the runs check that each one breaks a property. *)
PicWordMistake ==
  << <<1, "command", 17>>, <<2, "command", 17>>, <<1, "data", 32>>, <<2, "data", 40>>,
     <<1, "data", 255>>, <<2, "data", 255>> >>

PicMaskMistake ==
  << <<1, "command", 17>>, <<2, "command", 17>>, <<1, "data", 32>>, <<2, "data", 40>>,
     <<1, "data", 4>>, <<2, "data", 2>>, <<1, "data", 1>>, <<2, "data", 1>>,
     <<1, "data", 253>>, <<2, "data", 255>> >>

(* What pic_init writes to them before it turns interrupts on.             *)
PicWrites ==
  << <<1, "command", 17>>, <<2, "command", 17>>, <<1, "data", 32>>, <<2, "data", 40>>,
     <<1, "data", 4>>, <<2, "data", 2>>, <<1, "data", 1>>, <<2, "data", 1>>,
     <<1, "data", 255>>, <<2, "data", 255>> >>

(* The mask register, read, changed and written; other numbers do nothing. *)
UnmaskMistake(num) ==
  IF num < 8 THEN [pics EXCEPT ![1].masked = @ \union {num}]
  ELSE IF num < 16 THEN [pics EXCEPT ![2].masked = @ \union {num - 8}] ELSE pics

pic_unmask_irq(num) ==
  IF num < 8 THEN [pics EXCEPT ![1].masked = @ \ {num}]
  ELSE IF num < 16 THEN [pics EXCEPT ![2].masked = @ \ {num - 8}] ELSE pics

(* The controller that a line goes to.                                     *)
Chip(q) == IF q < 8 THEN 1 ELSE 2

Requested(q) == q % 8 \in pics[Chip(q)].requests

(* A line of the second controller comes through line 2 of the first.      *)
Delivers(q) ==
  /\ Requested(q) /\ cpu.interrupts
  /\ \A c \in {1, 2} : pics[c].word = 0
  /\ q % 8 \notin pics[Chip(q)].masked
  /\ q >= 8 => 2 \notin pics[1].masked

Vector(q) == pics[Chip(q)].offset + (q % 8)

-----------------------------------------------------------------------------
(* Segments.  A descriptor takes 8 bytes and that of the TSS 16.           *)
KERNEL_CODE_SELECTOR == 40
KERNEL_DATA_SELECTOR == 48
USER_CODE_SELECTOR == 56
USER_DATA_SELECTOR == 64
TSS_SELECTOR == 72

Size(kind) == IF kind = "tss" THEN 16 ELSE 8

Descriptors == << <<KERNEL_CODE_SELECTOR, "kernel_code">>, <<KERNEL_DATA_SELECTOR, "kernel_data">>,
                  <<USER_CODE_SELECTOR, "user_code">>, <<USER_DATA_SELECTOR, "user_data">>,
                  <<TSS_SELECTOR, "tss">> >>

(* One descriptor: what overlaps it is gone.                               *)
Describe(table, d) ==
  [o \in {p \in DOMAIN table : p + Size(table[p]) <= d[1] \/ p >= d[1] + Size(d[2])} \union {d[1]}
     |-> IF o = d[1] THEN d[2] ELSE table[o]]

GdtSize(table) ==
  LET last == CHOOSE o \in DOMAIN table : \A p \in DOMAIN table : p <= o
  IN  last + Size(table[last])

(* The bootloader's table has its code segment where the kernel's will be. *)
Selects(selector, kind) ==
  IF cpu.gdt = 0 THEN selector = KERNEL_CODE_SELECTOR /\ kind = "kernel_code"
  ELSE /\ selector \in DOMAIN gdt /\ gdt[selector] = kind
       /\ selector + Size(kind) - 1 <= cpu.gdt

(* The interrupt table.                                                    *)
Exceptions == 0..14 \union 16..21
IRQ1_INTERRUPT == 33
SYSCALL_INTERRUPT == 128

idt_set_handler(table, index, type) ==
  [v \in DOMAIN table \union {index} |-> IF v = index THEN type ELSE table[v]]

(* An interrupt gets to its handler: there is a gate, its code segment is  *)
(* the kernel's, and from user mode there is a stack to change to.         *)
Handled(v) ==
  /\ cpu.idt /\ v \in DOMAIN idt
  /\ Selects(KERNEL_CODE_SELECTOR, "kernel_code")
  /\ pc = "user" => cpu.tr /\ rsp0

-----------------------------------------------------------------------------
Init ==
  /\ pc = "start"
  /\ hdr \in Handover
  /\ lines = {}
  /\ pics = [c \in {1, 2} |-> [word |-> 0, offset |-> 8 * c, masked |-> 0..7, requests |-> {}]]
  /\ cpu = [interrupts |-> FALSE, idt |-> FALSE, gdt |-> 0, tr |-> FALSE]
  /\ idt = <<>> /\ gdt = <<>> /\ rsp0 = FALSE
  /\ sections = <<>> /\ loop = [i |-> 1, addr |-> 0] /\ free = <<>>

Goto(from, to) == pc = from /\ pc' = to /\ UNCHANGED <<hdr, lines>>

(* find_tag gives NULL for the base of the higher half if there is none,   *)
(* and the kernel reads there.                                             *)
FindTags ==
  /\ Goto("start", IF find_tag("hhdm") = 0 THEN "dead" ELSE "pic_init")
  /\ UNCHANGED <<pics, tables, memory>>

PicInit ==
  /\ Goto("pic_init", IF loop.i = Len(PicWrites) THEN "sti" ELSE "pic_init")
  /\ LET w == PicWrites[loop.i] IN pics' = [pics EXCEPT ![w[1]] = Outb(@, w[2], w[3])]
  /\ loop' = [loop EXCEPT !.i = @ + 1]
  /\ UNCHANGED <<tables, sections, free>>

Sti ==
  /\ Goto("sti", "idt_setup")
  /\ cpu' = [cpu EXCEPT !.interrupts = TRUE]
  /\ UNCHANGED <<pics, idt, gdt, rsp0, memory>>

(* idt_setup: every exception but the reserved one, and the keyboard.      *)
SetHandlers ==
  /\ Goto("idt_setup", "lidt")
  /\ idt' = [v \in Exceptions \union {IRQ1_INTERRUPT} |->
               IF v \in {2, IRQ1_INTERRUPT} THEN "interrupt" ELSE "trap"]
  /\ UNCHANGED <<pics, cpu, gdt, rsp0, memory>>

Lidt ==
  /\ Goto("lidt", "gdt_setup")
  /\ cpu' = [cpu EXCEPT !.idt = TRUE]
  /\ loop' = [loop EXCEPT !.i = 1]
  /\ UNCHANGED <<pics, idt, gdt, rsp0, sections, free>>

(* gdt_setup: one descriptor after the other.                              *)
GdtSetup ==
  /\ Goto("gdt_setup", IF loop.i = Len(Descriptors) THEN "lgdt" ELSE "gdt_setup")
  /\ gdt' = Describe(gdt, Descriptors[loop.i])
  /\ loop' = [loop EXCEPT !.i = @ + 1]
  /\ UNCHANGED <<pics, cpu, idt, rsp0, sections, free>>

Lgdt ==
  /\ Goto("lgdt", "tss")
  /\ cpu' = [cpu EXCEPT !.gdt = GdtSize(gdt) - 1]
  /\ UNCHANGED <<pics, idt, gdt, rsp0, memory>>

SetTss ==
  /\ Goto("tss", "ltr")
  /\ rsp0' = TRUE
  /\ UNCHANGED <<pics, cpu, idt, gdt, memory>>

Ltr ==
  /\ Goto("ltr", IF Selects(TSS_SELECTOR, "tss") THEN "unmask" ELSE "dead")
  /\ cpu' = [cpu EXCEPT !.tr = TRUE]
  /\ UNCHANGED <<pics, idt, gdt, rsp0, memory>>

UnmaskKeyboard ==
  /\ Goto("unmask", "syscall_gate")
  /\ pics' = pic_unmask_irq(1)
  /\ UNCHANGED <<tables, memory>>

SetSyscallHandler ==
  /\ Goto("syscall_gate", "mem_init")
  /\ idt' = idt_set_handler(idt, SYSCALL_INTERRUPT, "trap")
  /\ loop' = [loop EXCEPT !.i = 1]
  /\ UNCHANGED <<pics, cpu, gdt, rsp0, sections, free>>

-----------------------------------------------------------------------------
(* mem_init.  get_mem_address stores two words for each usable range; past *)
(* the end of the array it writes over the stack of mem_init.              *)
UsableMistake(e) == e.length > 0

IsUsable(e) == e.type = Usable

ScanEntry ==
  /\ loop.i <= Len(memmap)
  /\ LET e == memmap[loop.i] IN
     IF IsUsable(e)
       THEN /\ Goto("mem_init", IF 2 * Len(sections) + 2 > MaxMemSections THEN "smashed" ELSE "mem_init")
            /\ sections' = Append(sections, <<e.base, EndOf(e)>>)
       ELSE Goto("mem_init", "mem_init") /\ UNCHANGED sections
  /\ loop' = [loop EXCEPT !.i = @ + 1]
  /\ UNCHANGED <<pics, tables, free>>

EnterSection(i) == [i |-> i, addr |-> IF i <= Len(sections) THEN sections[i][1] ELSE 0]

ScanDone ==
  /\ Goto("mem_init", "freelist_init")
  /\ loop.i > Len(memmap)
  /\ loop' = EnterSection(1)
  /\ UNCHANGED <<pics, tables, sections, free>>

(* pmem_free takes neither NULL nor an address inside a page.              *)
Freed(addr) == IF addr = 0 \/ addr % PageSize # 0 THEN free ELSE <<addr>> \o free

LastPageMistake == loop.addr + PageSize < sections[loop.i][2]

PageFits == loop.addr + PageSize <= sections[loop.i][2]

FreePage ==
  /\ Goto("freelist_init", "freelist_init")
  /\ loop.i <= Len(sections)
  /\ PageFits
  /\ free' = Freed(loop.addr)
  /\ loop' = [loop EXCEPT !.addr = @ + PageSize]
  /\ UNCHANGED <<pics, tables, sections>>

NextSection ==
  /\ Goto("freelist_init", "freelist_init")
  /\ loop.i <= Len(sections)
  /\ ~PageFits
  /\ loop' = EnterSection(loop.i + 1)
  /\ UNCHANGED <<pics, tables, sections, free>>

FreelistDone ==
  /\ Goto("freelist_init", "exec")
  /\ loop.i > Len(sections)
  /\ UNCHANGED <<pics, tables, memory>>

(* unmap_lower_half and run_exec_elf: init runs, or there is nothing to do. *)
RunInit ==
  /\ \/ Goto("exec", IF Selects(USER_CODE_SELECTOR, "user_code") /\ Selects(USER_DATA_SELECTOR, "user_data")
                       THEN "user" ELSE "dead")
     \/ Goto("exec", "halted")
  /\ UNCHANGED <<pics, tables, memory>>

-----------------------------------------------------------------------------
(* A device raises its line; the keyboard's stays up until its scan code   *)
(* is read, others fall by themselves.                                     *)
Raise(q) ==
  /\ q \notin lines
  /\ lines' = lines \union {q}
  /\ pics' = [pics EXCEPT ![Chip(q)].requests = @ \union {q % 8}]
  /\ UNCHANGED <<pc, hdr, tables, memory>>

Fall(q) ==
  /\ q \in lines \ {1}
  /\ lines' = lines \ {q}
  /\ UNCHANGED <<pc, hdr, pics, tables, memory>>

(* The controllers interrupt the processor.  The only handler there is for *)
(* them reads the scan code and ends the interrupt; without one the        *)
(* processor resets, or halts in the handler of a missing gate.            *)
Interrupt(q) ==
  /\ Delivers(q)
  /\ IF Handled(Vector(q)) THEN UNCHANGED pc ELSE pc' = "dead"
  /\ lines' = lines \ {q}
  /\ pics' = [pics EXCEPT ![Chip(q)].requests = @ \ {q % 8}]
  /\ UNCHANGED <<hdr, tables, memory>>

(* A program does something that the processor refuses.  All handlers of   *)
(* exceptions print a message and halt; keys are still handled, unless the *)
(* gate was an interrupt gate.                                             *)
Exception(v) ==
  /\ Goto("user", IF Handled(v) THEN "halted" ELSE "dead")
  /\ cpu' = [cpu EXCEPT !.interrupts = @ /\ ~(v \in DOMAIN idt /\ idt[v] = "interrupt")]
  /\ UNCHANGED <<pics, idt, gdt, rsp0, memory>>

(* A program makes a system call, which Kernel, Keyboard and Terminal model. *)
SystemCall ==
  /\ Goto("user", IF Handled(SYSCALL_INTERRUPT) THEN "user" ELSE "dead")
  /\ UNCHANGED <<pics, tables, memory>>

Setup ==
  \/ FindTags \/ PicInit \/ Sti
  \/ SetHandlers \/ Lidt \/ GdtSetup \/ Lgdt \/ SetTss \/ Ltr
  \/ UnmaskKeyboard \/ SetSyscallHandler
  \/ ScanEntry \/ ScanDone \/ FreePage \/ NextSection \/ FreelistDone \/ RunInit

Next ==
  \/ Setup
  \/ \E q \in Irq : Raise(q) \/ Fall(q) \/ Interrupt(q)
  \/ \E v \in Exceptions : Exception(v)
  \/ SystemCall

(* The kernel runs on, and an interrupt that may come does.                *)
Spec == Init /\ [][Next]_vars /\ WF_vars(Setup) /\ \A q \in Irq : WF_vars(Interrupt(q))

-----------------------------------------------------------------------------
TypeOK ==
  /\ pc \in {"start", "pic_init", "sti", "idt_setup", "lidt", "gdt_setup", "lgdt", "tss",
             "ltr", "unmask", "syscall_gate", "mem_init", "freelist_init", "exec",
             "user", "halted", "dead", "smashed"}
  /\ hdr \in Handover
  /\ lines \subseteq Irq
  /\ pics \in [{1, 2} -> [word : {0, 2, 3, 4}, offset : {8 * n : n \in 0..31},
                         masked : SUBSET (0..7), requests : SUBSET (0..7)]]
  /\ pc \notin {"start", "pic_init"} => pics[1].word = 0 /\ pics[2].word = 0
  /\ cpu \in [interrupts : BOOLEAN, idt : BOOLEAN, gdt : 0..255, tr : BOOLEAN]
  /\ DOMAIN idt \subseteq 0..255 /\ ToSet(idt) \subseteq {"interrupt", "trap"}
  /\ DOMAIN gdt \subseteq 0..255
  /\ rsp0 \in BOOLEAN
  /\ \A s \in ToSet(sections) : s \in Nat \X Nat
  /\ loop \in [i : Nat, addr : Nat]
  /\ \A p \in ToSet(free) : p \in Nat

(* From the moment pic_init turns interrupts on, each one that gets        *)
(* through finds a gate in a loaded table, whose segment is in the table   *)
(* of segments loaded at that moment, and a stack if it comes from a       *)
(* program; so do exceptions, system calls and the return to a program     *)
(* (the order of boot.c:242-252, with pic.c:54-58).                        *)
AlwaysAHandler == pc # "dead"

(* The freelist holds each whole page of usable memory once, but not page  *)
(* 0, and nothing else (boot.c:207-225, page.c:186-200).                   *)
FreelistComplete ==
  pc \in {"exec", "user", "halted"} =>
    /\ IsInjective(free)
    /\ ToSet(free) =
         {p \in UNION {e.base..EndOf(e) : e \in ToSet(memmap)} :
            /\ p # 0 /\ p % PageSize = 0
            /\ \E e \in ToSet(memmap) :
                 e.type = Usable /\ e.base <= p /\ p + PageSize <= EndOf(e)}

(* mem_init stays inside its arrays as long as the map has no more usable  *)
(* ranges than half their length (boot.c:208, 141-142).                    *)
SectionsFit ==
  pc = "smashed" =>
    2 * Cardinality({i \in DOMAIN memmap : memmap[i].type = Usable}) > MaxMemSections

(* A key whose request comes after pic_init has reset the controllers, and *)
(* long before its line is unmasked too, is handled in the end, unless the *)
(* machine halted with interrupts off (pic.c:26, 83-91, boot.c:250).  One  *)
(* pressed earlier is not covered: the reset forgets its request, and its  *)
(* line, which only the handler lowers, does not rise again.               *)
KeysAreHandled ==
  (Requested(1) /\ pc # "start" /\ (pc = "pic_init" => loop.i > 1))
    ~> (~Requested(1) \/ pc = "smashed" \/ (pc = "halted" /\ ~cpu.interrupts))

=============================================================================
