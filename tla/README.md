# Verification of the kernel

TLA+ modules for the kernel in `src/kernel`, its C library and its shell, the
TLC runs that check them on small machines, and TLAPS proofs of what holds on
every machine. Module and definition names follow the C names; `PROJECT.json`
maps each definition to the lines it models.

## 1. The system

The kernel is one thread of C on one x86-64 processor. The bootloader enters
`_start`, which prepares the machine, puts the usable memory on a freelist,
clears the lower half of the one address space and loads the program `init`
from the bootloader's modules. From then on everything happens in system calls
(interrupt 0x80), page faults, which halt, and keyboard interrupts (IRQ 1).
There is one address space and one program at a time: `exec` replaces the
program that calls it, and `exit` is an exec of `init`, the shell.

| Component | State | Operations | Talks to |
|---|---|---|---|
| freelist (`page.c:8-14, 179-236`) | `top`, and a link in the first word of each free page | `freelist_init`, `pmem_alloc`, `pmem_free` | page tables |
| page tables (`page.c:16-121, 253-398`) | one tree of tables, root in CR3; the processor's TLB | `vm_map`, `vm_unmap`, `vm_protect`, `unmap_lower_half`; `invlpg`, the write of CR3 | freelist |
| loader (`loader.c`) | the segment loop of `run_exec_elf` | find, unmap, check, map, copy, protect, map the stack, enter | page tables |
| system calls (`syscall_def.c`, `syscall_entry.s`, `boot.c:177-201`) | `mmap_next_start` | read, write, mmap, exec, exit | loader, page tables, keyboard, terminal |
| keyboard (`key.c`, `idt.c:148-153`) | circular buffer, shift and lock flags | `handle_press` in the interrupt handler, `kgetc` in a call | PIC, terminal, system calls |
| terminal (`kprint.c`) | screen, `term_row`, `term_col`, cursor registers | `term_putchar`, `term_update_cursor`, `kprintf` | keyboard echo, `sys_write`, handlers |
| boot (`boot.c`) | the bootloader's tags, two arrays of usable ranges | `find_tag`, `mem_init`, the set-up order | all of the above |
| interrupts (`idt.c`, `pic.c`, `gdt.c`) | gates, controllers' words and masks, descriptors, TSS | set-up, unmask, EOI | keyboard, system calls |
| C library (`stdlib/`) | malloc's `bump` and `space_remaining` | strings, `atoi`, `malloc`, `getline`, `printf` | system calls |
| shell (`init/init.c`) | - | read a line, cut it, exec it | C library |

### What is hard about it

* *Memory that describes memory.* Tables and freelist links live in the pages
  that the same code hands out. A page with two uses corrupts a table silently.
  `vm_map` can stop half way; `unmap_lower_half` frees tables while it walks
  them and, by design, loses the pages they map.
* *Translations outlive entries.* The paging code invalidates the wrong
  address after each change; only the CR3 write at the end of a teardown keeps
  one program from the pages of another.
* *Failure after the point of no return.* `run_exec_elf` takes the caller's
  address space down before it knows that the load can succeed.
* *One interrupt against one thread.* `kgetc` spins on `buffer_count` with
  interrupts on; the handler may strike between any two of its accesses. The
  handler prints, too, and may do so inside a `term_putchar`.
* *The order of the boot.* Interrupts are on before there is a table of
  handlers, and the segments change while they are.
* *Codes, not keys.* The modifiers are rebuilt from single scan codes, some of
  which the keyboard makes up.
* *Boundaries.* Segments that start or end inside a page, a full buffer, a
  16-bit count, backspaces at the start of the line, the last cell of the
  screen, the last page of a range, a line that fills its buffer.

`PROJECT.json` lists these hazards one by one, each at its line, with the
properties that cover it or the reason why none does.

What makes each component correct, in one line each: a page has at most one
use; callers of the paging code see a plain map of pages and what the
bootloader left of the kernel's half stays; no stale translation grants anything; a program starts in
exactly the pages its file asks for and keeps them; every call ends;
characters come out of the keyboard once each and in order, and are those
engraved on the keys; a waiting read wakes up; the screen shows what was
written; no interrupt finds itself without a handler; the freelist holds all
usable memory; the shell runs what was typed.

## 2. The modules

| Module | What it is |
|---|---|
| `AddressSpace` | freelist and page-table tree: every operation of `page.c` that changes state |
| `PageMap` | what callers are promised: a partial map from pages to memory and permissions |
| `Kernel` | loader, `sys_mmap`, `sys_exec`, `sys_exit`, user mode and TLB; `INSTANCE`s `AddressSpace` and takes each of its steps by name |
| `Keyboard` | controller, interrupt handler, buffer, `kgetc`, `sys_read` |
| `InputQueue` | what the buffer promises: a bounded queue |
| `KeyPress` | which character a scan code becomes, and the keyboard that sends it |
| `Terminal` | `sys_write`, `term_putchar` and the print of the interrupt handler |
| `Boot` | `_start`, the interrupt controllers, gates and segments, `mem_init` |
| `Strings` | the string and number functions, and what each should compute |
| `Shell` | `init.c` with `getline` and `malloc`; `EXTENDS Strings` |
| `AddressSpaceProofs`, `KernelProofs`, `KeyboardProofs`, `BootProofs`, `TerminalProofs`, `KeyPressProofs`, `ShellProofs` | the theorems, section 4 |
| `Induction` | a set of natural numbers has a least element, and a fold taken step by step: what proofs about loops rest on |
| `MCAddressSpace`, `MCKernel`, `MCTerminal`, `MCKeyPress`, `MCBoot`, `MCShell` | the small machines TLC checks |

How they compose: `Kernel` is the only caller of `AddressSpace` after the boot,
and that it calls it as it must is a refinement, checked and proved.
`Boot` ends where `Kernel` begins: what it proves of the freelist is what
`AddressSpace` assumes of `UsableFrames` and does page by page. `Keyboard`
takes a scan code for one character or none, which `KeyPress` shows is what
`handle_press` makes of it. `Shell` sees mmap, exec and read as `Kernel` and
`Keyboard` provide them to a program.

Definitions whose names end in `Mistake` are a mapped definition with a likely
slip in it (a test dropped, a bit inverted, an index that stops too early).
They are used nowhere; each was put in place of the real one to see that the
property it is paired with in `PROJECT.json` fails.

### AddressSpace

A page-table entry is named by the indices that lead to it, and `pte` maps the
present entries to the bits the code uses. `free` is the freelist as a
sequence of page numbers. `vm_map`, `vm_unmap` and `vm_protect` are one action
each: nothing can run between their steps but the keyboard handler, which
touches neither structure. `VmMap` covers all outcomes: it creates an entry
for each absent level as far as the freelist goes, and `VmMapReturns` is the
value returned. `unmap_lower_half` is one action per table freed, in the order
of the code (indices upwards, children first). Clearing the entry is part of
freeing the table it points to: the code clears only the level-4 entry, and
does so first, but everything below is unreachable from then on and nothing
reads the tree until the walk is over.

Abstracted: the contents of pages (a link in a free page, an entry in a table,
data in a mapped page). The assumptions say what is required of the
bootloader: a well-formed tree whose tables are not in usable memory. Leaves
of its identity map and of the higher half may alias anything.

Nothing in `sys_mmap` or the loader checks an address (`syscall_def.c:92, 99`,
`loader.c:71`), so callers may name pages of either half, `NamedPage`, those of
the kernel's included. Walks follow present entries without a look at
`page_size`; one that enters a large page, which only an address inside one of
the bootloader's can bring about once the boot is over, takes that page's data
for a table. What it reads and writes then is not modelled: `VmMapStrays` ends
the behaviour there. `vm_protect` is called only for a page that `vm_map` has just
mapped, and `vm_unmap`, which has no caller, is taken to be used likewise
(`MappedByVmMap`).

### Kernel

`pc` is the kernel's place in its code; addresses are numbers and a page is
`PageSize` of them. The loader's loop keeps both of its counters, since
`continue` (`loader.c:55`) advances only one. A failed load goes back to
user mode, or to the `halt` at the end of `_start`. In user mode a program can
make a call only if its entry page is mapped, user-accessible and executable,
and it may at any time use one of its pages in the way its file says; if the
tables forbid that, the page-fault handler halts the machine. `image` is
written by the model only: the program whose whole image is in memory.

`tlb` is the largest set of translations that the processor may have cached,
of either half and large pages included: any leaf the tables hold may enter it at any moment. The
`invlpg` of `vm_map`, `vm_unmap` and `vm_protect` names the address's alias in
the higher half (`page.c:120, 352, 396`), so it removes nothing; the write of
CR3 at the end of `unmap_lower_half` removes everything not in the tables. A
translation that is older than `vm_protect` may still refuse a program its own
page, so a spurious fault is one of `PageFault`'s outcomes.

`NamesPages` says that `NamedPage` has the pages the kernel passes to its paging
code. It is no condition on the code, only on the constants: `AddressSpace` is told
which pages callers may name, and is told enough.

### Keyboard

The reader's steps are its accesses to the variables it shares with the
handler: the test of `buffer_count`, the fetch (with the advance of
`buffer_read`, which only the reader touches), the decrement, and the use of
the character in `sys_read`. The handler runs with interrupts off and is one
step between taking the interrupt and its EOI and return. `buffer_count--` is
one step: the model assumes that `clang -O2`, the compiler of the Makefile,
makes one read-modify-write instruction of it, as it may. C promises no such
thing, and with a load and a store apart an interrupt in between would lose an
increment. Scan codes are abstract: a character, or a code that
produces none. `sys_read` cuts its descriptor and its count to 16 bits and refuses
all descriptors but 0. A character that arrives between the fetch and the decrement
finds `buffer_count` one too high, so that the last free slot is not used: `Room` is
the number of characters the buffer takes at each place.

### KeyPress

The two tables are those of `key.c`, indexed by scan code; `handle_press` is
an operator on the modifier flags and the characters given to the buffer, and
a key event hands it all its codes. The keyboard is external: it is that of
the machine `run.sh` starts, with prefixed keys, key repeat, and Print
Screen's made-up shift codes. `held` and `caps` are what a user knows;
`odd` marks the two situations in which the codes say what no key does.
`KeyAssumption` keeps keys of the codes E0 2A, E0 36 and E0 3A out, which no
keyboard has: `handle_press` would take them for the shifts and caps lock.

### Terminal

The C variables are shared with the handler, the registers are not, so the
model follows the code that -O2 makes: `term_col` and `term_row` are loaded
once into `at`, stored when they change, and loaded again only after the call
of `memcpy`. Every store, and every write to a cursor register, is a step; the
handler may print its whole message between any two. `paper` is what a
typewriter would show of the same characters, `torn` whether an interrupt has
printed inside a character; no code reads either. The screen's rows are
`Height` and a character is a cell: colours are left out. `MessageAssumption`
says of the handler's message what is true of "Unexpected scan code\n"
(`key.c:129`): it begins with a character that shows and ends with a newline. A
message that began with a newline could take the row past `Height`, where no
scroll is tested for, and one that ended elsewhere could leave an interrupted
scroll at a full line; `InsideScreen` rests on both.

### Boot

One action per call or instruction that an interrupt can tell from its
neighbours, with interrupts at any moment. The controllers take the words of
`pic_init` one by one, so that a word too few or in the wrong order shows. They
are edge-triggered: a line that rises leaves a request, an interrupt takes it away,
and the first initialization word forgets all requests (`Outb`), so that a line that
is up then has to fall and rise again. The keyboard's falls only when its handler
reads the scan code; others fall by themselves. `KeysAreHandled` therefore begins
after that word. Of a key pressed earlier it says nothing: the keyboard would stay deaf,
and so it does in the model.
`gdt_setup` places one descriptor per step, and a later one erases what it
overlaps; `Handled` is what the processor needs for an interrupt: a gate, a
code segment inside the loaded limit, and a stack if it comes from a program.
`mem_init` is modelled with its arrays of fixed length, a page per step.

### Strings and Shell

The functions work on a memory that maps addresses to bytes; their loops are
recursive functions, from an address to the value the loop ends with. Beside
them stands what each should compute, on sequences of characters and without
loops: `Word`, `Number`, `ValueOf`.
`StringsAgree` compares the two; what `strcpy` does at the end of a string
is not what its comment says, and has a run of its own. `Shell` is a program as it runs: `getline` takes one
character per step, grows its buffer with `malloc` and `memcpy`, and ends the
line; `malloc` asks mmap for pages and takes its -1 for an address. `Fresh` is what
memory holds that no one has written to: 0, since `vm_map` clears pages, but a
constant, since nothing in the proofs depends on it. A store
outside mapped memory is recorded in `fault` and halts, as the page-fault
handler does. Programs run between two runs of the shell, and take memory.
`Align` is 16 in the code and at least 2 in the model: with no rounding a line
could end two bytes before the edge of memory, and `FaultsOnlyAtTheEdge` would
have a third case.

## 3. The runs

| Run | Machine | Shows |
|---|---|---|
| `address_space` | 6 named pages: 3 of the lower half that share tables at levels 1 and 3, and 3 of the upper half, one that needs new tables, one the bootloader mapped, one inside a large page; 2 usable pages and page 0, and the bootloader's 6 tables, of which the 3 of the lower half are freed; identity map with a 2M and a 1G page | `OneUse`, `WalksMeetTables`, `UpperHalfUntouched`, `OnlyMappedPagesAreLost`, `TeardownEnds`, and that the tree implements `PageMap` |
| `kernel` | 5 names, 4 files, radix 4, 2 addresses per page, 15 usable pages, 2 stack pages, 7 mmap calls: at no address, in the image, free, in the upper half and inside a large page there; a file with a segment in the upper half | `FreshAddressSpace`, `FirstPagesAsRequested`, `MmapReturnsRegion`, `ProgramKeepsItsPages`, `StaleTranslationsGrantNothing`, `CallsEnd`, and that the kernel uses `AddressSpace` as that module allows |
| `keyboard` | buffer of 3, 2 characters of which one is the backspace, 2 codes held back, reads of 0, 2 and 5 with counts and descriptors cut at 4, descriptors 1 and 4 | `RingIsConsistent`, `StoresInsideBuffer`, `DropsOnlyWhenFull`, `WaitingReadWakes`, and that the buffer implements `InputQueue` |
| `keypress` | 11 keys: a letter, a digit, F12, both shifts, caps lock, both alts, the right control, Print Screen, an arrow | `TypesAsHeld`, `OneCharacterPerPress` |
| `terminal` | 3 rows of 2 cells, one letter, a handler's message of a letter and a newline, cursor bytes of 4 values, counts cut at 4 | `InsideScreen`, `ShowsPaper`, `CursorShown`, `WritesReturn` |
| `boot` | 8 lists of tags over 4 memory maps, arrays for two ranges, pages of 2; interrupt lines 0, 1 and 12 | `AlwaysAHandler`, `FreelistComplete`, `SectionsFit`, `KeysAreHandled` |
| `shell` | characters blank and `1`, enter, backspace; buffers that start at 2 and grow, alignment 4, pages of 8, 4 pages; one program named `1` | `BufferIsOwned`, `FaultsOnlyAtTheEdge`, `ExecsTypedName`, `StringsAgree` |

The bounds are chosen so that each hazard occurs: memory runs out at every
level of a `vm_map`, on a later page of a segment and of an mmap, and in the
stack; pages freed by one program's teardown become tables of the next; a
segment straddles a page boundary; the keyboard buffer fills and wraps with the
handler at every point of `kgetc`; a read's count wraps; the screen scrolls
twice and the handler's newline strikes at each step of a wrap, a backspace
and a scroll; the memory maps have page 0, a range smaller than a page, none
usable and one too many; lines grow their buffer up to all of memory and fill
it exactly. Memory in `kernel` is lost at each exec, so behaviours are finite;
in `shell` too, memory is the bound. No run needs a state constraint.

`boot` and `shell` check no deadlock: a machine that halted with interrupts
off, or whose array was overrun, stays so. In `kernel` the halted machine has a step
of its own (`Halted`); the other runs are checked for deadlock.

Five runs expect a violation, each of a sentence in the repository that the
code does not keep (`findings` in `PROJECT.json` quotes it):

* `segment_permissions`: only the first page of a segment gets the permissions
  of the file (`loader.c:83`).
* `failed_exec`: an exec that fails with -2 or -3 returns to a caller that is
  no longer mapped (`loader.c:44`). `sys_exec` returns -1 whatever happened, so
  the other messages of `init.c:30-31` cannot be printed.
* `exit_reloads`: each exec loses the pages of the last program (`page.c:80`),
  so in the end exit cannot reload `init`.
* `mmap_explicit`: with an address of the program's choice mmap tries to map the
  first page once more instead of the next, and fails (`syscall_def.c:105`).
* `strcpy_end`: `strcpy` does not copy the terminator (`strlib.c:69`).

The first four use the machine of `kernel`, the last that of `shell`.

### Other disagreements met while modelling

The properties that hold are stated around these; the conditions under which
they hold, where there are any, are in the property or in the theorem.

* A loadable header with `p_vaddr` 0 hides the segments after it: `continue`
  (`loader.c:55`, "Skip NULL sections") does not advance `elf_phdr`. The proofs say
  which properties are of files whose NULL segments come last.
* `vm_map` stores `executable` in the no-execute bit (`page.c:295`), so the stack,
  for which the loader says "not executable" (`loader.c:93`), is executable.
* mmap takes the permissions from `flags` (`syscall_def.c:99`), which its comment
  calls disregarded, and not from `prot`.
* `strtok_r` leaves `*saveptr` one past the end of a string whose last word ends
  with it (`strlib.c:189`), so the next call reads what lies behind the string.
  `Tokens` calls it no more then; nothing in the repository calls it at all.
* `getline` stores its terminator one place late (`stdio.c:180`), since
  `cursor` has already advanced. The byte between stays whatever it was, and
  with a line that fills its buffer the store lands outside it; at the end of
  mapped memory that is a page fault, which halts. `FaultsOnlyAtTheEdge` says
  that this and malloc's -1 are the only ways. The shell does not notice
  otherwise, because it cuts the line at its newline.
* `malloc` tests mmap's result against NULL (`stdlib.c:45`); mmap fails with -1.
* `getline` and `exec`: an empty line makes the shell's own test restart the
  prompt; exec never returns anything but -1.
* "Update the tlb." (`page.c:352`) invalidates the alias of the page.
* `get_mem_address` overruns the arrays of `mem_init` with six usable ranges
  (`boot.c:208`); `SectionsFit` is the exact condition.
* `islower` and `isupper` test for each other's case.
* The control and alt flags (`key.c:9`) are never cleared and never read.
  With both caps lock and shift, symbols are typed unshifted (`key.c:145`).
  The arrow keys type the keypad's digits, Print Screen types `*`.
* A backspace read by `getline` is erased on the screen but not in the line,
  because each read is of one character (`syscall_def.c:39`).

### Fairness

`AddressSpace` assumes weak fairness of the freelist loop and of the teardown
loop: the kernel runs its own loops and nothing blocks them. `Kernel` assumes
weak fairness of the kernel's steps and none of the program's. `Keyboard`
assumes weak fairness of the interrupt (the processor takes a pending one when
it may, and finishes its handler) and strong fairness of the reader: each
interrupt disables its next step for a moment, and keys come millions of
instructions apart. `WaitingReadWakes` fails when interrupt 0x80 is made an
interrupt gate. `Terminal` assumes weak fairness of the thread that writes, whose
next step the handler's print never disables, and none of the handler. `Boot` assumes
weak fairness of the set-up and of each interrupt that can be delivered, none of
devices, exceptions or calls. `KeyPress` and `Shell` have only
safety properties and assume none.

## 4. The proofs

`tlapm` checks these for every value of the constants that satisfies the
named `ASSUME`s of the modules.

**`AddressSpaceProofs`**: `TypeOK`, `OneUse`, `WalksMeetTables`,
`UpperHalfUntouched`, the action property `OnlyMappedPagesAreLost`, and that the tree
implements `PageMap`, for any number of pages and indices, any tree from
the bootloader and any calls, for pages of either half. The inductive invariant
takes the four state invariants together (that `vm_map`'s pages of the upper half are
none of the bootloader's needs `UpperHalfUntouched`) and adds three facts.
`BootPhase`: until the freelist is complete the tree is still the bootloader's and
the freelist holds only usable pages already given, without which the page freed next
could be on the list already. `BootEntriesOnly`: until the first teardown is over
the tree has no entry but the bootloader's.
`RootsAreTables`: no level-4 entry is a large page, without which an entry of
the lower half could survive a teardown. Two lemmas carry most of the argument:
`ReleaseInv`, that giving back the page of one owner together with every entry
below it keeps the invariant (`vm_unmap` and each step of `unmap_lower_half`
are instances), and `VmMapInv`, that the pages taken off the front of the
freelist go to distinct new entries. What a call does to the map of pages is
`VmMapEffect`, `VmProtectEffect` and `TeardownEffect`, from which the
refinement follows step by step.

**`KernelProofs`**: the invariant of `AddressSpaceProofs` holds in the whole kernel
(`Paging`), whatever addresses files and programs give; so
`KernelMemoryIsSafe` states `OneUse` of it, and `KernelHalfIsSafe` that no entry the
bootloader left in the upper half is ever replaced or taken down. `Paging` is
inductive with two more parts, together `Sound`. `Shape`: the ranges of the loader's counters,
so that the header a segment is loaded from is one of the file's although `continue`
leaves `elf_phdr` behind. `Loading`: the page that `vm_protect` is about to name is one
that `vm_map` mapped and still has its loading permissions; without it a file could have the
permissions of a page of the kernel's half changed. Every step of the kernel is a step
of `AddressSpace` or leaves it alone (`KernelUsesPaging`). `AddressSpace`'s
actions are guarded by its `phase`; that the kernel never stands before one that
its phase forbids is the deadlock check of the `kernel` run. Further: `TypeOK`;
`ProgramKeepsItsPages`; and `StaleTranslationsGrantNothing`, which is inductive
together with `Sound`.

`FirstPagesAsRequested` rests on the invariant `Entered` (the segments
the loop has passed are as requested, and `elf_phdr` keeps up with the loop
until it meets a header with `p_vaddr` 0), `FreshAddressSpace` on `Fresh` (what
is mapped is what the passed segments and the pages of the current one asked
for), `MmapReturnsRegion` on `OwnPages` and `Regions`; the point of the last is that
a program that lacks a page of its stack was entered with an empty freelist, so
that an mmap that could take the place of one cannot succeed.

One condition is explicit in the last three because the code does not establish it.
`NullSegmentsComeLast`: a loadable header with `p_vaddr` 0 leaves `elf_phdr` behind
(`loader.c:55`), so the segments after it are never loaded and the
properties are false for such files. `[]NamesPages`, in `KernelUsesPaging` alone,
asks of `NamedPage` that it be large enough. The stack lies in the lower half
(`StackAssumption`), as `user_stack` does. Two things these statements do not say.
`FreshAddressSpace` is about the lower half: pages that a program has had mapped in the
upper half are never taken down, stay with the programs after it, and make a load that
names them fail. And once `vm_map` has strayed into a large page the model has ended.

**`KeyboardProofs`**: `TypeOK`, `RingIsConsistent` and `StoresInsideBuffer`
for every buffer size and every count, `DropsOnlyWhenFull` (a character is dropped only
when `Room` others are pending), and that the buffer implements `InputQueue`. The invariant is the conjunction of the first three and
`ControlShape` (the handler runs only with a code to read; `num` does not pass
`want`). The lemma `SlotShift` is the modular arithmetic; the point of the
argument is that in `kgetc`, between fetch and decrement, what is pending is
`count - 1`, so that the handler may add there without disturbing either side.
For the refinement, the queue is the stretch of slots from `buffer_read`; the
handler appends to it and the fetch takes its head (`HandlerAppends`,
`FetchTakesFirst`).

**`BootProofs`**: `AlwaysAHandler`, for any list of tags that holds those the
stivale2 protocol promises and any interrupt lines. The invariant `SetUp` says, at
each place of the boot, how many words the controllers have taken and which they
await (`Controllers`), which gates are there (`Gates`), and which descriptors are
in place and how far the loaded limit reaches (`Segments`). The point of the argument is
`OnlyKeysGetThrough`: with interrupts on, all lines are masked until
`pic_unmask_irq(1)`, so that only IRQ 1 can arrive, and its gate, its segment and its
stack are there by then. `TableIsWhole` shows that no descriptor is written over
and that the limit covers the 16 bytes of the TSS.

Also `FreelistComplete` and `SectionsFit`, for every memory map whose usable ranges start at pages and do not overlap (the
protocol's promise, `HandoverAssumption`), and `TypeOK`. The invariant `Memory`: the
sections are the usable ranges seen so far, each once (`Scanned`), and the freelist is
the set of pages passed so far (`PagesTo`), each once. That a page is not freed
twice comes from ranges that lie apart, and that none is missed from the
fact that two page addresses less than a page apart are the same (`NextAligned`).

**`TerminalProofs`**: `TypeOK`, `InsideScreen`, `CursorShown` and `ShowsPaper`,
for every screen of at least two rows, every message and interrupts between any two
steps. `InsideScreen` is not inductive: `Inv` adds, at each place of
`term_putchar`, where the row and the column may stand (`Places`), in the variables
and in the registers, which an interrupt may have left behind them. The handler's
print is a fold of the same `term_putchar` taken whole; `MessageSteps` takes it
character by character, and `MessageStaysInside` shows that from every place the
thread may have been stopped at it ends where `Places` allows. That is where the
shape of the message is needed. The point of the argument is the scroll: between
`term_row++` and the scroll's `term_row--` the handler may scroll in the thread's
stead, and the thread then scrolls again, so the row may be `Height - 1` or
`Height` there and neither may pass the screen. For `ShowsPaper` the invariant
`Printed` says what the rest of the current character will make of the screen
(`Rest`), which each step leaves as it is, so that the paper needs to be compared with
whole characters only (`PutShows`).

**`KeyPressProofs`**: `TypeOK`, `TypesAsHeld` and `OneCharacterPerPress`, for every
set of keys. The invariant is `FlagsFollowKeys`: each shift flag is up exactly
while its key is down and the caps lock flag follows the presses of its key,
except as `odd` says. An event hands over several codes; how the fold of
`handle_press` over them begins and ends is worked out for each kind of key
(`Run`, `Taken`).

**`ShellProofs`**: `TypeOK`, `BufferIsOwned`, `FaultsOnlyAtTheEdge`,
`ExecsTypedName` and `StringsAgree`, for every alphabet and programs, lines of any length,
and any sizes of page, alignment, first buffer and memory. The invariant follows the
buffer: it is the last that `malloc` gave out, it ends where what `malloc` has left begins,
and that ends where mapped memory ends (`BufferSound`, `Sound`); `Typing` says
which of its bytes are those typed. `malloc` and `mmap` are described by what they
return (`MallocIs`, `MmapIs`), the store of a character by `StoredIs`, and where a
store may fault by `EdgeIs`: all that `malloc` leaves is a multiple of `Align`, so
the end of a full buffer is the end of mapped memory or at least `Align` short of it.

`StringsAgree` is the correctness of the loops. A loop over memory is a recursive
function of an address, and `WalkSome` and `WalkStops` say what such a
function is at an address from which the loop's end can be reached: the value at the
first address where it stops. From these follow `LengthIs`, `StrpbrkIs` and `SkipIs`; from
those `StrcmpIs` (with `StringsCompare`, that it finds the first difference, and
differs in sign when its arguments are swapped), `TokensAre` (the tokens of `strtok_r`
are the words), `StrcpyIs` (the characters of a copy, without an end), `AtoiIs` and `PrintIs`. The last two go through the
value of a sequence of digits: `DigitsMore`, what one more digit at its end makes of
it, and `ConvertIs`, that `atoi` takes one at a time.

**`Induction`**: none of the installed provers can instantiate the library's induction rules,
which take an operator. `LeastNatural` and `UpTo` state the same of a set
of naturals, which they can: a loop is shown to do what it should by the
least number of turns for which it does not. `FoldSteps` unrolls a fold over a
sequence in the same way, and `FoldConcat` cuts it in two.

Only model-checked: liveness (`TeardownEnds`, `CallsEnd`, `WaitingReadWakes`,
`WritesReturn`, `KeysAreHandled`), which is beyond the prover. Every invariant and every safety property of a step that the passing
runs check is also proved.

## 5. Not modelled

* The contents of memory: what `memcpy` puts in a program's pages, the words
  that hold freelist links and entries, and so what a stray store would do to
  them. Caches of upper-level entries.
* `printf`, `kprintf` and their format strings (the digits they print are in
  `Strings`), `print_s`, `perror`, colours, the cursor's shape: they only call
  write or `term_putchar`.
* `kgets`, `pic_mask_irq`, `translate`, `print_freelist`, `peek_freelist`,
  `islower`, `tolower`: no caller, or only printing. `free` does nothing.
* Spurious interrupts of the controllers, a program's use of the gates of
  exceptions, the bits of descriptors and gates beyond kind and type. `Boot` takes
  a handled interrupt as ended; the EOI is `Keyboard`'s.
* mmap lengths of 2^63 and more, which `size_left` takes for negative. What a walk
  reads and writes inside a large page. Scan code 0, which reads `keys[-1]` and which the
  keyboard sends only when its own buffer overruns. Numbers beyond an `int` in `atoi`.
* The bootloader beyond what it hands over, the linker script, the build files.

## 6. What is left

1. `PageHeap`: memory as words, the freelist as links in pages and the tables
   as entries in pages, implementing `AddressSpace`; what a stale link or a
   table freed too early would do becomes visible.
2. A run of `Shell` over `Keyboard` and `Terminal`, in which the line that is
   executed is compared with the line that is shown.
3. `getline` as an abstract operation on lines, which `Shell` implements, so that
   the shell can be stated without its buffer.
