--------------------------------- MODULE Kernel ---------------------------------
(***************************************************************************)
(* The kernel's one thread of control from mem_init on: run_exec_elf       *)
(* (loader.c), sys_mmap, sys_exec and sys_exit (syscall_def.c), and the    *)
(* program that runs in user mode between system calls, over the paging    *)
(* code of AddressSpace.                                                   *)
(*                                                                         *)
(* Every call of vm_map, vm_protect and every table unmap_lower_half frees *)
(* is a step of AddressSpace; this module adds who makes the call, what it *)
(* does with the result, what the program may touch, and the translations  *)
(* that the processor may have cached.  Addresses are natural numbers and  *)
(* a page is PageSize of them.                                             *)
(***************************************************************************)
EXTENDS Integers, Sequences, SequencesExt

CONSTANTS
  Frame, LowerHalf, UsableFrames, BootPte, NamedPage, Perm,  \* see AddressSpace
  Radix,        \* entries per table (512)
  PageSize,     \* addresses per page (4096)
  Module,       \* the bootloader's modules: name -> image
  Name,         \* the names a program may pass to exec
  StackBase,    \* the page number of user_stack (0x70000000000)
  StackPages,   \* pages in the user stack (8)
  MmapBase,     \* the page number mmap_next_start starts at (0x9000000000)
  MmapCall      \* the arguments programs give mmap: [addr, length, flags]; no
                \* code reads prot

VARIABLES
  free, pte, given, phase,  \* see AddressSpace
  tlb,        \* the translations the processor may have cached
  pc,         \* what the kernel does next; "user" in user mode
  program,    \* the program that was entered last
  image,      \* the program whose whole image is in memory (no code reads it)
  call,       \* the system call being served, or served last
  target,     \* the program run_exec_elf is loading
  phdr,       \* which program header elf_phdr points to
  loops,      \* iterations of the segment loop that are over
  page,       \* the page number the current loop maps next
  left,       \* size_left
  nextStart,  \* mmap_next_start, as a page number
  result      \* what run_exec_elf returned last; 1 once it enters a program

asVars == <<free, pte, given, phase, tlb>>
loadVars == <<target, phdr, loops>>
vars == <<asVars, pc, program, image, call, loadVars, page, left, nextStart, result>>

(* The indices of a page number, level 4 first (page.c:266-272).           *)
PathOf(n) ==
  LET entry(k) == (n \div k) % Radix
  IN  <<entry(Radix * Radix * Radix), entry(Radix * Radix), entry(Radix), entry(1)>>

AS == INSTANCE AddressSpace WITH Index <- 0..(Radix - 1)

NoProgram == "none"

(* System call arguments.  An mmap address of 0 is NULL.                   *)
NoCall == [kind |-> "none"]
ExecCall(name) == [kind |-> "exec", name |-> name]
ExitCall == [kind |-> "exit"]
Mmap(args) == [kind |-> "mmap", args |-> args, result |-> 0]

-----------------------------------------------------------------------------
(* Images: an ELF file is [exec, segments, entry], its e_type = ET_EXEC,   *)
(* its program headers and e_entry; a program header is                    *)
(* [load, vaddr, memsz, writable, executable].                             *)
Segments(name) == Module[name].segments

(* The pages a loadable segment asks for, by its addresses.                *)
SegmentPages(s) == {a \div PageSize : a \in {s.vaddr} \union s.vaddr..(s.vaddr + s.memsz - 1)}

Loadable(name) == {s \in Range(Segments(name)) : s.load /\ s.vaddr # 0}

ImagePages(name) == UNION {SegmentPages(s) : s \in Loadable(name)}

Stack == StackBase..(StackBase + StackPages - 1)

-----------------------------------------------------------------------------
(* The permissions of a mapped page, and what user code may do with it:    *)
(* what every entry on the way to it allows.                               *)
EntryAllows(e, writable, executable) ==
  /\ e.user
  /\ writable => e.writable
  /\ executable => ~e.noExecute

IsMapped(n) == PathOf(n) \in DOMAIN pte

Leaf(n) == pte[PathOf(n)]

UserCan(n, writable, executable) ==
  /\ IsMapped(n)
  /\ \A level \in 1..4 : EntryAllows(pte[AS!Prefix(PathOf(n), level)], writable, executable)

(* What a program does to its own pages: it uses every page of a segment   *)
(* as the segment's flags say, and writes its stack.                       *)
Access(n, writable, executable) ==
  [page |-> n, writable |-> writable, executable |-> executable]

SegmentAccesses(s) == {Access(n, s.writable, s.executable) : n \in SegmentPages(s)}

Accesses(name) ==
  UNION {SegmentAccesses(s) : s \in Loadable(name)}
  \union {Access(n, TRUE, FALSE) : n \in Stack}

Allowed(a) == UserCan(a.page, a.writable, a.executable)

Entry(name) == Access(Module[name].entry \div PageSize, FALSE, TRUE)

(* The processor may cache any translation that the tables hold, at any    *)
(* moment, and keeps it as long as it likes: tlb is all it may have.  The  *)
(* invlpg of vm_map, vm_unmap and vm_protect names the page's alias in the *)
(* higher half, and so takes nothing from it.                              *)
Leaves(entries) ==
  {<<p, entries[p]>> : p \in {q \in DOMAIN entries : ~AS!IsTable(entries, q)}}

Cache == tlb' = tlb \union Leaves(pte')

(* Definitions whose names end in Mistake are what the code would be with  *)
(* a likely mistake in it: the runs check that each one breaks a property. *)
NoFlushMistake == Cache

(* unmap_lower_half ends with a write of CR3, which empties it.            *)
CacheUntilFlush == tlb' = IF phase' = "ready" THEN Leaves(pte') ELSE tlb \union Leaves(pte')

(* What run_exec_elf maps a segment's pages with until they are filled.    *)
LoadingPerm == [user |-> FALSE, writable |-> TRUE, executable |-> TRUE]

(* The machine is one that AddressSpace assumes, and files and programs    *)
(* give flags where flags are due.                                         *)
ASSUME PagingAssumption ==
  /\ Radix \in Nat \ {0}
  /\ AS!PagesHaveNumbers /\ AS!IndicesAreNumbers /\ AS!UsablePagesDiffer
  /\ AS!BootTreeIsSound /\ AS!CallersNamePages
ASSUME PermAssumption ==
  {LoadingPerm} \union [user : {TRUE}, writable : BOOLEAN, executable : BOOLEAN]
    \subseteq Perm
ASSUME ImageAssumption ==
  /\ PageSize \in Nat \ {0}
  /\ \A name \in DOMAIN Module :
       Segments(name) \in Seq([load : BOOLEAN, vaddr : Nat, memsz : Nat,
                              writable : BOOLEAN, executable : BOOLEAN])
ASSUME StackAssumption == \A n \in Stack : AS!Lower(PathOf(n))
ASSUME MmapAssumption ==
  /\ StackBase \in Nat /\ StackPages \in Nat /\ MmapBase \in Nat
  /\ \A args \in MmapCall :
       /\ args.addr \in Nat /\ args.length \in Int
       /\ args.flags.bit0 \in BOOLEAN /\ args.flags.bit1 \in BOOLEAN

-----------------------------------------------------------------------------
Init ==
  /\ AS!Init
  /\ tlb = Leaves(pte)
  /\ pc = "boot"
  /\ program = NoProgram
  /\ image = NoProgram
  /\ call = NoCall
  /\ target = "init"
  /\ phdr = 1
  /\ loops = 0
  /\ page = 0
  /\ left = 0
  /\ nextStart = MmapBase
  /\ result = 0

(* mem_init and the first unmap_lower_half, then run_exec_elf("init").     *)
Boot ==
  /\ pc = "boot"
  /\ AS!Boot \/ AS!Teardown
  /\ CacheUntilFlush
  /\ pc' = IF phase' = "ready" THEN "find" ELSE "boot"
  /\ UNCHANGED <<program, image, call, loadVars, page, left, nextStart, result>>

-----------------------------------------------------------------------------
(* run_exec_elf.  An error returns to _start, which hangs, or through      *)
(* sys_exec, which returns -1 whatever the error, to the program.          *)
LoadFails(error) ==
  /\ pc' = IF call = NoCall THEN "halted" ELSE "user"
  /\ result' = error
  /\ phdr' = 1
  /\ loops' = 0
  /\ page' = 0
  /\ left' = 0
  /\ UNCHANGED <<program, image, call, target, nextStart>>

NotFound ==
  /\ pc = "find"
  /\ target \notin DOMAIN Module
  /\ LoadFails(-1)
  /\ UNCHANGED asVars

(* The address space goes before the file's type is looked at.             *)
Found ==
  /\ pc = "find"
  /\ target \in DOMAIN Module
  /\ AS!StartUnmap
  /\ Cache
  /\ pc' = "unmap"
  /\ image' = NoProgram
  /\ UNCHANGED <<program, call, loadVars, page, left, nextStart, result>>

UnmapLowerHalf ==
  /\ pc = "unmap"
  /\ AS!Teardown
  /\ CacheUntilFlush
  /\ pc' = IF phase' = "ready" THEN "check" ELSE "unmap"
  /\ UNCHANGED <<program, image, call, loadVars, page, left, nextStart, result>>

CheckType ==
  /\ pc = "check"
  /\ Module[target].exec
  /\ pc' = "segments"
  /\ UNCHANGED <<asVars, program, image, call, loadVars, page, left, nextStart, result>>

NotExecutable ==
  /\ pc = "check"
  /\ ~Module[target].exec
  /\ LoadFails(-2)
  /\ UNCHANGED asVars

-----------------------------------------------------------------------------
(* The segment loop.  `continue' leaves elf_phdr where it is (loader.c:55).*)
Segment == Segments(target)[phdr]

InSegmentLoop == pc = "segments" /\ loops < Len(Segments(target))

SkipSegment ==
  /\ InSegmentLoop
  /\ ~Segment.load
  /\ phdr' = phdr + 1
  /\ loops' = loops + 1
  /\ UNCHANGED <<asVars, pc, program, image, call, target, page, left, nextStart, result>>

LoopMistake ==
  /\ InSegmentLoop
  /\ Segment.load /\ Segment.vaddr = 0
  /\ UNCHANGED vars

SkipNullSegment ==
  /\ InSegmentLoop
  /\ Segment.load /\ Segment.vaddr = 0
  /\ loops' = loops + 1
  /\ UNCHANGED <<asVars, pc, program, image, call, target, phdr, page, left, nextStart, result>>

SizeLeftMistake ==
  /\ InSegmentLoop
  /\ Segment.load /\ Segment.vaddr # 0
  /\ page' = Segment.vaddr \div PageSize
  /\ left' = Segment.memsz
  /\ pc' = "map_segment"
  /\ UNCHANGED <<asVars, program, image, call, loadVars, nextStart, result>>

(* The first page is rounded down and size_left up by the same amount.     *)
StartSegment ==
  /\ InSegmentLoop
  /\ Segment.load /\ Segment.vaddr # 0
  /\ page' = Segment.vaddr \div PageSize
  /\ left' = Segment.memsz + (Segment.vaddr % PageSize)
  /\ pc' = "map_segment"
  /\ UNCHANGED <<asVars, program, image, call, loadVars, nextStart, result>>

MapSegmentPage ==
  /\ pc = "map_segment"
  /\ AS!VmMap(PathOf(page), LoadingPerm)
  /\ Cache
  /\ IF AS!VmMapReturns(PathOf(page))
       THEN /\ page' = page + 1
            /\ left' = left - PageSize
            /\ pc' = IF left' > 0 THEN "map_segment" ELSE "protect"
            /\ UNCHANGED <<program, image, call, loadVars, nextStart, result>>
       ELSE LoadFails(-3)

ProtectMistake ==
  /\ pc = "protect"
  /\ AS!VmProtect(PathOf(Segment.vaddr \div PageSize),
                  [user |-> TRUE, writable |-> Segment.writable,
                   executable |-> Segment.executable])
  /\ Cache
  /\ phdr' = phdr + 1
  /\ loops' = loops + 1
  /\ pc' = "segments"
  /\ UNCHANGED <<program, image, call, target, page, left, nextStart, result>>

(* memcpy fills the pages; then the page of p_vaddr gets its permissions,  *)
(* the executable flag already inverted.                                   *)
ProtectSegment ==
  /\ pc = "protect"
  /\ AS!VmProtect(PathOf(Segment.vaddr \div PageSize),
                  [user |-> TRUE, writable |-> Segment.writable,
                   executable |-> ~Segment.executable])
  /\ Cache
  /\ phdr' = phdr + 1
  /\ loops' = loops + 1
  /\ pc' = "segments"
  /\ UNCHANGED <<program, image, call, target, page, left, nextStart, result>>

SegmentsDone ==
  /\ pc = "segments"
  /\ loops = Len(Segments(target))
  /\ page' = StackBase
  /\ pc' = "stack"
  /\ UNCHANGED <<asVars, program, image, call, loadVars, left, nextStart, result>>

StackSizeMistake ==
  /\ pc = "stack"
  /\ page \in Stack \union {StackBase + StackPages}
  /\ AS!VmMap(PathOf(page), [user |-> TRUE, writable |-> TRUE, executable |-> FALSE])
  /\ Cache
  /\ page' = page + 1
  /\ UNCHANGED <<pc, program, image, call, loadVars, left, nextStart, result>>

(* The results of these vm_maps are ignored.                               *)
MapStackPage ==
  /\ pc = "stack"
  /\ page \in Stack
  /\ AS!VmMap(PathOf(page), [user |-> TRUE, writable |-> TRUE, executable |-> FALSE])
  /\ Cache
  /\ page' = page + 1
  /\ UNCHANGED <<pc, program, image, call, loadVars, left, nextStart, result>>

UsermodeEntry ==
  /\ pc = "stack"
  /\ page \notin Stack
  /\ pc' = "user"
  /\ program' = target
  /\ image' = target
  /\ result' = 1
  /\ phdr' = 1
  /\ loops' = 0
  /\ page' = 0
  /\ left' = 0
  /\ UNCHANGED <<asVars, call, target, nextStart>>

-----------------------------------------------------------------------------
(* User mode.  To make a system call the program must be able to run; an   *)
(* access the page tables forbid is a page fault, whose handler halts.     *)
Running == pc = "user" /\ Allowed(Entry(program))

CallExec(name) ==
  /\ Running
  /\ call' = ExecCall(name)
  /\ target' = name
  /\ pc' = "find"
  /\ UNCHANGED <<asVars, program, image, phdr, loops, page, left, nextStart, result>>

(* sys_exit execs "init".                                                  *)
CallExit ==
  /\ Running
  /\ call' = ExitCall
  /\ target' = "init"
  /\ pc' = "find"
  /\ UNCHANGED <<asVars, program, image, phdr, loops, page, left, nextStart, result>>

CallMmap(args) ==
  /\ Running
  /\ LET address == IF args.addr = 0 THEN nextStart * PageSize ELSE args.addr
     IN  IF args.length <= 0
           THEN /\ call' = [Mmap(args) EXCEPT !.result = -1]
                /\ UNCHANGED <<pc, page, left>>
           ELSE /\ call' = [Mmap(args) EXCEPT !.result = address]
                /\ page' = address \div PageSize
                /\ left' = args.length
                /\ pc' = "mmap"
  /\ UNCHANGED <<asVars, program, image, loadVars, nextStart, result>>

(* sys_mmap takes the permissions from `flags', bit 0 for executable and   *)
(* bit 1 for writable, and advances mmap_next_start for each page it maps. *)
MmapPerm(args) ==
  [user |-> TRUE, writable |-> args.flags.bit1, executable |-> ~args.flags.bit0]

RoundingMistake == IF left >= 2 * PageSize THEN left - PageSize ELSE 0

SizeLeft == IF left > PageSize THEN left - PageSize ELSE 0

MmapFails ==
  /\ call' = [call EXCEPT !.result = -1]
  /\ pc' = "user"
  /\ page' = 0
  /\ left' = 0
  /\ UNCHANGED nextStart

CleanupMistake ==
  /\ pc = "mmap"
  /\ AS!VmUnmap(PathOf(page))
  /\ Cache
  /\ MmapFails
  /\ UNCHANGED <<program, image, loadVars, result>>

MapMmapPage ==
  /\ pc = "mmap"
  /\ AS!VmMap(PathOf(page), MmapPerm(call.args))
  /\ Cache
  /\ IF AS!VmMapReturns(PathOf(page))
       THEN /\ nextStart' = nextStart + 1
            /\ left' = SizeLeft
            /\ pc' = IF left' > 0 THEN "mmap" ELSE "user"
            /\ page' = IF left' = 0 THEN 0
                       ELSE IF call.args.addr = 0 THEN nextStart' ELSE page
            /\ UNCHANGED call
       ELSE MmapFails
  /\ UNCHANGED <<program, image, loadVars, result>>

(* Nobody checks the page a file or a program names: vm_map may stray, and *)
(* the model ends (AddressSpace).                                          *)
VmMapStrays ==
  /\ pc \in {"map_segment", "mmap"}
  /\ AS!VmMapStrays(PathOf(page))
  /\ Cache
  /\ pc' = "stray"
  /\ UNCHANGED <<program, image, call, loadVars, page, left, nextStart, result>>

(* The tables refuse an access, or a translation does that is older than   *)
(* vm_protect: page_fault_handler halts.                                   *)
PageFault ==
  /\ pc = "user"
  /\ \E a \in Accesses(program) :
       \/ ~Allowed(a)
       \/ \E t \in tlb : t[1] = PathOf(a.page) /\ ~EntryAllows(t[2], a.writable, a.executable)
  /\ pc' = "halted"
  /\ UNCHANGED <<asVars, program, image, call, loadVars, page, left, nextStart, result>>

Halted == pc \in {"halted", "stray"} /\ UNCHANGED vars

-----------------------------------------------------------------------------
Load ==
  \/ NotFound \/ Found \/ UnmapLowerHalf \/ CheckType \/ NotExecutable
  \/ SkipSegment \/ SkipNullSegment \/ StartSegment \/ MapSegmentPage
  \/ ProtectSegment \/ SegmentsDone \/ MapStackPage \/ UsermodeEntry

KernelStep == Boot \/ Load \/ MapMmapPage \/ VmMapStrays

UserStep ==
  \/ \E name \in Name : CallExec(name)
  \/ CallExit
  \/ \E args \in MmapCall : CallMmap(args)
  \/ PageFault

Next == KernelStep \/ UserStep \/ Halted

(* The kernel keeps executing its own code; the program owes nothing.      *)
Spec == Init /\ [][Next]_vars /\ WF_vars(KernelStep)

-----------------------------------------------------------------------------
Pages == {p \in DOMAIN pte : Len(p) = 4}

LowerPages == {p \in Pages : AS!Lower(p)}

(* NamedPage has the pages that the kernel passes to vm_map and            *)
(* vm_protect.  It has to if AddressSpace is to allow the calls; the rest  *)
(* holds for whatever addresses files and programs give.                   *)
NamesPages ==
  /\ pc \in {"map_segment", "mmap"} \/ (pc = "stack" /\ page \in Stack) =>
       PathOf(page) \in NamedPage
  /\ pc = "protect" => PathOf(Segment.vaddr \div PageSize) \in NamedPage

TypeOK ==
  /\ AS!TypeOK
  /\ \A t \in tlb : t[1] \in AS!Path /\ t[2] \in AS!PtEntry
  /\ pc \in {"boot", "find", "unmap", "check", "segments", "map_segment",
             "protect", "stack", "user", "mmap", "halted", "stray"}
  /\ program \in DOMAIN Module \union {NoProgram}
  /\ image \in {program, NoProgram}
  /\ call.kind \in {"none", "mmap", "exec", "exit"}
  /\ target \in Name \union {"init"}
  /\ phdr \in Nat /\ loops \in Nat /\ page \in Nat /\ nextStart \in Nat
  /\ left \in Int
  /\ result \in {-3, -2, -1, 0, 1}

(* A program is entered in an address space of its own: all the pages of   *)
(* its segments are mapped, and of the user half no others but its         *)
(* stack's; nothing of the program before it, of its mmaps or of a failed  *)
(* load is left there (loader.c:44-95).                                    *)
FreshAddressSpace ==
  (pc = "stack" /\ page \notin Stack) =>
    LET wanted == {PathOf(n) : n \in ImagePages(target)}
    IN  /\ wanted \subseteq Pages
        /\ LowerPages \subseteq wanted \union {PathOf(n) : n \in Stack}

(* The page at which each segment starts has the permissions that the file *)
(* requests for it, from user mode's entry on, for as long as the program  *)
(* runs, whatever it maps or fails to exec (loader.c:82-83).               *)
FirstPagesAsRequested ==
  image # NoProgram =>
    \A s \in Loadable(image) :
      LET n == s.vaddr \div PageSize
      IN  /\ IsMapped(n)
          /\ Leaf(n).user
          /\ Leaf(n).writable = s.writable
          /\ Leaf(n).noExecute = ~s.executable

(* mmap with a NULL address that returns one returns a region mapped from  *)
(* its first page to its last, with the permissions asked for, and none of *)
(* whose pages is any other mapping's (syscall_def.c:86-109).              *)
MmapReturnsRegion ==
  (/\ pc = "user" /\ image # NoProgram
   /\ call.kind = "mmap" /\ call.result # -1 /\ call.args.addr = 0) =>
     LET first == call.result \div PageSize
         last == (call.result + call.args.length - 1) \div PageSize
     IN  \A n \in first..last :
           /\ IsMapped(n)
           /\ Leaf(n).user
           /\ Leaf(n).writable = MmapPerm(call.args).writable
           /\ Leaf(n).noExecute = MmapPerm(call.args).executable
           /\ n < nextStart /\ n \notin ImagePages(image) \union Stack

(* Until an exec finds its file, a page that is mapped keeps its memory    *)
(* and permissions, in either half: neither an mmap that fails half way,   *)
(* nor one at an address already in use, nor an exec of an unknown name    *)
(* takes or alters one (vm_map returns false on a present leaf,            *)
(* page.c:308).                                                            *)
ProgramKeepsItsPages ==
  [][(pc \in {"user", "mmap", "find"} /\ phase' = "ready") =>
       \A p \in Pages : p \in DOMAIN pte' /\ pte'[p] = pte[p]]_vars

(* Between teardowns, no cached translation leads to a page other than the *)
(* one the tables name, that of the program before included, and one older *)
(* than the tables' grants a program nothing: vm_protect leaves behind the *)
(* loading permissions, kernel only, and those alone (page.c:119-120, 396, *)
(* loader.c:71-83).                                                        *)
StaleTranslationsGrantNothing ==
  phase = "ready" =>
    \A t \in tlb :
      /\ t[1] \in DOMAIN pte
      /\ pte[t[1]].frame = t[2].frame
      /\ t[2].user => pte[t[1]] = t[2]

(* Every system call ends: the program runs again, another one does, the   *)
(* machine has halted, or vm_map has strayed.                              *)
CallsEnd == (pc \notin {"user", "halted", "stray"}) ~> (pc \in {"user", "halted", "stray"})

(* The kernel uses its paging code as AddressSpace says it may.            *)
ImplementsAddressSpace == AS!SafetySpec

-----------------------------------------------------------------------------
(* What comments and documents of the code say, and it does not do.        *)

(* "Change the permissions to those requested by the file."                *)
(* (loader.c:82): a program can use each page of its image as its file     *)
(* says.                                                                   *)
SegmentPermissions ==
  image # NoProgram =>
    \A s \in Loadable(image) : \A a \in SegmentAccesses(s) : Allowed(a)

(* "length The desired length of the mapping, in bytes. Rounded up to the  *)
(* next page internally." (syscall_def.c:79): mmap gives up only when the  *)
(* next page of its region cannot be mapped, at an address of the          *)
(* program's choice too.                                                   *)
MmapMapsItsLength ==
  [][(pc = "mmap" /\ call'.result = -1) =>
       LET done == (call.args.length - left) \div PageSize
       IN  ~AS!VmMapReturns(PathOf(call.result \div PageSize + done))]_vars

(* An exec that fails returns to its caller: "If this point is reached, an *)
(* error occurred. Print an error message." (init.c:29).                   *)
FailedExecReturns ==
  (pc = "user" /\ result \in {-1, -2, -3}) => image = program

(* "The exit system call reloads the init program when it is called."      *)
(* (self-evaluation.txt:47).                                               *)
ExitReloadsInit ==
  (call = ExitCall /\ pc = "find") ~> (program = "init" /\ result = 1 /\ pc = "user")

=============================================================================
