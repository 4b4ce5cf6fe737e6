------------------------------ MODULE AddressSpace ------------------------------
(***************************************************************************)
(* The physical-page freelist and the one page-table tree of the kernel    *)
(* (kernel/page.c): freelist_init, pmem_alloc, pmem_free, vm_map,          *)
(* vm_unmap, vm_protect and unmap_lower_half.                              *)
(*                                                                         *)
(* A page-table entry is named by its path: the indices that lead to it,   *)
(* level 4 first.  A path of length n < 4 names an entry that points to a  *)
(* lower table (or, with page_size set, maps a large page); a path of      *)
(* length 4 names a level-1 entry and is the page number of a virtual      *)
(* address.  `pte' holds exactly the entries whose present bit is set.     *)
(*                                                                         *)
(* The kernel is single-threaded and its only device interrupt, the        *)
(* keyboard's, touches neither structure, so each of the three per-page    *)
(* operations is one action.  unmap_lower_half is one action per table it  *)
(* frees, since the tables it has still to visit live in frames that lie   *)
(* beside those it has already handed back.                                *)
(***************************************************************************)
EXTENDS Integers, Sequences, SequencesExt

CONSTANTS
  Frame,         \* the numbers of the physical pages, 0 excluded
  Index,         \* indices into a table
  LowerHalf,     \* the indices of the level-4 entries of the user half
  UsableFrames,  \* the pages freelist_init walks, in order; may start at 0
  BootPte,       \* the entries the bootloader left in the table at CR3
  NamedPage,     \* the pages callers name: paths of length 4, in either half
  Perm           \* the permission arguments callers give

VARIABLES
  free,   \* the freelist, `top' first
  pte,    \* the present entries: path -> entry
  given,  \* how many of UsableFrames freelist_init has processed
  phase   \* "freelist", "boot_unmap", "ready", "unmap" or "stray"

vars == <<free, pte, given, phase>>

-----------------------------------------------------------------------------
NullFrame == 0

Path == UNION {[1..n -> Index] : n \in 1..4}

Page == [1..4 -> Index]

Lower(p) == p[1] \in LowerHalf

Prefix(p, n) == SubSeq(p, 1, n)

(* The bits of a page-table entry that the code reads or writes.           *)
PtEntry == [frame : Frame, large : BOOLEAN, user : BOOLEAN,
            writable : BOOLEAN, noExecute : BOOLEAN]

Permission == [user : BOOLEAN, writable : BOOLEAN, executable : BOOLEAN]

(* An entry that points to a lower-level table.                            *)
IsTable(entries, p) == Len(p) < 4 /\ ~entries[p].large

(* What every present entry of a page-table tree relies on: the entries    *)
(* above it are present and point to tables.                               *)
WellFormed(entries) ==
  \A p \in DOMAIN entries : \A n \in 1..(Len(p) - 1) :
    /\ Prefix(p, n) \in DOMAIN entries
    /\ IsTable(entries, Prefix(p, n))

(* What the bootloader hands over.  Its tables are not in memory that it   *)
(* reports as usable, no two entries share a table, and a level-4 entry    *)
(* cannot map a large page.  Its leaves may alias anything: the identity   *)
(* map and the higher-half map both cover the usable pages.                *)
PagesHaveNumbers == NullFrame \notin Frame
IndicesAreNumbers == Index \subseteq Nat /\ LowerHalf \subseteq Index
UsablePagesDiffer ==
  /\ UsableFrames \in Seq(Frame \union {NullFrame})
  /\ \A i, j \in 1..Len(UsableFrames) :
       UsableFrames[i] = UsableFrames[j] => i = j
BootTreeIsSound ==
  /\ DOMAIN BootPte \subseteq Path
  /\ BootPte \in [DOMAIN BootPte -> PtEntry]
  /\ WellFormed(BootPte)
  /\ \A p \in DOMAIN BootPte : Len(p) = 1 => ~BootPte[p].large
  /\ \A p, q \in DOMAIN BootPte :
       /\ IsTable(BootPte, p)
       /\ IsTable(BootPte, q)
       /\ BootPte[p].frame = BootPte[q].frame
       => p = q
  /\ \A p \in DOMAIN BootPte : \A i \in 1..Len(UsableFrames) :
       IsTable(BootPte, p) => BootPte[p].frame # UsableFrames[i]
(* No caller checks the addresses that files and programs give it, so any  *)
(* page may be named (loader.c:71, syscall_def.c:92).                      *)
CallersNamePages == NamedPage \subseteq Page /\ Perm \subseteq Permission

ASSUME FrameAssumption == PagesHaveNumbers
ASSUME IndexAssumption == IndicesAreNumbers
ASSUME UsableAssumption == UsablePagesDiffer
ASSUME BootAssumption == BootTreeIsSound
ASSUME CallerAssumption == CallersNamePages

-----------------------------------------------------------------------------
(* _start reaches mem_init with an empty freelist and the page tables the  *)
(* bootloader built.                                                       *)
Init ==
  /\ free = <<>>
  /\ pte = BootPte
  /\ given = 0
  /\ phase = "freelist"

(* Definitions whose names end in Mistake are what the code would be with  *)
(* a likely mistake in it: the runs check that each one breaks a property. *)
FreedNullMistake(f) == Cons(f, free)

(* pmem_free refuses NULL and otherwise puts the page on top.              *)
Freed(f) == IF f = NullFrame THEN free ELSE Cons(f, free)

(* freelist_init frees the usable pages one by one.                        *)
FreelistInit ==
  /\ phase = "freelist"
  /\ given < Len(UsableFrames)
  /\ given' = given + 1
  /\ free' = Freed(UsableFrames[given + 1])
  /\ UNCHANGED <<pte, phase>>

(* _start goes on to unmap the lower half.                                 *)
FreelistDone ==
  /\ phase = "freelist"
  /\ given = Len(UsableFrames)
  /\ phase' = "boot_unmap"
  /\ UNCHANGED <<free, pte, given>>

-----------------------------------------------------------------------------
LeafUncheckedMistake(va) ==
  CHOOSE d \in 0..3 : /\ \A n \in 1..d : Prefix(va, n) \in DOMAIN pte
                      /\ d < 3 => Prefix(va, d + 1) \notin DOMAIN pte

(* The walk of vm_map, vm_unmap and vm_protect: the number of levels whose *)
(* entry is present before the first absent one.                           *)
Depth(va) ==
  CHOOSE d \in 0..4 : /\ \A n \in 1..d : Prefix(va, n) \in DOMAIN pte
                      /\ d < 4 => Prefix(va, d + 1) \notin DOMAIN pte

Mapped(va) == Depth(va) = 4

(* vm_map asks pmem_alloc for a page per absent level, until one is        *)
(* refused.                                                                *)
Granted(va) == IF Len(free) < 4 - Depth(va) THEN Len(free) ELSE 4 - Depth(va)

(* The value vm_map returns: FALSE when the page was already mapped or the *)
(* freelist ran out.                                                       *)
VmMapReturns(va) == ~Mapped(va) /\ Granted(va) = 4 - Depth(va)

(* Intermediate entries are user-accessible and writable; the leaf gets    *)
(* the arguments, with `executable' stored in the no_execute bit.          *)
NewEntry(f, level, perm) ==
  [frame |-> f, large |-> FALSE,
   user |-> (level = 1 => perm.user),
   writable |-> (level = 1 => perm.writable),
   noExecute |-> (level = 1 /\ perm.executable)]

NewPaths(va) == {Prefix(va, n) : n \in (Depth(va) + 1)..(Depth(va) + Granted(va))}

(* The walks never look at page_size: on the way to such a page they take  *)
(* the data of a large page for a table.                                   *)
LeavesTables(va) ==
  \E n \in 1..3 : Prefix(va, n) \in DOMAIN pte /\ pte[Prefix(va, n)].large

VmMap(va, perm) ==
  /\ phase = "ready"
  /\ ~LeavesTables(va)
  /\ pte' = [p \in DOMAIN pte \union NewPaths(va) |->
               IF p \in NewPaths(va)
                 THEN NewEntry(free[Len(p) - Depth(va)], 5 - Len(p), perm)
                 ELSE pte[p]]
  /\ free' = SubSeq(free, Granted(va) + 1, Len(free))
  /\ UNCHANGED <<given, phase>>

(* What vm_map reads and writes then is whatever the large page holds: the *)
(* model stops here, and says nothing of the machine from here on.         *)
VmMapStrays(va) ==
  /\ phase \in {"ready", "stray"}
  /\ LeavesTables(va)
  /\ phase' = "stray"
  /\ UNCHANGED <<free, pte, given>>

UnmapPresentMistake(va) ==
  /\ phase = "ready"
  /\ Mapped(va)
  /\ free' = Freed(pte[va].frame)
  /\ UNCHANGED <<pte, given, phase>>

UnmapLeakMistake(va) ==
  /\ phase = "ready"
  /\ Mapped(va)
  /\ pte' = Restrict(pte, DOMAIN pte \ {va})
  /\ UNCHANGED <<free, given, phase>>

UnmapLevelMistake(va) ==
  /\ phase = "ready"
  /\ Mapped(va)
  /\ pte' = Restrict(pte, {p \in DOMAIN pte : ~IsPrefix(Prefix(va, 3), p)})
  /\ free' = Freed(pte[Prefix(va, 3)].frame)
  /\ UNCHANGED <<given, phase>>

VmUnmap(va) ==
  /\ phase = "ready"
  /\ Mapped(va)
  /\ pte' = Restrict(pte, DOMAIN pte \ {va})
  /\ free' = Freed(pte[va].frame)
  /\ UNCHANGED <<given, phase>>

VmProtect(va, perm) ==
  /\ phase = "ready"
  /\ Mapped(va)
  /\ pte' = [pte EXCEPT ![va].user = perm.user,
                        ![va].writable = perm.writable,
                        ![va].noExecute = perm.executable]
  /\ UNCHANGED <<free, given, phase>>

-----------------------------------------------------------------------------
(* unmap_lower_half visits the tables below the user half of the level-4   *)
(* table in index order, and frees a table after the tables it points to.  *)
FirstEntryMistake == {p \in DOMAIN pte : Lower(p) /\ p[1] # 0 /\ IsTable(pte, p)}

LowerTables == {p \in DOMAIN pte : Lower(p) /\ IsTable(pte, p)}

Before(p, q) ==
  \/ IsStrictPrefix(q, p)
  \/ \E n \in 1..Len(p) : /\ n <= Len(q)
                          /\ p[n] < q[n]
                          /\ \A m \in 1..(n - 1) : p[m] = q[m]

StartUnmap ==
  /\ phase = "ready"
  /\ phase' = "unmap"
  /\ UNCHANGED <<free, pte, given>>

(* Freeing the page of a table drops every entry that was reached through  *)
(* it: the pages they map are neither freed nor remembered.                *)
FreeTable ==
  /\ phase \in {"boot_unmap", "unmap"}
  /\ \E p \in LowerTables :
       /\ \A q \in LowerTables \ {p} : Before(p, q)
       /\ free' = Freed(pte[p].frame)
       /\ pte' = Restrict(pte, {q \in DOMAIN pte : ~IsPrefix(p, q)})
  /\ UNCHANGED <<given, phase>>

(* An index of one byte never reaches 256.                                 *)
ByteIndexMistake ==
  /\ phase \in {"boot_unmap", "unmap"}
  /\ LowerTables = {}
  /\ UNCHANGED vars

UnmapDone ==
  /\ phase \in {"boot_unmap", "unmap"}
  /\ LowerTables = {}
  /\ phase' = "ready"
  /\ UNCHANGED <<free, pte, given>>

-----------------------------------------------------------------------------
Boot == FreelistInit \/ FreelistDone

Teardown == FreeTable \/ UnmapDone

(* vm_protect is called for pages that vm_map has just mapped (loader.c:71 *)
(* and 83), and so for none of the bootloader's; vm_unmap, which nothing   *)
(* calls yet, is taken to be used likewise.                                *)
MappedByVmMap(va) == Lower(va) \/ va \notin DOMAIN BootPte

Next ==
  \/ Boot
  \/ \E va \in NamedPage, perm \in Perm :
       VmMap(va, perm) \/ (MappedByVmMap(va) /\ VmProtect(va, perm))
  \/ \E va \in NamedPage :
       VmMapStrays(va) \/ (MappedByVmMap(va) /\ VmUnmap(va))
  \/ StartUnmap
  \/ Teardown

SafetySpec == Init /\ [][Next]_vars

(* The kernel runs its own loops to their end; whether a program ever asks *)
(* for a page or an exec is the program's business.                        *)
Spec == SafetySpec /\ WF_vars(Boot) /\ WF_vars(Teardown)

-----------------------------------------------------------------------------
(* mem_init is over: what the user half maps, vm_map has mapped.           *)
Booted == phase \notin {"freelist", "boot_unmap"}

(* The pages in use: every table, and every page that vm_map mapped.  The  *)
(* leaves that the bootloader left, of its higher half and until           *)
(* boot_unmap is over of its identity map, are aliases and own nothing.    *)
Owner(p) == IsTable(pte, p) \/ (Booted /\ MappedByVmMap(p))

Owners == {p \in DOMAIN pte : Owner(p)}

InUse == {pte[p].frame : p \in Owners}

TypeOK ==
  /\ free \in Seq(Frame)
  /\ DOMAIN pte \subseteq Path
  /\ pte \in [DOMAIN pte -> PtEntry]
  /\ given \in 0..Len(UsableFrames)
  /\ phase \in {"freelist", "boot_unmap", "ready", "unmap", "stray"}

(* No page of memory has two uses: the freelist holds no page twice and no *)
(* page that a table or a mapped page occupies, and no two of those share  *)
(* a page, in the user half or wherever else callers have had pages        *)
(* mapped.  It is what makes the freelist safe, since pmem_free writes its *)
(* link into the page it frees (page.c:233-235).                           *)
OneUse ==
  /\ \A i, j \in 1..Len(free) : free[i] = free[j] => i = j
  /\ \A p \in Owners : \A i \in 1..Len(free) : free[i] # pte[p].frame
  /\ \A p, q \in Owners : pte[p].frame = pte[q].frame => p = q

(* The walks of vm_map, vm_unmap and vm_protect, which never look at       *)
(* page_size, step into tables: once the bootloader's lower half is gone,  *)
(* the only large pages left are those of its higher half, and a caller    *)
(* has to name an address inside one to be sent astray.                    *)
WalksMeetTables ==
  /\ WellFormed(pte)
  /\ Booted => \A p \in DOMAIN pte : pte[p].large => ~Lower(p) /\ p \in DOMAIN BootPte

(* The higher half, where the kernel itself lives, stays as the bootloader *)
(* left it, although callers may name pages of it and vm_map then adds     *)
(* tables and pages to those the kernel uses: no entry of the bootloader   *)
(* is replaced, and no exec takes one down (page.c:82, 277-308).           *)
UpperHalfUntouched ==
  \A p \in DOMAIN BootPte : ~Lower(p) => p \in DOMAIN pte /\ pte[p] = BootPte[p]

(* The only pages that ever go missing are pages a program had mapped, and *)
(* they go missing only in unmap_lower_half: "We can reclaim memory used   *)
(* to hold page tables, but NOT the mapped pages" (page.c:80).  In         *)
(* particular a vm_map that fails half way loses none.                     *)
OnlyMappedPagesAreLost ==
  [][\A f \in Range(free) \union InUse :
       \/ f \in Range(free') \union InUse'
       \/ /\ phase = "unmap"
          /\ \E p \in DOMAIN pte : Lower(p) /\ Len(p) = 4 /\ pte[p].frame = f]_vars

(* Every unmap_lower_half runs to its end, whatever the tree it was given. *)
TeardownEnds == (phase \in {"boot_unmap", "unmap"}) ~> (phase = "ready")

(* The user half of the tables, once the boot is over, shows callers a     *)
(* PageMap, in which calls for other pages change nothing.  The entry's    *)
(* no_execute bit is the `executable' argument (page.c:295, 391).          *)
UserMapping ==
  [p \in {q \in DOMAIN pte : Booted /\ Lower(q) /\ Len(q) = 4} |->
     [frame |-> pte[p].frame,
      perm |-> [user |-> pte[p].user, writable |-> pte[p].writable,
                executable |-> pte[p].noExecute]]]

PM == INSTANCE PageMap WITH Page <- NamedPage, mapping <- UserMapping,
                            usable <- (phase \in {"ready", "stray"})

(* The tree of tables implements the map of pages.                         *)
ImplementsPageMap == PM!Spec

=============================================================================
