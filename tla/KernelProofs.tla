------------------------------ MODULE KernelProofs ------------------------------
(***************************************************************************)
(* The kernel's use of its paging code, proved for every machine, every    *)
(* set of files and every sequence of system calls, whatever addresses     *)
(* the files and the programs give: the kernel checks none.  After the use *)
(* of AddressSpace come the loader and mmap, a part each.                  *)
(*                                                                         *)
(* ASP is AddressSpace once more, with the proofs about it: its            *)
(* definitions are those of AS, and the lemmas of the first part say so.   *)
(***************************************************************************)
EXTENDS Kernel, TLAPS

ASP == INSTANCE AddressSpaceProofs WITH Index <- 0..(Radix - 1)

-----------------------------------------------------------------------------
(* What is known of AddressSpace holds of the kernel's instance of it.     *)
LEMMA PagingFacts ==
  /\ ASP!PagesHaveNumbers /\ ASP!IndicesAreNumbers /\ ASP!UsablePagesDiffer
  /\ ASP!BootTreeIsSound /\ ASP!CallersNamePages
  BY PagingAssumption
  DEF AS!PagesHaveNumbers, AS!IndicesAreNumbers, AS!UsablePagesDiffer,
      AS!BootTreeIsSound, AS!CallersNamePages, AS!NullFrame, AS!Path, AS!Page,
      AS!PtEntry, AS!Permission, AS!IsTable, AS!WellFormed, AS!Prefix,
      ASP!PagesHaveNumbers, ASP!IndicesAreNumbers, ASP!UsablePagesDiffer,
      ASP!BootTreeIsSound, ASP!CallersNamePages, ASP!NullFrame, ASP!Path, ASP!Page,
      ASP!PtEntry, ASP!Permission, ASP!IsTable, ASP!WellFormed, ASP!Prefix

LEMMA SameInit == AS!Init <=> ASP!Init
  BY DEF AS!Init, ASP!Init

LEMMA SameVmMap ==
  /\ \A va, perm : AS!VmMap(va, perm) <=> ASP!VmMap(va, perm)
  /\ \A va : AS!VmMapReturns(va) <=> ASP!VmMapReturns(va)
  BY DEF AS!VmMap, AS!VmMapReturns, AS!Mapped, AS!Depth, AS!Granted, AS!NewPaths,
         AS!NewEntry, AS!LeavesTables, AS!Prefix,
         ASP!VmMap, ASP!VmMapReturns, ASP!Mapped, ASP!Depth, ASP!Granted,
         ASP!NewPaths, ASP!NewEntry, ASP!LeavesTables, ASP!Prefix

LEMMA SameVmMapStrays == \A va : AS!VmMapStrays(va) <=> ASP!VmMapStrays(va)
  BY DEF AS!VmMapStrays, AS!LeavesTables, AS!Prefix,
         ASP!VmMapStrays, ASP!LeavesTables, ASP!Prefix

LEMMA SameVmProtect ==
  /\ \A va, perm : AS!VmProtect(va, perm) <=> ASP!VmProtect(va, perm)
  /\ \A va : AS!MappedByVmMap(va) <=> ASP!MappedByVmMap(va)
  BY DEF AS!VmProtect, AS!Mapped, AS!Depth, AS!Prefix, AS!MappedByVmMap, AS!Lower,
         ASP!VmProtect, ASP!Mapped, ASP!Depth, ASP!Prefix, ASP!MappedByVmMap, ASP!Lower

LEMMA SameTeardown == AS!Teardown <=> ASP!Teardown
  BY DEF AS!Teardown, AS!FreeTable, AS!UnmapDone, AS!Freed, AS!NullFrame, AS!Prefix,
         AS!Before, AS!LowerTables, AS!IsTable, AS!Lower, AS!Cons, AS!Restrict,
         AS!IsPrefix, AS!IsStrictPrefix,
         ASP!Teardown, ASP!FreeTable, ASP!UnmapDone, ASP!Freed, ASP!NullFrame,
         ASP!Prefix, ASP!Before, ASP!LowerTables, ASP!IsTable, ASP!Lower, ASP!Cons,
         ASP!Restrict, ASP!IsPrefix, ASP!IsStrictPrefix

LEMMA SameBoot == AS!Boot <=> ASP!Boot
  BY DEF AS!Boot, AS!FreelistInit, AS!FreelistDone, AS!Freed, AS!NullFrame, AS!Cons,
         ASP!Boot, ASP!FreelistInit, ASP!FreelistDone, ASP!Freed, ASP!NullFrame,
         ASP!Cons

LEMMA SameStartUnmap == AS!StartUnmap <=> ASP!StartUnmap
  BY DEF AS!StartUnmap, ASP!StartUnmap

(* Every page number names a page, a number of the upper half included.    *)
LEMMA PathIsPage == \A n \in Nat : PathOf(n) \in ASP!Page
  <1> DEFINE entry(n, k) == (n \div k) % Radix
  <1>1. Radix \in Nat \ {0}
    BY PagingAssumption
  <1>2. Radix * Radix \in Nat \ {0}
    BY <1>1
  <1>3. Radix * Radix * Radix \in Nat \ {0}
    BY <1>1, <1>2
  <1>4. \A n \in Nat : \A k \in Nat \ {0} : entry(n, k) \in 0..(Radix - 1)
    BY <1>1
  <1> HIDE DEF entry
  <1> SUFFICES ASSUME NEW n \in Nat PROVE PathOf(n) \in [1..4 -> 0..(Radix - 1)]
    BY DEF ASP!Page
  <1>5. PathOf(n) = <<entry(n, Radix * Radix * Radix), entry(n, Radix * Radix),
                      entry(n, Radix), entry(n, 1)>>
    BY DEF PathOf, entry
  <1>6. /\ entry(n, Radix * Radix * Radix) \in 0..(Radix - 1)
        /\ entry(n, Radix * Radix) \in 0..(Radix - 1)
        /\ entry(n, Radix) \in 0..(Radix - 1) /\ entry(n, 1) \in 0..(Radix - 1)
    BY <1>1, <1>2, <1>3, <1>4
  <1> QED BY <1>5, <1>6

-----------------------------------------------------------------------------
(* The counters of the loader and the call being served.  elf_phdr never   *)
(* runs ahead of the segment loop, which `continue' leaves behind, so the  *)
(* header that a segment is loaded from is one of the file's.              *)
Shape ==
  /\ pc \in {"boot", "find", "unmap", "check", "segments", "map_segment",
             "protect", "stack", "user", "mmap", "halted", "stray"}
  /\ phdr \in Nat /\ loops \in Nat /\ 1 <= phdr /\ phdr <= loops + 1
  /\ page \in Nat /\ nextStart \in Nat
  /\ pc \in {"boot", "find", "unmap", "check", "user", "mmap", "halted"} =>
       phdr = 1 /\ loops = 0
  /\ pc \in {"unmap", "check", "segments", "map_segment", "protect", "stack"} =>
       target \in DOMAIN Module
  /\ pc \in {"segments", "map_segment", "protect"} => loops <= Len(Segments(target))
  /\ pc \in {"map_segment", "protect"} => loops < Len(Segments(target))
  /\ pc = "mmap" => call.args \in MmapCall

LEMMA ImageFacts ==
  ASSUME NEW name \in DOMAIN Module
  PROVE  /\ Len(Segments(name)) \in Nat
         /\ \A i \in 1..Len(Segments(name)) :
              Segments(name)[i] \in [load : BOOLEAN, vaddr : Nat, memsz : Nat,
                                     writable : BOOLEAN, executable : BOOLEAN]
  <1> DEFINE Header == [load : BOOLEAN, vaddr : Nat, memsz : Nat,
                        writable : BOOLEAN, executable : BOOLEAN]
  <1>1. Segments(name) \in Seq(Header)
    BY ImageAssumption
  <1> HIDE DEF Header
  <1>2. /\ Len(Segments(name)) \in Nat
        /\ \A i \in 1..Len(Segments(name)) : Segments(name)[i] \in Header
    BY <1>1
  <1> QED BY <1>2 DEF Header

LEMMA PageNumbers ==
  /\ PageSize \in Nat \ {0}
  /\ \A a \in Nat : a \div PageSize \in Nat /\ a % PageSize \in Nat
  /\ StackBase \in Nat /\ MmapBase \in Nat
  /\ \A n \in Nat : n * PageSize \in Nat
  BY ImageAssumption, MmapAssumption

LEMMA SegmentFacts ==
  ASSUME Shape, target \in DOMAIN Module, loops < Len(Segments(target))
  PROVE  /\ phdr \in 1..Len(Segments(target))
         /\ Segment.vaddr \in Nat /\ Segment.memsz \in Nat
         /\ Segment.writable \in BOOLEAN /\ Segment.executable \in BOOLEAN
         /\ Segment.vaddr \div PageSize \in Nat
  <1>1. Len(Segments(target)) \in Nat
    BY ImageFacts
  <1>2. phdr \in 1..Len(Segments(target))
    BY <1>1 DEF Shape
  <1>3. Segment.vaddr \in Nat
    BY <1>2, ImageFacts DEF Segment
  <1> QED BY <1>2, <1>3, ImageFacts, PageNumbers DEF Segment

LEMMA InitShape == Init => Shape
  BY PageNumbers DEF Init, Shape

LEMMA LoadFailsShape ==
  ASSUME Shape, NEW error, LoadFails(error)
  PROVE  Shape'
  BY DEF Shape, LoadFails

LEMMA NextShape == Shape /\ [Next]_vars => Shape'
  <1> SUFFICES ASSUME Shape, [Next]_vars PROVE Shape'
    OBVIOUS
  <1>1. CASE Boot
    BY <1>1 DEF Boot, Shape, loadVars
  <1>2. CASE NotFound \/ NotExecutable
    BY <1>2, LoadFailsShape DEF NotFound, NotExecutable
  <1>3. CASE Found
    BY <1>3 DEF Found, Shape, loadVars
  <1>4. CASE UnmapLowerHalf
    BY <1>4 DEF UnmapLowerHalf, Shape, loadVars
  <1>5. CASE CheckType
    BY <1>5, ImageFacts DEF CheckType, Shape, loadVars
  <1>6. CASE SkipSegment \/ SkipNullSegment
    <2>1. Len(Segments(target)) \in Nat
      BY <1>6, ImageFacts DEF SkipSegment, SkipNullSegment, InSegmentLoop, Shape
    <2> QED BY <1>6, <2>1 DEF SkipSegment, SkipNullSegment, InSegmentLoop, Shape
  <1>7. CASE StartSegment
    <2>1. page' \in Nat
      BY <1>7, SegmentFacts DEF StartSegment, InSegmentLoop, Shape
    <2> QED BY <1>7, <2>1 DEF StartSegment, InSegmentLoop, Shape, loadVars
  <1>8. CASE MapSegmentPage
    <2>1. CASE AS!VmMapReturns(PathOf(page))
      BY <1>8, <2>1 DEF MapSegmentPage, Shape, loadVars
    <2>2. CASE ~AS!VmMapReturns(PathOf(page))
      BY <1>8, <2>2, LoadFailsShape DEF MapSegmentPage
    <2> QED BY <2>1, <2>2
  <1>9. CASE ProtectSegment
    <2>1. Len(Segments(target)) \in Nat
      BY <1>9, ImageFacts DEF ProtectSegment, Shape
    <2> QED BY <1>9, <2>1 DEF ProtectSegment, Shape
  <1>10. CASE SegmentsDone
    BY <1>10, PageNumbers DEF SegmentsDone, Shape, loadVars
  <1>11. CASE MapStackPage
    BY <1>11 DEF MapStackPage, Shape, loadVars
  <1>12. CASE UsermodeEntry
    BY <1>12 DEF UsermodeEntry, Shape
  <1>13. CASE MapMmapPage
    BY <1>13 DEF MapMmapPage, MmapFails, Shape, loadVars
  <1>14. CASE VmMapStrays
    BY <1>14 DEF VmMapStrays, Shape, loadVars
  <1>15. CASE (\E name \in Name : CallExec(name)) \/ CallExit
    BY <1>15 DEF CallExec, CallExit, Running, Shape
  <1>16. ASSUME NEW args \in MmapCall, CallMmap(args) PROVE Shape'
    <2>1. page' \in Nat
      <3>1. args.addr \in Nat /\ nextStart * PageSize \in Nat
        BY MmapAssumption, PageNumbers DEF Shape
      <3> QED BY <1>16, <3>1, PageNumbers DEF CallMmap, Shape
    <2> QED BY <1>16, <2>1 DEF CallMmap, Mmap, Running, Shape, loadVars
  <1>17. CASE PageFault
    BY <1>17 DEF PageFault, Shape, loadVars
  <1>18. CASE Halted \/ UNCHANGED vars
    BY <1>18 DEF Halted, Shape, vars, loadVars
  <1> QED
    BY <1>1, <1>2, <1>3, <1>4, <1>5, <1>6, <1>7, <1>8, <1>9, <1>10, <1>11, <1>12,
       <1>13, <1>14, <1>15, <1>16, <1>17, <1>18 DEF Next, KernelStep, Load, UserStep

-----------------------------------------------------------------------------
(* The pages and permissions that the kernel passes to its paging code.    *)
LEMMA SegmentMapArgs ==
  ASSUME Shape, MapSegmentPage
  PROVE  /\ PathOf(page) \in ASP!Page /\ LoadingPerm \in Perm
         /\ AS!VmMap(PathOf(page), LoadingPerm)
  BY PathIsPage, PermAssumption DEF MapSegmentPage, Shape

RequestedPerm ==
  [user |-> TRUE, writable |-> Segment.writable, executable |-> ~Segment.executable]

LEMMA ProtectArgs ==
  ASSUME Shape, ProtectSegment
  PROVE  /\ PathOf(Segment.vaddr \div PageSize) \in ASP!Page /\ RequestedPerm \in Perm
         /\ AS!VmProtect(PathOf(Segment.vaddr \div PageSize), RequestedPerm)
  <1>1. target \in DOMAIN Module /\ loops < Len(Segments(target))
    BY DEF ProtectSegment, Shape
  <1>2. RequestedPerm \in Perm
    BY <1>1, SegmentFacts, PermAssumption DEF RequestedPerm
  <1>3. PathOf(Segment.vaddr \div PageSize) \in ASP!Page
    BY <1>1, SegmentFacts, PathIsPage
  <1> QED BY <1>2, <1>3 DEF ProtectSegment, RequestedPerm

StackPerm == [user |-> TRUE, writable |-> TRUE, executable |-> FALSE]

LEMMA StackMapArgs ==
  ASSUME Shape, MapStackPage
  PROVE  /\ PathOf(page) \in ASP!Page /\ StackPerm \in Perm
         /\ AS!VmMap(PathOf(page), StackPerm)
  BY PathIsPage, PermAssumption DEF MapStackPage, Shape, StackPerm

LEMMA MmapMapArgs ==
  ASSUME Shape, MapMmapPage
  PROVE  /\ PathOf(page) \in ASP!Page /\ MmapPerm(call.args) \in Perm
         /\ AS!VmMap(PathOf(page), MmapPerm(call.args))
  <1>1. call.args.flags.bit0 \in BOOLEAN /\ call.args.flags.bit1 \in BOOLEAN
    BY MmapAssumption DEF MapMmapPage, Shape
  <1>2. MmapPerm(call.args) \in Perm
    BY <1>1, PermAssumption DEF MmapPerm
  <1> QED BY <1>2, PathIsPage DEF MapMmapPage, Shape

-----------------------------------------------------------------------------
(* What the kernel's own calls do to the tables.  Paging is the invariant  *)
(* that AddressSpace's proofs rest on.                                     *)
Paging == ASP!Inv

KeepsEntries ==
  /\ phase = "ready" /\ phase' = phase
  /\ \A p \in DOMAIN pte : p \in DOMAIN pte' /\ pte'[p] = pte[p]

LEMMA MapKeepsEntries ==
  ASSUME Paging, NEW va \in ASP!Page, NEW perm \in Perm, AS!VmMap(va, perm)
  PROVE  /\ KeepsEntries
         /\ AS!VmMapReturns(va) => va \in DOMAIN pte' /\ pte'[va].user = perm.user
  BY SameVmMap, PagingFacts, ASP!VmMapEffect DEF Paging, KeepsEntries

LEMMA MapAddsOne ==
  ASSUME Paging, NEW va \in ASP!Page, NEW perm \in Perm, AS!VmMap(va, perm)
  PROVE  /\ \A p \in DOMAIN pte' \ DOMAIN pte : Len(p) = 4 => p = va
         /\ AS!VmMapReturns(va) => /\ va \in DOMAIN pte' \ DOMAIN pte
                                  /\ AS!MappedByVmMap(va)
                                  /\ pte'[va].user = perm.user
                                  /\ pte'[va].writable = perm.writable
                                  /\ pte'[va].noExecute = perm.executable
         /\ ~AS!VmMapReturns(va) => va \in DOMAIN pte \/ free' = <<>>
         /\ free = <<>> => free' = <<>> /\ ~AS!VmMapReturns(va)
  BY SameVmMap, SameVmProtect, PagingFacts, ASP!VmMapEffect DEF Paging

LEMMA ProtectChangesOne ==
  ASSUME Paging, NEW va \in ASP!Page, NEW perm \in Perm, AS!VmProtect(va, perm)
  PROVE  /\ phase = "ready" /\ phase' = phase
         /\ DOMAIN pte' = DOMAIN pte /\ va \in DOMAIN pte
         /\ \A p \in DOMAIN pte : p # va => pte'[p] = pte[p]
         /\ pte'[va].frame = pte[va].frame /\ pte'[va].user = perm.user
         /\ pte'[va].writable = perm.writable /\ pte'[va].noExecute = perm.executable
  BY SameVmProtect, PagingFacts, ASP!VmProtectEffect DEF Paging

-----------------------------------------------------------------------------
(* The page that ProtectSegment will name is one that vm_map mapped, not   *)
(* one of the bootloader's, and keeps its loading permission.              *)
FirstPage == PathOf(Segment.vaddr \div PageSize)

FirstIsLoading ==
  FirstPage \in DOMAIN pte /\ ~pte[FirstPage].user /\ AS!MappedByVmMap(FirstPage)

Loading ==
  /\ pc = "map_segment" => page = Segment.vaddr \div PageSize \/ FirstIsLoading
  /\ pc = "protect" => FirstIsLoading

Sound == Shape /\ Paging /\ Loading

LEMMA MapSegmentLoading ==
  ASSUME Sound, MapSegmentPage
  PROVE  Loading'
  <1>1. /\ PathOf(page) \in ASP!Page /\ LoadingPerm \in Perm
        /\ AS!VmMap(PathOf(page), LoadingPerm) /\ pc = "map_segment"
    BY SegmentMapArgs DEF Sound, MapSegmentPage
  <1>2. /\ KeepsEntries
        /\ AS!VmMapReturns(PathOf(page)) =>
             /\ PathOf(page) \in DOMAIN pte' /\ ~pte'[PathOf(page)].user
             /\ AS!MappedByVmMap(PathOf(page))
    BY <1>1, MapKeepsEntries, MapAddsOne DEF Sound, LoadingPerm
  <1>3. CASE AS!VmMapReturns(PathOf(page))
    <2>1. target' = target /\ phdr' = phdr /\ pc' \in {"map_segment", "protect"}
      BY <1>3 DEF MapSegmentPage, loadVars
    <2>2. FirstPage' = FirstPage
      BY <2>1 DEF FirstPage, Segment, Segments, PathOf
    <2>3. AS!MappedByVmMap(FirstPage)' <=> AS!MappedByVmMap(FirstPage)
      BY <2>2 DEF AS!MappedByVmMap, AS!Lower
    <2>4. FirstIsLoading'
      BY <1>1, <1>2, <1>3, <2>2, <2>3
      DEF Sound, Loading, FirstIsLoading, FirstPage, KeepsEntries
    <2> QED BY <2>1, <2>4 DEF Loading
  <1>4. CASE ~AS!VmMapReturns(PathOf(page))
    BY <1>4 DEF MapSegmentPage, LoadFails, Loading
  <1> QED BY <1>3, <1>4

LEMMA NextLoading ==
  ASSUME Sound, [Next]_vars
  PROVE  Loading'
  <1>1. CASE MapSegmentPage
    BY <1>1, MapSegmentLoading
  <1>2. CASE StartSegment
    BY <1>2 DEF StartSegment, InSegmentLoop, Loading, Segment, Segments, loadVars
  <1>3. CASE \/ NotFound \/ NotExecutable
    BY <1>3 DEF NotFound, NotExecutable, LoadFails, Loading
  <1>4. CASE Boot \/ Found \/ UnmapLowerHalf
    BY <1>4 DEF Boot, Found, UnmapLowerHalf, Loading
  <1>5. CASE \/ CheckType \/ SkipSegment \/ SkipNullSegment \/ ProtectSegment
             \/ SegmentsDone \/ MapStackPage \/ UsermodeEntry
    BY <1>5 DEF CheckType, SkipSegment, SkipNullSegment, InSegmentLoop, ProtectSegment,
                SegmentsDone, MapStackPage, UsermodeEntry, Loading
  <1>6. CASE MapMmapPage \/ VmMapStrays
    BY <1>6 DEF MapMmapPage, MmapFails, VmMapStrays, Loading
  <1>7. CASE UserStep
    BY <1>7 DEF UserStep, CallExec, CallExit, CallMmap, Running, PageFault, Loading
  <1>8. CASE Halted \/ UNCHANGED vars
    <2>1. /\ pc' = pc /\ page' = page /\ pte' = pte /\ target' = target /\ phdr' = phdr
          /\ Loading
      BY <1>8 DEF Halted, vars, asVars, loadVars, Sound
    <2>2. Segment' = Segment /\ FirstPage' = FirstPage
      BY <2>1 DEF FirstPage, Segment, Segments, PathOf
    <2>3. AS!MappedByVmMap(FirstPage)' <=> AS!MappedByVmMap(FirstPage)
      BY <2>2 DEF AS!MappedByVmMap, AS!Lower
    <2> QED BY <2>1, <2>2, <2>3 DEF Loading, FirstIsLoading
  <1> QED
    BY <1>1, <1>2, <1>3, <1>4, <1>5, <1>6, <1>7, <1>8 DEF Next, KernelStep, Load

(* Whatever pages it names, the kernel keeps its tables and its freelist   *)
(* sound.                                                                  *)
LEMMA MapKeepsPaging ==
  ASSUME Paging, NEW va \in ASP!Page, NEW perm \in Perm, AS!VmMap(va, perm)
  PROVE  Paging'
  BY SameVmMap, PagingFacts, ASP!VmMapInv DEF Paging

LEMMA ProtectKeepsPaging ==
  ASSUME Paging, NEW va \in ASP!Page, NEW perm \in Perm, AS!MappedByVmMap(va),
         AS!VmProtect(va, perm)
  PROVE  Paging'
  BY SameVmProtect, PagingFacts, ASP!VmProtectInv DEF Paging

LEMMA OtherwiseKeepsPaging ==
  ASSUME Paging,
         \/ AS!Boot \/ AS!Teardown \/ AS!StartUnmap
         \/ \E va \in ASP!Page : AS!VmMapStrays(va)
         \/ UNCHANGED <<free, pte, given, phase>>
  PROVE  Paging'
  <1>1. CASE \/ AS!Boot \/ AS!Teardown \/ AS!StartUnmap
             \/ UNCHANGED <<free, pte, given, phase>>
    <2>1. ASP!Next \/ UNCHANGED ASP!vars
      BY <1>1, SameBoot, SameTeardown, SameStartUnmap DEF ASP!Next, ASP!vars
    <2> QED BY <2>1, PagingFacts, ASP!NextInv DEF Paging
  <1>2. ASSUME NEW va \in ASP!Page, AS!VmMapStrays(va) PROVE Paging'
    BY <1>2, SameVmMapStrays, PagingFacts, ASP!VmMapStraysInv DEF Paging
  <1> QED BY <1>1, <1>2

LEMMA NextPaging ==
  ASSUME Sound, [Next]_vars
  PROVE  Paging'
  <1>1. Shape /\ Paging /\ Loading
    BY DEF Sound
  <1>2. CASE Boot \/ Found \/ UnmapLowerHalf
    BY <1>1, <1>2, OtherwiseKeepsPaging DEF Boot, Found, UnmapLowerHalf
  <1>3. CASE MapSegmentPage
    BY <1>1, <1>3, SegmentMapArgs, MapKeepsPaging
  <1>4. CASE MapStackPage
    BY <1>1, <1>4, StackMapArgs, MapKeepsPaging
  <1>5. CASE MapMmapPage
    BY <1>1, <1>5, MmapMapArgs, MapKeepsPaging
  <1>6. CASE ProtectSegment
    <2>1. AS!MappedByVmMap(PathOf(Segment.vaddr \div PageSize))
      BY <1>1, <1>6 DEF ProtectSegment, Loading, FirstIsLoading, FirstPage
    <2> QED BY <1>1, <1>6, <2>1, ProtectArgs, ProtectKeepsPaging
  <1>7. CASE VmMapStrays
    BY <1>1, <1>7, PathIsPage, OtherwiseKeepsPaging DEF VmMapStrays, Shape
  <1>8. CASE \/ NotFound \/ NotExecutable \/ CheckType \/ SkipSegment \/ SkipNullSegment
             \/ StartSegment \/ SegmentsDone \/ UsermodeEntry
    BY <1>1, <1>8, OtherwiseKeepsPaging
    DEF NotFound, NotExecutable, CheckType, SkipSegment, SkipNullSegment,
        StartSegment, SegmentsDone, UsermodeEntry, asVars
  <1>9. CASE UserStep
    BY <1>1, <1>9, OtherwiseKeepsPaging
    DEF UserStep, CallExec, CallExit, CallMmap, PageFault, asVars
  <1>10. CASE Halted \/ UNCHANGED vars
    BY <1>1, <1>10, OtherwiseKeepsPaging DEF Halted, vars, asVars
  <1> QED
    BY <1>2, <1>3, <1>4, <1>5, <1>6, <1>7, <1>8, <1>9, <1>10 DEF Next, KernelStep, Load

LEMMA NextSound == Sound /\ [Next]_vars => Sound'
  BY NextShape, NextPaging, NextLoading DEF Sound

LEMMA InitSound == Init => Sound
  <1> SUFFICES ASSUME Init PROVE Sound
    OBVIOUS
  <1>1. Paging
    BY SameInit, PagingFacts, ASP!InitInv DEF Init, Paging
  <1> QED BY <1>1, InitShape DEF Init, Loading, Sound

LEMMA SpecSound == Spec => []Sound
  BY InitSound, NextSound, PTL DEF Spec

(* No page of memory is ever both free and in use, nor in use twice: not   *)
(* by two pages of a program, nor by a page and a table, nor by one that a *)
(* program kept from before an exec, wherever files and programs have had  *)
(* pages mapped (page.c:78-121, 227-318).                                  *)
THEOREM KernelMemoryIsSafe == Spec => []AS!OneUse
  <1>1. Sound => AS!OneUse
    BY DEF Sound, Paging, ASP!Inv, ASP!OneUse, AS!OneUse, ASP!Owners, AS!Owners,
           ASP!Owner, AS!Owner, ASP!IsTable, AS!IsTable, ASP!Lower, AS!Lower,
           ASP!Booted, AS!Booted, ASP!MappedByVmMap, AS!MappedByVmMap
  <1> QED BY <1>1, SpecSound, PTL

(* The kernel's own half of the tables stays as the bootloader left it,    *)
(* although sys_mmap and run_exec_elf check none of the addresses they are *)
(* given: vm_map adds entries beside the kernel's and replaces none, and   *)
(* vm_protect is only called for pages that vm_map added (loader.c:71-83,  *)
(* syscall_def.c:92-99).                                                   *)
THEOREM KernelHalfIsSafe == Spec => []AS!UpperHalfUntouched
  <1>1. Sound => AS!UpperHalfUntouched
    BY DEF Sound, Paging, ASP!Inv, ASP!UpperHalfUntouched, AS!UpperHalfUntouched,
           ASP!Lower, AS!Lower
  <1> QED BY <1>1, SpecSound, PTL

-----------------------------------------------------------------------------
(* Every step of the kernel is a step that AddressSpace allows, as long as *)
(* the pages it names are among those that NamedPage lists.                *)
LEMMA StepUsesPaging ==
  ASSUME Sound, NamesPages, [Next]_vars
  PROVE  [AS!Next]_(AS!vars)
  <1>1. Shape /\ Loading
    BY DEF Sound
  <1>2. CASE Boot
    BY <1>2 DEF Boot, AS!Next
  <1>3. CASE Found
    BY <1>3 DEF Found, AS!Next
  <1>4. CASE UnmapLowerHalf
    BY <1>4 DEF UnmapLowerHalf, AS!Next
  <1>5. CASE MapSegmentPage
    <2>1. PathOf(page) \in NamedPage
      BY <1>5 DEF MapSegmentPage, NamesPages
    <2> QED BY <1>1, <1>5, <2>1, SegmentMapArgs DEF AS!Next
  <1>6. CASE ProtectSegment
    <2>1. PathOf(Segment.vaddr \div PageSize) \in NamedPage
      BY <1>6 DEF ProtectSegment, NamesPages
    <2>2. AS!MappedByVmMap(PathOf(Segment.vaddr \div PageSize))
      BY <1>1, <1>6 DEF ProtectSegment, Loading, FirstIsLoading, FirstPage
    <2> QED BY <1>1, <1>6, <2>1, <2>2, ProtectArgs DEF AS!Next
  <1>7. CASE MapStackPage
    <2>1. PathOf(page) \in NamedPage
      BY <1>7 DEF MapStackPage, NamesPages
    <2> QED BY <1>1, <1>7, <2>1, StackMapArgs DEF AS!Next
  <1>8. CASE MapMmapPage
    <2>1. PathOf(page) \in NamedPage
      BY <1>8 DEF MapMmapPage, NamesPages
    <2> QED BY <1>1, <1>8, <2>1, MmapMapArgs DEF AS!Next
  <1>9. CASE VmMapStrays
    BY <1>9 DEF VmMapStrays, NamesPages, AS!Next
  <1>10. CASE \/ NotFound \/ NotExecutable \/ CheckType \/ SkipSegment \/ SkipNullSegment
              \/ StartSegment \/ SegmentsDone \/ UsermodeEntry
    BY <1>10 DEF NotFound, NotExecutable, CheckType, SkipSegment, SkipNullSegment,
                 StartSegment, SegmentsDone, UsermodeEntry, asVars, AS!vars
  <1>11. CASE UserStep
    BY <1>11 DEF UserStep, CallExec, CallExit, CallMmap, PageFault, asVars, AS!vars
  <1>12. CASE Halted \/ UNCHANGED vars
    BY <1>12 DEF Halted, vars, asVars, AS!vars
  <1> QED
    BY <1>2, <1>3, <1>4, <1>5, <1>6, <1>7, <1>8, <1>9, <1>10, <1>11, <1>12
    DEF Next, KernelStep, Load

(* Whatever the files hold and the programs ask, loads, failed loads,      *)
(* mmaps, execs and exits included, the kernel changes the freelist and    *)
(* the tables only by calls of its paging code, each with permissions that *)
(* AddressSpace takes from its callers, those of the header being loaded,  *)
(* of the stack or of an mmap; and vm_protect it calls only for a page     *)
(* that vm_map has mapped (loader.c:37-97, syscall_def.c:77-120).  The     *)
(* condition is that NamedPage be large enough.                            *)
THEOREM KernelUsesPaging == Spec /\ []NamesPages => ImplementsAddressSpace
  <1>1. Init => AS!Init
    BY DEF Init
  <1> QED
    BY <1>1, SpecSound, StepUsesPaging, PTL DEF Spec, ImplementsAddressSpace, AS!SafetySpec

-----------------------------------------------------------------------------
(* The types of the kernel's own variables.                                *)
CallRecord == [kind : {"mmap"}, args : MmapCall, result : Int]

OwnTypes ==
  /\ \A t \in tlb : t[1] \in AS!Path /\ t[2] \in AS!PtEntry
  /\ program \in DOMAIN Module \union {NoProgram}
  /\ image \in {program, NoProgram}
  /\ call.kind \in {"none", "mmap", "exec", "exit"}
  /\ pc = "mmap" => call \in CallRecord
  /\ target \in Name \union {"init"}
  /\ left \in Int
  /\ result \in {-3, -2, -1, 0, 1}

LEMMA CacheTypes ==
  ASSUME AS!TypeOK', \A t \in tlb : t[1] \in AS!Path /\ t[2] \in AS!PtEntry,
         Cache \/ CacheUntilFlush
  PROVE  \A t \in tlb' : t[1] \in AS!Path /\ t[2] \in AS!PtEntry
  <1>1. \A t \in Leaves(pte') : t[1] \in AS!Path /\ t[2] \in AS!PtEntry
    BY DEF Leaves, AS!TypeOK
  <1> QED BY <1>1 DEF Cache, CacheUntilFlush

LEMMA SoundTypes == Sound => AS!TypeOK
  BY DEF Sound, Paging, ASP!Inv, ASP!TypeOK, AS!TypeOK, ASP!Path, AS!Path,
         ASP!PtEntry, AS!PtEntry

LEMMA SoundTypesNext == Sound' => AS!TypeOK'
  BY SoundTypes, PTL

LEMMA LoadFailsTypes ==
  ASSUME OwnTypes, NEW error \in {-3, -2, -1}, LoadFails(error),
         \A t \in tlb' : t[1] \in AS!Path /\ t[2] \in AS!PtEntry
  PROVE  OwnTypes'
  BY DEF OwnTypes, LoadFails

LEMMA CallMmapTypes ==
  ASSUME Shape, OwnTypes, NEW args \in MmapCall, CallMmap(args)
  PROVE  OwnTypes'
  <1> DEFINE address == IF args.addr = 0 THEN nextStart * PageSize ELSE args.addr
  <1>1. address \in Nat /\ address \div PageSize \in Nat
    BY PageNumbers, MmapAssumption DEF Shape
  <1>2. /\ args.length \in Int
        /\ Mmap(args) \in CallRecord
        /\ \A r \in Int : [Mmap(args) EXCEPT !.result = r] \in CallRecord
    BY MmapAssumption DEF Mmap, CallRecord
  <1>3. call' \in CallRecord /\ left' \in Int
    <2>1. CASE args.length <= 0
      BY <1>2, <2>1 DEF CallMmap, OwnTypes
    <2>2. CASE ~(args.length <= 0)
      BY <1>1, <1>2, <2>2 DEF CallMmap
    <2> QED BY <2>1, <2>2
  <1>4. call'.kind = "mmap"
    BY <1>3 DEF CallRecord
  <1> QED BY <1>3, <1>4 DEF CallMmap, OwnTypes, asVars, loadVars

LEMMA NextTypes ==
  ASSUME Sound, Sound', OwnTypes, [Next]_vars
  PROVE  OwnTypes'
  <1> USE PageNumbers
  <1>1. Cache \/ CacheUntilFlush => \A t \in tlb' : t[1] \in AS!Path /\ t[2] \in AS!PtEntry
    <2>1. AS!TypeOK'
      BY SoundTypesNext
    <2> QED BY <2>1, CacheTypes DEF OwnTypes
  <1>2. CASE Boot \/ Found \/ UnmapLowerHalf \/ VmMapStrays
    BY <1>1, <1>2 DEF Boot, Found, UnmapLowerHalf, VmMapStrays, OwnTypes, loadVars
  <1>3. CASE NotFound \/ NotExecutable
    BY <1>3, LoadFailsTypes DEF NotFound, NotExecutable, OwnTypes, asVars
  <1>4. CASE CheckType \/ SkipSegment \/ SkipNullSegment \/ SegmentsDone
    BY <1>4
    DEF CheckType, SkipSegment, SkipNullSegment, InSegmentLoop, SegmentsDone,
        OwnTypes, asVars, loadVars
  <1>5. CASE StartSegment
    <2>1. Segment.vaddr \in Nat /\ Segment.memsz \in Nat
      BY <1>5, SegmentFacts DEF StartSegment, InSegmentLoop, Sound, Shape
    <2>2. left' \in Int
      <3>1. Segment.vaddr % PageSize \in Nat
        BY <2>1
      <3>2. \A a, b \in Nat : a + b \in Int
        OBVIOUS
      <3> QED BY <1>5, <2>1, <3>1, <3>2 DEF StartSegment
    <2> QED BY <1>5, <2>2 DEF StartSegment, OwnTypes, asVars, loadVars
  <1>6. CASE MapSegmentPage
    <2>1. CASE AS!VmMapReturns(PathOf(page))
      BY <1>1, <1>6, <2>1 DEF MapSegmentPage, OwnTypes, loadVars
    <2>2. CASE ~AS!VmMapReturns(PathOf(page))
      BY <1>1, <1>6, <2>2, LoadFailsTypes DEF MapSegmentPage
    <2> QED BY <2>1, <2>2
  <1>7. CASE ProtectSegment
    BY <1>1, <1>7 DEF ProtectSegment, OwnTypes
  <1>8. CASE MapStackPage
    BY <1>1, <1>8 DEF MapStackPage, OwnTypes, loadVars
  <1>9. CASE MapMmapPage
    <2>1. call \in CallRecord /\ left \in Int
      BY <1>9 DEF MapMmapPage, OwnTypes
    <2>2. /\ [call EXCEPT !.result = -1] \in CallRecord
          /\ [call EXCEPT !.result = -1].kind = "mmap" /\ call.kind = "mmap"
      BY <2>1 DEF CallRecord
    <2>3. CASE AS!VmMapReturns(PathOf(page))
      BY <1>1, <1>9, <2>1, <2>2, <2>3 DEF MapMmapPage, SizeLeft, OwnTypes, loadVars
    <2>4. CASE ~AS!VmMapReturns(PathOf(page))
      <3>1. MmapFails
        BY <1>9, <2>4 DEF MapMmapPage
      <3>2. call' \in CallRecord /\ call'.kind = "mmap"
        BY <2>2, <3>1 DEF MmapFails
      <3>3. left' \in Int
        BY <3>1 DEF MmapFails
      <3> QED BY <1>1, <1>9, <3>2, <3>3 DEF MapMmapPage, OwnTypes, loadVars
    <2> QED BY <2>3, <2>4
  <1>10. CASE (\E name \in Name : CallExec(name)) \/ CallExit
    BY <1>10 DEF CallExec, CallExit, ExecCall, ExitCall, OwnTypes, asVars
  <1>11. ASSUME NEW args \in MmapCall, CallMmap(args) PROVE OwnTypes'
    BY <1>11, CallMmapTypes DEF Sound
  <1>12. CASE UsermodeEntry
    <2>1. target \in DOMAIN Module
      BY <1>12 DEF UsermodeEntry, Sound, Shape
    <2> QED BY <1>12, <2>1 DEF UsermodeEntry, OwnTypes, asVars
  <1>13. CASE PageFault \/ Halted \/ UNCHANGED vars
    BY <1>13 DEF PageFault, Halted, OwnTypes, vars, asVars, loadVars
  <1> QED
    BY <1>2, <1>3, <1>4, <1>5, <1>6, <1>7, <1>8, <1>9, <1>10, <1>11, <1>12,
       <1>13
    DEF Next, KernelStep, Load, UserStep

LEMMA SpecTyped == Spec => [](Sound /\ OwnTypes)
  <1>1. Init => OwnTypes
    <2> SUFFICES ASSUME Init PROVE OwnTypes
      OBVIOUS
    <2>1. AS!TypeOK
      BY InitSound, SoundTypes
    <2>2. \A t \in tlb : t[1] \in AS!Path /\ t[2] \in AS!PtEntry
      BY <2>1 DEF Init, Leaves, AS!TypeOK
    <2> QED BY <2>2, PageNumbers DEF Init, OwnTypes, NoCall
  <1>2. Sound /\ Sound' /\ OwnTypes /\ [Next]_vars => OwnTypes'
    BY NextTypes
  <1> QED BY <1>1, <1>2, SpecSound, PTL DEF Spec

(* The kernel's variables keep their types, its counters theirs, whatever  *)
(* lengths and addresses it is given.                                      *)
THEOREM TypeCorrect == Spec => []TypeOK
  <1>1. Sound /\ OwnTypes => TypeOK
    BY SoundTypes DEF TypeOK, Sound, Shape, OwnTypes
  <1> QED BY <1>1, SpecTyped, PTL

-----------------------------------------------------------------------------
(* Between one exec and the next a program's pages stay its own, whatever  *)
(* it maps, or fails to map, and whatever it fails to exec (page.c:308,    *)
(* syscall_def.c:77-120).                                                  *)
THEOREM PagesAreKept == Spec => ProgramKeepsItsPages
  <1> DEFINE Keeps ==
               (pc \in {"user", "mmap", "find"} /\ phase' = "ready") =>
                 \A p \in Pages : p \in DOMAIN pte' /\ pte'[p] = pte[p]
  <1>1. ASSUME Sound, Next PROVE Keeps
    <2>1. SUFFICES ASSUME pc \in {"user", "mmap", "find"}, phase' = "ready",
                          NEW p \in DOMAIN pte
                   PROVE  p \in DOMAIN pte' /\ pte'[p] = pte[p]
      BY DEF Pages
    <2>2. CASE NotFound \/ UserStep \/ Halted
      BY <2>2 DEF NotFound, UserStep, CallExec, CallExit, CallMmap, PageFault, Halted,
                  vars, asVars
    <2>3. CASE Found
      BY <2>1, <2>3 DEF Found, AS!StartUnmap
    <2>4. CASE MapMmapPage
      BY <1>1, <2>4, MmapMapArgs, MapKeepsEntries DEF Sound, KeepsEntries
    <2>5. CASE VmMapStrays
      BY <2>1, <2>5 DEF VmMapStrays, AS!VmMapStrays
    <2> QED
      BY <1>1, <2>1, <2>2, <2>3, <2>4, <2>5
      DEF Next, KernelStep, Load, Boot, UnmapLowerHalf, CheckType, NotExecutable,
          SkipSegment, SkipNullSegment, StartSegment, InSegmentLoop, MapSegmentPage,
          ProtectSegment, SegmentsDone, MapStackPage, UsermodeEntry
  <1>2. Sound /\ [Next]_vars => [Keeps]_vars
    BY <1>1
  <1> QED BY <1>2, SpecSound, PTL DEF Spec, ProgramKeepsItsPages

-----------------------------------------------------------------------------
(* Cached translations.                                                    *)
LEMMA LeavesMean ==
  ASSUME NEW t \in Leaves(pte')
  PROVE  t[1] \in DOMAIN pte' /\ t[2] = pte'[t[1]]
  BY DEF Leaves

(* A table walk during a map only adds what the tables hold.               *)
LEMMA CacheAfterMap ==
  ASSUME StaleTranslationsGrantNothing, KeepsEntries, Cache
  PROVE  StaleTranslationsGrantNothing'
  BY LeavesMean DEF StaleTranslationsGrantNothing, KeepsEntries, Cache

(* vm_protect leaves behind translations that are for the kernel only.     *)
LEMMA CacheAfterProtect ==
  ASSUME Sound, StaleTranslationsGrantNothing, ProtectSegment
  PROVE  StaleTranslationsGrantNothing'
  <1>1. /\ FirstPage \in ASP!Page /\ RequestedPerm \in Perm
        /\ AS!VmProtect(FirstPage, RequestedPerm) /\ Cache /\ pc = "protect"
    BY ProtectArgs DEF Sound, ProtectSegment, FirstPage
  <1>2. /\ phase = "ready" /\ DOMAIN pte' = DOMAIN pte
        /\ \A p \in DOMAIN pte : p # FirstPage => pte'[p] = pte[p]
        /\ pte'[FirstPage].frame = pte[FirstPage].frame
    BY <1>1, ProtectChangesOne DEF Sound
  <1>3. ~pte[FirstPage].user
    BY <1>1 DEF Sound, Loading, FirstIsLoading
  <1>4. ASSUME NEW t \in tlb
        PROVE  /\ t[1] \in DOMAIN pte' /\ pte'[t[1]].frame = t[2].frame
               /\ t[2].user => pte'[t[1]] = t[2]
    <2>1. /\ t[1] \in DOMAIN pte /\ pte[t[1]].frame = t[2].frame
          /\ t[2].user => pte[t[1]] = t[2]
      BY <1>2 DEF StaleTranslationsGrantNothing
    <2> QED BY <1>2, <1>3, <2>1
  <1>5. tlb' = tlb \union Leaves(pte')
    BY <1>1 DEF Cache
  <1> QED BY <1>4, <1>5, LeavesMean DEF StaleTranslationsGrantNothing

(* The teardown's last step empties the cache.                             *)
LEMMA CacheAfterFlush ==
  ASSUME CacheUntilFlush
  PROVE  StaleTranslationsGrantNothing'
  BY LeavesMean DEF CacheUntilFlush, StaleTranslationsGrantNothing

LEMMA NextStale ==
  ASSUME Sound, StaleTranslationsGrantNothing, [Next]_vars
  PROVE  StaleTranslationsGrantNothing'
  <1>1. CASE Boot \/ UnmapLowerHalf
    BY <1>1, CacheAfterFlush DEF Boot, UnmapLowerHalf
  <1>2. CASE Found
    BY <1>2 DEF Found, AS!StartUnmap, StaleTranslationsGrantNothing
  <1>3. CASE MapSegmentPage
    BY <1>3, SegmentMapArgs, MapKeepsEntries, CacheAfterMap DEF Sound, MapSegmentPage
  <1>4. CASE ProtectSegment
    BY <1>4, CacheAfterProtect
  <1>5. CASE MapStackPage
    BY <1>5, StackMapArgs, MapKeepsEntries, CacheAfterMap DEF Sound, MapStackPage
  <1>6. CASE MapMmapPage
    BY <1>6, MmapMapArgs, MapKeepsEntries, CacheAfterMap DEF Sound, MapMmapPage
  <1>7. CASE \/ NotFound \/ NotExecutable \/ CheckType \/ SkipSegment \/ SkipNullSegment
             \/ StartSegment \/ SegmentsDone \/ UsermodeEntry
    BY <1>7 DEF NotFound, NotExecutable, CheckType, SkipSegment, SkipNullSegment,
                StartSegment, SegmentsDone, UsermodeEntry, asVars,
                StaleTranslationsGrantNothing
  <1>8. CASE UserStep
    BY <1>8 DEF UserStep, CallExec, CallExit, CallMmap, PageFault, asVars,
                StaleTranslationsGrantNothing
  <1>9. CASE VmMapStrays
    BY <1>9 DEF VmMapStrays, AS!VmMapStrays, StaleTranslationsGrantNothing
  <1>10. CASE Halted \/ UNCHANGED vars
    BY <1>10 DEF Halted, vars, asVars, StaleTranslationsGrantNothing
  <1> QED
    BY <1>1, <1>2, <1>3, <1>4, <1>5, <1>6, <1>7, <1>8, <1>9, <1>10
    DEF Next, KernelStep, Load

Cached == Sound /\ StaleTranslationsGrantNothing

LEMMA SpecCached == Spec => []Cached
  <1>1. Init => StaleTranslationsGrantNothing
    BY DEF Init, AS!Init, StaleTranslationsGrantNothing
  <1>2. Cached /\ [Next]_vars => Cached'
    BY NextSound, NextStale DEF Cached
  <1> QED BY <1>1, <1>2, InitSound, PTL DEF Spec, Cached

(* Although vm_map, vm_unmap and vm_protect invalidate the wrong address,  *)
(* no translation that the processor may still have leads a program to a   *)
(* page that is not its own, nor lets it do what the tables forbid         *)
(* (page.c:119-120, 352, 396).                                             *)
THEOREM StaleTranslationsAreHarmless ==
  Spec => []StaleTranslationsGrantNothing
  BY SpecCached, PTL DEF Cached

-----------------------------------------------------------------------------
(***************************************************************************)
(* What run_exec_elf promises the programs it enters: the permissions of   *)
(* the pages that segments start at, and an address space with nothing in  *)
(* it but the image and the stack.                                         *)
(***************************************************************************)
(* The segments of a file.  A loadable header with p_vaddr 0 holds         *)
(* elf_phdr up, and the headers after it are never reached (loader.c:55).  *)
IsLoadable(s) == s.load /\ s.vaddr # 0

IsNull(s) == s.load /\ s.vaddr = 0

NullSegmentsComeLast ==
  \A name \in DOMAIN Module : \A i, j \in 1..Len(Segments(name)) :
    i < j /\ IsNull(Segments(name)[i]) => ~IsLoadable(Segments(name)[j])

(* What a segment has asked of the page that it starts at.                 *)
Requested(s) ==
  LET first == PathOf(s.vaddr \div PageSize)
  IN  /\ first \in DOMAIN pte
      /\ pte[first].user
      /\ pte[first].writable = s.writable
      /\ pte[first].noExecute = ~s.executable

Headers == 1..Len(Segments(target))

InLoop == pc \in {"segments", "map_segment", "protect"}

(* While the segments are loaded: those passed are as requested, and       *)
(* elf_phdr keeps up with the loop until it meets a null one.              *)
PassedRequested ==
  \A i \in Headers : i < phdr /\ IsLoadable(Segments(target)[i]) =>
    Requested(Segments(target)[i])

Keeping == phdr = loops + 1 \/ IsNull(Segment)

Entered ==
  /\ pc \notin {"user", "mmap", "find", "halted", "stray"} => image = NoProgram
  /\ image # NoProgram =>
       image \in DOMAIN Module /\ \A s \in Loadable(image) : Requested(s)
  /\ InLoop => PassedRequested /\ Keeping
  /\ pc \in {"map_segment", "protect"} => IsLoadable(Segment)
  /\ pc = "stack" => \A s \in Loadable(target) : Requested(s)

(* A page that is as requested stays so when other pages are mapped, and   *)
(* when a page that is still the kernel's alone is handed to the program.  *)
LEMMA KeepsRequested ==
  ASSUME KeepsEntries, NEW s, Requested(s)
  PROVE  Requested(s)'
  BY DEF KeepsEntries, Requested, PathOf

LEMMA SameRequested ==
  ASSUME pte' = pte, NEW s, Requested(s)
  PROVE  Requested(s)'
  BY DEF Requested, PathOf

LEMMA HeaderFacts ==
  ASSUME Shape, target \in DOMAIN Module
  PROVE  /\ Len(Segments(target)) \in Nat
         /\ \A s : s \in Loadable(target) <=>
              \E i \in Headers : s = Segments(target)[i] /\ IsLoadable(s)
  <1>1. Len(Segments(target)) \in Nat
    BY ImageFacts
  <1>2. DOMAIN Segments(target) = Headers
    BY ImageAssumption DEF Headers
  <1> QED BY <1>1, <1>2 DEF Loadable, Range, IsLoadable

(* ProtectSegment gives its page what its segment asks for.                *)
LEMMA ProtectRequested ==
  ASSUME Sound, ProtectSegment
  PROVE  \A s : s = Segment \/ Requested(s) => Requested(s)'
  <1>1. /\ FirstPage \in ASP!Page /\ RequestedPerm \in Perm
        /\ AS!VmProtect(FirstPage, RequestedPerm) /\ FirstIsLoading
    BY ProtectArgs DEF Sound, ProtectSegment, FirstPage, Loading
  <1>2. /\ DOMAIN pte' = DOMAIN pte /\ FirstPage \in DOMAIN pte
        /\ \A p \in DOMAIN pte : p # FirstPage => pte'[p] = pte[p]
        /\ pte'[FirstPage].user = RequestedPerm.user
        /\ pte'[FirstPage].writable = RequestedPerm.writable
        /\ pte'[FirstPage].noExecute = RequestedPerm.executable
    BY <1>1, ProtectChangesOne DEF Sound
  <1>3. ASSUME NEW s, Requested(s) PROVE Requested(s)'
    BY <1>1, <1>2, <1>3 DEF Requested, FirstIsLoading, PathOf
  <1>4. ASSUME NEW s, s = Segment PROVE Requested(s)'
    BY <1>2, <1>4 DEF Requested, RequestedPerm, FirstPage, PathOf
  <1> QED BY <1>3, <1>4

LEMMA SameEntered ==
  ASSUME Entered, pte' = pte, UNCHANGED <<pc, image, target, phdr, loops>>
  PROVE  Entered'
  BY SameRequested
  DEF Entered, InLoop, PassedRequested, Keeping, Headers, Segment, Segments, Loadable,
      ImagePages

(* Steps outside the loader leave the program's pages as they are.         *)
LEMMA KeptProgram ==
  ASSUME Entered, KeepsEntries \/ pte' = pte, image' = image,
         pc' \in {"user", "mmap", "find", "halted", "stray"}
  PROVE  Entered'
  <1>1. \A s : Requested(s) => Requested(s)'
    BY KeepsRequested, SameRequested
  <1> QED BY <1>1 DEF Entered, InLoop, Loadable, Segments

(* Steps of the loader before and after the segment loop.                  *)
LEMMA NoProgramEntered ==
  ASSUME image' = NoProgram, pc' \in {"boot", "find", "unmap", "check", "user", "halted"}
  PROVE  Entered'
  BY DEF Entered, InLoop

LEMMA LoopEntered ==
  ASSUME Sound, Entered, NullSegmentsComeLast,
         CheckType \/ SkipSegment \/ SkipNullSegment \/ StartSegment
  PROVE  Entered'
  <1>1. /\ target \in DOMAIN Module /\ pte' = pte /\ image' = image /\ image = NoProgram
        /\ target' = target
    BY DEF CheckType, SkipSegment, SkipNullSegment, StartSegment, InSegmentLoop,
           Sound, Shape, Entered, asVars, loadVars
  <1>2. /\ Len(Segments(target)) \in Nat /\ phdr \in Nat /\ loops \in Nat
        /\ 1 <= phdr /\ phdr <= loops + 1
    BY <1>1, HeaderFacts DEF Sound, Shape
  <1>3. Headers' = Headers /\ Segments(target') = Segments(target)
    BY <1>1 DEF Headers, Segments
  <1>4. \A s : Requested(s) => Requested(s)'
    BY <1>1, SameRequested
  <1>5. CASE CheckType
    <2>1. phdr' = 1 /\ loops' = 0 /\ pc' = "segments"
      BY <1>5 DEF CheckType, Sound, Shape, loadVars
    <2>2. PassedRequested' /\ Keeping'
      BY <2>1, <1>3 DEF PassedRequested, Keeping, Headers
    <2> QED BY <1>1, <2>1, <2>2 DEF Entered, InLoop
  <1>6. CASE SkipSegment
    <2>1. /\ phdr' = phdr + 1 /\ loops' = loops + 1 /\ pc' = "segments"
          /\ ~Segment.load /\ PassedRequested /\ Keeping
      BY <1>6 DEF SkipSegment, InSegmentLoop, Entered, InLoop
    <2>2. Keeping'
      BY <2>1, <1>2 DEF Keeping, IsNull
    <2>3. PassedRequested'
      BY <2>1, <1>1, <1>2, <1>3, <1>4
      DEF PassedRequested, Segment, Segments, IsLoadable, Headers
    <2> QED BY <1>1, <2>1, <2>2, <2>3 DEF Entered, InLoop
  <1>7. CASE SkipNullSegment
    <2>1. phdr' = phdr /\ pc' = "segments" /\ IsNull(Segment) /\ PassedRequested
      BY <1>7 DEF SkipNullSegment, InSegmentLoop, Entered, InLoop, IsNull
    <2>2. PassedRequested' /\ Keeping'
      BY <2>1, <1>1, <1>3, <1>4
      DEF PassedRequested, Keeping, Segment, Segments, IsLoadable, IsNull, Headers
    <2> QED BY <1>1, <2>1, <2>2 DEF Entered, InLoop
  <1>8. CASE StartSegment
    <2>1. /\ phdr' = phdr /\ loops' = loops /\ pc' = "map_segment"
          /\ IsLoadable(Segment) /\ PassedRequested /\ Keeping
      BY <1>8 DEF StartSegment, InSegmentLoop, Entered, InLoop, IsLoadable, loadVars
    <2>2. PassedRequested' /\ Keeping' /\ IsLoadable(Segment)'
      BY <2>1, <1>1, <1>3, <1>4
      DEF PassedRequested, Keeping, Segment, Segments, IsLoadable, IsNull, Headers
    <2> QED BY <1>1, <2>1, <2>2 DEF Entered, InLoop
  <1> QED BY <1>5, <1>6, <1>7, <1>8

LEMMA MapSegmentEntered ==
  ASSUME Sound, Entered, MapSegmentPage
  PROVE  Entered'
  <1>1. KeepsEntries /\ image' = image /\ target' = target /\ image = NoProgram
    <2>1. KeepsEntries
      BY SegmentMapArgs, MapKeepsEntries DEF Sound
    <2>2. image' = image /\ target' = target /\ image = NoProgram
      BY DEF MapSegmentPage, LoadFails, Entered, loadVars
    <2> QED BY <2>1, <2>2
  <1>2. CASE AS!VmMapReturns(PathOf(page))
    <2>1. /\ phdr' = phdr /\ loops' = loops /\ pc' \in {"map_segment", "protect"}
          /\ IsLoadable(Segment) /\ PassedRequested /\ Keeping
      BY <1>2 DEF MapSegmentPage, Entered, InLoop, loadVars
    <2>2. PassedRequested' /\ Keeping' /\ IsLoadable(Segment)'
      BY <2>1, <1>1, KeepsRequested
      DEF PassedRequested, Keeping, Segment, Segments, IsLoadable, IsNull, Headers
    <2> QED BY <1>1, <2>1, <2>2 DEF Entered, InLoop
  <1>3. CASE ~AS!VmMapReturns(PathOf(page))
    <2>1. pc' \in {"halted", "user"}
      BY <1>3 DEF MapSegmentPage, LoadFails
    <2> QED BY <1>1, <2>1, NoProgramEntered
  <1> QED BY <1>2, <1>3

LEMMA ProtectEntered ==
  ASSUME Sound, Entered, ProtectSegment
  PROVE  Entered'
  <1>1. /\ target' = target /\ image' = image /\ image = NoProgram /\ pc' = "segments"
        /\ phdr' = phdr + 1 /\ loops' = loops + 1
        /\ IsLoadable(Segment) /\ PassedRequested /\ Keeping
        /\ phdr \in Nat /\ loops \in Nat /\ target \in DOMAIN Module
    BY DEF ProtectSegment, Entered, InLoop, Sound, Shape
  <1>2. Keeping'
    BY <1>1 DEF Keeping, IsNull, IsLoadable
  <1>3. Headers' = Headers /\ Segments(target') = Segments(target)
    BY <1>1 DEF Headers, Segments
  <1>4. ASSUME NEW i \in Headers, i < phdr + 1, NEW s, s = Segments(target)[i],
               IsLoadable(s)
        PROVE  Requested(s)'
    <2>1. i = phdr \/ i < phdr
      BY <1>1, <1>4, HeaderFacts DEF Headers, Sound
    <2>2. Requested(s) \/ s = Segment
      BY <2>1, <1>1, <1>4 DEF PassedRequested, Segment
    <2> QED BY <2>2, ProtectRequested
  <1>5. PassedRequested'
    BY <1>1, <1>3, <1>4 DEF PassedRequested, IsLoadable
  <1> QED BY <1>1, <1>2, <1>5 DEF Entered, InLoop

(* At the loop's end no loadable header has been missed.                   *)
LEMMA SegmentsDoneEntered ==
  ASSUME Sound, Entered, NullSegmentsComeLast, SegmentsDone
  PROVE  Entered'
  <1>1. /\ target' = target /\ image' = image /\ image = NoProgram /\ pc' = "stack"
        /\ pte' = pte /\ PassedRequested /\ Keeping /\ loops = Len(Segments(target))
        /\ phdr \in Nat /\ loops \in Nat /\ 1 <= phdr /\ phdr <= loops + 1
        /\ target \in DOMAIN Module
    BY DEF SegmentsDone, Entered, InLoop, Sound, Shape, asVars, loadVars
  <1>2. ASSUME NEW s \in Loadable(target) PROVE Requested(s)
    <2>1. PICK i \in Headers : s = Segments(target)[i] /\ IsLoadable(s)
      BY <1>1, HeaderFacts DEF Sound
    <2>2. CASE i < phdr
      BY <1>1, <2>1, <2>2 DEF PassedRequested
    <2>3. CASE i >= phdr
      <3>1. i \in Nat /\ i <= loops /\ phdr \in Headers
        BY <1>1, <2>1, <2>3 DEF Headers
      <3>2. IsNull(Segment)
        BY <1>1, <2>3, <3>1 DEF Keeping
      <3>3. phdr < i
        BY <1>1, <2>1, <2>3, <3>1, <3>2 DEF Segment, IsNull, IsLoadable
      <3> QED BY <1>1, <2>1, <3>1, <3>2, <3>3 DEF NullSegmentsComeLast, Segment, Headers
    <2> QED BY <1>1, <2>1, <2>2, <2>3 DEF Headers
  <1>3. \A s \in Loadable(target) : Requested(s)'
    BY <1>1, <1>2, SameRequested
  <1>4. Loadable(target)' = Loadable(target)
    BY <1>1 DEF Loadable, Segments
  <1> QED BY <1>1, <1>3, <1>4 DEF Entered, InLoop

LEMMA StackEntered ==
  ASSUME Sound, Entered, MapStackPage \/ UsermodeEntry
  PROVE  Entered'
  <1>1. /\ target' = target /\ image = NoProgram /\ target \in DOMAIN Module
        /\ \A s \in Loadable(target) : Requested(s)
    BY DEF MapStackPage, UsermodeEntry, Entered, Sound, Shape, loadVars
  <1>2. Loadable(target)' = Loadable(target)
    BY <1>1 DEF Loadable, Segments
  <1>3. CASE MapStackPage
    <2>1. KeepsEntries
      BY <1>3, StackMapArgs, MapKeepsEntries DEF Sound
    <2>2. image' = image /\ pc' = "stack"
      BY <1>3 DEF MapStackPage
    <2> QED BY <1>1, <1>2, <2>1, <2>2, KeepsRequested DEF Entered, InLoop
  <1>4. CASE UsermodeEntry
    <2>1. image' = target /\ pc' = "user" /\ pte' = pte
      BY <1>4 DEF UsermodeEntry, asVars
    <2>2. Loadable(image)' = Loadable(target)
      BY <2>1 DEF Loadable, Segments
    <2>3. \A s \in Loadable(target) : Requested(s)'
      BY <1>1, <2>1, SameRequested
    <2> QED BY <1>1, <2>1, <2>2, <2>3 DEF Entered, InLoop
  <1> QED BY <1>3, <1>4

LEMMA NextEntered ==
  ASSUME Sound, Entered, NullSegmentsComeLast, [Next]_vars
  PROVE  Entered'
  <1>1. CASE Boot
    BY <1>1, NoProgramEntered DEF Boot, Entered
  <1>2. CASE NotFound
    BY <1>2, KeptProgram DEF NotFound, LoadFails, asVars
  <1>3. CASE Found
    BY <1>3, NoProgramEntered DEF Found
  <1>4. CASE UnmapLowerHalf \/ NotExecutable
    BY <1>4, NoProgramEntered DEF UnmapLowerHalf, NotExecutable, LoadFails, Entered
  <1>5. CASE CheckType \/ SkipSegment \/ SkipNullSegment \/ StartSegment
    BY <1>5, LoopEntered
  <1>6. CASE MapSegmentPage
    BY <1>6, MapSegmentEntered
  <1>7. CASE ProtectSegment
    BY <1>7, ProtectEntered
  <1>8. CASE SegmentsDone
    BY <1>8, SegmentsDoneEntered
  <1>9. CASE MapStackPage \/ UsermodeEntry
    BY <1>9, StackEntered
  <1>10. CASE MapMmapPage
    <2>1. KeepsEntries
      BY <1>10, MmapMapArgs, MapKeepsEntries DEF Sound
    <2>2. image' = image /\ pc' \in {"mmap", "user"}
      BY <1>10 DEF MapMmapPage, MmapFails
    <2> QED BY <2>1, <2>2, KeptProgram
  <1>11. CASE UserStep \/ VmMapStrays
    <2>1. /\ pte' = pte /\ image' = image
          /\ pc' \in {"user", "mmap", "find", "halted", "stray"}
      BY <1>11 DEF UserStep, CallExec, CallExit, CallMmap, Running, PageFault,
                   VmMapStrays, AS!VmMapStrays, asVars
    <2> QED BY <2>1, KeptProgram
  <1>12. CASE Halted \/ UNCHANGED vars
    BY <1>12, SameEntered DEF Halted, vars, asVars, loadVars
  <1> QED
    BY <1>1, <1>2, <1>3, <1>4, <1>5, <1>6, <1>7, <1>8, <1>9, <1>10, <1>11, <1>12
    DEF Next, KernelStep, Load

LEMMA SpecEntered ==
  ASSUME NullSegmentsComeLast
  PROVE  Spec => []Entered
  <1>1. Init => Entered
    BY DEF Init, Entered, InLoop
  <1>2. Cached /\ Entered /\ [Next]_vars => Entered'
    BY NextEntered DEF Cached
  <1> QED BY <1>1, <1>2, SpecCached, PTL DEF Spec

(* The page at which each segment starts has, from the entry of the        *)
(* program until the next exec finds its file, exactly the permissions     *)
(* that the file requests for it; this is for files none of whose null     *)
(* headers stands before a segment, the others load without that segment   *)
(* (loader.c:53-83).                                                       *)
THEOREM RequestsAreKept ==
  ASSUME NullSegmentsComeLast
  PROVE  Spec => []FirstPagesAsRequested
  <1>1. Entered => FirstPagesAsRequested
    BY DEF Entered, FirstPagesAsRequested, Requested, IsMapped, Leaf
  <1> QED BY <1>1, SpecEntered, PTL

-----------------------------------------------------------------------------
(* Pages and their sizes.                                                  *)
LEMMA Division ==
  /\ \A a \in Nat : /\ a = ((a \div PageSize) * PageSize) + (a % PageSize)
                    /\ a % PageSize \in 0..(PageSize - 1)
                    /\ a \div PageSize \in Nat
  /\ \A n \in Nat : n * PageSize \in Nat /\ (n * PageSize) \div PageSize = n
  /\ \A n \in Nat : (n + 1) * PageSize = n * PageSize + PageSize
  BY ImageAssumption

LEMMA Multiples == \A m, n \in Nat : m <= n => m * PageSize <= n * PageSize
  BY ImageAssumption

LEMMA DivisionIsMonotone ==
  \A a, b \in Nat : a <= b => a \div PageSize <= b \div PageSize
  BY ImageAssumption

LEMMA BelowPage == \A a, n \in Nat : a < n * PageSize => a \div PageSize < n
  <1> SUFFICES ASSUME NEW a \in Nat, NEW n \in Nat, a < n * PageSize,
                      n <= a \div PageSize
               PROVE  FALSE
    BY Division
  <1>1. n * PageSize <= (a \div PageSize) * PageSize
    BY Multiples, Division
  <1> QED BY <1>1, Division

(* The loop over a segment's pages meets pages of the segment only, and,   *)
(* when size_left runs out, has met them all.                              *)
FirstOf(s) == s.vaddr \div PageSize

LEMMA InItsPage ==
  \A a \in Nat : /\ (a \div PageSize) * PageSize <= a
                 /\ a < ((a \div PageSize) + 1) * PageSize
  <1> TAKE a \in Nat
  <1> DEFINE q == a \div PageSize
  <1>1. /\ q \in Nat /\ a = (q * PageSize) + (a % PageSize)
        /\ a % PageSize \in 0..(PageSize - 1)
    BY Division
  <1>2. PageSize \in Nat /\ q * PageSize \in Nat
    BY <1>1, Division, ImageAssumption
  <1>3. (q + 1) * PageSize = q * PageSize + PageSize
    BY <1>1, Division
  <1> HIDE DEF q
  <1>4. q * PageSize <= a /\ a < (q + 1) * PageSize
    BY <1>1, <1>2, <1>3
  <1> QED BY <1>4 DEF q

LEMMA FirstFacts ==
  ASSUME NEW s, s.vaddr \in Nat
  PROVE  /\ FirstOf(s) \in Nat /\ FirstOf(s) * PageSize <= s.vaddr
         /\ s.vaddr < (FirstOf(s) + 1) * PageSize
  BY Division, InItsPage DEF FirstOf

LEMMA PageInSegment ==
  ASSUME NEW s, s.vaddr \in Nat, s.memsz \in Nat, NEW n \in Nat, FirstOf(s) <= n,
         n = FirstOf(s) \/ s.vaddr + s.memsz - n * PageSize > 0
  PROVE  n \in SegmentPages(s)
  <1>1. CASE n = FirstOf(s)
    BY <1>1 DEF SegmentPages, FirstOf
  <1>2. CASE n # FirstOf(s)
    <2> DEFINE a == n * PageSize
    <2>1. a \in Nat /\ a \div PageSize = n
      BY Division
    <2>2. FirstOf(s) \in Nat /\ FirstOf(s) + 1 <= n
      BY <1>2, FirstFacts
    <2>3. (FirstOf(s) + 1) * PageSize <= a
      BY <2>2, Multiples
    <2>4. s.vaddr < (FirstOf(s) + 1) * PageSize
      BY FirstFacts
    <2>5. a < s.vaddr + s.memsz
      BY <1>2, <2>1
    <2> HIDE DEF a
    <2>6. a \in s.vaddr..(s.vaddr + s.memsz - 1)
      <3>1. (FirstOf(s) + 1) * PageSize \in Nat
        BY <2>2, Division
      <3> QED BY <2>1, <2>3, <2>4, <2>5, <3>1
    <2> QED BY <2>1, <2>6 DEF SegmentPages
  <1> QED BY <1>1, <1>2

LEMMA SegmentCovered ==
  ASSUME NEW s, s.vaddr \in Nat, s.memsz \in Nat, NEW n \in Nat, FirstOf(s) < n,
         s.vaddr + s.memsz - n * PageSize <= 0
  PROVE  SegmentPages(s) \subseteq FirstOf(s)..(n - 1)
  <1> SUFFICES ASSUME NEW a \in {s.vaddr} \union s.vaddr..(s.vaddr + s.memsz - 1)
               PROVE  a \div PageSize \in FirstOf(s)..(n - 1)
    BY DEF SegmentPages
  <1>1. a \in Nat /\ s.vaddr <= a
    OBVIOUS
  <1>2. FirstOf(s) \in Nat /\ a \div PageSize \in Nat /\ n * PageSize \in Nat
    BY <1>1, Division DEF FirstOf
  <1>3. FirstOf(s) <= a \div PageSize
    BY <1>1, DivisionIsMonotone DEF FirstOf
  <1>4. a \div PageSize < n
    <2>1. CASE a = s.vaddr
      BY <2>1 DEF FirstOf
    <2>2. CASE a # s.vaddr
      BY <1>1, <1>2, <2>2, BelowPage
    <2> QED BY <2>1, <2>2
  <1> QED BY <1>2, <1>3, <1>4

-----------------------------------------------------------------------------
(* The pages of the user half while a program is loaded: none but those    *)
(* that its segments and its stack ask for, and in the end all those that  *)
(* its segments ask for.                                                   *)
PagesOf(s) == {PathOf(n) : n \in SegmentPages(s)}

Wanted == {PathOf(n) : n \in ImagePages(target)}

StackPaths == {PathOf(n) : n \in Stack}

PassedMapped ==
  \A i \in Headers : i < phdr /\ IsLoadable(Segments(target)[i]) =>
    PagesOf(Segments(target)[i]) \subseteq Pages

MappedSoFar ==
  /\ FirstOf(Segment) <= page
  /\ \A n \in FirstOf(Segment)..(page - 1) : PathOf(n) \in Pages
  /\ left = Segment.vaddr + Segment.memsz - page * PageSize
  /\ page = FirstOf(Segment) \/ left > 0

Fresh ==
  /\ pc = "check" => LowerPages = {}
  /\ InLoop => LowerPages \subseteq Wanted /\ PassedMapped
  /\ pc = "map_segment" => MappedSoFar
  /\ pc = "protect" => PagesOf(Segment) \subseteq Pages
  /\ pc = "stack" => Wanted \subseteq Pages /\ LowerPages \subseteq Wanted \union StackPaths

LEMMA MapPages ==
  ASSUME Paging, NEW va \in ASP!Page, NEW perm \in Perm, AS!VmMap(va, perm)
  PROVE  /\ Pages \subseteq Pages'
         /\ LowerPages' \subseteq LowerPages \union {va}
         /\ AS!VmMapReturns(va) => va \in Pages'
  <1>1. Len(va) = 4
    BY PagingFacts, ASP!PageIsPath
  <1> QED BY <1>1, MapKeepsEntries, MapAddsOne DEF KeepsEntries, Pages, LowerPages

(* The segment being loaded is one of the file's.                          *)
LEMMA CurrentSegment ==
  ASSUME Sound, Entered, pc \in {"map_segment", "protect"}
  PROVE  /\ phdr \in Headers /\ target \in DOMAIN Module
         /\ Segment.vaddr \in Nat /\ Segment.memsz \in Nat
         /\ PagesOf(Segment) \subseteq Wanted
  <1>1. /\ target \in DOMAIN Module /\ loops < Len(Segments(target))
        /\ phdr \in Nat /\ loops \in Nat /\ 1 <= phdr /\ phdr <= loops + 1
        /\ IsLoadable(Segment)
    BY DEF Sound, Shape, Entered
  <1>2. phdr \in Headers
    BY <1>1, HeaderFacts DEF Headers, Sound
  <1>3. Segment.vaddr \in Nat /\ Segment.memsz \in Nat
    BY <1>1, <1>2, ImageFacts DEF Headers, Segment
  <1>4. Segment \in Loadable(target)
    BY <1>1, <1>2, HeaderFacts DEF Segment, Sound
  <1>5. SegmentPages(Segment) \subseteq ImagePages(target)
    BY <1>4 DEF ImagePages
  <1> QED BY <1>1, <1>2, <1>3, <1>5 DEF PagesOf, Wanted

(* The file stays the same while it is loaded.                             *)
LEMMA SameFile ==
  ASSUME target' = target
  PROVE  /\ Segments(target') = Segments(target) /\ Headers' = Headers
         /\ Wanted' = Wanted /\ StackPaths' = StackPaths
         /\ phdr' = phdr => Segment' = Segment
         /\ \A s : PagesOf(s)' = PagesOf(s)
  BY DEF Segments, Headers, Wanted, StackPaths, Segment, PagesOf, PathOf, ImagePages,
         Loadable, SegmentPages, Stack

LEMMA StartSegmentFresh ==
  ASSUME Sound, Fresh, StartSegment
  PROVE  Fresh'
  <1>1. /\ pc' = "map_segment" /\ pte' = pte /\ target' = target /\ phdr' = phdr
        /\ page' = FirstOf(Segment)
        /\ left' = Segment.memsz + (Segment.vaddr % PageSize)
        /\ LowerPages \subseteq Wanted /\ PassedMapped
    BY DEF StartSegment, InSegmentLoop, FirstOf, Fresh, InLoop, asVars, loadVars
  <1>2. Pages' = Pages /\ LowerPages' = LowerPages
    BY <1>1 DEF Pages, LowerPages, AS!Lower
  <1>3. Segment' = Segment /\ Wanted' = Wanted /\ PassedMapped'
    BY <1>1, <1>2, SameFile DEF PassedMapped
  <1>4. Segment.vaddr \in Nat /\ Segment.memsz \in Nat
    BY SegmentFacts DEF StartSegment, InSegmentLoop, Sound, Shape
  <1>5. left' = Segment.vaddr + Segment.memsz - FirstOf(Segment) * PageSize
    <2>1. \A v, m \in Nat :
            m + (v % PageSize) = v + m - (v \div PageSize) * PageSize
      <3> TAKE v, m \in Nat
      <3>1. /\ v = ((v \div PageSize) * PageSize) + (v % PageSize)
            /\ v % PageSize \in Nat /\ (v \div PageSize) * PageSize \in Nat
        BY Division, ImageAssumption
      <3> QED BY <3>1
    <2> QED BY <1>1, <1>4, <2>1 DEF FirstOf
  <1>6. FirstOf(Segment) \in Nat
    BY <1>4, FirstFacts
  <1>7. MappedSoFar'
    BY <1>1, <1>3, <1>5, <1>6 DEF MappedSoFar, FirstOf
  <1> QED BY <1>1, <1>2, <1>3, <1>7 DEF Fresh, InLoop

LEMMA MapSegmentFresh ==
  ASSUME Sound, Entered, Fresh, MapSegmentPage
  PROVE  Fresh'
  <1>1. CASE ~AS!VmMapReturns(PathOf(page))
    BY <1>1 DEF MapSegmentPage, LoadFails, Fresh, InLoop
  <1>2. CASE AS!VmMapReturns(PathOf(page))
    <2>1. /\ target' = target /\ phdr' = phdr /\ page' = page + 1 /\ left' = left - PageSize
          /\ pc' = IF left' > 0 THEN "map_segment" ELSE "protect"
          /\ pc = "map_segment"
          /\ LowerPages \subseteq Wanted /\ PassedMapped /\ MappedSoFar
      BY <1>2 DEF MapSegmentPage, Fresh, InLoop, loadVars
    <2> page \in Nat
      BY DEF Sound, Shape
    <2>2. /\ Pages \subseteq Pages' /\ PathOf(page) \in Pages'
          /\ LowerPages' \subseteq LowerPages \union {PathOf(page)}
      BY <1>2, SegmentMapArgs, MapPages DEF Sound
    <2>3. /\ Segment.vaddr \in Nat /\ Segment.memsz \in Nat
          /\ PagesOf(Segment) \subseteq Wanted
      BY <2>1, CurrentSegment
    <2>4. FirstOf(Segment) \in Nat /\ page * PageSize \in Nat /\ PageSize \in Nat
      BY <2>3, FirstFacts, Division, ImageAssumption
    <2>5. PathOf(page) \in PagesOf(Segment)
      BY <2>1, <2>3, PageInSegment DEF MappedSoFar, PagesOf
    <2>6. Segment' = Segment /\ Wanted' = Wanted /\ PagesOf(Segment)' = PagesOf(Segment)
      BY <2>1, SameFile
    <2>7. LowerPages' \subseteq Wanted'
      BY <2>1, <2>2, <2>3, <2>5, <2>6
    <2>8. PassedMapped'
      BY <2>1, <2>2, SameFile DEF PassedMapped
    <2>9. /\ FirstOf(Segment) < page'
          /\ \A n \in FirstOf(Segment)..(page' - 1) : PathOf(n) \in Pages'
      <3>1. \A n \in FirstOf(Segment)..page : n = page \/ n \in FirstOf(Segment)..(page - 1)
        BY <2>4
      <3> QED BY <2>1, <2>2, <2>4, <3>1 DEF MappedSoFar
    <2>10. left' = Segment.vaddr + Segment.memsz - page' * PageSize
      <3>1. page' * PageSize = page * PageSize + PageSize
        BY <2>1, Division
      <3> QED BY <2>1, <2>3, <2>4, <3>1 DEF MappedSoFar
    <2>11. CASE left' > 0
      <3>1. FirstOf(Segment) <= page'
        BY <2>1, <2>4, <2>9
      <3>2. FirstOf(Segment)' = FirstOf(Segment) /\ \A n : PathOf(n)' = PathOf(n)
        BY <2>6 DEF FirstOf, PathOf
      <3>3. MappedSoFar'
        BY <2>6, <2>9, <2>10, <2>11, <3>1, <3>2 DEF MappedSoFar
      <3> QED BY <2>1, <2>7, <2>8, <2>11, <3>3 DEF Fresh, InLoop
    <2>12. CASE ~(left' > 0)
      <3>1. SegmentPages(Segment) \subseteq FirstOf(Segment)..(page' - 1)
        <4>1. page' \in Nat /\ page' * PageSize \in Nat
          BY <2>1, Division
        <4>2. Segment.vaddr + Segment.memsz - page' * PageSize <= 0
          BY <2>3, <2>10, <2>12, <4>1
        <4> QED BY <2>3, <2>9, <4>1, <4>2, SegmentCovered
      <3>2. PagesOf(Segment) \subseteq Pages'
        BY <2>9, <3>1 DEF PagesOf
      <3> QED BY <2>1, <2>6, <2>7, <2>8, <2>12, <3>2 DEF Fresh, InLoop
    <2> QED BY <2>11, <2>12
  <1> QED BY <1>1, <1>2

LEMMA ProtectFresh ==
  ASSUME Sound, Entered, Fresh, ProtectSegment
  PROVE  Fresh'
  <1>1. /\ target' = target /\ phdr' = phdr + 1 /\ pc' = "segments"
        /\ phdr \in Nat /\ target \in DOMAIN Module
        /\ LowerPages \subseteq Wanted /\ PassedMapped /\ PagesOf(Segment) \subseteq Pages
    BY DEF ProtectSegment, Fresh, InLoop, Sound, Shape
  <1>2. DOMAIN pte' = DOMAIN pte
    BY ProtectArgs, ProtectChangesOne DEF Sound
  <1>3. Pages' = Pages /\ LowerPages' = LowerPages
    BY <1>2 DEF Pages, LowerPages, AS!Lower
  <1>4. ASSUME NEW i \in Headers, i < phdr + 1, IsLoadable(Segments(target)[i])
        PROVE  PagesOf(Segments(target)[i]) \subseteq Pages
    <2>1. i = phdr \/ i < phdr
      BY <1>1, <1>4, HeaderFacts DEF Headers, Sound
    <2> QED BY <1>1, <1>4, <2>1 DEF PassedMapped, Segment
  <1>5. PassedMapped' /\ Wanted' = Wanted
    BY <1>1, <1>3, <1>4, SameFile DEF PassedMapped
  <1> QED BY <1>1, <1>3, <1>5 DEF Fresh, InLoop

LEMMA LoopFresh ==
  ASSUME Sound, Fresh, CheckType \/ SkipSegment \/ SkipNullSegment
  PROVE  Fresh'
  <1>1. /\ target' = target /\ pte' = pte /\ pc' = "segments"
        /\ target \in DOMAIN Module /\ phdr \in Nat
    BY DEF CheckType, SkipSegment, SkipNullSegment, InSegmentLoop, Sound, Shape,
           asVars, loadVars
  <1>2. Pages' = Pages /\ LowerPages' = LowerPages /\ Wanted' = Wanted
    BY <1>1, SameFile DEF Pages, LowerPages, AS!Lower
  <1>3. CASE CheckType
    <2>1. phdr' = 1 /\ LowerPages = {}
      BY <1>3 DEF CheckType, Fresh, Sound, Shape, loadVars
    <2>2. PassedMapped'
      BY <2>1, <1>1, SameFile DEF PassedMapped, Headers
    <2> QED BY <1>1, <1>2, <2>1, <2>2 DEF Fresh, InLoop
  <1>4. CASE SkipSegment
    <2>1. phdr' = phdr + 1 /\ ~Segment.load /\ PassedMapped /\ LowerPages \subseteq Wanted
      BY <1>4 DEF SkipSegment, InSegmentLoop, Fresh, InLoop
    <2>2. ASSUME NEW i \in Headers, i < phdr + 1, IsLoadable(Segments(target)[i])
          PROVE  PagesOf(Segments(target)[i]) \subseteq Pages
      <3>1. i = phdr \/ i < phdr
        BY <1>1, <2>2, HeaderFacts DEF Headers, Sound
      <3> QED BY <2>1, <2>2, <3>1 DEF PassedMapped, Segment, IsLoadable
    <2>3. PassedMapped'
      BY <1>1, <1>2, <2>1, <2>2, SameFile DEF PassedMapped
    <2> QED BY <1>1, <1>2, <2>1, <2>3 DEF Fresh, InLoop
  <1>5. CASE SkipNullSegment
    <2>1. phdr' = phdr /\ PassedMapped /\ LowerPages \subseteq Wanted
      BY <1>5 DEF SkipNullSegment, InSegmentLoop, Fresh, InLoop
    <2>2. PassedMapped'
      BY <1>1, <1>2, <2>1, SameFile DEF PassedMapped
    <2> QED BY <1>1, <1>2, <2>1, <2>2 DEF Fresh, InLoop
  <1> QED BY <1>3, <1>4, <1>5

LEMMA SegmentsDoneFresh ==
  ASSUME Sound, Entered, Fresh, NullSegmentsComeLast, SegmentsDone
  PROVE  Fresh'
  <1>1. /\ target' = target /\ pte' = pte /\ pc' = "stack" /\ target \in DOMAIN Module
        /\ LowerPages \subseteq Wanted /\ PassedMapped /\ Keeping
        /\ loops = Len(Segments(target))
        /\ phdr \in Nat /\ loops \in Nat /\ 1 <= phdr /\ phdr <= loops + 1
    BY DEF SegmentsDone, Fresh, Entered, InLoop, Sound, Shape, asVars, loadVars
  <1>2. ASSUME NEW s \in Loadable(target) PROVE PagesOf(s) \subseteq Pages
    <2>1. PICK i \in Headers : s = Segments(target)[i] /\ IsLoadable(s)
      BY <1>1, HeaderFacts DEF Sound
    <2>2. CASE i < phdr
      BY <1>1, <2>1, <2>2 DEF PassedMapped
    <2>3. CASE i >= phdr
      <3>1. i \in Nat /\ i <= loops /\ phdr \in Headers
        BY <1>1, <2>1, <2>3 DEF Headers
      <3>2. IsNull(Segment)
        BY <1>1, <2>3, <3>1 DEF Keeping
      <3>3. phdr < i
        BY <1>1, <2>1, <2>3, <3>1, <3>2 DEF Segment, IsNull, IsLoadable
      <3> QED BY <1>1, <2>1, <3>1, <3>2, <3>3 DEF NullSegmentsComeLast, Segment, Headers
    <2> QED BY <1>1, <2>1, <2>2, <2>3 DEF Headers
  <1>3. Wanted \subseteq Pages
    BY <1>2 DEF Wanted, ImagePages, PagesOf
  <1>4. Pages' = Pages /\ LowerPages' = LowerPages /\ Wanted' = Wanted
    BY <1>1, SameFile DEF Pages, LowerPages, AS!Lower
  <1> QED BY <1>1, <1>3, <1>4 DEF Fresh, InLoop

LEMMA StackFresh ==
  ASSUME Sound, Fresh, MapStackPage
  PROVE  Fresh'
  <1>1. /\ target' = target /\ pc' = "stack" /\ page \in Stack
        /\ Wanted \subseteq Pages /\ LowerPages \subseteq Wanted \union StackPaths
    BY DEF MapStackPage, Fresh, loadVars
  <1>2. Pages \subseteq Pages' /\ LowerPages' \subseteq LowerPages \union {PathOf(page)}
    BY StackMapArgs, MapPages DEF Sound
  <1>3. PathOf(page) \in StackPaths
    BY <1>1 DEF StackPaths
  <1> QED BY <1>1, <1>2, <1>3, SameFile DEF Fresh, InLoop

LEMMA UnmapFresh ==
  ASSUME Sound, UnmapLowerHalf
  PROVE  Fresh'
  <1>1. /\ AS!Teardown
        /\ pc' = IF phase' = "ready" THEN "check" ELSE "unmap"
    BY DEF UnmapLowerHalf
  <1>2. ASSUME phase' = "ready" PROVE LowerPages' = {}
    <2>1. \A p \in DOMAIN pte' : ~(p[1] \in LowerHalf)
      BY <1>1, <1>2, SameTeardown, PagingFacts, ASP!TeardownEffect
      DEF Sound, Paging, ASP!Lower
    <2> QED BY <2>1 DEF LowerPages, Pages, AS!Lower
  <1> QED BY <1>1, <1>2 DEF Fresh, InLoop

LEMMA NextFresh ==
  ASSUME Sound, OwnTypes, Entered, Fresh, NullSegmentsComeLast, [Next]_vars
  PROVE  Fresh'
  <1>1. CASE UnmapLowerHalf
    BY <1>1, UnmapFresh
  <1>2. CASE CheckType \/ SkipSegment \/ SkipNullSegment
    BY <1>2, LoopFresh
  <1>3. CASE StartSegment
    BY <1>3, StartSegmentFresh
  <1>4. CASE MapSegmentPage
    BY <1>4, MapSegmentFresh
  <1>5. CASE ProtectSegment
    BY <1>5, ProtectFresh
  <1>6. CASE SegmentsDone
    BY <1>6, SegmentsDoneFresh
  <1>7. CASE MapStackPage
    BY <1>7, StackFresh
  <1>8. CASE \/ Boot \/ NotFound \/ NotExecutable \/ Found \/ UsermodeEntry
             \/ MapMmapPage \/ VmMapStrays
    BY <1>8 DEF Boot, NotFound, NotExecutable, LoadFails, Found, UsermodeEntry,
                MapMmapPage, MmapFails, VmMapStrays, Fresh, InLoop
  <1>9. CASE UserStep
    BY <1>9 DEF UserStep, CallExec, CallExit, CallMmap, Running, PageFault, Fresh, InLoop
  <1>10. CASE Halted \/ UNCHANGED vars
    BY <1>10, SameFile
    DEF Halted, vars, asVars, loadVars, Fresh, InLoop, Pages, LowerPages, AS!Lower, PassedMapped,
        MappedSoFar, FirstOf, PathOf
  <1> QED
    BY <1>1, <1>2, <1>3, <1>4, <1>5, <1>6, <1>7, <1>8, <1>9, <1>10
    DEF Next, KernelStep, Load

LEMMA SpecFresh ==
  ASSUME NullSegmentsComeLast
  PROVE  Spec => []Fresh
  <1>1. Init => Fresh
    BY DEF Init, Fresh, InLoop
  <1>2. OwnTypes /\ Sound /\ Entered /\ Fresh /\ [Next]_vars => Fresh'
    BY NextFresh
  <1> QED BY <1>1, <1>2, SpecTyped, SpecEntered, PTL DEF Spec

(* A program is entered in an address space of its own, whatever was       *)
(* mapped before it and however loads before it failed: the pages of its   *)
(* segments, all of them, are there, and nothing else but its stack        *)
(* (loader.c:44-95).                                                       *)
THEOREM ProgramsStartFresh ==
  ASSUME NullSegmentsComeLast
  PROVE  Spec => []FreshAddressSpace
  <1>1. Fresh => FreshAddressSpace
    BY DEF Fresh, FreshAddressSpace, Wanted, StackPaths
  <1> QED BY <1>1, SpecFresh, PTL

-----------------------------------------------------------------------------
(***************************************************************************)
(* What mmap promises the programs that leave the address to the kernel,   *)
(* for every length and every memory size: a region of its own, mapped     *)
(* from end to end.  The region must be none of the image's pages, nor of  *)
(* the stack's.                                                            *)
(***************************************************************************)
(* The pages of the program that runs.  A page missing from its stack      *)
(* means that there is no memory left, and so no mmap will succeed.        *)
OwnPages ==
  /\ pc \notin {"user", "mmap", "halted", "stray"} => call.kind # "mmap"
  /\ pc = "stack" =>
       /\ StackBase <= page /\ page <= StackBase + StackPages
       /\ \A n \in StackBase..(page - 1) : IsMapped(n) \/ free = <<>>
  /\ image # NoProgram =>
       /\ \A n \in ImagePages(image) : IsMapped(n)
       /\ \A n \in Stack : IsMapped(n) \/ free = <<>>

LEMMA MapKeepsOwn ==
  ASSUME Paging, NEW va \in ASP!Page, NEW perm \in Perm, AS!VmMap(va, perm), NEW n
  PROVE  /\ IsMapped(n) => IsMapped(n)'
         /\ IsMapped(n) \/ free = <<>> => (IsMapped(n) \/ free = <<>>)'
         /\ PathOf(n) = va => (IsMapped(n) \/ free = <<>>)'
  <1>1. PathOf(n)' = PathOf(n)
    BY DEF PathOf
  <1>2. /\ \A p \in DOMAIN pte : p \in DOMAIN pte'
        /\ AS!VmMapReturns(va) => va \in DOMAIN pte'
        /\ ~AS!VmMapReturns(va) => va \in DOMAIN pte \/ free' = <<>>
        /\ free = <<>> => free' = <<>>
    BY MapKeepsEntries, MapAddsOne DEF KeepsEntries
  <1> QED BY <1>1, <1>2 DEF IsMapped

LEMMA StackPageOwn ==
  ASSUME Sound, Entered, OwnPages, MapStackPage
  PROVE  OwnPages'
  <1>1. /\ image' = image /\ image = NoProgram /\ page' = page + 1 /\ pc' = "stack"
        /\ call' = call /\ call.kind # "mmap" /\ page \in Stack
        /\ StackBase <= page
        /\ \A n \in StackBase..(page - 1) : IsMapped(n) \/ free = <<>>
    BY DEF MapStackPage, Entered, OwnPages
  <1>2. StackBase \in Nat /\ StackPages \in Nat /\ page \in Nat
    BY MmapAssumption DEF Sound, Shape
  <1>3. page' <= StackBase + StackPages /\ StackBase <= page'
    BY <1>1, <1>2 DEF Stack
  <1>4. ASSUME NEW n \in StackBase..page PROVE (IsMapped(n) \/ free = <<>>)'
    <2>1. n = page \/ n \in StackBase..(page - 1)
      BY <1>2
    <2>2. IsMapped(n) \/ free = <<>> \/ PathOf(n) = PathOf(page)
      BY <1>1, <2>1
    <2> QED BY <2>2, StackMapArgs, MapKeepsOwn DEF Sound
  <1>5. \A n \in StackBase..(page' - 1) : (IsMapped(n) \/ free = <<>>)'
    <2>1. page' - 1 = page
      BY <1>1, <1>2
    <2> QED BY <1>4, <2>1
  <1> QED BY <1>1, <1>3, <1>5 DEF OwnPages

LEMMA UsermodeOwn ==
  ASSUME Sound, OwnTypes, Fresh, OwnPages, UsermodeEntry
  PROVE  OwnPages'
  <1>1. /\ image' = target /\ pte' = pte /\ free' = free /\ pc' = "user"
        /\ Wanted \subseteq Pages /\ page \notin Stack
        /\ StackBase <= page /\ page <= StackBase + StackPages
        /\ \A n \in StackBase..(page - 1) : IsMapped(n) \/ free = <<>>
    BY DEF UsermodeEntry, Fresh, OwnPages, asVars
  <1>2. StackBase \in Nat /\ StackPages \in Nat /\ page \in Nat
    BY MmapAssumption DEF Sound, Shape
  <1>3. page = StackBase + StackPages
    BY <1>1, <1>2 DEF Stack
  <1>4. \A n \in Stack : IsMapped(n) \/ free = <<>>
    BY <1>1, <1>2, <1>3 DEF Stack
  <1>5. \A n \in ImagePages(target) : IsMapped(n)
    BY <1>1 DEF Wanted, Pages, IsMapped
  <1>6. \A n : IsMapped(n)' <=> IsMapped(n)
    BY <1>1 DEF IsMapped, PathOf
  <1>7. ImagePages(image)' = ImagePages(target) /\ Stack' = Stack
    BY <1>1 DEF ImagePages, Loadable, Segments, SegmentPages, Stack
  <1> QED BY <1>1, <1>4, <1>5, <1>6, <1>7 DEF OwnPages

(* Steps of the program and of mmap.                                       *)
LEMMA KeptOwn ==
  ASSUME OwnPages, image' = image, pc' \in {"user", "mmap", "find", "halted", "stray"},
         pc' = "find" => call'.kind # "mmap",
         \A n : /\ IsMapped(n) => IsMapped(n)'
                /\ IsMapped(n) \/ free = <<>> => (IsMapped(n) \/ free = <<>>)'
  PROVE  OwnPages'
  <1>1. image # NoProgram => ImagePages(image)' = ImagePages(image) /\ Stack' = Stack
    BY DEF ImagePages, Loadable, Segments, SegmentPages, Stack
  <1> QED BY <1>1 DEF OwnPages

LEMMA NextOwn ==
  ASSUME Sound, OwnTypes, Entered, Fresh, OwnPages, [Next]_vars
  PROVE  OwnPages'
  <1>1. ASSUME pte' = pte, free' = free
        PROVE  \A n : /\ IsMapped(n) => IsMapped(n)'
                      /\ IsMapped(n) \/ free = <<>> => (IsMapped(n) \/ free = <<>>)'
    BY <1>1 DEF IsMapped, PathOf
  <1>2. CASE MapStackPage
    BY <1>2, StackPageOwn
  <1>3. CASE UsermodeEntry
    BY <1>3, UsermodeOwn
  <1>4. CASE NotFound
    <2>1. /\ pte' = pte /\ free' = free /\ image' = image /\ pc' \in {"user", "halted"}
      BY <1>4 DEF NotFound, LoadFails, asVars
    <2> QED BY <1>1, <2>1, KeptOwn
  <1>5. CASE \/ Boot \/ Found \/ UnmapLowerHalf \/ CheckType \/ SkipSegment
             \/ SkipNullSegment \/ StartSegment \/ ProtectSegment
    BY <1>5 DEF Boot, Found, UnmapLowerHalf, CheckType, SkipSegment, SkipNullSegment,
                InSegmentLoop, StartSegment, ProtectSegment, Entered, OwnPages
  <1>6. CASE NotExecutable \/ MapSegmentPage
    BY <1>6 DEF NotExecutable, MapSegmentPage, LoadFails, Entered, OwnPages
  <1>7. CASE SegmentsDone
    <2>1. /\ image' = image /\ image = NoProgram /\ call' = call /\ call.kind # "mmap"
          /\ pc' = "stack" /\ page' = StackBase
      BY <1>7 DEF SegmentsDone, Entered, OwnPages
    <2>2. StackBase \in Nat /\ StackPages \in Nat
      BY MmapAssumption
    <2> QED BY <2>1, <2>2 DEF OwnPages
  <1>8. CASE MapMmapPage
    <2>1. image' = image /\ pc' \in {"user", "mmap"}
      BY <1>8 DEF MapMmapPage, MmapFails
    <2> QED BY <1>8, <2>1, MmapMapArgs, MapKeepsOwn, KeptOwn DEF Sound
  <1>9. CASE UserStep \/ VmMapStrays
    <2>1. /\ pte' = pte /\ free' = free /\ image' = image
          /\ pc' \in {"user", "mmap", "find", "halted", "stray"}
          /\ pc' = "find" => call'.kind # "mmap"
      BY <1>9 DEF UserStep, CallExec, CallExit, CallMmap, Running, PageFault, ExecCall,
                  ExitCall, VmMapStrays, AS!VmMapStrays, asVars
    <2> QED BY <1>1, <2>1, KeptOwn
  <1>10. CASE Halted \/ UNCHANGED vars
    BY <1>10 DEF Halted, vars, asVars, loadVars, OwnPages, IsMapped, PathOf, ImagePages,
                 Loadable, Segments, SegmentPages, Stack
  <1> QED
    BY <1>2, <1>3, <1>4, <1>5, <1>6, <1>7, <1>8, <1>9, <1>10 DEF Next, KernelStep, Load

-----------------------------------------------------------------------------
(* The region of the mmap that is served, or was served last: while it is  *)
(* being mapped, the pages up to the one that comes next.                  *)
RegionPage(n) ==
  /\ IsMapped(n)
  /\ Leaf(n).user
  /\ Leaf(n).writable = MmapPerm(call.args).writable
  /\ Leaf(n).noExecute = MmapPerm(call.args).executable
  /\ n < nextStart /\ n \notin ImagePages(image) \union Stack

FirstOfRegion == call.result \div PageSize

LastOfRegion == (call.result + call.args.length - 1) \div PageSize

ServesProgram ==
  image # NoProgram /\ call.kind = "mmap" /\ call.result # -1 /\ call.args.addr = 0

GrowingRegion ==
  /\ page = nextStart /\ left > 0
  /\ call.result \in Nat /\ call.args.length \in Int
  /\ call.result = FirstOfRegion * PageSize /\ FirstOfRegion <= page
  /\ left = call.result + call.args.length - page * PageSize
  /\ \A n \in FirstOfRegion..(page - 1) : RegionPage(n)

Regions ==
  /\ pc = "mmap" /\ ServesProgram => GrowingRegion
  /\ pc = "user" /\ ServesProgram => \A n \in FirstOfRegion..LastOfRegion : RegionPage(n)

(* A region page stays one while mmap maps others.                         *)
LEMMA KeepsRegionPage ==
  ASSUME KeepsEntries \/ pte' = pte, image' = image, call' = call,
         nextStart \in Nat, nextStart' \in Nat, nextStart <= nextStart',
         NEW n \in Int, RegionPage(n)
  PROVE  RegionPage(n)'
  <1>1. IsMapped(n)' /\ Leaf(n)' = Leaf(n)
    BY DEF KeepsEntries, RegionPage, IsMapped, Leaf, PathOf
  <1>2. ImagePages(image)' = ImagePages(image) /\ Stack' = Stack
    BY DEF ImagePages, Loadable, Segments, SegmentPages, Stack
  <1>3. MmapPerm(call.args)' = MmapPerm(call.args)
    BY DEF MmapPerm
  <1>4. n < nextStart'
    BY DEF RegionPage
  <1> QED BY <1>1, <1>2, <1>3, <1>4 DEF RegionPage

(* The page that sys_mmap has just mapped is one of the region.            *)
LEMMA NewRegionPage ==
  ASSUME Sound, OwnTypes, OwnPages, MapMmapPage,
         AS!VmMapReturns(PathOf(page)), ServesProgram, page = nextStart,
         NEW n, n = page
  PROVE  RegionPage(n)'
  <1>1. /\ PathOf(page) \in ASP!Page /\ MmapPerm(call.args) \in Perm
        /\ AS!VmMap(PathOf(page), MmapPerm(call.args))
    BY MmapMapArgs DEF Sound
  <1>2. /\ PathOf(page) \in DOMAIN pte' \ DOMAIN pte
        /\ pte'[PathOf(page)].user = MmapPerm(call.args).user
        /\ pte'[PathOf(page)].writable = MmapPerm(call.args).writable
        /\ pte'[PathOf(page)].noExecute = MmapPerm(call.args).executable
        /\ free # <<>>
    BY <1>1, MapAddsOne DEF Sound
  <1>3. page \notin ImagePages(image) \union Stack
    BY <1>2 DEF OwnPages, ServesProgram, IsMapped
  <1>4. call' = call /\ image' = image /\ nextStart' = nextStart + 1 /\ nextStart \in Nat
    BY DEF MapMmapPage, Sound, Shape
  <1>5. /\ ImagePages(image)' = ImagePages(image) /\ Stack' = Stack
        /\ MmapPerm(call.args)' = MmapPerm(call.args)
    BY <1>4 DEF ImagePages, Loadable, Segments, SegmentPages, Stack, MmapPerm
  <1>6. PathOf(n)' = PathOf(page)
    BY DEF PathOf
  <1>7. MmapPerm(call.args).user
    BY DEF MmapPerm
  <1>8. /\ IsMapped(n)' /\ Leaf(n)'.user
        /\ Leaf(n)'.writable = MmapPerm(call.args).writable
        /\ Leaf(n)'.noExecute = MmapPerm(call.args).executable
    BY <1>2, <1>6, <1>7 DEF IsMapped, Leaf
  <1>9. n < nextStart' /\ n \notin ImagePages(image) \union Stack
    BY <1>3, <1>4
  <1> QED BY <1>5, <1>8, <1>9 DEF RegionPage

LEMMA MmapRegions ==
  ASSUME Sound, OwnTypes, OwnPages, Regions, MapMmapPage
  PROVE  Regions'
  <1>1. pc = "mmap" /\ call \in CallRecord /\ PageSize \in Nat \ {0}
    BY ImageAssumption DEF MapMmapPage, OwnTypes
  <1>2. CASE ~AS!VmMapReturns(PathOf(page))
    <2>1. MmapFails
      BY <1>2 DEF MapMmapPage
    <2>2. call'.result = -1
      BY <1>1, <2>1 DEF MmapFails, CallRecord
    <2> QED BY <2>2 DEF Regions, ServesProgram
  <1>3. CASE AS!VmMapReturns(PathOf(page)) /\ ServesProgram
    <2>1. /\ call' = call /\ image' = image /\ nextStart' = nextStart + 1
          /\ left' = SizeLeft
          /\ pc' = IF left' > 0 THEN "mmap" ELSE "user"
          /\ page' = IF left' = 0 THEN 0 ELSE nextStart'
      BY <1>3 DEF MapMmapPage, ServesProgram
    <2>2. GrowingRegion /\ page \in Nat /\ nextStart \in Nat /\ left \in Int
      BY <1>1, <1>3 DEF Regions, OwnTypes, Sound, Shape
    <2>3. FirstOfRegion \in Nat /\ page * PageSize \in Nat
      BY <2>2, Division DEF GrowingRegion, FirstOfRegion
    <2>4. KeepsEntries
      BY MmapMapArgs, MapKeepsEntries DEF Sound
    <2>5. ASSUME NEW n \in FirstOfRegion..page PROVE RegionPage(n)'
      <3>1. CASE n = page
        BY <1>3, <2>2, <3>1, NewRegionPage DEF GrowingRegion
      <3>2. CASE n # page
        <4>1. n \in FirstOfRegion..(page - 1) /\ n \in Int
          BY <2>2, <2>3, <3>2
        <4>2. RegionPage(n)
          BY <2>2, <4>1 DEF GrowingRegion
        <4>3. nextStart' \in Nat /\ nextStart <= nextStart'
          BY <2>1, <2>2
        <4> QED BY <2>1, <2>2, <2>4, <4>1, <4>2, <4>3, KeepsRegionPage
      <3> QED BY <3>1, <3>2
    <2>6. FirstOfRegion' = FirstOfRegion /\ LastOfRegion' = LastOfRegion
      BY <2>1 DEF FirstOfRegion, LastOfRegion
    <2>7. (page + 1) * PageSize = page * PageSize + PageSize
      BY <2>2, Division
    <2>8. CASE left > PageSize
      <3>1. left' = left - PageSize /\ left' > 0 /\ page' = page + 1 /\ pc' = "mmap"
            /\ page' = nextStart'
        BY <1>1, <2>1, <2>2, <2>8 DEF SizeLeft, GrowingRegion
      <3>2. left' = call.result + call.args.length - page' * PageSize
        <4>1. left = call.result + call.args.length - page * PageSize
              /\ call.result \in Nat /\ call.args.length \in Int
          BY <2>2 DEF GrowingRegion
        <4> QED BY <1>1, <2>3, <2>7, <3>1, <4>1
      <3>3. /\ FirstOfRegion <= page'
            /\ \A n \in FirstOfRegion..(page' - 1) : RegionPage(n)'
        BY <2>2, <2>3, <2>5, <3>1 DEF GrowingRegion
      <3>4. GrowingRegion'
        BY <2>1, <2>2, <2>6, <3>1, <3>2, <3>3 DEF GrowingRegion
      <3> QED BY <3>1, <3>4 DEF Regions
    <2>9. CASE ~(left > PageSize)
      <3>1. left' = 0 /\ pc' = "user"
        BY <2>1, <2>9 DEF SizeLeft
      <3>2. LastOfRegion <= page
        <4> DEFINE a == call.result + call.args.length - 1
        <4>1. /\ left = call.result + call.args.length - page * PageSize /\ left > 0
              /\ call.result \in Nat /\ call.args.length \in Int
          BY <2>2 DEF GrowingRegion
        <4>2. a \in Nat /\ a < (page + 1) * PageSize
          BY <1>1, <2>2, <2>3, <2>7, <2>9, <4>1
        <4> HIDE DEF a
        <4>3. page + 1 \in Nat /\ a \div PageSize \in Nat
          BY <2>2, <4>2, Division
        <4>4. a \div PageSize < page + 1
          BY <4>2, <4>3, BelowPage
        <4>5. a \div PageSize <= page
          BY <2>2, <4>3, <4>4
        <4> QED BY <4>5 DEF a, LastOfRegion
      <3>3. LastOfRegion \in Int
        <4>1. call.result + call.args.length - 1 \in Int
          BY <2>2 DEF GrowingRegion
        <4> QED BY <1>1, <4>1 DEF LastOfRegion
      <3>4. \A n \in FirstOfRegion..LastOfRegion : n \in FirstOfRegion..page
        BY <2>2, <2>3, <3>2, <3>3
      <3> QED BY <2>5, <2>6, <3>1, <3>4 DEF Regions
    <2> QED BY <2>8, <2>9
  <1>4. CASE AS!VmMapReturns(PathOf(page)) /\ ~ServesProgram
    <2>1. call' = call /\ image' = image
      BY <1>4 DEF MapMmapPage
    <2> QED BY <1>4, <2>1 DEF Regions, ServesProgram
  <1> QED BY <1>2, <1>3, <1>4

LEMMA CallRegions ==
  ASSUME Sound, NEW args \in MmapCall, CallMmap(args)
  PROVE  Regions'
  <1>1. /\ args.length \in Int /\ nextStart \in Nat /\ nextStart * PageSize \in Nat
        /\ PageSize \in Nat \ {0}
    BY MmapAssumption, Division, ImageAssumption DEF Sound, Shape
  <1>2. CASE args.length <= 0
    <2>1. call'.result = -1
      BY <1>2 DEF CallMmap, Mmap
    <2> QED BY <2>1 DEF Regions, ServesProgram
  <1>3. CASE args.length > 0 /\ args.addr # 0
    <2>1. call'.args = args /\ pc' = "mmap"
      BY <1>1, <1>3 DEF CallMmap, Mmap
    <2> QED BY <1>3, <2>1 DEF Regions, ServesProgram
  <1>4. CASE args.length > 0 /\ args.addr = 0
    <2>1. /\ call'.args = args /\ call'.result = nextStart * PageSize /\ pc' = "mmap"
          /\ page' = (nextStart * PageSize) \div PageSize /\ left' = args.length
          /\ nextStart' = nextStart
      BY <1>1, <1>4 DEF CallMmap, Mmap
    <2>2. page' = nextStart /\ FirstOfRegion' = nextStart
      BY <1>1, <2>1, Division DEF FirstOfRegion
    <2>3. left' = call'.result + call'.args.length - page' * PageSize
      BY <1>1, <2>1, <2>2
    <2>4. \A n \in FirstOfRegion'..(page' - 1) : RegionPage(n)'
      BY <1>1, <2>2
    <2>5. GrowingRegion'
      BY <1>1, <1>4, <2>1, <2>2, <2>3, <2>4 DEF GrowingRegion
    <2> QED BY <2>1, <2>5 DEF Regions
  <1> QED BY <1>1, <1>2, <1>3, <1>4

LEMMA NextRegions ==
  ASSUME Sound, OwnTypes, OwnPages, OwnPages', Regions, [Next]_vars
  PROVE  Regions'
  <1>1. CASE MapMmapPage
    BY <1>1, MmapRegions
  <1>2. ASSUME NEW args \in MmapCall, CallMmap(args) PROVE Regions'
    BY <1>2, CallRegions
  <1>3. CASE (\E name \in Name : CallExec(name)) \/ CallExit \/ PageFault
    BY <1>3 DEF CallExec, CallExit, PageFault, Regions
  <1>4. CASE Boot \/ Load \/ VmMapStrays
    <2>1. (call' = call /\ call.kind # "mmap") \/ pc' \notin {"user", "mmap"}
      BY <1>4 DEF Boot, Load, NotFound, Found, UnmapLowerHalf, CheckType, NotExecutable,
                  SkipSegment, SkipNullSegment, InSegmentLoop, StartSegment,
                  MapSegmentPage, ProtectSegment, SegmentsDone, MapStackPage,
                  UsermodeEntry, VmMapStrays, LoadFails, OwnPages
    <2> QED BY <2>1 DEF Regions, ServesProgram
  <1>5. CASE Halted \/ UNCHANGED vars
    <2>1. /\ pte' = pte /\ image' = image /\ call' = call /\ nextStart' = nextStart
          /\ pc' = pc /\ page' = page /\ left' = left
      BY <1>5 DEF Halted, vars, asVars, loadVars
    <2>2. \A n : RegionPage(n)' <=> RegionPage(n)
      BY <2>1 DEF RegionPage, IsMapped, Leaf, PathOf, ImagePages, Loadable, Segments,
                  SegmentPages, Stack, MmapPerm
    <2>3. /\ ServesProgram' <=> ServesProgram
          /\ FirstOfRegion' = FirstOfRegion /\ LastOfRegion' = LastOfRegion
      BY <2>1 DEF ServesProgram, FirstOfRegion, LastOfRegion
    <2>4. GrowingRegion => GrowingRegion'
      BY <2>1, <2>2, <2>3 DEF GrowingRegion
    <2> QED BY <2>1, <2>2, <2>3, <2>4 DEF Regions
  <1> QED
    BY <1>1, <1>2, <1>3, <1>4, <1>5 DEF Next, KernelStep, UserStep

(* A region that mmap(NULL, ...) returns is mapped from its first page to  *)
(* its last with the permissions that `flags' asks for, lies below         *)
(* mmap_next_start, and takes no page of the image nor of the stack; it    *)
(* stays so until the program's next call.  This is for files none of      *)
(* whose null headers stands before a segment (syscall_def.c:86-109).      *)
THEOREM MmapMapsItsRegion ==
  ASSUME NullSegmentsComeLast
  PROVE  Spec => []MmapReturnsRegion
  <1>1. Init => OwnPages /\ Regions
    BY DEF Init, NoCall, OwnPages, Regions
  <1>2. /\ OwnTypes /\ Sound /\ Entered /\ Fresh /\ OwnPages
        /\ [Next]_vars
        => OwnPages'
    BY NextOwn
  <1>3. /\ OwnTypes /\ Sound /\ OwnPages /\ OwnPages' /\ Regions
        /\ [Next]_vars
        => Regions'
    BY NextRegions
  <1>4. Regions => MmapReturnsRegion
    BY DEF Regions, MmapReturnsRegion, ServesProgram, FirstOfRegion, LastOfRegion,
           RegionPage
  <1> QED BY <1>1, <1>2, <1>3, <1>4, SpecTyped, SpecEntered, SpecFresh, PTL DEF Spec

=============================================================================
