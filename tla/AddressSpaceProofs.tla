-------------------------- MODULE AddressSpaceProofs --------------------------
(***************************************************************************)
(* Proofs, for every machine and every boot-time page table, of what       *)
(* AddressSpace promises: its type invariant, OneUse, WalksMeetTables,     *)
(* UpperHalfUntouched, OnlyMappedPagesAreLost and the refinement of        *)
(* PageMap, wherever callers ask for pages.  Inv, which contains the first *)
(* four, is inductive; the others are facts about the steps taken from it. *)
(***************************************************************************)
EXTENDS AddressSpace, TLAPS

-----------------------------------------------------------------------------
(* The assumptions, spelled out.                                           *)
LEMMA FrameFacts == NullFrame \notin Frame
  BY FrameAssumption DEF PagesHaveNumbers

LEMMA IndexFacts == Index \subseteq Nat /\ LowerHalf \subseteq Index
  BY IndexAssumption DEF IndicesAreNumbers

LEMMA UsableFacts ==
  /\ UsableFrames \in Seq(Frame \union {NullFrame})
  /\ \A i, j \in 1..Len(UsableFrames) :
       UsableFrames[i] = UsableFrames[j] => i = j
  BY UsableAssumption DEF UsablePagesDiffer

LEMMA BootFacts ==
  /\ DOMAIN BootPte \subseteq Path
  /\ BootPte \in [DOMAIN BootPte -> PtEntry]
  /\ WellFormed(BootPte)
  /\ \A p \in DOMAIN BootPte : Len(p) = 1 => ~BootPte[p].large
  /\ \A p, q \in DOMAIN BootPte :
       /\ IsTable(BootPte, p)
       /\ IsTable(BootPte, q)
       /\ BootPte[p].frame = BootPte[q].frame
       => p = q
  /\ \A p \in DOMAIN BootPte : \A i \in 1..Len(UsableFrames) :
       IsTable(BootPte, p) => BootPte[p].frame # UsableFrames[i]
  BY BootAssumption DEF BootTreeIsSound

LEMMA CallerFacts ==
  /\ NamedPage \subseteq Page
  /\ Perm \subseteq Permission
  BY CallerAssumption DEF CallersNamePages

-----------------------------------------------------------------------------
(* Facts about paths and their prefixes.                                   *)

(* A path is a sequence of one to four indices.                            *)
LEMMA PathIsSeq ==
  ASSUME NEW p \in Path
  PROVE  /\ p \in Seq(Index)
         /\ Len(p) \in 1..4
         /\ Len(p) \in Nat /\ 1 <= Len(p) /\ Len(p) <= 4
         /\ Len(p) = 1 \/ 1 < Len(p)
         /\ p \in [1..Len(p) -> Index]
  <1>1. ASSUME NEW n \in 1..4, NEW q \in [1..n -> Index]
        PROVE  /\ q \in Seq(Index) /\ Len(q) = n
               /\ 1 <= Len(q) /\ Len(q) <= 4 /\ (Len(q) = 1 \/ 1 < Len(q))
    OBVIOUS
  <1> QED BY <1>1 DEF Path

(* Conversely, a sequence of one to four indices is a path.                *)
LEMMA SeqIsPath ==
  ASSUME NEW p \in Seq(Index), Len(p) \in 1..4
  PROVE  p \in Path
  <1>1. p \in [1..Len(p) -> Index]
    OBVIOUS
  <1> QED BY <1>1 DEF Path

(* Prefixes of paths are paths, of the expected length and half.           *)
LEMMA PrefixIsPath ==
  ASSUME NEW p \in Path, NEW n \in 1..Len(p)
  PROVE  /\ Prefix(p, n) \in Path
         /\ Len(Prefix(p, n)) = n
         /\ Lower(Prefix(p, n)) <=> Lower(p)
         /\ \A m \in 1..n : Prefix(Prefix(p, n), m) = Prefix(p, m)
         /\ n = Len(p) => Prefix(p, n) = p
  <1>1. p \in Seq(Index) /\ Len(p) \in 1..4
    BY PathIsSeq
  <1>2. /\ Prefix(p, n) \in Seq(Index)
        /\ Len(Prefix(p, n)) = n
        /\ \A i \in 1..n : Prefix(p, n)[i] = p[i]
    BY <1>1 DEF Prefix
  <1>3. Len(Prefix(p, n)) \in 1..4
    BY <1>1, <1>2
  <1>4. Prefix(p, n) \in Path
    BY <1>2, <1>3, SeqIsPath
  <1>5. Lower(Prefix(p, n)) <=> Lower(p)
    BY <1>1, <1>2 DEF Lower
  <1>6. \A m \in 1..n : Prefix(Prefix(p, n), m) = Prefix(p, m)
    BY <1>1, <1>2 DEF Prefix
  <1>7. n = Len(p) => Prefix(p, n) = p
    BY <1>1, <1>2
  <1> QED BY <1>2, <1>4, <1>5, <1>6, <1>7

(* One path extends another exactly when it has it as a prefix.            *)
LEMMA IsPrefixMeans ==
  ASSUME NEW p \in Path, NEW q \in Path
  PROVE  IsPrefix(p, q) <=> Len(p) <= Len(q) /\ Prefix(q, Len(p)) = p
  <1>1. /\ p \in Seq(Index) /\ Len(p) \in 1..4
        /\ q \in Seq(Index) /\ Len(q) \in 1..4
    BY PathIsSeq
  <1>2. Prefix(p, Len(p)) = p
    BY <1>1, PrefixIsPath
  <1> QED BY <1>1, <1>2 DEF IsPrefix, Prefix

(* Pages are level-1 paths.                                                *)
LEMMA PageIsPath ==
  ASSUME NEW va \in Page
  PROVE  va \in Path /\ Len(va) = 4
  <1>1. va \in [1..4 -> Index]
    BY DEF Page
  <1>2. va \in Path
    BY <1>1 DEF Path
  <1> QED BY <1>1, <1>2

(* The walk always stops somewhere between the root and the leaf.          *)
LEMMA DepthMeans ==
  ASSUME NEW va \in Page
  PROVE  /\ Depth(va) \in 0..4
         /\ \A n \in 1..Depth(va) : Prefix(va, n) \in DOMAIN pte
         /\ Depth(va) < 4 => Prefix(va, Depth(va) + 1) \notin DOMAIN pte
  <1> DEFINE Stops(d) == /\ \A n \in 1..d : Prefix(va, n) \in DOMAIN pte
                         /\ d < 4 => Prefix(va, d + 1) \notin DOMAIN pte
  <1> HIDE DEF Stops
  <1>1. \E d \in 0..4 : Stops(d)
    <2>1. CASE Prefix(va, 1) \notin DOMAIN pte
      <3>1. Stops(0)
        BY <2>1 DEF Stops
      <3> QED BY <3>1
    <2>2. CASE Prefix(va, 1) \in DOMAIN pte /\ Prefix(va, 2) \notin DOMAIN pte
      <3>1. Stops(1)
        BY <2>2 DEF Stops
      <3> QED BY <3>1
    <2>3. CASE /\ Prefix(va, 1) \in DOMAIN pte /\ Prefix(va, 2) \in DOMAIN pte
               /\ Prefix(va, 3) \notin DOMAIN pte
      <3>1. Stops(2)
        BY <2>3 DEF Stops
      <3> QED BY <3>1
    <2>4. CASE /\ Prefix(va, 1) \in DOMAIN pte /\ Prefix(va, 2) \in DOMAIN pte
               /\ Prefix(va, 3) \in DOMAIN pte /\ Prefix(va, 4) \notin DOMAIN pte
      <3>1. Stops(3)
        BY <2>4 DEF Stops
      <3> QED BY <3>1
    <2>5. CASE /\ Prefix(va, 1) \in DOMAIN pte /\ Prefix(va, 2) \in DOMAIN pte
               /\ Prefix(va, 3) \in DOMAIN pte /\ Prefix(va, 4) \in DOMAIN pte
      <3>1. Stops(4)
        BY <2>5 DEF Stops
      <3> QED BY <3>1
    <2> QED BY <2>1, <2>2, <2>3, <2>4, <2>5
  <1>2. Depth(va) = CHOOSE d \in 0..4 : Stops(d)
    BY DEF Depth, Stops
  <1>3. Depth(va) \in 0..4 /\ Stops(Depth(va))
    BY <1>1, <1>2
  <1> QED BY <1>3 DEF Stops

(* A page that is mapped is a key of pte.                                  *)
LEMMA MappedMeans ==
  ASSUME NEW va \in Page, Mapped(va)
  PROVE  va \in DOMAIN pte
  <1>1. va \in Path /\ Len(va) = 4
    BY PageIsPath
  <1>2. Prefix(va, 4) = va
    BY <1>1, PrefixIsPath, 4 \in 1..4
  <1> QED BY <1>2, DepthMeans DEF Mapped

-----------------------------------------------------------------------------
(* Facts about the freelist.                                               *)

(* pmem_free puts the page in front and shifts the others.                 *)
LEMMA FreedMeans ==
  ASSUME free \in Seq(Frame), NEW f \in Frame
  PROVE  /\ Freed(f) \in Seq(Frame)
         /\ Len(Freed(f)) = Len(free) + 1
         /\ Freed(f)[1] = f
         /\ \A i \in 2..Len(Freed(f)) : i - 1 \in 1..Len(free) /\ Freed(f)[i] = free[i - 1]
  <1>1. Freed(f) = <<f>> \o free
    BY FrameFacts DEF Freed, Cons, NullFrame
  <1> QED BY <1>1

(* Freeing a page that is nowhere on the freelist keeps it free of         *)
(* duplicates.                                                             *)
LEMMA FreedKeepsDistinct ==
  ASSUME free \in Seq(Frame), NEW f \in Frame,
         \A i, j \in 1..Len(free) : free[i] = free[j] => i = j,
         \A i \in 1..Len(free) : free[i] # f
  PROVE  \A i, j \in 1..Len(Freed(f)) : Freed(f)[i] = Freed(f)[j] => i = j
  <1> SUFFICES ASSUME NEW i \in 1..Len(Freed(f)), NEW j \in 1..Len(Freed(f)),
                      Freed(f)[i] = Freed(f)[j]
               PROVE  i = j
    OBVIOUS
  <1>1. CASE i = 1 /\ j = 1
    BY <1>1
  <1>2. CASE i = 1 /\ j # 1
    <2>1. j \in 2..Len(Freed(f)) /\ Freed(f)[i] = f
      BY <1>2, FreedMeans
    <2>2. Freed(f)[j] = free[j - 1] /\ j - 1 \in 1..Len(free)
      BY <2>1, FreedMeans
    <2> QED BY <2>1, <2>2
  <1>3. CASE i # 1 /\ j = 1
    <2>1. i \in 2..Len(Freed(f)) /\ Freed(f)[j] = f
      BY <1>3, FreedMeans
    <2>2. Freed(f)[i] = free[i - 1] /\ i - 1 \in 1..Len(free)
      BY <2>1, FreedMeans
    <2> QED BY <2>1, <2>2
  <1>4. CASE i # 1 /\ j # 1
    <2>1. i \in 2..Len(Freed(f)) /\ j \in 2..Len(Freed(f))
      BY <1>4, FreedMeans
    <2>2. free[i - 1] = free[j - 1] /\ i - 1 \in 1..Len(free) /\ j - 1 \in 1..Len(free)
      BY <2>1, FreedMeans
    <2>3. i - 1 = j - 1
      BY <2>2
    <2> QED BY <2>1, <2>3
  <1> QED BY <1>1, <1>2, <1>3, <1>4

(* vm_map takes pages off the front; what is left is a suffix.             *)
LEMMA SuffixMeans ==
  ASSUME free \in Seq(Frame), NEW k \in 0..Len(free)
  PROVE  /\ SubSeq(free, k + 1, Len(free)) \in Seq(Frame)
         /\ Len(SubSeq(free, k + 1, Len(free))) = Len(free) - k
         /\ \A i \in 1..(Len(free) - k) :
              SubSeq(free, k + 1, Len(free))[i] = free[i + k]
  OBVIOUS

-----------------------------------------------------------------------------
(* The inductive invariant.  OneUse does not follow from itself: while the *)
(* freelist is being filled it needs that the pages still to come are not  *)
(* on it and hold no table, which BootPhase records; at UnmapDone the      *)
(* bootloader's lower leaves must be gone, which follows from the walk's   *)
(* well-formedness once level-4 entries are known to be tables, and what   *)
(* is left must be the bootloader's own.  That vm_map's pages of the upper *)
(* half are not the bootloader's needs UpperHalfUntouched: an entry that   *)
(* vm_map finds absent is none of those.                                   *)
BootPhase ==
  phase = "freelist" =>
    /\ pte = BootPte
    /\ \A i \in 1..Len(free) : \E j \in 1..given : free[i] = UsableFrames[j]

BootEntriesOnly == ~Booted => DOMAIN pte \subseteq DOMAIN BootPte

RootsAreTables == \A p \in DOMAIN pte : Len(p) = 1 => ~pte[p].large

Inv ==
  /\ TypeOK
  /\ OneUse
  /\ WalksMeetTables
  /\ UpperHalfUntouched
  /\ BootPhase
  /\ BootEntriesOnly
  /\ RootsAreTables

(* The machine at _start satisfies the invariant.                          *)
LEMMA InitInv == Init => Inv
  <1> SUFFICES ASSUME Init PROVE Inv
    OBVIOUS
  <1>1. TypeOK
    BY BootFacts, UsableFacts DEF Init, TypeOK
  <1>2. OneUse
    BY BootFacts DEF Init, OneUse, Owners, Owner, Booted
  <1>3. WalksMeetTables
    BY BootFacts DEF Init, WalksMeetTables, Booted
  <1>4. UpperHalfUntouched /\ BootPhase /\ BootEntriesOnly /\ RootsAreTables
    BY BootFacts DEF Init, UpperHalfUntouched, BootPhase, BootEntriesOnly, RootsAreTables
  <1> QED BY <1>1, <1>2, <1>3, <1>4 DEF Inv

(* Filling the freelist keeps it.                                          *)
LEMMA FreelistInitInv ==
  ASSUME Inv, FreelistInit
  PROVE  Inv'
  <1> DEFINE f == UsableFrames[given + 1]
  <1>1. /\ free \in Seq(Frame) /\ given \in 0..Len(UsableFrames)
        /\ given < Len(UsableFrames) /\ given' = given + 1
        /\ free' = Freed(f) /\ pte' = pte /\ phase = "freelist" /\ phase' = phase
        /\ pte = BootPte
        /\ \A i \in 1..Len(free) : \E j \in 1..given : free[i] = UsableFrames[j]
    BY DEF Inv, TypeOK, FreelistInit, BootPhase
  <1>2. f \in Frame \union {NullFrame} /\ given + 1 \in 1..Len(UsableFrames)
    BY <1>1, UsableFacts
  <1>3. WalksMeetTables' /\ UpperHalfUntouched' /\ BootEntriesOnly' /\ RootsAreTables'
    BY <1>1 DEF Inv, WalksMeetTables, UpperHalfUntouched, BootEntriesOnly, RootsAreTables,
                Booted
  <1>4. CASE f = NullFrame
    <2>1. free' = free
      BY <1>1, <1>4 DEF Freed
    <2>2. TypeOK'
      BY <1>1, <2>1 DEF Inv, TypeOK
    <2>3. OneUse'
      BY <1>1, <2>1 DEF Inv, OneUse, Owners, Owner, Booted
    <2>4. BootPhase'
      BY <1>1, <2>1 DEF BootPhase
    <2> QED BY <1>3, <2>2, <2>3, <2>4 DEF Inv
  <1>5. CASE f \in Frame
    <2>1. \A i \in 1..Len(free) : free[i] # f
      <3> SUFFICES ASSUME NEW i \in 1..Len(free), free[i] = f PROVE FALSE
        OBVIOUS
      <3>1. PICK j \in 1..given : free[i] = UsableFrames[j]
        BY <1>1
      <3>2. j \in 1..Len(UsableFrames) /\ UsableFrames[j] = UsableFrames[given + 1]
        BY <1>1, <3>1
      <3>3. j = given + 1
        BY <1>2, <3>2, UsableFacts
      <3> QED BY <1>1, <3>1, <3>3
    <2>2. TypeOK'
      BY <1>1, <1>5, FreedMeans DEF Inv, TypeOK
    <2>3. OneUse'
      <3>1. \A i, j \in 1..Len(free') : free'[i] = free'[j] => i = j
        BY <1>1, <1>5, <2>1, FreedKeepsDistinct DEF Inv, OneUse
      <3>2. Owners' = Owners /\ \A p \in Owners : IsTable(pte, p)
        BY <1>1 DEF Owners, Owner, Booted
      <3>3. \A p \in Owners : pte[p].frame # f
        BY <1>1, <1>2, <3>2, BootFacts DEF Owners
      <3>4. \A p \in Owners : \A i \in 1..Len(free') : free'[i] # pte[p].frame
        <4> SUFFICES ASSUME NEW p \in Owners, NEW i \in 1..Len(free')
                     PROVE  free'[i] # pte[p].frame
          OBVIOUS
        <4>1. CASE i = 1
          BY <1>1, <1>5, <3>3, <4>1, FreedMeans
        <4>2. CASE i # 1
          <5>1. i \in 2..Len(Freed(f))
            BY <1>1, <1>5, <4>2, FreedMeans
          <5>2. i - 1 \in 1..Len(free) /\ free'[i] = free[i - 1]
            BY <1>1, <1>5, <5>1, FreedMeans
          <5> QED BY <5>2 DEF Inv, OneUse
        <4> QED BY <4>1, <4>2
      <3> QED BY <1>1, <3>1, <3>2, <3>4 DEF Inv, OneUse
    <2>4. BootPhase'
      <3> SUFFICES ASSUME NEW i \in 1..Len(free')
                   PROVE  \E j \in 1..given' : free'[i] = UsableFrames[j]
        BY <1>1 DEF BootPhase
      <3>1. CASE i = 1
        BY <1>1, <1>2, <1>5, <3>1, FreedMeans
      <3>2. CASE i # 1
        <4>1. i \in 2..Len(Freed(f))
          BY <1>1, <1>5, <3>2, FreedMeans
        <4>2. i - 1 \in 1..Len(free) /\ free'[i] = free[i - 1]
          BY <1>1, <1>5, <4>1, FreedMeans
        <4>3. PICK j \in 1..given : free[i - 1] = UsableFrames[j]
          BY <1>1, <4>2
        <4>4. j \in 1..given'
          BY <1>1, <4>3
        <4> QED BY <4>2, <4>3, <4>4
      <3> QED BY <3>1, <3>2
    <2> QED BY <1>3, <2>2, <2>3, <2>4 DEF Inv
  <1> QED BY <1>2, <1>4, <1>5

(* The steps that only move the phase keep it.                             *)
LEMMA FreelistDoneInv ==
  ASSUME Inv, FreelistDone
  PROVE  Inv'
  <1>1. /\ free' = free /\ pte' = pte /\ given' = given
        /\ phase = "freelist" /\ phase' = "boot_unmap"
    BY DEF FreelistDone
  <1>2. Owners' = Owners /\ Booted' = Booted
    BY <1>1 DEF Owners, Owner, Booted
  <1> QED BY <1>1, <1>2 DEF Inv, TypeOK, OneUse, WalksMeetTables, UpperHalfUntouched,
                            BootPhase, BootEntriesOnly, RootsAreTables

(* unmap_lower_half starts with the tree and the freelist as they are.     *)
LEMMA StartUnmapInv ==
  ASSUME Inv, StartUnmap
  PROVE  Inv'
  <1>1. /\ free' = free /\ pte' = pte /\ given' = given
        /\ phase = "ready" /\ phase' = "unmap"
    BY DEF StartUnmap
  <1>2. Owners' = Owners /\ Booted' = Booted
    BY <1>1 DEF Owners, Owner, Booted
  <1> QED BY <1>1, <1>2 DEF Inv, TypeOK, OneUse, WalksMeetTables, UpperHalfUntouched,
                            BootPhase, BootEntriesOnly, RootsAreTables

(* When no lower table is left, no entry of the user half is.              *)
LEMMA NoTableNoEntry ==
  ASSUME Inv, LowerTables = {}
  PROVE  \A p \in DOMAIN pte : ~Lower(p)
  <1> SUFFICES ASSUME NEW p \in DOMAIN pte, Lower(p) PROVE FALSE
    OBVIOUS
  <1> DEFINE root == Prefix(p, 1)
  <1>1. p \in Path /\ p \in Seq(Index) /\ 1 <= Len(p) /\ Len(p) <= 4
    BY PathIsSeq DEF Inv, TypeOK
  <1>2. 1 \in 1..Len(p) /\ Len(p) \in Nat
    BY <1>1
  <1>3. root \in Path /\ Len(root) = 1 /\ Lower(root) /\ (Len(p) = 1 => root = p)
    BY <1>1, <1>2, PrefixIsPath
  <1>4. root \in DOMAIN pte
    <2>1. CASE Len(p) = 1
      BY <1>3, <2>1
    <2>2. CASE 1 < Len(p)
      <3>1. 1 \in 1..(Len(p) - 1)
        BY <1>2, <2>2
      <3> QED BY <3>1 DEF Inv, WalksMeetTables, WellFormed
    <2>3. Len(p) = 1 \/ 1 < Len(p)
      BY <1>1, PathIsSeq
    <2> QED BY <2>1, <2>2, <2>3
  <1>5. ~pte[root].large
    BY <1>3, <1>4 DEF Inv, RootsAreTables
  <1>6. IsTable(pte, root)
    BY <1>3, <1>5 DEF IsTable
  <1> QED BY <1>3, <1>4, <1>6 DEF LowerTables

(* Once the lower half is gone, no owner is left in it, so those of the    *)
(* bootloader's tables no longer matter and the kernel may map pages.      *)
LEMMA UnmapDoneInv ==
  ASSUME Inv, UnmapDone
  PROVE  Inv'
  <1>1. /\ free' = free /\ pte' = pte /\ given' = given
        /\ phase \in {"boot_unmap", "unmap"} /\ phase' = "ready"
        /\ \A p \in DOMAIN pte : ~Lower(p)
    BY NoTableNoEntry DEF UnmapDone
  <1>2. Owners' = Owners
    <2>1. CASE Booted
      BY <1>1, <2>1 DEF Owners, Owner, Booted
    <2>2. CASE ~Booted
      <3>1. \A p \in DOMAIN pte : ~MappedByVmMap(p)
        BY <1>1, <2>2 DEF Inv, BootEntriesOnly, MappedByVmMap
      <3> QED BY <1>1, <3>1 DEF Owners, Owner
    <2> QED BY <2>1, <2>2
  <1>3. WalksMeetTables'
    <2>1. \A p \in DOMAIN pte : pte[p].large => p \in DOMAIN BootPte
      BY DEF Inv, WalksMeetTables, BootEntriesOnly
    <2> QED BY <1>1, <2>1 DEF Inv, WalksMeetTables
  <1> QED BY <1>1, <1>2, <1>3 DEF Inv, TypeOK, OneUse, UpperHalfUntouched, BootPhase,
                                  BootEntriesOnly, RootsAreTables, Booted

(* A vm_map that strays is the end of the story.                           *)
LEMMA VmMapStraysInv ==
  ASSUME Inv, NEW va \in Page, VmMapStrays(va)
  PROVE  Inv'
  <1>1. /\ free' = free /\ pte' = pte /\ given' = given
        /\ phase \in {"ready", "stray"} /\ phase' = "stray"
    BY DEF VmMapStrays
  <1>2. Owners' = Owners /\ Booted' = Booted
    BY <1>1 DEF Owners, Owner, Booted
  <1> QED BY <1>1, <1>2 DEF Inv, TypeOK, OneUse, WalksMeetTables, UpperHalfUntouched,
                            BootPhase, BootEntriesOnly, RootsAreTables

-----------------------------------------------------------------------------
(* Giving back the page of an owner, and dropping that entry with all the  *)
(* entries below it, keeps the invariant: vm_unmap and every step of       *)
(* unmap_lower_half are of this form.                                      *)
LEMMA ReleaseInv ==
  ASSUME Inv, NEW o \in Owners, NEW kept \in SUBSET DOMAIN pte,
         o \notin kept,
         \A p \in DOMAIN BootPte \ kept : Lower(p) \/ p \notin DOMAIN pte,
         \A p \in kept : \A n \in 1..(Len(p) - 1) : Prefix(p, n) \in kept,
         phase # "freelist",
         free' = Freed(pte[o].frame),
         pte' = Restrict(pte, kept),
         UNCHANGED <<given, phase>>
  PROVE  Inv'
  <1> DEFINE f == pte[o].frame
  <1>1. /\ DOMAIN pte' = kept
        /\ \A p \in kept : pte'[p] = pte[p]
        /\ given' = given /\ phase' = phase
    BY DEF Restrict
  <1>2. o \in DOMAIN pte /\ free \in Seq(Frame) /\ f \in Frame
    BY DEF Owners, Inv, TypeOK, PtEntry
  <1>3. Owners' \subseteq Owners \ {o} /\ Booted' = Booted
    BY <1>1 DEF Owners, Owner, IsTable, Booted
  <1>4. TypeOK'
    <2>1. free' \in Seq(Frame)
      BY <1>2, FreedMeans
    <2>2. pte' \in [DOMAIN pte' -> PtEntry]
      BY <1>1 DEF Restrict, Inv, TypeOK
    <2> QED BY <1>1, <2>1, <2>2 DEF Inv, TypeOK
  <1>5. OneUse'
    <2>1. \A i \in 1..Len(free) : free[i] # f
      BY DEF Inv, OneUse
    <2>2. \A i, j \in 1..Len(free') : free'[i] = free'[j] => i = j
      BY <1>2, <2>1, FreedKeepsDistinct DEF Inv, OneUse
    <2>3. \A p \in Owners' : p \in Owners /\ p # o /\ pte'[p] = pte[p]
      BY <1>1, <1>3 DEF Owners
    <2>4. \A p \in Owners' : pte'[p].frame # f
      BY <2>3 DEF Inv, OneUse
    <2>5. \A p \in Owners' : \A i \in 1..Len(free') : free'[i] # pte'[p].frame
      <3> SUFFICES ASSUME NEW p \in Owners', NEW i \in 1..Len(free')
                   PROVE  free'[i] # pte'[p].frame
        OBVIOUS
      <3>1. CASE i = 1
        BY <1>2, <2>4, <3>1, FreedMeans
      <3>2. CASE i # 1
        <4>1. i \in 2..Len(Freed(f))
          BY <1>2, <3>2, FreedMeans
        <4>2. i - 1 \in 1..Len(free) /\ free'[i] = free[i - 1]
          BY <1>2, <4>1, FreedMeans
        <4> QED BY <2>3, <4>2 DEF Inv, OneUse
      <3> QED BY <3>1, <3>2
    <2>6. \A p, q \in Owners' : pte'[p].frame = pte'[q].frame => p = q
      BY <2>3 DEF Inv, OneUse
    <2> QED BY <2>2, <2>5, <2>6 DEF OneUse
  <1>6. WalksMeetTables'
    <2>1. WellFormed(pte')
      BY <1>1 DEF Inv, WalksMeetTables, WellFormed, IsTable
    <2> QED BY <1>1, <1>3, <2>1 DEF Inv, WalksMeetTables
  <1>7. UpperHalfUntouched'
    BY <1>1 DEF Inv, UpperHalfUntouched
  <1>8. BootPhase' /\ BootEntriesOnly' /\ RootsAreTables'
    BY <1>1, <1>3 DEF Inv, BootPhase, BootEntriesOnly, RootsAreTables
  <1> QED BY <1>4, <1>5, <1>6, <1>7, <1>8 DEF Inv

(* vm_unmap releases one leaf.                                             *)
LEMMA VmUnmapInv ==
  ASSUME Inv, NEW va \in Page, MappedByVmMap(va), VmUnmap(va)
  PROVE  Inv'
  <1> DEFINE kept == DOMAIN pte \ {va}
  <1>1. va \in DOMAIN pte /\ phase = "ready"
    BY MappedMeans DEF VmUnmap
  <1>2. va \in Owners
    BY <1>1 DEF Owners, Owner, Booted
  <1>3. ASSUME NEW p \in kept, NEW n \in 1..(Len(p) - 1)
        PROVE  Prefix(p, n) \in kept
    <2>1. p \in Path /\ p \in Seq(Index) /\ 1 <= Len(p) /\ Len(p) <= 4
      BY PathIsSeq DEF Inv, TypeOK
    <2>2. n \in 1..Len(p) /\ n < 4
      BY <2>1
    <2>3. Prefix(p, n) # va
      BY <2>1, <2>2, PrefixIsPath, PageIsPath
    <2> QED BY <2>3 DEF Inv, WalksMeetTables, WellFormed
  <1>4. free' = Freed(pte[va].frame) /\ pte' = Restrict(pte, kept) /\ UNCHANGED <<given, phase>>
    BY DEF VmUnmap
  <1>5. \A p \in DOMAIN BootPte \ kept : Lower(p) \/ p \notin DOMAIN pte
    BY DEF MappedByVmMap
  <1> QED BY <1>1, <1>2, <1>3, <1>4, <1>5, ReleaseInv

(* What lies below a table of the user half is of the user half.           *)
LEMMA BelowIsLower ==
  ASSUME Inv, NEW o \in DOMAIN pte, Lower(o), NEW q \in DOMAIN pte, IsPrefix(o, q)
  PROVE  Lower(q)
  <1>1. /\ o \in Path /\ 1 <= Len(o) /\ Len(o) \in Nat
        /\ q \in Path /\ q \in Seq(Index) /\ Len(q) \in Nat
    BY PathIsSeq DEF Inv, TypeOK
  <1>2. Len(o) <= Len(q) /\ Prefix(q, Len(o)) = o
    BY <1>1, IsPrefixMeans
  <1>3. Len(o) \in 1..Len(q)
    BY <1>1, <1>2
  <1> QED BY <1>1, <1>2, <1>3, PrefixIsPath

(* Each step of unmap_lower_half releases one table, which is a lower one. *)
LEMMA FreeTableInv ==
  ASSUME Inv, FreeTable
  PROVE  Inv'
  <1>1. PICK o \in LowerTables : /\ free' = Freed(pte[o].frame)
                                 /\ pte' = Restrict(pte, {q \in DOMAIN pte : ~IsPrefix(o, q)})
    BY DEF FreeTable
  <1> DEFINE kept == {q \in DOMAIN pte : ~IsPrefix(o, q)}
  <1>2. o \in Owners /\ o \in Path /\ o \in Seq(Index) /\ 1 <= Len(o) /\ Len(o) <= 4
    BY PathIsSeq DEF LowerTables, Owners, Owner, Inv, TypeOK
  <1>3. o \notin kept
    BY <1>2, IsPrefixMeans, PrefixIsPath
  <1>4. ASSUME NEW p \in kept, NEW n \in 1..(Len(p) - 1)
        PROVE  Prefix(p, n) \in kept
    <2>1. p \in Path /\ p \in Seq(Index) /\ 1 <= Len(p) /\ Len(p) <= 4
      BY PathIsSeq DEF Inv, TypeOK
    <2>2. n \in 1..Len(p)
      BY <2>1
    <2>3. /\ Prefix(p, n) \in Path /\ Len(Prefix(p, n)) = n
          /\ \A m \in 1..n : Prefix(Prefix(p, n), m) = Prefix(p, m)
      BY <2>1, <2>2, PrefixIsPath
    <2>4. Prefix(p, n) \in DOMAIN pte
      BY DEF Inv, WalksMeetTables, WellFormed
    <2>5. ~IsPrefix(o, Prefix(p, n))
      <3> SUFFICES ASSUME IsPrefix(o, Prefix(p, n)) PROVE FALSE
        OBVIOUS
      <3>1. Len(o) <= n /\ Prefix(Prefix(p, n), Len(o)) = o
        BY <1>2, <2>3, IsPrefixMeans
      <3>2. Len(o) \in 1..n /\ Len(o) <= Len(p)
        BY <1>2, <2>1, <2>2, <3>1
      <3>3. Prefix(p, Len(o)) = o
        BY <2>3, <3>1, <3>2
      <3> QED BY <1>2, <2>1, <3>2, <3>3, IsPrefixMeans
    <2> QED BY <2>4, <2>5
  <1>5. phase # "freelist" /\ UNCHANGED <<given, phase>>
    BY DEF FreeTable
  <1>6. ASSUME NEW p \in DOMAIN pte, p \notin kept PROVE Lower(p)
    BY <1>2, <1>6, BelowIsLower DEF LowerTables
  <1> QED BY <1>1, <1>2, <1>3, <1>4, <1>5, <1>6, ReleaseInv

(* vm_protect changes permission bits, on which no invariant depends.      *)
LEMMA VmProtectInv ==
  ASSUME Inv, NEW va \in Page, NEW perm \in Perm, MappedByVmMap(va), VmProtect(va, perm)
  PROVE  Inv'
  <1>1. va \in DOMAIN pte /\ phase = "ready"
    BY MappedMeans DEF VmProtect
  <1>2. perm \in Permission
    BY CallerFacts
  <1>3. /\ DOMAIN pte' = DOMAIN pte
        /\ pte' \in [DOMAIN pte -> PtEntry]
        /\ \A p \in DOMAIN pte : /\ pte'[p].frame = pte[p].frame
                                 /\ pte'[p].large = pte[p].large
                                 /\ p # va => pte'[p] = pte[p]
    <2>1. pte[va] \in PtEntry /\ pte \in [DOMAIN pte -> PtEntry]
      BY <1>1 DEF Inv, TypeOK
    <2>2. pte' = [pte EXCEPT ![va] = [pte[va] EXCEPT !.user = perm.user,
                                                     !.writable = perm.writable,
                                                     !.noExecute = perm.executable]]
      BY <1>1, <2>1 DEF VmProtect, PtEntry
    <2>3. /\ pte'[va] \in PtEntry
          /\ pte'[va].frame = pte[va].frame
          /\ pte'[va].large = pte[va].large
      BY <1>1, <1>2, <2>1, <2>2 DEF PtEntry, Permission
    <2>4. DOMAIN pte' = DOMAIN pte /\ \A p \in DOMAIN pte : p # va => pte'[p] = pte[p]
      BY <2>2
    <2> QED BY <2>1, <2>2, <2>3, <2>4
  <1>4. free' = free /\ given' = given /\ phase' = phase
    BY DEF VmProtect
  <1>5. Owners' = Owners /\ Booted' = Booted
    BY <1>3, <1>4 DEF Owners, Owner, IsTable, Booted
  <1>6. TypeOK'
    BY <1>3, <1>4 DEF Inv, TypeOK
  <1>7. OneUse'
    BY <1>3, <1>4, <1>5 DEF Inv, OneUse, Owners
  <1>8. WalksMeetTables'
    BY <1>3, <1>5 DEF Inv, WalksMeetTables, WellFormed, IsTable
  <1>9. UpperHalfUntouched'
    BY <1>3 DEF Inv, UpperHalfUntouched, MappedByVmMap
  <1>10. BootPhase' /\ BootEntriesOnly' /\ RootsAreTables'
    BY <1>1, <1>3, <1>4, <1>5 DEF Inv, BootPhase, BootEntriesOnly, RootsAreTables
  <1> QED BY <1>6, <1>7, <1>8, <1>9, <1>10 DEF Inv

-----------------------------------------------------------------------------
(* vm_map.  The pages it takes come off the front of the freelist, at most *)
(* one for each absent level.                                              *)
LEMMA GrantedMeans ==
  ASSUME NEW va \in Page, free \in Seq(Frame)
  PROVE  /\ Granted(va) \in 0..Len(free)
         /\ Granted(va) \in Nat
         /\ Depth(va) \in Nat
         /\ Depth(va) + Granted(va) <= 4
  BY DepthMeans DEF Granted

(* The entries it creates are new, none of the bootloader's, lie on the    *)
(* way to va, and there is one page of the freelist for each.              *)
LEMMA NewPathsMean ==
  ASSUME Inv, NEW va \in Page, NEW p \in NewPaths(va)
  PROVE  /\ p \in Path /\ (Lower(p) <=> Lower(va))
         /\ p = Prefix(va, Len(p))
         /\ Len(p) \in (Depth(va) + 1)..(Depth(va) + Granted(va))
         /\ Len(p) - Depth(va) \in 1..Granted(va)
         /\ p \notin DOMAIN pte /\ MappedByVmMap(p)
  <1>1. PICK n \in (Depth(va) + 1)..(Depth(va) + Granted(va)) : p = Prefix(va, n)
    BY DEF NewPaths
  <1>2. va \in Path /\ Len(va) = 4
    BY PageIsPath
  <1>3. /\ Granted(va) \in Nat /\ Depth(va) \in Nat
        /\ Depth(va) + Granted(va) <= 4
    BY GrantedMeans DEF Inv, TypeOK
  <1>4. n \in 1..4 /\ n - Depth(va) \in 1..Granted(va) /\ Depth(va) < n
    BY <1>1, <1>3
  <1>5. p \in Path /\ Len(p) = n /\ (Lower(p) <=> Lower(va))
    BY <1>1, <1>2, <1>4, PrefixIsPath
  <1>6. p \notin DOMAIN pte
    <2> DEFINE d == Depth(va)
    <2>1. d \in Nat /\ d < 4 /\ Prefix(va, d + 1) \notin DOMAIN pte
      BY <1>3, <1>4, DepthMeans
    <2>2. CASE n = d + 1
      BY <1>1, <2>1, <2>2
    <2>3. CASE d + 1 < n
      <3>1. d + 1 \in 1..(Len(p) - 1) /\ d + 1 \in 1..n
        BY <1>4, <1>5, <2>1, <2>3
      <3>2. Prefix(p, d + 1) = Prefix(va, d + 1)
        BY <1>1, <1>2, <1>4, <3>1, PrefixIsPath
      <3> QED BY <2>1, <3>1, <3>2 DEF Inv, WalksMeetTables, WellFormed
    <2> QED BY <1>4, <2>1, <2>2, <2>3
  <1>7. MappedByVmMap(p)
    BY <1>6 DEF Inv, UpperHalfUntouched, MappedByVmMap
  <1> QED BY <1>1, <1>4, <1>5, <1>6, <1>7

(* vm_map gives each absent level a page of its own off the freelist,      *)
(* whether or not there are enough of them.                                *)
LEMMA VmMapInv ==
  ASSUME Inv, NEW va \in Page, NEW perm \in Perm, VmMap(va, perm)
  PROVE  Inv'
  <1> DEFINE d == Depth(va)
             g == Granted(va)
             new == NewPaths(va)
             entry(p) == NewEntry(free[Len(p) - d], 5 - Len(p), perm)
  <1>1. /\ pte' = [p \in DOMAIN pte \union new |-> IF p \in new THEN entry(p) ELSE pte[p]]
        /\ free' = SubSeq(free, g + 1, Len(free))
        /\ given' = given /\ phase' = phase /\ phase = "ready"
    BY DEF VmMap
  <1>2. /\ free \in Seq(Frame) /\ g \in 0..Len(free) /\ g \in Nat /\ d \in Nat
        /\ d + g <= 4
    BY GrantedMeans DEF Inv, TypeOK
  <1>3. \A p \in new : /\ p \in Path
                       /\ p = Prefix(va, Len(p))
                       /\ Len(p) \in (d + 1)..(d + g)
                       /\ Len(p) - d \in 1..g
                       /\ p \notin DOMAIN pte
    BY NewPathsMean
  <1>4. \A p \in new : Len(p) - d \in 1..Len(free) /\ free[Len(p) - d] \in Frame
    BY <1>2, <1>3
  <1> HIDE DEF d, g, new
  <1>5. \A p \in new : /\ pte'[p].frame = free[Len(p) - d]
                       /\ ~pte'[p].large
                       /\ pte'[p] \in PtEntry
    BY <1>1, <1>4, CallerFacts DEF NewEntry, PtEntry, Permission
  <1>6. \A p \in DOMAIN pte : p \notin new /\ pte'[p] = pte[p]
    BY <1>1, <1>3
  <1>7. DOMAIN pte' = DOMAIN pte \union new
    BY <1>1
  <1>8. /\ free' \in Seq(Frame)
        /\ Len(free') = Len(free) - g
        /\ \A i \in 1..Len(free') : i + g \in 1..Len(free) /\ free'[i] = free[i + g]
    BY <1>1, <1>2, SuffixMeans
  <1>9. TypeOK'
    <2>1. \A p \in DOMAIN pte' : p \in Path /\ pte'[p] \in PtEntry
      BY <1>3, <1>5, <1>6, <1>7 DEF Inv, TypeOK
    <2>2. pte' \in [DOMAIN pte' -> PtEntry]
      BY <1>1, <1>7, <2>1
    <2> QED BY <1>1, <1>8, <2>1, <2>2 DEF Inv, TypeOK
  <1>10. OneUse'
    <2>1. \A p \in Owners' : p \in new \/ (p \in Owners /\ pte'[p] = pte[p])
      BY <1>1, <1>6, <1>7 DEF Owners, Owner, IsTable, Booted
    <2>2. \A i, j \in 1..Len(free') : free'[i] = free'[j] => i = j
      <3> SUFFICES ASSUME NEW i \in 1..Len(free'), NEW j \in 1..Len(free'),
                          free'[i] = free'[j]
                   PROVE  i = j
        OBVIOUS
      <3>1. i + g = j + g
        BY <1>8 DEF Inv, OneUse
      <3> QED BY <1>2, <3>1
    <2>3. \A p \in Owners' : \A i \in 1..Len(free') : free'[i] # pte'[p].frame
      <3> SUFFICES ASSUME NEW p \in Owners', NEW i \in 1..Len(free'),
                          free'[i] = pte'[p].frame
                   PROVE  FALSE
        OBVIOUS
      <3>1. i + g \in 1..Len(free) /\ free'[i] = free[i + g]
        BY <1>8
      <3>2. CASE p \in new
        <4>1. free[i + g] = free[Len(p) - d] /\ Len(p) - d \in 1..Len(free)
          BY <1>4, <1>5, <3>1, <3>2
        <4>2. i + g = Len(p) - d
          BY <3>1, <4>1 DEF Inv, OneUse
        <4>3. Len(p) - d \in 1..g
          BY <1>3, <3>2
        <4> QED BY <1>2, <4>2, <4>3
      <3>3. CASE p \in Owners /\ pte'[p] = pte[p]
        BY <3>1, <3>3 DEF Inv, OneUse
      <3> QED BY <2>1, <3>2, <3>3
    <2>4. \A p, q \in Owners' : pte'[p].frame = pte'[q].frame => p = q
      <3> SUFFICES ASSUME NEW p \in Owners', NEW q \in Owners',
                          pte'[p].frame = pte'[q].frame
                   PROVE  p = q
        OBVIOUS
      <3>1. CASE p \in new /\ q \in new
        <4>1. free[Len(p) - d] = free[Len(q) - d]
          BY <1>5, <3>1
        <4>2. Len(p) - d = Len(q) - d
          BY <1>4, <3>1, <4>1 DEF Inv, OneUse
        <4>3. PICK m, n \in (d + 1)..(d + g) : m = Len(p) /\ n = Len(q)
          BY <1>3, <3>1
        <4>4. m = n
          BY <1>2, <4>2, <4>3
        <4> QED BY <1>3, <3>1, <4>3, <4>4
      <3>2. CASE p \in new /\ q \in Owners /\ pte'[q] = pte[q]
        BY <1>4, <1>5, <3>2 DEF Inv, OneUse
      <3>3. CASE q \in new /\ p \in Owners /\ pte'[p] = pte[p]
        BY <1>4, <1>5, <3>3 DEF Inv, OneUse
      <3>4. CASE p \in Owners /\ pte'[p] = pte[p] /\ q \in Owners /\ pte'[q] = pte[q]
        BY <3>4 DEF Inv, OneUse
      <3> QED BY <2>1, <3>1, <3>2, <3>3, <3>4
    <2> QED BY <2>2, <2>3, <2>4 DEF OneUse
  <1>11. WalksMeetTables'
    <2>1. ASSUME NEW p \in DOMAIN pte', NEW n \in 1..(Len(p) - 1)
          PROVE  Prefix(p, n) \in DOMAIN pte' /\ IsTable(pte', Prefix(p, n))
      <3>1. CASE p \in DOMAIN pte
        <4>1. Prefix(p, n) \in DOMAIN pte /\ IsTable(pte, Prefix(p, n))
          BY <3>1 DEF Inv, WalksMeetTables, WellFormed
        <4> QED BY <1>6, <1>7, <4>1 DEF IsTable
      <3>2. CASE p \in new
        <4>1. /\ Len(p) \in Nat /\ p = Prefix(va, Len(p)) /\ Len(p) <= 4
              /\ Len(p) <= d + g /\ 1 <= Len(p)
          BY <1>2, <1>3, <3>2
        <4>2. n \in 1..Len(p) /\ n \in 1..4 /\ n < 4 /\ n <= d + g
          BY <1>2, <4>1
        <4>3. va \in Path /\ Len(va) = 4
          BY PageIsPath
        <4>4. Prefix(p, n) = Prefix(va, n)
          <5>1. PICK m \in (d + 1)..(d + g) : m = Len(p)
            BY <1>3, <3>2
          <5>2. m \in 1..4 /\ m \in 1..Len(va)
            BY <1>2, <4>3
          <5>3. n \in 1..m /\ p = Prefix(va, m)
            BY <4>1, <4>2, <5>1
          <5> QED BY <4>3, <5>2, <5>3, PrefixIsPath
        <4>5. Len(Prefix(va, n)) = n
          BY <4>2, <4>3, PrefixIsPath
        <4>6. CASE n <= d
          <5>1. Prefix(va, n) \in DOMAIN pte
            BY <1>2, <4>2, <4>6, DepthMeans DEF d
          <5>2. ~pte[Prefix(va, n)].large
            <6>1. n \in 1..3
              BY <4>2
            <6> QED BY <5>1, <6>1 DEF VmMap, LeavesTables
          <5> QED BY <1>6, <1>7, <4>2, <4>4, <4>5, <5>1, <5>2 DEF IsTable
        <4>7. CASE d < n
          <5>1. n \in (d + 1)..(d + g)
            BY <1>2, <4>2, <4>7
          <5>2. Prefix(va, n) \in new
            BY <5>1 DEF NewPaths, new, d, g
          <5> QED BY <1>5, <1>7, <4>2, <4>4, <4>5, <5>2 DEF IsTable
        <4> QED BY <1>2, <4>2, <4>6, <4>7
      <3> QED BY <1>7, <3>1, <3>2
    <2>2. \A p \in DOMAIN pte' : pte'[p].large => ~Lower(p) /\ p \in DOMAIN BootPte
      BY <1>1, <1>5, <1>6, <1>7 DEF Inv, WalksMeetTables, Booted
    <2> QED BY <2>1, <2>2 DEF WalksMeetTables, WellFormed
  <1>12. UpperHalfUntouched'
    BY <1>6, <1>7 DEF Inv, UpperHalfUntouched
  <1>13. BootPhase' /\ BootEntriesOnly' /\ RootsAreTables'
    BY <1>1, <1>5, <1>6, <1>7 DEF Inv, BootPhase, BootEntriesOnly, RootsAreTables, Booted
  <1> QED BY <1>9, <1>10, <1>11, <1>12, <1>13 DEF Inv

-----------------------------------------------------------------------------
(* Every step keeps the invariant.                                         *)
LEMMA NextInv == Inv /\ [Next]_vars => Inv'
  <1> SUFFICES ASSUME Inv, [Next]_vars PROVE Inv'
    OBVIOUS
  <1>1. CASE FreelistInit
    BY <1>1, FreelistInitInv
  <1>2. CASE FreelistDone
    BY <1>2, FreelistDoneInv
  <1>3. ASSUME NEW va \in NamedPage, NEW perm \in Perm, VmMap(va, perm)
        PROVE  Inv'
    BY <1>3, VmMapInv, CallerFacts
  <1>4. ASSUME NEW va \in NamedPage, NEW perm \in Perm,
               MappedByVmMap(va), VmProtect(va, perm)
        PROVE  Inv'
    BY <1>4, VmProtectInv, CallerFacts
  <1>5. ASSUME NEW va \in NamedPage, MappedByVmMap(va), VmUnmap(va)
        PROVE  Inv'
    BY <1>5, VmUnmapInv, CallerFacts
  <1>6. ASSUME NEW va \in NamedPage, VmMapStrays(va)
        PROVE  Inv'
    BY <1>6, VmMapStraysInv, CallerFacts
  <1>7. CASE StartUnmap
    BY <1>7, StartUnmapInv
  <1>8. CASE FreeTable
    BY <1>8, FreeTableInv
  <1>9. CASE UnmapDone
    BY <1>9, UnmapDoneInv
  <1>10. CASE UNCHANGED vars
    BY <1>10 DEF vars, Inv, TypeOK, OneUse, Owners, Owner, Booted, WalksMeetTables,
                 UpperHalfUntouched, BootPhase, BootEntriesOnly, RootsAreTables
  <1> QED BY <1>1, <1>2, <1>3, <1>4, <1>5, <1>6, <1>7, <1>8, <1>9, <1>10
          DEF Next, Boot, Teardown

(* The invariant holds in every behaviour.                                 *)
LEMMA SpecInv == SafetySpec => []Inv
  BY InitInv, NextInv, PTL DEF SafetySpec

(* The paging code keeps its state well typed on every machine: the        *)
(* freelist holds real pages, never page 0, and the tables real entries.   *)
THEOREM TypeCorrect == Spec => []TypeOK
  BY SpecInv, PTL DEF Spec, Inv

(* Whatever is mapped, unmapped, refused half way or taken down, no page   *)
(* of memory is ever both free and in use, nor in use twice.               *)
THEOREM NoPageHasTwoUses == Spec => []OneUse
  BY SpecInv, PTL DEF Spec, Inv

(* Outside the large pages of the bootloader's higher half, no walk ever   *)
(* mistakes data for a table.                                              *)
THEOREM WalksStayInTables == Spec => []WalksMeetTables
  BY SpecInv, PTL DEF Spec, Inv

(* Every entry that the bootloader left in the upper half, the kernel's    *)
(* own, survives every boot, map, unmap, protection change and exec,       *)
(* although callers may have pages of the upper half mapped.               *)
THEOREM UpperHalfIsSafe == Spec => []UpperHalfUntouched
  BY SpecInv, PTL DEF Spec, Inv

-----------------------------------------------------------------------------
(* Where a page that is free or in use is after a step.                    *)
Accounted(f) == f \in Range(free') \union InUse'

MayBeLost(f) ==
  /\ phase = "unmap"
  /\ \E p \in DOMAIN pte : Lower(p) /\ Len(p) = 4 /\ pte[p].frame = f

LosesOnlyMapped == \A f \in Range(free) \union InUse : Accounted(f) \/ MayBeLost(f)

(* The pages of the freelist are its elements.                             *)
LEMMA FreePages ==
  /\ free \in Seq(Frame) => \A f : f \in Range(free) <=> \E i \in 1..Len(free) : f = free[i]
  /\ free' \in Seq(Frame) =>
       \A f : f \in Range(free') <=> \E i \in 1..Len(free') : f = free'[i]
  BY DEF Range

(* An entry that is kept still accounts for its page.                      *)
LEMMA KeptOwner ==
  ASSUME NEW p \in Owners, p \in DOMAIN pte',
         pte'[p].frame = pte[p].frame, pte'[p].large = pte[p].large,
         Booted => Booted'
  PROVE  Accounted(pte[p].frame)
  <1>1. p \in Owners'
    BY DEF Owners, Owner, IsTable
  <1> QED BY <1>1 DEF Accounted, InUse

(* A step that frees one page loses none from the freelist, and the freed  *)
(* page is on it.                                                          *)
LEMMA FreedIsAccounted ==
  ASSUME Inv, NEW g \in Frame, free' = Freed(g)
  PROVE  \A f \in Range(free) \union {g} : Accounted(f)
  <1>1. /\ free \in Seq(Frame) /\ free' \in Seq(Frame)
        /\ Len(free') = Len(free) + 1 /\ free'[1] = g /\ Len(free) \in Nat
        /\ \A i \in 2..Len(free') : free'[i] = free[i - 1]
    <2>1. free \in Seq(Frame) /\ Len(free) \in Nat
      BY DEF Inv, TypeOK
    <2> QED BY <2>1, FreedMeans
  <1>2. Accounted(g)
    <2>1. 1 \in 1..Len(free')
      BY <1>1
    <2>2. g \in Range(free')
      BY <1>1, <2>1, FreePages
    <2> QED BY <2>2 DEF Accounted
  <1>3. ASSUME NEW f \in Range(free) PROVE Accounted(f)
    <2>1. PICK i \in 1..Len(free) : f = free[i]
      BY <1>1, FreePages
    <2>2. i + 1 \in 2..Len(free') /\ i + 1 \in 1..Len(free') /\ i + 1 - 1 = i
      BY <1>1
    <2>3. free'[i + 1] = f
      BY <1>1, <2>1, <2>2
    <2>4. f \in Range(free')
      BY <1>1, <2>2, <2>3, FreePages
    <2> QED BY <2>4 DEF Accounted
  <1> QED BY <1>2, <1>3

(* Steps that change neither the freelist nor what the entries point to.   *)
LEMMA SamePagesLoseNone ==
  ASSUME free' = free, DOMAIN pte \subseteq DOMAIN pte',
         \A p \in DOMAIN pte : /\ pte'[p].frame = pte[p].frame
                               /\ pte'[p].large = pte[p].large,
         Booted => Booted'
  PROVE  LosesOnlyMapped
  <1>1. ASSUME NEW f \in Range(free) PROVE Accounted(f)
    BY <1>1 DEF Accounted, Range
  <1>2. ASSUME NEW f \in InUse PROVE Accounted(f)
    <2>1. PICK p \in Owners : f = pte[p].frame
      BY DEF InUse
    <2>2. p \in DOMAIN pte
      BY DEF Owners
    <2> QED BY <2>1, <2>2, KeptOwner
  <1> QED BY <1>1, <1>2 DEF LosesOnlyMapped

(* vm_map moves pages from the front of the freelist to entries on the way *)
(* to va, one each, even when there are too few to reach it.               *)
LEMMA VmMapLosesNone ==
  ASSUME Inv, NEW va \in Page, NEW perm \in Perm, VmMap(va, perm)
  PROVE  LosesOnlyMapped
  <1> DEFINE d == Depth(va)
             g == Granted(va)
             new == NewPaths(va)
             entry(p) == NewEntry(free[Len(p) - d], 5 - Len(p), perm)
  <1>1. /\ pte' = [p \in DOMAIN pte \union new |-> IF p \in new THEN entry(p) ELSE pte[p]]
        /\ free' = SubSeq(free, g + 1, Len(free))
        /\ phase' = phase /\ phase = "ready"
    BY DEF VmMap
  <1>2. /\ free \in Seq(Frame) /\ Len(free) \in Nat /\ g \in 0..Len(free) /\ g \in Nat
        /\ d \in Nat /\ d + g <= 4
    BY GrantedMeans DEF Inv, TypeOK
  <1>3. \A p \in DOMAIN pte : p \in DOMAIN pte' /\ pte'[p] = pte[p]
    BY <1>1, NewPathsMean
  <1>4. /\ free' \in Seq(Frame) /\ Len(free') = Len(free) - g
        /\ \A i \in 1..Len(free') : free'[i] = free[i + g]
    BY <1>1, <1>2, SuffixMeans
  <1> HIDE DEF d, g, new
  <1>5. ASSUME NEW i \in 1..g PROVE Accounted(free[i])
    <2> DEFINE p == Prefix(va, d + i)
    <2>1. d + i \in (d + 1)..(d + g) /\ d + i \in 1..4 /\ d + i - d = i
      BY <1>2
    <2>2. p \in new
      BY <2>1 DEF NewPaths, new, d, g
    <2>3. Len(p) = d + i
      BY <2>1, PageIsPath, PrefixIsPath
    <2> HIDE DEF p
    <2>4. p \in DOMAIN pte' /\ pte'[p].frame = free[i] /\ ~pte'[p].large
      <3>1. p \in DOMAIN pte' /\ pte'[p] = NewEntry(free[Len(p) - d], 5 - Len(p), perm)
        BY <1>1, <2>2
      <3>2. Len(p) - d = i
        BY <1>2, <2>3
      <3>3. pte'[p] = NewEntry(free[i], 5 - Len(p), perm)
        BY <3>1, <3>2, Zenon
      <3> QED BY <3>1, <3>3 DEF NewEntry
    <2>5. MappedByVmMap(p)
      BY <2>2, NewPathsMean DEF new
    <2>6. p \in Owners'
      BY <1>1, <2>4, <2>5 DEF Owners, Owner, Booted
    <2> QED BY <2>4, <2>6 DEF Accounted, InUse
  <1>6. ASSUME NEW f \in Range(free) PROVE Accounted(f)
    <2>1. PICK i \in 1..Len(free) : f = free[i]
      BY <1>2, FreePages
    <2>2. CASE i \in 1..g
      BY <1>5, <2>1, <2>2
    <2>3. CASE i > g
      <3>1. i - g \in 1..Len(free') /\ i - g + g = i
        BY <1>2, <1>4, <2>3
      <3>2. f = free'[i - g]
        BY <1>4, <2>1, <3>1
      <3>3. f \in Range(free')
        BY <1>4, <3>1, <3>2, FreePages
      <3> QED BY <3>3 DEF Accounted
    <2>4. i \in 1..g \/ i > g
      BY <1>2
    <2> QED BY <2>2, <2>3, <2>4
  <1>7. ASSUME NEW f \in InUse PROVE Accounted(f)
    <2>1. PICK p \in Owners : f = pte[p].frame
      BY DEF InUse
    <2>2. p \in DOMAIN pte
      BY DEF Owners
    <2>3. Booted => Booted'
      BY <1>1 DEF Booted
    <2> QED BY <1>3, <2>1, <2>2, <2>3, KeptOwner
  <1> QED BY <1>6, <1>7 DEF LosesOnlyMapped

(* vm_unmap puts the page of its leaf back.                                *)
LEMMA VmUnmapLosesNone ==
  ASSUME Inv, NEW va \in Page, VmUnmap(va)
  PROVE  LosesOnlyMapped
  <1>1. /\ va \in DOMAIN pte /\ pte[va].frame \in Frame
        /\ free' = Freed(pte[va].frame) /\ phase' = phase
    BY MappedMeans DEF VmUnmap, Inv, TypeOK, PtEntry
  <1>2. \A p \in DOMAIN pte \ {va} : p \in DOMAIN pte' /\ pte'[p] = pte[p]
    BY DEF VmUnmap, Restrict
  <1>3. \A f \in Range(free) \union {pte[va].frame} : Accounted(f)
    BY <1>1, FreedIsAccounted
  <1>4. ASSUME NEW f \in InUse PROVE Accounted(f)
    <2>1. PICK p \in Owners : f = pte[p].frame
      BY DEF InUse
    <2>2. CASE p = va
      BY <1>3, <2>1, <2>2
    <2>3. CASE p # va
      <3>1. p \in DOMAIN pte \ {va}
        BY <2>3 DEF Owners
      <3>2. Booted => Booted'
        BY <1>1 DEF Booted
      <3> QED BY <1>2, <2>1, <3>1, <3>2, KeptOwner
    <2> QED BY <2>2, <2>3
  <1> QED BY <1>3, <1>4 DEF LosesOnlyMapped

(* The order of unmap_lower_half: when a table is freed no table is left   *)
(* below it, so what goes with it are leaves.                              *)
LEMMA NoTableBelow ==
  ASSUME Inv, NEW o \in LowerTables, \A q \in LowerTables \ {o} : Before(o, q),
         NEW p \in DOMAIN pte, IsPrefix(o, p), p # o
  PROVE  p \in Path /\ Lower(p) /\ ~IsTable(pte, p)
  <1>1. /\ o \in Path /\ o \in Seq(Index) /\ Len(o) \in Nat /\ 1 <= Len(o) /\ Len(o) <= 4
        /\ p \in Path /\ p \in Seq(Index) /\ Len(p) \in Nat /\ 1 <= Len(p) /\ Len(p) <= 4
        /\ Lower(o)
    BY PathIsSeq DEF LowerTables, Inv, TypeOK
  <1>2. Len(o) <= Len(p) /\ Prefix(p, Len(o)) = o /\ Len(o) \in 1..Len(p)
    BY <1>1, IsPrefixMeans
  <1>3. Lower(p)
    BY <1>1, <1>2, PrefixIsPath
  <1>4. \A n \in 1..Len(o) : o[n] = p[n]
    BY <1>1, <1>2 DEF Prefix
  <1>5. ASSUME IsTable(pte, p) PROVE FALSE
    <2>1. Before(o, p)
      BY <1>3, <1>5 DEF LowerTables
    <2>2. ~IsStrictPrefix(p, o)
      <3> SUFFICES ASSUME IsPrefix(p, o) PROVE FALSE
        BY DEF IsStrictPrefix
      <3>1. Len(p) <= Len(o) /\ Prefix(o, Len(p)) = p
        BY <1>1, IsPrefixMeans
      <3>2. Len(p) = Len(o)
        BY <1>1, <1>2, <3>1
      <3>3. Prefix(o, Len(o)) = o
        BY <1>1, PrefixIsPath, Len(o) \in 1..Len(o)
      <3> QED BY <3>1, <3>2, <3>3
    <2>3. PICK n \in 1..Len(o) : o[n] < p[n]
      BY <2>1, <2>2 DEF Before
    <2>4. o[n] = p[n] /\ o[n] \in Nat
      <3>1. o \in [1..Len(o) -> Index]
        BY <1>1, PathIsSeq
      <3>2. o[n] \in Index
        BY <3>1
      <3> QED BY <1>4, <3>2, IndexFacts
    <2> QED BY <2>3, <2>4
  <1> QED BY <1>1, <1>3, <1>5

(* unmap_lower_half puts the page of each table back and loses the pages   *)
(* that a last-level table maps; at boot those were not in use.            *)
LEMMA FreeTableLosesMapped ==
  ASSUME Inv, FreeTable
  PROVE  LosesOnlyMapped
  <1>1. PICK o \in LowerTables : /\ \A q \in LowerTables \ {o} : Before(o, q)
                                 /\ free' = Freed(pte[o].frame)
                                 /\ pte' = Restrict(pte, {q \in DOMAIN pte : ~IsPrefix(o, q)})
    BY DEF FreeTable
  <1>2. phase' = phase
    BY DEF FreeTable
  <1>3. pte[o].frame \in Frame
    BY DEF LowerTables, Inv, TypeOK, PtEntry
  <1>4. \A f \in Range(free) \union {pte[o].frame} : Accounted(f)
    BY <1>1, <1>3, FreedIsAccounted
  <1>5. ASSUME NEW f \in InUse PROVE Accounted(f) \/ MayBeLost(f)
    <2>1. PICK p \in Owners : f = pte[p].frame
      BY DEF InUse
    <2>2. p \in DOMAIN pte /\ Owner(p)
      BY DEF Owners
    <2>3. CASE p = o
      BY <1>4, <2>1, <2>3
    <2>4. CASE ~IsPrefix(o, p)
      <3>1. p \in DOMAIN pte' /\ pte'[p] = pte[p]
        BY <1>1, <2>2, <2>4 DEF Restrict
      <3>2. Booted => Booted'
        BY <1>2 DEF Booted
      <3> QED BY <2>1, <3>1, <3>2, KeptOwner
    <2>5. CASE IsPrefix(o, p) /\ p # o
      <3>1. p \in Path /\ Lower(p) /\ ~IsTable(pte, p)
        BY <1>1, <2>2, <2>5, NoTableBelow
      <3>2. phase = "unmap"
        BY <2>2, <3>1 DEF Owner, FreeTable, Booted
      <3>3. ~pte[p].large
        BY <2>2, <3>1, <3>2 DEF Inv, WalksMeetTables, Booted
      <3>4. Len(p) = 4
        <4>1. PICK n \in 1..4 : n = Len(p) /\ ~(n < 4)
          BY <3>1, <3>3, PathIsSeq DEF IsTable
        <4> QED BY <4>1
      <3> QED BY <2>1, <2>2, <3>1, <3>2, <3>4 DEF MayBeLost
    <2> QED BY <2>3, <2>4, <2>5
  <1> QED BY <1>4, <1>5 DEF LosesOnlyMapped

(* freelist_init adds pages; page 0 it leaves out, which was not in use.   *)
LEMMA FreelistInitLosesNone ==
  ASSUME Inv, FreelistInit
  PROVE  LosesOnlyMapped
  <1> DEFINE g == UsableFrames[given + 1]
  <1>1. /\ free' = Freed(g) /\ pte' = pte /\ phase' = phase
        /\ g \in Frame \union {NullFrame}
    BY UsableFacts DEF FreelistInit, Inv, TypeOK
  <1>2. CASE g = NullFrame
    BY <1>1, <1>2, SamePagesLoseNone DEF Freed, Booted
  <1>3. CASE g \in Frame
    <2>1. \A f \in Range(free) : Accounted(f)
      BY <1>1, <1>3, FreedIsAccounted
    <2>2. ASSUME NEW f \in InUse PROVE Accounted(f)
      <3>1. PICK p \in Owners : f = pte[p].frame
        BY DEF InUse
      <3>2. p \in DOMAIN pte'
        BY <1>1 DEF Owners
      <3>3. Booted => Booted'
        BY <1>1 DEF Booted
      <3> QED BY <1>1, <3>1, <3>2, <3>3, KeptOwner
    <2> QED BY <2>1, <2>2 DEF LosesOnlyMapped
  <1> QED BY <1>1, <1>2, <1>3

LEMMA NextLosesOnlyMapped ==
  ASSUME Inv, Next
  PROVE  LosesOnlyMapped
  <1>1. ASSUME \/ FreelistDone \/ StartUnmap \/ UnmapDone
               \/ \E va \in NamedPage : VmMapStrays(va)
        PROVE  LosesOnlyMapped
    <2>1. /\ free' = free /\ pte' = pte
          /\ Booted => Booted'
      BY <1>1 DEF FreelistDone, StartUnmap, UnmapDone, VmMapStrays, Booted
    <2> QED BY <2>1, SamePagesLoseNone
  <1>2. ASSUME NEW va \in NamedPage, NEW perm \in Perm, VmProtect(va, perm)
        PROVE  LosesOnlyMapped
    <2>1. va \in DOMAIN pte /\ pte[va] \in PtEntry
      BY <1>2, MappedMeans, CallerFacts DEF VmProtect, Inv, TypeOK
    <2>2. pte' = [pte EXCEPT ![va] = [pte[va] EXCEPT !.user = perm.user,
                                                     !.writable = perm.writable,
                                                     !.noExecute = perm.executable]]
      BY <1>2, <2>1 DEF VmProtect, PtEntry
    <2>3. /\ DOMAIN pte' = DOMAIN pte
          /\ \A p \in DOMAIN pte : /\ pte'[p].frame = pte[p].frame
                                   /\ pte'[p].large = pte[p].large
      BY <2>1, <2>2 DEF PtEntry
    <2>4. free' = free /\ (Booted => Booted')
      BY <1>2 DEF VmProtect, Booted
    <2> QED BY <2>3, <2>4, SamePagesLoseNone
  <1>3. ASSUME NEW va \in NamedPage, NEW perm \in Perm, VmMap(va, perm)
        PROVE  LosesOnlyMapped
    BY <1>3, VmMapLosesNone, CallerFacts
  <1>4. ASSUME NEW va \in NamedPage, VmUnmap(va)
        PROVE  LosesOnlyMapped
    BY <1>4, VmUnmapLosesNone, CallerFacts
  <1> QED BY <1>1, <1>2, <1>3, <1>4, FreelistInitLosesNone, FreeTableLosesMapped
          DEF Next, Boot, Teardown

(* Memory leaks nowhere but in the teardown of an address space, and there *)
(* only the pages that the program had mapped (page.c:80): not from a      *)
(* vm_map that runs out half way, not from a table, not at boot.           *)
THEOREM LossesAreMappedPages == Spec => OnlyMappedPagesAreLost
  <1>1. Inv /\ [Next]_vars =>
          [\A f \in Range(free) \union InUse :
             \/ f \in Range(free') \union InUse'
             \/ /\ phase = "unmap"
                /\ \E p \in DOMAIN pte : Lower(p) /\ Len(p) = 4 /\ pte[p].frame = f]_vars
    BY NextLosesOnlyMapped DEF LosesOnlyMapped, Accounted, MayBeLost
  <1> QED BY <1>1, SpecInv, PTL DEF Spec, SafetySpec, OnlyMappedPagesAreLost

-----------------------------------------------------------------------------
(* The tree implements the map of pages.  What callers are shown of an     *)
(* entry, and which entries they are shown.                                *)
Shows(e) == [frame |-> e.frame,
             perm |-> [user |-> e.user, writable |-> e.writable, executable |-> e.noExecute]]

Leaf(p) == Lower(p) /\ Len(p) = 4

LEMMA MappingMeans ==
  /\ DOMAIN UserMapping = {p \in DOMAIN pte : Booted /\ Leaf(p)}
  /\ \A p \in DOMAIN UserMapping : UserMapping[p] = Shows(pte[p])
  /\ UserMapping = [p \in DOMAIN UserMapping |-> Shows(pte[p])]
  /\ DOMAIN UserMapping' = {p \in DOMAIN pte' : Booted' /\ Leaf(p)}
  /\ \A p \in DOMAIN UserMapping' : UserMapping'[p] = Shows(pte'[p])
  /\ UserMapping' = [p \in DOMAIN UserMapping' |-> Shows(pte'[p])]
  BY DEF UserMapping, Leaf, Shows

(* The empty map is the empty sequence.                                    *)
LEMMA EmptyMap ==
  /\ DOMAIN UserMapping = {} => UserMapping = << >>
  /\ DOMAIN UserMapping' = {} => UserMapping' = << >>
  <1>1. /\ UserMapping = [p \in DOMAIN UserMapping |-> Shows(pte[p])]
        /\ UserMapping' = [p \in DOMAIN UserMapping' |-> Shows(pte'[p])]
    BY MappingMeans
  <1> QED BY <1>1

(* Steps that leave the leaves of the user half alone.                     *)
LEMMA SameMapping ==
  ASSUME DOMAIN UserMapping' = DOMAIN UserMapping,
         \A p \in DOMAIN UserMapping : pte'[p] = pte[p]
  PROVE  UserMapping' = UserMapping
  BY MappingMeans

(* What is mapped is a level-1 entry of the user half, an owner.           *)
LEMMA MappedOwns ==
  ASSUME NEW p \in DOMAIN UserMapping
  PROVE  /\ p \in Owners /\ p \in DOMAIN pte /\ Leaf(p)
         /\ UserMapping[p].frame = pte[p].frame
  BY MappingMeans DEF Owners, Owner, MappedByVmMap, Leaf, Shows

(* vm_map maps the page when it reaches it, and otherwise shows nothing of *)
(* the tables it made on the way.                                          *)
LEMMA VmMapRefines ==
  ASSUME Inv, NEW va \in Page, NEW perm \in Perm, VmMap(va, perm)
  PROVE  PM!Map(va) \/ UNCHANGED PM!vars
  <1> DEFINE d == Depth(va)
             g == Granted(va)
             new == NewPaths(va)
  <1>1. /\ phase' = phase /\ phase = "ready" /\ Booted' = Booted /\ Booted
        /\ DOMAIN pte' = DOMAIN pte \union new
        /\ \A p \in new : pte'[p] = NewEntry(free[Len(p) - d], 5 - Len(p), perm)
        /\ \A p \in DOMAIN pte : p \notin new /\ pte'[p] = pte[p]
    BY NewPathsMean DEF VmMap, Booted
  <1>2. /\ free \in Seq(Frame) /\ Len(free) \in Nat /\ g \in 0..Len(free) /\ g \in Nat
        /\ d \in Nat /\ d + g <= 4 /\ d \in 0..4
    BY GrantedMeans, DepthMeans DEF Inv, TypeOK
  <1>3. va \in Path /\ Len(va) = 4 /\ Prefix(va, 4) = va
    <2>1. va \in Path /\ Len(va) = 4
      BY PageIsPath
    <2> QED BY <2>1, PrefixIsPath, 4 \in 1..4
  <1>4. \A p \in new : Leaf(p) => p = va /\ Lower(va)
    BY <1>3, NewPathsMean DEF Leaf
  <1> HIDE DEF d, g, new
  <1>5. CASE va \notin new \/ ~Lower(va)
    <2>1. DOMAIN UserMapping' = DOMAIN UserMapping
      BY <1>1, <1>4, <1>5, MappingMeans
    <2>2. \A p \in DOMAIN UserMapping : pte'[p] = pte[p]
      BY <1>1, MappingMeans
    <2>3. UserMapping' = UserMapping
      BY <2>1, <2>2, SameMapping
    <2> QED BY <1>1, <2>3 DEF PM!vars
  <1>6. CASE va \in new /\ Lower(va)
    <2>1. va \notin DOMAIN pte /\ va \notin DOMAIN UserMapping
      BY <1>1, <1>6, MappingMeans
    <2>2. 4 - d \in 1..g /\ 4 - d \in 1..Len(free)
      <3>1. Len(va) - d \in 1..g
        BY <1>6, NewPathsMean DEF new, d, g
      <3>2. 4 - d \in 1..g
        BY <1>3, <3>1
      <3> QED BY <1>2, <3>2
    <2> DEFINE f == free[4 - d]
    <2>3. f \in Frame
      BY <1>2, <2>2
    <2>4. pte'[va] = NewEntry(f, 1, perm)
      <3>1. pte'[va] = NewEntry(free[Len(va) - d], 5 - Len(va), perm)
        BY <1>1, <1>6
      <3>2. 5 - 4 = 1
        OBVIOUS
      <3> QED BY <1>3, <3>1, <3>2
    <2>5. \A q \in DOMAIN UserMapping : UserMapping[q].frame # f
      BY <2>2, MappedOwns DEF Inv, OneUse
    <2> HIDE DEF f
    <2>6. perm \in Permission
      BY CallerFacts
    <2>7. Shows(pte'[va]) = [frame |-> f, perm |-> perm]
      <3>1. /\ pte'[va].frame = f /\ pte'[va].user = perm.user
            /\ pte'[va].writable = perm.writable /\ pte'[va].noExecute = perm.executable
        <4>1. /\ NewEntry(f, 1, perm).frame = f
              /\ NewEntry(f, 1, perm).user = perm.user
              /\ NewEntry(f, 1, perm).writable = perm.writable
              /\ NewEntry(f, 1, perm).noExecute = perm.executable
          BY <2>6 DEF NewEntry, Permission
        <4> QED BY <2>4, <4>1
      <3>2. perm = [user |-> perm.user, writable |-> perm.writable,
                    executable |-> perm.executable]
        BY <2>6 DEF Permission
      <3> QED BY <3>1, <3>2 DEF Shows
    <2>8. DOMAIN UserMapping' = DOMAIN UserMapping \union {va}
      BY <1>1, <1>3, <1>4, <1>6, MappingMeans DEF Leaf
    <2>9. \A q \in DOMAIN UserMapping : pte'[q] = pte[q]
      BY <1>1, MappingMeans
    <2>10. UserMapping' = [q \in DOMAIN UserMapping \union {va} |->
                             IF q = va THEN [frame |-> f, perm |-> perm] ELSE UserMapping[q]]
      BY <2>1, <2>7, <2>8, <2>9, MappingMeans
    <2> QED BY <1>1, <2>1, <2>3, <2>5, <2>6, <2>10 DEF PM!Map
  <1> QED BY <1>5, <1>6

(* vm_unmap and vm_protect change the map at the page they are given, if   *)
(* it is one of the user half.                                             *)
LEMMA VmUnmapRefines ==
  ASSUME Inv, NEW va \in Page, Lower(va), VmUnmap(va)
  PROVE  PM!Unmap(va)
  <1>1. /\ va \in DOMAIN pte /\ phase = "ready" /\ phase' = phase /\ Booted' /\ Booted
        /\ DOMAIN pte' = DOMAIN pte \ {va}
        /\ \A p \in DOMAIN pte \ {va} : pte'[p] = pte[p]
    BY MappedMeans DEF VmUnmap, Restrict, Booted
  <1>2. va \in DOMAIN UserMapping /\ DOMAIN UserMapping' = DOMAIN UserMapping \ {va}
    BY <1>1, PageIsPath, MappingMeans DEF Leaf
  <1>3. \A p \in DOMAIN UserMapping' : UserMapping'[p] = UserMapping[p]
    BY <1>1, <1>2, MappingMeans
  <1>4. UserMapping' = PM!Restrict(UserMapping, DOMAIN UserMapping \ {va})
    BY <1>2, <1>3, MappingMeans DEF PM!Restrict
  <1> QED BY <1>1, <1>2, <1>4 DEF PM!Unmap

LEMMA VmProtectRefines ==
  ASSUME Inv, NEW va \in Page, Lower(va), NEW perm \in Perm, VmProtect(va, perm)
  PROVE  PM!Protect(va)
  <1>1. /\ va \in DOMAIN pte /\ pte[va] \in PtEntry /\ phase = "ready" /\ phase' = phase
        /\ perm \in Permission /\ Booted' /\ Booted
    BY MappedMeans, CallerFacts DEF VmProtect, Inv, TypeOK, Booted
  <1>2. pte' = [pte EXCEPT ![va] = [pte[va] EXCEPT !.user = perm.user,
                                                   !.writable = perm.writable,
                                                   !.noExecute = perm.executable]]
    BY <1>1 DEF VmProtect, PtEntry
  <1>3. /\ DOMAIN pte' = DOMAIN pte
        /\ \A p \in DOMAIN pte : p # va => pte'[p] = pte[p]
        /\ pte'[va].frame = pte[va].frame /\ pte'[va].user = perm.user
        /\ pte'[va].writable = perm.writable /\ pte'[va].noExecute = perm.executable
    BY <1>1, <1>2 DEF PtEntry
  <1>4. va \in DOMAIN UserMapping /\ DOMAIN UserMapping' = DOMAIN UserMapping
    BY <1>1, <1>3, PageIsPath, MappingMeans DEF Leaf
  <1>5. UserMapping'[va] = [UserMapping[va] EXCEPT !.perm = perm]
    <2>1. UserMapping'[va] = Shows(pte'[va]) /\ UserMapping[va] = Shows(pte[va])
      BY <1>4, MappingMeans
    <2>2. perm = [user |-> perm.user, writable |-> perm.writable,
                  executable |-> perm.executable]
      BY <1>1 DEF Permission
    <2>3. Shows(pte'[va]) = [frame |-> pte[va].frame, perm |-> perm]
      BY <1>3, <2>2 DEF Shows
    <2> QED BY <2>1, <2>3 DEF Shows
  <1>6. \A p \in DOMAIN UserMapping : p # va => UserMapping'[p] = UserMapping[p]
    BY <1>3, <1>4, MappingMeans
  <1>7. UserMapping' = [UserMapping EXCEPT ![va].perm = perm]
    BY <1>4, <1>5, <1>6, MappingMeans
  <1> QED BY <1>1, <1>4, <1>7 DEF PM!Protect

(* Calls for pages of the upper half do not show.                          *)
LEMMA UpperLeafIsHidden ==
  ASSUME NEW va \in Page, ~Lower(va), va \in DOMAIN pte, phase' = phase,
         DOMAIN pte' = DOMAIN pte \/ DOMAIN pte' = DOMAIN pte \ {va},
         \A p \in DOMAIN pte' : p # va => pte'[p] = pte[p]
  PROVE  UNCHANGED PM!vars
  <1>1. Booted' = Booted
    BY DEF Booted
  <1>2. \A p \in DOMAIN pte' : p # va => pte'[p] = pte[p]
    OBVIOUS
  <1>3. DOMAIN UserMapping' = DOMAIN UserMapping
    BY <1>1, <1>2, MappingMeans DEF Leaf
  <1>4. \A p \in DOMAIN UserMapping : pte'[p] = pte[p]
    BY <1>2, <1>3, MappingMeans DEF Leaf
  <1>5. UserMapping' = UserMapping
    BY <1>3, <1>4, SameMapping
  <1> QED BY <1>5 DEF PM!vars

LEMMA UpperUnmapStutters ==
  ASSUME NEW va \in Page, ~Lower(va), VmUnmap(va)
  PROVE  UNCHANGED PM!vars
  BY MappedMeans, UpperLeafIsHidden DEF VmUnmap, Restrict

LEMMA UpperProtectStutters ==
  ASSUME NEW va \in Page, ~Lower(va), NEW perm \in Perm, VmProtect(va, perm)
  PROVE  UNCHANGED PM!vars
  <1>1. /\ va \in DOMAIN pte /\ phase' = phase /\ DOMAIN pte' = DOMAIN pte
        /\ \A p \in DOMAIN pte : p # va => pte'[p] = pte[p]
    BY MappedMeans DEF VmProtect
  <1> QED BY <1>1, UpperLeafIsHidden

(* A table taken down takes the pages of its leaves off the map; those of  *)
(* the bootloader were never on it.                                        *)
LEMMA FreeTableRefines ==
  ASSUME Inv, FreeTable
  PROVE  PM!Clear
  <1>1. PICK o \in LowerTables : pte' = Restrict(pte, {q \in DOMAIN pte : ~IsPrefix(o, q)})
    BY DEF FreeTable
  <1>2. /\ DOMAIN pte' \subseteq DOMAIN pte
        /\ \A q \in DOMAIN pte' : pte'[q] = pte[q]
    BY <1>1 DEF Restrict
  <1>3. phase' = phase /\ phase \notin {"ready", "stray"} /\ Booted' = Booted
    BY DEF FreeTable, Booted
  <1>4. DOMAIN UserMapping' \subseteq DOMAIN UserMapping
    BY <1>2, <1>3, MappingMeans
  <1>5. \A p \in DOMAIN UserMapping' : UserMapping'[p] = UserMapping[p]
    BY <1>2, <1>4, MappingMeans
  <1>6. UserMapping' = PM!Restrict(UserMapping, DOMAIN UserMapping')
    BY <1>5, MappingMeans DEF PM!Restrict
  <1> QED BY <1>3, <1>4, <1>6 DEF PM!Clear

LEMMA StepRefines == Inv /\ [Next]_vars => [PM!Next]_(PM!vars)
  <1> SUFFICES ASSUME Inv, [Next]_vars PROVE [PM!Next]_(PM!vars)
    OBVIOUS
  <1>1. CASE FreelistInit \/ FreelistDone
    <2>1. phase = "freelist" /\ phase' \in {"freelist", "boot_unmap"}
      BY <1>1 DEF FreelistInit, FreelistDone
    <2>2. UserMapping = << >> /\ UserMapping' = << >>
      BY <2>1, MappingMeans, EmptyMap DEF Booted
    <2> QED BY <2>1, <2>2 DEF PM!vars
  <1>2. ASSUME NEW va \in NamedPage, NEW perm \in Perm, VmMap(va, perm)
        PROVE  [PM!Next]_(PM!vars)
    BY <1>2, VmMapRefines, CallerFacts DEF PM!Next
  <1>3. ASSUME NEW va \in NamedPage, NEW perm \in Perm, VmProtect(va, perm)
        PROVE  [PM!Next]_(PM!vars)
    <2>1. CASE Lower(va)
      BY <1>3, <2>1, VmProtectRefines, CallerFacts DEF PM!Next
    <2>2. CASE ~Lower(va)
      BY <1>3, <2>2, UpperProtectStutters, CallerFacts
    <2> QED BY <2>1, <2>2
  <1>4. ASSUME NEW va \in NamedPage, VmUnmap(va)
        PROVE  [PM!Next]_(PM!vars)
    <2>1. CASE Lower(va)
      BY <1>4, <2>1, VmUnmapRefines, CallerFacts DEF PM!Next
    <2>2. CASE ~Lower(va)
      BY <1>4, <2>2, UpperUnmapStutters, CallerFacts
    <2> QED BY <2>1, <2>2
  <1>5. CASE StartUnmap
    <2>1. phase = "ready" /\ phase' = "unmap" /\ pte' = pte
      BY <1>5 DEF StartUnmap
    <2>2. UserMapping' = UserMapping
      BY <2>1 DEF UserMapping, Booted
    <2> QED BY <2>1, <2>2 DEF PM!Next, PM!StartClear
  <1>6. CASE FreeTable
    BY <1>6, FreeTableRefines DEF PM!Next
  <1>7. CASE UnmapDone
    <2>1. /\ phase \notin {"ready", "stray"} /\ phase' = "ready" /\ pte' = pte
          /\ \A p \in DOMAIN pte : ~Lower(p)
      BY <1>7, NoTableNoEntry DEF UnmapDone
    <2>2. UserMapping = << >> /\ UserMapping' = << >>
      BY <2>1, MappingMeans, EmptyMap DEF Leaf
    <2> QED BY <2>1, <2>2 DEF PM!Next, PM!Cleared
  <1>8. CASE UNCHANGED vars
    BY <1>8 DEF vars, PM!vars, UserMapping, Booted
  <1>9. ASSUME NEW va \in NamedPage, VmMapStrays(va)
        PROVE  [PM!Next]_(PM!vars)
    BY <1>9 DEF VmMapStrays, PM!vars, UserMapping, Booted
  <1> QED BY <1>1, <1>2, <1>3, <1>4, <1>5, <1>6, <1>7, <1>8, <1>9
          DEF Next, Boot, Teardown

LEMMA InitRefines == Init => PM!Init
  <1> SUFFICES ASSUME Init PROVE PM!Init
    OBVIOUS
  <1>1. phase = "freelist"
    BY DEF Init
  <1>2. UserMapping = << >>
    BY <1>1, MappingMeans, EmptyMap DEF Booted
  <1> QED BY <1>1, <1>2 DEF PM!Init

(* On every machine, callers of vm_map, vm_unmap and vm_protect may think  *)
(* of a map from pages of the user half to memory of their own: no table   *)
(* ever shows through, whichever calls fail, whatever pages of the upper   *)
(* half are named and whatever is taken down between the calls.            *)
THEOREM TreeIsAPageMap == Spec => ImplementsPageMap
  <1>1. Spec => [][PM!Next]_(PM!vars)
    BY SpecInv, StepRefines, PTL DEF Spec, SafetySpec
  <1> QED BY <1>1, InitRefines, PTL DEF Spec, SafetySpec, ImplementsPageMap, PM!Spec

-----------------------------------------------------------------------------
(* What vm_map and vm_protect do to the leaf they are called for and to    *)
(* the other entries, for the modules that call them.                      *)
LEMMA VmMapEffect ==
  ASSUME Inv, NEW va \in Page, NEW perm \in Perm, VmMap(va, perm)
  PROVE  /\ phase = "ready" /\ phase' = phase
         /\ \A p \in DOMAIN pte : p \in DOMAIN pte' /\ pte'[p] = pte[p]
         /\ \A p \in DOMAIN pte' \ DOMAIN pte : Len(p) = 4 => p = va
         /\ VmMapReturns(va) =>
              /\ va \in DOMAIN pte' \ DOMAIN pte /\ MappedByVmMap(va)
              /\ pte'[va].user = perm.user
              /\ pte'[va].writable = perm.writable
              /\ pte'[va].noExecute = perm.executable
         /\ ~VmMapReturns(va) => va \in DOMAIN pte \/ free' = <<>>
         /\ free = <<>> => free' = <<>> /\ ~VmMapReturns(va)
  <1> DEFINE d == Depth(va)
             g == Granted(va)
             new == NewPaths(va)
  <1>1. /\ phase = "ready" /\ phase' = phase
        /\ DOMAIN pte' = DOMAIN pte \union new
        /\ \A p \in new : pte'[p] = NewEntry(free[Len(p) - d], 5 - Len(p), perm)
        /\ \A p \in DOMAIN pte : pte'[p] = pte[p]
    BY NewPathsMean DEF VmMap
  <1>2. ASSUME VmMapReturns(va) PROVE va \in new
    <2>1. d \in 0..4 /\ d # 4 /\ g = 4 - d
      BY <1>2, DepthMeans DEF VmMapReturns, Mapped
    <2>2. va \in Path /\ Len(va) = 4
      BY PageIsPath
    <2>3. Prefix(va, 4) = va
      BY <2>2, PrefixIsPath, 4 \in 1..4
    <2>4. 4 \in (d + 1)..(d + g)
      BY <2>1
    <2> QED BY <2>3, <2>4 DEF NewPaths
  <1>3. ASSUME NEW p \in new, Len(p) = 4 PROVE p = va
    <2>1. p = Prefix(va, 4) /\ va \in Path /\ Len(va) = 4
      BY <1>3, NewPathsMean, PageIsPath
    <2> QED BY <2>1, PrefixIsPath, 4 \in 1..4
  <1>4. ASSUME ~VmMapReturns(va) PROVE va \in DOMAIN pte \/ free' = <<>>
    <2>1. CASE Mapped(va)
      BY <2>1, MappedMeans
    <2>2. CASE ~Mapped(va)
      <3>1. /\ free \in Seq(Frame) /\ Len(free) \in Nat /\ d \in 0..4
            /\ g # 4 - d
        BY <1>4, <2>2, DepthMeans DEF VmMapReturns, Inv, TypeOK
      <3>2. g = Len(free)
        BY <3>1 DEF Granted
      <3>3. free' = SubSeq(free, Len(free) + 1, Len(free))
        BY <3>2 DEF VmMap
      <3> QED BY <3>1, <3>3
    <2> QED BY <2>1, <2>2
  <1>5. \A p \in new : p \notin DOMAIN pte /\ MappedByVmMap(p)
    BY NewPathsMean
  <1>6. ASSUME free = <<>> PROVE free' = <<>> /\ ~VmMapReturns(va)
    <2>1. Len(free) = 0 /\ d \in 0..4
      BY <1>6, DepthMeans
    <2>2. g = 0
      BY <2>1 DEF Granted
    <2>3. free' = SubSeq(free, 1, 0)
      BY <1>6, <2>2 DEF VmMap
    <2>4. ~VmMapReturns(va)
      BY <2>1, <2>2 DEF VmMapReturns, Mapped
    <2> QED BY <1>6, <2>3, <2>4
  <1> HIDE DEF d, g, new
  <1>7. ASSUME va \in new
        PROVE  /\ pte'[va].user = perm.user
               /\ pte'[va].writable = perm.writable
               /\ pte'[va].noExecute = perm.executable
    <2>1. pte'[va] = NewEntry(free[Len(va) - d], 5 - Len(va), perm) /\ Len(va) = 4
      BY <1>1, <1>7, PageIsPath
    <2>2. perm.user \in BOOLEAN /\ perm.writable \in BOOLEAN /\ perm.executable \in BOOLEAN
      BY CallerFacts DEF Permission
    <2> QED BY <2>1, <2>2 DEF NewEntry
  <1> QED BY <1>1, <1>2, <1>3, <1>4, <1>5, <1>6, <1>7

LEMMA VmProtectEffect ==
  ASSUME Inv, NEW va \in Page, NEW perm \in Perm, VmProtect(va, perm)
  PROVE  /\ phase = "ready" /\ phase' = phase
         /\ DOMAIN pte' = DOMAIN pte /\ va \in DOMAIN pte
         /\ \A p \in DOMAIN pte : p # va => pte'[p] = pte[p]
         /\ pte'[va].frame = pte[va].frame /\ pte'[va].user = perm.user
         /\ pte'[va].writable = perm.writable /\ pte'[va].noExecute = perm.executable
  <1>1. va \in DOMAIN pte /\ pte[va] \in PtEntry
    BY MappedMeans DEF VmProtect, Inv, TypeOK
  <1>2. pte' = [pte EXCEPT ![va] = [pte[va] EXCEPT !.user = perm.user,
                                                   !.writable = perm.writable,
                                                   !.noExecute = perm.executable]]
    BY <1>1 DEF VmProtect, PtEntry
  <1>3. /\ DOMAIN pte' = DOMAIN pte
        /\ \A p \in DOMAIN pte : p # va => pte'[p] = pte[p]
        /\ pte'[va].frame = pte[va].frame /\ pte'[va].user = perm.user
        /\ pte'[va].writable = perm.writable /\ pte'[va].noExecute = perm.executable
    BY <1>1, <1>2 DEF PtEntry
  <1> QED BY <1>1, <1>3 DEF VmProtect

(* Once unmap_lower_half is over the user half is empty.                   *)
LEMMA TeardownEffect ==
  ASSUME Inv, Teardown, phase' = "ready"
  PROVE  \A p \in DOMAIN pte' : ~Lower(p)
  <1>1. UnmapDone
    BY DEF Teardown, FreeTable
  <1> QED BY <1>1, NoTableNoEntry DEF UnmapDone

=============================================================================
