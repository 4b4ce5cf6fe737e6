------------------------------- MODULE BootProofs -------------------------------
(***************************************************************************)
(* Proofs about Boot, for every list of tags that its assumptions allow    *)
(* and interrupts of any devices at any moment.  The first part is the     *)
(* set-up: in which state the controllers, the interrupt table and the     *)
(* segments are at each place of the boot, and that no handler is ever     *)
(* missing.  The second part is mem_init.                                  *)
(***************************************************************************)
EXTENDS Boot, FiniteSetTheorems, WellFoundedInduction, TLAPS

-----------------------------------------------------------------------------
(* Every list of tags that is handed over has a first one of each kind     *)
(* that the protocol promises.                                             *)
Below == {pair \in Nat \X Nat : pair[1] < pair[2]}

LEMMA BelowIsWellFounded == IsWellFoundedOn(Below, Nat)
  BY NatLessThanWellFounded DEF OpToRel, Below

LEMMA LeastNatural ==
  ASSUME NEW S \in SUBSET Nat, S # {}
  PROVE  \E i \in S : \A j \in S : i <= j
  <1>1. PICK i \in S : \A j \in S : <<j, i>> \notin Below
    BY BelowIsWellFounded, WFMin
  <1>2. \A j \in S : ~(j < i)
    BY <1>1 DEF Below
  <1> QED BY <1>2

LEMMA TagIsFound ==
  ASSUME hdr \in Handover, NEW id \in {"hhdm", "memmap", "modules"}
  PROVE  /\ find_tag(id) \in DOMAIN hdr /\ find_tag(id) # 0
         /\ hdr[find_tag(id)].id = id
  <1> DEFINE at == {i \in DOMAIN hdr : hdr[i].id = id}
  <1>1. hdr \in Seq(ToSet(hdr)) /\ id \in {t.id : t \in ToSet(hdr)}
    BY HandoverAssumption
  <1>2. DOMAIN hdr = 1..Len(hdr) /\ Len(hdr) \in Nat
    BY <1>1
  <1>3. at \in SUBSET Nat /\ at # {}
    BY <1>1, <1>2 DEF ToSet
  <1>4. \E i \in at : \A j \in at : i <= j
    BY <1>3, LeastNatural
  <1>5. find_tag(id) = CHOOSE i \in at : \A j \in at : i <= j
    BY <1>3 DEF find_tag
  <1>6. find_tag(id) \in at
    <2> HIDE DEF at
    <2> QED BY <1>4, <1>5
  <1> QED BY <1>2, <1>6

LEMMA MapIsSound ==
  ASSUME hdr \in Handover
  PROVE  IsMemoryMap(memmap)
  BY HandoverAssumption, TagIsFound DEF memmap, ToSet

-----------------------------------------------------------------------------
(* Interrupts.  Where the kernel is in its set-up, in sets of places: on   *)
(* the way to each of its effects.                                         *)
ToPics == {"start", "pic_init"}
ToSti == ToPics \union {"sti"}
ToHandlers == ToSti \union {"idt_setup"}
ToLidt == ToHandlers \union {"lidt"}
ToGdt == ToLidt \union {"gdt_setup"}
ToLgdt == ToGdt \union {"lgdt"}
ToTss == ToLgdt \union {"tss"}
ToLtr == ToTss \union {"ltr"}
ToUnmask == ToLtr \union {"unmask"}
ToGate == ToUnmask \union {"syscall_gate"}
Later == {"mem_init", "freelist_init", "exec", "user", "halted", "smashed"}

(* The controllers, after the first i - 1 words of pic_init, and the word  *)
(* that each awaits.                                                       *)
Awaited == << <<0, 2, 2, 3, 3, 4, 4, 0, 0, 0, 0>>, <<0, 0, 2, 2, 3, 3, 4, 4, 0, 0, 0>> >>

Written(i) ==
  /\ pics[1].word = Awaited[1][i] /\ pics[2].word = Awaited[2][i]
  /\ i > 3 => pics[1].offset = 32
  /\ i > 4 => pics[2].offset = 40
  /\ i > 9 => pics[1].masked = 0..7
  /\ i > 10 => pics[2].masked = 0..7

Offsets == {8 * n : n \in 0..31}

Pic == [word : {0, 2, 3, 4}, offset : Offsets, masked : SUBSET (0..7),
        requests : SUBSET (0..7)]

Controllers ==
  /\ pc \in ToGate \union Later
  /\ DOMAIN loop = {"i", "addr"} /\ loop.i \in Nat
  /\ pics \in [{1, 2} -> Pic]
  /\ pc = "start" => loop.i = 1
  /\ pc \in ToPics => loop.i \in 1..10 /\ Written(loop.i)
  /\ pc \notin ToPics =>
       /\ pics[1].word = 0 /\ pics[2].word = 0
       /\ pics[1].offset = 32 /\ pics[2].offset = 40
       /\ pics[1].masked = (IF pc \in ToUnmask THEN 0..7 ELSE (0..7) \ {1})
       /\ pics[2].masked = 0..7

(* The interrupt table and the processor's flags.                          *)
Cpu == [interrupts : BOOLEAN, idt : BOOLEAN, gdt : 0..255, tr : BOOLEAN]

Gates ==
  /\ cpu \in Cpu
  /\ pc \in ToSti => ~cpu.interrupts
  /\ DOMAIN idt \subseteq 0..255 /\ ToSet(idt) \subseteq {"interrupt", "trap"}
  /\ pc \notin ToHandlers => Exceptions \union {IRQ1_INTERRUPT} \subseteq DOMAIN idt
  /\ pc \notin ToLidt => cpu.idt
  /\ pc \notin ToGate => SYSCALL_INTERRUPT \in DOMAIN idt

(* The segments: the first k descriptors are in place.                     *)
Described(k) ==
  /\ DOMAIN gdt = {Descriptors[j][1] : j \in 1..k}
  /\ \A j \in 1..k : gdt[Descriptors[j][1]] = Descriptors[j][2]

Segments ==
  /\ rsp0 \in BOOLEAN
  /\ pc \in ToLidt => gdt = <<>>
  /\ pc = "gdt_setup" => loop.i \in 1..5 /\ Described(loop.i - 1)
  /\ pc \notin ToGdt => Described(5)
  /\ cpu.gdt = (IF pc \in ToLgdt THEN 0 ELSE 87)
  /\ pc \notin ToTss => rsp0
  /\ pc \notin ToLtr => cpu.tr

SetUp == hdr \in Handover /\ Controllers /\ Gates /\ Segments

-----------------------------------------------------------------------------
LEMMA BitsMean == Bits(255) = 0..7
  BY DEF Bits, Weight

LEMMA InitSetUp == Init => SetUp
  <1> SUFFICES ASSUME Init PROVE SetUp
    OBVIOUS
  <1>1. 8 * 1 \in Offsets /\ 8 * 2 \in Offsets
    BY DEF Offsets
  <1>2. Controllers
    BY <1>1 DEF Init, Controllers, Written, Awaited, Pic, ToPics, ToSti, ToHandlers, ToLidt, ToGdt,
       ToLgdt, ToTss, ToLtr, ToUnmask, ToGate
  <1>3. DOMAIN idt = {} /\ DOMAIN gdt = {}
    BY DEF Init
  <1>4. ToSet(idt) = {}
    BY <1>3 DEF ToSet
  <1>5. cpu \in Cpu /\ cpu.interrupts = FALSE
    BY DEF Init, Cpu
  <1>6. Gates
    BY <1>3, <1>4, <1>5 DEF Init, Gates, ToPics, ToSti, ToHandlers, ToLidt, ToGdt,
       ToLgdt, ToTss, ToLtr, ToUnmask, ToGate
  <1>7. Segments
    BY DEF Init, Segments, ToPics, ToSti, ToHandlers, ToLidt, ToGdt,
       ToLgdt, ToTss, ToLtr, ToUnmask, ToGate
  <1> QED BY <1>2, <1>6, <1>7 DEF Init, SetUp

(* A controller's answer to one byte.                                      *)
LEMMA OutbMeans ==
  ASSUME NEW p \in Pic
  PROVE  /\ Outb(p, "command", 17) \in Pic
         /\ Outb(p, "command", 17).word = 2
         /\ Outb(p, "command", 17).offset = p.offset
         /\ p.word = 2 => \A byte \in {32, 40} :
              /\ Outb(p, "data", byte) \in Pic
              /\ Outb(p, "data", byte).word = 3
              /\ Outb(p, "data", byte).offset = byte
         /\ p.word = 3 => \A byte :
              /\ Outb(p, "data", byte) \in Pic
              /\ Outb(p, "data", byte).word = 4
              /\ Outb(p, "data", byte).offset = p.offset
         /\ p.word = 4 => \A byte :
              /\ Outb(p, "data", byte) \in Pic
              /\ Outb(p, "data", byte).word = 0
              /\ Outb(p, "data", byte).offset = p.offset
         /\ p.word = 0 =>
              /\ Outb(p, "data", 255) \in Pic
              /\ Outb(p, "data", 255).word = 0
              /\ Outb(p, "data", 255).offset = p.offset
              /\ Outb(p, "data", 255).masked = 0..7
  <1>1. /\ Outb(p, "command", 17) \in Pic
        /\ Outb(p, "command", 17).word = 2
        /\ Outb(p, "command", 17).offset = p.offset
    BY DEF Outb, Pic
  <1>2. ASSUME p.word = 2, NEW byte \in {32, 40}
        PROVE  /\ Outb(p, "data", byte) \in Pic
               /\ Outb(p, "data", byte).word = 3
               /\ Outb(p, "data", byte).offset = byte
    <2>1. byte - (byte % 8) = byte
      OBVIOUS
    <2>2. 32 = 8 * 4 /\ 40 = 8 * 5 /\ 4 \in 0..31 /\ 5 \in 0..31
      OBVIOUS
    <2>3. byte \in Offsets
      BY <1>2, <2>2 DEF Offsets
    <2>4. Outb(p, "data", byte) = [p EXCEPT !.word = 3, !.offset = byte - (byte % 8)]
      BY <1>2 DEF Outb
    <2> DEFINE q == [p EXCEPT !.word = 3]
    <2>5. q \in Pic /\ q.word = 3
      BY DEF Pic
    <2>6. Outb(p, "data", byte) = [q EXCEPT !.offset = byte]
      BY <2>1, <2>4
    <2> HIDE DEF q
    <2> QED BY <2>3, <2>5, <2>6 DEF Pic
  <1>3. ASSUME p.word = 3, NEW byte
        PROVE  /\ Outb(p, "data", byte) \in Pic
               /\ Outb(p, "data", byte).word = 4
               /\ Outb(p, "data", byte).offset = p.offset
    BY <1>3 DEF Outb, Pic
  <1>4. ASSUME p.word = 4, NEW byte
        PROVE  /\ Outb(p, "data", byte) \in Pic
               /\ Outb(p, "data", byte).word = 0
               /\ Outb(p, "data", byte).offset = p.offset
    BY <1>4 DEF Outb, Pic
  <1>5. ASSUME p.word = 0
        PROVE  /\ Outb(p, "data", 255) \in Pic
               /\ Outb(p, "data", 255).word = 0
               /\ Outb(p, "data", 255).offset = p.offset
               /\ Outb(p, "data", 255).masked = 0..7
    BY <1>5, BitsMean DEF Outb, Pic
  <1> QED BY <1>1, <1>2, <1>3, <1>4, <1>5

(* Each word that pic_init writes takes the controllers one place further. *)
LEMMA WordIsTaken ==
  ASSUME Controllers, PicInit
  PROVE  Controllers'
  <1>1. pc = "pic_init" /\ loop.i \in 1..10 /\ Written(loop.i)
    BY DEF PicInit, Goto, Controllers, ToPics
  <1>2. loop'.i = loop.i + 1 /\ DOMAIN loop' = {"i", "addr"}
    BY DEF PicInit, Controllers
  <1>3. pc' = IF loop.i = 10 THEN "sti" ELSE "pic_init"
    BY DEF PicInit, Goto, PicWrites
  <1>4. pics \in [{1, 2} -> Pic]
    BY DEF Controllers
  <1>5. \A c \in {1, 2} : pics'[c] =
          IF c = PicWrites[loop.i][1]
            THEN Outb(pics[c], PicWrites[loop.i][2], PicWrites[loop.i][3]) ELSE pics[c]
    BY <1>4 DEF PicInit
  <1>6. pics' = [c \in {1, 2} |-> pics'[c]]
    BY <1>4 DEF PicInit
  <1>7. pics'[1] \in Pic /\ pics'[2] \in Pic /\ Written(loop.i)'
    <2>1. CASE loop.i = 1
      <3>1. pics'[1] = Outb(pics[1], "command", 17) /\ pics'[2] = pics[2]
        BY <1>5, <2>1 DEF PicWrites
      <3>2. pics'[1] \in Pic /\ pics'[1].word = 2
        BY <1>4, <3>1, OutbMeans
      <3> QED BY <1>1, <1>2, <1>4, <2>1, <3>1, <3>2 DEF Written, Awaited
    <2>2. CASE loop.i = 2
      <3>1. pics'[2] = Outb(pics[2], "command", 17) /\ pics'[1] = pics[1]
        BY <1>5, <2>2 DEF PicWrites
      <3>2. pics'[2] \in Pic /\ pics'[2].word = 2
        BY <1>4, <3>1, OutbMeans
      <3> QED BY <1>1, <1>2, <1>4, <2>2, <3>1, <3>2 DEF Written, Awaited
    <2>3. CASE loop.i = 3
      <3>1. pics'[1] = Outb(pics[1], "data", 32) /\ pics'[2] = pics[2]
        BY <1>5, <2>3 DEF PicWrites
      <3>2. pics[1].word = 2
        BY <1>1, <2>3 DEF Written, Awaited
      <3>3. pics'[1] \in Pic /\ pics'[1].word = 3 /\ pics'[1].offset = 32
        BY <1>4, <3>1, <3>2, OutbMeans
      <3> QED BY <1>1, <1>2, <1>4, <2>3, <3>1, <3>3 DEF Written, Awaited
    <2>4. CASE loop.i = 4
      <3>1. pics'[2] = Outb(pics[2], "data", 40) /\ pics'[1] = pics[1]
        BY <1>5, <2>4 DEF PicWrites
      <3>2. pics[2].word = 2
        BY <1>1, <2>4 DEF Written, Awaited
      <3>3. pics'[2] \in Pic /\ pics'[2].word = 3 /\ pics'[2].offset = 40
        BY <1>4, <3>1, <3>2, OutbMeans
      <3> QED BY <1>1, <1>2, <1>4, <2>4, <3>1, <3>3 DEF Written, Awaited
    <2>5. CASE loop.i = 5
      <3>1. pics'[1] = Outb(pics[1], "data", 4) /\ pics'[2] = pics[2]
        BY <1>5, <2>5 DEF PicWrites
      <3>2. pics[1].word = 3
        BY <1>1, <2>5 DEF Written, Awaited
      <3>3. pics'[1] \in Pic /\ pics'[1].word = 4 /\ pics'[1].offset = pics[1].offset
        BY <1>4, <3>1, <3>2, OutbMeans
      <3> QED BY <1>1, <1>2, <1>4, <2>5, <3>1, <3>3 DEF Written, Awaited
    <2>6. CASE loop.i = 6
      <3>1. pics'[2] = Outb(pics[2], "data", 2) /\ pics'[1] = pics[1]
        BY <1>5, <2>6 DEF PicWrites
      <3>2. pics[2].word = 3
        BY <1>1, <2>6 DEF Written, Awaited
      <3>3. pics'[2] \in Pic /\ pics'[2].word = 4 /\ pics'[2].offset = pics[2].offset
        BY <1>4, <3>1, <3>2, OutbMeans
      <3> QED BY <1>1, <1>2, <1>4, <2>6, <3>1, <3>3 DEF Written, Awaited
    <2>7. CASE loop.i = 7
      <3>1. pics'[1] = Outb(pics[1], "data", 1) /\ pics'[2] = pics[2]
        BY <1>5, <2>7 DEF PicWrites
      <3>2. pics[1].word = 4
        BY <1>1, <2>7 DEF Written, Awaited
      <3>3. pics'[1] \in Pic /\ pics'[1].word = 0 /\ pics'[1].offset = pics[1].offset
        BY <1>4, <3>1, <3>2, OutbMeans
      <3> QED BY <1>1, <1>2, <1>4, <2>7, <3>1, <3>3 DEF Written, Awaited
    <2>8. CASE loop.i = 8
      <3>1. pics'[2] = Outb(pics[2], "data", 1) /\ pics'[1] = pics[1]
        BY <1>5, <2>8 DEF PicWrites
      <3>2. pics[2].word = 4
        BY <1>1, <2>8 DEF Written, Awaited
      <3>3. pics'[2] \in Pic /\ pics'[2].word = 0 /\ pics'[2].offset = pics[2].offset
        BY <1>4, <3>1, <3>2, OutbMeans
      <3> QED BY <1>1, <1>2, <1>4, <2>8, <3>1, <3>3 DEF Written, Awaited
    <2>9. CASE loop.i = 9
      <3>1. pics'[1] = Outb(pics[1], "data", 255) /\ pics'[2] = pics[2]
        BY <1>5, <2>9 DEF PicWrites
      <3> QED BY <1>1, <1>2, <1>4, <2>9, <3>1, OutbMeans DEF Written, Awaited
    <2>10. CASE loop.i = 10
      <3>1. pics'[2] = Outb(pics[2], "data", 255) /\ pics'[1] = pics[1]
        BY <1>5, <2>10 DEF PicWrites
      <3> QED BY <1>1, <1>2, <1>4, <2>10, <3>1, OutbMeans DEF Written, Awaited
    <2> QED BY <1>1, <2>1, <2>2, <2>3, <2>4, <2>5, <2>6, <2>7, <2>8, <2>9, <2>10
  <1>8. pics' \in [{1, 2} -> Pic]
    BY <1>6, <1>7
  <1> QED
    BY <1>1, <1>2, <1>3, <1>7, <1>8
    DEF Controllers, Written, Awaited, ToPics, ToSti, ToHandlers, ToLidt, ToGdt,
       ToLgdt, ToTss, ToLtr, ToUnmask, ToGate

(* The order of the set-up: where each step starts and where it may lead.  *)
LEMMA Order ==
  ASSUME Controllers, [Next]_vars
  PROVE  /\ pc' = pc \/ pc' = "dead"
            \/ <<pc, pc'>> \in
                 { <<"start", "pic_init">>, <<"pic_init", "sti">>, <<"sti", "idt_setup">>,
                   <<"idt_setup", "lidt">>, <<"lidt", "gdt_setup">>, <<"gdt_setup", "lgdt">>,
                   <<"lgdt", "tss">>, <<"tss", "ltr">>, <<"ltr", "unmask">>,
                   <<"unmask", "syscall_gate">>, <<"syscall_gate", "mem_init">>,
                   <<"mem_init", "freelist_init">>, <<"mem_init", "smashed">>,
                   <<"freelist_init", "exec">>, <<"exec", "user">>, <<"exec", "halted">>,
                   <<"user", "halted">> }
  BY DEF Next, Setup, vars, Goto, FindTags, PicInit, Sti, SetHandlers, Lidt, GdtSetup, Lgdt,
         SetTss, Ltr, UnmaskKeyboard, SetSyscallHandler, ScanEntry, ScanDone, FreePage,
         NextSection, FreelistDone, RunInit, Raise, Fall, Interrupt, Exception, SystemCall

(* What lines ask for changes nothing else of the controllers.             *)
LEMMA RequestsAlone ==
  ASSUME Controllers, UNCHANGED <<pc, loop>>, NEW c \in {1, 2}, NEW S \in SUBSET (0..7),
         pics' = [pics EXCEPT ![c].requests = S]
  PROVE  Controllers'
  <1>1. pics \in [{1, 2} -> Pic]
    BY DEF Controllers
  <1>2. \A d \in {1, 2} : /\ pics'[d] \in Pic /\ pics'[d].word = pics[d].word
                          /\ pics'[d].offset = pics[d].offset
                          /\ pics'[d].masked = pics[d].masked
    BY <1>1 DEF Pic
  <1>3. pics' \in [{1, 2} -> Pic]
    BY <1>1, <1>2
  <1> QED BY <1>2, <1>3 DEF Controllers, Written

LEMMA NextControllers ==
  ASSUME Controllers, [Next]_vars
  PROVE  pc' # "dead" => Controllers'
  <1> SUFFICES ASSUME pc' # "dead" PROVE Controllers'
    OBVIOUS
  <1> DEFINE Set == /\ pics[1].word = 0 /\ pics[2].word = 0
                    /\ pics[1].offset = 32 /\ pics[2].offset = 40
                    /\ pics[2].masked = 0..7
             Place == pc \in ToGate \union Later
  <1>1. CASE PicInit
    BY <1>1, WordIsTaken
  <1>2. CASE FindTags
    BY <1>2 DEF FindTags, Goto, memory, Controllers, Written, Awaited, ToPics, ToSti, ToHandlers,
                ToLidt, ToGdt, ToLgdt, ToTss, ToLtr, ToUnmask, ToGate
  <1>3. CASE UnmaskKeyboard
    <2>1. /\ pc = "unmask" /\ pc' = "syscall_gate" /\ loop' = loop
          /\ pics' = [pics EXCEPT ![1].masked = @ \ {1}]
      BY <1>3 DEF UnmaskKeyboard, Goto, memory, pic_unmask_irq
    <2>2. /\ pics \in [{1, 2} -> Pic] /\ Set /\ pics[1].masked = 0..7
      BY <2>1 DEF Controllers, ToPics, ToSti, ToHandlers, ToLidt, ToGdt,
                  ToLgdt, ToTss, ToLtr, ToUnmask
    <2>3. pics' \in [{1, 2} -> Pic] /\ Set' /\ pics'[1].masked = (0..7) \ {1}
      BY <2>1, <2>2 DEF Pic
    <2> QED
      BY <2>1, <2>3 DEF Controllers, ToPics, ToSti, ToHandlers, ToLidt, ToGdt,
                        ToLgdt, ToTss, ToLtr, ToUnmask, ToGate
  <1>4. ASSUME UNCHANGED <<pics, pc, loop>>
        PROVE  Controllers'
    BY <1>4 DEF Controllers, Written
  <1>5. ASSUME pics' = pics, DOMAIN loop' = {"i", "addr"}, loop'.i \in Nat,
               pc \notin ToPics \union {"unmask"}
        PROVE  Controllers'
    <2>1. pc' \notin ToPics /\ Place' /\ (pc' \in ToUnmask <=> pc \in ToUnmask)
      BY <1>5, Order
      DEF Controllers, ToPics, ToSti, ToHandlers, ToLidt, ToGdt,
          ToLgdt, ToTss, ToLtr, ToUnmask, ToGate, Later
    <2> QED BY <1>5, <2>1 DEF Controllers, ToPics
  <1> USE DEF Controllers, ToPics
  <1>6. CASE Sti \/ SetHandlers \/ Lgdt \/ SetTss \/ Ltr
    BY <1>5, <1>6 DEF Sti, SetHandlers, Lgdt, SetTss, Ltr, Goto, memory
  <1>7. CASE Lidt \/ SetSyscallHandler \/ GdtSetup
    BY <1>5, <1>7 DEF Lidt, SetSyscallHandler, GdtSetup, Goto
  <1>8. CASE ScanEntry \/ FreePage
    BY <1>5, <1>8 DEF ScanEntry, FreePage, Goto
  <1>9. CASE ScanDone \/ NextSection
    BY <1>5, <1>9 DEF ScanDone, NextSection, Goto, EnterSection
  <1>10. CASE FreelistDone \/ RunInit \/ SystemCall \/ \E v \in Exceptions : Exception(v)
    BY <1>5, <1>10 DEF FreelistDone, RunInit, SystemCall, Exception, Goto, memory
  <1>11. CASE \E q \in Irq : Raise(q) \/ Interrupt(q)
    <2>1. PICK q \in Irq : Raise(q) \/ Interrupt(q)
      BY <1>11
    <2>2. Chip(q) \in {1, 2} /\ q % 8 \in 0..7
      BY MachineAssumption DEF Chip
    <2>3. pics[Chip(q)].requests \subseteq 0..7
      BY <2>2 DEF Pic
    <2>4. UNCHANGED <<pc, loop>>
      BY <2>1 DEF Raise, Interrupt, memory
    <2>5. \E S \in SUBSET (0..7) : pics' = [pics EXCEPT ![Chip(q)].requests = S]
      <3>1. CASE Raise(q)
        BY <2>2, <2>3, <3>1 DEF Raise
      <3>2. CASE Interrupt(q)
        BY <2>3, <3>2 DEF Interrupt
      <3> QED BY <2>1, <3>1, <3>2
    <2> QED BY <2>2, <2>4, <2>5, RequestsAlone
  <1>12. CASE (\E q \in Irq : Fall(q)) \/ UNCHANGED vars
    BY <1>4, <1>12 DEF Fall, memory, vars
  <1> QED
    BY <1>1, <1>2, <1>3, <1>6, <1>7, <1>8, <1>9, <1>10, <1>11, <1>12 DEF Next, Setup

LEMMA NextGates ==
  ASSUME Controllers, Gates, GdtSize(gdt) - 1 \in 0..255 \/ ~Lgdt, [Next]_vars
  PROVE  pc' # "dead" => Gates'
  <1> SUFFICES ASSUME pc' # "dead" PROVE Gates'
    OBVIOUS
  <1> USE DEF Gates, Cpu, ToPics, ToSti, ToHandlers, ToLidt, ToGdt,
              ToLgdt, ToTss, ToLtr, ToUnmask, ToGate
  <1>1. CASE Sti
    BY <1>1 DEF Sti, Goto
  <1>2. CASE SetHandlers
    BY <1>2 DEF SetHandlers, Goto, ToSet, Exceptions, IRQ1_INTERRUPT
  <1>3. CASE Lidt
    BY <1>3 DEF Lidt, Goto
  <1>4. CASE Ltr
    BY <1>4 DEF Ltr, Goto
  <1>5. CASE Lgdt
    BY <1>5 DEF Lgdt, Goto
  <1>6. CASE SetSyscallHandler
    BY <1>6 DEF SetSyscallHandler, Goto, idt_set_handler, SYSCALL_INTERRUPT, ToSet
  <1>7. CASE \E v \in Exceptions : Exception(v)
    <2>1. PICK v \in Exceptions : Exception(v)
      BY <1>7
    <2> DEFINE flag == cpu.interrupts /\ ~(v \in DOMAIN idt /\ idt[v] = "interrupt")
    <2>2. cpu' = [cpu EXCEPT !.interrupts = flag] /\ idt' = idt /\ flag \in BOOLEAN
      BY <2>1 DEF Exception
    <2> HIDE DEF flag
    <2>3. cpu' \in Cpu /\ cpu'.idt = cpu.idt
      BY <2>2
    <2>4. pc = "user" /\ pc' = "halted"
      BY <2>1 DEF Exception, Goto
    <2> QED BY <2>2, <2>3, <2>4
  <1>8. ASSUME UNCHANGED <<cpu, idt>>, pc \notin {"sti", "idt_setup", "lidt", "syscall_gate"}
        PROVE  Gates'
    BY <1>8, Order DEF Controllers
  <1>9. ASSUME UNCHANGED <<cpu, idt, pc>>
        PROVE  Gates'
    BY <1>9
  <1>10. CASE FindTags \/ PicInit \/ GdtSetup \/ SetTss \/ UnmaskKeyboard
    BY <1>8, <1>10 DEF FindTags, PicInit, GdtSetup, SetTss, UnmaskKeyboard, Goto, tables
  <1>11. CASE ScanEntry \/ ScanDone \/ FreePage \/ NextSection \/ FreelistDone
                \/ RunInit \/ SystemCall
    BY <1>8, <1>11 DEF ScanEntry, ScanDone, FreePage, NextSection, FreelistDone, RunInit,
                       SystemCall, Goto, tables
  <1>12. CASE (\E q \in Irq : Raise(q) \/ Fall(q) \/ Interrupt(q)) \/ UNCHANGED vars
    BY <1>9, <1>12 DEF Raise, Fall, Interrupt, tables, vars
  <1> QED
    BY <1>1, <1>2, <1>3, <1>4, <1>5, <1>6, <1>7, <1>10, <1>11, <1>12 DEF Next, Setup

(* gdt_setup puts the descriptors side by side, the TSS last, so that none *)
(* is written over and the limit covers them all.                          *)
Selectors == {40, 48, 56, 64, 72}

LEMMA DescriptorFacts ==
  /\ Len(Descriptors) = 5
  /\ Descriptors[1] = <<40, "kernel_code">> /\ Descriptors[2] = <<48, "kernel_data">>
  /\ Descriptors[3] = <<56, "user_code">> /\ Descriptors[4] = <<64, "user_data">>
  /\ Descriptors[5] = <<72, "tss">>
  BY DEF Descriptors, KERNEL_CODE_SELECTOR, KERNEL_DATA_SELECTOR, USER_CODE_SELECTOR,
         USER_DATA_SELECTOR, TSS_SELECTOR

LEMMA DescribeAddsOne ==
  ASSUME NEW k \in 1..5, Described(k - 1), gdt' = Describe(gdt, Descriptors[k])
  PROVE  Described(k)'
  <1> DEFINE d == Descriptors[k]
  <1>1. \A j \in 1..5 : Descriptors[j][1] = 32 + 8 * j
    BY DescriptorFacts
  <1>2. \A j \in 1..4 : Size(Descriptors[j][2]) = 8
    BY DescriptorFacts DEF Size
  <1>3. \A o \in DOMAIN gdt : o + Size(gdt[o]) <= d[1] /\ o # d[1]
    <2> TAKE o \in DOMAIN gdt
    <2>1. PICK j \in 1..(k - 1) : o = Descriptors[j][1]
      BY DEF Described
    <2>2. gdt[o] = Descriptors[j][2]
      BY <2>1 DEF Described
    <2>3. j \in 1..4 /\ j < k
      BY <2>1
    <2>4. o = 32 + 8 * j /\ Size(gdt[o]) = 8 /\ d[1] = 32 + 8 * k
      BY <1>1, <1>2, <2>1, <2>2, <2>3
    <2> HIDE DEF d
    <2> QED BY <2>3, <2>4
  <1>4. DOMAIN gdt' = DOMAIN gdt \union {d[1]}
    BY <1>3 DEF Describe
  <1>5. d[1] \notin DOMAIN gdt
    BY <1>3
  <1>6. \A o \in DOMAIN gdt' : gdt'[o] = IF o = d[1] THEN d[2] ELSE gdt[o]
    BY <1>4 DEF Describe
  <1> HIDE DEF d
  <1>7. DOMAIN gdt' = {Descriptors[j][1] : j \in 1..k}
    BY <1>4 DEF Described, d
  <1>8. \A j \in 1..k : gdt'[Descriptors[j][1]] = Descriptors[j][2]
    BY <1>1, <1>5, <1>6, <1>7 DEF Described, d
  <1> QED BY <1>7, <1>8 DEF Described

LEMMA TableIsWhole ==
  ASSUME Described(5)
  PROVE  /\ DOMAIN gdt = Selectors
         /\ gdt[40] = "kernel_code" /\ gdt[56] = "user_code"
         /\ gdt[64] = "user_data" /\ gdt[72] = "tss"
         /\ GdtSize(gdt) = 88
  <1>1. /\ DOMAIN gdt = Selectors
        /\ gdt[40] = "kernel_code" /\ gdt[56] = "user_code"
        /\ gdt[64] = "user_data" /\ gdt[72] = "tss"
    BY DescriptorFacts DEF Described, Selectors
  <1>2. 72 \in Selectors /\ \A p \in Selectors : p <= 72
    BY DEF Selectors
  <1>3. \A o \in Selectors : (\A p \in Selectors : p <= o) => o = 72
    BY DEF Selectors
  <1>4. (CHOOSE o \in DOMAIN gdt : \A p \in DOMAIN gdt : p <= o) = 72
    BY <1>1, <1>2, <1>3
  <1>5. GdtSize(gdt) = 72 + Size(gdt[72])
    BY <1>4 DEF GdtSize
  <1>6. Size("tss") = 16
    BY DEF Size
  <1> QED BY <1>1, <1>5, <1>6

LEMMA NextSegments ==
  ASSUME Controllers, Gates, Segments, [Next]_vars
  PROVE  pc' # "dead" => Segments'
  <1> SUFFICES ASSUME pc' # "dead" PROVE Segments'
    OBVIOUS
  <1> USE DEF ToPics, ToSti, ToHandlers, ToLidt, ToGdt, ToLgdt, ToTss, ToLtr
  <1>1. CASE GdtSetup
    <2>1. /\ pc = "gdt_setup" /\ gdt' = Describe(gdt, Descriptors[loop.i])
          /\ loop.i \in 1..5 /\ Described(loop.i - 1)
          /\ pc' = IF loop.i = 5 THEN "lgdt" ELSE "gdt_setup"
          /\ loop'.i = loop.i + 1 /\ cpu' = cpu /\ rsp0' = rsp0
      BY <1>1, DescriptorFacts DEF GdtSetup, Goto, Segments, Controllers
    <2>2. PICK k \in 1..5 : k = loop.i
      BY <2>1
    <2>3. Described(k)'
      BY <2>1, <2>2, DescribeAddsOne
    <2>4. pc' = "gdt_setup" => loop'.i \in 1..5 /\ loop'.i - 1 = k
      BY <2>1, <2>2
    <2>5. pc' = "gdt_setup" => Described(loop.i - 1)'
      BY <2>3, <2>4 DEF Described
    <2>6. pc' # "gdt_setup" => Described(5)'
      BY <2>1, <2>2, <2>3
    <2> QED BY <2>1, <2>4, <2>5, <2>6 DEF Segments
  <1>2. CASE Lidt
    <2>1. pc = "lidt" /\ pc' = "gdt_setup" /\ gdt' = <<>> /\ loop'.i = 1
          /\ cpu'.gdt = 0 /\ rsp0' = rsp0
      BY <1>2 DEF Lidt, Goto, Segments, Controllers, Gates, Cpu
    <2>2. Described(0)'
      BY <2>1 DEF Described
    <2>3. Described(loop.i - 1)'
      BY <2>1, <2>2 DEF Described
    <2> QED BY <2>1, <2>3 DEF Segments
  <1>3. CASE Lgdt
    <2>1. pc = "lgdt" /\ pc' = "tss" /\ gdt' = gdt /\ cpu'.gdt = 87 /\ rsp0' = rsp0
      BY <1>3, TableIsWhole DEF Lgdt, Goto, Segments, Gates, Cpu
    <2> QED BY <2>1 DEF Segments, Described
  <1>4. CASE SetTss
    <2>1. pc = "tss" /\ pc' = "ltr" /\ gdt' = gdt /\ cpu' = cpu /\ rsp0'
      BY <1>4 DEF SetTss, Goto
    <2> QED BY <2>1 DEF Segments, Described
  <1>5. CASE Ltr
    <2>1. pc = "ltr" /\ pc' = "unmask" /\ gdt' = gdt /\ cpu'.gdt = cpu.gdt
          /\ cpu'.tr /\ rsp0' = rsp0
      BY <1>5 DEF Ltr, Goto, Gates, Cpu
    <2> QED BY <2>1 DEF Segments, Described
  <1>6. ASSUME UNCHANGED <<gdt, rsp0>>, cpu'.gdt = cpu.gdt, cpu'.tr = cpu.tr,
               pc \notin {"lidt", "gdt_setup", "lgdt", "tss", "ltr"}
        PROVE  Segments'
    <2>1. pc' = pc \/ (pc \in ToLidt /\ pc' \in ToLidt) \/ (pc \notin ToLtr /\ pc' \notin ToLtr)
      BY <1>6, Order DEF Controllers, ToUnmask, ToGate, Later
    <2> QED BY <1>6, <2>1 DEF Segments, Described
  <1>7. CASE FindTags \/ PicInit \/ SetHandlers \/ UnmaskKeyboard \/ SetSyscallHandler
    BY <1>6, <1>7 DEF FindTags, PicInit, SetHandlers, UnmaskKeyboard, SetSyscallHandler, Goto,
                      tables
  <1>8. CASE Sti \/ \E v \in Exceptions : Exception(v)
    BY <1>6, <1>8 DEF Sti, Exception, Goto, Gates, Cpu
  <1>9. CASE ScanEntry \/ ScanDone \/ FreePage \/ NextSection \/ FreelistDone
                \/ RunInit \/ SystemCall
    BY <1>6, <1>9 DEF ScanEntry, ScanDone, FreePage, NextSection, FreelistDone, RunInit,
                      SystemCall, Goto, tables
  <1>10. CASE (\E q \in Irq : Raise(q) \/ Fall(q) \/ Interrupt(q)) \/ UNCHANGED vars
    <2>1. UNCHANGED <<gdt, rsp0, cpu, loop, pc>>
      BY <1>10 DEF Raise, Fall, Interrupt, tables, memory, vars
    <2> QED BY <2>1 DEF Segments, Described
  <1> QED
    BY <1>1, <1>2, <1>3, <1>4, <1>5, <1>7, <1>8, <1>9, <1>10 DEF Next, Setup

-----------------------------------------------------------------------------
(* Of the interrupts that devices raise only the keyboard's can get        *)
(* through, and only when its gate is there.                               *)
LEMMA KernelIsSelected ==
  ASSUME SetUp
  PROVE  /\ Selects(KERNEL_CODE_SELECTOR, "kernel_code")
         /\ pc \notin ToLgdt => /\ Selects(TSS_SELECTOR, "tss")
                               /\ Selects(USER_CODE_SELECTOR, "user_code")
                               /\ Selects(USER_DATA_SELECTOR, "user_data")
  <1>1. CASE pc \in ToLgdt
    BY <1>1 DEF SetUp, Segments, Selects
  <1>2. CASE pc \notin ToLgdt
    <2>1. Described(5) /\ cpu.gdt = 87
      BY <1>2 DEF SetUp, Segments, ToLgdt
    <2> QED
      BY <1>2, <2>1, TableIsWhole
      DEF Selects, Size, Selectors, KERNEL_CODE_SELECTOR, TSS_SELECTOR, USER_CODE_SELECTOR,
          USER_DATA_SELECTOR
  <1> QED BY <1>1, <1>2

LEMMA OnlyKeysGetThrough ==
  ASSUME SetUp, NEW q \in Irq, Delivers(q)
  PROVE  Handled(Vector(q))
  <1>1. cpu.interrupts /\ pc \notin ToSti
    BY DEF Delivers, SetUp, Gates
  <1>2. /\ pics[1].offset = 32 /\ pics[2].masked = 0..7
        /\ pics[1].masked = (IF pc \in ToUnmask THEN 0..7 ELSE (0..7) \ {1})
    BY <1>1 DEF SetUp, Controllers, ToSti
  <1>3. q \in 0..15
    BY MachineAssumption
  <1>4. q = 1 /\ pc \notin ToUnmask
    BY <1>2, <1>3 DEF Delivers, Chip
  <1>5. Vector(q) = IRQ1_INTERRUPT
    BY <1>2, <1>4 DEF Vector, Chip, IRQ1_INTERRUPT
  <1>6. cpu.idt /\ IRQ1_INTERRUPT \in DOMAIN idt /\ (pc = "user" => cpu.tr /\ rsp0)
    BY <1>4 DEF SetUp, Gates, Segments, ToUnmask, ToLtr, ToTss, ToLgdt, ToGdt, ToLidt
  <1> QED BY <1>5, <1>6, KernelIsSelected DEF Handled

LEMMA NextAlive ==
  ASSUME SetUp, [Next]_vars
  PROVE  pc' # "dead"
  <1> USE DEF ToPics, ToSti, ToHandlers, ToLidt, ToGdt, ToLgdt, ToTss, ToLtr, ToUnmask, ToGate
  <1>1. CASE FindTags
    BY <1>1, TagIsFound DEF FindTags, Goto, SetUp
  <1>2. CASE Ltr \/ RunInit
    BY <1>2, KernelIsSelected DEF Ltr, RunInit, Goto
  <1>3. CASE \E q \in Irq : Raise(q) \/ Fall(q) \/ Interrupt(q)
    BY <1>3, OnlyKeysGetThrough DEF Raise, Fall, Interrupt, SetUp, Controllers, Later
  <1>4. pc = "user" => \A v \in Exceptions \union {SYSCALL_INTERRUPT} : Handled(v)
    BY KernelIsSelected DEF Handled, SetUp, Gates, Segments
  <1>5. CASE (\E v \in Exceptions : Exception(v)) \/ SystemCall
    BY <1>4, <1>5 DEF Exception, SystemCall, Goto
  <1>6. CASE PicInit \/ Sti \/ SetHandlers \/ Lidt \/ GdtSetup \/ Lgdt \/ SetTss
               \/ UnmaskKeyboard \/ SetSyscallHandler
    BY <1>6 DEF PicInit, Sti, SetHandlers, Lidt, GdtSetup, Lgdt, SetTss, UnmaskKeyboard,
                SetSyscallHandler, Goto
  <1>7. CASE ScanEntry \/ ScanDone \/ FreePage \/ NextSection \/ FreelistDone
    BY <1>7 DEF ScanEntry, ScanDone, FreePage, NextSection, FreelistDone, Goto
  <1>8. CASE UNCHANGED vars
    BY <1>8 DEF vars, SetUp, Controllers, Later
  <1> QED BY <1>1, <1>2, <1>3, <1>5, <1>6, <1>7, <1>8 DEF Next, Setup

LEMMA SpecSetUp == Spec => []SetUp
  <1>1. SetUp /\ [Next]_vars => SetUp'
    <2> SUFFICES ASSUME SetUp, [Next]_vars PROVE SetUp'
      OBVIOUS
    <2>1. hdr' = hdr
      BY DEF Next, Setup, vars, Goto, FindTags, PicInit, Sti, SetHandlers, Lidt, GdtSetup, Lgdt,
         SetTss, Ltr, UnmaskKeyboard, SetSyscallHandler, ScanEntry, ScanDone, FreePage,
         NextSection, FreelistDone, RunInit, Raise, Fall, Interrupt, Exception, SystemCall
    <2>2. GdtSize(gdt) - 1 \in 0..255 \/ ~Lgdt
      <3>1. ASSUME Lgdt PROVE Described(5)
        BY <3>1 DEF Lgdt, Goto, SetUp, Segments, ToGdt, ToLidt, ToHandlers, ToSti, ToPics
      <3>2. ASSUME Lgdt PROVE GdtSize(gdt) = 88
        BY <3>1, <3>2, TableIsWhole
      <3> QED BY <3>2
    <2> QED BY <2>1, <2>2, NextAlive, NextControllers, NextGates, NextSegments DEF SetUp
  <1> QED BY <1>1, InitSetUp, PTL DEF Spec

LEMMA SetUpAlive == SetUp => pc # "dead"
  BY DEF SetUp, Controllers, ToPics, ToSti, ToHandlers, ToLidt, ToGdt, ToLgdt, ToTss, ToLtr,
         ToUnmask, ToGate, Later

(* For any devices, whenever they interrupt, and any list of tags: no      *)
(* interrupt, exception, system call or return to a program finds a table, *)
(* a gate, a segment or a stack missing (boot.c:242-252, pic.c:54-58,      *)
(* gdt.c:118-148).                                                         *)
THEOREM HandlersComeFirst == Spec => []AlwaysAHandler
  <1>1. SetUp => AlwaysAHandler
    BY SetUpAlive DEF AlwaysAHandler
  <1> QED BY <1>1, SpecSetUp, PTL

-----------------------------------------------------------------------------
(***************************************************************************)
(* mem_init, for every memory map of the protocol: the freelist that the   *)
(* boot ends with is complete, and the arrays on mem_init's stack overflow *)
(* only if the map has too many usable ranges.  Then Boot's types.         *)
(***************************************************************************)
(* Addresses of pages.                                                     *)
Aligned(p) == p % PageSize = 0

LEMMA NextAligned ==
  ASSUME NEW p \in Nat, Aligned(p)
  PROVE  /\ Aligned(p + PageSize)
         /\ \A q \in Nat : Aligned(q) /\ p <= q /\ q < p + PageSize => q = p
  <1>1. PageSize \in Nat /\ PageSize > 0
    BY MachineAssumption
  <1>2. PICK b \in Nat : p = PageSize * b
    BY <1>1, SMTT(30) DEF Aligned
  <1>3. p + PageSize = PageSize * (b + 1)
    BY <1>1, <1>2
  <1>4. Aligned(p + PageSize)
    BY <1>1, <1>2, <1>3, SMTT(30) DEF Aligned
  <1>5. ASSUME NEW q \in Nat, Aligned(q), p <= q, q < p + PageSize
        PROVE  q = p
    <2>1. PICK c \in Nat : q = PageSize * c
      BY <1>1, <1>5, SMTT(30) DEF Aligned
    <2>2. ~(c >= b + 1)
      <3> SUFFICES ASSUME c >= b + 1 PROVE FALSE
        OBVIOUS
      <3>1. PageSize * c >= PageSize * (b + 1)
        BY <1>1
      <3> QED BY <1>1, <1>3, <1>5, <2>1, <3>1
    <2>3. ~(b >= c + 1)
      <3> SUFFICES ASSUME b >= c + 1 PROVE FALSE
        OBVIOUS
      <3>1. PageSize * b >= PageSize * (c + 1)
        BY <1>1
      <3>2. PageSize * (c + 1) = q + PageSize
        BY <1>1, <2>1
      <3> QED BY <1>1, <1>2, <1>5, <3>1, <3>2
    <2> QED BY <1>2, <2>1, <2>2, <2>3
  <1> QED BY <1>4, <1>5

-----------------------------------------------------------------------------
(* get_mem_address, after k entries of the map: the sections are their     *)
(* usable ranges, each once.                                               *)
UsableIn(entries, k) == {i \in 1..k : IsUsable(entries[i])}
RangeOf(e) == <<e.base, EndOf(e)>>

Apart(r, s) == r[2] <= s[1] \/ s[2] <= r[1]

Scanned(entries, secs, k) ==
  /\ k <= Len(entries)
  /\ \A j \in DOMAIN secs : \E i \in UsableIn(entries, k) : secs[j] = RangeOf(entries[i])
  /\ \A i \in UsableIn(entries, k) : \E j \in DOMAIN secs : secs[j] = RangeOf(entries[i])
  /\ \A j1, j2 \in DOMAIN secs : j1 # j2 => Apart(secs[j1], secs[j2])
  /\ Len(secs) = Cardinality(UsableIn(entries, k))

LEMMA MapTypes ==
  ASSUME NEW entries, IsMemoryMap(entries)
  PROVE  /\ Len(entries) \in Nat /\ DOMAIN entries = 1..Len(entries)
         /\ \A i \in 1..Len(entries) : entries[i] \in [base : Nat, length : Nat, type : Nat]
         /\ \A i \in 1..Len(entries) : IsUsable(entries[i]) =>
              /\ RangeOf(entries[i]) \in Nat \X Nat /\ Aligned(entries[i].base)
              /\ \A j \in 1..Len(entries) :
                   IsUsable(entries[j]) /\ i # j => Apart(RangeOf(entries[i]), RangeOf(entries[j]))
  <1> DEFINE Entry == [base : Nat, length : Nat, type : Nat]
  <1>1. entries \in Seq(Entry)
    BY DEF IsMemoryMap
  <1>2. Len(entries) \in Nat /\ DOMAIN entries = 1..Len(entries)
    BY <1>1
  <1>3. \A i \in 1..Len(entries) : entries[i] \in Entry
    <2> HIDE DEF Entry
    <2> QED BY <1>1
  <1>4. ASSUME NEW i \in 1..Len(entries), IsUsable(entries[i])
        PROVE  /\ RangeOf(entries[i]) \in Nat \X Nat /\ Aligned(entries[i].base)
               /\ \A j \in 1..Len(entries) : IsUsable(entries[j]) /\ i # j =>
                    Apart(RangeOf(entries[i]), RangeOf(entries[j]))
    <2>1. RangeOf(entries[i]) \in Nat \X Nat
      BY <1>3 DEF RangeOf, EndOf
    <2>2. Aligned(entries[i].base)
      BY <1>2, <1>4 DEF IsMemoryMap, IsUsable, Usable, Aligned
    <2>3. ASSUME NEW j \in 1..Len(entries), IsUsable(entries[j]), i # j
          PROVE  Apart(RangeOf(entries[i]), RangeOf(entries[j]))
      BY <1>2, <1>4, <2>3 DEF IsMemoryMap, IsUsable, Usable, Apart, RangeOf, EndOf
    <2> QED BY <2>1, <2>2, <2>3
  <1> QED BY <1>2, <1>3, <1>4

LEMMA UsableCount ==
  ASSUME NEW entries, NEW k \in Nat
  PROVE  /\ Cardinality(UsableIn(entries, k)) \in Nat
         /\ \A j \in Nat : k <= j =>
              Cardinality(UsableIn(entries, k)) <= Cardinality(UsableIn(entries, j))
         /\ Cardinality(UsableIn(entries, k + 1)) =
              Cardinality(UsableIn(entries, k)) + IF IsUsable(entries[k + 1]) THEN 1 ELSE 0
  <1> DEFINE U(j) == UsableIn(entries, j)
  <1>1. \A j \in Nat : IsFiniteSet(U(j)) /\ Cardinality(U(j)) \in Nat
    <2> TAKE j \in Nat
    <2>1. IsFiniteSet(1..j)
      BY FS_Interval
    <2>2. U(j) \subseteq 1..j
      BY DEF UsableIn
    <2> HIDE DEF U
    <2> QED BY <2>1, <2>2, FS_Subset, FS_CardinalityType
  <1>2. ASSUME NEW j \in Nat, k <= j
        PROVE  Cardinality(U(k)) <= Cardinality(U(j))
    <2>1. U(k) \subseteq U(j)
      BY <1>2 DEF UsableIn
    <2> HIDE DEF U
    <2> QED BY <1>1, <2>1, FS_Subset
  <1>3. CASE IsUsable(entries[k + 1])
    <2>1. U(k + 1) = U(k) \union {k + 1} /\ k + 1 \notin U(k)
      BY <1>3 DEF UsableIn
    <2>2. Cardinality(U(k + 1)) = Cardinality(U(k)) + 1
      <3> HIDE DEF U
      <3> QED BY <1>1, <2>1, FS_AddElement
    <2> QED BY <1>1, <1>2, <1>3, <2>2
  <1>4. CASE ~IsUsable(entries[k + 1])
    <2>1. U(k + 1) = U(k)
      BY <1>4 DEF UsableIn
    <2> QED BY <1>1, <1>2, <1>4, <2>1
  <1> QED BY <1>3, <1>4

(* One more entry of the map.                                              *)
LEMMA ScanAdds ==
  ASSUME NEW entries, IsMemoryMap(entries), NEW secs \in Seq(Nat \X Nat), NEW k \in Nat,
         k + 1 <= Len(entries), Scanned(entries, secs, k), IsUsable(entries[k + 1])
  PROVE  LET more == Append(secs, RangeOf(entries[k + 1])) IN
         /\ more \in Seq(Nat \X Nat) /\ Len(more) = Len(secs) + 1
         /\ Scanned(entries, more, k + 1)
  <1> DEFINE n == Len(secs)
             r == RangeOf(entries[k + 1])
             more == Append(secs, r)
             U(j) == UsableIn(entries, j)
  <1>1. Len(entries) \in Nat /\ k + 1 \in 1..Len(entries) /\ r \in Nat \X Nat
    BY MapTypes
  <1>2. n \in Nat /\ DOMAIN secs = 1..n
    OBVIOUS
  <1>3. /\ more \in Seq(Nat \X Nat) /\ Len(more) = n + 1
        /\ DOMAIN more = 1..(n + 1)
        /\ more[n + 1] = r
        /\ \A j \in 1..n : more[j] = secs[j]
    BY <1>1, <1>2
  <1>4. U(k + 1) = U(k) \union {k + 1} /\ k + 1 \notin U(k)
        /\ \A i \in U(k) : i \in 1..Len(entries) /\ IsUsable(entries[i])
    BY <1>1 DEF UsableIn
  <1>5. /\ \A j \in 1..n : \E i \in U(k) : secs[j] = RangeOf(entries[i])
        /\ \A i \in U(k) : \E j \in 1..n : secs[j] = RangeOf(entries[i])
        /\ \A j1, j2 \in 1..n : j1 # j2 => Apart(secs[j1], secs[j2])
        /\ n = Cardinality(U(k))
    BY <1>2 DEF Scanned
  <1>6. Cardinality(U(k + 1)) = Cardinality(U(k)) + 1
    BY UsableCount
  <1>7. \A j \in 1..n : Apart(secs[j], r) /\ Apart(r, secs[j])
    <2> TAKE j \in 1..n
    <2>1. PICK i \in U(k) : secs[j] = RangeOf(entries[i])
      BY <1>5
    <2>2. i \in 1..Len(entries) /\ IsUsable(entries[i]) /\ i # k + 1
      BY <1>4
    <2>3. Apart(RangeOf(entries[i]), r) /\ Apart(r, RangeOf(entries[i]))
      BY <1>1, <2>2, MapTypes
    <2> QED BY <2>1, <2>3
  <1> HIDE DEF n, r, more, U
  <1>8. \A j \in 1..(n + 1) : \E i \in U(k + 1) : more[j] = RangeOf(entries[i])
    <2> TAKE j \in 1..(n + 1)
    <2>1. CASE j = n + 1
      BY <1>3, <1>4, <2>1 DEF r
    <2>2. CASE j \in 1..n
      BY <1>3, <1>4, <1>5, <2>2
    <2> QED BY <1>2, <2>1, <2>2
  <1>9. \A i \in U(k + 1) : \E j \in 1..(n + 1) : more[j] = RangeOf(entries[i])
    <2> TAKE i \in U(k + 1)
    <2>1. CASE i = k + 1
      BY <1>2, <1>3, <2>1 DEF r
    <2>2. CASE i \in U(k)
      <3>1. PICK j \in 1..n : secs[j] = RangeOf(entries[i])
        BY <1>5, <2>2
      <3>2. j \in 1..(n + 1)
        BY <1>2
      <3> QED BY <1>3, <3>1, <3>2
    <2> QED BY <1>4, <2>1, <2>2
  <1>10. \A j1, j2 \in 1..(n + 1) : j1 # j2 => Apart(more[j1], more[j2])
    <2> TAKE j1, j2 \in 1..(n + 1)
    <2>1. j1 \in 1..n \/ j1 = n + 1
      BY <1>2
    <2>2. j2 \in 1..n \/ j2 = n + 1
      BY <1>2
    <2> QED BY <1>3, <1>5, <1>7, <2>1, <2>2
  <1> QED BY <1>3, <1>5, <1>6, <1>8, <1>9, <1>10 DEF Scanned, n, r, more, U

LEMMA ScanSkips ==
  ASSUME NEW entries, NEW secs, NEW k \in Nat, k + 1 <= Len(entries),
         Scanned(entries, secs, k), ~IsUsable(entries[k + 1])
  PROVE  Scanned(entries, secs, k + 1)
  <1>1. UsableIn(entries, k + 1) = UsableIn(entries, k)
    BY DEF UsableIn
  <1> QED BY <1>1 DEF Scanned

(* The sections start at pages and do not overlap.                         *)
LEMMA SectionTypes ==
  ASSUME NEW entries, IsMemoryMap(entries), NEW secs \in Seq(Nat \X Nat),
         Scanned(entries, secs, Len(entries))
  PROVE  /\ Len(secs) \in Nat /\ DOMAIN secs = 1..Len(secs)
         /\ \A j \in 1..Len(secs) :
              secs[j][1] \in Nat /\ secs[j][2] \in Nat /\ Aligned(secs[j][1])
         /\ \A j1, j2 \in 1..Len(secs) : j1 # j2 => Apart(secs[j1], secs[j2])
  <1>1. Len(secs) \in Nat /\ DOMAIN secs = 1..Len(secs)
    OBVIOUS
  <1>2. ASSUME NEW j \in 1..Len(secs)
        PROVE  secs[j][1] \in Nat /\ secs[j][2] \in Nat /\ Aligned(secs[j][1])
    <2>1. PICK i \in UsableIn(entries, Len(entries)) : secs[j] = RangeOf(entries[i])
      BY <1>1 DEF Scanned
    <2>2. i \in 1..Len(entries) /\ IsUsable(entries[i])
      BY DEF UsableIn
    <2>3. secs[j] \in Nat \X Nat
      BY <1>1
    <2>4. secs[j][1] = entries[i].base
      BY <2>1 DEF RangeOf
    <2> QED BY <2>2, <2>3, <2>4, MapTypes
  <1> QED BY <1>1, <1>2 DEF Scanned

-----------------------------------------------------------------------------
(* freelist_init, in the section and at the address where it is: the pages *)
(* of the sections before that, and those of this one that lie below.      *)
Fits(secs, j, p) == secs[j][1] <= p /\ p + PageSize <= secs[j][2]

Pages == {p \in Nat \ {0} : Aligned(p)}

PagesIn(secs) == {p \in Pages : \E j \in DOMAIN secs : Fits(secs, j, p)}

PagesTo(secs, i, addr) ==
  {p \in Pages : \/ \E j \in 1..(i - 1) : Fits(secs, j, p)
                 \/ i <= Len(secs) /\ p < addr /\ Fits(secs, i, p)}

Reached(secs, i, addr) ==
  /\ i \in 1..(Len(secs) + 1)
  /\ i <= Len(secs) => Aligned(addr) /\ secs[i][1] <= addr

SectionsOf(secs) ==
  /\ secs \in Seq(Nat \X Nat)
  /\ \A j \in 1..Len(secs) :
       secs[j][1] \in Nat /\ secs[j][2] \in Nat /\ Aligned(secs[j][1])
  /\ \A j1, j2 \in 1..Len(secs) : j1 # j2 => Apart(secs[j1], secs[j2])

(* One page of the section it is in: it was not in the list.               *)
LEMMA PagePassed ==
  ASSUME NEW secs, SectionsOf(secs), NEW i \in Nat, NEW addr \in Nat, Reached(secs, i, addr),
         i <= Len(secs), addr + PageSize <= secs[i][2]
  PROVE  /\ addr \notin PagesTo(secs, i, addr)
         /\ PagesTo(secs, i, addr + PageSize) =
              PagesTo(secs, i, addr) \union (IF addr = 0 THEN {} ELSE {addr})
         /\ Reached(secs, i, addr + PageSize)
  <1>1. Len(secs) \in Nat /\ i \in 1..Len(secs) /\ PageSize \in Nat /\ PageSize > 0
    BY MachineAssumption DEF Reached, SectionsOf
  <1>2. /\ secs[i][1] \in Nat /\ secs[i][2] \in Nat
        /\ secs[i][1] <= addr /\ Aligned(addr)
    BY <1>1 DEF Reached, SectionsOf
  <1>3. ASSUME NEW j \in 1..(i - 1) PROVE ~Fits(secs, j, addr)
    <2>1. j \in 1..Len(secs) /\ j # i
      BY <1>1
    <2>2. /\ secs[j][1] \in Nat /\ secs[j][2] \in Nat
          /\ secs[j][2] <= secs[i][1] \/ secs[i][2] <= secs[j][1]
      BY <1>1, <2>1 DEF SectionsOf, Apart
    <2>3. addr < secs[i][2] /\ addr < addr + PageSize
      BY <1>1, <1>2
    <2>4. CASE secs[j][2] <= secs[i][1]
      <3>1. secs[j][2] <= addr
        BY <1>2, <2>2, <2>4
      <3> QED BY <1>1, <2>2, <2>3, <3>1 DEF Fits
    <2>5. CASE secs[i][2] <= secs[j][1]
      <3>1. addr < secs[j][1]
        BY <1>2, <2>2, <2>3, <2>5
      <3>2. ~(secs[j][1] <= addr)
        BY <2>2, <3>1
      <3> QED BY <3>2 DEF Fits
    <2> QED BY <2>2, <2>4, <2>5
  <1>4. ASSUME NEW p \in Pages
        PROVE  p < addr + PageSize /\ Fits(secs, i, p) <=>
                 p = addr \/ (p < addr /\ Fits(secs, i, p))
    <2>1. p \in Nat /\ Aligned(p)
      BY DEF Pages
    <2>2. p = addr => p < addr + PageSize /\ Fits(secs, i, p)
      BY <1>1, <1>2 DEF Fits
    <2>3. p < addr => p < addr + PageSize
      BY <1>1, <2>1
    <2>4. p < addr + PageSize => p = addr \/ p < addr
      BY <1>2, <2>1, NextAligned
    <2> QED BY <2>2, <2>3, <2>4
  <1>5. addr \notin PagesTo(secs, i, addr)
    BY <1>3 DEF PagesTo
  <1>6. addr # 0 => addr \in Pages
    BY <1>2 DEF Pages
  <1>7. 0 \notin Pages
    BY DEF Pages
  <1>8. PagesTo(secs, i, addr + PageSize) =
          PagesTo(secs, i, addr) \union (IF addr = 0 THEN {} ELSE {addr})
    <2>1. \A p \in Pages : p \in PagesTo(secs, i, addr + PageSize) <=>
                             p = addr \/ p \in PagesTo(secs, i, addr)
      BY <1>1, <1>4 DEF PagesTo
    <2>2. /\ PagesTo(secs, i, addr) \subseteq Pages
          /\ PagesTo(secs, i, addr + PageSize) \subseteq Pages
      BY DEF PagesTo
    <2> QED BY <1>6, <1>7, <2>1, <2>2
  <1>9. Reached(secs, i, addr + PageSize)
    <2>1. Aligned(addr + PageSize)
      BY <1>2, NextAligned
    <2>2. secs[i][1] <= addr + PageSize
      BY <1>1, <1>2
    <2> QED BY <1>1, <2>1, <2>2 DEF Reached
  <1> QED BY <1>5, <1>8, <1>9

(* The next section: nothing is passed over.                               *)
LEMMA SectionPassed ==
  ASSUME NEW secs, SectionsOf(secs), NEW i \in Nat, NEW addr \in Nat, Reached(secs, i, addr),
         i <= Len(secs), ~(addr + PageSize <= secs[i][2])
  PROVE  LET next == IF i + 1 <= Len(secs) THEN secs[i + 1][1] ELSE 0 IN
         /\ next \in Nat
         /\ PagesTo(secs, i + 1, next) = PagesTo(secs, i, addr)
         /\ Reached(secs, i + 1, next)
  <1> DEFINE next == IF i + 1 <= Len(secs) THEN secs[i + 1][1] ELSE 0
  <1>1. Len(secs) \in Nat /\ i \in 1..Len(secs) /\ PageSize \in Nat /\ PageSize > 0
    BY MachineAssumption DEF Reached, SectionsOf
  <1>2. secs[i][1] \in Nat /\ secs[i][2] \in Nat
    BY <1>1 DEF SectionsOf
  <1>3. ASSUME i + 1 <= Len(secs)
        PROVE  secs[i + 1][1] \in Nat /\ Aligned(secs[i + 1][1])
    <2>1. i + 1 \in 1..Len(secs)
      BY <1>1, <1>3
    <2> QED BY <2>1 DEF SectionsOf
  <1>4. ASSUME NEW p \in Pages
        PROVE  Fits(secs, i, p) => p < addr
    <2>1. p \in Nat
      BY DEF Pages
    <2> SUFFICES ASSUME p + PageSize <= secs[i][2] PROVE p < addr
      BY DEF Fits
    <2>2. PICK e \in Nat : e = secs[i][2]
      BY <1>2
    <2>3. p + PageSize <= e /\ ~(addr + PageSize <= e)
      BY <2>2
    <2> QED BY <1>1, <2>1, <2>3, SMTT(30)
  <1>5. ASSUME NEW p \in Pages
        PROVE  ~(i + 1 <= Len(secs) /\ p < next /\ Fits(secs, i + 1, p))
    <2>1. p \in Nat
      BY DEF Pages
    <2> QED BY <1>3, <2>1 DEF Fits
  <1>6. next \in Nat /\ Reached(secs, i + 1, next)
    BY <1>1, <1>3 DEF Reached
  <1>7. \A j : j \in 1..(i + 1 - 1) <=> j \in 1..(i - 1) \/ j = i
    BY <1>1
  <1>8. PagesTo(secs, i + 1, next) = PagesTo(secs, i, addr)
    <2> HIDE DEF next
    <2> QED BY <1>1, <1>4, <1>5, <1>7 DEF PagesTo
  <1> QED BY <1>6, <1>8

(* At the start nothing, at the end everything.                            *)
LEMMA FirstSection ==
  ASSUME NEW secs, SectionsOf(secs)
  PROVE  LET first == IF 1 <= Len(secs) THEN secs[1][1] ELSE 0 IN
         first \in Nat /\ Reached(secs, 1, first) /\ PagesTo(secs, 1, first) = {}
  <1>1. Len(secs) \in Nat
    BY DEF SectionsOf
  <1>2. 1 <= Len(secs) => 1 \in 1..Len(secs) /\ secs[1][1] \in Nat /\ Aligned(secs[1][1])
    BY <1>1 DEF SectionsOf
  <1>3. ASSUME NEW p \in Pages, 1 <= Len(secs), p < secs[1][1] PROVE ~Fits(secs, 1, p)
    <2>1. p \in Nat
      BY DEF Pages
    <2> QED BY <1>2, <1>3, <2>1 DEF Fits
  <1> QED BY <1>1, <1>2, <1>3 DEF Reached, PagesTo

LEMMA AllPassed ==
  ASSUME NEW secs, SectionsOf(secs), NEW i \in Nat, NEW addr, Reached(secs, i, addr),
         i > Len(secs)
  PROVE  PagesTo(secs, i, addr) = PagesIn(secs)
  <1>1. Len(secs) \in Nat /\ i = Len(secs) + 1 /\ DOMAIN secs = 1..(i - 1)
    BY DEF SectionsOf, Reached
  <1> QED BY <1>1 DEF PagesTo, PagesIn

LEMMA PageFreed ==
  ASSUME NEW list \in Seq(Nat), NEW p \in Nat, IsInjective(list), p \notin ToSet(list)
  PROVE  LET more == <<p>> \o list IN
         more \in Seq(Nat) /\ IsInjective(more) /\ ToSet(more) = ToSet(list) \union {p}
  <1> DEFINE more == <<p>> \o list
             n == Len(list)
  <1>1. n \in Nat /\ DOMAIN list = 1..n /\ <<p>> \in Seq(Nat)
    OBVIOUS
  <1>2. /\ more \in Seq(Nat) /\ DOMAIN more = 1..(n + 1) /\ more[1] = p
        /\ \A j \in 2..(n + 1) : more[j] = list[j - 1]
    BY <1>1
  <1>3. \A j \in 1..n : more[j + 1] = list[j]
    <2> TAKE j \in 1..n
    <2>1. j + 1 \in 2..(n + 1) /\ (j + 1) - 1 = j
      BY <1>1
    <2> QED BY <1>2, <2>1
  <1>4. \A j \in 1..(n + 1) : j # 1 => j \in 2..(n + 1) /\ j - 1 \in 1..n
    BY <1>1
  <1>5. 1 \in 1..(n + 1) /\ \A j \in 1..n : j + 1 \in 1..(n + 1)
    BY <1>1
  <1> HIDE DEF more, n
  <1>6. ToSet(more) = ToSet(list) \union {p}
    <2>1. ASSUME NEW j \in DOMAIN more PROVE more[j] \in ToSet(list) \union {p}
      <3>1. j = 1 \/ (j \in 2..(n + 1) /\ j - 1 \in 1..n)
        BY <1>2, <1>4
      <3> QED BY <1>1, <1>2, <3>1 DEF ToSet
    <2>2. p \in ToSet(more)
      BY <1>2, <1>5 DEF ToSet
    <2>3. ASSUME NEW j \in DOMAIN list PROVE list[j] \in ToSet(more)
      <3>1. j + 1 \in DOMAIN more
        BY <1>1, <1>2, <1>5
      <3> QED BY <1>1, <1>3, <3>1 DEF ToSet
    <2> QED BY <2>1, <2>2, <2>3 DEF ToSet
  <1>7. IsInjective(more)
    <2> SUFFICES ASSUME NEW j1 \in DOMAIN more, NEW j2 \in DOMAIN more, more[j1] = more[j2]
                 PROVE  j1 = j2
      BY DEF IsInjective
    <2>1. \A j \in DOMAIN more : j # 1 => /\ j - 1 \in DOMAIN list /\ more[j] = list[j - 1]
                                          /\ more[j] # p
      <3> SUFFICES ASSUME NEW j \in DOMAIN more, j # 1
                   PROVE  j - 1 \in DOMAIN list /\ more[j] = list[j - 1] /\ more[j] # p
        OBVIOUS
      <3>1. j - 1 \in DOMAIN list /\ j \in 2..(n + 1)
        BY <1>1, <1>2, <1>4
      <3> QED BY <1>2, <3>1 DEF ToSet
    <2>2. CASE j1 # 1 /\ j2 # 1
      <3>1. j1 - 1 = j2 - 1
        BY <2>1, <2>2 DEF IsInjective
      <3> QED BY <1>2, <3>1
    <2> QED BY <1>2, <2>1, <2>2
  <1> QED BY <1>2, <1>6, <1>7 DEF more

-----------------------------------------------------------------------------
(* mem_init, with what is true before and after it.                        *)
ToMemory == ToGate \union {"mem_init"}
AtEnd == {"exec", "user", "halted"}

Memory ==
  /\ sections \in Seq(Nat \X Nat)
  /\ loop \in [i : Nat, addr : Nat]
  /\ free \in Seq(Nat)
  /\ pc \in ToGate => sections = <<>>
  /\ pc \in ToMemory => free = <<>>
  /\ pc = "mem_init" => loop.i >= 1 /\ Scanned(memmap, sections, loop.i - 1)
  /\ pc = "smashed" =>
       2 * Len(sections) > MaxMemSections /\ \E k \in Nat : Scanned(memmap, sections, k)
  /\ pc \in AtEnd \union {"freelist_init"} => Scanned(memmap, sections, Len(memmap))
  /\ pc = "freelist_init" =>
       /\ Reached(sections, loop.i, loop.addr)
       /\ IsInjective(free) /\ ToSet(free) = PagesTo(sections, loop.i, loop.addr)
  /\ pc \in AtEnd => IsInjective(free) /\ ToSet(free) = PagesIn(sections)

LEMMA InitMemory == Init => Memory
  <1> SUFFICES ASSUME Init PROVE Memory
    OBVIOUS
  <1>1. /\ pc = "start" /\ sections = <<>> /\ free = <<>> /\ loop = [i |-> 1, addr |-> 0]
    BY DEF Init
  <1> QED BY <1>1 DEF Memory, AtEnd

LEMMA HeaderKept == [Next]_vars => hdr' = hdr /\ memmap' = memmap
  <1>1. [Next]_vars => hdr' = hdr
    BY DEF Next, Setup, vars, Goto, FindTags, PicInit, Sti, SetHandlers, Lidt, GdtSetup, Lgdt,
       SetTss, Ltr, UnmaskKeyboard, SetSyscallHandler, ScanEntry, ScanDone, FreePage,
       NextSection, FreelistDone, RunInit, Raise, Fall, Interrupt, Exception, SystemCall
  <1>2. hdr' = hdr => memmap' = memmap
    BY DEF memmap, find_tag
  <1> QED BY <1>1, <1>2

LEMMA SectionsKnown ==
  ASSUME hdr \in Handover, Memory, pc \in AtEnd \union {"freelist_init"}
  PROVE  SectionsOf(sections)
  BY MapIsSound, SectionTypes DEF Memory, SectionsOf

LEMMA NextMemory ==
  ASSUME SetUp, Memory, [Next]_vars, pc' # "dead"
  PROVE  Memory'
  <1>1. hdr \in Handover /\ memmap' = memmap /\ IsMemoryMap(memmap) /\ pc \in ToGate \union Later
    BY HeaderKept, MapIsSound DEF SetUp, Controllers
  <1>2. sections \in Seq(Nat \X Nat) /\ loop \in [i : Nat, addr : Nat] /\ free \in Seq(Nat)
    BY DEF Memory
  <1>3. Len(memmap) \in Nat
    BY <1>1, MapTypes
  <1> USE DEF ToPics, ToSti, ToHandlers, ToLidt, ToGdt, ToLgdt, ToTss, ToLtr, ToUnmask, ToGate,
              ToMemory, AtEnd
  <1>4. ASSUME UNCHANGED <<sections, free>>, loop' \in [i : Nat, addr : Nat],
               pc \in ToUnmask, pc' \in ToGate
        PROVE  Memory'
    BY <1>2, <1>4 DEF Memory
  <1>5. ASSUME UNCHANGED <<pc, sections, loop, free>> PROVE Memory'
    BY <1>1, <1>5 DEF Memory
  <1>6. ASSUME UNCHANGED <<sections, loop, free>>, pc \in AtEnd, pc' \in AtEnd PROVE Memory'
    BY <1>1, <1>6 DEF Memory
  <1>7. CASE FindTags \/ Sti \/ SetHandlers \/ Lgdt \/ SetTss \/ Ltr \/ UnmaskKeyboard
    BY <1>2, <1>4, <1>7
    DEF FindTags, Sti, SetHandlers, Lgdt, SetTss, Ltr, UnmaskKeyboard, Goto, memory
  <1>8. CASE PicInit \/ Lidt \/ GdtSetup
    <2>1. /\ sections' = sections /\ free' = free
          /\ loop' = [loop EXCEPT !.i = loop.i + 1] \/ loop' = [loop EXCEPT !.i = 1]
      BY <1>8 DEF PicInit, Lidt, GdtSetup
    <2>2. loop' \in [i : Nat, addr : Nat]
      BY <1>2, <2>1
    <2>3. pc \in ToUnmask /\ pc' \in ToGate
      BY <1>8 DEF PicInit, Lidt, GdtSetup, Goto
    <2> QED BY <1>4, <2>1, <2>2, <2>3
  <1>9. CASE SetSyscallHandler
    <2>1. /\ pc' = "mem_init" /\ sections' = <<>> /\ free' = <<>>
          /\ loop' = [loop EXCEPT !.i = 1]
      BY <1>9 DEF SetSyscallHandler, Goto, Memory
    <2>2. loop'.i = 1 /\ loop' \in [i : Nat, addr : Nat]
      BY <1>2, <2>1
    <2>3. UsableIn(memmap, 0) = {}
      BY DEF UsableIn
    <2>4. Scanned(memmap, <<>>, 0)
      BY <1>3, <2>3, FS_EmptySet DEF Scanned
    <2> QED BY <1>1, <2>1, <2>2, <2>4 DEF Memory
  <1>10. CASE ScanEntry
    <2>1. /\ pc = "mem_init" /\ free = <<>> /\ loop.i >= 1
          /\ Scanned(memmap, sections, loop.i - 1)
      BY <1>10 DEF ScanEntry, Goto, Memory
    <2>2. loop.i \in Nat /\ loop.i - 1 \in Nat
      BY <1>2, <2>1
    <2>3. PICK k \in Nat : k = loop.i - 1
      BY <2>2
    <2>4. loop.i = k + 1
      BY <2>2, <2>3
    <2> DEFINE e == memmap[k + 1]
    <2>5. /\ loop' = [loop EXCEPT !.i = loop.i + 1] /\ free' = free /\ k + 1 <= Len(memmap)
          /\ IF IsUsable(e) THEN sections' = Append(sections, RangeOf(e))
             ELSE sections' = sections /\ pc' = "mem_init"
          /\ pc' = "mem_init" \/ (pc' = "smashed" /\ 2 * Len(sections) + 2 > MaxMemSections)
      BY <1>10, <2>4 DEF ScanEntry, Goto, RangeOf
    <2>6. loop' \in [i : Nat, addr : Nat] /\ loop'.i - 1 = k + 1 /\ loop'.i >= 1
      <3>1. loop.i + 1 \in Nat /\ loop.i + 1 >= 1 /\ (loop.i + 1) - 1 = k + 1
        BY <2>4
      <3>2. loop' \in [i : Nat, addr : Nat] /\ loop'.i = loop.i + 1
        BY <1>2, <2>5, <3>1
      <3> QED BY <3>1, <3>2
    <2>7. Scanned(memmap, sections, k)
      BY <2>1, <2>3
    <2>8. CASE IsUsable(e)
      <3>1. LET more == Append(sections, RangeOf(memmap[k + 1])) IN
            /\ more \in Seq(Nat \X Nat) /\ Len(more) = Len(sections) + 1
            /\ Scanned(memmap, more, k + 1)
        BY <1>1, <1>2, <2>5, <2>7, <2>8, ScanAdds
      <3>2. /\ sections' \in Seq(Nat \X Nat) /\ Len(sections') = Len(sections) + 1
            /\ Scanned(memmap, sections', k + 1)
        BY <2>5, <2>8, <3>1
      <3>3. 2 * Len(sections') = 2 * Len(sections) + 2
        BY <1>2, <3>2
      <3>4. free' \in Seq(Nat) /\ free' = <<>>
        BY <1>2, <2>1, <2>5
      <3>5. CASE pc' = "mem_init"
        BY <1>1, <2>6, <3>2, <3>4, <3>5 DEF Memory
      <3>6. CASE pc' = "smashed"
        <4>1. 2 * Len(sections') > MaxMemSections
          BY <2>5, <3>3, <3>6
        <4>2. \E j \in Nat : Scanned(memmap', sections', j)
          BY <1>1, <3>2
        <4> QED BY <2>6, <3>2, <3>4, <3>6, <4>1, <4>2 DEF Memory
      <3> QED BY <2>5, <3>5, <3>6
    <2>9. CASE ~IsUsable(e)
      <3>1. Scanned(memmap, sections', k + 1)
        BY <2>5, <2>7, <2>9, ScanSkips
      <3> QED BY <1>1, <1>2, <2>1, <2>5, <2>6, <2>9, <3>1 DEF Memory
    <2> QED BY <2>8, <2>9
  <1>11. CASE ScanDone
    <2>1. /\ pc = "mem_init" /\ pc' = "freelist_init" /\ loop.i > Len(memmap)
          /\ loop' = EnterSection(1) /\ sections' = sections /\ free' = <<>>
          /\ Scanned(memmap, sections, loop.i - 1)
      BY <1>11 DEF ScanDone, Goto, Memory
    <2>2. Scanned(memmap, sections, Len(memmap))
      <3>1. loop.i - 1 <= Len(memmap)
        BY <2>1 DEF Scanned
      <3>2. loop.i - 1 = Len(memmap)
        BY <1>2, <1>3, <2>1, <3>1
      <3> QED BY <2>1, <3>2
    <2>3. SectionsOf(sections)
      BY <1>1, <1>2, <2>2, SectionTypes DEF SectionsOf
    <2>4. /\ loop' \in [i : Nat, addr : Nat]
          /\ Reached(sections, loop'.i, loop'.addr)
          /\ PagesTo(sections, loop'.i, loop'.addr) = {}
      BY <2>1, <2>3, FirstSection DEF EnterSection
    <2>5. ToSet(<<>>) = {} /\ IsInjective(<<>>) /\ <<>> \in Seq(Nat)
      BY DEF ToSet, IsInjective
    <2> QED BY <1>1, <1>2, <2>1, <2>2, <2>4, <2>5 DEF Memory
  <1>12. CASE FreePage
    <2>1. /\ pc = "freelist_init" /\ pc' = "freelist_init" /\ loop.i <= Len(sections)
          /\ loop.addr + PageSize <= sections[loop.i][2]
          /\ free' = (IF loop.addr = 0 \/ loop.addr % PageSize # 0 THEN free
                      ELSE <<loop.addr>> \o free)
          /\ loop' = [loop EXCEPT !.addr = @ + PageSize] /\ sections' = sections
      BY <1>12 DEF FreePage, Goto, PageFits, Freed
    <2>2. /\ Reached(sections, loop.i, loop.addr) /\ SectionsOf(sections)
          /\ IsInjective(free) /\ ToSet(free) = PagesTo(sections, loop.i, loop.addr)
          /\ Scanned(memmap, sections, Len(memmap))
      BY <1>1, <2>1, SectionsKnown DEF Memory
    <2>3. loop.addr % PageSize = 0
      BY <2>1, <2>2 DEF Reached, Aligned
    <2>4. /\ loop.addr \notin PagesTo(sections, loop.i, loop.addr)
          /\ PagesTo(sections, loop.i, loop.addr + PageSize) =
               PagesTo(sections, loop.i, loop.addr)
                 \union (IF loop.addr = 0 THEN {} ELSE {loop.addr})
          /\ Reached(sections, loop.i, loop.addr + PageSize)
      BY <1>2, <2>1, <2>2, PagePassed
    <2>5. /\ loop' \in [i : Nat, addr : Nat] /\ loop'.i = loop.i
          /\ loop'.addr = loop.addr + PageSize
      <3>1. PageSize \in Nat
        BY MachineAssumption
      <3>2. loop.addr + PageSize \in Nat
        BY <1>2, <3>1
      <3> QED BY <1>2, <2>1, <3>2
    <2>6. /\ free' \in Seq(Nat) /\ IsInjective(free')
          /\ ToSet(free') = PagesTo(sections, loop.i, loop.addr + PageSize)
      BY <1>2, <2>1, <2>2, <2>3, <2>4, PageFreed
    <2> QED BY <1>1, <1>2, <2>1, <2>2, <2>4, <2>5, <2>6 DEF Memory
  <1>13. CASE NextSection
    <2>1. /\ pc = "freelist_init" /\ pc' = "freelist_init" /\ loop.i <= Len(sections)
          /\ ~(loop.addr + PageSize <= sections[loop.i][2])
          /\ loop' = EnterSection(loop.i + 1) /\ sections' = sections /\ free' = free
      BY <1>13 DEF NextSection, Goto, PageFits
    <2>2. /\ Reached(sections, loop.i, loop.addr) /\ SectionsOf(sections)
          /\ IsInjective(free) /\ ToSet(free) = PagesTo(sections, loop.i, loop.addr)
          /\ Scanned(memmap, sections, Len(memmap))
      BY <1>1, <2>1, SectionsKnown DEF Memory
    <2>3. /\ loop' \in [i : Nat, addr : Nat]
          /\ Reached(sections, loop'.i, loop'.addr)
          /\ PagesTo(sections, loop'.i, loop'.addr) = PagesTo(sections, loop.i, loop.addr)
      <3> DEFINE next == IF loop.i + 1 <= Len(sections) THEN sections[loop.i + 1][1] ELSE 0
      <3>1. /\ next \in Nat /\ Reached(sections, loop.i + 1, next)
            /\ PagesTo(sections, loop.i + 1, next) = PagesTo(sections, loop.i, loop.addr)
        BY <1>2, <2>1, <2>2, SectionPassed
      <3>2. loop' = [i |-> loop.i + 1, addr |-> next]
        BY <2>1 DEF EnterSection
      <3>3. loop.i + 1 \in Nat
        BY <1>2
      <3> HIDE DEF next
      <3> QED BY <3>1, <3>2, <3>3
    <2> QED BY <1>1, <1>2, <2>1, <2>2, <2>3 DEF Memory
  <1>14. CASE FreelistDone
    <2>1. /\ pc = "freelist_init" /\ pc' = "exec" /\ loop.i > Len(sections)
          /\ UNCHANGED <<sections, loop, free>>
      BY <1>14 DEF FreelistDone, Goto, memory
    <2>2. SectionsOf(sections) /\ Reached(sections, loop.i, loop.addr)
      BY <1>1, <2>1, SectionsKnown DEF Memory
    <2>3. PagesTo(sections, loop.i, loop.addr) = PagesIn(sections)
      BY <1>2, <2>1, <2>2, AllPassed
    <2> QED BY <1>1, <2>1, <2>3 DEF Memory
  <1>15. CASE RunInit \/ SystemCall \/ \E v \in Exceptions : Exception(v)
    BY <1>6, <1>15 DEF RunInit, SystemCall, Exception, Goto, memory
  <1>16. CASE (\E q \in Irq : Raise(q) \/ Fall(q) \/ Interrupt(q)) \/ UNCHANGED vars
    BY <1>5, <1>16 DEF Raise, Fall, Interrupt, memory, vars
  <1> QED
    BY <1>7, <1>8, <1>9, <1>10, <1>11, <1>12, <1>13, <1>14, <1>15, <1>16 DEF Next, Setup

LEMMA SpecMemory == Spec => []Memory
  <1>1. SetUp /\ SetUp' /\ Memory /\ [Next]_vars => Memory'
    BY NextMemory, NextAlive
  <1> QED BY <1>1, InitMemory, SpecSetUp, PTL DEF Spec

-----------------------------------------------------------------------------
(* The freelist holds each whole page of usable memory once, but not page  *)
(* 0, and nothing else, whatever the memory map: in any order, with other  *)
(* ranges between, with ends inside a page, empty (boot.c:207-225,         *)
(* page.c:186-200).                                                        *)
THEOREM FreelistHoldsAllPages == Spec => []FreelistComplete
  <1>1. SetUp /\ Memory => FreelistComplete
    <2> SUFFICES ASSUME SetUp, Memory, pc \in AtEnd PROVE FreelistComplete
      BY DEF FreelistComplete, AtEnd
    <2>1. /\ IsMemoryMap(memmap) /\ Scanned(memmap, sections, Len(memmap))
          /\ IsInjective(free) /\ ToSet(free) = PagesIn(sections)
      BY MapIsSound DEF SetUp, Memory
    <2> DEFINE Whole ==
          {p \in UNION {e.base..EndOf(e) : e \in ToSet(memmap)} :
             /\ p # 0 /\ p % PageSize = 0
             /\ \E e \in ToSet(memmap) :
                  e.type = Usable /\ e.base <= p /\ p + PageSize <= EndOf(e)}
    <2>2. /\ PageSize \in Nat /\ Len(memmap) \in Nat
          /\ DOMAIN memmap = 1..Len(memmap)
          /\ \A i \in 1..Len(memmap) : memmap[i] \in [base : Nat, length : Nat, type : Nat]
      BY <2>1, MapTypes, MachineAssumption
    <2>3. ASSUME NEW p \in PagesIn(sections) PROVE p \in Whole
      <3>1. PICK j \in DOMAIN sections : Fits(sections, j, p)
        BY DEF PagesIn
      <3>2. PICK i \in UsableIn(memmap, Len(memmap)) : sections[j] = RangeOf(memmap[i])
        BY <2>1 DEF Scanned
      <3>3. PICK e \in ToSet(memmap) : e = memmap[i]
        BY <2>2 DEF UsableIn, ToSet
      <3>4. /\ e \in [base : Nat, length : Nat, type : Nat] /\ e.type = Usable
            /\ EndOf(e) \in Nat
        BY <2>2, <3>2, <3>3 DEF UsableIn, IsUsable, EndOf
      <3>5. e.base <= p /\ p + PageSize <= EndOf(e)
        BY <3>1, <3>2, <3>3 DEF Fits, RangeOf
      <3>6. p \in Nat /\ p # 0 /\ p % PageSize = 0
        BY DEF PagesIn, Pages, Aligned
      <3>7. p \in e.base..EndOf(e)
        BY <2>2, <3>4, <3>5, <3>6
      <3> QED BY <3>4, <3>5, <3>6, <3>7
    <2>4. ASSUME NEW p \in Whole PROVE p \in PagesIn(sections)
      <3>1. PICK e \in ToSet(memmap) :
              e.type = Usable /\ e.base <= p /\ p + PageSize <= EndOf(e)
        OBVIOUS
      <3>2. PICK i \in 1..Len(memmap) : e = memmap[i]
        BY <2>2 DEF ToSet
      <3>3. i \in UsableIn(memmap, Len(memmap))
        BY <3>1, <3>2 DEF UsableIn, IsUsable
      <3>4. PICK j \in DOMAIN sections : sections[j] = RangeOf(memmap[i])
        BY <2>1, <3>3 DEF Scanned
      <3>5. Fits(sections, j, p)
        BY <3>1, <3>2, <3>4 DEF Fits, RangeOf
      <3>6. p \in Int /\ p # 0 /\ p % PageSize = 0
        OBVIOUS
      <3>7. e.base \in Nat
        BY <2>2, <3>2
      <3>8. p \in Pages
        BY <3>1, <3>6, <3>7 DEF Pages, Aligned
      <3> QED BY <3>5, <3>8 DEF PagesIn
    <2>5. ToSet(free) = Whole
      <3> HIDE DEF Whole
      <3> QED BY <2>1, <2>3, <2>4
    <2> QED BY <2>1, <2>5 DEF FreelistComplete
  <1> QED BY <1>1, SpecSetUp, SpecMemory, PTL

(* The arrays of mem_init are only written past their end when the map has *)
(* more usable ranges than half of MAX_MEM_SECTIONS (boot.c:141-142, 208): *)
(* ranges of other types, however many, take no room in them.              *)
THEOREM OverflowNeedsRanges == Spec => []SectionsFit
  <1>1. SetUp /\ Memory => SectionsFit
    <2> SUFFICES ASSUME SetUp, Memory, pc = "smashed"
                 PROVE  2 * Cardinality({i \in DOMAIN memmap : memmap[i].type = Usable})
                          > MaxMemSections
      BY DEF SectionsFit
    <2>1. PICK k \in Nat : Scanned(memmap, sections, k)
      BY DEF Memory
    <2>2. 2 * Len(sections) > MaxMemSections /\ sections \in Seq(Nat \X Nat)
      BY DEF Memory
    <2>3. Len(memmap) \in Nat /\ DOMAIN memmap = 1..Len(memmap)
      BY MapIsSound, MapTypes DEF SetUp
    <2>4. {i \in DOMAIN memmap : memmap[i].type = Usable} = UsableIn(memmap, Len(memmap))
      BY <2>3 DEF UsableIn, IsUsable
    <2>5. k <= Len(memmap) /\ Len(sections) = Cardinality(UsableIn(memmap, k))
      BY <2>1 DEF Scanned
    <2>6. /\ Cardinality(UsableIn(memmap, k)) <= Cardinality(UsableIn(memmap, Len(memmap)))
          /\ Cardinality(UsableIn(memmap, k)) \in Nat
          /\ Cardinality(UsableIn(memmap, Len(memmap))) \in Nat
      BY <2>3, <2>5, UsableCount
    <2>7. MaxMemSections \in Nat
      BY MachineAssumption
    <2>8. 2 * Cardinality(UsableIn(memmap, Len(memmap))) > MaxMemSections
      BY <2>2, <2>5, <2>6, <2>7
    <2> QED BY <2>4, <2>8
  <1> QED BY <1>1, SpecSetUp, SpecMemory, PTL

(* The types of Boot's variables.                                          *)
THEOREM TypeCorrect == Spec => []TypeOK
  <1>1. lines \subseteq Irq /\ [Next]_vars => (lines \subseteq Irq)'
    <2> SUFFICES ASSUME lines \subseteq Irq, [Next]_vars PROVE lines' \subseteq Irq
      OBVIOUS
    <2>1. lines' = lines \/ \E q \in Irq : lines' \in {lines \union {q}, lines \ {q}}
      BY DEF Next, Setup, vars, Goto, FindTags, PicInit, Sti, SetHandlers, Lidt, GdtSetup, Lgdt,
         SetTss, Ltr, UnmaskKeyboard, SetSyscallHandler, ScanEntry, ScanDone, FreePage,
         NextSection, FreelistDone, RunInit, Raise, Fall, Interrupt, Exception, SystemCall
    <2> QED BY <2>1
  <1>2. SetUp /\ Memory /\ lines \subseteq Irq => TypeOK
    <2> SUFFICES ASSUME SetUp, Memory, lines \subseteq Irq PROVE TypeOK
      OBVIOUS
    <2> USE DEF ToPics, ToSti, ToHandlers, ToLidt, ToGdt, ToLgdt, ToTss, ToLtr, ToUnmask,
                ToGate, Later
    <2>1. /\ pc \in ToGate \union Later /\ hdr \in Handover
          /\ pics \in [{1, 2} -> Pic]
          /\ pc \notin ToPics => pics[1].word = 0 /\ pics[2].word = 0
          /\ cpu \in Cpu /\ DOMAIN idt \subseteq 0..255
          /\ ToSet(idt) \subseteq {"interrupt", "trap"} /\ rsp0 \in BOOLEAN
      BY DEF SetUp, Controllers, Gates, Segments
    <2>2. DOMAIN gdt \subseteq 0..255
      <3>1. CASE pc \in ToLidt
        <4>1. gdt = <<>>
          BY <3>1 DEF SetUp, Segments
        <4> QED BY <4>1
      <3>2. CASE pc = "gdt_setup"
        <4>1. PICK k \in 0..4 : Described(k)
          BY <3>2 DEF SetUp, Segments
        <4> QED BY <4>1, DescriptorFacts DEF Described
      <3>3. CASE pc \notin ToGdt
        BY <3>3, TableIsWhole DEF SetUp, Segments, Selectors
      <3> QED BY <3>1, <3>2, <3>3
    <2>3. sections \in Seq(Nat \X Nat) /\ loop \in [i : Nat, addr : Nat] /\ free \in Seq(Nat)
      BY DEF Memory
    <2>4. (\A s \in ToSet(sections) : s \in Nat \X Nat) /\ \A p \in ToSet(free) : p \in Nat
      BY <2>3 DEF ToSet
    <2> QED BY <2>1, <2>2, <2>3, <2>4 DEF TypeOK, Pic, Offsets, Cpu
  <1>3. Init => lines \subseteq Irq
    BY DEF Init
  <1> QED BY <1>1, <1>2, <1>3, SpecSetUp, SpecMemory, PTL DEF Spec

=============================================================================
