------------------------------- MODULE MCKernel -------------------------------
(* Programs on a machine with memory for two or three loads: init, a second *)
(* program, a file that is not executable and a name that is no module.     *)
(* Images, stack and mmaps lie below three level-4 entries, as they do on   *)
(* the real machine, and the higher half below a fourth.                    *)
EXTENDS Kernel

Table(f) == [frame |-> f, large |-> FALSE, user |-> TRUE, writable |-> TRUE,
             noExecute |-> FALSE]

Large(f) == [Table(f) EXCEPT !.large = TRUE]

MCRadix == 4
MCPageSize == 2
MCLowerHalf == {0, 1, 2}

(* The bootloader's tables are pages 1 to 3; usable memory is page 0 and   *)
(* the rest.                                                               *)
MCFrame == 1..18
MCUsableFrames == <<0>> \o [i \in 1..15 |-> 3 + i]
MCBootPte ==
  (<<0>> :> Table(1)) @@ (<<0, 0>> :> Large(4))
  @@ (<<3>> :> Table(2)) @@ (<<3, 0>> :> Table(3)) @@ (<<3, 1>> :> Large(4))

Text(vaddr, memsz) == [load |-> TRUE, vaddr |-> vaddr, memsz |-> memsz,
                       writable |-> FALSE, executable |-> TRUE]
Data(vaddr, memsz) == [Text(vaddr, memsz) EXCEPT !.writable = TRUE, !.executable = FALSE]
Rodata(vaddr, memsz) == [Text(vaddr, memsz) EXCEPT !.executable = FALSE]
Note == [Text(0, 1) EXCEPT !.load = FALSE]

File(exec, segments) == [exec |-> exec, segments |-> segments, entry |-> 10]

Init1 == File(TRUE, <<Note, Text(10, 2), Data(13, 1)>>)
TwoPages == File(TRUE, <<Text(10, 1), Rodata(13, 2)>>)
Object == File(FALSE, <<Text(10, 1)>>)

(* A page of the higher half, and a NULL segment.                          *)
NullLast == File(TRUE, <<Text(10, 1), Data(390, 1), Text(0, 1)>>)

MCModule == ("init" :> Init1) @@ ("program" :> TwoPages) @@ ("object" :> Object)
            @@ ("null" :> NullLast)

MCName == {"init", "program", "object", "null", "missing"}

MCStackBase == 128
MCStackPages == 2
MCMmapBase == 64

MCNamedPage == {PathOf(n) : n \in (5..7) \union (64..69) \union (128..129)
                               \union {194, 195, 208}}
MCPerm == [user : {TRUE}, writable : BOOLEAN, executable : BOOLEAN] \union {LoadingPerm}

(* The arguments malloc passes, a read-only mapping, and explicit          *)
(* addresses: one in the image, one free, in the way of the next NULL, one *)
(* in the higher half and one inside a large page there.                   *)
Anonymous == [bit0 |-> TRUE, bit1 |-> TRUE]
MmapArgs(addr, length) == [addr |-> addr, length |-> length, flags |-> Anonymous]
MCMmapCall ==
  {MmapArgs(0, 0), MmapArgs(0, 3), MmapArgs(10, 1), MmapArgs(130, 3),
   MmapArgs(388, 1), MmapArgs(416, 1),
   [MmapArgs(0, 1) EXCEPT !.flags.bit1 = FALSE]}
=============================================================================
