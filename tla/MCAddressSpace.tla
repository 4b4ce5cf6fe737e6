---------------------------- MODULE MCAddressSpace ----------------------------
(* A three-page user half on a machine with few pages: enough that two user *)
(* pages share a level-1 table, that a third shares only the level-3 table, *)
(* and that a vm_map can run out at each level.                             *)
EXTENDS AddressSpace

Table(f) == [frame |-> f, large |-> FALSE, user |-> TRUE, writable |-> TRUE,
             noExecute |-> FALSE]
Large(f) == [Table(f) EXCEPT !.large = TRUE]

MCFrame == 1..8
MCIndex == {0, 1}
MCLowerHalf == {0}
MCUsableFrames == <<0, 4, 5>>

(* The identity map below, with a 2M and a 1G page, and the higher half.   *)
MCBootPte ==
  (<<0>> :> Table(1)) @@ (<<0, 0>> :> Table(2)) @@ (<<0, 0, 0>> :> Table(3))
  @@ (<<0, 0, 0, 0>> :> Table(4)) @@ (<<0, 0, 0, 1>> :> Table(5))
  @@ (<<0, 0, 1>> :> Large(5)) @@ (<<0, 1>> :> Large(4))
  @@ (<<1>> :> Table(6)) @@ (<<1, 0>> :> Table(7)) @@ (<<1, 0, 0>> :> Large(4))
  @@ (<<1, 0, 1>> :> Table(8)) @@ (<<1, 0, 1, 0>> :> Table(5))

(* Pages of the user half; and of the higher half one that needs new       *)
(* tables, one that the bootloader mapped and one inside a large page.     *)
MCNamedPage == {<<0, 0, 0, 0>>, <<0, 0, 0, 1>>, <<0, 1, 0, 0>>,
                <<1, 1, 0, 0>>, <<1, 0, 1, 0>>, <<1, 0, 0, 0>>}

MCPerm == {[user |-> TRUE, writable |-> TRUE, executable |-> FALSE],
           [user |-> FALSE, writable |-> TRUE, executable |-> TRUE]}
=============================================================================
