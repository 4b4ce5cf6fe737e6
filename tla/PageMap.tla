-------------------------------- MODULE PageMap --------------------------------
(***************************************************************************)
(* What the paging operations promise about the user half of the address   *)
(* space, with no tables in it: a partial map from pages to a page of      *)
(* memory and the permissions last asked for, in which no two pages share  *)
(* memory, and which only an exec (or boot) takes down as a whole.         *)
(***************************************************************************)
EXTENDS Functions

CONSTANTS Page, Frame, Permission

VARIABLES
  mapping,  \* the mapped pages: page -> [frame, perm]
  usable    \* FALSE while the user half is being taken down

vars == <<mapping, usable>>

Init ==
  /\ mapping = << >>
  /\ usable = FALSE

(* A page gets memory that no other page maps; failing is a stutter.       *)
Map(p) ==
  /\ usable
  /\ p \notin DOMAIN mapping
  /\ \E f \in Frame, perm \in Permission :
       /\ \A q \in DOMAIN mapping : mapping[q].frame # f
       /\ mapping' = [q \in DOMAIN mapping \union {p} |->
                        IF q = p THEN [frame |-> f, perm |-> perm]
                                 ELSE mapping[q]]
  /\ UNCHANGED usable

Unmap(p) ==
  /\ usable
  /\ p \in DOMAIN mapping
  /\ mapping' = Restrict(mapping, DOMAIN mapping \ {p})
  /\ UNCHANGED usable

Protect(p) ==
  /\ usable
  /\ p \in DOMAIN mapping
  /\ \E perm \in Permission : mapping' = [mapping EXCEPT ![p].perm = perm]
  /\ UNCHANGED usable

StartClear ==
  /\ usable
  /\ usable' = FALSE
  /\ UNCHANGED mapping

(* Taking the map down loses pages, a table's worth at a time.             *)
Clear ==
  /\ ~usable
  /\ \E kept \in SUBSET DOMAIN mapping : mapping' = Restrict(mapping, kept)
  /\ UNCHANGED usable

(* The next program starts from an empty user half.                        *)
Cleared ==
  /\ ~usable
  /\ mapping = << >>
  /\ usable' = TRUE
  /\ UNCHANGED mapping

Next ==
  \/ \E p \in Page : Map(p) \/ Unmap(p) \/ Protect(p)
  \/ StartClear
  \/ Clear
  \/ Cleared

Spec == Init /\ [][Next]_vars

=============================================================================
