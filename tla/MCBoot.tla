-------------------------------- MODULE MCBoot --------------------------------
(* Maps in pages of two bytes: with page 0 usable, with reserved ranges     *)
(* between, with a range that is no whole number of pages or smaller than  *)
(* one, with none that is usable, and with one more than the arrays hold.  *)
EXTENDS Boot

Entry(b, l, t) == [base |-> b, length |-> l, type |-> t]

Maps == { <<Entry(0, 6, 1), Entry(6, 2, 2), Entry(8, 4, 1)>>,
          <<Entry(2, 3, 1), Entry(6, 1, 1), Entry(8, 2, 2)>>,
          <<Entry(0, 4, 2)>>,
          <<Entry(2, 2, 1), Entry(6, 2, 1), Entry(10, 2, 1)>> }

Tag(i, d) == [id |-> i, data |-> d]

MCHandover ==
  UNION {{<<Tag("modules", <<>>), Tag("memmap", m), Tag("hhdm", <<>>)>>,
          <<Tag("hhdm", <<>>), Tag("terminal", <<>>), Tag("memmap", m), Tag("modules", <<>>)>>} : m \in Maps}
=============================================================================
