---------------------------- MODULE TerminalProofs ----------------------------
(***************************************************************************)
(* Proofs, for every size of screen, every message of the handler and      *)
(* interrupts between any two steps, of what Terminal promises.            *)
(***************************************************************************)
EXTENDS Terminal, TLAPS

(* The handler's message, on the screen and on paper: folds of the         *)
(* characters.                                                             *)
PutFold == INSTANCE Induction WITH Op <- PutChar
TypeFold == INSTANCE Induction WITH Op <- Type

-----------------------------------------------------------------------------
(* The places of term_putchar between the ones that read the position and   *)
(* the end of the scroll.                                                  *)
Scrolling == {"shift", "reload", "up"}
Moving == {"down", "shift", "reload", "up", "clear"}

(* Where the next character goes, in the variables and in the registers.   *)
Places ==
  /\ IF pc \in Scrolling THEN term.row \in {Height - 1, Height} ELSE term.row < Height
  /\ pc \in Moving => term.col = 0
  /\ pc \notin {"shift", "reload"} => at.row < Height
  /\ pc = "down" => at.col = 0
  /\ pc \in {"blank", "write", "advance"} => at.col < Width

(* Which characters take which way.                                        *)
Ways ==
  /\ pc = "erase" => char = BS
  /\ pc \in {"place", "write"} \union Moving => char \in Glyph \union {NL}
  /\ pc = "write" => char # NL

(* Unless an interrupt has come between, the registers of the thread and    *)
(* the variables agree, and the cursor registers hold what this            *)
(* term_update_cursor has put there.                                       *)
Agreement ==
  (torn # "now" /\ pc \notin {"idle", "next"}) =>
    /\ at.col = term.col
    /\ at.row = IF pc = "up" THEN term.row - 1 ELSE term.row
    /\ pc = "put_low" => crtc.index = "low"
    /\ pc = "put_high" => crtc.index = "high"
    /\ pc \in {"select_high", "put_high"} => crtc.low = Cell(at) % Byte

(* term_putchar in its parts, and what the rest of a character will make   *)
(* of the screen if no interrupt comes between.                            *)
NewRow(t) == [t EXCEPT !.col = 0, !.row = @ + 1]

Scrolled(t) ==
  IF t.row = Height
    THEN [t EXCEPT !.row = @ - 1, !.screen = ClearRow(ShiftUp(@), Height - 1)]
    ELSE t

Placed(t, c) == IF c = NL THEN t ELSE [t EXCEPT !.screen[Cell(t)] = c, !.col = @ + 1]

Rest(place, t, c) ==
  CASE place = "return" -> [t EXCEPT !.col = 0]
    [] place \in {"erase", "place"} -> PutChar(t, c)
    [] place = "blank" -> [t EXCEPT !.screen[Cell(t)] = Blank]
    [] place = "down" -> Placed(Scrolled([t EXCEPT !.row = @ + 1]), c)
    [] place = "shift" -> Placed(Scrolled(t), c)
    [] place \in {"reload", "up"} ->
         Placed([t EXCEPT !.row = @ - 1, !.screen = ClearRow(@, Height - 1)], c)
    [] place = "clear" -> Placed([t EXCEPT !.screen = ClearRow(@, t.row)], c)
    [] place = "write" -> Placed(t, c)
    [] place = "advance" -> [t EXCEPT !.col = @ + 1]
    [] OTHER -> t

(* The screen and the place of a terminal are those of the paper.          *)
Shows(t, p) ==
  /\ t.row = Len(p.lines) - 1
  /\ t.col = p.col
  /\ \A i \in Cells :
       LET r == i \div Width IN
       t.screen[i] = IF r < Len(p.lines) THEN p.lines[r + 1][i % Width] ELSE Blank

(* A terminal, a line and a paper of the right shape.                      *)
Terms == [screen : [Cells -> Shown], col : 0..Width, row : 0..Height]

Line == [0..(Width - 1) -> Shown]

Paper == [lines : Seq(Line), col : 0..Width]

(* Unless an interrupt has come inside a character, what is still to do of *)
(* the current one brings the screen to what the paper shows.              *)
Printed ==
  torn = "no" =>
    /\ paper \in Paper
    /\ pc \in Scrolling => term.row = Height
    /\ Shows(Rest(pc, term, char), paper)

-----------------------------------------------------------------------------
(* Cells, rows and columns.                                                *)
LEMMA DivMod ==
  ASSUME NEW n \in Nat, NEW w \in Nat \ {0}
  PROVE  n \div w \in Nat /\ n % w \in 0..(w - 1) /\ n = (n % w) + (n \div w) * w
  OBVIOUS

(* The one multiplication the cells need: later rows come later.           *)
LEMMA Products ==
  ASSUME NEW w \in Nat \ {0}, NEW p \in Nat, NEW q \in Nat
  PROVE  /\ p * w \in Nat
         /\ p < q => p * w + w <= q * w
         /\ p <= q => p * w <= q * w
  <1>1. p * w \in Nat /\ q * w \in Nat
    OBVIOUS
  <1>2. ASSUME NEW d \in Nat, q = p + d
        PROVE  q * w = p * w + d * w /\ d * w \in Nat
    BY <1>2
  <1>3. ASSUME NEW d \in Nat \ {0}
        PROVE  d * w >= w
    OBVIOUS
  <1>4. ASSUME p <= q PROVE p * w <= q * w
    <2>1. q - p \in Nat /\ q = p + (q - p)
      BY <1>4
    <2> QED BY <1>1, <1>2, <2>1
  <1>5. ASSUME p < q PROVE p * w + w <= q * w
    <2>1. q - p \in Nat \ {0} /\ q = p + (q - p)
      BY <1>5
    <2>2. (q - p) * w >= w /\ q * w = p * w + (q - p) * w
      BY <1>2, <1>3, <2>1
    <2> QED BY <1>1, <2>1, <2>2
  <1> QED BY <1>1, <1>4, <1>5

(* A quotient and a remainder are those of the division.                   *)
LEMMA DivModIs ==
  ASSUME NEW w \in Nat \ {0}, NEW q \in Nat, NEW c \in 0..(w - 1)
  PROVE  (c + q * w) \div w = q /\ (c + q * w) % w = c
  <1> DEFINE n == c + q * w
  <1>1. q * w \in Nat /\ n \in Nat
    BY Products
  <1>2. n \div w \in Nat /\ n % w \in 0..(w - 1) /\ n = (n % w) + (n \div w) * w
    BY <1>1, DivMod
  <1>3. ~(n \div w < q)
    <2>1. n \div w < q => (n \div w) * w + w <= q * w
      BY <1>2, Products
    <2>2. (n \div w) * w \in Nat
      BY <1>2, Products
    <2> HIDE DEF n
    <2>3. n = c + q * w
      BY DEF n
    <2> QED BY <1>1, <1>2, <2>1, <2>2, <2>3
  <1>4. ~(q < n \div w)
    <2>1. q < n \div w => q * w + w <= (n \div w) * w
      BY <1>2, Products
    <2>2. (n \div w) * w \in Nat
      BY <1>2, Products
    <2> HIDE DEF n
    <2>3. n = c + q * w
      BY DEF n
    <2> QED BY <1>1, <1>2, <2>1, <2>2, <2>3
  <1>5. n \div w = q
    BY <1>2, <1>3, <1>4
  <1> QED BY <1>1, <1>2, <1>5

(* A cell and its row and column determine each other.                     *)
LEMMA CellMeans ==
  ASSUME NEW c \in 0..(Width - 1), NEW r \in 0..(Height - 1)
  PROVE  /\ c + r * Width \in Cells
         /\ (c + r * Width) \div Width = r
         /\ (c + r * Width) % Width = c
  <1>1. Width \in Nat \ {0} /\ Height \in Nat \ {0} /\ Height * Width = Width * Height
    BY ScreenAssumption
  <1>2. r * Width + Width <= Height * Width /\ r * Width \in Nat /\ Height * Width \in Nat
    BY <1>1, Products
  <1>3. c + r * Width \in Cells
    BY <1>1, <1>2 DEF Cells
  <1> QED BY <1>1, <1>3, DivModIs

LEMMA CellOf ==
  ASSUME NEW i \in Cells
  PROVE  /\ i \in Nat
         /\ i \div Width \in 0..(Height - 1) /\ i % Width \in 0..(Width - 1)
         /\ i = (i % Width) + (i \div Width) * Width
  <1>1. Width \in Nat \ {0} /\ Height \in Nat \ {0} /\ Height * Width = Width * Height
        /\ Height * Width \in Nat
    BY ScreenAssumption
  <1>2. i \in Nat /\ i < Height * Width
    BY <1>1 DEF Cells
  <1>3. i \div Width \in Nat /\ i % Width \in 0..(Width - 1)
        /\ i = (i % Width) + (i \div Width) * Width
    BY <1>1, <1>2, DivMod
  <1>4. Height <= i \div Width => Height * Width <= (i \div Width) * Width
    BY <1>1, <1>3, Products
  <1>5. (i \div Width) * Width \in Nat
    BY <1>1, <1>3, Products
  <1>6. i \div Width < Height
    BY <1>1, <1>2, <1>3, <1>4, <1>5
  <1> QED BY <1>1, <1>2, <1>3, <1>6

(* A row further down is Width cells further on.                           *)
LEMMA NextRow ==
  ASSUME NEW i \in Cells
  PROVE  /\ i + Width \in Cells <=> i \div Width < Height - 1
         /\ (i + Width) \div Width = i \div Width + 1
         /\ (i + Width) % Width = i % Width
  <1> DEFINE r == i \div Width
             c == i % Width
  <1>1. Width \in Nat \ {0} /\ Height \in Nat \ {0}
    BY ScreenAssumption
  <1>2. i \in Nat /\ r \in 0..(Height - 1) /\ c \in 0..(Width - 1) /\ i = c + r * Width
    BY CellOf
  <1> HIDE DEF r, c
  <1>3. i + Width = c + (r + 1) * Width
    BY <1>1, <1>2
  <1>4. (i + Width) \div Width = r + 1 /\ (i + Width) % Width = c
    <2>1. r + 1 \in Nat
      BY <1>2
    <2>2. (c + (r + 1) * Width) \div Width = r + 1 /\ (c + (r + 1) * Width) % Width = c
      BY <1>1, <1>2, <2>1, DivModIs
    <2> QED BY <1>3, <2>2
  <1>5. ASSUME r < Height - 1 PROVE i + Width \in Cells
    <2>1. r + 1 \in 0..(Height - 1)
      BY <1>1, <1>2, <1>5
    <2> QED BY <1>2, <1>3, <2>1, CellMeans
  <1>6. ASSUME i + Width \in Cells PROVE r < Height - 1
    <2>1. (i + Width) \div Width \in 0..(Height - 1)
      BY <1>6, CellOf
    <2> QED BY <1>1, <1>2, <1>4, <2>1
  <1> QED BY <1>4, <1>5, <1>6 DEF r, c

-----------------------------------------------------------------------------
(* What the parts of term_putchar do.                                      *)
LEMMA PutIs ==
  ASSUME NEW t, NEW c, c \notin {CR, BS}
  PROVE  PutChar(t, c) = Placed(Scrolled(IF c = NL \/ t.col = Width THEN NewRow(t) ELSE t), c)
  BY DEF PutChar, Placed, Scrolled, NewRow

(* What each part of term_putchar does to a terminal.                      *)
LEMMA NewRowIs ==
  ASSUME NEW t \in Terms, t.row < Height
  PROVE  /\ NewRow(t) \in Terms
         /\ NewRow(t).screen = t.screen /\ NewRow(t).col = 0 /\ NewRow(t).row = t.row + 1
  <1>1. t.row + 1 \in 0..Height /\ 0 \in 0..Width /\ t.screen \in [Cells -> Shown]
    BY ScreenAssumption DEF Terms
  <1> DEFINE u == [t EXCEPT !.col = 0]
  <1>2. u \in Terms /\ u.screen = t.screen /\ u.col = 0 /\ u.row = t.row
    BY <1>1 DEF Terms
  <1>3. NewRow(t) = [u EXCEPT !.row = t.row + 1]
    BY DEF NewRow
  <1> HIDE DEF u
  <1> QED BY <1>1, <1>2, <1>3 DEF Terms

LEMMA ClearRowIs ==
  ASSUME NEW screen \in [Cells -> Shown], NEW r
  PROVE  ClearRow(screen, r) \in [Cells -> Shown]
  BY DEF ClearRow, Shown

LEMMA ShiftUpIs ==
  ASSUME NEW screen \in [Cells -> Shown]
  PROVE  ShiftUp(screen) \in [Cells -> Shown]
  BY DEF ShiftUp

LEMMA ScrolledIs ==
  ASSUME NEW t \in Terms
  PROVE  /\ Scrolled(t) \in Terms
         /\ Scrolled(t).col = t.col
         /\ t.row = Height => /\ Scrolled(t).row = Height - 1
                             /\ Scrolled(t).screen = ClearRow(ShiftUp(t.screen), Height - 1)
         /\ t.row < Height => Scrolled(t) = t
         /\ Scrolled(t).row < Height
  <1>1. ClearRow(ShiftUp(t.screen), Height - 1) \in [Cells -> Shown]
    BY ClearRowIs, ShiftUpIs DEF Terms
  <1>2. CASE t.row = Height
    <2>1. Scrolled(t) = [screen |-> ClearRow(ShiftUp(t.screen), Height - 1),
                         col |-> t.col, row |-> Height - 1]
      BY <1>2 DEF Terms, Scrolled
    <2>2. Height - 1 \in 0..Height /\ t.col \in 0..Width
      BY ScreenAssumption DEF Terms
    <2> QED BY <1>1, <1>2, <2>1, <2>2, ScreenAssumption DEF Terms
  <1>3. CASE t.row # Height
    BY <1>3, ScreenAssumption DEF Terms, Scrolled
  <1> QED BY <1>2, <1>3

(* A place inside the screen is a cell, and no other place is that cell.   *)
LEMMA CellIsIn ==
  ASSUME NEW t \in Terms, t.row < Height, t.col < Width
  PROVE  Cell(t) \in Cells /\ Cell(t) \div Width = t.row /\ Cell(t) % Width = t.col
  <1>1. t.col \in 0..(Width - 1) /\ t.row \in 0..(Height - 1)
    BY ScreenAssumption DEF Terms
  <1> QED BY <1>1, CellMeans DEF Cell

LEMMA PlacedIs ==
  ASSUME NEW t \in Terms, t.row < Height, t.col < Width, NEW c \in Glyph
  PROVE  /\ Placed(t, c) \in Terms
         /\ Placed(t, c).row = t.row /\ Placed(t, c).col = t.col + 1
         /\ Placed(t, c).screen = [t.screen EXCEPT ![Cell(t)] = c]
  <1>1. c # NL /\ c \in Shown
    BY CharAssumption DEF Shown
  <1>2. t.screen \in [Cells -> Shown] /\ t.col + 1 \in 0..Width
    BY ScreenAssumption DEF Terms
  <1>3. [t.screen EXCEPT ![Cell(t)] = c] \in [Cells -> Shown]
    BY <1>1, <1>2
  <1>4. Placed(t, c) = [t EXCEPT !.screen = [t.screen EXCEPT ![Cell(t)] = c], !.col = t.col + 1]
    BY <1>1 DEF Placed
  <1> QED BY <1>2, <1>3, <1>4 DEF Terms

(* A newline ends at the left edge, a glyph anywhere, both inside.         *)
LEMMA NewlineIs ==
  ASSUME NEW t \in Terms, t.row < Height
  PROVE  /\ PutChar(t, NL) = Scrolled(NewRow(t))
         /\ PutChar(t, NL) \in Terms
         /\ PutChar(t, NL).col = 0 /\ PutChar(t, NL).row < Height
         /\ PutChar(t, NL).row >= t.row
  <1>1. PutChar(t, NL) = Scrolled(NewRow(t))
    <2>1. NL \notin {CR, BS}
      BY CharAssumption
    <2>2. Placed(Scrolled(NewRow(t)), NL) = Scrolled(NewRow(t))
      BY DEF Placed
    <2> QED BY <2>1, <2>2, PutIs
  <1>2. /\ NewRow(t) \in Terms /\ NewRow(t).col = 0 /\ NewRow(t).row = t.row + 1
        /\ t.row \in Nat
    BY NewRowIs DEF Terms
  <1>3. CASE t.row + 1 = Height
    BY <1>1, <1>2, <1>3, ScrolledIs
  <1>4. CASE t.row + 1 < Height
    BY <1>1, <1>2, <1>4, ScrolledIs
  <1> QED BY <1>2, <1>3, <1>4, ScreenAssumption

(* A character that shows, also from a row that waits to be scrolled.      *)
LEMMA GlyphIs ==
  ASSUME NEW t \in Terms, NEW c \in Glyph, t.row < Height \/ t.col < Width
  PROVE  LET q == Scrolled(IF t.col = Width THEN NewRow(t) ELSE t) IN
         /\ PutChar(t, c) = Placed(q, c)
         /\ q \in Terms /\ q.row < Height /\ q.col < Width
         /\ PutChar(t, c) \in Terms
         /\ PutChar(t, c).row < Height
         /\ PutChar(t, c).row >= t.row \/ PutChar(t, c).row = Height - 1
  <1> DEFINE p == IF t.col = Width THEN NewRow(t) ELSE t
             q == Scrolled(p)
  <1>1. c \notin {CR, BS, NL}
    BY CharAssumption
  <1>2. PutChar(t, c) = Placed(q, c)
    BY <1>1, PutIs
  <1>3. p \in Terms /\ p.col < Width /\ p.row >= t.row
    <2>1. CASE t.col = Width
      <3>1. t.row < Height /\ t.row \in Nat /\ 0 < Width
        BY <2>1, ScreenAssumption DEF Terms
      <3> QED BY <2>1, <3>1, NewRowIs
    <2>2. CASE t.col # Width
      BY <2>2, ScreenAssumption DEF Terms
    <2> QED BY <2>1, <2>2
  <1> HIDE DEF p
  <1>4. /\ q \in Terms /\ q.row < Height /\ q.col < Width
        /\ q.row >= t.row \/ q.row = Height - 1
    <2>1. p.row \in 0..Height
      BY <1>3 DEF Terms
    <2>2. CASE p.row = Height
      BY <1>3, <2>2, ScrolledIs
    <2>3. CASE p.row < Height
      BY <1>3, <2>3, ScrolledIs
    <2> QED BY <2>1, <2>2, <2>3, ScreenAssumption
  <1>5. Placed(q, c) \in Terms /\ Placed(q, c).row = q.row
    <2> HIDE DEF q
    <2> QED BY <1>4, PlacedIs
  <1> QED BY <1>2, <1>4, <1>5 DEF p

LEMMA GlyphStays ==
  ASSUME NEW t \in Terms, NEW c \in Glyph, t.row < Height \/ t.col < Width
  PROVE  /\ PutChar(t, c) \in Terms
         /\ PutChar(t, c).row < Height
         /\ PutChar(t, c).row >= t.row \/ PutChar(t, c).row = Height - 1
  BY GlyphIs

-----------------------------------------------------------------------------
(* The handler's message, from any place where it can strike.              *)
LEMMA MessageSteps ==
  ASSUME NEW t
  PROVE  \E f : /\ f[0] = t
                /\ \A i \in 1..Len(Unexpected) : f[i] = PutChar(f[i - 1], Unexpected[i])
                /\ FoldLeft(PutChar, t, Unexpected) = f[Len(Unexpected)]
  <1>1. FoldLeft(PutChar, t, Unexpected) = PutFold!Fold(t, Unexpected)
    BY DEF PutFold!Fold, FoldLeft, PutFold!FoldLeft, MapThenFoldSet, PutFold!MapThenFoldSet,
           Max, PutFold!Max
  <1> QED BY <1>1, MessageAssumption, PutFold!FoldSteps

(* The message stays inside, from any place the handler can find: it       *)
(* starts with a glyph, which wraps if it must, and ends with a newline.   *)
LEMMA MessageStaysInside ==
  ASSUME NEW t \in Terms, t.row < Height \/ t.col < Width
  PROVE  LET q == FoldLeft(PutChar, t, Unexpected) IN
         /\ q \in Terms /\ q.row < Height /\ q.col = 0
         /\ t.row >= Height - 1 => q.row = Height - 1
  <1> DEFINE n == Len(Unexpected)
             Fine(q) == /\ q \in Terms /\ q.row < Height
                        /\ t.row >= Height - 1 => q.row >= Height - 1
  <1>1. /\ n \in Nat \ {0}
        /\ \A i \in 1..n : Unexpected[i] \in Glyph \union {NL}
        /\ Unexpected[1] \in Glyph /\ Unexpected[n] = NL
    BY MessageAssumption DEF Last
  <1>2. PICK f : /\ f[0] = t
                 /\ \A i \in 1..n : f[i] = PutChar(f[i - 1], Unexpected[i])
                 /\ FoldLeft(PutChar, t, Unexpected) = f[n]
    BY MessageSteps
  <1> HIDE DEF n
  <1>3. Fine(f[1])
    <2>1. f[1] = PutChar(t, Unexpected[1])
      BY <1>1, <1>2
    <2>2. t.row \in Int /\ Height \in Nat /\ \A q \in Terms : q.row \in Int
      BY ScreenAssumption DEF Terms
    <2>3. /\ f[1] \in Terms /\ f[1].row < Height
          /\ f[1].row >= t.row \/ f[1].row = Height - 1
      BY <1>1, <2>1, GlyphStays
    <2> QED BY <2>2, <2>3
  <1>4. ASSUME NEW q \in Terms, Fine(q), NEW c \in Glyph \union {NL}
        PROVE  Fine(PutChar(q, c)) /\ (c = NL => PutChar(q, c).col = 0)
    <2>1. q.row \in 0..(Height - 1) /\ Height \in Nat /\ t.row \in Int
      BY <1>4, ScreenAssumption DEF Terms
    <2>2. CASE c = NL
      BY <1>4, <2>1, <2>2, NewlineIs
    <2>3. CASE c \in Glyph
      <3>1. c # NL
        BY <2>3, CharAssumption
      <3> QED BY <1>4, <2>1, <2>3, <3>1, GlyphStays
    <2> QED BY <2>2, <2>3
  <1> DEFINE S == {i \in Nat : Fine(f[i])}
  <1> HIDE DEF Fine
  <1>5. ASSUME NEW i \in 1..(n - 1), i \in S
        PROVE  i + 1 \in S
    <2>1. i + 1 \in 1..n /\ i + 1 - 1 = i
      BY <1>1
    <2>2. f[i + 1] = PutChar(f[i], Unexpected[i + 1]) /\ Unexpected[i + 1] \in Glyph \union {NL}
      BY <1>1, <1>2, <2>1
    <2>3. f[i] \in Terms
      BY <1>5 DEF Fine
    <2> QED BY <1>4, <1>5, <2>1, <2>2, <2>3
  <1>6. \A i \in 1..n : i \in S
    <2>1. 1 \in S
      BY <1>3
    <2> HIDE DEF S
    <2> QED BY <1>1, <1>5, <2>1, PutFold!UpTo
  <1>7. Fine(f[n]) /\ f[n].col = 0
    <2>1. CASE n = 1
      BY <1>1, <2>1, CharAssumption
    <2>2. CASE n # 1
      <3>1. n - 1 \in 1..n /\ n \in 1..n
        BY <1>1, <2>2
      <3>2. Fine(f[n - 1]) /\ f[n - 1] \in Terms
        BY <1>6, <3>1 DEF Fine
      <3>3. f[n] = PutChar(f[n - 1], NL)
        BY <1>1, <1>2, <3>1
      <3> QED BY <1>4, <3>2, <3>3
    <2> QED BY <2>1, <2>2
  <1> QED BY <1>2, <1>7, ScreenAssumption DEF Fine, Terms

-----------------------------------------------------------------------------
(* The stores of a step of term_putchar.                                   *)
LEMMA SetColIs ==
  ASSUME TypeOK, NEW n \in 0..Width, SetCol(n)
  PROVE  /\ term' \in Terms /\ at' \in Position
         /\ term'.col = n /\ term'.row = term.row /\ term'.screen = term.screen
         /\ at'.col = n /\ at'.row = at.row
  BY DEF TypeOK, Terms, Position, SetCol

(* What the stores of a step leave.                                        *)
LEMMA SetRowIs ==
  ASSUME TypeOK, NEW n \in 0..Height, SetRow(n)
  PROVE  /\ term' \in Terms /\ at' \in Position
         /\ term'.row = n /\ term'.col = term.col /\ term'.screen = term.screen
         /\ at'.row = n /\ at'.col = at.col
  BY DEF TypeOK, Terms, Position, SetRow

LEMMA SetCellIs ==
  ASSUME TypeOK, NEW c \in Shown, SetCell(c)
  PROVE  /\ term' \in Terms /\ at' = at
         /\ term'.row = term.row /\ term'.col = term.col
         /\ term'.screen = [term.screen EXCEPT ![Cell(at)] = c]
  BY DEF TypeOK, Terms, SetCell

(* A cell fits in the two bytes of the cursor registers.                   *)
LEMMA CursorFits ==
  ASSUME NEW p, p.col \in 0..Width, p.row \in 0..(Height - 1)
  PROVE  /\ Cell(p) \in Nat
         /\ Cell(p) % Byte \in 0..(Byte - 1)
         /\ Cell(p) \div Byte \in 0..(Byte - 1)
         /\ Cell(p) = (Cell(p) % Byte) + (Cell(p) \div Byte) * Byte
  <1> DEFINE n == Cell(p)
  <1>1. /\ Width \in Nat \ {0} /\ Height \in Nat \ {0} /\ Byte \in Nat \ {0}
        /\ Height * Width = Width * Height /\ Width * Height < Byte * Byte
        /\ Height * Width \in Nat /\ Byte * Byte \in Nat
    BY ScreenAssumption, ByteAssumption
  <1>2. p.row * Width + Width <= Height * Width /\ p.row * Width \in Nat
    BY <1>1, Products
  <1>3. n \in Nat /\ n < Byte * Byte
    BY <1>1, <1>2 DEF Cell
  <1> HIDE DEF n
  <1>4. n \div Byte \in Nat /\ n % Byte \in 0..(Byte - 1) /\ n = (n % Byte) + (n \div Byte) * Byte
    BY <1>1, <1>3, DivMod
  <1>5. Byte <= n \div Byte => Byte * Byte <= (n \div Byte) * Byte
    BY <1>1, <1>4, Products
  <1>6. (n \div Byte) * Byte \in Nat
    BY <1>1, <1>4, Products
  <1>7. n \div Byte < Byte
    BY <1>1, <1>3, <1>4, <1>5, <1>6
  <1> QED BY <1>1, <1>3, <1>4, <1>7 DEF n

Crtcs == [index : {"low", "high"}, low : 0..(Byte - 1), high : 0..(Byte - 1)]

LEMMA CursorAtIs ==
  ASSUME NEW p, p.col \in 0..Width, p.row \in 0..(Height - 1)
  PROVE  /\ CursorAt(p) \in Crtcs
         /\ CursorAt(p).low + CursorAt(p).high * Byte = Cell(p)
  BY CursorFits DEF CursorAt, Crtcs

-----------------------------------------------------------------------------
(* Inv is inductive.                                                       *)
Inv == TypeOK /\ Places /\ Ways /\ Agreement /\ CursorShown

(* The invariant holds at first and each step keeps it.                    *)
LEMMA InitInv == Init => Inv
  <1> SUFFICES ASSUME Init PROVE Inv
    OBVIOUS
  <1>1. term \in Terms /\ term.row = 0 /\ term.col = 0
    BY ScreenAssumption DEF Init, Terms, Shown
  <1>2. crtc \in Crtcs /\ crtc.low + crtc.high * Byte = Cell(term)
    BY <1>1, CursorAtIs, ScreenAssumption DEF Init
  <1>3. TypeOK
    BY <1>1, <1>2, ScreenAssumption, ByteAssumption DEF Init, TypeOK, Terms, Crtcs, Typed, Position
  <1>4. Places
    BY <1>1, ScreenAssumption DEF Init, Places, Moving, Scrolling
  <1>5. Ways
    BY DEF Init, Ways, Moving
  <1>6. Agreement /\ CursorShown
    BY <1>2 DEF Init, Agreement, CursorShown
  <1> QED BY <1>3, <1>4, <1>5, <1>6 DEF Inv

LEMMA CallInv ==
  ASSUME Inv, NEW w \in WriteCall, CallWrite(w)
  PROVE  Inv'
  <1>1. w.count \in Nat /\ w.count % CountLimit \in 0..(CountLimit - 1)
    BY WriteAssumption, ByteAssumption
  <1>2. TypeOK'
    BY <1>1, ByteAssumption DEF Inv, CallWrite, TypeOK, ghosts
  <1>3. Places'
    BY DEF Inv, CallWrite, Places, Moving, Scrolling
  <1>4. Ways'
    BY DEF Inv, CallWrite, Ways, Moving
  <1>5. Agreement' /\ CursorShown'
    BY DEF Inv, CallWrite, Agreement, CursorShown, ghosts
  <1> QED BY <1>2, <1>3, <1>4, <1>5 DEF Inv

LEMMA ReturnsInv ==
  ASSUME Inv, WriteReturns
  PROVE  Inv'
  <1>1. TypeOK'
    BY ByteAssumption DEF Inv, WriteReturns, TypeOK, ghosts
  <1>2. Places'
    BY DEF Inv, WriteReturns, Places, Moving, Scrolling
  <1>3. Ways'
    BY DEF Inv, WriteReturns, Ways, Moving
  <1>4. Agreement' /\ CursorShown'
    BY DEF Inv, WriteReturns, Agreement, CursorShown, ghosts
  <1> QED BY <1>1, <1>2, <1>3, <1>4 DEF Inv

LEMMA EnterInv ==
  ASSUME Inv, NEW c \in Typed, Enter(c)
  PROVE  Inv'
  <1>1. term.row < Height /\ at' \in Position /\ at'.col = term.col /\ at'.row = term.row
    BY DEF Inv, TypeOK, Places, Position, Scrolling, Enter
  <1>2. TypeOK'
    BY <1>1 DEF Inv, Enter, TypeOK
  <1>3. Places'
    BY <1>1 DEF Inv, Enter, Places, Moving, Scrolling
  <1>4. Ways'
    BY CharAssumption DEF Inv, Enter, Ways, Moving, Typed
  <1>5. Agreement' /\ CursorShown'
    BY <1>1 DEF Inv, Enter, Agreement, CursorShown
  <1> QED BY <1>2, <1>3, <1>4, <1>5 DEF Inv

LEMMA ReturnInv ==
  ASSUME Inv, Return
  PROVE  Inv'
  <1>1. /\ term' \in Terms /\ at' \in Position
        /\ term'.col = 0 /\ term'.row = term.row /\ at'.col = 0 /\ at'.row = at.row
    BY SetColIs, ScreenAssumption DEF Inv, Return
  <1>2. TypeOK'
    BY <1>1 DEF Inv, Return, Frame, TypeOK, Terms, write, ghosts
  <1>3. Places'
    BY <1>1 DEF Inv, Return, Places, Moving, Scrolling
  <1>4. Ways'
    BY DEF Inv, Return, Frame, Ways, Moving
  <1>5. Agreement' /\ CursorShown'
    BY <1>1 DEF Inv, Return, Frame, Agreement, CursorShown, ghosts
  <1> QED BY <1>2, <1>3, <1>4, <1>5 DEF Inv

LEMMA EraseInv ==
  ASSUME Inv, Erase
  PROVE  Inv'
  <1>1. CASE at.col > 0
    <2>1. at.col - 1 \in 0..Width /\ at.col - 1 < Width
      BY <1>1, ScreenAssumption DEF Inv, TypeOK, Position
    <2>2. SetCol(at.col - 1) /\ pc' = "blank" /\ Frame /\ pc = "erase"
      BY <1>1 DEF Erase
    <2>3. /\ term' \in Terms /\ at' \in Position
          /\ term'.col = at.col - 1 /\ term'.row = term.row
          /\ at'.col = at.col - 1 /\ at'.row = at.row
      BY <2>1, <2>2, SetColIs DEF Inv
    <2>4. TypeOK'
      BY <2>2, <2>3 DEF Inv, Frame, TypeOK, Terms, write, ghosts
    <2>5. Places'
      BY <2>1, <2>2, <2>3 DEF Inv, Places, Moving, Scrolling
    <2>6. Ways'
      BY <2>2 DEF Inv, Frame, Ways, Moving
    <2>7. Agreement' /\ CursorShown'
      BY <2>2, <2>3 DEF Inv, Frame, Agreement, CursorShown, ghosts
    <2> QED BY <2>4, <2>5, <2>6, <2>7 DEF Inv
  <1>2. CASE ~(at.col > 0)
    <2>1. UNCHANGED <<term, at>> /\ pc' = "select_low" /\ Frame /\ pc = "erase"
      BY <1>2 DEF Erase
    <2>2. TypeOK'
      BY <2>1 DEF Inv, Frame, TypeOK, write, ghosts
    <2>3. Places' /\ Ways'
      BY <2>1 DEF Inv, Frame, Places, Ways, Moving, Scrolling
    <2>4. Agreement' /\ CursorShown'
      BY <2>1 DEF Inv, Frame, Agreement, CursorShown, ghosts
    <2> QED BY <2>2, <2>3, <2>4 DEF Inv
  <1> QED BY <1>1, <1>2

(* Cells are written from the registers, which are never outside.          *)
LEMMA SetCellInv ==
  ASSUME Inv, NEW c \in Shown, SetCell(c), Frame,
         (pc = "blank" /\ pc' = "select_low") \/ (pc = "write" /\ pc' = "advance")
  PROVE  Inv'
  <1>1. term' \in Terms /\ at' = at /\ term'.row = term.row /\ term'.col = term.col
    BY SetCellIs DEF Inv
  <1>2. TypeOK'
    BY <1>1 DEF Inv, Frame, TypeOK, Terms, write, ghosts
  <1>3. Places'
    BY <1>1 DEF Inv, Places, Moving, Scrolling
  <1>4. Ways'
    BY DEF Inv, Frame, Ways, Moving
  <1>5. Agreement' /\ CursorShown'
    BY <1>1 DEF Inv, Frame, Agreement, CursorShown, ghosts
  <1> QED BY <1>2, <1>3, <1>4, <1>5 DEF Inv

LEMMA BlankInv ==
  ASSUME Inv, BlankCell
  PROVE  Inv'
  <1>1. Blank \in Shown
    BY DEF Shown
  <1> QED BY <1>1, SetCellInv DEF BlankCell

LEMMA WriteInv ==
  ASSUME Inv, Write
  PROVE  Inv'
  <1>1. char \in Shown
    BY DEF Inv, Write, Ways, Shown
  <1> QED BY <1>1, SetCellInv DEF Write

LEMMA SettledIs ==
  ASSUME NEW p
  PROVE  /\ p.row = Height => Settled(p) = "shift"
         /\ p.row # Height /\ char = NL => Settled(p) = "select_low"
         /\ p.row # Height /\ char # NL => Settled(p) = "write"
  BY DEF Settled

LEMMA PlaceInv ==
  ASSUME Inv, Place
  PROVE  Inv'
  <1>1. CASE char = NL \/ at.col = Width
    <2>1. SetCol(0) /\ pc' = "down" /\ Frame /\ pc = "place"
      BY <1>1 DEF Place
    <2>2. /\ term' \in Terms /\ at' \in Position
          /\ term'.col = 0 /\ term'.row = term.row /\ at'.col = 0 /\ at'.row = at.row
      BY <2>1, SetColIs, ScreenAssumption DEF Inv
    <2>3. TypeOK'
      BY <2>1, <2>2 DEF Inv, Frame, TypeOK, Terms, write, ghosts
    <2>4. Places'
      BY <2>1, <2>2 DEF Inv, Places, Moving, Scrolling
    <2>5. Ways'
      BY <2>1 DEF Inv, Frame, Ways, Moving
    <2>6. Agreement' /\ CursorShown'
      BY <2>1, <2>2 DEF Inv, Frame, Agreement, CursorShown, ghosts
    <2> QED BY <2>3, <2>4, <2>5, <2>6 DEF Inv
  <1>2. CASE ~(char = NL \/ at.col = Width)
    <2>1. UNCHANGED <<term, at>> /\ pc' = Settled(at) /\ Frame /\ pc = "place"
      BY <1>2 DEF Place
    <2>2. at.row < Height /\ at.col < Width /\ at.row # Height
      BY <1>2, <2>1, ScreenAssumption DEF Inv, TypeOK, Places, Position
    <2>3. pc' = "write"
      BY <1>2, <2>1, <2>2, SettledIs
    <2>4. TypeOK'
      BY <2>1, <2>3 DEF Inv, Frame, TypeOK, write, ghosts
    <2>5. Places' /\ Ways'
      BY <1>2, <2>1, <2>2, <2>3 DEF Inv, Frame, Places, Ways, Moving, Scrolling
    <2>6. Agreement' /\ CursorShown'
      BY <2>1, <2>3 DEF Inv, Frame, Agreement, CursorShown, ghosts
    <2> QED BY <2>4, <2>5, <2>6 DEF Inv
  <1> QED BY <1>1, <1>2

LEMMA DownInv ==
  ASSUME Inv, Down
  PROVE  Inv'
  <1>1. /\ at.row + 1 \in 0..Height /\ at.col = 0 /\ term.col = 0 /\ term.row < Height
        /\ char \in Glyph \union {NL}
    BY ScreenAssumption DEF Inv, TypeOK, Position, Places, Ways, Down, Moving, Scrolling
  <1>2. /\ term' \in Terms /\ at' \in Position
        /\ term'.row = at.row + 1 /\ term'.col = 0
        /\ at'.row = at.row + 1 /\ at'.col = 0
    BY <1>1, SetRowIs DEF Inv, Down
  <1>3. /\ pc' = IF at'.row = Height THEN "shift"
                 ELSE IF char = NL THEN "select_low" ELSE "write"
        /\ pc = "down" /\ Frame
    BY DEF Down, Settled
  <1>4. TypeOK'
    BY <1>2, <1>3 DEF Inv, Frame, TypeOK, Terms, write, ghosts
  <1>5. Places'
    BY <1>1, <1>2, <1>3, ScreenAssumption DEF Inv, Places, Moving, Scrolling
  <1>6. Ways'
    BY <1>1, <1>3 DEF Inv, Frame, Ways, Moving
  <1>7. Agreement' /\ CursorShown'
    BY <1>2, <1>3 DEF Inv, Frame, Agreement, CursorShown, ghosts
  <1> QED BY <1>4, <1>5, <1>6, <1>7 DEF Inv

LEMMA ShiftInv ==
  ASSUME Inv, Shift
  PROVE  Inv'
  <1>1. term' \in Terms /\ term'.row = term.row /\ term'.col = term.col
    BY ShiftUpIs DEF Inv, TypeOK, Terms, Shift
  <1>2. TypeOK'
    BY <1>1 DEF Inv, Shift, Frame, TypeOK, Terms, write, ghosts
  <1>3. Places'
    BY <1>1 DEF Inv, Shift, Places, Moving, Scrolling
  <1>4. Ways'
    BY DEF Inv, Shift, Frame, Ways, Moving
  <1>5. Agreement' /\ CursorShown'
    BY <1>1 DEF Inv, Shift, Frame, Agreement, CursorShown, ghosts
  <1> QED BY <1>2, <1>3, <1>4, <1>5 DEF Inv

LEMMA ReloadInv ==
  ASSUME Inv, Reload
  PROVE  Inv'
  <1>1. term.row \in {Height - 1, Height} /\ term.row - 1 \in 0..(Height - 1)
    BY ScreenAssumption DEF Inv, Places, Scrolling, Reload
  <1>2. at' \in Position /\ at'.row = term.row - 1 /\ at'.col = at.col /\ term' = term
    <2>1. term.row - 1 \in 0..Height
      BY <1>1, ScreenAssumption
    <2>2. at' = [at EXCEPT !.row = term.row - 1] /\ term' = term
      BY DEF Reload
    <2> QED BY <2>1, <2>2 DEF Inv, TypeOK, Position
  <1>3. TypeOK'
    BY <1>2 DEF Inv, Reload, Frame, TypeOK, write, ghosts
  <1>4. Places'
    BY <1>1, <1>2, ScreenAssumption DEF Inv, Reload, Places, Moving, Scrolling
  <1>5. Ways'
    BY DEF Inv, Reload, Frame, Ways, Moving
  <1>6. Agreement' /\ CursorShown'
    BY <1>2 DEF Inv, Reload, Frame, Agreement, CursorShown, ghosts
  <1> QED BY <1>3, <1>4, <1>5, <1>6 DEF Inv

LEMMA UpInv ==
  ASSUME Inv, Up
  PROVE  Inv'
  <1>1. /\ term' \in Terms /\ at' \in Position
        /\ term'.row = at.row /\ term'.col = term.col
        /\ at'.row = at.row /\ at'.col = at.col
        /\ at.row < Height
    BY SetRowIs DEF Inv, TypeOK, Position, Places, Up
  <1>2. TypeOK'
    BY <1>1 DEF Inv, Up, Frame, TypeOK, Terms, write, ghosts
  <1>3. Places'
    BY <1>1 DEF Inv, Up, Places, Moving, Scrolling
  <1>4. Ways'
    BY DEF Inv, Up, Frame, Ways, Moving
  <1>5. Agreement' /\ CursorShown'
    BY <1>1 DEF Inv, Up, Frame, Agreement, CursorShown, ghosts
  <1> QED BY <1>2, <1>3, <1>4, <1>5 DEF Inv

LEMMA ClearInv ==
  ASSUME Inv, Clear
  PROVE  Inv'
  <1>1. /\ term' \in Terms /\ term'.row = term.row /\ term'.col = term.col
        /\ term.col = 0 /\ 0 < Width
    BY ClearRowIs, ScreenAssumption DEF Inv, TypeOK, Terms, Clear, Places, Moving
  <1>2. at' \in Position /\ at'.row = at.row /\ at'.col = 0
    BY <1>1, ScreenAssumption DEF Inv, TypeOK, Position, Clear
  <1>3. pc = "clear" /\ pc' = (IF char = NL THEN "select_low" ELSE "write") /\ Frame
    BY DEF Clear
  <1>4. TypeOK'
    BY <1>1, <1>2, <1>3 DEF Inv, Frame, TypeOK, Terms, write, ghosts
  <1>5. Places'
    BY <1>1, <1>2, <1>3 DEF Inv, Places, Moving, Scrolling
  <1>6. Ways'
    BY <1>3 DEF Inv, Frame, Ways, Moving
  <1>7. Agreement' /\ CursorShown'
    BY <1>1, <1>2, <1>3 DEF Inv, Frame, Agreement, CursorShown, ghosts
  <1> QED BY <1>4, <1>5, <1>6, <1>7 DEF Inv

LEMMA AdvanceInv ==
  ASSUME Inv, Advance
  PROVE  Inv'
  <1>1. at.col + 1 \in 0..Width
    BY ScreenAssumption DEF Inv, TypeOK, Position, Places, Advance
  <1>2. /\ term' \in Terms /\ at' \in Position
        /\ term'.col = at.col + 1 /\ term'.row = term.row
        /\ at'.col = at.col + 1 /\ at'.row = at.row
    BY <1>1, SetColIs DEF Inv, Advance
  <1>3. TypeOK'
    BY <1>2 DEF Inv, Advance, Frame, TypeOK, Terms, write, ghosts
  <1>4. Places'
    BY <1>2 DEF Inv, Advance, Places, Moving, Scrolling
  <1>5. Ways'
    BY DEF Inv, Advance, Frame, Ways, Moving
  <1>6. Agreement' /\ CursorShown'
    BY <1>2 DEF Inv, Advance, Frame, Agreement, CursorShown, ghosts
  <1> QED BY <1>3, <1>4, <1>5, <1>6 DEF Inv

LEMMA UpdateInv ==
  ASSUME Inv, UpdateCursor
  PROVE  Inv'
  <1> DEFINE n == Cell(at)
  <1>1. /\ at.col \in 0..Width /\ at.row \in 0..(Height - 1)
        /\ term.row < Height /\ crtc \in Crtcs
    BY ScreenAssumption DEF Inv, TypeOK, Position, Places, Scrolling, Crtcs, UpdateCursor
  <1>2. n % Byte \in 0..(Byte - 1) /\ n \div Byte \in 0..(Byte - 1)
        /\ n = (n % Byte) + (n \div Byte) * Byte
    BY <1>1, CursorFits
  <1> HIDE DEF n
  <1>3. UNCHANGED <<term, char, at, write, ghosts>>
    BY DEF UpdateCursor
  <1>4. (torn # "now") => n = Cell(term) /\ at.col = term.col /\ at.row = term.row
    BY DEF Inv, Agreement, UpdateCursor, n, Cell
  <1>5. CASE pc = "select_low" /\ pc' = "put_low" /\ crtc' = [crtc EXCEPT !.index = "low"]
    <2>1. crtc' \in Crtcs /\ crtc'.index = "low"
      BY <1>1, <1>5 DEF Crtcs
    <2>2. TypeOK'
      BY <1>3, <1>5, <2>1 DEF Inv, TypeOK, Crtcs, write, ghosts
    <2>3. Places' /\ Ways'
      BY <1>1, <1>3, <1>5 DEF Inv, Places, Ways, Moving, Scrolling
    <2>4. Agreement' /\ CursorShown'
      BY <1>3, <1>4, <1>5, <2>1 DEF Agreement, CursorShown, ghosts
    <2> QED BY <2>2, <2>3, <2>4 DEF Inv
  <1>6. CASE pc = "put_low" /\ pc' = "select_high" /\ crtc' = [crtc EXCEPT ![crtc.index] = n % Byte]
    <2>1. crtc' \in Crtcs /\ (crtc.index = "low" => crtc'.low = n % Byte)
      <3>1. CASE crtc.index = "low"
        BY <1>1, <1>2, <1>6, <3>1 DEF Crtcs
      <3>2. CASE crtc.index = "high"
        BY <1>1, <1>2, <1>6, <3>2 DEF Crtcs
      <3> QED BY <1>1, <3>1, <3>2 DEF Crtcs
    <2>2. TypeOK'
      BY <1>3, <1>6, <2>1 DEF Inv, TypeOK, Crtcs, write, ghosts
    <2>3. Places' /\ Ways'
      BY <1>1, <1>3, <1>6 DEF Inv, Places, Ways, Moving, Scrolling
    <2>4. torn # "now" => crtc.index = "low"
      BY <1>6 DEF Inv, Agreement
    <2>5. Agreement' /\ CursorShown'
      BY <1>3, <1>4, <1>6, <2>1, <2>4 DEF Agreement, CursorShown, ghosts, n
    <2> QED BY <2>2, <2>3, <2>5 DEF Inv
  <1>7. CASE pc = "select_high" /\ pc' = "put_high" /\ crtc' = [crtc EXCEPT !.index = "high"]
    <2>1. crtc' \in Crtcs /\ crtc'.index = "high" /\ crtc'.low = crtc.low
      BY <1>1, <1>7 DEF Crtcs
    <2>2. TypeOK'
      BY <1>3, <1>7, <2>1 DEF Inv, TypeOK, Crtcs, write, ghosts
    <2>3. Places' /\ Ways'
      BY <1>1, <1>3, <1>7 DEF Inv, Places, Ways, Moving, Scrolling
    <2>4. torn # "now" => crtc.low = n % Byte
      BY <1>7 DEF Inv, Agreement, n
    <2>5. Agreement' /\ CursorShown'
      BY <1>3, <1>4, <1>7, <2>1, <2>4 DEF Agreement, CursorShown, ghosts, n
    <2> QED BY <2>2, <2>3, <2>5 DEF Inv
  <1>8. CASE pc = "put_high" /\ pc' = "next" /\ crtc' = [crtc EXCEPT ![crtc.index] = n \div Byte]
    <2>1. /\ crtc' \in Crtcs
          /\ crtc.index = "high" => crtc'.high = n \div Byte /\ crtc'.low = crtc.low
      <3>1. CASE crtc.index = "low"
        BY <1>1, <1>2, <1>8, <3>1 DEF Crtcs
      <3>2. CASE crtc.index = "high"
        BY <1>1, <1>2, <1>8, <3>2 DEF Crtcs
      <3> QED BY <1>1, <3>1, <3>2 DEF Crtcs
    <2>2. TypeOK'
      BY <1>3, <1>8, <2>1 DEF Inv, TypeOK, Crtcs, write, ghosts
    <2>3. Places' /\ Ways'
      BY <1>1, <1>3, <1>8 DEF Inv, Places, Ways, Moving, Scrolling
    <2>4. torn # "now" => crtc.index = "high" /\ crtc.low = n % Byte
      BY <1>8 DEF Inv, Agreement, n
    <2>5. Agreement' /\ CursorShown'
      <3>1. torn # "now" => crtc'.low + crtc'.high * Byte = Cell(term)
        BY <1>2, <1>4, <2>1, <2>4
      <3>2. term' = term /\ torn' = torn
        BY <1>3 DEF ghosts
      <3> QED BY <1>8, <3>1, <3>2 DEF Agreement, CursorShown
    <2> QED BY <2>2, <2>3, <2>5 DEF Inv
  <1> QED BY <1>5, <1>6, <1>7, <1>8 DEF UpdateCursor, n

LEMMA HandlerInv ==
  ASSUME Inv, HandlerPrints
  PROVE  Inv'
  <1>1. term \in Terms /\ (term.row < Height \/ term.col < Width)
    BY ScreenAssumption DEF Inv, TypeOK, Terms, Places, Moving, Scrolling
  <1>2. /\ term' \in Terms /\ term'.row < Height /\ term'.col = 0
        /\ term.row >= Height - 1 => term'.row = Height - 1
    BY <1>1, MessageStaysInside DEF HandlerPrints
  <1>3. term'.col \in 0..Width /\ term'.row \in 0..(Height - 1)
    BY <1>2, ScreenAssumption DEF Terms
  <1>4. crtc' \in Crtcs /\ crtc'.low + crtc'.high * Byte = Cell(term')
    BY <1>3, CursorAtIs DEF HandlerPrints
  <1>5. UNCHANGED <<pc, char, at, write>>
    BY DEF HandlerPrints
  <1>6. torn' \in {"no", "now", "past"} /\ (pc \notin {"idle", "next"} => torn' = "now")
    BY DEF HandlerPrints, Inv, TypeOK
  <1>7. TypeOK'
    BY <1>2, <1>4, <1>5, <1>6 DEF Inv, TypeOK, Terms, Crtcs, write
  <1>8. Places'
    BY <1>2, <1>3, <1>5, ScreenAssumption DEF Inv, Places, Moving, Scrolling
  <1>9. Ways'
    BY <1>5 DEF Inv, Ways, Moving
  <1>10. Agreement' /\ CursorShown'
    BY <1>4, <1>5, <1>6 DEF Agreement, CursorShown
  <1> QED BY <1>7, <1>8, <1>9, <1>10 DEF Inv

LEMMA NextInv ==
  ASSUME Inv, [Next]_vars
  PROVE  Inv'
  <1>1. CASE Next
    BY <1>1, CallInv, ReturnsInv, EnterInv, ReturnInv, EraseInv, BlankInv, PlaceInv, DownInv,
       ShiftInv, ReloadInv, UpInv, ClearInv, WriteInv, AdvanceInv, UpdateInv, HandlerInv
       DEF Next, Put
  <1>2. CASE UNCHANGED vars
    BY <1>2 DEF Inv, TypeOK, Places, Ways, Agreement, CursorShown, Scrolling, Moving,
                vars, write, ghosts
  <1> QED BY <1>1, <1>2

LEMMA SpecInv == Spec => []Inv
  <1>1. Init => Inv
    BY InitInv
  <1>2. Inv /\ [Next]_vars => Inv'
    BY NextInv
  <1> QED BY <1>1, <1>2, PTL DEF Spec

(* The terminal's variables keep their types, whatever is written and      *)
(* whenever the handler prints (kprint.c:83-136).                          *)
THEOREM TypeCorrect == Spec => []TypeOK
  <1>1. Inv => TypeOK
    BY DEF Inv
  <1> QED BY <1>1, SpecInv, PTL

(* No character is ever put outside the screen, for every size of screen   *)
(* and every interrupt of a term_putchar (kprint.c:93, 112-129).           *)
THEOREM CharactersStayInside == Spec => []InsideScreen
  <1>1. Inv => InsideScreen
    <2> SUFFICES ASSUME Inv PROVE InsideScreen
      OBVIOUS
    <2>1. pc \in {"blank", "write"} => at.row < Height /\ at.col < Width
      BY DEF Inv, Places
    <2>2. pc = "clear" => at.row < Height
      BY DEF Inv, Places
    <2>3. term.row < Height \/ (term.row = Height /\ term.col < Width)
      BY ScreenAssumption DEF Inv, TypeOK, Places, Moving, Scrolling
    <2> QED BY <2>1, <2>2, <2>3 DEF InsideScreen
  <1> QED BY <1>1, SpecInv, PTL

(* After each whole character the cursor registers hold the place of the    *)
(* next one, the handler's index writes notwithstanding (kprint.c:58-65).  *)
THEOREM CursorIsShown == Spec => []CursorShown
  <1>1. Inv => CursorShown
    BY DEF Inv
  <1> QED BY <1>1, SpecInv, PTL

-----------------------------------------------------------------------------
(* The typewriter and the screen do the same.                              *)
LEMMA NewLineIs ==
  ASSUME NEW p \in Paper, Len(p.lines) \in 1..Height
  PROVE  /\ NewLine(p) \in Paper /\ NewLine(p).col = 0
         /\ Len(p.lines) < Height =>
              /\ Len(NewLine(p).lines) = Len(p.lines) + 1
              /\ \A j \in 1..Len(p.lines) : NewLine(p).lines[j] = p.lines[j]
         /\ Len(p.lines) = Height =>
              /\ Len(NewLine(p).lines) = Height
              /\ \A j \in 1..(Height - 1) : NewLine(p).lines[j] = p.lines[j + 1]
         /\ NewLine(p).lines[Len(NewLine(p).lines)] = BlankLine
  <1> DEFINE n == Len(p.lines)
             all == Append(p.lines, BlankLine)
             lines == NewLine(p).lines
  <1>1. p.lines \in Seq(Line) /\ n \in Nat /\ Height \in Nat /\ n <= Height /\ 0 \in 0..Width
    BY ScreenAssumption DEF Paper
  <1>2. BlankLine \in Line
    BY DEF BlankLine, Line, Shown
  <1>3. /\ all \in Seq(Line) /\ Len(all) = n + 1 /\ all[n + 1] = BlankLine
        /\ \A j \in 1..n : all[j] = p.lines[j]
    BY <1>1, <1>2
  <1>4. lines = (IF Len(all) > Height THEN Tail(all) ELSE all) /\ NewLine(p).col = 0
        /\ NewLine(p) = [lines |-> lines, col |-> 0]
    BY DEF NewLine
  <1> HIDE DEF all, n, lines
  <1>5. CASE n < Height
    <2>1. lines = all
      BY <1>1, <1>3, <1>4, <1>5
    <2>2. lines \in Seq(Line) /\ Len(lines) = n + 1
      BY <1>3, <2>1
    <2>3. NewLine(p) \in Paper
      <3>1. [lines |-> lines, col |-> 0] \in Paper
        BY <1>1, <2>2 DEF Paper
      <3> QED BY <1>4, <3>1
    <2>4. lines[Len(lines)] = BlankLine /\ \A j \in 1..n : lines[j] = p.lines[j]
      BY <1>3, <2>1, <2>2
    <2> QED BY <1>1, <1>4, <1>5, <2>2, <2>3, <2>4 DEF n, lines
  <1>6. CASE n = Height
    <2>1. lines = Tail(all) /\ all # <<>>
      BY <1>1, <1>3, <1>4, <1>6
    <2>2. /\ lines \in Seq(Line) /\ Len(lines) = n
          /\ \A j \in 1..n : lines[j] = all[j + 1]
      BY <1>1, <1>3, <2>1
    <2>3. lines[n] = BlankLine
      BY <1>3, <1>6, <2>2, ScreenAssumption
    <2>4. \A j \in 1..(Height - 1) : lines[j] = p.lines[j + 1]
      <3>1. ASSUME NEW j \in 1..(Height - 1)
            PROVE  j \in 1..n /\ j + 1 \in 1..n
        BY <1>1, <1>6
      <3> QED BY <1>3, <2>2, <3>1
    <2>5. NewLine(p) \in Paper
      <3>1. [lines |-> lines, col |-> 0] \in Paper
        BY <1>1, <2>2 DEF Paper
      <3> QED BY <1>4, <3>1
    <2> QED BY <1>1, <1>4, <1>6, <2>2, <2>3, <2>4, <2>5 DEF n, lines
  <1> QED BY <1>1, <1>5, <1>6

(* The screen scrolls as the paper does: the last lines stay in view.      *)
LEMMA LineFeedShows ==
  ASSUME NEW t \in Terms, t.row < Height, NEW p \in Paper, Shows(t, p)
  PROVE  NewLine(p) \in Paper /\ Shows(Scrolled(NewRow(t)), NewLine(p))
  <1> DEFINE n == Len(p.lines)
             q == NewLine(p)
             s == Scrolled(NewRow(t))
  <1>1. n \in 1..Height /\ t.row = n - 1 /\ Height \in Nat /\ n \in Nat
    BY ScreenAssumption DEF Terms, Paper, Shows
  <1>2. NewLine(p) \in Paper
    BY <1>1, NewLineIs
  <1>3. /\ NewRow(t) \in Terms /\ NewRow(t).screen = t.screen
        /\ NewRow(t).col = 0 /\ NewRow(t).row = n
    BY <1>1, NewRowIs
  <1>4. \A i \in Cells : /\ i \in Nat
                          /\ i \div Width \in 0..(Height - 1) /\ i % Width \in 0..(Width - 1)
    BY CellOf
  <1>5. \A i \in Cells :
          t.screen[i] = IF i \div Width < n THEN p.lines[i \div Width + 1][i % Width] ELSE Blank
    BY DEF Shows
  <1>6. \A x \in 0..(Width - 1) : BlankLine[x] = Blank
    BY DEF BlankLine
  <1>7. CASE n < Height
    <2>1. s = NewRow(t) /\ Len(q.lines) = n + 1 /\ q.col = 0
          /\ q.lines[n + 1] = BlankLine /\ \A j \in 1..n : q.lines[j] = p.lines[j]
      BY <1>1, <1>3, <1>7, ScrolledIs, NewLineIs
    <2>2. ASSUME NEW i \in Cells
          PROVE  s.screen[i] = IF i \div Width < n + 1
                                 THEN q.lines[i \div Width + 1][i % Width] ELSE Blank
      <3> DEFINE r == i \div Width
      <3>1. r \in Nat /\ i % Width \in 0..(Width - 1) /\ s.screen[i] = t.screen[i]
        BY <1>3, <1>4, <2>1
      <3>2. t.screen[i] = IF r < n THEN p.lines[r + 1][i % Width] ELSE Blank
        BY <1>5
      <3> HIDE DEF r, s, q, n
      <3>3. CASE r < n
        <4>1. r + 1 \in 1..n
          BY <1>1, <3>1, <3>3
        <4> QED BY <1>1, <2>1, <3>1, <3>2, <3>3, <4>1 DEF r
      <3>4. CASE r = n
        BY <1>1, <1>6, <2>1, <3>1, <3>2, <3>4 DEF r
      <3>5. CASE r > n
        BY <1>1, <3>1, <3>2, <3>5 DEF r
      <3> QED BY <1>1, <3>1, <3>3, <3>4, <3>5
    <2> HIDE DEF s, q
    <2>3. s.row = Len(q.lines) - 1 /\ s.col = q.col
      BY <1>1, <1>3, <2>1
    <2> QED BY <1>2, <2>1, <2>2, <2>3 DEF Shows, s, q
  <1>8. CASE n = Height
    <2>1. /\ s.screen = ClearRow(ShiftUp(t.screen), Height - 1)
          /\ s.row = Height - 1 /\ s.col = 0
      BY <1>3, <1>8, ScrolledIs
    <2>2. /\ Len(q.lines) = Height /\ q.col = 0 /\ q.lines[Height] = BlankLine
          /\ \A j \in 1..(Height - 1) : q.lines[j] = p.lines[j + 1]
      BY <1>1, <1>8, NewLineIs
    <2>3. ASSUME NEW i \in Cells
          PROVE  s.screen[i] = q.lines[i \div Width + 1][i % Width]
      <3> DEFINE r == i \div Width
                 x == i % Width
      <3>1. r \in 0..(Height - 1) /\ x \in 0..(Width - 1)
        BY <1>4
      <3>2. s.screen[i] = IF r = Height - 1 THEN Blank
                          ELSE IF i + Width \in Cells THEN t.screen[i + Width] ELSE t.screen[i]
        BY <2>1 DEF ClearRow, ShiftUp
      <3>3. /\ i + Width \in Cells <=> r < Height - 1
            /\ (i + Width) \div Width = r + 1 /\ (i + Width) % Width = x
        BY NextRow
      <3>4. CASE r = Height - 1
        <4> HIDE DEF s, q, n, x, r
        <4>1. s.screen[i] = Blank /\ r + 1 = Height
          BY <1>1, <3>2, <3>4
        <4> QED BY <1>6, <2>2, <3>1, <4>1 DEF x, r
      <3>5. CASE r < Height - 1
        <4>1. i + Width \in Cells
          BY <3>3, <3>5
        <4>2. t.screen[i + Width] = IF (i + Width) \div Width < n
                 THEN p.lines[(i + Width) \div Width + 1][(i + Width) % Width] ELSE Blank
          BY <1>5, <4>1
        <4> HIDE DEF s, q, n, x, r
        <4>3. s.screen[i] = t.screen[i + Width] /\ r + 1 < n /\ r + 1 \in 1..(Height - 1)
          BY <1>1, <1>8, <3>1, <3>2, <3>5, <4>1
        <4>4. s.screen[i] = p.lines[r + 1 + 1][x]
          BY <3>3, <4>2, <4>3
        <4>5. q.lines[r + 1] = p.lines[r + 1 + 1]
          BY <2>2, <4>3
        <4> QED BY <4>4, <4>5 DEF x, r
      <3> QED BY <1>1, <3>1, <3>4, <3>5
    <2>4. \A i \in Cells : i \div Width < Height
      BY <1>1, <1>4
    <2> HIDE DEF s, q
    <2>5. s.row = Len(q.lines) - 1 /\ s.col = q.col
      BY <2>1, <2>2
    <2> QED BY <1>2, <2>2, <2>3, <2>4, <2>5 DEF Shows, s, q
  <1> QED BY <1>1, <1>7, <1>8

(* A character where both stand, or a blank before it.                     *)
LEMMA StrikeIs ==
  ASSUME NEW p \in Paper, Len(p.lines) \in Nat \ {0}, NEW i \in 0..(Width - 1), NEW c \in Shown
  PROVE  LET n == Len(p.lines) IN
         /\ Strike(p, i, c) \in Paper
         /\ Strike(p, i, c).col = p.col /\ Len(Strike(p, i, c).lines) = n
         /\ \A j \in 1..(n - 1) : Strike(p, i, c).lines[j] = p.lines[j]
         /\ Strike(p, i, c).lines[n] = [p.lines[n] EXCEPT ![i] = c]
  <1> DEFINE n == Len(p.lines)
             line == [p.lines[n] EXCEPT ![i] = c]
             lines == [p.lines EXCEPT ![n] = line]
  <1>1. p.lines \in Seq(Line) /\ p.col \in 0..Width /\ n \in Nat \ {0} /\ n \in 1..n
    BY DEF Paper
  <1>2. line \in Line
    BY <1>1 DEF Line
  <1>3. Strike(p, i, c) = [p EXCEPT !.lines = lines]
    BY DEF Strike
  <1> HIDE DEF line
  <1>4. /\ lines \in Seq(Line) /\ Len(lines) = n /\ lines[n] = line
        /\ \A j \in 1..(n - 1) : lines[j] = p.lines[j]
    BY <1>1, <1>2
  <1> HIDE DEF lines, n
  <1>5. /\ Strike(p, i, c).lines = lines /\ Strike(p, i, c).col = p.col
        /\ Strike(p, i, c) \in Paper
    BY <1>1, <1>3, <1>4 DEF Paper
  <1> QED BY <1>4, <1>5 DEF line, n

(* A character is struck on the line the cursor is in.                     *)
LEMMA StrikeShows ==
  ASSUME NEW t \in Terms, t.row < Height, NEW p \in Paper, NEW i \in 0..(Width - 1),
         NEW c \in Shown, Shows(t, p),
         NEW u, u.row = t.row, u.screen = [t.screen EXCEPT ![i + t.row * Width] = c],
         NEW q, q.lines = Strike(p, i, c).lines, u.col = q.col
  PROVE  Shows(u, q)
  <1> DEFINE n == Len(p.lines)
  <1>1. n \in Nat \ {0} /\ t.row = n - 1 /\ t.row \in 0..(Height - 1)
    BY ScreenAssumption DEF Terms, Paper, Shows
  <1>2. /\ Len(q.lines) = n /\ q.lines[n] = [p.lines[n] EXCEPT ![i] = c]
        /\ \A j \in 1..(n - 1) : q.lines[j] = p.lines[j]
        /\ p.lines[n] \in Line
    BY <1>1, StrikeIs DEF Paper
  <1>3. ASSUME NEW k \in Cells
        PROVE  u.screen[k] = IF k \div Width < n THEN q.lines[k \div Width + 1][k % Width]
                             ELSE Blank
    <2> DEFINE r == k \div Width
               x == k % Width
               here == i + t.row * Width
    <2>1. r \in 0..(Height - 1) /\ x \in 0..(Width - 1) /\ k = x + r * Width
      BY CellOf
    <2>2. here \in Cells /\ here \div Width = t.row /\ here % Width = i
      BY <1>1, CellMeans
    <2>3. t.screen[k] = IF r < n THEN p.lines[r + 1][x] ELSE Blank
      BY DEF Shows
    <2>4. t.screen \in [Cells -> Shown]
      BY DEF Terms
    <2>5. u.screen[k] = IF k = here THEN c ELSE t.screen[k]
      BY <2>4
    <2>6. k = here <=> r = t.row /\ x = i
      BY <2>1, <2>2
    <2> HIDE DEF n, r, x, here
    <2>7. CASE r = t.row
      <3>1. r + 1 = n /\ r < n
        BY <1>1, <2>1, <2>7
      <3>2. q.lines[n][x] = IF x = i THEN c ELSE p.lines[n][x]
        BY <1>2, <2>1 DEF Line
      <3> QED BY <2>3, <2>5, <2>6, <2>7, <3>1, <3>2 DEF r, x
    <2>8. CASE r # t.row
      <3>1. u.screen[k] = t.screen[k]
        BY <2>5, <2>6, <2>8
      <3>2. CASE r < n
        <4>1. r + 1 \in 1..(n - 1)
          BY <1>1, <2>1, <2>8, <3>2
        <4> QED BY <1>2, <2>3, <3>1, <3>2, <4>1 DEF r, x
      <3>3. CASE ~(r < n)
        BY <2>3, <3>1, <3>3 DEF r, x
      <3> QED BY <3>2, <3>3
    <2> QED BY <2>7, <2>8
  <1> QED BY <1>1, <1>2, <1>3 DEF Shows

(* A character that is written undisturbed does to the screen what it does *)
(* to the paper.                                                           *)
LEMMA PutShows ==
  ASSUME NEW t \in Terms, t.row < Height, NEW p \in Paper, NEW c \in Typed, Shows(t, p)
  PROVE  /\ PutChar(t, c) \in Terms /\ PutChar(t, c).row < Height
         /\ Type(p, c) \in Paper
         /\ Shows(PutChar(t, c), Type(p, c))
  <1>1. /\ p.lines \in Seq(Line) /\ p.col = t.col /\ t.col \in 0..Width /\ 0 \in 0..Width
        /\ t.row \in 0..(Height - 1)
        /\ Len(p.lines) \in 1..Height /\ Width \in Nat \ {0}
    BY ScreenAssumption DEF Shows, Paper, Terms
  <1>2. CASE c = CR
    <2>1. PutChar(t, c) = [t EXCEPT !.col = 0] /\ Type(p, c) = [p EXCEPT !.col = 0]
      <3>1. PutChar(t, c) = [t EXCEPT !.col = 0]
        BY <1>2 DEF PutChar
      <3> QED BY <1>2, <3>1, CharAssumption DEF Type
    <2>2. [t EXCEPT !.col = 0] \in Terms /\ [p EXCEPT !.col = 0] \in Paper
      BY <1>1 DEF Terms, Paper
    <2>3. Shows([t EXCEPT !.col = 0], [p EXCEPT !.col = 0])
      BY DEF Shows, Terms, Paper
    <2>4. [t EXCEPT !.col = 0].row = t.row
      BY DEF Terms
    <2> QED BY <2>1, <2>2, <2>3, <2>4
  <1>3. CASE c = BS /\ t.col = 0
    <2>1. PutChar(t, c) = t /\ Type(p, c) = p
      BY <1>1, <1>3, CharAssumption DEF PutChar, Type
    <2> QED BY <2>1
  <1>4. CASE c = BS /\ t.col # 0
    <2> DEFINE i == t.col - 1
               s == [t.screen EXCEPT ![i + t.row * Width] = Blank]
               u == [t EXCEPT !.col = i, !.screen = s]
               q == [Strike(p, i, Blank) EXCEPT !.col = i]
    <2>1. i \in 0..(Width - 1) /\ i \in 0..Width /\ Blank \in Shown
      BY <1>1, <1>4 DEF Shown
    <2>2. Cell(t) - 1 = i + t.row * Width
      <3>1. t.row * Width \in Nat
        BY <1>1, Products
      <3> QED BY <1>1, <3>1 DEF Cell
    <2>3. PutChar(t, c) = u
      BY <1>4, <2>2, CharAssumption DEF PutChar
    <2>4. /\ Strike(p, i, Blank) \in Paper /\ Strike(p, i, Blank).col = p.col
      <3>1. Len(p.lines) \in Nat \ {0}
        BY <1>1
      <3> HIDE DEF i
      <3> QED BY <2>1, <3>1, StrikeIs
    <2>5. Type(p, c) = q
      BY <1>1, <1>4, <2>4, CharAssumption DEF Type
    <2>6. s \in [Cells -> Shown]
      BY <2>1 DEF Terms
    <2> HIDE DEF s, i
    <2>7. u \in Terms /\ u.row = t.row /\ u.screen = s /\ u.col = i
      BY <2>1, <2>6 DEF Terms
    <2>8. q \in Paper /\ q.lines = Strike(p, i, Blank).lines /\ q.col = i
      BY <2>1, <2>4 DEF Paper
    <2>9. Shows(u, q)
      <3> HIDE DEF u, q
      <3> QED BY <2>1, <2>7, <2>8, StrikeShows DEF s
    <2> QED BY <2>3, <2>5, <2>7, <2>8, <2>9
  <1>5. CASE c = NL
    <2>1. /\ PutChar(t, c) = Scrolled(NewRow(t))
          /\ PutChar(t, c) \in Terms /\ PutChar(t, c).row < Height
      BY <1>5, NewlineIs
    <2>2. Type(p, c) = NewLine(p)
      BY <1>5, CharAssumption DEF Type
    <2> QED BY <2>1, <2>2, LineFeedShows
  <1>6. CASE c \in Glyph
    <2> DEFINE v == Scrolled(IF t.col = Width THEN NewRow(t) ELSE t)
               o == IF p.col = Width THEN NewLine(p) ELSE p
               q == [Strike(o, o.col, c) EXCEPT !.col = o.col + 1]
    <2>1. c \notin {CR, BS, NL} /\ c \in Shown
      BY <1>6, CharAssumption DEF Shown
    <2>2. /\ PutChar(t, c) = Placed(v, c) /\ PutChar(t, c) \in Terms /\ PutChar(t, c).row < Height
          /\ v \in Terms /\ v.row < Height /\ v.col < Width
      BY <1>6, GlyphIs
    <2>3. Shows(v, o) /\ o \in Paper
      <3>1. CASE t.col = Width
        BY <1>1, <3>1, LineFeedShows
      <3>2. CASE t.col # Width
        <4>1. v = t
          BY <3>2, ScrolledIs
        <4> QED BY <1>1, <3>2, <4>1
      <3> QED BY <3>1, <3>2
    <2> HIDE DEF v, o
    <2>4. /\ o.col = v.col /\ o.col \in 0..(Width - 1) /\ o.col + 1 \in 0..Width
          /\ Len(o.lines) \in Nat \ {0} /\ v.row \in Nat
      BY <1>1, <2>2, <2>3 DEF Shows, Terms, Paper
    <2>5. Strike(o, o.col, c) \in Paper /\ Strike(o, o.col, c).col = o.col
      BY <2>1, <2>3, <2>4, StrikeIs
    <2>6. q \in Paper /\ q.lines = Strike(o, o.col, c).lines /\ q.col = o.col + 1
      BY <2>4, <2>5 DEF Paper
    <2>7. Type(p, c) = q
      <3>1. Type(p, c) = [Strike(o, o.col, c) EXCEPT !.col = @ + 1]
        BY <2>1 DEF Type, o
      <3> QED BY <2>5, <3>1
    <2>8. /\ Placed(v, c).row = v.row /\ Placed(v, c).col = v.col + 1
          /\ Placed(v, c).screen = [v.screen EXCEPT ![Cell(v)] = c]
      BY <1>6, <2>2, PlacedIs
    <2>9. Cell(v) = o.col + v.row * Width
      BY <2>4 DEF Cell
    <2> HIDE DEF q
    <2>10. Shows(Placed(v, c), q)
      BY <2>1, <2>2, <2>3, <2>4, <2>6, <2>8, <2>9, StrikeShows
    <2> QED BY <2>2, <2>6, <2>7, <2>10
  <1> QED BY <1>2, <1>3, <1>4, <1>5, <1>6 DEF Typed

(* The handler's message, between two characters.                          *)
LEMMA TypeSteps ==
  ASSUME NEW p
  PROVE  \E f : /\ f[0] = p
                /\ \A i \in 1..Len(Unexpected) : f[i] = Type(f[i - 1], Unexpected[i])
                /\ FoldLeft(Type, p, Unexpected) = f[Len(Unexpected)]
  <1>1. FoldLeft(Type, p, Unexpected) = TypeFold!Fold(p, Unexpected)
    BY DEF TypeFold!Fold, FoldLeft, TypeFold!FoldLeft, MapThenFoldSet, TypeFold!MapThenFoldSet,
           Max, TypeFold!Max
  <1> QED BY <1>1, MessageAssumption, TypeFold!FoldSteps

(* And so does a whole message.                                            *)
LEMMA MessageShows ==
  ASSUME NEW t \in Terms, t.row < Height, NEW p \in Paper, Shows(t, p)
  PROVE  /\ FoldLeft(Type, p, Unexpected) \in Paper
         /\ Shows(FoldLeft(PutChar, t, Unexpected), FoldLeft(Type, p, Unexpected))
  <1> DEFINE n == Len(Unexpected)
             Same(u, q) == u \in Terms /\ u.row < Height /\ q \in Paper /\ Shows(u, q)
  <1>1. n \in Nat /\ \A i \in 1..n : Unexpected[i] \in Typed
    BY MessageAssumption DEF Typed
  <1>2. PICK f : /\ f[0] = t
                 /\ \A i \in 1..n : f[i] = PutChar(f[i - 1], Unexpected[i])
                 /\ FoldLeft(PutChar, t, Unexpected) = f[n]
    BY MessageSteps
  <1>3. PICK g : /\ g[0] = p
                 /\ \A i \in 1..n : g[i] = Type(g[i - 1], Unexpected[i])
                 /\ FoldLeft(Type, p, Unexpected) = g[n]
    BY TypeSteps
  <1>4. ASSUME NEW u, NEW q, Same(u, q), NEW c \in Typed
        PROVE  Same(PutChar(u, c), Type(q, c))
    BY <1>4, PutShows
  <1> DEFINE S == {i \in Nat : Same(f[i], g[i])}
  <1>5. 0 \in S
    BY <1>2, <1>3
  <1> HIDE DEF n, Same
  <1>6. ASSUME NEW i \in 0..(n - 1), i \in S
        PROVE  i + 1 \in S
    <2>1. i + 1 \in 1..n /\ i + 1 - 1 = i
      BY <1>1
    <2>2. f[i + 1] = PutChar(f[i], Unexpected[i + 1]) /\ g[i + 1] = Type(g[i], Unexpected[i + 1])
          /\ Unexpected[i + 1] \in Typed
      BY <1>1, <1>2, <1>3, <2>1
    <2> QED BY <1>4, <1>6, <2>1, <2>2
  <1>7. n \in S
    <2> HIDE DEF S
    <2>1. \A i \in 0..n : i \in S
      BY <1>1, <1>5, <1>6, PutFold!UpTo
    <2> QED BY <1>1, <2>1
  <1> QED BY <1>2, <1>3, <1>7 DEF Same

-----------------------------------------------------------------------------
(* Every step of term_putchar does a part of the rest of its character.    *)
LEMMA ReturnRest ==
  ASSUME Inv, Return
  PROVE  Rest(pc', term', char') = Rest(pc, term, char)
  <1>1. term' = [term EXCEPT !.col = 0] /\ pc = "return" /\ pc' = "select_low"
    BY DEF Return, SetCol
  <1>2. Rest(pc', term', char') = term'
    BY <1>1 DEF Rest
  <1>3. Rest(pc, term, char) = [term EXCEPT !.col = 0]
    BY <1>1 DEF Rest
  <1> QED BY <1>1, <1>2, <1>3

(* No step of a character changes what the rest of it comes to.            *)
LEMMA EraseRest ==
  ASSUME Inv, Printed, torn = "no", Erase
  PROVE  Rest(pc', term', char') = Rest(pc, term, char)
  <1>1. pc = "erase" /\ char' = char /\ char = BS /\ at.col = term.col /\ at.row = term.row
        /\ term \in Terms
    BY DEF Erase, Frame, Inv, Ways, Agreement, TypeOK, Terms
  <1>2. Rest(pc, term, char) = PutChar(term, BS)
    BY <1>1 DEF Rest
  <1>3. CASE at.col > 0
    <2> DEFINE s == [term.screen EXCEPT ![Cell(term) - 1] = Blank]
    <2>1. term' = [term EXCEPT !.col = term.col - 1] /\ pc' = "blank"
      BY <1>1, <1>3 DEF Erase, SetCol
    <2>2. Cell(term') = Cell(term) - 1
      <3>1. term.row * Width \in Nat /\ term.col \in Nat /\ Width \in Nat
        BY <1>1, Products, ScreenAssumption DEF Terms
      <3>2. term'.col = term.col - 1 /\ term'.row = term.row
        BY <1>1, <2>1 DEF Terms
      <3> QED BY <3>1, <3>2 DEF Cell
    <2>3. Rest(pc', term', char') = [term' EXCEPT !.screen[Cell(term) - 1] = Blank]
      BY <2>1, <2>2 DEF Rest
    <2>4. PutChar(term, BS) = [term EXCEPT !.col = term.col - 1, !.screen = s]
      BY <1>1, <1>3, CharAssumption DEF PutChar
    <2>5. [term' EXCEPT !.screen[Cell(term) - 1] = Blank] = [term' EXCEPT !.screen = s]
      BY <1>1, <2>1 DEF Terms
    <2> HIDE DEF s
    <2> QED BY <1>1, <1>2, <2>1, <2>3, <2>4, <2>5 DEF Terms
  <1>4. CASE ~(at.col > 0)
    <2>1. term' = term /\ pc' = "select_low"
      BY <1>4 DEF Erase
    <2>2. term.col = 0
      BY <1>1, <1>4, ScreenAssumption DEF Terms
    <2>3. PutChar(term, BS) = term
      BY <2>2, CharAssumption DEF PutChar
    <2> QED BY <1>2, <2>1, <2>3 DEF Rest
  <1> QED BY <1>3, <1>4

LEMMA BlankRest ==
  ASSUME Inv, torn = "no", BlankCell
  PROVE  Rest(pc', term', char') = Rest(pc, term, char)
  <1>1. Cell(at) = Cell(term) /\ pc = "blank" /\ pc' = "select_low"
    BY DEF BlankCell, Inv, Agreement, Cell
  <1>2. term' = [term EXCEPT !.screen[Cell(term)] = Blank]
    BY <1>1 DEF BlankCell, SetCell
  <1>3. Rest(pc', term', char') = term'
    BY <1>1 DEF Rest
  <1>4. Rest(pc, term, char) = [term EXCEPT !.screen[Cell(term)] = Blank]
    BY <1>1 DEF Rest
  <1> QED BY <1>2, <1>3, <1>4

LEMMA PlaceRest ==
  ASSUME Inv, torn = "no", Place
  PROVE  Rest(pc', term', char') = Rest(pc, term, char)
  <1>1. /\ pc = "place" /\ char' = char /\ char \notin {CR, BS}
        /\ at.col = term.col /\ term \in Terms /\ term.row < Height /\ at.row < Height
    BY CharAssumption DEF Place, Frame, Inv, Ways, Agreement, Places, Scrolling, TypeOK, Terms
  <1>2. Rest(pc, term, char) =
          Placed(Scrolled(IF char = NL \/ term.col = Width THEN NewRow(term) ELSE term), char)
    <2>1. Rest(pc, term, char) = PutChar(term, char)
      BY <1>1 DEF Rest
    <2> QED BY <1>1, <2>1, PutIs
  <1>3. CASE char = NL \/ at.col = Width
    <2>1. term' = [term EXCEPT !.col = 0] /\ pc' = "down"
      BY <1>3 DEF Place, SetCol
    <2>2. Rest(pc', term', char') = Placed(Scrolled([term' EXCEPT !.row = @ + 1]), char)
      BY <1>1, <2>1 DEF Rest
    <2>3. [term' EXCEPT !.row = @ + 1] = NewRow(term)
      BY <2>1 DEF NewRow
    <2> QED BY <1>1, <1>2, <1>3, <2>2, <2>3
  <1>4. CASE ~(char = NL \/ at.col = Width)
    <2>1. term' = term /\ pc' = "write"
      <3>1. at.row # Height
        BY <1>1, ScreenAssumption DEF Inv, TypeOK, Position
      <3> QED BY <1>4, <3>1, SettledIs DEF Place
    <2>2. Scrolled(term) = term
      BY <1>1, ScrolledIs
    <2>3. Rest(pc', term', char') = Placed(term, char)
      BY <1>1, <2>1 DEF Rest
    <2> QED BY <1>1, <1>2, <1>4, <2>2, <2>3
  <1> QED BY <1>3, <1>4

LEMMA DownRest ==
  ASSUME Inv, torn = "no", Down
  PROVE  /\ Rest(pc', term', char') = Rest(pc, term, char)
         /\ pc' \in Scrolling => term'.row = Height
  <1>1. /\ pc = "down" /\ char' = char /\ at.row = term.row /\ term \in Terms
        /\ term' = [term EXCEPT !.row = @ + 1] /\ at'.row = term.row + 1
        /\ pc' = IF at'.row = Height THEN "shift" ELSE IF char = NL THEN "select_low" ELSE "write"
    BY DEF Down, Frame, Inv, Agreement, TypeOK, Terms, Position, SetRow, Settled
  <1>2. term'.row = at'.row /\ term'.row \in Nat
    BY <1>1, ScreenAssumption DEF Terms
  <1>3. Rest(pc, term, char) = Placed(Scrolled(term'), char)
    BY <1>1 DEF Rest
  <1>4. CASE at'.row = Height
    BY <1>1, <1>2, <1>3, <1>4 DEF Rest, Scrolling
  <1>5. CASE at'.row # Height
    <2>1. Scrolled(term') = term'
      BY <1>2, <1>5 DEF Scrolled
    <2>2. CASE char = NL
      BY <1>1, <1>3, <1>5, <2>1, <2>2 DEF Rest, Placed, Scrolling
    <2>3. CASE char # NL
      BY <1>1, <1>3, <1>5, <2>1, <2>3 DEF Rest, Scrolling
    <2> QED BY <2>2, <2>3
  <1> QED BY <1>4, <1>5

LEMMA ShiftRest ==
  ASSUME Inv, Printed, torn = "no", Shift
  PROVE  /\ Rest(pc', term', char') = Rest(pc, term, char)
         /\ term'.row = Height
  <1> DEFINE s == ShiftUp(term.screen)
  <1>1. /\ pc = "shift" /\ pc' = "reload" /\ char' = char /\ term \in Terms /\ term.row = Height
        /\ term' = [term EXCEPT !.screen = s]
    BY DEF Shift, Frame, Inv, TypeOK, Terms, Printed, Scrolling
  <1> HIDE DEF s
  <1>2. Scrolled(term) = [term EXCEPT !.row = @ - 1, !.screen = ClearRow(s, Height - 1)]
    BY <1>1 DEF Scrolled, s
  <1>3. [term' EXCEPT !.row = @ - 1, !.screen = ClearRow(@, Height - 1)]
          = [term EXCEPT !.row = @ - 1, !.screen = ClearRow(s, Height - 1)]
    BY <1>1 DEF Terms
  <1>4. term'.row = Height
    BY <1>1 DEF Terms
  <1> QED BY <1>1, <1>2, <1>3, <1>4 DEF Rest

LEMMA ReloadRest ==
  ASSUME Inv, Printed, torn = "no", Reload
  PROVE  /\ Rest(pc', term', char') = Rest(pc, term, char)
         /\ term'.row = Height
  <1>1. /\ pc = "reload" /\ pc' = "up" /\ char' = char /\ term.row = Height /\ term' = term
    BY DEF Reload, Frame, Printed, Scrolling
  <1> QED BY <1>1 DEF Rest

LEMMA UpRest ==
  ASSUME Inv, Printed, torn = "no", Up
  PROVE  Rest(pc', term', char') = Rest(pc, term, char)
  <1>1. /\ pc = "up" /\ pc' = "clear" /\ char' = char /\ term \in Terms /\ term.row = Height
        /\ at.row = Height - 1 /\ term' = [term EXCEPT !.row = Height - 1]
    BY DEF Up, SetRow, Frame, Inv, TypeOK, Terms, Agreement, Printed, Scrolling
  <1>2. term'.row = Height - 1 /\ term'.screen = term.screen
    BY <1>1 DEF Terms
  <1>3. [term' EXCEPT !.screen = ClearRow(@, term'.row)]
          = [term EXCEPT !.row = @ - 1, !.screen = ClearRow(@, Height - 1)]
    BY <1>1, <1>2 DEF Terms
  <1> QED BY <1>1, <1>3 DEF Rest

LEMMA ClearRest ==
  ASSUME Inv, torn = "no", Clear
  PROVE  Rest(pc', term', char') = Rest(pc, term, char)
  <1>1. /\ pc = "clear" /\ pc' = (IF char = NL THEN "select_low" ELSE "write") /\ char' = char
        /\ term' = [term EXCEPT !.screen = ClearRow(@, term.row)]
    BY DEF Clear, Frame, Inv, Agreement
  <1>2. Rest(pc, term, char) = Placed(term', char)
    BY <1>1 DEF Rest
  <1>3. CASE char = NL
    BY <1>1, <1>2, <1>3 DEF Rest, Placed
  <1>4. CASE char # NL
    BY <1>1, <1>2, <1>4 DEF Rest
  <1> QED BY <1>3, <1>4

LEMMA WriteRest ==
  ASSUME Inv, torn = "no", Write
  PROVE  Rest(pc', term', char') = Rest(pc, term, char)
  <1>1. /\ pc = "write" /\ pc' = "advance" /\ char # NL /\ Cell(at) = Cell(term)
        /\ term \in Terms
    BY DEF Write, Inv, Ways, Agreement, Cell, TypeOK, Terms
  <1>2. term' = [term EXCEPT !.screen[Cell(term)] = char]
    BY <1>1 DEF Write, SetCell
  <1>3. Rest(pc', term', char') = [term' EXCEPT !.col = @ + 1]
    BY <1>1 DEF Rest
  <1>4. Rest(pc, term, char) = [term EXCEPT !.screen[Cell(term)] = char, !.col = @ + 1]
    BY <1>1 DEF Rest, Placed
  <1> QED BY <1>1, <1>2, <1>3, <1>4 DEF Terms

LEMMA AdvanceRest ==
  ASSUME Inv, torn = "no", Advance
  PROVE  Rest(pc', term', char') = Rest(pc, term, char)
  <1>1. /\ pc = "advance" /\ pc' = "select_low" /\ term' = [term EXCEPT !.col = @ + 1]
    BY DEF Advance, SetCol, Inv, Agreement
  <1>2. Rest(pc', term', char') = term' /\ Rest(pc, term, char) = [term EXCEPT !.col = @ + 1]
    BY <1>1 DEF Rest
  <1> QED BY <1>1, <1>2

-----------------------------------------------------------------------------
(* The screen shows the paper.                                             *)
LEMMA EnterPrinted ==
  ASSUME Inv, Printed, NEW c \in Typed, Enter(c)
  PROVE  Printed'
  <1> SUFFICES ASSUME torn' = "no"
               PROVE  /\ paper' \in Paper
                      /\ pc' \notin Scrolling
                      /\ Shows(Rest(pc', term', char'), paper')
    BY DEF Printed
  <1>1. /\ torn = "no" /\ pc = "next" /\ char' = c /\ term' = term
        /\ pc' = CASE c = CR -> "return" [] c = BS -> "erase" [] OTHER -> "place"
        /\ paper' = Type(paper, c)
    BY DEF Enter
  <1>2. term \in Terms /\ term.row < Height
    BY <1>1 DEF Inv, TypeOK, Terms, Places, Scrolling
  <1>3. Rest(pc, term, char) = term
    BY <1>1 DEF Rest
  <1>4. paper \in Paper /\ Shows(term, paper)
    BY <1>1, <1>3 DEF Printed
  <1>5. Rest(pc', term', char') = PutChar(term, c)
    <2>1. CASE c = CR
      <3>1. PutChar(term, c) = [term EXCEPT !.col = 0]
        BY <2>1 DEF PutChar
      <3>2. pc' = "return"
        BY <1>1, <2>1, CharAssumption
      <3> QED BY <1>1, <3>1, <3>2 DEF Rest
    <2>2. CASE c # CR
      <3>1. pc' \in {"erase", "place"}
        BY <1>1, <2>2
      <3> QED BY <1>1, <3>1 DEF Rest
    <2> QED BY <2>1, <2>2
  <1>6. pc' \notin Scrolling
    BY <1>1 DEF Scrolling
  <1> QED BY <1>1, <1>2, <1>4, <1>5, <1>6, PutShows

(* The handler prints between characters without disturbing any.           *)
LEMMA HandlerPrinted ==
  ASSUME Inv, Printed, HandlerPrints
  PROVE  Printed'
  <1> SUFFICES ASSUME torn' = "no"
               PROVE  /\ paper' \in Paper
                      /\ pc' \notin Scrolling
                      /\ Shows(Rest(pc', term', char'), paper')
    BY DEF Printed
  <1>1. /\ torn = "no" /\ pc \in {"idle", "next"} /\ pc' = pc
        /\ term' = FoldLeft(PutChar, term, Unexpected)
        /\ paper' = FoldLeft(Type, paper, Unexpected)
    BY DEF HandlerPrints
  <1>2. term \in Terms /\ term.row < Height
    BY <1>1 DEF Inv, TypeOK, Terms, Places, Scrolling
  <1>3. Rest(pc, term, char) = term /\ Rest(pc', term', char') = term'
    <2>1. Rest(pc, term, char) = term
      BY <1>1 DEF Rest
    <2>2. Rest(pc', term', char') = term'
      BY <1>1 DEF Rest
    <2> QED BY <2>1, <2>2
  <1>4. paper \in Paper /\ Shows(term, paper)
    BY <1>1, <1>3 DEF Printed
  <1>5. paper' \in Paper /\ Shows(term', paper')
    BY <1>1, <1>2, <1>4, MessageShows
  <1> QED BY <1>1, <1>3, <1>5 DEF Scrolling

LEMMA PartPrinted ==
  ASSUME Printed, UNCHANGED ghosts,
         torn = "no" => /\ Rest(pc', term', char') = Rest(pc, term, char)
                        /\ pc' \in Scrolling => term'.row = Height
  PROVE  Printed'
  <1> SUFFICES ASSUME torn' = "no"
               PROVE  /\ paper' \in Paper
                      /\ pc' \in Scrolling => term'.row = Height
                      /\ Shows(Rest(pc', term', char'), paper')
    BY DEF Printed
  <1>1. torn = "no" /\ paper' = paper
    BY DEF ghosts
  <1> QED BY <1>1 DEF Printed

LEMMA NextPrinted ==
  ASSUME Inv, Printed, [Next]_vars
  PROVE  Printed'
  <1>1. CASE \E c \in Typed : Enter(c)
    BY <1>1, EnterPrinted
  <1>2. CASE HandlerPrints
    BY <1>2, HandlerPrinted
  <1>3. CASE \/ Return \/ Erase \/ BlankCell \/ Place \/ Down \/ Shift
             \/ Reload \/ Up \/ Clear \/ Write \/ Advance
    <2>1. UNCHANGED ghosts
      BY <1>3 DEF Return, Erase, BlankCell, Place, Down, Shift, Reload, Up, Clear, Write,
                  Advance, Frame
    <2>2. ASSUME torn = "no"
          PROVE  Rest(pc', term', char') = Rest(pc, term, char)
      BY <1>3, <2>2, ReturnRest, EraseRest, BlankRest, PlaceRest, DownRest, ShiftRest, ReloadRest,
         UpRest, ClearRest, WriteRest, AdvanceRest
    <2>3. ASSUME torn = "no", pc' \in Scrolling
          PROVE  term'.row = Height
      <3>1. CASE Down
        BY <2>3, <3>1, DownRest
      <3>2. CASE Shift
        BY <2>3, <3>2, ShiftRest
      <3>3. CASE Reload
        BY <2>3, <3>3, ReloadRest
      <3>4. CASE Place
        <4>1. at.row < Height /\ at.row \in Nat
          BY <3>4, ScreenAssumption DEF Place, Inv, Places, TypeOK, Position
        <4> QED BY <2>3, <3>4, <4>1, ScreenAssumption DEF Place, Settled, Scrolling
      <3>5. CASE Return \/ Erase \/ BlankCell \/ Up \/ Clear \/ Write \/ Advance
        BY <2>3, <3>5 DEF Return, Erase, BlankCell, Up, Clear, Write, Advance, Scrolling
      <3> QED BY <1>3, <3>1, <3>2, <3>3, <3>4, <3>5
    <2> QED BY <2>1, <2>2, <2>3, PartPrinted
  <1>4. CASE UpdateCursor \/ WriteReturns \/ \E w \in WriteCall : CallWrite(w)
    <2>1. UNCHANGED <<term, char, ghosts>>
      BY <1>4 DEF UpdateCursor, WriteReturns, CallWrite
    <2>2. /\ pc \in {"select_low", "put_low", "select_high", "put_high", "idle", "next"}
          /\ pc' \in {"select_low", "put_low", "select_high", "put_high", "idle", "next"}
      BY <1>4 DEF UpdateCursor, WriteReturns, CallWrite
    <2>3. Rest(pc, term, char) = term
      BY <2>2 DEF Rest
    <2>4. Rest(pc', term', char') = term'
      BY <2>2 DEF Rest
    <2> QED BY <2>1, <2>2, <2>3, <2>4, PartPrinted DEF Scrolling
  <1>5. CASE UNCHANGED vars
    BY <1>5 DEF Printed, vars, ghosts
  <1> QED BY <1>1, <1>2, <1>3, <1>4, <1>5 DEF Next, Put

LEMMA InitPrinted == Init => Printed
  <1> SUFFICES ASSUME Init PROVE Printed
    OBVIOUS
  <1>1. /\ pc = "idle" /\ paper = [lines |-> <<BlankLine>>, col |-> 0]
        /\ term = [screen |-> [i \in Cells |-> Blank], col |-> 0, row |-> 0]
    BY DEF Init
  <1>2. Rest(pc, term, char) = term
    BY <1>1 DEF Rest
  <1>3. BlankLine \in Line
    BY DEF BlankLine, Line, Shown
  <1>4. <<BlankLine>> \in Seq(Line) /\ Len(<<BlankLine>>) = 1 /\ <<BlankLine>>[1] = BlankLine
    BY <1>3
  <1>5. paper \in Paper
    BY <1>1, <1>4, ScreenAssumption DEF Paper
  <1>6. ASSUME NEW i \in Cells
        PROVE  term.screen[i] =
                 IF i \div Width < 1 THEN paper.lines[i \div Width + 1][i % Width] ELSE Blank
    <2>1. i \div Width \in Nat /\ i % Width \in 0..(Width - 1)
      BY CellOf, ScreenAssumption
    <2>2. BlankLine[i % Width] = Blank
      BY <2>1 DEF BlankLine
    <2>3. i \div Width < 1 => paper.lines[i \div Width + 1] = BlankLine
      BY <1>1, <2>1
    <2> QED BY <1>1, <2>2, <2>3
  <1>7. Shows(term, paper)
    BY <1>1, <1>4, <1>6 DEF Shows
  <1> QED BY <1>1, <1>2, <1>5, <1>7 DEF Printed, Scrolling

(* Without an interrupt inside a character, the screen shows the end of    *)
(* what was written and printed, as a typewriter would (kprint.c:83-136).  *)
THEOREM ScreenShowsPaper == Spec => []ShowsPaper
  <1>1. Init => Inv /\ Printed
    BY InitInv, InitPrinted
  <1>2. (Inv /\ Printed) /\ [Next]_vars => (Inv /\ Printed)'
    BY NextInv, NextPrinted
  <1>3. Inv /\ Printed => ShowsPaper
    <2> SUFFICES ASSUME Printed, pc \in {"idle", "next"}, torn = "no"
                 PROVE  Shows(term, paper)
      BY DEF ShowsPaper, Shows
    <2>1. Rest(pc, term, char) = term
      BY DEF Rest
    <2> QED BY <2>1 DEF Printed
  <1> QED BY <1>1, <1>2, <1>3, PTL DEF Spec

=============================================================================
