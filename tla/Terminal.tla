------------------------------- MODULE Terminal -------------------------------
(***************************************************************************)
(* The terminal (kprint.c): sys_write puts characters on the VGA screen    *)
(* one by one with term_putchar, and so does kgetc, for which its echo is  *)
(* a write of one character.  The interrupt handler of the keyboard prints *)
(* too, when it meets a scan code with no key (key.c:129), and it may do   *)
(* so between any two steps of the term_putchar it interrupts.             *)
(*                                                                         *)
(* The steps are those of the code that -O2 (kernel/Makefile) makes:       *)
(* term_col and term_row are loaded once, kept in registers (`at'), stored *)
(* when they change, and loaded again after the call of memcpy.            *)
(***************************************************************************)
EXTENDS Integers, Sequences, SequencesExt

CONSTANTS
  Width, Height,       \* VGA_WIDTH and VGA_HEIGHT
  Glyph,               \* the characters that show, of which the space may be one
  Blank,               \* the space
  CR, BS, NL,          \* the characters that move: \r, \b, \n
  Unexpected,          \* what the interrupt handler prints
  WriteCall,           \* arguments programs give write: [fd, count]
  CountLimit,          \* the values of an int16_t, and of a uint16_t
  Byte                 \* the values a byte holds

ASSUME ScreenAssumption == Width \in Nat \ {0} /\ Height \in Nat \ {0, 1}
ASSUME CharAssumption ==
  Glyph \intersect {CR, BS, NL} = {} /\ CR # BS /\ NL \notin {CR, BS}
(* The message begins with a character that shows and ends with the line:  *)
(* one that began with NL could move the row past Height, and one that     *)
(* ended elsewhere could leave an interrupted scroll at a full line.       *)
ASSUME MessageAssumption ==
  /\ Unexpected \in Seq(Glyph \union {NL}) /\ Unexpected # <<>>
  /\ Head(Unexpected) \in Glyph /\ Last(Unexpected) = NL
ASSUME WriteAssumption == WriteCall \subseteq [fd : Int, count : Nat]
ASSUME ByteAssumption ==
  Byte \in Nat \ {0} /\ Width * Height < Byte * Byte /\ CountLimit \in Nat \ {0}

VARIABLES
  term,     \* [screen, col, row]: the VGA buffer, term_col and term_row
  crtc,     \* [index, low, high]: the cursor registers, and which is selected
  pc,       \* where the kernel's thread is; "idle" outside sys_write
  char,     \* `c' in term_putchar
  at,       \* [col, row]: its registers
  want,     \* `count' in sys_write
  written,  \* `num_written'
  result,   \* what sys_write returned last
  paper,    \* the text so far, as a typewriter would have it (no code reads it)
  torn      \* whether an interrupt has printed inside a term_putchar: "no",
            \* "now" if inside the latest one, "past" if inside an earlier one

write == <<want, written, result>>
ghosts == <<paper, torn>>
vars == <<term, crtc, pc, char, at, write, ghosts>>

Typed == Glyph \union {CR, BS, NL}
Shown == Glyph \union {Blank}
Cells == 0..(Width * Height - 1)
Cell(p) == p.col + p.row * Width

-----------------------------------------------------------------------------
(* What the pieces of term_putchar do to the screen.                       *)
ShiftUp(screen) ==
  [i \in Cells |-> IF i + Width \in Cells THEN screen[i + Width] ELSE screen[i]]

ClearRow(screen, r) == [i \in Cells |-> IF i \div Width = r THEN Blank ELSE screen[i]]

(* term_putchar when nothing comes between, as in the interrupt handler.   *)
PutChar(t, c) ==
  IF c = CR THEN [t EXCEPT !.col = 0]
  ELSE IF c = BS
    THEN IF t.col = 0 THEN t
         ELSE [t EXCEPT !.col = @ - 1, !.screen[Cell(t) - 1] = Blank]
  ELSE LET p == IF c = NL \/ t.col = Width
                  THEN [t EXCEPT !.col = 0, !.row = @ + 1] ELSE t
           q == IF p.row = Height
                  THEN [p EXCEPT !.row = @ - 1,
                                 !.screen = ClearRow(ShiftUp(@), Height - 1)]
                  ELSE p
       IN IF c = NL THEN q ELSE [q EXCEPT !.screen[Cell(q)] = c, !.col = @ + 1]

(* term_update_cursor when nothing comes between.                          *)
CursorAt(p) == [index |-> "high", low |-> Cell(p) % Byte, high |-> Cell(p) \div Byte]

-----------------------------------------------------------------------------
(* A typewriter with paper for Height lines.                               *)
BlankLine == [i \in 0..(Width - 1) |-> Blank]

NewLine(p) ==
  LET all == Append(p.lines, BlankLine)
  IN  [lines |-> IF Len(all) > Height THEN Tail(all) ELSE all, col |-> 0]

Strike(p, i, c) == [p EXCEPT !.lines[Len(p.lines)][i] = c]

Type(p, c) ==
  CASE c = CR -> [p EXCEPT !.col = 0]
    [] c = BS -> IF p.col = 0 THEN p
                 ELSE [Strike(p, p.col - 1, Blank) EXCEPT !.col = @ - 1]
    [] c = NL -> NewLine(p)
    [] OTHER -> LET q == IF p.col = Width THEN NewLine(p) ELSE p
                IN  [Strike(q, q.col, c) EXCEPT !.col = @ + 1]

NoPaper == [lines |-> <<>>, col |-> 0]

-----------------------------------------------------------------------------
(* term_init clears the screen.                                            *)
Init ==
  /\ term = [screen |-> [i \in Cells |-> Blank], col |-> 0, row |-> 0]
  /\ crtc = CursorAt(term)
  /\ pc = "idle"
  /\ char = NL
  /\ at = [col |-> 0, row |-> 0]
  /\ want = 0 /\ written = 0 /\ result = 0
  /\ paper = [lines |-> <<BlankLine>>, col |-> 0]
  /\ torn = "no"

(* sys_write, whose descriptor and count have 16 bits.                     *)
CallWrite(w) ==
  /\ pc = "idle"
  /\ IF w.fd % CountLimit \in {1, 2}
       THEN pc' = "next" /\ want' = w.count % CountLimit /\ written' = 0 /\ UNCHANGED result
       ELSE result' = -1 /\ UNCHANGED <<pc, want, written>>
  /\ UNCHANGED <<term, crtc, char, at, ghosts>>

WriteReturns ==
  /\ pc = "next"
  /\ written >= want
  /\ pc' = "idle"
  /\ result' = written
  /\ want' = 0 /\ written' = 0
  /\ UNCHANGED <<term, crtc, char, at, ghosts>>

-----------------------------------------------------------------------------
(* Definitions whose names end in Mistake are what the code would be with  *)
(* a likely mistake in it: the runs check that each one breaks a property. *)
EnterMistake(c) ==
  /\ pc = "next"
  /\ written < want
  /\ written' = IF c \in Glyph THEN written + 1 ELSE written
  /\ char' = c
  /\ at' = [col |-> term.col, row |-> term.row]
  /\ pc' = CASE c = CR -> "return" [] c = BS -> "erase" [] OTHER -> "place"
  /\ torn' = IF torn = "now" THEN "past" ELSE torn
  /\ paper' = IF torn = "no" THEN Type(paper, c) ELSE NoPaper
  /\ UNCHANGED <<term, crtc, want, result>>

(* term_putchar, in the steps an interrupt can come between.               *)
Enter(c) ==
  /\ pc = "next"
  /\ written < want
  /\ written' = written + 1
  /\ char' = c
  /\ at' = [col |-> term.col, row |-> term.row]
  /\ pc' = CASE c = CR -> "return" [] c = BS -> "erase" [] OTHER -> "place"
  /\ torn' = IF torn = "now" THEN "past" ELSE torn
  /\ paper' = IF torn = "no" THEN Type(paper, c) ELSE NoPaper
  /\ UNCHANGED <<term, crtc, want, result>>

SetCol(n) == term' = [term EXCEPT !.col = n] /\ at' = [at EXCEPT !.col = n]
SetRow(n) == term' = [term EXCEPT !.row = n] /\ at' = [at EXCEPT !.row = n]
SetCell(c) ==
  /\ term' = [term EXCEPT !.screen = [@ EXCEPT ![Cell(at)] = c]]
  /\ UNCHANGED at

Frame == UNCHANGED <<crtc, char, write, ghosts>>

Return ==
  /\ pc = "return"
  /\ SetCol(0)
  /\ pc' = "select_low"
  /\ Frame

Erase ==
  /\ pc = "erase"
  /\ IF at.col > 0
       THEN SetCol(at.col - 1) /\ pc' = "blank"
       ELSE UNCHANGED <<term, at>> /\ pc' = "select_low"
  /\ Frame

BlankCellMistake ==
  /\ pc = "blank"
  /\ SetCell(Blank)
  /\ pc' = "next"
  /\ Frame

BlankCell ==
  /\ pc = "blank"
  /\ SetCell(Blank)
  /\ pc' = "select_low"
  /\ Frame

SettledMistake(p) ==
  IF p.row > Height THEN "shift" ELSE IF char = NL THEN "select_low" ELSE "write"

(* What follows once the position is settled.                              *)
Settled(p) ==
  IF p.row = Height THEN "shift" ELSE IF char = NL THEN "select_low" ELSE "write"

PlaceMistake ==
  /\ pc = "place"
  /\ IF char = NL \/ at.col > Width
       THEN SetCol(0) /\ pc' = "down"
       ELSE UNCHANGED <<term, at>> /\ pc' = Settled(at)
  /\ Frame

(* A newline, or a line that is full, goes to the start of the next row.   *)
Place ==
  /\ pc = "place"
  /\ IF char = NL \/ at.col = Width
       THEN SetCol(0) /\ pc' = "down"
       ELSE UNCHANGED <<term, at>> /\ pc' = Settled(at)
  /\ Frame

Down ==
  /\ pc = "down"
  /\ SetRow(at.row + 1)
  /\ pc' = Settled(at')
  /\ Frame

Shift ==
  /\ pc = "shift"
  /\ term' = [term EXCEPT !.screen = ShiftUp(@)]
  /\ pc' = "reload"
  /\ UNCHANGED at
  /\ Frame

Reload ==
  /\ pc = "reload"
  /\ at' = [at EXCEPT !.row = term.row - 1]
  /\ pc' = "up"
  /\ UNCHANGED term
  /\ Frame

Up ==
  /\ pc = "up"
  /\ SetRow(at.row)
  /\ pc' = "clear"
  /\ Frame

ClearMistake ==
  /\ pc = "clear"
  /\ term' = [term EXCEPT !.screen = ClearRow(@, at.row + 1)]
  /\ at' = [at EXCEPT !.col = term.col]
  /\ pc' = IF char = NL THEN "select_low" ELSE "write"
  /\ Frame

Clear ==
  /\ pc = "clear"
  /\ term' = [term EXCEPT !.screen = ClearRow(@, at.row)]
  /\ at' = [at EXCEPT !.col = term.col]
  /\ pc' = IF char = NL THEN "select_low" ELSE "write"
  /\ Frame

Write ==
  /\ pc = "write"
  /\ SetCell(char)
  /\ pc' = "advance"
  /\ Frame

Advance ==
  /\ pc = "advance"
  /\ SetCol(at.col + 1)
  /\ pc' = "select_low"
  /\ Frame

(* term_update_cursor: each byte goes to the register selected before it.  *)
UpdateCursor ==
  /\ \/ pc = "select_low" /\ pc' = "put_low" /\ crtc' = [crtc EXCEPT !.index = "low"]
     \/ pc = "put_low" /\ pc' = "select_high" /\ crtc' = [crtc EXCEPT ![crtc.index] = Cell(at) % Byte]
     \/ pc = "select_high" /\ pc' = "put_high" /\ crtc' = [crtc EXCEPT !.index = "high"]
     \/ pc = "put_high" /\ pc' = "next" /\ crtc' = [crtc EXCEPT ![crtc.index] = Cell(at) \div Byte]
  /\ UNCHANGED <<term, char, at, write, ghosts>>

(* The interrupt handler prints its message and returns.                   *)
HandlerPrints ==
  /\ term' = FoldLeft(PutChar, term, Unexpected)
  /\ crtc' = CursorAt(term')
  /\ IF pc \in {"idle", "next"}
       THEN /\ paper' = IF torn = "no" THEN FoldLeft(Type, paper, Unexpected) ELSE NoPaper
            /\ torn' = IF torn = "now" THEN "past" ELSE torn
       ELSE /\ paper' = NoPaper
            /\ torn' = "now"
  /\ UNCHANGED <<pc, char, at, write>>

-----------------------------------------------------------------------------
Put ==
  \/ \E c \in Typed : Enter(c)
  \/ Return \/ Erase \/ BlankCell \/ Place \/ Down
  \/ Shift \/ Reload \/ Up \/ Clear
  \/ Write \/ Advance \/ UpdateCursor

Next ==
  \/ \E w \in WriteCall : CallWrite(w)
  \/ WriteReturns
  \/ Put
  \/ HandlerPrints

(* The thread runs on between interrupts, which owe nothing.               *)
Spec == Init /\ [][Next]_vars /\ WF_vars(Put \/ WriteReturns)

-----------------------------------------------------------------------------
Position == [col : 0..Width, row : 0..Height]

TypeOK ==
  /\ term \in [screen : [Cells -> Shown], col : 0..Width, row : 0..Height]
  /\ crtc \in [index : {"low", "high"}, low : 0..(Byte - 1), high : 0..(Byte - 1)]
  /\ pc \in {"idle", "next", "return", "erase", "blank", "place", "down", "shift",
             "reload", "up", "clear", "write", "advance",
             "select_low", "put_low", "select_high", "put_high"}
  /\ char \in Typed
  /\ at \in Position
  /\ want \in 0..(CountLimit - 1) /\ written \in 0..want
  /\ result \in -1..(CountLimit - 1)
  /\ torn \in {"no", "now", "past"}

(* Wherever the handler strikes, every character goes to a cell of the     *)
(* screen: that of the interrupted term_putchar, and that of the next one  *)
(* to begin, which scrolls only if the row is exactly Height when it looks *)
(* (kprint.c:93, 112-129).                                                 *)
InsideScreen ==
  /\ pc \in {"blank", "write"} => at.row < Height /\ at.col < Width
  /\ pc = "clear" => at.row < Height
  /\ term.row < Height \/ (term.row = Height /\ term.col < Width)

(* As long as no interrupt prints in the middle of a character, the screen *)
(* shows the end of what was printed, by whomever, line by line, and the   *)
(* next character goes where a typewriter would put it (kprint.c:83-136).  *)
ShowsPaper ==
  (pc \in {"idle", "next"} /\ torn = "no") =>
    /\ term.row = Len(paper.lines) - 1
    /\ term.col = paper.col
    /\ \A i \in Cells :
         LET r == i \div Width IN
         term.screen[i] =
           IF r < Len(paper.lines) THEN paper.lines[r + 1][i % Width] ELSE Blank

(* The cursor blinks where the next character goes, even after characters  *)
(* that an interrupt has torn: the next whole one sets it right, its two   *)
(* bytes in their registers (kprint.c:58-65).                              *)
CursorShown ==
  (pc \in {"idle", "next"} /\ torn # "now") =>
    crtc.low + crtc.high * Byte = Cell(term)

(* Every write returns, though interrupts may print all along.             *)
WritesReturn == (pc # "idle") ~> (pc = "idle")

=============================================================================
