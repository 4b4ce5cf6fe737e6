------------------------------- MODULE KeyPress -------------------------------
(***************************************************************************)
(* What a key types: handle_press (key.c) with its shift and lock flags,   *)
(* fed by the keyboard of the machine that run.sh starts, QEMU's.          *)
(*                                                                         *)
(* The codes reach handle_press one at a time and in order (Keyboard), so  *)
(* the codes of one key event are handled together here.                   *)
(***************************************************************************)
EXTENDS Integers, Sequences, SequencesExt, FiniteSets

(* A key is <<extended, code>>: the scan code it makes when pressed, and    *)
(* whether 0xE0 comes before it.                                           *)
CONSTANT Key      \* the keys someone presses

(* No key has the code of a shift or of caps lock behind 0xE0: the keyboard *)
(* keeps E0 2A for Print Screen.                                           *)
ASSUME KeyAssumption ==
  Key \subseteq (BOOLEAN \X (1..88)) \ {<<TRUE, 42>>, <<TRUE, 54>>, <<TRUE, 58>>}

VARIABLES
  flags,    \* the modifier variables that are 1 (key.c:9-18)
  typed,    \* what the last key event gave to add_to_buffer
  held,     \* the keys that are down
  caps,     \* caps lock as its user knows it: pressed an odd number of times
  odd       \* what the codes say that no key does: "print" if an E0 2A of
            \* Print Screen waits for its E0 AA, "caps" if caps lock has repeated
            \* an odd number of times

vars == <<flags, typed, held, caps, odd>>

-----------------------------------------------------------------------------
(* The tables, indexed by scan code.                                       *)
keys == <<
  27, 49, 50, 51, 52, 53, 54, 55, 56, 57, 48, 45, 61, 8, 9,
  113, 119, 101, 114, 116, 121, 117, 105, 111, 112, 91, 93, 10, 128,
  97, 115, 100, 102, 103, 104, 106, 107, 108, 59, 39, 96, 129, 92,
  122, 120, 99, 118, 98, 110, 109, 44, 46, 47, 130, 42, 131, 32, 132,
  133, 134, 135, 136, 137, 138, 139, 140, 141, 142, 143, 144,
  55, 56, 57, 45, 52, 53, 54, 43, 49, 50, 51, 48, 46, 147, 147, 147, 145, 146>>

alternate_keys == <<
  27, 33, 64, 35, 36, 37, 94, 38, 42, 40, 41, 95, 43, 8, 9,
  113, 119, 101, 114, 116, 121, 117, 105, 111, 112, 123, 125, 10, 128,
  97, 115, 100, 102, 103, 104, 106, 107, 108, 58, 34, 126, 129, 124,
  122, 120, 99, 118, 98, 110, 109, 60, 62, 63, 130, 42, 131, 32, 132,
  133, 134, 135, 136, 137, 138, 139, 140, 141, 142, 143, 144,
  55, 56, 57, 45, 52, 53, 54, 43, 49, 50, 51, 48, 46, 147, 147, 147, 145, 146>>

(* ctype.c.  What it calls isupper tests for a lower-case letter.          *)
isupper(c) == c \in 97..122
isalpha(c) == c \in 65..90 \/ c \in 97..122
toupper(c) == IF isupper(c) THEN c - 32 ELSE c

Toggle(set, x) == IF x \in set THEN set \ {x} ELSE set \union {x}

(* The switch over the modifier keys; the function keys do nothing.        *)
Modify(set, key) ==
  CASE key = 128 -> set \union {"left_control"}
    [] key = 129 -> set \union {"left_shift"}
    [] key = 130 -> set \union {"right_shift"}
    [] key = 131 -> set \union {"left_alt"}
    [] key = 132 -> Toggle(set, "caps_lock")
    [] key = 143 -> Toggle(set, "num_lock")
    [] key = 144 -> Toggle(set, "scroll_lock")
    [] OTHER -> set

(* The character of a key that is no modifier.                             *)
Typing(set, code) ==
  LET key == keys[code]
      shift == set \intersect {"left_shift", "right_shift"} # {}
  IN  IF shift = ("caps_lock" \in set) THEN key
      ELSE IF isalpha(key) THEN toupper(key)
      ELSE IF shift THEN alternate_keys[code] ELSE key

(* Definitions whose names end in Mistake are what the code would be with  *)
(* a likely mistake in it: the runs check that each one breaks a property. *)
FunctionKeyMistake(s, code) ==
  IF code = 170 THEN [s EXCEPT !.flags = @ \ {"left_shift"}]
  ELSE IF code = 182 THEN [s EXCEPT !.flags = @ \ {"right_shift"}]
  ELSE IF code > 88 \/ keys[code] = 147 THEN s
  ELSE IF keys[code] \in 128..145 THEN [s EXCEPT !.flags = Modify(@, keys[code])]
  ELSE [s EXCEPT !.typed = Append(@, Typing(s.flags, code))]

ReleaseMistake(s, code) ==
  IF code = 170 THEN [s EXCEPT !.flags = @ \ {"left_shift"}]
  ELSE IF code > 88 \/ keys[code] = 147 THEN s
  ELSE IF keys[code] \in 128..146 THEN [s EXCEPT !.flags = Modify(@, keys[code])]
  ELSE [s EXCEPT !.typed = Append(@, Typing(s.flags, code))]

HighBitMistake(s, code) ==
  LET low == code % 128 IN
  IF code = 170 THEN [s EXCEPT !.flags = @ \ {"left_shift"}]
  ELSE IF code = 182 THEN [s EXCEPT !.flags = @ \ {"right_shift"}]
  ELSE IF low > 88 \/ keys[low] = 147 THEN s
  ELSE IF keys[low] \in 128..146 THEN [s EXCEPT !.flags = Modify(@, keys[low])]
  ELSE [s EXCEPT !.typed = Append(@, Typing(s.flags, low))]

(* One scan code.  A code without a key (147) only prints, which is in      *)
(* Terminal.  Code 0, which would read keys[-1], is none of the keyboard's. *)
handle_press(s, code) ==
  IF code = 170 THEN [s EXCEPT !.flags = @ \ {"left_shift"}]
  ELSE IF code = 182 THEN [s EXCEPT !.flags = @ \ {"right_shift"}]
  ELSE IF code > 88 \/ keys[code] = 147 THEN s
  ELSE IF keys[code] \in 128..146 THEN [s EXCEPT !.flags = Modify(@, keys[code])]
  ELSE [s EXCEPT !.typed = Append(@, Typing(s.flags, code))]

-----------------------------------------------------------------------------
(* The keyboard.                                                           *)
LeftShift == <<FALSE, 42>>      RightShift == <<FALSE, 54>>
LeftCtrl == <<FALSE, 29>>       RightCtrl == <<TRUE, 29>>
LeftAlt == <<FALSE, 56>>        RightAlt == <<TRUE, 56>>
CapsLock == <<FALSE, 58>>       PrintScreen == <<TRUE, 55>>

Shifts == {LeftShift, RightShift}

Make(k) == IF k[1] THEN <<224, k[2]>> ELSE <<k[2]>>
Break(k) == IF k[1] THEN <<224, k[2] + 128>> ELSE <<k[2] + 128>>

(* Print Screen comes with shift codes of its own unless shift or control  *)
(* is down, and is another key with alt.                                   *)
Wraps(down) == down \intersect (Shifts \union {LeftCtrl, RightCtrl, LeftAlt, RightAlt}) = {}

Pressed(k, down) ==
  IF k # PrintScreen THEN Make(k)
  ELSE CASE LeftAlt \in down -> Break(LeftAlt) \o Make(LeftAlt) \o <<84>>
         [] RightAlt \in down /\ LeftAlt \notin down ->
              Break(RightAlt) \o Make(RightAlt) \o <<84>>
         [] Wraps(down) -> <<224, 42>> \o Make(k)
         [] OTHER -> Make(k)

Released(k, down) ==
  IF k # PrintScreen THEN Break(k)
  ELSE CASE LeftAlt \in down -> <<84 + 128>> \o Break(LeftAlt) \o Make(LeftAlt)
         [] RightAlt \in down /\ LeftAlt \notin down ->
              <<84 + 128>> \o Break(RightAlt) \o Make(RightAlt)
         [] Wraps(down) -> Break(k) \o <<224, 170>>
         [] OTHER -> Break(k)

Init == flags = {} /\ typed = <<>> /\ held = {} /\ caps = FALSE /\ odd = {}

Handle(codes) ==
  LET s == FoldLeft(handle_press, [flags |-> flags, typed |-> <<>>], codes) IN
  /\ flags' = s.flags
  /\ typed' = s.typed

Faked(k, down) == IF k = PrintScreen /\ Wraps(down) THEN {"print"} ELSE {}

Press(k) ==
  /\ k \in Key \ held
  /\ held' = held \union {k}
  /\ Handle(Pressed(k, held'))
  /\ caps' = (caps # (k = CapsLock))
  /\ odd' = odd \union Faked(k, held')

(* A key held down repeats its make code.                                  *)
Repeat(k) ==
  /\ k \in held
  /\ Handle(Pressed(k, held))
  /\ odd' = (IF k = CapsLock THEN Toggle(odd, "caps") ELSE odd) \union Faked(k, held)
  /\ UNCHANGED <<held, caps>>

Release(k) ==
  /\ k \in held
  /\ held' = held \ {k}
  /\ Handle(Released(k, held'))
  /\ odd' = IF k = LeftShift \/ Faked(k, held') # {} THEN odd \ {"print"} ELSE odd
  /\ UNCHANGED caps

Next == \E k \in Key : Press(k) \/ Repeat(k) \/ Release(k)

Spec == Init /\ [][Next]_vars

-----------------------------------------------------------------------------
(* The characters on the keys of a keyboard, plain and with shift.         *)
Engraved ==
  {<<c, c - 32>> : c \in 97..122}
    \union {<<49, 33>>, <<50, 64>>, <<51, 35>>, <<52, 36>>, <<53, 37>>, <<54, 94>>,
            <<55, 38>>, <<56, 42>>, <<57, 40>>, <<48, 41>>, <<45, 95>>, <<61, 43>>,
            <<91, 123>>, <<93, 125>>, <<59, 58>>, <<39, 34>>, <<96, 126>>, <<92, 124>>,
            <<44, 60>>, <<46, 62>>, <<47, 63>>}

(* The keys whose character shift leaves alone: escape, backspace, tab,    *)
(* enter, space and the keypad's.                                          *)
Unshifted == {1, 14, 15, 28, 55, 57} \union 71..83

(* The codes of the keys that type.                                        *)
Writing == 1..83 \ {29, 42, 54, 56, 58, 59, 60, 61, 62, 63, 64, 65, 66, 67, 68, 69, 70}

TypeOK ==
  /\ flags \subseteq {"left_shift", "right_shift", "num_lock", "scroll_lock",
                      "caps_lock", "left_alt", "left_control"}
  /\ typed \in SeqOf(8..126, 1)
  /\ held \subseteq Key
  /\ caps \in BOOLEAN
  /\ odd \subseteq {"print", "caps"}

(* Whatever was pressed, repeated and released before, a key would type    *)
(* what is engraved on it, on the side that the keys held down and the     *)
(* state of caps lock select (key.c:131-162 with the tables of 34-56).     *)
(* Excepted: after codes that no key stands for (see `odd'), and the       *)
(* symbols with both caps lock and shift, which key.c:145 types unshifted. *)
TypesAsHeld ==
  odd = {} =>
    LET shift == held \intersect Shifts # {} IN
    \A code \in Writing \ Unshifted :
      LET plain == Typing({}, code)
          now == Typing(flags, code)
      IN  IF isupper(plain)
            THEN now = IF shift # caps THEN plain - 32 ELSE plain
            ELSE ~(shift /\ caps) =>
                   IF shift THEN <<plain, now>> \in Engraved ELSE now = plain

(* A key types once when it goes down and once each time it repeats, never *)
(* when it is released and never when it is a modifier or a function key:  *)
(* Keyboard takes a scan code for one character or none (key.c:98-130).    *)
OneCharacterPerPress ==
  [][ \A k \in Key :
        LET types == k[2] \in Writing /\ k \notin {RightCtrl, RightAlt}
                       /\ ~(k = PrintScreen /\ held' \intersect {LeftAlt, RightAlt} # {})
        IN  /\ Press(k) \/ Repeat(k) => Len(typed') = (IF types THEN 1 ELSE 0)
            /\ Release(k) => typed' = <<>> ]_vars

=============================================================================
