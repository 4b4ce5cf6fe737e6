---------------------------- MODULE KeyPressProofs ----------------------------
(***************************************************************************)
(* Proofs, for every set of keys and every order of pressing, repeating and *)
(* releasing them, of what KeyPress promises.                              *)
(***************************************************************************)
EXTENDS KeyPress, TLAPS

PressFold == INSTANCE Induction WITH Op <- handle_press

(* The flags follow the keys, but for the codes that no key stands for.     *)
FlagsFollowKeys ==
  /\ "print" \notin odd => ("left_shift" \in flags <=> LeftShift \in held)
  /\ "right_shift" \in flags <=> RightShift \in held
  /\ "caps_lock" \in flags <=> (caps <=> "caps" \notin odd)

Inv == TypeOK /\ FlagsFollowKeys

-----------------------------------------------------------------------------
(* The codes of one key event, taken one at a time: Run(s, codes) is the    *)
(* fold in Handle.                                                         *)
Run(s, codes) == FoldLeft(handle_press, s, codes)

LEMMA RunIs ==
  ASSUME NEW s, NEW codes
  PROVE  Run(s, codes) = PressFold!Fold(s, codes)
  BY DEF Run, PressFold!Fold, FoldLeft, PressFold!FoldLeft, MapThenFoldSet,
         PressFold!MapThenFoldSet, Max, PressFold!Max

LEMMA RunOne ==
  ASSUME NEW s, NEW a \in Int
  PROVE  Run(s, <<a>>) = handle_press(s, a)
  <1> DEFINE codes == <<a>>
  <1>0. codes \in Seq(Int)
    OBVIOUS
  <1>1. Len(codes) = 1 /\ codes[1] = a
    OBVIOUS
  <1> HIDE DEF codes
  <1>2. PICK f : /\ f[0] = s
                 /\ \A i \in 1..Len(codes) : f[i] = handle_press(f[i - 1], codes[i])
                 /\ PressFold!Fold(s, codes) = f[Len(codes)]
    BY <1>0, PressFold!FoldSteps
  <1>3. f[1] = handle_press(f[0], a)
    BY <1>1, <1>2
  <1> QED BY <1>1, <1>2, <1>3, RunIs DEF codes

LEMMA RunConcat ==
  ASSUME NEW s, NEW a \in Seq(Int), NEW b \in Seq(Int)
  PROVE  Run(s, a \o b) = Run(Run(s, a), b)
  BY RunIs, PressFold!FoldConcat

(* A code behind 0xE0, which handle_press passes over.                     *)
LEMMA RunExtended ==
  ASSUME NEW s, NEW a \in Int
  PROVE  Run(s, <<224, a>>) = handle_press(s, a)
  <1> DEFINE codes == <<224, a>>
  <1>0. codes \in Seq(Int)
    OBVIOUS
  <1>1. Len(codes) = 2 /\ codes[1] = 224 /\ codes[2] = a
    OBVIOUS
  <1> HIDE DEF codes
  <1>2. PICK f : /\ f[0] = s
                 /\ \A i \in 1..Len(codes) : f[i] = handle_press(f[i - 1], codes[i])
                 /\ PressFold!Fold(s, codes) = f[Len(codes)]
    BY <1>0, PressFold!FoldSteps
  <1>3. f[1] = handle_press(f[0], 224)
    BY <1>1, <1>2
  <1>4. f[2] = handle_press(f[1], a)
    BY <1>1, <1>2
  <1>5. handle_press(s, 224) = s
    BY DEF handle_press
  <1> QED BY <1>1, <1>2, <1>3, <1>4, <1>5, RunIs DEF codes

-----------------------------------------------------------------------------
(* What one code does, and one key event.                                  *)
LEMMA Tables ==
  ASSUME NEW code \in 1..88
  PROVE  /\ code \in Writing => keys[code] \in 8..126 /\ alternate_keys[code] \in 8..126
         /\ code \notin Writing => keys[code] \in 128..147
         /\ keys[code] = 129 <=> code = 42
         /\ keys[code] = 130 <=> code = 54
         /\ keys[code] = 132 <=> code = 58
  BY DEF Writing, keys, alternate_keys

LEMMA Engravings ==
  ASSUME NEW code \in Writing \ Unshifted
  PROVE  \/ isupper(keys[code])
         \/ ~isalpha(keys[code]) /\ <<keys[code], alternate_keys[code]>> \in Engraved
  BY DEF Writing, keys, alternate_keys, Unshifted, isupper, isalpha, Engraved

Flags == {"left_shift", "right_shift", "num_lock", "scroll_lock", "caps_lock", "left_alt",
          "left_control"}

(* What handle_press is given and returns: the flags and what was typed.   *)
Nothing(set) == [flags |-> set, typed |-> <<>>]

LEMMA TypingIs ==
  ASSUME NEW set, NEW code \in Writing
  PROVE  Typing(set, code) \in 8..126
  <1>1. code \in 1..88
    BY DEF Writing
  <1>2. keys[code] \in 8..126 /\ alternate_keys[code] \in 8..126
    BY <1>1, Tables
  <1> QED BY <1>2 DEF Typing, toupper, isupper

LEMMA Given ==
  ASSUME NEW set, NEW new
  PROVE  /\ Nothing(set).flags = set /\ Nothing(set).typed = <<>>
         /\ [Nothing(set) EXCEPT !.flags = new] = Nothing(new)
  BY DEF Nothing

LEMMA OtherCode ==
  ASSUME NEW s, NEW code \in Int, code > 88, code # 170, code # 182
  PROVE  handle_press(s, code) = s
  BY DEF handle_press

LEMMA ShiftBreak ==
  ASSUME NEW set
  PROVE  /\ handle_press(Nothing(set), 170) = Nothing(set \ {"left_shift"})
         /\ handle_press(Nothing(set), 182) = Nothing(set \ {"right_shift"})
  <1>1. /\ handle_press(Nothing(set), 170)
             = [Nothing(set) EXCEPT !.flags = Nothing(set).flags \ {"left_shift"}]
        /\ handle_press(Nothing(set), 182)
             = [Nothing(set) EXCEPT !.flags = Nothing(set).flags \ {"right_shift"}]
    BY DEF handle_press
  <1> DEFINE left == set \ {"left_shift"}
             right == set \ {"right_shift"}
  <1>2. /\ handle_press(Nothing(set), 170) = [Nothing(set) EXCEPT !.flags = left]
        /\ handle_press(Nothing(set), 182) = [Nothing(set) EXCEPT !.flags = right]
    BY <1>1, Given
  <1> HIDE DEF left, right
  <1>3. /\ handle_press(Nothing(set), 170) = Nothing(left)
        /\ handle_press(Nothing(set), 182) = Nothing(right)
    BY <1>2, Given
  <1> QED BY <1>3 DEF left, right

LEMMA ModifierCode ==
  ASSUME NEW set, NEW code \in 1..88, keys[code] \in 128..146
  PROVE  handle_press(Nothing(set), code) = Nothing(Modify(set, keys[code]))
  <1>1. code # 170 /\ code # 182 /\ ~(code > 88) /\ keys[code] # 147
    OBVIOUS
  <1>2. handle_press(Nothing(set), code)
          = [Nothing(set) EXCEPT !.flags = Modify(Nothing(set).flags, keys[code])]
    BY <1>1 DEF handle_press
  <1> QED BY <1>2, Given

LEMMA WritingCode ==
  ASSUME NEW set, NEW code \in Writing
  PROVE  handle_press(Nothing(set), code) = [flags |-> set, typed |-> <<Typing(set, code)>>]
  <1>1. code \in 1..88 /\ code # 170 /\ code # 182 /\ ~(code > 88)
    BY DEF Writing
  <1>2. keys[code] \in 8..126
    BY <1>1, Tables
  <1>3. handle_press(Nothing(set), code)
          = [Nothing(set) EXCEPT !.typed = Append(Nothing(set).typed,
                                                  Typing(Nothing(set).flags, code))]
    <2>1. code # 170 /\ code # 182 /\ ~(code > 88) /\ keys[code] # 147
          /\ keys[code] \notin 128..146
      BY <1>1, <1>2
    <2> QED BY <2>1 DEF handle_press
  <1>4. Append(<<>>, Typing(set, code)) = <<Typing(set, code)>>
    OBVIOUS
  <1>5. [Nothing(set) EXCEPT !.typed = <<Typing(set, code)>>]
          = [flags |-> set, typed |-> <<Typing(set, code)>>]
    BY DEF Nothing
  <1> QED BY <1>3, <1>4, <1>5, Given

LEMMA KeyCode ==
  ASSUME NEW set, NEW code \in 1..88, code \notin Writing
  PROVE  handle_press(Nothing(set), code) = Nothing(Modify(set, keys[code]))
  <1>1. keys[code] \in 128..147
    BY Tables
  <1>2. CASE keys[code] = 147
    <2>1. handle_press(Nothing(set), code) = Nothing(set)
      BY <1>2 DEF handle_press
    <2>2. Modify(set, 147) = set
      BY DEF Modify
    <2> QED BY <1>2, <2>1, <2>2
  <1>3. CASE keys[code] # 147
    BY <1>1, <1>3, ModifierCode
  <1> QED BY <1>2, <1>3

(* The switch over the modifiers.                                          *)
LEMMA ModifyIs ==
  ASSUME NEW set \in SUBSET Flags, NEW code \in 1..88
  PROVE  LET new == Modify(set, keys[code]) IN
         /\ new \in SUBSET Flags
         /\ "left_shift" \in new <=> (code = 42 \/ "left_shift" \in set)
         /\ "right_shift" \in new <=> (code = 54 \/ "right_shift" \in set)
         /\ "caps_lock" \in new <=> (code = 58 <=> "caps_lock" \notin set)
  <1> DEFINE key == keys[code]
             new == Modify(set, key)
  <1>1. (key = 129 <=> code = 42) /\ (key = 130 <=> code = 54) /\ (key = 132 <=> code = 58)
    BY Tables
  <1> HIDE DEF key
  <1>2. new \in SUBSET Flags
    BY DEF Modify, Toggle, Flags
  <1>3. "left_shift" \in new <=> (key = 129 \/ "left_shift" \in set)
    BY DEF Modify, Toggle
  <1>4. "right_shift" \in new <=> (key = 130 \/ "right_shift" \in set)
    BY DEF Modify, Toggle
  <1>5. "caps_lock" \in new <=> (key = 132 <=> "caps_lock" \notin set)
    BY DEF Modify, Toggle
  <1> HIDE DEF new
  <1>6. /\ "left_shift" \in new <=> (code = 42 \/ "left_shift" \in set)
        /\ "right_shift" \in new <=> (code = 54 \/ "right_shift" \in set)
        /\ "caps_lock" \in new <=> (code = 58 <=> "caps_lock" \notin set)
    BY <1>1, <1>3, <1>4, <1>5
  <1> QED BY <1>2, <1>6 DEF new, key

LEMMA AltIs ==
  ASSUME NEW set
  PROVE  /\ handle_press(Nothing(set), 56) = Nothing(set \union {"left_alt"})
         /\ handle_press(Nothing(set), 84) = Nothing(set)
         /\ handle_press(Nothing(set), 42) = Nothing(set \union {"left_shift"})
  <1>0. 56 \notin Writing /\ 84 \notin Writing /\ 42 \notin Writing
    BY DEF Writing
  <1>1. keys[56] = 131 /\ keys[84] = 147 /\ keys[42] = 129
    BY DEF keys
  <1>2. /\ Modify(set, 131) = set \union {"left_alt"} /\ Modify(set, 147) = set
        /\ Modify(set, 129) = set \union {"left_shift"}
    BY DEF Modify
  <1>3. handle_press(Nothing(set), 56) = Nothing(Modify(set, keys[56]))
    BY <1>0, KeyCode
  <1>4. handle_press(Nothing(set), 84) = Nothing(Modify(set, keys[84]))
    BY <1>0, KeyCode
  <1>5. handle_press(Nothing(set), 42) = Nothing(Modify(set, keys[42]))
    BY <1>0, KeyCode
  <1> QED BY <1>1, <1>2, <1>3, <1>4, <1>5

LEMMA MakeIs ==
  ASSUME NEW set, NEW k \in BOOLEAN \X (1..88)
  PROVE  /\ Run(Nothing(set), Make(k)) = handle_press(Nothing(set), k[2])
         /\ Run(Nothing(set), Break(k)) = handle_press(Nothing(set), k[2] + 128)
  <1> DEFINE c == k[2]
  <1>2. c \in Int /\ c + 128 \in Int
    OBVIOUS
  <1>3. CASE k[1]
    <2>1. Make(k) = <<224, c>> /\ Break(k) = <<224, c + 128>>
      BY <1>3 DEF Make, Break
    <2> HIDE DEF c
    <2>2. /\ Run(Nothing(set), <<224, c>>) = handle_press(Nothing(set), c)
          /\ Run(Nothing(set), <<224, c + 128>>) = handle_press(Nothing(set), c + 128)
      BY <1>2, RunExtended
    <2> QED BY <2>1, <2>2 DEF c
  <1>4. CASE ~k[1]
    <2>1. Make(k) = <<c>> /\ Break(k) = <<c + 128>>
      BY <1>4 DEF Make, Break
    <2> HIDE DEF c
    <2>2. /\ Run(Nothing(set), <<c>>) = handle_press(Nothing(set), c)
          /\ Run(Nothing(set), <<c + 128>>) = handle_press(Nothing(set), c + 128)
      BY <1>2, RunOne
    <2> QED BY <2>1, <2>2 DEF c
  <1> QED BY <1>3, <1>4

LEMMA CodesAre ==
  ASSUME NEW k \in BOOLEAN \X (1..88)
  PROVE  Make(k) \in Seq(Int) /\ Break(k) \in Seq(Int)
  <1>1. k[2] \in Int /\ k[2] + 128 \in Int
    OBVIOUS
  <1> QED BY <1>1 DEF Make, Break

LEMMA KeyIsPair ==
  /\ LeftAlt \in BOOLEAN \X (1..88) /\ LeftAlt[2] = 56
  /\ RightAlt \in BOOLEAN \X (1..88) /\ RightAlt[2] = 56
  /\ PrintScreen \in BOOLEAN \X (1..88) /\ PrintScreen[2] = 55
  <1>1. PICK yes \in BOOLEAN : yes = TRUE
    OBVIOUS
  <1>2. PICK no \in BOOLEAN : no = FALSE
    OBVIOUS
  <1>3. LeftAlt = <<no, 56>> /\ RightAlt = <<yes, 56>> /\ PrintScreen = <<yes, 55>>
    BY <1>1, <1>2 DEF LeftAlt, RightAlt, PrintScreen
  <1> QED BY <1>3

(* Print Screen with an alt key down.                                      *)
WithAlt(down) == down \intersect {LeftAlt, RightAlt} # {}

LEMMA AltCodes ==
  ASSUME NEW set, NEW alt \in {LeftAlt, RightAlt}
  PROVE  /\ Run(Nothing(set), Break(alt) \o Make(alt) \o <<84>>)
               = Nothing(set \union {"left_alt"})
         /\ Run(Nothing(set), <<84 + 128>> \o Break(alt) \o Make(alt))
               = Nothing(set \union {"left_alt"})
  <1> DEFINE with == set \union {"left_alt"}
             down == <<84>>
             up == <<84 + 128>>
             s == Nothing(set)
             t == Nothing(with)
  <1>1. alt \in BOOLEAN \X (1..88) /\ alt[2] = 56
    BY KeyIsPair
  <1>2. Make(alt) \in Seq(Int) /\ Break(alt) \in Seq(Int)
    BY <1>1, CodesAre
  <1>3. down \in Seq(Int) /\ up \in Seq(Int)
    OBVIOUS
  <1>4. Run(s, Break(alt)) = s
    <2>1. Run(s, Break(alt)) = handle_press(s, 56 + 128)
      BY <1>1, MakeIs
    <2> QED BY <2>1, OtherCode
  <1>5. Run(s, Make(alt)) = t
    <2>1. Run(s, Make(alt)) = handle_press(s, 56)
      BY <1>1, MakeIs
    <2> QED BY <2>1, AltIs
  <1>6. Run(t, down) = t
    <2>1. Run(t, down) = handle_press(t, 84)
      BY RunOne
    <2> HIDE DEF with
    <2>2. handle_press(t, 84) = t
      BY AltIs
    <2> QED BY <2>1, <2>2
  <1>7. Run(s, up) = s
    <2>1. Run(s, up) = handle_press(s, 84 + 128)
      BY RunOne
    <2> QED BY <2>1, OtherCode
  <1> HIDE DEF down, up, s, t
  <1>8. Run(s, Break(alt) \o Make(alt) \o down) = t
    <2>1. Break(alt) \o Make(alt) \in Seq(Int)
      BY <1>2
    <2>2. Run(s, Break(alt) \o Make(alt) \o down) = Run(Run(s, Break(alt) \o Make(alt)), down)
      BY <1>3, <2>1, RunConcat
    <2>3. Run(s, Break(alt) \o Make(alt)) = Run(Run(s, Break(alt)), Make(alt))
      BY <1>2, RunConcat
    <2> QED BY <1>4, <1>5, <1>6, <2>2, <2>3
  <1>9. Run(s, up \o Break(alt) \o Make(alt)) = t
    <2>1. up \o Break(alt) \in Seq(Int)
      BY <1>2, <1>3
    <2>2. Run(s, up \o Break(alt) \o Make(alt)) = Run(Run(s, up \o Break(alt)), Make(alt))
      BY <1>2, <2>1, RunConcat
    <2>3. Run(s, up \o Break(alt)) = Run(Run(s, up), Break(alt))
      BY <1>2, <1>3, RunConcat
    <2> QED BY <1>4, <1>5, <1>7, <2>2, <2>3
  <1> QED BY <1>8, <1>9 DEF down, up, s, t

(* The codes of a key that goes down come to its code alone, except that   *)
(* those of Print Screen pretend a shift or do nothing but set alt.        *)
LEMMA PressedDoes ==
  ASSUME NEW set, NEW k \in BOOLEAN \X (1..88), k # PrintScreen, NEW down
  PROVE  Run(Nothing(set), Pressed(k, down)) = handle_press(Nothing(set), k[2])
  BY MakeIs DEF Pressed

LEMMA PrintPressedDoes ==
  ASSUME NEW set, NEW down
  PROVE  Run(Nothing(set), Pressed(PrintScreen, down)) =
           IF WithAlt(down) THEN Nothing(set \union {"left_alt"})
           ELSE handle_press(Nothing(IF Wraps(down) THEN set \union {"left_shift"} ELSE set), 55)
  <1> DEFINE with == set \union {"left_shift"}
  <1>1. PrintScreen \in BOOLEAN \X (1..88) /\ PrintScreen[2] = 55
    BY KeyIsPair
  <1>2. CASE WithAlt(down)
    <2>1. PICK alt \in {LeftAlt, RightAlt} :
            Pressed(PrintScreen, down) = Break(alt) \o Make(alt) \o <<84>>
      BY <1>2 DEF Pressed, WithAlt, Wraps
    <2> QED BY <1>2, <2>1, AltCodes
  <1>3. CASE ~WithAlt(down) /\ Wraps(down)
    <2>1. Pressed(PrintScreen, down) = <<224, 42>> \o Make(PrintScreen)
      BY <1>3 DEF Pressed, WithAlt
    <2>2. Run(Nothing(set), <<224, 42>> \o Make(PrintScreen))
            = Run(Run(Nothing(set), <<224, 42>>), Make(PrintScreen))
      <3> DEFINE fake == <<224, 42>>
      <3>1. fake \in Seq(Int)
        OBVIOUS
      <3> HIDE DEF fake
      <3>2. Run(Nothing(set), fake \o Make(PrintScreen))
              = Run(Run(Nothing(set), fake), Make(PrintScreen))
        BY <1>1, <3>1, CodesAre, RunConcat
      <3> QED BY <3>2 DEF fake
    <2>3. Run(Nothing(set), <<224, 42>>) = Nothing(with)
      <3>1. Run(Nothing(set), <<224, 42>>) = handle_press(Nothing(set), 42)
        BY RunExtended
      <3> QED BY <3>1, AltIs
    <2> HIDE DEF with
    <2>4. Run(Nothing(with), Make(PrintScreen)) = handle_press(Nothing(with), 55)
      BY <1>1, MakeIs
    <2>5. Run(Nothing(set), Pressed(PrintScreen, down)) = handle_press(Nothing(with), 55)
      BY <2>1, <2>2, <2>3, <2>4
    <2> QED BY <1>3, <2>5 DEF with
  <1>4. CASE ~WithAlt(down) /\ ~Wraps(down)
    <2>1. Pressed(PrintScreen, down) = Make(PrintScreen)
      BY <1>4 DEF Pressed, WithAlt
    <2>2. Run(Nothing(set), Pressed(PrintScreen, down)) = handle_press(Nothing(set), 55)
      BY <1>1, <2>1, MakeIs
    <2> QED BY <1>4, <2>2
  <1> QED BY <1>2, <1>3, <1>4

LEMMA ShiftCode ==
  ASSUME NEW k \in (BOOLEAN \X (1..88)) \ {<<TRUE, 42>>, <<TRUE, 54>>, <<TRUE, 58>>}
  PROVE  /\ k[2] = 42 <=> k = LeftShift
         /\ k[2] = 54 <=> k = RightShift
         /\ k[2] = 58 <=> k = CapsLock
  <1>1. PICK b \in BOOLEAN, c \in 1..88 : k = <<b, c>>
    OBVIOUS
  <1>2. c \in {42, 54, 58} => b = FALSE
    BY <1>1
  <1>3. k[2] = c
    BY <1>1
  <1>4. (k = LeftShift => c = 42) /\ (k = RightShift => c = 54) /\ (k = CapsLock => c = 58)
    BY <1>1 DEF LeftShift, RightShift, CapsLock
  <1> QED BY <1>1, <1>2, <1>3, <1>4 DEF LeftShift, RightShift, CapsLock

(* The codes of a key that comes up do nothing, except those of the shifts *)
(* and of Print Screen.                                                    *)
LEMMA ReleasedDoes ==
  ASSUME NEW set, NEW k \in (BOOLEAN \X (1..88)) \ {<<TRUE, 42>>, <<TRUE, 54>>, <<TRUE, 58>>},
         k # PrintScreen, NEW down
  PROVE  Run(Nothing(set), Released(k, down)) =
           Nothing(IF k = LeftShift THEN set \ {"left_shift"}
                   ELSE IF k = RightShift THEN set \ {"right_shift"} ELSE set)
  <1> DEFINE c == k[2]
  <1>1. Run(Nothing(set), Released(k, down)) = handle_press(Nothing(set), c + 128)
    BY MakeIs DEF Released
  <1>2. c \in 1..88
    OBVIOUS
  <1>3. (c = 42 <=> k = LeftShift) /\ (c = 54 <=> k = RightShift)
    BY ShiftCode
  <1> HIDE DEF c
  <1>4. c \notin {42, 54} => handle_press(Nothing(set), c + 128) = Nothing(set)
    <2>1. c + 128 \in Int /\ c + 128 > 88
          /\ (c \notin {42, 54} => c + 128 # 170 /\ c + 128 # 182)
      BY <1>2
    <2> QED BY <2>1, OtherCode
  <1>5. CASE c = 42
    <2>1. handle_press(Nothing(set), 170) = Nothing(set \ {"left_shift"})
      BY ShiftBreak
    <2> QED BY <1>1, <1>3, <1>5, <2>1
  <1>6. CASE c = 54
    <2>1. handle_press(Nothing(set), 182) = Nothing(set \ {"right_shift"})
      BY ShiftBreak
    <2> QED BY <1>1, <1>3, <1>6, <2>1
  <1>7. CASE c \notin {42, 54}
    BY <1>1, <1>3, <1>4, <1>7
  <1> QED BY <1>5, <1>6, <1>7

LEMMA PrintReleasedDoes ==
  ASSUME NEW set, NEW down
  PROVE  Run(Nothing(set), Released(PrintScreen, down)) =
           Nothing(IF WithAlt(down) THEN set \union {"left_alt"}
                   ELSE IF Wraps(down) THEN set \ {"left_shift"} ELSE set)
  <1>1. PrintScreen \in BOOLEAN \X (1..88) /\ PrintScreen[2] = 55
    BY KeyIsPair
  <1>2. Run(Nothing(set), Break(PrintScreen)) = Nothing(set)
    <2>1. Run(Nothing(set), Break(PrintScreen)) = handle_press(Nothing(set), 55 + 128)
      BY <1>1, MakeIs
    <2> QED BY <2>1, OtherCode
  <1>3. CASE WithAlt(down)
    <2>1. PICK alt \in {LeftAlt, RightAlt} :
            Released(PrintScreen, down) = <<84 + 128>> \o Break(alt) \o Make(alt)
      BY <1>3 DEF Released, WithAlt, Wraps
    <2> QED BY <1>3, <2>1, AltCodes
  <1>4. CASE ~WithAlt(down) /\ Wraps(down)
    <2>1. Released(PrintScreen, down) = Break(PrintScreen) \o <<224, 170>>
      BY <1>4 DEF Released, WithAlt
    <2>2. Run(Nothing(set), Break(PrintScreen) \o <<224, 170>>)
            = Run(Run(Nothing(set), Break(PrintScreen)), <<224, 170>>)
      <3> DEFINE fake == <<224, 170>>
      <3>1. fake \in Seq(Int)
        OBVIOUS
      <3> HIDE DEF fake
      <3>2. Run(Nothing(set), Break(PrintScreen) \o fake)
              = Run(Run(Nothing(set), Break(PrintScreen)), fake)
        BY <1>1, <3>1, CodesAre, RunConcat
      <3> QED BY <3>2 DEF fake
    <2>3. Run(Nothing(set), <<224, 170>>) = Nothing(set \ {"left_shift"})
      <3>1. Run(Nothing(set), <<224, 170>>) = handle_press(Nothing(set), 170)
        BY RunExtended
      <3> QED BY <3>1, ShiftBreak
    <2> QED BY <1>2, <1>4, <2>1, <2>2, <2>3
  <1>5. CASE ~WithAlt(down) /\ ~Wraps(down)
    <2>1. Released(PrintScreen, down) = Break(PrintScreen)
      BY <1>5 DEF Released, WithAlt
    <2> QED BY <1>2, <1>5, <2>1
  <1> QED BY <1>3, <1>4, <1>5

-----------------------------------------------------------------------------
(* What an event leaves in the variables.                                  *)
LEMMA HandleIs ==
  ASSUME NEW codes, Handle(codes)
  PROVE  flags' = Run(Nothing(flags), codes).flags /\ typed' = Run(Nothing(flags), codes).typed
  BY DEF Handle, Run, Nothing

(* s is what comes of the code of a key that goes down.                    *)
Taken(s, set, code) ==
  /\ s.flags \in SUBSET Flags
  /\ s.typed \in SeqOf(8..126, 1)
  /\ Len(s.typed) = IF code \in Writing THEN 1 ELSE 0
  /\ "left_shift" \in s.flags <=> (code = 42 \/ "left_shift" \in set)
  /\ "right_shift" \in s.flags <=> (code = 54 \/ "right_shift" \in set)
  /\ "caps_lock" \in s.flags <=> (code = 58 <=> "caps_lock" \notin set)

LEMMA CodeDoes ==
  ASSUME NEW set \in SUBSET Flags, NEW code \in 1..88
  PROVE  Taken(handle_press(Nothing(set), code), set, code)
  <1> DEFINE s == handle_press(Nothing(set), code)
  <1>1. CASE code \in Writing
    <2> DEFINE c == Typing(set, code)
    <2>1. c \in 8..126
      BY <1>1, TypingIs
    <2>2. s = [flags |-> set, typed |-> <<c>>]
      BY <1>1, WritingCode
    <2>3. code \notin {42, 54, 58}
      BY <1>1 DEF Writing
    <2> HIDE DEF c
    <2>4. <<c>> \in SeqOf(8..126, 1) /\ Len(<<c>>) = 1
      <3>1. <<c>> \in [1..1 -> 8..126]
        BY <2>1
      <3> QED BY <3>1 DEF SeqOf
    <2>5. s.flags = set /\ s.typed = <<c>>
      BY <2>2
    <2> HIDE DEF s
    <2> QED BY <1>1, <2>3, <2>4, <2>5 DEF s, Taken
  <1>2. CASE code \notin Writing
    <2> DEFINE new == Modify(set, keys[code])
    <2>1. s = Nothing(new)
      BY <1>2, KeyCode
    <2>2. s.flags = new /\ s.typed = <<>>
      BY <2>1, Given
    <2>3. <<>> \in SeqOf(8..126, 1) /\ Len(<<>>) = 0
      <3>1. <<>> \in [1..0 -> 8..126]
        OBVIOUS
      <3> QED BY <3>1 DEF SeqOf
    <2>4. /\ new \in SUBSET Flags
          /\ "left_shift" \in new <=> (code = 42 \/ "left_shift" \in set)
          /\ "right_shift" \in new <=> (code = 54 \/ "right_shift" \in set)
          /\ "caps_lock" \in new <=> (code = 58 <=> "caps_lock" \notin set)
      BY ModifyIs
    <2> HIDE DEF s, new
    <2> QED BY <1>2, <2>2, <2>3, <2>4 DEF s, Taken
  <1> QED BY <1>1, <1>2

(* The keys that type when they go down while the keys of down are.        *)
Types(k, down) == k[2] \in Writing /\ ~(k = PrintScreen /\ WithAlt(down))

LEMMA KeyGoesDown ==
  ASSUME flags \in SUBSET Flags, NEW k \in Key, NEW down, Handle(Pressed(k, down))
  PROVE  /\ flags' \in SUBSET Flags
         /\ typed' \in SeqOf(8..126, 1)
         /\ Len(typed') = IF Types(k, down) THEN 1 ELSE 0
         /\ Faked(k, down) = {} =>
              ("left_shift" \in flags' <=> (k = LeftShift \/ "left_shift" \in flags))
         /\ "right_shift" \in flags' <=> (k = RightShift \/ "right_shift" \in flags)
         /\ "caps_lock" \in flags' <=> (k = CapsLock <=> "caps_lock" \notin flags)
  <1> DEFINE run == Run(Nothing(flags), Pressed(k, down))
  <1>1. flags' = run.flags /\ typed' = run.typed
    BY HandleIs
  <1>2. k \in (BOOLEAN \X (1..88)) \ {<<TRUE, 42>>, <<TRUE, 54>>, <<TRUE, 58>>}
    BY KeyAssumption
  <1>3. /\ k[2] = 42 <=> k = LeftShift
        /\ k[2] = 54 <=> k = RightShift
        /\ k[2] = 58 <=> k = CapsLock
    BY <1>2, ShiftCode
  <1>4. k[2] \in 1..88
    BY <1>2
  <1>5. CASE k # PrintScreen
    <2>1. run = handle_press(Nothing(flags), k[2])
      BY <1>2, <1>5, PressedDoes
    <2> DEFINE c == k[2]
    <2> HIDE DEF run, c
    <2>2. c \in 1..88 /\ run = handle_press(Nothing(flags), c)
      BY <1>4, <2>1 DEF c
    <2>3. Taken(run, flags, c)
      BY <2>2, CodeDoes
    <2>4. Types(k, down) <=> c \in Writing
      BY <1>5 DEF Types, c
    <2>5. (c = 42 <=> k = LeftShift) /\ (c = 54 <=> k = RightShift) /\ (c = 58 <=> k = CapsLock)
      BY <1>3 DEF c
    <2> QED BY <1>1, <2>3, <2>4, <2>5 DEF Taken
  <1>6. CASE k = PrintScreen /\ WithAlt(down)
    <2> DEFINE with == flags \union {"left_alt"}
    <2>1. run = Nothing(with)
      BY <1>6, PrintPressedDoes
    <2>2. /\ with \in SUBSET Flags
          /\ "left_shift" \in with <=> "left_shift" \in flags
          /\ "right_shift" \in with <=> "right_shift" \in flags
          /\ "caps_lock" \in with <=> "caps_lock" \in flags
      BY DEF Flags
    <2>3. <<>> \in SeqOf(8..126, 1) /\ Len(<<>>) = 0
      <3>1. <<>> \in [1..0 -> 8..126]
        OBVIOUS
      <3> QED BY <3>1 DEF SeqOf
    <2>4. k[2] = 55
      BY <1>6, KeyIsPair
    <2>5. k # LeftShift /\ k # RightShift /\ k # CapsLock
      BY <1>3, <2>4
    <2> HIDE DEF run, with
    <2>6. flags' = with /\ typed' = <<>>
      BY <1>1, <2>1, Given
    <2> QED BY <1>6, <2>2, <2>3, <2>5, <2>6 DEF Types
  <1>7. CASE k = PrintScreen /\ ~WithAlt(down)
    <2> DEFINE set == IF Wraps(down) THEN flags \union {"left_shift"} ELSE flags
    <2>1. run = handle_press(Nothing(set), 55)
      BY <1>7, PrintPressedDoes
    <2>2. /\ set \in SUBSET Flags
          /\ ~Wraps(down) => set = flags
          /\ "right_shift" \in set <=> "right_shift" \in flags
          /\ "caps_lock" \in set <=> "caps_lock" \in flags
      BY DEF Flags
    <2>3. k[2] = 55
      BY <1>7, KeyIsPair
    <2>4. k # LeftShift /\ k # RightShift /\ k # CapsLock
      BY <1>3, <2>3
    <2>5. Faked(k, down) = {} => ~Wraps(down)
      BY <1>7 DEF Faked
    <2> HIDE DEF run, set
    <2>6. Taken(run, set, 55)
      BY <2>1, <2>2, CodeDoes
    <2>7. Types(k, down) <=> 55 \in Writing
      BY <1>7, <2>3 DEF Types
    <2> QED BY <1>1, <2>2, <2>4, <2>5, <2>6, <2>7 DEF Taken
  <1> QED BY <1>5, <1>6, <1>7

LEMMA KeyComesUp ==
  ASSUME flags \in SUBSET Flags, NEW k \in Key, NEW down, Handle(Released(k, down))
  PROVE  /\ flags' \in SUBSET Flags
         /\ typed' = <<>>
         /\ "left_shift" \in flags' <=>
              (k # LeftShift /\ Faked(k, down) = {} /\ "left_shift" \in flags)
         /\ "right_shift" \in flags' <=> (k # RightShift /\ "right_shift" \in flags)
         /\ "caps_lock" \in flags' <=> "caps_lock" \in flags
  <1> DEFINE run == Run(Nothing(flags), Released(k, down))
  <1>1. flags' = run.flags /\ typed' = run.typed
    BY HandleIs
  <1>2. k \in (BOOLEAN \X (1..88)) \ {<<TRUE, 42>>, <<TRUE, 54>>, <<TRUE, 58>>}
    BY KeyAssumption
  <1>3. (k[2] = 42 <=> k = LeftShift) /\ (k[2] = 54 <=> k = RightShift)
    BY <1>2, ShiftCode
  <1>4. CASE k # PrintScreen
    <2> DEFINE new == IF k = LeftShift THEN flags \ {"left_shift"}
                      ELSE IF k = RightShift THEN flags \ {"right_shift"} ELSE flags
    <2>1. run = Nothing(new)
      BY <1>2, <1>4, ReleasedDoes
    <2>2. LeftShift # RightShift
      BY DEF LeftShift, RightShift
    <2>3. /\ new \in SUBSET Flags
          /\ "left_shift" \in new <=> (k # LeftShift /\ "left_shift" \in flags)
          /\ "right_shift" \in new <=> (k # RightShift /\ "right_shift" \in flags)
          /\ "caps_lock" \in new <=> "caps_lock" \in flags
      BY <2>2 DEF Flags
    <2>4. Faked(k, down) = {}
      BY <1>4 DEF Faked
    <2> HIDE DEF run, new
    <2>5. flags' = new /\ typed' = <<>>
      BY <1>1, <2>1, Given
    <2> QED BY <2>3, <2>4, <2>5
  <1>5. CASE k = PrintScreen
    <2> DEFINE new == IF WithAlt(down) THEN flags \union {"left_alt"}
                      ELSE IF Wraps(down) THEN flags \ {"left_shift"} ELSE flags
    <2>1. run = Nothing(new)
      BY <1>5, PrintReleasedDoes
    <2>2. k[2] = 55
      BY <1>5, KeyIsPair
    <2>3. k # LeftShift /\ k # RightShift
      BY <1>3, <2>2
    <2>4. Wraps(down) => ~WithAlt(down)
      BY DEF Wraps, WithAlt
    <2>5. Faked(k, down) = {} <=> ~Wraps(down)
      BY <1>5 DEF Faked
    <2>6. /\ new \in SUBSET Flags
          /\ "left_shift" \in new <=> (~Wraps(down) /\ "left_shift" \in flags)
          /\ "right_shift" \in new <=> "right_shift" \in flags
          /\ "caps_lock" \in new <=> "caps_lock" \in flags
      BY <2>4 DEF Flags
    <2> HIDE DEF run, new
    <2>7. flags' = new /\ typed' = <<>>
      BY <1>1, <2>1, Given
    <2> QED BY <2>3, <2>5, <2>6, <2>7
  <1> QED BY <1>4, <1>5

-----------------------------------------------------------------------------
LEMMA InitInv == Init => Inv
  <1> SUFFICES ASSUME Init PROVE Inv
    OBVIOUS
  <1>1. <<>> \in SeqOf(8..126, 1)
    <2>1. <<>> \in [1..0 -> 8..126]
      OBVIOUS
    <2> QED BY <2>1 DEF SeqOf
  <1> QED BY <1>1 DEF Init, Inv, TypeOK, FlagsFollowKeys

LEMMA PressInv ==
  ASSUME Inv, NEW k \in Key, Press(k)
  PROVE  Inv'
  <1>1. /\ held' = held \union {k} /\ caps' = (caps # (k = CapsLock))
        /\ odd' = odd \union Faked(k, held') /\ Handle(Pressed(k, held'))
    BY DEF Press
  <1>2. flags \in SUBSET Flags
    BY DEF Inv, TypeOK, Flags
  <1>3. /\ flags' \in SUBSET Flags
        /\ typed' \in SeqOf(8..126, 1)
        /\ Faked(k, held') = {} =>
              ("left_shift" \in flags' <=> (k = LeftShift \/ "left_shift" \in flags))
        /\ "right_shift" \in flags' <=> (k = RightShift \/ "right_shift" \in flags)
        /\ "caps_lock" \in flags' <=> (k = CapsLock <=> "caps_lock" \notin flags)
    BY <1>1, <1>2, KeyGoesDown
  <1>4. Faked(k, held') \in SUBSET {"print"}
    BY DEF Faked
  <1>5. TypeOK'
    BY <1>1, <1>3, <1>4 DEF Inv, TypeOK, Flags
  <1>6. "print" \notin odd' => ("left_shift" \in flags' <=> LeftShift \in held')
    <2> SUFFICES ASSUME "print" \notin odd' PROVE "left_shift" \in flags' <=> LeftShift \in held'
      OBVIOUS
    <2>1. "print" \notin odd /\ Faked(k, held') = {}
      BY <1>1, <1>4
    <2> QED BY <1>1, <1>3, <2>1 DEF Inv, FlagsFollowKeys
  <1>7. "right_shift" \in flags' <=> RightShift \in held'
    BY <1>1, <1>3 DEF Inv, FlagsFollowKeys
  <1>8. "caps_lock" \in flags' <=> (caps' <=> "caps" \notin odd')
    <2>1. "caps" \in odd' <=> "caps" \in odd
      BY <1>1, <1>4
    <2>2. caps \in BOOLEAN /\ ("caps_lock" \in flags <=> (caps <=> "caps" \notin odd))
      BY DEF Inv, TypeOK, FlagsFollowKeys
    <2>3. caps' <=> ~(caps <=> k = CapsLock)
      BY <1>1, <2>2
    <2> QED BY <1>3, <2>1, <2>2, <2>3
  <1> QED BY <1>5, <1>6, <1>7, <1>8 DEF Inv, FlagsFollowKeys

LEMMA RepeatInv ==
  ASSUME Inv, NEW k \in Key, Repeat(k)
  PROVE  Inv'
  <1>1. /\ k \in held /\ held' = held /\ caps' = caps /\ Handle(Pressed(k, held))
        /\ odd' = (IF k = CapsLock THEN Toggle(odd, "caps") ELSE odd) \union Faked(k, held)
    BY DEF Repeat
  <1>2. flags \in SUBSET Flags
    BY DEF Inv, TypeOK, Flags
  <1>3. /\ flags' \in SUBSET Flags
        /\ typed' \in SeqOf(8..126, 1)
        /\ Faked(k, held) = {} =>
              ("left_shift" \in flags' <=> (k = LeftShift \/ "left_shift" \in flags))
        /\ "right_shift" \in flags' <=> (k = RightShift \/ "right_shift" \in flags)
        /\ "caps_lock" \in flags' <=> (k = CapsLock <=> "caps_lock" \notin flags)
    BY <1>1, <1>2, KeyGoesDown
  <1>4. /\ Faked(k, held) \in SUBSET {"print"}
        /\ odd' \in SUBSET {"print", "caps"}
        /\ "print" \notin odd' => "print" \notin odd /\ Faked(k, held) = {}
        /\ "caps" \in odd' <=> (k = CapsLock <=> "caps" \notin odd)
    <2>1. Faked(k, held) \in SUBSET {"print"} /\ odd \in SUBSET {"print", "caps"}
      BY DEF Faked, Inv, TypeOK
    <2>2. CASE k = CapsLock
      BY <1>1, <2>1, <2>2 DEF Toggle
    <2>3. CASE k # CapsLock
      BY <1>1, <2>1, <2>3
    <2> QED BY <2>2, <2>3
  <1>5. TypeOK'
    BY <1>1, <1>3, <1>4 DEF Inv, TypeOK, Flags
  <1>6. "print" \notin odd' => ("left_shift" \in flags' <=> LeftShift \in held')
    BY <1>1, <1>3, <1>4 DEF Inv, FlagsFollowKeys
  <1>7. "right_shift" \in flags' <=> RightShift \in held'
    BY <1>1, <1>3 DEF Inv, FlagsFollowKeys
  <1>8. "caps_lock" \in flags' <=> (caps' <=> "caps" \notin odd')
    BY <1>1, <1>3, <1>4 DEF Inv, FlagsFollowKeys
  <1> QED BY <1>5, <1>6, <1>7, <1>8 DEF Inv, FlagsFollowKeys

LEMMA ReleaseInv ==
  ASSUME Inv, NEW k \in Key, Release(k)
  PROVE  Inv'
  <1>1. /\ k \in held /\ held' = held \ {k} /\ caps' = caps /\ Handle(Released(k, held'))
        /\ odd' = IF k = LeftShift \/ Faked(k, held') # {} THEN odd \ {"print"} ELSE odd
    BY DEF Release
  <1>2. flags \in SUBSET Flags
    BY DEF Inv, TypeOK, Flags
  <1>3. /\ flags' \in SUBSET Flags
        /\ typed' = <<>>
        /\ "left_shift" \in flags' <=>
              (k # LeftShift /\ Faked(k, held') = {} /\ "left_shift" \in flags)
        /\ "right_shift" \in flags' <=> (k # RightShift /\ "right_shift" \in flags)
        /\ "caps_lock" \in flags' <=> "caps_lock" \in flags
    BY <1>1, <1>2, KeyComesUp
  <1>4. <<>> \in SeqOf(8..126, 1)
    <2>1. <<>> \in [1..0 -> 8..126]
      OBVIOUS
    <2> QED BY <2>1 DEF SeqOf
  <1>5. /\ odd' \in SUBSET {"print", "caps"}
        /\ "caps" \in odd' <=> "caps" \in odd
        /\ k # LeftShift /\ Faked(k, held') = {} => odd' = odd
    BY <1>1 DEF Inv, TypeOK
  <1>6. TypeOK'
    BY <1>1, <1>3, <1>4, <1>5 DEF Inv, TypeOK, Flags
  <1>7. "print" \notin odd' => ("left_shift" \in flags' <=> LeftShift \in held')
    <2>1. CASE k = LeftShift
      BY <1>1, <1>3, <2>1
    <2>2. CASE Faked(k, held') # {}
      <3>1. Wraps(held')
        BY <2>2 DEF Faked
      <3>2. LeftShift \notin held'
        BY <3>1 DEF Wraps, Shifts
      <3> QED BY <1>3, <2>2, <3>2
    <2>3. CASE k # LeftShift /\ Faked(k, held') = {}
      BY <1>1, <1>3, <1>5, <2>3 DEF Inv, FlagsFollowKeys
    <2> QED BY <2>1, <2>2, <2>3
  <1>8. "right_shift" \in flags' <=> RightShift \in held'
    BY <1>1, <1>3 DEF Inv, FlagsFollowKeys
  <1>9. "caps_lock" \in flags' <=> (caps' <=> "caps" \notin odd')
    BY <1>1, <1>3, <1>5 DEF Inv, FlagsFollowKeys
  <1> QED BY <1>6, <1>7, <1>8, <1>9 DEF Inv, FlagsFollowKeys

LEMMA SpecInv == Spec => []Inv
  <1>1. Inv /\ [Next]_vars => Inv'
    <2> SUFFICES ASSUME Inv, [Next]_vars PROVE Inv'
      OBVIOUS
    <2>1. CASE \E k \in Key : Press(k) \/ Repeat(k) \/ Release(k)
      BY <2>1, PressInv, RepeatInv, ReleaseInv
    <2>2. CASE UNCHANGED vars
      BY <2>2 DEF vars, Inv, TypeOK, FlagsFollowKeys
    <2> QED BY <2>1, <2>2 DEF Next
  <1> QED BY <1>1, InitInv, PTL DEF Spec

(* Only keys that exist are down, no flag but the seven is ever set, and a *)
(* key event types at most one character                                    *)
(* (key.c:9-18, 98-162).                                                   *)
THEOREM TypeCorrect == Spec => []TypeOK
  <1>1. Inv => TypeOK
    BY DEF Inv
  <1> QED BY <1>1, SpecInv, PTL

(* Whatever keys there are and however they were pressed before, a key     *)
(* would type what is engraved on it for the shift keys that are down and  *)
(* the state of caps lock (key.c:131-162).                                 *)
THEOREM KeysTypeAsHeld == Spec => []TypesAsHeld
  <1>1. Inv => TypesAsHeld
    <2> SUFFICES ASSUME Inv, odd = {}, NEW code \in Writing \ Unshifted
                 PROVE  LET shift == held \intersect Shifts # {}
                            plain == Typing({}, code)
                            now == Typing(flags, code)
                        IN  IF isupper(plain)
                              THEN now = IF shift # caps THEN plain - 32 ELSE plain
                              ELSE ~(shift /\ caps) =>
                                     IF shift THEN <<plain, now>> \in Engraved ELSE now = plain
      BY DEF TypesAsHeld
    <2> DEFINE shift == held \intersect Shifts # {}
               locked == "caps_lock" \in flags
               key == keys[code]
               alternate == alternate_keys[code]
    <2>1. /\ caps \in BOOLEAN /\ (locked <=> caps)
          /\ (flags \intersect {"left_shift", "right_shift"} # {}) = shift
      BY DEF Inv, TypeOK, FlagsFollowKeys, Shifts
    <2>2. Typing({}, code) = key
      BY DEF Typing
    <2>3. Typing(flags, code) =
            IF shift = locked THEN key
            ELSE IF isalpha(key) THEN toupper(key)
            ELSE IF shift THEN alternate ELSE key
      BY <2>1 DEF Typing
    <2>4. isupper(key) \/ (~isalpha(key) /\ <<key, alternate>> \in Engraved)
      BY Engravings
    <2>5. isupper(key) => isalpha(key) /\ toupper(key) = key - 32
      BY DEF isupper, isalpha, toupper
    <2> HIDE DEF shift, locked, key, alternate
    <2>6. shift \in BOOLEAN /\ locked \in BOOLEAN
      BY DEF shift, locked
    <2>7. CASE isupper(key)
      BY <2>1, <2>2, <2>3, <2>5, <2>6, <2>7 DEF shift
    <2>8. CASE ~isupper(key)
      BY <2>1, <2>2, <2>3, <2>4, <2>6, <2>8 DEF shift
    <2> QED BY <2>7, <2>8
  <1> QED BY <1>1, SpecInv, PTL

(* A key types one character each time it goes down or repeats, if it is   *)
(* one that types, and none when it comes up (key.c:98-130).               *)
THEOREM OneCharacter == Spec => OneCharacterPerPress
  <1> DEFINE Step == \A k \in Key :
        LET types == k[2] \in Writing /\ k \notin {RightCtrl, RightAlt}
                       /\ ~(k = PrintScreen /\ held' \intersect {LeftAlt, RightAlt} # {})
        IN  /\ Press(k) \/ Repeat(k) => Len(typed') = (IF types THEN 1 ELSE 0)
            /\ Release(k) => typed' = <<>>
  <1>1. Inv => Step
    <2> SUFFICES ASSUME Inv, NEW k \in Key
                 PROVE  LET types == k[2] \in Writing /\ k \notin {RightCtrl, RightAlt}
                              /\ ~(k = PrintScreen /\ held' \intersect {LeftAlt, RightAlt} # {})
                        IN  /\ Press(k) \/ Repeat(k) => Len(typed') = (IF types THEN 1 ELSE 0)
                            /\ Release(k) => typed' = <<>>
      OBVIOUS
    <2>1. flags \in SUBSET Flags
      BY DEF Inv, TypeOK, Flags
    <2>2. k[2] \in Writing => k \notin {RightCtrl, RightAlt}
      <3>1. RightCtrl[2] = 29 /\ RightAlt[2] = 56
        BY DEF RightCtrl, RightAlt
      <3>2. 29 \notin Writing /\ 56 \notin Writing
        BY DEF Writing
      <3> QED BY <3>1, <3>2
    <2>3. (k[2] \in Writing /\ k \notin {RightCtrl, RightAlt}
            /\ ~(k = PrintScreen /\ held' \intersect {LeftAlt, RightAlt} # {})) <=> Types(k, held')
      BY <2>2 DEF Types, WithAlt
    <2>4. Press(k) => Len(typed') = (IF Types(k, held') THEN 1 ELSE 0)
      BY <2>1, KeyGoesDown DEF Press
    <2>5. Repeat(k) => Len(typed') = (IF Types(k, held') THEN 1 ELSE 0)
      BY <2>1, KeyGoesDown DEF Repeat
    <2>6. Release(k) => typed' = <<>>
      BY <2>1, KeyComesUp DEF Release
    <2> QED BY <2>3, <2>4, <2>5, <2>6
  <1> QED BY <1>1, SpecInv, PTL DEF OneCharacterPerPress

===============================================================================
