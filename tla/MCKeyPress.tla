----------------------------- MODULE MCKeyPress -----------------------------
(* A letter, the key of 1, F12, both shifts, caps lock, both alts, a control*)
(* key, Print Screen and the left arrow, which shares the keypad's code of 4. *)
EXTENDS KeyPress

MCKey == {<<FALSE, 30>>, <<FALSE, 2>>, <<FALSE, 88>>, LeftShift, RightShift, CapsLock,
          LeftAlt, RightAlt, RightCtrl, PrintScreen, <<TRUE, 75>>}
=============================================================================
