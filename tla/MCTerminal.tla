------------------------------ MODULE MCTerminal ------------------------------
(* A screen of three rows of two characters and one letter; the handler's  *)
(* message fits on a row, as the real one does.                            *)
EXTENDS Terminal

MCGlyph == {"a"}
MCUnexpected == <<"a", NL>>

(* A write of two characters, one whose descriptor and count have more     *)
(* bits than fit, one to a file there is not.                              *)
MCWriteCall == {[fd |-> 1, count |-> 2], [fd |-> 6, count |-> 5], [fd |-> 0, count |-> 1]}
=============================================================================
