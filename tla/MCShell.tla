------------------------------- MODULE MCShell -------------------------------
(* Keys for "1", blank, enter and backspace; one program, named "1".        *)
EXTENDS Shell

MCProgram == {<<49>>}
=============================================================================
