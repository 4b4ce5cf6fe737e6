------------------------------ MODULE InputQueue ------------------------------
(***************************************************************************)
(* What the keyboard buffer promises its reader: the characters typed and  *)
(* accepted come out once each, in the order they went in, and at most     *)
(* Capacity of them wait.                                                  *)
(***************************************************************************)
EXTENDS Naturals, Sequences

CONSTANTS Char, Capacity, Nothing

VARIABLES
  queue,  \* the characters accepted and not yet taken
  got     \* the character taken last

vars == <<queue, got>>

Init ==
  /\ queue = <<>>
  /\ got = Nothing

(* A character that is not accepted is lost: a stutter.                    *)
Accept ==
  /\ Len(queue) < Capacity
  /\ \E c \in Char : queue' = Append(queue, c)
  /\ UNCHANGED got

Take ==
  /\ queue # <<>>
  /\ got' = Head(queue)
  /\ queue' = Tail(queue)

Next == Accept \/ Take

Spec == Init /\ [][Next]_vars

=============================================================================
