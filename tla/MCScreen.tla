------------------------------ MODULE MCScreen ------------------------------
(***************************************************************************)
(* Two ports and two questions: enough for a table that reorders under an  *)
(* open editor and for a withdrawal that arrives during the next question. *)
(***************************************************************************)
EXTENDS Screen, TLC

CONSTANTS p1, p2, q1, q2

Ports == {p1, p2}
Questions == {q1, q2}
Sym == Permutations(Ports) \cup Permutations(Questions)
=============================================================================
