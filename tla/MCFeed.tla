------------------------------- MODULE MCFeed -------------------------------
(***************************************************************************)
(* The session and one other goroutine speak of one service; a history and *)
(* a page queue small enough to run over.                                  *)
(***************************************************************************)
EXTENDS Feed

CONSTANTS session, tunnels, vault, p1

SomeEmitters == {session, tunnels}
SomePages == {p1}

\* A plain run; a headless one with a page open, and with the board's notes.
Parties == {{"screen"}, {"log", p1}, {"log", "board"}}
=============================================================================
