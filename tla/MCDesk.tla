------------------------------- MODULE MCDesk -------------------------------
(***************************************************************************)
(* One question of the vault; the settings are every surface at once, and  *)
(* the terminal alone; two browser tabs show the board. DeskTwo.cfg has    *)
(* the vault and the agent ask one question each, of the modal and the     *)
(* desktop dialog.                                                         *)
(***************************************************************************)
EXTENDS Desk

CONSTANTS r1, r2, vault, agent, yes, t1, t2

MCRequest == {r1}
MCGate == [r \in MCRequest |-> vault]
MCChoice == {Deny, yes}
MCSettings == {[publish |-> TRUE, asking |-> {"modal", "dialog"}],
               [publish |-> FALSE, asking |-> {"modal"}]}
MCTab == {t1, t2}

TwoRequests == {r1, r2}
TwoGates == [r \in TwoRequests |-> IF r = r1 THEN vault ELSE agent]
TwoSettings == {[publish |-> FALSE, asking |-> {"modal", "dialog"}]}
=============================================================================
