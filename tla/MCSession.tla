----------------------------- MODULE MCSession ------------------------------
(***************************************************************************)
(* Two services, one with a socket of its own; a box that can say          *)
(* everything and one that lacks what RemoveSocket needs.                  *)
(***************************************************************************)
EXTENDS Session

CONSTANTS tunnels, agent

MCService == {tunnels, agent}
MCOrder == <<tunnels, agent>>
MCWithSocket == {agent}
Started(reconnect, takeOver, forwards, tells, removes) ==
  [reconnect |-> reconnect, takeOver |-> takeOver, forwards |-> forwards,
   tells |-> tells, removes |-> removes]
MCOptions == {Started(TRUE, FALSE, TRUE, TRUE, TRUE),
              Started(FALSE, TRUE, TRUE, TRUE, FALSE),
              Started(TRUE, FALSE, FALSE, TRUE, TRUE),
              Started(TRUE, FALSE, TRUE, FALSE, TRUE)}
MCPlain == {Started(TRUE, FALSE, TRUE, TRUE, TRUE)}
=============================================================================
