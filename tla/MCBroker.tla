------------------------------ MODULE MCBroker ------------------------------
(***************************************************************************)
(* One host. Two requests for the same secret and one for another; the     *)
(* store starts empty, and the prompter may be replaced once. Without a    *)
(* menu of every answer: each path through Record is run in MCPolicy.      *)
(***************************************************************************)
EXTENDS Broker

CONSTANTS h1, s1, s2, r1, r2, r3

MCHost == {h1}
MCSubject == {s1, s2}
MCPattern == MCHost \cup MCSubject \cup {Wild, NoHost}
MCCovers ==
  [p \in MCPattern |->
     CASE p = Wild -> MCHost \cup MCSubject
       [] p = NoHost -> {}
       [] OTHER -> {p}]
MCHostRules == {<<>>}

MCRequest == {r1, r2, r3}
MCHostOf == [r \in MCRequest |-> h1]
MCSubjectOf == [r \in MCRequest |-> IF r = r3 THEN s2 ELSE s1]
MCMenu == {"deny", "allowSession"}
MCMenuNever == {"deny", "allowOnce", "refuseAlways"}
=============================================================================
