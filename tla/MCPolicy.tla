------------------------------ MODULE MCPolicy ------------------------------
(***************************************************************************)
(* Two hosts, two secrets of one vault, a pattern for the vault. The       *)
(* user's own config refuses one secret to one host; the host file starts  *)
(* empty, or with a rule allowing the whole vault from anywhere and one    *)
(* refusing a secret of it.                                                *)
(***************************************************************************)
EXTENDS Policy, Glob

CONSTANTS h1, h2, s1, s2, vault

MCHost == {h1, h2}
MCSubject == {s1, s2}
MCPattern == MCHost \cup MCSubject \cup {vault, Wild, NoHost}
Text(p) ==
  CASE p = h1 -> <<"h", "1">> [] p = h2 -> <<"h", "2">>
    [] p = s1 -> <<"v", "/", "1">> [] p = s2 -> <<"v", "/", "2">>
    [] p = vault -> <<"v", "/", "*">> [] p = Wild -> <<"*", "*">>
    [] p = NoHost -> <<>>
MCCovers ==
  [p \in MCPattern |->
     CASE p = Wild -> MCHost \cup MCSubject
       [] p = vault -> MCSubject
       [] p = NoHost -> {}
       [] OTHER -> {p}]

(* glob.go accepts what its comment says a pattern stands for, for every   *)
(* pattern and subject of a few characters, and MCCovers is what it does   *)
(* with the names and patterns of this instance.                           *)
ASSUME MatchMeansWhatItSays ==
  /\ MatchIsMeaning({"v", "/"}, 3, 4)
  /\ \A p \in MCPattern, x \in MCHost \cup MCSubject :
       x \in MCCovers[p] <=> Match(Text(p), Text(x))

MCGlobalRules == {[host |-> h2, subject |-> s2, action |-> "deny"]}
MCHostRules ==
  {<<>>, <<[host |-> NoHost, subject |-> vault, action |-> "allow"],
           [host |-> h1, subject |-> s1, action |-> "deny"]>>}
=============================================================================
