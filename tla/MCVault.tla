------------------------------ MODULE MCVault -------------------------------
(***************************************************************************)
(* A script that injects two secrets and another that reads one of them;   *)
(* the cache has room for one value.                                       *)
(***************************************************************************)
EXTENDS Vault, Guard

CONSTANTS h1, s1, s2, r1, r2

MCHost == {h1}
MCSubject == {s1, s2}
MCPattern == MCHost \cup MCSubject \cup {Wild, NoHost}
MCCovers ==
  [p \in MCPattern |->
     CASE p = Wild -> MCHost \cup MCSubject
       [] p = NoHost -> {}
       [] OTHER -> {p}]
MCHostRules == {<<>>}

MCRequest == {r1, r2}
MCRefsOf == [r \in MCRequest |-> IF r = r1 THEN <<s1, s2>> ELSE <<s1>>]
MCMenu == {"deny", "allowOnce", "allowTTL", "allowHostTTL", "refuseSession",
           "allowAlways"}

(* A global option before a subcommand must not hide the subcommand: the   *)
(* guard passes just the command lines whose command it allows, for every  *)
(* line of four of these arguments.                                        *)
ASSUME GuardReadsCommands ==
  CheckIsPermitted(
    {ArgWord("item"), ArgWord("get"), ArgWord("delete"), ArgWord("run"), EndOfOptions,
     Option(2, "account", FALSE), Option(2, "account", TRUE), Option(2, "debug", FALSE),
     Option(2, "out-file", FALSE), Option(2, "unknown", FALSE)},
    4, {<<"item", "delete">>})

MCMenuAlways == {"deny", "allowAlways"}
=============================================================================
