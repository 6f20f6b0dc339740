----------------------------- MODULE MCSettings -----------------------------
(***************************************************************************)
(* Two processes for one host, on a machine with no dialog program: one    *)
(* with the interface and no board, one with a board alone.                *)
(***************************************************************************)
EXTENDS Settings

CONSTANTS bedev, devtun, second

Settings5 == {"prompt", "browser", "hide", "rules", "view"}
LevelsDef == [s \in Settings5 |->
  CASE s = "hide" -> {"global"} [] s \in {"rules", "view"} -> {"host"} [] OTHER -> Level]
OptionsDef == [s \in Settings5 |->
  CASE s = "prompt" -> <<Unset, "all", "native", "web", "deny">>
    [] s = "browser" -> <<Unset, "on", "off">>
    [] s = "view" -> <<"on", "off">>
    [] OTHER -> <<>>]
TypedDef == [s \in Settings5 |->
  CASE s = "hide" -> {Unset, "5432", "54e2"} [] s = "rules" -> {"never"} [] OTHER -> {}]
ValidDef == [s \in Settings5 |-> TypedDef[s] \ {"54e2"}]
FallbackDef == [s \in Settings5 |->
  CASE s = "prompt" -> "all" [] s = "browser" -> "on" [] s = "view" -> "off" [] OTHER -> Unset]
HomeDef == [p \in {devtun, second} |-> bedev]
Terminal == [interface |-> TRUE, available |-> {"tui"}]
Board == [interface |-> FALSE, available |-> {"tui", "web"}]
Kinds == {Terminal, Board}

\* The second process is the one with the board. It is there from the start or
\* not at all. While both run their people switch the service on and off, from
\* the terminal for the host alone.
MCNext ==
  /\ SettingsNext
  /\ kind'[second] # Terminal /\ kind'[devtun] # Board
  /\ second \in up =>
       /\ \A p \in Proc : aimed'[p] \subseteq aimed[p] \cup File \X {"browser"}
       /\ armed'[devtun] = "host" /\ editor'[devtun] = Unset
       /\ kind'[second] = Down => job[second]["exit"].phase = "saving"
  /\ second \notin up /\ kind'[second] = Board => spent.edits = 0 /\ devtun \notin up
MCSpec == SettingsInit /\ [][MCNext]_settingsVars /\ SettingsFairness
=============================================================================
