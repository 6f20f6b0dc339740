-------------------------------- MODULE Guard -------------------------------
(***************************************************************************)
(* internal/onepassword/policy: which `op` command lines are run for the   *)
(* box at all, whatever the approvals say. Vault.tla starts where Check    *)
(* has passed.                                                             *)
(*                                                                         *)
(* An argument is a word or an option: its dashes, its name, and whether   *)
(* a value is written into it. A word of a command is not empty and has no *)
(* blank in it. Explanations are left out.                                 *)
(***************************************************************************)
EXTENDS Integers, Sequences, SequencesExt

ArgWord(name) == [dashes |-> 0, name |-> name, inline |-> FALSE]
Option(dashes, name, inline) == [dashes |-> dashes, name |-> name, inline |-> inline]
EndOfOptions == Option(2, "", FALSE)
IsWord(arg) == arg.dashes = 0

readOnlyCommands ==
  {<<"read">>, <<"item", "get">>, <<"item", "list">>, <<"document", "get">>,
   <<"vault", "get">>, <<"vault", "list">>, <<"account", "get">>,
   <<"account", "list">>, <<"whoami">>, <<"user", "get">>}
localStateFlags == {"out-file", "o", "session", "config"}
blockedCommands == {"run", "inject", "signin", "update"}

\* opGlobalFlags: the options op takes before a command, and those of them
\* that take the next argument for a value unless one is written in.
WithValue == {"account", "config", "session", "format", "encoding"}
Bare == {"cache", "no-cache", "debug", "no-color", "iso-timestamps", "version", "help"}
IsGlobal(arg) ==
  \/ arg.dashes = 2 /\ arg.name \in WithValue \cup Bare
  \/ arg.dashes = 1 /\ arg.name \in {"h", "v"}
TakesNext(arg) == arg.name \in WithValue /\ ~arg.inline

\* The loop of commandPath up to the first word: where it is, one past the
\* end when there is no command, and 0 when nobody can tell.
FirstWord(argv) ==
  LET n == Len(argv)
      from[i \in 1 .. n + 2] ==
        IF i > n THEN n + 1
        ELSE IF IsWord(argv[i]) THEN i
        ELSE IF argv[i] = EndOfOptions THEN n + 1
        ELSE IF ~IsGlobal(argv[i]) THEN 0
        ELSE from[IF TakesNext(argv[i]) THEN i + 2 ELSE i + 1]
  IN from[1]

\* Up to three words, ended by the first option after them.
LeadingWords(argv, i) ==
  LET long == {k \in 0 .. 3 : /\ i + k - 1 <= Len(argv)
                              /\ \A l \in i .. i + k - 1 : IsWord(argv[l])}
      n == CHOOSE k \in long : \A l \in long : l <= k
  IN [k \in 1 .. n |-> argv[i + k - 1].name]

Candidates(path) == {SubSeq(path, 1, k) : k \in 1 .. Len(path)}

Check(argv, allowCommands, allowAll) ==
  LET i == FirstWord(argv)
      path == LeadingWords(argv, i)
  IN /\ \A a \in ToSet(argv) : ~IsWord(a) => a.name \notin localStateFlags
     /\ i # 0
     /\ i <= Len(argv) =>
          /\ path[1] \notin blockedCommands
          /\ allowAll \/ Candidates(path) \cap (readOnlyCommands \cup allowCommands) # {}

-----------------------------------------------------------------------------
(***************************************************************************)
(* What commandPath's comment asks for: options before a command neither   *)
(* hide it nor are taken for it. Skips: argv[1..k] can be read as options  *)
(* with their values; a value is one argument of any shape.                *)
(***************************************************************************)
Skips(argv, k) ==
  \E starts \in SUBSET (1 .. k) :
    /\ \A i \in starts : IsGlobal(argv[i])
    /\ \A i \in 1 .. k :
         i \in starts <=> (i = 1 \/ i - 1 \notin starts \/ ~TakesNext(argv[i - 1]))
    /\ k \in starts /\ TakesNext(argv[k]) => k = Len(argv)

NoCommand(argv) ==
  \/ Skips(argv, Len(argv))
  \/ \E k \in DOMAIN argv : argv[k] = EndOfOptions /\ Skips(argv, k - 1)

Spells(argv, k, command) ==
  /\ k + Len(command) - 1 <= Len(argv)
  /\ \A l \in DOMAIN command : argv[k + l - 1] = ArgWord(command[l])

Permitted(argv, allowCommands, allowAll) ==
  /\ \A flag \in localStateFlags : \A a \in ToSet(argv) : IsWord(a) \/ a.name # flag
  /\ \/ NoCommand(argv)
     \/ \E k \in DOMAIN argv :
          /\ IsWord(argv[k]) /\ Skips(argv, k - 1)
          /\ argv[k].name \notin blockedCommands
          /\ \/ allowAll
             \/ \E command \in readOnlyCommands \cup allowCommands : Spells(argv, k, command)

CheckIsPermitted(Args, length, allowCommands) ==
  \A argv \in BoundedSeq(Args, length), allowAll \in BOOLEAN :
    Check(argv, allowCommands, allowAll) <=> Permitted(argv, allowCommands, allowAll)
=============================================================================
