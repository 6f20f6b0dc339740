------------------------------ MODULE Settings ------------------------------
(***************************************************************************)
(* internal/hostcfg and internal/settings: devtun's configuration files,   *)
(* one for all hosts and one per host, the copy of them a devtun process   *)
(* holds in memory, and the ways a setting is changed: the Config and      *)
(* Services tabs (internal/tui), the board (internal/web) and a service    *)
(* that records a decision through its service.Config.                     *)
(*                                                                         *)
(* A process reads a file once and rewrites it whole. Store.mu is held for *)
(* a change in memory and, separately, for a Save, so changes made on two  *)
(* surfaces interleave between the two; a kill falls between any steps. A  *)
(* file is written by a rename and is never seen half written. Several     *)
(* processes and people with editors write the same files.                 *)
(*                                                                         *)
(* What a service shows of its own (Viewed) is read from the service; it   *)
(* is taken here to be what the process holds of the file.                 *)
(***************************************************************************)
EXTENDS Integers, FiniteSets, SequencesExt

CONSTANTS
  Host,          \* labels of hosts
  Setting,       \* the catalogue, and what services record
  Prompt,        \* the setting that says where approvals appear
  Service,       \* the settings that switch a service on or off
  Owned,         \* what a service records for itself
  Viewed,        \* what a service lists to be changed: settings.ServiceSetting
  Levels,        \* Levels[s]: where s can be written
  Options,       \* Options[s]: what a surface steps through; none is text
  Typed,         \* Typed[s]: what a person may type for a text setting
  Valid,         \* Valid[s]: the typed values that parse
  Fallback,      \* Fallback[s]: devtun's own answer
  Proc,          \* devtun processes, over time
  Home,          \* Home[p]: the host p is run for
  Kind,          \* ways to run one: with the interface, and what can ask
  Down,          \* a process that does not run
  Unread,        \* a file not in memory
  MaxEdits,      \* changes people make
  MaxTrouble     \* writes that fail, kills and edits by hand

Level == {"host", "global"}
Global == "/global"
File == Host \cup {Global}
Unset == ""
Value == {Unset} \cup UNION {Range(Options[s]) \cup Typed[s] : s \in Setting}
Doc == [Setting -> Value]
Surface == {"tui", "native", "web"}
Via == {"terminal", "board", "service", "tab", "exit"}
Nobody == "nobody"

ASSUME SettingsAssumption ==
  /\ Global \notin Host
  /\ {Prompt} \cup Service \cup Owned \cup Viewed \subseteq Setting
  /\ Levels \in [Setting -> (SUBSET Level) \ {{}}]
  /\ \A s \in Owned \cup Viewed : Levels[s] = {"host"}
  /\ \A s \in Setting : Valid[s] \subseteq Typed[s]
  /\ \A s \in Service : {"on", "off"} \subseteq Range(Options[s])
  /\ Fallback \in [Setting -> Value]
  /\ Home \in [Proc -> Host]
  /\ Kind \subseteq [interface : BOOLEAN, available : SUBSET Surface]
  /\ Down \notin Kind /\ Unread \notin Doc
  /\ MaxEdits \in Nat /\ MaxTrouble \in Nat

VARIABLES
  disk,          \* disk[f]: what the file says
  broken,        \* the files that say it so that it does not parse
  kind,          \* kind[p]: how p was started, if it runs
  mem,           \* mem[p][f]: the file as p holds it
  dirty,         \* dirty[p]: the files p has changed and not written
  lock,          \* lock[p]: who holds Store.mu of p
  job,           \* job[p][t]: the change surface t of p is making
  armed,         \* armed[p]: the level the Config tab writes at
  editor,        \* editor[p]: the text setting being typed
  asks,          \* asks[p]: where p asks for approvals
  told,          \* history: what people were told was recorded
  aimed,         \* history, aimed[p]: the settings p changed
  stale,         \* history, stale[p]: the files somebody else has written since
                 \*   p last read or wrote them
  spent          \* what is left of the environment's bounds

fileVars == <<disk, broken, told, stale>>
procVars == <<kind, mem, dirty, aimed>>
screenVars == <<armed, editor>>
settingsVars == <<fileVars, procVars, lock, job, screenVars, asks, spent>>

up == {p \in Proc : kind[p] # Down}
Interface == {p \in up : kind[p].interface}
Idle == [phase |-> "idle", left |-> {}, failed |-> FALSE]
Busy(p, t) == job[p][t].phase # "idle"
LevelFile(p, level) == IF level = "global" THEN Global ELSE Home[p]

(***************************************************************************)
(* Reading. The host's own answer, then the global one, then devtun's.     *)
(***************************************************************************)
Resolve(host, global, s) ==
  CASE "host" \in Levels[s] /\ host[s] # Unset -> host[s]
    [] "global" \in Levels[s] /\ global[s] # Unset -> global[s]
    [] OTHER -> Fallback[s]
InForce(p, s) == Resolve(mem[p][Home[p]], mem[p][Global], s)

Everywhere(v) == v \in {Unset, "all", "auto"}
ParseSurfaces(v) == IF Everywhere(v) THEN Surface ELSE {v} \ {"deny"}
\* resolveSurfaces: a wish is cut to what there is, an instruction is not.
Honoured(k, v) == Everywhere(v) \/ ParseSurfaces(v) \subseteq k.available
ResolveSurfaces(k, v) == ParseSurfaces(v) \cap k.available

Silent == [s \in Setting |-> Unset]

SettingsInit ==
  /\ disk = [f \in File |-> Silent] /\ broken = {}
  /\ kind = [p \in Proc |-> Down]
  /\ mem = [p \in Proc |-> [f \in File |-> Unread]]
  /\ dirty = [p \in Proc |-> {}] /\ aimed = [p \in Proc |-> {}]
  /\ stale = [p \in Proc |-> {}]
  /\ lock = [p \in Proc |-> Nobody]
  /\ job = [p \in Proc |-> [t \in Via |-> Idle]]
  /\ armed = [p \in Proc |-> "host"] /\ editor = [p \in Proc |-> Unset]
  /\ asks = [p \in Proc |-> {}]
  /\ told = {}
  /\ spent = [edits |-> 0, trouble |-> 0]

\* Once somebody writes f: those that hold it, but for the writer.
StaleBut(f, p) ==
  [q \in Proc |-> IF q # p /\ mem[q][f] # Unread THEN stale[q] \cup {f} ELSE stale[q]]

(***************************************************************************)
(* runUp: both files are read before Err is asked, and a file that does    *)
(* not parse, or an instruction to ask where nobody can, ends the run.     *)
(***************************************************************************)
Readable(p) == Global \notin broken /\ Home[p] \notin broken

EmptyIfBroken(f) == IF f \in broken THEN Silent ELSE disk[f]

Start(p, k) ==
  LET host == EmptyIfBroken(Home[p])
      v == Resolve(host, EmptyIfBroken(Global), Prompt)
  IN /\ p \notin up
     /\ Readable(p)
     /\ Honoured(k, v)
     /\ kind' = [kind EXCEPT ![p] = k]
     /\ mem' = [mem EXCEPT ![p] = [f \in File |-> IF f = Home[p] THEN host
                                      ELSE IF f = Global THEN EmptyIfBroken(Global) ELSE Unread]]
     /\ asks' = [asks EXCEPT ![p] = ResolveSurfaces(k, v)]
     /\ UNCHANGED <<fileVars, dirty, aimed, lock, job, screenVars, spent>>

(***************************************************************************)
(* Changing a setting in memory: SetSetting, SetEnabled, Section.Set. The  *)
(* write comes after, under the lock again.                                *)
(***************************************************************************)
MayChange(p, t) ==
  /\ p \in up /\ lock[p] = Nobody /\ ~Busy(p, t) /\ ~Busy(p, "exit")
  /\ spent.edits < MaxEdits

Change(p, t, f, s, v) ==
  /\ MayChange(p, t)
  /\ spent' = [spent EXCEPT !.edits = @ + 1]
  /\ mem' = [mem EXCEPT ![p][f][s] = v]
  /\ dirty' = [dirty EXCEPT ![p] = @ \cup {f}]
  /\ job' = [job EXCEPT ![p][t] = [phase |-> "set", left |-> {}, failed |-> FALSE,
                                   file |-> f, setting |-> s, value |-> v]]
  /\ aimed' = [aimed EXCEPT ![p] = @ \cup {<<f, s>>}]
  /\ UNCHANGED <<fileVars, kind, asks>>

\* settings.Step: from what the level itself says, `inherit` when it is silent.
Step(s, raw, delta) ==
  LET n == Len(Options[s])
      at == IF raw \in Range(Options[s]) THEN CHOOSE i \in 1 .. n : Options[s][i] = raw ELSE 1
  IN Options[s][((at - 1 + delta) % n) + 1]

\* Setting.Raw: what the level itself says; of a service's own, what is shown.
Raw(p, s, level) == IF s \in Viewed THEN InForce(p, s) ELSE mem[p][LevelFile(p, level)][s]
Stepped(p, s, level, v) == \E delta \in {-1, 1} : v = Step(s, Raw(p, s, level), delta)
IsText(s) == Options[s] = <<>>
\* settings.Apply refuses what does not parse before anything is written.
Entered(s, v) == v \in Typed[s] /\ v \in Valid[s]

\* web.handleSetting: at the level that was named or not at all.
BoardSets(p, s, level, v) ==
  /\ MayChange(p, "board") /\ "web" \in kind[p].available /\ level \in Levels[s]
  /\ IF IsText(s) THEN Entered(s, v) ELSE Stepped(p, s, level, v)
  /\ Change(p, "board", LevelFile(p, level), s, v)
  /\ UNCHANGED <<lock, screenVars>>

\* Setting.EditLevel: what is armed, or the only level there is.
EditLevel(p, s) ==
  IF armed[p] \in Levels[s] THEN armed[p] ELSE CHOOSE level \in Levels[s] : TRUE

Arm(p) ==
  /\ p \in Interface /\ editor[p] = Unset /\ spent.edits < MaxEdits
  /\ armed' = [armed EXCEPT ![p] = IF @ = "host" THEN "global" ELSE "host"]
  /\ UNCHANGED <<fileVars, procVars, lock, job, editor, asks, spent>>

StepConfig(p, s, v) ==
  /\ MayChange(p, "terminal") /\ p \in Interface /\ editor[p] = Unset /\ ~IsText(s)
  /\ Stepped(p, s, EditLevel(p, s), v)
  /\ Change(p, "terminal", LevelFile(p, EditLevel(p, s)), s, v)
  /\ UNCHANGED <<lock, screenVars>>

OpenEditor(p, s) ==
  /\ p \in Interface /\ editor[p] = Unset /\ IsText(s) /\ s \notin Owned
  /\ spent.edits < MaxEdits
  /\ editor' = [editor EXCEPT ![p] = s]
  /\ UNCHANGED <<fileVars, procVars, lock, job, armed, asks, spent>>

\* applyConfigValue finds the setting again by its key.
CommitEditor(p, v) ==
  LET s == editor[p]
  IN /\ s # Unset /\ Entered(s, v)
     /\ Change(p, "terminal", LevelFile(p, EditLevel(p, s)), s, v)
     /\ editor' = [editor EXCEPT ![p] = Unset]
     /\ UNCHANGED <<lock, armed>>

CloseEditor(p) ==
  /\ editor[p] # Unset
  /\ editor' = [editor EXCEPT ![p] = Unset]
  /\ UNCHANGED <<fileVars, procVars, lock, job, armed, asks, spent>>

\* Mutation: SetEnabled saves without giving up the lock it holds.
ToggleHolding(p, s) ==
  /\ p \in Interface /\ editor[p] = Unset
  /\ Change(p, "tab", Home[p], s, IF InForce(p, s) = "on" THEN "off" ELSE "on")
  /\ lock' = [lock EXCEPT ![p] = "tab"]
  /\ UNCHANGED screenVars

\* The Services tab: SetEnabled for this host.
Toggle(p, s) ==
  /\ p \in Interface /\ editor[p] = Unset
  /\ Change(p, "tab", Home[p], s, IF InForce(p, s) = "on" THEN "off" ELSE "on")
  /\ UNCHANGED <<lock, screenVars>>

\* Section.Set, for a decision a person just made.
ServiceSets(p, s, v) ==
  /\ s \in Owned /\ v \in Typed[s]
  /\ Change(p, "service", Home[p], s, v)
  /\ UNCHANGED <<lock, screenVars>>

(***************************************************************************)
(* Save: every changed file, one after another; one that cannot be written *)
(* stays dirty and the others are still tried.                             *)
(***************************************************************************)
SaveBegins(p, t) ==
  /\ p \in up /\ job[p][t].phase = "set" /\ lock[p] = Nobody
  /\ lock' = [lock EXCEPT ![p] = t]
  /\ job' = [job EXCEPT ![p][t].phase = "saving", ![p][t].left = dirty[p]]
  /\ UNCHANGED <<fileVars, procVars, screenVars, asks, spent>>

Saving(p, t) == p \in up /\ job[p][t].phase = "saving" /\ lock[p] = t

\* What p's copy of f undoes of what was recorded there: what p was asked to
\* change and, if others have written f since p read it, what it does not know of.
Overwritten(p, f) ==
  {w \in told : /\ w.file = f /\ w.value # mem[p][f][w.setting]
                /\ f \in stale[p] \/ <<f, w.setting>> \in aimed[p]}

WriteYAML(p, t) ==
  \E f \in job[p][t].left :
    /\ Saving(p, t)
    /\ f = Global \/ Global \notin job[p][t].left
    /\ disk' = [disk EXCEPT ![f] = mem[p][f]] /\ broken' = broken \ {f}
    /\ dirty' = [dirty EXCEPT ![p] = @ \ {f}]
    /\ job' = [job EXCEPT ![p][t].left = @ \ {f}]
    /\ stale' = [StaleBut(f, p) EXCEPT ![p] = @ \ {f}]
    /\ told' = told \ Overwritten(p, f)
    /\ UNCHANGED <<kind, mem, aimed, lock, screenVars, asks, spent>>

WriteFails(p, t) ==
  \E f \in job[p][t].left :
    /\ Saving(p, t) /\ spent.trouble < MaxTrouble
    /\ f = Global \/ Global \notin job[p][t].left
    /\ spent' = [spent EXCEPT !.trouble = @ + 1]
    /\ job' = [job EXCEPT ![p][t].left = @ \ {f}, ![p][t].failed = TRUE]
    /\ UNCHANGED <<fileVars, procVars, lock, screenVars, asks>>

(***************************************************************************)
(* What the person is told. Apply and Section.Set pass the error of Save   *)
(* on; SetEnabled drops it and the tab says the service is on or off; and  *)
(* what a service keeps of its own is set without an error to pass.        *)
(***************************************************************************)
\* Mutation: nobody passes the error of Save on.
ReportsAlways(j, t) == TRUE

ReportsSaved(j, t) == ~j.failed \/ t = "tab" \/ j.setting \in Viewed

\* The prompt setting is put into effect at once. The interface parses it and
\* fills the desk; without one it is resolved as at the start.
ApplyPrompt(p) ==
  LET v == InForce(p, Prompt)
  IN IF p \in Interface THEN ParseSurfaces(v)
     ELSE IF Honoured(kind[p], v) THEN ResolveSurfaces(kind[p], v) ELSE asks[p]

Finish(p, t) ==
  LET j == job[p][t]
      applied == t \in {"terminal", "board"} /\ ~j.failed /\ j.setting = Prompt
      stands == mem[p][j.file][j.setting] = j.value /\ j.file \notin stale[p]
  IN /\ Saving(p, t) /\ j.left = {} /\ t # "exit"
     /\ job' = [job EXCEPT ![p][t] = Idle]
     /\ lock' = [lock EXCEPT ![p] = Nobody]
     /\ told' = IF stands /\ ReportsSaved(j, t)
                THEN told \cup {[file |-> j.file, setting |-> j.setting,
                                 value |-> j.value, via |-> t]}
                ELSE told
     /\ asks' = [asks EXCEPT ![p] = IF applied THEN ApplyPrompt(p) ELSE @]
     /\ UNCHANGED <<disk, broken, stale, procVars, screenVars, spent>>

\* runUp's deferred Save, once the interface or the session has returned.
Quit(p) ==
  /\ p \in up /\ ~Busy(p, "exit") /\ \A t \in Via : ~Busy(p, t)
  /\ job' = [job EXCEPT ![p]["exit"].phase = "set"]
  /\ UNCHANGED <<fileVars, procVars, lock, screenVars, asks, spent>>

Gone(p) ==
  /\ kind' = [kind EXCEPT ![p] = Down]
  /\ mem' = [mem EXCEPT ![p] = [f \in File |-> Unread]]
  /\ dirty' = [dirty EXCEPT ![p] = {}] /\ aimed' = [aimed EXCEPT ![p] = {}]
  /\ lock' = [lock EXCEPT ![p] = Nobody]
  /\ job' = [job EXCEPT ![p] = [t \in Via |-> Idle]]
  /\ armed' = [armed EXCEPT ![p] = "host"] /\ editor' = [editor EXCEPT ![p] = Unset]
  /\ asks' = [asks EXCEPT ![p] = {}] /\ stale' = [stale EXCEPT ![p] = {}]
  /\ UNCHANGED <<disk, broken, told>>

Exit(p) ==
  /\ Saving(p, "exit") /\ job[p]["exit"].left = {}
  /\ Gone(p) /\ UNCHANGED spent

Kill(p) ==
  /\ p \in up /\ spent.trouble < MaxTrouble
  /\ spent' = [spent EXCEPT !.trouble = @ + 1]
  /\ Gone(p)

\* Somebody leaves a file with a tab too many in it, or takes it out again, or
\* switches a service off there.
ByHand(f) ==
  /\ \/ /\ f \in broken /\ broken' = broken \ {f}
        /\ UNCHANGED <<disk, told, spent>>
     \/ /\ f \notin broken /\ spent.trouble < MaxTrouble
        /\ spent' = [spent EXCEPT !.trouble = @ + 1]
        /\ broken' = broken \cup {f}
        /\ UNCHANGED <<disk, told>>
     \/ /\ f \notin broken /\ spent.trouble < MaxTrouble
        /\ spent' = [spent EXCEPT !.trouble = @ + 1]
        /\ \E s \in Service :
             /\ disk' = [disk EXCEPT ![f][s] = "off"]
             /\ told' = {w \in told : w.file # f \/ w.setting # s} \cup
                  {[file |-> f, setting |-> s, value |-> "off", via |-> "editor"]}
        /\ UNCHANGED broken
  /\ stale' = [p \in Proc |-> IF mem[p][f] # Unread THEN stale[p] \cup {f} ELSE stale[p]]
  /\ UNCHANGED <<procVars, lock, job, screenVars, asks>>

BoardStep(p) == \E s \in Setting \ Owned, level \in Level, v \in Value : BoardSets(p, s, level, v)
TerminalStep(p) ==
  \/ Arm(p)
  \/ \E s \in Setting \ Owned, v \in Value : StepConfig(p, s, v)
  \/ \E s \in Setting : OpenEditor(p, s)
  \/ \E v \in Value : CommitEditor(p, v)
  \/ CloseEditor(p)
  \/ \E s \in Service : Toggle(p, s)
SaveStep(p) ==
  \/ \E t \in Via : SaveBegins(p, t) \/ WriteYAML(p, t) \/ WriteFails(p, t) \/ Finish(p, t)
  \/ Exit(p)
ProcStep(p) ==
  \/ (\E k \in Kind : Start(p, k)) \/ BoardStep(p) \/ TerminalStep(p)
  \/ \E s \in Owned, v \in Value : ServiceSets(p, s, v)
  \/ SaveStep(p) \/ Quit(p) \/ Kill(p)

SettingsNext == (\E p \in Proc : ProcStep(p)) \/ (\E f \in File : ByHand(f))

\* A goroutine with a Save to do runs, and Store.mu starves nobody.
SettingsFairness == \A p \in Proc : WF_settingsVars(SaveStep(p))

SettingsSpec == SettingsInit /\ [][SettingsNext]_settingsVars /\ SettingsFairness

-----------------------------------------------------------------------------
(***************************************************************************)
(* Types: files are documents, and a process holds two of them.            *)
(***************************************************************************)
SettingsTypeOK ==
  /\ disk \in [File -> Doc] /\ broken \subseteq File
  /\ mem \in [Proc -> [File -> Doc \cup {Unread}]]
  /\ \A p \in Proc : dirty[p] \subseteq File /\ lock[p] \in Via \cup {Nobody}
  /\ stale \in [Proc -> SUBSET File]
  /\ kind \in [Proc -> Kind \cup {Down}]
  /\ \A p \in up : mem[p][Home[p]] # Unread /\ mem[p][Global] # Unread
  /\ \A p \in Proc, t \in Via : Busy(p, t) => p \in up
  /\ armed \in [Proc -> Level] /\ editor \in [Proc -> Setting \cup {Unset}]
  /\ asks \in [Proc -> SUBSET (Surface \cup Value)]
  /\ told \subseteq [file : File, setting : Setting, value : Value, via : Via \cup {"editor"}]

(***************************************************************************)
(* Section.Set and Apply: a decision its maker was told is recorded is in  *)
(* the file, through failed writes, kills, restarts and spells in which    *)
(* the file does not parse, and whatever is changed elsewhere meanwhile.   *)
(* It ends when the setting is changed and saved again, or when a process  *)
(* saves a copy it had before somebody else wrote the file. Not promised   *)
(* of what is reported whether it was saved or not: the Services tab's     *)
(* switches and what a service lists of its own.                           *)
(***************************************************************************)
InFile(w) == disk[w.file][w.setting] = w.value
SavedSurvives == \A w \in told : w.via = "tab" \/ w.setting \in Viewed \/ InFile(w)

(***************************************************************************)
(* settings.Setting.Value: what the screen says is in force is what the    *)
(* next run of the same host reads, once nothing is left to be written and *)
(* unless somebody else has written the files since.                       *)
(***************************************************************************)
ScreenTellsTheNextRun ==
  \A p \in up : dirty[p] = {} /\ stale[p] = {} =>
    /\ Readable(p)
    /\ \A s \in Setting : InForce(p, s) = Resolve(disk[Home[p]], disk[Global], s)

SettingsOK == SettingsTypeOK /\ SavedSurvives /\ ScreenTellsTheNextRun

(***************************************************************************)
(* Store.mu, which SetEnabled gives up around its Save: the changes people *)
(* make, on however many surfaces, all get an answer, or the process goes. *)
(***************************************************************************)
ChangesGetAnAnswer ==
  \A p \in Proc : (\E t \in Via : Busy(p, t)) ~> (\A t \in Via : ~Busy(p, t))

(***************************************************************************)
(* hostcfg.go says of SetEnabled that a decision the interface says is     *)
(* remembered has to be remembered across a kill: it is in the file.       *)
(***************************************************************************)
ToggledIsRemembered == \A w \in told : w.via = "tab" => InFile(w)

(***************************************************************************)
(* settings.go says of the screen one opens to change a setting that it    *)
(* saves now: what it reports as changed, a service's own too, is saved.   *)
(***************************************************************************)
EditedIsSaved == \A w \in told : w.via \in {"terminal", "board"} => InFile(w)

(***************************************************************************)
(* Every file says it is safe to edit by hand: no save replaces what does  *)
(* not parse, or changes a setting its process was not asked to change.    *)
(***************************************************************************)
SafeToEditByHand ==
  [][\A p \in Proc, t \in Via : WriteYAML(p, t) =>
       /\ broken' = broken
       /\ \A f \in File, s \in Setting :
            disk'[f][s] # disk[f][s] => <<f, s>> \in aimed[p]]_settingsVars

(***************************************************************************)
(* tui.go says the interface fills the desk where the plain session does,  *)
(* so the two cannot disagree about where a question goes: a changed       *)
(* prompt setting does not take the last place away where an approval can  *)
(* be answered, unless it says deny (rebuildPrompter keeps it).            *)
(***************************************************************************)
InterfaceCanAnswer ==
  \A p \in Interface :
    asks[p] = {} \/ kind[p].available = {} \/ asks[p] \cap kind[p].available # {}
=============================================================================
