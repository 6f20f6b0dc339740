--------------------------- MODULE Settings_proofs --------------------------
(***************************************************************************)
(* Proofs about the configuration files, for any hosts, settings, levels,  *)
(* processes and bounds, however many processes and people write a file.   *)
(***************************************************************************)
EXTENDS Settings, TLAPS

Stage == {"idle", "set", "saving"}
Plain == [phase : Stage, left : SUBSET File, failed : BOOLEAN]
Changing == [phase : Stage, left : SUBSET File, failed : BOOLEAN,
             file : File, setting : Setting, value : Value]
Job == Plain \cup Changing

VarsTyped ==
  /\ disk \in [File -> Doc] /\ broken \subseteq File
  /\ mem \in [Proc -> [File -> Doc \cup {Unread}]]
  /\ kind \in [Proc -> Kind \cup {Down}]
  /\ dirty \in [Proc -> SUBSET File] /\ stale \in [Proc -> SUBSET File]
  /\ aimed \in [Proc -> SUBSET (File \X Setting)]
  /\ lock \in [Proc -> Via \cup {Nobody}]
  /\ job \in [Proc -> [Via -> Job]]
  /\ armed \in [Proc -> Level] /\ editor \in [Proc -> Setting \cup {Unset}]
  /\ asks \in [Proc -> SUBSET (Surface \cup Value)]
  /\ told \subseteq [file : File, setting : Setting, value : Value, via : Via \cup {"editor"}]

(***************************************************************************)
(* A process that is down holds nothing; one that is up has read its two   *)
(* files; only what was read is changed.                                   *)
(***************************************************************************)
DownHoldNothing ==
  \A p \in Proc : kind[p] = Down =>
    /\ dirty[p] = {} /\ stale[p] = {} /\ \A f \in File : mem[p][f] = Unread
    /\ \A t \in Via : ~Busy(p, t)
UpHaveRead == \A p \in Proc : kind[p] # Down => mem[p][Home[p]] # Unread /\ mem[p][Global] # Unread
DirtyIsRead == \A p \in Proc : \A f \in dirty[p] : mem[p][f] # Unread

(***************************************************************************)
(* Until somebody else writes the file, a copy of it differs from it only  *)
(* where its process was asked to change it, and not at all unless it is   *)
(* to be written.                                                          *)
(***************************************************************************)
Faithful(p, f) ==
  /\ f \notin broken
  /\ f \notin dirty[p] => mem[p][f] = disk[f]
  /\ \A s \in Setting : mem[p][f][s] # disk[f][s] => <<f, s>> \in aimed[p]
CopiesAreFaithful ==
  \A p \in Proc, f \in File : mem[p][f] # Unread /\ f \notin stale[p] => Faithful(p, f)

(***************************************************************************)
(* Who saves holds the lock, writes what has changed, and knows of every   *)
(* file left out that it failed.                                           *)
(***************************************************************************)
SavingIsHeld ==
  \A p \in Proc, t \in Via : job[p][t].phase = "saving" =>
    /\ lock[p] = t /\ job[p][t].left \subseteq dirty[p]
    /\ t # "exit" => \/ job[p][t].file \notin dirty[p] \/ job[p][t].file \in job[p][t].left
                     \/ job[p][t].failed
ChangesAreKnown ==
  \A p \in Proc, t \in Via : Busy(p, t) /\ t # "exit" =>
    job[p][t] \in Changing /\ mem[p][job[p][t].file] # Unread

Kept == DownHoldNothing /\ UpHaveRead /\ DirtyIsRead /\ CopiesAreFaithful
Held == SavingIsHeld /\ ChangesAreKnown
SettingsInv == VarsTyped /\ Kept /\ Held /\ SavedSurvives

(***************************************************************************)
(* Jobs, and what a step makes of one.                                     *)
(***************************************************************************)
LEMMA JobsHave ==
  ASSUME NEW j \in Job
  PROVE  j.phase \in Stage /\ j.left \in SUBSET File /\ j.failed \in BOOLEAN
BY DEF Job, Plain, Changing

(***************************************************************************)
(* A surface with nothing to save.                                         *)
(***************************************************************************)
LEMMA IdleIsAJob == Idle \in Job /\ Idle.phase = "idle"
BY DEF Idle, Job, Plain, Stage

(***************************************************************************)
(* What Change leaves to be saved.                                         *)
(***************************************************************************)
LEMMA ChangeIsAJob ==
  ASSUME NEW f \in File, NEW s \in Setting, NEW v \in Value
  PROVE  LET j == [phase |-> "set", left |-> {}, failed |-> FALSE,
                   file |-> f, setting |-> s, value |-> v]
         IN j \in Changing /\ j.phase = "set" /\ j.file = f
BY DEF Changing, Stage

(***************************************************************************)
(* A save that begins keeps what it is about.                              *)
(***************************************************************************)
LEMMA JobBegins ==
  ASSUME NEW j \in Job, NEW L \in SUBSET File
  PROVE  LET k == [j EXCEPT !.phase = "saving", !.left = L]
         IN /\ k \in Job /\ k.phase = "saving" /\ k.left = L /\ k.failed = j.failed
            /\ j \in Changing => k \in Changing /\ k.file = j.file
<1>1. CASE j \in Plain
  BY <1>1 DEF Job, Plain, Changing, Stage
<1>2. CASE j \in Changing
  BY <1>2 DEF Job, Plain, Changing, Stage
<1> QED BY <1>1, <1>2 DEF Job

(***************************************************************************)
(* A file that was written is no longer left.                              *)
(***************************************************************************)
LEMMA JobWrites ==
  ASSUME NEW j \in Job, NEW L \in SUBSET File
  PROVE  LET k == [j EXCEPT !.left = L]
         IN /\ k \in Job /\ k.phase = j.phase /\ k.left = L /\ k.failed = j.failed
            /\ j \in Changing => k \in Changing /\ k.file = j.file
<1>1. CASE j \in Plain
  BY <1>1 DEF Job, Plain, Changing, Stage
<1>2. CASE j \in Changing
  BY <1>2 DEF Job, Plain, Changing, Stage
<1> QED BY <1>1, <1>2 DEF Job

(***************************************************************************)
(* One that could not be written is not left either, and is remembered.    *)
(***************************************************************************)
LEMMA JobFails ==
  ASSUME NEW j \in Job, NEW L \in SUBSET File
  PROVE  LET k == [j EXCEPT !.left = L, !.failed = TRUE]
         IN /\ k \in Job /\ k.phase = j.phase /\ k.left = L /\ k.failed
            /\ j \in Changing => k \in Changing /\ k.file = j.file
<1>1. CASE j \in Plain
  BY <1>1 DEF Job, Plain, Changing, Stage
<1>2. CASE j \in Changing
  BY <1>2 DEF Job, Plain, Changing, Stage
<1> QED BY <1>1, <1>2 DEF Job

(***************************************************************************)
(* A save that is asked for.                                               *)
(***************************************************************************)
LEMMA JobSet ==
  ASSUME NEW j \in Job
  PROVE  LET k == [j EXCEPT !.phase = "set"] IN k \in Job /\ k.phase = "set"
<1>1. CASE j \in Plain
  BY <1>1 DEF Job, Plain, Changing, Stage
<1>2. CASE j \in Changing
  BY <1>2 DEF Job, Plain, Changing, Stage
<1> QED BY <1>1, <1>2 DEF Job

(***************************************************************************)
(* The job of one surface is replaced and no other.                        *)
(***************************************************************************)
LEMMA OneJobSet ==
  ASSUME job \in [Proc -> [Via -> Job]], NEW p \in Proc, NEW t \in Via, NEW k \in Job,
         job' = [job EXCEPT ![p][t] = k]
  PROVE  /\ job' \in [Proc -> [Via -> Job]] /\ job'[p][t] = k
         /\ \A q \in Proc, u \in Via : q # p \/ u # t => job'[q][u] = job[q][u]
OBVIOUS

(***************************************************************************)
(* One place of one copy is changed.                                       *)
(***************************************************************************)
LEMMA CopySet ==
  ASSUME mem \in [Proc -> [File -> Doc \cup {Unread}]], NEW p \in Proc, NEW f \in File,
         mem[p][f] # Unread, NEW s \in Setting, NEW v \in Value, mem' = [mem EXCEPT ![p][f][s] = v]
  PROVE  /\ mem' \in [Proc -> [File -> Doc \cup {Unread}]]
         /\ mem'[p][f] # Unread /\ mem'[p][f][s] = v
         /\ \A r \in Setting \ {s} : mem'[p][f][r] = mem[p][f][r]
         /\ \A g \in File \ {f} : mem'[p][g] = mem[p][g]
         /\ \A q \in Proc \ {p} : mem'[q] = mem[q]
<1>1. mem[p][f] \in Doc
  OBVIOUS
<1>2. [mem[p][f] EXCEPT ![s] = v] \in Doc
  BY <1>1 DEF Doc
<1>3. mem' = [mem EXCEPT ![p] = [mem[p] EXCEPT ![f] = [mem[p][f] EXCEPT ![s] = v]]]
  OBVIOUS
<1>4. mem'[p][f] = [mem[p][f] EXCEPT ![s] = v]
  BY <1>3
<1>5. Unread \notin Doc
  BY SettingsAssumption
<1>6. mem' \in [Proc -> [File -> Doc \cup {Unread}]]
  BY <1>2, <1>3
<1>7. mem'[p][f][s] = v /\ \A r \in Setting \ {s} : mem'[p][f][r] = mem[p][f][r]
  BY <1>1, <1>4 DEF Doc
<1>8. mem'[p][f] # Unread
  BY <1>2, <1>4, <1>5
<1>9. (\A g \in File \ {f} : mem'[p][g] = mem[p][g]) /\ \A q \in Proc \ {p} : mem'[q] = mem[q]
  BY <1>3
<1> QED BY <1>6, <1>7, <1>8, <1>9

(***************************************************************************)
(* A change in memory is remembered to be written, and as asked for.       *)
(***************************************************************************)
LEMMA ChangeKeeps ==
  ASSUME SettingsInv, NEW p \in Proc, NEW t \in Via \ {"exit"}, NEW f \in File,
         NEW s \in Setting, NEW v \in Value, mem[p][f] # Unread,
         Change(p, t, f, s, v), UNCHANGED lock,
         armed' \in [Proc -> Level], editor' \in [Proc -> Setting \cup {Unset}]
  PROVE  SettingsInv'
<1>1. /\ kind[p] # Down /\ lock[p] = Nobody
      /\ UNCHANGED <<disk, broken, told, stale, kind, asks>>
  BY DEF Change, MayChange, up, fileVars
<1>2. /\ mem' \in [Proc -> [File -> Doc \cup {Unread}]]
      /\ mem'[p][f] # Unread /\ mem'[p][f][s] = v
      /\ \A r \in Setting \ {s} : mem'[p][f][r] = mem[p][f][r]
      /\ \A g \in File \ {f} : mem'[p][g] = mem[p][g]
      /\ \A q \in Proc \ {p} : mem'[q] = mem[q]
  BY CopySet DEF Change, SettingsInv, VarsTyped
<1>3. /\ dirty' \in [Proc -> SUBSET File] /\ dirty'[p] = dirty[p] \cup {f}
      /\ \A q \in Proc \ {p} : dirty'[q] = dirty[q]
  BY DEF Change, SettingsInv, VarsTyped
<1>4. /\ aimed' \in [Proc -> SUBSET (File \X Setting)] /\ aimed'[p] = aimed[p] \cup {<<f, s>>}
      /\ \A q \in Proc \ {p} : aimed'[q] = aimed[q]
  BY DEF Change, SettingsInv, VarsTyped
<1>5. /\ job' \in [Proc -> [Via -> Job]] /\ job'[p][t] \in Changing
      /\ job'[p][t].phase = "set" /\ job'[p][t].file = f
      /\ \A q \in Proc, u \in Via : q # p \/ u # t => job'[q][u] = job[q][u]
  <2> DEFINE j == [phase |-> "set", left |-> {}, failed |-> FALSE,
                   file |-> f, setting |-> s, value |-> v]
  <2>1. j \in Changing /\ j.phase = "set" /\ j.file = f
    BY ChangeIsAJob
  <2>2. job' = [job EXCEPT ![p][t] = j] /\ job \in [Proc -> [Via -> Job]] /\ t \in Via
    BY DEF Change, SettingsInv, VarsTyped
  <2> HIDE DEF j
  <2>3. j \in Job
    BY <2>1 DEF Job
  <2> QED BY <2>1, <2>2, <2>3, OneJobSet
<1>6. VarsTyped'
  <2>1. /\ lock' \in [Proc -> Via \cup {Nobody}] /\ kind' \in [Proc -> Kind \cup {Down}]
        /\ disk' \in [File -> Doc] /\ broken' \subseteq File
        /\ stale' \in [Proc -> SUBSET File] /\ asks' \in [Proc -> SUBSET (Surface \cup Value)]
        /\ told' \subseteq [file : File, setting : Setting, value : Value,
                            via : Via \cup {"editor"}]
    BY <1>1 DEF SettingsInv, VarsTyped
  <2> QED BY <1>2, <1>3, <1>4, <1>5, <2>1 DEF VarsTyped
<1>7. Kept'
  <2>1. DownHoldNothing'
    <3> SUFFICES ASSUME NEW q \in Proc, kind'[q] = Down
                 PROVE  /\ dirty'[q] = {} /\ stale'[q] = {}
                        /\ \A g \in File : mem'[q][g] = Unread
                        /\ \A u \in Via : ~Busy(q, u)'
      BY DEF DownHoldNothing
    <3>1. q # p /\ kind[q] = Down
      BY <1>1
    <3>2. mem'[q] = mem[q] /\ dirty'[q] = dirty[q] /\ \A u \in Via : job'[q][u] = job[q][u]
      BY <1>2, <1>3, <1>5, <3>1
    <3> QED BY <1>1, <3>1, <3>2 DEF SettingsInv, Kept, DownHoldNothing, Busy
  <2>2. UpHaveRead'
    <3>1. \A q \in Proc, g \in File : mem[q][g] # Unread => mem'[q][g] # Unread
      BY <1>2
    <3> QED BY <1>1, <3>1, SettingsAssumption DEF SettingsInv, Kept, UpHaveRead, File
  <2>3. DirtyIsRead'
    <3> SUFFICES ASSUME NEW q \in Proc, NEW g \in dirty'[q] PROVE mem'[q][g] # Unread
      BY DEF DirtyIsRead
    <3>1. g \in File /\ (g \in dirty[q] \/ (q = p /\ g = f))
      BY <1>3
    <3>2. CASE q = p /\ g = f
      BY <1>2, <3>2
    <3>3. CASE g \in dirty[q]
      <4>1. mem[q][g] # Unread
        BY <3>3 DEF SettingsInv, Kept, DirtyIsRead
      <4> QED BY <1>2, <3>1, <4>1
    <3> QED BY <3>1, <3>2, <3>3
  <2>4. CopiesAreFaithful'
    <3> SUFFICES ASSUME NEW q \in Proc, NEW g \in File, mem'[q][g] # Unread, g \notin stale[q]
                 PROVE  /\ g \notin broken
                        /\ g \notin dirty'[q] => mem'[q][g] = disk[g]
                        /\ \A r \in Setting : mem'[q][g][r] # disk[g][r] => <<g, r>> \in aimed'[q]
      BY <1>1 DEF CopiesAreFaithful, Faithful
    <3>1. mem[q][g] # Unread
      BY <1>2
    <3>2. /\ g \notin broken
          /\ g \notin dirty[q] => mem[q][g] = disk[g]
          /\ \A r \in Setting : mem[q][g][r] # disk[g][r] => <<g, r>> \in aimed[q]
      BY <3>1 DEF SettingsInv, Kept, CopiesAreFaithful, Faithful
    <3>3. CASE q # p
      BY <1>2, <1>3, <1>4, <3>2, <3>3
    <3>4. CASE q = p /\ g # f
      BY <1>2, <1>3, <1>4, <3>2, <3>4
    <3>5. CASE q = p /\ g = f
      BY <1>2, <1>3, <1>4, <3>2, <3>5
    <3> QED BY <3>3, <3>4, <3>5
  <2> QED BY <2>1, <2>2, <2>3, <2>4 DEF Kept
<1>8. Held'
  <2>1. SavingIsHeld'
    <3>1. \A u \in Via : job'[p][u].phase # "saving"
      BY <1>1, <1>5 DEF SettingsInv, Held, SavingIsHeld, Via, Nobody
    <3> QED BY <1>3, <1>5, <3>1 DEF SettingsInv, Held, SavingIsHeld
  <2>2. ChangesAreKnown'
    <3>1. \A q \in Proc, g \in File : mem[q][g] # Unread => mem'[q][g] # Unread
      BY <1>2
    <3>2. \A q \in Proc, u \in Via : job[q][u] \in Changing => job[q][u].file \in File
      BY DEF Changing
    <3> SUFFICES ASSUME NEW q \in Proc, NEW u \in Via, Busy(q, u)', u # "exit"
                 PROVE  job'[q][u] \in Changing /\ mem'[q][job'[q][u].file] # Unread
      BY DEF ChangesAreKnown
    <3>3. CASE q = p /\ u = t
      BY <1>2, <1>5, <3>3
    <3>4. CASE q # p \/ u # t
      <4>1. job'[q][u] = job[q][u]
        BY <1>5, <3>4
      <4>2. job[q][u] \in Changing /\ mem[q][job[q][u].file] # Unread
        BY <4>1 DEF SettingsInv, Held, ChangesAreKnown, Busy
      <4> QED BY <3>1, <3>2, <4>1, <4>2
    <3> QED BY <3>3, <3>4
  <2> QED BY <2>1, <2>2 DEF Held
<1>9. SavedSurvives'
  BY <1>1 DEF SettingsInv, SavedSurvives, InFile
<1> QED BY <1>6, <1>7, <1>8, <1>9 DEF SettingsInv

(***************************************************************************)
(* The surfaces that make a change: the file is one of the two the process *)
(* has read.                                                               *)
(***************************************************************************)
LEMMA LevelFileIsRead ==
  ASSUME SettingsInv, NEW p \in Proc, kind[p] # Down, NEW level \in Level
  PROVE  LevelFile(p, level) \in File /\ mem[p][LevelFile(p, level)] # Unread
<1>1. Home[p] \in Host
  BY SettingsAssumption
<1> QED BY <1>1 DEF LevelFile, File, SettingsInv, Kept, UpHaveRead

(***************************************************************************)
(* The level an edit is made at: the one the person chose for a setting of *)
(* either level, else the only one the setting has.                        *)
(***************************************************************************)
LEMMA EditLevelIsLevel ==
  ASSUME NEW p \in Proc, NEW s \in Setting, armed \in [Proc -> Level]
  PROVE  EditLevel(p, s) \in Level
<1>1. Levels[s] \subseteq Level /\ Levels[s] # {}
  BY SettingsAssumption
<1>2. (CHOOSE level \in Levels[s] : TRUE) \in Levels[s]
  BY <1>1
<1> QED BY <1>1, <1>2 DEF EditLevel

(***************************************************************************)
(* The board writes at the level that was named.                           *)
(***************************************************************************)
LEMMA BoardKeeps ==
  ASSUME SettingsInv, NEW p \in Proc, BoardStep(p)
  PROVE  SettingsInv'
<1>1. PICK s \in Setting, level \in Level, v \in Value : BoardSets(p, s, level, v)
  BY DEF BoardStep
<1>2. /\ kind[p] # Down /\ Change(p, "board", LevelFile(p, level), s, v)
      /\ UNCHANGED <<lock, armed, editor>>
  BY <1>1 DEF BoardSets, MayChange, up, screenVars
<1>3. LevelFile(p, level) \in File /\ mem[p][LevelFile(p, level)] # Unread
  BY <1>2, LevelFileIsRead
<1>4. armed' \in [Proc -> Level] /\ editor' \in [Proc -> Setting \cup {Unset}]
  BY <1>2 DEF SettingsInv, VarsTyped
<1>5. "board" \in Via \ {"exit"}
  BY DEF Via
<1> QED BY <1>2, <1>3, <1>4, <1>5, ChangeKeeps

(***************************************************************************)
(* A service writes for its own host.                                      *)
(***************************************************************************)
LEMMA ServiceKeeps ==
  ASSUME SettingsInv, NEW p \in Proc, NEW s \in Owned, NEW v \in Value,
         ServiceSets(p, s, v)
  PROVE  SettingsInv'
<1>1. kind[p] # Down /\ Change(p, "service", Home[p], s, v) /\ UNCHANGED <<lock, armed, editor>>
  BY DEF ServiceSets, Change, MayChange, up, screenVars
<1>2. LevelFile(p, "host") = Home[p] /\ "host" \in Level /\ "service" \in Via \ {"exit"}
  BY DEF LevelFile, Level, Via
<1>3. Home[p] \in File /\ mem[p][Home[p]] # Unread /\ s \in Setting
  BY <1>1, <1>2, LevelFileIsRead, SettingsAssumption
<1>4. armed' \in [Proc -> Level] /\ editor' \in [Proc -> Setting \cup {Unset}]
  BY <1>1 DEF SettingsInv, VarsTyped
<1> QED BY <1>1, <1>2, <1>3, <1>4, ChangeKeeps

(***************************************************************************)
(* What draws or types on the screen leaves every file and copy alone.     *)
(***************************************************************************)
LEMMA ScreenKeeps ==
  ASSUME SettingsInv, UNCHANGED <<fileVars, procVars, lock, job, asks>>,
         armed' \in [Proc -> Level], editor' \in [Proc -> Setting \cup {Unset}]
  PROVE  SettingsInv'
<1>1. UNCHANGED <<disk, broken, told, stale, kind, mem, dirty, aimed, lock, job, asks>>
  BY DEF fileVars, procVars
<1>2. VarsTyped'
  BY <1>1 DEF SettingsInv, VarsTyped
<1>3. Kept' /\ Held'
  BY <1>1 DEF SettingsInv, Kept, Held, DownHoldNothing, UpHaveRead, DirtyIsRead,
              CopiesAreFaithful, Faithful, SavingIsHeld, ChangesAreKnown, Busy
<1>4. SavedSurvives'
  BY <1>1 DEF SettingsInv, SavedSurvives, InFile
<1> QED BY <1>2, <1>3, <1>4 DEF SettingsInv

(***************************************************************************)
(* The Config and the Services tabs.                                       *)
(***************************************************************************)
LEMMA TerminalKeeps ==
  ASSUME SettingsInv, NEW p \in Proc, TerminalStep(p)
  PROVE  SettingsInv'
<1>1. armed \in [Proc -> Level] /\ editor \in [Proc -> Setting \cup {Unset}]
  BY DEF SettingsInv, VarsTyped
<1>2. {"terminal", "tab"} \subseteq Via \ {"exit"}
  BY DEF Via
<1>3. CASE Arm(p)
  BY <1>1, <1>3, ScreenKeeps DEF Arm, Level
<1>4. ASSUME NEW s \in Setting \ Owned, NEW v \in Value, StepConfig(p, s, v)
      PROVE  SettingsInv'
  <2>1. /\ kind[p] # Down /\ Change(p, "terminal", LevelFile(p, EditLevel(p, s)), s, v)
        /\ UNCHANGED <<lock, armed, editor>>
    BY <1>4 DEF StepConfig, Interface, up, screenVars
  <2>2. EditLevel(p, s) \in Level
    BY <1>1, EditLevelIsLevel
  <2> QED BY <1>1, <1>2, <2>1, <2>2, LevelFileIsRead, ChangeKeeps
<1>5. ASSUME NEW s \in Setting, OpenEditor(p, s) PROVE SettingsInv'
  BY <1>1, <1>5, ScreenKeeps DEF OpenEditor
<1>6. ASSUME NEW v \in Value, CommitEditor(p, v) PROVE SettingsInv'
  <2> DEFINE s == editor[p]
  <2>1. /\ kind[p] # Down /\ Change(p, "terminal", LevelFile(p, EditLevel(p, s)), s, v)
        /\ UNCHANGED <<lock, armed>> /\ editor' = [editor EXCEPT ![p] = Unset]
    BY <1>6 DEF CommitEditor, Change, MayChange, up
  <2>2. s \in Setting
    BY <1>1, <1>6 DEF CommitEditor
  <2> HIDE DEF s
  <2>3. EditLevel(p, s) \in Level
    BY <1>1, <2>2, EditLevelIsLevel
  <2>4. armed' \in [Proc -> Level] /\ editor' \in [Proc -> Setting \cup {Unset}]
    BY <1>1, <2>1
  <2> QED BY <1>2, <2>1, <2>2, <2>3, <2>4, LevelFileIsRead, ChangeKeeps
<1>7. CASE CloseEditor(p)
  BY <1>1, <1>7, ScreenKeeps DEF CloseEditor
<1>8. ASSUME NEW s \in Service, Toggle(p, s) PROVE SettingsInv'
  <2> DEFINE v == IF InForce(p, s) = "on" THEN "off" ELSE "on"
  <2>1. /\ kind[p] # Down /\ Change(p, "tab", Home[p], s, v)
        /\ UNCHANGED <<lock, armed, editor>>
    BY <1>8 DEF Toggle, Interface, up, screenVars
  <2>2. s \in Setting /\ {"on", "off"} \subseteq Value
    BY SettingsAssumption DEF Value
  <2>3. v \in Value
    BY <2>2
  <2> HIDE DEF v
  <2>4. LevelFile(p, "host") = Home[p] /\ "host" \in Level
    BY DEF LevelFile, Level
  <2>5. Home[p] \in File /\ mem[p][Home[p]] # Unread
    BY <2>1, <2>4, LevelFileIsRead
  <2> QED BY <1>1, <1>2, <2>1, <2>2, <2>3, <2>5, ChangeKeeps
<1> QED BY <1>3, <1>4, <1>5, <1>6, <1>7, <1>8 DEF TerminalStep

(***************************************************************************)
(* A process that starts has read both files as they are.                  *)
(***************************************************************************)
LEMMA StartKeeps ==
  ASSUME SettingsInv, NEW p \in Proc, NEW k \in Kind, Start(p, k)
  PROVE  SettingsInv'
<1>1. /\ kind[p] = Down
      /\ UNCHANGED <<disk, broken, told, stale, dirty, aimed, lock, job, armed, editor>>
  BY DEF Start, up, fileVars, screenVars
<1>2. kind' = [kind EXCEPT ![p] = k] /\ k # Down
  BY SettingsAssumption DEF Start
<1>3. Global \notin broken /\ Home[p] \notin broken /\ Home[p] \in File /\ Global \in File
  BY SettingsAssumption DEF Start, Readable, File
<1>4. /\ mem' = [mem EXCEPT ![p] = [f \in File |->
                   IF f = Home[p] THEN disk[f] ELSE IF f = Global THEN disk[f] ELSE Unread]]
      /\ disk[Home[p]] \in Doc /\ disk[Global] \in Doc
  <2>1. EmptyIfBroken(Home[p]) = disk[Home[p]] /\ EmptyIfBroken(Global) = disk[Global]
    BY <1>3 DEF EmptyIfBroken
  <2>2. mem' = [mem EXCEPT ![p] = [f \in File |->
                  IF f = Home[p] THEN disk[Home[p]]
                  ELSE IF f = Global THEN disk[Global] ELSE Unread]]
    BY <2>1 DEF Start
  <2>3. disk[Home[p]] \in Doc /\ disk[Global] \in Doc
    BY <1>3 DEF SettingsInv, VarsTyped
  <2>4. [f \in File |-> IF f = Home[p] THEN disk[Home[p]]
                        ELSE IF f = Global THEN disk[Global] ELSE Unread]
        = [f \in File |-> IF f = Home[p] THEN disk[f] ELSE IF f = Global THEN disk[f] ELSE Unread]
    OBVIOUS
  <2> QED BY <2>2, <2>3, <2>4
<1>5. /\ mem' \in [Proc -> [File -> Doc \cup {Unread}]]
      /\ \A q \in Proc \ {p} : mem'[q] = mem[q]
      /\ \A f \in File : mem'[p][f] # Unread => mem'[p][f] = disk[f] /\ f \notin broken
      /\ mem'[p][Home[p]] # Unread /\ mem'[p][Global] # Unread
  <2>1. mem \in [Proc -> [File -> Doc \cup {Unread}]]
    BY DEF SettingsInv, VarsTyped
  <2>2. Unread \notin Doc
    BY SettingsAssumption
  <2> QED BY <1>3, <1>4, <2>1, <2>2
<1>6. /\ asks' \in [Proc -> SUBSET (Surface \cup Value)]
      /\ \A q \in Proc \ {p} : asks'[q] = asks[q]
  <2>1. PICK v : asks' = [asks EXCEPT ![p] = ResolveSurfaces(k, v)]
    BY DEF Start
  <2>2. ResolveSurfaces(k, v) \subseteq k.available /\ k.available \subseteq Surface
    BY SettingsAssumption DEF ResolveSurfaces
  <2> QED BY <2>1, <2>2 DEF SettingsInv, VarsTyped
<1>7. VarsTyped'
  <2>1. kind' \in [Proc -> Kind \cup {Down}]
    BY <1>2 DEF SettingsInv, VarsTyped
  <2> QED BY <1>1, <1>5, <1>6, <2>1 DEF SettingsInv, VarsTyped
<1>8. Kept'
  <2>1. DownHoldNothing'
    <3> SUFFICES ASSUME NEW q \in Proc, kind'[q] = Down
                 PROVE  /\ dirty'[q] = {} /\ stale'[q] = {}
                        /\ \A g \in File : mem'[q][g] = Unread
                        /\ \A u \in Via : ~Busy(q, u)'
      BY DEF DownHoldNothing
    <3>1. q # p /\ kind[q] = Down
      BY <1>2 DEF SettingsInv, VarsTyped
    <3> QED BY <1>1, <1>5, <3>1 DEF SettingsInv, Kept, DownHoldNothing, Busy
  <2>2. UpHaveRead'
    BY <1>2, <1>5 DEF SettingsInv, VarsTyped, Kept, UpHaveRead
  <2>3. DirtyIsRead'
    BY <1>1, <1>5 DEF SettingsInv, VarsTyped, Kept, DirtyIsRead, DownHoldNothing
  <2>4. CopiesAreFaithful'
    <3> SUFFICES ASSUME NEW q \in Proc, NEW g \in File, mem'[q][g] # Unread, g \notin stale[q]
                 PROVE  /\ g \notin broken
                        /\ g \notin dirty[q] => mem'[q][g] = disk[g]
                        /\ \A r \in Setting : mem'[q][g][r] # disk[g][r] => <<g, r>> \in aimed[q]
      BY <1>1 DEF CopiesAreFaithful, Faithful
    <3>1. CASE q = p
      BY <1>5, <3>1
    <3>2. CASE q # p
      BY <1>5, <3>2 DEF SettingsInv, Kept, CopiesAreFaithful, Faithful
    <3> QED BY <3>1, <3>2
  <2> QED BY <2>1, <2>2, <2>3, <2>4 DEF Kept
<1>9. Held'
  <2>1. SavingIsHeld'
    BY <1>1 DEF SettingsInv, Held, SavingIsHeld
  <2>2. ChangesAreKnown'
    <3> SUFFICES ASSUME NEW q \in Proc, NEW u \in Via, Busy(q, u)', u # "exit"
                 PROVE  job[q][u] \in Changing /\ mem'[q][job[q][u].file] # Unread
      BY <1>1 DEF ChangesAreKnown
    <3>1. q # p
      BY <1>1 DEF SettingsInv, Kept, DownHoldNothing, Busy
    <3> QED BY <1>1, <1>5, <3>1 DEF SettingsInv, Held, ChangesAreKnown, Busy
  <2> QED BY <2>1, <2>2 DEF Held
<1>10. SavedSurvives'
  BY <1>1 DEF SettingsInv, SavedSurvives, InFile
<1> QED BY <1>7, <1>8, <1>9, <1>10 DEF SettingsInv

(***************************************************************************)
(* A save begins with the lock and what has changed; a write that fails    *)
(* leaves its file changed and is remembered; a quit is one more save.     *)
(***************************************************************************)
LEMMA JobStepKeeps ==
  ASSUME SettingsInv, NEW p \in Proc, NEW t \in Via,
         UNCHANGED <<fileVars, procVars, screenVars, asks>>,
         lock' \in [Proc -> Via \cup {Nobody}], job' \in [Proc -> [Via -> Job]],
         \A q \in Proc, u \in Via : q # p \/ u # t =>
           job'[q][u] = job[q][u] /\ (job[q][u].phase = "saving" => lock'[q] = lock[q]),
         kind[p] # Down,
         t # "exit" => Busy(p, t),
         job[p][t] \in Changing => job'[p][t] \in Changing /\ job'[p][t].file = job[p][t].file,
         job'[p][t].phase = "saving" =>
           /\ lock'[p] = t /\ job'[p][t].left \subseteq dirty[p]
           /\ t # "exit" => \/ job[p][t].file \notin dirty[p]
                            \/ job[p][t].file \in job'[p][t].left
                            \/ job'[p][t].failed
  PROVE  SettingsInv'
<1>1. UNCHANGED <<disk, broken, told, stale, kind, mem, dirty, aimed, armed, editor, asks>>
  BY DEF fileVars, procVars, screenVars
<1>2. VarsTyped'
  BY <1>1 DEF SettingsInv, VarsTyped
<1>3. Kept'
  <2>1. \A q \in Proc, u \in Via : kind[q] = Down => job'[q][u] = job[q][u]
    OBVIOUS
  <2>2. DownHoldNothing'
    BY <1>1, <2>1 DEF SettingsInv, Kept, DownHoldNothing, Busy
  <2> QED BY <1>1, <2>2 DEF SettingsInv, Kept, UpHaveRead, DirtyIsRead, CopiesAreFaithful, Faithful
<1>4. t # "exit" => job[p][t] \in Changing /\ mem[p][job[p][t].file] # Unread
  BY DEF SettingsInv, Held, ChangesAreKnown
<1>5. Held'
  <2>1. SavingIsHeld'
    <3> SUFFICES ASSUME NEW q \in Proc, NEW u \in Via, job'[q][u].phase = "saving"
                 PROVE  /\ lock'[q] = u /\ job'[q][u].left \subseteq dirty[q]
                        /\ u # "exit" => \/ job'[q][u].file \notin dirty[q]
                                         \/ job'[q][u].file \in job'[q][u].left
                                         \/ job'[q][u].failed
      BY <1>1 DEF SavingIsHeld
    <3>1. CASE q = p /\ u = t
      BY <1>4, <3>1
    <3>2. CASE q # p \/ u # t
      BY <3>2 DEF SettingsInv, Held, SavingIsHeld
    <3> QED BY <3>1, <3>2
  <2>2. ChangesAreKnown'
    BY <1>1, <1>4 DEF SettingsInv, Held, ChangesAreKnown, Busy
  <2> QED BY <2>1, <2>2 DEF Held
<1>6. SavedSurvives'
  BY <1>1 DEF SettingsInv, SavedSurvives, InFile
<1> QED BY <1>2, <1>3, <1>5, <1>6 DEF SettingsInv

(***************************************************************************)
(* The save begins: nobody else of the process is saving.                  *)
(***************************************************************************)
LEMMA SaveBeginsKeeps ==
  ASSUME SettingsInv, NEW p \in Proc, NEW t \in Via, SaveBegins(p, t)
  PROVE  SettingsInv'
<1> DEFINE k == [job[p][t] EXCEPT !.phase = "saving", !.left = dirty[p]]
<1>1. dirty[p] \in SUBSET File /\ job[p][t] \in Job /\ job \in [Proc -> [Via -> Job]]
      /\ lock \in [Proc -> Via \cup {Nobody}]
  BY DEF SettingsInv, VarsTyped
<1>2. /\ k \in Job /\ k.left = dirty[p]
      /\ job[p][t] \in Changing => k \in Changing /\ k.file = job[p][t].file
  BY <1>1, JobBegins
<1>3. job' = [job EXCEPT ![p][t] = k]
  <2>1. job' = [job EXCEPT ![p][t].phase = "saving", ![p][t].left = dirty[p]]
    BY Zenon DEF SaveBegins
  <2>2. [job EXCEPT ![p][t].phase = "saving", ![p][t].left = dirty[p]]
          = [job EXCEPT ![p][t] = [job[p][t] EXCEPT !.phase = "saving", !.left = dirty[p]]]
    BY <1>1
  <2> QED BY <2>1, <2>2, Zenon
<1> HIDE DEF k
<1>4. /\ job' \in [Proc -> [Via -> Job]] /\ job'[p][t] = k
      /\ \A q \in Proc, u \in Via : q # p \/ u # t => job'[q][u] = job[q][u]
  BY <1>1, <1>2, <1>3, OneJobSet
<1>5. /\ kind[p] # Down /\ job[p][t].phase = "set" /\ lock[p] = Nobody
      /\ lock' = [lock EXCEPT ![p] = t] /\ UNCHANGED <<fileVars, procVars, screenVars, asks>>
  BY DEF SaveBegins, up
<1>6. Busy(p, t)
  BY <1>5 DEF Busy
<1>7. \A u \in Via : job[p][u].phase # "saving"
  BY <1>5 DEF SettingsInv, Held, SavingIsHeld, Via, Nobody
<1>8. lock' \in [Proc -> Via \cup {Nobody}] /\ lock'[p] = t
      /\ \A q \in Proc \ {p} : lock'[q] = lock[q]
  BY <1>1, <1>5
<1> QED BY <1>2, <1>4, <1>5, <1>6, <1>7, <1>8, JobStepKeeps

(***************************************************************************)
(* The write that fails.                                                   *)
(***************************************************************************)
LEMMA WriteFailsKeeps ==
  ASSUME SettingsInv, NEW p \in Proc, NEW t \in Via, WriteFails(p, t)
  PROVE  SettingsInv'
<1>1. PICK f \in job[p][t].left :
        /\ Saving(p, t) /\ UNCHANGED <<fileVars, procVars, lock, screenVars, asks>>
        /\ job' = [job EXCEPT ![p][t].left = @ \ {f}, ![p][t].failed = TRUE]
  BY DEF WriteFails
<1>2. job[p][t] \in Job /\ job \in [Proc -> [Via -> Job]]
      /\ lock \in [Proc -> Via \cup {Nobody}]
  BY DEF SettingsInv, VarsTyped
<1>3. job[p][t].left \ {f} \in SUBSET File
  BY <1>2, JobsHave
<1> DEFINE k == [job[p][t] EXCEPT !.left = job[p][t].left \ {f}, !.failed = TRUE]
<1>4. /\ k \in Job /\ k.phase = job[p][t].phase /\ k.left = job[p][t].left \ {f} /\ k.failed
      /\ job[p][t] \in Changing => k \in Changing /\ k.file = job[p][t].file
  BY <1>2, <1>3, JobFails
<1>5. job' = [job EXCEPT ![p][t] = k]
  <2>1. [job EXCEPT ![p][t].left = @ \ {f}, ![p][t].failed = TRUE]
          = [job EXCEPT ![p][t].left = job[p][t].left \ {f}, ![p][t].failed = TRUE]
    BY <1>2
  <2>2. [job EXCEPT ![p][t].left = job[p][t].left \ {f}, ![p][t].failed = TRUE]
          = [job EXCEPT ![p][t] =
               [job[p][t] EXCEPT !.left = job[p][t].left \ {f}, !.failed = TRUE]]
    BY <1>2, <1>3
  <2> QED BY <1>1, <2>1, <2>2, Zenon
<1> HIDE DEF k
<1>6. /\ job' \in [Proc -> [Via -> Job]] /\ job'[p][t] = k
      /\ \A q \in Proc, u \in Via : q # p \/ u # t => job'[q][u] = job[q][u]
  BY <1>2, <1>4, <1>5, OneJobSet
<1>7. kind[p] # Down /\ job[p][t].phase = "saving" /\ lock' = lock
      /\ UNCHANGED <<fileVars, procVars, screenVars, asks>>
  BY <1>1 DEF Saving, up
<1>8. Busy(p, t) /\ lock[p] = t /\ job[p][t].left \subseteq dirty[p]
  BY <1>7 DEF Busy, SettingsInv, Held, SavingIsHeld
<1> QED BY <1>2, <1>4, <1>6, <1>7, <1>8, JobStepKeeps

(***************************************************************************)
(* The last save of a run.                                                 *)
(***************************************************************************)
LEMMA QuitKeeps ==
  ASSUME SettingsInv, NEW p \in Proc, Quit(p)
  PROVE  SettingsInv'
<1>1. /\ kind[p] # Down /\ UNCHANGED <<fileVars, procVars, lock, screenVars, asks>>
      /\ job' = [job EXCEPT ![p]["exit"].phase = "set"]
  BY DEF Quit, up
<1>2. "exit" \in Via
  BY DEF Via
<1>3. job[p]["exit"] \in Job /\ job \in [Proc -> [Via -> Job]]
      /\ lock \in [Proc -> Via \cup {Nobody}]
  BY <1>2 DEF SettingsInv, VarsTyped
<1>4. job[p]["exit"].phase = "idle"
  BY DEF Quit, Busy
<1> DEFINE k == [job[p]["exit"] EXCEPT !.phase = "set"]
<1>5. k \in Job /\ k.phase = "set"
  BY <1>3, JobSet
<1>6. job' = [job EXCEPT ![p]["exit"] = k]
  <2>1. [job EXCEPT ![p]["exit"].phase = "set"]
          = [job EXCEPT ![p]["exit"] = [job[p]["exit"] EXCEPT !.phase = "set"]]
    BY <1>2, <1>3
  <2> QED BY <1>1, <2>1, Zenon
<1>7. job[p]["exit"] \in Changing => k \in Changing /\ k.file = job[p]["exit"].file
  BY DEF Changing, Stage
<1> HIDE DEF k
<1>8. /\ job' \in [Proc -> [Via -> Job]] /\ job'[p]["exit"] = k
      /\ \A q \in Proc, u \in Via : q # p \/ u # "exit" => job'[q][u] = job[q][u]
  BY <1>2, <1>3, <1>5, <1>6, OneJobSet
<1> QED BY <1>1, <1>2, <1>3, <1>5, <1>7, <1>8, JobStepKeeps, SMTT(30)

(***************************************************************************)
(* A write puts a copy on disk and makes the other copies stale. What it   *)
(* undoes of what was recorded it was asked to undo, or knew nothing of.   *)
(***************************************************************************)
LEMMA WriteKeeps ==
  ASSUME SettingsInv, NEW p \in Proc, NEW t \in Via, WriteYAML(p, t)
  PROVE  SettingsInv'
<1>1. PICK f \in job[p][t].left :
        /\ Saving(p, t) /\ disk' = [disk EXCEPT ![f] = mem[p][f]]
        /\ dirty' = [dirty EXCEPT ![p] = @ \ {f}]
        /\ job' = [job EXCEPT ![p][t].left = @ \ {f}]
        /\ broken' = broken \ {f} /\ stale' = [StaleBut(f, p) EXCEPT ![p] = @ \ {f}]
        /\ told' = told \ Overwritten(p, f)
        /\ UNCHANGED <<kind, mem, aimed, lock, screenVars, asks>>
  BY DEF WriteYAML
<1>2. /\ job[p][t] \in Job /\ job \in [Proc -> [Via -> Job]]
      /\ dirty \in [Proc -> SUBSET File] /\ disk \in [File -> Doc]
      /\ broken \subseteq File /\ stale \in [Proc -> SUBSET File]
      /\ mem \in [Proc -> [File -> Doc \cup {Unread}]]
  BY DEF SettingsInv, VarsTyped
<1>3. f \in File /\ job[p][t].left \ {f} \in SUBSET File
  BY <1>2, JobsHave
<1>4. job[p][t].phase = "saving" /\ kind[p] # Down
  BY <1>1 DEF Saving, up
<1>5. lock[p] = t /\ job[p][t].left \subseteq dirty[p]
  BY <1>4 DEF SettingsInv, Held, SavingIsHeld
<1>6. mem[p][f] # Unread
  BY <1>5 DEF SettingsInv, Kept, DirtyIsRead
<1>7. mem[p][f] \in Doc
  BY <1>2, <1>3, <1>6
<1> DEFINE k == [job[p][t] EXCEPT !.left = job[p][t].left \ {f}]
<1>8. /\ k \in Job /\ k.phase = "saving" /\ k.left = job[p][t].left \ {f}
      /\ k.failed = job[p][t].failed
      /\ job[p][t] \in Changing => k \in Changing /\ k.file = job[p][t].file
  BY <1>2, <1>3, <1>4, JobWrites, ZenonT(30)
<1>9. job' = [job EXCEPT ![p][t] = k]
  <2>1. [job EXCEPT ![p][t].left = @ \ {f}]
          = [job EXCEPT ![p][t] = [job[p][t] EXCEPT !.left = job[p][t].left \ {f}]]
    BY <1>2
  <2> QED BY <1>1, <2>1, Zenon
<1> HIDE DEF k
<1>10. /\ job' \in [Proc -> [Via -> Job]] /\ job'[p][t] = k
       /\ \A q \in Proc, u \in Via : q # p \/ u # t => job'[q][u] = job[q][u]
  BY <1>2, <1>8, <1>9, OneJobSet
<1>11. /\ disk' \in [File -> Doc] /\ disk'[f] = mem[p][f]
       /\ \A g \in File \ {f} : disk'[g] = disk[g]
  BY <1>1, <1>2, <1>3, <1>7
<1>12. /\ dirty' \in [Proc -> SUBSET File] /\ dirty'[p] = dirty[p] \ {f}
       /\ \A q \in Proc \ {p} : dirty'[q] = dirty[q]
  BY <1>1, <1>2
<1>13. UNCHANGED <<kind, mem, aimed, lock, armed, editor, asks>>
  BY <1>1 DEF screenVars
<1>14. /\ stale' \in [Proc -> SUBSET File] /\ stale'[p] = stale[p] \ {f}
       /\ \A q \in Proc \ {p} :
            stale'[q] = IF mem[q][f] # Unread THEN stale[q] \cup {f} ELSE stale[q]
  <2> DEFINE others == StaleBut(f, p)
  <2>1. others \in [Proc -> SUBSET File]
    BY <1>2, <1>3 DEF StaleBut
  <2>2. others[p] = stale[p]
    BY DEF StaleBut
  <2>3. \A q \in Proc \ {p} :
          others[q] = IF mem[q][f] # Unread THEN stale[q] \cup {f} ELSE stale[q]
    BY DEF StaleBut
  <2>4. stale' = [others EXCEPT ![p] = @ \ {f}]
    BY <1>1
  <2> HIDE DEF others
  <2> QED BY <2>1, <2>2, <2>3, <2>4
<1>15. VarsTyped'
  <2>1. told' \subseteq told /\ broken' \subseteq File
    BY <1>1, <1>2
  <2> QED BY <1>10, <1>11, <1>12, <1>13, <1>14, <2>1 DEF SettingsInv, VarsTyped
<1>16. Kept'
  <2>1. DownHoldNothing'
    <3> SUFFICES ASSUME NEW q \in Proc, kind[q] = Down
                 PROVE  /\ dirty'[q] = {} /\ stale'[q] = {}
                        /\ \A g \in File : mem[q][g] = Unread
                        /\ \A u \in Via : ~Busy(q, u)'
      BY <1>13 DEF DownHoldNothing
    <3>1. q # p /\ \A u \in Via : job'[q][u] = job[q][u]
      BY <1>4, <1>10
    <3>2. mem[q][f] = Unread
      BY <1>3 DEF SettingsInv, Kept, DownHoldNothing
    <3> QED BY <1>12, <1>14, <3>1, <3>2 DEF SettingsInv, Kept, DownHoldNothing, Busy
  <2>2. UpHaveRead'
    BY <1>13 DEF SettingsInv, Kept, UpHaveRead
  <2>3. DirtyIsRead'
    BY <1>12, <1>13 DEF SettingsInv, VarsTyped, Kept, DirtyIsRead
  <2>4. CopiesAreFaithful'
    <3> SUFFICES ASSUME NEW q \in Proc, NEW g \in File, mem[q][g] # Unread, g \notin stale'[q]
                 PROVE  /\ g \notin broken'
                        /\ g \notin dirty'[q] => mem[q][g] = disk'[g]
                        /\ \A r \in Setting : mem[q][g][r] # disk'[g][r] => <<g, r>> \in aimed[q]
      BY <1>13 DEF CopiesAreFaithful, Faithful
    <3>1. CASE g = f
      <4>1. q = p
        BY <1>14, <3>1
      <4> QED BY <1>1, <1>11, <3>1, <4>1
    <3>2. CASE g # f
      <4>1. g \notin stale[q]
        BY <1>14, <3>2
      <4>2. /\ g \notin broken
            /\ g \notin dirty[q] => mem[q][g] = disk[g]
            /\ \A r \in Setting : mem[q][g][r] # disk[g][r] => <<g, r>> \in aimed[q]
        BY <4>1 DEF SettingsInv, Kept, CopiesAreFaithful, Faithful
      <4> QED BY <1>1, <1>11, <1>12, <3>2, <4>2
    <3> QED BY <3>1, <3>2
  <2> QED BY <2>1, <2>2, <2>3, <2>4 DEF Kept
<1>17. Held'
  <2>1. SavingIsHeld'
    <3> SUFFICES ASSUME NEW q \in Proc, NEW u \in Via, job'[q][u].phase = "saving"
                 PROVE  /\ lock[q] = u /\ job'[q][u].left \subseteq dirty'[q]
                        /\ u # "exit" => \/ job'[q][u].file \notin dirty'[q]
                                         \/ job'[q][u].file \in job'[q][u].left
                                         \/ job'[q][u].failed
      BY <1>13 DEF SavingIsHeld
    <3>1. CASE q = p /\ u = t
      <4>1. u # "exit" => job[p][t] \in Changing
        BY <1>4, <3>1 DEF SettingsInv, Held, ChangesAreKnown, Busy
      <4>2. u # "exit" => \/ job[p][t].file \notin dirty[p] \/ job[p][t].file \in job[p][t].left
                          \/ job[p][t].failed
        BY <1>4, <3>1 DEF SettingsInv, Held, SavingIsHeld
      <4>3. lock[q] = u /\ job'[q][u].left \subseteq dirty'[q]
        BY <1>5, <1>8, <1>10, <1>12, <3>1
      <4> QED BY <1>8, <1>10, <1>12, <3>1, <4>1, <4>2, <4>3
    <3>2. CASE q # p \/ u # t
      <4>1. job'[q][u] = job[q][u]
        BY <1>10, <3>2
      <4>2. lock[q] = u
        BY <4>1 DEF SettingsInv, Held, SavingIsHeld
      <4>3. q # p
        BY <1>5, <3>2, <4>2
      <4> QED BY <1>12, <4>1, <4>3 DEF SettingsInv, Held, SavingIsHeld
    <3> QED BY <3>1, <3>2
  <2>2. ChangesAreKnown'
    <3> SUFFICES ASSUME NEW q \in Proc, NEW u \in Via, Busy(q, u)', u # "exit"
                 PROVE  job'[q][u] \in Changing /\ mem[q][job'[q][u].file] # Unread
      BY <1>13 DEF ChangesAreKnown
    <3>1. Busy(q, u)
      BY <1>4, <1>10 DEF Busy
    <3>2. job[q][u] \in Changing /\ mem[q][job[q][u].file] # Unread
      BY <3>1 DEF SettingsInv, Held, ChangesAreKnown
    <3> QED BY <1>8, <1>10, <3>2
  <2> QED BY <2>1, <2>2 DEF Held
<1>18. SavedSurvives'
  <2> SUFFICES ASSUME NEW w \in told', w.via # "tab", w.setting \notin Viewed
               PROVE  disk'[w.file][w.setting] = w.value
    BY DEF SavedSurvives, InFile
  <2>1. w \in told /\ w \notin Overwritten(p, f)
    BY <1>1
  <2>2. w.file \in File /\ w.setting \in Setting /\ disk[w.file][w.setting] = w.value
    BY <2>1 DEF SettingsInv, VarsTyped, SavedSurvives, InFile
  <2>3. CASE w.file # f
    BY <1>11, <2>2, <2>3
  <2>4. CASE w.file = f
    <3> SUFFICES ASSUME w.value # mem[p][f][w.setting] PROVE FALSE
      BY <1>11, <2>4
    <3>1. f \notin stale[p] /\ <<f, w.setting>> \notin aimed[p]
      BY <2>1, <2>4 DEF Overwritten
    <3>2. mem[p][f][w.setting] # disk[f][w.setting]
      BY <2>2, <2>4
    <3> QED BY <1>3, <1>6, <2>2, <3>1, <3>2
      DEF SettingsInv, Kept, CopiesAreFaithful, Faithful
  <2> QED BY <2>3, <2>4
<1> QED BY <1>15, <1>16, <1>17, <1>18 DEF SettingsInv

(***************************************************************************)
(* Where a changed prompt setting makes a process ask.                     *)
(***************************************************************************)
LEMMA ApplyPromptWithin ==
  ASSUME SettingsInv, NEW p \in Proc, kind[p] # Down
  PROVE  ApplyPrompt(p) \subseteq Surface \cup Value
<1>1. Prompt \in Setting /\ Fallback[Prompt] \in Value /\ Home[p] \in File /\ Global \in File
  BY SettingsAssumption DEF File
<1>2. mem[p][Home[p]] \in Doc /\ mem[p][Global] \in Doc
  BY <1>1 DEF SettingsInv, VarsTyped, Kept, UpHaveRead
<1>3. InForce(p, Prompt) \in Value
  <2>1. mem[p][Home[p]][Prompt] \in Value /\ mem[p][Global][Prompt] \in Value
    BY <1>1, <1>2 DEF Doc
  <2> QED BY <1>1, <2>1 DEF InForce, Resolve
<1> DEFINE v == InForce(p, Prompt)
<1> HIDE DEF v
<1>4. ParseSurfaces(v) \subseteq Surface \cup Value
  BY <1>3 DEF ParseSurfaces, v
<1>5. asks[p] \subseteq Surface \cup Value
  BY DEF SettingsInv, VarsTyped
<1>6. ResolveSurfaces(kind[p], v) \subseteq ParseSurfaces(v)
  BY DEF ResolveSurfaces
<1>7. ApplyPrompt(p) = IF p \in Interface THEN ParseSurfaces(v)
        ELSE IF Honoured(kind[p], v) THEN ResolveSurfaces(kind[p], v) ELSE asks[p]
  BY DEF ApplyPrompt, v
<1> QED BY <1>4, <1>5, <1>6, <1>7

(***************************************************************************)
(* The end of a save, and what its maker is told.                          *)
(***************************************************************************)
LEMMA FinishKeeps ==
  ASSUME SettingsInv, NEW p \in Proc, NEW t \in Via, Finish(p, t)
  PROVE  SettingsInv'
<1> DEFINE j == job[p][t]
           word == [file |-> j.file, setting |-> j.setting, value |-> j.value, via |-> t]
<1>1. /\ kind[p] # Down /\ j.phase = "saving" /\ j.left = {} /\ t # "exit" /\ lock[p] = t
      /\ job' = [job EXCEPT ![p][t] = Idle] /\ lock' = [lock EXCEPT ![p] = Nobody]
      /\ UNCHANGED <<disk, broken, stale, kind, mem, dirty, aimed, armed, editor>>
  BY DEF Finish, Saving, up, procVars, screenVars
<1>2. j \in Changing /\ mem[p][j.file] # Unread
  BY <1>1 DEF SettingsInv, Held, ChangesAreKnown, Busy
<1>3. \/ told' = told
      \/ /\ told' = told \cup {word}
         /\ mem[p][j.file][j.setting] = j.value /\ j.file \notin stale[p]
         /\ ~j.failed \/ t = "tab" \/ j.setting \in Viewed
  BY Zenon DEF Finish, ReportsSaved
<1>4. asks' = asks \/ asks' = [asks EXCEPT ![p] = ApplyPrompt(p)]
  <2>1. asks' = [asks EXCEPT ![p] = asks[p]] \/ asks' = [asks EXCEPT ![p] = ApplyPrompt(p)]
    BY DEF Finish
  <2>2. asks \in [Proc -> SUBSET (Surface \cup Value)]
    BY DEF SettingsInv, VarsTyped
  <2> QED BY <2>1, <2>2
<1>5. j.file \in File /\ j.setting \in Setting /\ j.value \in Value
  BY <1>2 DEF Changing
<1>6. /\ job' \in [Proc -> [Via -> Job]] /\ job'[p][t].phase = "idle"
      /\ \A q \in Proc, u \in Via : q # p \/ u # t => job'[q][u] = job[q][u]
  <2>1. job \in [Proc -> [Via -> Job]] /\ Idle \in Job /\ Idle.phase = "idle"
    BY IdleIsAJob DEF SettingsInv, VarsTyped
  <2> QED BY <1>1, <2>1, OneJobSet
<1>7. ~j.failed => j.file \notin dirty[p]
  BY <1>1 DEF SettingsInv, Held, SavingIsHeld
<1>8. SavedSurvives'
  <2> HIDE DEF j
  <2> SUFFICES ASSUME NEW w \in told', w.via # "tab", w.setting \notin Viewed
               PROVE  disk[w.file][w.setting] = w.value
    BY <1>1 DEF SavedSurvives, InFile
  <2>1. CASE w \in told
    BY <2>1 DEF SettingsInv, SavedSurvives, InFile
  <2>2. CASE w \notin told
    <3>1. w = word /\ mem[p][j.file][j.setting] = j.value /\ j.file \notin stale[p]
          /\ (~j.failed \/ t = "tab" \/ j.setting \in Viewed)
      BY <1>3, <2>2
    <3>2. w.file = j.file /\ w.setting = j.setting /\ w.value = j.value /\ w.via = t
      BY <3>1
    <3>3. mem[p][j.file] = disk[j.file]
      BY <1>2, <1>5, <1>7, <3>1, <3>2 DEF SettingsInv, Kept, CopiesAreFaithful, Faithful
    <3> QED BY <3>1, <3>2, <3>3
  <2> QED BY <2>1, <2>2
<1>9. VarsTyped'
  <2>1. told' \subseteq [file : File, setting : Setting, value : Value, via : Via \cup {"editor"}]
    BY <1>3, <1>5 DEF SettingsInv, VarsTyped
  <2>2. asks' \in [Proc -> SUBSET (Surface \cup Value)]
    <3>1. asks \in [Proc -> SUBSET (Surface \cup Value)]
      BY DEF SettingsInv, VarsTyped
    <3>2. ApplyPrompt(p) \in SUBSET (Surface \cup Value)
      BY <1>1, ApplyPromptWithin
    <3> QED BY <1>4, <3>1, <3>2
  <2> QED BY <1>1, <1>6, <2>1, <2>2 DEF SettingsInv, VarsTyped
<1>10. Kept'
  <2>1. DownHoldNothing'
    BY <1>1, <1>6 DEF SettingsInv, Kept, DownHoldNothing, Busy
  <2> QED BY <1>1, <2>1 DEF SettingsInv, Kept, UpHaveRead, DirtyIsRead, CopiesAreFaithful, Faithful
<1>11. Held'
  <2>1. \A u \in Via \ {t} : job[p][u].phase # "saving"
    BY <1>1 DEF SettingsInv, Held, SavingIsHeld
  <2>2. \A q \in Proc \ {p} : lock'[q] = lock[q]
    BY <1>1 DEF SettingsInv, VarsTyped
  <2>3. SavingIsHeld'
    BY <1>1, <1>6, <2>1, <2>2 DEF SettingsInv, Held, SavingIsHeld
  <2>4. ChangesAreKnown'
    BY <1>1, <1>6 DEF SettingsInv, Held, ChangesAreKnown, Busy
  <2> QED BY <2>3, <2>4 DEF Held
<1> QED BY <1>8, <1>9, <1>10, <1>11 DEF SettingsInv

(***************************************************************************)
(* A process that goes, by itself or not, leaves the files as they are.    *)
(***************************************************************************)
LEMMA GoneKeeps ==
  ASSUME SettingsInv, NEW p \in Proc, Gone(p)
  PROVE  SettingsInv'
<1>1. /\ kind' = [kind EXCEPT ![p] = Down] /\ UNCHANGED <<disk, broken, told>>
      /\ mem' = [mem EXCEPT ![p] = [f \in File |-> Unread]]
      /\ dirty' = [dirty EXCEPT ![p] = {}] /\ aimed' = [aimed EXCEPT ![p] = {}]
      /\ lock' = [lock EXCEPT ![p] = Nobody]
      /\ armed' = [armed EXCEPT ![p] = "host"] /\ editor' = [editor EXCEPT ![p] = Unset]
      /\ asks' = [asks EXCEPT ![p] = {}] /\ stale' = [stale EXCEPT ![p] = {}]
  BY DEF Gone
<1>2. /\ job' \in [Proc -> [Via -> Job]] /\ \A u \in Via : job'[p][u].phase = "idle"
      /\ \A q \in Proc \ {p} : job'[q] = job[q]
  <2>1. job' = [job EXCEPT ![p] = [t \in Via |-> Idle]]
    BY DEF Gone
  <2> QED BY <2>1, IdleIsAJob DEF SettingsInv, VarsTyped
<1>3. VarsTyped'
  BY <1>1, <1>2 DEF SettingsInv, VarsTyped, Level
<1>4. /\ kind'[p] = Down /\ mem'[p] = [f \in File |-> Unread] /\ dirty'[p] = {} /\ stale'[p] = {}
      /\ \A q \in Proc \ {p} :
           /\ kind'[q] = kind[q] /\ mem'[q] = mem[q] /\ dirty'[q] = dirty[q]
           /\ aimed'[q] = aimed[q] /\ lock'[q] = lock[q] /\ stale'[q] = stale[q]
  BY <1>1 DEF SettingsInv, VarsTyped
<1>5. Kept'
  <2>1. DownHoldNothing'
    BY <1>2, <1>4 DEF SettingsInv, Kept, DownHoldNothing, Busy
  <2>2. UpHaveRead'
    BY <1>4 DEF SettingsInv, Kept, UpHaveRead
  <2>3. DirtyIsRead'
    BY <1>4 DEF SettingsInv, Kept, DirtyIsRead
  <2>4. CopiesAreFaithful'
    BY <1>1, <1>4 DEF SettingsInv, Kept, CopiesAreFaithful, Faithful
  <2> QED BY <2>1, <2>2, <2>3, <2>4 DEF Kept
<1>6. Held'
  BY <1>2, <1>4 DEF SettingsInv, Held, SavingIsHeld, ChangesAreKnown, Busy
<1>7. SavedSurvives'
  BY <1>1 DEF SettingsInv, SavedSurvives, InFile
<1> QED BY <1>3, <1>5, <1>6, <1>7 DEF SettingsInv

(***************************************************************************)
(* A hand in a file makes every copy of it stale.                          *)
(***************************************************************************)
LEMMA ByHandKeeps ==
  ASSUME SettingsInv, NEW f \in File, ByHand(f)
  PROVE  SettingsInv'
<1>1. /\ UNCHANGED <<kind, mem, dirty, aimed, lock, job, armed, editor, asks>>
      /\ stale' = [p \in Proc |-> IF mem[p][f] # Unread THEN stale[p] \cup {f} ELSE stale[p]]
  BY DEF ByHand, procVars, screenVars
<1>2. /\ disk \in [File -> Doc] /\ broken \subseteq File /\ stale \in [Proc -> SUBSET File]
      /\ told \subseteq [file : File, setting : Setting, value : Value,
                         via : Via \cup {"editor"}]
      /\ \A w \in told : w.via # "tab" /\ w.setting \notin Viewed
                          => disk[w.file][w.setting] = w.value
  BY DEF SettingsInv, VarsTyped, SavedSurvives, InFile
<1> DEFINE Rewritten ==
             /\ disk' \in [File -> Doc] /\ broken' \subseteq File
             /\ \A g \in File \ {f} : disk'[g] = disk[g] /\ (g \in broken' <=> g \in broken)
             /\ told' \subseteq [file : File, setting : Setting, value : Value,
                                 via : Via \cup {"editor"}]
             /\ \A w \in told' : w.via # "tab" /\ w.setting \notin Viewed
                                  => disk'[w.file][w.setting] = w.value
<1>3. Rewritten
  <2>1. CASE UNCHANGED <<disk, told>> /\ (broken' = broken \ {f} \/ broken' = broken \cup {f})
    BY <1>2, <2>1
  <2>2. ASSUME NEW s \in Service, disk' = [disk EXCEPT ![f][s] = "off"], UNCHANGED broken,
               told' = {w \in told : w.file # f \/ w.setting # s} \cup
                  {[file |-> f, setting |-> s, value |-> "off", via |-> "editor"]}
        PROVE  Rewritten
    <3>1. s \in Setting /\ "off" \in Value
      BY SettingsAssumption DEF Value
    <3>2. disk' = [disk EXCEPT ![f] = [disk[f] EXCEPT ![s] = "off"]]
      BY <1>2, <2>2
    <3>3. [disk[f] EXCEPT ![s] = "off"] \in Doc
      BY <1>2, <3>1 DEF Doc
    <3>4. /\ disk' \in [File -> Doc] /\ \A g \in File \ {f} : disk'[g] = disk[g]
          /\ disk'[f] = [disk[f] EXCEPT ![s] = "off"]
      BY <1>2, <3>2, <3>3
    <3>5. disk'[f][s] = "off" /\ \A r \in Setting \ {s} : disk'[f][r] = disk[f][r]
      BY <1>2, <3>1, <3>4 DEF Doc
    <3> DEFINE word == [file |-> f, setting |-> s, value |-> "off", via |-> "editor"]
    <3>6. /\ word \in [file : File, setting : Setting, value : Value, via : Via \cup {"editor"}]
          /\ word.file = f /\ word.setting = s /\ word.value = "off"
      BY <3>1
    <3>7. told' = {w \in told : w.file # f \/ w.setting # s} \cup {word}
      BY <2>2
    <3> HIDE DEF word
    <3>8. ASSUME NEW w \in told', w.via # "tab", w.setting \notin Viewed
          PROVE  disk'[w.file][w.setting] = w.value
      <4>1. CASE w = word
        BY <3>5, <3>6, <4>1
      <4>2. CASE w \in told /\ (w.file # f \/ w.setting # s)
        <5>1. w.file \in File /\ w.setting \in Setting
          BY <1>2, <4>2
        <5>2. disk[w.file][w.setting] = w.value
          BY <1>2, <3>8, <4>2
        <5>3. CASE w.file # f
          BY <3>4, <5>1, <5>2, <5>3
        <5>4. CASE w.file = f
          <6>1. w.setting \in Setting \ {s}
            BY <4>2, <5>1, <5>4
          <6> QED BY <3>5, <5>2, <5>4, <6>1
        <5> QED BY <5>3, <5>4
      <4> QED BY <3>7, <4>1, <4>2
    <3> QED BY <1>2, <2>2, <3>4, <3>6, <3>7, <3>8
  <2> QED BY <2>1, <2>2 DEF ByHand
<1>4. VarsTyped'
  <2>1. stale' \in [Proc -> SUBSET File]
    BY <1>1, <1>2
  <2> QED BY <1>1, <1>3, <2>1 DEF SettingsInv, VarsTyped
<1>5. Kept'
  <2>1. CopiesAreFaithful'
    <3> SUFFICES ASSUME NEW q \in Proc, NEW g \in File, mem[q][g] # Unread, g \notin stale'[q]
                 PROVE  /\ g \notin broken'
                        /\ g \notin dirty[q] => mem[q][g] = disk'[g]
                        /\ \A r \in Setting : mem[q][g][r] # disk'[g][r] => <<g, r>> \in aimed[q]
      BY <1>1 DEF CopiesAreFaithful, Faithful
    <3>1. g # f /\ g \notin stale[q]
      BY <1>1, <1>2
    <3> QED BY <1>3, <3>1 DEF SettingsInv, Kept, CopiesAreFaithful, Faithful
  <2>2. DownHoldNothing'
    <3>1. \A q \in Proc : mem[q][f] = Unread => stale'[q] = stale[q]
      BY <1>1, <1>2
    <3> QED BY <1>1, <3>1 DEF SettingsInv, Kept, DownHoldNothing, Busy
  <2> QED BY <1>1, <2>1, <2>2 DEF SettingsInv, Kept, UpHaveRead, DirtyIsRead
<1>6. Held'
  BY <1>1 DEF SettingsInv, Held, SavingIsHeld, ChangesAreKnown, Busy
<1>7. SavedSurvives'
  BY <1>3 DEF SavedSurvives, InFile
<1> QED BY <1>4, <1>5, <1>6, <1>7 DEF SettingsInv

(***************************************************************************)
(* At the start nothing runs and nothing was said.                         *)
(***************************************************************************)
LEMMA InitHoldsSettings == SettingsInit => SettingsInv
<1> SUFFICES ASSUME SettingsInit PROVE SettingsInv OBVIOUS
<1>1. /\ job = [p \in Proc |-> [t \in Via |-> Idle]]
      /\ \A p \in Proc, t \in Via : job[p][t] \in Job /\ job[p][t].phase = "idle"
  BY IdleIsAJob DEF SettingsInit
<1>2. Silent \in Doc
  BY DEF Silent, Doc, Value
<1>3. VarsTyped
  BY <1>1, <1>2 DEF SettingsInit, VarsTyped, Level
<1>4. Kept
  BY <1>1, SettingsAssumption
  DEF SettingsInit, Kept, DownHoldNothing, UpHaveRead, DirtyIsRead, CopiesAreFaithful, Busy, File
<1>5. Held
  BY <1>1 DEF Held, SavingIsHeld, ChangesAreKnown, Busy
<1>6. SavedSurvives
  BY DEF SettingsInit, SavedSurvives
<1> QED BY <1>3, <1>4, <1>5, <1>6 DEF SettingsInv

(***************************************************************************)
(* Every step keeps the invariant.                                         *)
(***************************************************************************)
LEMMA StepKeepsSettings ==
  ASSUME SettingsInv, [SettingsNext]_settingsVars
  PROVE  SettingsInv'
<1>1. CASE UNCHANGED settingsVars
  BY <1>1, ScreenKeeps DEF settingsVars, screenVars, SettingsInv, VarsTyped
<1>2. ASSUME NEW p \in Proc, ProcStep(p) PROVE SettingsInv'
  <2>1. CASE SaveStep(p)
    <3>1. ASSUME NEW t \in Via,
                 SaveBegins(p, t) \/ WriteYAML(p, t) \/ WriteFails(p, t) \/ Finish(p, t)
          PROVE  SettingsInv'
      BY <3>1, SaveBeginsKeeps, WriteKeeps, WriteFailsKeeps, FinishKeeps
    <3>2. CASE Exit(p)
      BY <3>2, GoneKeeps DEF Exit
    <3> QED BY <2>1, <3>1, <3>2 DEF SaveStep
  <2>2. CASE Quit(p) \/ Kill(p)
    BY <2>2, QuitKeeps, GoneKeeps DEF Kill
  <2>3. CASE BoardStep(p) \/ TerminalStep(p)
    BY <2>3, BoardKeeps, TerminalKeeps
  <2>4. ASSUME NEW k \in Kind, Start(p, k) PROVE SettingsInv'
    BY <2>4, StartKeeps
  <2>5. ASSUME NEW s \in Owned, NEW v \in Value, ServiceSets(p, s, v) PROVE SettingsInv'
    BY <2>5, ServiceKeeps
  <2> QED BY <1>2, <2>1, <2>2, <2>3, <2>4, <2>5 DEF ProcStep
<1>3. ASSUME NEW f \in File, ByHand(f) PROVE SettingsInv'
  BY <1>3, ByHandKeeps
<1> QED BY <1>1, <1>2, <1>3 DEF SettingsNext

(***************************************************************************)
(* The invariant of every reachable state.                                 *)
(***************************************************************************)
THEOREM SettingsInvariance == SettingsSpec => []SettingsInv
<1>1. SettingsInit => SettingsInv
  BY InitHoldsSettings
<1>2. SettingsInv /\ [SettingsNext]_settingsVars => SettingsInv'
  BY StepKeepsSettings
<1> QED BY <1>1, <1>2, PTL DEF SettingsSpec

(***************************************************************************)
(* What was reported recorded is in its file through kills, failures and   *)
(* restarts, until it is changed or a copy older than another's write is   *)
(* saved; what a screen says is in force is what the next run reads,       *)
(* unless somebody else has written the files: for any hosts, settings and *)
(* processes, and however many write the same file.                        *)
(***************************************************************************)
THEOREM SavedIsKept == SettingsSpec => []SettingsOK
<1>1. SettingsInv => SettingsOK
  <2> SUFFICES ASSUME SettingsInv PROVE SettingsOK OBVIOUS
  <2>1. SettingsTypeOK
    <3>1. \A p \in Proc : dirty[p] \subseteq File /\ lock[p] \in Via \cup {Nobody}
      BY DEF SettingsInv, VarsTyped
    <3>2. \A p \in up : mem[p][Home[p]] # Unread /\ mem[p][Global] # Unread
      BY DEF up, SettingsInv, Kept, UpHaveRead
    <3>3. \A p \in Proc, t \in Via : Busy(p, t) => p \in up
      BY DEF up, SettingsInv, Kept, DownHoldNothing
    <3> QED BY <3>1, <3>2, <3>3 DEF SettingsInv, VarsTyped, SettingsTypeOK
  <2>2. SavedSurvives
    BY DEF SettingsInv
  <2>3. ScreenTellsTheNextRun
    <3> SUFFICES ASSUME NEW p \in up, dirty[p] = {}, stale[p] = {}
                 PROVE  /\ Readable(p)
                        /\ \A s \in Setting :
                             InForce(p, s) = Resolve(disk[Home[p]], disk[Global], s)
      BY DEF ScreenTellsTheNextRun
    <3>1. p \in Proc /\ kind[p] # Down /\ Home[p] \in File /\ Global \in File
      BY SettingsAssumption DEF up, File
    <3>2. /\ Home[p] \notin broken /\ Global \notin broken
          /\ mem[p][Home[p]] = disk[Home[p]] /\ mem[p][Global] = disk[Global]
      BY <3>1 DEF SettingsInv, Kept, UpHaveRead, CopiesAreFaithful, Faithful
    <3> QED BY <3>2 DEF InForce, Readable
  <2> QED BY <2>1, <2>2, <2>3 DEF SettingsOK
<1> QED BY <1>1, SettingsInvariance, PTL
=============================================================================
