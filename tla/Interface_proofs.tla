--------------------------- MODULE Interface_proofs ---------------------------
(***************************************************************************)
(* Proofs about what a person sees: the screen, for any ports and          *)
(* questions; and the feed of events behind it, for any emitters, pages    *)
(* and sizes of the history and of a page's queue.                         *)
(***************************************************************************)
EXTENDS Feed, Screen, SequenceTheorems, FiniteSetTheorems, WellFoundedInduction, TLAPS

-----------------------------------------------------------------------------
(***************************************************************************)
(* The screen. A table is a list of distinct ports, and the highlight      *)
(* follows its port through any reload.                                    *)
(***************************************************************************)
LEMMA TableIsListed ==
  ASSUME NEW t \in Tables
  PROVE  /\ Len(t) \in Nat /\ DOMAIN t = 1 .. Len(t)
         /\ \A i \in 1 .. Len(t) : t[i] \in Port
<1>1. Cardinality(Port) \in Nat
  BY ScreenAssumption, FS_CardinalityType
<1>2. PICK n \in 0 .. Cardinality(Port) : t \in [1 .. n -> Port]
  BY DEF Tables
<1>3. t \in Seq(Port) /\ DOMAIN t = 1 .. n
  BY <1>1, <1>2
<1>. QED  BY <1>2, <1>3, LenProperties

LEMMA ReselectFollows ==
  ASSUME NEW t \in Tables, NEW p
  PROVE  /\ Reselect(t, p) \in 0 .. Len(t)
         /\ Reselect(t, p) # 0 => Reselect(t, p) \in 1 .. Len(t) /\ t[Reselect(t, p)] = p
<1>1. Len(t) \in Nat /\ DOMAIN t = 1 .. Len(t)
  BY TableIsListed
<1>2. CASE \E i \in DOMAIN t : t[i] = p
  <2>1. Reselect(t, p) = CHOOSE i \in DOMAIN t : t[i] = p
    BY <1>2 DEF Reselect
  <2>2. Reselect(t, p) \in DOMAIN t /\ t[Reselect(t, p)] = p
    BY <1>2, <2>1
  <2>. QED  BY <1>1, <2>2
<1>3. CASE ~\E i \in DOMAIN t : t[i] = p
  BY <1>1, <1>3 DEF Reselect
<1>. QED  BY <1>2, <1>3

(***************************************************************************)
(* Who takes a key.                                                        *)
(***************************************************************************)
LEMMA KeysAreTakenOnce ==
  /\ Keys = "approval" => approval # None
  /\ Keys # "approval" => approval = None
  /\ Keys \notin {"approval", "setup"} => ~setup
  /\ Keys \notin {"approval", "setup", "confirm"} => "confirm" \notin box
  /\ Keys \in {"editor", "chooser", "tab"} => ~palette
  /\ Keys \in {"chooser", "tab"} => editor = None
  /\ Keys = "editor" => editor # None
  /\ Keys = "chooser" => "chooser" \in box
  /\ Keys = "tab" => "chooser" \notin box
  /\ Keys = "palette" => palette
BY DEF Keys

-----------------------------------------------------------------------------
(***************************************************************************)
(* The highlight. However a step leaves it, it is where it was, or follows *)
(* its port through a reload, or goes where the user put it, or is gone.   *)
(***************************************************************************)
Follows ==
  \/ UNCHANGED <<rows, cur, chosen>>
  \/ UNCHANGED chosen /\ \E t \in Tables : Reload(t, Selected)
  \/ \E i \in DOMAIN rows :
       /\ chosen' = rows[i]
       /\ \/ cur' = i /\ UNCHANGED rows
          \/ \E t \in Tables : Reload(t, rows[i])
  \/ chosen' = None /\ cur' = 0 /\ rows' \in Tables

LEMMA StepsFollow ==
  ASSUME ScreenTypeOK, [ScreenNext]_screenVars
  PROVE  Follows
<1>. USE DEF Follows
<1>1. CASE Refresh
  BY <1>1 DEF Refresh, ReloadAny
<1>2. CASE Asking
  BY <1>2 DEF Asking, Ask, GivesUp, OpenApproval, DismissApproval, AskSetup, SetupGivesUp,
              OpenSetup, DismissSetup, viewVars
<1>3. CASE Answering \/ Leave
  BY <1>3 DEF Answering, AnswerApproval, AnswerSetup, AnswerConfirm, Leave, viewVars
<1>4. ASSUME NEW b, NEW by, PortKey(b, by), UNCHANGED chosen
      PROVE  Follows
  BY <1>4 DEF PortKey, Decide, OpenPort, OpenEditor, ToggleDetail, Rearrange, ReloadAny
<1>5. CASE TunnelsKey
  BY <1>4, <1>5 DEF TunnelsKey
<1>6. CASE PaletteRun
  BY <1>4, <1>6 DEF PaletteRun
<1>7. CASE Move
  BY <1>7 DEF Move, Highlight
<1>8. CASE TypeSearch
  BY <1>8 DEF TypeSearch
<1>9. CASE Commit \/ Choose \/ SelectTab \/ EditorEsc
  BY <1>9 DEF Commit, Choose, SelectTab, EditorEsc, ReloadAny
<1>10. CASE CloseBox \/ GlobalKey \/ PaletteEsc \/ ClickAway \/ ClickEsc
  BY <1>10 DEF CloseBox, GlobalKey, PaletteEsc, ClickAway, ClickEsc
<1>11. CASE ClickRow
  <2>1. PICK i \in DOMAIN rows :
          /\ chosen' = rows[i]
          /\ \/ cur' = i /\ UNCHANGED rows
             \/ ReloadAny(rows[i])
    BY <1>11 DEF ClickRow, Decide, OpenPort
  <2>. QED  BY <2>1 DEF ReloadAny
<1>12. CASE UNCHANGED screenVars
  BY <1>12 DEF screenVars, viewVars
<1>. QED  BY <1>1, <1>2, <1>3, <1>5, <1>6, <1>7, <1>8, <1>9, <1>10, <1>11, <1>12
          DEF ScreenNext, Typing, Clicking, ChangeTab, EditorEnter, ChooserKey, ClickChooser,
              ClickCommits, ClickTab

LEMMA FollowingKeeps ==
  ASSUME ScreenTypeOK, HighlightIsChosen, Follows
  PROVE  /\ rows' \in Tables /\ cur' \in 0 .. Len(rows') /\ chosen' \in Port \cup {None}
         /\ HighlightIsChosen'
<1>0. /\ rows \in Tables /\ cur \in 0 .. Len(rows) /\ chosen \in Port \cup {None}
      /\ Len(rows) \in Nat /\ DOMAIN rows = 1 .. Len(rows)
      /\ \A i \in 1 .. Len(rows) : rows[i] \in Port
  BY TableIsListed DEF ScreenTypeOK
<1>. USE DEF HighlightIsChosen, Selected
<1>1. CASE UNCHANGED <<rows, cur, chosen>>
  BY <1>0, <1>1
<1>2. ASSUME NEW p, NEW t \in Tables, Reload(t, p)
      PROVE  /\ rows' \in Tables /\ cur' \in 0 .. Len(rows')
             /\ Selected' \in {p, None}
  BY <1>2, ReselectFollows DEF Reload
<1>3. CASE UNCHANGED chosen /\ \E t \in Tables : Reload(t, Selected)
  BY <1>0, <1>2, <1>3
<1>4. ASSUME NEW i \in DOMAIN rows, chosen' = rows[i],
             \/ cur' = i /\ UNCHANGED rows
             \/ \E t \in Tables : Reload(t, rows[i])
      PROVE  /\ rows' \in Tables /\ cur' \in 0 .. Len(rows') /\ chosen' \in Port \cup {None}
             /\ HighlightIsChosen'
  BY <1>0, <1>2, <1>4
<1>5. CASE chosen' = None /\ cur' = 0 /\ rows' \in Tables
  BY <1>5, TableIsListed
<1>. QED  BY <1>1, <1>3, <1>4, <1>5 DEF Follows

(***************************************************************************)
(* The editor and the questions: what is edited is what was chosen, the    *)
(* palette borrows no editor of a port, and a withdrawal is sent only by   *)
(* an asker who no longer waits.                                           *)
(***************************************************************************)
EditsChosen == editor = "port" => target = chosen /\ target # None
PaletteBorrows == palette => editor \in {None, "command"}
CancelledGaveUp == \A q \in Question : <<"cancel", q>> \in mail => ask[q] \in {"allow", "deny"}

ScreenInv == ScreenOK /\ EditsChosen /\ PaletteBorrows /\ CancelledGaveUp

LEMMA EditorStep ==
  ASSUME ScreenInv, [ScreenNext]_screenVars
  PROVE  /\ EditsChosen' /\ PaletteBorrows'
         /\ tab' \in {"tunnels", "other"}
         /\ editor' \in {None, "search", "port", "command"} /\ target' \in Port \cup {None}
         /\ palette' \in BOOLEAN /\ offline' \in BOOLEAN
<1>0. /\ tab \in {"tunnels", "other"}
      /\ editor \in {None, "search", "port", "command"} /\ target \in Port \cup {None}
      /\ palette \in BOOLEAN /\ offline \in BOOLEAN
      /\ chosen \in Port \cup {None} /\ Selected \in {chosen, None}
      /\ editor = "port" => target = chosen /\ target # None
      /\ palette => editor \in {None, "command"}
  BY DEF ScreenInv, ScreenOK, ScreenTypeOK, HighlightIsChosen, EditsChosen, PaletteBorrows
<1>. USE <1>0 DEF EditsChosen, PaletteBorrows, NoEditor, None
<1>1. CASE UNCHANGED <<tab, editor, target, palette, chosen>> /\ offline' \in BOOLEAN
  BY <1>1
<1>2. CASE Refresh \/ UNCHANGED screenVars
  BY <1>1, <1>2 DEF Refresh, viewVars, screenVars
<1>3. CASE Asking
  <2>1. CASE \E q \in Question : OpenApproval(q)
    BY <2>1 DEF OpenApproval
  <2>2. CASE \/ \E q \in Question : Ask(q) \/ GivesUp(q) \/ DismissApproval(q)
             \/ AskSetup \/ SetupGivesUp \/ OpenSetup \/ DismissSetup
    BY <1>1, <2>2 DEF Ask, GivesUp, DismissApproval, AskSetup, SetupGivesUp,
                      OpenSetup, DismissSetup, viewVars
  <2>. QED  BY <1>3, <2>1, <2>2 DEF Asking
<1>4. CASE Answering \/ Leave
  BY <1>1, <1>4 DEF Answering, AnswerApproval, AnswerSetup, AnswerConfirm, Leave, viewVars
<1>5. ASSUME NEW b, NEW by, PortKey(b, by), UNCHANGED chosen, ~palette',
             tab' \in {"tunnels", "other"}, UNCHANGED offline
      PROVE  /\ EditsChosen' /\ PaletteBorrows'
             /\ tab' \in {"tunnels", "other"}
             /\ editor' \in {None, "search", "port", "command"} /\ target' \in Port \cup {None}
             /\ offline' \in BOOLEAN
  BY <1>5 DEF PortKey, Decide, OpenPort, OpenEditor, ToggleDetail, Rearrange
<1>6. CASE TunnelsKey
  <2>1. ~palette
    BY <1>6, KeysAreTakenOnce DEF TunnelsKey, Key
  <2>. QED  BY <1>5, <1>6, <2>1 DEF TunnelsKey
<1>7. CASE PaletteRun
  <2>1. CASE tab' = "tunnels" /\ PortKey(BoxesAt("tunnels"), "palette")
    BY <1>5, <1>7, <2>1 DEF PaletteRun
  <2>2. CASE NoEditor \/ (UNCHANGED tab /\ target' = None /\ editor' \in {None, "search"})
    BY <1>7, <2>2 DEF PaletteRun
  <2>. QED  BY <1>7, <2>1, <2>2 DEF PaletteRun, OpenSearch
<1>8. CASE Move
  <2>1. editor = None
    BY <1>8, KeysAreTakenOnce DEF Move, Key
  <2>. QED  BY <1>8, <2>1 DEF Move
<1>9. CASE TypeSearch
  BY <1>9 DEF TypeSearch
<1>10. CASE Commit \/ EditorEsc \/ SelectTab \/ PaletteEsc
  BY <1>10 DEF Commit, EditorEsc, SelectTab, PaletteEsc
<1>11. CASE CloseBox \/ Choose \/ ClickAway
  BY <1>1, <1>11 DEF CloseBox, Choose, ClickAway
<1>12. CASE GlobalKey
  <2>1. editor = None /\ ~palette
    BY <1>12, KeysAreTakenOnce DEF GlobalKey, Key
  <2>2. UNCHANGED <<tab, target, offline, chosen>>
    BY <1>12 DEF GlobalKey
  <2>3. \/ editor' \in {None, "search"} /\ palette' = palette
        \/ editor' = "command" /\ palette' = TRUE
    BY <1>12, <2>1 DEF GlobalKey, OpenHelp, OpenConfirm, OpenSearch
  <2>4. CASE editor' \in {None, "search"} /\ palette' = palette
    BY <2>1, <2>2, <2>4
  <2>5. CASE editor' = "command" /\ palette' = TRUE
    BY <2>2, <2>5
  <2>. QED  BY <2>3, <2>4, <2>5
<1>13. CASE ClickEsc
  BY <1>13 DEF ClickEsc, Bare, Click, OpenConfirm
<1>14. CASE ClickRow
  BY <1>14 DEF ClickRow, Bare, Click, Decide, OpenPort
<1>. QED  BY <1>2, <1>3, <1>4, <1>6, <1>7, <1>8, <1>9, <1>10, <1>11, <1>12, <1>13, <1>14
          DEF ScreenNext, Typing, Clicking, ChangeTab, EditorEnter, ChooserKey, ClickChooser,
              ClickCommits, ClickTab

LEMMA MailStep ==
  ASSUME ScreenInv, [ScreenNext]_screenVars
  PROVE  /\ CancelledGaveUp'
         /\ mail' \subseteq ({"show", "cancel"} \X Question) \cup ({"show", "cancel"} \X {"rc"})
         /\ ask' \in [Question -> {"new", "waiting", "allow", "deny"}]
         /\ rc' \in {"new", "waiting", "yes", "no"}
         /\ approval' \in Question \cup {None} /\ setup' \in BOOLEAN
<1>0. /\ mail \subseteq ({"show", "cancel"} \X Question) \cup ({"show", "cancel"} \X {"rc"})
      /\ ask \in [Question -> {"new", "waiting", "allow", "deny"}]
      /\ rc \in {"new", "waiting", "yes", "no"}
      /\ approval \in Question \cup {None} /\ setup \in BOOLEAN
      /\ CancelledGaveUp
  BY DEF ScreenInv, ScreenOK, ScreenTypeOK
<1>. USE <1>0 DEF CancelledGaveUp
<1>1. CASE UNCHANGED <<ask, rc, approval, setup>> /\ mail' \subseteq mail
  BY <1>1
<1>2. CASE Refresh \/ Leave \/ UNCHANGED screenVars
  BY <1>1, <1>2 DEF Refresh, Leave, askVars, screenVars
<1>3. ASSUME NEW q \in Question, Ask(q)
      PROVE  /\ CancelledGaveUp'
             /\ mail' \subseteq ({"show", "cancel"} \X Question)
                                   \cup ({"show", "cancel"} \X {"rc"})
             /\ ask' \in [Question -> {"new", "waiting", "allow", "deny"}]
  BY <1>3 DEF Ask
<1>4. ASSUME NEW q \in Question, GivesUp(q)
      PROVE  /\ CancelledGaveUp'
             /\ mail' \subseteq ({"show", "cancel"} \X Question)
                                   \cup ({"show", "cancel"} \X {"rc"})
             /\ ask' \in [Question -> {"new", "waiting", "allow", "deny"}]
  BY <1>4 DEF GivesUp
<1>5. CASE \E q \in Question : Ask(q) \/ GivesUp(q)
  <2>1. UNCHANGED <<approval, setup, rc>>
    BY <1>5 DEF Ask, GivesUp
  <2>. QED  BY <1>3, <1>4, <1>5, <2>1
<1>6. ASSUME NEW q, NEW answer \in {"allow", "deny"}, Reply(q, answer), mail' \subseteq mail
      PROVE  CancelledGaveUp' /\ ask' \in [Question -> {"new", "waiting", "allow", "deny"}]
  BY <1>6 DEF Reply
<1>7. CASE \E q \in Question : OpenApproval(q)
  <2>1. /\ mail' \subseteq mail /\ UNCHANGED <<rc, setup>>
        /\ approval' \in Question \cup {None}
        /\ UNCHANGED ask \/ \E q \in Question : Reply(q, "deny")
    BY <1>7 DEF OpenApproval, Takes
  <2>. QED  BY <1>6, <2>1
<1>8. CASE \E q \in Question : DismissApproval(q)
  <2>1. /\ mail' \subseteq mail /\ UNCHANGED <<ask, rc, setup>>
        /\ approval' \in {approval, None}
    BY <1>8 DEF DismissApproval, Takes, Withdraws
  <2>. QED  BY <2>1
<1>9. CASE AskSetup \/ SetupGivesUp
  <2>1. /\ mail' \subseteq mail \cup {<<"show", "rc">>, <<"cancel", "rc">>}
        /\ UNCHANGED <<ask, approval, setup>> /\ rc' \in {"waiting", "no"}
    BY <1>9 DEF AskSetup, SetupGivesUp
  <2>2. "rc" \notin Question
    BY ScreenAssumption
  <2>. QED  BY <2>1, <2>2
<1>10. CASE OpenSetup \/ DismissSetup
  BY <1>10 DEF OpenSetup, DismissSetup, Takes
<1>11. CASE \E a \in {"allow", "deny"} : AnswerApproval(a)
  <2>1. /\ mail' \subseteq mail /\ UNCHANGED <<rc, setup>> /\ approval' = None
        /\ \E a \in {"allow", "deny"} : Reply(approval, a)
    BY <1>11 DEF AnswerApproval
  <2>. QED  BY <1>6, <2>1
<1>12. CASE \E a \in {"yes", "no"} : AnswerSetup(a)
  BY <1>12 DEF AnswerSetup
<1>13. CASE (\E yes \in BOOLEAN : AnswerConfirm(yes)) \/ TunnelsKey \/ PaletteRun \/ PaletteEsc
  BY <1>1, <1>13 DEF AnswerConfirm, TunnelsKey, PaletteRun, PaletteEsc, askVars
<1>14. CASE Move \/ TypeSearch \/ Commit \/ EditorEsc \/ SelectTab
  BY <1>1, <1>14 DEF Move, TypeSearch, Commit, EditorEsc, SelectTab, askVars
<1>15. CASE CloseBox \/ Choose \/ ClickAway \/ GlobalKey \/ ClickEsc \/ ClickRow
  BY <1>1, <1>15 DEF CloseBox, Choose, ClickAway, GlobalKey, ClickEsc, ClickRow, askVars
<1>. QED  BY <1>2, <1>5, <1>7, <1>8, <1>9, <1>10, <1>11, <1>12, <1>13, <1>14, <1>15
          DEF ScreenNext, Asking, Answering, Typing, Clicking, ChangeTab, EditorEnter, ChooserKey,
              ClickChooser, ClickCommits, ClickTab

LEMMA BoxStep ==
  ASSUME box \subseteq Box, phase \in {"running", "falling", "gone"}, [ScreenNext]_screenVars
  PROVE  box' \subseteq Box /\ phase' \in {"running", "falling", "gone"}
<1>. USE DEF Box
<1>1. CASE Refresh \/ Leave \/ UNCHANGED screenVars
  BY <1>1 DEF Refresh, Leave, viewVars, screenVars
<1>2. CASE Asking
  BY <1>2 DEF Asking, Ask, GivesUp, OpenApproval, DismissApproval, AskSetup, SetupGivesUp,
              OpenSetup, DismissSetup, viewVars
<1>3. CASE Answering
  BY <1>3 DEF Answering, AnswerApproval, AnswerSetup, AnswerConfirm, viewVars
<1>4. ASSUME NEW b, NEW by, PortKey(b, by), b \subseteq Box
      PROVE  box' \subseteq Box
  BY <1>4 DEF PortKey, Decide, OpenPort, OpenEditor, ToggleDetail, Rearrange
<1>5. CASE TunnelsKey
  BY <1>4, <1>5 DEF TunnelsKey
<1>6. \A t : BoxesAt(t) \subseteq Box
  BY DEF BoxesAt
<1>7. CASE PaletteRun
  <2>1. CASE PortKey(BoxesAt("tunnels"), "palette")
    BY <1>4, <1>6, <1>7, <2>1 DEF PaletteRun
  <2>2. CASE UNCHANGED box \/ box' \in {BoxesAt("other"), box \cup {"help"}, box \cup {"confirm"}}
    BY <1>6, <1>7, <2>2 DEF PaletteRun
  <2>. QED  BY <1>7, <2>1, <2>2 DEF PaletteRun, OpenSearch
<1>8. CASE SelectTab
  BY <1>6, <1>8 DEF SelectTab
<1>9. CASE Move \/ TypeSearch \/ Commit \/ EditorEsc \/ PaletteEsc \/ CloseBox \/ Choose
  BY <1>9 DEF Move, TypeSearch, Commit, EditorEsc, PaletteEsc, CloseBox, Choose
<1>10. CASE GlobalKey \/ ClickAway \/ ClickEsc
  BY <1>10 DEF GlobalKey, OpenHelp, OpenConfirm, OpenSearch, ClickAway, ClickEsc
<1>11. CASE ClickRow
  BY <1>11 DEF ClickRow, Decide, OpenPort
<1>. QED  BY <1>1, <1>2, <1>3, <1>5, <1>7, <1>8, <1>9, <1>10, <1>11
          DEF ScreenNext, Typing, Clicking, ChangeTab, EditorEnter, ChooserKey, ClickChooser,
              ClickCommits, ClickTab

(***************************************************************************)
(* What a step does to a port: it is to the one that was chosen, and no    *)
(* box that would hold it is open.                                         *)
(***************************************************************************)
LEMMA EffectStep ==
  ASSUME ScreenInv, ScreenNext, effect' # Nothing
  PROVE  effect'.port = chosen' /\ BoxHolds
<1>0. /\ Selected \in {chosen, None}
      /\ editor = "port" => target = chosen /\ target # None
      /\ palette => editor \in {None, "command"}
  BY DEF ScreenInv, ScreenOK, HighlightIsChosen, EditsChosen, PaletteBorrows
<1>1. \A kind, p, by : Does(kind, p, by) =>
        effect'.kind = kind /\ effect'.port = p /\ effect'.by = by
  BY DEF Does
<1>2. ~Quiet
  BY DEF Quiet
<1>3. ASSUME NEW b, NEW by, PortKey(b, by)
      PROVE  Quiet \/ (/\ Selected = chosen
                       /\ \E kind \in {"decide", "open"} : Does(kind, Selected, by))
  BY <1>0, <1>3 DEF PortKey, Decide, OpenPort, OpenEditor, ToggleDetail, Rearrange
<1>4. CASE TunnelsKey
  <2>1. Keys = "tab" /\ PortKey(box, "tab") /\ UNCHANGED chosen
    BY <1>4 DEF TunnelsKey, Key
  <2>2. /\ effect'.port = chosen /\ effect'.by = "tab" /\ effect'.kind \in {"decide", "open"}
    BY <1>1, <1>2, <1>3, <2>1
  <2>. QED  BY <2>1, <2>2, KeysAreTakenOnce DEF BoxHolds, None
<1>5. CASE PaletteRun
  <2>1. Keys = "palette" /\ palette /\ UNCHANGED chosen
    BY <1>5, KeysAreTakenOnce DEF PaletteRun, Key
  <2>2. CASE Quiet
    BY <1>2, <2>2
  <2>3. CASE PortKey(BoxesAt("tunnels"), "palette")
    <3>1. effect'.port = chosen /\ effect'.by = "palette" /\ effect'.kind \in {"decide", "open"}
      BY <1>1, <1>2, <1>3, <2>3
    <3>. QED  BY <1>0, <2>1, <3>1, KeysAreTakenOnce DEF BoxHolds, None
  <2>. QED  BY <1>5, <2>2, <2>3 DEF PaletteRun
<1>6. CASE EditorEnter \/ ClickCommits
  <2>1. CASE Quiet
    BY <1>2, <2>1
  <2>2. CASE editor = "port" /\ Does("edit", target, "editor")
    <3>1. effect'.port = target /\ effect'.kind = "edit" /\ effect'.by = "editor"
          /\ UNCHANGED chosen
      BY <1>1, <1>6, <2>2 DEF EditorEnter, ClickCommits, Commit
    <3>2. approval = None /\ ~setup /\ "confirm" \notin box
      BY <1>6, KeysAreTakenOnce DEF EditorEnter, Key, ClickCommits, Click, Swallows
    <3>. QED  BY <1>0, <2>2, <3>1, <3>2 DEF BoxHolds, None
  <2>. QED  BY <1>6, <2>1, <2>2 DEF EditorEnter, ClickCommits, Click, Commit
<1>7. CASE ChooserKey \/ ClickChooser
  <2>1. CASE Quiet
    BY <1>2, <2>1
  <2>2. CASE Selected # None /\ Does("scheme", Selected, "chooser")
    <3>1. effect'.port = chosen /\ effect'.kind = "scheme" /\ effect'.by = "chooser"
          /\ UNCHANGED chosen
      BY <1>0, <1>1, <1>7, <2>2 DEF ChooserKey, ClickChooser, Click, Choose
    <3>2. approval = None /\ ~setup /\ "chooser" \in box
      BY <1>7, KeysAreTakenOnce DEF ChooserKey, Key, ClickChooser, Click, Swallows
    <3>. QED  BY <3>1, <3>2 DEF BoxHolds
  <2>. QED  BY <1>7, <2>1, <2>2 DEF ChooserKey, ClickChooser, Click, Choose
<1>8. CASE ClickRow
  <2>1. box = {} /\ editor = None /\ approval = None /\ ~setup /\ ~offline
    BY <1>8 DEF ClickRow, Bare, Click, Swallows
  <2>2. CASE Quiet
    BY <1>2, <2>2
  <2>3. CASE \E i \in DOMAIN rows, kind \in {"decide", "open"} :
               chosen' = rows[i] /\ Does(kind, rows[i], "click")
    <3>1. effect'.port = chosen' /\ effect'.kind \in {"decide", "open"} /\ effect'.by = "click"
      BY <1>1, <2>3
    <3>. QED  BY <2>1, <3>1 DEF BoxHolds, None
  <2>. QED  BY <1>8, <2>2, <2>3 DEF ClickRow, Decide, OpenPort
<1>9. CASE Refresh \/ Leave \/ Answering
  BY <1>2, <1>9 DEF Refresh, Leave, Answering, AnswerApproval, AnswerSetup,
                    AnswerConfirm
<1>10. CASE Asking
  BY <1>2, <1>10 DEF Asking, Ask, GivesUp, OpenApproval, DismissApproval, AskSetup, SetupGivesUp,
                     OpenSetup, DismissSetup, Takes
<1>11. CASE \/ Move \/ ChangeTab \/ CloseBox \/ GlobalKey \/ TypeSearch \/ EditorEsc \/ PaletteEsc
            \/ ClickAway \/ ClickTab \/ ClickEsc
  BY <1>2, <1>11 DEF Move, ChangeTab, SelectTab, CloseBox, GlobalKey, TypeSearch, EditorEsc,
                     PaletteEsc, ClickAway, ClickTab, ClickEsc
<1>. QED  BY <1>4, <1>5, <1>6, <1>7, <1>8, <1>9, <1>10, <1>11
          DEF ScreenNext, Typing, Clicking

LEMMA QuestionStep ==
  ASSUME ScreenInv, ScreenNext
  PROVE  QuestionStands
<1>. SUFFICES ASSUME NEW q \in Question, approval = q, ask[q] = "waiting", approval' # q
              PROVE  ask'[q] # "waiting"
  BY DEF QuestionStands
<1>0. /\ ask \in [Question -> {"new", "waiting", "allow", "deny"}] /\ CancelledGaveUp
      /\ None \notin Question
  BY ScreenAssumption DEF ScreenInv, ScreenOK, ScreenTypeOK
<1>1. CASE UNCHANGED approval
  BY <1>1
<1>2. CASE \E a \in {"allow", "deny"} : AnswerApproval(a)
  BY <1>0, <1>2 DEF AnswerApproval, Reply
<1>3. CASE \E r \in Question : DismissApproval(r)
  <2>1. PICK r \in Question : DismissApproval(r)
    BY <1>3
  <2>2. <<"cancel", r>> \in mail /\ approval' = IF approval = r THEN None ELSE approval
    BY <2>1 DEF DismissApproval, Takes, Withdraws
  <2>3. r = q
    BY <2>2
  <2>. QED  BY <1>0, <2>2, <2>3 DEF CancelledGaveUp
<1>4. CASE \E r \in Question : OpenApproval(r)
  BY <1>0, <1>4 DEF OpenApproval
<1>5. CASE \/ \E r \in Question : Ask(r) \/ GivesUp(r)
           \/ AskSetup \/ SetupGivesUp \/ OpenSetup \/ DismissSetup
  BY <1>1, <1>5 DEF Ask, GivesUp, AskSetup, SetupGivesUp, OpenSetup, DismissSetup
<1>6. CASE \/ Refresh \/ Leave
           \/ \E a \in {"yes", "no"} : AnswerSetup(a)
           \/ \E yes \in BOOLEAN : AnswerConfirm(yes)
  BY <1>1, <1>6 DEF Refresh, Leave, AnswerSetup, AnswerConfirm, askVars
<1>7. CASE Move \/ TypeSearch \/ Commit \/ EditorEsc \/ SelectTab \/ TunnelsKey \/ PaletteRun
  BY <1>1, <1>7 DEF Move, TypeSearch, Commit, EditorEsc, SelectTab, TunnelsKey, PaletteRun, askVars
<1>8. CASE CloseBox \/ Choose \/ ClickAway \/ GlobalKey \/ ClickEsc \/ ClickRow \/ PaletteEsc
  BY <1>1, <1>8 DEF CloseBox, Choose, ClickAway, GlobalKey, ClickEsc, ClickRow, PaletteEsc,
                    askVars
<1>. QED  BY <1>2, <1>3, <1>4, <1>5, <1>6, <1>7, <1>8
          DEF ScreenNext, Asking, Answering, Typing, Clicking, ChangeTab, EditorEnter, ChooserKey,
              ClickChooser, ClickCommits, ClickTab

LEMMA ScreenKeeps == ScreenSpec => []ScreenInv
<1>1. ScreenInit => ScreenInv
  <2>. SUFFICES ASSUME ScreenInit PROVE ScreenInv
    OBVIOUS
  <2>1. cur \in 0 .. Len(rows) /\ rows \in Tables
    BY TableIsListed DEF ScreenInit
  <2>2. ScreenTypeOK
    BY <2>1, ScreenAssumption DEF ScreenInit, ScreenTypeOK
  <2>. QED  BY <2>2 DEF ScreenInit, ScreenInv, ScreenOK, HighlightIsChosen, Selected,
                        EffectsAreChosen, EditsChosen, PaletteBorrows, CancelledGaveUp, None
<1>2. ASSUME ScreenInv, [ScreenNext]_screenVars
      PROVE  ScreenInv'
  <2>0. ScreenTypeOK /\ HighlightIsChosen /\ EffectsAreChosen
    BY <1>2 DEF ScreenInv, ScreenOK
  <2>1. Follows
    BY <1>2, <2>0, StepsFollow
  <2>2. /\ rows' \in Tables /\ cur' \in 0 .. Len(rows') /\ chosen' \in Port \cup {None}
        /\ HighlightIsChosen'
    BY <2>0, <2>1, FollowingKeeps
  <2>3. box' \subseteq Box /\ phase' \in {"running", "falling", "gone"}
    BY <1>2, <2>0, BoxStep DEF ScreenTypeOK
  <2>4. ScreenTypeOK'
    BY <1>2, <2>1, <2>2, <2>3, EditorStep, MailStep DEF ScreenTypeOK
  <2>5. EffectsAreChosen'
    <3>1. CASE ScreenNext
      BY <1>2, <3>1, EffectStep DEF EffectsAreChosen, Nothing
    <3>2. CASE UNCHANGED screenVars
      BY <2>0, <3>2 DEF screenVars, EffectsAreChosen, Nothing
    <3>. QED  BY <1>2, <3>1, <3>2
  <2>. QED  BY <1>2, <2>2, <2>4, <2>5, EditorStep, MailStep DEF ScreenInv, ScreenOK
<1>. QED  BY <1>1, <1>2, PTL DEF ScreenSpec

(***************************************************************************)
(* For any ports and questions, and however the table changes under the    *)
(* screen: the highlight is on the port the user put it on, and what the   *)
(* user does is done to that port, through every reload in between.        *)
(***************************************************************************)
THEOREM ScreenIsOK == ScreenSpec => []ScreenOK
BY ScreenKeeps, PTL DEF ScreenInv

(***************************************************************************)
(* Nothing is done to a port behind a question, nor by a click through the *)
(* connection-lost box or another; an editor and the chooser do their own  *)
(* work and no other. Keys behind the connection-lost box, help and the    *)
(* detail, and clicks beneath the palette, are not held back.              *)
(***************************************************************************)
THEOREM BoxesDoHold == ScreenSpec => BoxesHold
<1>1. ScreenInv /\ [ScreenNext]_screenVars => [BoxHolds]_screenVars
  BY EffectStep DEF BoxHolds
<1>. QED  BY <1>1, ScreenKeeps, PTL DEF ScreenSpec, BoxesHold

(***************************************************************************)
(* A question leaves the screen only with an answer while its asker waits. *)
(***************************************************************************)
THEOREM QuestionsDoStand == ScreenSpec => QuestionsStand
<1>1. ScreenInv /\ [ScreenNext]_screenVars => [QuestionStands]_screenVars
  BY QuestionStep
<1>. QED  BY <1>1, ScreenKeeps, PTL DEF ScreenSpec, QuestionsStand

-----------------------------------------------------------------------------
(***************************************************************************)
(* The feed. First, what it is built from: lists of numbers.               *)
(***************************************************************************)
LEMMA GreatestNat ==
  ASSUME NEW b \in Nat, NEW S \in SUBSET (0 .. b), S # {}
  PROVE  \E k \in S : \A j \in S : j <= k
<1>. DEFINE T == {i \in 0 .. b : b - i \in S}
<1>1. T \subseteq Nat /\ T # {}
  <2>1. PICK j \in S : TRUE
    OBVIOUS
  <2>2. b - j \in T
    <3>1. b - j \in 0 .. b /\ b - (b - j) = j
      BY <2>1
    <3>. QED  BY <2>1, <3>1
  <2>. QED  BY <2>2
<1>. HIDE DEF T
<1>2. PICK i \in T : \A j \in T : <<j, i>> \notin OpToRel(<, Nat)
  BY <1>1, NatLessThanWellFounded, WFMin
<1>3. \A j \in T : ~(j < i)
  BY <1>1, <1>2 DEF OpToRel
<1>. USE DEF T
<1>4. b - i \in S
  BY <1>2
<1>5. \A j \in S : j <= b - i
  <2>. SUFFICES ASSUME NEW j \in S, ~(j <= b - i) PROVE FALSE
    OBVIOUS
  <2>0. i \in Nat
    BY <1>1, <1>2
  <2>1. b - j \in 0 .. b /\ b - (b - j) = j /\ j \in Nat
    OBVIOUS
  <2>2. b - j \in T
    BY <2>1
  <2>3. b - j < i
    BY <2>0, <2>1
  <2>. QED  BY <1>3, <2>2, <2>3
<1>. QED  BY <1>4, <1>5

LEMMA AppendRange ==
  ASSUME NEW S, NEW s \in Seq(S), NEW e \in S
  PROVE  Range(Append(s, e)) = Range(s) \cup {e}
<1>1. Append(s, e) = s \o <<e>>
  BY AppendIsConcat
<1>. DEFINE u == <<e>>
<1>2. u \in Seq(S) /\ Range(u) = {e}
  BY DEF Range
<1>. HIDE DEF u
<1>3. Range(s \o u) = Range(s) \cup {e}
  BY <1>2, RangeConcatenation
<1>. QED  BY <1>1, <1>3 DEF u

LEMMA Appended ==
  ASSUME NEW S, NEW s \in Seq(S), NEW e \in S
  PROVE  /\ Append(s, e) \in Seq(S) /\ Append(s, e) = s \o <<e>>
         /\ Len(Append(s, e)) = Len(s) + 1 /\ Len(s) \in Nat /\ DOMAIN s = 1 .. Len(s)
         /\ DOMAIN Append(s, e) = 1 .. Len(s) + 1
         /\ \A i \in 1 .. Len(s) : Append(s, e)[i] = s[i]
         /\ Append(s, e)[Len(s) + 1] = e
<1>1. /\ Append(s, e) \in Seq(S) /\ Len(Append(s, e)) = Len(s) + 1 /\ Len(s) \in Nat
      /\ \A i \in 1 .. Len(s) : Append(s, e)[i] = s[i]
      /\ Append(s, e)[Len(s) + 1] = e /\ Append(s, e) = s \o <<e>>
  BY AppendProperties, AppendIsConcat, LenProperties
<1>. QED  BY <1>1, LenProperties

LEMMA Parted ==
  ASSUME NEW S, NEW s \in Seq(S), s # <<>>
  PROVE  /\ Head(s) \in S /\ Tail(s) \in Seq(S) /\ s = <<Head(s)>> \o Tail(s)
         /\ Range(s) = {Head(s)} \cup Range(Tail(s)) /\ Head(s) \in Range(s)
         /\ Len(s) \in Nat \ {0} /\ Head(s) = s[1] /\ DOMAIN s = 1 .. Len(s)
         /\ Len(Tail(s)) = Len(s) - 1 /\ DOMAIN Tail(s) = 1 .. Len(s) - 1
         /\ \A i \in 1 .. Len(s) - 1 : Tail(s)[i] = s[i + 1]
<1>1. /\ Tail(s) \in Seq(S) /\ Len(Tail(s)) = Len(s) - 1 /\ Head(s) \in S
      /\ \A i \in 1 .. Len(Tail(s)) : Tail(s)[i] = s[i + 1]
  BY HeadTailProperties
<1>2. /\ Len(s) \in Nat \ {0} /\ Head(s) = s[1] /\ DOMAIN s = 1 .. Len(s)
      /\ DOMAIN Tail(s) = 1 .. Len(s) - 1
  BY <1>1, EmptySeq, LenProperties
<1>3. s = <<Head(s)>> \o Tail(s)
  <2>. DEFINE t == <<Head(s)>> \o Tail(s)
  <2>1. <<Head(s)>> \in Seq(S) /\ Len(<<Head(s)>>) = 1
    BY <1>1
  <2>2. /\ t \in Seq(S) /\ Len(t) = Len(s)
        /\ \A i \in 1 .. Len(s) : t[i] = IF i <= 1 THEN Head(s) ELSE Tail(s)[i - 1]
    BY <1>1, <1>2, <2>1, ConcatProperties
  <2>3. \A i \in 1 .. Len(s) : t[i] = s[i]
    <3>1. \A i \in 2 .. Len(s) : i - 1 \in 1 .. Len(Tail(s)) /\ Tail(s)[i - 1] = s[i]
      BY <1>1, <1>2
    <3>. QED  BY <1>2, <2>2, <3>1
  <2>. QED  BY <2>2, <2>3, SeqEqual
<1>4. Range(s) = {Head(s)} \cup Range(Tail(s))
  <2>. DEFINE u == <<Head(s)>>  t == Tail(s)
  <2>1. u \in Seq(S) /\ Range(u) = {Head(s)} /\ t \in Seq(S) /\ s = u \o t
    BY <1>1, <1>3 DEF Range
  <2>. HIDE DEF u, t
  <2>2. Range(u \o t) = Range(u) \cup Range(t)
    BY <2>1, RangeConcatenation
  <2>. QED  BY <2>1, <2>2 DEF t
<1>. QED  BY <1>1, <1>2, <1>3, <1>4

\* A list that is at no two places the same keeps that when one goes.
LEMMA OneRemoved ==
  ASSUME NEW S, NEW s \in Seq(S), IsInjective(s), NEW i \in DOMAIN s
  PROVE  /\ RemoveAt(s, i) \in Seq(S) /\ IsInjective(RemoveAt(s, i))
         /\ Range(RemoveAt(s, i)) = Range(s) \ {s[i]}
<1>. DEFINE t == RemoveAt(s, i)  a == SubSeq(s, 1, i - 1)  z == SubSeq(s, i + 1, Len(s))
<1>1. Len(s) \in Nat /\ DOMAIN s = 1 .. Len(s)
  BY LenProperties
<1>2. /\ a \in Seq(S) /\ Len(a) = i - 1 /\ \A j \in 1 .. i - 1 : a[j] = s[j]
  <2>1. \A j \in 1 .. i - 1 : s[j] \in S
    BY <1>1, ElementOfSeq
  <2>. QED  BY <1>1, <2>1, SubSeqProperties
<1>3. /\ z \in Seq(S) /\ Len(z) = Len(s) - i /\ \A j \in 1 .. Len(s) - i : z[j] = s[i + j]
  <2>1. \A j \in i + 1 .. Len(s) : s[j] \in S
    BY <1>1, ElementOfSeq
  <2>. QED  BY <1>1, <2>1, SubSeqProperties, SMTT(30)
<1>. HIDE DEF a, z
<1>4. /\ t \in Seq(S) /\ Len(t) = Len(s) - 1
      /\ \A j \in 1 .. Len(s) - 1 : t[j] = IF j <= i - 1 THEN a[j] ELSE z[j - (i - 1)]
  <2>1. t = a \o z
    BY DEF RemoveAt, a, z
  <2>2. /\ a \o z \in Seq(S) /\ Len(a \o z) = Len(a) + Len(z)
        /\ \A j \in 1 .. Len(a) + Len(z) :
             (a \o z)[j] = IF j <= Len(a) THEN a[j] ELSE z[j - Len(a)]
    BY <1>2, <1>3, ConcatProperties
  <2>3. Len(a) + Len(z) = Len(s) - 1
    BY <1>1, <1>2, <1>3
  <2>. HIDE DEF t
  <2>. QED  BY <1>2, <2>1, <2>2, <2>3
<1>. HIDE DEF t
<1>5. \A j \in 1 .. Len(s) - 1 : t[j] = IF j < i THEN s[j] ELSE s[j + 1]
  <2>1. \A j \in i .. Len(s) - 1 : j - (i - 1) \in 1 .. Len(s) - i /\ i + (j - (i - 1)) = j + 1
    BY <1>1
  <2>2. \A j \in i .. Len(s) - 1 : t[j] = s[j + 1]
    BY <1>1, <1>3, <1>4, <2>1, SMTT(30)
  <2>3. ASSUME NEW j \in 1 .. i - 1
        PROVE  t[j] = s[j]
    <3>1. j \in 1 .. Len(s) - 1 /\ j <= i - 1
      BY <1>1
    <3>2. t[j] = a[j]
      BY <1>4, <3>1
    <3>3. a[j] = s[j]
      BY <1>2
    <3>. QED  BY <3>2, <3>3
  <2>. QED  BY <1>1, <2>2, <2>3
<1>6. DOMAIN t = 1 .. Len(s) - 1
  BY <1>1, <1>4, LenProperties
<1>7. IsInjective(t)
  <2>. SUFFICES ASSUME NEW j \in 1 .. Len(s) - 1, NEW k \in 1 .. Len(s) - 1, t[j] = t[k]
               PROVE  j = k
    BY <1>6 DEF IsInjective
  <2>1. \A n \in 1 .. Len(s) - 1 : n \in DOMAIN s /\ n + 1 \in DOMAIN s
    BY <1>1
  <2>2. \A n \in 1 .. Len(s) - 1 : (n < i /\ t[n] = s[n]) \/ (n >= i /\ t[n] = s[n + 1])
    BY <1>1, <1>5
  <2>3. \A n, m \in DOMAIN s : s[n] = s[m] => n = m
    BY DEF IsInjective
  <2>4. j \in Nat /\ k \in Nat /\ i \in Nat
    BY <1>1
  <2>5. CASE j < i /\ k < i
    BY <2>1, <2>2, <2>3, <2>4, <2>5
  <2>6. CASE j < i /\ k >= i
    BY <2>1, <2>2, <2>3, <2>4, <2>6
  <2>7. CASE j >= i /\ k < i
    BY <2>1, <2>2, <2>3, <2>4, <2>7
  <2>8. CASE j >= i /\ k >= i
    BY <2>1, <2>2, <2>3, <2>4, <2>8
  <2>. QED  BY <2>4, <2>5, <2>6, <2>7, <2>8
<1>8. Range(t) = Range(s) \ {s[i]}
  <2>1. ASSUME NEW e \in Range(t) PROVE e \in Range(s) \ {s[i]}
    <3>1. PICK j \in 1 .. Len(s) - 1 : e = t[j]
      BY <1>6 DEF Range
    <3>2. /\ j \in DOMAIN s /\ j + 1 \in DOMAIN s /\ (j < i \/ j + 1 > i)
      BY <1>1
    <3>3. CASE j < i
      <4>1. e = s[j] /\ j # i
        BY <1>5, <3>1, <3>3
      <4>. QED  BY <3>2, <4>1 DEF Range, IsInjective
    <3>4. CASE ~(j < i)
      <4>1. e = s[j + 1] /\ j + 1 # i
        BY <1>1, <1>5, <3>1, <3>4
      <4>. QED  BY <3>2, <4>1 DEF Range, IsInjective
    <3>. QED  BY <3>3, <3>4
  <2>2. ASSUME NEW e \in Range(s), e # s[i] PROVE e \in Range(t)
    <3>1. PICK j \in 1 .. Len(s) : e = s[j]
      BY <1>1 DEF Range
    <3>2. CASE j < i
      <4>1. j \in 1 .. Len(s) - 1 /\ t[j] = e
        BY <1>1, <1>5, <3>1, <3>2
      <4>. QED  BY <1>6, <4>1 DEF Range
    <3>3. CASE j > i
      <4>1. j - 1 \in 1 .. Len(s) - 1 /\ ~(j - 1 < i) /\ (j - 1) + 1 = j
        BY <1>1, <3>1, <3>3
      <4>2. t[j - 1] = e
        BY <1>5, <3>1, <4>1
      <4>. QED  BY <1>6, <4>1, <4>2 DEF Range
    <3>. QED  BY <1>1, <2>2, <3>1, <3>2, <3>3
  <2>. QED  BY <2>1, <2>2
<1>. QED  BY <1>4, <1>7, <1>8 DEF t

\* Numbers of what was said: as more is said, they go on being that.
LEMMA NumbersGrow ==
  ASSUME NEW n \in Nat, NEW s \in Seq(1 .. n)
  PROVE  s \in Seq(1 .. n + 1)
<1>1. 1 .. n \subseteq 1 .. n + 1
  OBVIOUS
<1>. QED  BY <1>1, SeqMonotonic

LEMMA RetainedIs ==
  ASSUME said \in Seq(Event)
  PROVE  /\ Retained \in Seq(1 .. Len(said)) /\ Len(Retained) \in Nat
         /\ Len(Retained) <= Limit /\ DOMAIN Retained = 1 .. Len(Retained)
         /\ \A i \in 1 .. Len(Retained) : Retained[i] = Len(said) - Len(Retained) + i
         /\ \A n \in 1 .. Len(said) : n > Len(said) - Limit => n \in Range(Retained)
         /\ Len(said) <= Limit => Retained = [i \in 1 .. Len(said) |-> i]
<1>. DEFINE k == IF Len(said) > Limit THEN Limit ELSE Len(said)
            o == IF Len(said) > Limit THEN Len(said) - Limit ELSE 0
<1>1. /\ Len(said) \in Nat /\ Limit \in Nat /\ k \in Nat /\ o \in Nat
      /\ o + k = Len(said) /\ k <= Limit
  BY FeedAssumption, LenProperties
<1>2. Retained = [i \in 1 .. k |-> o + i]
  BY DEF Retained
<1>3. Len(said) <= Limit => o = 0 /\ k = Len(said)
  <2>. SUFFICES ASSUME Len(said) <= Limit PROVE o = 0 /\ k = Len(said)
    OBVIOUS
  <2>1. ~(Len(said) > Limit)
    BY <1>1
  <2>. QED  BY <2>1
<1>4. Len(said) > Limit => o = Len(said) - Limit
  OBVIOUS
<1>. HIDE DEF k, o
<1>5. Retained \in [1 .. k -> 1 .. Len(said)]
  BY <1>1, <1>2
<1>6. Retained \in Seq(1 .. Len(said)) /\ Len(Retained) = k
  BY <1>1, <1>5, <1>2
<1>7. \A i \in 1 .. k : Retained[i] = o + i
  BY <1>2
<1>8. ASSUME NEW n \in 1 .. Len(said), n > Len(said) - Limit PROVE n \in Range(Retained)
  <2>1. n - o \in 1 .. k
    BY <1>1, <1>3, <1>4, <1>8
  <2>2. Retained[n - o] = n
    BY <1>1, <1>7, <2>1
  <2>. QED  BY <1>5, <2>1, <2>2 DEF Range
<1>9. Len(said) <= Limit => Retained = [i \in 1 .. Len(said) |-> i]
  <2>. SUFFICES ASSUME Len(said) <= Limit PROVE Retained = [i \in 1 .. Len(said) |-> i]
    OBVIOUS
  <2>1. \A i \in 1 .. Len(said) : o + i = i
    BY <1>1, <1>3
  <2>. QED  BY <1>2, <1>3, <2>1
<1>10. Len(said) - k = o /\ DOMAIN Retained = 1 .. k
  BY <1>1, <1>5
<1>. QED  BY <1>1, <1>6, <1>7, <1>8, <1>9, <1>10

\* What overlap finds the history and the queue have in common, they have.
LEMMA OverlapIs ==
  ASSUME NEW S, NEW h \in Seq(S), NEW q \in Seq(S)
  PROVE  /\ Overlap(h, q) \in Nat /\ Overlap(h, q) <= Len(h) /\ Overlap(h, q) <= Len(q)
         /\ \A j \in 1 .. Overlap(h, q) : h[Len(h) - Overlap(h, q) + j] = q[j]
<1>. DEFINE fits == {k \in 1 .. Len(h) : k <= Len(q) /\
                       SubSeq(h, Len(h) - k + 1, Len(h)) = SubSeq(q, 1, k)}
            o == Overlap(h, q)
<1>1. Len(h) \in Nat /\ Len(q) \in Nat /\ DOMAIN h = 1 .. Len(h) /\ DOMAIN q = 1 .. Len(q)
  BY LenProperties
<1>2. CASE fits = {}
  <2>1. o = 0
    BY <1>2 DEF Overlap
  <2>. HIDE DEF o
  <2>. QED  BY <1>1, <2>1 DEF o
<1>3. CASE fits # {}
  <2>1. fits \in SUBSET (0 .. Len(h))
    BY <1>1
  <2>2. o = CHOOSE k \in fits : \A j \in fits : j <= k
    BY <1>3 DEF Overlap
  <2>3. \E k \in fits : \A j \in fits : j <= k
    <3>. HIDE DEF fits
    <3>. QED  BY <1>1, <1>3, <2>1, GreatestNat
  <2>4. o \in fits
    <3>. HIDE DEF fits, o
    <3>. QED  BY <2>2, <2>3
  <2>. DEFINE a == SubSeq(h, Len(h) - o + 1, Len(h))  z == SubSeq(q, 1, o)
  <2>. HIDE DEF o
  <2>5. o \in 1 .. Len(h) /\ o <= Len(q) /\ a = z
    BY <2>4
  <2>6. \A j \in 1 .. o : z[j] = q[j]
    <3>1. \A j \in 1 .. o : q[j] \in S
      BY <1>1, <2>5, ElementOfSeq
    <3>2. \A j \in 1 .. o - 1 + 1 : z[j] = q[1 + j - 1]
      BY <1>1, <2>5, <3>1, SubSeqProperties
    <3>. QED  BY <2>5, <3>2
  <2>7. \A j \in 1 .. o : a[j] = h[Len(h) - o + j]
    <3>1. \A j \in Len(h) - o + 1 .. Len(h) : h[j] \in S
      BY <1>1, <2>5, ElementOfSeq
    <3>2. Len(h) - (Len(h) - o + 1) + 1 = o
      BY <1>1, <2>5
    <3>3. \A j \in 1 .. o : a[j] = h[(Len(h) - o + 1) + j - 1]
      BY <1>1, <2>5, <3>1, <3>2, SubSeqProperties
    <3>4. \A j \in 1 .. o : (Len(h) - o + 1) + j - 1 = Len(h) - o + j
      BY <1>1, <2>5
    <3>. QED  BY <3>3, <3>4
  <2>. QED  BY <1>1, <2>5, <2>6, <2>7 DEF o
<1>. QED  BY <1>2, <1>3

\* What the interface starts with: the history, and what was caught after it.
Seed(h, q) == h \o SubSeq(q, Overlap(h, q) + 1, Len(q))

LEMMA SeedIs ==
  ASSUME NEW S, NEW h \in Seq(S), NEW q \in Seq(S)
  PROVE  /\ Seed(h, q) \in Seq(S) /\ Len(h) \in Nat /\ Len(q) \in Nat
         /\ DOMAIN Seed(h, q) = 1 .. Len(h) + Len(q) - Overlap(h, q)
         /\ \A i \in 1 .. Len(h) : Seed(h, q)[i] = h[i]
         /\ \A i \in Overlap(h, q) + 1 .. Len(q) :
              Seed(h, q)[Len(h) + i - Overlap(h, q)] = q[i]
         /\ Range(h) \cup Range(q) \subseteq Range(Seed(h, q))
<1>. DEFINE o == Overlap(h, q)  z == SubSeq(q, o + 1, Len(q))  s == Seed(h, q)
<1>1. /\ Len(h) \in Nat /\ Len(q) \in Nat /\ DOMAIN h = 1 .. Len(h) /\ DOMAIN q = 1 .. Len(q)
  BY LenProperties
<1>2. /\ o \in Nat /\ o <= Len(h) /\ o <= Len(q) /\ \A j \in 1 .. o : h[Len(h) - o + j] = q[j]
  BY OverlapIs
<1>3. s = h \o z
  BY DEF Seed
<1>. HIDE DEF o, s
<1>4. /\ z \in Seq(S) /\ Len(z) = Len(q) - o /\ \A j \in 1 .. Len(q) - o : z[j] = q[o + j]
  <2>1. \A j \in o + 1 .. Len(q) : q[j] \in S
    BY <1>1, <1>2, ElementOfSeq
  <2>2. /\ o + 1 \in Int /\ Len(q) \in Int /\ ~(o + 1 > Len(q) + 1)
        /\ Len(q) - (o + 1) + 1 = Len(q) - o
    BY <1>1, <1>2
  <2>3. /\ z \in Seq(S) /\ Len(z) = Len(q) - (o + 1) + 1
        /\ \A j \in 1 .. Len(q) - (o + 1) + 1 : z[j] = q[(o + 1) + j - 1]
    BY <2>1, <2>2, SubSeqProperties
  <2>4. \A j \in 1 .. Len(q) - o : (o + 1) + j - 1 = o + j
    BY <1>1, <1>2
  <2>. QED  BY <2>2, <2>3, <2>4
<1>. HIDE DEF z
<1>5. /\ s \in Seq(S) /\ Len(s) = Len(h) + Len(z)
      /\ \A j \in 1 .. Len(h) + Len(z) : s[j] = IF j <= Len(h) THEN h[j] ELSE z[j - Len(h)]
  BY <1>3, <1>4, ConcatProperties
<1>6. DOMAIN s = 1 .. Len(h) + Len(q) - o
  BY <1>1, <1>2, <1>4, <1>5, LenProperties
<1>7. \A i \in 1 .. Len(h) : s[i] = h[i]
  <2>1. \A i \in 1 .. Len(h) : i \in 1 .. Len(h) + Len(z) /\ i <= Len(h)
    BY <1>1, <1>2, <1>4
  <2>. QED  BY <1>5, <2>1
<1>8. ASSUME NEW i \in o + 1 .. Len(q) PROVE s[Len(h) + i - o] = q[i]
  <2>1. /\ Len(h) + i - o \in 1 .. Len(h) + Len(z) /\ ~(Len(h) + i - o <= Len(h))
        /\ Len(h) + i - o - Len(h) = i - o /\ i - o \in 1 .. Len(q) - o /\ o + (i - o) = i
    BY <1>1, <1>2, <1>4
  <2>. QED  BY <1>4, <1>5, <2>1, SMTT(30)
<1>9. ASSUME NEW e \in Range(h) \cup Range(q) PROVE e \in Range(s)
  <2>1. ASSUME NEW i \in 1 .. Len(h) PROVE h[i] \in Range(s)
    <3>1. i \in DOMAIN s
      BY <1>1, <1>2, <1>6
    <3>. QED  BY <1>7, <3>1 DEF Range
  <2>2. ASSUME NEW i \in 1 .. Len(q) PROVE q[i] \in Range(s)
    <3>1. CASE i <= o
      <4>1. i \in 1 .. o /\ Len(h) - o + i \in 1 .. Len(h)
        BY <1>1, <1>2, <3>1
      <4>. QED  BY <1>2, <2>1, <4>1
    <3>2. CASE i > o
      <4>1. i \in o + 1 .. Len(q) /\ Len(h) + i - o \in DOMAIN s
        BY <1>1, <1>2, <1>6, <3>2
      <4>. QED  BY <1>8, <4>1 DEF Range
    <3>. QED  BY <1>2, <3>1, <3>2
  <2>3. \/ \E i \in 1 .. Len(h) : e = h[i]
        \/ \E i \in 1 .. Len(q) : e = q[i]
    BY <1>1, <1>9 DEF Range
  <2>. QED  BY <2>1, <2>2, <2>3
<1>. QED  BY <1>1, <1>5, <1>6, <1>7, <1>8, <1>9 DEF o, s

-----------------------------------------------------------------------------
(***************************************************************************)
(* The invariant. On the bus: an emitter delivers the last event it said,  *)
(* nobody is called twice for one event, and only the session speaks of    *)
(* services.                                                               *)
(***************************************************************************)
Awaited(c) == \E m \in Emitter : c \in Range(emit[m].to)

BusOK ==
  /\ \A m \in Emitter :
       /\ emit[m].step = "idle" => emit[m].to = <<>>
       /\ emit[m].step # "idle" => /\ emit[m].n \in 1 .. Len(said) /\ said[emit[m].n].by = m
                                   /\ \A n \in 1 .. Len(said) : said[n].by = m => n <= emit[m].n
       /\ IsInjective(emit[m].to)
  /\ IsInjective(subs)
  /\ \A n \in 1 .. Len(said) : said[n].kind # "other" => said[n].by = Session

\* How a reader opens: nothing is caught for it before it subscribed, and it has
\* shown nothing before it has read the history.
OpeningOK ==
  /\ \A r \in Reader :
       /\ Reading(r) => r \in Range(subs)
       /\ at[r] = "shut" => queue[r] = <<>> /\ r \notin Range(subs) /\ ~Awaited(r)
       /\ at[r] \in {"shut", "subscribed"} => batch[r] = <<>> /\ since[r].read = 0
       /\ at[r] \in {"shut", "subscribed", "read"} => shown[r] = <<>>
       /\ at[r] = "read" =>
            \A i, j \in 1 .. Len(batch[r]) : i < j => batch[r][i] < batch[r][j]
       /\ \A n \in Range(queue[r]) \cup OnTheWay(r) : n > since[r].sub
  /\ queue["log"] = <<>> /\ batch["log"] = <<>> /\ at["log"] \notin {"subscribed", "read"}

\* All a reader has, in the order it shows it.
Line(r) == (shown[r] \o batch[r]) \o queue[r]
Opening(r, n) == since[r].sub < n /\ n <= since[r].read

\* What stands twice in the line, or may come to, was said while the reader was
\* opening.
RepeatsOK ==
  \A r \in Reader :
    /\ \A i, j \in DOMAIN Line(r) : i # j /\ Line(r)[i] = Line(r)[j] => Opening(r, Line(r)[i])
    /\ \A i \in DOMAIN Line(r) : Line(r)[i] \in OnTheWay(r) => Opening(r, Line(r)[i])

\* What the session said later comes later, in the line of the interface, however
\* often the earlier stands there.
FollowsOK ==
  Reading("screen") =>
    \A i \in DOMAIN Line("screen"), b \in 1 .. Len(said) :
      /\ said[Line("screen")[i]].by = Session /\ said[b].by = Session
      /\ Line("screen")[i] < b
      => \/ b \in OnTheWay("screen")
         \/ \E j \in DOMAIN Line("screen") : j > i /\ Line("screen")[j] = b

\* What the interface and the board take as running is what they were told so far.
Upto(k) == [i \in 1 .. k |-> i]
Told == IF "board" \in Range(emit[Session].to) THEN emit[Session].n - 1 ELSE Len(said)
ScreenRuns == at["screen"] = "pumping" => running["screen"] = NoteAll(shown["screen"])
BoardListed ==
  /\ watch # "watching" => "board" \notin Range(subs) /\ ~Awaited("board")
  /\ watch = "watching" => "board" \in Range(subs)
BoardRuns ==
  /\ watch = "read" /\ since["board"].read <= Limit =>
       running["board"] = NoteAll(Upto(since["board"].read))
  /\ watch = "watching" /\ since["board"].read = since["board"].sub
       /\ since["board"].read <= Limit => running["board"] = NoteAll(Upto(Told))
RunningOK == ScreenRuns /\ BoardListed /\ BoardRuns

FeedInv == /\ FeedTypeOK /\ BusOK /\ OpeningOK /\ NothingMissed
           /\ RepeatsOK /\ FollowsOK /\ RunningOK

\* Steps by what they do to the lines: these do nothing.
Reads(r) == (r = "screen" /\ ScreenReads) \/ (r \in Page /\ PageReads(r))
Still ==
  \/ \E m \in Emitter : Deliver(m) \/ Return(m)
  \/ ScreenSubscribes \/ PumpWakes \/ PumpSends \/ ScreenCloses \/ LogOpens \/ LogStalls \/ Board
  \/ \E p \in Page : PageSubscribes(p) \/ PageWrites(p) \/ PageGoes(p)
  \/ UNCHANGED feedVars

LEMMA StepsAre ==
  ASSUME [FeedNext]_feedVars
  PROVE  \/ \E m \in Emitter : Record(m) \/ Call(m)
         \/ \E r \in Reader : Reads(r)
         \/ ScreenSeeds
         \/ Still
<1>1. "screen" \in Reader /\ \A p \in Page : p \in Reader
  BY DEF Reader, Terminal
<1>. QED  BY <1>1 DEF FeedNext, Screen, Speaks, Still, Reads

-----------------------------------------------------------------------------
(***************************************************************************)
(* Types.                                                                  *)
(***************************************************************************)
LEMMA Typed ==
  ASSUME FeedTypeOK
  PROVE  /\ Len(said) \in Nat /\ DOMAIN said = 1 .. Len(said)
         /\ \A n \in 1 .. Len(said) : said[n] \in Event
         /\ DOMAIN subs = 1 .. Len(subs) /\ Len(subs) \in Nat
         /\ Range(subs) \subseteq Subscriber
         /\ \A m \in Emitter : /\ emit[m].step \in {"idle", "waiting", "delivering"}
                               /\ emit[m].n \in 0 .. Len(said) /\ emit[m].to \in Seq(Subscriber)
                               /\ Range(emit[m].to) \subseteq Subscriber
         /\ DOMAIN emit = Emitter /\ DOMAIN at = Reader
         /\ DOMAIN queue = Reader /\ DOMAIN batch = Reader /\ DOMAIN shown = Reader
         /\ DOMAIN since = Reader \cup {"board"}
         /\ \A r \in Reader : /\ queue[r] \in Seq(1 .. Len(said))
                              /\ batch[r] \in Seq(1 .. Len(said))
                              /\ shown[r] \in Seq(1 .. Len(said))
                              /\ Line(r) \in Seq(1 .. Len(said))
         /\ \A r \in Reader \cup {"board"} :
              since[r].sub \in 0 .. Len(said) /\ since[r].read \in 0 .. Len(said)
<1>1. /\ Len(said) \in Nat /\ DOMAIN said = 1 .. Len(said)
      /\ \A n \in 1 .. Len(said) : said[n] \in Event
      /\ DOMAIN subs = 1 .. Len(subs) /\ Len(subs) \in Nat
      /\ Range(subs) \subseteq Subscriber
  BY LenProperties, ElementOfSeq, RangeOfSeq DEF FeedTypeOK
<1>2. ASSUME NEW m \in Emitter
      PROVE  /\ emit[m].step \in {"idle", "waiting", "delivering"}
             /\ emit[m].n \in 0 .. Len(said) /\ emit[m].to \in Seq(Subscriber)
             /\ Range(emit[m].to) \subseteq Subscriber
  <2>1. emit[m] \in [step : {"idle", "waiting", "delivering"}, n : 0 .. Len(said),
                     to : Seq(Subscriber)]
    BY DEF FeedTypeOK
  <2>2. emit[m].to \in Seq(Subscriber)
    BY <2>1
  <2>. QED  BY <2>1, <2>2, RangeOfSeq
<1>3. /\ queue \in [Reader -> Seq(1 .. Len(said))] /\ batch \in [Reader -> Seq(1 .. Len(said))]
      /\ shown \in [Reader -> Seq(1 .. Len(said))]
  BY DEF FeedTypeOK
<1>4. ASSUME NEW r \in Reader
      PROVE  /\ queue[r] \in Seq(1 .. Len(said)) /\ batch[r] \in Seq(1 .. Len(said))
             /\ shown[r] \in Seq(1 .. Len(said)) /\ Line(r) \in Seq(1 .. Len(said))
  <2>1. /\ queue[r] \in Seq(1 .. Len(said)) /\ batch[r] \in Seq(1 .. Len(said))
        /\ shown[r] \in Seq(1 .. Len(said))
    BY <1>3
  <2>2. shown[r] \o batch[r] \in Seq(1 .. Len(said))
    BY <2>1, ConcatProperties
  <2>3. (shown[r] \o batch[r]) \o queue[r] \in Seq(1 .. Len(said))
    BY <2>1, <2>2, ConcatProperties
  <2>. QED  BY <2>1, <2>3 DEF Line
<1>. QED  BY <1>1, <1>2, <1>3, <1>4 DEF FeedTypeOK

LEMMA Kinds ==
  /\ "screen" \in Reader /\ "log" \in Reader /\ Page \subseteq Reader /\ "board" \notin Reader
  /\ "screen" \notin Page /\ "log" \notin Page /\ "board" \notin Page
  /\ Subscriber = Reader \cup {"board"} /\ Reader = {"screen", "log"} \cup Page
BY FeedAssumption DEF Reader, Terminal, Subscriber

\* A call of one subscriber.
Called(m, c, n) ==
  /\ c \in Subscriber /\ n \in 1 .. Len(said) /\ c \in Range(emit[m].to)
  /\ emit[m].step = "delivering" /\ emit[m].to # <<>>
  /\ UNCHANGED <<said, subs, at, since, party, stuck, watch>>
  /\ \A d \in Emitter : d # m => emit'[d] = emit[d]
  /\ emit' = [emit EXCEPT ![m].to = Tail(@)]
  /\ emit'[m].step = emit[m].step /\ emit'[m].n = n /\ emit'[m].to = Tail(emit[m].to)
  /\ batch' = batch
  /\ \A r \in Reader : r # c => queue'[r] = queue[r] /\ shown'[r] = shown[r]
  /\ dropped \subseteq dropped'
  /\ c = "log" => queue' = queue /\ shown' = [shown EXCEPT !["log"] = Append(@, n)]
  /\ c # "log" => shown' = shown
  /\ c \in Reader \ {"log"} =>
       \/ queue' = [queue EXCEPT ![c] = Append(@, n)]
       \/ queue' = queue /\ (at[c] = "closed" \/ <<c, n>> \in dropped')
  /\ dropped' = dropped \/ (c \in Page /\ dropped' = dropped \cup {<<c, n>>})
  /\ c = "board" => /\ queue' = queue
                    /\ running' = [running EXCEPT !["board"] = Note(@, said[n])]
  /\ c # "board" => running' = running
  /\ wake' \in BOOLEAN

LEMMA CallIs ==
  ASSUME FeedTypeOK, BusOK, NEW m \in Emitter, Call(m)
  PROVE  Called(m, Head(emit[m].to), emit[m].n)
<1>. DEFINE c == Head(emit[m].to)  n == emit[m].n
<1>1. /\ emit[m].step = "delivering" /\ emit[m].to # <<>> /\ emit[m].to \in Seq(Subscriber)
      /\ m \in DOMAIN emit
  BY Typed DEF Call
<1>2. c \in Subscriber /\ c \in Range(emit[m].to)
  BY <1>1, Parted
<1>3. n \in 1 .. Len(said)
  BY <1>1 DEF BusOK
<1>4. /\ UNCHANGED <<said, subs, party, stuck, watch>>
      /\ emit' = [emit EXCEPT ![m].to = Tail(@)]
      /\ \/ c = "screen" /\ Push(n)
         \/ c = "log" /\ WriteLine(n)
         \/ c = "board" /\ NoteBoard(n)
         \/ c \in Page /\ Offer(c, n)
  BY DEF Call
<1>5. /\ \A d \in Emitter : d # m => emit'[d] = emit[d]
      /\ emit'[m].step = emit[m].step /\ emit'[m].n = n /\ emit'[m].to = Tail(emit[m].to)
  BY <1>1, <1>4 DEF FeedTypeOK
<1>6. wake \in BOOLEAN /\ DOMAIN queue = Reader /\ DOMAIN shown = Reader
  BY Typed DEF FeedTypeOK
<1>. HIDE DEF c, n
<1>. SUFFICES Called(m, c, n)
  BY DEF c, n
<1>7. CASE c = "screen" /\ Push(n)
  <2>1. c \notin Page /\ c # "log" /\ c # "board"
    BY <1>7, Kinds
  <2>2. /\ UNCHANGED <<at, batch, shown, since, dropped, running>>
        /\ \/ queue' = [queue EXCEPT ![c] = Append(@, n)] /\ wake' = TRUE
           \/ queue' = queue /\ at[c] = "closed" /\ wake' = wake
    BY <1>7 DEF Push
  <2>. QED  BY <1>1, <1>2, <1>3, <1>4, <1>5, <1>6, <2>1, <2>2 DEF Called
<1>8. CASE c = "log" /\ WriteLine(n)
  <2>1. c \notin Page /\ c # "screen" /\ c # "board"
    BY <1>8, Kinds
  <2>2. /\ UNCHANGED <<at, queue, batch, wake, since, dropped, running>>
        /\ shown' = [shown EXCEPT !["log"] = Append(@, n)]
    BY <1>8 DEF WriteLine
  <2>. QED  BY <1>1, <1>2, <1>3, <1>4, <1>5, <1>6, <1>8, <2>1, <2>2 DEF Called
<1>9. CASE c = "board" /\ NoteBoard(n)
  <2>1. c \notin Reader
    BY <1>9, Kinds
  <2>2. /\ UNCHANGED <<at, queue, batch, shown, wake, since, dropped>>
        /\ running' = [running EXCEPT !["board"] = Note(@, said[n])]
    BY <1>9 DEF NoteBoard, readVars
  <2>. QED  BY <1>1, <1>2, <1>3, <1>4, <1>5, <1>6, <1>9, <2>1, <2>2 DEF Called
<1>10. CASE c \in Page /\ Offer(c, n)
  <2>1. c # "log" /\ c # "screen" /\ c # "board"
    BY <1>10, Kinds
  <2>2. /\ UNCHANGED <<at, batch, shown, wake, since, running>>
        /\ \/ queue' = [queue EXCEPT ![c] = Append(@, n)] /\ dropped' = dropped
           \/ queue' = queue /\ dropped' = dropped \cup {<<c, n>>}
    BY <1>10 DEF Offer
  <2>. QED  BY <1>1, <1>2, <1>3, <1>4, <1>5, <1>6, <1>10, <2>1, <2>2 DEF Called
<1>. QED  BY <1>4, <1>7, <1>8, <1>9, <1>10

LEMMA SeedsAre ==
  ASSUME ScreenSeeds
  PROVE  /\ at["screen"] = "read" /\ at' = [at EXCEPT !["screen"] = "pumping"]
         /\ queue' = [queue EXCEPT !["screen"] = <<>>]
         /\ batch' = [batch EXCEPT !["screen"] = <<>>]
         /\ shown' = [shown EXCEPT !["screen"] = Seed(batch["screen"], queue["screen"])]
         /\ running' = [running EXCEPT !["screen"] =
                          NoteAll(Seed(batch["screen"], queue["screen"]))]
         /\ UNCHANGED <<busVars, party, wake, stuck, dropped, watch, since>>
BY DEF ScreenSeeds, Seed

LEMMA ReadsAre ==
  ASSUME FeedTypeOK, NEW r \in Reader, Reads(r)
  PROVE  /\ at[r] = "subscribed" /\ batch' = [batch EXCEPT ![r] = Retained]
         /\ since' = [since EXCEPT ![r].read = Len(said)]
         /\ at' = [at EXCEPT ![r] = IF r = "screen" THEN "read" ELSE "pumping"]
         /\ UNCHANGED <<busVars, party, queue, shown, wake, stuck, dropped, watch, running>>
<1>1. "screen" \notin Page
  BY Kinds
<1>. QED  BY <1>1 DEF Reads, ScreenReads, PageReads

LEMMA RecordIs ==
  ASSUME FeedTypeOK, NEW m \in Emitter, Record(m)
  PROVE  /\ emit[m].step = "idle"
         /\ \E e \in Says(m) : e \in Event /\ said' = Append(said, e)
         /\ said' \in Seq(Event) /\ Len(said') = Len(said) + 1 /\ Len(said) \in Nat
         /\ \A i \in 1 .. Len(said) : said'[i] = said[i]
         /\ said'[Len(said) + 1] \in Says(m)
         /\ emit' = [emit EXCEPT ![m] = [step |-> "waiting", n |-> Len(said) + 1, to |-> subs]]
         /\ emit'[m] = [step |-> "waiting", n |-> Len(said) + 1, to |-> subs]
         /\ \A d \in Emitter : d # m => emit'[d] = emit[d]
         /\ UNCHANGED <<subs, readVars, party, stuck, dropped, watch, running>>
<1>1. \A e \in Says(m) : e \in Event
  BY DEF Says, Event
<1>2. PICK e \in Says(m) : said' = Append(said, e)
  BY DEF Record
<1>3. said \in Seq(Event) /\ e \in Event
  BY <1>1, <1>2 DEF FeedTypeOK
<1>4. /\ said' \in Seq(Event) /\ Len(said') = Len(said) + 1 /\ Len(said) \in Nat
      /\ \A i \in 1 .. Len(said) : said'[i] = said[i]
      /\ said'[Len(said) + 1] = e
  BY <1>2, <1>3, Appended
<1>5. m \in DOMAIN emit /\ DOMAIN emit = Emitter
  BY Typed
<1>. QED  BY <1>2, <1>3, <1>4, <1>5 DEF Record

LEMMA NotesAre ==
  /\ \A s \in SUBSET Service, e \in Event : Note(s, e) \in SUBSET Service
  /\ \A ns : NoteAll(ns) \in SUBSET Service
BY DEF Note, NoteAll, Event

LEMMA RecordTypes ==
  ASSUME FeedTypeOK, NEW m \in Emitter, Record(m)
  PROVE  FeedTypeOK'
<1>1. /\ said' \in Seq(Event) /\ Len(said') = Len(said) + 1 /\ Len(said) \in Nat
      /\ emit' = [emit EXCEPT ![m] = [step |-> "waiting", n |-> Len(said) + 1, to |-> subs]]
      /\ UNCHANGED <<subs, readVars, party, stuck, dropped, watch, running>>
  BY RecordIs
<1>2. emit' \in [Emitter -> [step : {"idle", "waiting", "delivering"}, n : 0 .. Len(said'),
                             to : Seq(Subscriber)]]
  <2>1. [step |-> "waiting", n |-> Len(said) + 1, to |-> subs]
          \in [step : {"idle", "waiting", "delivering"}, n : 0 .. Len(said'),
               to : Seq(Subscriber)]
    BY <1>1 DEF FeedTypeOK
  <2>2. emit \in [Emitter -> [step : {"idle", "waiting", "delivering"}, n : 0 .. Len(said'),
                              to : Seq(Subscriber)]]
    <3>1. 0 .. Len(said) \subseteq 0 .. Len(said')
      BY <1>1
    <3>. QED  BY <3>1 DEF FeedTypeOK
  <2>. QED  BY <1>1, <2>1, <2>2
<1>3. {queue, batch, shown}' \subseteq [Reader -> Seq(1 .. Len(said'))]
  <2>1. {queue, batch, shown} \subseteq [Reader -> Seq(1 .. Len(said))]
    BY DEF FeedTypeOK
  <2>2. \A s \in Seq(1 .. Len(said)) : s \in Seq(1 .. Len(said'))
    BY <1>1, NumbersGrow
  <2>. QED  BY <1>1, <2>1, <2>2 DEF readVars
<1>4. since' \in [Reader \cup {"board"} -> [sub : 0 .. Len(said'), read : 0 .. Len(said')]]
  <2>1. 0 .. Len(said) \subseteq 0 .. Len(said')
    BY <1>1
  <2>. QED  BY <1>1, <2>1 DEF FeedTypeOK, readVars
<1>5. dropped' \subseteq Page \X (1 .. Len(said'))
  <2>1. 1 .. Len(said) \subseteq 1 .. Len(said')
    BY <1>1
  <2>. QED  BY <1>1, <2>1 DEF FeedTypeOK
<1>. QED  BY <1>1, <1>2, <1>3, <1>4, <1>5 DEF FeedTypeOK, readVars

\* In all others the numbers are those there were; what they put into a list is
\* of its kind.
LEMMA EmitTypes ==
  ASSUME FeedTypeOK, BusOK, [FeedNext]_feedVars, UNCHANGED said
  PROVE  emit' \in [Emitter -> [step : {"idle", "waiting", "delivering"}, n : 0 .. Len(said),
                                to : Seq(Subscriber)]]
<1>1. emit \in [Emitter -> [step : {"idle", "waiting", "delivering"}, n : 0 .. Len(said),
                            to : Seq(Subscriber)]]
  BY DEF FeedTypeOK
<1>2. ASSUME NEW m \in Emitter, Deliver(m)
      PROVE  emit' \in [Emitter -> [step : {"idle", "waiting", "delivering"}, n : 0 .. Len(said),
                                    to : Seq(Subscriber)]]
  BY <1>1, <1>2 DEF Deliver
<1>3. ASSUME NEW m \in Emitter, Return(m)
      PROVE  emit' \in [Emitter -> [step : {"idle", "waiting", "delivering"}, n : 0 .. Len(said),
                                    to : Seq(Subscriber)]]
  <2>1. Idle \in [step : {"idle", "waiting", "delivering"}, n : 0 .. Len(said),
                  to : Seq(Subscriber)]
    BY Typed DEF Idle
  <2>. QED  BY <1>1, <1>3, <2>1 DEF Return
<1>4. ASSUME NEW m \in Emitter, Call(m)
      PROVE  emit' \in [Emitter -> [step : {"idle", "waiting", "delivering"}, n : 0 .. Len(said),
                                    to : Seq(Subscriber)]]
  <2>1. emit' = [emit EXCEPT ![m].to = Tail(@)] /\ emit[m].to # <<>>
    BY <1>4 DEF Call
  <2>2. emit[m].to \in Seq(Subscriber)
    BY Typed
  <2>3. Tail(emit[m].to) \in Seq(Subscriber)
    BY <2>1, <2>2, Parted
  <2>. QED  BY <1>1, <2>1, <2>3
<1>5. ASSUME NEW m \in Emitter, Record(m) PROVE FALSE
  <2>1. Len(said') = Len(said) + 1 /\ Len(said) \in Nat
    BY <1>5, RecordIs
  <2>. QED  BY <2>1
<1>6. ASSUME NEW r \in Reader, Reads(r) PROVE emit' = emit
  BY <1>6, ReadsAre DEF busVars
<1>7. ScreenSeeds => emit' = emit
  BY SeedsAre DEF busVars
<1>8. ASSUME Still, ~(\E m \in Emitter : Deliver(m) \/ Return(m)) PROVE emit' = emit
  BY <1>8 DEF Still, ScreenSubscribes, PumpWakes, PumpSends, ScreenCloses, LogOpens, LogStalls,
              Board, BoardReads, BoardSubscribes, PageSubscribes, PageWrites, PageGoes,
              busVars, feedVars
<1>. QED  BY <1>1, <1>2, <1>3, <1>4, <1>5, <1>6, <1>7, <1>8, StepsAre

\* The list of subscribers: one that is not on it comes to its end, one that is goes.
LEMMA SubsAre ==
  ASSUME FeedTypeOK, BusOK, OpeningOK, RunningOK, [FeedNext]_feedVars
  PROVE  \/ subs' = subs /\ \A r \in Reader \cup {"board"} : since'[r].sub = since[r].sub
         \/ \E c \in Subscriber :
              /\ c \notin Range(subs) /\ ~Awaited(c) /\ subs' = Append(subs, c)
              /\ since' = [since EXCEPT ![c].sub = Len(said)] /\ said' = said /\ emit' = emit
              /\ \/ c \in Reader /\ at[c] = "shut" /\ at'[c] \in {"subscribed", "pumping"}
                 \/ c = "board" /\ watch = "read" /\ watch' = "watching"
         \/ \E c \in Subscriber, i \in DOMAIN subs :
              /\ subs[i] = c /\ subs' = RemoveAt(subs, i) /\ since' = since
              /\ said' = said /\ emit' = emit
              /\ c \in Reader /\ at' = [at EXCEPT ![c] = "closed"]
<1>0. /\ DOMAIN at = Reader /\ DOMAIN since = Reader \cup {"board"}
      /\ \A r \in Reader : at[r] = "shut" => r \notin Range(subs) /\ ~Awaited(r)
      /\ watch = "read" => "board" \notin Range(subs) /\ ~Awaited("board")
      /\ "screen" \in Subscriber /\ "log" \in Subscriber /\ "board" \in Subscriber
      /\ Page \subseteq Subscriber
  BY Typed, Kinds DEF OpeningOK, RunningOK, BoardListed
<1>1. ASSUME NEW m \in Emitter, Record(m) \/ Call(m)
      PROVE  subs' = subs /\ since' = since
  <2>1. CASE Record(m)
    BY <2>1 DEF Record, readVars
  <2>2. CASE Call(m)
    BY <2>2, CallIs DEF Called
  <2>. QED  BY <1>1, <2>1, <2>2
<1>2. ASSUME NEW r \in Reader, Reads(r)
      PROVE  subs' = subs /\ \A d \in Reader \cup {"board"} : since'[d].sub = since[d].sub
  <2>1. subs' = subs /\ since' = [since EXCEPT ![r].read = Len(said)]
    BY <1>2, ReadsAre DEF busVars
  <2>. QED  BY <1>0, <2>1
<1>3. ScreenSeeds => subs' = subs /\ since' = since
  BY SeedsAre DEF busVars
<1>4. CASE Still
  <2>1. CASE ScreenSubscribes
    BY <1>0, <2>1, Kinds DEF ScreenSubscribes, Subscribe
  <2>2. CASE LogOpens
    BY <1>0, <2>2, Kinds DEF LogOpens, Subscribe
  <2>3. CASE BoardSubscribes
    BY <1>0, <2>3 DEF BoardSubscribes, Subscribe
  <2>4. ASSUME NEW p \in Page, PageSubscribes(p)
        PROVE  \E c \in Subscriber :
              /\ c \notin Range(subs) /\ ~Awaited(c) /\ subs' = Append(subs, c)
              /\ since' = [since EXCEPT ![c].sub = Len(said)] /\ said' = said /\ emit' = emit
              /\ c \in Reader /\ at[c] = "shut" /\ at'[c] \in {"subscribed", "pumping"}
    BY <1>0, <2>4, Kinds DEF PageSubscribes, Subscribe
  <2>5. CASE ScreenCloses
    BY <1>0, <2>5, Kinds DEF ScreenCloses, Cancel
  <2>6. ASSUME NEW p \in Page, PageGoes(p)
        PROVE  \E c \in Subscriber, i \in DOMAIN subs :
              /\ subs[i] = c /\ subs' = RemoveAt(subs, i) /\ since' = since
              /\ said' = said /\ emit' = emit
              /\ c \in Reader /\ at' = [at EXCEPT ![c] = "closed"]
    BY <1>0, <2>6, Kinds DEF PageGoes, Cancel
  <2>7. CASE \/ \E m \in Emitter : Deliver(m) \/ Return(m)
             \/ PumpWakes \/ PumpSends \/ LogStalls
             \/ \E p \in Page : PageWrites(p)
             \/ UNCHANGED feedVars
    BY <2>7 DEF Deliver, Return, PumpWakes, PumpSends, LogStalls, PageWrites, readVars, busVars,
                feedVars
  <2>8. CASE BoardReads
    <3>1. subs' = subs /\ since' = [since EXCEPT !["board"].read = Len(said)]
      BY <2>8 DEF BoardReads, busVars
    <3>. QED  BY <1>0, <3>1
  <2>. QED  BY <1>4, <2>1, <2>2, <2>3, <2>4, <2>5, <2>6, <2>7, <2>8 DEF Still, Board
<1>. QED  BY <1>1, <1>2, <1>3, <1>4, StepsAre

LEMMA SubsKept ==
  ASSUME FeedTypeOK, BusOK, OpeningOK, RunningOK, [FeedNext]_feedVars
  PROVE  subs' \in Seq(Subscriber) /\ IsInjective(subs')
<1>1. subs \in Seq(Subscriber) /\ IsInjective(subs)
  BY DEF FeedTypeOK, BusOK
<1>2. ASSUME NEW c \in Subscriber, c \notin Range(subs), subs' = Append(subs, c)
      PROVE  subs' \in Seq(Subscriber) /\ IsInjective(subs')
  <2>1. /\ subs' \in Seq(Subscriber) /\ Len(subs) \in Nat /\ DOMAIN subs = 1 .. Len(subs)
        /\ DOMAIN subs' = 1 .. Len(subs) + 1 /\ subs'[Len(subs) + 1] = c
        /\ \A i \in 1 .. Len(subs) : subs'[i] = subs[i]
    BY <1>1, <1>2, Appended
  <2>2. \A i \in 1 .. Len(subs) : subs[i] # c
    BY <1>2, <2>1 DEF Range
  <2>. QED  BY <1>1, <2>1, <2>2 DEF IsInjective
<1>3. ASSUME NEW i \in DOMAIN subs, subs' = RemoveAt(subs, i)
      PROVE  subs' \in Seq(Subscriber) /\ IsInjective(subs')
  BY <1>1, <1>3, OneRemoved
<1>. QED  BY <1>1, <1>2, <1>3, SubsAre

LEMMA ListTypes ==
  ASSUME FeedTypeOK, BusOK, [FeedNext]_feedVars, UNCHANGED said
  PROVE  {queue, batch, shown}' \subseteq [Reader -> Seq(1 .. Len(said))]
<1>. DEFINE T == Seq(1 .. Len(said))
<1>0. /\ queue \in [Reader -> T] /\ batch \in [Reader -> T] /\ shown \in [Reader -> T]
      /\ \A r \in Reader : queue[r] \in T /\ batch[r] \in T /\ shown[r] \in T
      /\ <<>> \in T /\ \A s \in T, n \in 1 .. Len(said) : Append(s, n) \in T
  <2>1. /\ queue \in [Reader -> T] /\ batch \in [Reader -> T] /\ shown \in [Reader -> T]
        /\ <<>> \in T
    BY DEF FeedTypeOK
  <2>2. \A s \in T, n \in 1 .. Len(said) : Append(s, n) \in T
    BY Appended
  <2>. QED  BY <2>1, <2>2
<1>. HIDE DEF T
<1>. SUFFICES queue' \in [Reader -> T] /\ batch' \in [Reader -> T] /\ shown' \in [Reader -> T]
  BY DEF T
<1>1. ASSUME NEW m \in Emitter, Record(m) PROVE FALSE
  <2>1. Len(said') = Len(said) + 1 /\ Len(said) \in Nat
    BY <1>1, RecordIs
  <2>. QED  BY <2>1
<1>2. ASSUME NEW m \in Emitter, Call(m)
      PROVE  queue' \in [Reader -> T] /\ batch' \in [Reader -> T] /\ shown' \in [Reader -> T]
  <2>0. PICK c, n : c = Head(emit[m].to) /\ n = emit[m].n
    OBVIOUS
  <2>1. /\ n \in 1 .. Len(said) /\ batch' = batch /\ c \in Subscriber
        /\ c = "log" => queue' = queue /\ shown' = [shown EXCEPT !["log"] = Append(@, n)]
        /\ c # "log" => shown' = shown
        /\ c \in Reader \ {"log"} => \/ queue' = [queue EXCEPT ![c] = Append(@, n)]
                                     \/ queue' = queue
        /\ c = "board" => queue' = queue
    BY <1>2, <2>0, CallIs DEF Called
  <2>2. shown' \in [Reader -> T]
    <3>1. "log" \in Reader /\ Append(shown["log"], n) \in T
      BY <1>0, <2>1, Kinds
    <3>. QED  BY <1>0, <2>1, <3>1
  <2>3. queue' \in [Reader -> T]
    <3>1. \/ queue' = [queue EXCEPT ![c] = Append(@, n)] /\ c \in Reader
          \/ queue' = queue
      BY <2>1, Kinds
    <3>2. \A r \in Reader : Append(queue[r], n) \in T
      BY <1>0, <2>1
    <3>. QED  BY <1>0, <3>1, <3>2
  <2>. QED  BY <1>0, <2>1, <2>2, <2>3
<1>3. ASSUME NEW r \in Reader, Reads(r)
      PROVE  queue' \in [Reader -> T] /\ batch' \in [Reader -> T] /\ shown' \in [Reader -> T]
  <2>1. Retained \in T
    BY RetainedIs DEF FeedTypeOK, T
  <2>. QED  BY <1>0, <1>3, <2>1, ReadsAre
<1>4. CASE ScreenSeeds
  <2>1. Seed(batch["screen"], queue["screen"]) \in T
    BY <1>0, Kinds, SeedIs DEF T
  <2>. QED  BY <1>0, <1>4, <2>1, SeedsAre
<1>5. CASE PumpWakes
  BY <1>0, <1>5, Kinds DEF PumpWakes
<1>6. CASE PumpSends
  <2>1. /\ batch' = [batch EXCEPT !["screen"] = Tail(@)] /\ queue' = queue
        /\ shown' = [shown EXCEPT !["screen"] = Append(@, Head(batch["screen"]))]
        /\ batch["screen"] # <<>>
    BY <1>6 DEF PumpSends
  <2>2. Tail(batch["screen"]) \in T /\ Head(batch["screen"]) \in 1 .. Len(said)
    BY <1>0, <2>1, Kinds, Parted DEF T
  <2>3. Append(shown["screen"], Head(batch["screen"])) \in T
    BY <1>0, <2>2, Kinds
  <2>. QED  BY <1>0, <2>1, <2>2, <2>3
<1>7. ASSUME NEW p \in Page, PageWrites(p)
      PROVE  queue' \in [Reader -> T] /\ batch' \in [Reader -> T] /\ shown' \in [Reader -> T]
  <2>0. p \in Reader
    BY Kinds
  <2>1. CASE batch[p] # <<>>
    <3>1. /\ shown' = [shown EXCEPT ![p] = @ \o batch[p]]
          /\ batch' = [batch EXCEPT ![p] = <<>>] /\ queue' = queue
      BY <1>7, <2>1 DEF PageWrites
    <3>2. shown[p] \o batch[p] \in T
      BY <1>0, <2>0, ConcatProperties DEF T
    <3>. QED  BY <1>0, <3>1, <3>2
  <2>2. CASE batch[p] = <<>>
    <3>1. /\ shown' = [shown EXCEPT ![p] = Append(@, Head(queue[p]))] /\ queue[p] # <<>>
          /\ queue' = [queue EXCEPT ![p] = Tail(@)] /\ batch' = batch
      BY <1>7, <2>2 DEF PageWrites
    <3>2. Tail(queue[p]) \in T /\ Head(queue[p]) \in 1 .. Len(said)
      BY <1>0, <2>0, <3>1, Parted DEF T
    <3>3. Append(shown[p], Head(queue[p])) \in T
      BY <1>0, <2>0, <3>2
    <3>. QED  BY <1>0, <3>1, <3>2, <3>3
  <2>. QED  BY <2>1, <2>2
<1>8. CASE \/ \E m \in Emitter : Deliver(m) \/ Return(m)
           \/ ScreenSubscribes \/ ScreenCloses \/ LogOpens \/ LogStalls \/ Board
           \/ \E p \in Page : PageSubscribes(p) \/ PageGoes(p)
           \/ UNCHANGED feedVars
  BY <1>0, <1>8 DEF Deliver, Return, ScreenSubscribes, ScreenCloses, LogOpens, LogStalls, Board,
     BoardReads, BoardSubscribes, PageSubscribes, PageGoes, readVars, feedVars
<1>. QED  BY <1>1, <1>2, <1>3, <1>4, <1>5, <1>6, <1>7, <1>8, StepsAre DEF Still

LEMMA OtherTypes ==
  ASSUME FeedTypeOK, BusOK, [FeedNext]_feedVars, UNCHANGED said
  PROVE  /\ at' \in [Reader -> {"shut", "subscribed", "read", "pumping", "closed"}]
         /\ since' \in [Reader \cup {"board"} -> [sub : 0 .. Len(said), read : 0 .. Len(said)]]
         /\ wake' \in BOOLEAN /\ stuck' \in BOOLEAN /\ watch' \in {"new", "read", "watching"}
         /\ running' \in [{"screen", "board"} -> SUBSET Service]
         /\ dropped' \subseteq Page \X (1 .. Len(said))
<1>0. /\ at \in [Reader -> {"shut", "subscribed", "read", "pumping", "closed"}]
      /\ since \in [Reader \cup {"board"} -> [sub : 0 .. Len(said), read : 0 .. Len(said)]]
      /\ wake \in BOOLEAN /\ stuck \in BOOLEAN /\ watch \in {"new", "read", "watching"}
      /\ running \in [{"screen", "board"} -> SUBSET Service]
      /\ dropped \subseteq Page \X (1 .. Len(said))
      /\ Len(said) \in 0 .. Len(said)
  BY Typed DEF FeedTypeOK
<1>1. ASSUME NEW m \in Emitter, Record(m) PROVE FALSE
  <2>1. Len(said') = Len(said) + 1 /\ Len(said) \in Nat
    BY <1>1, RecordIs
  <2>. QED  BY <2>1
<1>2. ASSUME NEW m \in Emitter, Call(m)
      PROVE  /\ UNCHANGED <<at, since, stuck, watch>> /\ wake' \in BOOLEAN
             /\ running' \in [{"screen", "board"} -> SUBSET Service]
             /\ dropped' \subseteq Page \X (1 .. Len(said))
  <2>0. PICK c, n : c = Head(emit[m].to) /\ n = emit[m].n
    OBVIOUS
  <2>1. /\ n \in 1 .. Len(said) /\ UNCHANGED <<at, since, stuck, watch>> /\ wake' \in BOOLEAN
        /\ dropped' = dropped \/ (c \in Page /\ dropped' = dropped \cup {<<c, n>>})
        /\ c = "board" => running' = [running EXCEPT !["board"] = Note(@, said[n])]
        /\ c # "board" => running' = running
    BY <1>2, <2>0, CallIs DEF Called
  <2>2. dropped' \subseteq Page \X (1 .. Len(said))
    BY <1>0, <2>1
  <2>3. Note(running["board"], said[n]) \in SUBSET Service
    BY <1>0, <2>1, NotesAre, Typed
  <2>. QED  BY <1>0, <2>1, <2>2, <2>3
<1>3. ASSUME NEW r \in Reader, Reads(r)
      PROVE  /\ at' \in [Reader -> {"shut", "subscribed", "read", "pumping", "closed"}]
             /\ since' \in [Reader \cup {"board"} -> [sub : 0 .. Len(said), read : 0 .. Len(said)]]
             /\ UNCHANGED <<wake, stuck, watch, running, dropped>>
  <2>1. /\ since' = [since EXCEPT ![r].read = Len(said)]
        /\ at' = [at EXCEPT ![r] = IF r = "screen" THEN "read" ELSE "pumping"]
        /\ UNCHANGED <<wake, stuck, watch, running, dropped>>
    BY <1>3, ReadsAre
  <2>2. at' \in [Reader -> {"shut", "subscribed", "read", "pumping", "closed"}]
    BY <1>0, <2>1
  <2>3. [since[r] EXCEPT !.read = Len(said)] \in [sub : 0 .. Len(said), read : 0 .. Len(said)]
    BY <1>0
  <2>. QED  BY <1>0, <2>1, <2>2, <2>3
<1>4. CASE ScreenSeeds
  BY <1>0, <1>4, SeedsAre, NotesAre
<1>5. CASE PumpSends
  <2>1. /\ running' = [running EXCEPT !["screen"] = Note(@, said[Head(batch["screen"])])]
        /\ UNCHANGED <<at, wake, stuck, dropped, watch, since>> /\ batch["screen"] # <<>>
    BY <1>5 DEF PumpSends
  <2>2. said[Head(batch["screen"])] \in Event
    BY <2>1, Typed, Kinds, Parted
  <2>3. Note(running["screen"], said[Head(batch["screen"])]) \in SUBSET Service
    BY <1>0, <2>2, NotesAre
  <2>. QED  BY <1>0, <2>1, <2>3
<1>6. CASE Board
  BY <1>0, <1>6, NotesAre DEF Board, BoardReads, BoardSubscribes, Subscribe
<1>7. CASE ScreenSubscribes \/ LogOpens \/ \E p \in Page : PageSubscribes(p)
  <2>1. PICK c \in Reader : /\ since' = [since EXCEPT ![c].sub = Len(said)]
                            /\ \E a \in {"subscribed", "pumping"} : at' = [at EXCEPT ![c] = a]
                            /\ UNCHANGED <<wake, stuck, dropped, watch, running>>
    BY <1>7, Kinds DEF ScreenSubscribes, LogOpens, PageSubscribes, Subscribe
  <2>2. [since[c] EXCEPT !.sub = Len(said)] \in [sub : 0 .. Len(said), read : 0 .. Len(said)]
    BY <1>0
  <2>3. since' \in [Reader \cup {"board"} -> [sub : 0 .. Len(said), read : 0 .. Len(said)]]
    BY <1>0, <2>1, <2>2
  <2>. QED  BY <1>0, <2>1, <2>3
<1>8. CASE ScreenCloses \/ \E p \in Page : PageGoes(p)
  BY <1>0, <1>8 DEF ScreenCloses, PageGoes
<1>9. CASE \/ \E m \in Emitter : Deliver(m) \/ Return(m)
           \/ PumpWakes \/ LogStalls \/ \E p \in Page : PageWrites(p)
           \/ UNCHANGED feedVars
  BY <1>0, <1>9 DEF Deliver, Return, PumpWakes, LogStalls, PageWrites, readVars, feedVars
<1>. QED  BY <1>0, <1>1, <1>2, <1>3, <1>4, <1>5, <1>6, <1>7, <1>8, <1>9, StepsAre DEF Still

LEMMA TypesKept ==
  ASSUME FeedTypeOK, BusOK, OpeningOK, RunningOK, [FeedNext]_feedVars
  PROVE  FeedTypeOK'
<1>1. CASE \E m \in Emitter : Record(m)
  BY <1>1, RecordTypes
<1>2. CASE said' = said
  BY <1>2, EmitTypes, ListTypes, OtherTypes, SubsKept DEF FeedTypeOK
<1>3. (\E m \in Emitter : Record(m)) \/ said' = said
  <2>1. \A m \in Emitter : Call(m) => said' = said
    BY CallIs DEF Called
  <2>2. \A r \in Reader : Reads(r) => said' = said
    BY ReadsAre DEF busVars
  <2>3. ScreenSeeds => said' = said
    BY SeedsAre DEF busVars
  <2>4. Still => said' = said
    BY DEF Still, Deliver, Return, ScreenSubscribes, PumpWakes, PumpSends, ScreenCloses, LogOpens,
           LogStalls, Board, BoardReads, BoardSubscribes, PageSubscribes, PageWrites, PageGoes,
           busVars, feedVars
  <2>. QED  BY <2>1, <2>2, <2>3, <2>4, StepsAre
<1>. QED  BY <1>1, <1>2, <1>3

-----------------------------------------------------------------------------
(***************************************************************************)
(* The bus.                                                                *)
(***************************************************************************)
\* What an emitter is at: the last it said, and the rest of those to call.
EmitOK(m) ==
  /\ emit[m].step = "idle" => emit[m].to = <<>>
  /\ emit[m].step # "idle" => /\ emit[m].n \in 1 .. Len(said) /\ said[emit[m].n].by = m
                              /\ \A n \in 1 .. Len(said) : said[n].by = m => n <= emit[m].n
  /\ IsInjective(emit[m].to)

LEMMA EmitIs == BusOK => \A m \in Emitter : EmitOK(m)
BY DEF BusOK, EmitOK

LEMMA RecordKeepsBus ==
  ASSUME FeedTypeOK, BusOK, NEW m \in Emitter, Record(m)
  PROVE  BusOK'
<1>1. /\ said' \in Seq(Event) /\ Len(said') = Len(said) + 1 /\ Len(said) \in Nat
      /\ \A i \in 1 .. Len(said) : said'[i] = said[i]
      /\ said'[Len(said) + 1] \in Says(m)
      /\ emit'[m] = [step |-> "waiting", n |-> Len(said) + 1, to |-> subs]
      /\ \A d \in Emitter : d # m => emit'[d] = emit[d]
      /\ subs' = subs
  BY RecordIs
<1>2. /\ said'[Len(said) + 1].by = m
      /\ said'[Len(said) + 1].kind # "other" => said'[Len(said) + 1].by = Session
  BY <1>1 DEF Says
<1>3. \A n \in 1 .. Len(said') : n \in 1 .. Len(said) \/ n = Len(said) + 1
  BY <1>1
<1>4. /\ emit'[m].step = "waiting" /\ emit'[m].n = Len(said) + 1 /\ emit'[m].to = subs
  BY <1>1
<1>5. EmitOK(m)'
  <2>1. Len(said) + 1 \in 1 .. Len(said')
    BY <1>1
  <2>2. \A n \in 1 .. Len(said') : n <= Len(said) + 1
    BY <1>1
  <2>. QED  BY <1>2, <1>4, <2>1, <2>2 DEF EmitOK, BusOK
<1>6. ASSUME NEW d \in Emitter, d # m PROVE EmitOK(d)'
  <2>1. EmitOK(d) /\ emit'[d] = emit[d]
    BY <1>1, <1>6, EmitIs
  <2>2. \A n \in 1 .. Len(said) : n \in 1 .. Len(said') /\ said'[n].by = said[n].by
    BY <1>1
  <2>3. \A n \in 1 .. Len(said') : said'[n].by = d => n \in 1 .. Len(said)
    BY <1>2, <1>3, <1>6
  <2>. QED  BY <2>1, <2>2, <2>3 DEF EmitOK
<1>7. \A n \in 1 .. Len(said') : said'[n].kind # "other" => said'[n].by = Session
  BY <1>1, <1>2, <1>3 DEF BusOK
<1>8. IsInjective(subs')
  BY <1>1 DEF BusOK
<1>. QED  BY <1>5, <1>6, <1>7, <1>8 DEF BusOK, EmitOK

LEMMA BusKept ==
  ASSUME FeedTypeOK, BusOK, OpeningOK, RunningOK, [FeedNext]_feedVars
  PROVE  BusOK'
<1>0. IsInjective(subs')
  BY SubsKept
<1>1. \A m \in Emitter : Record(m) => BusOK'
  BY RecordKeepsBus
<1>2. SUFFICES ASSUME said' = said, \A m \in Emitter : EmitOK(m) => EmitOK(m)'
               PROVE  BusOK'
  <2>1. ASSUME NEW m \in Emitter, Call(m)
        PROVE  said' = said /\ \A d \in Emitter : EmitOK(d) => EmitOK(d)'
    <3>1. /\ said' = said /\ \A d \in Emitter : d # m => emit'[d] = emit[d]
          /\ emit'[m].step = emit[m].step /\ emit'[m].n = emit[m].n
          /\ emit'[m].to = Tail(emit[m].to) /\ emit[m].step = "delivering"
          /\ emit[m].to # <<>>
      BY <2>1, CallIs DEF Called
    <3>2. EmitOK(m) => IsInjective(emit'[m].to)
      <4>. DEFINE s == emit[m].to
      <4>1. s \in Seq(Subscriber) /\ s # <<>>
        BY <3>1, Typed
      <4>. HIDE DEF s
      <4>2. /\ Len(s) \in Nat \ {0} /\ DOMAIN s = 1 .. Len(s)
            /\ DOMAIN Tail(s) = 1 .. Len(s) - 1
            /\ \A i \in 1 .. Len(s) - 1 : Tail(s)[i] = s[i + 1]
        BY <4>1, Parted
      <4>3. IsInjective(s) => IsInjective(Tail(s))
        BY <4>2 DEF IsInjective
      <4>. QED  BY <3>1, <4>3 DEF EmitOK, s
    <3>3. EmitOK(m) => EmitOK(m)'
      BY <3>1, <3>2 DEF EmitOK
    <3>. QED  BY <3>1, <3>3 DEF EmitOK
  <2>2. ASSUME NEW m \in Emitter, Deliver(m) \/ Return(m)
        PROVE  said' = said /\ \A d \in Emitter : EmitOK(d) => EmitOK(d)'
    <3>1. said' = said /\ \A d \in Emitter : d # m => emit'[d] = emit[d]
      BY <2>2 DEF Deliver, Return, FeedTypeOK
    <3>2. CASE Deliver(m)
      <4>1. /\ emit'[m].step = "delivering" /\ emit'[m].n = emit[m].n /\ emit'[m].to = emit[m].to
            /\ emit[m].step = "waiting"
        BY <3>2 DEF Deliver, FeedTypeOK
      <4>. QED  BY <3>1, <4>1 DEF EmitOK
    <3>3. CASE Return(m)
      <4>1. emit'[m].step = "idle" /\ emit'[m].to = <<>>
        BY <3>3, Typed DEF Return, Idle
      <4>. QED  BY <3>1, <4>1 DEF EmitOK, IsInjective
    <3>. QED  BY <2>2, <3>2, <3>3
  <2>3. ASSUME NEW r \in Reader, Reads(r) PROVE said' = said /\ emit' = emit
    BY <2>3, ReadsAre DEF busVars
  <2>4. ScreenSeeds => said' = said /\ emit' = emit
    BY SeedsAre DEF busVars
  <2>5. Still /\ ~(\E m \in Emitter : Deliver(m) \/ Return(m)) => said' = said /\ emit' = emit
    BY DEF Still, ScreenSubscribes, PumpWakes, PumpSends, ScreenCloses, LogOpens,
           LogStalls, Board, BoardReads, BoardSubscribes, PageSubscribes, PageWrites, PageGoes,
           busVars, feedVars
  <2>6. said' = said /\ emit' = emit => \A m \in Emitter : EmitOK(m) => EmitOK(m)'
    BY DEF EmitOK
  <2>. QED  BY <1>1, <1>2, <2>1, <2>2, <2>3, <2>4, <2>5, <2>6, StepsAre
<1>3. \A m \in Emitter : EmitOK(m)'
  BY <1>2, EmitIs
<1>. QED  BY <1>0, <1>2, <1>3 DEF BusOK, EmitOK

-----------------------------------------------------------------------------
(***************************************************************************)
(* What is on its way to whom, and what each step does to the lines.       *)
(***************************************************************************)
LEMMA WayIs ==
  ASSUME FeedTypeOK, NEW c
  PROVE  /\ OnTheWay(c) \subseteq 1 .. Len(said)
         /\ \A n : n \in OnTheWay(c) <=> /\ n \in 1 .. Len(said)
                                         /\ \E m \in Emitter :
                                              emit[m].n = n /\ c \in Range(emit[m].to)
BY DEF OnTheWay

LEMMA RecordsWay ==
  ASSUME FeedTypeOK, BusOK, NEW m \in Emitter, Record(m), NEW c
  PROVE  /\ c \in Range(subs) => OnTheWay(c)' = OnTheWay(c) \cup {Len(said) + 1}
         /\ c \notin Range(subs) => OnTheWay(c)' = OnTheWay(c)
         /\ Awaited(c)' => Awaited(c) \/ c \in Range(subs)
<1>1. /\ Len(said') = Len(said) + 1 /\ Len(said) \in Nat /\ emit[m].step = "idle"
      /\ emit'[m] = [step |-> "waiting", n |-> Len(said) + 1, to |-> subs]
      /\ \A d \in Emitter : d # m => emit'[d] = emit[d]
  BY RecordIs
<1>2. emit'[m].n = Len(said) + 1 /\ emit'[m].to = subs /\ emit[m].to = <<>>
  BY <1>1, EmitIs DEF EmitOK
<1>3. Range(emit[m].to) = {}
  BY <1>2 DEF Range
<1>4. \A d \in Emitter : d # m => emit'[d].n = emit[d].n /\ Range(emit'[d].to) = Range(emit[d].to)
  BY <1>1
<1>5. Awaited(c)' => Awaited(c) \/ c \in Range(subs)
  BY <1>2, <1>4 DEF Awaited
<1>6. ASSUME NEW n
      PROVE  n \in OnTheWay(c)' <=> n \in OnTheWay(c) \/ (n = Len(said) + 1 /\ c \in Range(subs))
  <2>1. ASSUME n \in OnTheWay(c)'
        PROVE  n \in OnTheWay(c) \/ (n = Len(said) + 1 /\ c \in Range(subs))
    <3>1. PICK d \in Emitter : emit'[d].n = n /\ c \in Range(emit'[d].to)
      BY <2>1 DEF OnTheWay
    <3>2. CASE d = m
      BY <1>2, <3>1, <3>2
    <3>3. CASE d # m
      <4>1. emit[d].n = n /\ c \in Range(emit[d].to) /\ n \in 1 .. Len(said')
        BY <1>4, <2>1, <3>1, <3>3 DEF OnTheWay
      <4>2. n \in 0 .. Len(said)
        BY <4>1, Typed
      <4>3. n \in 1 .. Len(said)
        BY <1>1, <4>1, <4>2
      <4>. QED  BY <4>1, <4>3 DEF OnTheWay
    <3>. QED  BY <3>2, <3>3
  <2>2. ASSUME n \in OnTheWay(c) PROVE n \in OnTheWay(c)'
    <3>1. PICK d \in Emitter : emit[d].n = n /\ c \in Range(emit[d].to)
      BY <2>2 DEF OnTheWay
    <3>2. d # m
      BY <1>3, <3>1
    <3>3. n \in 1 .. Len(said')
      BY <1>1, <2>2 DEF OnTheWay
    <3>. QED  BY <1>4, <3>1, <3>2, <3>3 DEF OnTheWay
  <2>3. ASSUME n = Len(said) + 1, c \in Range(subs) PROVE n \in OnTheWay(c)'
    <3>1. n \in 1 .. Len(said')
      BY <1>1, <2>3
    <3>. QED  BY <1>2, <2>3, <3>1 DEF OnTheWay
  <2>. QED  BY <2>1, <2>2, <2>3
<1>. QED  BY <1>5, <1>6

\* Once called, a subscriber is not called again.
LEMMA CallsRest ==
  ASSUME FeedTypeOK, BusOK, NEW m \in Emitter, NEW c, NEW n, Called(m, c, n),
         c = Head(emit[m].to)
  PROVE  Range(emit[m].to) = {c} \cup Range(emit'[m].to) /\ c \notin Range(emit'[m].to)
<1>1. emit'[m].to = Tail(emit[m].to) /\ emit[m].to # <<>>
  BY DEF Called
<1>2. emit[m].to \in Seq(Subscriber) /\ IsInjective(emit[m].to)
  BY Typed, EmitIs DEF EmitOK
<1>. DEFINE s == emit[m].to  t == Tail(s)
<1>. HIDE DEF s
<1>3. s \in Seq(Subscriber) /\ s # <<>> /\ IsInjective(s) /\ c = Head(s)
  BY <1>1, <1>2 DEF s
<1>4. /\ Range(s) = {c} \cup Range(t) /\ Len(s) \in Nat \ {0} /\ DOMAIN s = 1 .. Len(s)
      /\ DOMAIN t = 1 .. Len(s) - 1 /\ c = s[1]
      /\ \A i \in 1 .. Len(s) - 1 : t[i] = s[i + 1]
  BY <1>3, Parted
<1>. HIDE DEF t
<1>5. c \notin Range(t)
  <2>. SUFFICES ASSUME NEW i \in 1 .. Len(s) - 1, t[i] = c PROVE FALSE
    BY <1>4 DEF Range
  <2>1. i + 1 \in DOMAIN s /\ 1 \in DOMAIN s /\ i + 1 # 1 /\ s[i + 1] = s[1]
    BY <1>4
  <2>. QED  BY <1>3, <2>1 DEF IsInjective
<1>. QED  BY <1>1, <1>4, <1>5 DEF s, t

LEMMA CallsWay ==
  ASSUME FeedTypeOK, BusOK, NEW m \in Emitter, NEW c, NEW n, Called(m, c, n),
         c = Head(emit[m].to), n = emit[m].n, NEW d
  PROVE  /\ d = c => OnTheWay(d)' = OnTheWay(d) \ {n} /\ n \in OnTheWay(d)
         /\ d # c => OnTheWay(d)' = OnTheWay(d)
         /\ Awaited(d)' => Awaited(d)
<1>1. /\ said' = said /\ emit'[m].n = n /\ emit'[m].to = Tail(emit[m].to) /\ emit[m].to # <<>>
      /\ \A e \in Emitter : e # m => emit'[e] = emit[e]
      /\ n \in 1 .. Len(said) /\ c \in Range(emit[m].to) /\ emit[m].step = "delivering"
  BY DEF Called
<1>2. emit[m].to \in Seq(Subscriber) /\ IsInjective(emit[m].to)
  BY Typed, EmitIs DEF EmitOK
<1>3. /\ Range(emit[m].to) = {c} \cup Range(emit'[m].to) /\ c \notin Range(emit'[m].to)
  BY CallsRest
<1>4. Awaited(d)' => Awaited(d)
  BY <1>1, <1>3 DEF Awaited
<1>5. ASSUME NEW e \in Emitter, emit[e].n = n, d \in Range(emit[e].to) PROVE e = m
  <2>1. emit[e].step # "idle"
    <3>. SUFFICES ASSUME emit[e].step = "idle" PROVE FALSE
      OBVIOUS
    <3>1. emit[e].to = <<>>
      BY EmitIs DEF EmitOK
    <3>. QED  BY <1>5, <3>1 DEF Range
  <2>2. said[n].by = e
    BY <1>5, <2>1, EmitIs DEF EmitOK
  <2>3. said[n].by = m
    BY <1>1, EmitIs DEF EmitOK
  <2>. QED  BY <2>2, <2>3
<1>6. ASSUME NEW k
      PROVE  k \in OnTheWay(d)' <=> k \in OnTheWay(d) /\ ~(d = c /\ k = n)
  <2>1. ASSUME k \in OnTheWay(d)' PROVE k \in OnTheWay(d) /\ ~(d = c /\ k = n)
    <3>1. PICK e \in Emitter : emit'[e].n = k /\ d \in Range(emit'[e].to)
      BY <2>1 DEF OnTheWay
    <3>2. emit[e].n = k /\ d \in Range(emit[e].to) /\ k \in 1 .. Len(said)
      BY <1>1, <1>3, <2>1, <3>1 DEF OnTheWay
    <3>3. k \in OnTheWay(d)
      BY <3>2 DEF OnTheWay
    <3>4. ASSUME d = c, k = n PROVE FALSE
      <4>1. e = m
        BY <1>5, <3>2, <3>4
      <4>. QED  BY <1>3, <3>1, <3>4, <4>1
    <3>. QED  BY <3>3, <3>4
  <2>2. ASSUME k \in OnTheWay(d), ~(d = c /\ k = n) PROVE k \in OnTheWay(d)'
    <3>1. PICK e \in Emitter : emit[e].n = k /\ d \in Range(emit[e].to)
      BY <2>2 DEF OnTheWay
    <3>2. k \in 1 .. Len(said')
      BY <1>1, <2>2 DEF OnTheWay
    <3>3. CASE e = m
      <4>1. d # c
        BY <2>2, <3>1, <3>3
      <4>. QED  BY <1>1, <1>3, <3>1, <3>2, <3>3, <4>1 DEF OnTheWay
    <3>4. CASE e # m
      BY <1>1, <3>1, <3>2, <3>4 DEF OnTheWay
    <3>. QED  BY <3>3, <3>4
  <2>. QED  BY <2>1, <2>2
<1>7. d = c => n \in OnTheWay(d)
  BY <1>1 DEF OnTheWay
<1>. QED  BY <1>4, <1>6, <1>7

LEMMA OthersWay ==
  ASSUME FeedTypeOK, BusOK, NEW c, (\E r \in Reader : Reads(r)) \/ ScreenSeeds \/ Still
  PROVE  said' = said /\ OnTheWay(c)' = OnTheWay(c) /\ (Awaited(c)' <=> Awaited(c))
<1>1. ASSUME NEW m \in Emitter, Deliver(m) \/ Return(m)
      PROVE  said' = said /\ OnTheWay(c)' = OnTheWay(c) /\ (Awaited(c)' <=> Awaited(c))
  <2>1. said' = said /\ \A d \in Emitter : d # m => emit'[d] = emit[d]
    BY <1>1 DEF Deliver, Return, FeedTypeOK
  <2>2. \/ emit'[m].n = emit[m].n /\ emit'[m].to = emit[m].to
        \/ emit'[m].to = <<>> /\ emit[m].to = <<>>
    BY <1>1 DEF Deliver, Return, FeedTypeOK, Idle
  <2>3. Range(<<>>) = {}
    BY DEF Range
  <2>4. \A d \in Emitter : \/ emit'[d].n = emit[d].n /\ Range(emit'[d].to) = Range(emit[d].to)
                           \/ Range(emit'[d].to) = {} /\ Range(emit[d].to) = {}
    BY <2>1, <2>2, <2>3
  <2>. QED  BY <2>1, <2>4 DEF OnTheWay, Awaited
<1>2. said' = said /\ emit' = emit => OnTheWay(c)' = OnTheWay(c) /\ (Awaited(c)' <=> Awaited(c))
  BY DEF OnTheWay, Awaited
<1>3. \A r \in Reader : Reads(r) => said' = said /\ emit' = emit
  BY ReadsAre DEF busVars
<1>4. ScreenSeeds => said' = said /\ emit' = emit
  BY SeedsAre DEF busVars
<1>5. Still /\ ~(\E m \in Emitter : Deliver(m) \/ Return(m)) => said' = said /\ emit' = emit
  BY DEF Still, ScreenSubscribes, PumpWakes, PumpSends, ScreenCloses, LogOpens,
         LogStalls, Board, BoardReads, BoardSubscribes, PageSubscribes, PageWrites, PageGoes,
         busVars, feedVars
<1>. QED  BY <1>1, <1>2, <1>3, <1>4, <1>5

LEMMA HeadMoves ==
  ASSUME NEW S, NEW s \in Seq(S), NEW x \in Seq(S), x # <<>>
  PROVE  Append(s, Head(x)) \o Tail(x) = s \o x
<1>1. Head(x) \in S /\ Tail(x) \in Seq(S) /\ x = <<Head(x)>> \o Tail(x)
  BY Parted
<1>2. Append(s, Head(x)) = s \o <<Head(x)>>
  BY <1>1, Appended
<1>. DEFINE u == <<Head(x)>>  t == Tail(x)
<1>3. u \in Seq(S) /\ t \in Seq(S) /\ x = u \o t /\ Append(s, Head(x)) = s \o u
  BY <1>1, <1>2
<1>. HIDE DEF u, t
<1>4. (s \o u) \o t = s \o (u \o t)
  <2>1. s \in Seq(S) /\ u \in Seq(S) /\ t \in Seq(S)
    BY <1>3
  <2>. QED  BY <2>1, ConcatAssociative, SMTT(30)
<1>. QED  BY <1>3, <1>4 DEF t

\* Lists said one after the other, whichever way they are put together.
LEMMA Lists ==
  ASSUME NEW S, NEW s \in Seq(S), NEW b \in Seq(S), NEW q \in Seq(S)
  PROVE  /\ (s \o q) \o <<>> = (s \o <<>>) \o q
         /\ (s \o b) \o <<>> = s \o b
         /\ (<<>> \o <<>>) \o q = q /\ (<<>> \o b) \o q = b \o q /\ (s \o <<>>) \o <<>> = s
         /\ ((s \o b) \o <<>>) \o q = (s \o b) \o q
         /\ \A e \in S : (s \o b) \o Append(q, e) = Append((s \o b) \o q, e)
<1>1. <<>> \in Seq(S) /\ s \o b \in Seq(S) /\ s \o q \in Seq(S) /\ b \o q \in Seq(S)
  BY EmptySeq, ConcatProperties
<1>2. \A x \in Seq(S) : x \o <<>> = x /\ <<>> \o x = x
  BY ConcatEmptySeq
<1>4. ASSUME NEW e \in S PROVE (s \o b) \o Append(q, e) = Append((s \o b) \o q, e)
  <2>. DEFINE u == <<e>>  x == s \o b
  <2>1. u \in Seq(S) /\ Append(q, e) = q \o u /\ x \in Seq(S)
    BY <1>1, Appended
  <2>. HIDE DEF u, x
  <2>2. x \o q \in Seq(S)
    BY <2>1, ConcatProperties
  <2>3. Append(x \o q, e) = (x \o q) \o u
    BY <2>2, Appended DEF u
  <2>4. (x \o q) \o u = x \o (q \o u)
    BY <2>1, ConcatAssociative, SMTT(30)
  <2>. QED  BY <2>1, <2>3, <2>4 DEF x
<1>7. /\ (s \o q) \o <<>> = (s \o <<>>) \o q /\ (s \o b) \o <<>> = s \o b
      /\ (<<>> \o <<>>) \o q = q /\ (<<>> \o b) \o q = b \o q /\ (s \o <<>>) \o <<>> = s
      /\ ((s \o b) \o <<>>) \o q = (s \o b) \o q
  BY <1>1, <1>2
<1>. QED  BY <1>4, <1>7

LEMMA StillLines ==
  ASSUME FeedTypeOK, Still, NEW r \in Reader
  PROVE  Line(r)' = Line(r)
<1>0. /\ queue[r] \in Seq(1 .. Len(said)) /\ batch[r] \in Seq(1 .. Len(said))
      /\ shown[r] \in Seq(1 .. Len(said))
      /\ DOMAIN queue = Reader /\ DOMAIN batch = Reader /\ DOMAIN shown = Reader
  BY Typed
<1>1. CASE PumpWakes
  <2>1. /\ batch["screen"] = <<>> /\ batch' = [batch EXCEPT !["screen"] = queue["screen"]]
        /\ queue' = [queue EXCEPT !["screen"] = <<>>] /\ shown' = shown
    BY <1>1 DEF PumpWakes
  <2>2. CASE r = "screen"
    <3>1. /\ batch[r] = <<>> /\ batch'[r] = queue[r] /\ queue'[r] = <<>>
          /\ shown'[r] = shown[r]
      BY <1>0, <2>1, <2>2
    <3>2. (shown[r] \o queue[r]) \o <<>> = (shown[r] \o <<>>) \o queue[r]
      BY <1>0, Lists
    <3>. QED  BY <3>1, <3>2 DEF Line
  <2>3. CASE r # "screen"
    BY <1>0, <2>1, <2>3 DEF Line
  <2>. QED  BY <2>2, <2>3
<1>2. CASE PumpSends
  <2>1. /\ batch["screen"] # <<>> /\ batch' = [batch EXCEPT !["screen"] = Tail(@)]
        /\ queue' = queue
        /\ shown' = [shown EXCEPT !["screen"] = Append(@, Head(batch["screen"]))]
    BY <1>2 DEF PumpSends
  <2>2. CASE r = "screen"
    <3>1. /\ batch[r] # <<>> /\ batch'[r] = Tail(batch[r]) /\ queue'[r] = queue[r]
          /\ shown'[r] = Append(shown[r], Head(batch[r]))
      BY <1>0, <2>1, <2>2
    <3>2. (Append(shown[r], Head(batch[r])) \o Tail(batch[r])) \o queue[r]
            = (shown[r] \o batch[r]) \o queue[r]
      <4>1. Append(shown[r], Head(batch[r])) \o Tail(batch[r]) = shown[r] \o batch[r]
        BY <1>0, <3>1, HeadMoves
      <4>. QED  BY <4>1
    <3>. QED  BY <3>1, <3>2 DEF Line
  <2>3. CASE r # "screen"
    BY <1>0, <2>1, <2>3 DEF Line
  <2>. QED  BY <2>2, <2>3
<1>3. ASSUME NEW p \in Page, PageWrites(p) PROVE Line(r)' = Line(r)
  <2>1. CASE r # p
    <3>1. queue'[r] = queue[r] /\ batch'[r] = batch[r] /\ shown'[r] = shown[r]
      BY <1>0, <1>3, <2>1 DEF PageWrites
    <3>. QED  BY <3>1 DEF Line
  <2>2. CASE r = p /\ batch[p] # <<>>
    <3>1. queue'[r] = queue[r] /\ batch'[r] = <<>> /\ shown'[r] = shown[r] \o batch[r]
      BY <1>0, <1>3, <2>2 DEF PageWrites
    <3>. QED  BY <1>0, <3>1, Lists DEF Line
  <2>3. CASE r = p /\ batch[p] = <<>>
    <3>1. /\ queue[r] # <<>> /\ queue'[r] = Tail(queue[r]) /\ batch'[r] = <<>> /\ batch[r] = <<>>
          /\ shown'[r] = Append(shown[r], Head(queue[r]))
      BY <1>0, <1>3, <2>3 DEF PageWrites
    <3>2. (Append(shown[r], Head(queue[r])) \o <<>>) \o Tail(queue[r])
            = (shown[r] \o <<>>) \o queue[r]
      <4>. DEFINE T == Seq(1 .. Len(said))  s == Append(shown[r], Head(queue[r]))
      <4>1. s \in T
        BY <1>0, <3>1, Parted, Appended
      <4>2. s \o Tail(queue[r]) = shown[r] \o queue[r]
        BY <1>0, <3>1, HeadMoves
      <4>. HIDE DEF s
      <4>3. s \o <<>> = s /\ shown[r] \o <<>> = shown[r]
        BY <1>0, <4>1, ConcatEmptySeq
      <4>4. (s \o <<>>) \o Tail(queue[r]) = (shown[r] \o <<>>) \o queue[r]
        BY <4>2, <4>3
      <4>. QED  BY <4>4 DEF s
    <3>. QED  BY <3>1, <3>2 DEF Line
  <2>. QED  BY <2>1, <2>2, <2>3
<1>4. CASE UNCHANGED <<queue, batch, shown>>
  BY <1>4 DEF Line
<1>5. Still => PumpWakes \/ PumpSends \/ (\E p \in Page : PageWrites(p))
                 \/ UNCHANGED <<queue, batch, shown>>
  BY DEF Still, Deliver, Return, ScreenSubscribes, ScreenCloses, LogOpens,
         LogStalls, Board, BoardReads, BoardSubscribes, PageSubscribes, PageGoes,
         busVars, readVars, feedVars
<1>. QED  BY <1>1, <1>2, <1>3, <1>4, <1>5

LEMMA CallsLine ==
  ASSUME FeedTypeOK, OpeningOK, NEW m, NEW c, NEW n, Called(m, c, n), NEW r \in Reader
  PROVE  \/ r = c /\ Line(r)' = Append(Line(r), n)
         \/ r = c /\ Line(r)' = Line(r) /\ (at[r] = "closed" \/ <<r, n>> \in dropped')
         \/ r # c /\ Line(r)' = Line(r)
<1>0. /\ queue[r] \in Seq(1 .. Len(said)) /\ batch[r] \in Seq(1 .. Len(said))
      /\ shown[r] \in Seq(1 .. Len(said)) /\ n \in 1 .. Len(said)
      /\ DOMAIN queue = Reader /\ DOMAIN batch = Reader /\ DOMAIN shown = Reader
  BY Typed DEF Called
<1>1. CASE r # c
  <2>1. queue'[r] = queue[r] /\ batch'[r] = batch[r] /\ shown'[r] = shown[r]
    BY <1>0, <1>1 DEF Called
  <2>. QED  BY <1>1, <2>1 DEF Line
<1>2. CASE r = c /\ c = "log"
  <2>1. /\ queue'[r] = <<>> /\ batch'[r] = <<>> /\ queue[r] = <<>> /\ batch[r] = <<>>
        /\ shown'[r] = Append(shown[r], n)
    BY <1>0, <1>2 DEF Called, OpeningOK
  <2>2. Append(shown[r], n) \in Seq(1 .. Len(said)) /\ <<>> \in Seq(1 .. Len(said))
    BY <1>0, Appended
  <2>3. (Append(shown[r], n) \o <<>>) \o <<>> = Append(shown[r], n)
    BY <2>2, Lists
  <2>4. (shown[r] \o <<>>) \o <<>> = shown[r]
    BY <1>0, Lists
  <2>. QED  BY <1>2, <2>1, <2>3, <2>4 DEF Line
<1>3. CASE r = c /\ c # "log"
  <2>1. /\ batch' = batch /\ shown' = shown
        /\ \/ queue' = [queue EXCEPT ![c] = Append(@, n)]
           \/ queue' = queue /\ (at[c] = "closed" \/ <<c, n>> \in dropped')
    BY <1>3 DEF Called
  <2>2. CASE queue' = [queue EXCEPT ![c] = Append(@, n)]
    <3>1. queue'[r] = Append(queue[r], n) /\ batch'[r] = batch[r] /\ shown'[r] = shown[r]
      BY <1>0, <1>3, <2>1, <2>2
    <3>2. (shown[r] \o batch[r]) \o Append(queue[r], n)
            = Append((shown[r] \o batch[r]) \o queue[r], n)
      BY <1>0, Lists, SMTT(30)
    <3>. QED  BY <1>3, <3>1, <3>2 DEF Line
  <2>3. CASE queue' = queue /\ (at[c] = "closed" \/ <<c, n>> \in dropped')
    BY <1>3, <2>1, <2>3 DEF Line
  <2>. QED  BY <2>1, <2>2, <2>3
<1>. QED  BY <1>1, <1>2, <1>3

LEMMA ReadsLine ==
  ASSUME FeedTypeOK, OpeningOK, NEW d \in Reader, Reads(d), NEW r \in Reader
  PROVE  /\ r # d => Line(r)' = Line(r)
         /\ r = d => Line(r)' = Retained \o Line(r) /\ Line(r) = queue[r]
<1>0. /\ queue[r] \in Seq(1 .. Len(said)) /\ DOMAIN batch = Reader
      /\ Retained \in Seq(1 .. Len(said))
  BY Typed, RetainedIs DEF FeedTypeOK
<1>1. /\ at[d] = "subscribed" /\ batch' = [batch EXCEPT ![d] = Retained]
      /\ queue' = queue /\ shown' = shown
  BY ReadsAre
<1>2. CASE r # d
  BY <1>0, <1>1, <1>2 DEF Line
<1>3. CASE r = d
  <2>1. shown[r] = <<>> /\ batch[r] = <<>>
    BY <1>1, <1>3 DEF OpeningOK
  <2>2. batch'[r] = Retained /\ queue'[r] = queue[r] /\ shown'[r] = <<>>
    BY <1>0, <1>1, <1>3, <2>1
  <2>3. /\ (<<>> \o Retained) \o queue[r] = Retained \o queue[r]
        /\ (<<>> \o <<>>) \o queue[r] = queue[r]
    BY <1>0, Lists
  <2>. QED  BY <1>3, <2>1, <2>2, <2>3 DEF Line
<1>. QED  BY <1>2, <1>3

LEMMA SeedsLine ==
  ASSUME FeedTypeOK, OpeningOK, ScreenSeeds, NEW r \in Reader
  PROVE  /\ r # "screen" => Line(r)' = Line(r)
         /\ r = "screen" => /\ Line(r)' = Seed(batch[r], queue[r])
                            /\ Line(r) = batch[r] \o queue[r]
                            /\ shown'[r] = Line(r)' /\ at[r] = "read"
<1>0. /\ queue[r] \in Seq(1 .. Len(said)) /\ batch[r] \in Seq(1 .. Len(said))
      /\ DOMAIN queue = Reader /\ DOMAIN batch = Reader /\ DOMAIN shown = Reader
  BY Typed
<1>1. /\ at["screen"] = "read" /\ queue' = [queue EXCEPT !["screen"] = <<>>]
      /\ batch' = [batch EXCEPT !["screen"] = <<>>]
      /\ shown' = [shown EXCEPT !["screen"] = Seed(batch["screen"], queue["screen"])]
  BY SeedsAre
<1>2. CASE r # "screen"
  BY <1>0, <1>1, <1>2 DEF Line
<1>3. CASE r = "screen"
  <2>1. shown[r] = <<>>
    BY <1>1, <1>3 DEF OpeningOK
  <2>2. batch'[r] = <<>> /\ queue'[r] = <<>> /\ shown'[r] = Seed(batch[r], queue[r])
    BY <1>0, <1>1, <1>3
  <2>3. Seed(batch[r], queue[r]) \in Seq(1 .. Len(said))
    BY <1>0, SeedIs
  <2>4. /\ (Seed(batch[r], queue[r]) \o <<>>) \o <<>> = Seed(batch[r], queue[r])
        /\ (<<>> \o batch[r]) \o queue[r] = batch[r] \o queue[r]
    BY <1>0, <2>3, Lists
  <2>. QED  BY <1>1, <1>3, <2>1, <2>2, <2>4 DEF Line
<1>. QED  BY <1>2, <1>3

LEMMA RecordsLine ==
  ASSUME FeedTypeOK, NEW m \in Emitter, Record(m), NEW r \in Reader
  PROVE  Line(r)' = Line(r)
BY RecordIs DEF Line, readVars

\* How far a reader is, after a step that does nothing to the lines.
LEMMA StillAt ==
  ASSUME FeedTypeOK, Still, NEW r \in Reader
  PROVE  /\ said' = said /\ dropped' = dropped
         /\ \/ at'[r] = at[r] /\ since'[r] = since[r]
            \/ /\ at[r] = "shut" /\ at'[r] = IF r = "log" THEN "pumping" ELSE "subscribed"
               /\ since'[r].sub = Len(said) /\ since'[r].read = since[r].read
            \/ at'[r] = "closed" /\ since'[r] = since[r] /\ at[r] # "shut"
<1>0. DOMAIN at = Reader /\ DOMAIN since = Reader \cup {"board"} /\ r # "board"
  BY Typed, Kinds
<1>1. CASE UNCHANGED <<at, since>>
  BY <1>1 DEF Still, Deliver, Return, ScreenSubscribes, PumpWakes, PumpSends, ScreenCloses,
     LogOpens, LogStalls, Board, BoardReads, BoardSubscribes, PageSubscribes, PageWrites, PageGoes,
     busVars, readVars, feedVars
<1>2. CASE Board
  BY <1>0, <1>2 DEF Board, BoardReads, BoardSubscribes, Subscribe, busVars
<1>3. CASE ScreenSubscribes \/ LogOpens \/ \E p \in Page : PageSubscribes(p)
  <2>1. PICK c \in Reader :
          /\ at[c] = "shut" /\ since' = [since EXCEPT ![c].sub = Len(said)]
          /\ at' = [at EXCEPT ![c] = IF c = "log" THEN "pumping" ELSE "subscribed"]
          /\ said' = said /\ dropped' = dropped
    BY <1>3, Kinds DEF ScreenSubscribes, LogOpens, PageSubscribes, Subscribe
  <2>2. CASE r = c
    BY <1>0, <2>1, <2>2
  <2>3. CASE r # c
    BY <1>0, <2>1, <2>3
  <2>. QED  BY <2>2, <2>3
<1>4. CASE ScreenCloses \/ \E p \in Page : PageGoes(p)
  BY <1>0, <1>4 DEF ScreenCloses, PageGoes
<1>5. Still => \/ UNCHANGED <<at, since>> \/ Board \/ ScreenSubscribes \/ LogOpens
               \/ (\E p \in Page : PageSubscribes(p)) \/ ScreenCloses
               \/ \E p \in Page : PageGoes(p)
  BY DEF Still, Deliver, Return, PumpWakes, PumpSends, LogStalls, PageWrites,
     busVars, readVars, feedVars
<1>. QED  BY <1>1, <1>2, <1>3, <1>4, <1>5

\* One reader's part of OpeningOK.
OpenOK(r) ==
  /\ Reading(r) => r \in Range(subs)
  /\ at[r] = "shut" => queue[r] = <<>> /\ r \notin Range(subs) /\ ~Awaited(r)
  /\ at[r] \in {"shut", "subscribed"} => batch[r] = <<>> /\ since[r].read = 0
  /\ at[r] \in {"shut", "subscribed", "read"} => shown[r] = <<>>
  /\ at[r] = "read" =>
       \A i, j \in 1 .. Len(batch[r]) : i < j => batch[r][i] < batch[r][j]
  /\ \A n \in Range(queue[r]) \cup OnTheWay(r) : n > since[r].sub

LEMMA OpenIs ==
  OpeningOK <=> /\ \A r \in Reader : OpenOK(r)
                /\ queue["log"] = <<>> /\ batch["log"] = <<>>
                /\ at["log"] \notin {"subscribed", "read"}
BY DEF OpeningOK, OpenOK

LEMMA RecordKeepsOpening ==
  ASSUME FeedTypeOK, BusOK, OpeningOK, NEW m \in Emitter, Record(m)
  PROVE  OpeningOK'
<1>1. UNCHANGED <<at, queue, batch, shown, since, subs>>
  BY RecordIs DEF readVars
<1>2. ASSUME NEW r \in Reader PROVE OpenOK(r)'
  <2>1. OpenOK(r)
    BY OpenIs
  <2>2. Awaited(r)' => Awaited(r) \/ r \in Range(subs)
    BY RecordsWay
  <2>3. OnTheWay(r)' \subseteq OnTheWay(r) \cup {Len(said) + 1}
    BY RecordsWay
  <2>4. Len(said) + 1 > since[r].sub
    BY Typed
  <2>. QED  BY <1>1, <2>1, <2>2, <2>3, <2>4 DEF OpenOK, Reading
<1>. QED  BY <1>1, <1>2 DEF OpeningOK, OpenOK

LEMMA CallKeepsOpening ==
  ASSUME FeedTypeOK, BusOK, OpeningOK, NEW m \in Emitter, Call(m)
  PROVE  OpeningOK'
<1>0. PICK c, n : c = Head(emit[m].to) /\ n = emit[m].n
  OBVIOUS
<1>1. Called(m, c, n)
  BY <1>0, CallIs
<1>2. /\ UNCHANGED <<at, batch, since, subs>>
      /\ \A r \in Reader : r # c => queue'[r] = queue[r] /\ shown'[r] = shown[r]
      /\ c \in Range(emit[m].to) /\ n \in 1 .. Len(said)
      /\ c = "log" => queue' = queue
      /\ c # "log" => shown' = shown
  BY <1>1 DEF Called
<1>3. Awaited(c)
  BY <1>2 DEF Awaited
<1>4. ASSUME NEW r \in Reader PROVE OpenOK(r)'
  <2>1. OpenOK(r)
    BY OpenIs
  <2>2. /\ Awaited(r)' => Awaited(r)
        /\ r = c => OnTheWay(r)' = OnTheWay(r) \ {n} /\ n \in OnTheWay(r)
        /\ r # c => OnTheWay(r)' = OnTheWay(r)
    BY <1>0, <1>1, CallsWay
  <2>3. CASE r # c
    BY <1>2, <2>1, <2>2, <2>3 DEF OpenOK, Reading
  <2>4. CASE r = c
    <3>1. at[r] # "shut"
      BY <1>3, <2>1, <2>4 DEF OpenOK
    <3>2. at[r] \in {"subscribed", "read"} => shown'[r] = shown[r]
      BY <1>2, <2>4 DEF OpeningOK
    <3>3. Range(queue'[r]) \subseteq Range(queue[r]) \cup {n}
      <4>1. queue'[r] = queue[r] \/ queue'[r] = Append(queue[r], n)
        BY <1>1, <2>4, Typed DEF Called
      <4>2. Range(Append(queue[r], n)) = Range(queue[r]) \cup {n}
        <5>1. queue[r] \in Seq(1 .. Len(said)) /\ n \in 1 .. Len(said)
          BY <1>2, Typed
        <5>. QED  BY <5>1, AppendRange
      <4>. QED  BY <4>1, <4>2
    <3>. QED  BY <1>2, <2>1, <2>2, <2>4, <3>1, <3>2, <3>3 DEF OpenOK, Reading
  <2>. QED  BY <2>3, <2>4
<1>5. queue'["log"] = queue["log"]
  BY <1>2, Kinds
<1>. QED  BY <1>2, <1>4, <1>5 DEF OpeningOK, OpenOK

LEMMA ReadKeepsOpening ==
  ASSUME FeedTypeOK, BusOK, OpeningOK, NEW d \in Reader, Reads(d)
  PROVE  OpeningOK'
<1>1. /\ at[d] = "subscribed" /\ batch' = [batch EXCEPT ![d] = Retained]
      /\ since' = [since EXCEPT ![d].read = Len(said)]
      /\ at' = [at EXCEPT ![d] = IF d = "screen" THEN "read" ELSE "pumping"]
      /\ subs' = subs /\ queue' = queue /\ shown' = shown
  BY ReadsAre DEF busVars
<1>2. /\ DOMAIN at = Reader /\ DOMAIN batch = Reader /\ DOMAIN since = Reader \cup {"board"}
      /\ Len(said) \in Nat
  BY Typed
<1>3. ASSUME NEW r \in Reader PROVE OpenOK(r)'
  <2>1. OpenOK(r)
    BY OpenIs
  <2>2. OnTheWay(r)' = OnTheWay(r) /\ (Awaited(r)' <=> Awaited(r))
    BY OthersWay
  <2>3. CASE r # d
    <3>1. at'[r] = at[r] /\ batch'[r] = batch[r] /\ since'[r] = since[r]
      BY <1>1, <1>2, <2>3
    <3>. QED  BY <1>1, <2>1, <2>2, <3>1 DEF OpenOK, Reading
  <2>4. CASE r = d
    <3>1. at'[r] \in {"read", "pumping"} /\ batch'[r] = Retained /\ since'[r].sub = since[r].sub
      BY <1>1, <1>2, <2>4
    <3>2. \A i, j \in 1 .. Len(Retained) : i < j => Retained[i] < Retained[j]
      <4>1. /\ Len(Retained) \in Nat
            /\ \A i \in 1 .. Len(Retained) : Retained[i] = Len(said) - Len(Retained) + i
        BY RetainedIs DEF FeedTypeOK
      <4>. QED  BY <1>2, <4>1
    <3>. QED  BY <1>1, <2>1, <2>2, <2>4, <3>1, <3>2 DEF OpenOK, Reading
  <2>. QED  BY <2>3, <2>4
<1>4. d # "log"
  BY <1>1 DEF OpeningOK
<1>5. batch'["log"] = batch["log"] /\ at'["log"] = at["log"]
  BY <1>1, <1>2, <1>4, Kinds
<1>. QED  BY <1>1, <1>3, <1>5 DEF OpeningOK, OpenOK

LEMMA SeedKeepsOpening ==
  ASSUME FeedTypeOK, BusOK, OpeningOK, ScreenSeeds
  PROVE  OpeningOK'
<1>1. /\ at["screen"] = "read" /\ at' = [at EXCEPT !["screen"] = "pumping"]
      /\ queue' = [queue EXCEPT !["screen"] = <<>>]
      /\ batch' = [batch EXCEPT !["screen"] = <<>>]
      /\ shown' = [shown EXCEPT !["screen"] = Seed(batch["screen"], queue["screen"])]
      /\ subs' = subs /\ since' = since
  BY SeedsAre DEF busVars
<1>2. /\ DOMAIN at = Reader /\ DOMAIN batch = Reader /\ DOMAIN queue = Reader
      /\ DOMAIN shown = Reader
  BY Typed
<1>3. ASSUME NEW r \in Reader PROVE OpenOK(r)'
  <2>1. OpenOK(r)
    BY OpenIs
  <2>2. OnTheWay(r)' = OnTheWay(r) /\ (Awaited(r)' <=> Awaited(r))
    BY OthersWay
  <2>3. CASE r # "screen"
    <3>1. /\ at'[r] = at[r] /\ batch'[r] = batch[r] /\ queue'[r] = queue[r]
          /\ shown'[r] = shown[r]
      BY <1>1, <1>2, <2>3
    <3>. QED  BY <1>1, <2>1, <2>2, <3>1 DEF OpenOK, Reading
  <2>4. CASE r = "screen"
    <3>1. at'[r] = "pumping" /\ queue'[r] = <<>> /\ Range(queue'[r]) = {}
      BY <1>1, <1>2, <2>4 DEF Range
    <3>. QED  BY <1>1, <2>1, <2>2, <2>4, <3>1 DEF OpenOK, Reading
  <2>. QED  BY <2>3, <2>4
<1>4. batch'["log"] = batch["log"] /\ at'["log"] = at["log"] /\ queue'["log"] = queue["log"]
  BY <1>1, <1>2, Kinds
<1>. QED  BY <1>3, <1>4 DEF OpeningOK, OpenOK

LEMMA StillKeepsOpening ==
  ASSUME FeedTypeOK, BusOK, OpeningOK, RunningOK, Still, [FeedNext]_feedVars
  PROVE  OpeningOK'
<1>0. /\ DOMAIN at = Reader /\ DOMAIN batch = Reader /\ DOMAIN queue = Reader
      /\ DOMAIN shown = Reader /\ subs \in Seq(Subscriber) /\ IsInjective(subs)
      /\ DOMAIN subs = 1 .. Len(subs)
  BY Typed DEF FeedTypeOK, BusOK
<1>1. CASE UNCHANGED <<queue, batch, shown>>
  <2>1. ASSUME NEW r \in Reader PROVE OpenOK(r)'
    <3>1. OpenOK(r)
      BY OpenIs
    <3>2. OnTheWay(r)' = OnTheWay(r) /\ (Awaited(r)' <=> Awaited(r))
      BY OthersWay
    <3>3. CASE at'[r] = at[r] /\ since'[r] = since[r]
      <4>1. Reading(r) => r \in Range(subs')
        <5>1. CASE subs' = subs
          BY <3>1, <5>1 DEF OpenOK
        <5>2. ASSUME NEW c \in Subscriber, subs' = Append(subs, c)
              PROVE  Range(subs) \subseteq Range(subs')
          BY <1>0, <5>2, AppendRange
        <5>3. ASSUME NEW c \in Subscriber, NEW i \in DOMAIN subs, subs[i] = c,
                     subs' = RemoveAt(subs, i), at' = [at EXCEPT ![c] = "closed"],
                     c \in Reader, Reading(r)
              PROVE  r \in Range(subs')
          <6>1. Range(subs') = Range(subs) \ {c}
            BY <1>0, <5>3, OneRemoved
          <6>2. at'[c] = "closed" /\ at[r] # "closed"
            BY <1>0, <5>3 DEF Reading
          <6>3. r # c /\ r \in Range(subs)
            BY <3>1, <3>3, <5>3, <6>2 DEF OpenOK
          <6>. QED  BY <6>1, <6>3
        <5>. QED  BY <3>1, <5>1, <5>2, <5>3, SubsAre DEF OpenOK
      <4>2. at[r] = "shut" => r \notin Range(subs')
        <5>. SUFFICES ASSUME at[r] = "shut" PROVE r \notin Range(subs')
          OBVIOUS
        <5>0. r \notin Range(subs)
          BY <3>1 DEF OpenOK
        <5>2. ASSUME NEW c \in Subscriber, subs' = Append(subs, c),
                     \/ c \in Reader /\ at[c] = "shut" /\ at'[c] \in {"subscribed", "pumping"}
                     \/ c = "board"
              PROVE  r \notin Range(subs')
          <6>1. Range(subs') = Range(subs) \cup {c}
            BY <1>0, <5>2, AppendRange
          <6>2. r # c
            BY <3>3, <5>2, Kinds
          <6>. QED  BY <5>0, <6>1, <6>2
        <5>3. ASSUME NEW i \in DOMAIN subs, subs' = RemoveAt(subs, i)
              PROVE  r \notin Range(subs')
          BY <1>0, <5>0, <5>3, OneRemoved
        <5>. QED  BY <5>0, <5>2, <5>3, SubsAre
      <4>. QED  BY <1>1, <3>1, <3>2, <3>3, <4>1, <4>2 DEF OpenOK, Reading
    <3>4. CASE /\ at[r] = "shut" /\ at'[r] = IF r = "log" THEN "pumping" ELSE "subscribed"
               /\ since'[r].sub = Len(said) /\ since'[r].read = since[r].read
      <4>1. OnTheWay(r) = {} /\ Range(queue[r]) = {}
        BY <3>1, <3>4 DEF OpenOK, OnTheWay, Awaited, Range
      <4>2. r \in Range(subs')
        <5>1. PICK p \in Reader : /\ subs' = Append(subs, p)
                                  /\ at' = [at EXCEPT ![p] = at'[p]]
          <6>1. ScreenSubscribes \/ LogOpens \/ \E p \in Page : PageSubscribes(p)
            BY <1>0, <3>4 DEF Still, Deliver, Return, PumpWakes, PumpSends, ScreenCloses, Board,
               BoardReads, BoardSubscribes, LogStalls, PageWrites, PageGoes,
               busVars, readVars, feedVars
          <6>. QED  BY <1>0, <6>1, Kinds DEF ScreenSubscribes, LogOpens, PageSubscribes, Subscribe
        <5>2. r = p
          BY <1>0, <3>4, <5>1
        <5>3. r \in Subscriber
          BY Kinds
        <5>. QED  BY <1>0, <5>1, <5>2, <5>3, AppendRange
      <4>. QED  BY <1>1, <3>1, <3>2, <3>4, <4>1, <4>2 DEF OpenOK, Reading
    <3>5. CASE at'[r] = "closed" /\ since'[r] = since[r] /\ at[r] # "shut"
      BY <1>1, <3>1, <3>2, <3>5 DEF OpenOK, Reading
    <3>. QED  BY <3>3, <3>4, <3>5, StillAt
  <2>2. at'["log"] \notin {"subscribed", "read"}
    BY StillAt, Kinds DEF OpeningOK
  <2>. QED  BY <1>1, <2>1, <2>2 DEF OpeningOK, OpenOK
<1>2. ASSUME PumpWakes \/ PumpSends \/ \E p \in Page : PageWrites(p)
      PROVE  OpeningOK'
  <2>1. PICK d \in Reader \ {"log"} :
          /\ UNCHANGED <<at, since, subs>> /\ at[d] = "pumping"
          /\ \A r \in Reader : r # d => /\ queue'[r] = queue[r] /\ batch'[r] = batch[r]
                                        /\ shown'[r] = shown[r]
          /\ queue'[d] = <<>> \/ queue'[d] = queue[d]
               \/ (queue'[d] = Tail(queue[d]) /\ queue[d] # <<>>)
    <3>1. CASE PumpWakes \/ PumpSends
      BY <1>0, <3>1, Kinds DEF PumpWakes, PumpSends, busVars
    <3>2. ASSUME NEW p \in Page, PageWrites(p)
          PROVE  /\ p \in Reader \ {"log"} /\ UNCHANGED <<at, since, subs>> /\ at[p] = "pumping"
                 /\ \A r \in Reader : r # p => /\ queue'[r] = queue[r] /\ batch'[r] = batch[r]
                                               /\ shown'[r] = shown[r]
                 /\ \/ queue'[p] = queue[p]
                    \/ queue'[p] = Tail(queue[p]) /\ queue[p] # <<>>
      BY <1>0, <3>2, Kinds DEF PageWrites, busVars
    <3>. QED  BY <1>2, <3>1, <3>2
  <2>2. ASSUME NEW r \in Reader PROVE OpenOK(r)'
    <3>1. OpenOK(r)
      BY OpenIs
    <3>2. OnTheWay(r)' = OnTheWay(r) /\ (Awaited(r)' <=> Awaited(r))
      BY OthersWay
    <3>3. CASE r # d
      BY <2>1, <3>1, <3>2, <3>3 DEF OpenOK, Reading
    <3>4. CASE r = d
      <4>1. Range(queue'[r]) \subseteq Range(queue[r])
        <5>1. queue[r] \in Seq(1 .. Len(said)) /\ Range(<<>>) = {}
          BY Typed DEF Range
        <5>2. queue[r] # <<>> => Range(Tail(queue[r])) \subseteq Range(queue[r])
          <6>1. ASSUME queue[r] # <<>>
                PROVE  Range(queue[r]) = {Head(queue[r])} \cup Range(Tail(queue[r]))
            BY <5>1, <6>1, Parted, Zenon
          <6>. QED  BY <6>1
        <5>. QED  BY <2>1, <3>4, <5>1, <5>2
      <4>. QED  BY <2>1, <3>1, <3>2, <3>4, <4>1 DEF OpenOK, Reading
    <3>. QED  BY <3>3, <3>4
  <2>. QED  BY <2>1, <2>2, Kinds DEF OpeningOK, OpenOK
<1>3. Still => PumpWakes \/ PumpSends \/ (\E p \in Page : PageWrites(p))
                 \/ UNCHANGED <<queue, batch, shown>>
  BY DEF Still, Deliver, Return, ScreenSubscribes, ScreenCloses, LogOpens,
         LogStalls, Board, BoardReads, BoardSubscribes, PageSubscribes, PageGoes,
         busVars, readVars, feedVars
<1>. QED  BY <1>1, <1>2, <1>3

LEMMA OpeningKept ==
  ASSUME FeedTypeOK, BusOK, OpeningOK, RunningOK, [FeedNext]_feedVars
  PROVE  OpeningOK'
BY RecordKeepsOpening, CallKeepsOpening, ReadKeepsOpening, SeedKeepsOpening, StillKeepsOpening,
   StepsAre

-----------------------------------------------------------------------------
(***************************************************************************)
(* Nothing is missed: what a reader has is its line and what was dropped.  *)
(***************************************************************************)
Dropped(r) == {n \in 1 .. Len(said) : <<r, n>> \in dropped}

LEMMA ReachedIs ==
  ASSUME FeedTypeOK, NEW r \in Reader
  PROVE  Reached(r) = Range(Line(r)) \cup Dropped(r)
<1>1. /\ queue[r] \in Seq(1 .. Len(said)) /\ batch[r] \in Seq(1 .. Len(said))
      /\ shown[r] \in Seq(1 .. Len(said))
  BY Typed
<1>2. /\ shown[r] \o batch[r] \in Seq(1 .. Len(said))
      /\ Range(shown[r] \o batch[r]) = Range(shown[r]) \cup Range(batch[r])
  BY <1>1, ConcatProperties, RangeConcatenation
<1>3. Range((shown[r] \o batch[r]) \o queue[r])
        = Range(shown[r] \o batch[r]) \cup Range(queue[r])
  <2>. DEFINE s == shown[r] \o batch[r]
  <2>1. s \in Seq(1 .. Len(said))
    BY <1>2
  <2>. HIDE DEF s
  <2>2. Range(s \o queue[r]) = Range(s) \cup Range(queue[r])
    BY <1>1, <2>1, RangeConcatenation
  <2>. QED  BY <2>2 DEF s
<1>. QED  BY <1>2, <1>3 DEF Reached, Line, Dropped

Has(r) == Range(Line(r)) \cup Dropped(r) \cup OnTheWay(r)

LEMMA MissedIs ==
  FeedTypeOK =>
    (NothingMissed <=> \A r \in Reader : Reading(r) => Owed(r) \subseteq Has(r))
BY ReachedIs DEF NothingMissed, Has

\* A reader keeps what it has.
LEMMA RecordHas ==
  ASSUME FeedTypeOK, BusOK, NEW m \in Emitter, Record(m), NEW r \in Reader, r \in Range(subs)
  PROVE  Has(r) \cup {Len(said) + 1} \subseteq Has(r)'
<1>1. Line(r)' = Line(r) /\ OnTheWay(r)' = OnTheWay(r) \cup {Len(said) + 1}
  BY RecordsLine, RecordsWay
<1>2. Dropped(r) \subseteq Dropped(r)'
  <2>1. dropped' = dropped /\ Len(said') = Len(said) + 1 /\ Len(said) \in Nat
    BY RecordIs
  <2>. QED  BY <2>1 DEF Dropped
<1>. QED  BY <1>1, <1>2 DEF Has

LEMMA CallHas ==
  ASSUME FeedTypeOK, BusOK, OpeningOK, NEW m \in Emitter, Call(m), NEW r \in Reader,
         at[r] # "closed"
  PROVE  Has(r) \subseteq Has(r)'
<1>0. PICK c, n : c = Head(emit[m].to) /\ n = emit[m].n
  OBVIOUS
<1>1. Called(m, c, n)
  BY <1>0, CallIs
<1>2. n \in 1 .. Len(said) /\ dropped \subseteq dropped' /\ said' = said
  BY <1>1 DEF Called
<1>3. Dropped(r) \subseteq Dropped(r)'
  BY <1>2 DEF Dropped
<1>4. /\ r = c => OnTheWay(r)' = OnTheWay(r) \ {n}
      /\ r # c => OnTheWay(r)' = OnTheWay(r)
  BY <1>0, <1>1, CallsWay
<1>5. /\ Line(r) \in Seq(1 .. Len(said))
      /\ Range(Append(Line(r), n)) = Range(Line(r)) \cup {n}
  <2>1. Line(r) \in Seq(1 .. Len(said))
    BY Typed
  <2>. QED  BY <1>2, <2>1, AppendRange
<1>6. \/ r = c /\ Line(r)' = Append(Line(r), n)
      \/ r = c /\ Line(r)' = Line(r) /\ <<r, n>> \in dropped'
      \/ r # c /\ Line(r)' = Line(r)
  BY <1>1, CallsLine
<1>7. <<r, n>> \in dropped' => n \in Dropped(r)'
  BY <1>2 DEF Dropped
<1>. QED  BY <1>3, <1>4, <1>5, <1>6, <1>7 DEF Has

LEMMA ReadHas ==
  ASSUME FeedTypeOK, BusOK, OpeningOK, NEW d \in Reader, Reads(d), NEW r \in Reader
  PROVE  /\ Has(r) \subseteq Has(r)'
         /\ r = d => Range(Retained) \subseteq Has(r)'
<1>1. OnTheWay(r)' = OnTheWay(r) /\ said' = said
  BY OthersWay
<1>2. Dropped(r)' = Dropped(r)
  BY <1>1, ReadsAre DEF Dropped
<1>3. /\ r # d => Line(r)' = Line(r)
      /\ r = d => Line(r)' = Retained \o Line(r)
  BY ReadsLine
<1>4. Retained \in Seq(1 .. Len(said)) /\ Line(r) \in Seq(1 .. Len(said))
  BY Typed, RetainedIs DEF FeedTypeOK
<1>5. Range(Retained \o Line(r)) = Range(Retained) \cup Range(Line(r))
  BY <1>4, RangeConcatenation
<1>. QED  BY <1>1, <1>2, <1>3, <1>5 DEF Has

LEMMA SeedHas ==
  ASSUME FeedTypeOK, BusOK, OpeningOK, ScreenSeeds, NEW r \in Reader
  PROVE  Has(r) \subseteq Has(r)'
<1>1. OnTheWay(r)' = OnTheWay(r) /\ said' = said
  BY OthersWay
<1>2. Dropped(r)' = Dropped(r)
  BY <1>1, SeedsAre DEF Dropped
<1>3. batch[r] \in Seq(1 .. Len(said)) /\ queue[r] \in Seq(1 .. Len(said))
  BY Typed
<1>4. /\ Range(batch[r] \o queue[r]) = Range(batch[r]) \cup Range(queue[r])
      /\ Range(batch[r]) \cup Range(queue[r]) \subseteq Range(Seed(batch[r], queue[r]))
  <2>. DEFINE h == batch[r]  q == queue[r]
  <2>1. h \in Seq(1 .. Len(said)) /\ q \in Seq(1 .. Len(said))
    BY <1>3
  <2>. HIDE DEF h, q
  <2>2. Range(h \o q) = Range(h) \cup Range(q)
    BY <2>1, RangeConcatenation
  <2>3. Range(h) \cup Range(q) \subseteq Range(Seed(h, q))
    BY <2>1, SeedIs
  <2>. QED  BY <2>2, <2>3 DEF h, q
<1>5. Range(Line(r)) \subseteq Range(Line(r)')
  BY <1>4, SeedsLine
<1>. QED  BY <1>1, <1>2, <1>5 DEF Has

LEMMA StillHas ==
  ASSUME FeedTypeOK, BusOK, Still, NEW r \in Reader
  PROVE  Has(r)' = Has(r)
<1>1. OnTheWay(r)' = OnTheWay(r) /\ said' = said
  BY OthersWay
<1>2. Line(r)' = Line(r) /\ dropped' = dropped
  BY StillLines, StillAt
<1>. QED  BY <1>1, <1>2 DEF Has, Dropped

LEMMA MissedKept ==
  ASSUME FeedTypeOK, BusOK, OpeningOK, RunningOK, NothingMissed, [FeedNext]_feedVars
  PROVE  NothingMissed'
<1>1. SUFFICES ASSUME NEW r \in Reader, Reading(r)' PROVE Owed(r)' \subseteq Has(r)'
  <2>1. FeedTypeOK'
    BY TypesKept
  <2>2. (FeedTypeOK =>
           (NothingMissed <=> \A r \in Reader : Reading(r) => Owed(r) \subseteq Has(r)))'
    BY MissedIs, PTL
  <2>. QED  BY <2>1, <2>2
<1>2. Reading(r) => Owed(r) \subseteq Has(r)
  BY MissedIs
<1>3. Len(said) \in Nat /\ DOMAIN at = Reader /\ DOMAIN since = Reader \cup {"board"}
  BY Typed
<1>4. ASSUME NEW m \in Emitter, Record(m) PROVE Owed(r)' \subseteq Has(r)'
  <2>1. Reading(r) /\ since' = since /\ at' = at /\ Len(said') = Len(said) + 1
    BY <1>1, <1>4, RecordIs DEF Reading, readVars
  <2>2. Owed(r)' \subseteq Owed(r) \cup {Len(said) + 1}
    <3>1. \A n \in 1 .. Len(said') : n \in 1 .. Len(said) \/ n = Len(said) + 1
      BY <1>3, <2>1
    <3>. QED  BY <2>1, <3>1 DEF Owed
  <2>3. r \in Range(subs)
    BY <2>1 DEF OpeningOK
  <2>. QED  BY <1>2, <1>4, <2>1, <2>2, <2>3, RecordHas
<1>5. ASSUME NEW m \in Emitter, Call(m) PROVE Owed(r)' \subseteq Has(r)'
  <2>1. said' = said /\ since' = since /\ at' = at
    BY <1>5, CallIs DEF Called
  <2>2. Reading(r) /\ at[r] # "closed" /\ Owed(r)' = Owed(r)
    BY <1>1, <2>1 DEF Reading, Owed
  <2>. QED  BY <1>2, <1>5, <2>2, CallHas
<1>6. ASSUME NEW d \in Reader, Reads(d) PROVE Owed(r)' \subseteq Has(r)'
  <2>1. /\ at[d] = "subscribed" /\ since' = [since EXCEPT ![d].read = Len(said)]
        /\ at' = [at EXCEPT ![d] = IF d = "screen" THEN "read" ELSE "pumping"] /\ said' = said
    BY <1>6, ReadsAre DEF busVars
  <2>2. Has(r) \subseteq Has(r)' /\ (r = d => Range(Retained) \subseteq Has(r)')
    BY <1>6, ReadHas
  <2>3. CASE r # d
    <3>1. at'[r] = at[r] /\ since'[r] = since[r]
      BY <1>3, <2>1, <2>3
    <3>2. Reading(r) /\ Owed(r)' = Owed(r)
      BY <1>1, <2>1, <3>1 DEF Reading, Owed
    <3>. QED  BY <1>2, <2>2, <3>2
  <2>4. CASE r = d
    <3>1. since'[r].sub = since[r].sub /\ since'[r].read = Len(said) /\ Reading(r)
      BY <1>3, <2>1, <2>4 DEF Reading
    <3>2. \A n \in Owed(r)' : n \in Owed(r) \/ (n \in 1 .. Len(said) /\ n > Len(said) - Limit)
      BY <2>1, <3>1 DEF Owed
    <3>3. \A n \in 1 .. Len(said) : n > Len(said) - Limit => n \in Range(Retained)
      BY RetainedIs DEF FeedTypeOK
    <3>. QED  BY <1>2, <2>2, <2>4, <3>1, <3>2, <3>3
  <2>. QED  BY <2>3, <2>4
<1>7. CASE ScreenSeeds
  <2>1. /\ at["screen"] = "read" /\ at' = [at EXCEPT !["screen"] = "pumping"]
        /\ said' = said /\ since' = since
    BY <1>7, SeedsAre DEF busVars
  <2>2. Reading(r) /\ Owed(r)' = Owed(r)
    <3>1. r = "screen" => at[r] = "read" /\ at'[r] = "pumping"
      BY <1>3, <2>1
    <3>2. r # "screen" => at'[r] = at[r]
      BY <1>3, <2>1
    <3>. QED  BY <1>1, <2>1, <3>1, <3>2 DEF Reading, Owed
  <2>. QED  BY <1>2, <1>7, <2>2, SeedHas
<1>8. CASE Still
  <2>1. Has(r)' = Has(r) /\ said' = said
    BY <1>8, StillHas, StillAt
  <2>2. CASE at'[r] = at[r] /\ since'[r] = since[r]
    <3>1. Reading(r) /\ Owed(r)' = Owed(r)
      BY <1>1, <2>1, <2>2 DEF Reading, Owed
    <3>. QED  BY <1>2, <2>1, <3>1
  <2>3. CASE /\ at'[r] = IF r = "log" THEN "pumping" ELSE "subscribed"
             /\ since'[r].sub = Len(said)
    <3>1. Owed(r)' = {}
      BY <1>3, <2>1, <2>3 DEF Owed
    <3>. QED  BY <3>1
  <2>. QED  BY <1>1, <1>8, <2>2, <2>3, StillAt DEF Reading
<1>. QED  BY <1>4, <1>5, <1>6, <1>7, <1>8, StepsAre

-----------------------------------------------------------------------------
(***************************************************************************)
(* What stands twice.                                                      *)
(***************************************************************************)
LEMMA RecordRepeats ==
  ASSUME FeedTypeOK, BusOK, RepeatsOK, NEW m \in Emitter, Record(m)
  PROVE  RepeatsOK'
<1>. SUFFICES ASSUME NEW r \in Reader
              PROVE  /\ \A i, j \in DOMAIN Line(r)' :
                          i # j /\ Line(r)'[i] = Line(r)'[j] => Opening(r, Line(r)[i])'
                     /\ \A i \in DOMAIN Line(r)' :
                          Line(r)'[i] \in OnTheWay(r)' => Opening(r, Line(r)[i])'
  BY DEF RepeatsOK
<1>1. Line(r)' = Line(r) /\ since' = since
  BY RecordsLine, RecordIs DEF readVars
<1>2. OnTheWay(r)' \subseteq OnTheWay(r) \cup {Len(said) + 1}
  BY RecordsWay
<1>3. \A i \in DOMAIN Line(r) : Line(r)[i] # Len(said) + 1
  <2>1. Line(r) \in Seq(1 .. Len(said)) /\ Len(said) \in Nat
    BY Typed
  <2>2. \A i \in DOMAIN Line(r) : Line(r)[i] \in 1 .. Len(said)
    BY <2>1, LenProperties, ElementOfSeq
  <2>. QED  BY <2>1, <2>2
<1>. QED  BY <1>1, <1>2, <1>3 DEF RepeatsOK, Opening

LEMMA CallRepeats ==
  ASSUME FeedTypeOK, BusOK, OpeningOK, RepeatsOK, NEW m \in Emitter, Call(m)
  PROVE  RepeatsOK'
<1>. SUFFICES ASSUME NEW r \in Reader
              PROVE  /\ \A i, j \in DOMAIN Line(r)' :
                          i # j /\ Line(r)'[i] = Line(r)'[j] => Opening(r, Line(r)[i])'
                     /\ \A i \in DOMAIN Line(r)' :
                          Line(r)'[i] \in OnTheWay(r)' => Opening(r, Line(r)[i])'
  BY DEF RepeatsOK
<1>0. PICK c, n : c = Head(emit[m].to) /\ n = emit[m].n
  OBVIOUS
<1>1. Called(m, c, n) /\ since' = since /\ n \in 1 .. Len(said)
  BY <1>0, CallIs DEF Called
<1>2. /\ r = c => OnTheWay(r)' = OnTheWay(r) \ {n} /\ n \in OnTheWay(r)
      /\ r # c => OnTheWay(r)' = OnTheWay(r)
  BY <1>0, <1>1, CallsWay
<1>3. CASE Line(r)' = Line(r)
  BY <1>1, <1>2, <1>3 DEF RepeatsOK, Opening
<1>4. CASE r = c /\ Line(r)' = Append(Line(r), n)
  <2>. DEFINE s == Line(r)  t == Append(s, n)
  <2>1. s \in Seq(1 .. Len(said))
    BY Typed
  <2>2. /\ Len(s) \in Nat /\ DOMAIN s = 1 .. Len(s) /\ DOMAIN t = 1 .. Len(s) + 1
        /\ \A i \in 1 .. Len(s) : t[i] = s[i]
        /\ t[Len(s) + 1] = n
    BY <1>1, <2>1, Appended
  <2>3. /\ \A i, j \in DOMAIN s : i # j /\ s[i] = s[j] => Opening(r, s[i])
        /\ \A i \in DOMAIN s : s[i] \in OnTheWay(r) => Opening(r, s[i])
    BY DEF RepeatsOK
  <2>4. \A k : Opening(r, k) => Opening(r, k)'
    BY <1>1 DEF Opening
  <2>. HIDE DEF s, t
  <2>5. \A i \in DOMAIN t : i \in DOMAIN s \/ i = Len(s) + 1
    BY <2>2
  <2>6. ASSUME NEW i \in DOMAIN t, NEW j \in DOMAIN t, i # j, t[i] = t[j]
        PROVE  Opening(r, t[i])
    <3>1. CASE i \in DOMAIN s /\ j \in DOMAIN s
      BY <2>2, <2>3, <2>6, <3>1
    <3>2. CASE i \in DOMAIN s /\ j = Len(s) + 1
      BY <1>2, <1>4, <2>2, <2>3, <2>6, <3>2
    <3>3. CASE i = Len(s) + 1 /\ j \in DOMAIN s
      BY <1>2, <1>4, <2>2, <2>3, <2>6, <3>3
    <3>. QED  BY <2>5, <2>6, <3>1, <3>2, <3>3
  <2>7. ASSUME NEW i \in DOMAIN t, t[i] \in OnTheWay(r)' PROVE Opening(r, t[i])
    <3>1. t[i] # n /\ t[i] \in OnTheWay(r)
      BY <1>2, <1>4, <2>7
    <3>2. i \in DOMAIN s
      BY <2>2, <2>5, <3>1
    <3>. QED  BY <2>2, <2>3, <3>1, <3>2
  <2>8. Line(r)' = t
    BY <1>4 DEF s, t
  <2>9. \A i \in DOMAIN t : Opening(r, t[i]) => Opening(r, Line(r)[i])'
    BY <1>1, <2>8 DEF Opening
  <2>. QED  BY <2>6, <2>7, <2>8, <2>9
<1>. QED  BY <1>1, <1>3, <1>4, CallsLine

LEMMA ReadRepeats ==
  ASSUME FeedTypeOK, BusOK, OpeningOK, RepeatsOK, NEW d \in Reader, Reads(d)
  PROVE  RepeatsOK'
<1>. SUFFICES ASSUME NEW r \in Reader
              PROVE  /\ \A i, j \in DOMAIN Line(r)' :
                          i # j /\ Line(r)'[i] = Line(r)'[j] => Opening(r, Line(r)[i])'
                     /\ \A i \in DOMAIN Line(r)' :
                          Line(r)'[i] \in OnTheWay(r)' => Opening(r, Line(r)[i])'
  BY DEF RepeatsOK
<1>1. since' = [since EXCEPT ![d].read = Len(said)] /\ DOMAIN since = Reader \cup {"board"}
  BY ReadsAre, Typed
<1>2. OnTheWay(r)' = OnTheWay(r)
  BY OthersWay
<1>3. CASE r # d
  BY <1>1, <1>2, <1>3, ReadsLine DEF RepeatsOK, Opening
<1>4. CASE r = d
  <2>. DEFINE h == Retained  q == queue[r]  t == h \o q
  <2>1. Line(r)' = t /\ since'[r].sub = since[r].sub /\ since'[r].read = Len(said)
    BY <1>1, <1>4, ReadsLine
  <2>2. h \in Seq(1 .. Len(said)) /\ q \in Seq(1 .. Len(said)) /\ Len(said) \in Nat
    BY Typed, RetainedIs DEF FeedTypeOK
  <2>3. /\ Len(h) \in Nat /\ \A i \in 1 .. Len(h) : h[i] = Len(said) - Len(h) + i
    BY RetainedIs DEF FeedTypeOK
  <2>4. \A n \in Range(q) \cup OnTheWay(r) : n > since[r].sub /\ n <= Len(said)
    <3>1. Range(q) \subseteq 1 .. Len(said) /\ OnTheWay(r) \subseteq 1 .. Len(said)
      BY <2>2, RangeOfSeq, WayIs
    <3>. QED  BY <2>2, <3>1 DEF OpeningOK
  <2>. HIDE DEF h, q
  <2>5. /\ t \in Seq(1 .. Len(said)) /\ Len(t) = Len(h) + Len(q) /\ Len(q) \in Nat
        /\ \A i \in 1 .. Len(h) + Len(q) : t[i] = IF i <= Len(h) THEN h[i] ELSE q[i - Len(h)]
        /\ DOMAIN t = 1 .. Len(h) + Len(q) /\ DOMAIN q = 1 .. Len(q)
    BY <2>2, ConcatProperties, LenProperties
  <2>. HIDE DEF t
  <2>6. ASSUME NEW i \in DOMAIN t, i > Len(h) PROVE t[i] \in Range(q)
    <3>1. /\ i \in 1 .. Len(h) + Len(q) /\ ~(i <= Len(h))
          /\ i - Len(h) \in 1 .. Len(q)
      <4>1. i \in 1 .. Len(h) + Len(q) /\ Len(h) \in Nat /\ Len(q) \in Nat
        BY <2>3, <2>5
      <4>. QED  BY <2>6, <4>1
    <3>2. t[i] = q[i - Len(h)]
      BY <2>5, <3>1
    <3>. QED  BY <2>5, <3>1, <3>2 DEF Range
  <2>7. ASSUME NEW i \in DOMAIN t, i <= Len(h) PROVE i \in 1 .. Len(h) /\ t[i] = h[i]
    BY <2>3, <2>5, <2>7
  <2>8. ASSUME NEW i \in DOMAIN t, NEW j \in DOMAIN t, i # j, t[i] = t[j]
        PROVE  t[i] \in Range(q)
    <3>1. i \in Nat /\ j \in Nat
      BY <2>5
    <3>2. ~(i <= Len(h) /\ j <= Len(h))
      <4>. SUFFICES ASSUME i <= Len(h), j <= Len(h) PROVE FALSE
        OBVIOUS
      <4>1. /\ i \in 1 .. Len(h) /\ j \in 1 .. Len(h)
            /\ Len(said) - Len(h) + i = Len(said) - Len(h) + j
        BY <2>3, <2>7, <2>8
      <4>. QED  BY <2>2, <2>3, <2>8, <4>1
    <3>. QED  BY <2>3, <2>6, <2>8, <3>1, <3>2
  <2>9. ASSUME NEW i \in DOMAIN t, t[i] \in Range(q) \cup OnTheWay(r)
        PROVE  Opening(r, Line(r)[i])'
    BY <2>1, <2>4, <2>9 DEF Opening
  <2>. QED  BY <1>2, <2>1, <2>8, <2>9
<1>. QED  BY <1>3, <1>4

LEMMA Behind ==
  ASSUME NEW a \in Nat, NEW b \in Nat, NEW o \in Nat, NEW i \in Nat, o <= b, i > a,
         i <= a + (b - o)
  PROVE  /\ (i - a) + o \in o + 1 .. b /\ a + (((i - a) + o) - o) = i
         /\ i + o \in 1 .. a + b /\ ~(i + o <= a) /\ ~(i <= a)
         /\ (i + o) - a = (i - a) + o
OBVIOUS

\* Where a line of the seed stood before.
Place(h, q, i) == IF i <= Len(h) THEN i ELSE i + Overlap(h, q)

LEMMA SeedPlaces ==
  ASSUME NEW S, NEW h \in Seq(S), NEW q \in Seq(S), NEW i \in DOMAIN Seed(h, q)
  PROVE  Place(h, q, i) \in DOMAIN (h \o q) /\ (h \o q)[Place(h, q, i)] = Seed(h, q)[i]
<1>. DEFINE o == Overlap(h, q)  s == h \o q  t == Seed(h, q)
<1>1. o \in Nat /\ o <= Len(h) /\ o <= Len(q)
  BY OverlapIs
<1>2. /\ Len(h) \in Nat /\ Len(q) \in Nat /\ DOMAIN t = 1 .. Len(h) + Len(q) - o
      /\ \A k \in 1 .. Len(h) : t[k] = h[k]
      /\ \A k \in o + 1 .. Len(q) : t[Len(h) + k - o] = q[k]
  <2>1. Len(h) \in Nat /\ Len(q) \in Nat
    BY LenProperties
  <2>2. DOMAIN t = 1 .. Len(h) + Len(q) - o
    BY SeedIs
  <2>3. \A k \in 1 .. Len(h) : t[k] = h[k]
    BY SeedIs
  <2>4. \A k \in o + 1 .. Len(q) : t[Len(h) + k - o] = q[k]
    BY SeedIs
  <2>. QED  BY <2>1, <2>2, <2>3, <2>4
<1>3. /\ DOMAIN s = 1 .. Len(h) + Len(q)
      /\ \A k \in 1 .. Len(h) + Len(q) : s[k] = IF k <= Len(h) THEN h[k] ELSE q[k - Len(h)]
  BY ConcatProperties, LenProperties
<1>. HIDE DEF o, s, t
<1>4. i \in DOMAIN t
  BY DEF t
<1>5. CASE i <= Len(h)
  <2>1. i \in 1 .. Len(h) /\ i \in 1 .. Len(h) + Len(q)
    BY <1>2, <1>4, <1>5
  <2>. QED  BY <1>2, <1>3, <1>5, <2>1 DEF Place, s, t
<1>6. CASE i > Len(h)
  <2>1. /\ (i - Len(h)) + o \in o + 1 .. Len(q) /\ Len(h) + ((i - Len(h)) + o) - o = i
        /\ i + o \in 1 .. Len(h) + Len(q) /\ ~(i + o <= Len(h)) /\ ~(i <= Len(h))
        /\ (i + o) - Len(h) = (i - Len(h)) + o
    <3>. DEFINE a == Len(h)  b == Len(q)
    <3>1. /\ a \in Nat /\ b \in Nat /\ o \in Nat /\ i \in Nat /\ o <= b /\ i > a
          /\ i <= a + (b - o)
      BY <1>1, <1>2, <1>4, <1>6
    <3>. HIDE DEF a, b
    <3>2. /\ (i - a) + o \in o + 1 .. b /\ a + (((i - a) + o) - o) = i
          /\ i + o \in 1 .. a + b /\ ~(i + o <= a) /\ ~(i <= a)
          /\ (i + o) - a = (i - a) + o
      BY <3>1, Behind
    <3>. QED  BY <3>2 DEF a, b
  <2>2. t[i] = q[(i - Len(h)) + o]
    BY <1>2, <2>1
  <2>3. s[i + o] = q[(i + o) - Len(h)]
    <3>. DEFINE k == i + o
    <3>1. k \in 1 .. Len(h) + Len(q) /\ ~(k <= Len(h))
      BY <2>1
    <3>. HIDE DEF k
    <3>2. s[k] = q[k - Len(h)]
      BY <1>3, <3>1
    <3>. QED  BY <3>2 DEF k
  <2>4. Place(h, q, i) = i + o
    BY <2>1 DEF Place, o
  <2>. QED  BY <1>3, <2>1, <2>2, <2>3, <2>4 DEF s, t
<1>. QED  BY <1>2, <1>4, <1>5, <1>6

LEMMA SeedRepeats ==
  ASSUME FeedTypeOK, BusOK, OpeningOK, RepeatsOK, ScreenSeeds
  PROVE  RepeatsOK'
<1>. SUFFICES ASSUME NEW r \in Reader
              PROVE  /\ \A i, j \in DOMAIN Line(r)' :
                          i # j /\ Line(r)'[i] = Line(r)'[j] => Opening(r, Line(r)[i])'
                     /\ \A i \in DOMAIN Line(r)' :
                          Line(r)'[i] \in OnTheWay(r)' => Opening(r, Line(r)[i])'
  BY DEF RepeatsOK
<1>1. since' = since /\ OnTheWay(r)' = OnTheWay(r)
  BY SeedsAre, OthersWay
<1>2. CASE r # "screen"
  BY <1>1, <1>2, SeedsLine DEF RepeatsOK, Opening
<1>3. CASE r = "screen"
  <2>. DEFINE h == batch[r]  q == queue[r]  s == h \o q  t == Seed(h, q)  S == 1 .. Len(said)
              p(i) == Place(h, q, i)
  <2>1. Line(r)' = t /\ Line(r) = s
    BY <1>3, SeedsLine
  <2>2. h \in Seq(S) /\ q \in Seq(S)
    BY Typed
  <2>. HIDE DEF h, q, S
  <2>3. /\ Overlap(h, q) \in Nat /\ Len(h) \in Nat /\ Len(q) \in Nat
        /\ DOMAIN t = 1 .. Len(h) + Len(q) - Overlap(h, q)
    BY <2>2, OverlapIs, SeedIs
  <2>4. \A i \in DOMAIN t : p(i) \in DOMAIN s /\ s[p(i)] = t[i]
    BY <2>2, SeedPlaces
  <2>5. \A i, j \in DOMAIN t : i # j => p(i) # p(j)
    BY <2>3 DEF Place
  <2>6. /\ \A i, j \in DOMAIN s : i # j /\ s[i] = s[j] => Opening(r, s[i])
        /\ \A i \in DOMAIN s : s[i] \in OnTheWay(r) => Opening(r, s[i])
    BY <2>1 DEF RepeatsOK
  <2>. HIDE DEF s, t, p
  <2>7. /\ \A i, j \in DOMAIN t : i # j /\ t[i] = t[j] => Opening(r, t[i])
        /\ \A i \in DOMAIN t : t[i] \in OnTheWay(r) => Opening(r, t[i])
    BY <2>4, <2>5, <2>6
  <2>8. \A i \in DOMAIN t : Opening(r, t[i]) => Opening(r, Line(r)[i])'
    BY <1>1, <2>1 DEF Opening
  <2>. QED  BY <1>1, <2>1, <2>7, <2>8
<1>. QED  BY <1>2, <1>3

LEMMA StillRepeats ==
  ASSUME FeedTypeOK, BusOK, OpeningOK, RepeatsOK, Still
  PROVE  RepeatsOK'
<1>. SUFFICES ASSUME NEW r \in Reader
              PROVE  /\ \A i, j \in DOMAIN Line(r)' :
                          i # j /\ Line(r)'[i] = Line(r)'[j] => Opening(r, Line(r)[i])'
                     /\ \A i \in DOMAIN Line(r)' :
                          Line(r)'[i] \in OnTheWay(r)' => Opening(r, Line(r)[i])'
  BY DEF RepeatsOK
<1>1. Line(r)' = Line(r) /\ OnTheWay(r)' = OnTheWay(r)
  BY StillLines, OthersWay
<1>2. CASE since'[r] = since[r]
  BY <1>1, <1>2 DEF RepeatsOK, Opening
<1>3. CASE at[r] = "shut"
  <2>1. queue[r] = <<>> /\ batch[r] = <<>> /\ shown[r] = <<>>
    BY <1>3 DEF OpeningOK
  <2>2. DOMAIN Line(r) = {}
    <3>1. Line(r) = <<>>
      BY <2>1 DEF Line
    <3>. QED  BY <3>1
  <2>. QED  BY <1>1, <2>2
<1>. QED  BY <1>2, <1>3, StillAt

LEMMA RepeatsKept ==
  ASSUME FeedTypeOK, BusOK, OpeningOK, RepeatsOK, [FeedNext]_feedVars
  PROVE  RepeatsOK'
BY RecordRepeats, CallRepeats, ReadRepeats, SeedRepeats, StillRepeats, StepsAre

LEMMA RepeatsShown ==
  ASSUME FeedTypeOK, RepeatsOK
  PROVE  RepeatsOnlyFromOpening
<1>. SUFFICES ASSUME NEW r \in Reader, NEW i \in DOMAIN shown[r], NEW j \in DOMAIN shown[r],
                     i # j, shown[r][i] = shown[r][j]
              PROVE  Opening(r, shown[r][i])
  BY DEF RepeatsOnlyFromOpening, Opening
<1>. DEFINE s == shown[r]  z == batch[r] \o queue[r]
<1>1. s \in Seq(1 .. Len(said)) /\ z \in Seq(1 .. Len(said)) /\ Line(r) = s \o z
  <2>1. /\ queue[r] \in Seq(1 .. Len(said)) /\ batch[r] \in Seq(1 .. Len(said))
        /\ shown[r] \in Seq(1 .. Len(said))
    BY Typed
  <2>2. batch[r] \o queue[r] \in Seq(1 .. Len(said))
    BY <2>1, ConcatProperties
  <2>3. (shown[r] \o batch[r]) \o queue[r] = shown[r] \o (batch[r] \o queue[r])
    <3>. DEFINE a == shown[r]  b == batch[r]  c == queue[r]  S == 1 .. Len(said)
    <3>1. a \in Seq(S) /\ b \in Seq(S) /\ c \in Seq(S)
      BY <2>1
    <3>. HIDE DEF a, b, c, S
    <3>2. (a \o b) \o c = a \o (b \o c)
      BY <3>1, ConcatAssociative, SMTT(30)
    <3>. QED  BY <3>2 DEF a, b, c
  <2>. QED  BY <2>1, <2>2, <2>3 DEF Line
<1>. HIDE DEF s, z
<1>2. /\ Len(s) \in Nat /\ Len(z) \in Nat /\ DOMAIN s = 1 .. Len(s)
      /\ DOMAIN (s \o z) = 1 .. Len(s) + Len(z)
      /\ \A k \in 1 .. Len(s) + Len(z) : (s \o z)[k] = IF k <= Len(s) THEN s[k] ELSE z[k - Len(s)]
  BY <1>1, ConcatProperties, LenProperties
<1>3. \A k \in DOMAIN s : k \in DOMAIN (s \o z) /\ (s \o z)[k] = s[k]
  BY <1>2
<1>4. i \in DOMAIN s /\ j \in DOMAIN s /\ s[i] = s[j]
  BY DEF s
<1>5. Opening(r, s[i])
  BY <1>1, <1>3, <1>4 DEF RepeatsOK
<1>. QED  BY <1>5 DEF s

-----------------------------------------------------------------------------
(***************************************************************************)
(* What the session said later comes later.                                *)
(***************************************************************************)
\* What has to hold of a line s, and of what is on its way to the interface.
Follow(s, way) ==
  \A i \in DOMAIN s, b \in 1 .. Len(said) :
    said[s[i]].by = Session /\ said[b].by = Session /\ s[i] < b
    => b \in way \/ \E j \in DOMAIN s : j > i /\ s[j] = b

LEMMA FollowIs ==
  FollowsOK <=> (Reading("screen") => Follow(Line("screen"), OnTheWay("screen")))
BY DEF FollowsOK, Follow

LEMMA RecordFollows ==
  ASSUME FeedTypeOK, BusOK, OpeningOK, FollowsOK, NEW m \in Emitter, Record(m)
  PROVE  FollowsOK'
<1>. DEFINE s == Line("screen")  way == OnTheWay("screen")
<1>1. /\ Len(said') = Len(said) + 1 /\ Len(said) \in Nat /\ at' = at
      /\ \A i \in 1 .. Len(said) : said'[i] = said[i]
  BY RecordIs DEF readVars
<1>2. SUFFICES ASSUME Reading("screen") PROVE Follow(s, way)'
  BY <1>1 DEF FollowsOK, Follow, Reading
<1>3. s' = s /\ s \in Seq(1 .. Len(said))
  BY Kinds, RecordsLine, Typed
<1>4. way' = way \cup {Len(said) + 1}
  BY <1>2, Kinds, RecordsWay DEF OpeningOK
<1>5. \A i \in DOMAIN s : s[i] \in 1 .. Len(said)
  BY <1>3, LenProperties, ElementOfSeq
<1>6. Follow(s, way)
  BY <1>2, FollowIs
<1>. HIDE DEF s, way
<1>7. \A b \in 1 .. Len(said') : b \in 1 .. Len(said) \/ b = Len(said) + 1
  BY <1>1
<1>8. SUFFICES ASSUME NEW i \in DOMAIN s, NEW b \in 1 .. Len(said'),
                      said'[s[i]].by = Session, said'[b].by = Session, s[i] < b
               PROVE  b \in way' \/ \E j \in DOMAIN s : j > i /\ s[j] = b
  BY <1>3 DEF Follow
<1>9. CASE b \in 1 .. Len(said)
  <2>1. said[s[i]].by = Session /\ said[b].by = Session
    BY <1>1, <1>5, <1>8, <1>9
  <2>2. b \in way \/ \E j \in DOMAIN s : j > i /\ s[j] = b
    BY <1>6, <1>8, <1>9, <2>1 DEF Follow
  <2>. QED  BY <1>4, <2>2
<1>. QED  BY <1>4, <1>7, <1>9

LEMMA CallFollows ==
  ASSUME FeedTypeOK, BusOK, OpeningOK, FollowsOK, NEW m \in Emitter, Call(m)
  PROVE  FollowsOK'
<1>. DEFINE s == Line("screen")  way == OnTheWay("screen")
<1>0. PICK c, n : c = Head(emit[m].to) /\ n = emit[m].n
  OBVIOUS
<1>1. /\ Called(m, c, n) /\ n \in 1 .. Len(said) /\ said' = said /\ at' = at
      /\ (dropped' = dropped \/ c \in Page) /\ emit[m].step = "delivering"
  BY <1>0, CallIs DEF Called
<1>2. SUFFICES ASSUME Reading("screen") PROVE Follow(s, way)'
  BY <1>1 DEF FollowsOK, Follow, Reading
<1>3. Follow(s, way) /\ s \in Seq(1 .. Len(said)) /\ Len(said) \in Nat
  BY <1>2, FollowIs, Kinds, Typed
<1>4. /\ c = "screen" => way' = way \ {n}
      /\ c # "screen" => way' = way
  BY <1>0, <1>1, CallsWay
<1>5. /\ c = "screen" => s' = Append(s, n)
      /\ c # "screen" => s' = s
  <2>1. <<"screen", n>> \notin dropped' \/ c # "screen"
    BY <1>1, Kinds DEF FeedTypeOK
  <2>2. at["screen"] # "closed"
    BY <1>2 DEF Reading
  <2>. QED  BY <1>1, <2>1, <2>2, Kinds, CallsLine
<1>6. said[n].by = Session => \A b \in 1 .. Len(said) : said[b].by = Session => b <= n
  BY <1>0, <1>1, EmitIs DEF EmitOK
<1>. HIDE DEF s, way
<1>7. CASE c # "screen"
  BY <1>1, <1>3, <1>4, <1>5, <1>7 DEF Follow
<1>8. CASE c = "screen"
  <2>. DEFINE t == Append(s, n)
  <2>1. /\ Len(s) \in Nat /\ DOMAIN s = 1 .. Len(s) /\ DOMAIN t = 1 .. Len(s) + 1
        /\ \A i \in 1 .. Len(s) : t[i] = s[i]
        /\ t[Len(s) + 1] = n
    BY <1>1, <1>3, Appended
  <2>. HIDE DEF t
  <2>2. SUFFICES ASSUME NEW i \in DOMAIN t, NEW b \in 1 .. Len(said),
                        said[t[i]].by = Session, said[b].by = Session, t[i] < b
                 PROVE  b \in way' \/ \E j \in DOMAIN t : j > i /\ t[j] = b
    BY <1>1, <1>5, <1>8 DEF Follow, t
  <2>3. CASE i \in DOMAIN s
    <3>1. b \in way \/ \E j \in DOMAIN s : j > i /\ s[j] = b
      BY <1>3, <2>1, <2>2, <2>3 DEF Follow
    <3>2. CASE b = n
      <4>1. Len(s) + 1 \in DOMAIN t /\ Len(s) + 1 > i
        BY <2>1, <2>3
      <4>. QED  BY <2>1, <3>2, <4>1
    <3>3. CASE b # n /\ b \in way
      BY <1>4, <1>8, <3>3
    <3>4. CASE \E j \in DOMAIN s : j > i /\ s[j] = b
      BY <2>1, <3>4
    <3>. QED  BY <3>1, <3>2, <3>3, <3>4
  <2>4. CASE i = Len(s) + 1
    <3>1. t[i] = n
      BY <2>1, <2>4
    <3>. QED  BY <1>1, <1>3, <1>6, <2>2, <3>1
  <2>. QED  BY <2>1, <2>3, <2>4
<1>. QED  BY <1>7, <1>8

LEMMA ReadFollows ==
  ASSUME FeedTypeOK, BusOK, OpeningOK, FollowsOK, NEW d \in Reader, Reads(d)
  PROVE  FollowsOK'
<1>. DEFINE s == Line("screen")  way == OnTheWay("screen")
<1>1. /\ at[d] = "subscribed" /\ DOMAIN at = Reader
      /\ at' = [at EXCEPT ![d] = IF d = "screen" THEN "read" ELSE "pumping"]
  BY ReadsAre, Typed
<1>2. said' = said /\ way' = way
  BY OthersWay
<1>3. CASE d # "screen"
  <2>1. at'["screen"] = at["screen"] /\ s' = s
    BY <1>1, <1>3, Kinds, ReadsLine
  <2>. QED  BY <1>2, <2>1 DEF FollowsOK, Reading
<1>4. CASE d = "screen"
  <2>. DEFINE h == Retained  q == queue["screen"]  t == h \o q  S == 1 .. Len(said)
  <2>1. s' = t /\ s = q
    BY <1>4, ReadsLine
  <2>2. Follow(q, way)
    BY <1>1, <1>4, <2>1, FollowIs DEF Reading
  <2>3. /\ h \in Seq(S) /\ q \in Seq(S) /\ Len(said) \in Nat /\ Len(h) \in Nat
        /\ \A i \in 1 .. Len(h) : h[i] = Len(said) - Len(h) + i
    BY Typed, RetainedIs, Kinds DEF FeedTypeOK
  <2>. HIDE DEF h, q, S, s, way
  <2>4. /\ Len(q) \in Nat /\ DOMAIN q = 1 .. Len(q) /\ DOMAIN t = 1 .. Len(h) + Len(q)
        /\ \A i \in 1 .. Len(h) + Len(q) : t[i] = IF i <= Len(h) THEN h[i] ELSE q[i - Len(h)]
    BY <2>3, ConcatProperties, LenProperties
  <2>. HIDE DEF t
  <2>5. SUFFICES ASSUME NEW i \in DOMAIN t, NEW b \in 1 .. Len(said),
                        said[t[i]].by = Session, said[b].by = Session, t[i] < b
                 PROVE  b \in way \/ \E j \in DOMAIN t : j > i /\ t[j] = b
    BY <1>2, <2>1, FollowIs DEF FollowsOK, Follow, s, way
  <2>6. CASE i <= Len(h)
    <3>1. i \in 1 .. Len(h) /\ t[i] = Len(said) - Len(h) + i
      BY <2>3, <2>4, <2>6
    <3>2. /\ b - (Len(said) - Len(h)) \in 1 .. Len(h) /\ b - (Len(said) - Len(h)) > i
          /\ Len(said) - Len(h) + (b - (Len(said) - Len(h))) = b
      BY <2>3, <2>5, <3>1
    <3>. DEFINE j == b - (Len(said) - Len(h))
    <3>3. j \in DOMAIN t /\ j <= Len(h)
      BY <2>3, <2>4, <3>2
    <3>4. t[j] = b
      BY <2>3, <2>4, <3>2, <3>3
    <3>. QED  BY <3>2, <3>3, <3>4
  <2>7. CASE i > Len(h)
    <3>1. i - Len(h) \in DOMAIN q /\ t[i] = q[i - Len(h)]
      BY <2>3, <2>4, <2>7
    <3>2. b \in way \/ \E j \in DOMAIN q : j > i - Len(h) /\ q[j] = b
      BY <2>2, <2>5, <3>1 DEF Follow
    <3>3. ASSUME NEW j \in DOMAIN q, j > i - Len(h), q[j] = b
          PROVE  \E k \in DOMAIN t : k > i /\ t[k] = b
      <4>1. /\ j + Len(h) \in DOMAIN t /\ j + Len(h) > i /\ ~(j + Len(h) <= Len(h))
            /\ j + Len(h) - Len(h) = j
        BY <2>3, <2>4, <3>3
      <4>2. t[j + Len(h)] = q[j]
        BY <2>4, <4>1
      <4>. QED  BY <3>3, <4>1, <4>2
    <3>. QED  BY <3>2, <3>3
  <2>. QED  BY <2>3, <2>4, <2>6, <2>7
<1>. QED  BY <1>3, <1>4

LEMMA SeedFollows ==
  ASSUME FeedTypeOK, BusOK, OpeningOK, FollowsOK, ScreenSeeds
  PROVE  FollowsOK'
<1>. DEFINE s == Line("screen")  way == OnTheWay("screen")  S == 1 .. Len(said)
            h == batch["screen"]  q == queue["screen"]  t == Seed(h, q)  o == Overlap(h, q)
<1>1. said' = said /\ way' = way
  BY OthersWay
<1>2. s' = t /\ s = h \o q /\ at["screen"] = "read"
  BY Kinds, SeedsLine
<1>3. Follow(h \o q, way)
  BY <1>2, FollowIs DEF Reading
<1>4. h \in Seq(S) /\ q \in Seq(S)
  BY Kinds, Typed
<1>5. \A i, j \in 1 .. Len(h) : i < j => h[i] < h[j]
  BY <1>2, Kinds DEF OpeningOK
<1>6. SUFFICES ASSUME NEW i \in DOMAIN t, NEW b \in 1 .. Len(said),
                      said[t[i]].by = Session, said[b].by = Session, t[i] < b
               PROVE  b \in way \/ \E j \in DOMAIN t : j > i /\ t[j] = b
  BY <1>1, <1>2 DEF FollowsOK
<1>. HIDE DEF h, q, s, way, S
<1>7. Place(h, q, i) \in DOMAIN (h \o q) /\ (h \o q)[Place(h, q, i)] = t[i]
  BY <1>4, SeedPlaces
<1>8. /\ Len(h) \in Nat /\ Len(q) \in Nat /\ DOMAIN t = 1 .. Len(h) + Len(q) - o
      /\ \A k \in 1 .. Len(h) : t[k] = h[k]
      /\ \A k \in o + 1 .. Len(q) : t[Len(h) + k - o] = q[k]
  <2>1. Len(h) \in Nat /\ Len(q) \in Nat
    BY <1>4, LenProperties
  <2>2. DOMAIN t = 1 .. Len(h) + Len(q) - o
    BY <1>4, SeedIs
  <2>3. \A k \in 1 .. Len(h) : t[k] = h[k]
    BY <1>4, SeedIs
  <2>4. \A k \in o + 1 .. Len(q) : t[Len(h) + k - o] = q[k]
    BY <1>4, SeedIs
  <2>. QED  BY <2>1, <2>2, <2>3, <2>4
<1>9. /\ o \in Nat /\ o <= Len(h) /\ o <= Len(q) /\ \A k \in 1 .. o : h[Len(h) - o + k] = q[k]
  <2>1. /\ Overlap(h, q) \in Nat /\ Overlap(h, q) <= Len(h) /\ Overlap(h, q) <= Len(q)
        /\ \A k \in 1 .. Overlap(h, q) : h[Len(h) - Overlap(h, q) + k] = q[k]
    BY <1>4, OverlapIs, ZenonT(30)
  <2>. QED  BY <2>1
<1>10. /\ DOMAIN (h \o q) = 1 .. Len(h) + Len(q)
       /\ \A k \in 1 .. Len(h) + Len(q) :
            (h \o q)[k] = IF k <= Len(h) THEN h[k] ELSE q[k - Len(h)]
  BY <1>4, ConcatProperties, LenProperties
<1>. DEFINE p == Place(h, q, i)  u == h \o q
<1>11. b \in way \/ \E j \in DOMAIN u : j > p /\ u[j] = b
  BY <1>3, <1>6, <1>7 DEF Follow
<1>12. p = IF i <= Len(h) THEN i ELSE i + o
  BY DEF Place
<1>. HIDE DEF o, t, p, u
<1>13. ASSUME NEW j \in DOMAIN u, j > p, u[j] = b
       PROVE  \E k \in DOMAIN t : k > i /\ t[k] = b
  <2>0. j \in 1 .. Len(h) + Len(q)
    BY <1>10 DEF u
  <2>1. CASE j <= Len(h)
    <3>1. j \in 1 .. Len(h) /\ j > i /\ j \in DOMAIN t
      BY <1>8, <1>9, <1>12, <1>13, <2>0, <2>1
    <3>2. t[j] = b
      BY <1>8, <1>10, <1>13, <2>0, <2>1, <3>1 DEF u
    <3>. QED  BY <3>1, <3>2
  <2>. DEFINE k == j - Len(h)
  <2>2. CASE j > Len(h) /\ k > o
    <3>1. /\ k \in o + 1 .. Len(q) /\ Len(h) + k - o \in DOMAIN t /\ Len(h) + k - o > i
          /\ ~(j <= Len(h))
      <4>. DEFINE a == Len(h)  z == Len(q)
      <4>1. a \in Nat /\ z \in Nat /\ o \in Nat /\ o <= a /\ o <= z /\ j \in 1 .. a + z /\ i \in Nat
        BY <1>8, <1>9, <2>0
      <4>2. j > a /\ j - a > o /\ (i <= a \/ i + o < j) /\ DOMAIN t = 1 .. a + z - o
        BY <1>8, <1>9, <1>12, <1>13, <2>0, <2>2
      <4>. HIDE DEF a, z
      <4>3. /\ j - a \in o + 1 .. z /\ a + (j - a) - o \in 1 .. a + z - o
            /\ a + (j - a) - o > i /\ ~(j <= a)
        BY <4>1, <4>2, SMTT(30)
      <4>. QED  BY <4>2, <4>3 DEF a, z
    <3>2. t[Len(h) + k - o] = q[k] /\ q[k] = b
      BY <1>8, <1>10, <1>13, <2>0, <3>1 DEF u
    <3>. QED  BY <3>1, <3>2
  <2>3. CASE j > Len(h) /\ k <= o
    <3>1. /\ k \in 1 .. o /\ Len(h) - o + k \in 1 .. Len(h) /\ ~(j <= Len(h))
          /\ Len(h) - o + k \in DOMAIN t
      BY <1>8, <1>9, <2>0, <2>3, SMTT(30)
    <3>2. i <= Len(h)
      BY <1>8, <1>9, <1>12, <1>13, <2>0, <2>3
    <3>3. i \in 1 .. Len(h) /\ t[i] = h[i]
      BY <1>6, <1>8, <3>2
    <3>. DEFINE l == Len(h) - o + k
    <3>4. h[l] = b /\ t[l] = b
      BY <1>8, <1>9, <1>10, <1>13, <2>0, <3>1 DEF u
    <3>. HIDE DEF k
    <3>5. l > i
      <4>1. h[i] \in Nat /\ h[l] \in Nat /\ h[i] < h[l]
        <5>1. \A x \in 1 .. Len(h) : h[x] \in S
          BY <1>4, ElementOfSeq
        <5>. QED  BY <1>6, <3>1, <3>3, <3>4, <5>1 DEF S
      <4>2. ~(l < i) /\ l # i
        BY <1>5, <3>1, <3>3, <4>1
      <4>3. l \in Nat /\ i \in Nat
        BY <3>1, <3>3
      <4>. HIDE DEF l
      <4>. QED  BY <4>2, <4>3
    <3>. QED  BY <3>1, <3>4, <3>5
  <2>. QED  BY <1>8, <1>9, <2>0, <2>1, <2>2, <2>3
<1>. QED  BY <1>11, <1>13

LEMMA StillFollows ==
  ASSUME FeedTypeOK, BusOK, OpeningOK, FollowsOK, Still
  PROVE  FollowsOK'
<1>1. /\ Line("screen")' = Line("screen") /\ OnTheWay("screen")' = OnTheWay("screen")
      /\ said' = said
  BY Kinds, StillLines, OthersWay
<1>2. CASE at["screen"] = "shut"
  <2>1. queue["screen"] = <<>> /\ batch["screen"] = <<>> /\ shown["screen"] = <<>>
    BY <1>2, Kinds DEF OpeningOK
  <2>2. DOMAIN Line("screen") = {}
    <3>1. Line("screen") = <<>>
      BY <2>1 DEF Line
    <3>. QED  BY <3>1
  <2>. QED  BY <1>1, <2>2 DEF FollowsOK
<1>3. CASE Reading("screen") \/ ~Reading("screen")'
  BY <1>1, <1>3 DEF FollowsOK
<1>. QED  BY <1>2, <1>3, Kinds, StillAt DEF Reading

LEMMA FollowsKept ==
  ASSUME FeedTypeOK, BusOK, OpeningOK, FollowsOK, [FeedNext]_feedVars
  PROVE  FollowsOK'
BY RecordFollows, CallFollows, ReadFollows, SeedFollows, StillFollows, StepsAre

-----------------------------------------------------------------------------
(***************************************************************************)
(* What is taken as running.                                               *)
(***************************************************************************)
\* NoteAll of what was said in d.
Heard(d, ns) ==
  {s \in Service : \E i \in DOMAIN ns :
     /\ d[ns[i]].kind = "started" /\ s \in d[ns[i]].of
     /\ \A j \in DOMAIN ns : j > i => ~(d[ns[j]].kind = "stopped" /\ s \in d[ns[j]].of)}

LEMMA HeardIs ==
  \A ns : NoteAll(ns) = Heard(said, ns)
BY DEF NoteAll, Heard

\* What comes after does not change what was heard.
LEMMA HeardStays ==
  ASSUME NEW d, NEW z, NEW S, NEW ns \in Seq(S), \A n \in S : z[n] = d[n]
  PROVE  Heard(z, ns) = Heard(d, ns)
<1>1. \A i \in DOMAIN ns : ns[i] \in S
  BY LenProperties, ElementOfSeq
<1>. QED  BY <1>1 DEF Heard

\* One more is heard.
LEMMA HeardMore ==
  ASSUME NEW d, NEW S, NEW ns \in Seq(S), NEW n \in S, d[n] \in Event
  PROVE  Heard(d, Append(ns, n)) = Note(Heard(d, ns), d[n])
<1>. DEFINE t == Append(ns, n)  l == Len(ns) + 1
<1>1. /\ Len(ns) \in Nat /\ DOMAIN ns = 1 .. Len(ns) /\ DOMAIN t = 1 .. l
      /\ \A i \in 1 .. Len(ns) : t[i] = ns[i]
      /\ t[l] = n
  BY Appended
<1>. HIDE DEF t
<1>2. \A i \in DOMAIN t : i \in DOMAIN ns \/ i = l
  BY <1>1
<1>3. /\ \A i \in DOMAIN ns : i \in DOMAIN t /\ l > i /\ ~(i > l) /\ i # l
      /\ l \in DOMAIN t /\ ~(l > l)
  BY <1>1
<1>4. d[n].kind \in {"started", "stopped", "other"} /\ d[n].of \subseteq Service
  BY DEF Event
<1>. HIDE DEF l
<1>5. ASSUME NEW s \in Service, d[n].kind = "started", s \in d[n].of PROVE s \in Heard(d, t)
  <2>1. \A j \in DOMAIN t : ~(j > l)
    BY <1>2, <1>3
  <2>. QED  BY <1>1, <1>3, <1>5, <2>1 DEF Heard
<1>6. ASSUME NEW s \in Service, d[n].kind = "stopped", s \in d[n].of PROVE s \notin Heard(d, t)
  BY <1>1, <1>2, <1>3, <1>6 DEF Heard
<1>7. ASSUME NEW s \in Service, s \notin d[n].of \/ d[n].kind = "other"
      PROVE  s \in Heard(d, t) <=> s \in Heard(d, ns)
  <2>1. ~(d[n].kind = "started" /\ s \in d[n].of) /\ ~(d[n].kind = "stopped" /\ s \in d[n].of)
    BY <1>7
  <2>2. ASSUME s \in Heard(d, t) PROVE s \in Heard(d, ns)
    <3>1. PICK i \in DOMAIN t :
            /\ d[t[i]].kind = "started" /\ s \in d[t[i]].of
            /\ \A j \in DOMAIN t : j > i => ~(d[t[j]].kind = "stopped" /\ s \in d[t[j]].of)
      BY <2>2 DEF Heard
    <3>2. i \in DOMAIN ns
      BY <1>1, <1>2, <2>1, <3>1
    <3>3. \A j \in DOMAIN ns : j > i => ~(d[ns[j]].kind = "stopped" /\ s \in d[ns[j]].of)
      BY <1>1, <1>3, <3>1
    <3>4. d[ns[i]].kind = "started" /\ s \in d[ns[i]].of
      BY <1>1, <3>1, <3>2
    <3>. QED  BY <3>2, <3>3, <3>4 DEF Heard
  <2>3. ASSUME s \in Heard(d, ns) PROVE s \in Heard(d, t)
    <3>1. PICK i \in DOMAIN ns :
            /\ d[ns[i]].kind = "started" /\ s \in d[ns[i]].of
            /\ \A j \in DOMAIN ns : j > i => ~(d[ns[j]].kind = "stopped" /\ s \in d[ns[j]].of)
      BY <2>3 DEF Heard
    <3>2. i \in DOMAIN t /\ d[t[i]].kind = "started" /\ s \in d[t[i]].of
      BY <1>1, <1>3, <3>1
    <3>3. \A j \in DOMAIN t : j > i => ~(d[t[j]].kind = "stopped" /\ s \in d[t[j]].of)
      BY <1>1, <1>2, <2>1, <3>1
    <3>. QED  BY <3>2, <3>3 DEF Heard
  <2>. QED  BY <2>2, <2>3
<1>8. Heard(d, t) \subseteq Service /\ Heard(d, ns) \subseteq Service
  BY DEF Heard
<1>9. CASE d[n].kind = "started"
  <2>1. Note(Heard(d, ns), d[n]) = Heard(d, ns) \cup d[n].of
    BY <1>9 DEF Note
  <2>. QED  BY <1>4, <1>5, <1>7, <1>8, <1>9, <2>1 DEF t
<1>10. CASE d[n].kind = "stopped"
  <2>1. Note(Heard(d, ns), d[n]) = Heard(d, ns) \ d[n].of
    BY <1>10 DEF Note
  <2>. QED  BY <1>4, <1>6, <1>7, <1>8, <1>10, <2>1 DEF t
<1>11. CASE d[n].kind = "other"
  <2>1. Note(Heard(d, ns), d[n]) = Heard(d, ns)
    BY <1>11 DEF Note
  <2>. QED  BY <1>7, <1>8, <1>11, <2>1 DEF t
<1>. QED  BY <1>4, <1>9, <1>10, <1>11

\* The others say nothing of services.
LEMMA OthersSayNothing ==
  ASSUME NEW d, NEW k \in Nat, NEW l \in Nat, k <= l, \A n \in k + 1 .. l : d[n].kind = "other"
  PROVE  Heard(d, Upto(l)) = Heard(d, Upto(k))
<1>1. /\ DOMAIN Upto(k) = 1 .. k /\ DOMAIN Upto(l) = 1 .. l
      /\ \A i \in 1 .. k : Upto(k)[i] = i
      /\ \A i \in 1 .. l : Upto(l)[i] = i
  BY DEF Upto
<1>2. \A i \in 1 .. k : i \in 1 .. l
  OBVIOUS
<1>3. \A i \in 1 .. l : i \in 1 .. k \/ d[i].kind = "other"
  <2>1. \A i \in 1 .. l : i \in 1 .. k \/ i \in k + 1 .. l
    OBVIOUS
  <2>. QED  BY <2>1
<1>4. /\ Heard(d, Upto(k)) =
           {s \in Service : \E i \in 1 .. k :
              /\ d[i].kind = "started" /\ s \in d[i].of
              /\ \A j \in 1 .. k : j > i => ~(d[j].kind = "stopped" /\ s \in d[j].of)}
      /\ Heard(d, Upto(l)) =
           {s \in Service : \E i \in 1 .. l :
              /\ d[i].kind = "started" /\ s \in d[i].of
              /\ \A j \in 1 .. l : j > i => ~(d[j].kind = "stopped" /\ s \in d[j].of)}
  BY <1>1 DEF Heard
<1>. QED  BY <1>2, <1>3, <1>4

LEMMA UptoIs ==
  ASSUME NEW k \in Nat
  PROVE  /\ Upto(k) \in Seq(1 .. k) /\ Len(Upto(k)) = k
         /\ \A l \in Nat : k <= l => Upto(k) \in Seq(1 .. l)
         /\ k # 0 => Upto(k) = Append(Upto(k - 1), k)
<1>1. Upto(k) \in [1 .. k -> 1 .. k]
  BY DEF Upto
<1>2. Upto(k) \in Seq(1 .. k) /\ Len(Upto(k)) = k
  BY <1>1
<1>3. ASSUME NEW l \in Nat, k <= l PROVE Upto(k) \in Seq(1 .. l)
  <2>1. 1 .. k \subseteq 1 .. l
    BY <1>3
  <2>. QED  BY <1>2, <2>1, SeqMonotonic
<1>4. ASSUME k # 0 PROVE Upto(k) = Append(Upto(k - 1), k)
  <2>. DEFINE s == Upto(k - 1)  t == Append(s, k)
  <2>1. k - 1 \in Nat /\ k \in 1 .. k
    BY <1>4
  <2>2. s \in [1 .. k - 1 -> 1 .. k] /\ \A i \in 1 .. k - 1 : s[i] = i
    BY <2>1 DEF Upto
  <2>3. s \in Seq(1 .. k) /\ Len(s) = k - 1
    BY <2>1, <2>2
  <2>. HIDE DEF s
  <2>4. /\ t \in Seq(1 .. k) /\ Len(t) = k /\ \A i \in 1 .. k - 1 : t[i] = i
        /\ t[k] = k
    BY <2>1, <2>2, <2>3, Appended
  <2>5. \A i \in 1 .. k : t[i] = i /\ Upto(k)[i] = i
    <3>1. \A i \in 1 .. k : i \in 1 .. k - 1 \/ i = k
      BY <2>1
    <3>. QED  BY <2>4, <3>1 DEF Upto
  <2>. HIDE DEF t
  <2>6. Upto(k) = t
    BY <1>2, <2>4, <2>5, SeqEqual
  <2>. QED  BY <2>6 DEF s, t
<1>. QED  BY <1>2, <1>3, <1>4

LEMMA ScreenRunsKept ==
  ASSUME FeedTypeOK, BusOK, OpeningOK, ScreenRuns, [FeedNext]_feedVars
  PROVE  ScreenRuns'
<1>. SUFFICES ASSUME at'["screen"] = "pumping"
              PROVE  running'["screen"] = Heard(said', shown'["screen"])
  <2>1. NoteAll(shown["screen"])' = Heard(said', shown'["screen"])
    BY DEF NoteAll, Heard
  <2>. QED  BY <2>1 DEF ScreenRuns
<1>0. /\ shown["screen"] \in Seq(1 .. Len(said)) /\ Len(said) \in Nat
      /\ DOMAIN running = {"screen", "board"} /\ DOMAIN at = Reader /\ "screen" \in Reader
      /\ DOMAIN shown = Reader
  BY Kinds, Typed DEF FeedTypeOK
<1>1. at["screen"] = "pumping" => running["screen"] = Heard(said, shown["screen"])
  BY HeardIs DEF ScreenRuns
<1>2. ASSUME NEW m \in Emitter, Record(m)
      PROVE  running'["screen"] = Heard(said', shown'["screen"])
  <2>1. /\ UNCHANGED <<at, shown, running>>
        /\ \A n \in 1 .. Len(said) : said'[n] = said[n]
    BY <1>2, RecordIs DEF readVars
  <2>. DEFINE d == said'
  <2>2. Heard(d, shown["screen"]) = Heard(said, shown["screen"])
    <3>. DEFINE ns == shown["screen"]  S == 1 .. Len(said)
    <3>1. ns \in Seq(S) /\ \A n \in S : d[n] = said[n]
      BY <1>0, <2>1
    <3>. HIDE DEF d, S, ns
    <3>2. Heard(d, ns) = Heard(said, ns)
      BY <3>1, HeardStays
    <3>. QED  BY <3>2 DEF ns
  <2>. QED  BY <1>1, <2>1, <2>2
<1>3. ASSUME NEW m \in Emitter, Call(m)
      PROVE  running'["screen"] = Heard(said', shown'["screen"])
  <2>0. PICK c, n : c = Head(emit[m].to) /\ n = emit[m].n
    OBVIOUS
  <2>1. /\ said' = said /\ at' = at
        /\ shown' = shown \/ shown' = [shown EXCEPT !["log"] = Append(@, n)]
        /\ running' = running \/ running' = [running EXCEPT !["board"] = Note(@, said[n])]
    BY <1>3, <2>0, CallIs DEF Called
  <2>2. shown'["screen"] = shown["screen"] /\ running'["screen"] = running["screen"]
    BY <1>0, <2>1
  <2>. QED  BY <1>1, <2>1, <2>2
<1>4. ASSUME NEW d \in Reader, Reads(d)
      PROVE  running'["screen"] = Heard(said', shown'["screen"])
  <2>1. /\ at' = [at EXCEPT ![d] = IF d = "screen" THEN "read" ELSE "pumping"]
        /\ said' = said /\ shown' = shown /\ running' = running
    BY <1>4, ReadsAre DEF busVars
  <2>2. at["screen"] = "pumping"
    BY <1>0, <2>1
  <2>. QED  BY <1>1, <2>1, <2>2
<1>5. CASE ScreenSeeds
  <2>. DEFINE s == Seed(batch["screen"], queue["screen"])
  <2>1. /\ shown' = [shown EXCEPT !["screen"] = s] /\ said' = said
        /\ running' = [running EXCEPT !["screen"] = NoteAll(s)]
    BY <1>5, SeedsAre DEF busVars
  <2>. HIDE DEF s
  <2>. QED  BY <1>0, <2>1, HeardIs
<1>6. CASE PumpSends
  <2>. DEFINE n == Head(batch["screen"])
  <2>1. /\ shown' = [shown EXCEPT !["screen"] = Append(@, n)] /\ said' = said /\ at' = at
        /\ running' = [running EXCEPT !["screen"] = Note(@, said[n])] /\ batch["screen"] # <<>>
    BY <1>6 DEF PumpSends, busVars
  <2>2. n \in 1 .. Len(said) /\ said[n] \in Event
    BY <1>0, <2>1, Typed, Parted
  <2>. HIDE DEF n
  <2>3. Heard(said, Append(shown["screen"], n)) = Note(Heard(said, shown["screen"]), said[n])
    <3>. DEFINE ns == shown["screen"]  S == 1 .. Len(said)
    <3>1. ns \in Seq(S) /\ n \in S
      BY <1>0, <2>2
    <3>. HIDE DEF ns, S
    <3>2. Heard(said, Append(ns, n)) = Note(Heard(said, ns), said[n])
      BY <2>2, <3>1, HeardMore
    <3>. QED  BY <3>2 DEF ns
  <2>4. /\ shown'["screen"] = Append(shown["screen"], n)
        /\ running'["screen"] = Note(running["screen"], said[n])
    BY <1>0, <2>1
  <2>. QED  BY <1>1, <2>1, <2>3, <2>4
<1>7. ASSUME NEW p \in Page, PageWrites(p)
      PROVE  running'["screen"] = Heard(said', shown'["screen"])
  <2>1. p # "screen"
    BY Kinds
  <2>2. /\ UNCHANGED <<said, at, running>>
        /\ \E x : shown' = [shown EXCEPT ![p] = x]
    BY <1>7 DEF PageWrites, busVars
  <2>3. shown'["screen"] = shown["screen"]
    BY <2>1, <2>2, <1>0
  <2>. QED  BY <1>1, <2>2, <2>3
<1>8. CASE ScreenSubscribes \/ ScreenCloses
  BY <1>0, <1>8 DEF ScreenSubscribes, ScreenCloses
<1>9. CASE LogOpens \/ LogStalls \/ Board \/ \E p \in Page : PageSubscribes(p) \/ PageGoes(p)
  <2>1. said' = said /\ shown' = shown
    BY <1>9 DEF LogOpens, LogStalls, Board, BoardReads, BoardSubscribes, PageSubscribes, PageGoes,
       Subscribe, busVars, readVars
  <2>2. running'["screen"] = running["screen"]
    BY <1>0, <1>9 DEF LogOpens, LogStalls, Board, BoardReads, BoardSubscribes, PageSubscribes,
       PageGoes, Subscribe
  <2>3. at'["screen"] = at["screen"]
    BY <1>0, <1>9, Kinds DEF LogOpens, LogStalls, Board, BoardReads, BoardSubscribes,
       PageSubscribes, PageGoes, Subscribe, readVars
  <2>. QED  BY <1>1, <2>1, <2>2, <2>3
<1>10. CASE (\E m \in Emitter : Deliver(m) \/ Return(m)) \/ PumpWakes \/ UNCHANGED feedVars
  BY <1>1, <1>10 DEF Deliver, Return, PumpWakes, readVars, busVars, feedVars
<1>. QED  BY <1>2, <1>3, <1>4, <1>5, <1>6, <1>7, <1>8, <1>9, <1>10, StepsAre DEF Still

LEMMA ListedKept ==
  ASSUME FeedTypeOK, BusOK, OpeningOK, RunningOK, [FeedNext]_feedVars
  PROVE  BoardListed'
<1>0. subs \in Seq(Subscriber) /\ IsInjective(subs) /\ BoardListed /\ "board" \notin Reader
  BY Kinds DEF FeedTypeOK, BusOK, RunningOK
<1>1. Awaited("board")' => Awaited("board") \/ "board" \in Range(subs)
  <2>1. \A m \in Emitter : Call(m) => (Awaited("board")' => Awaited("board"))
    BY CallIs, CallsWay
  <2>. QED  BY <2>1, RecordsWay, OthersWay, StepsAre
<1>2. \A c \in Subscriber : Range(Append(subs, c)) = Range(subs) \cup {c}
  BY <1>0, AppendRange
<1>3. \A i \in DOMAIN subs : Range(RemoveAt(subs, i)) = Range(subs) \ {subs[i]}
  BY <1>0, OneRemoved
<1>4. watch' = watch \/ BoardReads \/ BoardSubscribes
  <2>1. \A m \in Emitter : Record(m) \/ Call(m) => watch' = watch
    BY CallIs, RecordIs DEF Called
  <2>2. (\E r \in Reader : Reads(r)) \/ ScreenSeeds => watch' = watch
    BY ReadsAre, SeedsAre
  <2>3. Still => watch' = watch \/ BoardReads \/ BoardSubscribes
    BY DEF Still, Deliver, Return, ScreenSubscribes, PumpWakes, PumpSends, ScreenCloses, LogOpens,
       LogStalls, Board, PageSubscribes, PageWrites, PageGoes, feedVars
  <2>. QED  BY <2>1, <2>2, <2>3, StepsAre
<1>5. CASE BoardReads
  <2>1. subs' = subs /\ watch = "new" /\ emit' = emit
    BY <1>5 DEF BoardReads, busVars
  <2>2. watch' # "watching"
    BY <1>5 DEF BoardReads
  <2>. QED  BY <1>0, <1>1, <2>1, <2>2 DEF BoardListed
<1>6. CASE BoardSubscribes
  <2>1. subs' = Append(subs, "board") /\ watch' = "watching"
    BY <1>6 DEF BoardSubscribes, Subscribe
  <2>. QED  BY <1>2, <2>1, Kinds DEF BoardListed
<1>7. CASE watch' = watch
  <2>1. "board" \in Range(subs') <=> "board" \in Range(subs)
    <3>1. CASE subs' = subs
      BY <3>1
    <3>2. ASSUME NEW c \in Reader, c \in Subscriber, subs' = Append(subs, c)
          PROVE  "board" \in Range(subs') <=> "board" \in Range(subs)
      BY <1>0, <1>2, <3>2
    <3>3. ASSUME NEW i \in DOMAIN subs, subs[i] \in Reader, subs' = RemoveAt(subs, i)
          PROVE  "board" \in Range(subs') <=> "board" \in Range(subs)
      BY <1>0, <1>3, <3>3
    <3>. QED  BY <1>7, <3>1, <3>2, <3>3, SubsAre
  <2>. QED  BY <1>0, <1>1, <1>7, <2>1 DEF BoardListed
<1>. QED  BY <1>4, <1>5, <1>6, <1>7

LEMMA BoardRunsIs ==
  BoardRuns <=>
    /\ watch = "read" /\ since["board"].read <= Limit =>
         running["board"] = Heard(said, Upto(since["board"].read))
    /\ watch = "watching" /\ since["board"].read = since["board"].sub
         /\ since["board"].read <= Limit => running["board"] = Heard(said, Upto(Told))
BY HeardIs DEF BoardRuns

LEMMA ToldIs ==
  ASSUME FeedTypeOK, BusOK
  PROVE  /\ Told \in 0 .. Len(said) /\ Len(said) \in Nat
         /\ "board" \in Range(emit[Session].to) => emit[Session].n \in 1 .. Len(said)
         /\ \A n \in 1 .. Len(said) :
              emit[Session].step # "idle" /\ n > emit[Session].n => said[n].kind = "other"
<1>1. Session \in Emitter /\ Len(said) \in Nat
  BY FeedAssumption, Typed
<1>2. "board" \in Range(emit[Session].to) => emit[Session].step # "idle"
  <2>1. emit[Session].step = "idle" => emit[Session].to = <<>>
    BY <1>1 DEF BusOK
  <2>2. Range(<<>>) = {}
    BY DEF Range
  <2>. QED  BY <2>1, <2>2
<1>3. "board" \in Range(emit[Session].to) => emit[Session].n \in 1 .. Len(said)
  BY <1>1, <1>2 DEF BusOK
<1>4. ASSUME NEW n \in 1 .. Len(said), emit[Session].step # "idle", n > emit[Session].n
      PROVE  said[n].kind = "other"
  <2>1. said[n].by = Session => n <= emit[Session].n
    BY <1>1, <1>4 DEF BusOK
  <2>2. emit[Session].n \in Nat
    BY <1>1, Typed
  <2>. QED  BY <1>1, <1>4, <2>1, <2>2 DEF BusOK
<1>. QED  BY <1>1, <1>3, <1>4 DEF Told

LEMMA RecordBoard ==
  ASSUME FeedTypeOK, BusOK, RunningOK, NEW m \in Emitter, Record(m)
  PROVE  BoardRuns'
<1>. DEFINE d == said'  k == since["board"].read
<1>1. /\ UNCHANGED <<watch, running, since, subs>> /\ Len(d) = Len(said) + 1 /\ Len(said) \in Nat
      /\ \A i \in 1 .. Len(said) : d[i] = said[i]
      /\ d[Len(said) + 1] \in Says(m)
      /\ emit'[m] = [step |-> "waiting", n |-> Len(said) + 1, to |-> subs]
      /\ \A e \in Emitter : e # m => emit'[e] = emit[e]
      /\ emit[m].step = "idle"
  BY RecordIs DEF readVars
<1>2. k \in 0 .. Len(said) /\ Told \in 0 .. Len(said) /\ Session \in Emitter
  BY Typed, ToldIs, FeedAssumption
<1>3. \A l \in 0 .. Len(said) : Heard(d, Upto(l)) = Heard(said, Upto(l))
  <2>. SUFFICES ASSUME NEW l \in 0 .. Len(said)
                PROVE  Heard(d, Upto(l)) = Heard(said, Upto(l))
    OBVIOUS
  <2>. DEFINE ns == Upto(l)  S == 1 .. Len(said)
  <2>1. ns \in Seq(S) /\ \A n \in S : d[n] = said[n]
    BY <1>1, UptoIs, SMTT(30)
  <2>. HIDE DEF ns, S, d
  <2>2. Heard(d, ns) = Heard(said, ns)
    BY <2>1, HeardStays
  <2>. QED  BY <2>2 DEF ns
<1>4. Heard(d, Upto(Told')) = Heard(said, Upto(Told)) \/ watch # "watching"
  <2>. SUFFICES ASSUME watch = "watching"
                PROVE  Heard(d, Upto(Told')) = Heard(d, Upto(Told))
    BY <1>2, <1>3
  <2>1. CASE m = Session
    <3>1. emit[m].to = <<>> /\ Range(<<>>) = {}
      BY <1>1 DEF BusOK, Range
    <3>2. Told = Len(said)
      BY <2>1, <3>1 DEF Told
    <3>3. emit'[Session].n = Len(said) + 1 /\ emit'[Session].to = subs
      BY <1>1, <2>1
    <3>4. "board" \in Range(subs)
      BY DEF RunningOK, BoardListed
    <3>5. Told' = Len(said)
      BY <1>1, <3>3, <3>4 DEF Told
    <3>. QED  BY <3>2, <3>5
  <2>2. CASE m # Session
    <3>1. emit'[Session] = emit[Session]
      BY <1>1, <1>2, <2>2
    <3>2. CASE "board" \in Range(emit[Session].to)
      BY <3>1, <3>2 DEF Told
    <3>3. CASE "board" \notin Range(emit[Session].to)
      <4>1. Told = Len(said) /\ Told' = Len(said) + 1
        BY <1>1, <3>1, <3>3 DEF Told
      <4>. DEFINE a == Len(said)  z == Len(said) + 1
      <4>2. a \in Nat /\ z \in Nat /\ a <= z /\ \A n \in a + 1 .. z : d[n].kind = "other"
        BY <1>1, <2>2 DEF Says
      <4>. HIDE DEF a, z, d
      <4>3. Heard(d, Upto(z)) = Heard(d, Upto(a))
        BY <4>2, OthersSayNothing
      <4>. QED  BY <4>1, <4>3 DEF a, z
    <3>. QED  BY <3>2, <3>3
  <2>. QED  BY <2>1, <2>2
<1>5. BoardRuns
  BY DEF RunningOK
<1>6. watch = "read" /\ k <= Limit => running["board"] = Heard(d, Upto(k))
  BY <1>2, <1>3, <1>5, BoardRunsIs
<1>7. watch = "watching" /\ k = since["board"].sub /\ k <= Limit
        => running["board"] = Heard(d, Upto(Told'))
  BY <1>4, <1>5, BoardRunsIs
<1>8. /\ NoteAll(Upto(since["board"].read))' = Heard(d, Upto(since'["board"].read))
      /\ NoteAll(Upto(Told))' = Heard(d, Upto(Told'))
  BY DEF NoteAll, Heard, Upto
<1>. QED  BY <1>1, <1>6, <1>7, <1>8 DEF BoardRuns

LEMMA CallBoard ==
  ASSUME FeedTypeOK, BusOK, RunningOK, NEW m \in Emitter, Call(m)
  PROVE  BoardRuns'
<1>0. PICK c, n : c = Head(emit[m].to) /\ n = emit[m].n
  OBVIOUS
<1>1. /\ Called(m, c, n) /\ UNCHANGED <<said, since, watch>> /\ n \in 1 .. Len(said)
      /\ \A e \in Emitter : e # m => emit'[e] = emit[e]
      /\ emit'[m].n = n /\ c \in Range(emit[m].to) /\ emit[m].step = "delivering"
      /\ c = "board" => running' = [running EXCEPT !["board"] = Note(@, said[n])]
      /\ c # "board" => running' = running
  BY <1>0, CallIs DEF Called
<1>2. Range(emit[m].to) = {c} \cup Range(emit'[m].to) /\ c \notin Range(emit'[m].to)
  BY <1>0, <1>1, CallsRest
<1>3. Session \in Emitter /\ "board" \in DOMAIN running /\ said[n] \in Event /\ said[n].by = m
  BY <1>0, <1>1, FeedAssumption, Typed DEF FeedTypeOK, BusOK
<1>4. BoardRuns /\ BoardListed
  BY DEF RunningOK
<1>5. /\ NoteAll(Upto(since["board"].read))' = Heard(said, Upto(since["board"].read))
      /\ NoteAll(Upto(Told))' = Heard(said, Upto(Told'))
  BY <1>1 DEF NoteAll, Heard, Upto
<1>6. CASE c # "board"
  <2>1. Told' = Told
    <3>1. emit'[Session].n = emit[Session].n
      BY <1>0, <1>1, <1>3
    <3>2. "board" \in Range(emit'[Session].to) <=> "board" \in Range(emit[Session].to)
      BY <1>1, <1>2, <1>3, <1>6
    <3>. QED  BY <1>1, <3>1, <3>2 DEF Told
  <2>. QED  BY <1>1, <1>4, <1>5, <1>6, <2>1, BoardRunsIs DEF BoardRuns
<1>7. CASE c = "board"
  <2>1. watch = "watching"
    BY <1>1, <1>4, <1>7 DEF BoardListed, Awaited
  <2>2. running'["board"] = Note(running["board"], said[n])
    BY <1>1, <1>3, <1>7
  <2>3. Heard(said, Upto(Told')) = Note(Heard(said, Upto(Told)), said[n])
    <3>1. CASE m = Session
      <4>1. Told = n - 1 /\ Told' = Len(said)
        BY <1>0, <1>1, <1>2, <1>7, <3>1 DEF Told
      <4>2. n \in Nat /\ n # 0 /\ n - 1 \in Nat /\ Len(said) \in Nat /\ n <= Len(said)
        BY <1>1, ToldIs
      <4>3. Heard(said, Upto(n)) = Note(Heard(said, Upto(n - 1)), said[n])
        <5>. DEFINE ns == Upto(n - 1)  S == 1 .. n
        <5>1. ns \in Seq(S) /\ n \in S /\ Upto(n) = Append(ns, n)
          BY <4>2, UptoIs
        <5>. HIDE DEF ns, S
        <5>2. Heard(said, Append(ns, n)) = Note(Heard(said, ns), said[n])
          BY <1>3, <5>1, HeardMore
        <5>. QED  BY <5>1, <5>2 DEF ns
      <4>4. Heard(said, Upto(Len(said))) = Heard(said, Upto(n))
        <5>. DEFINE l == Len(said)
        <5>1. l \in Nat /\ n \in Nat /\ n <= l /\ \A i \in n + 1 .. l : said[i].kind = "other"
          <6>1. \A i \in n + 1 .. l : i \in 1 .. l /\ i > n
            BY <4>2
          <6>2. \A i \in 1 .. l : i > n => said[i].kind = "other"
            BY <1>0, <1>1, <3>1, ToldIs
          <6>. QED  BY <4>2, <6>1, <6>2
        <5>. HIDE DEF l
        <5>2. Heard(said, Upto(l)) = Heard(said, Upto(n))
          BY <5>1, OthersSayNothing
        <5>. QED  BY <5>2 DEF l
      <4>. QED  BY <4>1, <4>3, <4>4
    <3>2. CASE m # Session
      <4>1. emit'[Session] = emit[Session]
        BY <1>1, <1>3, <3>2
      <4>2. Told' = Told
        BY <1>1, <4>1 DEF Told
      <4>3. said[n].kind = "other"
        BY <1>1, <1>3, <3>2 DEF BusOK
      <4>4. Note(Heard(said, Upto(Told)), said[n]) = Heard(said, Upto(Told))
        BY <4>3 DEF Note
      <4>. QED  BY <4>2, <4>4
    <3>. QED  BY <3>1, <3>2
  <2>. QED  BY <1>1, <1>4, <1>5, <2>1, <2>2, <2>3, BoardRunsIs DEF BoardRuns
<1>. QED  BY <1>6, <1>7

LEMMA OtherBoard ==
  ASSUME FeedTypeOK, BusOK, RunningOK, (\E r \in Reader : Reads(r)) \/ ScreenSeeds \/ Still
  PROVE  BoardRuns'
<1>0. /\ Session \in Emitter /\ DOMAIN running = {"screen", "board"}
      /\ DOMAIN since = Reader \cup {"board"} /\ "board" \notin Reader
      /\ BoardRuns /\ BoardListed /\ DOMAIN emit = Emitter
  BY FeedAssumption, Typed, Kinds DEF FeedTypeOK, RunningOK
<1>1. said' = said
  BY OthersWay
<1>2. Told' = Told
  <2>1. ASSUME NEW m \in Emitter, Deliver(m) \/ Return(m) PROVE Told' = Told
    <3>1. \A d \in Emitter : d # m => emit'[d] = emit[d]
      BY <2>1 DEF Deliver, Return, FeedTypeOK
    <3>2. \/ emit'[m].n = emit[m].n /\ emit'[m].to = emit[m].to
          \/ emit'[m].to = <<>> /\ emit[m].to = <<>>
      BY <2>1 DEF Deliver, Return, FeedTypeOK, Idle
    <3>3. Range(<<>>) = {}
      BY DEF Range
    <3>4. \/ /\ emit'[Session].n = emit[Session].n
             /\ Range(emit'[Session].to) = Range(emit[Session].to)
          \/ Range(emit'[Session].to) = {} /\ Range(emit[Session].to) = {}
      BY <1>0, <3>1, <3>2, <3>3
    <3>. QED  BY <1>1, <3>4 DEF Told
  <2>2. emit' = emit => Told' = Told
    BY <1>1 DEF Told
  <2>3. (\E r \in Reader : Reads(r)) \/ ScreenSeeds => emit' = emit
    BY ReadsAre, SeedsAre DEF busVars
  <2>4. Still /\ ~(\E m \in Emitter : Deliver(m) \/ Return(m)) => emit' = emit
    BY DEF Still, ScreenSubscribes, PumpWakes, PumpSends, ScreenCloses, LogOpens,
           LogStalls, Board, BoardReads, BoardSubscribes, PageSubscribes, PageWrites, PageGoes,
           busVars, feedVars
  <2>. QED  BY <2>1, <2>2, <2>3, <2>4
<1>3. /\ NoteAll(Upto(since["board"].read))' = Heard(said, Upto(since'["board"].read))
      /\ NoteAll(Upto(Told))' = Heard(said, Upto(Told'))
  BY <1>1 DEF NoteAll, Heard, Upto
<1>4. CASE BoardReads
  <2>1. /\ running' = [running EXCEPT !["board"] = NoteAll(Retained)] /\ watch' = "read"
        /\ since' = [since EXCEPT !["board"].read = Len(said)]
    BY <1>4 DEF BoardReads
  <2>2. Len(said) <= Limit => NoteAll(Retained) = Heard(said, Upto(Len(said)))
    BY RetainedIs, HeardIs DEF FeedTypeOK, Upto
  <2>3. running'["board"] = NoteAll(Retained) /\ since'["board"].read = Len(said)
    BY <1>0, <2>1
  <2>. QED  BY <1>3, <2>1, <2>2, <2>3 DEF BoardRuns
<1>5. CASE BoardSubscribes
  <2>1. /\ running' = running /\ watch = "read" /\ watch' = "watching"
        /\ since' = [since EXCEPT !["board"].sub = Len(said)]
    BY <1>5 DEF BoardSubscribes, Subscribe
  <2>2. since'["board"].read = since["board"].read /\ since'["board"].sub = Len(said)
    BY <1>0, <2>1
  <2>3. Told = Len(said)
    BY <1>0, <2>1 DEF Told, BoardListed, Awaited
  <2>. QED  BY <1>0, <1>2, <1>3, <2>1, <2>2, <2>3, BoardRunsIs DEF BoardRuns
<1>6. CASE /\ watch' = watch /\ since'["board"] = since["board"]
           /\ running'["board"] = running["board"]
  BY <1>0, <1>2, <1>3, <1>6, BoardRunsIs DEF BoardRuns
<1>7. ASSUME ~BoardReads, ~BoardSubscribes
      PROVE  /\ watch' = watch /\ since'["board"] = since["board"]
             /\ running'["board"] = running["board"]
  <2>1. ASSUME NEW r \in Reader, Reads(r)
        PROVE  watch' = watch /\ since'["board"] = since["board"] /\ running' = running
    <3>1. /\ since' = [since EXCEPT ![r].read = Len(said)] /\ UNCHANGED <<watch, running>>
      BY <2>1, ReadsAre
    <3>. QED  BY <1>0, <3>1
  <2>2. CASE ScreenSeeds
    <3>1. /\ running' = [running EXCEPT !["screen"] =
                          NoteAll(Seed(batch["screen"], queue["screen"]))]
          /\ UNCHANGED <<watch, since>>
      BY <2>2, SeedsAre
    <3>. QED  BY <1>0, <3>1
  <2>3. CASE PumpSends
    <3>1. /\ running' = [running EXCEPT !["screen"] = Note(@, said[Head(batch["screen"])])]
          /\ UNCHANGED <<watch, since>>
      BY <2>3 DEF PumpSends
    <3>. QED  BY <1>0, <3>1
  <2>4. CASE ScreenSubscribes \/ LogOpens \/ \E p \in Page : PageSubscribes(p)
    <3>1. PICK c \in Reader : since' = [since EXCEPT ![c].sub = Len(said)]
                              /\ UNCHANGED <<watch, running>>
      BY <2>4, Kinds DEF ScreenSubscribes, LogOpens, PageSubscribes, Subscribe
    <3>. QED  BY <1>0, <3>1
  <2>5. CASE \/ \E m \in Emitter : Deliver(m) \/ Return(m)
             \/ PumpWakes \/ ScreenCloses \/ LogStalls
             \/ \E p \in Page : PageWrites(p) \/ PageGoes(p)
             \/ UNCHANGED feedVars
    BY <2>5 DEF Deliver, Return, PumpWakes, ScreenCloses, LogStalls, PageWrites, PageGoes, readVars,
       feedVars
  <2>. QED  BY <1>7, <2>1, <2>2, <2>3, <2>4, <2>5 DEF Still, Board
<1>. QED  BY <1>4, <1>5, <1>6, <1>7

LEMMA RunningKept ==
  ASSUME FeedTypeOK, BusOK, OpeningOK, RunningOK, [FeedNext]_feedVars
  PROVE  RunningOK'
<1>1. BoardRuns'
  BY RecordBoard, CallBoard, OtherBoard, StepsAre
<1>. QED  BY <1>1, ScreenRunsKept, ListedKept DEF RunningOK

-----------------------------------------------------------------------------
(***************************************************************************)
(* At rest, the screen and the board agree with what was said.             *)
(***************************************************************************)
LEMMA ScreenAgrees ==
  ASSUME FeedTypeOK, BusOK, NothingMissed, FollowsOK, ScreenRuns,
         at["screen"] = "pumping", since["screen"].read <= Limit,
         queue["screen"] = <<>>, batch["screen"] = <<>>, OnTheWay("screen") = {}
  PROVE  running["screen"] = Truth
<1>. DEFINE s == shown["screen"]  T == 1 .. Len(said)
<1>1. s \in Seq(T) /\ Len(said) \in Nat /\ "screen" \in Reader
  BY Kinds, Typed
<1>2. Line("screen") = s
  <2>. HIDE DEF s, T
  <2>1. (s \o <<>>) \o <<>> = s
    BY <1>1, Lists
  <2>. QED  BY <2>1 DEF Line, s
<1>3. T \subseteq Range(s)
  <2>1. Owed("screen") \subseteq Has("screen")
    BY <1>1, MissedIs DEF Reading
  <2>2. Dropped("screen") = {}
    BY Kinds DEF Dropped, FeedTypeOK
  <2>3. since["screen"].read \in Nat /\ Limit \in Nat
    BY <1>1, Typed, FeedAssumption
  <2>4. T \subseteq Owed("screen")
    <3>1. \A n \in T : n > since["screen"].read - Limit
      BY <1>1, <2>3
    <3>. QED  BY <3>1 DEF Owed
  <2>. QED  BY <1>2, <2>1, <2>2, <2>4 DEF Has
<1>4. Follow(s, {})
  BY <1>2, FollowIs DEF Reading
<1>5. \A n \in T : said[n].kind \in {"started", "stopped"} => said[n].by = Session
  BY DEF BusOK
<1>6. running["screen"] = Heard(said, s)
  BY HeardIs DEF ScreenRuns
<1>. HIDE DEF s
<1>7. Len(s) \in Nat /\ DOMAIN s = 1 .. Len(s) /\ \A i \in DOMAIN s : s[i] \in T
  BY <1>1, LenProperties, ElementOfSeq
<1>8. Truth =
        {x \in Service : \E a \in T :
           /\ said[a].kind = "started" /\ x \in said[a].of
           /\ \A b \in T : b > a => ~(said[b].kind = "stopped" /\ x \in said[b].of)}
  BY DEF Truth, NoteAll
<1>9. ASSUME NEW x \in Heard(said, s) PROVE x \in Truth
  <2>1. PICK i \in DOMAIN s :
          /\ said[s[i]].kind = "started" /\ x \in said[s[i]].of
          /\ \A j \in DOMAIN s : j > i => ~(said[s[j]].kind = "stopped" /\ x \in said[s[j]].of)
    BY DEF Heard
  <2>2. ASSUME NEW b \in T, b > s[i], said[b].kind = "stopped", x \in said[b].of PROVE FALSE
    <3>1. s[i] < b
      BY <1>1, <1>7, <2>2
    <3>2. \E j \in DOMAIN s : j > i /\ s[j] = b
      BY <1>4, <1>5, <1>7, <2>1, <2>2, <3>1 DEF Follow
    <3>. QED  BY <2>1, <2>2, <3>2
  <2>3. s[i] \in T /\ x \in Service
    BY <1>7 DEF Heard
  <2>. QED  BY <1>8, <2>1, <2>2, <2>3
<1>10. ASSUME NEW x \in Truth PROVE x \in Heard(said, s)
  <2>1. PICK a \in T :
          /\ said[a].kind = "started" /\ x \in said[a].of /\ x \in Service
          /\ \A b \in T : b > a => ~(said[b].kind = "stopped" /\ x \in said[b].of)
    BY <1>8
  <2>. DEFINE D == {i \in DOMAIN s : s[i] = a}
  <2>2. D \in SUBSET (0 .. Len(s)) /\ D # {}
    <3>1. \E i \in DOMAIN s : s[i] = a
      BY <1>3 DEF Range
    <3>. QED  BY <1>7, <3>1
  <2>3. PICK i \in D : \A j \in D : j <= i
    <3>. HIDE DEF D
    <3>. QED  BY <1>7, <2>2, GreatestNat
  <2>4. ASSUME NEW j \in DOMAIN s, j > i, said[s[j]].kind = "stopped", x \in said[s[j]].of
        PROVE  FALSE
    <3>1. s[j] \in T /\ s[j] # a /\ ~(s[j] > a)
      BY <1>7, <2>1, <2>4
    <3>2. s[j] < a
      BY <1>1, <3>1
    <3>3. PICK k \in DOMAIN s : k > j /\ s[k] = a
      BY <1>4, <1>5, <2>1, <2>4, <3>1, <3>2 DEF Follow
    <3>4. k <= i
      BY <2>3, <3>3
    <3>. QED  BY <1>7, <2>3, <2>4, <3>3, <3>4
  <2>. QED  BY <2>1, <2>3, <2>4 DEF Heard
<1>. QED  BY <1>6, <1>9, <1>10

LEMMA BoardAgrees ==
  ASSUME FeedTypeOK, BusOK, BoardRuns,
         watch = "watching", since["board"].read = since["board"].sub,
         since["board"].read <= Limit, OnTheWay("board") = {}
  PROVE  running["board"] = Truth
<1>1. "board" \notin Range(emit[Session].to)
  BY ToldIs, FeedAssumption DEF OnTheWay
<1>2. Told = Len(said)
  BY <1>1 DEF Told
<1>. QED  BY <1>2 DEF BoardRuns, Truth, Upto

LEMMA FeedStarts ==
  FeedInit => FeedInv
<1>. SUFFICES ASSUME FeedInit PROVE FeedInv
  OBVIOUS
<1>1. /\ said = <<>> /\ subs = <<>> /\ emit = [m \in Emitter |-> Idle]
      /\ at = [r \in Reader |-> "shut"] /\ queue = [r \in Reader |-> <<>>]
      /\ batch = [r \in Reader |-> <<>>] /\ shown = [r \in Reader |-> <<>>]
      /\ wake = FALSE /\ stuck = FALSE /\ dropped = {} /\ watch = "new"
      /\ running = [v \in {"screen", "board"} |-> {}]
      /\ since = [r \in Reader \cup {"board"} |-> [sub |-> 0, read |-> 0]]
  BY DEF FeedInit
<1>2. Len(said) = 0 /\ 1 .. Len(said) = {} /\ 0 \in 0 .. Len(said)
  BY <1>1
<1>3. \A m \in Emitter : emit[m].step = "idle" /\ emit[m].n = 0 /\ emit[m].to = <<>>
  BY <1>1 DEF Idle
<1>4. \A r \in Reader : /\ at[r] = "shut" /\ queue[r] = <<>> /\ batch[r] = <<>> /\ shown[r] = <<>>
                        /\ since[r].read = 0 /\ since[r].sub = 0
  BY <1>1
<1>5. Range(<<>>) = {} /\ IsInjective(<<>>)
  BY DEF Range, IsInjective
<1>6. \A c : OnTheWay(c) = {} /\ ~Awaited(c)
  BY <1>2, <1>3, <1>5 DEF OnTheWay, Awaited
<1>7. FeedTypeOK
  <2>1. <<>> \in Seq(1 .. Len(said)) /\ subs \in Seq(Subscriber) /\ said \in Seq(Event)
    BY <1>1
  <2>2. {queue, batch, shown} \subseteq [Reader -> Seq(1 .. Len(said))]
    <3>. DEFINE S == Seq(1 .. Len(said))
    <3>1. <<>> \in S
      BY <2>1
    <3>. HIDE DEF S
    <3>. QED  BY <1>1, <3>1 DEF S
  <2>3. emit \in [Emitter -> [step : {"idle", "waiting", "delivering"}, n : 0 .. Len(said),
                              to : Seq(Subscriber)]]
    BY <1>1, <1>2, <2>1 DEF Idle
  <2>4. since \in [Reader \cup {"board"} -> [sub : 0 .. Len(said), read : 0 .. Len(said)]]
    BY <1>1, <1>2
  <2>. QED  BY <1>1, <2>1, <2>2, <2>3, <2>4 DEF FeedTypeOK
<1>8. BusOK
  BY <1>1, <1>2, <1>3, <1>5 DEF BusOK
<1>9. OpeningOK
  <2>1. ASSUME NEW r \in Reader PROVE OpenOK(r)
    BY <1>1, <1>4, <1>5, <1>6 DEF OpenOK, Reading
  <2>. QED  BY <1>4, <2>1, Kinds, OpenIs
<1>10. \A r \in Reader : ~Reading(r) /\ DOMAIN Line(r) = {}
  <2>. SUFFICES ASSUME NEW r \in Reader PROVE ~Reading(r) /\ DOMAIN Line(r) = {}
    OBVIOUS
  <2>1. Line(r) = <<>>
    BY <1>4 DEF Line
  <2>. QED  BY <1>4, <2>1 DEF Reading
<1>11. NothingMissed /\ RepeatsOK /\ FollowsOK
  BY <1>10, Kinds DEF NothingMissed, RepeatsOK, FollowsOK
<1>12. RunningOK
  BY <1>1, <1>4, <1>5, <1>6, Kinds DEF RunningOK, ScreenRuns, BoardListed, BoardRuns
<1>. QED  BY <1>7, <1>8, <1>9, <1>11, <1>12 DEF FeedInv

LEMMA FeedKept ==
  FeedInv /\ [FeedNext]_feedVars => FeedInv'
BY TypesKept, BusKept, OpeningKept, MissedKept, RepeatsKept, FollowsKept, RunningKept DEF FeedInv

LEMMA FeedHolds ==
  FeedInv => FeedOK
BY RepeatsShown, ScreenAgrees, BoardAgrees DEF FeedInv, FeedOK, ServicesAgree, RunningOK

\* The readers of the bus keep their promises, however emitters, readers and the
\* delivery lock interleave (event.Bus, forwardEvents, handleEvents, watchServices):
\* no reader misses an event between its history and its subscription, a line
\* stands twice only if it was said while its reader was opening, and at rest the
\* Services tab and the board take as running what the session said is running.
THEOREM FeedIsOK == FeedSpec => []FeedOK
<1>1. FeedInit => FeedInv
  BY FeedStarts
<1>2. FeedInv /\ [FeedNext]_feedVars => FeedInv'
  BY FeedKept
<1>3. FeedInv => FeedOK
  BY FeedHolds
<1>. QED  BY <1>1, <1>2, <1>3, PTL DEF FeedSpec

=============================================================================
