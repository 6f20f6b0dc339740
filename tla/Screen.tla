------------------------------- MODULE Screen -------------------------------
(***************************************************************************)
(* internal/tui: the interface as a state machine of keys, clicks, ticks   *)
(* and messages (model.go), the table of tunnels it acts on (tunnels.go),  *)
(* the command palette (palette.go) and the two questions other goroutines *)
(* put into it (prompter.go).                                              *)
(*                                                                         *)
(* The rows on screen are a copy taken by the last reload; the manager's   *)
(* table goes on changing, and the next reload may bring any other. Boxes  *)
(* stack: which one takes a key (Keys) and which one is drawn (Drawn) are  *)
(* decided in two places. A question and its withdrawal are sent by two    *)
(* goroutines, in either order.                                            *)
(* What a row holds, sorting, searching and the other tabs' lists are left *)
(* out: a reload may bring the table back in any order.                    *)
(***************************************************************************)
EXTENDS Integers, Sequences, FiniteSets, Functions, SequencesExt

CONSTANTS
  Port,          \* remote ports the table may show
  Question       \* approvals asked, each once; several services may ask at once

None == "none"

ASSUME ScreenAssumption ==
  /\ Port # {} /\ IsFiniteSet(Port)
  /\ None \notin Port \cup Question /\ "rc" \notin Question

Tables == {s \in UNION {[1..n -> Port] : n \in 0..Cardinality(Port)} : IsInjective(s)}
Box == {"help", "detail", "chooser", "confirm"}

VARIABLES
  rows, cur,     \* the rows on screen; the highlighted one, 0 for none
  tab,           \* the tab in front
  editor, target,\* the inline editor, and the port it was opened for
  box,           \* overlays that are open
  palette,       \* whether the command palette is
  offline,       \* whether the connection-lost box is
  approval,      \* the question on screen
  setup,         \* whether the shell-rc question is
  phase,         \* running, falling (the closing animation), gone
  mail,          \* messages sent into the program and not yet handled
  ask,           \* ask[q]: where Ask is with q
  rc,            \* where AskSetup is
  chosen,        \* history: the port the user highlighted last
  effect         \* history: what the last step did to a port

viewVars == <<rows, cur, tab, editor, target, box, palette, offline>>
askVars == <<approval, setup, mail, ask, rc>>
screenVars == <<viewVars, askVars, phase, chosen, effect>>

Nothing == [kind |-> None, port |-> None, by |-> None]

ScreenTypeOK ==
  /\ rows \in Tables /\ cur \in 0..Len(rows)
  /\ tab \in {"tunnels", "other"}
  /\ editor \in {None, "search", "port", "command"} /\ target \in Port \cup {None}
  /\ box \subseteq Box /\ palette \in BOOLEAN /\ offline \in BOOLEAN
  /\ approval \in Question \cup {None} /\ setup \in BOOLEAN
  /\ phase \in {"running", "falling", "gone"}
  /\ mail \subseteq ({"show", "cancel"} \X Question) \cup ({"show", "cancel"} \X {"rc"})
  /\ ask \in [Question -> {"new", "waiting", "allow", "deny"}]
  /\ rc \in {"new", "waiting", "yes", "no"}
  /\ chosen \in Port \cup {None}

ScreenInit ==
  /\ rows \in Tables /\ cur = 0 /\ tab = "other"
  /\ editor = None /\ target = None /\ box = {} /\ palette = FALSE /\ offline = FALSE
  /\ approval = None /\ setup = FALSE /\ phase = "running" /\ mail = {}
  /\ ask = [q \in Question |-> "new"] /\ rc = "new"
  /\ chosen = None /\ effect = Nothing

-----------------------------------------------------------------------------
(***************************************************************************)
(* Selection and reload.                                                   *)
(***************************************************************************)
Selected == IF cur = 0 THEN None ELSE rows[cur]

\* As if the highlight stayed on its line of the screen.
ReselectLine(t, p) == IF cur > Len(t) THEN Len(t) ELSE cur

\* reloadTunnels: the cursor follows its port p, and is dropped with it.
Reselect(t, p) == IF \E i \in DOMAIN t : t[i] = p THEN CHOOSE i \in DOMAIN t : t[i] = p ELSE 0
Reload(t, p) == rows' = t /\ cur' = Reselect(t, p)

\* Ports have come, gone or changed, or an order has: any table comes back.
ReloadAny(p) == \E t \in Tables : Reload(t, p)

Quiet == effect' = Nothing
Does(kind, p, by) == effect' = [kind |-> kind, port |-> p, by |-> by]

-----------------------------------------------------------------------------
\* refreshMsg: the session's state and every list. The falling screen is not.
Refresh ==
  /\ phase = "running" /\ Quiet
  /\ offline' \in BOOLEAN /\ ReloadAny(Selected)
  /\ UNCHANGED <<tab, editor, target, box, palette, askVars, phase, chosen>>

-----------------------------------------------------------------------------
(***************************************************************************)
(* The questions (prompter.go). Ask and AskSetup run on goroutines of      *)
(* their own; each message they send travels on one more.                  *)
(***************************************************************************)
Ask(q) ==
  /\ ask[q] = "new"
  /\ IF phase = "gone"
     THEN ask' = [ask EXCEPT ![q] = "deny"] /\ UNCHANGED mail
     ELSE ask' = [ask EXCEPT ![q] = "waiting"] /\ mail' = mail \cup {<<"show", q>>}
  /\ Quiet /\ UNCHANGED <<viewVars, approval, setup, rc, phase, chosen>>

\* The prompt timeout, or the client hung up: the modal is withdrawn.
GivesUp(q) ==
  /\ ask[q] = "waiting"
  /\ ask' = [ask EXCEPT ![q] = "deny"]
  /\ mail' = IF phase = "gone" THEN mail ELSE mail \cup {<<"cancel", q>>}
  /\ Quiet /\ UNCHANGED <<viewVars, approval, setup, rc, phase, chosen>>

AskSetup ==
  /\ rc = "new"
  /\ IF phase = "gone" THEN rc' = "no" /\ UNCHANGED mail
     ELSE rc' = "waiting" /\ mail' = mail \cup {<<"show", "rc">>}
  /\ Quiet /\ UNCHANGED <<viewVars, approval, setup, ask, phase, chosen>>

SetupGivesUp ==
  /\ rc = "waiting" /\ rc' = "no"
  /\ mail' = IF phase = "gone" THEN mail ELSE mail \cup {<<"cancel", "rc">>}
  /\ Quiet /\ UNCHANGED <<viewVars, approval, setup, ask, phase, chosen>>

Takes(m) == phase # "gone" /\ m \in mail /\ mail' = mail \ {m} /\ Quiet

\* The reply channel has room for one: answering never waits. An answer that
\* meets an asker who has gone stays in it.
Reply(q, answer) == ask' = IF ask[q] = "waiting" THEN [ask EXCEPT ![q] = answer] ELSE ask

\* openApproval: one question at a time; boxes and the editor make way, the
\* palette does not.
OpenApproval(q) ==
  /\ Takes(<<"show", q>>)
  /\ IF approval # None
     THEN Reply(q, "deny") /\ UNCHANGED <<approval, box, editor, target>>
     ELSE /\ approval' = q /\ box' = {} /\ editor' = None /\ target' = None
          /\ UNCHANGED ask
  /\ UNCHANGED <<rows, cur, tab, palette, offline, setup, rc, phase, chosen>>

\* As if any withdrawal closed whatever question was open.
WithdrawsAny(q) == None
\* dismissApproval: only the modal of this very question.
Withdraws(q) == IF approval = q THEN None ELSE approval

DismissApproval(q) ==
  /\ Takes(<<"cancel", q>>) /\ approval' = Withdraws(q)
  /\ UNCHANGED <<viewVars, setup, ask, rc, phase, chosen>>

OpenSetup ==
  /\ Takes(<<"show", "rc">>) /\ setup' = TRUE
  /\ UNCHANGED <<viewVars, approval, ask, rc, phase, chosen>>

DismissSetup ==
  /\ Takes(<<"cancel", "rc">>) /\ setup' = FALSE
  /\ UNCHANGED <<viewVars, approval, ask, rc, phase, chosen>>

-----------------------------------------------------------------------------
(***************************************************************************)
(* Who takes a key (handleKey), and what is drawn on top (frame).          *)
(***************************************************************************)
Keys ==
  CASE approval # None -> "approval"
    [] approval = None /\ setup -> "setup"
    [] approval = None /\ ~setup /\ "confirm" \in box -> "confirm"
    [] approval = None /\ ~setup /\ "confirm" \notin box /\ palette -> "palette"
    [] approval = None /\ ~setup /\ "confirm" \notin box /\ ~palette /\ editor # None -> "editor"
    [] OTHER -> IF "chooser" \in box THEN "chooser" ELSE "tab"

Drawn ==
  CASE approval # None -> "approval"
    [] approval = None /\ palette -> "palette"
    [] approval = None /\ ~palette /\ setup -> "setup"
    [] OTHER -> IF "confirm" \in box THEN "confirm" ELSE "tab"

Key(where) == phase = "running" /\ Keys = where

AnswerApproval(answer) ==
  /\ Key("approval") /\ Reply(approval, answer) /\ approval' = None /\ Quiet
  /\ UNCHANGED <<viewVars, setup, mail, rc, phase, chosen>>

AnswerSetup(answer) ==
  /\ Key("setup") /\ setup' = FALSE /\ Quiet
  /\ rc' = IF rc = "waiting" THEN answer ELSE rc
  /\ UNCHANGED <<viewVars, approval, mail, ask, phase, chosen>>

AnswerConfirm(yes) ==
  /\ Key("confirm") /\ box' = box \ {"confirm"} /\ Quiet
  /\ phase' = IF yes THEN "falling" ELSE "running"
  /\ UNCHANGED <<rows, cur, tab, editor, target, palette, offline, askVars, chosen>>

\* The animation ends or a key skips it; Ctrl-C, or the session fails for good.
\* What was sent and not read is dropped, and Detach refuses what is asked next.
Leave ==
  /\ phase # "gone"
  /\ phase' = "gone" /\ mail' = {} /\ Quiet
  /\ UNCHANGED <<viewVars, approval, setup, ask, rc, chosen>>

-----------------------------------------------------------------------------
(***************************************************************************)
(* The actions a port has (tunnels.go), reached by a key of the tab, by    *)
(* the palette, or by a click. b is what is left of the boxes by then, and *)
(* no editor is open; with nothing highlighted they only say so.           *)
(***************************************************************************)
NoEditor == editor' = None /\ target' = None

\* hideSelected, cycleMode, cycleScheme.
Decide(p, b, by) ==
  /\ p # None /\ ReloadAny(p) /\ Does("decide", p, by)
  /\ NoEditor /\ box' = b

\* openSelected: a port whose protocol is not known asks for it first.
OpenPort(p, b, by) ==
  /\ p # None
  /\ \/ Does("open", p, by) /\ box' = b
     \/ Quiet /\ box' = b \cup {"chooser"}
  /\ NoEditor

\* openLocalPort, openLabel.
OpenEditor(b) ==
  /\ Selected # None /\ editor' = "port" /\ target' = Selected
  /\ box' = b /\ Quiet /\ UNCHANGED <<rows, cur>>

ToggleDetail(b) ==
  /\ Selected # None
  /\ box' = IF "detail" \in b THEN b \ {"detail"} ELSE b \cup {"detail"}
  /\ NoEditor /\ Quiet /\ UNCHANGED <<rows, cur>>

\* s, r and H: sorted, reversed, with the hidden or without.
Rearrange(b) == ReloadAny(Selected) /\ NoEditor /\ box' = b /\ Quiet

PortKey(b, by) ==
  \/ Decide(Selected, b, by)
  \/ OpenPort(Selected, b, by) /\ UNCHANGED <<rows, cur>>
  \/ OpenEditor(b)
  \/ ToggleDetail(b)
  \/ Rearrange(b)

BoxesAt(t) == IF t = tab THEN box ELSE box \ {"detail"}

-----------------------------------------------------------------------------
(***************************************************************************)
(* Keys.                                                                   *)
(***************************************************************************)
TunnelsKey ==
  /\ Key("tab") /\ tab = "tunnels" /\ PortKey(box, "tab")
  /\ UNCHANGED <<tab, palette, offline, askVars, phase, chosen>>

\* The user moves the highlight to line i of what is on screen.
Highlight(i) == cur' = i /\ chosen' = rows[i]

Move ==
  /\ Key("tab") /\ tab = "tunnels" /\ \E i \in DOMAIN rows : Highlight(i)
  /\ Quiet /\ UNCHANGED <<rows, tab, editor, target, box, palette, offline>>
  /\ UNCHANGED <<askVars, phase>>

SelectTab ==
  /\ \E t \in {"tunnels", "other"} : tab' = t /\ box' = BoxesAt(t)
  /\ NoEditor /\ Quiet
  /\ UNCHANGED <<rows, cur, palette, offline, askVars, phase, chosen>>

ChangeTab == Key("tab") /\ SelectTab

\* The closing keys of help and detail.
CloseBox ==
  /\ Key("tab") /\ \E b \in {"help", "detail"} : b \in box /\ box' = box \ {b}
  /\ Quiet /\ UNCHANGED <<rows, cur, tab, editor, target, palette, offline>>
  /\ UNCHANGED <<askVars, phase, chosen>>

\* What works on every tab: help, the way out, the palette, a search. q and esc
\* close help or detail first.
OpenHelp == box' = box \cup {"help"} /\ UNCHANGED editor
OpenConfirm == box' = box \cup {"confirm"} /\ UNCHANGED editor
OpenSearch == editor' = "search" /\ UNCHANGED box

GlobalKey ==
  /\ Key("tab")
  /\ \/ OpenHelp /\ UNCHANGED palette
     \/ {"help", "detail"} \cap box = {} /\ OpenConfirm /\ UNCHANGED palette
     \/ OpenSearch /\ UNCHANGED palette
     \/ editor' = "command" /\ palette' = TRUE /\ UNCHANGED box
  /\ Quiet /\ UNCHANGED <<rows, cur, tab, target, offline, askVars, phase, chosen>>

\* A key typed into the search: the rows it leaves, and no highlight.
TypeSearch ==
  /\ Key("editor") /\ editor = "search" /\ tab = "tunnels"
  /\ rows' \in Tables
  /\ cur' = 0 /\ chosen' = None /\ Quiet
  /\ UNCHANGED <<tab, editor, target, box, palette, offline, askVars, phase>>

\* applyLabel, applyLocalPort, by enter or by a click outside: to the port the
\* editor was opened for. A pin that is not a number is not applied.
Commit ==
  /\ NoEditor
  /\ \/ editor = "port" /\ ReloadAny(Selected) /\ Does("edit", target, "editor")
     \/ Quiet /\ UNCHANGED <<rows, cur>>
  /\ UNCHANGED <<tab, box, palette, offline, askVars, phase, chosen>>

EditorEnter == Key("editor") /\ Commit

EditorEsc ==
  /\ Key("editor") /\ NoEditor /\ Quiet
  /\ IF editor = "search" THEN ReloadAny(Selected) ELSE UNCHANGED <<rows, cur>>
  /\ UNCHANGED <<tab, box, palette, offline, askVars, phase, chosen>>

\* chooseProtocol: remembered, reloaded, and opened if it is still there; or
\* the chooser is dismissed.
Choose ==
  /\ box' = box \ {"chooser"}
  /\ \/ Selected # None /\ ReloadAny(Selected) /\ Does("scheme", Selected, "chooser")
     \/ Quiet /\ UNCHANGED <<rows, cur>>
  /\ UNCHANGED <<tab, editor, target, palette, offline, askVars, phase, chosen>>

ChooserKey == Key("chooser") /\ Choose

PaletteEsc ==
  /\ Key("palette") /\ palette' = FALSE /\ NoEditor /\ Quiet
  /\ UNCHANGED <<rows, cur, tab, box, offline, askVars, phase, chosen>>

\* runPaletteChoice: it closes, the action's tab comes to the front, and the
\* action runs as its key would there.
PaletteRun ==
  /\ Key("palette") /\ palette' = FALSE
  /\ \/ tab' = "tunnels" /\ PortKey(BoxesAt("tunnels"), "palette")
     \/ /\ tab' = "other" /\ box' = BoxesAt("other")
        /\ NoEditor /\ Quiet /\ UNCHANGED <<rows, cur>>
     \/ /\ \/ OpenSearch
           \/ box' \in {box \cup {"help"}, box \cup {"confirm"}} /\ editor' = None
        /\ target' = None /\ Quiet /\ UNCHANGED <<rows, cur, tab>>
  /\ UNCHANGED <<offline, askVars, phase, chosen>>

-----------------------------------------------------------------------------
(***************************************************************************)
(* Clicks (handleClick), in the order it asks.                             *)
(***************************************************************************)
\* As it was before the connection-lost box was thought of.
SwallowsLess == approval # None \/ setup
Swallows == approval # None \/ setup \/ offline

Click(open) == phase = "running" /\ ~Swallows /\ open

ClickChooser == Click("chooser" \in box) /\ Choose

ClickAway ==
  /\ Click("chooser" \notin box /\ {"help", "detail"} \cap box # {})
  /\ box' = box \ {"help", "detail"} /\ Quiet
  /\ UNCHANGED <<rows, cur, tab, editor, target, palette, offline, askVars>>
  /\ UNCHANGED <<phase, chosen>>

\* A click outside an open editor commits it; of the palette, which borrows the
\* editor, only the editor closes.
ClickCommits == Click(box = {} /\ editor # None) /\ Commit

Bare == Click(box = {} /\ editor = None)

ClickTab == Bare /\ SelectTab

\* The key bar's esc.
ClickEsc ==
  /\ Bare /\ OpenConfirm /\ Quiet
  /\ UNCHANGED <<rows, cur, tab, target, palette, offline, askVars, phase, chosen>>

\* A row is highlighted; its M and VIA cells decide; a second click opens.
ClickRow ==
  /\ Bare /\ tab = "tunnels"
  /\ \E i \in DOMAIN rows :
       /\ chosen' = rows[i]
       /\ \/ cur' = i /\ Quiet /\ UNCHANGED <<rows, box, editor, target>>
          \/ Decide(rows[i], box, "click")
          \/ OpenPort(rows[i], box, "click") /\ cur' = i /\ UNCHANGED rows
  /\ UNCHANGED <<tab, palette, offline, askVars, phase>>

-----------------------------------------------------------------------------
Asking ==
  \/ \E q \in Question : Ask(q) \/ GivesUp(q) \/ OpenApproval(q) \/ DismissApproval(q)
  \/ AskSetup \/ SetupGivesUp \/ OpenSetup \/ DismissSetup

Answering ==
  \/ \E a \in {"allow", "deny"} : AnswerApproval(a)
  \/ \E a \in {"yes", "no"} : AnswerSetup(a)
  \/ \E yes \in BOOLEAN : AnswerConfirm(yes)

Typing ==
  \/ TunnelsKey \/ Move \/ ChangeTab \/ CloseBox \/ GlobalKey \/ TypeSearch
  \/ EditorEnter \/ EditorEsc \/ ChooserKey \/ PaletteEsc \/ PaletteRun

Clicking == ClickChooser \/ ClickAway \/ ClickCommits \/ ClickTab \/ ClickEsc \/ ClickRow

ScreenNext == Refresh \/ Asking \/ Answering \/ Typing \/ Clicking \/ Leave

ScreenSpec == ScreenInit /\ [][ScreenNext]_screenVars

-----------------------------------------------------------------------------
(***************************************************************************)
(* Properties.                                                             *)
(***************************************************************************)
\* Whatever the table does between a keystroke and the next, the highlight is
\* on the port the user put it on, or gone with it: reloadTunnels.
HighlightIsChosen == Selected \in {chosen, None}

\* Hiding, renaming, pinning, choosing a protocol, opening: it happens to the
\* port the user picked, although the rows are copies and the editor outlives
\* several reloads.
EffectsAreChosen == effect # Nothing => effect.port = chosen

ScreenOK == ScreenTypeOK /\ HighlightIsChosen /\ EffectsAreChosen

\* overlayOpen: a modal layer covers the body.
OverlayOpen ==
  approval # None \/ setup \/ box # {} \/ editor # None \/ offline \/ palette

\* Nothing is done to a port while a question waits; behind the way out only by
\* a click in the chooser; an editor or the chooser does its own work and no
\* other; a click does nothing through the connection-lost box, another box or
\* an editor. Not held back, and not said here: keys behind the connection-lost
\* box, help and the detail, and clicks beneath the palette (the two claims at
\* the end of this module).
BoxHolds ==
  effect' # Nothing =>
    /\ approval = None /\ ~setup
    /\ effect'.by # "chooser" => "confirm" \notin box
    /\ editor = "port" /\ "chooser" \notin box => effect'.kind = "edit" /\ effect'.port = target
    /\ "chooser" \in box /\ editor = None /\ ~palette => effect'.kind = "scheme"
    /\ effect'.by = "click" => ~offline /\ box = {} /\ editor = None

\* The questions, the way out, the editor and the chooser stay in charge of
\* what happens to a port until they are dealt with.
BoxesHold == [][BoxHolds]_screenVars

\* A question somebody still waits on leaves the screen only with an answer,
\* however late an earlier question's withdrawal arrives.
QuestionStands ==
  \A q \in Question :
    approval = q /\ ask[q] = "waiting" /\ approval' # q => ask'[q] # "waiting"

\* The modal closed is the modal asked for: dismissApproval.
QuestionsStand == [][QuestionStands]_screenVars

\* "A second request cannot arrive while one is showing" (prompter.go,
\* openApproval): the prompters of several services share the one modal, and
\* each service serialises its own questions only.
SecondNeverArrives ==
  [][\A q \in Question :
       <<"show", q>> \in mail \ mail' /\ phase' # "gone" => approval = None]_screenVars

\* "anything other than a deliberate yes is a no" (prompter.go, AskSetup): the
\* yes that edits the remote shell is given to a question that is on screen.
YesWasSeen == [][rc = "waiting" /\ rc' = "yes" => Drawn = "setup"]_screenVars

\* The connection-lost box was "the one overlay you could act straight through
\* ... x still hid a port" (model.go, overlayOpen), and "cannot be acted
\* through" now (model_test.go): a key of the tab still passes handleOfflineKey.
ReconnectBoxHolds ==
  [][offline /\ effect' # Nothing => effect'.by \notin {"tab", "click"}]_screenVars

\* "An open overlay swallows the click" (model.go, handleClick): beneath the
\* palette the first click closes the editor it borrows, the next reaches the row.
OverlaySwallowsClicks == [][effect' # Nothing /\ effect'.by = "click" => ~OverlayOpen]_screenVars
=============================================================================
