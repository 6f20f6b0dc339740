-------------------------------- MODULE Desk --------------------------------
(***************************************************************************)
(* The desk of internal/approval: one question put to every surface at     *)
(* once, the first answer winning. Behind it are the surfaces: the modal   *)
(* of the interface (internal/tui), which messages reach on goroutines of  *)
(* their own, the desktop dialog (internal/prompt), which draws one        *)
(* question at a time, and the board (internal/web), which is not asked    *)
(* but reads the waiting list and answers by id.                           *)
(*                                                                         *)
(* A step is what one goroutine does between two points where another can  *)
(* run: under Desk.mu, inside a sync.Once, at a channel, in the event loop *)
(* of the interface.                                                       *)
(*                                                                         *)
(* A question's id is the question itself. The path taken when no random   *)
(* id can be minted is left out: crypto/rand does not fail.                *)
(*                                                                         *)
(* An operator whose comment begins "Mutation:" is the definition after it *)
(* with one plausible slip, there to show that a property notices it.      *)
(***************************************************************************)
EXTENDS FiniteSets

CONSTANTS
  Request,       \* the questions asked in a behaviour, each once
  Gate,          \* Gate[r]: the service that asks r
  Choice,        \* the answers on the menu
  Deny,          \* "no"
  Unoffered,     \* an answer the board may send that no menu lists
  Nothing,       \* an empty channel
  Nobody,        \* no question
  Settings,      \* the [publish, asking] pairs Fill may be called with
  Tab            \* bound: the board has one answer in flight per tab

Surface == {"modal", "dialog"}
Yes == Choice \ {Deny}

ASSUME AnswersAreDistinct ==
  /\ Deny \in Choice
  /\ Nothing \notin Choice /\ Unoffered \notin Choice
  /\ Nobody \notin Request

ASSUME SettingsAreSettings ==
  Settings \subseteq [publish : BOOLEAN, asking : SUBSET Surface] /\ Settings # {}

VARIABLES
  setting,       \* desk.publish and desk.asking
  attached,      \* whether the interface's program is running
  pc,            \* pc[r]: where Ask(r) is
  over,          \* the questions whose context has ended
  waiting,       \* the questions in desk.waiting
  answer,        \* answer[r]: the buffered channel of r's pending entry
  choice,        \* choice[r]: what Ask(r) returns
  surface,       \* surface[r][x]: what the goroutine asking x about r is doing
  modal,         \* the question on screen (Model.approval)
  sends,         \* messages on their way to the program: <<"show" or "hide", r>>
  reply,         \* reply[r]: the buffered channel the modal answers on
  dialog,        \* the question holding the dialog's Serialize lock
  clicks,        \* answers of the board that found their id, not yet delivered
  told,          \* the clicks the board reported as accepted
  said           \* said[r]: the answers other than "no" people gave r (history)

askVars == <<pc, over, waiting, answer, choice>>
modalVars == <<attached, modal, sends, reply>>
boardVars == <<clicks, told>>
deskVars == <<setting, askVars, surface, modalVars, dialog, boardVars, said>>

Click == [tab : Tab, request : Request, choice : Choice \cup {Unoffered}]

DeskTypeOK ==
  /\ setting \in Settings
  /\ attached \in BOOLEAN
  /\ pc \in [Request -> {"idle", "published", "asked", "leaving", "done"}]
  /\ over \subseteq Request /\ waiting \subseteq Request
  /\ answer \in [Request -> Choice \cup {Nothing}]
  /\ choice \in [Request -> Choice \cup {Nothing}]
  /\ surface \in [Request -> [Surface -> {"off", "starting", "asking"}]]
  /\ modal \in Request \cup {Nobody} /\ dialog \in Request \cup {Nobody}
  /\ sends \subseteq {"show", "hide"} \X Request
  /\ reply \in [Request -> Choice \cup {Nothing}]
  /\ clicks \subseteq Click /\ told \subseteq Click
  /\ said \in [Request -> SUBSET Yes]

DeskInit ==
  /\ setting \in Settings
  /\ attached = TRUE
  /\ pc = [r \in Request |-> "idle"]
  /\ over = {} /\ waiting = {}
  /\ answer = [r \in Request |-> Nothing]
  /\ choice = [r \in Request |-> Nothing]
  /\ surface = [r \in Request |-> [x \in Surface |-> "off"]]
  /\ modal = Nobody /\ dialog = Nobody
  /\ sends = {}
  /\ reply = [r \in Request |-> Nothing]
  /\ clicks = {} /\ told = {}
  /\ said = [r \in Request |-> {}]
-----------------------------------------------------------------------------
(***************************************************************************)
(* Ask. A gate puts one question at a time (its Serialize, module Broker); *)
(* two services have a gate each. The deadline may have passed before the  *)
(* question is asked: Serialize's select takes either branch when both are *)
(* ready.                                                                  *)
(***************************************************************************)
Open(r) == pc[r] \notin {"idle", "done"}

Ask(r) ==
  /\ pc[r] = "idle"
  /\ \A other \in Request : Gate[other] = Gate[r] => ~Open(other)
  /\ pc' = [pc EXCEPT ![r] = "published"]
  /\ waiting' = IF setting.publish THEN waiting \cup {r} ELSE waiting
  /\ UNCHANGED <<setting, over, answer, choice, surface, modalVars, dialog,
                 boardVars, said>>

\* The surfaces are read a moment after publish, under a lock of their own.
PutToSurfaces(r) ==
  /\ pc[r] = "published"
  /\ pc' = [pc EXCEPT ![r] = "asked"]
  /\ surface' = [surface EXCEPT ![r] =
                   [x \in Surface |-> IF x \in setting.asking THEN "starting" ELSE "off"]]
  /\ UNCHANGED <<setting, over, waiting, answer, choice, modalVars, dialog,
                 boardVars, said>>

\* The context of Ask ends: the prompt timeout, or the link to the host.
End(r) ==
  /\ r \notin over /\ pc[r] # "done"
  /\ over' = over \cup {r}
  /\ UNCHANGED <<setting, pc, waiting, answer, choice, surface, modalVars, dialog,
                 boardVars, said>>

Leave(r, c) ==
  /\ pc' = [pc EXCEPT ![r] = "leaving"]
  /\ choice' = [choice EXCEPT ![r] = c]
  /\ UNCHANGED <<setting, over, waiting, answer, surface, modalVars, dialog,
                 boardVars, said>>

\* Mutation: the answer is returned without a second look at the deadline.
ReturnAnswerLate(r) == pc[r] = "asked" /\ answer[r] # Nothing /\ Leave(r, answer[r])

ReturnAnswer(r) ==
  /\ pc[r] = "asked" /\ answer[r] # Nothing
  /\ Leave(r, IF r \in over THEN Deny ELSE answer[r])

\* Mutation: the deadline is looked at only when an answer has come in.
GiveUpAnswered(r) ==
  pc[r] = "asked" /\ r \in over /\ answer[r] # Nothing /\ Leave(r, Deny)

GiveUp(r) == pc[r] = "asked" /\ r \in over /\ Leave(r, Deny)

\* Mutation: only an answered question takes its id off the waiting list.
UnpublishAnswered(r) ==
  /\ pc[r] = "leaving"
  /\ pc' = [pc EXCEPT ![r] = "done"]
  /\ waiting' = IF answer[r] # Nothing THEN waiting \ {r} ELSE waiting
  /\ UNCHANGED <<setting, over, answer, choice, surface, modalVars, dialog,
                 boardVars, said>>

\* The deferred calls: the surfaces' context was cancelled first.
Unpublish(r) ==
  /\ pc[r] = "leaving"
  /\ pc' = [pc EXCEPT ![r] = "done"]
  /\ waiting' = waiting \ {r}
  /\ UNCHANGED <<setting, over, answer, choice, surface, modalVars, dialog,
                 boardVars, said>>
-----------------------------------------------------------------------------
(***************************************************************************)
(* What every surface shares: the first answer is delivered, the others    *)
(* change nothing, and all of them are cancelled when Ask leaves.          *)
(***************************************************************************)
Withdrawn(r) == r \in over \/ pc[r] \in {"leaving", "done"}

\* Mutation: an answer is delivered whether or not it is the first.
DeliverAlways(r, c) == answer' = [answer EXCEPT ![r] = c]

\* Mutation: one channel carries the answers to every open question.
DeliverShared(r, c) ==
  answer' = [q \in Request |-> IF Open(q) /\ answer[q] = Nothing THEN c ELSE answer[q]]

Deliver(r, c) ==
  answer' = IF answer[r] = Nothing THEN [answer EXCEPT ![r] = c] ELSE answer

Heard(r, c) == said' = [said EXCEPT ![r] = @ \cup ({c} \cap Yes)]

Surfacing(r, x, from, to) ==
  /\ surface[r][x] = from
  /\ surface' = [surface EXCEPT ![r][x] = to]
-----------------------------------------------------------------------------
(***************************************************************************)
(* The modal. Ask and the withdrawal each send their message from a new    *)
(* goroutine, so messages reach the event loop in any order.               *)
(***************************************************************************)
ModalAsk(r) ==
  /\ \/ /\ attached
        /\ Surfacing(r, "modal", "starting", "asking")
        /\ sends' = sends \cup {<<"show", r>>}
     \/ /\ ~attached
        /\ Surfacing(r, "modal", "starting", "off")
        /\ UNCHANGED sends
  /\ UNCHANGED <<setting, askVars, attached, modal, reply, dialog, boardVars, said>>

Show(r) ==
  /\ <<"show", r>> \in sends
  /\ sends' = sends \ {<<"show", r>>}
  /\ \/ modal = Nobody /\ modal' = r /\ UNCHANGED reply
     \/ modal # Nobody /\ reply' = [reply EXCEPT ![r] = Deny] /\ UNCHANGED modal
  /\ UNCHANGED <<setting, askVars, surface, attached, dialog, boardVars, said>>

Hide(r) ==
  /\ <<"hide", r>> \in sends
  /\ sends' = sends \ {<<"hide", r>>}
  /\ modal' = IF modal = r THEN Nobody ELSE modal
  /\ UNCHANGED <<setting, askVars, surface, attached, reply, dialog, boardVars, said>>

Key(c) ==
  /\ modal # Nobody
  /\ reply' = [reply EXCEPT ![modal] = c]
  /\ Heard(modal, c)
  /\ modal' = Nobody
  /\ UNCHANGED <<setting, askVars, surface, attached, sends, dialog, boardVars>>

ModalAnswered(r) ==
  /\ reply[r] # Nothing
  /\ Surfacing(r, "modal", "asking", "off")
  /\ reply' = [reply EXCEPT ![r] = Nothing]
  /\ Deliver(r, IF Withdrawn(r) THEN Deny ELSE reply[r])
  /\ UNCHANGED <<setting, pc, over, waiting, choice, attached, modal, sends, dialog,
                 boardVars, said>>

ModalWithdrawn(r) ==
  /\ Withdrawn(r)
  /\ Surfacing(r, "modal", "asking", "off")
  /\ Deliver(r, Deny)
  /\ sends' = IF attached THEN sends \cup {<<"hide", r>>} ELSE sends
  /\ UNCHANGED <<setting, pc, over, waiting, choice, attached, modal, reply, dialog,
                 boardVars, said>>

\* The interface exits: what was on screen or on its way there is gone.
Quit ==
  /\ attached
  /\ attached' = FALSE
  /\ modal' = Nobody
  /\ sends' = {}
  /\ UNCHANGED <<setting, askVars, surface, reply, dialog, boardVars, said>>
-----------------------------------------------------------------------------
(***************************************************************************)
(* The dialog, behind a Serialize of its own. It is a child process killed *)
(* when its question is withdrawn; one that cannot be drawn, or was        *)
(* killed, is a surface that did not answer.                               *)
(***************************************************************************)
DialogDrawn(r) ==
  /\ dialog = Nobody
  /\ Surfacing(r, "dialog", "starting", "asking")
  /\ dialog' = r
  /\ UNCHANGED <<setting, askVars, modalVars, boardVars, said>>

DialogNotDrawn(r) ==
  /\ Withdrawn(r)
  /\ Surfacing(r, "dialog", "starting", "off")
  /\ UNCHANGED <<setting, askVars, modalVars, dialog, boardVars, said>>

DialogAnswered(r, c) ==
  /\ Surfacing(r, "dialog", "asking", "off")
  /\ dialog' = Nobody
  /\ Deliver(r, c)
  /\ Heard(r, c)
  /\ UNCHANGED <<setting, pc, over, waiting, choice, modalVars, boardVars>>

\* Mutation: the lock is kept when the dialog ends without an answer.
DialogFailsHolding(r) ==
  /\ Surfacing(r, "dialog", "asking", "off")
  /\ UNCHANGED <<setting, askVars, modalVars, dialog, boardVars, said>>

DialogFails(r) ==
  /\ Surfacing(r, "dialog", "asking", "off")
  /\ dialog' = Nobody
  /\ UNCHANGED <<setting, askVars, modalVars, boardVars, said>>
-----------------------------------------------------------------------------
(***************************************************************************)
(* The board. Desk.Answer looks the id up under the lock and delivers      *)
(* after letting it go. A click whose id is not waiting is refused and     *)
(* changes nothing.                                                        *)
(***************************************************************************)
BoardFinds(tab, r, c) ==
  /\ r \in waiting
  /\ \A click \in clicks : click.tab # tab
  /\ clicks' = clicks \cup {[tab |-> tab, request |-> r, choice |-> c]}
  /\ Heard(r, c)
  /\ UNCHANGED <<setting, askVars, surface, modalVars, dialog, told>>

\* Mutation: what the board sends is not checked against the menu.
OfferedAnything(c) == c \in Choice \cup {Unoffered}

Offered(c) == c \in Choice

BoardDelivers(click) ==
  LET r == click.request
      wins == Offered(click.choice) /\ answer[r] = Nothing
  IN  /\ clicks' = clicks \ {click}
      /\ told' = IF wins THEN told \cup {click} ELSE told
      /\ answer' = IF wins THEN [answer EXCEPT ![r] = click.choice] ELSE answer
      /\ UNCHANGED <<setting, pc, over, waiting, choice, surface, modalVars, dialog, said>>

\* The prompt setting changes while the session runs.
Fill ==
  /\ setting' \in Settings
  /\ UNCHANGED <<askVars, surface, modalVars, dialog, boardVars, said>>
-----------------------------------------------------------------------------
AskStep(r) ==
  PutToSurfaces(r) \/ ReturnAnswer(r) \/ GiveUp(r) \/ Unpublish(r)

SurfaceStep(r) ==
  \/ ModalAsk(r) \/ Show(r) \/ Hide(r) \/ ModalAnswered(r) \/ ModalWithdrawn(r)
  \/ DialogDrawn(r) \/ DialogNotDrawn(r)

DeskNext ==
  \/ \E r \in Request : Ask(r) \/ AskStep(r) \/ End(r) \/ SurfaceStep(r) \/ DialogFails(r)
  \/ \E c \in Choice : Key(c) \/ \E r \in Request : DialogAnswered(r, c)
  \/ \E tab \in Tab, r \in Request, c \in Choice \cup {Unoffered} : BoardFinds(tab, r, c)
  \/ \E click \in clicks : BoardDelivers(click)
  \/ Quit
  \/ Fill

(***************************************************************************)
(* Goroutines are scheduled, the deadline every question carries passes,   *)
(* and a dialog whose question was withdrawn is killed. Nobody is obliged  *)
(* to ask, to answer, to click or to change a setting.                     *)
(***************************************************************************)
DeskFairness ==
  /\ \A r \in Request :
       /\ WF_deskVars(AskStep(r))
       /\ WF_deskVars(Open(r) /\ End(r))
       /\ WF_deskVars(SurfaceStep(r))
       /\ WF_deskVars(Withdrawn(r) /\ DialogFails(r))
  /\ WF_deskVars(\E click \in clicks : BoardDelivers(click))

DeskSpec == DeskInit /\ [][DeskNext]_deskVars /\ DeskFairness
-----------------------------------------------------------------------------
(***************************************************************************)
(* The desk is a prompter: whatever the surfaces, the board and the        *)
(* settings do meanwhile, Ask returns an answer some person gave to that   *)
(* question before its deadline, or a refusal.                             *)
(***************************************************************************)
phase == [r \in Request |-> CASE pc[r] = "idle" -> "idle"
                              [] pc[r] \in {"leaving", "done"} -> "done"
                              [] OTHER -> "asking"]

Abstract ==
  INSTANCE Prompter WITH
    phase <- phase, said <- said, over <- over, choice <- choice,
    Request <- Request, Choice <- Choice, Deny <- Deny, Nothing <- Nothing

IsAPrompter == Abstract!PromptSpec

(***************************************************************************)
(* The board is told the truth: of all the clicks on a question at most    *)
(* one is reported as accepted, and then Ask returns what that click said  *)
(* unless the deadline turned it into a refusal.                           *)
(***************************************************************************)
OneAnswerCounts ==
  \A click \in told :
    /\ \A other \in told : other.request = click.request => other = click
    /\ LET r == click.request
       IN  choice[r] \in {Nothing, click.choice} \/ (choice[r] = Deny /\ r \in over)

(***************************************************************************)
(* Every id dies with its request: once Ask has returned, however it came  *)
(* to return, nothing can find the question any more.                      *)
(***************************************************************************)
IdsDieWithQuestions ==
  /\ waiting \subseteq {r \in Request : Open(r)}
  /\ \A r \in Request : pc[r] = "done" => r \notin waiting

(***************************************************************************)
(* Every question asked is settled, even if no surface can be drawn, the   *)
(* interface has gone and nobody ever answers anything.                    *)
(***************************************************************************)
EveryQuestionSettles ==
  \A r \in Request : Open(r) ~> pc[r] = "done"

(***************************************************************************)
(* A dialog nobody is listening to any more gives its turn back, so the    *)
(* next question can be drawn.                                             *)
(***************************************************************************)
DialogGivesWay ==
  \A r \in Request : dialog = r /\ Withdrawn(r) ~> dialog # r
=============================================================================
