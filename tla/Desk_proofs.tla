----------------------------- MODULE Desk_proofs -----------------------------
(***************************************************************************)
(* Proofs about the approval desk, for any questions, services, answers,   *)
(* settings and browser tabs: that it implements the promise of module     *)
(* Prompter, and what the board is told.                                   *)
(***************************************************************************)
EXTENDS Desk, TLAPS

(***************************************************************************)
(* Where an answer can come from. Whatever lies in a channel or is on its  *)
(* way from the board was given by a person to that very question, or is   *)
(* a "no".                                                                 *)
(***************************************************************************)
AnswersWereSaid ==
  /\ \A r \in Request : answer[r] \in {Nothing, Deny} \cup said[r]
  /\ \A r \in Request : reply[r] \in {Nothing, Deny} \cup said[r]
  /\ \A click \in clicks : click.choice \in {Deny, Unoffered} \cup said[click.request]

(***************************************************************************)
(* Nothing reaches a surface before its question was asked.                *)
(***************************************************************************)
OnlyWhatWasAsked ==
  /\ \A r \in Request, x \in Surface : surface[r][x] # "off" => pc[r] # "idle"
  /\ \A r \in Request : <<"show", r>> \in sends => pc[r] # "idle"
  /\ modal # Nobody => pc[modal] # "idle"

WaitingAreOpen == \A r \in waiting : Open(r)

(***************************************************************************)
(* A click reported as accepted is what the channel of its question holds, *)
(* and the only one of that question.                                      *)
(***************************************************************************)
ToldWereDelivered ==
  \A click \in told :
    /\ click.choice \in Choice /\ answer[click.request] = click.choice
    /\ \A other \in told : other.request = click.request => other = click

(***************************************************************************)
(* Ask returns what its channel held, or refuses after the deadline.       *)
(***************************************************************************)
ReturnedWasDelivered ==
  \A r \in Request :
    \/ choice[r] = Nothing
    \/ choice[r] = answer[r] /\ answer[r] # Nothing
    \/ choice[r] = Deny /\ r \in over

DeskInv ==
  /\ DeskTypeOK
  /\ AnswersWereSaid
  /\ OnlyWhatWasAsked
  /\ WaitingAreOpen
  /\ ToldWereDelivered
  /\ ReturnedWasDelivered

(***************************************************************************)
(* Nothing has been asked, answered or shown at the start.                 *)
(***************************************************************************)
LEMMA InitHoldsDesk == DeskInit => DeskInv
BY AnswersAreDistinct
DEF DeskInit, DeskInv, DeskTypeOK, AnswersWereSaid, OnlyWhatWasAsked, WaitingAreOpen,
    ToldWereDelivered, ReturnedWasDelivered

-----------------------------------------------------------------------------
(***************************************************************************)
(* Types, one step per action.                                             *)
(***************************************************************************)
LEMMA AskKeepsType ==
  ASSUME DeskTypeOK, NEW r \in Request, Ask(r) \/ AskStep(r) \/ End(r)
  PROVE  DeskTypeOK'
<1> USE DEF DeskTypeOK, modalVars, boardVars
<1>1. CASE Ask(r)
  BY <1>1 DEF Ask
<1>2. CASE PutToSurfaces(r)
  BY <1>2, SettingsAreSettings DEF PutToSurfaces
<1>3. ASSUME NEW c \in Choice, Leave(r, c)
      PROVE  DeskTypeOK'
  BY <1>3 DEF Leave
<1>4. CASE ReturnAnswer(r)
  BY <1>3, <1>4, AnswersAreDistinct DEF ReturnAnswer
<1>5. CASE GiveUp(r)
  BY <1>3, <1>5, AnswersAreDistinct DEF GiveUp
<1>6. CASE Unpublish(r)
  BY <1>6 DEF Unpublish
<1>7. CASE End(r)
  BY <1>7 DEF End
<1> QED BY <1>1, <1>2, <1>4, <1>5, <1>6, <1>7 DEF AskStep

(***************************************************************************)
(* What delivering and hearing an answer do to the channels.               *)
(***************************************************************************)
LEMMA DeliverKeepsType ==
  ASSUME answer \in [Request -> Choice \cup {Nothing}], NEW r \in Request,
         NEW c \in Choice \cup {Nothing}, Deliver(r, c)
  PROVE  answer' \in [Request -> Choice \cup {Nothing}]
BY DEF Deliver

LEMMA HeardKeepsType ==
  ASSUME said \in [Request -> SUBSET Yes], NEW r \in Request, NEW c, Heard(r, c)
  PROVE  said' \in [Request -> SUBSET Yes]
BY DEF Heard, Yes

LEMMA SurfacingKeepsType ==
  ASSUME surface \in [Request -> [Surface -> {"off", "starting", "asking"}]],
         NEW r \in Request, NEW x \in Surface, NEW from,
         NEW to \in {"off", "starting", "asking"}, Surfacing(r, x, from, to)
  PROVE  surface' \in [Request -> [Surface -> {"off", "starting", "asking"}]]
BY DEF Surfacing

LEMMA ModalKeepsType ==
  ASSUME DeskTypeOK, NEW r \in Request,
         ModalAsk(r) \/ Show(r) \/ Hide(r) \/ ModalAnswered(r) \/ ModalWithdrawn(r)
  PROVE  DeskTypeOK'
<1> USE DEF DeskTypeOK, askVars, boardVars
<1>1. "modal" \in Surface
  BY DEF Surface
<1>2. CASE ModalAsk(r)
  <2>1. surface' \in [Request -> [Surface -> {"off", "starting", "asking"}]]
    BY <1>1, <1>2, SurfacingKeepsType DEF ModalAsk
  <2>2. sends' \subseteq {"show", "hide"} \X Request
    BY <1>2 DEF ModalAsk
  <2> QED BY <1>2, <2>1, <2>2 DEF ModalAsk
<1>3. CASE Show(r)
  <2>1. sends' \subseteq {"show", "hide"} \X Request
    BY <1>3 DEF Show
  <2>2. /\ modal' \in Request \cup {Nobody}
        /\ reply' \in [Request -> Choice \cup {Nothing}]
    BY <1>3, AnswersAreDistinct DEF Show
  <2> QED BY <1>3, <2>1, <2>2 DEF Show
<1>4. CASE Hide(r)
  BY <1>4 DEF Hide
<1>5. CASE ModalAnswered(r)
  <2>1. surface' \in [Request -> [Surface -> {"off", "starting", "asking"}]]
    BY <1>1, <1>5, SurfacingKeepsType DEF ModalAnswered
  <2>2. answer' \in [Request -> Choice \cup {Nothing}]
    BY <1>5, DeliverKeepsType, AnswersAreDistinct DEF ModalAnswered
  <2> QED BY <1>5, <2>1, <2>2 DEF ModalAnswered
<1>6. CASE ModalWithdrawn(r)
  <2>1. surface' \in [Request -> [Surface -> {"off", "starting", "asking"}]]
    BY <1>1, <1>6, SurfacingKeepsType DEF ModalWithdrawn
  <2>2. answer' \in [Request -> Choice \cup {Nothing}]
    BY <1>6, DeliverKeepsType, AnswersAreDistinct DEF ModalWithdrawn
  <2>3. sends' \subseteq {"show", "hide"} \X Request
    BY <1>6 DEF ModalWithdrawn
  <2> QED BY <1>6, <2>1, <2>2, <2>3 DEF ModalWithdrawn
<1> QED BY <1>2, <1>3, <1>4, <1>5, <1>6

LEMMA DialogKeepsType ==
  ASSUME DeskTypeOK, NEW r \in Request,
         \/ DialogDrawn(r) \/ DialogNotDrawn(r) \/ DialogFails(r)
         \/ \E c \in Choice : DialogAnswered(r, c)
  PROVE  DeskTypeOK'
<1> USE DEF DeskTypeOK, askVars, modalVars, boardVars
<1>1. "dialog" \in Surface
  BY DEF Surface
<1>2. surface' \in [Request -> [Surface -> {"off", "starting", "asking"}]]
  BY <1>1, SurfacingKeepsType DEF DialogDrawn, DialogNotDrawn, DialogFails, DialogAnswered
<1>3. CASE DialogDrawn(r) \/ DialogNotDrawn(r) \/ DialogFails(r)
  BY <1>2, <1>3 DEF DialogDrawn, DialogNotDrawn, DialogFails
<1>4. ASSUME NEW c \in Choice, DialogAnswered(r, c)
      PROVE  DeskTypeOK'
  <2>1. answer' \in [Request -> Choice \cup {Nothing}]
    BY <1>4, DeliverKeepsType DEF DialogAnswered
  <2>2. said' \in [Request -> SUBSET Yes]
    BY <1>4, HeardKeepsType DEF DialogAnswered
  <2> QED BY <1>2, <1>4, <2>1, <2>2 DEF DialogAnswered
<1> QED BY <1>3, <1>4

LEMMA PeopleKeepType ==
  ASSUME DeskTypeOK,
         \/ \E c \in Choice : Key(c)
         \/ \E tab \in Tab, r \in Request, c \in Choice \cup {Unoffered} :
              BoardFinds(tab, r, c)
         \/ \E click \in clicks : BoardDelivers(click)
         \/ Quit \/ Fill
  PROVE  DeskTypeOK'
<1> USE DEF DeskTypeOK, askVars, modalVars, boardVars
<1>1. ASSUME NEW c \in Choice, Key(c)
      PROVE  DeskTypeOK'
  BY <1>1, HeardKeepsType DEF Key
<1>2. ASSUME NEW tab \in Tab, NEW r \in Request, NEW c \in Choice \cup {Unoffered},
             BoardFinds(tab, r, c)
      PROVE  DeskTypeOK'
  BY <1>2, HeardKeepsType DEF BoardFinds, Click
<1>3. ASSUME NEW click \in clicks, BoardDelivers(click)
      PROVE  DeskTypeOK'
  BY <1>3 DEF BoardDelivers, Click, Offered
<1>4. CASE Quit \/ Fill
  BY <1>4 DEF Quit, Fill
<1> QED BY <1>1, <1>2, <1>3, <1>4

LEMMA StepKeepsType == DeskTypeOK /\ [DeskNext]_deskVars => DeskTypeOK'
<1>1. CASE UNCHANGED deskVars
  BY <1>1 DEF DeskTypeOK, deskVars, askVars, modalVars, boardVars
<1> QED
  BY <1>1, AskKeepsType, ModalKeepsType, DialogKeepsType, PeopleKeepType
  DEF DeskNext, SurfaceStep

-----------------------------------------------------------------------------
(***************************************************************************)
(* An answer reaches a channel from the answer before it on its way, from  *)
(* a person, or as a "no"; what people said is never unsaid.               *)
(***************************************************************************)
LEMMA DeliveredWasSaid ==
  ASSUME DeskTypeOK, AnswersWereSaid, NEW r \in Request,
         NEW c \in Choice, c \in {Deny} \cup said'[r], Deliver(r, c),
         \A q \in Request : said[q] \subseteq said'[q]
  PROVE  \A q \in Request : answer'[q] \in {Nothing, Deny} \cup said'[q]
BY DEF DeskTypeOK, AnswersWereSaid, Deliver

LEMMA HeardIsKept ==
  ASSUME DeskTypeOK, NEW r \in Request, NEW c \in Choice \cup {Unoffered}, Heard(r, c)
  PROVE  /\ \A q \in Request : said[q] \subseteq said'[q]
         /\ c \in {Deny, Unoffered} \cup said'[r]
BY DEF DeskTypeOK, Heard, Yes

LEMMA StepKeepsAnswers == DeskInv /\ [DeskNext]_deskVars => AnswersWereSaid'
<1> SUFFICES ASSUME DeskInv, [DeskNext]_deskVars PROVE AnswersWereSaid'
  OBVIOUS
<1> USE DEF DeskInv
<1>1. ASSUME UNCHANGED <<answer, reply, clicks, said>>
      PROVE  AnswersWereSaid'
  BY <1>1 DEF AnswersWereSaid
<1>2. ASSUME NEW r \in Request, Show(r)
      PROVE  AnswersWereSaid'
  BY <1>2 DEF Show, AnswersWereSaid, DeskTypeOK, askVars, boardVars
<1>3. ASSUME NEW c \in Choice, Key(c)
      PROVE  AnswersWereSaid'
  <2>1. modal \in Request
    BY <1>3 DEF Key, DeskTypeOK
  <2>2. /\ \A q \in Request : said[q] \subseteq said'[q]
        /\ c \in {Deny} \cup said'[modal]
    BY <1>3, <2>1, AnswersAreDistinct DEF Key, Heard, DeskTypeOK, Yes
  <2> QED BY <1>3, <2>1, <2>2 DEF Key, AnswersWereSaid, DeskTypeOK, askVars, boardVars, Click
<1>4. ASSUME NEW r \in Request, ModalAnswered(r)
      PROVE  AnswersWereSaid'
  <2> DEFINE c == IF Withdrawn(r) THEN Deny ELSE reply[r]
  <2>1. c \in Choice /\ c \in {Deny} \cup said'[r] /\ Deliver(r, c)
    BY <1>4, AnswersAreDistinct DEF ModalAnswered, AnswersWereSaid, DeskTypeOK
  <2>2. said' = said /\ clicks' = clicks /\ reply' = [reply EXCEPT ![r] = Nothing]
    BY <1>4 DEF ModalAnswered, boardVars
  <2>3. \A q \in Request : answer'[q] \in {Nothing, Deny} \cup said'[q]
    <3> HIDE DEF c
    <3> QED BY <2>1, <2>2, DeliveredWasSaid
  <2> QED BY <2>2, <2>3 DEF AnswersWereSaid, DeskTypeOK
<1>5. ASSUME NEW r \in Request, ModalWithdrawn(r)
      PROVE  AnswersWereSaid'
  <2>1. UNCHANGED <<said, clicks, reply>> /\ Deliver(r, Deny)
    BY <1>5 DEF ModalWithdrawn, boardVars
  <2>2. \A q \in Request : answer'[q] \in {Nothing, Deny} \cup said'[q]
    BY <2>1, DeliveredWasSaid, AnswersAreDistinct
  <2> QED BY <2>1, <2>2 DEF AnswersWereSaid
<1>6. ASSUME NEW r \in Request, NEW c \in Choice, DialogAnswered(r, c)
      PROVE  AnswersWereSaid'
  <2>1. UNCHANGED <<clicks, reply>> /\ Deliver(r, c) /\ Heard(r, c)
    BY <1>6 DEF DialogAnswered, modalVars, boardVars
  <2>2. /\ \A q \in Request : said[q] \subseteq said'[q]
        /\ c \in {Deny} \cup said'[r]
    BY <2>1 DEF Heard, DeskTypeOK, Yes
  <2>3. \A q \in Request : answer'[q] \in {Nothing, Deny} \cup said'[q]
    BY <2>1, <2>2, DeliveredWasSaid
  <2> QED BY <2>1, <2>2, <2>3 DEF AnswersWereSaid, DeskTypeOK, Click
<1>7. ASSUME NEW tab \in Tab, NEW r \in Request, NEW c \in Choice \cup {Unoffered},
             BoardFinds(tab, r, c)
      PROVE  AnswersWereSaid'
  <2>1. /\ \A q \in Request : said[q] \subseteq said'[q]
        /\ c \in {Deny, Unoffered} \cup said'[r]
    BY <1>7, HeardIsKept DEF BoardFinds
  <2> QED
    BY <1>7, <2>1 DEF BoardFinds, AnswersWereSaid, DeskTypeOK, Click, askVars, modalVars
<1>8. ASSUME NEW click \in clicks, BoardDelivers(click)
      PROVE  AnswersWereSaid'
  <2>1. click.request \in Request /\ click.choice \in {Deny, Unoffered} \cup said[click.request]
    BY DEF AnswersWereSaid, DeskTypeOK, Click
  <2> QED
    BY <1>8, <2>1, AnswersAreDistinct
    DEF BoardDelivers, Offered, AnswersWereSaid, DeskTypeOK, modalVars
<1>9. ASSUME NEW r \in Request, Ask(r) \/ AskStep(r) \/ End(r)
      PROVE  AnswersWereSaid'
  BY <1>1, <1>9 DEF Ask, AskStep, PutToSurfaces, ReturnAnswer, GiveUp, Unpublish, Leave,
                    End, modalVars, boardVars
<1>10. ASSUME NEW r \in Request,
              ModalAsk(r) \/ Hide(r) \/ DialogDrawn(r) \/ DialogNotDrawn(r) \/ DialogFails(r)
       PROVE  AnswersWereSaid'
  BY <1>1, <1>10 DEF ModalAsk, Hide, DialogDrawn, DialogNotDrawn, DialogFails,
                     askVars, modalVars, boardVars
<1>11. CASE Quit \/ Fill \/ UNCHANGED deskVars
  BY <1>1, <1>11 DEF Quit, Fill, deskVars, askVars, modalVars, boardVars
<1> QED
  BY <1>2, <1>3, <1>4, <1>5, <1>6, <1>7, <1>8, <1>9, <1>10, <1>11
  DEF DeskNext, SurfaceStep

(***************************************************************************)
(* A question reaches a surface only from Ask, and never goes back.        *)
(***************************************************************************)
LEMMA StepKeepsAsked == DeskInv /\ [DeskNext]_deskVars => OnlyWhatWasAsked'
<1> SUFFICES ASSUME DeskInv, [DeskNext]_deskVars PROVE OnlyWhatWasAsked'
  OBVIOUS
<1> USE DEF DeskInv, DeskTypeOK
<1>1. ASSUME NEW r \in Request, Ask(r) \/ AskStep(r)
      PROVE  OnlyWhatWasAsked'
  BY <1>1, AnswersAreDistinct
  DEF Ask, AskStep, PutToSurfaces, ReturnAnswer, GiveUp, Unpublish, Leave,
      modalVars, OnlyWhatWasAsked
<1>2. ASSUME NEW r \in Request, SurfaceStep(r)
      PROVE  OnlyWhatWasAsked'
  BY <1>2
  DEF SurfaceStep, ModalAsk, Show, Hide, ModalAnswered, ModalWithdrawn, DialogDrawn,
      DialogNotDrawn, Surfacing, Surface, askVars, modalVars, OnlyWhatWasAsked
<1>3. ASSUME NEW r \in Request, DialogFails(r) \/ \E c \in Choice : DialogAnswered(r, c)
      PROVE  OnlyWhatWasAsked'
  BY <1>3
  DEF DialogFails, DialogAnswered, Surfacing, Surface, askVars, modalVars, OnlyWhatWasAsked
<1>4. CASE Quit \/ \E c \in Choice : Key(c)
  BY <1>4 DEF Quit, Key, askVars, OnlyWhatWasAsked
<1>5. ASSUME UNCHANGED <<pc, surface, modalVars>>
      PROVE  OnlyWhatWasAsked'
  BY <1>5 DEF modalVars, OnlyWhatWasAsked
<1>6. ASSUME \/ \E r \in Request : End(r)
             \/ \E tab \in Tab, r \in Request, c \in Choice \cup {Unoffered} :
                  BoardFinds(tab, r, c)
             \/ \E click \in clicks : BoardDelivers(click)
             \/ Fill \/ UNCHANGED deskVars
      PROVE  OnlyWhatWasAsked'
  BY <1>5, <1>6 DEF End, BoardFinds, BoardDelivers, Fill, deskVars, askVars, modalVars
<1> QED BY <1>1, <1>2, <1>3, <1>4, <1>6 DEF DeskNext

(***************************************************************************)
(* An id is published when its question is open and taken back before it   *)
(* closes, whichever way Ask leaves.                                       *)
(***************************************************************************)
LEMMA StepKeepsWaiting == DeskInv /\ [DeskNext]_deskVars => WaitingAreOpen'
<1> SUFFICES ASSUME DeskInv, [DeskNext]_deskVars PROVE WaitingAreOpen'
  OBVIOUS
<1>1. ASSUME NEW r \in Request, Ask(r) \/ AskStep(r)
      PROVE  WaitingAreOpen'
  BY <1>1
  DEF Ask, AskStep, PutToSurfaces, ReturnAnswer, GiveUp, Unpublish, Leave, Open,
      WaitingAreOpen, DeskInv, DeskTypeOK
<1>2. ASSUME UNCHANGED <<pc, waiting>>
      PROVE  WaitingAreOpen'
  BY <1>2 DEF WaitingAreOpen, Open, DeskInv
<1>3. ASSUME NEW r \in Request, End(r) \/ SurfaceStep(r) \/ DialogFails(r)
      PROVE  WaitingAreOpen'
  BY <1>2, <1>3
  DEF End, SurfaceStep, ModalAsk, Show, Hide, ModalAnswered, ModalWithdrawn, DialogDrawn,
      DialogNotDrawn, DialogFails, askVars
<1>4. ASSUME \/ \E c \in Choice : Key(c) \/ \E r \in Request : DialogAnswered(r, c)
             \/ \E tab \in Tab, r \in Request, c \in Choice \cup {Unoffered} :
                  BoardFinds(tab, r, c)
             \/ \E click \in clicks : BoardDelivers(click)
             \/ Quit \/ Fill \/ UNCHANGED deskVars
      PROVE  WaitingAreOpen'
  BY <1>2, <1>4
  DEF Key, DialogAnswered, BoardFinds, BoardDelivers, Quit, Fill, deskVars, askVars
<1> QED BY <1>1, <1>3, <1>4 DEF DeskNext

-----------------------------------------------------------------------------
(***************************************************************************)
(* A channel holds its first answer for good, so what the board was told   *)
(* about and what Ask returned stay true.                                  *)
(***************************************************************************)
LEMMA FirstAnswerStays ==
  ASSUME DeskTypeOK, [DeskNext]_deskVars, NEW r \in Request, answer[r] # Nothing
  PROVE  answer'[r] = answer[r]
<1>1. ASSUME NEW q \in Request, NEW c, Deliver(q, c)
      PROVE  answer'[r] = answer[r]
  BY <1>1 DEF Deliver
<1>2. ASSUME NEW click \in clicks, BoardDelivers(click)
      PROVE  answer'[r] = answer[r]
  BY <1>2 DEF BoardDelivers
<1>3. ASSUME UNCHANGED answer
      PROVE  answer'[r] = answer[r]
  BY <1>3
<1>4. ASSUME NEW q \in Request, SurfaceStep(q)
      PROVE  answer'[r] = answer[r]
  BY <1>1, <1>3, <1>4
  DEF SurfaceStep, ModalAsk, Show, Hide, ModalAnswered, ModalWithdrawn, DialogDrawn,
      DialogNotDrawn, askVars
<1>5. ASSUME NEW q \in Request, NEW c \in Choice, DialogAnswered(q, c)
      PROVE  answer'[r] = answer[r]
  BY <1>1, <1>5 DEF DialogAnswered
<1>6. ASSUME NEW q \in Request, Ask(q) \/ AskStep(q) \/ End(q) \/ DialogFails(q)
      PROVE  answer'[r] = answer[r]
  BY <1>3, <1>6
  DEF Ask, AskStep, PutToSurfaces, ReturnAnswer, GiveUp, Unpublish, Leave, End,
      DialogFails, askVars
<1>7. ASSUME \/ \E c \in Choice : Key(c)
             \/ \E tab \in Tab, q \in Request, c \in Choice \cup {Unoffered} :
                  BoardFinds(tab, q, c)
             \/ Quit \/ Fill \/ UNCHANGED deskVars
      PROVE  answer'[r] = answer[r]
  BY <1>3, <1>7 DEF Key, BoardFinds, Quit, Fill, deskVars, askVars
<1> QED BY <1>2, <1>4, <1>5, <1>6, <1>7 DEF DeskNext

LEMMA StepKeepsTold == DeskInv /\ [DeskNext]_deskVars => ToldWereDelivered'
<1> SUFFICES ASSUME DeskInv, [DeskNext]_deskVars PROVE ToldWereDelivered'
  OBVIOUS
<1> USE DEF DeskInv
<1>1. \A click \in told : /\ click.request \in Request
                          /\ answer[click.request] = click.choice
                          /\ click.choice # Nothing
  BY AnswersAreDistinct DEF DeskTypeOK, Click, ToldWereDelivered
<1>2. \A click \in told : answer'[click.request] = click.choice
  BY <1>1, FirstAnswerStays
<1>3. ASSUME NEW click \in clicks, BoardDelivers(click)
      PROVE  ToldWereDelivered'
  <2>1. CASE Offered(click.choice) /\ answer[click.request] = Nothing
    <3>1. click.request \in Request /\ click.choice \in Choice
      BY <2>1 DEF DeskTypeOK, Click, Offered
    <3>2. told' = told \cup {click} /\ answer'[click.request] = click.choice
      BY <1>3, <2>1, <3>1 DEF BoardDelivers, DeskTypeOK
    <3>3. \A other \in told : other.request # click.request
      BY <1>1, <2>1
    <3> QED BY <1>2, <3>1, <3>2, <3>3 DEF ToldWereDelivered
  <2>2. CASE ~(Offered(click.choice) /\ answer[click.request] = Nothing)
    <3>1. UNCHANGED told
      BY <1>3, <2>2 DEF BoardDelivers
    <3> QED BY <1>2, <3>1 DEF ToldWereDelivered
  <2> QED BY <2>1, <2>2
<1>4. ASSUME UNCHANGED told
      PROVE  ToldWereDelivered'
  BY <1>2, <1>4 DEF ToldWereDelivered
<1>5. ASSUME NEW r \in Request,
             Ask(r) \/ AskStep(r) \/ End(r) \/ SurfaceStep(r) \/ DialogFails(r)
      PROVE  ToldWereDelivered'
  BY <1>4, <1>5
  DEF Ask, AskStep, PutToSurfaces, ReturnAnswer, GiveUp, Unpublish, Leave, End,
      SurfaceStep, ModalAsk, Show, Hide, ModalAnswered, ModalWithdrawn, DialogDrawn,
      DialogNotDrawn, DialogFails, boardVars
<1>6. ASSUME \/ \E c \in Choice : Key(c) \/ \E r \in Request : DialogAnswered(r, c)
             \/ \E tab \in Tab, r \in Request, c \in Choice \cup {Unoffered} :
                  BoardFinds(tab, r, c)
             \/ Quit \/ Fill \/ UNCHANGED deskVars
      PROVE  ToldWereDelivered'
  BY <1>4, <1>6
  DEF Key, DialogAnswered, BoardFinds, Quit, Fill, deskVars, boardVars
<1> QED BY <1>3, <1>5, <1>6 DEF DeskNext

LEMMA StepKeepsReturned == DeskInv /\ [DeskNext]_deskVars => ReturnedWasDelivered'
<1> SUFFICES ASSUME DeskInv, [DeskNext]_deskVars, NEW r \in Request
             PROVE  \/ choice'[r] = Nothing
                    \/ choice'[r] = answer'[r] /\ answer'[r] # Nothing
                    \/ choice'[r] = Deny /\ r \in over'
  BY DEF ReturnedWasDelivered
<1>1. \/ choice[r] = Nothing
      \/ choice[r] = answer[r] /\ answer[r] # Nothing
      \/ choice[r] = Deny /\ r \in over
  BY DEF DeskInv, ReturnedWasDelivered
<1>2. answer[r] # Nothing => answer'[r] = answer[r]
  BY FirstAnswerStays DEF DeskInv
<1>3. ASSUME NEW q \in Request, ReturnAnswer(q) \/ GiveUp(q)
      PROVE  \/ choice'[r] = Nothing
             \/ choice'[r] = answer'[r] /\ answer'[r] # Nothing
             \/ choice'[r] = Deny /\ r \in over'
  BY <1>1, <1>2, <1>3 DEF ReturnAnswer, GiveUp, Leave, DeskInv, DeskTypeOK
<1>4. ASSUME choice' = choice, over \subseteq over'
      PROVE  \/ choice'[r] = Nothing
             \/ choice'[r] = answer'[r] /\ answer'[r] # Nothing
             \/ choice'[r] = Deny /\ r \in over'
  BY <1>1, <1>2, <1>4
<1>5. ASSUME NEW q \in Request,
             \/ Ask(q) \/ PutToSurfaces(q) \/ Unpublish(q) \/ End(q)
             \/ SurfaceStep(q) \/ DialogFails(q)
      PROVE  choice' = choice /\ over \subseteq over'
  BY <1>5
  DEF Ask, PutToSurfaces, Unpublish, End, SurfaceStep, ModalAsk, Show, Hide,
      ModalAnswered, ModalWithdrawn, DialogDrawn, DialogNotDrawn, DialogFails, askVars
<1>6. ASSUME \/ \E c \in Choice : Key(c) \/ \E q \in Request : DialogAnswered(q, c)
             \/ \E tab \in Tab, q \in Request, c \in Choice \cup {Unoffered} :
                  BoardFinds(tab, q, c)
             \/ \E click \in clicks : BoardDelivers(click)
             \/ Quit \/ Fill \/ UNCHANGED deskVars
      PROVE  choice' = choice /\ over \subseteq over'
  BY <1>6
  DEF Key, DialogAnswered, BoardFinds, BoardDelivers, Quit, Fill, deskVars, askVars
<1> QED BY <1>3, <1>4, <1>5, <1>6 DEF DeskNext, AskStep

-----------------------------------------------------------------------------
(***************************************************************************)
(* The inductive invariant of the desk.                                    *)
(***************************************************************************)
THEOREM DeskInvariance == DeskSpec => []DeskInv
<1>1. DeskInv /\ [DeskNext]_deskVars => DeskInv'
  BY StepKeepsType, StepKeepsAnswers, StepKeepsAsked, StepKeepsWaiting, StepKeepsTold,
     StepKeepsReturned
  DEF DeskInv
<1> QED BY InitHoldsDesk, <1>1, PTL DEF DeskSpec

(***************************************************************************)
(* Every reachable state of the desk is well typed.                        *)
(***************************************************************************)
THEOREM DeskTypeCorrect == DeskSpec => []DeskTypeOK
<1>1. DeskInv => DeskTypeOK
  BY DEF DeskInv
<1> QED BY DeskInvariance, <1>1, PTL

(***************************************************************************)
(* At most one click on a question is reported as accepted, and Ask then   *)
(* returns what it said unless the deadline refused it: for any number of  *)
(* questions, services and browser tabs.                                   *)
(***************************************************************************)
THEOREM BoardIsToldTheTruth == DeskSpec => []OneAnswerCounts
<1>1. DeskInv => OneAnswerCounts
  BY DEF DeskInv, DeskTypeOK, Click, ToldWereDelivered, ReturnedWasDelivered,
         OneAnswerCounts
<1> QED BY DeskInvariance, <1>1, PTL

(***************************************************************************)
(* A question that Ask has returned cannot be found by its id.             *)
(***************************************************************************)
THEOREM IdsDie == DeskSpec => []IdsDieWithQuestions
<1>1. DeskInv => IdsDieWithQuestions
  BY DEF DeskInv, DeskTypeOK, WaitingAreOpen, Open, IdsDieWithQuestions
<1> QED BY DeskInvariance, <1>1, PTL
-----------------------------------------------------------------------------
(***************************************************************************)
(* The refinement. Steps of the surfaces are stutters of the promise,      *)
(* except that a person who answers is heard.                              *)
(***************************************************************************)
LEMMA HearingIsSaying ==
  ASSUME DeskTypeOK, NEW r \in Request, pc[r] # "idle", NEW c \in Choice \cup {Unoffered},
         Heard(r, c), UNCHANGED <<pc, over, choice>>
  PROVE  [Abstract!PromptNext]_(Abstract!promptVars)
<1>1. UNCHANGED phase
  BY DEF phase
<1>2. CASE c \in Yes
  <2>1. c \in Choice /\ phase[r] # "idle"
    BY <1>2 DEF Yes, phase
  <2>2. Abstract!Say(r, c)
    BY <1>1, <1>2, <2>1 DEF Heard, Abstract!Say
  <2> QED BY <2>1, <2>2 DEF Abstract!PromptNext
<1>3. CASE c \notin Yes
  <2>1. said' = said
    BY <1>3 DEF Heard, DeskTypeOK
  <2> QED BY <1>1, <2>1 DEF Abstract!promptVars
<1> QED BY <1>2, <1>3

LEMMA AskImplementsPrompter ==
  ASSUME DeskInv, NEW r \in Request, Ask(r) \/ AskStep(r) \/ End(r)
  PROVE  [Abstract!PromptNext]_(Abstract!promptVars)
<1> USE DEF DeskInv
<1>1. CASE Ask(r)
  <2>1. phase[r] = "idle" /\ phase' = [phase EXCEPT ![r] = "asking"]
    BY <1>1 DEF Ask, DeskTypeOK, phase
  <2>2. UNCHANGED <<said, over, choice>>
    BY <1>1 DEF Ask
  <2> QED BY <2>1, <2>2 DEF Abstract!Ask, Abstract!PromptNext
<1>2. CASE PutToSurfaces(r)
  <2>1. UNCHANGED phase
    BY <1>2 DEF PutToSurfaces, DeskTypeOK, phase
  <2> QED BY <1>2, <2>1 DEF PutToSurfaces, Abstract!promptVars
<1>3. ASSUME NEW c \in Choice, Leave(r, c), pc[r] = "asked",
             c = Deny \/ (c \in said[r] /\ r \notin over)
      PROVE  [Abstract!PromptNext]_(Abstract!promptVars)
  <2>1. phase[r] = "asking" /\ phase' = [phase EXCEPT ![r] = "done"]
    BY <1>3 DEF Leave, DeskTypeOK, phase
  <2>2. choice' = [choice EXCEPT ![r] = c] /\ UNCHANGED <<said, over>>
    BY <1>3 DEF Leave
  <2> QED BY <1>3, <2>1, <2>2 DEF Abstract!Return, Abstract!PromptNext
<1>4. CASE ReturnAnswer(r)
  <2> DEFINE c == IF r \in over THEN Deny ELSE answer[r]
  <2>1. c \in Choice /\ (c = Deny \/ (c \in said[r] /\ r \notin over))
    BY <1>4, AnswersAreDistinct DEF ReturnAnswer, DeskTypeOK, AnswersWereSaid
  <2>2. Leave(r, c) /\ pc[r] = "asked"
    BY <1>4 DEF ReturnAnswer
  <2> HIDE DEF c
  <2> QED BY <1>3, <2>1, <2>2
<1>5. CASE GiveUp(r)
  BY <1>3, <1>5, AnswersAreDistinct DEF GiveUp
<1>6. CASE Unpublish(r)
  <2>1. UNCHANGED phase
    BY <1>6 DEF Unpublish, DeskTypeOK, phase
  <2> QED BY <1>6, <2>1 DEF Unpublish, Abstract!promptVars
<1>7. CASE End(r)
  <2>1. UNCHANGED phase
    BY <1>7 DEF End, phase
  <2>2. Abstract!End(r)
    BY <1>7, <2>1 DEF End, Abstract!End
  <2> QED BY <2>2 DEF Abstract!PromptNext
<1> QED BY <1>1, <1>2, <1>4, <1>5, <1>6, <1>7 DEF AskStep

LEMMA SurfacesImplementPrompter ==
  ASSUME DeskInv, NEW r \in Request, SurfaceStep(r) \/ DialogFails(r)
  PROVE  UNCHANGED Abstract!promptVars
<1>1. UNCHANGED <<pc, said, over, choice>>
  BY DEF SurfaceStep, ModalAsk, Show, Hide, ModalAnswered, ModalWithdrawn, DialogDrawn,
         DialogNotDrawn, DialogFails, askVars
<1> QED BY <1>1 DEF phase, Abstract!promptVars

LEMMA PeopleImplementPrompter ==
  ASSUME DeskInv,
         \/ \E c \in Choice : Key(c) \/ \E r \in Request : DialogAnswered(r, c)
         \/ \E tab \in Tab, r \in Request, c \in Choice \cup {Unoffered} :
              BoardFinds(tab, r, c)
  PROVE  [Abstract!PromptNext]_(Abstract!promptVars)
<1> USE DEF DeskInv
<1>1. ASSUME NEW c \in Choice, Key(c)
      PROVE  [Abstract!PromptNext]_(Abstract!promptVars)
  <2>1. modal \in Request /\ pc[modal] # "idle"
    BY <1>1 DEF Key, DeskTypeOK, OnlyWhatWasAsked
  <2>2. Heard(modal, c) /\ UNCHANGED <<pc, over, choice>>
    BY <1>1 DEF Key, askVars
  <2> QED BY <2>1, <2>2, HearingIsSaying
<1>2. ASSUME NEW c \in Choice, NEW r \in Request, DialogAnswered(r, c)
      PROVE  [Abstract!PromptNext]_(Abstract!promptVars)
  <2>1. pc[r] # "idle"
    BY <1>2 DEF DialogAnswered, Surfacing, Surface, OnlyWhatWasAsked
  <2>2. Heard(r, c) /\ UNCHANGED <<pc, over, choice>>
    BY <1>2 DEF DialogAnswered
  <2> QED BY <2>1, <2>2, HearingIsSaying
<1>3. ASSUME NEW tab \in Tab, NEW r \in Request, NEW c \in Choice \cup {Unoffered},
             BoardFinds(tab, r, c)
      PROVE  [Abstract!PromptNext]_(Abstract!promptVars)
  <2>1. pc[r] # "idle"
    BY <1>3 DEF BoardFinds, WaitingAreOpen, Open
  <2>2. Heard(r, c) /\ UNCHANGED <<pc, over, choice>>
    BY <1>3 DEF BoardFinds, askVars
  <2> QED BY <2>1, <2>2, HearingIsSaying
<1> QED BY <1>1, <1>2, <1>3

(***************************************************************************)
(* The desk implements the promise of a prompter: for any questions,       *)
(* services, surfaces in use and browser tabs, Ask returns an answer some  *)
(* person gave to that question in time, or a refusal.                     *)
(***************************************************************************)
THEOREM DeskIsAPrompter == DeskSpec => IsAPrompter
<1>1. DeskInit => Abstract!PromptInit
  BY DEF DeskInit, Abstract!PromptInit, phase
<1>2. DeskInv /\ [DeskNext]_deskVars => [Abstract!PromptNext]_(Abstract!promptVars)
  <2> SUFFICES ASSUME DeskInv, [DeskNext]_deskVars
               PROVE  [Abstract!PromptNext]_(Abstract!promptVars)
    OBVIOUS
  <2>1. ASSUME (\E click \in clicks : BoardDelivers(click)) \/ Quit \/ Fill \/ UNCHANGED deskVars
        PROVE  UNCHANGED Abstract!promptVars
    <3>1. UNCHANGED <<pc, said, over, choice>>
      BY <2>1 DEF BoardDelivers, Quit, Fill, deskVars, askVars
    <3> QED BY <3>1 DEF phase, Abstract!promptVars
  <2> QED
    BY <2>1, AskImplementsPrompter, SurfacesImplementPrompter, PeopleImplementPrompter
    DEF DeskNext
<1> QED
  BY DeskInvariance, <1>1, <1>2, PTL DEF DeskSpec, IsAPrompter, Abstract!PromptSpec
=============================================================================
