---------------------------- MODULE Broker_proofs ----------------------------
(***************************************************************************)
(* Proofs about the broker's queue and about what a lasting answer leaves  *)
(* behind, for any requests, menu and number of prompter swaps, over the   *)
(* policy store of module Policy.                                          *)
(***************************************************************************)
EXTENDS Broker, Policy_proofs

(***************************************************************************)
(* What the queue needs of BrokerTypeOK; the store plays no part in it.    *)
(***************************************************************************)
QueueTypeOK ==
  /\ swaps \in 0 .. MaxSwaps
  /\ pc \in [Request -> {"idle", "queued", "asking", "answered", "recording", "done"}]
  /\ via \in [Request -> 0 .. MaxSwaps]
  /\ mutex \in [0 .. MaxSwaps -> Request \cup {Nobody}]
  /\ waiters \subseteq Request /\ abandoned \subseteq Request

Holds(r) == mutex[via[r]] = r

(***************************************************************************)
(* OneQuestion is not inductive: it does not say that a request on the     *)
(* screen holds the mutex, nor that a goroutine left behind by a request   *)
(* that gave up is either blocked in Lock or has the mutex to give back.   *)
(***************************************************************************)
HolderIsAsked ==
  \A p \in 0 .. MaxSwaps : mutex[p] # Nobody =>
    /\ via[mutex[p]] = p
    /\ mutex[p] \notin waiters
    /\ pc[mutex[p]] \in {"queued", "asking"} \/ mutex[p] \in abandoned

AskedHolds == \A r \in Request : pc[r] = "asking" => Holds(r)

QueuedHasAGoroutine ==
  \A r \in Request : pc[r] = "queued" \/ r \in abandoned => r \in waiters \/ Holds(r)

WaitersWait == \A r \in waiters : pc[r] = "queued" \/ r \in abandoned

AbandonedHaveLeft == \A r \in abandoned : pc[r] \notin {"idle", "queued", "asking"}

QueueInv ==
  /\ QueueTypeOK
  /\ HolderIsAsked /\ AskedHolds /\ QueuedHasAGoroutine
  /\ WaitersWait /\ AbandonedHaveLeft

(***************************************************************************)
(* Nobody starts in the queue.                                             *)
(***************************************************************************)
LEMMA InitHoldsQueue == BrokerInit => QueueInv
BY RequestsAreRequests
DEF BrokerInit, QueueInv, QueueTypeOK, HolderIsAsked, AskedHolds, Holds,
    QueuedHasAGoroutine, WaitersWait, AbandonedHaveLeft

(***************************************************************************)
(* A request that leaves the gate without having been in the queue, or     *)
(* moves after it has been answered, disturbs nobody in it.                *)
(***************************************************************************)
LEMMA OutsideTheQueue ==
  ASSUME QueueInv, NEW r \in Request, NEW to,
         \/ pc[r] = "idle" /\ to = "done"
         \/ pc[r] = "answered" /\ to \in {"recording", "done"}
         \/ pc[r] = "recording" /\ to = "done",
         pc' = [pc EXCEPT ![r] = to], UNCHANGED queueVars
  PROVE  QueueInv'
BY RequestsAreRequests
DEF QueueInv, QueueTypeOK, HolderIsAsked, AskedHolds, Holds,
    QueuedHasAGoroutine, WaitersWait, AbandonedHaveLeft, queueVars

(***************************************************************************)
(* Joining the queue, behind whichever prompter was current.               *)
(***************************************************************************)
LEMMA QueueKeepsInv ==
  ASSUME QueueInv, NEW r \in Request, Queue(r)
  PROVE  QueueInv'
<1>1. PICK p \in 0 .. swaps : via' = [via EXCEPT ![r] = p]
  BY DEF Queue
<1>2. p \in 0 .. MaxSwaps
  BY RequestsAreRequests DEF QueueInv, QueueTypeOK
<1>3. /\ pc[r] = "idle" /\ pc' = [pc EXCEPT ![r] = "queued"]
      /\ waiters' = waiters \cup {r}
      /\ UNCHANGED <<swaps, mutex, abandoned>>
  BY DEF Queue, Moves
<1>4. \A q \in 0 .. MaxSwaps : mutex[q] # r
  BY <1>3, RequestsAreRequests DEF QueueInv, HolderIsAsked, AbandonedHaveLeft
<1> QED
  BY <1>1, <1>2, <1>3, <1>4, RequestsAreRequests
  DEF QueueInv, QueueTypeOK, HolderIsAsked, AskedHolds, Holds,
      QueuedHasAGoroutine, WaitersWait, AbandonedHaveLeft

(***************************************************************************)
(* Taking the mutex and putting the question.                              *)
(***************************************************************************)
LEMMA AcquireKeepsInv ==
  ASSUME QueueInv, NEW r \in Request, Acquire(r)
  PROVE  QueueInv'
BY RequestsAreRequests
DEF Acquire, QueueInv, QueueTypeOK, HolderIsAsked, AskedHolds, Holds,
    QueuedHasAGoroutine, WaitersWait, AbandonedHaveLeft

LEMMA PutKeepsInv ==
  ASSUME QueueInv, NEW r \in Request, Put(r)
  PROVE  QueueInv'
BY RequestsAreRequests
DEF Put, Moves, queueVars, QueueInv, QueueTypeOK, HolderIsAsked, AskedHolds, Holds,
    QueuedHasAGoroutine, WaitersWait, AbandonedHaveLeft

(***************************************************************************)
(* Giving up in the queue leaves the goroutine to give the mutex back.     *)
(***************************************************************************)
LEMMA AbandonKeepsInv ==
  ASSUME QueueInv, NEW r \in Request, Abandon(r)
  PROVE  QueueInv'
BY RequestsAreRequests
DEF Abandon, Moves, QueueInv, QueueTypeOK, HolderIsAsked, AskedHolds, Holds,
    QueuedHasAGoroutine, WaitersWait, AbandonedHaveLeft

(***************************************************************************)
(* Only the holder unlocks, so nobody else's turn ends.                    *)
(***************************************************************************)
LEMMA ReleaseKeepsInv ==
  ASSUME QueueInv, NEW r \in Request, Release(r)
  PROVE  QueueInv'
BY RequestsAreRequests
DEF Release, QueueInv, QueueTypeOK, HolderIsAsked, AskedHolds, Holds,
    QueuedHasAGoroutine, WaitersWait, AbandonedHaveLeft

(***************************************************************************)
(* Back from Ask, which may be the caller's or one left behind.            *)
(***************************************************************************)
LEMMA ReturnKeepsInv ==
  ASSUME QueueInv, NEW r \in Request, NEW c \in Menu, Return(r, c)
  PROVE  QueueInv'
<1>1. Holds(r)
  BY DEF Return, Moves, QueueInv, AskedHolds
<1> QED
  BY <1>1, RequestsAreRequests
  DEF Return, Moves, QueueInv, QueueTypeOK, HolderIsAsked, AskedHolds, Holds,
      QueuedHasAGoroutine, WaitersWait, AbandonedHaveLeft

(***************************************************************************)
(* Every step of the broker keeps the queue in order.                      *)
(***************************************************************************)
LEMMA StepKeepsQueue == QueueInv /\ [BrokerNext]_brokerVars => QueueInv'
<1> SUFFICES ASSUME QueueInv, [BrokerNext]_brokerVars PROVE QueueInv'
  OBVIOUS
<1>1. ASSUME NEW r \in Request, DecidedByPolicy(r) \/ TooLate(r) \/ InTime(r) \/ RecordAnswer(r)
      PROVE  QueueInv'
  <2>1. UNCHANGED queueVars
    BY <1>1 DEF DecidedByPolicy, TooLate, InTime, RecordAnswer
  <2>2. CASE DecidedByPolicy(r)
    <3>1. pc[r] = "idle" /\ pc' = [pc EXCEPT ![r] = "done"]
      BY <2>2 DEF DecidedByPolicy, Moves
    <3> QED BY <2>1, <3>1, OutsideTheQueue
  <2>3. CASE TooLate(r)
    <3>1. pc[r] = "answered" /\ pc' = [pc EXCEPT ![r] = "done"]
      BY <2>3 DEF TooLate, Moves
    <3> QED BY <2>1, <3>1, OutsideTheQueue
  <2>4. CASE InTime(r)
    <3>1. pc[r] = "answered" /\ pc' = [pc EXCEPT ![r] = "recording"]
      BY <2>4 DEF InTime, Moves
    <3> QED BY <2>1, <3>1, OutsideTheQueue
  <2>5. CASE RecordAnswer(r)
    <3>1. pc[r] = "recording" /\ pc' = [pc EXCEPT ![r] = "done"]
      BY <2>5 DEF RecordAnswer, Moves
    <3> QED BY <2>1, <3>1, OutsideTheQueue
  <2> QED BY <1>1, <2>2, <2>3, <2>4, <2>5
<1>2. ASSUME UNCHANGED <<queueVars, pc>>
      PROVE  QueueInv'
  BY <1>2 DEF queueVars, QueueInv, QueueTypeOK, HolderIsAsked, AskedHolds, Holds,
              QueuedHasAGoroutine, WaitersWait, AbandonedHaveLeft
<1>3. ASSUME SetPrompter
      PROVE  QueueInv'
  BY <1>3, RequestsAreRequests
  DEF SetPrompter, QueueInv, QueueTypeOK, HolderIsAsked, AskedHolds, Holds,
      QueuedHasAGoroutine, WaitersWait, AbandonedHaveLeft
<1>4. ASSUME NEW r \in Request, RequestStep(r) \/ Acquire(r) \/ Release(r) \/ End(r)
      PROVE  QueueInv'
  <2>1. CASE End(r)
    BY <2>1, <1>2 DEF End
  <2> QED
    BY <1>1, <1>4, <2>1, QueueKeepsInv, PutKeepsInv, AbandonKeepsInv,
       AcquireKeepsInv, ReleaseKeepsInv
    DEF RequestStep
<1>5. CASE UNCHANGED brokerVars
  BY <1>2, <1>5 DEF brokerVars
<1>6. CASE PolicyMoves
  BY <1>2, <1>6 DEF PolicyMoves
<1> QED BY <1>3, <1>4, <1>5, <1>6, ReturnKeepsInv DEF BrokerNext

(***************************************************************************)
(* One question at a time, for any number of requests and however often    *)
(* the prompter is replaced while they are asked.                          *)
(***************************************************************************)
THEOREM OneAtATime == BrokerSpec => []OneQuestion
<1>1. QueueInv => OneQuestion
  BY RequestsAreRequests
  DEF QueueInv, QueueTypeOK, HolderIsAsked, AskedHolds, Holds, OneQuestion
<1> QED BY InitHoldsQueue, StepKeepsQueue, <1>1, PTL DEF BrokerSpec

-----------------------------------------------------------------------------
(***************************************************************************)
(* An answer too late is refused and leaves the store alone.               *)
(***************************************************************************)
LEMMA LateStepRefuses ==
  ASSUME BrokerNext, NEW r \in Request,
         pc \in [Request -> {"idle", "queued", "asking", "answered", "recording", "done"}],
         outcome \in [Request -> {"none", "allowed", "refused"}],
         pc[r] = "answered", r \in over, pc'[r] # "answered"
  PROVE  outcome'[r] = "refused" /\ UNCHANGED policyVars
<1>1. ASSUME NEW other \in Request, NEW from, NEW to, Moves(other, from, to), from # "answered"
      PROVE  FALSE
  BY <1>1 DEF Moves
<1>2. ASSUME UNCHANGED pc
      PROVE  FALSE
  BY <1>2
<1>3. ASSUME NEW other \in Request, InTime(other)
      PROVE  FALSE
  BY <1>3 DEF InTime, Moves
<1>4. ASSUME NEW other \in Request, TooLate(other)
      PROVE  outcome'[r] = "refused" /\ UNCHANGED policyVars
  <2>1. other = r
    BY <1>4 DEF TooLate, Moves
  <2> QED BY <1>4, <2>1 DEF TooLate, Settles
<1>5. ASSUME NEW other \in Request, NEW c \in Menu, Return(other, c)
      PROVE  FALSE
  BY <1>1, <1>5 DEF Return
<1>6. ASSUME NEW other \in Request,
             DecidedByPolicy(other) \/ Queue(other) \/ Put(other) \/ Abandon(other)
             \/ RecordAnswer(other)
      PROVE  FALSE
  BY <1>1, <1>6 DEF DecidedByPolicy, Queue, Put, Abandon, RecordAnswer
<1>7. ASSUME NEW other \in Request, Acquire(other) \/ Release(other) \/ End(other)
      PROVE  FALSE
  BY <1>2, <1>7 DEF Acquire, Release, End
<1>8. ~SetPrompter /\ ~PolicyMoves
  BY <1>2 DEF SetPrompter, PolicyMoves
<1> QED BY <1>3, <1>4, <1>5, <1>6, <1>7, <1>8 DEF BrokerNext, RequestStep

(***************************************************************************)
(* The outcomes stay outcomes.                                             *)
(***************************************************************************)
OutcomeTypeOK == outcome \in [Request -> {"none", "allowed", "refused"}]

LEMMA StepKeepsOutcomes == OutcomeTypeOK /\ [BrokerNext]_brokerVars => OutcomeTypeOK'
<1> SUFFICES ASSUME OutcomeTypeOK, [BrokerNext]_brokerVars PROVE OutcomeTypeOK'
  OBVIOUS
<1>1. ASSUME NEW r \in Request, NEW allowed, Settles(r, allowed)
      PROVE  OutcomeTypeOK'
  BY <1>1 DEF Settles, OutcomeTypeOK
<1>2. ASSUME UNCHANGED outcome
      PROVE  OutcomeTypeOK'
  BY <1>2 DEF OutcomeTypeOK
<1>3. ASSUME NEW r \in Request, DecidedByPolicy(r) \/ TooLate(r) \/ RecordAnswer(r)
      PROVE  OutcomeTypeOK'
  BY <1>1, <1>3 DEF DecidedByPolicy, TooLate, RecordAnswer
<1>4. ASSUME NEW r \in Request,
             \/ Queue(r) \/ Put(r) \/ Abandon(r) \/ InTime(r)
             \/ Acquire(r) \/ Release(r) \/ End(r)
      PROVE  OutcomeTypeOK'
  BY <1>2, <1>4 DEF Queue, Put, Abandon, InTime, Acquire, Release, End
<1>5. ASSUME NEW r \in Request, NEW c \in Menu, Return(r, c)
      PROVE  OutcomeTypeOK'
  BY <1>2, <1>5 DEF Return
<1>6. CASE SetPrompter \/ PolicyMoves \/ UNCHANGED brokerVars
  BY <1>2, <1>6 DEF SetPrompter, PolicyMoves, brokerVars
<1> QED BY <1>3, <1>4, <1>5, <1>6 DEF BrokerNext, RequestStep

(***************************************************************************)
(* An answer that races the deadline and loses leaves no trace.            *)
(***************************************************************************)
THEOREM LateAnswersAreLost == BrokerSpec => LateAnswersLeaveNoTrace
<1>1. BrokerInit => OutcomeTypeOK
  BY DEF BrokerInit, OutcomeTypeOK
<1>2. QueueInv /\ OutcomeTypeOK /\ [BrokerNext]_brokerVars =>
        [\A r \in Request :
           pc[r] = "answered" /\ r \in over /\ pc'[r] # "answered" =>
             outcome'[r] = "refused" /\ UNCHANGED policyVars]_brokerVars
  <2> SUFFICES ASSUME QueueInv, OutcomeTypeOK, BrokerNext, NEW r \in Request,
                      pc[r] = "answered", r \in over, pc'[r] # "answered"
               PROVE  outcome'[r] = "refused" /\ UNCHANGED policyVars
    OBVIOUS
  <2>1. pc \in [Request -> {"idle", "queued", "asking", "answered", "recording", "done"}]
    BY DEF QueueInv, QueueTypeOK
  <2>2. outcome \in [Request -> {"none", "allowed", "refused"}]
    BY DEF OutcomeTypeOK
  <2> QED BY <2>1, <2>2, LateStepRefuses
<1> QED
  BY InitHoldsQueue, StepKeepsQueue, StepKeepsOutcomes, <1>1, <1>2, PTL
  DEF BrokerSpec, LateAnswersLeaveNoTrace

-----------------------------------------------------------------------------
(***************************************************************************)
(* Types. The store's part is the store's own invariant: whatever the gate *)
(* does to it is an answer recorded or something people withdraw.          *)
(***************************************************************************)
AnswersTypeOK ==
  /\ over \subseteq Request
  /\ choice \in [Request -> Menu]
  /\ settled \subseteq Host \X Subject /\ forbidden \subseteq Request

BrokerInv == QueueInv /\ OutcomeTypeOK /\ AnswersTypeOK /\ PolicyInv

LEMMA StepKeepsStore ==
  ASSUME BrokerInv, [BrokerNext]_brokerVars
  PROVE  PolicyInv'
<1>1. PolicyInv /\ choice \in [Request -> Menu]
  BY DEF BrokerInv, AnswersTypeOK
<1>2. UNCHANGED policyVars => PolicyInv'
  BY <1>1 DEF policyVars, PolicyInv, PolicyTypeOK, RefusalsLast
<1>3. ASSUME NEW r \in Request, RecordAnswer(r)
      PROVE  PolicyInv'
  <2>1. HostOf[r] \in Host /\ SubjectOf[r] \in Subject /\ choice[r] \in Choice
    BY <1>1, RequestsAreRequests
  <2> QED BY <1>1, <1>3, <2>1, RecordKeepsInv DEF RecordAnswer
<1>4. CASE PolicyMoves
  BY <1>1, <1>4, StepKeepsInv, WithdrawKeepsInv, DenyKeepsInv DEF PolicyMoves, PolicyNext
<1>5. ASSUME NEW r \in Request,
             \/ DecidedByPolicy(r) \/ Queue(r) \/ Put(r) \/ Abandon(r) \/ TooLate(r)
             \/ InTime(r) \/ Acquire(r) \/ Release(r) \/ End(r)
      PROVE  PolicyInv'
  BY <1>2, <1>5 DEF DecidedByPolicy, Queue, Put, Abandon, TooLate, InTime, Acquire,
                    Release, End
<1>6. ASSUME NEW r \in Request, NEW c \in Menu, Return(r, c)
      PROVE  PolicyInv'
  BY <1>2, <1>6 DEF Return
<1>7. CASE SetPrompter \/ UNCHANGED brokerVars
  BY <1>2, <1>7 DEF SetPrompter, brokerVars
<1> QED BY <1>3, <1>4, <1>5, <1>6, <1>7 DEF BrokerNext, RequestStep

(***************************************************************************)
(* What was answered stays an answer.                                      *)
(***************************************************************************)
LEMMA StepKeepsAnswers ==
  ASSUME AnswersTypeOK, [BrokerNext]_brokerVars
  PROVE  AnswersTypeOK'
<1>1. ASSUME NEW r \in Request,
             \/ DecidedByPolicy(r) \/ Queue(r) \/ Put(r) \/ Abandon(r) \/ TooLate(r)
             \/ InTime(r) \/ Acquire(r) \/ Release(r) \/ End(r)
      PROVE  AnswersTypeOK'
  BY <1>1 DEF DecidedByPolicy, Queue, Put, Abandon, TooLate, InTime, Acquire, Release,
              End, AnswersTypeOK, historyVars
<1>2. ASSUME NEW r \in Request, NEW c \in Menu, Return(r, c)
      PROVE  AnswersTypeOK'
  BY <1>2 DEF Return, AnswersTypeOK
<1>3. ASSUME NEW r \in Request, RecordAnswer(r)
      PROVE  AnswersTypeOK'
  <2>1. <<HostOf[r], SubjectOf[r]>> \in Host \X Subject
    BY RequestsAreRequests
  <2>2. /\ UNCHANGED <<over, choice, forbidden>>
        /\ settled' = settled \cup {<<HostOf[r], SubjectOf[r]>>} \/ settled' = settled
    BY <1>3 DEF RecordAnswer
  <2> QED BY <2>1, <2>2 DEF AnswersTypeOK
<1>4. CASE SetPrompter \/ PolicyMoves \/ UNCHANGED brokerVars
  BY <1>4 DEF SetPrompter, PolicyMoves, brokerVars, AnswersTypeOK, historyVars
<1> QED BY <1>1, <1>2, <1>3, <1>4 DEF BrokerNext, RequestStep

(***************************************************************************)
(* The invariant of every reachable state of the gate and its store.       *)
(***************************************************************************)
THEOREM BrokerInvariance == BrokerSpec => []BrokerInv
<1>1. BrokerInit => BrokerInv
  BY InitHoldsQueue, InitHoldsInv, RequestsAreRequests
  DEF BrokerInit, BrokerInv, OutcomeTypeOK, AnswersTypeOK
<1>2. BrokerInv /\ [BrokerNext]_brokerVars => BrokerInv'
  <2> SUFFICES ASSUME BrokerInv, [BrokerNext]_brokerVars PROVE BrokerInv'
    OBVIOUS
  <2>1. PolicyInv'
    BY StepKeepsStore
  <2>2. AnswersTypeOK'
    BY StepKeepsAnswers DEF BrokerInv
  <2> QED BY <2>1, <2>2, StepKeepsQueue, StepKeepsOutcomes DEF BrokerInv
<1> QED BY <1>1, <1>2, PTL DEF BrokerSpec

(***************************************************************************)
(* Every reachable state of the gate and of the store under it is well     *)
(* typed, for any requests, menu and rules.                                *)
(***************************************************************************)
THEOREM BrokerTypeCorrect == BrokerSpec => []BrokerTypeOK
<1>1. BrokerInv => BrokerTypeOK
  BY DEF BrokerInv, QueueInv, QueueTypeOK, OutcomeTypeOK, AnswersTypeOK, PolicyInv,
         BrokerTypeOK
<1> QED BY <1>1, BrokerInvariance, PTL

-----------------------------------------------------------------------------
(***************************************************************************)
(* The same question is not asked twice. What an answer meant to last left *)
(* behind is a rule, of either kind, or a grant without an expiry, of      *)
(* either kind: tightening, time, pruning and other answers leave one that *)
(* still matches, and a request that matches one is not a question.        *)
(***************************************************************************)
Kept(g, h, s) == g \in grants /\ g.left = Session /\ g.host = h /\ s \in Covers[g.subject]

Remembered(h, s) ==
  \/ \E rule \in AllRules : RuleMatches(rule, h, s)
  \/ \E g \in grants : Kept(g, h, s)

SettledAreRemembered ==
  \A h \in Host, s \in Subject : <<h, s>> \in settled => Remembered(h, s)

(***************************************************************************)
(* What is remembered has a verdict (Decide).                              *)
(***************************************************************************)
LEMMA RememberedIsDecided ==
  ASSUME PolicyInv, NEW h \in Host, NEW s \in Subject, Remembered(h, s)
  PROVE  Decide(h, s) # "ask"
<1>1. ASSUME NEW rule \in AllRules, RuleMatches(rule, h, s)
      PROVE  Denied(h, s) \/ Approved(h, s)
  <2>1. rule \in Rule
    <3>1. CASE rule \in GlobalRules
      BY <3>1, RulesAreRules
    <3>2. CASE rule \in ToSet(hostRules)
      BY <3>2, LenProperties DEF ToSet, PolicyInv, PolicyTypeOK
    <3> QED BY <3>1, <3>2 DEF AllRules
  <2>2. rule.action \in {"allow", "deny"}
    BY <2>1 DEF Rule, Action
  <2> QED BY <1>1, <2>2 DEF Denied, Approved, RulesSay
<1>2. ASSUME NEW g \in grants, Kept(g, h, s)
      PROVE  Denied(h, s) \/ Approved(h, s)
  <2>1. g.action \in {"allow", "deny"} /\ GrantMatches(g, h, s)
    BY <1>2 DEF Kept, PolicyInv, PolicyTypeOK, Grant, Action, GrantMatches, Live, Session
  <2> QED BY <2>1 DEF Denied, Approved, MatchingGrants
<1> QED BY <1>1, <1>2 DEF Remembered, Decide

(***************************************************************************)
(* A step that keeps the rules, or makes one a refusal of the same, and    *)
(* the grants without an expiry forgets nothing.                           *)
(***************************************************************************)
NothingForgotten ==
  /\ \A rule \in ToSet(hostRules) : \E kept \in ToSet(hostRules') :
       kept.host = rule.host /\ kept.subject = rule.subject
  /\ \A g \in grants : g.left = Session => g \in grants'

LEMMA RememberedStays ==
  ASSUME NothingForgotten, NEW h \in Host, NEW s \in Subject, Remembered(h, s)
  PROVE  Remembered(h, s)'
<1>1. CASE \E rule \in AllRules : RuleMatches(rule, h, s)
  BY <1>1 DEF NothingForgotten, AllRules, RuleMatches, Remembered
<1>2. CASE \E g \in grants : Kept(g, h, s)
  BY <1>2 DEF NothingForgotten, Kept, Remembered
<1> QED BY <1>1, <1>2 DEF Remembered

(***************************************************************************)
(* An answer forgets nothing, and is remembered when it is meant to last:  *)
(* a rule or a grant covers what it was given for.                         *)
(***************************************************************************)
LEMMA RecordForgetsNothing ==
  ASSUME PolicyInv, NEW h \in Host, NEW s \in Subject, NEW c \in Choice, Record(h, s, c)
  PROVE  NothingForgotten /\ (Lasting(c) => Remembered(h, s)')
<1>0. /\ h \in Pattern /\ s \in Pattern /\ Wild \in Pattern /\ h # NoHost
      /\ h \in Covers[h] /\ s \in Covers[s] /\ s \in Covers[Wild]
  BY NamesArePatterns
<1>1. CASE c \in {"deny", "allowOnce"} /\ UNCHANGED policyVars
  BY <1>1 DEF NothingForgotten, policyVars, Lasting
<1>2. ASSUME NEW p \in {s, Wild}, NEW action \in Action, NEW left \in {Session, DefaultTTL},
             AddGrant(h, p, action, left)
      PROVE  /\ NothingForgotten
             /\ left = Session => Remembered(h, s)'
  <2> DEFINE new == [host |-> h, subject |-> p, action |-> action,
                     left |-> left, at |-> NextPlace]
  <2>1. grants' = Pruned \cup {new} /\ hostRules' = hostRules
    BY <1>2 DEF AddGrant
  <2>2. \A g \in grants : g.left = Session => g \in Pruned
    BY DEF Pruned, Live, Session
  <2>3. NothingForgotten
    BY <2>1, <2>2 DEF NothingForgotten
  <2>4. new \in grants' /\ new.left = left /\ new.host = h /\ new.subject = p
    BY <2>1
  <2>5. s \in Covers[p]
    BY <1>0
  <2> HIDE DEF new
  <2>6. left = Session => \E g \in grants' : Kept(g, h, s)'
    BY <2>4, <2>5 DEF Kept
  <2> QED BY <2>3, <2>6 DEF Remembered
<1>3. ASSUME NEW action \in Action,
             AppendRule([host |-> h, subject |-> s, action |-> action])
      PROVE  NothingForgotten /\ Remembered(h, s)'
  <2> DEFINE new == [host |-> h, subject |-> s, action |-> action]
  <2>1. new \in Rule
    BY <1>0 DEF Rule
  <2>2. ToSet(hostRules') = ToSet(hostRules) \cup {new} /\ grants' = grants
    BY <1>3, <2>1, AppendedRule DEF AppendRule, PolicyInv, PolicyTypeOK
  <2>3. RuleMatches(new, h, s)
    BY <1>0 DEF RuleMatches
  <2>4. NothingForgotten
    BY <2>2 DEF NothingForgotten
  <2> QED BY <2>2, <2>3, <2>4 DEF Remembered, AllRules
<1>4. CASE c \in {"allowTTL", "allowHostTTL"}
  BY <1>2, <1>4 DEF Record, Action, Lasting
<1>5. CASE c \in {"allowSession", "allowHostSession", "refuseSession"}
  BY <1>2, <1>5 DEF Record, Action
<1>6. CASE c \in {"allowAlways", "refuseAlways"}
  BY <1>3, <1>6 DEF Record, Action
<1> QED BY <1>1, <1>4, <1>5, <1>6 DEF Record

(***************************************************************************)
(* Nor do time, a write of the file or the tightening of a rule.           *)
(***************************************************************************)
LEMMA MeanwhileForgetsNothing ==
  ASSUME PolicyInv, Tick \/ Flush \/ \E i \in 1 .. Len(hostRules) : Deny(i)
  PROVE  NothingForgotten
<1>1. CASE Tick
  <2> DEFINE older(g) == [g EXCEPT !.left = IF g.left > 0 THEN g.left - 1 ELSE g.left]
  <2>1. grants' = {older(g) : g \in grants} /\ hostRules' = hostRules
    BY <1>1 DEF Tick, Elapse
  <2>2. \A g \in grants : g.left = Session => older(g) = g
    BY DEF PolicyInv, PolicyTypeOK, Grant, Session
  <2> HIDE DEF older
  <2> QED BY <2>1, <2>2 DEF NothingForgotten
<1>2. CASE Flush
  BY <1>2 DEF Flush, NothingForgotten
<1>3. ASSUME NEW i \in 1 .. Len(hostRules), Deny(i)
      PROVE  NothingForgotten
  <2>1. hostRules' = Tightened(hostRules, i) /\ grants' = grants
    BY <1>3 DEF Deny
  <2>2. /\ \A rule \in ToSet(hostRules) : rule \in ToSet(hostRules') \/ rule = hostRules[i]
        /\ \E rule \in ToSet(hostRules') :
             rule.host = hostRules[i].host /\ rule.subject = hostRules[i].subject
    BY <2>1, TightenedRule DEF PolicyInv, PolicyTypeOK
  <2> QED BY <2>1, <2>2 DEF NothingForgotten
<1> QED BY <1>1, <1>2, <1>3

(***************************************************************************)
(* What was settled stays remembered, until something is withdrawn.        *)
(***************************************************************************)
LEMMA StepRemembers ==
  ASSUME BrokerInv, SettledAreRemembered, [BrokerNext]_brokerVars
  PROVE  SettledAreRemembered'
<1>1. PolicyInv /\ choice \in [Request -> Menu]
  BY DEF BrokerInv, AnswersTypeOK
<1>2. ASSUME UNCHANGED <<policyVars, settled>>
      PROVE  SettledAreRemembered'
  BY <1>2 DEF SettledAreRemembered, Remembered, Kept, AllRules, policyVars
<1>3. ASSUME NothingForgotten, NEW h \in Host, NEW s \in Subject,
             settled' \subseteq settled \cup {<<h, s>>},
             settled' \subseteq settled \/ Remembered(h, s)'
      PROVE  SettledAreRemembered'
  BY <1>3, RememberedStays DEF SettledAreRemembered
<1>4. ASSUME NEW r \in Request, RecordAnswer(r)
      PROVE  SettledAreRemembered'
  <2>1. HostOf[r] \in Host /\ SubjectOf[r] \in Subject /\ choice[r] \in Choice
    BY <1>1, RequestsAreRequests
  <2>2. /\ Record(HostOf[r], SubjectOf[r], choice[r])
        /\ settled' = IF Lasting(choice[r])
                      THEN settled \cup {<<HostOf[r], SubjectOf[r]>>} ELSE settled
    BY <1>4 DEF RecordAnswer
  <2> QED BY <1>1, <1>3, <2>1, <2>2, RecordForgetsNothing
<1>5. CASE PolicyMoves
  <2>1. CASE settled' = {}
    BY <2>1 DEF SettledAreRemembered
  <2>2. CASE /\ Tick \/ Flush \/ \E i \in 1 .. Len(hostRules) : Deny(i)
             /\ UNCHANGED settled
    BY <1>1, <2>2, MeanwhileForgetsNothing, RememberedStays DEF SettledAreRemembered
  <2> QED BY <1>5, <2>1, <2>2 DEF PolicyMoves
<1>6. ASSUME NEW r \in Request,
             \/ DecidedByPolicy(r) \/ Queue(r) \/ Put(r) \/ Abandon(r) \/ TooLate(r)
             \/ InTime(r) \/ Acquire(r) \/ Release(r) \/ End(r)
      PROVE  SettledAreRemembered'
  BY <1>2, <1>6 DEF DecidedByPolicy, Queue, Put, Abandon, TooLate, InTime, Acquire,
                    Release, End, historyVars
<1>7. ASSUME NEW r \in Request, NEW c \in Menu, Return(r, c)
      PROVE  SettledAreRemembered'
  BY <1>2, <1>7 DEF Return
<1>8. CASE SetPrompter \/ UNCHANGED brokerVars
  BY <1>2, <1>8 DEF SetPrompter, brokerVars, historyVars
<1> QED BY <1>4, <1>5, <1>6, <1>7, <1>8 DEF BrokerNext, RequestStep

(***************************************************************************)
(* After an answer meant to last, no later request for the same thing is   *)
(* put to anybody until something is withdrawn, whatever else is answered, *)
(* tightened, forgotten by time or written again in between.               *)
(***************************************************************************)
THEOREM AskedOnce == BrokerSpec => NotAskedTwice
<1>1. BrokerInit => SettledAreRemembered
  BY DEF BrokerInit, SettledAreRemembered
<1>2. BrokerInv /\ SettledAreRemembered /\ [BrokerNext]_brokerVars => SettledAreRemembered'
  BY StepRemembers
<1>3. BrokerInv /\ SettledAreRemembered =>
        \A r \in Request : Queue(r) => <<HostOf[r], SubjectOf[r]>> \notin settled
  <2> SUFFICES ASSUME BrokerInv, SettledAreRemembered, NEW r \in Request, Queue(r),
                      <<HostOf[r], SubjectOf[r]>> \in settled
               PROVE  FALSE
    OBVIOUS
  <2>1. HostOf[r] \in Host /\ SubjectOf[r] \in Subject
    BY RequestsAreRequests
  <2>2. Remembered(HostOf[r], SubjectOf[r])
    BY <2>1 DEF SettledAreRemembered
  <2> QED BY <2>1, <2>2, RememberedIsDecided DEF Queue, BrokerInv
<1>4. BrokerInv /\ SettledAreRemembered /\ [BrokerNext]_brokerVars =>
        [\A r \in Request : Queue(r) => <<HostOf[r], SubjectOf[r]>> \notin settled]_brokerVars
  BY <1>3
<1> QED BY <1>1, <1>2, <1>4, BrokerInvariance, PTL DEF BrokerSpec, NotAskedTwice
=============================================================================
