------------------------------- MODULE Broker -------------------------------
(***************************************************************************)
(* Deciding one request, end to end: Broker.Authorize of internal/authz    *)
(* behind a Gate, whose prompter is a Serialize (internal/prompt) around   *)
(* whatever asks people. One gate, the requests of one host and service,   *)
(* each served on a goroutine of its own.                                  *)
(*                                                                         *)
(* What asks people is taken at its promise (module Prompter, which module *)
(* Desk implements): a question ends in "no", or in an answer given before *)
(* its deadline. An Ask that fails refuses and records nothing, as "no"    *)
(* does, and is not told from it.                                          *)
(*                                                                         *)
(* A step runs to the next point where another goroutine can: a return     *)
(* from Store.mu, the mutex of Serialize, a select, the deadline.          *)
(***************************************************************************)
EXTENDS Policy

CONSTANTS
  Request,       \* the requests made in a behaviour, each once
  HostOf,        \* HostOf[r]: the destination r came from
  SubjectOf,     \* SubjectOf[r]: what r asks for
  Menu,          \* the answers people choose from
  Nobody,        \* nobody holds the mutex
  MaxSwaps       \* bound: how often SetPrompter is called during a behaviour

ASSUME RequestsAreRequests ==
  /\ HostOf \in [Request -> Host]
  /\ SubjectOf \in [Request -> Subject]
  /\ "deny" \in Menu /\ Menu \subseteq Choice
  /\ Nobody \notin Request
  /\ MaxSwaps \in Nat

VARIABLES
  swaps,         \* how often the prompter was replaced; names the current one
  pc,            \* pc[r]: where Authorize(r) is
  via,           \* via[r]: the prompter r is asked through
  mutex,         \* mutex[p]: whose goroutine holds the mutex of prompter p
  waiters,       \* the requests whose goroutine is blocked in mu.Lock
  abandoned,     \* the requests that left the queue before their turn came
  over,          \* the requests whose context has ended: timed out or hung up
  choice,        \* choice[r]: what Ask returned
  outcome,       \* outcome[r]: what Authorize returned
  settled,       \* <<host, subject>> pairs lastingly answered (history)
  forbidden      \* requests answered under a rule that denies them (history)

historyVars == <<settled, forbidden>>
queueVars == <<swaps, via, mutex, waiters, abandoned>>
brokerVars == <<policyVars, queueVars, pc, over, choice, outcome, historyVars>>

BrokerTypeOK ==
  /\ PolicyTypeOK
  /\ swaps \in 0 .. MaxSwaps
  /\ pc \in [Request -> {"idle", "queued", "asking", "answered", "recording", "done"}]
  /\ via \in [Request -> 0 .. MaxSwaps]
  /\ mutex \in [0 .. MaxSwaps -> Request \cup {Nobody}]
  /\ waiters \subseteq Request /\ abandoned \subseteq Request /\ over \subseteq Request
  /\ choice \in [Request -> Menu]
  /\ outcome \in [Request -> {"none", "allowed", "refused"}]
  /\ settled \subseteq Host \X Subject /\ forbidden \subseteq Request

BrokerInit ==
  /\ PolicyInit
  /\ swaps = 0
  /\ pc = [r \in Request |-> "idle"]
  /\ via = [r \in Request |-> 0]
  /\ mutex = [p \in 0 .. MaxSwaps |-> Nobody]
  /\ waiters = {} /\ abandoned = {} /\ over = {}
  /\ choice = [r \in Request |-> "deny"]
  /\ outcome = [r \in Request |-> "none"]
  /\ settled = {} /\ forbidden = {}
-----------------------------------------------------------------------------
Moves(r, from, to) == pc[r] = from /\ pc' = [pc EXCEPT ![r] = to]

Settles(r, allowed) ==
  outcome' = [outcome EXCEPT ![r] = IF allowed THEN "allowed" ELSE "refused"]

(***************************************************************************)
(* Policy first. The gate's prompter is read a moment before the store is, *)
(* with no lock, so a request may go on with one already replaced.         *)
(***************************************************************************)
DecidedByPolicy(r) ==
  LET verdict == Decide(HostOf[r], SubjectOf[r])
  IN  /\ verdict # "ask"
      /\ Moves(r, "idle", "done")
      /\ Settles(r, verdict = "allow")
      /\ UNCHANGED <<policyVars, queueVars, over, choice, historyVars>>

Queue(r) ==
  /\ Decide(HostOf[r], SubjectOf[r]) = "ask"
  /\ Moves(r, "idle", "queued")
  /\ \E p \in 0 .. swaps : via' = [via EXCEPT ![r] = p]
  /\ waiters' = waiters \cup {r}
  /\ UNCHANGED <<policyVars, swaps, mutex, abandoned, over, choice, outcome, historyVars>>

(***************************************************************************)
(* Serialize. A goroutine per request blocks on the mutex while Ask waits  *)
(* for it or for the context; one whose request gave up unlocks as soon as *)
(* it has the lock.                                                        *)
(***************************************************************************)
Acquire(r) ==
  /\ r \in waiters
  /\ mutex[via[r]] = Nobody
  /\ waiters' = waiters \ {r}
  /\ mutex' = [mutex EXCEPT ![via[r]] = r]
  /\ UNCHANGED <<policyVars, swaps, via, abandoned, pc, over, choice, outcome, historyVars>>

Put(r) ==
  /\ mutex[via[r]] = r
  /\ Moves(r, "queued", "asking")
  /\ UNCHANGED <<policyVars, queueVars, over, choice, outcome, historyVars>>

\* Mutation: a request that gives up unlocks without waiting for the lock.
AbandonUnlocking(r) ==
  /\ r \in over
  /\ Moves(r, "queued", "answered")
  /\ mutex' = [mutex EXCEPT ![via[r]] = Nobody]
  /\ UNCHANGED <<policyVars, swaps, via, waiters, abandoned, over, choice, outcome, historyVars>>

\* Mutation: nothing unlocks for a request that gave up.
AbandonLeaking(r) ==
  /\ r \in over
  /\ Moves(r, "queued", "answered")
  /\ UNCHANGED <<policyVars, queueVars, over, choice, outcome, historyVars>>

\* Mutation: a plain mu.Lock, which does not notice the context.
AbandonInTurn(r) ==
  /\ r \in over
  /\ mutex[via[r]] = r
  /\ Moves(r, "queued", "answered")
  /\ abandoned' = abandoned \cup {r}
  /\ UNCHANGED <<policyVars, swaps, via, mutex, waiters, over, choice, outcome, historyVars>>

Abandon(r) ==
  /\ r \in over
  /\ Moves(r, "queued", "answered")
  /\ abandoned' = abandoned \cup {r}
  /\ UNCHANGED <<policyVars, swaps, via, mutex, waiters, over, choice, outcome, historyVars>>

Release(r) ==
  /\ r \in abandoned
  /\ mutex[via[r]] = r
  /\ mutex' = [mutex EXCEPT ![via[r]] = Nobody]
  /\ abandoned' = abandoned \ {r}
  /\ UNCHANGED <<policyVars, swaps, via, waiters, pc, over, choice, outcome, historyVars>>

Return(r, c) ==
  /\ c = "deny" \/ r \notin over
  /\ Moves(r, "asking", "answered")
  /\ choice' = [choice EXCEPT ![r] = c]
  /\ mutex' = [mutex EXCEPT ![via[r]] = Nobody]
  /\ forbidden' = IF RulesSay("deny", HostOf[r], SubjectOf[r])
                  THEN forbidden \cup {r} ELSE forbidden
  /\ UNCHANGED <<policyVars, swaps, via, waiters, abandoned, over, outcome, settled>>
-----------------------------------------------------------------------------
(***************************************************************************)
(* The answer. The deadline is looked at once more; an answer in time is   *)
(* written back, a "no" leaving no trace.                                  *)
(***************************************************************************)
\* Mutation: the deadline is not looked at again.
TooLateNever(r) ==
  /\ r \in over
  /\ Moves(r, "answered", "recording")
  /\ UNCHANGED <<policyVars, queueVars, over, choice, outcome, historyVars>>

TooLate(r) ==
  /\ r \in over
  /\ Moves(r, "answered", "done")
  /\ Settles(r, FALSE)
  /\ UNCHANGED <<policyVars, queueVars, over, choice, historyVars>>

InTime(r) ==
  /\ r \notin over
  /\ Moves(r, "answered", "recording")
  /\ UNCHANGED <<policyVars, queueVars, over, choice, outcome, historyVars>>

Lasting(c) == c \in {"allowSession", "allowHostSession", "allowAlways",
                     "refuseSession", "refuseAlways"}

RecordAnswer(r) ==
  /\ Moves(r, "recording", "done")
  /\ Record(HostOf[r], SubjectOf[r], choice[r])
  /\ Settles(r, Allows(choice[r]))
  /\ settled' = IF Lasting(choice[r])
                THEN settled \cup {<<HostOf[r], SubjectOf[r]>>} ELSE settled
  /\ UNCHANGED <<queueVars, over, choice, forbidden>>
-----------------------------------------------------------------------------
(***************************************************************************)
(* What happens meanwhile: contexts end, the prompt setting replaces the   *)
(* gate's prompter, people use the Access tab and the board, time passes.  *)
(***************************************************************************)
End(r) ==
  /\ r \notin over /\ pc[r] # "done"
  /\ over' = over \cup {r}
  /\ UNCHANGED <<policyVars, queueVars, pc, choice, outcome, historyVars>>

SetPrompter ==
  /\ swaps < MaxSwaps
  /\ swaps' = swaps + 1
  /\ UNCHANGED <<policyVars, via, mutex, waiters, abandoned, pc, over, choice, outcome>>
  /\ UNCHANGED historyVars

PolicyMoves ==
  /\ \/ Withdraw /\ settled' = {}
     \/ (Tick \/ Flush \/ \E i \in 1 .. Len(hostRules) : Deny(i)) /\ UNCHANGED settled
  /\ UNCHANGED <<queueVars, pc, over, choice, outcome, forbidden>>

RequestStep(r) ==
  \/ DecidedByPolicy(r) \/ Queue(r) \/ Put(r) \/ Abandon(r)
  \/ TooLate(r) \/ InTime(r) \/ RecordAnswer(r)

BrokerNext ==
  \/ \E r \in Request : RequestStep(r) \/ Acquire(r) \/ Release(r) \/ End(r)
  \/ \E r \in Request, c \in Menu : Return(r, c)
  \/ SetPrompter
  \/ PolicyMoves

(***************************************************************************)
(* Goroutines are scheduled, and a prompter gives up a question whose      *)
(* context has ended. Weak fairness of the mutex is enough: a request      *)
(* takes it once. That contexts end, that requests come or that anybody    *)
(* answers is not assumed.                                                 *)
(***************************************************************************)
BrokerFairness ==
  \A r \in Request :
    /\ WF_brokerVars(\/ Put(r) \/ Abandon(r) \/ TooLate(r) \/ InTime(r)
                     \/ RecordAnswer(r) \/ (r \in over /\ Return(r, "deny")))
    /\ WF_brokerVars(Acquire(r) \/ Release(r))

BrokerSpec == BrokerInit /\ [][BrokerNext]_brokerVars /\ BrokerFairness
-----------------------------------------------------------------------------
(***************************************************************************)
(* One question at a time: two requests asked through the same prompter    *)
(* are never in front of a person together, whoever gave up in the queue   *)
(* between them; the mutex is only ever held by one that is still asked,   *)
(* about to be, or due to give it back.                                    *)
(***************************************************************************)
OneQuestion ==
  /\ \A r, other \in Request :
       pc[r] = "asking" /\ pc[other] = "asking" /\ via[r] = via[other] => r = other
  /\ \A p \in 0 .. MaxSwaps :
       mutex[p] # Nobody =>
         /\ via[mutex[p]] = p
         /\ pc[mutex[p]] \in {"queued", "asking"} \/ mutex[p] \in abandoned

(***************************************************************************)
(* An answer that races the deadline and loses leaves no trace: the        *)
(* request is refused and the store is not touched on its behalf.          *)
(***************************************************************************)
LateAnswersLeaveNoTrace ==
  [][\A r \in Request :
       pc[r] = "answered" /\ r \in over /\ pc'[r] # "answered" =>
         outcome'[r] = "refused" /\ UNCHANGED policyVars]_brokerVars

(***************************************************************************)
(* The same question is not asked twice: after an answer meant to last, no *)
(* request for the same thing that comes later is put to anybody, until    *)
(* something is withdrawn from the store. (One already in the queue is.)   *)
(***************************************************************************)
NotAskedTwice ==
  [][\A r \in Request : Queue(r) => <<HostOf[r], SubjectOf[r]>> \notin settled]_brokerVars

(***************************************************************************)
(* A request whose caller has gone is let go of, even while the question   *)
(* in front of it stays on the screen for ever.                            *)
(***************************************************************************)
EndedRequestsSettle ==
  \A r \in Request : (r \in over /\ pc[r] # "idle") ~> pc[r] = "done"

(***************************************************************************)
(* When every request in the gate has ended (the link to the host dropped) *)
(* no goroutine stays behind and the mutex is free again.                  *)
(***************************************************************************)
HangupFreesTheGate ==
  Request \subseteq over ~> waiters = {} /\ \A p \in 0 .. MaxSwaps : mutex[p] = Nobody

(***************************************************************************)
(* The gate lets go of a request that has ended, alone or with all the     *)
(* others, whoever is in front of it in the queue.                         *)
(***************************************************************************)
GateSettles == EndedRequestsSettle /\ HangupFreesTheGate

(***************************************************************************)
(* internal/prompt/prompt.go, of "never": a deny beats every allow,        *)
(* including one clicked through later.                                    *)
(***************************************************************************)
NoAllowUnderDeny == \A r \in forbidden : outcome[r] # "allowed"
=============================================================================
