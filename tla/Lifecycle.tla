----------------------------- MODULE Lifecycle -----------------------------
(***************************************************************************)
(* What a session promises every service it runs (internal/service): an    *)
(* Instance is attached, run, and closed exactly once; it is closed only   *)
(* when no Run of the connection is still going; services are closed in    *)
(* the reverse of the order they were attached in; and a service is        *)
(* attached again only after that. Nothing here says what a connection is. *)
(***************************************************************************)
EXTENDS SequencesExt

CONSTANT Service

VARIABLES
  attached,      \* the services with an instance, in the order of Attach
  life           \* life[s]: what the instance of s is doing

lifeVars == <<attached, life>>

LifeInit ==
  /\ attached = <<>>
  /\ life = [s \in Service |-> "none"]

Going == \E s \in Service : life[s] = "running"

Attach(s) ==
  /\ life[s] = "none"
  /\ \A other \in Service : life[other] \in {"none", "attached"}
  /\ attached' = Append(attached, s)
  /\ life' = [life EXCEPT ![s] = "attached"]

\* Every instance is started together.
Start ==
  /\ \A s \in Service : life[s] \in {"none", "attached"}
  /\ life' = [s \in Service |-> IF life[s] = "attached" THEN "running" ELSE "none"]
  /\ UNCHANGED attached

RunReturns(s) ==
  /\ life[s] = "running"
  /\ life' = [life EXCEPT ![s] = "returned"]
  /\ UNCHANGED attached

Close ==
  /\ attached # <<>> /\ ~Going
  /\ LET s == Last(attached)
     IN  /\ life[s] = "returned"
         /\ life' = [life EXCEPT ![s] = "none"]
  /\ attached' = Front(attached)

LifeNext ==
  \/ \E s \in Service : Attach(s) \/ RunReturns(s)
  \/ Start
  \/ Close

(***************************************************************************)
(* Once every Run has returned, every instance is closed.                  *)
(***************************************************************************)
LifeSpec == LifeInit /\ [][LifeNext]_lifeVars /\ WF_lifeVars(Close)
=============================================================================
