------------------------------ MODULE MCAgents ------------------------------
(***************************************************************************)
(* Two connections at a time over two links, one key and two host keys,    *)
(* one of which known_hosts has no readable name for. One of the two is of *)
(* an ssh client; the other is of either service.                          *)
(***************************************************************************)
EXTENDS Agents

CONSTANTS c1, c2, github, other, laptop

KnownAsDef == [h \in {github, other} |-> IF h = github THEN "github.com" ELSE "SHA256"]

MCNext == AgentsNext /\ svc'[c1] = "ssh-agent"
MCSpec == AgentsInit /\ [][MCNext]_agentsVars /\ AgentsFairness
=============================================================================
