------------------------------ MODULE Prompter ------------------------------
(***************************************************************************)
(* What prompt.Prompter promises whoever asks it: a question ends in an    *)
(* answer a person gave to that very question while it was still open, or  *)
(* in a refusal. How many places the question was put, and who else was    *)
(* asked, is the business of whatever implements it (module Desk).         *)
(***************************************************************************)
CONSTANTS
  Request,       \* the questions that may be asked
  Choice,        \* the answers a person may give
  Deny,          \* "no", the answer of a question nobody answered
  Nothing        \* no answer yet

VARIABLES
  phase,         \* phase[r]: "idle", "asking" or "done"
  said,          \* said[r]: the answers people gave to question r
  over,          \* the questions whose context has ended: timed out or dropped
  choice         \* choice[r]: what Ask returned

promptVars == <<phase, said, over, choice>>

PromptInit ==
  /\ phase = [r \in Request |-> "idle"]
  /\ said = [r \in Request |-> {}]
  /\ over = {}
  /\ choice = [r \in Request |-> Nothing]

Ask(r) ==
  /\ phase[r] = "idle"
  /\ phase' = [phase EXCEPT ![r] = "asking"]
  /\ UNCHANGED <<said, over, choice>>

Say(r, c) ==
  /\ phase[r] # "idle"
  /\ said' = [said EXCEPT ![r] = @ \cup {c}]
  /\ UNCHANGED <<phase, over, choice>>

End(r) ==
  /\ r \notin over
  /\ over' = over \cup {r}
  /\ UNCHANGED <<phase, said, choice>>

Return(r, c) ==
  /\ phase[r] = "asking"
  /\ c = Deny \/ (c \in said[r] /\ r \notin over)
  /\ phase' = [phase EXCEPT ![r] = "done"]
  /\ choice' = [choice EXCEPT ![r] = c]
  /\ UNCHANGED <<said, over>>

PromptNext ==
  \E r \in Request : \/ Ask(r) \/ End(r)
                     \/ \E c \in Choice : Say(r, c) \/ Return(r, c)

PromptSpec == PromptInit /\ [][PromptNext]_promptVars
=============================================================================
