------------------------------- MODULE Policy -------------------------------
(***************************************************************************)
(* The policy store of internal/authz: the rules a person wrote or had     *)
(* written for them, the live grants an answered prompt left behind, and   *)
(* the verdict the two give on one request.                                *)
(*                                                                         *)
(* Every method of Store runs under Store.mu from its first line to its    *)
(* return, so each is one action here. A behaviour is one run of devtun:   *)
(* it starts with the rules a host file held and ends with the process.    *)
(*                                                                         *)
(* Abstracted: Match is the relation Covers (glob.go itself is an          *)
(* algorithm on strings); instants are counted down by Tick instead of     *)
(* being compared with a clock; the text of a verdict, notes and the time  *)
(* a rule was added are left out.                                          *)
(*                                                                         *)
(* An operator whose comment begins "Mutation:" is the definition after it *)
(* with one plausible slip. No specification uses it; putting it in that   *)
(* definition's place shows that a property notices the slip.              *)
(***************************************************************************)
EXTENDS Integers, Sequences, FiniteSetsExt, SequencesExt

CONSTANTS
  Host,          \* SSH destinations a request can come from
  Subject,       \* what is asked for: a secret, a key, a site, a port
  Pattern,       \* host and subject patterns of rules and grants
  Wild,          \* "**", the pattern of a host-wide grant
  NoHost,        \* the empty host pattern of a rule
  Covers,        \* Covers[p]: the hosts and subjects Match accepts for p
  GlobalRules,   \* the rules of the user's own config file
  HostRules,     \* the rule lists a host file may hold when devtun starts
  DefaultTTL,    \* ticks a "for a while" grant lasts
  MaxRules,      \* bound: nobody answers "always" or "never" past this
  MaxGrants      \* bound: nobody leaves a grant past this place

Action == {"allow", "deny"}
Rule == [host : Pattern, subject : Pattern, action : Action]

(***************************************************************************)
(* A destination is a name, not a glob: as a pattern it covers itself and  *)
(* no other destination. A subject may hold a glob character.              *)
(* NamesMatchThemselves (Policy_proofs) is this, proved of glob.go.        *)
(***************************************************************************)
ASSUME NamesArePatterns ==
  /\ Host \cup Subject \cup {Wild, NoHost} \subseteq Pattern
  /\ NoHost \notin Host
  /\ Covers \in [Pattern -> SUBSET (Host \cup Subject)]
  /\ \A h \in Host : Covers[h] \cap Host = {h}
  /\ \A s \in Subject : s \in Covers[s]
  /\ Host \cup Subject \subseteq Covers[Wild]

ASSUME RulesAreRules ==
  /\ GlobalRules \subseteq Rule
  /\ HostRules \subseteq Seq(Rule)

ASSUME BoundsAreNumbers ==
  DefaultTTL \in Nat \ {0} /\ MaxRules \in Nat /\ MaxGrants \in Nat

VARIABLES
  hostRules,     \* the host's own rules, in the order Rules() lists them
  grants,        \* live and lapsed grants; `at` is the place in the slice
  saved,         \* the rules the host file on disk holds
  unsaved        \* whether the last write of the host file failed

policyVars == <<hostRules, grants, saved, unsaved>>

(***************************************************************************)
(* expires.IsZero() is "for the rest of this session"; a grant that has    *)
(* run out stays in the slice, with nothing left, until the next prune.    *)
(***************************************************************************)
Session == -1
Grant == [host : Host, subject : Pattern, action : Action,
          left : {Session} \cup 0 .. DefaultTTL, at : Nat]

PolicyTypeOK ==
  /\ hostRules \in Seq(Rule)
  /\ grants \subseteq Grant /\ IsFiniteSet(grants)
  /\ \A g, other \in grants : g.at = other.at => g = other
  /\ saved \in Seq(Rule)
  /\ unsaved \in BOOLEAN

PolicyInit ==
  /\ hostRules \in HostRules
  /\ grants = {}
  /\ saved = hostRules
  /\ unsaved = FALSE
-----------------------------------------------------------------------------
(***************************************************************************)
(* The verdict on a request.                                               *)
(***************************************************************************)
Live(g) == g.left # 0

RuleMatches(rule, h, s) ==
  /\ h \in Covers[IF rule.host = NoHost THEN Wild ELSE rule.host]
  /\ s \in Covers[rule.subject]

\* Mutation: a grant answers for every host.
GrantMatchesAnyHost(g, h, s) == Live(g) /\ s \in Covers[g.subject]

GrantMatches(g, h, s) == g.host = h /\ Live(g) /\ s \in Covers[g.subject]

AllRules == GlobalRules \cup ToSet(hostRules)

RulesSay(action, h, s) ==
  \E rule \in AllRules : rule.action = action /\ RuleMatches(rule, h, s)

MatchingGrants(action, h, s) ==
  {g \in grants : g.action = action /\ GrantMatches(g, h, s)}

Denied(h, s) ==
  RulesSay("deny", h, s) \/ MatchingGrants("deny", h, s) # {}

Approved(h, s) ==
  RulesSay("allow", h, s) \/ MatchingGrants("allow", h, s) # {}

\* Mutation: approvals are consulted before refusals.
DecideApprovalsFirst(h, s) ==
  IF Approved(h, s) THEN "allow"
  ELSE IF Denied(h, s) THEN "deny"
  ELSE "ask"

Decide(h, s) ==
  IF Denied(h, s) THEN "deny"
  ELSE IF Approved(h, s) THEN "allow"
  ELSE "ask"
-----------------------------------------------------------------------------
(***************************************************************************)
(* Recording an answer. A save writes the whole list; when it fails the    *)
(* list in memory keeps the change.                                        *)
(***************************************************************************)
Save(rules) ==
  \E failed \in BOOLEAN :
    /\ unsaved' = failed
    /\ saved' = IF failed THEN saved ELSE rules

AppendRule(rule) ==
  /\ hostRules' = Append(hostRules, rule)
  /\ Save(hostRules')
  /\ UNCHANGED grants

Pruned == {g \in grants : Live(g)}

NextPlace == 1 + Max({0} \cup {g.at : g \in Pruned})

\* Mutation: every grant expires, one for the rest of the session included.
AddGrantExpiring(h, pattern, action, left) ==
  /\ grants' = Pruned \cup
               {[host |-> h, subject |-> pattern, action |-> action,
                 left |-> DefaultTTL, at |-> NextPlace]}
  /\ UNCHANGED <<hostRules, saved, unsaved>>

AddGrant(h, pattern, action, left) ==
  /\ grants' = Pruned \cup
               {[host |-> h, subject |-> pattern, action |-> action,
                 left |-> left, at |-> NextPlace]}
  /\ UNCHANGED <<hostRules, saved, unsaved>>

Choice == {"deny", "allowOnce", "allowTTL", "allowSession", "allowAlways",
           "allowHostTTL", "allowHostSession", "refuseSession", "refuseAlways"}

Allows(choice) == choice \notin {"deny", "refuseSession", "refuseAlways"}

LeavesGrant(choice) ==
  choice \in {"allowTTL", "allowSession", "allowHostTTL", "allowHostSession",
              "refuseSession"}

LeavesRule(choice) == choice \in {"allowAlways", "refuseAlways"}

Record(h, s, choice) ==
  \/ choice \in {"deny", "allowOnce"} /\ UNCHANGED policyVars
  \/ choice = "allowTTL" /\ AddGrant(h, s, "allow", DefaultTTL)
  \/ choice = "allowHostTTL" /\ AddGrant(h, Wild, "allow", DefaultTTL)
  \/ choice = "allowSession" /\ AddGrant(h, s, "allow", Session)
  \/ choice = "allowHostSession" /\ AddGrant(h, Wild, "allow", Session)
  \/ choice = "refuseSession" /\ AddGrant(h, s, "deny", Session)
  \/ /\ choice = "allowAlways"
     /\ AppendRule([host |-> h, subject |-> s, action |-> "allow"])
  \/ /\ choice = "refuseAlways"
     /\ AppendRule([host |-> h, subject |-> s, action |-> "deny"])
-----------------------------------------------------------------------------
(***************************************************************************)
(* What the Access tab and the web board do to the store. A rule is named  *)
(* by its index, so an index a page was given earlier may have come to     *)
(* name another rule; a grant is named by what it covers, and the first in *)
(* the slice that fits is the one dropped, whatever it decided.            *)
(***************************************************************************)
Revoke(i) ==
  /\ i \in 1 .. Len(hostRules)
  /\ hostRules' = RemoveAt(hostRules, i)
  /\ Save(hostRules')
  /\ UNCHANGED grants

Tightened(rules, i) == [rules EXCEPT ![i].action = "deny"]

\* Mutation: the tightened rule is not written out.
DenyUnsaved(i) ==
  /\ i \in 1 .. Len(hostRules)
  /\ hostRules[i].action # "deny"
  /\ hostRules' = Tightened(hostRules, i)
  /\ UNCHANGED <<grants, saved, unsaved>>

\* Mutation: the key turns a refusal back into an approval as well.
DenyToggling(i) ==
  /\ i \in 1 .. Len(hostRules)
  /\ hostRules' = [hostRules EXCEPT ![i].action =
                     IF @ = "deny" THEN "allow" ELSE "deny"]
  /\ Save(hostRules')
  /\ UNCHANGED grants

Deny(i) ==
  /\ i \in 1 .. Len(hostRules)
  /\ hostRules[i].action # "deny"
  /\ hostRules' = Tightened(hostRules, i)
  /\ Save(hostRules')
  /\ UNCHANGED grants

FirstFor(h, pattern) ==
  {g \in grants : /\ g.host = h /\ g.subject = pattern
                  /\ \A other \in grants :
                       other.host = h /\ other.subject = pattern => g.at <= other.at}

RevokeGrant(h, pattern) ==
  /\ FirstFor(h, pattern) # {}
  /\ grants' = grants \ FirstFor(h, pattern)
  /\ UNCHANGED <<hostRules, saved, unsaved>>

ForgetGrants ==
  /\ grants # {}
  /\ grants' = {}
  /\ UNCHANGED <<hostRules, saved, unsaved>>

(***************************************************************************)
(* Time, and any later write of the host file: hostcfg writes the whole    *)
(* document whenever one of its sections changes and once more on exit, so *)
(* a write that failed is made good by the next one that succeeds.         *)
(***************************************************************************)
\* Mutation: session grants, which have no expiry, are counted down too.
ElapseSessions(gs) == {[g EXCEPT !.left = IF g.left # 0 THEN g.left - 1 ELSE 0] : g \in gs}

Elapse(gs) == {[g EXCEPT !.left = IF g.left > 0 THEN g.left - 1 ELSE g.left] : g \in gs}

Tick ==
  /\ grants' = Elapse(grants)
  /\ UNCHANGED <<hostRules, saved, unsaved>>

Flush ==
  /\ unsaved
  /\ saved' = hostRules
  /\ unsaved' = FALSE
  /\ UNCHANGED <<hostRules, grants>>

Withdraw ==
  \/ \E i \in 1 .. Len(hostRules) : Revoke(i)
  \/ \E h \in Host, p \in Pattern : RevokeGrant(h, p)
  \/ ForgetGrants

(***************************************************************************)
(* The bounds of an instance restrict what people answer, never what the   *)
(* store does with an answer.                                              *)
(***************************************************************************)
Room(choice) ==
  /\ LeavesRule(choice) => Len(hostRules) < MaxRules
  /\ LeavesGrant(choice) => NextPlace <= MaxGrants

Answered(h, s, choice) == Room(choice) /\ Record(h, s, choice)

PolicyNext ==
  \/ \E h \in Host, s \in Subject, choice \in Choice : Answered(h, s, choice)
  \/ \E i \in 1 .. Len(hostRules) : Deny(i)
  \/ Withdraw
  \/ Tick
  \/ Flush

PolicySpec == PolicyInit /\ [][PolicyNext]_policyVars
-----------------------------------------------------------------------------
(***************************************************************************)
(* A refusal stands until a person takes it back. Once a request would be  *)
(* refused, no answer to another question (not even "yes to anything from  *)
(* this host"), no passage of time, no pruning of lapsed grants and no     *)
(* tightening of a rule makes Decide say anything else; only revoking a    *)
(* rule, revoking a grant or forgetting the grants can.                    *)
(***************************************************************************)
RefusalsStand ==
  [][\A h \in Host, s \in Subject :
       Decide(h, s) = "deny" /\ Decide(h, s)' # "deny" => Withdraw]_policyVars

(***************************************************************************)
(* Access opens only by a decision about it. A request that Decide would   *)
(* not have allowed becomes allowed only through an allowing answer given  *)
(* for the same host (and, unless the answer was host-wide, for a subject  *)
(* pattern that covers it), or because a person took back a refusal.       *)
(***************************************************************************)
AnswerOpens(h, s) ==
  \E asked \in Subject, choice \in Choice :
    /\ Allows(choice)
    /\ s \in Covers[asked] \/ choice \in {"allowHostTTL", "allowHostSession"}
    /\ Record(h, asked, choice)

OpensOnlyByDecision ==
  [][\A h \in Host, s \in Subject :
       Decide(h, s) # "allow" /\ Decide(h, s)' = "allow" =>
         AnswerOpens(h, s) \/ (Denied(h, s) /\ Withdraw)]_policyVars

(***************************************************************************)
(* "D" on the Access tab only tightens: whatever rule the index names by   *)
(* the time it is used, every verdict afterwards is what it was or a       *)
(* refusal.                                                                *)
(***************************************************************************)
DenyOnlyTightens ==
  [][(\E i \in 1 .. Len(hostRules) : Deny(i)) =>
       \A h \in Host, s \in Subject :
         Decide(h, s)' \in {Decide(h, s), "deny"}]_policyVars

(***************************************************************************)
(* A decision reported as written down is on disk: unless the last write   *)
(* of the host file failed, the next run starts with exactly the rules     *)
(* this one is applying, whichever of append, revoke and deny came last.   *)
(***************************************************************************)
DiskFollowsMemory == unsaved \/ saved = hostRules
=============================================================================
