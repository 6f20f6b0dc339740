---------------------------- MODULE Policy_proofs ----------------------------
(***************************************************************************)
(* Proofs about the policy store, for any hosts, subjects, patterns, rules *)
(* and bounds; and about the matching of patterns it rests on, for any     *)
(* pattern and subject.                                                    *)
(***************************************************************************)
EXTENDS Policy, Glob, FiniteSetTheorems, SequenceTheorems, WellFoundedInduction, TLAPS

(***************************************************************************)
(* Every non-empty set of naturals has a least element.                    *)
(***************************************************************************)
LEMMA LeastNat ==
  ASSUME NEW S \in SUBSET Nat, S # {}
  PROVE  \E n \in S : \A m \in S : n <= m
<1>1. \E n \in S : \A m \in S : <<m, n>> \notin OpToRel(<, Nat)
  BY NatLessThanWellFounded, WFMin
<1>2. PICK n \in S : \A m \in S : <<m, n>> \notin OpToRel(<, Nat)
  BY <1>1
<1>3. \A m \in S : ~(m < n)
  BY <1>2 DEF OpToRel
<1> QED BY <1>3

(***************************************************************************)
(* A finite set of naturals is bounded: otherwise some prefix of an        *)
(* enumeration of it would be the shortest that is not.                    *)
(***************************************************************************)
LEMMA FiniteIsBounded ==
  ASSUME NEW S \in SUBSET Nat, IsFiniteSet(S)
  PROVE  \E b \in Nat : \A n \in S : n <= b
<1>1. PICK k \in Nat : ExistsSurjection(1 .. k, S)
  BY FS_NatSurjection
<1>2. PICK f \in Surjection(1 .. k, S) : TRUE
  BY <1>1 DEF ExistsSurjection
<1>3. /\ f \in [1 .. k -> S]
      /\ \A n \in S : \E i \in 1 .. k : f[i] = n
  BY <1>2 DEF Surjection
<1> DEFINE Bounds(b, j) == \A i \in 1 .. k : i <= j => f[i] <= b
           Bad == {j \in 0 .. k : \A b \in Nat : ~Bounds(b, j)}
<1>4. Bad = {}
  <2> SUFFICES ASSUME Bad # {} PROVE FALSE
    OBVIOUS
  <2>1. PICK j \in Bad : \A m \in Bad : j <= m
    <3>1. Bad \in SUBSET Nat
      OBVIOUS
    <3> HIDE DEF Bad
    <3> QED BY <3>1, LeastNat
  <2>2. j \in 0 .. k /\ \A b \in Nat : ~Bounds(b, j)
    OBVIOUS
  <2>3. j # 0
    <3>1. Bounds(0, 0)
      OBVIOUS
    <3> QED BY <2>2, <3>1
  <2>4. j \in 1 .. k /\ j - 1 \in 0 .. k /\ ~(j <= j - 1)
    BY <2>2, <2>3
  <2>5. j - 1 \notin Bad
    <3> HIDE DEF Bad
    <3> QED BY <2>1, <2>4
  <2>6. PICK b \in Nat : Bounds(b, j - 1)
    <3> HIDE DEF Bounds
    <3> QED BY <2>4, <2>5
  <2>7. PICK last \in Nat : last = f[j]
    BY <1>3, <2>4
  <2>8. PICK c \in Nat : last <= c /\ b <= c
    <3>1. CASE last <= b
      <4> WITNESS b \in Nat
      <4> QED BY <3>1
    <3>2. CASE b <= last
      <4> WITNESS last \in Nat
      <4> QED BY <3>2
    <3> QED BY <3>1, <3>2
  <2>9. ASSUME NEW i \in 1 .. k, i <= j
        PROVE  f[i] <= c
    <3>1. PICK v \in Nat : v = f[i]
      BY <1>3
    <3>2. CASE i = j
      BY <2>7, <2>8, <3>2
    <3>3. CASE i <= j - 1
      <4>1. f[i] <= b
        BY <2>6, <3>3
      <4>2. v <= b
        BY <3>1, <4>1
      <4>3. v <= c
        BY <2>8, <4>2
      <4> QED BY <3>1, <4>3
    <3> QED BY <2>4, <2>9, <3>2, <3>3
  <2>10. Bounds(c, j)
    BY <2>9
  <2> HIDE DEF Bounds
  <2> QED BY <2>2, <2>8, <2>10
<1>5. k \in 0 .. k /\ k \notin Bad
  <2>1. k \in 0 .. k
    OBVIOUS
  <2> HIDE DEF Bad
  <2> QED BY <1>4, <2>1
<1>6. PICK b \in Nat : Bounds(b, k)
  <2> HIDE DEF Bounds
  <2> QED BY <1>5
<1>7. ASSUME NEW n \in S
      PROVE  n <= b
  <2>1. PICK i \in 1 .. k : f[i] = n
    BY <1>3
  <2> QED BY <1>6, <2>1
<1> QED BY <1>7

(***************************************************************************)
(* What FiniteSetsExt's Max returns for a finite set of naturals.          *)
(***************************************************************************)
LEMMA MaxOfFinite ==
  ASSUME NEW S \in SUBSET Nat, IsFiniteSet(S), S # {}
  PROVE  Max(S) \in S /\ \A n \in S : Max(S) >= n
<1> DEFINE Bound == {b \in Nat : \A n \in S : n <= b}
<1>1. Bound # {}
  BY FiniteIsBounded
<1>2. PICK b \in Bound : \A c \in Bound : b <= c
  <2>1. Bound \in SUBSET Nat
    OBVIOUS
  <2> HIDE DEF Bound
  <2> QED BY <1>1, <2>1, LeastNat
<1>3. b \in S
  <2> SUFFICES ASSUME b \notin S PROVE FALSE
    OBVIOUS
  <2>1. \A n \in S : n \in Nat /\ n <= b - 1
    BY <1>2
  <2>2. b - 1 \in Nat
    <3>1. PICK n \in S : TRUE
      OBVIOUS
    <3> QED BY <2>1, <3>1
  <2>3. b - 1 \in Bound
    BY <2>1, <2>2
  <2> QED BY <1>2, <2>3
<1>4. \E x \in S : \A y \in S : x >= y
  BY <1>2, <1>3
<1> QED BY <1>4 DEF Max

-----------------------------------------------------------------------------
(***************************************************************************)
(* The rules an appended, tightened or removed rule leaves behind.         *)
(***************************************************************************)
LEMMA AppendedRule ==
  ASSUME NEW rules \in Seq(Rule), NEW rule \in Rule
  PROVE  /\ Append(rules, rule) \in Seq(Rule)
         /\ ToSet(Append(rules, rule)) = ToSet(rules) \cup {rule}
<1> DEFINE longer == Append(rules, rule)
<1>1. /\ longer \in Seq(Rule)
      /\ Len(longer) = Len(rules) + 1
      /\ \A i \in 1 .. Len(rules) : longer[i] = rules[i]
      /\ longer[Len(rules) + 1] = rule
  BY AppendProperties
<1>2. Len(rules) \in Nat /\ DOMAIN rules = 1 .. Len(rules)
  BY LenProperties
<1>3. DOMAIN longer = 1 .. Len(rules) + 1
  BY <1>1, LenProperties
<1> HIDE DEF longer
<1>4. ToSet(longer) \subseteq ToSet(rules) \cup {rule}
  <2> SUFFICES ASSUME NEW i \in 1 .. Len(rules) + 1
               PROVE  longer[i] \in ToSet(rules) \cup {rule}
    BY <1>3 DEF ToSet
  <2>1. CASE i = Len(rules) + 1
    BY <1>1, <2>1
  <2>2. CASE i # Len(rules) + 1
    <3>1. i \in 1 .. Len(rules)
      BY <1>2, <2>2
    <3> QED BY <1>1, <1>2, <3>1 DEF ToSet
  <2> QED BY <2>1, <2>2
<1>5. ToSet(rules) \subseteq ToSet(longer)
  <2> SUFFICES ASSUME NEW i \in 1 .. Len(rules)
               PROVE  rules[i] \in ToSet(longer)
    BY <1>2 DEF ToSet
  <2>1. i \in 1 .. Len(rules) + 1 /\ longer[i] = rules[i]
    BY <1>1, <1>2
  <2> QED BY <1>3, <2>1 DEF ToSet
<1>6. rule \in ToSet(longer)
  <2>1. Len(rules) + 1 \in 1 .. Len(rules) + 1
    BY <1>2
  <2> QED BY <1>1, <1>3, <2>1 DEF ToSet
<1> QED BY <1>1, <1>4, <1>5, <1>6 DEF longer

LEMMA RemovedRule ==
  ASSUME NEW rules \in Seq(Rule), NEW i \in 1 .. Len(rules)
  PROVE  /\ RemoveAt(rules, i) \in Seq(Rule)
         /\ ToSet(RemoveAt(rules, i)) \subseteq ToSet(rules)
<1>1. Len(rules) \in Nat /\ DOMAIN rules = 1 .. Len(rules)
  BY LenProperties
<1>2. \A j \in 1 .. Len(rules) : rules[j] \in ToSet(rules)
  BY <1>1 DEF ToSet
<1>3. ToSet(rules) \subseteq Rule
  BY <1>1, ElementOfSeq DEF ToSet
<1> DEFINE before == SubSeq(rules, 1, i - 1)
           after == SubSeq(rules, i + 1, Len(rules))
<1>4. before \in Seq(ToSet(rules))
  <2>1. \A j \in 1 .. i - 1 : rules[j] \in ToSet(rules)
    BY <1>1, <1>2
  <2> QED BY <2>1, SubSeqProperties
<1>5. after \in Seq(ToSet(rules))
  <2>1. \A j \in i + 1 .. Len(rules) : rules[j] \in ToSet(rules)
    BY <1>1, <1>2
  <2>2. i + 1 \in Int /\ Len(rules) \in Int
    BY <1>1
  <2> QED BY <2>1, <2>2, SubSeqProperties
<1>6. before \o after \in Seq(ToSet(rules))
  BY <1>4, <1>5, ConcatProperties
<1>7. RemoveAt(rules, i) \in Seq(ToSet(rules))
  BY <1>6 DEF RemoveAt
<1>8. RemoveAt(rules, i) \in Seq(Rule)
  BY <1>3, <1>7, SeqMonotonic
<1>9. ToSet(RemoveAt(rules, i)) \subseteq ToSet(rules)
  BY <1>7, LenProperties, ElementOfSeq DEF ToSet
<1> QED BY <1>8, <1>9

LEMMA TightenedRule ==
  ASSUME NEW rules \in Seq(Rule), NEW i \in 1 .. Len(rules)
  PROVE  /\ Tightened(rules, i) \in Seq(Rule)
         /\ \A rule \in ToSet(rules) :
              rule \in ToSet(Tightened(rules, i)) \/ rule = rules[i]
         /\ \E rule \in ToSet(Tightened(rules, i)) :
              /\ rule.action = "deny"
              /\ rule.host = rules[i].host /\ rule.subject = rules[i].subject
         /\ \A rule \in ToSet(Tightened(rules, i)) :
              rule.action # "deny" => rule \in ToSet(rules)
<1>1. Len(rules) \in Nat /\ DOMAIN rules = 1 .. Len(rules)
  BY LenProperties
<1>2. rules[i] \in Rule
  BY ElementOfSeq
<1> DEFINE denied == [rules[i] EXCEPT !.action = "deny"]
           tight == Tightened(rules, i)
<1>3. /\ denied \in Rule /\ denied.action = "deny"
      /\ denied.host = rules[i].host /\ denied.subject = rules[i].subject
  BY <1>2 DEF Rule, Action
<1>4. tight = [rules EXCEPT ![i] = denied]
  BY DEF Tightened
<1> HIDE DEF denied, tight
<1>5. /\ tight \in Seq(Rule) /\ Len(tight) = Len(rules)
      /\ \A j \in 1 .. Len(rules) : tight[j] = IF j = i THEN denied ELSE rules[j]
  BY <1>3, <1>4, ExceptSeq
<1>6. DOMAIN tight = 1 .. Len(rules)
  BY <1>5, LenProperties
<1>7. \A rule \in ToSet(rules) : rule \in ToSet(tight) \/ rule = rules[i]
  BY <1>1, <1>5, <1>6 DEF ToSet
<1>8. denied \in ToSet(tight)
  BY <1>5, <1>6 DEF ToSet
<1>9. \A rule \in ToSet(tight) : rule.action # "deny" => rule \in ToSet(rules)
  BY <1>1, <1>3, <1>5, <1>6 DEF ToSet
<1> QED BY <1>3, <1>5, <1>7, <1>8, <1>9 DEF tight

-----------------------------------------------------------------------------
(***************************************************************************)
(* The inductive invariant: the types, and that a refusal left by a prompt *)
(* has no expiry. The menu offers no refusal "for a while", and without    *)
(* that the passing of time could let a refused request through.           *)
(***************************************************************************)
RefusalsLast == \A g \in grants : g.action = "deny" => g.left = Session

PolicyInv == PolicyTypeOK /\ RefusalsLast

LEMMA PrunedProperties ==
  ASSUME PolicyInv
  PROVE  /\ Pruned \subseteq grants /\ Pruned \subseteq Grant
         /\ IsFiniteSet(Pruned)
         /\ NextPlace \in Nat
         /\ \A g \in Pruned : g.at # NextPlace
<1>1. Pruned \subseteq grants
  BY DEF Pruned
<1>2. Pruned \subseteq Grant /\ IsFiniteSet(Pruned)
  BY <1>1, FS_Subset DEF PolicyInv, PolicyTypeOK
<1> DEFINE at == [g \in Pruned |-> g.at]
           places == {g.at : g \in Pruned}
<1>3. at \in Surjection(Pruned, places)
  BY DEF Surjection
<1>4. IsFiniteSet(places)
  BY <1>2, <1>3, FS_Surjection
<1>5. IsFiniteSet(places \cup {0})
  <2> HIDE DEF places
  <2> QED BY <1>4, FS_AddElement
<1>6. {0} \cup places \in SUBSET Nat
  BY <1>2 DEF Grant
<1>7. {0} \cup places = places \cup {0}
  OBVIOUS
<1> DEFINE max == Max({0} \cup places)
<1>8. max \in Nat /\ \A n \in {0} \cup places : max >= n
  <2> HIDE DEF places
  <2> QED BY <1>5, <1>6, <1>7, MaxOfFinite
<1>9. NextPlace = 1 + max
  BY DEF NextPlace
<1>10. ASSUME NEW g \in Pruned
       PROVE  g.at # 1 + max
  <2>1. g.at \in {0} \cup places
    OBVIOUS
  <2>2. PICK n \in Nat : n = g.at
    BY <1>6, <2>1
  <2>3. max >= n
    BY <1>8, <2>1, <2>2
  <2> HIDE DEF max
  <2> QED BY <1>8, <2>2, <2>3
<1> HIDE DEF max
<1> QED BY <1>1, <1>2, <1>8, <1>9, <1>10

LEMMA SaveKeepsType ==
  ASSUME PolicyTypeOK, NEW rules \in Seq(Rule), Save(rules)
  PROVE  /\ (saved \in Seq(Rule) /\ unsaved \in BOOLEAN)'
         /\ unsaved' \/ saved' = rules
BY DEF Save, PolicyTypeOK

LEMMA AddGrantKeepsInv ==
  ASSUME PolicyInv, NEW h \in Host, NEW p \in Pattern, NEW action \in Action,
         NEW left \in {Session, DefaultTTL}, action = "deny" => left = Session,
         AddGrant(h, p, action, left)
  PROVE  PolicyInv'
<1> DEFINE new == [host |-> h, subject |-> p, action |-> action,
                   left |-> left, at |-> NextPlace]
<1>1. grants' = Pruned \cup {new} /\ UNCHANGED <<hostRules, saved, unsaved>>
  BY DEF AddGrant
<1>2. new \in Grant
  BY PrunedProperties, BoundsAreNumbers DEF Grant, Session
<1>3. new.at = NextPlace /\ new.action = action /\ new.left = left
  OBVIOUS
<1> HIDE DEF new
<1>4. IsFiniteSet(grants')
  BY <1>1, PrunedProperties, FS_AddElement
<1>5. grants' \subseteq Grant
  BY <1>1, <1>2, PrunedProperties
<1>6. \A g, other \in grants' : g.at = other.at => g = other
  BY <1>1, <1>3, PrunedProperties DEF PolicyInv, PolicyTypeOK
<1>7. \A g \in grants' : g.action = "deny" => g.left = Session
  BY <1>1, <1>3, PrunedProperties DEF PolicyInv, RefusalsLast
<1> QED BY <1>1, <1>4, <1>5, <1>6, <1>7 DEF PolicyInv, PolicyTypeOK, RefusalsLast

LEMMA AppendRuleKeepsInv ==
  ASSUME PolicyInv, NEW rule \in Rule, AppendRule(rule)
  PROVE  PolicyInv' /\ (unsaved' \/ saved' = hostRules')
<1>1. /\ hostRules' = Append(hostRules, rule)
      /\ Save(hostRules')
      /\ UNCHANGED grants
  BY DEF AppendRule
<1>2. hostRules' \in Seq(Rule)
  BY <1>1, AppendedRule DEF PolicyInv, PolicyTypeOK
<1> QED BY <1>1, <1>2, SaveKeepsType DEF PolicyInv, PolicyTypeOK, RefusalsLast

LEMMA ElapseKeepsInv ==
  ASSUME PolicyInv, grants' = Elapse(grants), UNCHANGED <<hostRules, saved, unsaved>>
  PROVE  PolicyInv'
<1> DEFINE older(g) == [g EXCEPT !.left = IF g.left > 0 THEN g.left - 1 ELSE g.left]
           age == [g \in grants |-> older(g)]
<1>1. grants' = {older(g) : g \in grants}
  BY DEF Elapse
<1>2. \A g \in grants : /\ older(g) \in Grant
                        /\ older(g).at = g.at
                        /\ older(g).action = g.action
                        /\ g.left = Session => older(g).left = Session
  BY BoundsAreNumbers, SMTT(30) DEF PolicyInv, PolicyTypeOK, Grant, Session
<1>3. IsFiniteSet(grants')
  <2>1. age \in Surjection(grants, grants')
    BY <1>1 DEF Surjection
  <2> HIDE DEF age
  <2> QED BY <2>1, FS_Surjection DEF PolicyInv, PolicyTypeOK
<1>4. grants' \subseteq Grant
  BY <1>1, <1>2
<1>5. \A g, other \in grants' : g.at = other.at => g = other
  <2> SUFFICES ASSUME NEW g \in grants, NEW other \in grants,
                      older(g).at = older(other).at
               PROVE  older(g) = older(other)
    BY <1>1
  <2>1. g = other
    BY <1>2 DEF PolicyInv, PolicyTypeOK
  <2> QED BY <2>1
<1>6. \A g \in grants' : g.action = "deny" => g.left = Session
  BY <1>1, <1>2 DEF PolicyInv, RefusalsLast
<1> QED BY <1>3, <1>4, <1>5, <1>6 DEF PolicyInv, PolicyTypeOK, RefusalsLast

-----------------------------------------------------------------------------
(***************************************************************************)
(* Every step keeps the inductive invariant; so does recording one answer, *)
(* which the modules that extend this one cite.                            *)
(***************************************************************************)
LEMMA RecordKeepsInv ==
  ASSUME PolicyInv, NEW h \in Host, NEW s \in Subject, NEW choice \in Choice,
         Record(h, s, choice)
  PROVE  PolicyInv' /\ (DiskFollowsMemory => DiskFollowsMemory')
<1>1. h \in Pattern /\ s \in Pattern /\ Wild \in Pattern
  BY NamesArePatterns
<1>2. \A action \in Action :
        [host |-> h, subject |-> s, action |-> action] \in Rule
  BY <1>1 DEF Rule
<1>3. CASE choice \in {"deny", "allowOnce"} /\ UNCHANGED policyVars
  BY <1>3 DEF policyVars, PolicyInv, PolicyTypeOK, RefusalsLast, DiskFollowsMemory
<1>4. ASSUME NEW p \in {s, Wild}, NEW action \in Action, NEW left \in {Session, DefaultTTL},
             action = "deny" => left = Session, AddGrant(h, p, action, left)
      PROVE  PolicyInv' /\ (DiskFollowsMemory => DiskFollowsMemory')
  <2>1. PolicyInv'
    BY <1>1, <1>4, AddGrantKeepsInv
  <2> QED BY <1>4, <2>1 DEF AddGrant, DiskFollowsMemory
<1>5. ASSUME NEW action \in Action,
             AppendRule([host |-> h, subject |-> s, action |-> action])
      PROVE  PolicyInv' /\ (DiskFollowsMemory => DiskFollowsMemory')
  BY <1>2, <1>5, AppendRuleKeepsInv DEF DiskFollowsMemory
<1> QED BY <1>3, <1>4, <1>5 DEF Record, Action

LEMMA WithdrawKeepsInv ==
  ASSUME PolicyInv, Withdraw
  PROVE  PolicyInv' /\ (DiskFollowsMemory => DiskFollowsMemory')
<1>1. CASE \E i \in 1 .. Len(hostRules) : Revoke(i)
  <2>1. PICK i \in 1 .. Len(hostRules) : Revoke(i)
    BY <1>1
  <2>2. /\ hostRules' = RemoveAt(hostRules, i)
        /\ Save(hostRules')
        /\ UNCHANGED grants
    BY <2>1 DEF Revoke
  <2>3. hostRules' \in Seq(Rule)
    BY <2>2, RemovedRule DEF PolicyInv, PolicyTypeOK
  <2> QED BY <2>2, <2>3, SaveKeepsType
          DEF PolicyInv, PolicyTypeOK, RefusalsLast, DiskFollowsMemory
<1>2. ASSUME grants' \subseteq grants, UNCHANGED <<hostRules, saved, unsaved>>
      PROVE  PolicyInv' /\ (DiskFollowsMemory => DiskFollowsMemory')
  <2>1. IsFiniteSet(grants')
    BY <1>2, FS_Subset DEF PolicyInv, PolicyTypeOK
  <2> QED BY <1>2, <2>1 DEF PolicyInv, PolicyTypeOK, RefusalsLast, DiskFollowsMemory
<1>3. CASE \E h \in Host, p \in Pattern : RevokeGrant(h, p)
  BY <1>2, <1>3 DEF RevokeGrant
<1>4. CASE ForgetGrants
  BY <1>2, <1>4 DEF ForgetGrants
<1> QED BY <1>1, <1>3, <1>4 DEF Withdraw

LEMMA DenyKeepsInv ==
  ASSUME PolicyInv, NEW i \in 1 .. Len(hostRules), Deny(i)
  PROVE  PolicyInv' /\ (DiskFollowsMemory => DiskFollowsMemory')
<1>1. /\ hostRules' = Tightened(hostRules, i)
      /\ Save(hostRules')
      /\ UNCHANGED grants
  BY DEF Deny
<1>2. hostRules' \in Seq(Rule)
  BY <1>1, TightenedRule DEF PolicyInv, PolicyTypeOK
<1> QED BY <1>1, <1>2, SaveKeepsType
        DEF PolicyInv, PolicyTypeOK, RefusalsLast, DiskFollowsMemory

LEMMA StepKeepsInv ==
  ASSUME PolicyInv, [PolicyNext]_policyVars
  PROVE  PolicyInv' /\ (DiskFollowsMemory => DiskFollowsMemory')
<1>1. ASSUME NEW h \in Host, NEW s \in Subject, NEW choice \in Choice,
             Answered(h, s, choice)
      PROVE  PolicyInv' /\ (DiskFollowsMemory => DiskFollowsMemory')
  BY <1>1, RecordKeepsInv DEF Answered
<1>2. ASSUME NEW i \in 1 .. Len(hostRules), Deny(i)
      PROVE  PolicyInv' /\ (DiskFollowsMemory => DiskFollowsMemory')
  BY <1>2, DenyKeepsInv
<1>3. CASE Withdraw
  BY <1>3, WithdrawKeepsInv
<1>4. CASE Tick
  BY <1>4, ElapseKeepsInv DEF Tick, DiskFollowsMemory
<1>5. CASE Flush
  BY <1>5 DEF Flush, PolicyInv, PolicyTypeOK, RefusalsLast, DiskFollowsMemory
<1>6. CASE UNCHANGED policyVars
  BY <1>6 DEF policyVars, PolicyInv, PolicyTypeOK, RefusalsLast, DiskFollowsMemory
<1> QED BY <1>1, <1>2, <1>3, <1>4, <1>5, <1>6 DEF PolicyNext

LEMMA InitHoldsInv == PolicyInit => PolicyInv /\ DiskFollowsMemory
BY RulesAreRules, FS_EmptySet
   DEF PolicyInit, PolicyInv, PolicyTypeOK, RefusalsLast, DiskFollowsMemory

(***************************************************************************)
(* The invariant of every reachable state of the store.                    *)
(***************************************************************************)
THEOREM Invariance == PolicySpec => []PolicyInv
<1>1. PolicyInv /\ [PolicyNext]_policyVars => PolicyInv'
  BY StepKeepsInv
<1> QED BY <1>1, InitHoldsInv, PTL DEF PolicySpec

(***************************************************************************)
(* The store always holds well-formed rules and grants, in distinct places *)
(* of its slice.                                                           *)
(***************************************************************************)
THEOREM TypeCorrect == PolicySpec => []PolicyTypeOK
BY Invariance, PTL DEF PolicyInv

(***************************************************************************)
(* What devtun applies is what the host file holds, unless a write failed. *)
(***************************************************************************)
THEOREM RulesReachDisk == PolicySpec => []DiskFollowsMemory
<1>1. PolicyInv /\ DiskFollowsMemory /\ [PolicyNext]_policyVars => DiskFollowsMemory'
  BY StepKeepsInv
<1> QED BY <1>1, Invariance, InitHoldsInv, PTL DEF PolicySpec

-----------------------------------------------------------------------------
(***************************************************************************)
(* What each kind of step does to the refusals and approvals there are.    *)
(***************************************************************************)
RefusalsKept ==
  /\ \A rule \in ToSet(hostRules) : rule.action = "deny" => rule \in ToSet(hostRules')
  /\ \A g \in grants : Live(g) /\ g.action = "deny" => g \in grants'

LEMMA KeptRefusalsDeny ==
  ASSUME RefusalsKept, NEW h \in Host, NEW s \in Subject, Denied(h, s)
  PROVE  Denied(h, s)'
<1>1. CASE RulesSay("deny", h, s)
  <2>1. RulesSay("deny", h, s)'
    BY <1>1 DEF RulesSay, AllRules, RuleMatches, RefusalsKept
  <2> QED BY <2>1 DEF Denied
<1>2. CASE MatchingGrants("deny", h, s) # {}
  <2>1. PICK g \in grants : g.action = "deny" /\ GrantMatches(g, h, s)
    BY <1>2 DEF MatchingGrants
  <2>2. g \in grants' /\ GrantMatches(g, h, s)'
    BY <2>1 DEF RefusalsKept, GrantMatches, Live
  <2>3. (MatchingGrants("deny", h, s) # {})'
    BY <2>1, <2>2 DEF MatchingGrants
  <2> QED BY <2>3 DEF Denied
<1> QED BY <1>1, <1>2 DEF Denied

NoNewApprovals ==
  /\ \A rule \in ToSet(hostRules') : rule.action = "allow" => rule \in ToSet(hostRules)
  /\ \A g \in grants' : g.action = "allow" /\ Live(g) =>
       \E older \in grants : /\ older.action = "allow" /\ Live(older)
                             /\ older.host = g.host /\ older.subject = g.subject

LEMMA OldApprovalsOnly ==
  ASSUME NoNewApprovals, NEW h \in Host, NEW s \in Subject, Approved(h, s)'
  PROVE  Approved(h, s)
<1>1. CASE RulesSay("allow", h, s)'
  <2>1. RulesSay("allow", h, s)
    BY <1>1 DEF RulesSay, AllRules, RuleMatches, NoNewApprovals
  <2> QED BY <2>1 DEF Approved
<1>2. CASE (MatchingGrants("allow", h, s) # {})'
  <2>1. PICK g \in grants' : g.action = "allow" /\ GrantMatches(g, h, s)
    BY <1>2 DEF MatchingGrants, GrantMatches, Live
  <2>2. \E older \in grants : older.action = "allow" /\ GrantMatches(older, h, s)
    BY <2>1 DEF NoNewApprovals, GrantMatches
  <2>3. MatchingGrants("allow", h, s) # {}
    BY <2>2 DEF MatchingGrants
  <2> QED BY <2>3 DEF Approved
<1> QED BY <1>1, <1>2 DEF Approved

LEMMA RecordKeepsRefusals ==
  ASSUME PolicyInv, NEW h \in Host, NEW s \in Subject, NEW choice \in Choice,
         Record(h, s, choice)
  PROVE  RefusalsKept
<1>1. CASE UNCHANGED policyVars
  BY <1>1 DEF RefusalsKept, policyVars
<1>2. CASE \E p \in {s, Wild}, action \in Action, left \in {Session, DefaultTTL} :
             AddGrant(h, p, action, left)
  BY <1>2 DEF AddGrant, Pruned, RefusalsKept
<1>3. CASE \E action \in Action :
             AppendRule([host |-> h, subject |-> s, action |-> action])
  <2>1. PICK action \in Action :
               AppendRule([host |-> h, subject |-> s, action |-> action])
    BY <1>3
  <2>2. [host |-> h, subject |-> s, action |-> action] \in Rule
    BY NamesArePatterns DEF Rule
  <2> QED BY <2>1, <2>2, AppendedRule
          DEF AppendRule, RefusalsKept, PolicyInv, PolicyTypeOK
<1> QED BY <1>1, <1>2, <1>3 DEF Record, Action

LEMMA DenyKeepsRefusals ==
  ASSUME PolicyInv, NEW i \in 1 .. Len(hostRules), Deny(i)
  PROVE  RefusalsKept /\ NoNewApprovals
<1>1. /\ hostRules' = Tightened(hostRules, i)
      /\ hostRules[i].action # "deny"
      /\ UNCHANGED grants
  BY DEF Deny
<1>2. /\ \A rule \in ToSet(hostRules) : rule \in ToSet(hostRules') \/ rule = hostRules[i]
      /\ \A rule \in ToSet(hostRules') : rule.action # "deny" => rule \in ToSet(hostRules)
  BY <1>1, TightenedRule DEF PolicyInv, PolicyTypeOK
<1> QED BY <1>1, <1>2 DEF RefusalsKept, NoNewApprovals

LEMMA TickKeepsRefusals ==
  ASSUME PolicyInv, Tick
  PROVE  RefusalsKept /\ NoNewApprovals
<1> DEFINE older(g) == [g EXCEPT !.left = IF g.left > 0 THEN g.left - 1 ELSE g.left]
<1>1. grants' = {older(g) : g \in grants} /\ UNCHANGED <<hostRules, saved, unsaved>>
  BY DEF Tick, Elapse
<1>2. \A g \in grants :
        /\ g.action = "deny" => older(g) = g
        /\ Live(older(g)) => Live(g)
        /\ older(g).action = g.action /\ older(g).host = g.host
        /\ older(g).subject = g.subject
  BY BoundsAreNumbers
     DEF PolicyInv, PolicyTypeOK, RefusalsLast, Grant, Session, Live
<1> HIDE DEF older
<1> QED BY <1>1, <1>2 DEF RefusalsKept, NoNewApprovals

LEMMA FlushKeepsRefusals == Flush => RefusalsKept /\ NoNewApprovals
BY DEF Flush, RefusalsKept, NoNewApprovals

LEMMA WithdrawOpensNothing ==
  ASSUME PolicyInv, Withdraw
  PROVE  NoNewApprovals
<1>1. CASE \E i \in 1 .. Len(hostRules) : Revoke(i)
  <2>1. PICK i \in 1 .. Len(hostRules) : Revoke(i)
    BY <1>1
  <2> QED BY <2>1, RemovedRule DEF Revoke, NoNewApprovals, PolicyInv, PolicyTypeOK
<1>2. CASE grants' \subseteq grants /\ UNCHANGED hostRules
  BY <1>2 DEF NoNewApprovals
<1> QED BY <1>1, <1>2 DEF Withdraw, RevokeGrant, ForgetGrants

(***************************************************************************)
(* A refusal stands until a person takes it back, whatever else is         *)
(* answered, expires or is tightened in between.                           *)
(***************************************************************************)
THEOREM RefusalsAreFinal == PolicySpec => RefusalsStand
<1> DEFINE Stands == \A h \in Host, s \in Subject :
                       Decide(h, s) = "deny" /\ Decide(h, s)' # "deny" => Withdraw
<1>1. PolicyInv /\ [PolicyNext]_policyVars => [Stands]_policyVars
  <2> SUFFICES ASSUME PolicyInv, PolicyNext, ~Withdraw,
                      NEW h \in Host, NEW s \in Subject, Decide(h, s) = "deny"
               PROVE  Decide(h, s)' = "deny"
    OBVIOUS
  <2>1. RefusalsKept
    BY RecordKeepsRefusals, DenyKeepsRefusals, TickKeepsRefusals, FlushKeepsRefusals
       DEF PolicyNext, Answered
  <2>2. Denied(h, s)
    BY DEF Decide
  <2>3. Denied(h, s)'
    BY <2>1, <2>2, KeptRefusalsDeny
  <2> QED BY <2>3 DEF Decide
<1> QED BY <1>1, Invariance, PTL DEF PolicySpec, RefusalsStand

(***************************************************************************)
(* Turning a rule into a refusal never lets anything through.              *)
(***************************************************************************)
THEOREM DenyTightens == PolicySpec => DenyOnlyTightens
<1> DEFINE Tightens == (\E i \in 1 .. Len(hostRules) : Deny(i)) =>
                         \A h \in Host, s \in Subject :
                           Decide(h, s)' \in {Decide(h, s), "deny"}
<1>1. PolicyInv /\ [PolicyNext]_policyVars => [Tightens]_policyVars
  <2> SUFFICES ASSUME PolicyInv, NEW i \in 1 .. Len(hostRules), Deny(i),
                      NEW h \in Host, NEW s \in Subject
               PROVE  Decide(h, s)' \in {Decide(h, s), "deny"}
    OBVIOUS
  <2>1. RefusalsKept /\ NoNewApprovals
    BY DenyKeepsRefusals
  <2>2. Denied(h, s) => Denied(h, s)'
    BY <2>1, KeptRefusalsDeny
  <2>3. Approved(h, s)' => Approved(h, s)
    BY <2>1, OldApprovalsOnly
  <2>4. ~Denied(h, s)' /\ Approved(h, s) => Approved(h, s)'
    <3> SUFFICES ASSUME ~Denied(h, s)', Approved(h, s)
                 PROVE  Approved(h, s)'
      OBVIOUS
    <3>1. /\ hostRules' = Tightened(hostRules, i) /\ UNCHANGED grants
          /\ hostRules \in Seq(Rule)
      BY DEF Deny, PolicyInv, PolicyTypeOK
    <3>2. CASE MatchingGrants("allow", h, s) # {}
      BY <3>1, <3>2 DEF Approved, MatchingGrants, GrantMatches, Live
    <3>3. CASE RulesSay("allow", h, s)
      <4>1. PICK rule \in AllRules : rule.action = "allow" /\ RuleMatches(rule, h, s)
        BY <3>3 DEF RulesSay
      <4>2. rule \in AllRules' => RulesSay("allow", h, s)'
        BY <4>1 DEF RulesSay, RuleMatches
      <4>3. ASSUME rule = hostRules[i]
            PROVE  FALSE
        <5>1. \E tight \in ToSet(hostRules') :
                 /\ tight.action = "deny"
                 /\ tight.host = rule.host /\ tight.subject = rule.subject
          BY <3>1, <4>3, TightenedRule
        <5>2. RulesSay("deny", h, s)'
          BY <4>1, <5>1 DEF RulesSay, RuleMatches, AllRules
        <5> QED BY <5>2 DEF Denied
      <4>4. rule \in AllRules'
        BY <3>1, <4>1, <4>3, TightenedRule DEF AllRules
      <4> QED BY <4>2, <4>4 DEF Approved
    <3> QED BY <3>2, <3>3 DEF Approved
  <2> QED BY <2>2, <2>3, <2>4 DEF Decide
<1> QED BY <1>1, Invariance, PTL DEF PolicySpec, DenyOnlyTightens

(***************************************************************************)
(* An approval is opened by an allowing answer about it, or was there all  *)
(* along under a refusal that was taken back.                              *)
(***************************************************************************)
LEMMA RecordedApproval ==
  ASSUME PolicyInv, NEW host \in Host, NEW asked \in Subject, NEW choice \in Choice,
         Record(host, asked, choice),
         NEW h \in Host, NEW s \in Subject, ~Approved(h, s), Approved(h, s)'
  PROVE  AnswerOpens(h, s)
<1>1. CASE NoNewApprovals
  BY <1>1, OldApprovalsOnly
<1>2. CASE UNCHANGED policyVars
  BY <1>2, <1>1 DEF policyVars, NoNewApprovals
<1>3. ASSUME NEW p \in {asked, Wild}, NEW action \in Action,
             NEW left \in {Session, DefaultTTL}, AddGrant(host, p, action, left)
      PROVE  /\ action = "deny" => NoNewApprovals
             /\ action = "allow" => h = host /\ s \in Covers[p]
  <2>1. /\ UNCHANGED hostRules
        /\ \A g \in grants' : \/ g \in grants
                              \/ g.action = action /\ g.host = host /\ g.subject = p
    BY <1>3 DEF AddGrant, Pruned
  <2>2. CASE action = "deny"
    BY <2>1, <2>2 DEF NoNewApprovals
  <2>3. CASE action = "allow"
    <3>1. RulesSay("allow", h, s)' => RulesSay("allow", h, s)
      BY <2>1 DEF RulesSay, AllRules, RuleMatches
    <3>2. (MatchingGrants("allow", h, s) # {})'
      BY <3>1 DEF Approved
    <3>3. PICK g \in grants' : g.action = "allow" /\ g.host = h /\ Live(g)
                               /\ s \in Covers[g.subject]
      BY <3>2 DEF MatchingGrants, GrantMatches, Live
    <3>4. g \notin grants
      BY <3>3 DEF Approved, MatchingGrants, GrantMatches
    <3>5. g.host = host /\ g.subject = p
      BY <2>1, <3>3, <3>4
    <3> QED BY <2>3, <3>3, <3>5
  <2> QED BY <2>2, <2>3 DEF Action
<1>4. ASSUME NEW action \in Action,
             AppendRule([host |-> host, subject |-> asked, action |-> action])
      PROVE  /\ action = "deny" => NoNewApprovals
             /\ action = "allow" => h = host /\ s \in Covers[asked]
  <2> DEFINE new == [host |-> host, subject |-> asked, action |-> action]
  <2>1. new \in Rule
    BY NamesArePatterns DEF Rule
  <2>2. UNCHANGED grants /\ ToSet(hostRules') = ToSet(hostRules) \cup {new}
    BY <1>4, <2>1, AppendedRule DEF AppendRule, PolicyInv, PolicyTypeOK
  <2>3. CASE action = "deny"
    BY <2>2, <2>3 DEF NoNewApprovals
  <2>4. CASE action = "allow"
    <3>1. (MatchingGrants("allow", h, s) # {})' => MatchingGrants("allow", h, s) # {}
      BY <2>2 DEF MatchingGrants, GrantMatches, Live
    <3>2. RulesSay("allow", h, s)'
      BY <3>1 DEF Approved
    <3>3. PICK rule \in ToSet(hostRules') \cup GlobalRules :
                 rule.action = "allow" /\ RuleMatches(rule, h, s)
      BY <3>2 DEF RulesSay, AllRules, RuleMatches
    <3>4. rule = new
      BY <2>2, <3>3 DEF Approved, RulesSay, AllRules
    <3>5. h \in Covers[host] /\ s \in Covers[asked]
      BY <3>3, <3>4, NamesArePatterns DEF RuleMatches
    <3>6. h = host
      BY <3>5, NamesArePatterns
    <3> QED BY <2>4, <3>5, <3>6
  <2> QED BY <2>3, <2>4 DEF Action
<1>5. CASE choice \in {"deny", "allowOnce"}
  BY <1>2, <1>5 DEF Record
<1>6. CASE choice \in {"refuseSession", "refuseAlways"}
  BY <1>1, <1>3, <1>4, <1>6 DEF Record, Action
<1>7. CASE choice \in {"allowHostTTL", "allowHostSession"}
  <2>1. h = host
    BY <1>3, <1>7 DEF Record, Action
  <2> QED BY <1>7, <2>1 DEF AnswerOpens, Allows
<1>8. CASE choice \in {"allowTTL", "allowSession", "allowAlways"}
  <2>1. h = host /\ s \in Covers[asked]
    BY <1>3, <1>4, <1>8 DEF Record, Action
  <2> QED BY <1>8, <2>1 DEF AnswerOpens, Allows
<1> QED BY <1>5, <1>6, <1>7, <1>8 DEF Choice

(***************************************************************************)
(* Nothing is opened but by an answer that covers it, or by taking a refusal*)
(* back: no sequence of lapses, prunes and edits does.                     *)
(***************************************************************************)
THEOREM ApprovalsAreDecided == PolicySpec => OpensOnlyByDecision
<1> DEFINE Decided == \A h \in Host, s \in Subject :
              Decide(h, s) # "allow" /\ Decide(h, s)' = "allow" =>
                AnswerOpens(h, s) \/ (Denied(h, s) /\ Withdraw)
<1>1. PolicyInv /\ [PolicyNext]_policyVars => [Decided]_policyVars
  <2> SUFFICES ASSUME PolicyInv, PolicyNext, NEW h \in Host, NEW s \in Subject,
                      Decide(h, s) # "allow", Decide(h, s)' = "allow"
               PROVE  AnswerOpens(h, s) \/ (Denied(h, s) /\ Withdraw)
    OBVIOUS
  <2>1. ~Denied(h, s)' /\ Approved(h, s)' /\ (Denied(h, s) \/ ~Approved(h, s))
    BY DEF Decide
  <2>2. Approved(h, s) => Denied(h, s) /\ ~RefusalsKept
    BY <2>1, KeptRefusalsDeny
  <2>3. Denied(h, s) => ~RefusalsKept
    BY <2>1, KeptRefusalsDeny
  <2>4. ASSUME NEW host \in Host, NEW asked \in Subject, NEW choice \in Choice,
               Answered(host, asked, choice)
        PROVE  AnswerOpens(h, s)
    BY <2>1, <2>2, <2>4, RecordKeepsRefusals, RecordedApproval DEF Answered
  <2>5. CASE NoNewApprovals /\ RefusalsKept
    BY <2>1, <2>2, <2>5, OldApprovalsOnly
  <2>6. CASE Withdraw
    BY <2>1, <2>2, <2>6, WithdrawOpensNothing, OldApprovalsOnly
  <2> QED BY <2>4, <2>5, <2>6, DenyKeepsRefusals, TickKeepsRefusals, FlushKeepsRefusals
          DEF PolicyNext
<1> QED BY <1>1, Invariance, PTL DEF PolicySpec, OpensOnlyByDecision

-----------------------------------------------------------------------------
(***************************************************************************)
(* Match (glob.go) decides what a pattern means, for every pattern and     *)
(* subject. What is left of a pattern from its i-th character is a pattern *)
(* too: Fits says what its l-th character stands for, Cuts how it may cut  *)
(* what is left of the subject, and Means after which characters.          *)
(***************************************************************************)
Fits(p, s, i, l, a, b) ==
  \/ p[l] = Star /\ \E x \in {l - 1, l + 1} : x \in i .. Len(p) /\ p[x] = Star
  \/ p[l] = Star /\ ~Crosses(s, a, b)
  \/ p[l] = AnyChar /\ b = a + 1 /\ s[b] # Separator
  \/ p[l] \notin {Star, AnyChar} /\ b = a + 1 /\ s[b] = p[l]

Cuts(p, s, i) ==
  {c \in [i - 1 .. Len(p) -> 0 .. Len(s)] :
     /\ c[Len(p)] = Len(s)
     /\ \A l \in i .. Len(p) : c[l - 1] <= c[l] /\ Fits(p, s, i, l, c[l - 1], c[l])}

Means(p, s, i) == {j \in 0 .. Len(s) : \E c \in Cuts(p, s, i) : c[i - 1] = j}

LEMMA CutsGrow ==
  ASSUME NEW X, NEW p \in Seq(X), NEW s \in Seq(X), NEW i \in 1 .. Len(p) + 1,
         NEW c \in Cuts(p, s, i), NEW a \in i - 1 .. Len(p), NEW b \in a .. Len(p)
  PROVE  c[a] <= c[b]
<1>1. /\ c \in [i - 1 .. Len(p) -> 0 .. Len(s)] /\ Len(p) \in Nat /\ Len(s) \in Nat
      /\ \A l \in i .. Len(p) : c[l - 1] <= c[l]
  BY LenProperties DEF Cuts
<1>0. i \in Int /\ a \in Int /\ b \in Int /\ i - 1 <= a /\ a <= b /\ b <= Len(p)
  BY <1>1
<1>4. ASSUME NEW x \in a .. Len(p) PROVE c[x] \in Nat
  <2>1. x \in i - 1 .. Len(p)
    BY <1>0, <1>1
  <2>. QED  BY <1>1, <2>1
<1>. DEFINE Bad == {d \in Nat : a + d <= Len(p) /\ ~(c[a] <= c[a + d])}
<1>2. Bad = {}
  <2>1. SUFFICES ASSUME Bad # {} PROVE FALSE
    OBVIOUS
  <2>2. PICK d \in Bad : \A e \in Bad : d <= e
    <3>1. Bad \in SUBSET Nat
      OBVIOUS
    <3>. HIDE DEF Bad
    <3>. QED  BY <2>1, <3>1, LeastNat
  <2>3. d \in Nat /\ a + d <= Len(p) /\ ~(c[a] <= c[a + d])
    OBVIOUS
  <2>4. d # 0
    BY <1>0, <1>1, <1>4, <2>3
  <2>5. d - 1 \in Nat /\ d - 1 \notin Bad
    <3>. HIDE DEF Bad
    <3>. QED  BY <2>2, <2>3, <2>4
  <2>6. c[a] <= c[a + (d - 1)]
    BY <2>3, <2>5
  <2>7. a + d \in i .. Len(p) /\ (a + d) - 1 = a + (d - 1)
    BY <1>0, <1>1, <2>3, <2>4
  <2>8. c[a + (d - 1)] <= c[a + d]
    BY <1>1, <2>7
  <2>9. c[a] \in Nat /\ c[a + (d - 1)] \in Nat /\ c[a + d] \in Nat
    BY <1>0, <1>1, <1>4, <2>3, <2>5, <2>7
  <2>. QED  BY <2>3, <2>6, <2>8, <2>9
<1>3. b - a \in Nat /\ a + (b - a) = b
  BY <1>0
<1>5. b - a \notin Bad
  <2>. HIDE DEF Bad
  <2>. QED  BY <1>2
<1>. QED  BY <1>0, <1>3, <1>5

LEMMA FitsLater ==
  ASSUME NEW X, NEW p \in Seq(X), NEW s \in Seq(X), NEW i \in 1 .. Len(p) + 1,
         NEW k \in i .. Len(p) + 1, NEW l \in k .. Len(p), NEW a, NEW b,
         k = i \/ l # k \/ p[k] # Star \/ p[k - 1] # Star
  PROVE  Fits(p, s, i, l, a, b) <=> Fits(p, s, k, l, a, b)
<1>1. Len(p) \in Nat /\ l \in Int
  BY LenProperties
<1>2. \A x \in {l - 1, l + 1} :
        p[l] = Star /\ p[x] = Star => (x \in i .. Len(p) <=> x \in k .. Len(p))
  BY <1>1
<1>. QED  BY <1>2 DEF Fits

\* A cut of a pattern cuts what comes later of it, but between two stars.
LEMMA CutsLater ==
  ASSUME NEW X, NEW p \in Seq(X), NEW s \in Seq(X), NEW i \in 1 .. Len(p) + 1,
         NEW k \in i .. Len(p) + 1, k = Len(p) + 1 \/ p[k] # Star \/ p[k - 1] # Star,
         NEW c \in Cuts(p, s, i)
  PROVE  c[k - 1] \in Means(p, s, k)
<1>1. /\ c \in [i - 1 .. Len(p) -> 0 .. Len(s)] /\ c[Len(p)] = Len(s)
      /\ \A l \in i .. Len(p) : c[l - 1] <= c[l] /\ Fits(p, s, i, l, c[l - 1], c[l])
      /\ Len(p) \in Nat /\ Len(s) \in Nat
  BY LenProperties DEF Cuts
<1>. DEFINE d == [l \in k - 1 .. Len(p) |-> c[l]]
<1>2. /\ d \in [k - 1 .. Len(p) -> 0 .. Len(s)] /\ d[Len(p)] = Len(s) /\ d[k - 1] = c[k - 1]
      /\ \A l \in k .. Len(p) : d[l - 1] = c[l - 1] /\ d[l] = c[l]
  BY <1>1
<1>. HIDE DEF d
<1>3. ASSUME NEW l \in k .. Len(p)
      PROVE  d[l - 1] <= d[l] /\ Fits(p, s, k, l, d[l - 1], d[l])
  <2>1. l \in i .. Len(p)
    BY <1>1
  <2>2. c[l - 1] <= c[l] /\ Fits(p, s, i, l, c[l - 1], c[l])
    BY <1>1, <2>1
  <2>3. Fits(p, s, k, l, c[l - 1], c[l])
    BY <1>1, <2>2, FitsLater
  <2>. QED  BY <1>2, <2>2, <2>3
<1>4. d \in Cuts(p, s, k)
  BY <1>2, <1>3 DEF Cuts
<1>5. k - 1 \in i - 1 .. Len(p)
  BY <1>1
<1>6. c[k - 1] \in 0 .. Len(s)
  BY <1>1, <1>5
<1>. QED  BY <1>2, <1>4, <1>6 DEF Means

\* One more character in front, that is not the first of two stars.
LEMMA MeansOneMore ==
  ASSUME NEW X, NEW p \in Seq(X), NEW s \in Seq(X), NEW i \in 1 .. Len(p), ~Double(p, i),
         NEW j \in 0 .. Len(s)
  PROVE  j \in Means(p, s, i) <=>
           \E k \in Means(p, s, i + 1) : j <= k /\ Fits(p, s, i, i, j, k)
<1>1. Len(p) \in Nat /\ Len(s) \in Nat /\ i + 1 \in i .. Len(p) + 1 /\ i \in 1 .. Len(p) + 1
      /\ i + 1 \in 1 .. Len(p) + 1 /\ (i + 1) - 1 = i
  BY LenProperties
<1>2. i + 1 = Len(p) + 1 \/ p[i + 1] # Star \/ p[(i + 1) - 1] # Star
  BY <1>1 DEF Double
<1>3. ASSUME j \in Means(p, s, i)
      PROVE  \E k \in Means(p, s, i + 1) : j <= k /\ Fits(p, s, i, i, j, k)
  <2>1. PICK c \in Cuts(p, s, i) : c[i - 1] = j
    BY <1>3 DEF Means
  <2>2. c[i] \in Means(p, s, i + 1)
    BY <1>1, <1>2, CutsLater, Zenon
  <2>3. j <= c[i] /\ Fits(p, s, i, i, j, c[i])
    BY <1>1, <2>1 DEF Cuts
  <2>. QED  BY <2>2, <2>3
<1>4. ASSUME NEW k \in Means(p, s, i + 1), j <= k, Fits(p, s, i, i, j, k)
      PROVE  j \in Means(p, s, i)
  <2>1. PICK c \in Cuts(p, s, i + 1) : c[i] = k
    BY <1>1, <1>4 DEF Means
  <2>2. /\ c \in [i .. Len(p) -> 0 .. Len(s)] /\ c[Len(p)] = Len(s)
        /\ \A l \in i + 1 .. Len(p) :
             c[l - 1] <= c[l] /\ Fits(p, s, i + 1, l, c[l - 1], c[l])
    BY <1>1, <2>1 DEF Cuts
  <2>. DEFINE d == [l \in i - 1 .. Len(p) |-> IF l = i - 1 THEN j ELSE c[l]]
  <2>3. /\ d \in [i - 1 .. Len(p) -> 0 .. Len(s)] /\ d[Len(p)] = Len(s)
        /\ d[i - 1] = j /\ d[i] = k
        /\ \A l \in i + 1 .. Len(p) : d[l - 1] = c[l - 1] /\ d[l] = c[l]
    BY <1>1, <2>1, <2>2
  <2>. HIDE DEF d
  <2>4. ASSUME NEW l \in i .. Len(p)
        PROVE  d[l - 1] <= d[l] /\ Fits(p, s, i, l, d[l - 1], d[l])
    <3>1. CASE l = i
      BY <1>4, <2>3, <3>1
    <3>2. CASE l # i
      <4>1. l \in i + 1 .. Len(p)
        BY <1>1, <3>2
      <4>2. c[l - 1] <= c[l] /\ Fits(p, s, i + 1, l, c[l - 1], c[l])
        BY <2>2, <4>1
      <4>3. Fits(p, s, i, l, c[l - 1], c[l])
        BY <1>1, <1>2, <4>1, <4>2, FitsLater
      <4>. QED  BY <2>3, <4>1, <4>2, <4>3
    <3>. QED  BY <3>1, <3>2
  <2>5. d \in Cuts(p, s, i)
    BY <2>3, <2>4 DEF Cuts
  <2>. QED  BY <2>3, <2>5 DEF Means
<1>. QED  BY <1>3, <1>4

\* A run of stars ends.
LEMMA StarsEnd ==
  ASSUME NEW X, NEW p \in Seq(X), NEW i \in 1 .. Len(p), Double(p, i)
  PROVE  /\ AfterStars(p, i) \in i + 2 .. Len(p) + 1
         /\ \A l \in i .. AfterStars(p, i) - 1 : p[l] = Star
         /\ AfterStars(p, i) = Len(p) + 1 \/ p[AfterStars(p, i)] # Star
<1>. DEFINE Ends == {k \in i .. Len(p) + 1 : k = Len(p) + 1 \/ p[k] # Star}
            IsEnd(k) == /\ \A l \in i .. k - 1 : p[l] = Star
                        /\ k = Len(p) + 1 \/ p[k] # Star
<1>0. Len(p) \in Nat /\ i \in Nat /\ i < Len(p) /\ p[i] = Star /\ p[i + 1] = Star
  BY LenProperties DEF Double
<1>1. PICK k \in Ends : \A x \in Ends : k <= x
  <2>1. Ends \in SUBSET Nat /\ Len(p) + 1 \in Ends
    BY <1>0
  <2>. HIDE DEF Ends
  <2>. QED  BY <2>1, LeastNat
<1>2. k \in i .. Len(p) + 1 /\ IsEnd(k)
  <2>1. ASSUME NEW l \in i .. k - 1 PROVE p[l] = Star
    <3>1. l \in i .. Len(p) + 1 /\ ~(k <= l) /\ l # Len(p) + 1
      BY <1>0
    <3>2. l \notin Ends
      <4>. HIDE DEF Ends
      <4>. QED  BY <1>1, <3>1
    <3>. QED  BY <3>1, <3>2
  <2>. QED  BY <2>1
<1>3. AfterStars(p, i) = CHOOSE x \in i .. Len(p) + 1 : IsEnd(x)
  BY DEF AfterStars
<1>4. AfterStars(p, i) \in i .. Len(p) + 1 /\ IsEnd(AfterStars(p, i))
  <2>. HIDE DEF IsEnd, Ends
  <2>. QED  BY <1>2, <1>3
<1>5. AfterStars(p, i) # i /\ AfterStars(p, i) # i + 1
  BY <1>0, <1>4
<1>. QED  BY <1>0, <1>4, <1>5

\* Two stars or more in front: they stand for anything.
LEMMA MeansManyMore ==
  ASSUME NEW X, NEW p \in Seq(X), NEW s \in Seq(X), NEW i \in 1 .. Len(p), Double(p, i),
         NEW j \in 0 .. Len(s)
  PROVE  j \in Means(p, s, i) <=> \E k \in Means(p, s, AfterStars(p, i)) : j <= k
<1>. DEFINE A == AfterStars(p, i)
<1>0. /\ Len(p) \in Nat /\ Len(s) \in Nat /\ i \in Nat /\ A \in Nat
      /\ i + 2 <= A /\ A <= Len(p) + 1
      /\ \A l \in i .. A - 1 : p[l] = Star
      /\ A = Len(p) + 1 \/ p[A] # Star
  BY LenProperties, StarsEnd
<1>. HIDE DEF A
<1>1. /\ A \in i .. Len(p) + 1 /\ i \in 1 .. Len(p) + 1 /\ A \in 1 .. Len(p) + 1
      /\ A - 1 \in i - 1 .. Len(p) /\ i - 1 \in i - 1 .. Len(p) /\ A - 1 \in i - 1 .. Len(p)
      /\ A - 1 \in (i - 1) .. Len(p)
  BY <1>0
<1>2. ASSUME j \in Means(p, s, i)
      PROVE  \E k \in Means(p, s, A) : j <= k
  <2>1. PICK c \in Cuts(p, s, i) : c[i - 1] = j
    BY <1>2 DEF Means
  <2>2. c[A - 1] \in Means(p, s, A)
    BY <1>0, <1>1, CutsLater, Zenon
  <2>3. c[i - 1] <= c[A - 1]
    BY <1>1, CutsGrow
  <2>. QED  BY <2>1, <2>2, <2>3
<1>3. ASSUME NEW k \in Means(p, s, A), j <= k
      PROVE  j \in Means(p, s, i)
  <2>1. PICK c \in Cuts(p, s, A) : c[A - 1] = k
    BY <1>3 DEF Means
  <2>2. /\ c \in [A - 1 .. Len(p) -> 0 .. Len(s)] /\ c[Len(p)] = Len(s)
        /\ \A l \in A .. Len(p) :
             c[l - 1] <= c[l] /\ Fits(p, s, A, l, c[l - 1], c[l])
    BY <2>1 DEF Cuts
  <2>. DEFINE d == [l \in i - 1 .. Len(p) |->
                      IF l = i - 1 THEN j ELSE IF l < A THEN k ELSE c[l]]
  <2>3. k \in 0 .. Len(s)
    BY DEF Means
  <2>4. \A l \in A .. Len(p) : c[l] \in 0 .. Len(s)
    <3>1. \A l \in A .. Len(p) : l \in A - 1 .. Len(p)
      BY <1>0
    <3>. QED  BY <2>2, <3>1
  <2>5. d \in [i - 1 .. Len(p) -> 0 .. Len(s)]
    <3>1. ASSUME NEW l \in i - 1 .. Len(p), ~(l < A) PROVE l \in A .. Len(p)
      BY <1>0, <3>1
    <3>. QED  BY <2>3, <2>4, <3>1
  <2>6. d[Len(p)] = Len(s)
    BY <1>0, <1>1, <2>1, <2>2, SMTT(30)
  <2>7. d[i - 1] = j /\ d[i] = k
    BY <1>0
  <2>8. \A l \in i + 1 .. A - 1 : d[l - 1] = k /\ d[l] = k
    BY <1>0
  <2>9. ASSUME NEW l \in A .. Len(p) PROVE d[l - 1] = c[l - 1] /\ d[l] = c[l]
    <3>1. l \in i - 1 .. Len(p) /\ l - 1 \in i - 1 .. Len(p) /\ l # i - 1 /\ l - 1 # i - 1
      BY <1>0
    <3>2. l - 1 < A => l - 1 = A - 1
      BY <1>0
    <3>3. ~(l < A)
      BY <1>0
    <3>. QED  BY <2>1, <3>1, <3>2, <3>3
  <2>. HIDE DEF d
  <2>10. ASSUME NEW l \in i .. Len(p)
         PROVE  d[l - 1] <= d[l] /\ Fits(p, s, i, l, d[l - 1], d[l])
    <3>1. CASE l = i
      <4>1. i + 1 \in i .. Len(p) /\ p[i] = Star /\ p[i + 1] = Star
        BY <1>0
      <4>. QED  BY <1>3, <2>7, <3>1, <4>1 DEF Fits
    <3>2. CASE l \in i + 1 .. A - 1
      <4>1. l - 1 \in i .. Len(p) /\ p[l] = Star /\ p[l - 1] = Star
        BY <1>0, <3>2
      <4>. QED  BY <2>3, <2>8, <3>2, <4>1 DEF Fits
    <3>3. CASE l \in A .. Len(p)
      <4>1. c[l - 1] <= c[l] /\ Fits(p, s, A, l, c[l - 1], c[l])
        BY <2>2, <3>3
      <4>2. Fits(p, s, i, l, c[l - 1], c[l])
        <5>1. A = i \/ l # A \/ p[A] # Star \/ p[A - 1] # Star
          BY <1>0, <3>3
        <5>. QED  BY <1>1, <3>3, <4>1, <5>1, FitsLater
      <4>. QED  BY <2>9, <3>3, <4>1, <4>2
    <3>. QED  BY <1>0, <3>1, <3>2, <3>3
  <2>11. d \in Cuts(p, s, i)
    BY <2>5, <2>6, <2>10 DEF Cuts
  <2>. QED  BY <2>7, <2>11 DEF Means
<1>. QED  BY <1>2, <1>3 DEF A

\* What Means says of a pattern is what matchFrom makes of it.
LEMMA MeansIsAccepted ==
  ASSUME NEW X, NEW p \in Seq(X), NEW s \in Seq(X), NEW i \in 1 .. Len(p) + 1
  PROVE  Means(p, s, i) = Accepts(p, s, [k \in 1 .. Len(p) + 1 |-> Means(p, s, k)], i)
<1>. DEFINE later == [k \in 1 .. Len(p) + 1 |-> Means(p, s, k)]
<1>0. Len(p) \in Nat /\ Len(s) \in Nat /\ i \in Nat
  BY LenProperties
<1>. SUFFICES ASSUME NEW j \in 0 .. Len(s)
              PROVE  j \in Means(p, s, i) <=> j \in Accepts(p, s, later, i)
  BY DEF Means, Accepts
<1>1. CASE i = Len(p) + 1
  <2>1. j \in Means(p, s, i) <=> j = Len(s)
    <3>1. ASSUME j \in Means(p, s, i) PROVE j = Len(s)
      BY <1>0, <1>1, <3>1 DEF Means, Cuts
    <3>2. ASSUME j = Len(s) PROVE j \in Means(p, s, i)
      <4>. DEFINE c == [l \in i - 1 .. Len(p) |-> Len(s)]
      <4>1. c \in [i - 1 .. Len(p) -> 0 .. Len(s)] /\ c[Len(p)] = Len(s) /\ c[i - 1] = Len(s)
        BY <1>0, <1>1
      <4>2. i .. Len(p) = {}
        BY <1>0, <1>1
      <4>. HIDE DEF c
      <4>3. c \in Cuts(p, s, i)
        BY <4>1, <4>2 DEF Cuts
      <4>. QED  BY <3>2, <4>1, <4>3 DEF Means
    <3>. QED  BY <3>1, <3>2
  <2>2. i > Len(p) /\ ~(i <= Len(p)) /\ ~Double(p, i)
    BY <1>0, <1>1 DEF Double
  <2>. QED  BY <2>1, <2>2 DEF Accepts
<1>2. CASE i # Len(p) + 1 /\ Double(p, i)
  <2>1. i \in 1 .. Len(p) /\ i <= Len(p) /\ ~(i > Len(p)) /\ p[i] = Star
    BY <1>0, <1>2 DEF Double
  <2>2. j \in Means(p, s, i) <=> \E k \in Means(p, s, AfterStars(p, i)) : j <= k
    BY <1>2, <2>1, MeansManyMore
  <2>3. AfterStars(p, i) \in 1 .. Len(p) + 1
    BY <1>0, <1>2, <2>1, StarsEnd
  <2>4. later[AfterStars(p, i)] = Means(p, s, AfterStars(p, i))
    BY <2>3
  <2>. HIDE DEF later
  <2>5. Star # AnyChar
    BY DEF Star, AnyChar
  <2>. QED  BY <1>2, <2>1, <2>2, <2>4, <2>5 DEF Accepts
<1>3. CASE i # Len(p) + 1 /\ ~Double(p, i)
  <2>1. i \in 1 .. Len(p) /\ i <= Len(p) /\ ~(i > Len(p)) /\ i + 1 \in 1 .. Len(p) + 1
    BY <1>0, <1>3
  <2>2. j \in Means(p, s, i) <=>
          \E k \in Means(p, s, i + 1) : j <= k /\ Fits(p, s, i, i, j, k)
    BY <1>3, <2>1, MeansOneMore
  <2>3. later[i + 1] = Means(p, s, i + 1)
    BY <2>1
  <2>. HIDE DEF later
  <2>4. ASSUME NEW k \in Means(p, s, i + 1)
        PROVE  /\ k \in Nat /\ k <= Len(s)
               /\ Fits(p, s, i, i, j, k) <=>
                    \/ p[i] = Star /\ ~Crosses(s, j, k)
                    \/ p[i] = AnyChar /\ k = j + 1 /\ s[k] # Separator
                    \/ p[i] \notin {Star, AnyChar} /\ k = j + 1 /\ s[k] = p[i]
    <3>1. k \in Nat /\ k <= Len(s)
      BY <1>0 DEF Means
    <3>2. ~(p[i] = Star /\ \E x \in {i - 1, i + 1} : x \in i .. Len(p) /\ p[x] = Star)
      BY <1>0, <1>3, <2>1 DEF Double
    <3>. QED  BY <3>1, <3>2 DEF Fits
  <2>5. CASE p[i] = Star
    BY <1>3, <2>1, <2>2, <2>3, <2>4, <2>5 DEF Accepts, Star, AnyChar
  <2>6. CASE p[i] = AnyChar
    BY <1>0, <1>3, <2>1, <2>2, <2>3, <2>4, <2>6 DEF Accepts, Star, AnyChar
  <2>7. CASE p[i] \notin {Star, AnyChar}
    BY <1>0, <1>3, <2>1, <2>2, <2>3, <2>4, <2>7 DEF Accepts
  <2>. QED  BY <2>5, <2>6, <2>7
<1>. QED  BY <1>1, <1>2, <1>3

\* matchFrom is determined by what it makes of each rest of the pattern.
LEMMA MatchFromMeans ==
  ASSUME NEW X, NEW p \in Seq(X), NEW s \in Seq(X)
  PROVE  Match(p, s) <=> 0 \in Means(p, s, 1)
<1>. DEFINE Rest == 1 .. Len(p) + 1
            means == [i \in Rest |-> Means(p, s, i)]
            Solves(f) == f = [i \in Rest |-> Accepts(p, s, f, i)]
            f == CHOOSE g : Solves(g)
<1>0. Len(p) \in Nat
  BY LenProperties
<1>1. Solves(means)
  <2>1. \A i \in Rest : Means(p, s, i) = Accepts(p, s, means, i)
    BY MeansIsAccepted
  <2>. QED  BY <2>1
<1>2. Solves(f)
  <2>. HIDE DEF Solves
  <2>. QED  BY <1>1
<1>3. /\ \A i \in Rest : f[i] = Accepts(p, s, f, i)
      /\ \A i \in Rest : means[i] = Accepts(p, s, means, i)
  <2>. HIDE DEF f, means
  <2>. QED  BY <1>1, <1>2
<1>. HIDE DEF f, means
<1>. DEFINE Bad == {d \in 0 .. Len(p) : f[Len(p) + 1 - d] # means[Len(p) + 1 - d]}
<1>4. Bad = {}
  <2>1. SUFFICES ASSUME Bad # {} PROVE FALSE
    OBVIOUS
  <2>2. PICK d \in Bad : \A e \in Bad : d <= e
    <3>1. Bad \in SUBSET Nat
      OBVIOUS
    <3>. HIDE DEF Bad
    <3>. QED  BY <2>1, <3>1, LeastNat
  <2>. DEFINE i == Len(p) + 1 - d
  <2>3. d \in 0 .. Len(p) /\ f[i] # means[i] /\ i \in Rest
    BY <1>0
  <2>. HIDE DEF i
  <2>4. ASSUME NEW k \in Rest, i < k PROVE f[k] = means[k]
    <3>1. /\ Len(p) + 1 - k \in 0 .. Len(p) /\ ~(d <= Len(p) + 1 - k)
          /\ Len(p) + 1 - (Len(p) + 1 - k) = k
      BY <1>0, <2>3, <2>4 DEF i
    <3>2. Len(p) + 1 - k \notin Bad
      <4>. HIDE DEF Bad
      <4>. QED  BY <2>2, <3>1
    <3>. QED  BY <3>1, <3>2
  <2>5. i <= Len(p) => f[i + 1] = means[i + 1]
    BY <1>0, <2>3, <2>4
  <2>6. Double(p, i) => f[AfterStars(p, i)] = means[AfterStars(p, i)]
    <3>1. SUFFICES ASSUME Double(p, i) PROVE f[AfterStars(p, i)] = means[AfterStars(p, i)]
      OBVIOUS
    <3>2. i \in 1 .. Len(p)
      BY <1>0, <2>3, <3>1 DEF Double
    <3>3. AfterStars(p, i) \in Rest /\ i < AfterStars(p, i)
      BY <1>0, <3>1, <3>2, StarsEnd
    <3>. QED  BY <2>4, <3>3
  <2>7. Accepts(p, s, f, i) = Accepts(p, s, means, i)
    <3>. HIDE DEF Bad, Rest
    <3>. QED  BY <2>5, <2>6 DEF Accepts
  <2>. QED  BY <1>3, <2>3, <2>7
<1>5. f[1] = means[1]
  <2>1. Len(p) \in 0 .. Len(p) /\ Len(p) + 1 - Len(p) = 1 /\ Len(p) \notin Bad
    <3>. HIDE DEF Bad
    <3>. QED  BY <1>0, <1>4
  <2>. QED  BY <2>1
<1>6. means[1] = Means(p, s, 1)
  BY <1>0 DEF means
<1>7. Match(p, s) <=> 0 \in f[1]
  BY DEF Match, f
<1>. QED  BY <1>5, <1>6, <1>7

\* A character stands for the same read forwards or cut out.
LEMMA FitsIsStandsFor ==
  ASSUME NEW X, NEW p \in Seq(X), NEW s \in Seq(X), NEW i \in 1 .. Len(p),
         NEW a \in 0 .. Len(s), NEW b \in 0 .. Len(s), a <= b
  PROVE  Fits(p, s, 1, i, a, b) <=> StandsFor(p, i, SubSeq(s, a + 1, b))
<1>. DEFINE piece == SubSeq(s, a + 1, b)
<1>0. Len(p) \in Nat /\ Len(s) \in Nat /\ DOMAIN p = 1 .. Len(p) /\ a \in Nat /\ b \in Nat
  BY LenProperties
<1>1. /\ piece \in Seq(X) /\ Len(piece) = b - a
      /\ \A l \in 1 .. b - a : piece[l] = s[a + l]
  BY <1>0, SubSeqProperties
<1>. HIDE DEF piece
<1>2. Contains(piece, Separator) <=> Crosses(s, a, b)
  <2>1. ASSUME NEW l \in 1 .. Len(piece), piece[l] = Separator PROVE Crosses(s, a, b)
    <3>1. a + l \in a + 1 .. b /\ s[a + l] = Separator
      BY <1>0, <1>1, <2>1
    <3>. QED  BY <3>1 DEF Crosses
  <2>2. ASSUME NEW l \in a + 1 .. b, s[l] = Separator
        PROVE  \E k \in 1 .. Len(piece) : piece[k] = Separator
    <3>1. l - a \in 1 .. b - a /\ a + (l - a) = l
      BY <1>0
    <3>. QED  BY <1>1, <2>2, <3>1
  <2>. QED  BY <2>1, <2>2 DEF Contains, Crosses
<1>3. b = a + 1 <=> Len(piece) = 1
  BY <1>0, <1>1
<1>4. b = a + 1 => piece[1] = s[b]
  BY <1>0, <1>1
<1>5. \A e : piece = <<e>> <=> Len(piece) = 1 /\ piece[1] = e
  BY <1>1
<1>. QED  BY <1>0, <1>2, <1>3, <1>4, <1>5 DEF Fits, StandsFor, piece, Star, AnyChar

(***************************************************************************)
(* Match (glob.go) accepts a subject exactly if the pattern means it: the  *)
(* subject can be cut into pieces the pattern's characters stand for.      *)
(***************************************************************************)
THEOREM MatchIsItsMeaning ==
  ASSUME NEW X, NEW pattern \in Seq(X), NEW subject \in Seq(X)
  PROVE  Match(pattern, subject) <=> Meaning(pattern, subject)
<1>0. /\ Len(pattern) \in Nat /\ Len(subject) \in Nat /\ DOMAIN pattern = 1 .. Len(pattern)
      /\ 1 - 1 = 0
  BY LenProperties
<1>1. ASSUME NEW cut \in [0 .. Len(pattern) -> 0 .. Len(subject)], NEW i \in 1 .. Len(pattern),
             cut[i - 1] <= cut[i]
      PROVE  Fits(pattern, subject, 1, i, cut[i - 1], cut[i])
             <=> StandsFor(pattern, i, SubSeq(subject, cut[i - 1] + 1, cut[i]))
  <2>1. cut[i - 1] \in 0 .. Len(subject) /\ cut[i] \in 0 .. Len(subject)
    BY <1>0, SMTT(30)
  <2>. QED  BY <1>1, <2>1, FitsIsStandsFor
<1>2. 0 \in Means(pattern, subject, 1) <=> Meaning(pattern, subject)
  <2>1. ASSUME 0 \in Means(pattern, subject, 1) PROVE Meaning(pattern, subject)
    <3>1. PICK cut \in Cuts(pattern, subject, 1) : cut[0] = 0
      BY <1>0, <2>1 DEF Means
    <3>2. /\ cut \in [0 .. Len(pattern) -> 0 .. Len(subject)]
          /\ cut[Len(pattern)] = Len(subject)
          /\ \A i \in 1 .. Len(pattern) :
               cut[i - 1] <= cut[i] /\ Fits(pattern, subject, 1, i, cut[i - 1], cut[i])
      BY <1>0 DEF Cuts
    <3>. QED  BY <1>0, <1>1, <3>1, <3>2 DEF Meaning
  <2>2. ASSUME Meaning(pattern, subject) PROVE 0 \in Means(pattern, subject, 1)
    <3>1. PICK cut \in [0 .. Len(pattern) -> 0 .. Len(subject)] :
            /\ cut[0] = 0 /\ cut[Len(pattern)] = Len(subject)
            /\ \A i \in DOMAIN pattern :
                 /\ cut[i - 1] <= cut[i]
                 /\ StandsFor(pattern, i, SubSeq(subject, cut[i - 1] + 1, cut[i]))
      BY <2>2 DEF Meaning
    <3>2. cut \in Cuts(pattern, subject, 1)
      BY <1>0, <1>1, <3>1 DEF Cuts
    <3>. QED  BY <1>0, <3>1, <3>2 DEF Means
  <2>. QED  BY <2>1, <2>2
<1>. QED  BY <1>2, MatchFromMeans

\* A pattern without a glob character cuts off one character at a time.
Plain(p) == \A i \in 1 .. Len(p) : p[i] \notin {Star, AnyChar}

LEMMA PlainCutsOff ==
  ASSUME NEW X, NEW p \in Seq(X), NEW s \in Seq(X), Plain(p),
         NEW c \in Cuts(p, s, 1), c[0] = 0
  PROVE  s = p
<1>1. /\ Len(p) \in Nat /\ Len(s) \in Nat /\ c \in [0 .. Len(p) -> 0 .. Len(s)]
      /\ c[Len(p)] = Len(s)
      /\ \A l \in 1 .. Len(p) : c[l] = c[l - 1] + 1 /\ s[c[l]] = p[l]
  <2>1. Len(p) \in Nat /\ Len(s) \in Nat /\ 1 - 1 = 0
    BY LenProperties
  <2>2. /\ c \in [0 .. Len(p) -> 0 .. Len(s)] /\ c[Len(p)] = Len(s)
        /\ \A l \in 1 .. Len(p) : Fits(p, s, 1, l, c[l - 1], c[l])
    BY <2>1 DEF Cuts
  <2>3. \A l \in 1 .. Len(p) : p[l] # Star /\ p[l] # AnyChar
    BY DEF Plain
  <2>. QED  BY <2>1, <2>2, <2>3 DEF Fits
<1>. DEFINE Bad == {d \in 0 .. Len(p) : c[d] # d}
<1>2. Bad = {}
  <2>1. SUFFICES ASSUME Bad # {} PROVE FALSE
    OBVIOUS
  <2>2. PICK d \in Bad : \A e \in Bad : d <= e
    <3>1. Bad \in SUBSET Nat
      OBVIOUS
    <3>. HIDE DEF Bad
    <3>. QED  BY <2>1, <3>1, LeastNat
  <2>3. d \in 1 .. Len(p) /\ c[d] # d
    <3>1. d \in 0 .. Len(p) /\ c[d] # d
      OBVIOUS
    <3>. QED  BY <1>1, <3>1
  <2>4. d - 1 \in 0 .. Len(p) /\ ~(d <= d - 1)
    BY <1>1, <2>3
  <2>5. d - 1 \notin Bad
    <3>. HIDE DEF Bad
    <3>. QED  BY <2>2, <2>4
  <2>. QED  BY <1>1, <2>3, <2>4, <2>5
<1>3. Len(s) = Len(p) /\ \A l \in 1 .. Len(p) : s[l] = p[l]
  <2>1. \A l \in 0 .. Len(p) : c[l] = l
    BY <1>2
  <2>2. Len(p) \in 0 .. Len(p) /\ \A l \in 1 .. Len(p) : l \in 0 .. Len(p)
    BY <1>1
  <2>. QED  BY <1>1, <2>1, <2>2
<1>. QED  BY <1>3, SeqEqual

(***************************************************************************)
(* What NamesArePatterns assumes of Covers holds of Match (glob.go):       *)
(* whatever its characters, a subject is a pattern for itself; a name      *)
(* without glob characters is a pattern for nothing else; and "**", the    *)
(* pattern of a host-wide grant, accepts everything.                       *)
(***************************************************************************)
THEOREM NamesMatchThemselves ==
  ASSUME NEW X, NEW name \in Seq(X), NEW subject \in Seq(X)
  PROVE  /\ Match(subject, subject)
         /\ Plain(name) /\ Match(name, subject) => subject = name
         /\ Match(<<Star, Star>>, subject)
<1>0. Len(subject) \in Nat /\ Len(name) \in Nat /\ 1 - 1 = 0
  BY LenProperties
<1>1. Match(subject, subject)
  <2>. DEFINE c == [l \in 0 .. Len(subject) |-> l]
  <2>1. \A l \in 1 .. Len(subject) : Fits(subject, subject, 1, l, l - 1, l)
    <3>1. ASSUME NEW l \in 1 .. Len(subject), subject[l] = Star
          PROVE  ~Crosses(subject, l - 1, l)
      <4>1. \A k \in l - 1 + 1 .. l : k = l
        BY <1>0
      <4>. QED  BY <3>1, <4>1 DEF Crosses, Star, Separator
    <3>. QED  BY <1>0, <3>1 DEF Fits, AnyChar, Separator
  <2>2. /\ c \in [0 .. Len(subject) -> 0 .. Len(subject)]
        /\ c[0] = 0 /\ c[Len(subject)] = Len(subject)
        /\ \A l \in 1 .. Len(subject) : c[l - 1] = l - 1 /\ c[l] = l /\ l - 1 <= l
    BY <1>0
  <2>. HIDE DEF c
  <2>3. c \in Cuts(subject, subject, 1)
    BY <1>0, <2>1, <2>2 DEF Cuts
  <2>. QED  BY <1>0, <2>2, <2>3, MatchFromMeans DEF Means
<1>2. ASSUME Plain(name), Match(name, subject) PROVE subject = name
  <2>1. PICK c \in Cuts(name, subject, 1) : c[0] = 0
    BY <1>0, <1>2, MatchFromMeans DEF Means
  <2>. QED  BY <1>2, <2>1, PlainCutsOff
<1>3. Match(<<Star, Star>>, subject)
  <2>. DEFINE wild == <<Star, Star>>
              c == [l \in 0 .. 2 |-> IF l = 0 THEN 0 ELSE Len(subject)]
  <2>1. wild \in Seq(X \cup {Star}) /\ subject \in Seq(X \cup {Star})
    BY SeqMonotonic
  <2>2. Len(wild) = 2 /\ wild[1] = Star /\ wild[2] = Star
    OBVIOUS
  <2>3. /\ c \in [0 .. 2 -> 0 .. Len(subject)] /\ c[0] = 0 /\ c[2] = Len(subject)
        /\ \A l \in 1 .. 2 : c[l - 1] <= c[l]
    BY <1>0
  <2>. HIDE DEF wild, c
  <2>4. \A l \in 1 .. 2 : Fits(wild, subject, 1, l, c[l - 1], c[l])
    <3>1. Fits(wild, subject, 1, 1, c[1 - 1], c[1])
      BY <2>2 DEF Fits
    <3>2. Fits(wild, subject, 1, 2, c[2 - 1], c[2])
      BY <2>2 DEF Fits
    <3>. QED  BY <3>1, <3>2
  <2>5. c \in Cuts(wild, subject, 1)
    BY <1>0, <2>2, <2>3, <2>4 DEF Cuts
  <2>6. 0 \in Means(wild, subject, 1)
    BY <1>0, <2>3, <2>5 DEF Means
  <2>. QED  BY <2>1, <2>6, MatchFromMeans DEF wild
<1>. QED  BY <1>1, <1>2, <1>3
=============================================================================
