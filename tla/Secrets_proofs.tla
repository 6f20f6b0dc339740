--------------------------- MODULE Secrets_proofs ---------------------------
(***************************************************************************)
(* Proofs about the services that hand out secrets: the 1Password vault    *)
(* with its cache, for any requests, references, answers, rules, expiry    *)
(* times and cache sizes; the forwarded agents, for any clients, keys,     *)
(* hosts, number of links and number of requests; and the guard in front   *)
(* of `op`, for any command line.                                          *)
(***************************************************************************)
EXTENDS Vault, Agents, Guard, Policy_proofs

-----------------------------------------------------------------------------
(***************************************************************************)
(* The vault.                                                              *)
(***************************************************************************)

(***************************************************************************)
(* An approval that has `left` ticks to go is backed by what the store     *)
(* would say by itself for at least as long; one with none to go needs no  *)
(* backing, since nothing is kept under it.                                *)
(***************************************************************************)
Left == {Session} \cup Nat

Backed(s, left) ==
  \/ left = 0
  \/ RulesSay("allow", TheHost, s)
  \/ \E g \in MatchingGrants("allow", TheHost, s) :
       g.left = Session \/ (left # Session /\ left <= g.left)

Covered(s, left) == ~Denied(TheHost, s) /\ Backed(s, left)

(***************************************************************************)
(* KeptOnlyWhileAllowed is not inductive: a value enters the cache when op *)
(* answers, long after the question, with what is left of the approval by  *)
(* then; and no answer in between may have forbidden it.                   *)
(***************************************************************************)
ApprovalsAreBacked ==
  \A r \in Request, s \in Subject, left \in Left :
    pc[r] \in {"approved", "running"} /\ Ref(r) = s /\ until[r] = left => Covered(s, left)

OnlyAskedUndenied ==
  \A r \in Request, s \in Subject :
    pc[r] = "asking" /\ Ref(r) = s => ~Denied(TheHost, s)

KeptAreBacked ==
  \A s \in Subject, left \in Nat \ {0} :
    s \in Kept /\ cache[s] = left => Covered(s, left)

BackingInv == tightened \/ (ApprovalsAreBacked /\ OnlyAskedUndenied /\ KeptAreBacked)

HandlersTypeOK ==
  /\ pc \in [Request -> {"next", "asking", "approved", "running",
                         "served", "refused", "failed"}]
  /\ at \in [Request -> Nat]
  /\ until \in [Request -> {Session} \cup 0 .. DefaultTTL]
  /\ got \in [Request -> SUBSET Subject]
  /\ cleared \in [Request -> SUBSET Subject]
  /\ \A r \in Request : at[r] \in DOMAIN RefsOf[r] /\ got[r] \subseteq ToSet(RefsOf[r])

CacheTypeOK ==
  /\ Kept \subseteq Subject /\ IsFiniteSet(Kept)
  /\ \A s \in Kept : cache[s] \in 0 .. CacheTTL

(***************************************************************************)
(* The reference in hand of a request that has one was approved for it.    *)
(***************************************************************************)
InHandIsCleared ==
  \A r \in Request : pc[r] \in {"approved", "running"} => Ref(r) \in cleared[r]

VaultInv ==
  /\ PolicyInv
  /\ HandlersTypeOK /\ CacheTypeOK
  /\ forgetting \in BOOLEAN /\ tightened \in BOOLEAN
  /\ NothingUnasked /\ InHandIsCleared
  /\ CacheIsBounded
  /\ BackingInv

-----------------------------------------------------------------------------
(***************************************************************************)
(* The reference in hand is one of those the request wants.                *)
(***************************************************************************)
LEMMA RefIsWanted ==
  ASSUME HandlersTypeOK, NEW r \in Request
  PROVE  /\ Ref(r) \in Subject /\ Ref(r) \in ToSet(RefsOf[r])
         /\ at[r] \in 1 .. Len(RefsOf[r])
<1>1. RefsOf[r] \in Seq(Subject)
  BY VaultRequests
<1>2. DOMAIN RefsOf[r] = 1 .. Len(RefsOf[r])
  BY <1>1, LenProperties
<1>3. at[r] \in 1 .. Len(RefsOf[r])
  BY <1>2 DEF HandlersTypeOK
<1>4. RefsOf[r][at[r]] \in Subject
  BY <1>1, <1>3, ElementOfSeq
<1> QED BY <1>2, <1>3, <1>4 DEF Ref, ToSet

LEMMA EndsAreTimes ==
  ASSUME PolicyInv, NEW s \in Subject, Decide(TheHost, s) = "allow"
  PROVE  ApprovalEnds(s) \in {Session} \cup 0 .. DefaultTTL /\ Covered(s, ApprovalEnds(s))
<1> DEFINE matching == MatchingGrants("allow", TheHost, s)
           places == {g.at : g \in matching}
<1>1. ~Denied(TheHost, s) /\ Approved(TheHost, s)
  BY DEF Decide
<1>2. CASE RulesSay("allow", TheHost, s)
  BY <1>1, <1>2 DEF ApprovalEnds, Covered, Backed
<1>3. CASE ~RulesSay("allow", TheHost, s)
  <2>1. matching # {} /\ matching \subseteq grants
    BY <1>1, <1>3 DEF Approved, MatchingGrants
  <2>2. \A g \in matching : g \in Grant
    BY <2>1 DEF PolicyInv, PolicyTypeOK
  <2> HIDE DEF matching
  <2>3. places # {} /\ places \in SUBSET Nat
    BY <2>1, <2>2 DEF Grant
  <2>4. \E n \in places : \A m \in places : n <= m
    <3> HIDE DEF places
    <3> QED BY <2>3, LeastNat
  <2>5. \E g \in matching : \A other \in matching : g.at <= other.at
    BY <2>4
  <2> DEFINE first == CHOOSE g \in matching : \A other \in matching : g.at <= other.at
  <2>6. first \in matching
    BY <2>5
  <2>7. ApprovalEnds(s) = first.left
    BY <1>3 DEF ApprovalEnds, matching
  <2> HIDE DEF first
  <2>8. first.left \in {Session} \cup 0 .. DefaultTTL
    BY <2>2, <2>6 DEF Grant
  <2>9. first.left # Session => first.left <= first.left
    BY <2>8, BoundsAreNumbers
  <2> QED BY <1>1, <2>6, <2>7, <2>8, <2>9 DEF Covered, Backed, matching
<1> QED BY <1>2, <1>3

-----------------------------------------------------------------------------
(***************************************************************************)
(* Handlers: their types, and that nothing is given before it is cleared.  *)
(***************************************************************************)
HandlersInv == HandlersTypeOK /\ NothingUnasked /\ InHandIsCleared

LEMMA MoveKeepsHandlers ==
  ASSUME HandlersInv, NEW r \in Request, NEW from, NEW to, Moves(r, from, to),
         to \in {"asking", "refused", "failed"} \/ (from = "approved" /\ to = "running"),
         UNCHANGED <<at, until, got, cleared>>
  PROVE  HandlersInv'
BY DEF HandlersInv, HandlersTypeOK, NothingUnasked, InHandIsCleared, Moves, Ref

LEMMA ApproveKeepsHandlers ==
  ASSUME HandlersInv, NEW r \in Request, NEW left \in {Session} \cup 0 .. DefaultTTL,
         pc' = [pc EXCEPT ![r] = "approved"], Approve(r, left), UNCHANGED <<at, got>>
  PROVE  HandlersInv'
<1>1. Ref(r) \in Subject
  BY RefIsWanted DEF HandlersInv
<1>2. cleared' = [cleared EXCEPT ![r] = @ \cup {Ref(r)}] /\ until' = [until EXCEPT ![r] = left]
  BY DEF Approve
<1>3. \A q \in Request : Ref(q)' = Ref(q)
  BY DEF Ref
<1>4. HandlersTypeOK'
  BY <1>1, <1>2 DEF HandlersInv, HandlersTypeOK
<1>5. \A q \in Request : cleared[q] \subseteq cleared'[q]
  BY <1>2 DEF HandlersInv, HandlersTypeOK
<1>6. Ref(r) \in cleared'[r]
  BY <1>2 DEF HandlersInv, HandlersTypeOK
<1>7. InHandIsCleared'
  BY <1>3, <1>5, <1>6 DEF HandlersInv, HandlersTypeOK, InHandIsCleared
<1>8. NothingUnasked'
  BY <1>5 DEF HandlersInv, NothingUnasked
<1> QED BY <1>4, <1>7, <1>8 DEF HandlersInv

LEMMA GiveKeepsHandlers ==
  ASSUME HandlersInv, NEW r \in Request, pc[r] \in {"approved", "running"}, Give(r)
  PROVE  HandlersInv'
<1>1. /\ Ref(r) \in Subject /\ Ref(r) \in ToSet(RefsOf[r])
      /\ at[r] \in 1 .. Len(RefsOf[r])
  BY RefIsWanted DEF HandlersInv
<1>2. got' = [got EXCEPT ![r] = @ \cup {Ref(r)}] /\ UNCHANGED <<until, cleared>>
  BY DEF Give
<1>3. Ref(r) \in cleared[r]
  BY DEF HandlersInv, InHandIsCleared
<1>4. NothingUnasked'
  BY <1>2, <1>3 DEF HandlersInv, HandlersTypeOK, NothingUnasked
<1>5. /\ got' \in [Request -> SUBSET Subject]
      /\ \A q \in Request : got'[q] \subseteq ToSet(RefsOf[q])
  BY <1>1, <1>2 DEF HandlersInv, HandlersTypeOK
<1>6. CASE at[r] < Len(RefsOf[r])
  <2>1. pc' = [pc EXCEPT ![r] = "next"] /\ at' = [at EXCEPT ![r] = @ + 1]
    BY <1>6 DEF Give
  <2>2. Len(RefsOf[r]) \in Nat /\ DOMAIN RefsOf[r] = 1 .. Len(RefsOf[r])
    BY VaultRequests, LenProperties
  <2>3. at[r] + 1 \in DOMAIN RefsOf[r] /\ at[r] + 1 \in Nat
    BY <1>1, <1>6, <2>2
  <2>4. HandlersTypeOK'
    BY <1>2, <1>5, <2>1, <2>3 DEF HandlersInv, HandlersTypeOK
  <2>5. InHandIsCleared'
    BY <1>2, <2>1 DEF HandlersInv, HandlersTypeOK, InHandIsCleared, Ref
  <2> QED BY <1>4, <2>4, <2>5 DEF HandlersInv
<1>7. CASE ~(at[r] < Len(RefsOf[r]))
  <2>1. pc' = [pc EXCEPT ![r] = "served"] /\ UNCHANGED at
    BY <1>7 DEF Give
  <2>2. HandlersTypeOK'
    BY <1>2, <1>5, <2>1 DEF HandlersInv, HandlersTypeOK
  <2>3. InHandIsCleared'
    BY <1>2, <2>1 DEF HandlersInv, HandlersTypeOK, InHandIsCleared, Ref
  <2> QED BY <1>4, <2>2, <2>3 DEF HandlersInv
<1> QED BY <1>6, <1>7

LEMMA AnswerEndsAreTimes ==
  ASSUME NEW c
  PROVE  AnswerEnds(c) \in {Session} \cup 0 .. DefaultTTL
BY BoundsAreNumbers DEF AnswerEnds

LEMMA StepKeepsHandlers ==
  ASSUME PolicyInv, HandlersInv, [VaultNext]_vaultVars
  PROVE  HandlersInv'
<1>1. ASSUME NEW r \in Request, AllowedByPolicy(r)
      PROVE  HandlersInv'
  <2>1. ApprovalEnds(Ref(r)) \in {Session} \cup 0 .. DefaultTTL
    BY <1>1, RefIsWanted, EndsAreTimes DEF AllowedByPolicy, HandlersInv
  <2> QED BY <1>1, <2>1, ApproveKeepsHandlers DEF AllowedByPolicy, Moves
<1>2. ASSUME NEW r \in Request, RefusedByPolicy(r) \/ Asked(r) \/ Miss(r) \/ OpFails(r)
      PROVE  HandlersInv'
  BY <1>2, MoveKeepsHandlers DEF RefusedByPolicy, Asked, Miss, OpFails
<1>3. ASSUME NEW r \in Request, Hit(r) \/ OpAnswers(r)
      PROVE  HandlersInv'
  BY <1>3, GiveKeepsHandlers DEF Hit, OpAnswers
<1>4. ASSUME NEW r \in Request, NEW c \in Menu, AnsweredWith(r, c)
      PROVE  HandlersInv'
  <2>1. CASE Allows(c)
    BY <1>4, <2>1, AnswerEndsAreTimes, ApproveKeepsHandlers DEF AnsweredWith, Moves
  <2>2. CASE ~Allows(c)
    BY <1>4, <2>2, MoveKeepsHandlers DEF AnsweredWith
  <2> QED BY <2>1, <2>2
<1>5. ASSUME UNCHANGED handlerVars
      PROVE  HandlersInv'
  BY <1>5 DEF handlerVars, HandlersInv, HandlersTypeOK, NothingUnasked, InHandIsCleared, Ref
<1>6. CASE TimePasses
  <2>1. until' = [r \in Request |-> Less(until[r])] /\ UNCHANGED <<pc, at, got, cleared>>
    BY <1>6 DEF TimePasses
  <2>2. \A r \in Request : Less(until[r]) \in {Session} \cup 0 .. DefaultTTL
    BY BoundsAreNumbers DEF HandlersInv, HandlersTypeOK, Less, Session
  <2> QED
    BY <2>1, <2>2 DEF HandlersInv, HandlersTypeOK, NothingUnasked, InHandIsCleared, Ref
<1>7. CASE Forget \/ Purge \/ TakeBack \/ SavedLater \/ UNCHANGED vaultVars
  BY <1>5, <1>7 DEF Forget, Purge, TakeBack, SavedLater, vaultVars
<1> QED BY <1>1, <1>2, <1>3, <1>4, <1>6, <1>7 DEF VaultNext

-----------------------------------------------------------------------------
(***************************************************************************)
(* The cache: its types and its bound.                                     *)
(***************************************************************************)
CacheInv == CacheTypeOK /\ CacheIsBounded

\* What FiniteSetsExt's Min returns for two naturals.
LEMMA MinOfTwo ==
  ASSUME NEW a \in Nat, NEW b \in Nat
  PROVE  Min({a, b}) \in {a, b} /\ Min({a, b}) <= a /\ Min({a, b}) <= b
<1>1. \E x \in {a, b} : \A y \in {a, b} : x <= y
  OBVIOUS
<1> QED BY <1>1 DEF Min

\* A value is kept at most the cache's own time and what is left of the approval.
LEMMA ExpiryIsSooner ==
  ASSUME NEW left \in {Session} \cup 0 .. DefaultTTL
  PROVE  /\ Expires(left) \in 0 .. CacheTTL
         /\ left # Session => Expires(left) <= left
<1>1. CacheTTL \in Nat /\ DefaultTTL \in Nat
  BY VaultRequests, BoundsAreNumbers
<1>2. CASE left = Session
  BY <1>1, <1>2 DEF Expires
<1>3. CASE left # Session
  <2>1. left \in Nat /\ Expires(left) = Min({CacheTTL, left})
    BY <1>1, <1>3 DEF Expires
  <2>2. /\ Min({CacheTTL, left}) \in {CacheTTL, left}
        /\ Min({CacheTTL, left}) <= CacheTTL /\ Min({CacheTTL, left}) <= left
    BY <1>1, <2>1, MinOfTwo
  <2> QED BY <1>1, <2>1, <2>2
<1> QED BY <1>2, <1>3

LEMMA FewerAreBounded ==
  ASSUME CacheInv, DOMAIN cache' \subseteq Kept,
         \A s \in DOMAIN cache' : cache'[s] \in 0 .. CacheTTL
  PROVE  CacheInv'
<1>1. /\ IsFiniteSet(DOMAIN cache')
      /\ Cardinality(DOMAIN cache') <= Cardinality(Kept)
      /\ Cardinality(DOMAIN cache') \in Nat /\ Cardinality(Kept) \in Nat
  BY FS_Subset, FS_CardinalityType DEF CacheInv, CacheTypeOK
<1>2. Cardinality(DOMAIN cache') <= MaxEntries
  BY <1>1, VaultRequests DEF CacheInv, CacheIsBounded
<1> QED BY <1>1, <1>2 DEF CacheInv, CacheTypeOK, CacheIsBounded, Kept

(***************************************************************************)
(* Put: what is left after dropping the expired, less one that is evicted  *)
(* if there is no room, has room for one more.                             *)
(***************************************************************************)
LEMMA PutKeepsCache ==
  ASSUME CacheInv, NEW s \in Subject, NEW left \in {Session} \cup 0 .. DefaultTTL,
         Put(s, left)
  PROVE  /\ CacheInv'
         /\ \A k \in DOMAIN cache' :
              \/ k \in Kept /\ cache'[k] = cache[k]
              \/ k = s /\ cache'[k] = Expires(left)
<1> DEFINE live == {k \in Kept : cache[k] > 0}
<1>1. DOMAIN Unexpired = live /\ \A k \in live : Unexpired[k] = cache[k]
  BY DEF Unexpired, Restrict
<1>2. live \subseteq Kept /\ IsFiniteSet(live) /\ Cardinality(live) \in Nat
  <2>1. live \in SUBSET Kept
    OBVIOUS
  <2> QED BY <2>1, FS_Subset, FS_CardinalityType DEF CacheInv, CacheTypeOK
<1>3. Cardinality(live) <= MaxEntries
  <2>1. Cardinality(live) <= Cardinality(Kept) /\ Cardinality(Kept) \in Nat
    BY <1>2, FS_Subset, FS_CardinalityType DEF CacheInv, CacheTypeOK
  <2> QED BY <1>2, <2>1, VaultRequests DEF CacheInv, CacheIsBounded
<1>4. Expires(left) \in 0 .. CacheTTL
  BY ExpiryIsSooner
<1> HIDE DEF live
<1>5. ASSUME NEW kept \in SUBSET live, Cardinality(kept) < MaxEntries,
             cache' = [k \in kept \cup {s} |-> IF k = s THEN Expires(left) ELSE cache[k]]
      PROVE  /\ CacheInv'
             /\ \A k \in DOMAIN cache' :
                  \/ k \in Kept /\ cache'[k] = cache[k]
                  \/ k = s /\ cache'[k] = Expires(left)
  <2>1. IsFiniteSet(kept) /\ Cardinality(kept) \in Nat
    BY <1>2, FS_Subset, FS_CardinalityType
  <2>2. DOMAIN cache' = kept \cup {s}
    BY <1>5
  <2>3. IsFiniteSet(DOMAIN cache') /\ Cardinality(DOMAIN cache') <= MaxEntries
    <3>1. /\ IsFiniteSet(kept \cup {s})
          /\ Cardinality(kept \cup {s}) =
               IF s \in kept THEN Cardinality(kept) ELSE Cardinality(kept) + 1
      BY <2>1, FS_AddElement
    <3> QED BY <1>5, <2>1, <2>2, <3>1, VaultRequests
  <2>4. \A k \in DOMAIN cache' :
          \/ k \in Kept /\ cache'[k] = cache[k]
          \/ k = s /\ cache'[k] = Expires(left)
    BY <1>2, <1>5, <2>2
  <2>5. CacheTypeOK'
    BY <1>4, <2>3, <2>4 DEF CacheInv, CacheTypeOK, Kept
  <2> QED BY <2>3, <2>4, <2>5 DEF CacheInv, CacheIsBounded, Kept
<1>6. CASE Expires(left) = 0 /\ UNCHANGED cache
  BY <1>6 DEF CacheInv, CacheTypeOK, CacheIsBounded, Kept
<1>7. CASE /\ Cardinality(DOMAIN Unexpired) < MaxEntries
           /\ cache' = Store(Unexpired, s, Expires(left))
  <2>1. cache' = [k \in live \cup {s} |-> IF k = s THEN Expires(left) ELSE cache[k]]
    BY <1>1, <1>7 DEF Store
  <2>2. live \in SUBSET live /\ Cardinality(live) < MaxEntries
    BY <1>1, <1>7
  <2> QED BY <1>5, <2>1, <2>2
<1>8. CASE \E gone \in Evictable(Unexpired) :
             cache' = Store(Without(Unexpired, {gone}), s, Expires(left))
  <2>1. PICK gone \in live :
          cache' = Store(Without(Unexpired, {gone}), s, Expires(left))
    BY <1>1, <1>8 DEF Evictable
  <2> DEFINE kept == live \ {gone}
  <2>2. cache' = [k \in kept \cup {s} |-> IF k = s THEN Expires(left) ELSE cache[k]]
    BY <1>1, <2>1 DEF Store, Without, Restrict
  <2>3. Cardinality(kept) = Cardinality(live) - 1
    BY <1>2, FS_RemoveElement
  <2>4. kept \in SUBSET live /\ Cardinality(kept) < MaxEntries
    BY <1>2, <1>3, <2>3, VaultRequests
  <2> HIDE DEF kept
  <2> QED BY <1>5, <2>2, <2>4
<1> QED BY <1>6, <1>7, <1>8 DEF Put

LEMMA StepKeepsCache ==
  ASSUME HandlersTypeOK, CacheInv, [VaultNext]_vaultVars
  PROVE  CacheInv'
<1>1. ASSUME UNCHANGED cache
      PROVE  CacheInv'
  BY <1>1 DEF CacheInv, CacheTypeOK, CacheIsBounded, Kept
<1>2. ASSUME NEW r \in Request, Miss(r)
      PROVE  CacheInv'
  <2>1. CASE cache' = Without(cache, {Ref(r)})
    <3>1. /\ DOMAIN cache' \subseteq Kept
          /\ \A s \in DOMAIN cache' : cache'[s] = cache[s]
      BY <2>1 DEF Without, Restrict, Kept
    <3> QED BY <3>1, FewerAreBounded DEF CacheInv, CacheTypeOK
  <2> QED BY <1>1, <1>2, <2>1 DEF Miss
<1>3. ASSUME NEW r \in Request, OpAnswers(r)
      PROVE  CacheInv'
  <2>1. Ref(r) \in Subject /\ until[r] \in {Session} \cup 0 .. DefaultTTL
    BY RefIsWanted DEF HandlersTypeOK
  <2> QED BY <1>1, <1>3, <2>1, PutKeepsCache DEF OpAnswers
<1>4. CASE Purge
  <2>1. cache' = <<>>
    BY <1>4 DEF Purge
  <2>2. DOMAIN cache' = {}
    BY <2>1
  <2> QED BY <2>2, FewerAreBounded
<1>5. CASE TimePasses
  <2>1. cache' = [s \in Kept |-> Less(cache[s])]
    BY <1>5 DEF TimePasses
  <2>2. \A s \in Kept : Less(cache[s]) \in 0 .. CacheTTL
    BY VaultRequests DEF CacheInv, CacheTypeOK, Less
  <2> QED BY <2>1, <2>2, FewerAreBounded
<1>6. ASSUME NEW r \in Request,
             AllowedByPolicy(r) \/ RefusedByPolicy(r) \/ Asked(r) \/ Hit(r) \/ OpFails(r)
      PROVE  CacheInv'
  BY <1>1, <1>6 DEF AllowedByPolicy, RefusedByPolicy, Asked, Hit, OpFails
<1>7. ASSUME NEW r \in Request, NEW c \in Menu, AnsweredWith(r, c)
      PROVE  CacheInv'
  BY <1>1, <1>7 DEF AnsweredWith
<1>8. CASE Forget \/ TakeBack \/ SavedLater \/ UNCHANGED vaultVars
  BY <1>1, <1>8 DEF Forget, TakeBack, SavedLater, vaultVars
<1> QED BY <1>2, <1>3, <1>4, <1>5, <1>6, <1>7, <1>8 DEF VaultNext

-----------------------------------------------------------------------------
(***************************************************************************)
(* The store: an answer that forbids nothing takes no approval away and    *)
(* adds no refusal, so what was covered still is.                          *)
(***************************************************************************)
OnlyOpens ==
  /\ \A rule \in ToSet(hostRules) : rule.action = "allow" => rule \in ToSet(hostRules')
  /\ \A g \in grants : Live(g) /\ g.action = "allow" => g \in grants'
  /\ \A rule \in ToSet(hostRules') : rule.action = "deny" => rule \in ToSet(hostRules)
  /\ \A g \in grants' : g.action = "deny" => g \in grants

LEMMA OpeningKeepsUndenied ==
  ASSUME OnlyOpens, NEW s \in Subject, ~Denied(TheHost, s)
  PROVE  ~Denied(TheHost, s)'
<1>1. ~RulesSay("deny", TheHost, s)'
  BY DEF Denied, RulesSay, AllRules, RuleMatches, OnlyOpens
<1>2. (MatchingGrants("deny", TheHost, s) = {})'
  BY DEF Denied, MatchingGrants, GrantMatches, Live, OnlyOpens
<1> QED BY <1>1, <1>2 DEF Denied

LEMMA OpeningKeepsCovered ==
  ASSUME OnlyOpens, NEW s \in Subject, NEW left \in Left, Covered(s, left)
  PROVE  Covered(s, left)'
<1>1. ~Denied(TheHost, s)'
  BY OpeningKeepsUndenied DEF Covered
<1>2. RulesSay("allow", TheHost, s) => RulesSay("allow", TheHost, s)'
  BY DEF RulesSay, AllRules, RuleMatches, OnlyOpens
<1>3. \A g \in MatchingGrants("allow", TheHost, s) :
        (g \in MatchingGrants("allow", TheHost, s))'
  BY DEF MatchingGrants, GrantMatches, Live, OnlyOpens
<1> QED BY <1>1, <1>2, <1>3 DEF Covered, Backed

LEMMA AnswersOpen ==
  ASSUME PolicyInv, NEW s \in Subject, NEW c \in Choice,
         c \notin {"refuseSession", "refuseAlways"}, Record(TheHost, s, c)
  PROVE  OnlyOpens
<1>1. CASE UNCHANGED policyVars
  BY <1>1 DEF OnlyOpens, policyVars
<1>2. CASE \E p \in {s, Wild}, left \in {Session, DefaultTTL} : AddGrant(TheHost, p, "allow", left)
  BY <1>2 DEF AddGrant, Pruned, OnlyOpens
<1>3. CASE AppendRule([host |-> TheHost, subject |-> s, action |-> "allow"])
  <2>1. [host |-> TheHost, subject |-> s, action |-> "allow"] \in Rule
    BY NamesArePatterns, VaultRequests DEF Rule, Action
  <2> QED BY <1>3, <2>1, AppendedRule DEF AppendRule, OnlyOpens, PolicyInv, PolicyTypeOK
<1> QED BY <1>1, <1>2, <1>3 DEF Record

(***************************************************************************)
(* An allowing answer is backed by what it leaves behind, for as long as   *)
(* the approval it gives.                                                  *)
(***************************************************************************)
LEMMA AnswerIsBacked ==
  ASSUME PolicyInv, NEW s \in Subject, NEW c \in Choice, Allows(c),
         Record(TheHost, s, c), ~Denied(TheHost, s)
  PROVE  Covered(s, AnswerEnds(c))'
<1>1. ~Denied(TheHost, s)'
  BY AnswersOpen, OpeningKeepsUndenied DEF Allows
<1>2. s \in Covers[s] /\ s \in Covers[Wild] /\ TheHost \in Covers[TheHost]
      /\ TheHost # NoHost /\ DefaultTTL \in Nat \ {0}
  BY NamesArePatterns, BoundsAreNumbers, VaultRequests
<1>3. ASSUME NEW p \in {s, Wild}, NEW left \in {Session, DefaultTTL},
             AddGrant(TheHost, p, "allow", left), AnswerEnds(c) = left
      PROVE  Backed(s, AnswerEnds(c))'
  <2>1. [host |-> TheHost, subject |-> p, action |-> "allow",
         left |-> left, at |-> NextPlace] \in grants'
    BY <1>3 DEF AddGrant
  <2>2. PICK new \in grants' : /\ new.host = TheHost /\ new.subject = p
                              /\ new.action = "allow" /\ new.left = left
    BY <2>1
  <2>3. left # 0 /\ (left # Session => left <= left)
    BY <1>2 DEF Session
  <2>4. (new \in MatchingGrants("allow", TheHost, s))'
    BY <1>2, <2>2, <2>3 DEF MatchingGrants, GrantMatches, Live
  <2> QED BY <1>3, <2>2, <2>3, <2>4 DEF Backed
<1>4. ASSUME AppendRule([host |-> TheHost, subject |-> s, action |-> "allow"])
      PROVE  Backed(s, AnswerEnds(c))'
  <2> DEFINE new == [host |-> TheHost, subject |-> s, action |-> "allow"]
  <2>1. new \in Rule
    BY NamesArePatterns, VaultRequests DEF Rule, Action
  <2>2. new \in ToSet(hostRules')
    BY <1>4, <2>1, AppendedRule DEF AppendRule, PolicyInv, PolicyTypeOK
  <2>3. RulesSay("allow", TheHost, s)'
    BY <1>2, <2>2 DEF RulesSay, AllRules, RuleMatches
  <2> QED BY <2>3 DEF Backed
<1>5. ASSUME c = "allowOnce"
      PROVE  Backed(s, AnswerEnds(c))'
  BY <1>5 DEF AnswerEnds, Backed
<1>6. ASSUME c \in {"allowTTL", "allowHostTTL"}
      PROVE  Backed(s, AnswerEnds(c))'
  BY <1>3, <1>6 DEF Record, AnswerEnds
<1>7. ASSUME c \in {"allowSession", "allowHostSession"}
      PROVE  Backed(s, AnswerEnds(c))'
  BY <1>3, <1>7 DEF Record, AnswerEnds
<1>8. ASSUME c = "allowAlways"
      PROVE  Backed(s, AnswerEnds(c))'
  BY <1>4, <1>8 DEF Record
<1>9. Backed(s, AnswerEnds(c))'
  BY <1>5, <1>6, <1>7, <1>8 DEF Choice, Allows
<1> QED BY <1>1, <1>9 DEF Covered

(***************************************************************************)
(* A tick shortens the approval and the grants behind it alike.            *)
(***************************************************************************)
LEMMA TickKeepsUndenied ==
  ASSUME PolicyInv, Tick, NEW s \in Subject, ~Denied(TheHost, s)
  PROVE  ~Denied(TheHost, s)'
<1> DEFINE older(g) == [g EXCEPT !.left = IF g.left > 0 THEN g.left - 1 ELSE g.left]
<1>1. grants' = {older(g) : g \in grants} /\ UNCHANGED hostRules
  BY DEF Tick, Elapse
<1>2. \A g \in grants : /\ Live(older(g)) => Live(g)
                        /\ older(g).action = g.action /\ older(g).host = g.host
                        /\ older(g).subject = g.subject
  BY BoundsAreNumbers DEF PolicyInv, PolicyTypeOK, Grant, Session, Live
<1>3. ~RulesSay("deny", TheHost, s)'
  BY <1>1 DEF Denied, RulesSay, AllRules, RuleMatches
<1> HIDE DEF older
<1>4. (MatchingGrants("deny", TheHost, s) = {})'
  BY <1>1, <1>2 DEF Denied, MatchingGrants, GrantMatches, Live
<1> QED BY <1>3, <1>4 DEF Denied

LEMMA TickKeepsCovered ==
  ASSUME PolicyInv, Tick, NEW s \in Subject, NEW left \in Left, NEW less,
         less = Less(left), Covered(s, left)
  PROVE  Covered(s, less)'
<1> DEFINE older(g) == [g EXCEPT !.left = IF g.left > 0 THEN g.left - 1 ELSE g.left]
<1>1. grants' = {older(g) : g \in grants} /\ UNCHANGED hostRules
  BY DEF Tick, Elapse
<1>2. less \in Left /\ (left = 0 => less = 0) /\ (left = Session => less = Session)
  BY DEF Left, Less, Session
<1>3. RulesSay("allow", TheHost, s) => RulesSay("allow", TheHost, s)'
  BY <1>1 DEF RulesSay, AllRules, RuleMatches
<1>4. ASSUME NEW g \in MatchingGrants("allow", TheHost, s), less # 0,
             g.left = Session \/ (left # Session /\ left <= g.left)
      PROVE  Backed(s, less)'
  <2>1. /\ g \in grants /\ g \in Grant /\ g.left # 0 /\ g.host = TheHost
        /\ g.action = "allow" /\ s \in Covers[g.subject]
    BY <1>4 DEF MatchingGrants, GrantMatches, Live, PolicyInv, PolicyTypeOK
  <2>2. older(g).host = TheHost /\ older(g).action = "allow" /\ s \in Covers[older(g).subject]
    BY <2>1 DEF Grant
  <2>3. older(g).left = IF g.left > 0 THEN g.left - 1 ELSE g.left
    BY <2>1 DEF Grant
  <2>4. g.left = Session => older(g).left = Session
    BY <2>3 DEF Session
  <2>5. ASSUME left # Session, left <= g.left
        PROVE  less # Session /\ less <= older(g).left /\ older(g).left # 0
    <3>1. left \in Nat \ {0} /\ less = left - 1
      BY <1>2, <1>4, <2>5 DEF Left, Less
    <3>2. PICK n \in {Session} \cup 0 .. DefaultTTL : n = g.left
      BY <2>1 DEF Grant
    <3>3. n \in Nat /\ left <= n /\ n > 0
      BY <2>5, <3>1, <3>2, BoundsAreNumbers DEF Session
    <3>4. older(g).left = n - 1
      BY <2>3, <3>2, <3>3
    <3> HIDE DEF older
    <3> QED BY <1>2, <1>4, <3>1, <3>3, <3>4 DEF Session
  <2>6. older(g) \in grants'
    BY <1>1, <2>1
  <2> HIDE DEF older
  <2>7. older(g).left # 0
    BY <1>4, <2>4, <2>5 DEF Session
  <2>8. (older(g) \in MatchingGrants("allow", TheHost, s))'
    BY <2>2, <2>6, <2>7 DEF MatchingGrants, GrantMatches, Live
  <2>9. older(g).left = Session \/ (less # Session /\ less <= older(g).left)
    BY <1>4, <2>4, <2>5
  <2> QED BY <2>8, <2>9 DEF Backed
<1>5. Backed(s, less)'
  <2>1. CASE less = 0
    BY <2>1 DEF Backed
  <2>2. CASE less # 0 /\ RulesSay("allow", TheHost, s)
    BY <1>3, <2>2 DEF Backed
  <2>3. CASE less # 0 /\ ~RulesSay("allow", TheHost, s)
    <3>1. left # 0
      BY <1>2, <2>3
    <3>2. PICK g \in MatchingGrants("allow", TheHost, s) :
                 g.left = Session \/ (left # Session /\ left <= g.left)
      BY <2>3, <3>1 DEF Covered, Backed
    <3> QED BY <1>4, <2>3, <3>2
  <2> QED BY <2>1, <2>2, <2>3
<1> QED BY <1>5, TickKeepsUndenied DEF Covered

(***************************************************************************)
(* A value kept for less than its approval lasts is covered as well.       *)
(***************************************************************************)
LEMMA SoonerIsCovered ==
  ASSUME PolicyInv, NEW s \in Subject, NEW left \in {Session} \cup 0 .. DefaultTTL,
         Covered(s, left), NEW sooner \in Nat, left # Session => sooner <= left
  PROVE  Covered(s, sooner)
<1>1. sooner # Session
  BY DEF Session
<1>2. CASE sooner = 0
  BY <1>2 DEF Covered, Backed
<1>3. CASE RulesSay("allow", TheHost, s)
  BY <1>3 DEF Covered, Backed
<1>4. CASE sooner # 0 /\ ~RulesSay("allow", TheHost, s)
  <2>1. left # 0
    BY <1>4, BoundsAreNumbers DEF Session
  <2>2. PICK g \in MatchingGrants("allow", TheHost, s) :
               g.left = Session \/ (left # Session /\ left <= g.left)
    BY <1>4, <2>1 DEF Covered, Backed
  <2>3. g.left \in {Session} \cup 0 .. DefaultTTL
    BY DEF MatchingGrants, PolicyInv, PolicyTypeOK, Grant
  <2>4. g.left = Session \/ sooner <= g.left
    BY <2>2, <2>3, BoundsAreNumbers DEF Session
  <2> QED BY <1>1, <2>4 DEF Covered, Backed
<1> QED BY <1>2, <1>3, <1>4

-----------------------------------------------------------------------------
(***************************************************************************)
(* A step that only opens keeps every backing, if each handler stands      *)
(* still, moves on to where it needs none, or brings its own, and so does  *)
(* whatever enters the cache.                                              *)
(***************************************************************************)
StandsStill(r) == UNCHANGED <<pc[r], at[r], until[r]>>

NeedsNone(r) == pc'[r] \in {"next", "served", "refused", "failed"}

IsUndenied(r) ==
  pc'[r] = "asking" /\ \A s \in Subject : Ref(r)' = s => ~Denied(TheHost, s)'

BringsBacking(r) ==
  /\ pc'[r] \in {"approved", "running"}
  /\ \A s \in Subject, left \in Left :
       Ref(r)' = s /\ until'[r] = left => Covered(s, left)'

CacheBringsBacking ==
  \A s \in Subject, left \in Nat \ {0} :
    s \in Kept' /\ cache'[s] = left =>
      (s \in Kept /\ cache[s] = left) \/ Covered(s, left)'

LEMMA OpeningKeepsBacking ==
  ASSUME ApprovalsAreBacked, OnlyAskedUndenied, KeptAreBacked, OnlyOpens,
         \A r \in Request :
           StandsStill(r) \/ NeedsNone(r) \/ IsUndenied(r) \/ BringsBacking(r),
         CacheBringsBacking
  PROVE  BackingInv'
<1>1. ASSUME NEW r \in Request, NEW s \in Subject, NEW left \in Left,
             pc'[r] \in {"approved", "running"}, Ref(r)' = s, until'[r] = left
      PROVE  Covered(s, left)'
  <2>1. CASE StandsStill(r)
    <3>1. pc[r] \in {"approved", "running"} /\ Ref(r) = s /\ until[r] = left
      BY <1>1, <2>1 DEF StandsStill, Ref
    <3> QED BY <3>1, OpeningKeepsCovered DEF ApprovalsAreBacked
  <2>2. CASE BringsBacking(r)
    BY <1>1, <2>2 DEF BringsBacking
  <2> QED BY <1>1, <2>1, <2>2 DEF NeedsNone, IsUndenied
<1>2. ASSUME NEW r \in Request, NEW s \in Subject, pc'[r] = "asking", Ref(r)' = s
      PROVE  ~Denied(TheHost, s)'
  <2>1. CASE StandsStill(r)
    <3>1. pc[r] = "asking" /\ Ref(r) = s
      BY <1>2, <2>1 DEF StandsStill, Ref
    <3> QED BY <3>1, OpeningKeepsUndenied DEF OnlyAskedUndenied
  <2>2. CASE IsUndenied(r)
    BY <1>2, <2>2 DEF IsUndenied
  <2> QED BY <1>2, <2>1, <2>2 DEF NeedsNone, BringsBacking
<1>3. ASSUME NEW s \in Subject, NEW left \in Nat \ {0}, s \in Kept', cache'[s] = left
      PROVE  Covered(s, left)'
  <2>1. left \in Left
    BY DEF Left
  <2> QED BY <1>3, <2>1, OpeningKeepsCovered DEF KeptAreBacked, CacheBringsBacking
<1>4. ApprovalsAreBacked'
  BY <1>1 DEF ApprovalsAreBacked
<1>5. OnlyAskedUndenied'
  BY <1>2 DEF OnlyAskedUndenied
<1>6. KeptAreBacked'
  BY <1>3 DEF KeptAreBacked
<1> QED BY <1>4, <1>5, <1>6 DEF BackingInv

LEMMA StoreStandsStill == UNCHANGED <<hostRules, grants>> => OnlyOpens
BY DEF OnlyOpens

(***************************************************************************)
(* The steps of one handler.                                               *)
(***************************************************************************)
LEMMA HandlerKeepsBacking ==
  ASSUME VaultInv, ~tightened, NEW r \in Request,
         \/ AllowedByPolicy(r) \/ RefusedByPolicy(r) \/ Asked(r)
         \/ Hit(r) \/ Miss(r) \/ OpAnswers(r) \/ OpFails(r)
  PROVE  BackingInv'
<1>1. /\ PolicyInv /\ HandlersTypeOK /\ CacheTypeOK /\ CacheIsBounded
      /\ ApprovalsAreBacked /\ OnlyAskedUndenied /\ KeptAreBacked
  BY DEF VaultInv, BackingInv
<1>2. PICK s \in Subject : s = Ref(r)
  BY <1>1, RefIsWanted
<1>3. UNCHANGED policyVars /\ OnlyOpens
  BY StoreStandsStill DEF AllowedByPolicy, RefusedByPolicy, Asked, Hit, Miss, OpAnswers,
                          OpFails, Give, policyVars
<1>4. ASSUME NEW left \in Left, Covered(s, left)
      PROVE  Covered(s, left)'
  BY <1>3, <1>4, OpeningKeepsCovered
<1>5. UNCHANGED cache => CacheBringsBacking
  BY DEF CacheBringsBacking, Kept
<1>6. CASE AllowedByPolicy(r)
  <2>1. PICK ends \in {Session} \cup 0 .. DefaultTTL : ends = ApprovalEnds(s)
    BY <1>1, <1>2, <1>6, EndsAreTimes DEF AllowedByPolicy
  <2>2. Covered(s, ends)
    BY <1>1, <1>2, <1>6, <2>1, EndsAreTimes DEF AllowedByPolicy
  <2>3. ends \in Left
    BY BoundsAreNumbers DEF Left
  <2>4. Covered(s, ends)'
    BY <1>4, <2>2, <2>3
  <2>5. /\ pc' = [pc EXCEPT ![r] = "approved"]
        /\ until' = [until EXCEPT ![r] = ends]
        /\ UNCHANGED at
    BY <1>2, <1>6, <2>1 DEF AllowedByPolicy, Moves, Approve
  <2>6. pc'[r] = "approved" /\ until'[r] = ends /\ Ref(r)' = s
    BY <1>1, <1>2, <2>5 DEF HandlersTypeOK, Ref
  <2>7. BringsBacking(r)
    BY <2>4, <2>6 DEF BringsBacking
  <2>8. \A q \in Request \ {r} : StandsStill(q)
    BY <1>1, <2>5 DEF HandlersTypeOK, StandsStill
  <2> QED BY <1>1, <1>3, <1>5, <1>6, <2>7, <2>8, OpeningKeepsBacking DEF AllowedByPolicy
<1>7. CASE RefusedByPolicy(r) \/ OpFails(r)
  <2>1. /\ UNCHANGED <<at, until, cache>>
        /\ \E to \in {"refused", "failed"} : pc' = [pc EXCEPT ![r] = to]
    BY <1>7 DEF RefusedByPolicy, OpFails, Moves
  <2>2. NeedsNone(r) /\ \A q \in Request \ {r} : StandsStill(q)
    BY <1>1, <2>1 DEF HandlersTypeOK, NeedsNone, StandsStill
  <2> QED BY <1>1, <1>3, <1>5, <2>1, <2>2, OpeningKeepsBacking
<1>8. CASE Asked(r)
  <2>1. UNCHANGED <<at, until, cache>> /\ pc' = [pc EXCEPT ![r] = "asking"]
    BY <1>8 DEF Asked, Moves
  <2>2. ~Denied(TheHost, s)
    BY <1>2, <1>8 DEF Asked, Decide
  <2>3. ~Denied(TheHost, s)'
    BY <1>3, <2>2, OpeningKeepsUndenied
  <2>4. Ref(r)' = s /\ pc'[r] = "asking"
    BY <1>1, <1>2, <2>1 DEF HandlersTypeOK, Ref
  <2>5. IsUndenied(r)
    BY <2>3, <2>4 DEF IsUndenied
  <2>6. \A q \in Request \ {r} : StandsStill(q)
    BY <1>1, <2>1 DEF HandlersTypeOK, StandsStill
  <2> QED BY <1>1, <1>3, <1>5, <2>1, <2>5, <2>6, OpeningKeepsBacking
<1>9. CASE Miss(r)
  <2>1. /\ pc[r] = "approved" /\ pc' = [pc EXCEPT ![r] = "running"]
        /\ UNCHANGED <<at, until>>
    BY <1>9 DEF Miss, Moves
  <2>2. PICK left \in Left : left = until[r]
    BY <1>1, BoundsAreNumbers DEF HandlersTypeOK, Left
  <2>3. Covered(s, left)'
    BY <1>1, <1>2, <1>4, <2>1, <2>2 DEF ApprovalsAreBacked
  <2>4. pc'[r] = "running" /\ until'[r] = left /\ Ref(r)' = s
    BY <1>1, <1>2, <2>1, <2>2 DEF HandlersTypeOK, Ref
  <2>5. BringsBacking(r)
    BY <2>3, <2>4 DEF BringsBacking
  <2>6. \A q \in Request \ {r} : StandsStill(q)
    BY <1>1, <2>1 DEF HandlersTypeOK, StandsStill
  <2>7. CacheBringsBacking
    BY <1>5, <1>9 DEF Miss, Without, Restrict, CacheBringsBacking, Kept
  <2> QED BY <1>1, <1>3, <2>5, <2>6, <2>7, OpeningKeepsBacking
<1>10. CASE Hit(r) \/ OpAnswers(r)
  <2>1. Give(r) /\ pc[r] \in {"approved", "running"}
    BY <1>10 DEF Hit, OpAnswers
  <2>2. NeedsNone(r) /\ \A q \in Request \ {r} : StandsStill(q)
    BY <1>1, <2>1 DEF HandlersTypeOK, Give, NeedsNone, StandsStill
  <2>3. ASSUME Put(Ref(r), until[r])
        PROVE  CacheBringsBacking
    <3>1. PICK left \in {Session} \cup 0 .. DefaultTTL : left = until[r]
      BY <1>1 DEF HandlersTypeOK
    <3>2. left \in Left
      BY BoundsAreNumbers DEF Left
    <3>3. Covered(s, left)
      BY <1>1, <1>2, <2>1, <3>1, <3>2 DEF ApprovalsAreBacked
    <3>4. \A k \in DOMAIN cache' :
            \/ k \in Kept /\ cache'[k] = cache[k]
            \/ k = s /\ cache'[k] = Expires(left)
      BY <1>1, <1>2, <2>3, <3>1, PutKeepsCache DEF CacheInv
    <3>5. Expires(left) \in Nat /\ (left # Session => Expires(left) <= left)
      BY ExpiryIsSooner, VaultRequests
    <3>6. ASSUME NEW sooner \in Nat, sooner = Expires(left)
          PROVE  Covered(s, sooner)'
      <4>1. Covered(s, sooner)
        BY <1>1, <3>3, <3>5, <3>6, SoonerIsCovered
      <4>2. sooner \in Left
        BY DEF Left
      <4> QED BY <1>4, <4>1, <4>2
    <3> QED BY <3>4, <3>6 DEF CacheBringsBacking, Kept
  <2>4. CacheBringsBacking
    BY <1>5, <1>10, <2>3 DEF Hit, OpAnswers
  <2> QED BY <1>1, <1>3, <2>2, <2>4, OpeningKeepsBacking
<1> QED BY <1>6, <1>7, <1>8, <1>9, <1>10

LEMMA AnswerKeepsBacking ==
  ASSUME VaultInv, ~tightened, ~tightened', NEW r \in Request, NEW c \in Menu,
         AnsweredWith(r, c)
  PROVE  BackingInv'
<1>1. /\ PolicyInv /\ HandlersTypeOK
      /\ ApprovalsAreBacked /\ OnlyAskedUndenied /\ KeptAreBacked
  BY DEF VaultInv, BackingInv
<1>2. PICK s \in Subject : s = Ref(r)
  BY <1>1, RefIsWanted
<1>3. c \in Choice /\ c \notin {"refuseSession", "refuseAlways"}
  BY VaultRequests DEF AnsweredWith
<1>4. Record(TheHost, s, c) /\ UNCHANGED <<at, cache>> /\ pc[r] = "asking"
  BY <1>2 DEF AnsweredWith, Moves
<1>5. OnlyOpens
  BY <1>1, <1>3, <1>4, AnswersOpen
<1>6. CacheBringsBacking
  BY <1>4 DEF CacheBringsBacking, Kept
<1>7. CASE Allows(c)
  <2>1. /\ pc' = [pc EXCEPT ![r] = "approved"]
        /\ until' = [until EXCEPT ![r] = AnswerEnds(c)]
    BY <1>7 DEF AnsweredWith, Moves, Approve
  <2>2. PICK left \in Left : left = AnswerEnds(c)
    BY AnswerEndsAreTimes, BoundsAreNumbers DEF Left
  <2>3. ~Denied(TheHost, s)
    BY <1>1, <1>2, <1>4 DEF OnlyAskedUndenied
  <2>4. Covered(s, left)'
    BY <1>1, <1>3, <1>4, <1>7, <2>2, <2>3, AnswerIsBacked
  <2>5. pc'[r] = "approved" /\ until'[r] = left /\ Ref(r)' = s
    BY <1>1, <1>2, <1>4, <2>1, <2>2 DEF HandlersTypeOK, Ref
  <2>6. BringsBacking(r)
    BY <2>4, <2>5 DEF BringsBacking
  <2>7. \A q \in Request \ {r} : StandsStill(q)
    BY <1>1, <1>4, <2>1 DEF HandlersTypeOK, StandsStill
  <2> QED BY <1>1, <1>5, <1>6, <2>6, <2>7, OpeningKeepsBacking
<1>8. CASE ~Allows(c)
  <2>1. pc' = [pc EXCEPT ![r] = "refused"] /\ UNCHANGED until
    BY <1>8 DEF AnsweredWith, Moves
  <2>2. NeedsNone(r) /\ \A q \in Request \ {r} : StandsStill(q)
    BY <1>1, <1>4, <2>1 DEF HandlersTypeOK, NeedsNone, StandsStill
  <2> QED BY <1>1, <1>5, <1>6, <2>2, OpeningKeepsBacking
<1> QED BY <1>7, <1>8

LEMMA TimeKeepsBacking ==
  ASSUME VaultInv, ~tightened, TimePasses
  PROVE  BackingInv'
<1>1. /\ PolicyInv /\ HandlersTypeOK /\ CacheTypeOK
      /\ ApprovalsAreBacked /\ OnlyAskedUndenied /\ KeptAreBacked
  BY DEF VaultInv, BackingInv
<1>2. /\ Tick /\ UNCHANGED <<pc, at>>
      /\ cache' = [s \in Kept |-> Less(cache[s])]
      /\ until' = [r \in Request |-> Less(until[r])]
  BY DEF TimePasses
<1>3. \A r \in Request : Ref(r)' = Ref(r)
  BY <1>2 DEF Ref
<1>4. ASSUME NEW r \in Request, NEW s \in Subject, NEW less \in Left,
             pc'[r] \in {"approved", "running"}, Ref(r)' = s, until'[r] = less
      PROVE  Covered(s, less)'
  <2>1. PICK left \in Left : left = until[r]
    BY <1>1, BoundsAreNumbers DEF HandlersTypeOK, Left
  <2>2. Covered(s, left) /\ less = Less(left)
    BY <1>1, <1>2, <1>3, <1>4, <2>1 DEF ApprovalsAreBacked
  <2> QED BY <1>1, <1>2, <2>2, TickKeepsCovered
<1>5. ASSUME NEW r \in Request, NEW s \in Subject, pc'[r] = "asking", Ref(r)' = s
      PROVE  ~Denied(TheHost, s)'
  BY <1>1, <1>2, <1>3, <1>5, TickKeepsUndenied DEF OnlyAskedUndenied
<1>6. ASSUME NEW s \in Subject, NEW less \in Nat \ {0}, s \in Kept', cache'[s] = less
      PROVE  Covered(s, less)'
  <2>1. s \in Kept /\ less = Less(cache[s])
    BY <1>2, <1>6 DEF Kept
  <2>2. PICK left \in Nat : left = cache[s]
    BY <1>1, <2>1 DEF CacheTypeOK
  <2>3. left \in Nat \ {0} /\ left \in Left
    BY <2>1, <2>2 DEF Less, Left
  <2>4. Covered(s, left)
    BY <1>1, <2>1, <2>2, <2>3 DEF KeptAreBacked
  <2> QED BY <1>1, <1>2, <2>1, <2>2, <2>3, <2>4, TickKeepsCovered
<1>7. ApprovalsAreBacked'
  BY <1>4 DEF ApprovalsAreBacked
<1>8. OnlyAskedUndenied'
  BY <1>5 DEF OnlyAskedUndenied
<1>9. KeptAreBacked'
  BY <1>6 DEF KeptAreBacked
<1> QED BY <1>7, <1>8, <1>9 DEF BackingInv

LEMMA StepKeepsBacking ==
  ASSUME VaultInv, [VaultNext]_vaultVars
  PROVE  BackingInv'
<1> SUFFICES ASSUME ~tightened' PROVE BackingInv'
  BY DEF BackingInv
<1>1. ~tightened
  BY DEF VaultInv, VaultNext, AllowedByPolicy, RefusedByPolicy, Asked, AnsweredWith, Hit,
         Miss, OpAnswers, OpFails, Give, Forget, Purge, TakeBack, TimePasses, SavedLater,
         vaultVars
<1>2. ~Forget /\ ~TakeBack
  BY DEF Forget, TakeBack
<1>3. CASE Purge \/ SavedLater \/ UNCHANGED vaultVars
  <2>1. UNCHANGED <<pc, at, until>> /\ UNCHANGED <<hostRules, grants>>
    BY <1>3 DEF Purge, SavedLater, Flush, vaultVars, handlerVars, policyVars
  <2>2. \A r \in Request : StandsStill(r)
    BY <2>1 DEF StandsStill
  <2>3. ASSUME UNCHANGED cache
        PROVE  CacheBringsBacking
    BY <2>3 DEF CacheBringsBacking, Kept
  <2>4. ASSUME cache' = <<>>
        PROVE  CacheBringsBacking
    <3>1. DOMAIN cache' = {}
      BY <2>4
    <3> QED BY <3>1 DEF CacheBringsBacking, Kept
  <2>5. CacheBringsBacking
    BY <1>3, <2>3, <2>4 DEF Purge, SavedLater, vaultVars
  <2> QED
    BY <1>1, <2>1, <2>2, <2>5, StoreStandsStill, OpeningKeepsBacking DEF VaultInv, BackingInv
<1> QED
  BY <1>1, <1>2, <1>3, HandlerKeepsBacking, AnswerKeepsBacking, TimeKeepsBacking
  DEF VaultNext

-----------------------------------------------------------------------------
(***************************************************************************)
(* The inductive invariant of the vault.                                   *)
(***************************************************************************)
LEMMA StepKeepsPolicy ==
  ASSUME VaultInv, [VaultNext]_vaultVars
  PROVE  PolicyInv'
<1>1. PolicyInv /\ HandlersTypeOK
  BY DEF VaultInv
<1>2. UNCHANGED policyVars => PolicyInv'
  BY <1>1 DEF policyVars, PolicyInv, PolicyTypeOK, RefusalsLast
<1>3. ASSUME NEW r \in Request, NEW c \in Menu, AnsweredWith(r, c)
      PROVE  PolicyInv'
  <2>1. Ref(r) \in Subject
    BY <1>1, RefIsWanted
  <2> QED BY <1>1, <1>3, <2>1, RecordKeepsInv, VaultRequests DEF AnsweredWith
<1>4. ASSUME NEW r \in Request,
             \/ AllowedByPolicy(r) \/ RefusedByPolicy(r) \/ Asked(r)
             \/ Hit(r) \/ Miss(r) \/ OpAnswers(r) \/ OpFails(r)
      PROVE  PolicyInv'
  BY <1>2, <1>4 DEF AllowedByPolicy, RefusedByPolicy, Asked, Hit, Miss, OpAnswers, OpFails,
                    Give
<1>5. CASE Forget
  BY <1>1, <1>2, <1>5, WithdrawKeepsInv DEF Forget, Withdraw
<1>6. CASE TakeBack
  BY <1>1, <1>6, WithdrawKeepsInv, DenyKeepsInv, VaultRequests DEF TakeBack, Withdraw
<1>7. CASE TimePasses \/ SavedLater
  BY <1>1, <1>7, StepKeepsInv DEF TimePasses, SavedLater, PolicyNext
<1>8. CASE Purge \/ UNCHANGED vaultVars
  BY <1>2, <1>8 DEF Purge, vaultVars
<1> QED BY <1>3, <1>4, <1>5, <1>6, <1>7, <1>8 DEF VaultNext

LEMMA StepKeepsHistory ==
  ASSUME VaultInv, [VaultNext]_vaultVars
  PROVE  (forgetting \in BOOLEAN /\ tightened \in BOOLEAN)'
BY DEF VaultInv, VaultNext, AllowedByPolicy, RefusedByPolicy, Asked, AnsweredWith, Hit,
       Miss, OpAnswers, OpFails, Give, Forget, Purge, TakeBack, TimePasses, SavedLater,
       vaultVars

LEMMA InitHoldsVault == VaultInit => VaultInv
<1> SUFFICES ASSUME VaultInit PROVE VaultInv
  OBVIOUS
<1>1. PolicyInv
  BY InitHoldsInv DEF VaultInit
<1>2. HandlersTypeOK
  <2>1. \A r \in Request : 1 \in DOMAIN RefsOf[r]
    <3> TAKE r \in Request
    <3>1. RefsOf[r] \in Seq(Subject) /\ RefsOf[r] # <<>>
      BY VaultRequests
    <3>2. Len(RefsOf[r]) \in Nat \ {0} /\ DOMAIN RefsOf[r] = 1 .. Len(RefsOf[r])
      BY <3>1, LenProperties, EmptySeq
    <3> QED BY <3>2
  <2> QED BY <2>1, BoundsAreNumbers DEF VaultInit, HandlersTypeOK
<1>3. Kept = {}
  BY DEF VaultInit, Kept
<1>4. CacheTypeOK /\ CacheIsBounded
  BY <1>3, FS_EmptySet, VaultRequests DEF CacheTypeOK, CacheIsBounded
<1>5. NothingUnasked /\ InHandIsCleared
  BY DEF VaultInit, NothingUnasked, InHandIsCleared
<1>6. BackingInv
  BY <1>3 DEF VaultInit, BackingInv, ApprovalsAreBacked, OnlyAskedUndenied, KeptAreBacked
<1> QED BY <1>1, <1>2, <1>4, <1>5, <1>6 DEF VaultInit, VaultInv

(***************************************************************************)
(* The invariant of every reachable state of the vault.                    *)
(***************************************************************************)
THEOREM VaultInvariance == VaultSpec => []VaultInv
<1>1. VaultInv /\ [VaultNext]_vaultVars => VaultInv'
  <2> SUFFICES ASSUME VaultInv, [VaultNext]_vaultVars PROVE VaultInv'
    OBVIOUS
  <2>1. HandlersInv'
    BY StepKeepsHandlers DEF VaultInv, HandlersInv
  <2>2. CacheInv'
    BY StepKeepsCache DEF VaultInv, CacheInv
  <2> QED
    BY <2>1, <2>2, StepKeepsPolicy, StepKeepsHistory, StepKeepsBacking
    DEF VaultInv, HandlersInv, CacheInv
<1> QED BY InitHoldsVault, <1>1, PTL DEF VaultSpec

(***************************************************************************)
(* Every reachable state of the vault is well typed.                       *)
(***************************************************************************)
THEOREM VaultTypeCorrect == VaultSpec => []VaultTypeOK
<1>1. VaultInv => VaultTypeOK
  BY DEF VaultInv, PolicyInv, HandlersTypeOK, CacheTypeOK, VaultTypeOK
<1> QED BY VaultInvariance, <1>1, PTL

(***************************************************************************)
(* Every value a request was given was approved for that very request.     *)
(***************************************************************************)
THEOREM ValuesAreApproved == VaultSpec => []NothingUnasked
<1>1. VaultInv => NothingUnasked
  BY DEF VaultInv
<1> QED BY VaultInvariance, <1>1, PTL

(***************************************************************************)
(* The cache never holds more than its limit, whatever answers at once.    *)
(***************************************************************************)
THEOREM CacheStaysBounded == VaultSpec => []CacheIsBounded
<1>1. VaultInv => CacheIsBounded
  BY DEF VaultInv
<1> QED BY VaultInvariance, <1>1, PTL

(***************************************************************************)
(* Until somebody takes an approval back, what is fresh in the cache could *)
(* be had without asking: no value outlives the approval it came under.    *)
(***************************************************************************)
THEOREM CacheFollowsApproval == VaultSpec => []KeptOnlyWhileAllowed
<1>1. ASSUME VaultInv, ~tightened, NEW s \in Kept, Fresh(s)
      PROVE  Decide(TheHost, s) = "allow"
  <2>1. PICK left \in Nat \ {0} : left = cache[s]
    BY <1>1, VaultRequests DEF VaultInv, CacheTypeOK, Fresh
  <2>2. s \in Subject
    BY <1>1 DEF VaultInv, CacheTypeOK
  <2>3. Covered(s, left)
    BY <1>1, <2>1, <2>2 DEF VaultInv, BackingInv, KeptAreBacked
  <2>4. Approved(TheHost, s)
    BY <2>1, <2>3 DEF Covered, Backed, Approved
  <2> QED BY <2>3, <2>4 DEF Covered, Decide
<1>2. VaultInv => KeptOnlyWhileAllowed
  BY <1>1 DEF KeptOnlyWhileAllowed
<1> QED BY VaultInvariance, <1>2, PTL

-----------------------------------------------------------------------------
(***************************************************************************)
(* The agents.                                                             *)
(***************************************************************************)
(***************************************************************************)
(* AgentsOK is not inductive: that a connection of a service is held only  *)
(* while the service accepts or waits rests on every open connection being *)
(* one it waits for, those not yet joined to an agent included, and on a   *)
(* free place holding nothing.                                             *)
(***************************************************************************)
OpenAreServed == \A c \in Conn : Open(c) => serving[svc[c]] \in {"accepting", "waiting"}
FreeHoldNothing == \A c \in Conn : ~Open(c) => local[c] = "closed"
OneIsAsked == \A c \in Conn : question = c <=> phase[c] = "asking"
BoundAsProven == \A c \in Conn : dest[c] = proven[c]

AgentsInv ==
  AgentsTypeOK /\ OpenAreServed /\ FreeHoldNothing /\ OneIsAsked /\ BoundAsProven

(***************************************************************************)
(* At the start nothing is open and nobody has proved anything.            *)
(***************************************************************************)
LEMMA InitHoldsAgents == AgentsInit => AgentsInv
<1> SUFFICES ASSUME AgentsInit PROVE AgentsInv OBVIOUS
<1>1. key \in [Conn -> Key]
  <2>1. (CHOOSE k \in Key : TRUE) \in Key
    BY AgentsAssumption
  <2> QED BY <2>1 DEF AgentsInit
<1>2. link \in [n : 0 .. MaxLinks, up : BOOLEAN] /\ calls \in 0 .. MaxCalls
  BY AgentsAssumption DEF AgentsInit
<1>3. OpenAreServed /\ FreeHoldNothing /\ OneIsAsked /\ BoundAsProven
  BY AgentsAssumption
  DEF AgentsInit, OpenAreServed, FreeHoldNothing, OneIsAsked, BoundAsProven, Open
<1>4. granted \subseteq {SubjectFor(k, d) : k \in Key, d \in Dest}
  BY DEF AgentsInit
<1>5. /\ serving \in [Svc -> {"off", "probing", "accepting", "waiting", "returned"}]
      /\ listening \subseteq Svc /\ agentUp \subseteq Svc
      /\ ctx \in BOOLEAN /\ extraSocket \in BOOLEAN /\ prepared \in BOOLEAN
  BY DEF AgentsInit
<1>6. /\ phase \in [Conn -> {"free", "accepted", "reading", "listing", "queued", "asking",
                         "answered", "signing", "piping"}]
      /\ said \in [Conn -> {"nothing", "once", "session", "deny"}]
      /\ svc \in [Conn -> Svc]
      /\ remote \in [Conn -> {"open", "told", "closed"}]
      /\ local \in [Conn -> {"open", "told", "closed"}]
      /\ copying \in [Conn -> SUBSET {"up", "down"}]
      /\ dest \in [Conn -> Dest] /\ proven \in [Conn -> Dest]
      /\ question \in Conn \cup {Nobody}
  BY DEF AgentsInit, Svc, Dest
<1> QED BY <1>1, <1>2, <1>3, <1>4, <1>5, <1>6 DEF AgentsInv, AgentsTypeOK

(***************************************************************************)
(* A link that goes down is still a link.                                  *)
(***************************************************************************)
LEMMA DownIsALink ==
  ASSUME link \in [n : 0 .. MaxLinks, up : BOOLEAN]
  PROVE  [link EXCEPT !.up = FALSE] \in [n : 0 .. MaxLinks, up : BOOLEAN]
OBVIOUS

(***************************************************************************)
(* The session's steps: a service goes off only when nothing of its own is *)
(* open.                                                                   *)
(***************************************************************************)
LEMMA LinkKeepsInv ==
  ASSUME AgentsInv, LinkStep
  PROVE  AgentsInv'
<1> USE DEF AgentsInv, AgentsTypeOK, OpenAreServed, FreeHoldNothing, OneIsAsked,
            BoundAsProven, Open, linkVars, deskVars, connVars, askVars, Svc
<1>1. CASE Connect
  BY <1>1, AgentsAssumption DEF Connect
<1>2. CASE AttachFails
  BY <1>2, AgentsAssumption DEF AttachFails, Count
<1>3. CASE Drop
  <2>1. link' \in [n : 0 .. MaxLinks, up : BOOLEAN]
    BY <1>3, DownIsALink DEF Drop
  <2>2. granted' \subseteq {SubjectFor(k, d) : k \in Key, d \in Dest}
    BY <1>3 DEF Drop
  <2> QED BY <1>3, <2>1, <2>2 DEF Drop
<1>4. CASE Cancel
  <2>1. granted' \subseteq {SubjectFor(k, d) : k \in Key, d \in Dest}
    BY <1>4 DEF Cancel
  <2>2. ctx' \in BOOLEAN
    BY <1>4, Zenon DEF Cancel
  <2>3. UNCHANGED <<link, serving, listening, deskVars, connVars, askVars, calls>>
    BY <1>4 DEF Cancel
  <2> QED BY <2>1, <2>2, <2>3
<1>5. CASE LinkEnds
  <2>1. link' \in [n : 0 .. MaxLinks, up : BOOLEAN]
    BY <1>5, DownIsALink DEF LinkEnds
  <2>2. granted' \subseteq {SubjectFor(k, d) : k \in Key, d \in Dest}
    BY <1>5 DEF LinkEnds
  <2>3. \A c \in Conn : ~Open(c)
    BY <1>5 DEF LinkEnds, Serving
  <2>4. serving' \in [Svc -> {"off", "probing", "accepting", "waiting", "returned"}]
    BY <1>5 DEF LinkEnds
  <2>5. UNCHANGED <<ctx, deskVars, connVars, askVars, calls>> /\ listening' = {}
    BY <1>5 DEF LinkEnds
  <2> QED BY <2>1, <2>2, <2>3, <2>4, <2>5
<1>7. CASE LinkFailed
  <2>1. link' \in [n : 0 .. MaxLinks, up : BOOLEAN]
    BY <1>7, DownIsALink DEF LinkFailed
  <2>2. granted' \subseteq {SubjectFor(k, d) : k \in Key, d \in Dest}
    BY <1>7 DEF LinkFailed
  <2> QED BY <1>7, <2>1, <2>2 DEF LinkFailed
<1>6. ASSUME NEW s \in Svc, ProbeFails(s) \/ Attach(s) \/ CloseListener(s) \/ ServeReturns(s)
      PROVE  AgentsInv'
  <2>1. CASE ProbeFails(s)
    BY <1>6, <2>1 DEF ProbeFails
  <2>2. CASE Attach(s)
    BY <1>6, <2>2 DEF Attach
  <2>3. CASE CloseListener(s)
    BY <1>6, <2>3 DEF CloseListener
  <2>4. CASE ServeReturns(s)
    BY <1>6, <2>4 DEF ServeReturns, Own
  <2> QED BY <1>6, <2>1, <2>2, <2>3, <2>4
<1> QED BY <1>1, <1>2, <1>3, <1>4, <1>5, <1>6, <1>7 DEF LinkStep

(***************************************************************************)
(* A connection that ends gives everything back.                           *)
(***************************************************************************)
LEMMA GoneKeepsInv ==
  ASSUME AgentsInv, NEW c \in Conn, Gone(c), phase[c] # "asking"
  PROVE  AgentsInv'
BY DEF Gone, AgentsInv, AgentsTypeOK, OpenAreServed, FreeHoldNothing, OneIsAsked,
       BoundAsProven, Open, linkVars, deskVars, askVars, Svc, Dest

(***************************************************************************)
(* The steps of a connection's own goroutines.                             *)
(***************************************************************************)
LEMMA OwnKeepsInv ==
  ASSUME AgentsInv, NEW c \in Conn, OwnStep(c)
  PROVE  AgentsInv'
<1> USE DEF AgentsInv, AgentsTypeOK, OpenAreServed, FreeHoldNothing, OneIsAsked,
            BoundAsProven, Open, linkVars, deskVars, connVars, askVars
<1>1. CASE DialFails(c) \/ ReadsEOF(c) \/ PipeEnds(c)
  <2>1. Gone(c) /\ phase[c] # "asking"
    BY <1>1 DEF DialFails, ReadsEOF, PipeEnds
  <2> QED BY <2>1, GoneKeepsInv
<1>2. CASE DialLocal(c)
  BY <1>2 DEF DialLocal
<1>3. CASE ClosesBoth(c)
  BY <1>3 DEF ClosesBoth
<1>4. CASE Ask(c)
  BY <1>4, AgentsAssumption DEF Ask, Goes
<1>5. CASE Withdrawn(c)
  BY <1>5, AgentsAssumption DEF Withdrawn, Refused, Decided, Goes
<1>8. CASE Recorded(c)
  <2>1. granted' \subseteq {SubjectFor(k, d) : k \in Key, d \in Dest}
    BY <1>8 DEF Recorded, SubjectOf
  <2>2. /\ phase' \in [Conn -> {"free", "accepted", "reading", "listing", "queued", "asking",
                               "answered", "signing", "piping"}]
        /\ said' \in [Conn -> {"nothing", "once", "session", "deny"}]
    BY <1>8 DEF Recorded, Decided, Goes
  <2>3. UNCHANGED <<linkVars, deskVars, svc, remote, local, copying, dest, proven, key,
                    question, calls>>
    BY <1>8 DEF Recorded, Decided, Goes
  <2>4. OpenAreServed' /\ FreeHoldNothing' /\ BoundAsProven' /\ OneIsAsked'
    BY <1>8, <2>3 DEF Recorded, Decided, Goes
  <2> QED BY <2>1, <2>2, <2>3, <2>4
<1>6. CASE AgentFails(c)
  BY <1>6 DEF AgentFails, Upstream, Goes
<1>7. CASE CopyEnds(c, "up") \/ CopyEnds(c, "down")
  BY <1>7 DEF CopyEnds, Ends
<1> QED BY <1>1, <1>2, <1>3, <1>4, <1>5, <1>6, <1>7, <1>8 DEF OwnStep

(***************************************************************************)
(* What clients, people and the desk's agents do to a connection.          *)
(***************************************************************************)
LEMMA ClientKeepsInv ==
  ASSUME AgentsInv, NEW c \in Conn, ClientStep(c)
  PROVE  AgentsInv'
<1> USE DEF AgentsInv, AgentsTypeOK, OpenAreServed, FreeHoldNothing, OneIsAsked,
            BoundAsProven, Open, linkVars, deskVars, connVars, askVars
<1>1. ASSUME NEW s \in Svc, Accept(c, s) PROVE AgentsInv'
  BY <1>1, AgentsAssumption DEF Accept, Count
<1>2. CASE HangUp(c)
  BY <1>2 DEF HangUp
<1>3. CASE List(c)
  BY <1>3, AgentsAssumption DEF List, Reads, Goes, Count
<1>4. ASSUME NEW h \in HostKey, NEW genuine \in BOOLEAN, SessionBind(c, h, genuine)
      PROVE  AgentsInv'
  BY <1>4, AgentsAssumption DEF SessionBind, DestBound, Dest, Reads, Goes, Count
<1>5. ASSUME NEW k \in Key, SignWithFlags(c, k) PROVE AgentsInv'
  BY <1>5, AgentsAssumption DEF SignWithFlags, Reads, Goes, Count
<1>6. CASE WriteFails(c, "up")
  BY <1>6 DEF WriteFails, Ends
<1> QED BY <1>1, <1>2, <1>3, <1>4, <1>5, <1>6 DEF ClientStep

(***************************************************************************)
(* An answer, or the deadline, frees the screen for the next question.     *)
(***************************************************************************)
LEMMA PersonKeepsInv ==
  ASSUME AgentsInv, NEW c \in Conn,
         PersonStep(c) \/ AgentAnswers(c) \/ AgentCloses(c) \/ WriteFails(c, "down")
  PROVE  AgentsInv'
<1> USE DEF AgentsInv, AgentsTypeOK, OpenAreServed, FreeHoldNothing, OneIsAsked,
            BoundAsProven, Open, linkVars, deskVars, connVars, askVars
<1>1. CASE TimesOut(c)
  BY <1>1, AgentsAssumption DEF TimesOut, Refused, Decided, Goes
<1>2. ASSUME NEW choice \in {"once", "session", "deny"}, Answer(c, choice)
      PROVE  AgentsInv'
  BY <1>2, AgentsAssumption DEF Answer, Goes
<1>3. CASE AgentAnswers(c)
  BY <1>3 DEF AgentAnswers, Upstream, Goes
<1>4. CASE AgentCloses(c)
  BY <1>4 DEF AgentCloses
<1>5. CASE WriteFails(c, "down")
  BY <1>5 DEF WriteFails, Ends
<1> QED BY <1>1, <1>2, <1>3, <1>4, <1>5 DEF PersonStep

(***************************************************************************)
(* The agents come and go, and the Access tab forgets what was granted.    *)
(***************************************************************************)
LEMMA DeskKeepsInv ==
  ASSUME AgentsInv, DeskStep
  PROVE  AgentsInv'
<1> USE DEF AgentsInv, AgentsTypeOK, OpenAreServed, FreeHoldNothing, OneIsAsked,
            BoundAsProven, Open, linkVars, deskVars, connVars, askVars
<1>1. CASE ForgetConn
  BY <1>1 DEF ForgetConn
<1>2. ASSUME NEW s \in Svc, AgentDies(s) PROVE AgentsInv'
  BY <1>2, AgentsAssumption DEF AgentDies, Count
<1>3. ASSUME NEW s \in Svc, AgentStarts(s) PROVE AgentsInv'
  BY <1>3 DEF AgentStarts
<1> QED BY <1>1, <1>2, <1>3 DEF DeskStep

(***************************************************************************)
(* Every step of the agents keeps the invariant.                           *)
(***************************************************************************)
LEMMA StepKeepsAgents == AgentsInv /\ [AgentsNext]_agentsVars => AgentsInv'
<1> SUFFICES ASSUME AgentsInv, [AgentsNext]_agentsVars PROVE AgentsInv' OBVIOUS
<1>1. CASE UNCHANGED agentsVars
  BY <1>1
  DEF agentsVars, linkVars, deskVars, connVars, askVars, AgentsInv, AgentsTypeOK,
      OpenAreServed, FreeHoldNothing, OneIsAsked, BoundAsProven, Open
<1>2. CASE AgentsNext
  BY <1>2, LinkKeepsInv, DeskKeepsInv, OwnKeepsInv, ClientKeepsInv, PersonKeepsInv
  DEF AgentsNext
<1> QED BY <1>1, <1>2

(***************************************************************************)
(* The invariant of every reachable state.                                 *)
(***************************************************************************)
THEOREM AgentsInvariance == AgentsSpec => []AgentsInv
BY InitHoldsAgents, StepKeepsAgents, PTL DEF AgentsSpec

(***************************************************************************)
(* ServeSocket returns after its connections, and what a person is shown   *)
(* is the destination the connection proved last, for any number of        *)
(* clients, keys, hosts, links and requests.                               *)
(***************************************************************************)
THEOREM AgentsAreOK == AgentsSpec => []AgentsOK
<1>1. AgentsInv => AgentsOK
  BY DEF AgentsInv, AgentsOK, NothingHeldAfterwards, ShownIsProven, OpenAreServed,
         FreeHoldNothing, OneIsAsked, BoundAsProven, Open
<1> QED BY <1>1, AgentsInvariance, PTL

(***************************************************************************)
(* A grant covers no more than people said yes to for the session; a yes   *)
(* is one to the request under way, and there is none without an answer.   *)
(***************************************************************************)
GrantsAreMeant ==
  /\ yes \in [Conn -> SUBSET {Use(k, d) : k \in Key, d \in Dest}]
  /\ \A k \in Key, d \in Dest : SubjectFor(k, d) \in granted => Use(k, d) \in lasting
  /\ \A c \in Conn :
       phase[c] = "answered" /\ said[c] # "deny" => yes[c] = {Use(key[c], proven[c])}

(***************************************************************************)
(* Two signatures that are one subject to the policy are the same to a     *)
(* person: neither the key nor the destination is left out.                *)
(***************************************************************************)
LEMMA SubjectsAreUses ==
  ASSUME NEW k, NEW d, NEW l, NEW e, SubjectFor(k, d) = SubjectFor(l, e)
  PROVE  Use(k, d) = Use(l, e)
BY DEF SubjectFor, Use

(***************************************************************************)
(* What moves a request: the phases a step can leave a connection in.      *)
(***************************************************************************)
LEMMA OnlyTheseMove ==
  ASSUME AgentsInv, [AgentsNext]_agentsVars, NEW c \in Conn, phase'[c] # phase[c],
         phase'[c] \in {"answered", "signing"}
  PROVE  \/ \E k \in Key : SignWithFlags(c, k)
         \/ \E choice \in {"once", "session", "deny"} : Answer(c, choice)
         \/ Recorded(c)
<1>1. CASE LinkStep \/ DeskStep \/ UNCHANGED agentsVars
  <2>1. phase' = phase
    BY <1>1
    DEF LinkStep, DeskStep, agentsVars, connVars, Connect, AttachFails, Drop, Cancel,
        LinkEnds, LinkFailed, ProbeFails, Attach, CloseListener, ServeReturns, ForgetConn,
        AgentDies, AgentStarts
  <2> QED BY <2>1
<1>2. ASSUME NEW d \in Conn, OwnStep(d), ~Recorded(d) PROVE FALSE
  <2>1. \/ phase' = phase
        \/ \E place \in {"free", "reading", "piping", "asking"} :
             phase' = [phase EXCEPT ![d] = place]
    BY <1>2
    DEF OwnStep, DialLocal, DialFails, ClosesBoth, ReadsEOF, Ask, Withdrawn, Refused,
        AgentFails, CopyEnds, Ends, PipeEnds, Gone, Goes
  <2> QED BY <2>1 DEF AgentsInv, AgentsTypeOK
<1>3. ASSUME NEW d \in Conn, ClientStep(d), \A k \in Key : ~SignWithFlags(d, k)
      PROVE  FALSE
  <2>1. phase' = phase \/ \E place \in {"accepted", "reading", "listing"} :
                         phase' = [phase EXCEPT ![d] = place]
    BY <1>3 DEF ClientStep, Accept, HangUp, List, SessionBind, WriteFails, Ends, Goes
  <2> QED BY <2>1 DEF AgentsInv, AgentsTypeOK
<1>4. ASSUME NEW d \in Conn,
             TimesOut(d) \/ AgentAnswers(d) \/ AgentCloses(d) \/ WriteFails(d, "down")
      PROVE  FALSE
  <2>1. phase' = phase \/ phase' = [phase EXCEPT ![d] = "reading"]
    BY <1>4 DEF TimesOut, Refused, AgentAnswers, AgentCloses, WriteFails, Ends, Goes
  <2> QED BY <2>1 DEF AgentsInv, AgentsTypeOK
<1>5. ASSUME NEW d \in Conn,
             \/ \E k \in Key : SignWithFlags(d, k)
             \/ \E choice \in {"once", "session", "deny"} : Answer(d, choice)
             \/ Recorded(d)
      PROVE  d = c
  <2>1. \E place : phase' = [phase EXCEPT ![d] = place]
    BY <1>5 DEF SignWithFlags, Answer, Recorded, Goes
  <2> QED BY <2>1 DEF AgentsInv, AgentsTypeOK
<1> QED BY <1>1, <1>2, <1>3, <1>4, <1>5 DEF AgentsNext, PersonStep

(***************************************************************************)
(* A yes is said in an answer and is over with the request.                *)
(***************************************************************************)
LEMMA StepsOfYes ==
  ASSUME [AgentsNext]_agentsVars
  PROVE  \/ UNCHANGED <<said, yes>> \/ \E c \in Conn : Decided(c)
         \/ \E c \in Conn, choice \in {"once", "session", "deny"} : Answer(c, choice)
<1>1. CASE LinkStep \/ DeskStep \/ UNCHANGED agentsVars
  BY <1>1
  DEF LinkStep, DeskStep, agentsVars, askVars, Connect, AttachFails, Drop, Cancel,
      LinkEnds, LinkFailed, ProbeFails, Attach, CloseListener, ServeReturns, ForgetConn,
      AgentDies, AgentStarts
<1>2. ASSUME NEW c \in Conn, OwnStep(c), ~Decided(c) PROVE UNCHANGED <<said, yes>>
  BY <1>2
  DEF OwnStep, DialLocal, DialFails, ClosesBoth, ReadsEOF, Ask, Recorded, Withdrawn, Refused,
      AgentFails, CopyEnds, Ends, PipeEnds, Gone, askVars
<1>3. ASSUME NEW c \in Conn, ClientStep(c) PROVE UNCHANGED <<said, yes>>
  BY <1>3 DEF ClientStep, Accept, HangUp, List, SessionBind, SignWithFlags, WriteFails,
              Ends, askVars
<1>4. ASSUME NEW c \in Conn, AgentAnswers(c) \/ AgentCloses(c) \/ WriteFails(c, "down")
      PROVE  UNCHANGED <<said, yes>>
  BY <1>4 DEF AgentAnswers, AgentCloses, WriteFails, Ends, askVars
<1>5. ASSUME NEW c \in Conn, TimesOut(c) PROVE Decided(c)
  BY <1>5 DEF TimesOut, Refused
<1> QED BY <1>1, <1>2, <1>3, <1>4, <1>5 DEF AgentsNext, PersonStep

(***************************************************************************)
(* Nothing touches a request that was answered until it is decided.        *)
(***************************************************************************)
LEMMA AnswersStand ==
  ASSUME AgentsInv, GrantsAreMeant, [AgentsNext]_agentsVars,
         NEW c \in Conn, phase[c] = "answered", phase'[c] = "answered"
  PROVE  yes'[c] = yes[c] /\ said'[c] = said[c] /\ key'[c] = key[c] /\ proven'[c] = proven[c]
<1>0. /\ phase \in [Conn -> {"free", "accepted", "reading", "listing", "queued", "asking",
                            "answered", "signing", "piping"}]
      /\ DOMAIN said = Conn /\ DOMAIN yes = Conn /\ key \in [Conn -> Key]
      /\ proven \in [Conn -> Dest]
  BY DEF AgentsInv, AgentsTypeOK, GrantsAreMeant
<1>1. CASE LinkStep \/ DeskStep \/ UNCHANGED agentsVars
  BY <1>1
  DEF LinkStep, DeskStep, agentsVars, connVars, askVars, Connect, AttachFails, Drop, Cancel,
      LinkEnds, LinkFailed, ProbeFails, Attach, CloseListener, ServeReturns, ForgetConn,
      AgentDies, AgentStarts
<1>2. ASSUME NEW d \in Conn, Gone(d)
      PROVE  yes'[c] = yes[c] /\ said'[c] = said[c] /\ key'[c] = key[c] /\ proven'[c] = proven[c]
  <2>1. d # c
    BY <1>0, <1>2 DEF Gone
  <2> QED BY <1>0, <1>2, <2>1 DEF Gone, askVars
<1>3. ASSUME NEW d \in Conn, Recorded(d) \/ Refused(d)
      PROVE  yes'[c] = yes[c] /\ said'[c] = said[c] /\ key'[c] = key[c] /\ proven'[c] = proven[c]
  <2>1. d # c
    BY <1>0, <1>3 DEF Recorded, Refused, Goes
  <2> QED BY <1>0, <1>3, <2>1 DEF Recorded, Refused, Decided
<1>4. ASSUME NEW d \in Conn, OwnStep(d), ~Gone(d), ~Recorded(d), ~Refused(d)
      PROVE  UNCHANGED <<yes, said, key, proven>>
  BY <1>4
  DEF OwnStep, DialLocal, DialFails, ClosesBoth, ReadsEOF, Ask, Withdrawn, AgentFails,
      CopyEnds, Ends, PipeEnds, Goes, askVars
<1>5. ASSUME NEW d \in Conn, NEW choice \in {"once", "session", "deny"}, Answer(d, choice)
      PROVE  yes'[c] = yes[c] /\ said'[c] = said[c] /\ key'[c] = key[c] /\ proven'[c] = proven[c]
  <2>1. d # c
    BY <1>0, <1>5 DEF Answer
  <2> QED BY <1>0, <1>5, <2>1 DEF Answer
<1>6. ASSUME NEW d \in Conn, ClientStep(d)
      PROVE  yes'[c] = yes[c] /\ said'[c] = said[c] /\ key'[c] = key[c] /\ proven'[c] = proven[c]
  <2>1. ASSUME \/ \E h \in HostKey, genuine \in BOOLEAN : SessionBind(d, h, genuine)
               \/ \E k \in Key : SignWithFlags(d, k)
        PROVE  yes'[c] = yes[c] /\ said'[c] = said[c] /\ key'[c] = key[c] /\ proven'[c] = proven[c]
    <3>1. d # c
      BY <2>1 DEF SessionBind, SignWithFlags, Reads
    <3>2. \/ \E place : proven' = [proven EXCEPT ![d] = place] /\ UNCHANGED <<key, askVars>>
          \/ \E k : key' = [key EXCEPT ![d] = k] /\ UNCHANGED <<proven, askVars>>
      BY <2>1 DEF SessionBind, SignWithFlags
    <3> QED BY <1>0, <3>1, <3>2 DEF askVars
  <2>2. ASSUME NEW s \in Svc, Accept(d, s) PROVE UNCHANGED <<yes, said, key, proven>>
    BY <2>2 DEF Accept, askVars
  <2>3. CASE HangUp(d) \/ List(d) \/ WriteFails(d, "up")
    BY <2>3 DEF HangUp, List, WriteFails, Ends, askVars
  <2> QED BY <1>6, <2>1, <2>2, <2>3 DEF ClientStep
<1>7. ASSUME NEW d \in Conn, AgentAnswers(d) \/ AgentCloses(d) \/ WriteFails(d, "down")
      PROVE  UNCHANGED <<yes, said, key, proven>>
  BY <1>7 DEF AgentAnswers, AgentCloses, WriteFails, Ends, askVars
<1> QED BY <1>1, <1>2, <1>3, <1>4, <1>5, <1>6, <1>7 DEF AgentsNext, PersonStep, TimesOut

(***************************************************************************)
(* What was answered is an answer to the request it was asked for, and     *)
(* only a yes for the session makes a grant.                               *)
(***************************************************************************)
LEMMA StepKeepsMeaning ==
  ASSUME AgentsInv, GrantsAreMeant, [AgentsNext]_agentsVars
  PROVE  GrantsAreMeant'
<1>1. ASSUME NEW k \in Key, NEW d \in Dest, SubjectFor(k, d) \in granted'
      PROVE  Use(k, d) \in lasting'
  <2>1. CASE UNCHANGED <<granted, lasting>>
    BY <1>1, <2>1 DEF GrantsAreMeant
  <2>2. CASE granted' = {}
    BY <1>1, <2>2
  <2>3. ASSUME NEW c \in Conn, Recorded(c), said[c] = "session"
        PROVE  Use(k, d) \in lasting'
    <3>1. /\ granted' = granted \cup {SubjectFor(key[c], dest[c])}
          /\ lasting' = lasting \cup yes[c] /\ phase[c] = "answered"
      BY <2>3 DEF Recorded, SubjectOf
    <3>2. yes[c] = {Use(key[c], dest[c])}
      BY <2>3, <3>1 DEF GrantsAreMeant, AgentsInv, BoundAsProven
    <3>3. CASE SubjectFor(k, d) \in granted
      BY <3>1, <3>3 DEF GrantsAreMeant
    <3>4. CASE SubjectFor(k, d) = SubjectFor(key[c], dest[c])
      BY <3>1, <3>2, <3>4, SubjectsAreUses
    <3> QED BY <1>1, <3>1, <3>3, <3>4
  <2>4. \/ UNCHANGED <<granted, lasting>> \/ granted' = {}
        \/ \E c \in Conn : Recorded(c) /\ said[c] = "session"
    <3>1. CASE LinkStep \/ DeskStep \/ UNCHANGED agentsVars
      BY <3>1
      DEF LinkStep, DeskStep, agentsVars, askVars, Connect, AttachFails, Drop, Cancel,
          LinkEnds, LinkFailed, ProbeFails, Attach, CloseListener, ServeReturns, ForgetConn,
          AgentDies, AgentStarts
    <3>2. ASSUME NEW c \in Conn, OwnStep(c), ~Recorded(c) PROVE UNCHANGED <<granted, lasting>>
      BY <3>2
      DEF OwnStep, DialLocal, DialFails, ClosesBoth, ReadsEOF, Ask, Withdrawn, Refused,
          AgentFails, CopyEnds, Ends, PipeEnds, Gone, askVars
    <3>3. ASSUME NEW c \in Conn, Recorded(c), said[c] # "session"
          PROVE  UNCHANGED <<granted, lasting>>
      BY <3>3 DEF Recorded
    <3>4. ASSUME NEW c \in Conn, ClientStep(c) PROVE UNCHANGED <<granted, lasting>>
      BY <3>4 DEF ClientStep, Accept, HangUp, List, SessionBind, SignWithFlags, WriteFails,
                  Ends, askVars
    <3>5. ASSUME NEW c \in Conn,
                 PersonStep(c) \/ AgentAnswers(c) \/ AgentCloses(c) \/ WriteFails(c, "down")
          PROVE  UNCHANGED <<granted, lasting>>
      BY <3>5 DEF PersonStep, TimesOut, Refused, Answer, AgentAnswers, AgentCloses,
                  WriteFails, Ends, askVars
    <3> QED BY <3>1, <3>2, <3>3, <3>4, <3>5 DEF AgentsNext
  <2> QED BY <2>1, <2>2, <2>3, <2>4
<1>2. ASSUME NEW c \in Conn, phase'[c] = "answered", said'[c] # "deny"
      PROVE  yes'[c] = {Use(key'[c], proven'[c])}
  <2>1. CASE phase[c] # "answered"
    <3>1. PICK choice \in {"once", "session", "deny"} : Answer(c, choice)
      <4>1. ~Recorded(c) /\ \A k \in Key : ~SignWithFlags(c, k)
        BY <1>2 DEF Recorded, SignWithFlags, Goes, AgentsInv, AgentsTypeOK
      <4> QED BY <1>2, <2>1, <4>1, OnlyTheseMove
    <3>2. yes' = [yes EXCEPT ![c] = IF choice = "deny" THEN {} ELSE {Use(key[c], proven[c])}]
          /\ said' = [said EXCEPT ![c] = choice] /\ UNCHANGED <<key, proven>>
      BY <3>1 DEF Answer
    <3>3. said'[c] = choice /\ yes'[c] = IF choice = "deny" THEN {} ELSE {Use(key[c], proven[c])}
      BY <3>2 DEF GrantsAreMeant, AgentsInv, AgentsTypeOK
    <3> QED BY <1>2, <3>2, <3>3
  <2>2. CASE phase[c] = "answered"
    BY <1>2, <2>2, AnswersStand DEF GrantsAreMeant
  <2> QED BY <2>1, <2>2
<1>3. yes' \in [Conn -> SUBSET {Use(k, d) : k \in Key, d \in Dest}]
  <2>1. CASE UNCHANGED yes
    BY <2>1 DEF GrantsAreMeant
  <2>2. ASSUME NEW c \in Conn, Decided(c) PROVE yes' = [yes EXCEPT ![c] = {}]
    BY <2>2 DEF Decided
  <2>3. ASSUME NEW c \in Conn, NEW choice \in {"once", "session", "deny"}, Answer(c, choice)
        PROVE  yes' \in [Conn -> SUBSET {Use(k, d) : k \in Key, d \in Dest}]
    <3>1. Use(key[c], proven[c]) \in {Use(k, d) : k \in Key, d \in Dest}
      BY DEF AgentsInv, AgentsTypeOK
    <3>2. yes' = [yes EXCEPT ![c] = IF choice = "deny" THEN {} ELSE {Use(key[c], proven[c])}]
      BY <2>3 DEF Answer
    <3> QED BY <3>1, <3>2 DEF GrantsAreMeant
  <2>4. \/ UNCHANGED yes \/ \E c \in Conn : Decided(c)
        \/ \E c \in Conn, choice \in {"once", "session", "deny"} : Answer(c, choice)
    BY StepsOfYes
  <2> QED BY <2>1, <2>2, <2>3, <2>4 DEF GrantsAreMeant
<1> QED BY <1>1, <1>2, <1>3 DEF GrantsAreMeant

(***************************************************************************)
(* At the start there are no grants; what grants and answers stand for is  *)
(* what people said yes to in every reachable state.                       *)
(***************************************************************************)
THEOREM GrantsStandForAYes == AgentsSpec => []GrantsAreMeant
<1>1. AgentsInit => GrantsAreMeant
  BY DEF AgentsInit, GrantsAreMeant
<1>2. AgentsInv /\ GrantsAreMeant /\ [AgentsNext]_agentsVars => GrantsAreMeant'
  BY StepKeepsMeaning
<1> QED BY <1>1, <1>2, AgentsInvariance, PTL DEF AgentsSpec

(***************************************************************************)
(* No signature is asked of the agent but where a person said yes to its   *)
(* key for the place proved on that connection: to the very request, in    *)
(* time, or for the session and not forgotten since.                       *)
(***************************************************************************)
THEOREM SignedAreApproved == AgentsSpec => SignsWhatWasApproved
<1>1. ASSUME AgentsInv, GrantsAreMeant, [AgentsNext]_agentsVars,
             NEW c \in Conn, phase[c] # "signing", phase'[c] = "signing"
      PROVE  Use(key'[c], proven[c]) \in yes[c] \cup lasting
  <2>1. CASE Recorded(c)
    <3>1. phase[c] = "answered" /\ said[c] # "deny" /\ key' = key
      BY <1>1, <2>1 DEF Recorded, Decided, Goes, AgentsInv, AgentsTypeOK
    <3> QED BY <1>1, <3>1 DEF GrantsAreMeant
  <2>2. ASSUME NEW k \in Key, SignWithFlags(c, k)
        PROVE  Use(key'[c], proven[c]) \in lasting
    <3>1. key'[c] = k /\ SubjectFor(k, dest[c]) \in granted
      BY <1>1, <2>2 DEF SignWithFlags, Goes, AgentsInv, AgentsTypeOK
    <3>2. dest[c] = proven[c] /\ dest[c] \in Dest
      BY <1>1 DEF AgentsInv, AgentsTypeOK, BoundAsProven
    <3> QED BY <1>1, <3>1, <3>2 DEF GrantsAreMeant
  <2>3. ASSUME NEW choice \in {"once", "session", "deny"}, Answer(c, choice) PROVE FALSE
    BY <1>1, <2>3 DEF Answer, Goes, AgentsInv, AgentsTypeOK
  <2> QED BY <1>1, <2>1, <2>2, <2>3, OnlyTheseMove
<1>2. AgentsInv /\ GrantsAreMeant /\ [AgentsNext]_agentsVars =>
        [\A c \in Conn : phase[c] # "signing" /\ phase'[c] = "signing" =>
           Use(key'[c], proven[c]) \in yes[c] \cup lasting]_agentsVars
  BY <1>1
<1> QED BY <1>2, AgentsInvariance, GrantsStandForAYes, PTL DEF AgentsSpec, SignsWhatWasApproved

-----------------------------------------------------------------------------
(***************************************************************************)
(* The guard reads every command line as it is meant to. First the loop    *)
(* of commandPath: from[i] is where it ends when it has come to the i-th   *)
(* argument. That there is such a function is shown from the end.          *)
(***************************************************************************)
IsArg(a) == \/ \E name : a = ArgWord(name)
            \/ \E dashes \in {1, 2}, name, inline \in BOOLEAN : a = Option(dashes, name, inline)

NextOf(argv, i) == IF TakesNext(argv[i]) THEN i + 2 ELSE i + 1

Turn(argv, later, i) ==
  IF i > Len(argv) THEN Len(argv) + 1
  ELSE IF IsWord(argv[i]) THEN i
  ELSE IF argv[i] = EndOfOptions THEN Len(argv) + 1
  ELSE IF ~IsGlobal(argv[i]) THEN 0
  ELSE later[NextOf(argv, i)]

TurnsAt(argv, from) == \A i \in 1 .. Len(argv) + 2 : from[i] = Turn(argv, from, i)

LEMMA LoopEnds ==
  ASSUME NEW X, NEW argv \in Seq(X)
  PROVE  \E from : TurnsAt(argv, from) /\ FirstWord(argv) = from[1]
<1>. DEFINE last == Len(argv) + 2
            Solves(g) == g = [i \in 1 .. last |-> Turn(argv, g, i)]
            Part(g, j) == \A i \in j .. last : g[i] = Turn(argv, g, i)
            Bad == {d \in 0 .. last : ~\E g : Part(g, last - d)}
<1>0. Len(argv) \in Nat /\ last \in Nat /\ last > Len(argv) + 1
  BY LenProperties
<1>1. Bad = {}
  <2>1. SUFFICES ASSUME Bad # {} PROVE FALSE
    OBVIOUS
  <2>2. PICK d \in Bad : \A e \in Bad : d <= e
    <3>1. Bad \in SUBSET Nat
      OBVIOUS
    <3>. HIDE DEF Bad
    <3>. QED  BY <2>1, <3>1, LeastNat
  <2>. DEFINE j == last - d
  <2>3. d \in 0 .. last /\ j \in 0 .. last /\ ~\E g : Part(g, j)
    BY <1>0
  <2>4. \E h : Part(h, j + 1)
    <3>1. CASE d = 0
      <4>1. j + 1 .. last = {}
        BY <1>0, <2>3, <3>1
      <4>. HIDE DEF j, last
      <4>. QED  BY <4>1
    <3>2. CASE d # 0
      <4>1. d - 1 \in 0 .. last /\ ~(d <= d - 1) /\ last - (d - 1) = j + 1
        BY <1>0, <2>3, <3>2
      <4>2. d - 1 \notin Bad
        <5>. HIDE DEF Bad
        <5>. QED  BY <2>2, <4>1
      <4>. HIDE DEF Part, last, j
      <4>. QED  BY <4>1, <4>2
    <3>. QED  BY <3>1, <3>2
  <2>5. PICK h : Part(h, j + 1)
    BY <2>4
  <2>. DEFINE g == [i \in j .. last |-> IF i = j THEN Turn(argv, h, j) ELSE h[i]]
  <2>6. /\ g[j] = Turn(argv, h, j)
        /\ \A i \in j + 1 .. last : i \in j .. last /\ g[i] = h[i]
    BY <1>0, <2>3, SMTT(30)
  <2>. HIDE DEF g
  <2>7. ASSUME NEW i \in j .. last
        PROVE  g[i] = Turn(argv, g, i)
    <3>0. i \in Int /\ j \in Int
      BY <2>3
    <3>1. i <= Len(argv) => NextOf(argv, i) \in j + 1 .. last
      BY <1>0, <3>0 DEF NextOf
    <3>2. i <= Len(argv) => g[NextOf(argv, i)] = h[NextOf(argv, i)]
      BY <2>6, <3>1
    <3>3. Turn(argv, g, i) = Turn(argv, h, i)
      BY <1>0, <3>0, <3>2 DEF Turn
    <3>4. CASE i = j
      BY <2>6, <3>3, <3>4
    <3>5. CASE i # j
      <4>1. i \in j + 1 .. last
        BY <1>0, <3>0, <3>5
      <4>. QED  BY <2>5, <2>6, <3>3, <4>1
    <3>. QED  BY <3>4, <3>5
  <2>. QED  BY <2>3, <2>7
<1>2. PICK h : Part(h, 1)
  <2>1. last - 1 \in 0 .. last /\ last - (last - 1) = 1
    BY <1>0
  <2>2. last - 1 \notin Bad
    <3>. HIDE DEF Bad
    <3>. QED  BY <1>1
  <2>. HIDE DEF Part, last
  <2>. QED  BY <2>1, <2>2
<1>. DEFINE whole == [i \in 1 .. last |-> h[i]]
<1>3. Solves(whole)
  <2>1. ASSUME NEW i \in 1 .. last PROVE whole[i] = Turn(argv, whole, i)
    <3>1. i <= Len(argv) => NextOf(argv, i) \in 1 .. last
      BY <1>0 DEF NextOf
    <3>2. /\ whole[i] = h[i]
          /\ i <= Len(argv) => whole[NextOf(argv, i)] = h[NextOf(argv, i)]
      BY <3>1
    <3>. HIDE DEF whole
    <3>. QED  BY <1>0, <1>2, <3>2 DEF Turn
  <2>. QED  BY <2>1
<1>. HIDE DEF whole
<1>. DEFINE from == CHOOSE g : Solves(g)
<1>4. Solves(from)
  <2>. HIDE DEF Solves
  <2>. QED  BY <1>3
<1>. HIDE DEF from
<1>5. \A i \in 1 .. last : from[i] = Turn(argv, from, i)
  BY <1>4
<1>6. FirstWord(argv) = from[1]
  BY DEF FirstWord, from, Turn, NextOf
<1>. QED  BY <1>5, <1>6 DEF TurnsAt

(***************************************************************************)
(* Then the reading: argv[1 .. i - 1] can be read as options and values so *)
(* that the i-th argument is neither.                                      *)
(***************************************************************************)
FollowsOn(argv, starts, i) == i = 1 \/ i - 1 \notin starts \/ ~TakesNext(argv[i - 1])

ReadsAs(argv, starts, k) ==
  /\ starts \in SUBSET (1 .. k)
  /\ \A i \in starts : IsGlobal(argv[i])
  /\ \A i \in 1 .. k : i \in starts <=> FollowsOn(argv, starts, i)

Comes(argv, i) == \E starts : ReadsAs(argv, starts, i - 1) /\ FollowsOn(argv, starts, i)

LEMMA ReadsLess ==
  ASSUME NEW argv, NEW k \in Nat, NEW starts, ReadsAs(argv, starts, k), NEW i \in starts
  PROVE  Comes(argv, i) /\ IsGlobal(argv[i])
<1>. DEFINE less == starts \cap (1 .. i - 1)
<1>0. i \in 1 .. k /\ IsGlobal(argv[i]) /\ FollowsOn(argv, starts, i)
  BY DEF ReadsAs
<1>1. \A j \in 1 .. i : FollowsOn(argv, less, j) <=> FollowsOn(argv, starts, j)
  BY <1>0 DEF FollowsOn
<1>2. ReadsAs(argv, less, i - 1)
  <2>1. \A j \in 1 .. i - 1 : j \in 1 .. k /\ j \in 1 .. i /\ (j \in less <=> j \in starts)
    BY <1>0
  <2>. HIDE DEF less
  <2>2. less \in SUBSET (1 .. i - 1) /\ less \in SUBSET starts
    BY DEF less
  <2>. QED  BY <1>1, <2>1, <2>2 DEF ReadsAs
<1>3. i \in 1 .. i
  BY <1>0
<1>. HIDE DEF less
<1>. QED  BY <1>0, <1>1, <1>2, <1>3 DEF Comes

LEMMA ReadsMore ==
  ASSUME NEW argv, NEW i \in Nat \ {0}, Comes(argv, i), IsGlobal(argv[i])
  PROVE  /\ ~TakesNext(argv[i]) => Comes(argv, i + 1)
         /\ TakesNext(argv[i]) => Comes(argv, i + 2)
         /\ \E more : ReadsAs(argv, more, i) /\ i \in more
<1>1. PICK starts : ReadsAs(argv, starts, i - 1) /\ FollowsOn(argv, starts, i)
  BY DEF Comes
<1>. DEFINE more == starts \cup {i}
<1>2. starts \in SUBSET (1 .. i - 1) /\ i \notin starts
  BY <1>1 DEF ReadsAs
<1>3. \A j \in 1 .. i : FollowsOn(argv, more, j) <=> FollowsOn(argv, starts, j)
  BY <1>2 DEF FollowsOn
<1>4. more \in SUBSET (1 .. i) /\ i \in more /\ more \in SUBSET (1 .. i + 1) /\ i + 1 \notin more
  BY <1>2
<1>5. \A j \in 1 .. i : j # i => j \in 1 .. i - 1
  OBVIOUS
<1>6. \A j \in 1 .. i : j \in more <=> FollowsOn(argv, more, j)
  BY <1>1, <1>3, <1>5 DEF ReadsAs
<1>7. \A j \in more : IsGlobal(argv[j])
  BY <1>1 DEF ReadsAs
<1>. HIDE DEF more
<1>8. ReadsAs(argv, more, i)
  BY <1>4, <1>6, <1>7 DEF ReadsAs
<1>9. ASSUME ~TakesNext(argv[i]) PROVE Comes(argv, i + 1)
  <2>1. (i + 1) - 1 = i /\ FollowsOn(argv, more, i + 1)
    BY <1>9 DEF FollowsOn
  <2>. QED  BY <1>8, <2>1 DEF Comes
<1>10. ASSUME TakesNext(argv[i]) PROVE Comes(argv, i + 2)
  <2>1. (i + 1) - 1 = i /\ (i + 2) - 1 = i + 1 /\ i + 1 # 1
    OBVIOUS
  <2>2. ~FollowsOn(argv, more, i + 1)
    BY <1>4, <1>10, <2>1 DEF FollowsOn
  <2>3. \A j \in 1 .. i + 1 : j # i + 1 => j \in 1 .. i
    OBVIOUS
  <2>4. ReadsAs(argv, more, i + 1)
    BY <1>4, <1>6, <1>7, <2>2, <2>3 DEF ReadsAs
  <2>5. FollowsOn(argv, more, i + 2)
    BY <1>4, <2>1 DEF FollowsOn
  <2>. QED  BY <2>1, <2>4, <2>5 DEF Comes
<1>. QED  BY <1>4, <1>8, <1>9, <1>10

LEMMA SkipsComes ==
  ASSUME NEW X, NEW argv \in Seq(X), NEW k \in 0 .. Len(argv)
  PROVE  Skips(argv, k) <=>
           \/ Comes(argv, k + 1)
           \/ /\ k = Len(argv) /\ k # 0 /\ Comes(argv, k)
              /\ IsGlobal(argv[k]) /\ TakesNext(argv[k])
<1>0. Len(argv) \in Nat /\ k \in Nat /\ (k + 1) - 1 = k
  BY LenProperties
<1>1. Skips(argv, k) <=>
        \E starts : /\ ReadsAs(argv, starts, k)
                    /\ k \in starts /\ TakesNext(argv[k]) => k = Len(argv)
  BY DEF Skips, ReadsAs, FollowsOn
<1>2. ASSUME NEW starts, ReadsAs(argv, starts, k), k \in starts, TakesNext(argv[k])
      PROVE  Comes(argv, k) /\ IsGlobal(argv[k]) /\ k # 0
  <2>1. Comes(argv, k) /\ IsGlobal(argv[k])
    BY <1>0, <1>2, ReadsLess
  <2>2. k \in 1 .. k
    BY <1>2 DEF ReadsAs
  <2>. QED  BY <1>0, <2>1, <2>2
<1>3. ASSUME NEW starts, ReadsAs(argv, starts, k), ~(k \in starts /\ TakesNext(argv[k]))
      PROVE  Comes(argv, k + 1)
  BY <1>0, <1>3 DEF Comes, FollowsOn
<1>4. ASSUME Comes(argv, k + 1)
      PROVE  \E starts : ReadsAs(argv, starts, k) /\ ~(k \in starts /\ TakesNext(argv[k]))
  <2>1. PICK starts : ReadsAs(argv, starts, k) /\ FollowsOn(argv, starts, k + 1)
    BY <1>0, <1>4 DEF Comes
  <2>2. k = 0 => k \notin starts
    BY <2>1 DEF ReadsAs
  <2>. QED  BY <1>0, <2>1, <2>2 DEF FollowsOn
<1>5. ASSUME k # 0, Comes(argv, k), IsGlobal(argv[k])
      PROVE  \E starts : ReadsAs(argv, starts, k)
  <2>1. k \in Nat \ {0}
    BY <1>0, <1>5
  <2>. QED  BY <1>5, <2>1, ReadsMore
<1>. QED  BY <1>1, <1>2, <1>3, <1>4, <1>5

\* What comes was come to by way of an option.
LEMMA CameFrom ==
  ASSUME NEW argv, NEW i \in Nat, i > 1, Comes(argv, i)
  PROVE  \E j \in 1 .. i - 1 : Comes(argv, j) /\ IsGlobal(argv[j]) /\ NextOf(argv, j) = i
<1>1. PICK starts : ReadsAs(argv, starts, i - 1) /\ FollowsOn(argv, starts, i)
  BY DEF Comes
<1>2. i - 1 \in Nat /\ i - 1 \in 1 .. i - 1
  OBVIOUS
<1>3. CASE i - 1 \in starts
  <2>1. Comes(argv, i - 1) /\ IsGlobal(argv[i - 1])
    BY <1>1, <1>2, <1>3, ReadsLess
  <2>2. ~TakesNext(argv[i - 1])
    BY <1>1, <1>3 DEF FollowsOn
  <2>3. NextOf(argv, i - 1) = i
    BY <2>2 DEF NextOf
  <2>. QED  BY <1>2, <2>1, <2>3
<1>4. CASE i - 1 \notin starts
  <2>1. ~FollowsOn(argv, starts, i - 1)
    BY <1>1, <1>2, <1>4 DEF ReadsAs
  <2>2. (i - 1) - 1 = i - 2 /\ i - 1 # 1 /\ i - 2 \in starts /\ TakesNext(argv[i - 2])
    BY <2>1 DEF FollowsOn
  <2>3. Comes(argv, i - 2) /\ IsGlobal(argv[i - 2])
    BY <1>1, <1>2, <2>2, ReadsLess
  <2>4. NextOf(argv, i - 2) = i /\ i - 2 \in 1 .. i - 1
    BY <2>2 DEF NextOf
  <2>. QED  BY <2>3, <2>4
<1>. QED  BY <1>3, <1>4

LEMMA GlobalsAreOptions ==
  ASSUME NEW a, IsGlobal(a)
  PROVE  ~IsWord(a) /\ a # EndOfOptions
<1>1. a.dashes # 0
  BY DEF IsGlobal
<1>3. a.name # ""
  BY DEF IsGlobal, WithValue, Bare
<1>2. EndOfOptions.name = ""
  BY DEF EndOfOptions, Option
<1>. QED  BY <1>1, <1>2, <1>3 DEF IsWord

\* The loop ends where it would had it begun at anything that comes.
LEMMA LoopComes ==
  ASSUME NEW X, NEW argv \in Seq(X), NEW from, TurnsAt(argv, from),
         NEW i \in 1 .. Len(argv) + 1, Comes(argv, i)
  PROVE  from[1] = from[i]
<1>0. Len(argv) \in Nat
  BY LenProperties
<1>. DEFINE Bad == {j \in 1 .. Len(argv) + 1 : Comes(argv, j) /\ from[1] # from[j]}
<1>1. SUFFICES ASSUME Bad # {} PROVE FALSE
  OBVIOUS
<1>2. PICK k \in Bad : \A e \in Bad : k <= e
  <2>1. Bad \in SUBSET Nat
    OBVIOUS
  <2>. HIDE DEF Bad
  <2>. QED  BY <1>1, <2>1, LeastNat
<1>3. k \in 1 .. Len(argv) + 1 /\ Comes(argv, k) /\ from[1] # from[k]
  OBVIOUS
<1>4. PICK j \in 1 .. k - 1 : Comes(argv, j) /\ IsGlobal(argv[j]) /\ NextOf(argv, j) = k
  <2>1. k \in Nat /\ k > 1
    BY <1>0, <1>3
  <2>. QED  BY <1>3, <2>1, CameFrom
<1>5. j \in 1 .. Len(argv) + 1 /\ ~(k <= j) /\ ~(j > Len(argv)) /\ j \in 1 .. Len(argv) + 2
  BY <1>0, <1>3
<1>6. from[1] = from[j]
  <2>1. j \notin Bad
    <3>. HIDE DEF Bad
    <3>. QED  BY <1>2, <1>5
  <2>. QED  BY <1>4, <1>5, <2>1
<1>7. from[j] = from[k]
  BY <1>4, <1>5, GlobalsAreOptions DEF TurnsAt, Turn
<1>. QED  BY <1>3, <1>6, <1>7

LEMMA FirstWordIs ==
  ASSUME NEW X, NEW argv \in Seq(X)
  PROVE  /\ FirstWord(argv) \in 0 .. Len(argv) + 1
         /\ \A k \in 1 .. Len(argv) :
              FirstWord(argv) = k <=> Comes(argv, k) /\ IsWord(argv[k])
         /\ FirstWord(argv) = Len(argv) + 1 <=> NoCommand(argv)
<1>. DEFINE n == Len(argv)
<1>0. n \in Nat /\ DOMAIN argv = 1 .. n
  BY LenProperties
<1>1. PICK from : TurnsAt(argv, from) /\ FirstWord(argv) = from[1]
  BY LoopEnds
<1>2. \A i \in 1 .. n + 2 : from[i] = Turn(argv, from, i)
  BY <1>1 DEF TurnsAt
<1>3. Comes(argv, 1)
  <2>1. ReadsAs(argv, {}, 1 - 1) /\ FollowsOn(argv, {}, 1)
    BY DEF ReadsAs, FollowsOn
  <2>. QED  BY <2>1 DEF Comes
<1>. HIDE DEF n
<1>4. ASSUME NEW k \in 1 .. n, Comes(argv, k)
      PROVE  /\ IsWord(argv[k]) => FirstWord(argv) = k
             /\ argv[k] = EndOfOptions => FirstWord(argv) = n + 1
             /\ IsGlobal(argv[k]) /\ TakesNext(argv[k]) /\ k = n => FirstWord(argv) = n + 1
  <2>1. /\ k \in 1 .. n + 1 /\ k \in 1 .. n + 2 /\ ~(k > n)
        /\ n + 2 \in 1 .. n + 2 /\ n + 2 > n
    BY <1>0
  <2>2. FirstWord(argv) = Turn(argv, from, k)
    BY <1>1, <1>2, <1>4, <2>1, LoopComes DEF n
  <2>3. ~IsWord(EndOfOptions)
    BY DEF IsWord, EndOfOptions, Option
  <2>4. from[n + 2] = n + 1
    BY <1>2, <2>1 DEF Turn, n
  <2>5. IsGlobal(argv[k]) /\ TakesNext(argv[k]) /\ k = n => FirstWord(argv) = n + 1
    BY <2>1, <2>2, <2>4, GlobalsAreOptions DEF Turn, NextOf, n
  <2>. QED  BY <2>1, <2>2, <2>3, <2>5 DEF Turn, n
<1>5. Comes(argv, n + 1) => FirstWord(argv) = n + 1
  <2>1. n + 1 \in 1 .. n + 1 /\ n + 1 \in 1 .. n + 2 /\ n + 1 > n
    BY <1>0
  <2>. QED  BY <1>1, <1>2, <2>1, LoopComes DEF Turn, n
<1>6. Skips(argv, n) => FirstWord(argv) = n + 1
  <2>1. n \in 0 .. n /\ (n # 0 => n \in 1 .. n)
    BY <1>0
  <2>. QED  BY <1>4, <1>5, <2>1, SkipsComes DEF n
<1>7. ASSUME NEW k \in 1 .. n, argv[k] = EndOfOptions, Skips(argv, k - 1)
      PROVE  FirstWord(argv) = n + 1
  <2>1. k - 1 \in 0 .. n /\ k - 1 # n /\ (k - 1) + 1 = k
    BY <1>0
  <2>2. Comes(argv, k)
    BY <1>7, <2>1, SkipsComes DEF n
  <2>. QED  BY <1>4, <1>7, <2>2
<1>8. NoCommand(argv) => FirstWord(argv) = n + 1
  BY <1>0, <1>6, <1>7 DEF NoCommand, n
\* Where the loop ends: at the last of what comes.
<1>9. PICK i \in 1 .. n + 1 : Comes(argv, i) /\ \A j \in 1 .. n + 1 : Comes(argv, j) => j <= i
  <2>. DEFINE ToGo == {d \in 0 .. n : Comes(argv, n + 1 - d)}
  <2>1. ToGo \in SUBSET Nat
    OBVIOUS
  <2>2. n \in ToGo
    BY <1>0, <1>3
  <2>3. PICK d \in ToGo : \A e \in ToGo : d <= e
    <3>. HIDE DEF ToGo
    <3>. QED  BY <2>1, <2>2, LeastNat
  <2>4. d \in 0 .. n /\ Comes(argv, n + 1 - d) /\ n + 1 - d \in 1 .. n + 1
    BY <1>0
  <2>5. ASSUME NEW j \in 1 .. n + 1, Comes(argv, j) PROVE j <= n + 1 - d
    <3>1. n + 1 - j \in 0 .. n /\ n + 1 - (n + 1 - j) = j
      BY <1>0
    <3>2. n + 1 - j \in ToGo
      BY <2>5, <3>1
    <3>3. d <= n + 1 - j
      <4>. HIDE DEF ToGo
      <4>. QED  BY <2>3, <3>2
    <3>. QED  BY <1>0, <2>4, <3>3
  <2>. QED  BY <2>4, <2>5
<1>10. FirstWord(argv) = Turn(argv, from, i)
  <2>1. i \in 1 .. n + 2
    BY <1>0
  <2>. QED  BY <1>1, <1>2, <1>9, <2>1, LoopComes DEF n
<1>11. CASE i = n + 1
  <2>1. Skips(argv, n)
    <3>1. n \in 0 .. n
      BY <1>0
    <3>. QED  BY <1>9, <1>11, <3>1, SkipsComes DEF n
  <2>2. FirstWord(argv) = n + 1 /\ NoCommand(argv)
    BY <1>6, <2>1 DEF NoCommand, n
  <2>. QED  BY <1>0, <1>4, <2>2 DEF n
<1>12. CASE i \in 1 .. n
  <2>0. i \in 1 .. n /\ ~(i > n)
    BY <1>0, <1>12
  <2>1. CASE IsWord(argv[i])
    <3>1. FirstWord(argv) = i
      BY <1>4, <1>9, <2>0, <2>1
    <3>2. FirstWord(argv) \in 0 .. n + 1 /\ FirstWord(argv) # n + 1
      BY <1>0, <2>0, <3>1
    <3>3. ASSUME NEW k \in 1 .. n
          PROVE  FirstWord(argv) = k <=> Comes(argv, k) /\ IsWord(argv[k])
      BY <1>4, <1>9, <2>1, <3>1
    <3>4. ~NoCommand(argv)
      BY <1>8, <3>2
    <3>. QED  BY <3>2, <3>3, <3>4 DEF n
  <2>2. CASE argv[i] = EndOfOptions
    <3>1. FirstWord(argv) = n + 1
      BY <1>4, <1>9, <2>0, <2>2
    <3>2. Skips(argv, i - 1)
      <4>1. i - 1 \in 0 .. n /\ (i - 1) + 1 = i
        BY <1>0, <2>0
      <4>. QED  BY <1>9, <4>1, SkipsComes DEF n
    <3>3. NoCommand(argv)
      BY <1>0, <2>0, <2>2, <3>2 DEF NoCommand
    <3>. QED  BY <1>0, <1>4, <3>1, <3>3 DEF n
  <2>3. CASE ~IsWord(argv[i]) /\ argv[i] # EndOfOptions /\ ~IsGlobal(argv[i])
    <3>1. FirstWord(argv) = 0
      BY <1>10, <2>0, <2>3 DEF Turn, n
    <3>2. FirstWord(argv) \in 0 .. n + 1 /\ FirstWord(argv) # n + 1
      BY <1>0, <3>1
    <3>3. ASSUME NEW k \in 1 .. n
          PROVE  FirstWord(argv) # k /\ ~(Comes(argv, k) /\ IsWord(argv[k]))
      BY <1>0, <1>4, <3>1
    <3>4. ~NoCommand(argv)
      BY <1>8, <3>2
    <3>. QED  BY <3>2, <3>3, <3>4 DEF n
  <2>4. CASE IsGlobal(argv[i])
    <3>1. i \in Nat \ {0} /\ ~(i + 1 <= i) /\ ~(i + 2 <= i)
      BY <1>0, <2>0
    <3>2. ~TakesNext(argv[i]) => Comes(argv, i + 1) /\ i + 1 \in 1 .. n + 1
      BY <1>0, <1>9, <2>0, <2>4, <3>1, ReadsMore
    <3>3. TakesNext(argv[i]) => Comes(argv, i + 2)
      BY <1>9, <2>4, <3>1, ReadsMore
    <3>4. TakesNext(argv[i]) /\ i = n
      <4>1. i # n => i + 2 \in 1 .. n + 1
        BY <1>0, <2>0
      <4>. QED  BY <1>9, <3>1, <3>2, <3>3, <4>1
    <3>5. FirstWord(argv) = n + 1
      BY <1>4, <1>9, <2>0, <2>4, <3>4
    <3>6. Skips(argv, n)
      <4>1. n \in 0 .. n /\ n # 0
        BY <1>0, <2>0
      <4>. QED  BY <1>9, <2>4, <3>4, <4>1, SkipsComes DEF n
    <3>. QED  BY <1>0, <1>4, <3>5, <3>6 DEF NoCommand, n
  <2>. QED  BY <2>1, <2>2, <2>3, <2>4
<1>. QED  BY <1>0, <1>11, <1>12

\* The words of a command, up to three, from its first on.
LEMMA LeadingWordsAre ==
  ASSUME NEW X, NEW argv \in Seq(X), NEW k \in 1 .. Len(argv), IsWord(argv[k])
  PROVE  \E n \in 1 .. 3 :
           /\ k + n - 1 <= Len(argv)
           /\ \A l \in k .. k + n - 1 : IsWord(argv[l])
           /\ \A m \in 1 .. 3 : /\ k + m - 1 <= Len(argv)
                                /\ \A l \in k .. k + m - 1 : IsWord(argv[l])
                                => m <= n
           /\ LeadingWords(argv, k) = [l \in 1 .. n |-> argv[k + l - 1].name]
<1>. DEFINE long == {m \in 0 .. 3 : /\ k + m - 1 <= Len(argv)
                                    /\ \A l \in k .. k + m - 1 : IsWord(argv[l])}
            n == CHOOSE m \in long : \A l \in long : l <= m
<1>0. Len(argv) \in Nat /\ k \in Nat /\ k <= Len(argv)
  BY LenProperties
<1>1. 1 \in long
  BY <1>0
<1>2. \E m \in long : \A l \in long : l <= m
  <2>1. long \in SUBSET (0 .. 3)
    OBVIOUS
  <2>. HIDE DEF long
  <2>2. CASE 3 \in long
    BY <2>1, <2>2
  <2>3. CASE 3 \notin long /\ 2 \in long
    BY <2>1, <2>3
  <2>4. CASE 3 \notin long /\ 2 \notin long
    BY <1>1, <2>1, <2>4
  <2>. QED  BY <2>2, <2>3, <2>4
<1>3. n \in long /\ \A l \in long : l <= n
  <2>. HIDE DEF long
  <2>. QED  BY <1>2
<1>4. LeadingWords(argv, k) = [l \in 1 .. n |-> argv[k + l - 1].name]
  BY DEF LeadingWords
<1>. HIDE DEF n
<1>5. n \in 0 .. 3 /\ k + n - 1 <= Len(argv) /\ \A l \in k .. k + n - 1 : IsWord(argv[l])
  BY <1>3
<1>6. n \in 1 .. 3
  <2>. HIDE DEF long
  <2>. QED  BY <1>1, <1>3, <1>5
<1>7. ASSUME NEW m \in 1 .. 3, k + m - 1 <= Len(argv), \A l \in k .. k + m - 1 : IsWord(argv[l])
      PROVE  m <= n
  <2>1. m \in long
    BY <1>7
  <2>. HIDE DEF long
  <2>. QED  BY <1>3, <2>1
<1>. HIDE DEF long
<1>. QED  BY <1>4, <1>5, <1>6, <1>7

LEMMA WordsAreWords ==
  /\ \A a : IsArg(a) /\ IsWord(a) => a = ArgWord(a.name)
  /\ \A name : ArgWord(name).name = name /\ IsWord(ArgWord(name))
<1>1. ASSUME NEW a, IsArg(a), IsWord(a) PROVE a = ArgWord(a.name)
  <2>1. CASE \E name : a = ArgWord(name)
    BY <2>1 DEF ArgWord
  <2>2. ASSUME NEW dashes \in {1, 2}, NEW name, NEW inline \in BOOLEAN,
               a = Option(dashes, name, inline)
        PROVE  FALSE
    <3>1. a.dashes = dashes
      BY <2>2 DEF Option
    <3>. QED  BY <1>1, <3>1 DEF IsWord
  <2>. QED  BY <1>1, <2>1, <2>2 DEF IsArg
<1>2. \A name : ArgWord(name).name = name /\ ArgWord(name).dashes = 0
  BY DEF ArgWord
<1>. QED  BY <1>1, <1>2 DEF IsWord

LEMMA CandidatesAreSpelt ==
  ASSUME NEW X, NEW argv \in Seq(X), \A i \in 1 .. Len(argv) : IsArg(argv[i]),
         NEW k \in 1 .. Len(argv), IsWord(argv[k]),
         NEW Y, NEW command \in Seq(Y), Len(command) \in 1 .. 3
  PROVE  command \in Candidates(LeadingWords(argv, k)) <=> Spells(argv, k, command)
<1>. DEFINE path == LeadingWords(argv, k)
            name(l) == argv[k + l - 1].name
<1>0. Len(argv) \in Nat /\ k \in Nat /\ Len(command) \in Nat /\ DOMAIN command = 1 .. Len(command)
  BY LenProperties
<1>1. PICK n \in 1 .. 3 :
           /\ k + n - 1 <= Len(argv)
           /\ \A l \in k .. k + n - 1 : IsWord(argv[l])
           /\ \A m \in 1 .. 3 : /\ k + m - 1 <= Len(argv)
                                /\ \A l \in k .. k + m - 1 : IsWord(argv[l])
                                => m <= n
           /\ path = [l \in 1 .. n |-> name(l)]
  BY LeadingWordsAre
<1>. DEFINE Z == {name(l) : l \in 1 .. n}
<1>2. path \in Seq(Z) /\ Len(path) = n /\ \A l \in 1 .. n : path[l] = name(l)
  <2>1. \A l \in 1 .. n : name(l) \in Z
    OBVIOUS
  <2>. HIDE DEF path, name, Z
  <2>2. path \in [1 .. n -> Z] /\ \A l \in 1 .. n : path[l] = name(l)
    BY <1>1, <2>1
  <2>3. path \in Seq(Z) /\ Len(path) = n
    BY <1>1, <2>2
  <2>. QED  BY <2>2, <2>3
<1>. HIDE DEF path
<1>3. ASSUME NEW l \in 1 .. n
      PROVE  argv[k + l - 1] = ArgWord(name(l))
  <2>1. k + l - 1 \in 1 .. Len(argv) /\ k + l - 1 \in k .. k + n - 1
    BY <1>0, <1>1
  <2>2. IsArg(argv[k + l - 1]) /\ IsWord(argv[k + l - 1])
    BY <1>1, <2>1
  <2>. QED  BY <2>2, WordsAreWords
<1>4. ASSUME NEW q \in 1 .. n
      PROVE  SubSeq(path, 1, q) \in Seq(Z) /\ Len(SubSeq(path, 1, q)) = q
             /\ \A l \in 1 .. q : SubSeq(path, 1, q)[l] = name(l)
  <2>1. \A l \in 1 .. q : l \in 1 .. n /\ 1 + l - 1 = l
    BY <1>1
  <2>. HIDE DEF Z
  <2>2. 1 \in 1 .. n + 1 /\ q \in 0 .. n /\ q - 1 + 1 = q
    BY <1>1
  <2>. QED  BY <1>2, <2>1, <2>2, SubSeqProperties
<1>. HIDE DEF Z
<1>5. ASSUME command \in Candidates(path)
      PROVE  Spells(argv, k, command)
  <2>1. PICK q \in 1 .. n : command = SubSeq(path, 1, q)
    BY <1>2, <1>5 DEF Candidates
  <2>2. Len(command) = q /\ \A l \in 1 .. q : l \in 1 .. n /\ command[l] = name(l)
    BY <1>4, <2>1
  <2>3. \A l \in 1 .. q : argv[k + l - 1] = ArgWord(command[l])
    <3>. HIDE DEF name
    <3>. QED  BY <1>3, <2>2
  <2>4. k + q - 1 <= Len(argv)
    BY <1>0, <1>1
  <2>. QED  BY <1>0, <2>2, <2>3, <2>4 DEF Spells
<1>6. ASSUME Spells(argv, k, command)
      PROVE  command \in Candidates(path)
  <2>. DEFINE q == Len(command)
  <2>1. /\ k + q - 1 <= Len(argv)
        /\ \A l \in 1 .. q : argv[k + l - 1] = ArgWord(command[l])
    BY <1>0, <1>6 DEF Spells
  <2>2. ASSUME NEW l \in k .. k + q - 1 PROVE IsWord(argv[l])
    <3>1. l - k + 1 \in 1 .. q /\ k + (l - k + 1) - 1 = l
      BY <1>0
    <3>2. argv[l] = ArgWord(command[l - k + 1])
      BY <2>1, <3>1
    <3>. QED  BY <3>2, WordsAreWords
  <2>3. q \in 1 .. n
    <3>1. q <= n
      BY <1>1, <2>1, <2>2
    <3>. QED  BY <1>0, <1>1, <3>1
  <2>4. \A l \in 1 .. q : command[l] = name(l)
    BY <2>1, WordsAreWords
  <2>. HIDE DEF q, name
  <2>5. command = SubSeq(path, 1, q)
    <3>1. Len(command) = q
      BY DEF q
    <3>2. command \in Seq(Y \cup Z) /\ SubSeq(path, 1, q) \in Seq(Y \cup Z)
      BY <1>4, <2>3, SeqMonotonic
    <3>. QED  BY <1>4, <2>3, <2>4, <3>1, <3>2, SeqEqual
  <2>. QED  BY <1>2, <2>3, <2>5 DEF Candidates
<1>. QED  BY <1>5, <1>6 DEF path

(***************************************************************************)
(* Check (guard.go) runs exactly the command lines it is meant to: with    *)
(* options it knows read as op would read them, either no command, or one  *)
(* that is allowed and not blocked, and in no place an option that acts on *)
(* this machine. A command of the configuration is one to three words.     *)
(***************************************************************************)
THEOREM GuardReadsEveryCommand ==
  ASSUME NEW X, NEW argv \in Seq(X), \A i \in 1 .. Len(argv) : IsArg(argv[i]),
         NEW Y, NEW allowCommands \in SUBSET Seq(Y),
         \A command \in allowCommands : Len(command) \in 1 .. 3, NEW allowAll \in BOOLEAN
  PROVE  Check(argv, allowCommands, allowAll) <=> Permitted(argv, allowCommands, allowAll)
<1>. DEFINE w == FirstWord(argv)
            path == LeadingWords(argv, w)
            Vetted == \A a \in ToSet(argv) : ~IsWord(a) => a.name \notin localStateFlags
            Allowed == readOnlyCommands \cup allowCommands
            Runs(k) == /\ argv[k].name \notin blockedCommands
                       /\ allowAll \/ \E command \in Allowed : Spells(argv, k, command)
<1>0. Len(argv) \in Nat /\ DOMAIN argv = 1 .. Len(argv)
  BY LenProperties
<1>1. \A command \in Allowed : \E Z : command \in Seq(Z) /\ Len(command) \in 1 .. 3
  <2>1. ASSUME NEW a, NEW b
        PROVE  /\ <<a>> \in Seq({a}) /\ Len(<<a>>) = 1
               /\ <<a, b>> \in Seq({a, b}) /\ Len(<<a, b>>) = 2
    OBVIOUS
  <2>2. \A command \in readOnlyCommands : \E a, b : command = <<a>> \/ command = <<a, b>>
    BY DEF readOnlyCommands
  <2>3. ASSUME NEW command \in readOnlyCommands
        PROVE  \E Z : command \in Seq(Z) /\ Len(command) \in 1 .. 3
    <3>1. PICK a, b : command = <<a>> \/ command = <<a, b>>
      BY <2>2
    <3>2. CASE command = <<a>>
      <4>1. command \in Seq({a}) /\ Len(command) = 1
        BY <2>1, <3>2, Zenon
      <4>. QED  BY <4>1
    <3>3. CASE command = <<a, b>>
      <4>1. command \in Seq({a, b}) /\ Len(command) = 2
        BY <2>1, <3>3, Zenon
      <4>. QED  BY <4>1
    <3>. QED  BY <3>1, <3>2, <3>3
  <2>. QED  BY <2>3 DEF Allowed
<1>2. /\ w \in 0 .. Len(argv) + 1
      /\ \A k \in 1 .. Len(argv) : w = k <=> Comes(argv, k) /\ IsWord(argv[k])
      /\ w = Len(argv) + 1 <=> NoCommand(argv)
  BY FirstWordIs
<1>3. \A k \in 1 .. Len(argv) : Comes(argv, k) <=> Skips(argv, k - 1)
  <2>1. ASSUME NEW k \in 1 .. Len(argv) PROVE Comes(argv, k) <=> Skips(argv, k - 1)
    <3>1. k - 1 \in 0 .. Len(argv) /\ k - 1 # Len(argv) /\ (k - 1) + 1 = k
      BY <1>0
    <3>. QED  BY <3>1, SkipsComes
  <2>. QED  BY <2>1
<1>. HIDE DEF w, Vetted, Allowed, Runs
<1>4. ASSUME w \in 1 .. Len(argv)
      PROVE  /\ path[1] \notin blockedCommands
             /\ allowAll \/ Candidates(path) \cap Allowed # {}
             <=> Runs(w)
  <2>1. IsWord(argv[w])
    BY <1>2, <1>4
  <2>2. path[1] = argv[w].name
    <3>1. \E n \in 1 .. 3 : path = [l \in 1 .. n |-> argv[w + l - 1].name]
      BY <1>4, <2>1, LeadingWordsAre
    <3>2. w + 1 - 1 = w
      BY <1>0, <1>4
    <3>. QED  BY <3>1, <3>2
  <2>3. \A command \in Allowed : command \in Candidates(path) <=> Spells(argv, w, command)
    BY <1>1, <1>4, <2>1, CandidatesAreSpelt
  <2>. HIDE DEF path
  <2>. QED  BY <2>2, <2>3 DEF Runs
<1>5. Check(argv, allowCommands, allowAll) <=>
        Vetted /\ w # 0 /\ (w <= Len(argv) => Runs(w))
  <2>1. Check(argv, allowCommands, allowAll) <=>
          /\ Vetted /\ w # 0
          /\ w <= Len(argv) => /\ path[1] \notin blockedCommands
                               /\ allowAll \/ Candidates(path) \cap Allowed # {}
    BY DEF Check, Vetted, w, Allowed
  <2>2. w # 0 /\ w <= Len(argv) => w \in 1 .. Len(argv)
    BY <1>0, <1>2
  <2>. HIDE DEF path
  <2>. QED  BY <1>4, <2>1, <2>2
<1>6. Permitted(argv, allowCommands, allowAll) <=>
        /\ Vetted
        /\ \/ NoCommand(argv)
           \/ \E k \in 1 .. Len(argv) : IsWord(argv[k]) /\ Skips(argv, k - 1) /\ Runs(k)
  BY <1>0 DEF Permitted, Vetted, Runs, Allowed
<1>7. w # 0 /\ (w <= Len(argv) => Runs(w)) <=>
        \/ w = Len(argv) + 1
        \/ \E k \in 1 .. Len(argv) : w = k /\ Runs(k)
  BY <1>0, <1>2
<1>. QED  BY <1>2, <1>3, <1>5, <1>6, <1>7
=============================================================================
