------------------------------- MODULE Vault --------------------------------
(***************************************************************************)
(* The vault of internal/onepassword: requests for secrets that are        *)
(* authorised one reference at a time, answered from the cache             *)
(* (internal/onepassword/vaultcache) or by the op command, and kept until  *)
(* the cache's own time or the authorisation runs out.                     *)
(*                                                                         *)
(* One host: a service is attached to one. A request is a batch of         *)
(* references, and `op read` of one reference is a batch of one; any other *)
(* command is a request whose values are never kept. Requests the command  *)
(* guard refuses, or whose references do not parse, reach nothing here.    *)
(* How a question is asked is module Broker's and Desk's business: it is   *)
(* open from Asked to AnsweredWith, and an answer comes or a refusal.      *)
(***************************************************************************)
EXTENDS Policy

CONSTANTS
  Request,       \* the requests made in a behaviour, each once
  TheHost,       \* the destination they come from
  RefsOf,        \* RefsOf[r]: the references r wants, in order
  Cacheable,     \* the requests whose values the cache may keep
  Menu,          \* the answers people choose from
  CacheTTL,      \* ticks a value is kept at most
  MaxEntries     \* how many values are kept at most

ASSUME VaultRequests ==
  /\ TheHost \in Host
  /\ RefsOf \in [Request -> Seq(Subject) \ {<<>>}]
  /\ Cacheable \subseteq Request
  /\ \A r \in Request \ Cacheable : Len(RefsOf[r]) = 1
  /\ Menu \subseteq Choice
  /\ CacheTTL \in Nat \ {0} /\ MaxEntries \in Nat \ {0}

VARIABLES
  pc,            \* pc[r]: where the handler of r is
  at,            \* at[r]: the place in RefsOf[r] of the reference in hand
  until,         \* until[r]: ticks left of the approval of that reference
  got,           \* got[r]: the references whose values r has been given
  cache,         \* cache[s]: ticks left of the value kept for s; 0 once expired
  forgetting,    \* Forget has dropped the grants and not yet the cache
  cleared,       \* cleared[r]: references somebody approved for r (history)
  tightened      \* whether anybody forbade anything or took it back (history)

handlerVars == <<pc, at, until, got, cleared>>
vaultVars == <<policyVars, handlerVars, cache, forgetting, tightened>>

Ref(r) == RefsOf[r][at[r]]
Kept == DOMAIN cache

VaultTypeOK ==
  /\ PolicyTypeOK
  /\ pc \in [Request -> {"next", "asking", "approved", "running",
                         "served", "refused", "failed"}]
  /\ \A r \in Request : at[r] \in DOMAIN RefsOf[r] /\ got[r] \subseteq ToSet(RefsOf[r])
  /\ until \in [Request -> {Session} \cup 0 .. DefaultTTL]
  /\ Kept \subseteq Subject /\ \A s \in Kept : cache[s] \in 0 .. CacheTTL
  /\ forgetting \in BOOLEAN /\ tightened \in BOOLEAN
  /\ cleared \in [Request -> SUBSET Subject]

VaultInit ==
  /\ PolicyInit
  /\ pc = [r \in Request |-> "next"]
  /\ at = [r \in Request |-> 1]
  /\ until = [r \in Request |-> 0]
  /\ got = [r \in Request |-> {}] /\ cleared = [r \in Request |-> {}]
  /\ cache = <<>>
  /\ forgetting = FALSE /\ tightened = FALSE
-----------------------------------------------------------------------------
(***************************************************************************)
(* Authorising the reference in hand. An approval by a rule has no end of  *)
(* its own; one by grants ends with the first of them in the slice.        *)
(***************************************************************************)
ApprovalEnds(s) ==
  IF RulesSay("allow", TheHost, s) THEN Session
  ELSE LET matching == MatchingGrants("allow", TheHost, s)
           first == CHOOSE g \in matching : \A other \in matching : g.at <= other.at
       IN  first.left

AnswerEnds(c) ==
  CASE c = "allowOnce" -> 0
    [] c \in {"allowTTL", "allowHostTTL"} -> DefaultTTL
    [] OTHER -> Session

Moves(r, from, to) == pc[r] = from /\ pc' = [pc EXCEPT ![r] = to]

Approve(r, left) ==
  /\ until' = [until EXCEPT ![r] = left]
  /\ cleared' = [cleared EXCEPT ![r] = @ \cup {Ref(r)}]

AllowedByPolicy(r) ==
  /\ Decide(TheHost, Ref(r)) = "allow"
  /\ Moves(r, "next", "approved")
  /\ Approve(r, ApprovalEnds(Ref(r)))
  /\ UNCHANGED <<policyVars, at, got, cache, forgetting, tightened>>

RefusedByPolicy(r) ==
  /\ Decide(TheHost, Ref(r)) = "deny"
  /\ Moves(r, "next", "refused")
  /\ UNCHANGED <<policyVars, at, until, got, cache, forgetting, cleared, tightened>>

Asked(r) ==
  /\ Decide(TheHost, Ref(r)) = "ask"
  /\ Moves(r, "next", "asking")
  /\ UNCHANGED <<policyVars, at, until, got, cache, forgetting, cleared, tightened>>

AnsweredWith(r, c) ==
  /\ Moves(r, "asking", IF Allows(c) THEN "approved" ELSE "refused")
  /\ Record(TheHost, Ref(r), c)
  /\ IF Allows(c) THEN Approve(r, AnswerEnds(c)) ELSE UNCHANGED <<until, cleared>>
  /\ tightened' = (tightened \/ c \in {"refuseSession", "refuseAlways"})
  /\ UNCHANGED <<at, got, cache, forgetting>>
-----------------------------------------------------------------------------
(***************************************************************************)
(* The value, from memory or from op, and the next reference.              *)
(***************************************************************************)
Give(r) ==
  /\ got' = [got EXCEPT ![r] = @ \cup {Ref(r)}]
  /\ IF at[r] < Len(RefsOf[r])
     THEN pc' = [pc EXCEPT ![r] = "next"] /\ at' = [at EXCEPT ![r] = @ + 1]
     ELSE pc' = [pc EXCEPT ![r] = "served"] /\ UNCHANGED at
  /\ UNCHANGED <<policyVars, until, forgetting, cleared, tightened>>

Fresh(s) == s \in Kept /\ cache[s] > 0

Without(entries, gone) == Restrict(entries, DOMAIN entries \ gone)

\* Mutation: the cache is looked at before anybody is asked.
HitUnasked(r) ==
  /\ pc[r] \in {"next", "approved"} /\ r \in Cacheable
  /\ Fresh(Ref(r))
  /\ Give(r)
  /\ UNCHANGED cache

Hit(r) ==
  /\ pc[r] = "approved" /\ r \in Cacheable
  /\ Fresh(Ref(r))
  /\ Give(r)
  /\ UNCHANGED cache

Miss(r) ==
  /\ r \in Cacheable => ~Fresh(Ref(r))
  /\ Moves(r, "approved", "running")
  /\ cache' = IF r \in Cacheable THEN Without(cache, {Ref(r)}) ELSE cache
  /\ UNCHANGED <<policyVars, at, until, got, forgetting, cleared, tightened>>

Expires(left) == IF left = Session THEN CacheTTL ELSE Min({CacheTTL, left})

Unexpired == Restrict(cache, {s \in Kept : cache[s] > 0})

(***************************************************************************)
(* Put drops what has expired, and when that leaves no room one of the     *)
(* entries that expire next, even if the key it is about to store is       *)
(* already there.                                                          *)
(***************************************************************************)
Evictable(entries) ==
  {s \in DOMAIN entries : \A other \in DOMAIN entries : entries[s] <= entries[other]}

Store(entries, s, left) == [k \in DOMAIN entries \cup {s} |-> IF k = s THEN left ELSE entries[k]]

\* Mutation: the value is kept for the cache's whole time.
PutForTTL(s, left) == cache' = Store(Unexpired, s, CacheTTL)

\* Mutation: expired values are dropped, and nothing is evicted.
PutUnbounded(s, left) ==
  cache' = IF Expires(left) = 0 THEN cache ELSE Store(Unexpired, s, Expires(left))

Put(s, left) ==
  \/ Expires(left) = 0 /\ UNCHANGED cache
  \/ /\ Expires(left) > 0
     /\ Cardinality(DOMAIN Unexpired) < MaxEntries
     /\ cache' = Store(Unexpired, s, Expires(left))
  \/ /\ Expires(left) > 0
     /\ Cardinality(DOMAIN Unexpired) >= MaxEntries
     /\ \E gone \in Evictable(Unexpired) :
          cache' = Store(Without(Unexpired, {gone}), s, Expires(left))

\* An empty value, and what came of any other command, is not kept.
OpAnswers(r) ==
  /\ pc[r] = "running"
  /\ Give(r)
  /\ UNCHANGED cache \/ (r \in Cacheable /\ Put(Ref(r), until[r]))

OpFails(r) ==
  /\ Moves(r, "running", "failed")
  /\ UNCHANGED <<policyVars, at, until, got, cache, forgetting, cleared, tightened>>
-----------------------------------------------------------------------------
(***************************************************************************)
(* Locking it back up, and the rest of the Access tab. Forget drops the    *)
(* grants and then the cache, under two locks. Nothing else touches the    *)
(* cache.                                                                  *)
(***************************************************************************)
Forget ==
  /\ ~forgetting /\ forgetting' = TRUE
  /\ IF grants = {} THEN UNCHANGED policyVars ELSE ForgetGrants
  /\ tightened' = TRUE
  /\ UNCHANGED <<handlerVars, cache>>

Purge ==
  /\ forgetting /\ forgetting' = FALSE
  /\ cache' = <<>>
  /\ UNCHANGED <<policyVars, handlerVars, tightened>>

TakeBack ==
  /\ \/ \E i \in 1 .. Len(hostRules) : Revoke(i) \/ Deny(i)
     \/ \E p \in Pattern : RevokeGrant(TheHost, p)
  /\ tightened' = TRUE
  /\ UNCHANGED <<handlerVars, cache, forgetting>>

Less(n) == IF n > 0 THEN n - 1 ELSE n

TimePasses ==
  /\ Tick
  /\ cache' = [s \in Kept |-> Less(cache[s])]
  /\ until' = [r \in Request |-> Less(until[r])]
  /\ UNCHANGED <<pc, at, got, cleared, forgetting, tightened>>

SavedLater ==
  Flush /\ UNCHANGED <<handlerVars, cache, forgetting, tightened>>

VaultNext ==
  \/ \E r \in Request : \/ AllowedByPolicy(r) \/ RefusedByPolicy(r) \/ Asked(r)
                        \/ Hit(r) \/ Miss(r) \/ OpAnswers(r) \/ OpFails(r)
  \/ \E r \in Request, c \in Menu : AnsweredWith(r, c)
  \/ Forget \/ Purge \/ TakeBack
  \/ TimePasses \/ SavedLater

VaultSpec == VaultInit /\ [][VaultNext]_vaultVars
-----------------------------------------------------------------------------
(***************************************************************************)
(* A cached value never outlives the authorisation that produced it: until *)
(* somebody takes an approval back or forbids something, whatever is fresh *)
(* in the cache could be had without asking. A value approved once is not  *)
(* kept, one under a grant goes when the grant does, however long op took. *)
(***************************************************************************)
KeptOnlyWhileAllowed ==
  tightened \/ \A s \in Kept : Fresh(s) => Decide(TheHost, s) = "allow"

(***************************************************************************)
(* Nothing is served from memory alone: every value a request was given,   *)
(* kept or fetched, was approved for that very request first.              *)
(***************************************************************************)
NothingUnasked ==
  \A r \in Request : got[r] \subseteq cleared[r]

(***************************************************************************)
(* The cache is bounded whatever is asked for: requests that fetched the   *)
(* same or different values at once do not push it past its limit.         *)
(***************************************************************************)
CacheIsBounded == Cardinality(Kept) <= MaxEntries
=============================================================================
