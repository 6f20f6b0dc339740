-------------------------- MODULE Connection_proofs --------------------------
(***************************************************************************)
(* Proofs about the connection to a host: the session that supervises it,  *)
(* for any services, order, sockets and options; and the dial that makes   *)
(* it, for any hosts, keys, jumps and flags.                               *)
(***************************************************************************)
EXTENDS Session, Dial, SequenceTheorems, FiniteSetTheorems, TLAPS

-----------------------------------------------------------------------------
(***************************************************************************)
(* Lists of distinct things: what is attached, what is published.          *)
(***************************************************************************)
Listed(s) == {s[i] : i \in 1 .. Len(s)}
Distinct(s) == \A i, j \in 1 .. Len(s) : s[i] = s[j] => i = j

LEMMA DistinctAppend ==
  ASSUME NEW S, NEW s \in Seq(S), NEW e \in S, Distinct(s), e \notin Listed(s)
  PROVE  /\ Append(s, e) \in Seq(S) /\ Len(Append(s, e)) = Len(s) + 1
         /\ Distinct(Append(s, e)) /\ Listed(Append(s, e)) = Listed(s) \cup {e}
<1>. DEFINE t == Append(s, e)
<1>1. /\ t \in Seq(S) /\ Len(t) = Len(s) + 1 /\ Len(s) \in Nat
      /\ \A i \in 1 .. Len(s) : t[i] = s[i]
      /\ t[Len(s) + 1] = e
  BY AppendProperties, LenProperties
<1>. HIDE DEF t
<1>2. \A i \in 1 .. Len(t) : i \in 1 .. Len(s) \/ i = Len(s) + 1
  BY <1>1
<1>3. Distinct(t)
  BY <1>1, <1>2 DEF Distinct, Listed
<1>4. Listed(t) = Listed(s) \cup {e}
  BY <1>1, <1>2 DEF Listed
<1>. QED  BY <1>1, <1>3, <1>4 DEF t

LEMMA DistinctFront ==
  ASSUME NEW S, NEW s \in Seq(S), s # <<>>, Distinct(s)
  PROVE  /\ Front(s) \in Seq(S) /\ Len(Front(s)) = Len(s) - 1
         /\ Last(s) \in S /\ Last(s) \in Listed(s)
         /\ Distinct(Front(s)) /\ Listed(Front(s)) = Listed(s) \ {Last(s)}
<1>. DEFINE t == Front(s)
<1>1. Len(s) \in Nat \ {0} /\ \A i \in 1 .. Len(s) : s[i] \in S
  BY EmptySeq, ElementOfSeq
<1>2. /\ t \in Seq(S) /\ Len(t) = Len(s) - 1 /\ \A i \in 1 .. Len(s) - 1 : t[i] = s[i]
  <2>. DEFINE n == Len(s) - 1
  <2>1. n \in Int /\ 1 \in Int /\ \A i \in 1 .. n : s[i] \in S
    BY <1>1
  <2>2. t = SubSeq(s, 1, n)
    BY DEF Front
  <2>3. /\ SubSeq(s, 1, n) \in Seq(S)
        /\ Len(SubSeq(s, 1, n)) = IF 1 <= n THEN n - 1 + 1 ELSE 0
        /\ \A i \in 1 .. n - 1 + 1 : SubSeq(s, 1, n)[i] = s[1 + i - 1]
    BY <2>1, SubSeqProperties
  <2>4. Len(SubSeq(s, 1, n)) = n /\ \A i \in 1 .. n : SubSeq(s, 1, n)[i] = s[i]
    <3>. HIDE DEF t
    <3>1. n \in Nat
      BY <1>1
    <3>. HIDE DEF n
    <3>2. 1 .. n - 1 + 1 = 1 .. n /\ \A i \in 1 .. n : 1 + i - 1 = i
      BY <3>1
    <3>. QED  BY <2>3, <3>1, <3>2
  <2>. HIDE DEF t
  <2>. QED  BY <2>2, <2>3, <2>4
<1>3. Last(s) = s[Len(s)]
  BY DEF Last
<1>. HIDE DEF t
<1>4. Distinct(t) /\ Listed(t) = Listed(s) \ {Last(s)}
  <2>1. \A i \in 1 .. Len(t) : i \in 1 .. Len(s) /\ i # Len(s) /\ t[i] = s[i]
    BY <1>1, <1>2
  <2>2. \A i \in 1 .. Len(s) : i = Len(s) \/ i \in 1 .. Len(t)
    BY <1>1, <1>2
  <2>3. Distinct(t)
    BY <2>1 DEF Distinct
  <2>4. Listed(t) \subseteq Listed(s) \ {Last(s)}
    BY <1>1, <1>3, <2>1 DEF Distinct, Listed
  <2>5. Listed(s) \ {Last(s)} \subseteq Listed(t)
    BY <1>3, <2>1, <2>2 DEF Listed
  <2>. QED  BY <2>3, <2>4, <2>5
<1>5. Last(s) \in S /\ Last(s) \in Listed(s)
  BY <1>1, <1>3 DEF Listed
<1>. QED  BY <1>2, <1>4, <1>5 DEF t

LEMMA DistinctTail ==
  ASSUME NEW S, NEW s \in Seq(S), s # <<>>, Distinct(s)
  PROVE  /\ Tail(s) \in Seq(S) /\ Len(Tail(s)) = Len(s) - 1
         /\ Head(s) \in S /\ Head(s) \in Listed(s)
         /\ Distinct(Tail(s)) /\ Listed(Tail(s)) = Listed(s) \ {Head(s)}
<1>. DEFINE t == Tail(s)
<1>1. Len(s) \in Nat \ {0} /\ Head(s) = s[1]
  BY EmptySeq
<1>2. /\ t \in Seq(S) /\ Len(t) = Len(s) - 1 /\ Head(s) \in S
      /\ \A i \in 1 .. Len(t) : t[i] = s[i + 1]
  BY HeadTailProperties
<1>. HIDE DEF t
<1>3. \A i \in 1 .. Len(t) : i + 1 \in 1 .. Len(s) /\ i + 1 # 1 /\ t[i] = s[i + 1]
  BY <1>1, <1>2
<1>4. \A i \in 1 .. Len(s) : i = 1 \/ (i - 1 \in 1 .. Len(t) /\ t[i - 1] = s[i])
  BY <1>1, <1>2
<1>5. Distinct(t)
  <2>. SUFFICES ASSUME NEW i \in 1 .. Len(t), NEW j \in 1 .. Len(t), t[i] = t[j]
                PROVE  i = j
    BY DEF Distinct
  <2>1. i + 1 = j + 1
    BY <1>3 DEF Distinct
  <2>. QED  BY <1>2, <2>1
<1>6. 1 \in 1 .. Len(s)
  BY <1>1
<1>7. Listed(t) \subseteq Listed(s) \ {Head(s)}
  BY <1>1, <1>3, <1>6 DEF Distinct, Listed
<1>8. Listed(s) \ {Head(s)} \subseteq Listed(t)
  BY <1>1, <1>4 DEF Listed
<1>. QED  BY <1>1, <1>2, <1>5, <1>6, <1>7, <1>8 DEF t, Listed

LEMMA DistinctBounded ==
  ASSUME NEW S, IsFiniteSet(S), NEW s \in Seq(S), Distinct(s)
  PROVE  Len(s) <= Cardinality(S)
<1>1. Len(s) \in Nat /\ s \in [1 .. Len(s) -> S]
  BY LenProperties
<1>2. s \in Injection(1 .. Len(s), S)
  BY <1>1 DEF Distinct, Injection, IsInjective
<1>4. Cardinality(1 .. Len(s)) <= Cardinality(S)
  BY <1>2, FS_Injection
<1>5. Cardinality(1 .. Len(s)) = Len(s)
  BY <1>1, FS_Interval, SMTT(30)
<1>. QED  BY <1>4, <1>5

-----------------------------------------------------------------------------
(***************************************************************************)
(* What a session holds, in three parts. Where the supervisor is:          *)
(***************************************************************************)
SuperOK ==
  /\ opt \in Options
  /\ pc \in {"dialing", "waiting", "probing", "checking", "binding", "attaching",
             "publishing", "ownBinding", "setup", "asking", "serving", "stopping",
             "closing", "unpublishing", "removing", "hangup", "returned"}
  /\ attempt \in 0 .. 2
  /\ status \in {"connecting", "reconnecting", "connected", "disconnected", "stopped"}
  /\ delay \in 1 .. MaxDelay /\ quit \in BOOLEAN
  /\ link \in {"none", "up", "blackholed", "lost"}
  /\ cause \in {"none", "nil", "failed"} \cup Fatal
  /\ tidying \in {"close", "test", "rm", "late"}

(***************************************************************************)
(* What it serves. Services are attached once each and in their order,     *)
(* sockets published once each and in that of the services; nothing is     *)
(* held before the first is attached or after the last is closed; and each *)
(* instance is where the supervisor is.                                    *)
(***************************************************************************)
Before == {"dialing", "waiting", "probing", "checking", "binding"}
Bare == Before \cup {"removing", "hangup", "returned"}
Upto(s, n) == {s[i] : i \in 1 .. n - 1}

ServedTyped ==
  /\ at \in 1 .. Len(Order) + 1
  /\ attached \in Seq(Service) /\ Distinct(attached)
  /\ own \in Seq(WithSocket) /\ Distinct(own)
  /\ life \in [Service -> {"none", "attached", "running", "returned"}]
  /\ background \in 0 .. 3 + Cardinality(WithSocket)
  /\ results \in 0 .. 3 + Cardinality(Service) + Cardinality(WithSocket)

HeldInTurn ==
  /\ pc \in Bare \cup {"unpublishing"} => attached = <<>>
  /\ pc \in Bare \cup {"attaching"} => own = <<>>
  /\ pc = "attaching" => Listed(attached) \subseteq Upto(Order, at)
  /\ pc \in {"publishing", "ownBinding"} =>
       at <= Len(attached) + 1 /\ Listed(own) \subseteq Upto(attached, at)
  /\ pc = "ownBinding" => at <= Len(attached) /\ attached[at] \in WithSocket

LivesInTurn ==
  \A s \in Service :
    /\ life[s] = "none" <=> s \notin Listed(attached)
    /\ pc \in {"serving", "stopping"} => life[s] # "attached"
    /\ pc = "closing" => life[s] \in {"none", "returned"}
    /\ pc \notin {"serving", "stopping", "closing"} => life[s] \in {"none", "attached"}

ServeOK == ServedTyped /\ HeldInTurn /\ LivesInTurn

(***************************************************************************)
(* What is on the remote: a socket of ours is one we publish over a link   *)
(* that is up, so that by the time the link is hung up there is none; and  *)
(* the path in hand, once its listener is closed, is not ours any more,    *)
(* nor anybody's from the test that found it unused until it is "late".    *)
(***************************************************************************)
OursArePublished ==
  \A p \in Path : file[p] = "us" =>
    /\ link = "up"
    /\ p \in Listed(own) \/ (p = Control /\ pc \notin Before \cup {"hangup", "returned"})

HandIsClosed ==
  tidying # "close" =>
    /\ Unpublishing /\ file[InHand] # "us"
    /\ tidying = "rm" => file[InHand] # "rival"

RemoteTyped ==
  /\ file \in [Path -> Holder \cup {"none", "dead", "orphan"}]
  /\ listening \in [Path -> SUBSET Holder]
  /\ \A p \in Path : file[p] \in Holder => file[p] \in listening[p]

RemoteOK == RemoteTyped /\ OursArePublished /\ NothingLeftBehind /\ HandIsClosed

SessionInv == SuperOK /\ ServeOK /\ RemoteOK

LEMMA InvIsTyped == SessionInv => SessionOK
BY DEF SessionInv, SuperOK, ServeOK, ServedTyped, RemoteOK, RemoteTyped, SessionOK,
       SessionTypeOK

(***************************************************************************)
(* There are as many services as the order names.                          *)
(***************************************************************************)
LEMMA ServicesAreFinite ==
  /\ Order \in Seq(Service) /\ Len(Order) \in Nat /\ Distinct(Order)
  /\ IsFiniteSet(Service) /\ Cardinality(Service) \in Nat
  /\ IsFiniteSet(WithSocket) /\ Cardinality(WithSocket) \in Nat
  /\ WithSocket \subseteq Service /\ Control \notin Service
<1>1. /\ Order \in Seq(Service) /\ Len(Order) \in Nat /\ DOMAIN Order = 1 .. Len(Order)
      /\ Order \in [1 .. Len(Order) -> Service]
  BY SessionAssumption, LenProperties
<1>2. Order \in Surjection(1 .. Len(Order), Service)
  BY <1>1, SessionAssumption DEF Surjection
<1>3. IsFiniteSet(Service)
  BY <1>1, <1>2, FS_Surjection, FS_Interval
<1>4. IsFiniteSet(WithSocket)
  BY <1>3, SessionAssumption, FS_Subset
<1>. QED  BY <1>1, <1>3, <1>4, SessionAssumption, FS_CardinalityType DEF Distinct

LEMMA ServicesInOrder == Cardinality(Service) <= Len(Order)
<1>1. Len(Order) \in Nat /\ Order \in [1 .. Len(Order) -> Service]
  BY SessionAssumption, LenProperties
<1>2. Order \in Surjection(1 .. Len(Order), Service)
  BY <1>1, SessionAssumption DEF Surjection
<1>3. IsFiniteSet(1 .. Len(Order)) /\ Cardinality(1 .. Len(Order)) = Len(Order)
  BY <1>1, FS_Interval, SMTT(30)
<1>. QED  BY <1>2, <1>3, FS_Surjection

LEMMA SuperStep ==
  ASSUME SuperOK, [SessionNext]_sessionVars
  PROVE  SuperOK'
<1>. USE SessionAssumption DEF SuperOK, Fatal, superVars
<1>1. CASE Connected \/ ConnectFails
  BY <1>1 DEF Connected, ConnectFails
<1>2. CASE Wait
  <2>1. NextDelay \in 1 .. MaxDelay
    BY DEF NextDelay
  <2>2. NextAttempt \in 0 .. 2
    BY DEF NextAttempt
  <2>. QED  BY <1>2, <2>1, <2>2 DEF Wait, Redial, serveVars
<1>3. CASE DialStops \/ WaitStops \/ HangUp
  BY <1>3 DEF DialStops, WaitStops, Stopped, HangUp, Return, GoOn, serveVars
<1>4. CASE Probed \/ Checked \/ Bound
  BY <1>4 DEF Probed, Checked, Bound, FailsWith, serveVars
<1>5. CASE Attach \/ Skip \/ AllAttached
  BY <1>5 DEF Attach, Skip, AllAttached
<1>6. CASE PublishNext \/ OwnBound \/ AllPublished \/ SetupAsks
  BY <1>6 DEF PublishNext, OwnBound, AllPublished, SetupAsks, OwnMoves
<1>7. CASE SetupDone \/ SetupCancelled \/ PersonAnswers
  BY <1>7 DEF SetupDone, SetupCancelled, PersonAnswers, Serve
<1>8. CASE StopsForQuit \/ Joined \/ CloseInstance \/ AllClosed
  BY <1>8 DEF StopsForQuit, Joined, CloseInstance, AllClosed, TearsDown
<1>9. CASE CloseListener \/ FoundUnused \/ LeftAlone \/ Removed \/ AllUnpublished
  BY <1>9 DEF CloseListener, FoundUnused, LeftAlone, Removed, PathDone, AllUnpublished,
              TearsDown, serveVars
<1>10. ASSUME NEW s \in Service, RunReturns(s)
       PROVE  SuperOK'
  BY <1>10 DEF RunReturns, Report
<1>11. CASE AcceptFails \/ KeepAliveFails \/ SocketMissing \/ Cancelled
  BY <1>11 DEF AcceptFails, KeepAliveFails, SocketMissing, Cancelled, Report,
               BackgroundReturns
<1>12. CASE Quit
  BY <1>12 DEF Quit, serveVars
<1>13. CASE WorldStep
  BY <1>13 DEF WorldStep, LinkReset, LinkSwallows, TransportGivesUp, SshdMissesUs, RivalBinds,
               RivalLeaves, World, serveVars
<1>14. CASE UNCHANGED sessionVars
  BY <1>14 DEF sessionVars, serveVars
<1>. QED  BY <1>1, <1>2, <1>3, <1>4, <1>5, <1>6, <1>7, <1>8, <1>9, <1>10, <1>11, <1>12,
             <1>13, <1>14 DEF SessionNext, Dials, Supervise, SetUpStep, TearDownStep

-----------------------------------------------------------------------------
(***************************************************************************)
(* What is served, step by step. While nothing is held, nothing is; and    *)
(* from the first Attach to the last Close each step keeps the turn.       *)
(***************************************************************************)
servedVars == <<at, attached, life, own, background, results>>

LEMMA NothingServed ==
  ASSUME ServeOK, UNCHANGED servedVars,
         \/ pc \in Bare /\ pc' \in Bare
         \/ UNCHANGED pc
  PROVE  ServeOK'
<1>1. ServedTyped'
  BY DEF ServeOK, ServedTyped, servedVars
<1>2. HeldInTurn'
  BY DEF ServeOK, HeldInTurn, servedVars, Bare, Before
<1>3. LivesInTurn'
  BY DEF ServeOK, LivesInTurn, servedVars, Bare, Before
<1>. QED  BY <1>1, <1>2, <1>3 DEF ServeOK

LEMMA BeforeServing ==
  ASSUME ServeOK, Connected \/ ConnectFails \/ Wait \/ DialStops \/ WaitStops \/ Quit
                  \/ HangUp \/ Probed \/ Checked \/ SetupAsks
  PROVE  ServeOK'
<1>. USE NothingServed DEF servedVars, serveVars, Bare, Before
<1>1. CASE Connected \/ ConnectFails \/ Wait \/ DialStops \/ WaitStops \/ Quit
  BY <1>1 DEF Connected, ConnectFails, Wait, Redial, DialStops, WaitStops, Stopped, Quit, Return
<1>2. CASE HangUp
  BY <1>2 DEF HangUp, Return
<1>3. CASE Probed \/ Checked
  BY <1>3 DEF Probed, Checked, FailsWith
<1>4. CASE SetupAsks
  <2>1. HeldInTurn' /\ LivesInTurn'
    BY <1>4 DEF SetupAsks, OwnMoves, ServeOK, HeldInTurn, LivesInTurn
  <2>2. ServedTyped'
    BY <1>4, ServicesAreFinite DEF SetupAsks, OwnMoves, ServeOK, ServedTyped
  <2>. QED  BY <2>1, <2>2 DEF ServeOK
<1>. QED  BY <1>1, <1>2, <1>3, <1>4

LEMMA AttachInTurn ==
  ASSUME ServeOK, Bound \/ Attach \/ Skip \/ AllAttached
  PROVE  ServeOK'
<1>0. /\ Order \in Seq(Service) /\ Len(Order) \in Nat /\ Distinct(Order)
      /\ \A i \in 1 .. Len(Order) : Order[i] \in Service
  BY ServicesAreFinite, ElementOfSeq
<1>. USE DEF ServeOK
<1>1. CASE Bound
  <2>1. CASE FailsWith("denied") \/ FailsWith("failed")
    BY <1>1, <2>1, NothingServed DEF Bound, FailsWith, servedVars, Bare, Before
  <2>2. CASE pc' = "attaching" /\ at' = 1
             /\ UNCHANGED <<attached, life, own, background, results, cause>>
    <3>1. ServedTyped'
      BY <2>2, <1>0 DEF ServedTyped
    <3>2. attached = <<>> /\ own = <<>> /\ pc = "binding"
      BY <1>1 DEF Bound, HeldInTurn, Bare, Before
    <3>3. HeldInTurn'
      BY <2>2, <3>2, EmptySeq DEF HeldInTurn, Bare, Before, Listed, Upto
    <3>4. LivesInTurn'
      BY <2>2, <3>2 DEF LivesInTurn
    <3>. QED  BY <3>1, <3>3, <3>4
  <2>. QED  BY <1>1, <2>1, <2>2 DEF Bound
<1>2. CASE Attach
  <2>1. /\ pc = "attaching" /\ pc' = "attaching" /\ at \in 1 .. Len(Order)
        /\ own = <<>> /\ Listed(attached) \subseteq Upto(Order, at)
        /\ attached \in Seq(Service) /\ Distinct(attached)
    BY <1>2, <1>0 DEF Attach, ServedTyped, HeldInTurn, Bare
  <2>2. Order[at] \in Service /\ Order[at] \notin Listed(attached)
    BY <2>1, <1>0, SMTT(30) DEF Upto, Distinct
  <2>3. /\ attached' \in Seq(Service) /\ Distinct(attached')
        /\ Listed(attached') = Listed(attached) \cup {Order[at]}
    BY <1>2, <2>1, <2>2, DistinctAppend DEF Attach
  <2>4. ServedTyped'
    BY <1>2, <1>0, <2>1, <2>2, <2>3 DEF Attach, ServedTyped
  <2>5. Upto(Order, at') = Upto(Order, at) \cup {Order[at]}
    BY <1>2, <2>1 DEF Attach, Upto
  <2>6. HeldInTurn'
    <3>1. Listed(attached') \subseteq Upto(Order, at')
      BY <2>1, <2>3, <2>5
    <3>. QED  BY <1>2, <2>1, <3>1 DEF Attach, HeldInTurn, Bare, Before, Upto
  <2>7. \A s \in Service : life'[s] = IF s = Order[at] THEN "attached" ELSE life[s]
    BY <1>2, <2>2 DEF Attach, ServedTyped
  <2>8. LivesInTurn'
    BY <2>1, <2>2, <2>3, <2>7 DEF LivesInTurn, Bare, Before
  <2>. QED  BY <2>4, <2>6, <2>8
<1>3. CASE Skip
  <2>1. ServedTyped'
    BY <1>3, <1>0 DEF Skip, ServedTyped
  <2>2. Upto(Order, at) \subseteq Upto(Order, at')
    BY <1>3, <1>0 DEF Skip, Upto, ServedTyped
  <2>3. HeldInTurn'
    BY <1>3, <2>2 DEF Skip, HeldInTurn, Bare, Before
  <2>4. LivesInTurn'
    BY <1>3 DEF Skip, LivesInTurn
  <2>. QED  BY <2>1, <2>3, <2>4
<1>4. CASE AllAttached
  <2>1. ServedTyped'
    BY <1>4, <1>0 DEF AllAttached, ServedTyped
  <2>2. own = <<>> /\ Len(attached) \in Nat
    BY <1>4, LenProperties DEF AllAttached, HeldInTurn, ServedTyped, Bare
  <2>3. HeldInTurn'
    BY <1>4, <2>2, EmptySeq DEF AllAttached, HeldInTurn, Bare, Before, Listed, Upto
  <2>4. LivesInTurn'
    BY <1>4 DEF AllAttached, LivesInTurn
  <2>. QED  BY <2>1, <2>3, <2>4
<1>. QED  BY <1>1, <1>2, <1>3, <1>4

LEMMA PublishInTurn ==
  ASSUME ServeOK, PublishNext \/ OwnBound \/ AllPublished
  PROVE  ServeOK'
<1>0. /\ Len(Order) \in Nat /\ Len(attached) \in Nat /\ Len(attached) <= Len(Order)
      /\ \A i \in 1 .. Len(attached) : attached[i] \in Service
  <2>1. attached \in Seq(Service) /\ Distinct(attached)
    BY DEF ServeOK, ServedTyped
  <2>2. Len(attached) <= Cardinality(Service) /\ Len(attached) \in Nat
    BY <2>1, DistinctBounded, ServicesAreFinite, LenProperties
  <2>3. Cardinality(Service) <= Len(Order)
    BY ServicesInOrder
  <2>. QED  BY <2>1, <2>2, <2>3, ServicesAreFinite, ElementOfSeq
<1>. USE DEF ServeOK
<1>1. CASE PublishNext
  <2>1. /\ pc = "publishing" /\ at \in 1 .. Len(attached) /\ attached[at] \in Service
        /\ UNCHANGED <<attached, life, own, background, results>>
        /\ \/ pc' = "publishing" /\ at' = at + 1
           \/ pc' = "ownBinding" /\ at' = at /\ attached[at] \in WithSocket
    BY <1>1, <1>0 DEF PublishNext, OwnMoves, ServedTyped
  <2>2. ServedTyped'
    BY <2>1, <1>0 DEF ServedTyped
  <2>3. Upto(attached, at) \subseteq Upto(attached', at')
    BY <2>1 DEF Upto
  <2>4. HeldInTurn'
    BY <2>1, <1>0, <2>3 DEF HeldInTurn, Bare, Before
  <2>5. LivesInTurn'
    BY <2>1 DEF LivesInTurn
  <2>. QED  BY <2>2, <2>4, <2>5
<1>2. CASE OwnBound
  <2>1. /\ pc = "ownBinding" /\ pc' = "publishing" /\ at' = at + 1
        /\ UNCHANGED <<attached, life, background, results>>
        /\ at \in 1 .. Len(attached) /\ attached[at] \in WithSocket
        /\ Listed(own) \subseteq Upto(attached, at)
    BY <1>2, <1>0 DEF OwnBound, OwnMoves, ServedTyped, HeldInTurn
  <2>2. Upto(attached', at') = Upto(attached, at) \cup {attached[at]}
    BY <2>1 DEF Upto
  <2>3. attached[at] \notin Listed(own)
    <3>1. Distinct(attached) /\ at - 1 < at /\ 1 .. at - 1 \subseteq 1 .. Len(attached)
      BY <2>1, <1>0 DEF ServedTyped
    <3>2. attached[at] \notin Upto(attached, at)
      BY <2>1, <1>0, <3>1 DEF Upto, Distinct
    <3>. QED  BY <2>1, <3>2
  <2>4. /\ own' \in Seq(WithSocket) /\ Distinct(own')
        /\ Listed(own') \subseteq Upto(attached', at')
    <3>1. CASE own' = Append(own, attached[at])
      BY <3>1, <2>1, <2>2, <2>3, DistinctAppend DEF ServedTyped
    <3>2. CASE UNCHANGED own
      BY <3>2, <2>1, <2>2 DEF ServedTyped, Listed, Distinct
    <3>. QED  BY <1>2, <3>1, <3>2 DEF OwnBound
  <2>5. ServedTyped'
    BY <2>1, <1>0, <2>4 DEF ServedTyped
  <2>6. HeldInTurn'
    BY <2>1, <1>0, <2>4 DEF HeldInTurn, Bare, Before
  <2>7. LivesInTurn'
    BY <2>1 DEF LivesInTurn
  <2>. QED  BY <2>5, <2>6, <2>7
<1>3. CASE AllPublished
  <2>1. ServedTyped'
    BY <1>3, <1>0 DEF AllPublished, OwnMoves, ServedTyped
  <2>2. HeldInTurn'
    BY <1>3 DEF AllPublished, OwnMoves, HeldInTurn, Bare, Before
  <2>3. LivesInTurn'
    BY <1>3 DEF AllPublished, OwnMoves, LivesInTurn
  <2>. QED  BY <2>1, <2>2, <2>3
<1>. QED  BY <1>1, <1>2, <1>3

(***************************************************************************)
(* Every Run, and every background goroutine, has a place in the channel.  *)
(***************************************************************************)
LEMMA PlacesAreBounded ==
  ASSUME ServeOK
  PROVE  /\ Len(attached) \in Nat /\ Len(own) \in Nat
         /\ Len(attached) <= Cardinality(Service) /\ Len(own) <= Cardinality(WithSocket)
<1>1. /\ attached \in Seq(Service) /\ Distinct(attached)
      /\ own \in Seq(WithSocket) /\ Distinct(own)
  BY DEF ServeOK, ServedTyped
<1>2. IsFiniteSet(Service) /\ IsFiniteSet(WithSocket)
  BY ServicesAreFinite
<1>3. Len(attached) <= Cardinality(Service)
  BY <1>1, <1>2, DistinctBounded
<1>4. Len(own) <= Cardinality(WithSocket)
  BY <1>1, <1>2, DistinctBounded
<1>. QED  BY <1>1, <1>3, <1>4, LenProperties

LEMMA ServeInTurn ==
  ASSUME ServeOK, SetupDone \/ PersonAnswers \/ SetupCancelled
  PROVE  ServeOK'
<1>1. Serve /\ pc \in {"setup", "asking"}
  BY DEF SetupDone, PersonAnswers, SetupCancelled
<1>2. Background \in 0 .. 3 + Cardinality(WithSocket)
  BY PlacesAreBounded, ServicesAreFinite DEF Background
<1>3. 0 \in 0 .. 3 + Cardinality(Service) + Cardinality(WithSocket)
  BY ServicesAreFinite
<1>4. \A s \in Service : life'[s] = IF life[s] = "attached" THEN "running" ELSE life[s]
  BY <1>1 DEF Serve
<1>5. life' \in [Service -> {"none", "attached", "running", "returned"}]
  BY <1>1 DEF Serve, ServeOK, ServedTyped
<1>6. ServedTyped'
  BY <1>1, <1>2, <1>3, <1>5 DEF Serve, ServeOK, ServedTyped
<1>7. HeldInTurn'
  BY <1>1 DEF Serve, ServeOK, HeldInTurn, Bare, Before
<1>8. LivesInTurn'
  BY <1>1, <1>4 DEF Serve, ServeOK, LivesInTurn
<1>. QED  BY <1>6, <1>7, <1>8 DEF ServeOK

LEMMA ReportInTurn ==
  ASSUME ServeOK, NEW why, Report(why), pc \in {"serving", "stopping"}
  PROVE  /\ results' \in 0 .. 3 + Cardinality(Service) + Cardinality(WithSocket)
         /\ pc' \in {"serving", "stopping"}
<1>1. Capacity <= 3 + Cardinality(Service) + Cardinality(WithSocket) /\ Capacity \in Nat
  BY PlacesAreBounded, ServicesAreFinite DEF Capacity
<1>2. Cardinality(Service) \in Nat /\ Cardinality(WithSocket) \in Nat
  BY ServicesAreFinite
<1>3. results \in 0 .. 3 + Cardinality(Service) + Cardinality(WithSocket)
  BY DEF ServeOK, ServedTyped
<1>. QED  BY <1>1, <1>2, <1>3 DEF Report

LEMMA RunsInTurn ==
  ASSUME ServeOK,
         \/ \E s \in Service : RunReturns(s)
         \/ AcceptFails \/ KeepAliveFails \/ SocketMissing \/ Cancelled \/ StopsForQuit
  PROVE  ServeOK'
<1>. USE DEF ServeOK
<1>1. ASSUME NEW s \in Service, RunReturns(s)
      PROVE  ServeOK'
  <2>1. life[s] = "running" /\ pc \in {"serving", "stopping"}
    BY <1>1 DEF RunReturns, Running, LivesInTurn
  <2>2. /\ results' \in 0 .. 3 + Cardinality(Service) + Cardinality(WithSocket)
        /\ pc' \in {"serving", "stopping"}
    BY <1>1, <2>1, ReportInTurn DEF RunReturns
  <2>3. /\ life' = [life EXCEPT ![s] = "returned"]
        /\ UNCHANGED <<at, attached, own, background>>
    BY <1>1 DEF RunReturns
  <2>4. ServedTyped'
    BY <2>2, <2>3 DEF ServedTyped
  <2>5. HeldInTurn'
    BY <2>2, <2>3 DEF HeldInTurn, Bare, Before
  <2>6. \A t \in Service : life'[t] = IF t = s THEN "returned" ELSE life[t]
    BY <2>3 DEF ServedTyped
  <2>7. LivesInTurn'
    BY <2>1, <2>2, <2>3, <2>6 DEF LivesInTurn
  <2>. QED  BY <2>4, <2>5, <2>7
<1>2. CASE AcceptFails \/ KeepAliveFails \/ SocketMissing \/ Cancelled
  <2>1. pc \in {"serving", "stopping"} /\ \E why : Report(why)
    BY <1>2 DEF AcceptFails, KeepAliveFails, SocketMissing, Cancelled
  <2>2. /\ results' \in 0 .. 3 + Cardinality(Service) + Cardinality(WithSocket)
        /\ pc' \in {"serving", "stopping"}
    BY <2>1, ReportInTurn
  <2>3. /\ background > 0 /\ background' = background - 1
        /\ UNCHANGED <<at, attached, life, own>>
    BY <1>2 DEF AcceptFails, KeepAliveFails, SocketMissing, Cancelled, BackgroundReturns
  <2>4. background' \in 0 .. 3 + Cardinality(WithSocket)
    BY <2>3, ServicesAreFinite DEF ServedTyped
  <2>5. ServedTyped'
    BY <2>2, <2>3, <2>4 DEF ServedTyped
  <2>6. HeldInTurn'
    BY <2>2, <2>3 DEF HeldInTurn, Bare, Before
  <2>7. LivesInTurn'
    BY <2>1, <2>2, <2>3 DEF LivesInTurn
  <2>. QED  BY <2>5, <2>6, <2>7
<1>3. CASE StopsForQuit
  <2>1. ServedTyped'
    BY <1>3 DEF StopsForQuit, ServedTyped
  <2>2. HeldInTurn'
    BY <1>3 DEF StopsForQuit, HeldInTurn, Bare, Before
  <2>3. LivesInTurn'
    BY <1>3 DEF StopsForQuit, LivesInTurn
  <2>. QED  BY <2>1, <2>2, <2>3
<1>. QED  BY <1>1, <1>2, <1>3

LEMMA TearDownInTurn ==
  ASSUME ServeOK, \/ Joined \/ CloseInstance \/ AllClosed \/ AllUnpublished
                  \/ CloseListener \/ FoundUnused \/ LeftAlone \/ Removed
  PROVE  ServeOK'
<1>. USE DEF ServeOK
<1>1. CASE Joined
  <2>1. ServedTyped'
    BY <1>1, ServicesAreFinite DEF Joined, TearsDown, ServedTyped
  <2>2. HeldInTurn'
    BY <1>1 DEF Joined, TearsDown, HeldInTurn, Bare, Before
  <2>3. LivesInTurn'
    BY <1>1 DEF Joined, TearsDown, AllReturned, Running, LivesInTurn, ServedTyped
  <2>. QED  BY <2>1, <2>2, <2>3
<1>2. CASE CloseInstance
  <2>1. /\ pc = "closing" /\ pc' = "closing" /\ attached # <<>>
        /\ attached \in Seq(Service) /\ Distinct(attached)
        /\ attached' = Front(attached) /\ life' = [life EXCEPT ![Last(attached)] = "none"]
        /\ UNCHANGED <<at, own, background, results>>
    BY <1>2 DEF CloseInstance, TearsDown, ServedTyped
  <2>2. /\ attached' \in Seq(Service) /\ Distinct(attached')
        /\ Last(attached) \in Service /\ Last(attached) \in Listed(attached)
        /\ Listed(attached') = Listed(attached) \ {Last(attached)}
    BY <2>1, DistinctFront
  <2>3. ServedTyped'
    BY <2>1, <2>2 DEF ServedTyped
  <2>4. HeldInTurn'
    BY <2>1 DEF HeldInTurn, Bare, Before
  <2>5. \A s \in Service : life'[s] = IF s = Last(attached) THEN "none" ELSE life[s]
    BY <2>1, <2>2 DEF ServedTyped
  <2>6. LivesInTurn'
    BY <2>1, <2>2, <2>5 DEF LivesInTurn
  <2>. QED  BY <2>3, <2>4, <2>6
<1>3. CASE AllClosed
  <2>1. ServedTyped'
    BY <1>3 DEF AllClosed, TearsDown, ServedTyped
  <2>2. HeldInTurn'
    BY <1>3 DEF AllClosed, TearsDown, HeldInTurn, Bare, Before
  <2>3. Listed(attached) = {}
    BY <1>3, EmptySeq DEF AllClosed, Listed
  <2>4. LivesInTurn'
    BY <1>3, <2>3 DEF AllClosed, TearsDown, LivesInTurn
  <2>. QED  BY <2>1, <2>2, <2>4
<1>4. CASE PathDone /\ Unpublishing
  <2>1. CASE pc = "unpublishing"
    <3>1. /\ pc' = "unpublishing" /\ own # <<>> /\ own' = Tail(own)
          /\ own \in Seq(WithSocket) /\ Distinct(own)
          /\ UNCHANGED <<at, attached, life, background, results>>
      BY <1>4, <2>1 DEF PathDone, Unpublishing, ServedTyped
    <3>2. own' \in Seq(WithSocket) /\ Distinct(own')
      BY <3>1, DistinctTail
    <3>3. ServedTyped'
      BY <3>1, <3>2 DEF ServedTyped
    <3>4. HeldInTurn'
      BY <2>1, <3>1 DEF HeldInTurn, Bare, Before
    <3>5. LivesInTurn'
      BY <2>1, <3>1 DEF LivesInTurn
    <3>. QED  BY <3>3, <3>4, <3>5
  <2>2. CASE pc = "removing"
    BY <1>4, <2>2, NothingServed DEF PathDone, servedVars, Bare
  <2>. QED  BY <1>4, <2>1, <2>2 DEF Unpublishing
<1>6. CASE LeftAlone \/ Removed
  BY <1>4, <1>6 DEF LeftAlone, Removed
<1>7. CASE CloseListener \/ FoundUnused
  BY <1>7, NothingServed DEF CloseListener, FoundUnused, servedVars, serveVars
<1>5. CASE AllUnpublished
  <2>1. ServedTyped'
    BY <1>5 DEF AllUnpublished, TearsDown, ServedTyped
  <2>2. HeldInTurn'
    BY <1>5 DEF AllUnpublished, TearsDown, HeldInTurn, Bare, Before
  <2>3. LivesInTurn'
    BY <1>5 DEF AllUnpublished, TearsDown, LivesInTurn
  <2>. QED  BY <2>1, <2>2, <2>3
<1>. QED  BY <1>1, <1>2, <1>3, <1>5, <1>6, <1>7

LEMMA ServeStep ==
  ASSUME ServeOK, [SessionNext]_sessionVars
  PROVE  ServeOK'
<1>1. CASE WorldStep \/ UNCHANGED sessionVars
  <2>1. UNCHANGED <<pc, servedVars>>
    BY <1>1 DEF WorldStep, LinkReset, LinkSwallows, TransportGivesUp, SshdMissesUs, RivalBinds,
                RivalLeaves, World, servedVars, serveVars, sessionVars
  <2>. QED  BY <2>1, NothingServed
<1>. QED  BY <1>1, BeforeServing, AttachInTurn, PublishInTurn, ServeInTurn, RunsInTurn,
             TearDownInTurn
          DEF SessionNext, Dials, Supervise, SetUpStep, TearDownStep

-----------------------------------------------------------------------------
(***************************************************************************)
(* What is on the remote, step by step. Where nothing is served, no socket *)
(* there is ours; elsewhere what is there is ours as long as it is         *)
(* published and the link holds.                                           *)
(***************************************************************************)
Unserved == Before \cup {"hangup", "returned"}

LEMMA NothingIsOurs ==
  ASSUME ServeOK, RemoteOK, pc \in Unserved
  PROVE  \A p \in Path : file[p] # "us"
<1>1. Listed(own) = {}
  BY EmptySeq DEF ServeOK, HeldInTurn, Bare, Unserved, Listed
<1>. QED  BY <1>1 DEF RemoteOK, OursArePublished, Unserved

LEMMA HandIsAPath ==
  ASSUME ServeOK, Unpublishing
  PROVE  InHand \in Path
BY DEF ServeOK, ServedTyped, Unpublishing, InHand, Path

(***************************************************************************)
(* The path in hand is disturbed only by what binds there, and by a step   *)
(* of its own; a dead socket only by a link that goes.                     *)
(***************************************************************************)
LEMMA HandKept ==
  ASSUME ServeOK, RemoteOK, UNCHANGED <<opt, tidying>>,
         ~Unpublishing \/ UNCHANGED <<pc, own>>,
         \A p \in Path : /\ file'[p] = "us" => file[p] = "us" \/ ~Unpublishing
                         /\ file'[p] = "rival" => file[p] = "rival"
                         /\ file'[p] = "dead" =>
                              /\ file[p] = "dead"
                              /\ UNCHANGED link \/ ~Unpublishing \/ link # "up"
  PROVE  HandIsClosed' /\ NothingLeftBehind'
<1>1. CASE ~Unpublishing
  <2>1. tidying = "close" /\ (opt.removes => \A p \in Path : file[p] # "dead")
    BY <1>1 DEF RemoteOK, HandIsClosed, NothingLeftBehind
  <2>. QED  BY <2>1 DEF HandIsClosed, NothingLeftBehind
<1>2. CASE Unpublishing /\ UNCHANGED <<pc, own>>
  <2>1. InHand' = InHand /\ Unpublishing' /\ InHand \in Path
    BY <1>2, HandIsAPath DEF InHand, Unpublishing
  <2>2. HandIsClosed'
    BY <1>2, <2>1 DEF RemoteOK, HandIsClosed
  <2>3. NothingLeftBehind'
    BY <1>2, <2>1 DEF RemoteOK, NothingLeftBehind
  <2>. QED  BY <2>2, <2>3
<1>. QED  BY <1>1, <1>2

LEMMA RemoteKept ==
  ASSUME ServeOK, RemoteOK, UNCHANGED <<opt, tidying, remoteVars>>,
         pc \in Unserved \/ (UNCHANGED <<link, own>> /\ pc' \notin Unserved),
         ~Unpublishing \/ UNCHANGED <<pc, own, link>>
  PROVE  RemoteOK'
<1>1. OursArePublished'
  <2>1. CASE pc \in Unserved
    BY <2>1, NothingIsOurs DEF OursArePublished, remoteVars
  <2>2. CASE UNCHANGED <<link, own>> /\ pc' \notin Unserved
    BY <2>2 DEF RemoteOK, OursArePublished, remoteVars, Unserved
  <2>. QED  BY <2>1, <2>2
<1>2. HandIsClosed' /\ NothingLeftBehind'
  BY HandKept DEF remoteVars
<1>. QED  BY <1>1, <1>2 DEF RemoteOK, RemoteTyped, remoteVars

LEMMA DropKeeps ==
  ASSUME RemoteTyped, NEW who \in Holder, NEW left \in {"none", "orphan", "dead"},
         DropListeners(who, left)
  PROVE  /\ RemoteTyped'
         /\ \A p \in Path : file'[p] = IF file[p] = who THEN left ELSE file[p]
<1>. USE DEF RemoteTyped, Holder
<1>1. \A p \in Path : /\ listening'[p] = listening[p] \ {who}
                      /\ file'[p] = IF file[p] = who THEN left ELSE file[p]
  BY DEF DropListeners
<1>2. file' \in [Path -> Holder \cup {"none", "dead", "orphan"}]
  BY DEF DropListeners
<1>3. listening' \in [Path -> SUBSET Holder]
  BY DEF DropListeners
<1>. QED  BY <1>1, <1>2, <1>3

LEMMA BindKeeps ==
  ASSUME RemoteTyped, NEW p \in Path, NEW who \in Holder,
         file' = [file EXCEPT ![p] = who],
         listening' = [listening EXCEPT ![p] = @ \cup {who}]
  PROVE  /\ RemoteTyped'
         /\ \A q \in Path : file'[q] = IF q = p THEN who ELSE file[q]
<1>. USE DEF RemoteTyped, Holder
<1>1. \A q \in Path : /\ listening'[q] = IF q = p THEN listening[q] \cup {who} ELSE listening[q]
                      /\ file'[q] = IF q = p THEN who ELSE file[q]
  OBVIOUS
<1>2. file' \in [Path -> Holder \cup {"none", "dead", "orphan"}]
  OBVIOUS
<1>3. listening' \in [Path -> SUBSET Holder]
  OBVIOUS
<1>. QED  BY <1>1, <1>2, <1>3

LEMMA ClearKeeps ==
  ASSUME RemoteTyped, NEW p \in Path, NEW left \in {"none", "orphan"},
         file' = [file EXCEPT ![p] = left], UNCHANGED listening
  PROVE  /\ RemoteTyped'
         /\ \A q \in Path : file'[q] = IF q = p THEN left ELSE file[q]
<1>. USE DEF RemoteTyped, Holder
<1>1. \A q \in Path : file'[q] = IF q = p THEN left ELSE file[q]
  OBVIOUS
<1>2. file' \in [Path -> Holder \cup {"none", "dead", "orphan"}]
  OBVIOUS
<1>. QED  BY <1>1, <1>2

(***************************************************************************)
(* A publication that fails, where nothing is being unpublished.           *)
(***************************************************************************)
LEMMA FailureKeeps ==
  ASSUME RemoteTyped, NEW p \in Path,
         \/ BindFails(p)
         \/ file' = [file EXCEPT ![p] = "none"] /\ UNCHANGED listening
  PROVE  /\ RemoteTyped'
         /\ \A q \in Path : file'[q] = file[q] \/ file'[q] \in {"none", "orphan", "ghost"}
<1>1. CASE UNCHANGED remoteVars
  BY <1>1 DEF remoteVars, RemoteTyped
<1>2. ASSUME NEW left \in {"none", "orphan"},
             file' = [file EXCEPT ![p] = left], UNCHANGED listening
      PROVE  /\ RemoteTyped'
             /\ \A q \in Path : file'[q] = file[q] \/ file'[q] \in {"none", "orphan", "ghost"}
  BY <1>2, ClearKeeps
<1>3. CASE /\ file' = [file EXCEPT ![p] = "ghost"]
           /\ listening' = [listening EXCEPT ![p] = @ \cup {"ghost"}]
  <2>1. "ghost" \in Holder
    BY DEF Holder
  <2>2. /\ RemoteTyped'
        /\ \A q \in Path : file'[q] = IF q = p THEN "ghost" ELSE file[q]
    BY <1>3, <2>1, BindKeeps
  <2>. QED  BY <2>2
<1>4. CASE file' = file /\ UNCHANGED listening
  BY <1>1, <1>4 DEF remoteVars
<1>5. CASE file' = [file EXCEPT ![p] = "none"] /\ UNCHANGED listening
  BY <1>2, <1>5
<1>6. CASE file' = [file EXCEPT ![p] = "orphan"] /\ UNCHANGED listening
  BY <1>2, <1>6
<1>. QED  BY <1>3, <1>4, <1>5, <1>6 DEF BindFails

LEMMA HauntKeeps ==
  ASSUME ServeOK, RemoteOK, UNCHANGED <<opt, pc, own, tidying>>, Haunt
  PROVE  RemoteOK'
<1>0. RemoteTyped
  BY DEF RemoteOK
<1>1. \A p \in Path :
        /\ listening'[p] = IF "us" \in listening[p]
                           THEN (listening[p] \ {"us"}) \cup {"ghost"}
                           ELSE listening[p]
        /\ file'[p] = IF file[p] = "us" THEN "ghost"
                      ELSE IF file[p] = "dead" THEN "orphan" ELSE file[p]
  BY DEF Haunt
<1>2. file' \in [Path -> Holder \cup {"none", "dead", "orphan"}]
  BY <1>0 DEF Haunt, Holder, RemoteTyped
<1>3. listening' \in [Path -> SUBSET Holder]
  BY <1>0 DEF Haunt, Holder, RemoteTyped
<1>4. HandIsClosed' /\ NothingLeftBehind'
  BY <1>1, HandKept
<1>5. RemoteTyped'
  BY <1>0, <1>1, <1>2, <1>3 DEF Holder, RemoteTyped
<1>6. OursArePublished'
  BY <1>1 DEF OursArePublished
<1>. QED  BY <1>4, <1>5, <1>6 DEF RemoteOK

LEMMA RivalKeeps ==
  ASSUME ServeOK, RemoteOK, NEW p \in Path, RivalBinds(p)
  PROVE  RemoteOK'
<1>0. /\ UNCHANGED <<opt, pc, own, link>>
      /\ tidying' = IF tidying = "rm" /\ p = InHand THEN "late" ELSE tidying
  BY DEF RivalBinds, serveVars
<1>1. RemoteTyped' /\ \A q \in Path : file'[q] = IF q = p THEN "rival" ELSE file[q]
  BY BindKeeps DEF RivalBinds, RemoteOK, Holder
<1>2. InHand' = InHand /\ Unpublishing' = Unpublishing /\ (Unpublishing => InHand \in Path)
  BY <1>0, HandIsAPath DEF InHand, Unpublishing
<1>3. HandIsClosed'
  BY <1>0, <1>1, <1>2 DEF RemoteOK, HandIsClosed
<1>4. NothingLeftBehind'
  BY <1>0, <1>1, <1>2 DEF RemoteOK, NothingLeftBehind
<1>5. OursArePublished'
  BY <1>0, <1>1 DEF RemoteOK, OursArePublished
<1>. QED  BY <1>1, <1>3, <1>4, <1>5 DEF RemoteOK

(***************************************************************************)
(* The path in hand: closed, it is not ours; done with, it is not dead on  *)
(* a box that removes, and the next one is to be closed.                   *)
(***************************************************************************)
LEMMA CloseKeeps ==
  ASSUME ServeOK, RemoteOK, CloseListener
  PROVE  RemoteOK'
<1>0. /\ Unpublishing /\ tidying' = "test" /\ UNCHANGED <<opt, pc, own, link>>
      /\ InHand' = InHand /\ Unpublishing' /\ InHand \in Path
  BY HandIsAPath DEF CloseListener, serveVars, InHand, Unpublishing
<1>1. CASE link # "up"
  <2>1. UNCHANGED remoteVars /\ \A p \in Path : file[p] # "us"
    BY <1>1 DEF CloseListener, RemoteOK, OursArePublished
  <2>2. opt.removes => \A p \in Path : file[p] # "dead"
    BY <1>1 DEF RemoteOK, NothingLeftBehind
  <2>. QED  BY <1>0, <2>1, <2>2
            DEF RemoteOK, RemoteTyped, OursArePublished, HandIsClosed, NothingLeftBehind,
                remoteVars
<1>2. CASE link = "up"
  <2>0. /\ listening' = [listening EXCEPT ![InHand] = @ \ {"us"}]
        /\ file' = [file EXCEPT ![InHand] = IF @ = "us" THEN "dead" ELSE @]
    BY <1>2 DEF CloseListener
  <2>1. \A q \in Path :
          /\ listening'[q] = IF q = InHand THEN listening[q] \ {"us"} ELSE listening[q]
          /\ file'[q] = IF q = InHand /\ file[q] = "us" THEN "dead" ELSE file[q]
    BY <2>0 DEF RemoteOK, RemoteTyped
  <2>2. /\ file' \in [Path -> Holder \cup {"none", "dead", "orphan"}]
        /\ listening' \in [Path -> SUBSET Holder]
    BY <2>0 DEF Holder, RemoteOK, RemoteTyped
  <2>3. RemoteTyped'
    BY <2>1, <2>2 DEF RemoteOK, RemoteTyped, Holder
  <2>4. HandIsClosed'
    BY <1>0, <2>1 DEF HandIsClosed
  <2>5. NothingLeftBehind'
    BY <1>0, <1>2, <2>1 DEF RemoteOK, NothingLeftBehind
  <2>6. OursArePublished'
    BY <1>0, <2>1 DEF RemoteOK, OursArePublished
  <2>. QED  BY <2>3, <2>4, <2>5, <2>6 DEF RemoteOK
<1>. QED  BY <1>1, <1>2

LEMMA FoundKeeps ==
  ASSUME ServeOK, RemoteOK, FoundUnused
  PROVE  RemoteOK'
<1>0. /\ Unpublishing /\ tidying = "test" /\ tidying' = "rm"
      /\ UNCHANGED <<opt, pc, own, link, remoteVars>>
      /\ InHand' = InHand /\ Unpublishing' /\ file[InHand] \in {"dead", "orphan"}
  BY DEF FoundUnused, serveVars, InHand, Unpublishing, Removable
<1>1. HandIsClosed'
  BY <1>0 DEF HandIsClosed, remoteVars
<1>2. NothingLeftBehind'
  BY <1>0 DEF RemoteOK, NothingLeftBehind, remoteVars
<1>. QED  BY <1>0, <1>1, <1>2 DEF RemoteOK, RemoteTyped, OursArePublished, remoteVars

LEMMA DoneKeeps ==
  ASSUME ServeOK, RemoteOK, RemoteTyped', Unpublishing, tidying # "close", PathDone,
         \A p \in Path : file'[p] = file[p] \/ (p = InHand /\ file'[p] = "none"),
         opt.removes => file'[InHand] # "dead"
  PROVE  RemoteOK'
<1>0. /\ tidying' = "close" /\ UNCHANGED <<opt, link>> /\ InHand \in Path
      /\ file[InHand] # "us"
  BY HandIsAPath DEF PathDone, RemoteOK, HandIsClosed
<1>1. HandIsClosed'
  BY <1>0 DEF HandIsClosed
<1>2. opt.removes => \A p \in Path : file'[p] # "dead"
  BY DEF RemoteOK, NothingLeftBehind
<1>3. NothingLeftBehind'
  BY <1>0, <1>2 DEF NothingLeftBehind
<1>4. OursArePublished'
  <2>. SUFFICES ASSUME NEW p \in Path, file'[p] = "us"
                PROVE  /\ link' = "up"
                       /\ \/ p \in Listed(own')
                          \/ p = Control /\ pc' \notin Before \cup {"hangup", "returned"}
    BY DEF OursArePublished
  <2>1. file[p] = "us" /\ p # InHand
    BY <1>0
  <2>2. link = "up" /\ (p \in Listed(own) \/ p = Control)
    BY <2>1 DEF RemoteOK, OursArePublished
  <2>3. CASE pc = "unpublishing"
    <3>1. own # <<>> /\ own' = Tail(own) /\ pc' = pc /\ InHand = Head(own)
      BY <2>3 DEF PathDone, Unpublishing, InHand
    <3>2. Listed(own') = Listed(own) \ {Head(own)}
      BY <3>1, DistinctTail DEF ServeOK, ServedTyped
    <3>. QED  BY <1>0, <2>1, <2>2, <2>3, <3>1, <3>2 DEF Before
  <2>4. CASE pc = "removing"
    <3>1. InHand = Control /\ Listed(own) = {}
      BY <2>4, EmptySeq DEF InHand, ServeOK, HeldInTurn, Bare, Listed
    <3>. QED  BY <2>1, <2>2, <3>1
  <2>. QED  BY <2>3, <2>4 DEF Unpublishing
<1>. QED  BY <1>1, <1>3, <1>4 DEF RemoteOK

LEMMA LeftKeeps ==
  ASSUME ServeOK, RemoteOK, LeftAlone
  PROVE  RemoteOK'
<1>1. /\ Unpublishing /\ tidying = "test" /\ PathDone /\ UNCHANGED remoteVars
      /\ link # "up" \/ ~Removable(InHand)
  BY DEF LeftAlone
<1>2. opt.removes => file[InHand] # "dead"
  BY <1>1, HandIsAPath DEF RemoteOK, NothingLeftBehind, Removable
<1>3. RemoteTyped'
  BY <1>1 DEF RemoteOK, RemoteTyped, remoteVars
<1>. QED  BY <1>1, <1>2, <1>3, DoneKeeps DEF remoteVars

LEMMA RemovedKeeps ==
  ASSUME ServeOK, RemoteOK, Removed
  PROVE  RemoteOK'
<1>0. /\ Unpublishing /\ tidying # "close" /\ PathDone /\ InHand \in Path
      /\ UNCHANGED listening
  BY HandIsAPath DEF Removed
<1>1. CASE file' = [file EXCEPT ![InHand] = "none"]
  <2>1. RemoteTyped' /\ \A q \in Path : file'[q] = IF q = InHand THEN "none" ELSE file[q]
    BY <1>0, <1>1, ClearKeeps DEF RemoteOK
  <2>. QED  BY <1>0, <2>1, DoneKeeps
<1>2. CASE link = "lost" /\ UNCHANGED file
  <2>1. opt.removes => file'[InHand] # "dead"
    BY <1>0, <1>2 DEF RemoteOK, NothingLeftBehind
  <2>2. RemoteTyped'
    BY <1>0, <1>2 DEF RemoteOK, RemoteTyped
  <2>. QED  BY <1>0, <1>2, <2>1, <2>2, DoneKeeps
<1>. QED  BY <1>1, <1>2 DEF Removed

LEMMA RemoteStep ==
  ASSUME SuperOK, ServeOK, RemoteOK, [SessionNext]_sessionVars, ServeOK'
  PROVE  RemoteOK'
<1>. USE DEF Before, Unserved
<1>0. /\ Control \in Path /\ \A i \in 1 .. Len(own) : own[i] \in Path
      /\ RemoteTyped /\ OursArePublished
  BY ElementOfSeq DEF Path, ServeOK, ServedTyped, RemoteOK
<1>1. CASE Connected \/ ConnectFails \/ Wait \/ DialStops \/ WaitStops \/ Probed \/ Checked
  <2>1. pc \in Unserved /\ UNCHANGED <<opt, tidying, remoteVars>> /\ ~Unpublishing
    BY <1>1 DEF Connected, ConnectFails, Wait, DialStops, WaitStops, Stopped, Probed, Checked,
                superVars, Unpublishing
  <2>. QED  BY <2>1, RemoteKept
<1>2. CASE Bound
  <2>0. /\ UNCHANGED <<opt, tidying, link, own>> /\ pc = "binding" /\ ~Unpublishing
        /\ \A p \in Path : file[p] # "us"
    BY <1>2, NothingIsOurs DEF Bound, superVars, FailsWith, Unpublishing
  <2>1. CASE Bind(Control) /\ pc' = "attaching" /\ link = "up"
    <3>1. RemoteTyped' /\ \A q \in Path : file'[q] = IF q = Control THEN "us" ELSE file[q]
      BY <1>0, <2>1, BindKeeps DEF Bind, Holder
    <3>2. HandIsClosed' /\ NothingLeftBehind'
      BY <2>0, <3>1, HandKept
    <3>3. OursArePublished'
      BY <2>0, <2>1, <3>1 DEF OursArePublished
    <3>. QED  BY <3>1, <3>2, <3>3 DEF RemoteOK
  <2>2. CASE \/ BindFails(Control)
             \/ file' = [file EXCEPT ![Control] = "none"] /\ UNCHANGED listening
    <3>1. /\ RemoteTyped'
          /\ \A q \in Path : file'[q] = file[q] \/ file'[q] \in {"none", "orphan", "ghost"}
      BY <1>0, <2>2, FailureKeeps
    <3>2. HandIsClosed' /\ NothingLeftBehind'
      BY <2>0, <3>1, HandKept
    <3>3. OursArePublished'
      BY <2>0, <3>1 DEF OursArePublished
    <3>. QED  BY <3>1, <3>2, <3>3 DEF RemoteOK
  <2>. QED  BY <1>2, <2>1, <2>2 DEF Bound, Answers
<1>3. CASE OwnBound
  <2>0. /\ UNCHANGED <<opt, tidying, link>> /\ pc = "ownBinding" /\ pc' = "publishing"
        /\ attached[at] \in WithSocket /\ attached[at] \in Path /\ ~Unpublishing
    BY <1>3 DEF OwnBound, OwnMoves, superVars, ServeOK, HeldInTurn, Path, Unpublishing
  <2>1. CASE Answers /\ Bind(attached[at]) /\ own' = Append(own, attached[at])
    <3>1. Listed(own') = Listed(own) \cup {attached[at]}
      <4>1. own \in Seq(WithSocket)
        BY DEF ServeOK, ServedTyped
      <4>. HIDE <1>0
      <4>2. /\ Len(own) \in Nat /\ Len(own') = Len(own) + 1 /\ own'[Len(own) + 1] = attached[at]
            /\ \A i \in 1 .. Len(own) : own'[i] = own[i]
        BY <2>0, <2>1, <4>1, AppendProperties, LenProperties
      <4>3. \A i \in 1 .. Len(own') : i \in 1 .. Len(own) \/ i = Len(own) + 1
        BY <4>2
      <4>4. Len(own) + 1 \in 1 .. Len(own') /\ 1 .. Len(own) \subseteq 1 .. Len(own')
        BY <4>2
      <4>. QED  BY <4>2, <4>3, <4>4 DEF Listed
    <3>2. /\ RemoteTyped'
          /\ \A q \in Path : file'[q] = IF q = attached[at] THEN "us" ELSE file[q]
      BY <1>0, <2>0, <2>1, BindKeeps DEF Bind, Holder
    <3>3. OursArePublished'
      BY <1>0, <2>0, <2>1, <3>1, <3>2 DEF OursArePublished, Answers
    <3>4. HandIsClosed' /\ NothingLeftBehind'
      BY <2>0, <3>2, HandKept
    <3>. QED  BY <3>2, <3>3, <3>4 DEF RemoteOK
  <2>2. CASE BindFails(attached[at]) /\ UNCHANGED own
    <3>1. /\ RemoteTyped'
          /\ \A q \in Path : file'[q] = file[q] \/ file'[q] \in {"none", "orphan", "ghost"}
      BY <1>0, <2>0, <2>2, FailureKeeps
    <3>2. HandIsClosed' /\ NothingLeftBehind'
      BY <2>0, <3>1, HandKept
    <3>3. OursArePublished'
      BY <1>0, <2>0, <2>2, <3>1 DEF OursArePublished
    <3>. QED  BY <3>1, <3>2, <3>3 DEF RemoteOK
  <2>. QED  BY <1>3, <2>1, <2>2 DEF OwnBound
<1>4. CASE CloseListener \/ FoundUnused \/ LeftAlone \/ Removed
  BY <1>4, CloseKeeps, FoundKeeps, LeftKeeps, RemovedKeeps
<1>5. CASE Quit
  <2>1. UNCHANGED <<pc, own, link, opt, tidying, remoteVars>>
    BY <1>5 DEF Quit, serveVars
  <2>. QED  BY <2>1, RemoteKept
<1>6. CASE HangUp
  <2>1. /\ pc = "hangup" /\ UNCHANGED <<opt, tidying>> /\ DropListeners("us", "dead")
        /\ ~Unpublishing /\ \A p \in Path : file[p] # "us"
    BY <1>6, NothingIsOurs DEF HangUp, Unpublishing
  <2>2. RemoteTyped' /\ \A p \in Path : file'[p] = file[p]
    BY <1>0, <2>1, DropKeeps DEF Holder
  <2>3. HandIsClosed' /\ NothingLeftBehind'
    BY <2>1, <2>2, HandKept
  <2>. QED  BY <2>1, <2>2, <2>3 DEF RemoteOK, OursArePublished
<1>7. CASE WorldStep
  <2>1. CASE LinkReset \/ LinkSwallows
    BY <2>1, HauntKeeps DEF LinkReset, LinkSwallows, World, superVars, serveVars
  <2>2. CASE TransportGivesUp
    <3>1. /\ link = "blackholed" /\ UNCHANGED <<pc, opt, own, tidying, remoteVars>>
      BY <2>2 DEF TransportGivesUp, World, superVars, serveVars
    <3>2. \A p \in Path : file[p] # "us"
      BY <1>0, <3>1 DEF OursArePublished
    <3>3. HandIsClosed' /\ NothingLeftBehind'
      BY <3>1, HandKept DEF remoteVars
    <3>. QED  BY <3>1, <3>2, <3>3 DEF RemoteOK, RemoteTyped, OursArePublished, remoteVars
  <2>3. CASE SshdMissesUs \/ RivalLeaves
    <3>1. PICK who \in {"ghost", "rival"}, left \in {"none", "orphan"} :
            DropListeners(who, left)
      BY <2>3 DEF SshdMissesUs, RivalLeaves
    <3>2. UNCHANGED <<pc, opt, own, tidying, link>>
      BY <2>3 DEF SshdMissesUs, RivalLeaves, World, superVars, serveVars
    <3>3. /\ RemoteTyped'
          /\ \A p \in Path : file'[p] = IF file[p] = who THEN left ELSE file[p]
      BY <1>0, <3>1, DropKeeps DEF Holder
    <3>4. HandIsClosed' /\ NothingLeftBehind'
      BY <3>2, <3>3, HandKept
    <3>5. OursArePublished'
      BY <1>0, <3>2, <3>3 DEF OursArePublished
    <3>. QED  BY <3>3, <3>4, <3>5 DEF RemoteOK
  <2>4. ASSUME NEW p \in Path, RivalBinds(p)
        PROVE  RemoteOK'
    BY <2>4, RivalKeeps
  <2>. QED  BY <1>7, <2>1, <2>2, <2>3, <2>4 DEF WorldStep
<1>8. CASE \/ Attach \/ Skip \/ AllAttached \/ PublishNext \/ AllPublished \/ SetupAsks
           \/ SetupDone \/ SetupCancelled \/ PersonAnswers
  <2>1. /\ UNCHANGED <<link, own, opt, tidying, remoteVars>> /\ pc' \notin Unserved
        /\ ~Unpublishing
    BY <1>8 DEF Attach, Skip, AllAttached, PublishNext, AllPublished, SetupAsks, OwnMoves,
                SetupDone, SetupCancelled, PersonAnswers, Serve, superVars, Unpublishing
  <2>. QED  BY <2>1, RemoteKept
<1>9. CASE Joined \/ CloseInstance \/ AllClosed \/ AllUnpublished \/ StopsForQuit
  <2>1. /\ UNCHANGED <<link, own, opt, tidying, remoteVars>> /\ pc' \notin Unserved
        /\ ~Unpublishing
    BY <1>9 DEF Joined, CloseInstance, AllClosed, AllUnpublished, TearsDown, StopsForQuit,
                superVars, Unpublishing
  <2>. QED  BY <2>1, RemoteKept
<1>10. CASE \/ \E s \in Service : RunReturns(s)
            \/ AcceptFails \/ KeepAliveFails \/ SocketMissing \/ Cancelled
  <2>1. /\ UNCHANGED <<link, own, opt, tidying, remoteVars>>
        /\ (pc = "serving" /\ pc' = "stopping") \/ UNCHANGED pc
    BY <1>10 DEF RunReturns, AcceptFails, KeepAliveFails, SocketMissing, Cancelled, Report,
                 BackgroundReturns, superVars
  <2>. QED  BY <2>1, RemoteKept DEF Unpublishing
<1>11. CASE UNCHANGED sessionVars
  BY <1>11, RemoteKept DEF sessionVars, superVars, serveVars
<1>. QED  BY <1>1, <1>2, <1>3, <1>4, <1>5, <1>6, <1>7, <1>8, <1>9, <1>10, <1>11
          DEF SessionNext, Dials, Supervise, SetUpStep, TearDownStep

LEMMA SessionStarts ==
  ASSUME SessionInit
  PROVE  SessionInv
<1>1. SuperOK
  <2>1. 1 \in 1 .. MaxDelay /\ 1 \in 0 .. 2
    BY SessionAssumption
  <2>. QED  BY <2>1 DEF SessionInit, SuperOK
<1>2. ServeOK
  BY ServicesAreFinite, EmptySeq
     DEF SessionInit, ServeOK, ServedTyped, HeldInTurn, LivesInTurn, Listed, Distinct, Before,
         Bare
<1>3. RemoteOK
  BY DEF SessionInit, RemoteOK, RemoteTyped, OursArePublished, NothingLeftBehind,
         HandIsClosed, Holder
<1>. QED  BY <1>1, <1>2, <1>3 DEF SessionInv

LEMMA SessionKeeps == SessionSpec => []SessionInv
<1>1. SessionInit => SessionInv
  BY SessionStarts
<1>2. SessionInv /\ [SessionNext]_sessionVars => SessionInv'
  BY SuperStep, ServeStep, RemoteStep DEF SessionInv
<1>. QED  BY <1>1, <1>2, PTL DEF SessionSpec

(***************************************************************************)
(* Whatever the link, sshd and the other devtun do, a session's types hold *)
(* and it leaves no dead socket on a box where it can remove one: closing  *)
(* a listener makes a socket of ours a dead one, which stays in hand until *)
(* it is removed, and by the time the link is hung up none is ours.        *)
(***************************************************************************)
THEOREM SessionIsOK == SessionSpec => []SessionOK
BY SessionKeeps, InvIsTyped, PTL

(***************************************************************************)
(* A session that leaves, at whatever moment, does not remove the socket   *)
(* of a devtun that had taken over from it when it asked: what it found    *)
(* unused is nobody's until a rival binds it, and that one is late; and    *)
(* hanging up turns only what is ours.                                     *)
(***************************************************************************)
THEOREM RivalsStay == SessionSpec => RivalsAreNotRemoved
<1>. DEFINE Stays == \A p \in Path :
       file[p] = "rival" /\ file'[p] # "rival" /\ "rival" \in listening'[p]
         => pc \in {"binding", "ownBinding"} \/ (tidying = "late" /\ p = InHand)
<1>1. ASSUME SessionInv, [SessionNext]_sessionVars
      PROVE  Stays
  <2>. SUFFICES ASSUME NEW p \in Path, file[p] = "rival", file'[p] # "rival",
                       "rival" \in listening'[p], pc \notin {"binding", "ownBinding"},
                       ~(tidying = "late" /\ p = InHand)
                PROVE  FALSE
    OBVIOUS
  <2>0. /\ file \in [Path -> Holder \cup {"none", "dead", "orphan"}]
        /\ listening \in [Path -> SUBSET Holder]
    BY <1>1 DEF SessionInv, RemoteOK, RemoteTyped
  <2>1. CASE UNCHANGED file
    BY <2>1
  <2>2. CASE CloseListener
    BY <2>0, <2>2 DEF CloseListener, remoteVars
  <2>3. CASE \E who \in {"us", "ghost"}, left \in {"dead", "orphan"} : DropListeners(who, left)
    BY <2>3 DEF DropListeners
  <2>4. CASE Haunt
    BY <2>4 DEF Haunt
  <2>5. CASE \E q \in Path : RivalBinds(q)
    BY <2>0, <2>5 DEF RivalBinds
  <2>6. CASE RivalLeaves
    BY <2>6 DEF RivalLeaves, DropListeners
  <2>7. CASE Removed
    <3>1. p = InHand
      BY <2>0, <2>7 DEF Removed
    <3>2. tidying = "rm"
      BY <2>7, <3>1 DEF Removed
    <3>. QED  BY <1>1, <3>1, <3>2 DEF SessionInv, RemoteOK, HandIsClosed
  <2>8. CASE FoundUnused \/ LeftAlone
    BY <2>8, <2>1 DEF FoundUnused, LeftAlone, remoteVars
  <2>9. CASE HangUp
    BY <2>9, <2>3 DEF HangUp
  <2>10. CASE WorldStep
    BY <2>10, <2>1, <2>3, <2>4, <2>5, <2>6
       DEF WorldStep, LinkReset, LinkSwallows, TransportGivesUp, SshdMissesUs, remoteVars
  <2>11. CASE \/ Connected \/ ConnectFails \/ Wait \/ DialStops \/ WaitStops \/ Quit \/ Probed
              \/ Checked \/ Attach \/ Skip \/ AllAttached \/ PublishNext \/ AllPublished
    BY <2>11, <2>1
       DEF Connected, ConnectFails, Wait, DialStops, WaitStops, Stopped, Quit, Probed, Checked,
           Attach, Skip, AllAttached, PublishNext, AllPublished, remoteVars
  <2>12. CASE \/ SetupAsks \/ SetupDone \/ SetupCancelled \/ PersonAnswers
              \/ Joined \/ CloseInstance \/ AllClosed \/ AllUnpublished \/ StopsForQuit
              \/ \E s \in Service : RunReturns(s)
              \/ AcceptFails \/ KeepAliveFails \/ SocketMissing \/ Cancelled
    BY <2>12, <2>1
       DEF SetupAsks, SetupDone, SetupCancelled, PersonAnswers, Serve, Joined, CloseInstance,
           AllClosed, AllUnpublished, StopsForQuit, RunReturns, AcceptFails, KeepAliveFails,
           SocketMissing, Cancelled, BackgroundReturns, remoteVars
  <2>13. CASE Bound \/ OwnBound
    BY <2>13 DEF Bound, OwnBound
  <2>14. CASE UNCHANGED sessionVars
    BY <2>14, <2>1 DEF sessionVars, remoteVars
  <2>. QED  BY <1>1, <2>2, <2>7, <2>8, <2>9, <2>10, <2>11, <2>12, <2>13, <2>14
            DEF SessionNext, Dials, Supervise, SetUpStep, TearDownStep
<1>. QED  BY <1>1, SessionKeeps, PTL DEF SessionSpec, RivalsAreNotRemoved

(***************************************************************************)
(* Every step of a session is one of the lifecycle internal/service        *)
(* promises its services, or none: an instance is attached, run and closed *)
(* once, last attached first closed, and none while a Run still goes. That *)
(* it is closed in the end is the fairness the runs check.                 *)
(***************************************************************************)
THEOREM SessionKeepsTheLifecycle ==
  SessionSpec => Life!LifeInit /\ [][Life!LifeNext]_(Life!lifeVars)
<1>1. SessionInit => Life!LifeInit
  BY DEF SessionInit, Life!LifeInit
<1>2. ASSUME SessionInv, [SessionNext]_sessionVars
      PROVE  [Life!LifeNext]_(Life!lifeVars)
  <2>0. ServedTyped /\ HeldInTurn /\ LivesInTurn
    BY <1>2 DEF SessionInv, ServeOK
  <2>. USE DEF Life!LifeNext, Life!lifeVars
  <2>1. CASE Attach
    <3>1. pc = "attaching" /\ at \in 1 .. Len(Order)
      BY <2>0, <2>1, ServicesAreFinite DEF Attach, ServedTyped
    <3>2. Order[at] \in Service /\ Order[at] \notin Listed(attached)
      <4>1. Order[at] \notin Upto(Order, at)
        BY <3>1, ServicesAreFinite DEF Upto, Distinct
      <4>. QED  BY <2>0, <3>1, <4>1, ServicesAreFinite, ElementOfSeq DEF HeldInTurn
    <3>3. Life!Attach(Order[at])
      BY <2>0, <2>1, <3>1, <3>2 DEF Attach, Life!Attach, LivesInTurn
    <3>. QED  BY <3>2, <3>3
  <2>2. CASE SetupDone \/ SetupCancelled \/ PersonAnswers
    <3>1. Serve /\ pc \in {"setup", "asking"}
      BY <2>2 DEF SetupDone, SetupCancelled, PersonAnswers
    <3>2. \A s \in Service : life[s] \in {"none", "attached"}
      BY <2>0, <3>1 DEF LivesInTurn
    <3>3. Life!Start
      BY <3>1, <3>2 DEF Serve, Life!Start
    <3>. QED  BY <3>3
  <2>3. ASSUME NEW s \in Service, RunReturns(s)
        PROVE  [Life!LifeNext]_(Life!lifeVars)
    <3>1. Life!RunReturns(s)
      BY <2>3 DEF RunReturns, Running, Life!RunReturns
    <3>. QED  BY <3>1
  <2>4. CASE CloseInstance
    <3>1. /\ pc = "closing" /\ attached # <<>>
          /\ attached' = Front(attached) /\ life' = [life EXCEPT ![Last(attached)] = "none"]
      BY <2>4 DEF CloseInstance, TearsDown
    <3>2. Last(attached) \in Service /\ Last(attached) \in Listed(attached)
      BY <2>0, <3>1, DistinctFront DEF ServedTyped
    <3>3. Life!Front(attached) = Front(attached) /\ Life!Last(attached) = Last(attached)
      BY DEF Front, Last, Life!Front, Life!Last
    <3>4. ~Life!Going /\ life[Last(attached)] = "returned"
      BY <2>0, <3>1, <3>2 DEF LivesInTurn, Life!Going
    <3>5. Life!Close
      BY <3>1, <3>3, <3>4 DEF Life!Close
    <3>. QED  BY <3>5
  <2>5. CASE WorldStep
    BY <2>5 DEF WorldStep, LinkReset, LinkSwallows, TransportGivesUp, SshdMissesUs, RivalBinds,
                RivalLeaves, World, serveVars
  <2>6. CASE \/ Connected \/ ConnectFails \/ Wait \/ DialStops \/ WaitStops \/ Quit
             \/ Probed \/ Checked \/ Bound \/ HangUp
    BY <2>6 DEF Connected, ConnectFails, Wait, DialStops, WaitStops, Stopped, Quit, Probed, Checked,
                Bound, HangUp, FailsWith, serveVars
  <2>7. CASE Skip \/ AllAttached \/ PublishNext \/ OwnBound \/ AllPublished \/ SetupAsks
    BY <2>7 DEF Skip, AllAttached, PublishNext, OwnBound, AllPublished, SetupAsks, OwnMoves
  <2>8. CASE \/ Joined \/ AllClosed \/ AllUnpublished \/ StopsForQuit
             \/ CloseListener \/ FoundUnused \/ LeftAlone \/ Removed
             \/ AcceptFails \/ KeepAliveFails \/ SocketMissing \/ Cancelled
    BY <2>8 DEF Joined, AllClosed, AllUnpublished, StopsForQuit, CloseListener, FoundUnused,
                LeftAlone, Removed, PathDone, serveVars, AcceptFails, KeepAliveFails, SocketMissing,
                Cancelled, BackgroundReturns
  <2>9. CASE UNCHANGED sessionVars
    BY <2>9 DEF sessionVars, serveVars
  <2>. QED  BY <1>2, <2>1, <2>2, <2>3, <2>4, <2>5, <2>6, <2>7, <2>8, <2>9
            DEF SessionNext, Dials, Supervise, SetUpStep, TearDownStep
<1>. QED  BY <1>1, <1>2, SessionKeeps, PTL DEF SessionSpec

-----------------------------------------------------------------------------
(***************************************************************************)
(* The dial. What it goes by does not change while it goes: the chain of   *)
(* hosts, how each is resolved, and how host keys are checked.             *)
(***************************************************************************)
LEMMA RangeOfAppend ==
  ASSUME NEW S, NEW s \in Seq(S), NEW e \in S
  PROVE  Range(Append(s, e)) = Range(s) \cup {e}
<1>1. /\ Append(s, e) \in Seq(S) /\ Len(Append(s, e)) = Len(s) + 1 /\ Len(s) \in Nat
      /\ \A i \in 1 .. Len(s) : Append(s, e)[i] = s[i]
      /\ Append(s, e)[Len(s) + 1] = e
  BY AppendProperties, LenProperties
<1>2. DOMAIN s = 1 .. Len(s) /\ DOMAIN Append(s, e) = 1 .. Len(s) + 1
  BY <1>1, LenProperties
<1>3. \A i \in 1 .. Len(s) + 1 : i \in 1 .. Len(s) \/ i = Len(s) + 1
  BY <1>1
<1>4. Len(s) + 1 \in 1 .. Len(s) + 1 /\ 1 .. Len(s) \subseteq 1 .. Len(s) + 1
  BY <1>1
<1>. HIDE <1>1
<1>5. Range(Append(s, e)) \subseteq Range(s) \cup {e}
  BY <1>1, <1>2, <1>3 DEF Range
<1>6. Range(s) \cup {e} \subseteq Range(Append(s, e))
  BY <1>1, <1>2, <1>4 DEF Range
<1>. QED  BY <1>5, <1>6

LEMMA RangeOfTail ==
  ASSUME NEW S, NEW s \in Seq(S), s # <<>>
  PROVE  Head(s) \in S /\ Tail(s) \in Seq(S) /\ Range(s) = {Head(s)} \cup Range(Tail(s))
<1>1. /\ Tail(s) \in Seq(S) /\ Len(Tail(s)) = Len(s) - 1 /\ Head(s) \in S
      /\ \A i \in 1 .. Len(Tail(s)) : Tail(s)[i] = s[i + 1]
  BY HeadTailProperties
<1>2. /\ Len(s) \in Nat \ {0} /\ Head(s) = s[1] /\ DOMAIN s = 1 .. Len(s)
      /\ DOMAIN Tail(s) = 1 .. Len(s) - 1
  BY <1>1, EmptySeq, LenProperties
<1>. DEFINE t == Tail(s)
<1>. HIDE DEF t
<1>3. \A i \in 1 .. Len(s) - 1 : i + 1 \in 1 .. Len(s) /\ t[i] = s[i + 1]
  BY <1>1, <1>2 DEF t
<1>4. \A i \in 1 .. Len(s) : i = 1 \/ (i - 1 \in 1 .. Len(s) - 1 /\ t[i - 1] = s[i])
  BY <1>2, <1>3
<1>5. 1 \in 1 .. Len(s)
  BY <1>2
<1>6. Range(t) = {t[i] : i \in 1 .. Len(s) - 1} /\ Range(s) = {s[i] : i \in 1 .. Len(s)}
  BY <1>2 DEF Range, t
<1>7. {Head(s)} \cup Range(t) \subseteq Range(s)
  BY <1>2, <1>3, <1>5, <1>6
<1>8. Range(s) \subseteq {Head(s)} \cup Range(t)
  BY <1>2, <1>4, <1>6
<1>. QED  BY <1>1, <1>7, <1>8 DEF t

LEMMA RangeOfConcat ==
  ASSUME NEW S, NEW s \in Seq(S), NEW t \in Seq(S)
  PROVE  Range(t) \subseteq Range(s \o t)
<1>1. /\ Len(s) \in Nat /\ Len(t) \in Nat /\ DOMAIN t = 1 .. Len(t)
      /\ DOMAIN (s \o t) = 1 .. Len(s) + Len(t)
      /\ \A i \in 1 .. Len(s) + Len(t) : (s \o t)[i] = IF i <= Len(s) THEN s[i] ELSE t[i - Len(s)]
  BY ConcatProperties, LenProperties
<1>. DEFINE c == s \o t
<1>2. \A i \in 1 .. Len(t) : i + Len(s) \in 1 .. Len(s) + Len(t) /\ c[i + Len(s)] = t[i]
  BY <1>1
<1>3. DOMAIN c = 1 .. Len(s) + Len(t)
  BY <1>1
<1>. HIDE DEF c
<1>4. Range(t) \subseteq Range(c)
  BY <1>1, <1>2, <1>3 DEF Range
<1>. QED  BY <1>4 DEF c

LEMMA ChainIsTyped ==
  ASSUME flags \in DialOptions
  PROVE  /\ Chain \in Seq(Host) /\ Len(Chain) \in Nat \ {0}
         /\ \A i \in 1 .. Len(Chain) : Chain[i] \in Host
         /\ \A h \in Host : Resolve(h).keys \in Seq(Key)
         /\ hop \in 1 .. Len(Chain) => Here \in Host /\ FileKeys \in Seq(Key)
<1>1. flags.keys \in Seq(Key) /\ flags.jumps \in Seq(Host)
  BY DialAssumption
<1>2. \A h \in Host : Configured[h].keys \in Seq(Key) /\ Configured[h].jumps \in Seq(Host)
  BY DialAssumption
<1>3. \A h \in Host : Resolve(h).keys \in Seq(Key) /\ Resolve(h).jumps \in Seq(Host)
  BY <1>1, <1>2 DEF Resolve
<1>4. Resolve(Box).jumps \in Seq(Host) /\ Box \in Host
  BY <1>3, DialAssumption
<1>5. Chain \in Seq(Host) /\ Len(Chain) = Len(Resolve(Box).jumps) + 1
  BY <1>4, AppendProperties DEF Chain
<1>6. Len(Chain) \in Nat \ {0}
  BY <1>4, <1>5, LenProperties
<1>7. \A i \in 1 .. Len(Chain) : Chain[i] \in Host
  BY <1>5, ElementOfSeq
<1>8. hop \in 1 .. Len(Chain) => Here \in Host /\ FileKeys \in Seq(Key)
  BY <1>3, <1>7, DialAssumption DEF Here, FileKeys, Named, Dest
<1>. QED  BY <1>3, <1>5, <1>6, <1>7, <1>8

LEMMA ChainIsKept ==
  ASSUME UNCHANGED flags
  PROVE  /\ Chain' = Chain /\ HostKeyMode' = HostKeyMode
         /\ UNCHANGED hop => Here' = Here /\ FileKeys' = FileKeys
<1>1. \A h : Resolve(h)' = Resolve(h)
  BY DEF Resolve
<1>2. Chain' = Chain
  BY <1>1 DEF Chain
<1>. QED  BY <1>1, <1>2 DEF HostKeyMode, Here, FileKeys, Named, Dest

LEMMA FlagsAreKept == [DialNext]_dialVars => UNCHANGED flags
<1>1. CASE \/ Dial \/ ReadKnownHosts \/ Connect \/ Unreachable \/ HostKey \/ Confirm
           \/ ListAgent \/ LoadKey \/ Unlock \/ OrderKeys
  BY <1>1 DEF Dial, ReadKnownHosts, Connect, Unreachable, HostKey, Confirm, ListAgent, LoadKey,
              Unlock, OrderKeys, personVars
<1>2. CASE \/ Offer \/ Exhausted \/ Sign \/ Password \/ DeadlinePasses \/ TimesOut \/ HangsUp
           \/ Unwind \/ WaitEnds \/ Close \/ Outside \/ UNCHANGED dialVars
  BY <1>2 DEF Offer, Exhausted, Sign, Password, DeadlinePasses, TimesOut, HangsUp, Unwind,
              WaitEnds, Close, Outside, CallerQuits, TakeScreen, personVars, dialVars
<1>. QED  BY <1>1, <1>2 DEF DialNext

LEMMA PresentableIsTyped ==
  ASSUME NEW h \in Host, seen \subseteq HostRecord
  PROVE  Presentable(h) \subseteq HostType
<1>1. \A i \in DOMAIN DefaultTypes : DefaultTypes[i] \in HostType
  BY DEF HostType, Range
<1>2. Served[h] \subseteq HostType
  BY DialAssumption
<1>. QED  BY <1>1, <1>2 DEF Presentable

(***************************************************************************)
(* The types of a dial, a group of variables at a time.                    *)
(***************************************************************************)
StageTyped ==
  /\ flags \in DialOptions
  /\ stage \in {"idle", "reading", "connecting", "handshake", "confirm", "listing", "loading",
                "unlock", "offering", "signing", "passphrase", "password", "unwinding",
                "waiting", "connected", "closing", "returned"}
  /\ ctx \in {"live", "done"} /\ attended \in BOOLEAN /\ screen \in BOOLEAN
  /\ agentConn \in BOOLEAN /\ late \in BOOLEAN

HopsTyped == hop \in 1 .. Len(Chain) /\ conns \subseteq 1 .. Len(Chain)

HostsTyped ==
  /\ known \subseteq HostRecord /\ seen \subseteq HostRecord /\ added \subseteq HostRecord
  /\ shown \in [1 .. Len(Chain) -> HostRecord]
  /\ age \in [Host -> 0 .. MaxAge]

KeysTyped ==
  /\ files \in Seq(Key) /\ blobs \subseteq Key /\ refused \in 0 .. MaxTries
  /\ held \in Seq(Signer) /\ loaded \in Seq(Signer) /\ queue \in Seq(Signer)

(***************************************************************************)
(* A key that is asked about was not recorded in any form; and of the key  *)
(* files to be offered without a passphrase each is still to be loaded, is *)
(* loaded, or is passed over for the one the agent listed. A key is held   *)
(* locked only where somebody can unlock it.                               *)
(***************************************************************************)
AskedOfNew ==
  stage = "confirm" =>
    /\ shown[hop].host = Chain[hop]
    /\ \A r \in seen : r.host = Chain[hop] => r.type # shown[hop].type

KeysInTurn ==
  /\ stage = "unlock" => files # <<>> /\ Head(files) \in Encrypted \ Halved
  /\ stage = "offering" => files = <<>>
  /\ stage \in {"loading", "unlock", "offering"} =>
       \A k \in Range(FileKeys) \ Encrypted :
         \/ k \in Range(files) \/ k \in blobs
         \/ \E s \in Range(loaded) : s.key = k

Usable == {s \in Signer : s.from = "deferred" => attended}

OffersInTurn == held \in Seq(Usable) /\ loaded \in Seq(Usable) /\ queue \in Seq(Usable)

HopsInTurn ==
  /\ \E n \in 0 .. Len(Chain) : conns = 1 .. n
  /\ agentConn => Shaking
  /\ stage \in {"idle", "reading", "waiting", "returned"} => conns = {}
  /\ stage = "connecting" => conns = 1 .. hop - 1
  /\ Shaking => conns = 1 .. hop
  /\ stage = "connected" => conns = 1 .. Len(Chain)

LEMMA TypesInGroups == DialTypeOK <=> StageTyped /\ HopsTyped /\ HostsTyped /\ KeysTyped
BY DEF DialTypeOK, StageTyped, HopsTyped, HostsTyped, KeysTyped

LEMMA StageStep ==
  ASSUME StageTyped, [DialNext]_dialVars
  PROVE  StageTyped'
<1>0. UNCHANGED flags
  BY FlagsAreKept
<1>. USE <1>0 DEF StageTyped, Fail, Forget, Authenticated, NextMethod, personVars, keyVars
<1>1. CASE Dial \/ ReadKnownHosts \/ Connect \/ Unreachable
  BY <1>1 DEF Dial, ReadKnownHosts, Connect, Unreachable
<1>2. CASE HostKey \/ Confirm
  BY <1>2 DEF HostKey, Confirm
<1>3. CASE ListAgent \/ LoadKey \/ Unlock \/ OrderKeys
  BY <1>3 DEF ListAgent, LoadKey, Unlock, OrderKeys
<1>4. CASE Offer \/ Exhausted
  BY <1>4 DEF Offer, Exhausted
<1>5. CASE Sign \/ Password
  BY <1>5 DEF Sign, Password
<1>6. CASE DeadlinePasses \/ TimesOut \/ HangsUp
  BY <1>6 DEF DeadlinePasses, TimesOut, HangsUp
<1>7. CASE Unwind \/ WaitEnds \/ Close
  BY <1>7 DEF Unwind, WaitEnds, Close
<1>8. CASE Outside \/ UNCHANGED dialVars
  BY <1>8 DEF Outside, CallerQuits, TakeScreen, dialVars
<1>. QED  BY <1>1, <1>2, <1>3, <1>4, <1>5, <1>6, <1>7, <1>8 DEF DialNext

LEMMA HopsTypeStep ==
  ASSUME StageTyped, HopsTyped, [DialNext]_dialVars
  PROVE  HopsTyped'
<1>0. Chain' = Chain /\ Len(Chain) \in Nat \ {0}
  BY FlagsAreKept, ChainIsKept, ChainIsTyped DEF StageTyped
<1>1. \/ hop' \in {hop, 1}
      \/ hop < Len(Chain) /\ hop' = hop + 1
  <2>. USE DEF Fail, Authenticated, NextMethod, personVars, dialVars
  <2>1. CASE Dial \/ ReadKnownHosts \/ Connect \/ Unreachable \/ HostKey \/ Confirm
    BY <2>1 DEF Dial, ReadKnownHosts, Connect, Unreachable, HostKey, Confirm
  <2>2. CASE ListAgent \/ LoadKey \/ Unlock \/ OrderKeys \/ Offer \/ Exhausted
    BY <2>2 DEF ListAgent, LoadKey, Unlock, OrderKeys, Offer, Exhausted
  <2>3. CASE Sign
    BY <2>3 DEF Sign
  <2>4. CASE Password
    BY <2>4 DEF Password
  <2>5. CASE DeadlinePasses \/ TimesOut \/ HangsUp \/ Unwind \/ WaitEnds \/ Close
             \/ Outside \/ UNCHANGED dialVars
    BY <2>5 DEF DeadlinePasses, TimesOut, HangsUp, Unwind, WaitEnds, Close, Outside
  <2>. QED  BY <2>1, <2>2, <2>3, <2>4, <2>5 DEF DialNext
<1>2. hop' \in 1 .. Len(Chain)
  BY <1>0, <1>1 DEF HopsTyped
<1>3. conns' \subseteq conns \cup {hop}
  <2>. USE DEF Fail, Authenticated, NextMethod, dialVars
  <2>1. CASE Dial \/ ReadKnownHosts \/ Connect \/ Unreachable \/ HostKey \/ Confirm
    BY <2>1 DEF Dial, ReadKnownHosts, Connect, Unreachable, HostKey, Confirm
  <2>2. CASE ListAgent \/ LoadKey \/ Unlock \/ OrderKeys \/ Offer \/ Exhausted
    BY <2>2 DEF ListAgent, LoadKey, Unlock, OrderKeys, Offer, Exhausted
  <2>3. CASE Sign \/ Password
    BY <2>3 DEF Sign, Password
  <2>4. CASE DeadlinePasses \/ TimesOut \/ HangsUp \/ Unwind \/ WaitEnds \/ Close
             \/ Outside \/ UNCHANGED dialVars
    BY <2>4 DEF DeadlinePasses, TimesOut, HangsUp, Unwind, WaitEnds, Close, Outside
  <2>. QED  BY <2>1, <2>2, <2>3, <2>4 DEF DialNext
<1>. QED  BY <1>0, <1>2, <1>3 DEF HopsTyped

LEMMA FreshIsTyped ==
  ASSUME HostsTyped, NEW h \in Host, NEW t \in HostType
  PROVE  Fresh(h, t) \in HostRecord
BY DEF HostsTyped, Fresh, HostRecord

LEMMA HostsTypeStep ==
  ASSUME StageTyped, HopsTyped, HostsTyped, [DialNext]_dialVars
  PROVE  HostsTyped'
<1>0. Chain' = Chain /\ Here \in Host
  BY FlagsAreKept, ChainIsKept, ChainIsTyped DEF StageTyped, HopsTyped
<1>. USE <1>0 DEF HostsTyped
<1>1. CASE HostKey
  <2>1. PICK t \in Presentable(Here) :
          /\ shown' = [shown EXCEPT ![hop] = Fresh(Here, t)]
          /\ (UNCHANGED known /\ UNCHANGED added) \/ Record(Fresh(Here, t))
    BY <1>1 DEF HostKey
  <2>2. Fresh(Here, t) \in HostRecord
    BY PresentableIsTyped, FreshIsTyped
  <2>. QED  BY <1>1, <2>1, <2>2 DEF HostKey, Record
<1>2. CASE Confirm
  BY <1>2 DEF Confirm, Record, HopsTyped
<1>3. CASE Outside
  <2>1. UNCHANGED <<seen, added, shown>>
    BY <1>3 DEF Outside
  <2>2. known' \subseteq HostRecord
    BY <1>3 DEF Outside, Rebuild, RemoveLines
  <2>3. age' \in [Host -> 0 .. MaxAge]
    <3>1. ASSUME NEW h \in Host, age[h] < MaxAge, age' = [age EXCEPT ![h] = @ + 1]
          PROVE  age' \in [Host -> 0 .. MaxAge]
      <4>1. age[h] + 1 \in 0 .. MaxAge
        BY <3>1, DialAssumption, SMTT(30)
      <4>. QED  BY <3>1, <4>1
    <3>. QED  BY <1>3, <3>1 DEF Outside, Rebuild, RemoveLines
  <2>. QED  BY <2>1, <2>2, <2>3
<1>4. CASE \/ Dial \/ ReadKnownHosts \/ Connect \/ Unreachable
           \/ ListAgent \/ LoadKey \/ Unlock \/ OrderKeys \/ Offer \/ Exhausted
  BY <1>4 DEF Dial, ReadKnownHosts, Connect, Unreachable, ListAgent, LoadKey, Unlock, OrderKeys,
              Offer, Exhausted, hostVars
<1>5. CASE \/ Sign \/ Password \/ DeadlinePasses \/ TimesOut \/ HangsUp
           \/ Unwind \/ WaitEnds \/ Close \/ UNCHANGED dialVars
  BY <1>5 DEF Sign, Password, DeadlinePasses, TimesOut, HangsUp, Unwind, WaitEnds, Close,
              hostVars, dialVars
<1>. QED  BY <1>1, <1>2, <1>3, <1>4, <1>5 DEF DialNext

LEMMA KeysTypeStep ==
  ASSUME StageTyped, HopsTyped, KeysTyped, KeysInTurn, [DialNext]_dialVars
  PROVE  KeysTyped'
<1>0. FileKeys \in Seq(Key) /\ DefaultKeys \in Seq(Key) /\ MaxTries \in Nat
  BY ChainIsTyped, DialAssumption DEF StageTyped, HopsTyped
<1>. USE DEF KeysTyped
<1>1. CASE Forget
  BY <1>0, <1>1 DEF Forget
<1>2. CASE UNCHANGED keyVars
  BY <1>2 DEF keyVars
<1>3. CASE ListAgent
  <2>1. AgentKeys \in Seq(Key) /\ AgentKeys \in [DOMAIN AgentKeys -> Key]
        /\ Len(AgentKeys) \in Nat /\ DOMAIN AgentKeys = 1 .. Len(AgentKeys)
    BY DialAssumption, LenProperties
  <2>2. Range(AgentKeys) \subseteq Key
    BY <2>1 DEF Range
  <2>3. [i \in DOMAIN AgentKeys |-> [key |-> AgentKeys[i], from |-> "agent"]] \in Seq(Signer)
    BY <2>1 DEF Signer
  <2>4. <<>> \in Seq(Signer) /\ {} \subseteq Key
    OBVIOUS
  <2>5. files' = FileKeys
    BY <1>3 DEF ListAgent, FileKeys
  <2>6. UNCHANGED <<loaded, queue, refused>>
    BY <1>3 DEF ListAgent
  <2>7. blobs' \subseteq Key /\ held' \in Seq(Signer)
    BY <1>3, <2>2, <2>3, <2>4 DEF ListAgent
  <2>. QED  BY <1>0, <2>5, <2>6, <2>7
<1>4. CASE LoadKey
  <2>1. /\ files # <<>> /\ UNCHANGED <<held, blobs, queue, refused>>
        /\ UNCHANGED files \/ files' = Tail(files)
        /\ \/ UNCHANGED loaded
           \/ \E from \in {"file", "deferred"} :
                loaded' = Append(loaded, [key |-> Head(files), from |-> from])
    BY <1>4 DEF LoadKey, LoadsAs
  <2>2. Head(files) \in Key /\ Tail(files) \in Seq(Key)
    BY <2>1, RangeOfTail
  <2>3. \A from \in {"file", "deferred"} : [key |-> Head(files), from |-> from] \in Signer
    BY <2>2 DEF Signer
  <2>4. loaded' \in Seq(Signer)
    <3>1. loaded \in Seq(Signer) /\ \A e \in Signer : Append(loaded, e) \in Seq(Signer)
      BY AppendProperties
    <3>. QED  BY <2>1, <2>3, <3>1
  <2>5. files' \in Seq(Key)
    BY <2>1, <2>2
  <2>. QED  BY <2>1, <2>4, <2>5
<1>5. CASE Unlock
  <2>1. /\ files # <<>> /\ files' = Tail(files) /\ UNCHANGED <<held, blobs, queue, refused>>
        /\ \/ UNCHANGED loaded
           \/ loaded' = Append(loaded, [key |-> Head(files), from |-> "file"])
    BY <1>5 DEF Unlock, KeysInTurn
  <2>2. Head(files) \in Key /\ Tail(files) \in Seq(Key)
    BY <2>1, RangeOfTail
  <2>3. [key |-> Head(files), from |-> "file"] \in Signer
    BY <2>2 DEF Signer
  <2>4. loaded' \in Seq(Signer)
    <3>1. loaded \in Seq(Signer) /\ \A e \in Signer : Append(loaded, e) \in Seq(Signer)
      BY AppendProperties
    <3>. QED  BY <2>1, <2>3, <3>1
  <2>. QED  BY <2>1, <2>2, <2>4
<1>6. CASE OrderKeys \/ Exhausted
  <2>1. CASE /\ queue' = loaded \o held \/ queue' = held \o loaded
             /\ UNCHANGED <<files, held, blobs, loaded, refused>>
    <3>1. loaded \o held \in Seq(Signer) /\ held \o loaded \in Seq(Signer)
      BY ConcatProperties
    <3>. QED  BY <2>1, <3>1
  <2>2. CASE NextMethod
    BY <1>1, <1>2, <2>2 DEF NextMethod, Fail
  <2>. QED  BY <1>6, <2>1, <2>2 DEF OrderKeys, Exhausted
<1>7. CASE Offer
  <2>1. CASE Authenticated \/ Fail
    BY <1>1, <2>1 DEF Authenticated, Fail
  <2>2. CASE /\ refused < MaxTries /\ queue' = Tail(queue) /\ refused' = refused + 1
             /\ UNCHANGED <<files, held, blobs, loaded>>
    <3>1. queue # <<>>
      BY <1>7 DEF Offer
    <3>2. queue' \in Seq(Signer) /\ refused' \in 0 .. MaxTries
      BY <1>0, <2>2, <3>1, RangeOfTail
    <3>. QED  BY <2>2, <3>2
  <2>. QED  BY <1>2, <1>7, <2>1, <2>2 DEF Offer
<1>8. CASE Sign \/ Password \/ TimesOut \/ HangsUp
  BY <1>1, <1>2, <1>8 DEF Sign, Password, TimesOut, HangsUp, NextMethod, Authenticated, Fail
<1>9. CASE HostKey \/ Confirm
  BY <1>1, <1>2, <1>9 DEF HostKey, Confirm, Fail
<1>10. CASE \/ Dial \/ ReadKnownHosts \/ Connect \/ Unreachable \/ DeadlinePasses
            \/ Unwind \/ WaitEnds \/ Close \/ Outside \/ UNCHANGED dialVars
  BY <1>2, <1>10 DEF Dial, ReadKnownHosts, Connect, Unreachable, DeadlinePasses, Unwind,
                     WaitEnds, Close, Outside, dialVars
<1>. QED  BY <1>3, <1>4, <1>5, <1>6, <1>7, <1>8, <1>9, <1>10 DEF DialNext

-----------------------------------------------------------------------------
(***************************************************************************)
(* What a dial holds. A step of a handshake goes on with it, fails it, or  *)
(* ends it.                                                                *)
(***************************************************************************)
LEMMA HandshakeGoesOn ==
  ASSUME HopsInTurn, Shaking, Shaking', UNCHANGED <<flags, hop, conns>>
  PROVE  HopsInTurn'
<1>1. Chain' = Chain /\ stage \in {"handshake", "offering", "confirm", "listing", "loading",
                                   "unlock", "signing", "passphrase", "password"}
      /\ stage' \in {"handshake", "offering", "confirm", "listing", "loading",
                     "unlock", "signing", "passphrase", "password"}
  BY ChainIsKept DEF Shaking, Reading
<1>2. conns = 1 .. hop /\ \E n \in 0 .. Len(Chain) : conns = 1 .. n
  BY DEF HopsInTurn
<1>. QED  BY <1>1, <1>2 DEF HopsInTurn

LEMMA HandshakeFails ==
  ASSUME HopsTyped, HopsInTurn, Shaking, StageTyped, UNCHANGED flags, Fail
  PROVE  HopsInTurn'
<1>1. Chain' = Chain /\ Len(Chain) \in Nat \ {0} /\ hop \in 1 .. Len(Chain)
  BY ChainIsKept, ChainIsTyped DEF StageTyped, HopsTyped
<1>2. /\ conns = 1 .. hop /\ conns' = conns \ {hop} /\ ~agentConn'
      /\ stage' = "unwinding"
  BY DEF HopsInTurn, Fail
<1>3. conns' = 1 .. hop - 1 /\ hop - 1 \in 0 .. Len(Chain)
  BY <1>1, <1>2
<1>. QED  BY <1>1, <1>2, <1>3 DEF HopsInTurn, Shaking, Reading

LEMMA HandshakeEnds ==
  ASSUME HopsTyped, HopsInTurn, Shaking, StageTyped, UNCHANGED flags, Authenticated
  PROVE  HopsInTurn'
<1>1. Chain' = Chain /\ Len(Chain) \in Nat \ {0} /\ hop \in 1 .. Len(Chain)
  BY ChainIsKept, ChainIsTyped DEF StageTyped, HopsTyped
<1>2. /\ conns = 1 .. hop /\ conns' = conns /\ ~agentConn'
      /\ \/ hop' = hop + 1 /\ stage' = "connecting"
         \/ hop = Len(Chain) /\ hop' = hop /\ stage' = "connected"
  BY <1>1 DEF HopsInTurn, Authenticated
<1>3. CASE hop' = hop + 1 /\ stage' = "connecting"
  <2>1. hop' - 1 = hop /\ hop \in 0 .. Len(Chain)
    BY <1>1, <1>3
  <2>. QED  BY <1>1, <1>2, <1>3, <2>1 DEF HopsInTurn, Shaking, Reading
<1>4. CASE hop = Len(Chain) /\ hop' = hop /\ stage' = "connected"
  <2>1. hop \in 0 .. Len(Chain)
    BY <1>1
  <2>. QED  BY <1>1, <1>2, <1>4, <2>1 DEF HopsInTurn, Shaking, Reading
<1>. QED  BY <1>2, <1>3, <1>4

LEMMA HandshakeStep ==
  ASSUME StageTyped, HopsTyped, HopsInTurn, [DialNext]_dialVars,
         \/ HostKey \/ Confirm \/ ListAgent \/ LoadKey \/ Unlock \/ OrderKeys
         \/ Offer \/ Exhausted \/ Sign \/ Password \/ DeadlinePasses \/ TimesOut \/ HangsUp
  PROVE  /\ Shaking
         /\ \/ Shaking' /\ UNCHANGED <<hop, conns>>
            \/ Fail /\ UNCHANGED hop
            \/ Authenticated
<1>. USE DEF Shaking, Reading
<1>1. CASE HostKey \/ Confirm
  BY <1>1 DEF HostKey, Confirm
<1>2. CASE ListAgent \/ LoadKey \/ Unlock
  BY <1>2 DEF ListAgent, LoadKey, Unlock
<1>3. CASE OrderKeys \/ Exhausted
  BY <1>3 DEF OrderKeys, Exhausted, NextMethod
<1>4. CASE Offer
  BY <1>4 DEF Offer
<1>5. CASE Sign \/ Password
  BY <1>5 DEF Sign, Password, NextMethod
<1>6. CASE DeadlinePasses \/ TimesOut \/ HangsUp
  BY <1>6 DEF DeadlinePasses, TimesOut, HangsUp
<1>. QED  BY <1>1, <1>2, <1>3, <1>4, <1>5, <1>6

LEMMA HopsStep ==
  ASSUME StageTyped, HopsTyped, HopsInTurn, [DialNext]_dialVars
  PROVE  HopsInTurn'
<1>0. /\ UNCHANGED flags /\ Chain' = Chain
      /\ Len(Chain) \in Nat \ {0} /\ hop \in 1 .. Len(Chain)
  BY FlagsAreKept, ChainIsKept, ChainIsTyped DEF StageTyped, HopsTyped
<1>. USE DEF Shaking, Reading
<1>1. CASE \/ HostKey \/ Confirm \/ ListAgent \/ LoadKey \/ Unlock \/ OrderKeys
           \/ Offer \/ Exhausted \/ Sign \/ Password \/ DeadlinePasses \/ TimesOut \/ HangsUp
  <2>1. Shaking
    BY <1>1, HandshakeStep
  <2>2. CASE Fail
    BY <1>0, <2>1, <2>2, HandshakeFails
  <2>3. CASE Authenticated
    BY <1>0, <2>1, <2>3, HandshakeEnds
  <2>4. CASE Shaking' /\ UNCHANGED <<hop, conns>>
    BY <1>0, <2>1, <2>4, HandshakeGoesOn
  <2>. QED  BY <1>1, <2>2, <2>3, <2>4, HandshakeStep
<1>2. CASE Dial \/ WaitEnds
  BY <1>0, <1>2 DEF Dial, WaitEnds, HopsInTurn
<1>3. CASE ReadKnownHosts
  <2>1. conns' = {} /\ ~agentConn' /\ hop' = 1 /\ stage' \in {"connecting", "unwinding"}
    BY <1>3 DEF ReadKnownHosts, HopsInTurn
  <2>2. {} = 1 .. hop' - 1 /\ {} = 1 .. 0 /\ 0 \in 0 .. Len(Chain)
    BY <1>0, <2>1
  <2>. QED  BY <1>0, <2>1, <2>2 DEF HopsInTurn
<1>4. CASE Connect
  <2>1. /\ conns = 1 .. hop - 1 /\ conns' = conns \cup {hop} /\ hop' = hop
        /\ stage' = "handshake"
    BY <1>4 DEF Connect, HopsInTurn
  <2>2. conns' = 1 .. hop /\ hop \in 0 .. Len(Chain)
    BY <1>0, <2>1
  <2>. QED  BY <1>0, <2>1, <2>2 DEF HopsInTurn
<1>5. CASE Unreachable \/ Close
  BY <1>0, <1>5 DEF Unreachable, Close, HopsInTurn
<1>6. CASE Unwind
  <2>0. stage \in {"unwinding", "closing"} /\ ~agentConn /\ UNCHANGED agentConn
    BY <1>6 DEF Unwind, HopsInTurn
  <2>1. PICK n \in 0 .. Len(Chain) : conns = 1 .. n
    BY DEF HopsInTurn
  <2>2. CASE conns # {}
    <3>1. n \in conns /\ \A m \in conns : n >= m
      BY <1>0, <2>1, <2>2
    <3>2. Max(conns) = n
      <4>1. \A x \in conns : x \in Int
        BY <2>1
      <4>2. Max(conns) \in conns /\ \A y \in conns : Max(conns) >= y
        BY <3>1 DEF Max
      <4>3. Max(conns) \in 1 .. n /\ Max(conns) >= n
        BY <2>1, <3>1, <4>2
      <4>. QED  BY <1>0, <4>3
    <3>3. conns' = 1 .. n - 1 /\ n - 1 \in 0 .. Len(Chain)
      <4>1. conns' = (1 .. n) \ {n}
        BY <1>6, <2>1, <2>2, <3>2 DEF Unwind
      <4>. QED  BY <1>0, <2>1, <3>1, <4>1
    <3>4. UNCHANGED stage
      BY <1>6, <2>2 DEF Unwind
    <3>. QED  BY <1>0, <2>0, <3>3, <3>4 DEF HopsInTurn
  <2>3. CASE conns = {}
    <3>1. conns' = {} /\ stage' \in {"idle", "returned", "waiting"}
      BY <1>6, <2>0, <2>3 DEF Unwind
    <3>2. {} = 1 .. 0 /\ 0 \in 0 .. Len(Chain)
      BY <1>0
    <3>. QED  BY <1>0, <2>0, <3>1, <3>2 DEF HopsInTurn
  <2>. QED  BY <2>2, <2>3
<1>7. CASE Outside \/ UNCHANGED dialVars
  BY <1>0, <1>7 DEF Outside, dialVars, HopsInTurn
<1>. QED  BY <1>1, <1>2, <1>3, <1>4, <1>5, <1>6, <1>7 DEF DialNext

LEMMA NothingIsHeldTwice ==
  ASSUME HopsInTurn, Len(Chain) \in Nat
  PROVE  NothingLeaks
<1>1. PICK n \in 0 .. Len(Chain) : conns = 1 .. n
  BY DEF HopsInTurn
<1>2. Cardinality(conns) = n
  BY <1>1, FS_Interval
<1>. QED  BY <1>1, <1>2 DEF HopsInTurn, NothingLeaks

(***************************************************************************)
(* The hosts. Who is vouched for stays so as long as what the attempt read *)
(* and recorded does; a new hop is vouched for when it leaves HostKey or   *)
(* Confirm without an error.                                               *)
(***************************************************************************)
Vouched(i) ==
  \/ shown[i] \in seen
  \/ /\ shown[i] \in added
     /\ \A r \in seen : r.host = Chain[i] => r.type # shown[i].type

LEMMA VouchingIsKept ==
  ASSUME HostsAreVouchedFor, UNCHANGED <<flags, seen, shown>>, added \subseteq added',
         \A i \in 1 .. Len(Chain) : KeyChecked(i)' => KeyChecked(i) \/ Vouched(i)'
  PROVE  HostsAreVouchedFor'
<1>1. Chain' = Chain /\ HostKeyMode' = HostKeyMode
  BY ChainIsKept
<1>. HIDE DEF KeyChecked
<1>. QED  BY <1>1 DEF HostsAreVouchedFor, Vouched

LEMMA HostKeyVouches ==
  ASSUME StageTyped, HopsTyped, HostsTyped, HopsInTurn, HostsAreVouchedFor, HostKey
  PROVE  HostsAreVouchedFor' /\ AskedOfNew'
<1>0. /\ UNCHANGED <<flags, hop, seen>> /\ Chain' = Chain /\ HostKeyMode' = HostKeyMode
      /\ hop \in 1 .. Len(Chain) /\ Len(Chain) \in Nat \ {0} /\ Here = Chain[hop]
      /\ shown \in [1 .. Len(Chain) -> HostRecord]
  BY ChainIsKept, ChainIsTyped
     DEF HostKey, personVars, StageTyped, HopsTyped, HostsTyped, Here
<1>1. conns = 1 .. hop /\ stage = "handshake" /\ conns' \in {conns, conns \ {hop}}
  BY DEF HostKey, HopsInTurn, Shaking, Reading, Fail
<1>2. PICK t \in Presentable(Here) :
        LET r == Fresh(Here, t)
        IN /\ shown' = [shown EXCEPT ![hop] = r]
           /\ \/ stage' = "listing" /\ (HostKeyMode = "no" \/ r \in seen) /\ UNCHANGED added
              \/ stage' = "unwinding" /\ conns' = conns \ {hop} /\ UNCHANGED added
              \/ stage' = "listing" /\ added' = added \cup {r} /\ r \notin seen /\ ~Changed(r)
              \/ stage' = "confirm" /\ UNCHANGED added /\ r \notin seen /\ ~Changed(r)
  BY DEF HostKey, Fail, Record
<1>. DEFINE r == Fresh(Here, t)
<1>3. r.host = Chain[hop] /\ r.type = t
  BY <1>0 DEF Fresh
<1>4. r \notin seen /\ ~Changed(r) => \A old \in seen : old.host = Chain[hop] => old.type # r.type
  BY <1>3 DEF Changed, Recorded
<1>. HIDE DEF r
<1>5. shown'[hop] = r /\ \A i \in 1 .. Len(Chain) : i # hop => shown'[i] = shown[i]
  BY <1>0, <1>2 DEF r
<1>6. \/ stage' = "listing" /\ (HostKeyMode = "no" \/ r \in seen) /\ UNCHANGED added
      \/ stage' = "unwinding" /\ conns' = conns \ {hop} /\ UNCHANGED added
      \/ stage' = "listing" /\ added' = added \cup {r} /\ r \notin seen /\ ~Changed(r)
      \/ stage' = "confirm" /\ UNCHANGED added /\ r \notin seen /\ ~Changed(r)
  BY <1>2 DEF r
<1>7. AskedOfNew'
  BY <1>0, <1>3, <1>4, <1>5, <1>6 DEF AskedOfNew
<1>8. added \subseteq added'
  BY <1>6
<1>9. HostsAreVouchedFor'
  <2>. SUFFICES ASSUME HostKeyMode # "no", NEW i \in 1 .. Len(Chain), KeyChecked(i)'
                PROVE  Vouched(i)'
    BY <1>0 DEF HostsAreVouchedFor, Vouched
  <2>1. CASE i = hop
    <3>1. stage' = "listing"
      BY <1>0, <1>6, <2>1 DEF KeyChecked
    <3>. QED  BY <1>0, <1>4, <1>5, <1>6, <2>1, <3>1 DEF Vouched
  <2>2. CASE i # hop
    <3>1. i \in conns /\ i < hop
      BY <1>0, <1>1, <2>2 DEF KeyChecked
    <3>2. Vouched(i)
      BY <3>1 DEF HostsAreVouchedFor, KeyChecked, Vouched
    <3>. QED  BY <1>0, <1>5, <1>8, <2>2, <3>2 DEF Vouched
  <2>. QED  BY <2>1, <2>2
<1>. QED  BY <1>7, <1>9

LEMMA VouchStep ==
  ASSUME StageTyped, HopsTyped, HostsTyped, HopsInTurn, HostsAreVouchedFor, AskedOfNew,
         [DialNext]_dialVars
  PROVE  HostsAreVouchedFor' /\ AskedOfNew'
<1>0. /\ UNCHANGED flags /\ Chain' = Chain
      /\ hop \in 1 .. Len(Chain) /\ Len(Chain) \in Nat \ {0}
  BY FlagsAreKept, ChainIsKept, ChainIsTyped DEF StageTyped, HopsTyped
<1>1. CASE HostKey
  BY <1>1, HostKeyVouches
<1>2. CASE Confirm
  <2>1. /\ stage = "confirm" /\ UNCHANGED <<hop, seen, shown>>
        /\ \/ stage' = "listing" /\ added' = added \cup {shown[hop]} /\ UNCHANGED conns
           \/ stage' = "unwinding" /\ conns' = conns \ {hop} /\ UNCHANGED added
    BY <1>2 DEF Confirm, Record, Fail
  <2>2. conns = 1 .. hop
    BY <2>1 DEF HopsInTurn, Shaking
  <2>3. ASSUME NEW i \in 1 .. Len(Chain), KeyChecked(i)'
        PROVE  KeyChecked(i) \/ Vouched(i)'
    <3>1. CASE i = hop
      <4>1. shown[hop] \in added'
        BY <1>0, <2>1, <2>3, <3>1 DEF KeyChecked
      <4>. QED  BY <1>0, <2>1, <3>1, <4>1 DEF Vouched, AskedOfNew
    <3>2. CASE i # hop
      BY <1>0, <2>1, <2>2, <2>3, <3>2 DEF KeyChecked
    <3>. QED  BY <3>1, <3>2
  <2>4. HostsAreVouchedFor'
    <3>1. added \subseteq added'
      BY <2>1
    <3>. QED  BY <1>0, <2>1, <2>3, <3>1, VouchingIsKept
  <2>. QED  BY <2>1, <2>4 DEF AskedOfNew
<1>3. CASE ReadKnownHosts
  BY <1>3 DEF ReadKnownHosts, HopsInTurn, HostsAreVouchedFor, KeyChecked, AskedOfNew
<1>4. CASE \/ ListAgent \/ LoadKey \/ Unlock \/ OrderKeys
           \/ Offer \/ Exhausted \/ Sign \/ Password \/ DeadlinePasses \/ TimesOut \/ HangsUp
  <2>1. UNCHANGED <<seen, shown, added>>
    BY <1>4 DEF ListAgent, LoadKey, Unlock, OrderKeys, Offer, Exhausted, Sign, Password,
                DeadlinePasses, TimesOut, HangsUp, hostVars
  <2>2. conns = 1 .. hop
    BY <1>4, HandshakeStep DEF HopsInTurn
  <2>3. \/ stage \notin {"handshake", "confirm", "connecting"}
        \/ stage' = stage /\ UNCHANGED <<hop, conns>>
        \/ Fail /\ UNCHANGED hop
    BY <1>4 DEF ListAgent, LoadKey, Unlock, OrderKeys, Offer, Exhausted, Sign, Password,
                DeadlinePasses, TimesOut, HangsUp
  <2>4. conns' \subseteq conns
    BY <1>4, HandshakeStep DEF Fail, Authenticated
  <2>5. \A i \in 1 .. Len(Chain) : KeyChecked(i)' => KeyChecked(i)
    BY <1>0, <2>2, <2>3, <2>4 DEF KeyChecked, Fail
  <2>6. stage' = "confirm" => stage = "confirm" /\ UNCHANGED hop
    BY <1>4 DEF ListAgent, LoadKey, Unlock, OrderKeys, Offer, Exhausted, Sign, Password,
                DeadlinePasses, TimesOut, HangsUp, NextMethod, Fail, Authenticated
  <2>7. AskedOfNew'
    BY <1>0, <2>1, <2>6 DEF AskedOfNew
  <2>. QED  BY <1>0, <2>1, <2>5, <2>7, VouchingIsKept
<1>5. CASE Connect \/ Unreachable
  <2>1. /\ UNCHANGED <<seen, shown, added, hop>> /\ conns' \subseteq conns \cup {hop}
        /\ \/ stage' = "handshake"
           \/ stage' = "unwinding" /\ UNCHANGED conns
    BY <1>5 DEF Connect, Unreachable, hostVars
  <2>2. conns = 1 .. hop - 1
    BY <1>5 DEF Connect, Unreachable, HopsInTurn
  <2>3. \A i \in 1 .. Len(Chain) : KeyChecked(i)' => KeyChecked(i)
    BY <1>0, <2>1, <2>2 DEF KeyChecked
  <2>4. AskedOfNew'
    BY <2>1 DEF AskedOfNew
  <2>. QED  BY <1>0, <2>1, <2>3, <2>4, VouchingIsKept
<1>6. CASE Dial \/ Unwind \/ WaitEnds \/ Close
  <2>1. UNCHANGED <<seen, shown, added, hop>> /\ conns' \subseteq conns /\ stage' # "confirm"
        /\ stage \notin {"handshake", "confirm", "connecting"}
    BY <1>6 DEF Dial, Unwind, WaitEnds, Close, hostVars
  <2>2. \A i \in 1 .. Len(Chain) : KeyChecked(i)' => KeyChecked(i)
    BY <2>1 DEF KeyChecked
  <2>3. AskedOfNew'
    BY <2>1 DEF AskedOfNew
  <2>. QED  BY <1>0, <2>1, <2>2, <2>3, VouchingIsKept
<1>7. CASE Outside \/ UNCHANGED dialVars
  <2>1. UNCHANGED <<seen, shown, added, hop, conns, stage>>
    BY <1>7 DEF Outside, dialVars, hostVars
  <2>2. \A i \in 1 .. Len(Chain) : KeyChecked(i)' => KeyChecked(i)
    BY <2>1 DEF KeyChecked
  <2>3. AskedOfNew'
    BY <1>0, <2>1 DEF AskedOfNew
  <2>. QED  BY <1>0, <2>1, <2>2, <2>3, VouchingIsKept
<1>. QED  BY <1>1, <1>2, <1>3, <1>4, <1>5, <1>6, <1>7 DEF DialNext

(***************************************************************************)
(* The key files. Each leaves the list loaded, or for a reason that is no  *)
(* reason to ask: the agent listed it, or it takes a passphrase.           *)
(***************************************************************************)
LEMMA KeysStep ==
  ASSUME StageTyped, HopsTyped, KeysTyped, KeysInTurn, [DialNext]_dialVars
  PROVE  KeysInTurn'
<1>0. /\ UNCHANGED flags /\ FileKeys \in Seq(Key)
      /\ UNCHANGED hop => FileKeys' = FileKeys
  BY FlagsAreKept, ChainIsKept, ChainIsTyped DEF StageTyped, HopsTyped
<1>1. CASE stage' \notin {"loading", "unlock", "offering"}
  BY <1>1 DEF KeysInTurn
<1>2. CASE ListAgent
  <2>1. stage' = "loading" /\ UNCHANGED hop /\ files' = FileKeys
    BY <1>2 DEF ListAgent, FileKeys
  <2>. QED  BY <1>0, <2>1 DEF KeysInTurn
<1>3. CASE LoadKey
  <2>. DEFINE k == Head(files)
              heldToo == ~Named /\ k \in blobs /\ k \in Halved
              usable == ~heldToo /\ (k \in Encrypted => attended)
              as == [key |-> k, from |-> LoadsAs(k)]
  <2>1. stage = "loading" /\ files # <<>> /\ UNCHANGED <<hop, blobs>>
    BY <1>3 DEF LoadKey
  <2>2. /\ k \in Key /\ files \in Seq(Key) /\ Tail(files) \in Seq(Key)
        /\ Range(files) = {k} \cup Range(Tail(files))
    BY <2>1, RangeOfTail DEF KeysTyped
  <2>3. CASE usable /\ MustUnlock(k)
    BY <1>0, <1>3, <2>1, <2>3 DEF LoadKey, KeysInTurn, MustUnlock
  <2>4. CASE ~(usable /\ MustUnlock(k))
    <3>1. /\ files' = Tail(files) /\ stage' = "loading"
          /\ loaded' = IF usable THEN Append(loaded, as) ELSE loaded
      BY <1>3, <2>1, <2>4 DEF LoadKey
    <3>2. as \in Signer
      BY <2>2 DEF Signer, LoadsAs
    <3>3. usable => Range(loaded') = Range(loaded) \cup {as}
      BY <3>1, <3>2, RangeOfAppend DEF KeysTyped
    <3>4. ~usable => k \in blobs \/ k \in Encrypted
      OBVIOUS
    <3>5. as.key = k
      OBVIOUS
    <3>. HIDE DEF usable, as
    <3>6. ASSUME NEW q \in Range(FileKeys) \ Encrypted
          PROVE  q \in Range(files') \/ q \in blobs' \/ \E s \in Range(loaded') : s.key = q
      <4>1. q \in Range(files) \/ q \in blobs \/ \E s \in Range(loaded) : s.key = q
        BY <2>1, <3>6 DEF KeysInTurn
      <4>2. Range(loaded) \subseteq Range(loaded')
        BY <3>1, <3>3
      <4>3. CASE q = k
        BY <2>1, <3>3, <3>4, <3>5, <3>6, <4>3
      <4>4. CASE q # k
        BY <2>1, <2>2, <3>1, <4>1, <4>2, <4>4
      <4>. QED  BY <4>3, <4>4
    <3>. QED  BY <1>0, <2>1, <3>1, <3>6 DEF KeysInTurn
  <2>. QED  BY <2>3, <2>4
<1>4. CASE Unlock
  <2>. DEFINE as == [key |-> Head(files), from |-> "file"]
  <2>1. /\ stage = "unlock" /\ stage' = "loading" /\ files' = Tail(files)
        /\ UNCHANGED <<hop, blobs>> /\ loaded' \in {loaded, Append(loaded, as)}
    BY <1>4 DEF Unlock
  <2>2. files # <<>> /\ Head(files) \in Encrypted
    BY <2>1 DEF KeysInTurn
  <2>3. Head(files) \in Key /\ Range(files) = {Head(files)} \cup Range(Tail(files))
    BY <2>2, RangeOfTail DEF KeysTyped
  <2>4. Range(loaded) \subseteq Range(loaded')
    <3>1. as \in Signer
      BY <2>3 DEF Signer
    <3>2. Range(Append(loaded, as)) = Range(loaded) \cup {as}
      BY <3>1, RangeOfAppend DEF KeysTyped
    <3>. HIDE DEF as
    <3>. QED  BY <2>1, <3>2
  <2>. HIDE DEF as
  <2>. QED  BY <1>0, <2>1, <2>2, <2>3, <2>4 DEF KeysInTurn
<1>5. CASE OrderKeys
  <2>1. CASE NextMethod
    BY <1>1, <2>1 DEF NextMethod, Fail
  <2>2. CASE stage' = "offering" /\ UNCHANGED <<files, blobs, loaded, hop>>
    BY <1>0, <1>5, <2>2 DEF OrderKeys, KeysInTurn
  <2>. QED  BY <1>5, <2>1, <2>2 DEF OrderKeys
<1>6. CASE Offer
  BY <1>0, <1>1, <1>6 DEF Offer, KeysInTurn, Authenticated, Fail
<1>7. CASE Exhausted \/ Sign \/ Password \/ TimesOut \/ HangsUp
  BY <1>1, <1>7 DEF Exhausted, Sign, Password, TimesOut, HangsUp, NextMethod, Authenticated, Fail
<1>8. CASE DeadlinePasses \/ Outside \/ UNCHANGED dialVars
  BY <1>0, <1>8 DEF DeadlinePasses, Outside, dialVars, keyVars, KeysInTurn
<1>9. CASE \/ Dial \/ ReadKnownHosts \/ Connect \/ Unreachable \/ HostKey \/ Confirm
           \/ WaitEnds \/ Close
  BY <1>1, <1>9 DEF Dial, ReadKnownHosts, Connect, Unreachable, HostKey, Confirm, WaitEnds,
                    Close, Fail
<1>10. CASE Unwind
  BY <1>1, <1>10 DEF Unwind
<1>. QED  BY <1>2, <1>3, <1>4, <1>5, <1>6, <1>7, <1>8, <1>9, <1>10 DEF DialNext

LEMMA OffersStep ==
  ASSUME KeysTyped, KeysInTurn, OffersInTurn, [DialNext]_dialVars
  PROVE  OffersInTurn'
<1>. USE DEF OffersInTurn
<1>1. CASE Forget
  BY <1>1 DEF Forget
<1>2. CASE UNCHANGED <<attended, held, loaded, queue>>
  BY <1>2 DEF Usable
<1>3. CASE ListAgent
  <2>1. /\ UNCHANGED <<attended, loaded, queue>>
        /\ held' \in {held, <<>>, [i \in DOMAIN AgentKeys |->
                                     [key |-> AgentKeys[i], from |-> "agent"]]}
    BY <1>3 DEF ListAgent, personVars
  <2>2. AgentKeys \in [DOMAIN AgentKeys -> Key]
        /\ Len(AgentKeys) \in Nat /\ DOMAIN AgentKeys = 1 .. Len(AgentKeys)
    BY DialAssumption, LenProperties
  <2>3. [i \in DOMAIN AgentKeys |-> [key |-> AgentKeys[i], from |-> "agent"]] \in Seq(Usable)
    BY <2>2 DEF Usable, Signer
  <2>4. <<>> \in Seq(Usable) /\ held \in Seq(Usable) /\ Usable' = Usable
    BY <2>1 DEF Usable
  <2>5. held' \in Seq(Usable)
    BY <2>1, <2>3, <2>4
  <2>. QED  BY <2>1, <2>4, <2>5
<1>4. CASE LoadKey \/ Unlock
  <2>1. UNCHANGED <<attended, held, queue>> /\ files # <<>>
    BY <1>4 DEF LoadKey, Unlock, personVars, KeysInTurn
  <2>2. Head(files) \in Key
    BY <2>1, RangeOfTail DEF KeysTyped
  <2>3. \/ UNCHANGED loaded
        \/ \E s \in Usable : loaded' = Append(loaded, s)
    <3>1. CASE LoadKey
      BY <2>2, <3>1 DEF LoadKey, LoadsAs, Usable, Signer
    <3>2. CASE Unlock
      BY <2>2, <3>2 DEF Unlock, Usable, Signer
    <3>. QED  BY <1>4, <3>1, <3>2
  <2>4. loaded' \in Seq(Usable)
    <3>1. loaded \in Seq(Usable) /\ \A s \in Usable : Append(loaded, s) \in Seq(Usable)
      BY AppendProperties
    <3>. QED  BY <2>3, <3>1
  <2>5. Usable' = Usable
    BY <2>1 DEF Usable
  <2>. QED  BY <2>1, <2>4, <2>5
<1>5. CASE /\ queue' \in {loaded \o held, held \o loaded}
           /\ UNCHANGED <<attended, held, loaded>>
  <2>1. loaded \o held \in Seq(Usable) /\ held \o loaded \in Seq(Usable)
    BY ConcatProperties
  <2>2. Usable' = Usable
    BY <1>5 DEF Usable
  <2>. QED  BY <1>5, <2>1, <2>2
<1>6. CASE /\ queue # <<>> /\ queue' = Tail(queue)
           /\ UNCHANGED <<attended, held, loaded>>
  <2>1. Tail(queue) \in Seq(Usable)
    BY <1>6, RangeOfTail
  <2>2. Usable' = Usable
    BY <1>6 DEF Usable
  <2>. QED  BY <1>6, <2>1, <2>2
<1>7. CASE OrderKeys \/ Exhausted
  BY <1>1, <1>2, <1>5, <1>7 DEF OrderKeys, Exhausted, NextMethod, Fail, personVars, keyVars
<1>8. CASE Offer
  BY <1>1, <1>2, <1>6, <1>8 DEF Offer, Authenticated, Fail, keyVars
<1>9. CASE Sign \/ Password
  BY <1>1, <1>2, <1>9 DEF Sign, Password, NextMethod, Authenticated, Fail, keyVars
<1>10. CASE HostKey \/ Confirm \/ TimesOut \/ HangsUp
  BY <1>1, <1>2, <1>10 DEF HostKey, Confirm, TimesOut, HangsUp, Fail, personVars, keyVars
<1>11. CASE Dial \/ ReadKnownHosts \/ Connect \/ Unreachable \/ DeadlinePasses
            \/ Unwind \/ WaitEnds \/ Close
  BY <1>2, <1>11 DEF Dial, ReadKnownHosts, Connect, Unreachable, DeadlinePasses, Unwind,
                     WaitEnds, Close, personVars, keyVars
<1>12. CASE Outside \/ UNCHANGED dialVars
  BY <1>2, <1>12 DEF Outside, CallerQuits, TakeScreen, personVars, keyVars, dialVars
<1>. QED  BY <1>3, <1>4, <1>7, <1>8, <1>9, <1>10, <1>11, <1>12 DEF DialNext

-----------------------------------------------------------------------------
DialInv ==
  /\ StageTyped /\ HopsTyped /\ HostsTyped /\ KeysTyped
  /\ HopsInTurn /\ HostsAreVouchedFor /\ AskedOfNew /\ KeysInTurn /\ OffersInTurn

LEMMA DialStarts ==
  ASSUME DialInit
  PROVE  DialInv
<1>0. /\ flags \in DialOptions /\ Chain \in Seq(Host) /\ Len(Chain) \in Nat \ {0}
      /\ \A i \in 1 .. Len(Chain) : Chain[i] \in Host
  BY ChainIsTyped DEF DialInit
<1>1. StageTyped
  BY DialAssumption DEF DialInit, StageTyped
<1>2. HopsTyped
  BY <1>0 DEF DialInit, HopsTyped
<1>3. age \in [Host -> 0 .. MaxAge]
  BY DialAssumption DEF DialInit
<1>4. \A h \in Host, t \in HostType : Fresh(h, t) \in HostRecord
  BY <1>3 DEF Fresh, HostRecord
<1>5. DefaultTypes[1] \in HostType
  <2>1. HostType # {}
    BY DialAssumption
  <2>2. DOMAIN DefaultTypes = 1 .. Len(DefaultTypes) /\ Len(DefaultTypes) \in Nat
    BY DialAssumption, LenProperties
  <2>3. 1 \in DOMAIN DefaultTypes
    BY <2>1, <2>2 DEF HostType, Range
  <2>. QED  BY <2>3 DEF HostType, Range
<1>6. HostsTyped
  <2>1. known \subseteq HostRecord
    BY <1>4, DialAssumption DEF DialInit
  <2>2. shown \in [1 .. Len(Chain) -> HostRecord]
    BY <1>0, <1>4, <1>5 DEF DialInit
  <2>. QED  BY <1>3, <2>1, <2>2 DEF DialInit, HostsTyped
<1>7. KeysTyped
  BY DialAssumption DEF DialInit, KeysTyped
<1>8. HopsInTurn
  <2>1. {} = 1 .. 0 /\ 0 \in 0 .. Len(Chain)
    BY <1>0
  <2>. QED  BY <2>1 DEF DialInit, HopsInTurn, Shaking, Reading
<1>9. HostsAreVouchedFor /\ AskedOfNew /\ KeysInTurn
  BY DEF DialInit, HostsAreVouchedFor, KeyChecked, AskedOfNew, KeysInTurn
<1>10. OffersInTurn
  BY DEF DialInit, OffersInTurn
<1>. QED  BY <1>1, <1>2, <1>6, <1>7, <1>8, <1>9, <1>10 DEF DialInv

LEMMA DialKeeps == DialSpec => []DialInv
<1>1. DialInit => DialInv
  BY DialStarts
<1>2. DialInv /\ [DialNext]_dialVars => DialInv'
  BY StageStep, HopsTypeStep, HostsTypeStep, KeysTypeStep, HopsStep, VouchStep, KeysStep,
     OffersStep
     DEF DialInv
<1>. QED  BY <1>1, <1>2, PTL DEF DialSpec

(***************************************************************************)
(* For any hosts, jumps and keys: a dial holds the hops up to the one in   *)
(* hand and nothing when it ended, and talks through or signs in to none   *)
(* whose key was not recorded, or accepted as new.                         *)
(***************************************************************************)
THEOREM DialIsOK == DialSpec => []DialOK
<1>1. DialInv => DialOK
  <2>. SUFFICES ASSUME DialInv PROVE DialOK
    OBVIOUS
  <2>1. Len(Chain) \in Nat
    BY ChainIsTyped DEF DialInv, StageTyped
  <2>. QED  BY <2>1, NothingIsHeldTwice, TypesInGroups DEF DialInv, DialOK
<1>. QED  BY <1>1, DialKeeps, PTL

(***************************************************************************)
(* A person is asked only when there is one, and only what is due: never   *)
(* for a passphrase no host wants or a password while a key that needs     *)
(* none was left out.                                                      *)
(***************************************************************************)
THEOREM QuestionsAreAskedWhenDue == DialSpec => QuestionsAreDue
<1>. DEFINE Asks == stage' # stage /\ stage' \in Questions => attended /\ Due(stage')
<1>1. ASSUME DialInv, [DialNext]_dialVars
      PROVE  Asks
  <2>. SUFFICES ASSUME stage' # stage, stage' \in Questions
                PROVE  attended /\ Due(stage')
    OBVIOUS
  <2>. USE DEF Questions
  <2>1. CASE HostKey
    BY <2>1 DEF HostKey, Fail, Due
  <2>2. CASE LoadKey
    BY <2>2 DEF LoadKey, MustUnlock, Due
  <2>3. CASE OrderKeys \/ Exhausted
    <3>1. CASE NextMethod
      <4>1. stage' = "password" /\ attended
        BY <3>1 DEF NextMethod, Fail
      <4>2. Range(<<>>) = {}
        BY DEF Range
      <4>3. \A k \in Range(FileKeys) \ Encrypted :
              k \in blobs \/ \E s \in Range(loaded) : s.key = k
        BY <1>1, <2>3, <4>2 DEF DialInv, KeysInTurn, OrderKeys, Exhausted
      <4>4. Range(loaded) \subseteq Range(held \o loaded)
        BY <1>1, RangeOfConcat DEF DialInv, KeysTyped
      <4>. QED  BY <4>1, <4>3, <4>4 DEF Due
    <3>2. CASE stage' = "offering"
      BY <3>2
    <3>. QED  BY <2>3, <3>1, <3>2 DEF OrderKeys, Exhausted
  <2>4. CASE Offer
    <3>1. queue # <<>> /\ Head(queue) \in Usable
      BY <1>1, <2>4, RangeOfTail DEF Offer, DialInv, OffersInTurn
    <3>2. /\ stage' = "passphrase" /\ Head(queue).key \in Accepts[Here]
          /\ Head(queue).from \notin {"file", "agent"}
      BY <2>4 DEF Offer, Authenticated, Fail
    <3>. QED  BY <3>1, <3>2 DEF Usable, Signer, Due
  <2>5. CASE Sign
    BY <2>5 DEF Sign, NextMethod, Authenticated, Fail, Due
  <2>6. CASE Password
    BY <2>6 DEF Password, Authenticated, Fail
  <2>7. CASE \/ Dial \/ ReadKnownHosts \/ Connect \/ Unreachable \/ Confirm \/ ListAgent \/ Unlock
    BY <2>7 DEF Dial, ReadKnownHosts, Connect, Unreachable, Confirm, ListAgent, Unlock, Fail
  <2>8. CASE \/ DeadlinePasses \/ TimesOut \/ HangsUp \/ WaitEnds \/ Close
             \/ Outside \/ UNCHANGED dialVars
    BY <2>8 DEF DeadlinePasses, TimesOut, HangsUp, WaitEnds, Close, Outside, dialVars, Fail
  <2>9. CASE Unwind
    BY <2>9 DEF Unwind
  <2>. QED  BY <1>1, <2>1, <2>2, <2>3, <2>4, <2>5, <2>6, <2>7, <2>8, <2>9 DEF DialNext
<1>. QED  BY <1>1, DialKeeps, PTL DEF DialSpec, QuestionsAreDue

=============================================================================
