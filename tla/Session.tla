------------------------------- MODULE Session -------------------------------
(***************************************************************************)
(* internal/session: the supervisor that owns the connection to one host,  *)
(* and the remote end it leaves its sockets on (internal/sshx/remote.go).  *)
(*                                                                         *)
(* Session.Run and serveOnce are one goroutine: its steps are the calls it *)
(* makes. Beside it run, for the life of a connection, the Run of each     *)
(* attached service and the background goroutines (control socket,         *)
(* keepalive, socket watcher, one per socket a service published), which   *)
(* all report into one channel. Around it: the link, which can be reset or *)
(* swallow everything without a word; sshd, which keeps the sockets of a   *)
(* link it has not missed yet; and another devtun on the same host.        *)
(*                                                                         *)
(* Left out: what the shim's upload writes, what is asked of the remote    *)
(* shell's rc and remembered of it, events, and the goroutines of a        *)
(* connection already closed, which have nobody left to report to.         *)
(*                                                                         *)
(* An operator whose comment begins "Mutation:" is the definition after it *)
(* with one plausible slip, there to show that a property notices it.      *)
(***************************************************************************)
EXTENDS Integers, FiniteSets, SequencesExt

CONSTANTS
  Service,       \* the services of this devtun
  Order,         \* the order they are attached in
  WithSocket,    \* the services that publish a socket of their own
  Control,       \* the control socket's path
  Options,       \* how devtun may be started, and on what box
  MaxDelay       \* the longest wait between attempts; the shortest is 1

Path == {Control} \cup WithSocket
Holder == {"us", "ghost", "rival"}

ASSUME SessionAssumption ==
  /\ Order \in Seq(Service)
  /\ \A s \in Service : \E i \in DOMAIN Order : Order[i] = s
  /\ \A i, j \in DOMAIN Order : Order[i] = Order[j] => i = j
  /\ WithSocket \subseteq Service /\ Control \notin Service
  /\ MaxDelay \in Nat \ {0}

(***************************************************************************)
(* reconnect, takeOver: the flags. forwards: sshd lets sockets be          *)
(* forwarded. tells: the box can say whether a socket is answered on.      *)
(* removes: it has what RemoveSocket tests a socket with.                  *)
(***************************************************************************)
ASSUME OptionsAssumption ==
  Options \subseteq [reconnect : BOOLEAN, takeOver : BOOLEAN, forwards : BOOLEAN,
                     tells : BOOLEAN, removes : BOOLEAN]

VARIABLES
  opt,           \* the options of this run
  pc,            \* where the supervisor is
  at,            \* the service in hand while attaching and publishing
  attempt,       \* attempts since the last connection, capped at 2
  status,        \* Status.State
  delay,         \* the wait before the next attempt
  quit,          \* whether the context is done
  link,          \* the SSH connection
  attached,      \* the services with an instance, in the order of Attach
  life,          \* life[s]: what the instance of s is doing
  own,           \* the own sockets published on this connection
  background,    \* background goroutines that have not reported
  results,       \* results in the failures channel
  cause,         \* why serveOnce returns
  tidying,       \* how far the unpublishing of the path in hand is
  file,          \* file[p]: what the remote path p is
  listening      \* listening[p]: whose sshd still listens on what was p

superVars == <<opt, attempt, status, delay, quit, tidying>>
serveVars == <<at, attached, life, own, background, results, cause>>
remoteVars == <<file, listening>>
sessionVars == <<pc, superVars, serveVars, link, remoteVars>>

Fatal == {"inUse", "unknown", "denied"}

SessionTypeOK ==
  /\ opt \in Options
  /\ pc \in {"dialing", "waiting", "probing", "checking", "binding", "attaching",
             "publishing", "ownBinding", "setup", "asking", "serving", "stopping",
             "closing", "unpublishing", "removing", "hangup", "returned"}
  /\ at \in 1 .. Len(Order) + 1 /\ attempt \in 0 .. 2
  /\ status \in {"connecting", "reconnecting", "connected", "disconnected", "stopped"}
  /\ delay \in 1 .. MaxDelay /\ quit \in BOOLEAN
  /\ link \in {"none", "up", "blackholed", "lost"}
  /\ attached \in Seq(Service)
  /\ life \in [Service -> {"none", "attached", "running", "returned"}]
  /\ own \in Seq(WithSocket)
  /\ background \in 0 .. 3 + Cardinality(WithSocket)
  /\ results \in 0 .. 3 + Cardinality(Service) + Cardinality(WithSocket)
  /\ cause \in {"none", "nil", "failed"} \cup Fatal
  /\ tidying \in {"close", "test", "rm", "late"}
  /\ file \in [Path -> Holder \cup {"none", "dead", "orphan"}]
  /\ listening \in [Path -> SUBSET Holder]
  /\ \A p \in Path : file[p] \in Holder => file[p] \in listening[p]

SessionInit ==
  /\ opt \in Options
  /\ pc = "dialing" /\ at = 1 /\ attempt = 1 /\ status = "connecting"
  /\ delay = 1 /\ quit = FALSE
  /\ link = "none"
  /\ attached = <<>> /\ life = [s \in Service |-> "none"] /\ own = <<>>
  /\ background = 0 /\ results = 0 /\ cause = "none" /\ tidying = "close"
  /\ file = [p \in Path |-> "none"]
  /\ listening = [p \in Path |-> {}]
-----------------------------------------------------------------------------
(***************************************************************************)
(* Session.Run. How long a wait is, and that a token in the retry channel  *)
(* ends it early, is left out: a wait ends when it ends.                   *)
(***************************************************************************)
Return(state) == pc' = "returned" /\ status' = state

NextAttempt == IF attempt < 2 THEN attempt + 1 ELSE 2

Redial ==
  /\ pc' = "dialing"
  /\ attempt' = NextAttempt
  /\ status' = IF NextAttempt = 1 THEN "connecting" ELSE "reconnecting"

Connected ==
  /\ pc = "dialing"
  /\ pc' = "probing" /\ status' = "connected" /\ attempt' = 0
  /\ link' = "up" /\ cause' = "none"
  /\ UNCHANGED <<opt, delay, quit, tidying, at, attached, life, own, background, results,
                 remoteVars>>

ConnectFails ==
  /\ pc = "dialing" /\ ~quit
  /\ status' = "disconnected"
  /\ pc' \in (IF opt.reconnect THEN {"waiting", "returned"} ELSE {"returned"})
  /\ cause' = IF pc' = "returned" /\ opt.reconnect THEN "denied" ELSE "failed"
  /\ UNCHANGED <<opt, attempt, delay, quit, tidying, at, attached, life, own, background,
                 results, link, remoteVars>>

\* Mutation: the delay is doubled without a ceiling.
NextDelayUncapped == 2 * delay

NextDelay == IF 2 * delay > MaxDelay THEN MaxDelay ELSE 2 * delay

Wait ==
  /\ pc = "waiting" /\ ~quit
  /\ Redial
  /\ delay' = NextDelay
  /\ UNCHANGED <<opt, quit, tidying, serveVars, link, remoteVars>>

Stopped ==
  /\ quit /\ Return("stopped")
  /\ UNCHANGED <<opt, attempt, delay, quit, tidying, serveVars, link, remoteVars>>

\* A dial looks at the context while it connects, and not in its handshake.
DialStops == pc = "dialing" /\ Stopped

WaitStops == pc = "waiting" /\ Stopped

Quit ==
  /\ ~quit /\ pc # "returned"
  /\ quit' = TRUE
  /\ UNCHANGED <<pc, opt, attempt, status, delay, tidying, serveVars, link, remoteVars>>

\* Mutation: a connection that ended without an error is the end of it.
GoOnAfterError == opt.reconnect /\ cause = "failed"

GoOn == opt.reconnect /\ cause \notin Fatal

(***************************************************************************)
(* The last deferred call of serveOnce, and what Run makes of its result.  *)
(* A connection that held for a minute starts the backoff again.           *)
(***************************************************************************)
DropListeners(who, left) ==
  /\ listening' = [p \in Path |-> listening[p] \ {who}]
  /\ file' = [p \in Path |-> IF file[p] = who THEN left ELSE file[p]]

HangUp ==
  /\ pc = "hangup"
  /\ link' = "none"
  /\ DropListeners("us", "dead")
  /\ \/ quit /\ Return("stopped") /\ UNCHANGED delay
     \/ ~quit /\ ~opt.reconnect /\ Return(status) /\ UNCHANGED delay
     \/ ~quit /\ opt.reconnect /\ ~GoOn /\ Return("stopped") /\ UNCHANGED delay
     \/ /\ ~quit /\ GoOn
        /\ pc' = "waiting" /\ status' = "disconnected"
        /\ delay' \in {1, delay}
  /\ UNCHANGED <<opt, attempt, quit, tidying, serveVars>>
-----------------------------------------------------------------------------
(***************************************************************************)
(* serveOnce, up to the point where everything runs. A call over the link  *)
(* fails when the link is lost, and does not return while it is            *)
(* blackholed; a done context makes it fail.                               *)
(***************************************************************************)
Answers == link = "up" /\ ~quit

\* Before a socket is published there is nothing to undo but the link.
FailsWith(why) ==
  /\ cause' = why /\ pc' = "hangup"
  /\ UNCHANGED <<at, attached, life, own, background, results>>

Probed ==
  /\ pc = "probing" /\ link # "blackholed"
  /\ \/ /\ Answers
        /\ pc' = IF opt.takeOver THEN "binding" ELSE "checking"
        /\ UNCHANGED serveVars
     \/ FailsWith("failed")
  /\ UNCHANGED <<superVars, link, remoteVars>>

(***************************************************************************)
(* ListenSocket. The kernel lists a socket by the path it was bound to,    *)
(* whatever the path is now.                                               *)
(***************************************************************************)
Busy(p) == file[p] # "none" /\ listening[p] # {}

Checked ==
  /\ pc = "checking" /\ link # "blackholed"
  /\ \/ /\ Answers /\ opt.tells /\ ~Busy(Control)
        /\ pc' = "binding" /\ UNCHANGED serveVars
     \/ Answers /\ opt.tells /\ Busy(Control) /\ FailsWith("inUse")
     \/ (~Answers \/ ~opt.tells) /\ FailsWith("unknown")
  /\ UNCHANGED <<superVars, link, remoteVars>>

Bind(p) ==
  /\ file' = [file EXCEPT ![p] = "us"]
  /\ listening' = [listening EXCEPT ![p] = @ \cup {"us"}]

(***************************************************************************)
(* It fails before the path is cleared, or after, or with the socket       *)
(* already there and its mode not set; when it is the link that failed,    *)
(* sshd may hold that socket a while longer.                               *)
(***************************************************************************)
BindFails(p) ==
  \/ file' \in {file, [file EXCEPT ![p] = "none"], [file EXCEPT ![p] = "orphan"]}
     /\ UNCHANGED listening
  \/ /\ link = "lost"
     /\ file' = [file EXCEPT ![p] = "ghost"]
     /\ listening' = [listening EXCEPT ![p] = @ \cup {"ghost"}]

(***************************************************************************)
(* Any error of the forward itself names the setting that may forbid it,   *)
(* and an error that names it is fatal.                                    *)
(***************************************************************************)
Bound ==
  /\ pc = "binding" /\ link # "blackholed"
  /\ \/ /\ Answers /\ opt.forwards
        /\ Bind(Control)
        /\ pc' = "attaching" /\ at' = 1
        /\ UNCHANGED <<attached, life, own, background, results, cause>>
     \/ /\ link = "lost" \/ ~opt.forwards
        /\ file' = [file EXCEPT ![Control] = "none"] /\ UNCHANGED listening
        /\ FailsWith("denied")
     \/ BindFails(Control) /\ FailsWith("failed")
  /\ UNCHANGED <<superVars, link>>

(***************************************************************************)
(* attachAll: a service that is off, cannot work here or will not start is *)
(* skipped.                                                                *)
(***************************************************************************)
Attach ==
  /\ pc = "attaching" /\ at <= Len(Order)
  /\ attached' = Append(attached, Order[at])
  /\ life' = [life EXCEPT ![Order[at]] = "attached"]
  /\ at' = at + 1
  /\ UNCHANGED <<pc, own, background, results, cause, superVars, link, remoteVars>>

Skip ==
  /\ pc = "attaching" /\ at <= Len(Order)
  /\ at' = at + 1
  /\ UNCHANGED <<pc, attached, life, own, background, results, cause, superVars, link,
                 remoteVars>>

AllAttached ==
  /\ pc = "attaching" /\ at > Len(Order)
  /\ pc' = "publishing" /\ at' = 1
  /\ UNCHANGED <<attached, life, own, background, results, cause, superVars, link,
                 remoteVars>>

(***************************************************************************)
(* publishOwnSockets: ListenSocket again for each service that has one;    *)
(* one that cannot be published is skipped.                                *)
(***************************************************************************)
OwnMoves(to, next) ==
  /\ pc' = to /\ at' = next
  /\ UNCHANGED <<attached, life, background, results, cause, superVars, link>>

PublishNext ==
  /\ pc = "publishing" /\ at <= Len(attached)
  /\ LET s == attached[at]
     IN  \/ s \notin WithSocket /\ OwnMoves("publishing", at + 1)
         \/ /\ s \in WithSocket /\ link # "blackholed"
            /\ opt.takeOver \/ (Answers /\ opt.tells /\ ~Busy(s))
            /\ OwnMoves("ownBinding", at)
         \/ /\ s \in WithSocket /\ link # "blackholed" /\ ~opt.takeOver
            /\ ~Answers \/ ~opt.tells \/ Busy(s)
            /\ OwnMoves("publishing", at + 1)
  /\ UNCHANGED <<own, remoteVars>>

OwnBound ==
  /\ pc = "ownBinding" /\ link # "blackholed"
  /\ OwnMoves("publishing", at + 1)
  /\ \/ /\ Answers /\ opt.forwards
        /\ Bind(attached[at])
        /\ own' = Append(own, attached[at])
     \/ BindFails(attached[at]) /\ UNCHANGED own

AllPublished ==
  /\ pc = "publishing" /\ at > Len(attached)
  /\ OwnMoves("setup", 1)
  /\ UNCHANGED <<own, remoteVars>>

(***************************************************************************)
(* reportSetup. The question about the shell's rc is put to a person, who  *)
(* may take for ever; nothing serves the connection until they answer.     *)
(***************************************************************************)
SetupAsks ==
  /\ pc = "setup" /\ Answers
  /\ OwnMoves("asking", 1)
  /\ UNCHANGED <<own, remoteVars>>

(***************************************************************************)
(* One result is taken from the channel, however many come; it has a place *)
(* for each goroutine, so that none is left blocked once nobody reads.     *)
(***************************************************************************)
Background == 3 + Len(own)

Serve ==
  /\ pc' = "serving"
  /\ life' = [s \in Service |-> IF life[s] = "attached" THEN "running" ELSE life[s]]
  /\ background' = Background /\ results' = 0
  /\ UNCHANGED <<at, attached, own, cause, superVars, link, remoteVars>>

SetupDone == pc = "setup" /\ link # "blackholed" /\ Serve

PersonAnswers == pc = "asking" /\ Serve

SetupCancelled == pc = "asking" /\ quit /\ Serve
-----------------------------------------------------------------------------
(***************************************************************************)
(* What runs while a connection is served.                                 *)
(***************************************************************************)
\* Mutation: the channel has a place too few.
CapacityShort == Len(attached) + Len(own) + 2

Capacity == Len(attached) + Len(own) + 3

\* The result that ends the connection is read at once; later ones stay.
Report(why) ==
  \/ /\ pc = "serving" /\ ~quit
     /\ pc' = "stopping" /\ cause' = why /\ UNCHANGED results
  \/ /\ pc # "serving" \/ quit
     /\ results < Capacity /\ results' = results + 1
     /\ UNCHANGED <<pc, cause>>

Running(s) == life[s] = "running"

RunReturns(s) ==
  /\ Running(s)
  /\ \E why \in {"nil", "failed"} : Report(why)
  /\ life' = [life EXCEPT ![s] = "returned"]
  /\ UNCHANGED <<superVars, at, attached, own, background, link, remoteVars>>

BackgroundReturns ==
  /\ background > 0 /\ background' = background - 1
  /\ UNCHANGED <<superVars, at, attached, life, own, link, remoteVars>>

\* A socket's Accept fails when the connection under it does.
AcceptFails ==
  /\ pc = "serving" /\ link = "lost"
  /\ Report("failed") /\ BackgroundReturns

\* A ping is refused, or unanswered for as long as it is waited for.
KeepAliveFails ==
  /\ pc = "serving" /\ link \in {"blackholed", "lost"}
  /\ Report("failed") /\ BackgroundReturns

\* Mutation: only the control socket is watched.
WatchedControl == {Control}

Watched == {Control} \cup {own[i] : i \in DOMAIN own}

SocketMissing ==
  /\ pc = "serving" /\ link = "up"
  /\ \E p \in Watched : file[p] = "none"
  /\ Report("failed") /\ BackgroundReturns

Cancelled ==
  /\ pc = "stopping" \/ (pc = "serving" /\ quit)
  /\ Report("nil") /\ BackgroundReturns

StopsForQuit ==
  /\ pc = "serving" /\ quit
  /\ pc' = "stopping" /\ cause' = "nil"
  /\ UNCHANGED <<superVars, at, attached, life, own, background, results, link, remoteVars>>
-----------------------------------------------------------------------------
(***************************************************************************)
(* The deferred calls of serveOnce, last first.                            *)
(***************************************************************************)
\* Mutation: services are closed without waiting for them.
AllReturnedAlways == TRUE

AllReturned == \A s \in Service : ~Running(s)

TearsDown(from, to) ==
  /\ pc = from /\ pc' = to
  /\ UNCHANGED <<superVars, at, cause, link>>

\* Nothing waits for a background goroutine, or is told from here on.
Joined ==
  /\ AllReturned
  /\ TearsDown("stopping", "closing")
  /\ background' = 0 /\ results' = 0
  /\ UNCHANGED <<attached, life, own, remoteVars>>

CloseInstance ==
  /\ attached # <<>>
  /\ TearsDown("closing", "closing")
  /\ life' = [life EXCEPT ![Last(attached)] = "none"]
  /\ attached' = Front(attached)
  /\ UNCHANGED <<own, background, results, remoteVars>>

AllClosed ==
  /\ attached = <<>>
  /\ TearsDown("closing", "unpublishing")
  /\ UNCHANGED <<attached, life, own, background, results, remoteVars>>

(***************************************************************************)
(* Each published path in turn, those of the services first: its listener  *)
(* is closed; RemoveSocket's script finds out whether somebody answers on  *)
(* what is there; and removes whatever is there by then. Over a lost link  *)
(* no call does anything; over a blackholed one none returns.              *)
(***************************************************************************)
InHand == IF pc = "unpublishing" THEN Head(own) ELSE Control

Unpublishing == (pc = "unpublishing" /\ own # <<>>) \/ pc = "removing"

CloseListener ==
  /\ Unpublishing /\ tidying = "close" /\ link # "blackholed"
  /\ tidying' = "test"
  /\ IF link = "up"
     THEN /\ listening' = [listening EXCEPT ![InHand] = @ \ {"us"}]
          /\ file' = [file EXCEPT ![InHand] = IF @ = "us" THEN "dead" ELSE @]
     ELSE UNCHANGED remoteVars
  /\ UNCHANGED <<pc, opt, attempt, status, delay, quit, serveVars, link>>

\* Mutation: whatever is at the path is removed.
RemovableAlways(p) == opt.removes

\* Mutation: the tidying up is done with the context that has ended.
RemovableUnlessQuit(p) == opt.removes /\ ~quit /\ file[p] \in {"dead", "orphan"}

\* A path with nobody behind it, once our own listener is closed.
Removable(p) == opt.removes /\ file[p] \in {"dead", "orphan"}

PathDone ==
  /\ tidying' = "close"
  /\ \/ pc = "unpublishing" /\ own' = Tail(own) /\ UNCHANGED pc
     \/ pc = "removing" /\ pc' = "hangup" /\ UNCHANGED own
  /\ UNCHANGED <<opt, attempt, status, delay, quit, at, attached, life, background, results,
                 cause, link>>

FoundUnused ==
  /\ Unpublishing /\ tidying = "test"
  /\ link = "up" /\ Removable(InHand)
  /\ tidying' = "rm"
  /\ UNCHANGED <<pc, opt, attempt, status, delay, quit, serveVars, link, remoteVars>>

LeftAlone ==
  /\ Unpublishing /\ tidying = "test"
  /\ link = "lost" \/ (link = "up" /\ ~Removable(InHand))
  /\ PathDone
  /\ UNCHANGED remoteVars

\* The script is on the remote: it may do its part though the link is lost.
Removed ==
  /\ Unpublishing /\ tidying \in {"rm", "late"} /\ link # "blackholed"
  /\ \/ file' = [file EXCEPT ![InHand] = "none"]
     \/ link = "lost" /\ UNCHANGED file
  /\ PathDone
  /\ UNCHANGED listening

AllUnpublished ==
  /\ own = <<>>
  /\ TearsDown("unpublishing", "removing")
  /\ UNCHANGED <<attached, life, own, background, results, remoteVars>>
-----------------------------------------------------------------------------
(***************************************************************************)
(* The world: the link, sshd, the other devtun.                            *)
(***************************************************************************)
World == UNCHANGED <<pc, superVars, serveVars>>

\* This end's listeners are, for now, still sshd's; a file it was about to
\* remove is one that nobody will.
Haunt ==
  /\ listening' = [p \in Path |-> IF "us" \in listening[p]
                                  THEN (listening[p] \ {"us"}) \cup {"ghost"}
                                  ELSE listening[p]]
  /\ file' = [p \in Path |-> CASE file[p] = "us" -> "ghost"
                               [] file[p] = "dead" -> "orphan"
                               [] OTHER -> file[p]]

LinkReset == link = "up" /\ link' = "lost" /\ Haunt /\ World

LinkSwallows == link = "up" /\ link' = "blackholed" /\ Haunt /\ World

\* The kernel gives up what it was asked to send and nobody acknowledged.
CallsAreWaiting ==
  pc \in {"probing", "checking", "binding", "attaching", "publishing", "ownBinding", "setup",
          "serving", "stopping", "closing", "unpublishing", "removing"}

TransportGivesUp ==
  /\ link = "blackholed" /\ CallsAreWaiting
  /\ link' = "lost"
  /\ UNCHANGED remoteVars /\ World

SshdMissesUs ==
  /\ \E p \in Path : "ghost" \in listening[p]
  /\ DropListeners("ghost", "orphan")
  /\ UNCHANGED link /\ World

\* The control socket first: without it, it does not stay. What it binds after
\* our test, and before the rm that follows from it, is "late" to be seen.
RivalBinds(p) ==
  /\ "rival" \notin listening[p]
  /\ p = Control \/ "rival" \in listening[Control]
  /\ file' = [file EXCEPT ![p] = "rival"]
  /\ listening' = [listening EXCEPT ![p] = @ \cup {"rival"}]
  /\ tidying' = IF tidying = "rm" /\ p = InHand THEN "late" ELSE tidying
  /\ UNCHANGED <<pc, opt, attempt, status, delay, quit, serveVars, link>>

\* It tidies up after itself, or dies.
RivalLeaves ==
  /\ \E p \in Path : "rival" \in listening[p]
  /\ \E left \in {"none", "orphan"} : DropListeners("rival", left)
  /\ UNCHANGED link /\ World
-----------------------------------------------------------------------------
SetUpStep ==
  \/ Probed \/ Checked \/ Bound \/ Attach \/ Skip \/ AllAttached
  \/ PublishNext \/ OwnBound \/ AllPublished \/ SetupDone \/ SetupCancelled

TearDownStep ==
  \/ StopsForQuit \/ Joined \/ CloseInstance \/ AllClosed
  \/ CloseListener \/ FoundUnused \/ LeftAlone \/ Removed \/ AllUnpublished \/ HangUp

Dials == Connected \/ ConnectFails \/ DialStops

Supervise == Wait \/ WaitStops \/ SetUpStep \/ TearDownStep

WorldStep ==
  \/ LinkReset \/ LinkSwallows \/ TransportGivesUp \/ SshdMissesUs
  \/ (\E p \in Path : RivalBinds(p)) \/ RivalLeaves

SessionNext ==
  \/ Dials \/ Supervise
  \/ \E s \in Service : RunReturns(s)
  \/ AcceptFails \/ KeepAliveFails \/ SocketMissing \/ Cancelled
  \/ SetupAsks \/ PersonAnswers \/ Quit
  \/ WorldStep

(***************************************************************************)
(* Goroutines are scheduled and timers fire: the supervisor's next call    *)
(* over a link returns, a Run returns once its context is cancelled (its   *)
(* contract), a keepalive or a socket check that has something to say says *)
(* it, and TCP does not retransmit for ever. That people answer, that a    *)
(* dial ends, with a connection or without, even when the context has      *)
(* ended, and what sshd and the other devtun do is not assumed.            *)
(***************************************************************************)
SessionFairness ==
  /\ WF_sessionVars(Supervise)
  /\ \A s \in Service : WF_sessionVars((pc # "serving" \/ quit) /\ RunReturns(s))
  /\ WF_sessionVars(KeepAliveFails) /\ WF_sessionVars(SocketMissing)
  /\ WF_sessionVars(TransportGivesUp)

SessionSpec == SessionInit /\ [][SessionNext]_sessionVars /\ SessionFairness
-----------------------------------------------------------------------------
(***************************************************************************)
(* Whatever ends a connection and at whatever moment, every instance is    *)
(* attached, run and closed as internal/service promises.                  *)
(***************************************************************************)
Life == INSTANCE Lifecycle WITH Service <- Service, attached <- attached, life <- life

KeepsLifecycle == Life!LifeSpec

(***************************************************************************)
(* Ctrl-C ends devtun: wherever it finds the supervisor but in a dial,     *)
(* which ends when it ends, Run returns, even with the link blackholed or  *)
(* the question about the shell's rc unanswered, and no goroutine is left  *)
(* with nowhere to put its result. After a dial that connects all the same *)
(* it returns too.                                                         *)
(***************************************************************************)
QuitReturns == (quit /\ pc # "dialing") ~> pc = "returned"

(***************************************************************************)
(* Connector.Connect must honour ctx (internal/session/session.go), and    *)
(* the Dial it comes to does so only until it has a TCP connection.        *)
(***************************************************************************)
QuitEndsADial == (quit /\ pc = "dialing") ~> pc # "dialing"

(***************************************************************************)
(* A link that goes while it is being served, noisily or without a word,   *)
(* is replaced: a new connection is tried, unless somebody quits.          *)
(***************************************************************************)
LossIsRetried ==
  (pc = "serving" /\ link \in {"blackholed", "lost"} /\ opt.reconnect)
    ~> (pc = "dialing" \/ quit)

(***************************************************************************)
(* A published socket that is no longer on the remote is not left at that: *)
(* the connection is given up for a new one, or something is bound there.  *)
(***************************************************************************)
LostSocketIsNoticed ==
  \A p \in Path :
    (pc = "serving" /\ file[p] = "none" /\ "us" \in listening[p])
      ~> (pc # "serving" \/ file[p] # "none" \/ link # "up")

(***************************************************************************)
(* A connection that ends while its link works, by Ctrl-C at any moment or *)
(* by anything else, leaves no dead socket of its own on a box that can    *)
(* tell one from a live one: the only one there is the one in hand.        *)
(***************************************************************************)
NothingLeftBehind ==
  opt.removes => \A p \in Path : file[p] = "dead" =>
    link = "up" /\ Unpublishing /\ p = InHand /\ tidying \in {"test", "rm"}

(***************************************************************************)
(* Well typed, and however a connection ended over a link that works,      *)
(* nothing of it stays on the remote.                                      *)
(***************************************************************************)
SessionOK == SessionTypeOK /\ NothingLeftBehind

(***************************************************************************)
(* The socket of a devtun that had taken ours over when RemoveSocket asked *)
(* is not removed by our leaving: it goes when its owner does, or is       *)
(* displaced by a publication. One bound between the question and the rm,  *)
(* which are two commands of a shell, goes with our leaving.               *)
(***************************************************************************)
RivalsAreNotRemoved ==
  [][\A p \in Path :
       file[p] = "rival" /\ file'[p] # "rival" /\ "rival" \in listening'[p]
         => pc \in {"binding", "ownBinding"} \/ (tidying = "late" /\ p = InHand)]_sessionVars

(***************************************************************************)
(* RemoveSocket cleans up only if the socket is still ours                 *)
(* (internal/sshx/remote.go).                                              *)
(***************************************************************************)
OnlyOursIsRemoved ==
  [][\A p \in Path :
       file[p] = "rival" /\ file'[p] # "rival" /\ "rival" \in listening'[p]
         => pc \in {"binding", "ownBinding"}]_sessionVars

(***************************************************************************)
(* ErrSocketInUse says another devtun session is already attached to this  *)
(* host (internal/sshx/remote.go).                                         *)
(***************************************************************************)
InUseMeansARival ==
  [][cause # "inUse" /\ cause' = "inUse" => "rival" \in listening[Control]]_sessionVars

(***************************************************************************)
(* internal/session/fatal.go: a laptop that sleeps, wifi that comes and    *)
(* goes, a box that reboots: none of that should need a human. A session   *)
(* that reconnects gives up only when a setting of sshd forbids the socket *)
(* or the box cannot say whether it is taken.                              *)
(***************************************************************************)
GivesUpForASetting ==
  [][cause' \in {"unknown", "denied"} /\ cause' # cause /\ pc # "dialing" /\ ~quit =>
       ~opt.tells \/ ~opt.forwards]_sessionVars
=============================================================================
