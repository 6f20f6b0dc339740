-------------------------------- MODULE Feed --------------------------------
(***************************************************************************)
(* internal/event and everything that reads it: the bus every part of      *)
(* devtun speaks to, the interface (tui/events.go), the log of a headless  *)
(* run (render), the event stream of an open page and the state the board  *)
(* keeps of each service (web).                                            *)
(*                                                                         *)
(* Emit records under one lock and delivers under another, so what is      *)
(* recorded first may be delivered second, and an event can be in the      *)
(* history before a subscriber has it. Events are numbered as recorded.    *)
(***************************************************************************)
EXTENDS Integers, Sequences, FiniteSets, Functions, SequencesExt

CONSTANTS
  Emitter,       \* goroutines that emit
  Session,       \* the one that runs the session, and speaks of services
  Service,       \* services it speaks of
  Page,          \* streams a page may open, each used once
  Party,         \* sets of readers a run may have: one terminal, board and pages
  Limit,         \* events the bus retains
  Buffer,        \* events queued for one page
  MaxSaid        \* bound on the events of a behaviour

ASSUME FeedAssumption ==
  /\ Session \in Emitter /\ Party \subseteq SUBSET ({"screen", "log", "board"} \cup Page)
  /\ Page \cap {"screen", "log", "board"} = {}
  /\ Limit \in Nat \ {0} /\ Buffer \in Nat \ {0} /\ MaxSaid \in Nat

Terminal == {"screen", "log"}
Reader == Terminal \cup Page
Subscriber == Reader \cup {"board"}
Event == [by : Emitter, kind : {"started", "stopped", "other"}, of : SUBSET Service]

VARIABLES
  said,          \* events recorded so far, in order
  subs,          \* the bus's subscribers, in registration order
  emit,          \* emit[m]: where a call of Emit is, and whom it still calls
  party,         \* the readers of this run
  at,            \* at[r]: how far reader r has come with opening
  queue,         \* queue[r]: events caught for r and not yet taken
  batch,         \* batch[r]: events taken, about to be shown
  shown,         \* shown[r]: the lines r has shown
  wake,          \* the one-place channel that wakes the interface's pump
  stuck,         \* whether the log's output is not being read
  dropped,       \* events dropped at a page's full queue
  watch,         \* how far watchServices has come
  running,       \* running[v]: services the screen, the board take as running
  since          \* history: what was said when r subscribed, read the history

busVars == <<said, subs, emit>>
readVars == <<at, queue, batch, shown, wake, since>>
feedVars == <<busVars, readVars, party, stuck, dropped, watch, running>>

Idle == [step |-> "idle", n |-> 0, to |-> <<>>]

FeedInit ==
  /\ said = <<>> /\ subs = <<>> /\ emit = [m \in Emitter |-> Idle]
  /\ party \in Party
  /\ at = [r \in Reader |-> "shut"]
  /\ queue = [r \in Reader |-> <<>>] /\ batch = [r \in Reader |-> <<>>]
  /\ shown = [r \in Reader |-> <<>>]
  /\ wake = FALSE /\ stuck = FALSE /\ dropped = {} /\ watch = "new"
  /\ running = [v \in {"screen", "board"} |-> {}]
  /\ since = [r \in Reader \cup {"board"} |-> [sub |-> 0, read |-> 0]]

-----------------------------------------------------------------------------
(***************************************************************************)
(* The bus.                                                                *)
(***************************************************************************)
\* The history: the last Limit events.
Retained == [i \in 1..(IF Len(said) > Limit THEN Limit ELSE Len(said)) |->
               (IF Len(said) > Limit THEN Len(said) - Limit ELSE 0) + i]

Says(m) ==
  IF m = Session
  THEN [by : {m}, kind : {"started", "stopped"}, of : {{s} : s \in Service}]
         \cup [by : {m}, kind : {"stopped"}, of : {Service}]
  ELSE [by : {m}, kind : {"other"}, of : {{}}]

\* Emit, first half: the event is stamped and kept, and the list of those to
\* call is copied.
Record(m) ==
  /\ emit[m].step = "idle" /\ Len(said) < MaxSaid
  /\ \E e \in Says(m) : said' = Append(said, e)
  /\ emit' = [emit EXCEPT ![m] = [step |-> "waiting", n |-> Len(said) + 1, to |-> subs]]
  /\ UNCHANGED <<subs, readVars, party, stuck, dropped, watch, running>>

\* The delivery lock.
Free == \A m \in Emitter : emit[m].step # "delivering"
Deliver(m) ==
  /\ emit[m].step = "waiting" /\ Free
  /\ emit' = [emit EXCEPT ![m].step = "delivering"]
  /\ UNCHANGED <<said, subs, readVars, party, stuck, dropped, watch, running>>

\* noteService: what an event says of the services that run. One stops as
\* unavailable, attach-failed or disabled; all of them with the link.
Note(set, e) ==
  CASE e.kind = "started" -> set \cup e.of
    [] e.kind = "stopped" -> set \ e.of
    [] OTHER -> set
\* All of a history, one by one: what was started and not stopped after that.
NoteAll(ns) ==
  {s \in Service : \E i \in DOMAIN ns :
     /\ said[ns[i]].kind = "started" /\ s \in said[ns[i]].of
     /\ \A j \in DOMAIN ns : j > i => ~(said[ns[j]].kind = "stopped" /\ s \in said[ns[j]].of)}

\* As if the wake channel had no place: a nudge while the pump is busy is lost.
PushUnbuffered(n) ==
  /\ IF at["screen"] = "closed" THEN UNCHANGED <<queue, wake>>
     ELSE /\ queue' = [queue EXCEPT !["screen"] = Append(@, n)]
          /\ wake' = (wake \/ (at["screen"] = "pumping" /\ batch["screen"] = <<>>))
  /\ UNCHANGED <<at, batch, shown, since, dropped, running>>

\* push: queue and wake, unless the forwarder was closed.
Push(n) ==
  /\ IF at["screen"] = "closed" THEN UNCHANGED <<queue, wake>>
     ELSE queue' = [queue EXCEPT !["screen"] = Append(@, n)] /\ wake' = TRUE
  /\ UNCHANGED <<at, batch, shown, since, dropped, running>>

\* The renderer writes, and waits for whoever reads its output.
WriteLine(n) ==
  /\ ~stuck
  /\ shown' = [shown EXCEPT !["log"] = Append(@, n)]
  /\ UNCHANGED <<at, queue, batch, wake, since, dropped, running>>

\* As if the handler waited for room.
OfferWaits(p, n) ==
  /\ Len(queue[p]) < Buffer /\ queue' = [queue EXCEPT ![p] = Append(@, n)]
  /\ UNCHANGED <<at, batch, shown, wake, since, dropped, running>>

\* handleEvents: a full queue drops.
Offer(p, n) ==
  /\ IF Len(queue[p]) < Buffer
     THEN queue' = [queue EXCEPT ![p] = Append(@, n)] /\ UNCHANGED dropped
     ELSE dropped' = dropped \cup {<<p, n>>} /\ UNCHANGED queue
  /\ UNCHANGED <<at, batch, shown, wake, since, running>>

NoteBoard(n) ==
  /\ running' = [running EXCEPT !["board"] = Note(@, said[n])]
  /\ UNCHANGED <<readVars, dropped>>

\* One subscriber is called, on the emitter's goroutine.
Call(m) ==
  LET n == emit[m].n
      c == Head(emit[m].to)
  IN /\ emit[m].step = "delivering" /\ emit[m].to # <<>>
     /\ \/ c = "screen" /\ Push(n)
        \/ c = "log" /\ WriteLine(n)
        \/ c = "board" /\ NoteBoard(n)
        \/ c \in Page /\ Offer(c, n)
     /\ emit' = [emit EXCEPT ![m].to = Tail(@)]
     /\ UNCHANGED <<said, subs, party, stuck, watch>>

Return(m) ==
  /\ emit[m].step = "delivering" /\ emit[m].to = <<>>
  /\ emit' = [emit EXCEPT ![m] = Idle]
  /\ UNCHANGED <<said, subs, readVars, party, stuck, dropped, watch, running>>

Subscribe(c) ==
  /\ subs' = Append(subs, c)
  /\ since' = [since EXCEPT ![c].sub = Len(said)]
Cancel(c) == \E i \in DOMAIN subs : subs[i] = c /\ subs' = RemoveAt(subs, i)

-----------------------------------------------------------------------------
(***************************************************************************)
(* The interface: forwardEvents subscribes, then reads the history, then   *)
(* takes what it caught meanwhile, less what the history already has.      *)
(***************************************************************************)
ScreenSubscribes ==
  /\ "screen" \in party /\ at["screen"] = "shut"
  /\ Subscribe("screen") /\ at' = [at EXCEPT !["screen"] = "subscribed"]
  /\ UNCHANGED <<said, emit, party, queue, batch, shown, wake, stuck, dropped, watch, running>>

ScreenReads ==
  /\ at["screen"] = "subscribed"
  /\ batch' = [batch EXCEPT !["screen"] = Retained]
  /\ since' = [since EXCEPT !["screen"].read = Len(said)]
  /\ at' = [at EXCEPT !["screen"] = "read"]
  /\ UNCHANGED <<busVars, party, queue, shown, wake, stuck, dropped, watch, running>>

\* As if all that was caught were in the history already.
OverlapAll(h, q) == IF h = <<>> THEN 0 ELSE Len(q)

\* overlap: the longest end of the history the queue starts with.
Overlap(h, q) ==
  LET fits == {k \in 1..Len(h) : k <= Len(q) /\
                 SubSeq(h, Len(h) - k + 1, Len(h)) = SubSeq(q, 1, k)}
  IN IF fits = {} THEN 0 ELSE CHOOSE k \in fits : \A j \in fits : j <= k

\* The seed is sent as one message.
ScreenSeeds ==
  LET h == batch["screen"]
      q == queue["screen"]
      seed == h \o SubSeq(q, Overlap(h, q) + 1, Len(q))
  IN /\ at["screen"] = "read"
     /\ queue' = [queue EXCEPT !["screen"] = <<>>]
     /\ batch' = [batch EXCEPT !["screen"] = <<>>]
     /\ shown' = [shown EXCEPT !["screen"] = seed]
     /\ running' = [running EXCEPT !["screen"] = NoteAll(seed)]
     /\ at' = [at EXCEPT !["screen"] = "pumping"]
     /\ UNCHANGED <<busVars, party, wake, stuck, dropped, watch, since>>

\* The pump: wakes, takes the queue, and sends what it took one by one.
PumpWakes ==
  /\ at["screen"] = "pumping" /\ batch["screen"] = <<>> /\ wake
  /\ wake' = FALSE
  /\ batch' = [batch EXCEPT !["screen"] = queue["screen"]]
  /\ queue' = [queue EXCEPT !["screen"] = <<>>]
  /\ UNCHANGED <<busVars, party, at, shown, stuck, dropped, watch, running, since>>

PumpSends ==
  LET n == Head(batch["screen"])
  IN /\ at["screen"] = "pumping" /\ batch["screen"] # <<>>
     /\ batch' = [batch EXCEPT !["screen"] = Tail(@)]
     /\ shown' = [shown EXCEPT !["screen"] = Append(@, n)]
     /\ running' = [running EXCEPT !["screen"] = Note(@, said[n])]
     /\ UNCHANGED <<busVars, party, at, queue, wake, stuck, dropped, watch, since>>

\* The interface has quit: stop unsubscribes and closes the forwarder.
ScreenCloses ==
  /\ at["screen"] = "pumping"
  /\ Cancel("screen") /\ at' = [at EXCEPT !["screen"] = "closed"] /\ wake' = TRUE
  /\ UNCHANGED <<said, emit, party, queue, batch, shown, since, stuck, dropped, watch,
                 running>>

Screen == ScreenSubscribes \/ ScreenReads \/ ScreenSeeds \/ PumpWakes \/ PumpSends

-----------------------------------------------------------------------------
(***************************************************************************)
(* The log of a headless run; the page's stream; the board's own notes.    *)
(***************************************************************************)
LogOpens ==
  /\ "log" \in party /\ at["log"] = "shut"
  /\ Subscribe("log") /\ at' = [at EXCEPT !["log"] = "pumping"]
  /\ UNCHANGED <<said, emit, party, queue, batch, shown, wake, stuck, dropped, watch, running>>

PageSubscribes(p) ==
  /\ p \in party /\ at[p] = "shut" /\ \A o \in Page : at[o] \in {"shut", "closed"}
  /\ Subscribe(p) /\ at' = [at EXCEPT ![p] = "subscribed"]
  /\ UNCHANGED <<said, emit, party, queue, batch, shown, wake, stuck, dropped, watch, running>>

PageReads(p) ==
  /\ at[p] = "subscribed"
  /\ batch' = [batch EXCEPT ![p] = Retained]
  /\ since' = [since EXCEPT ![p].read = Len(said)]
  /\ at' = [at EXCEPT ![p] = "pumping"]
  /\ UNCHANGED <<busVars, party, queue, shown, wake, stuck, dropped, watch, running>>

\* The history is written first, then the queue; a browser may stop reading.
PageWrites(p) ==
  /\ at[p] = "pumping"
  /\ \/ /\ batch[p] # <<>>
        /\ shown' = [shown EXCEPT ![p] = @ \o batch[p]]
        /\ batch' = [batch EXCEPT ![p] = <<>>] /\ UNCHANGED queue
     \/ /\ batch[p] = <<>> /\ queue[p] # <<>>
        /\ shown' = [shown EXCEPT ![p] = Append(@, Head(queue[p]))]
        /\ queue' = [queue EXCEPT ![p] = Tail(@)] /\ UNCHANGED batch
  /\ UNCHANGED <<busVars, party, at, wake, stuck, dropped, watch, running, since>>

PageGoes(p) ==
  /\ at[p] \in {"subscribed", "pumping"}
  /\ Cancel(p) /\ at' = [at EXCEPT ![p] = "closed"]
  /\ UNCHANGED <<said, emit, party, queue, batch, shown, wake, since, stuck, dropped,
                 watch, running>>

\* watchServices: here the history is read first.
BoardReads ==
  /\ "board" \in party /\ watch = "new" /\ watch' = "read"
  /\ running' = [running EXCEPT !["board"] = NoteAll(Retained)]
  /\ since' = [since EXCEPT !["board"].read = Len(said)]
  /\ UNCHANGED <<busVars, party, at, queue, batch, shown, wake, stuck, dropped>>

BoardSubscribes ==
  /\ watch = "read" /\ watch' = "watching" /\ Subscribe("board")
  /\ UNCHANGED <<said, emit, party, at, queue, batch, shown, wake, stuck, dropped, running>>

Board == BoardReads \/ BoardSubscribes

\* Who reads the log's output stops, or goes on.
LogStalls ==
  /\ at["log"] = "pumping" /\ stuck' = ~stuck
  /\ UNCHANGED <<busVars, readVars, party, dropped, watch, running>>

Speaks(m) == Deliver(m) \/ Call(m) \/ Return(m)

FeedNext ==
  \/ \E m \in Emitter : Record(m) \/ Speaks(m)
  \/ Screen \/ ScreenCloses \/ LogOpens \/ LogStalls \/ Board
  \/ \E p \in Page : PageSubscribes(p) \/ PageReads(p) \/ PageWrites(p) \/ PageGoes(p)

\* Goroutines run on and the lock is handed over (said is bounded, so weak
\* fairness does); whoever reads the log or a page need not read.
FeedSpec ==
  /\ FeedInit /\ [][FeedNext]_feedVars
  /\ WF_feedVars(Screen) /\ \A m \in Emitter : WF_feedVars(Speaks(m))

-----------------------------------------------------------------------------
(***************************************************************************)
(* Properties.                                                             *)
(***************************************************************************)
FeedTypeOK ==
  /\ said \in Seq(Event) /\ subs \in Seq(Subscriber)
  /\ emit \in [Emitter -> [step : {"idle", "waiting", "delivering"}, n : 0..Len(said),
                           to : Seq(Subscriber)]]
  /\ at \in [Reader -> {"shut", "subscribed", "read", "pumping", "closed"}]
  /\ {queue, batch, shown} \subseteq [Reader -> Seq(1..Len(said))]
  /\ since \in [Reader \cup {"board"} -> [sub : 0..Len(said), read : 0..Len(said)]]
  /\ wake \in BOOLEAN /\ stuck \in BOOLEAN /\ watch \in {"new", "read", "watching"}
  /\ running \in [{"screen", "board"} -> SUBSET Service]
  /\ dropped \subseteq Page \X (1..Len(said))

OnTheWay(c) == {n \in 1..Len(said) : \E m \in Emitter : emit[m].n = n /\ c \in Range(emit[m].to)}
Reached(r) == Range(queue[r]) \cup Range(batch[r]) \cup Range(shown[r])
                \cup {n \in 1..Len(said) : <<r, n>> \in dropped}
Reading(r) == at[r] \in {"subscribed", "read", "pumping"}

\* What is owed to a reader: all said after it subscribed, and what the history
\* held when it was read.
Owed(r) == {n \in 1..Len(said) : \/ n > since[r].sub
                                 \/ /\ r # "log" /\ at[r] \in {"read", "pumping"}
                                    /\ n > since[r].read - Limit}

\* No reader misses an event between its history and its subscription: each one
\* is shown, queued, or on its way. forwardEvents and handleEvents subscribe
\* before they read the history (events.go: "the other order loses anything
\* emitted in between").
NothingMissed == \A r \in Reader : Reading(r) => Owed(r) \subseteq Reached(r) \cup OnTheWay(r)

\* A line stands twice only if it was said while its reader was opening, between
\* subscribing and reading the history.
RepeatsOnlyFromOpening ==
  \A r \in Reader : \A i, j \in DOMAIN shown[r] :
    i # j /\ shown[r][i] = shown[r][j]
      => since[r].sub < shown[r][i] /\ shown[r][i] <= since[r].read

\* At rest, the Services tab and the board say what the session said, unless the
\* board was opened while somebody spoke or after the history had begun to go.
Truth == NoteAll([i \in 1..Len(said) |-> i])
ServicesAgree ==
  /\ at["screen"] = "pumping" /\ since["screen"].read <= Limit
       /\ queue["screen"] = <<>> /\ batch["screen"] = <<>> /\ OnTheWay("screen") = {}
     => running["screen"] = Truth
  /\ watch = "watching" /\ since["board"].read = since["board"].sub
       /\ since["board"].read <= Limit /\ OnTheWay("board") = {}
     => running["board"] = Truth

\* The readers' side of the bus, as one invariant.
FeedOK == FeedTypeOK /\ NothingMissed /\ RepeatsOnlyFromOpening /\ ServicesAgree

\* What is said while the interface is open gets on to it: no nudge of the pump
\* is lost, however pushes and takes fall.
ScreenCatchesUp ==
  \A n \in 1..MaxSaid :
    (Reading("screen") /\ n \in Owed("screen"))
      ~> (n \in Range(shown["screen"]) \/ at["screen"] = "closed")

\* Nobody who speaks is held up for good by a page, whatever its browser does ("a
\* browser tab that has stopped reading must not be able to stall the bus"): only
\* the log's reader can do that.
TabsStallNobody ==
  \A m \in Emitter : emit[m].step # "idle" ~> (emit[m].step = "idle" \/ stuck)

\* event.go of Emit: "A renderer that blocks should stall the log, not the
\* session."
SessionGoesOn == emit[Session].step # "idle" ~> emit[Session].step = "idle"
=============================================================================
