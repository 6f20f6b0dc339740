------------------------------- MODULE Tunnels -------------------------------
(***************************************************************************)
(* internal/tunnels: the manager that keeps a local listener for each port *)
(* the remote box listens on, the allocator that chooses the local ports,  *)
(* the instance that ties both to one connection, and the store that       *)
(* remembers what the user decided about a port.                           *)
(*                                                                         *)
(* Manager.mu is held by one operation at a time. An operation on one port *)
(* is one action; one that reconciles the whole table holds the lock while *)
(* it takes the ports one by one (`hold`, `todo`), because what one port   *)
(* gets depends on what those before it took. Other processes of this      *)
(* machine take and release local ports at any moment, in between too.     *)
(*                                                                         *)
(* Users (the terminal, a browser tab of the board) call the mutators and  *)
(* then persist, which reads the entry again, changes the store and writes *)
(* the host file under no common lock: those are steps of their own.       *)
(*                                                                         *)
(* Left out: labels (a call that sets one persists, which is modelled),    *)
(* what is displayed of a service, events, and the bytes that cross.       *)
(*                                                                         *)
(* An operator whose comment begins "Mutation:" is the definition after it *)
(* with one plausible slip, there to show that a property notices it.      *)
(***************************************************************************)
EXTENDS Integers, FiniteSets, SequencesExt

CONSTANTS
  Port,          \* the remote ports something may listen on
  Local,         \* the local ports: those, and others
  Ephemeral,     \* the local ports the system hands out for port 0
  User,          \* who calls the mutators
  Options,       \* how devtun may be started
  Scheme,        \* what a service may turn out to speak
  Files,         \* what the host file may say of the ports at the start
  Grace,         \* consecutive missed scans before a tunnel goes
  Disturbances   \* bound: calls and events from outside in one history,
                 \*   reconnections among them

ASSUME TunnelsAssumption ==
  /\ Port \subseteq Local /\ Ephemeral \subseteq Local /\ Local \subseteq Nat \ {0}
  /\ IsFiniteSet(Local)
  /\ "unknown" \notin Scheme
  /\ Grace \in Nat \ {0} /\ Disturbances \in Nat

(***************************************************************************)
(* The flags and the hide lists (the global one and the host's, which are  *)
(* read alike). exposed: the ports bound to more than loopback.            *)
(***************************************************************************)
ASSUME OptionsAssumption ==
  Options \subseteq [samePort : BOOLEAN, min : Nat, max : Nat,
                     include : SUBSET Port, exclude : SUBSET Port,
                     loopback : BOOLEAN, exposed : SUBSET Port,
                     hide : SUBSET Port]

VARIABLES
  opt,           \* the options of this run
  paused,        \* Policy.Paused
  entry,         \* entry[p]: Manager.entries
  sticky,        \* sticky[p]: Allocator.sticky, 0 when there is none
  dialer,        \* the connection forwarders are given; 0 is nil
  hold,          \* what holds Manager.mu between two steps
  todo,          \* the ports it has still to reconcile
  missed,        \* the entries the scan in hand did not find
  showHidden,    \* Manager.showHidden
  instance,      \* the service's instance
  conn,          \* connections so far
  box,           \* the ports listened on over there
  taken,         \* local ports of other processes
  prefs,         \* Store.ports
  disk,          \* the same, in the host file
  job,           \* job[u]: the persist u is in
  left,          \* disturbances left
  borrowed,      \* history: what of an entry is for this session only, and
                 \*   "row" when it went with a persist for it on its way
  home,          \* history: where tunnels were when the link went
  crossed,       \* history: the ports two users were deciding about at once
                 \*   when one was last called for
  behind         \* history: of the last writes of the host file one failed, or
                 \*   two were on their way at once

managerVars == <<entry, sticky, dialer, hold, todo, missed, paused, showHidden>>
linkVars == <<instance, conn>>
storeVars == <<prefs, disk, job, crossed, behind>>
historyVars == <<borrowed, home>>
tunnelsVars == <<opt, managerVars, linkVars, box, taken, storeVars, left, historyVars>>

Mode == {"auto", "on", "hidden"}
Skip == {"below min", "above max", "excluded", "not included", "not loopback",
         "paused", "hidden"}
Prefs == [mode : Mode, local : Local \cup {0}, scheme : Scheme \cup {"unknown"}]
NoPrefs == [mode |-> "auto", local |-> 0, scheme |-> "unknown"]

ASSUME FilesAssumption == Files \subseteq [Port -> Prefs]

\* err is the port the attempt to listen reports; local and via are 0 when
\* there is no forwarder.
Entry == [known : BOOLEAN, mode : Mode, skip : Skip \cup {"none"},
          local : Local \cup {0}, via : Nat, err : Local \cup {0},
          pin : Local \cup {0}, keep : BOOLEAN, missing : 0 .. Grace - 1,
          scheme : Scheme \cup {"unknown"}, pinned : BOOLEAN]
NoEntry == [known |-> FALSE, mode |-> "auto", skip |-> "none", local |-> 0,
            via |-> 0, err |-> 0, pin |-> 0, keep |-> FALSE, missing |-> 0,
            scheme |-> "unknown", pinned |-> FALSE]
NoJob == [at |-> "idle", port |-> 0, prefs |-> NoPrefs, copy |-> [p \in Port |-> NoPrefs]]

TunnelsTypeOK ==
  /\ opt \in Options /\ paused \in BOOLEAN /\ showHidden \in BOOLEAN
  /\ entry \in [Port -> Entry]
  /\ \A p \in Port : ~entry[p].known => entry[p] = NoEntry
  /\ sticky \in [Port -> Local \cup {0}]
  /\ dialer \in Nat /\ conn \in Nat
  /\ hold \in {"free", "scan", "all"} /\ todo \subseteq Port /\ missed \subseteq Port
  /\ hold = "free" => todo = {} /\ missed = {}
  /\ instance \in {"none", "attached", "running", "returned"}
  /\ box \subseteq Port /\ taken \subseteq Local
  /\ prefs \in [Port -> Prefs] /\ disk \in [Port -> Prefs]
  /\ job \in [User -> [at : {"idle", "read", "store", "write"}, port : Port \cup {0},
                       prefs : Prefs, copy : [Port -> Prefs]]]
  /\ left \in 0 .. Disturbances
  /\ borrowed \in [Port -> SUBSET {"mode", "local", "row"}]
  /\ home \in [Port -> Local \cup {0}]
  /\ crossed \subseteq Port /\ behind \in BOOLEAN

TunnelsInit ==
  /\ opt \in Options /\ paused = FALSE /\ showHidden = FALSE
  /\ entry = [p \in Port |-> NoEntry]
  /\ sticky = [p \in Port |-> 0]
  /\ dialer = 0 /\ hold = "free" /\ todo = {} /\ missed = {}
  /\ instance = "none" /\ conn = 0
  /\ box \in SUBSET Port /\ taken \in SUBSET Local
  /\ disk \in Files /\ prefs = disk
  /\ job = [u \in User |-> NoJob]
  /\ left \in 0 .. Disturbances
  /\ borrowed = [p \in Port |-> {}] /\ home = [p \in Port |-> 0]
  /\ crossed = {} /\ behind = FALSE

Disturb == left > 0 /\ left' = left - 1
Known == {p \in Port : entry[p].known}
Engaged(p) == \E u \in User : job[u].at # "idle" /\ job[u].port = p
NoHome == home' = [p \in Port |-> 0]
-----------------------------------------------------------------------------
(***************************************************************************)
(* Policy.Eval, and the decision about a port: the user's if there is one, *)
(* the policy's otherwise. "none" is the reason to forward.                *)
(***************************************************************************)
Eval(p) ==
  IF p \in opt.exclude THEN "excluded"
  ELSE IF opt.include # {} /\ p \notin opt.include THEN "not included"
  ELSE IF opt.include = {} /\ p < opt.min THEN "below min"
  ELSE IF opt.include = {} /\ p > opt.max THEN "above max"
  ELSE IF opt.include = {} /\ opt.loopback /\ p \in opt.exposed THEN "not loopback"
  ELSE IF paused THEN "paused" ELSE "none"

Want(p, e) ==
  CASE e.mode = "on" -> IF p \in opt.exclude THEN "excluded" ELSE "none"
    [] e.mode = "hidden" \/ (e.mode = "auto" /\ p \in opt.hide) -> "hidden"
    [] OTHER -> IF paused /\ e.keep THEN "none" ELSE Eval(p)

Wanted(p) == Want(p, entry[p]) = "none"

Filtered == Skip \ {"paused", "hidden"}

\* hiddenLocked, of an entry there is.
Unlisted(p) ==
  /\ entry[p].local = 0 /\ entry[p].mode # "on"
  /\ \/ entry[p].skip = "hidden" /\ ~showHidden
     \/ entry[p].mode = "auto" /\ entry[p].skip \in Filtered

Listed(p) == entry[p].known /\ ~Unlisted(p)
-----------------------------------------------------------------------------
(***************************************************************************)
(* Allocator.Allocate for p: the ports it tries, given the user's pin and  *)
(* the port remembered, and what it may come back with. An address in use  *)
(* is the one reason for listening to fail that is modelled.               *)
(***************************************************************************)
Busy(p) == taken \cup {entry[q].local : q \in Port \ {p}}
Free(p) == Local \ Busy(p)

\* Mutation: the port used last time is not tried again.
TriedFresh(p, pin, last) ==
  (IF pin # 0 THEN <<pin>> ELSE <<>>) \o <<p>>

Tried(p, pin, last) ==
  (IF pin # 0 THEN <<pin>> ELSE <<>>)
    \o (IF last \notin {0, p} THEN <<last>> ELSE <<>>) \o <<p>>

Allotted(p, pin, last) ==
  LET tried == Tried(p, pin, last)
      ok == {i \in DOMAIN tried : tried[i] \in Free(p)}
  IN  IF ok # {} THEN {tried[i] : i \in {j \in ok : \A k \in ok : j <= k}}
      ELSE IF opt.samePort THEN {} ELSE Free(p) \cap Ephemeral

(***************************************************************************)
(* applyLocked: p's entry, left as e by the operation, is given a          *)
(* forwarder or loses it. last: what the allocator remembers for p.        *)
(***************************************************************************)
Stop(e) == [e EXCEPT !.local = 0, !.via = 0]

ApplyRefuse(p, e, last) ==
  /\ Want(p, e) # "none"
  /\ entry' = [entry EXCEPT ![p] = [Stop(e) EXCEPT !.skip = Want(p, e)]]
  /\ sticky' = [sticky EXCEPT ![p] = last]

ApplyKeep(p, e, last) ==
  /\ Want(p, e) = "none" /\ (e.local # 0 \/ dialer = 0)
  /\ entry' = [entry EXCEPT ![p] = [e EXCEPT !.skip = "none"]]
  /\ sticky' = [sticky EXCEPT ![p] = last]

ApplyOpen(p, e, last) ==
  /\ Want(p, e) = "none" /\ e.local = 0 /\ dialer # 0
  /\ \E l \in Allotted(p, e.pin, last) :
       /\ entry' = [entry EXCEPT ![p] = [e EXCEPT !.skip = "none", !.err = 0,
                                                  !.local = l, !.via = dialer]]
       /\ sticky' = [sticky EXCEPT ![p] = l]

ApplyFail(p, e, last) ==
  /\ Want(p, e) = "none" /\ e.local = 0 /\ dialer # 0
  /\ Allotted(p, e.pin, last) = {}
  /\ entry' = [entry EXCEPT ![p] = [e EXCEPT !.skip = "none",
                                             !.err = Head(Tried(p, e.pin, last))]]
  /\ sticky' = [sticky EXCEPT ![p] = last]

Apply(p, e, last) ==
  \/ ApplyRefuse(p, e, last)
  \/ ApplyKeep(p, e, last)
  \/ ApplyOpen(p, e, last)
  \/ ApplyFail(p, e, last)
-----------------------------------------------------------------------------
(***************************************************************************)
(* The lock held over the table: Sync takes what the scan found in any     *)
(* order (it iterates a map) and then tears down what has been missing for *)
(* too long; SetPolicy and SetDialer take the ports in order.              *)
(***************************************************************************)
Reconcile(p) ==
  /\ p \in todo
  /\ hold = "all" => \A q \in todo : p <= q
  /\ Apply(p, entry[p], sticky[p])
  /\ todo' = todo \ {p}
  /\ hold' = IF hold = "all" /\ todo' = {} THEN "free" ELSE hold
  /\ UNCHANGED <<opt, dialer, missed, paused, showHidden, linkVars, box, taken,
                 storeVars, left, historyVars>>

\* A row as Sync first makes it, from what was decided about the port.
Restored(p) ==
  [NoEntry EXCEPT !.known = TRUE, !.mode = prefs[p].mode, !.pin = prefs[p].local,
                  !.scheme = prefs[p].scheme, !.pinned = prefs[p].scheme # "unknown"]

Scan(found) ==
  /\ instance = "running" /\ hold = "free"
  /\ hold' = "scan" /\ todo' = found /\ missed' = Known \ found
  /\ entry' = [p \in Port |->
                 IF p \notin found THEN entry[p]
                 ELSE [(IF entry[p].known THEN entry[p] ELSE Restored(p))
                         EXCEPT !.missing = 0]]
  /\ NoHome
  /\ UNCHANGED <<opt, sticky, dialer, paused, showHidden, linkVars, box, taken,
                 storeVars, borrowed>>

ScanAll == Scan(box) /\ UNCHANGED left

ScanDrops == Disturb /\ \E p \in box : Scan(box \ {p})

\* Mutation: a missing service is counted, and its entry never given up.
SweepNever ==
  /\ hold = "scan" /\ todo = {}
  /\ entry' = [p \in Port |->
                 IF p \in missed /\ entry[p].missing + 1 < Grace
                 THEN [entry[p] EXCEPT !.missing = @ + 1] ELSE entry[p]]
  /\ borrowed' = borrowed
  /\ hold' = "free" /\ missed' = {}
  /\ UNCHANGED <<opt, sticky, dialer, todo, paused, showHidden, linkVars, box, taken,
                 storeVars, left, home>>

\* Mutation: one scan too many is waited for.
SweepLate ==
  /\ hold = "scan" /\ todo = {}
  /\ entry' = [p \in Port |->
                 IF p \notin missed THEN entry[p]
                 ELSE IF entry[p].missing < Grace
                      THEN [entry[p] EXCEPT !.missing = @ + 1] ELSE NoEntry]
  /\ borrowed' = [p \in Port |->
                    IF entry'[p].known THEN borrowed[p]
                    ELSE IF Engaged(p) THEN {"row"} ELSE {}]
  /\ hold' = "free" /\ missed' = {}
  /\ UNCHANGED <<opt, sticky, dialer, todo, paused, showHidden, linkVars, box, taken,
                 storeVars, left, home>>

Sweep ==
  /\ hold = "scan" /\ todo = {}
  /\ entry' = [p \in Port |->
                 IF p \notin missed THEN entry[p]
                 ELSE IF entry[p].missing + 1 < Grace
                      THEN [entry[p] EXCEPT !.missing = @ + 1] ELSE NoEntry]
  /\ borrowed' = [p \in Port |->
                    IF entry'[p].known THEN borrowed[p]
                    ELSE IF Engaged(p) THEN {"row"} ELSE {}]
  /\ hold' = "free" /\ missed' = {}
  /\ UNCHANGED <<opt, sticky, dialer, todo, paused, showHidden, linkVars, box, taken,
                 storeVars, left, home>>

\* What an operation that takes every port leaves the lock with.
TakeAll == todo' = Known /\ hold' = IF Known = {} THEN "free" ELSE "all"
-----------------------------------------------------------------------------
(***************************************************************************)
(* The instance. Attach builds nothing after the first time; Run hands the *)
(* manager a dialer and scans until the link or the context ends; Close    *)
(* takes the dialer away. Session calls them in this order, and drops an   *)
(* instance whose Run it never started.                                    *)
(***************************************************************************)
Attach ==
  /\ IF conn = 0 THEN UNCHANGED left ELSE Disturb
  /\ instance = "none"
  /\ instance' = "attached" /\ conn' = conn + 1
  /\ UNCHANGED <<opt, managerVars, box, taken, storeVars, historyVars>>

\* Mutation: the tunnels are left to the next scan.
RunAlone ==
  /\ instance = "attached" /\ hold = "free"
  /\ instance' = "running" /\ dialer' = conn
  /\ UNCHANGED <<hold, todo>>
  /\ UNCHANGED <<opt, entry, sticky, missed, paused, showHidden, conn, box, taken,
                 storeVars, left, historyVars>>

Run ==
  /\ instance = "attached" /\ hold = "free"
  /\ instance' = "running" /\ dialer' = conn
  /\ TakeAll
  /\ UNCHANGED <<opt, entry, sticky, missed, paused, showHidden, conn, box, taken,
                 storeVars, left, historyVars>>

RunReturns ==
  /\ instance = "running" /\ hold = "free"
  /\ instance' = "returned"
  /\ UNCHANGED <<opt, managerVars, conn, box, taken, storeVars, left, historyVars>>

NeverRun ==
  /\ instance = "attached"
  /\ instance' = "none"
  /\ UNCHANGED <<opt, managerVars, conn, box, taken, storeVars, left, historyVars>>

\* Every tunnel that should be there is, on the port the user gave it if any.
Contented ==
  \A p \in Known : Wanted(p) => entry[p].local # 0 /\ entry[p].pin \in {0, entry[p].local}

\* Mutation: the dialer is taken away and the forwarders are left with theirs.
CloseKeeps ==
  /\ instance = "returned" /\ hold = "free"
  /\ instance' = "none" /\ dialer' = 0
  /\ entry' = [p \in Port |-> [entry[p] EXCEPT !.missing = 0]]
  /\ home' = [p \in Port |-> 0]
  /\ UNCHANGED <<opt, sticky, hold, todo, missed, paused, showHidden, conn, box,
                 taken, storeVars, left, borrowed>>

Close ==
  /\ instance = "returned" /\ hold = "free"
  /\ instance' = "none" /\ dialer' = 0
  /\ entry' = [p \in Port |-> [Stop(entry[p]) EXCEPT !.missing = 0]]
  /\ home' = [p \in Port |-> IF Contented THEN entry[p].local ELSE 0]
  /\ UNCHANGED <<opt, sticky, hold, todo, missed, paused, showHidden, conn, box,
                 taken, storeVars, left, borrowed>>
-----------------------------------------------------------------------------
(***************************************************************************)
(* The mutators. Each call of a user's is followed by persist: read the    *)
(* entry again, change the store and copy it, write the copy. Nothing      *)
(* keeps two users from doing so at once.                                  *)
(***************************************************************************)
Calls(u, p) ==
  /\ Disturb
  /\ hold = "free" /\ entry[p].known /\ job[u].at = "idle"
  /\ job' = [job EXCEPT ![u] = [NoJob EXCEPT !.at = "read", !.port = p]]
  /\ crossed' = IF Engaged(p) THEN crossed \cup {p} ELSE crossed \ {p}
  /\ UNCHANGED <<opt, dialer, hold, todo, missed, paused, showHidden, linkVars, box,
                 taken, prefs, disk, behind>>

\* The entry after p's mode is set: the error is cleared unless p is hidden.
InMode(p, mode) ==
  [entry[p] EXCEPT !.mode = mode, !.keep = @ /\ mode = "auto",
                   !.err = IF mode = "hidden" THEN @ ELSE 0]

SetMode(u, p, mode) ==
  /\ Calls(u, p)
  /\ Apply(p, InMode(p, mode), sticky[p])
  /\ borrowed' = [borrowed EXCEPT ![p] = @ \ {"mode"}]
  /\ NoHome

Relocated(p, local) == [Stop(entry[p]) EXCEPT !.pin = local, !.err = 0]

SetLocalPort(u, p, local) ==
  /\ Calls(u, p)
  /\ Apply(p, Relocated(p, local), 0)
  /\ borrowed' = [borrowed EXCEPT ![p] = @ \ {"local"}]
  /\ NoHome

\* SetScheme and CycleScheme; unknown gives the choice back to detection.
SetScheme(u, p, scheme) ==
  /\ Calls(u, p)
  /\ entry' = [entry EXCEPT ![p].scheme = scheme, ![p].pinned = scheme # "unknown"]
  /\ UNCHANGED <<sticky, historyVars>>

SetLabel(u, p) == Calls(u, p) /\ UNCHANGED <<entry, sticky, historyVars>>

\* Mutation: pausing does not note which automatic tunnels are up.
SetPausedForgets(b) ==
  /\ Disturb
  /\ hold = "free"
  /\ paused' = b
  /\ entry' = [p \in Port |-> [entry[p] EXCEPT !.keep = FALSE]]
  /\ TakeAll /\ NoHome
  /\ UNCHANGED <<opt, sticky, dialer, missed, showHidden, linkVars, box, taken,
                 storeVars, borrowed>>

SetPaused(b) ==
  /\ Disturb
  /\ hold = "free"
  /\ paused' = b
  /\ entry' = [p \in Port |->
                 [entry[p] EXCEPT !.keep = IF ~b THEN FALSE ELSE IF paused THEN @
                                           ELSE entry[p].mode = "auto" /\ entry[p].local # 0]]
  /\ TakeAll /\ NoHome
  /\ UNCHANGED <<opt, sticky, dialer, missed, showHidden, linkVars, box, taken,
                 storeVars, borrowed>>

SetShowHidden(b) ==
  /\ Disturb
  /\ hold = "free" /\ showHidden' = b
  /\ UNCHANGED <<opt, entry, sticky, dialer, hold, todo, missed, paused, linkVars, box,
                 taken, storeVars, historyVars>>

\* What a forwarder learns from the first reply that crosses it.
Observe(p, scheme) ==
  /\ Disturb
  /\ hold = "free" /\ entry[p].local # 0 /\ ~entry[p].pinned
  /\ entry' = [entry EXCEPT ![p].scheme = scheme]
  /\ UNCHANGED <<opt, sticky, dialer, hold, todo, missed, paused, showHidden, linkVars,
                 box, taken, storeVars, historyVars>>

(***************************************************************************)
(* The two calls that decide for this session only.                        *)
(***************************************************************************)
Borrows(p, what) ==
  /\ Disturb
  /\ hold = "free" /\ entry[p].known
  /\ borrowed' = [borrowed EXCEPT ![p] = @ \cup what]
  /\ NoHome
  /\ UNCHANGED <<opt, dialer, hold, todo, missed, paused, showHidden, linkVars, box,
                 taken, storeVars>>

\* Mutation: what the user hid is forwarded like anything else.
ForwardHidden(p) ==
  /\ Borrows(p, IF entry[p].mode # "on" THEN {"mode"} ELSE {})
  /\ Apply(p, InMode(p, "on"), sticky[p])

ForwardNow(p) ==
  /\ entry[p].mode # "hidden"
  /\ Borrows(p, IF entry[p].mode # "on" THEN {"mode"} ELSE {})
  /\ Apply(p, InMode(p, "on"), sticky[p])

TryLocalPort(p, local) ==
  /\ Borrows(p, IF entry[p].pin # local THEN {"local"} ELSE {})
  /\ Apply(p, Relocated(p, local), 0)
-----------------------------------------------------------------------------
PrefsOf(e) ==
  [mode |-> e.mode, local |-> e.pin,
   scheme |-> IF e.pinned THEN e.scheme ELSE "unknown"]

\* Mutation: what was detected is remembered like what was chosen.
ReadPrefsAll(u) ==
  /\ job[u].at = "read" /\ hold = "free"
  /\ job' = [job EXCEPT ![u] =
               IF entry[job[u].port].known
               THEN [@ EXCEPT !.at = "store",
                              !.prefs = [PrefsOf(entry[job[u].port])
                                           EXCEPT !.scheme = entry[job[u].port].scheme]]
               ELSE NoJob]
  /\ UNCHANGED <<opt, managerVars, linkVars, box, taken, prefs, disk, crossed, behind, left,
                 historyVars>>

ReadPrefs(u) ==
  /\ job[u].at = "read" /\ hold = "free"
  /\ job' = [job EXCEPT ![u] =
               IF entry[job[u].port].known
               THEN [@ EXCEPT !.at = "store", !.prefs = PrefsOf(entry[job[u].port])]
               ELSE NoJob]
  /\ UNCHANGED <<opt, managerVars, linkVars, box, taken, prefs, disk, crossed, behind, left,
                 historyVars>>

Writing == {u \in User : job[u].at = "write"}

StorePrefs(u) ==
  /\ job[u].at = "store"
  /\ prefs' = [prefs EXCEPT ![job[u].port] = job[u].prefs]
  /\ IF prefs' = prefs
     THEN job' = [job EXCEPT ![u] = NoJob] /\ UNCHANGED behind
     ELSE /\ job' = [job EXCEPT ![u] = [@ EXCEPT !.at = "write", !.copy = prefs']]
          /\ behind' = (Writing # {})
  /\ UNCHANGED <<opt, managerVars, linkVars, box, taken, disk, crossed, left, historyVars>>

\* An error of the write is dropped.
WritePrefs(u) ==
  /\ job[u].at = "write"
  /\ \/ disk' = job[u].copy /\ UNCHANGED <<behind, left>>
     \/ Disturb /\ behind' = TRUE /\ UNCHANGED disk
  /\ job' = [job EXCEPT ![u] = NoJob]
  /\ UNCHANGED <<opt, managerVars, linkVars, box, taken, prefs, crossed, historyVars>>
-----------------------------------------------------------------------------
(***************************************************************************)
(* The world: the box, the other processes here, and devtun started anew.  *)
(***************************************************************************)
BoxChanges(p) ==
  /\ Disturb
  /\ box' = IF p \in box THEN box \ {p} ELSE box \cup {p}
  /\ UNCHANGED <<opt, managerVars, linkVars, taken, storeVars, historyVars>>

Take(l) ==
  /\ Disturb
  /\ l \notin taken /\ \A p \in Port : entry[p].local # l
  /\ taken' = taken \cup {l} /\ NoHome
  /\ UNCHANGED <<opt, managerVars, linkVars, box, storeVars, borrowed>>

Release(l) ==
  /\ Disturb
  /\ l \in taken /\ taken' = taken \ {l}
  /\ UNCHANGED <<opt, managerVars, linkVars, box, storeVars, historyVars>>

Restart ==
  /\ Disturb
  /\ paused' = FALSE /\ entry' = [p \in Port |-> NoEntry]
  /\ sticky' = [p \in Port |-> 0] /\ dialer' = 0
  /\ hold' = "free" /\ todo' = {} /\ missed' = {}
  /\ instance' = "none" /\ prefs' = disk /\ job' = [u \in User |-> NoJob]
  /\ borrowed' = [p \in Port |-> {}] /\ NoHome
  /\ crossed' = {} /\ behind' = FALSE
  /\ UNCHANGED <<opt, showHidden, conn, box, taken, disk>>

Work ==
  \/ \E p \in Port : Reconcile(p)
  \/ ScanAll \/ ScanDrops \/ Sweep
  \/ Attach \/ Run \/ RunReturns \/ NeverRun \/ Close
  \/ \E u \in User : ReadPrefs(u) \/ StorePrefs(u) \/ WritePrefs(u)

Use ==
  \/ \E u \in User, p \in Port :
       \/ \E mode \in Mode : SetMode(u, p, mode)
       \/ \E local \in Local \cup {0} : SetLocalPort(u, p, local)
       \/ \E scheme \in Scheme \cup {"unknown"} : SetScheme(u, p, scheme)
       \/ SetLabel(u, p)
  \/ \E b \in BOOLEAN : SetPaused(b) \/ SetShowHidden(b)

World ==
  \/ \E p \in Port : BoxChanges(p) \/ \E scheme \in Scheme : Observe(p, scheme)
  \/ \E l \in Local : Take(l) \/ Release(l)

Browse == \E p \in Port : ForwardNow(p) \/ TryLocalPort(p, p)

TunnelsNext == Work \/ Use \/ World \/ Browse \/ Restart

TunnelsFairness ==
  /\ WF_tunnelsVars(ScanAll) /\ WF_tunnelsVars(Sweep)
  /\ \A p \in Port : WF_tunnelsVars(Reconcile(p))

TunnelsSpec == TunnelsInit /\ [][TunnelsNext]_tunnelsVars /\ TunnelsFairness
-----------------------------------------------------------------------------
\* The rows no operation that holds the lock has still to look at.
Settled == Known \ todo

(***************************************************************************)
(* Nothing is forwarded against a decision: a live tunnel is one the       *)
(* user's mode, the flags and the hide lists allow as they are now, and it *)
(* dials over the connection that is up. A Run that put a dead dialer back *)
(* would leave tunnels pointed at a connection that is gone (serve.go).    *)
(***************************************************************************)
NothingUnwanted ==
  \A p \in Settled : entry[p].local # 0 =>
    Wanted(p) /\ dialer # 0 /\ entry[p].via = dialer

(***************************************************************************)
(* Nothing is forgotten: with the link up, a port that should be forwarded *)
(* is, or its row says which local port was in the way; and the row's skip *)
(* reason, by which the board leaves it out, is the one the header counts. *)
(***************************************************************************)
NothingMissed ==
  \A p \in Settled :
    /\ dialer # 0 /\ Wanted(p) => entry[p].local # 0 \/ entry[p].err # 0
    /\ entry[p].skip = Want(p, entry[p])

(***************************************************************************)
(* A service comes back on the local port it had before the link dropped,  *)
(* if all were where their users wanted them, and nobody took a port or    *)
(* decided anything meanwhile.                                             *)
(***************************************************************************)
PortsComeBack ==
  instance = "running" /\ hold = "free" =>
    \A p \in Port : home[p] # 0 => entry[p].local = home[p]

(***************************************************************************)
(* What users decided is remembered, as far as persist can: once none is   *)
(* on its way for a row, the store says of it what the row says, unless    *)
(* two users decided about it at once, a browser request changed it for    *)
(* this session, or it went while its decision was being stored; and with  *)
(* nothing being written, the host file says what the store does, unless   *)
(* the last write failed or ran beside another. Across restarts too.       *)
(***************************************************************************)
DecisionsAreRemembered ==
  /\ \A p \in Known \ crossed :
       ~Engaged(p) /\ borrowed[p] = {} => prefs[p] = PrefsOf(entry[p])
  /\ Writing = {} /\ ~behind => disk = prefs

(***************************************************************************)
(* "Press x and it remembers, per host, forever" (README.md).              *)
(***************************************************************************)
HiddenForever ==
  (\A u \in User : job[u].at = "idle") =>
    \A p \in Known : borrowed[p] = {} /\ entry[p].mode = "hidden" => disk[p].mode = "hidden"

(***************************************************************************)
(* The table remembers, over a reconnection and over a restart: where each *)
(* tunnel was, and what its users decided about it.                        *)
(***************************************************************************)
TableRemembers == PortsComeBack /\ DecisionsAreRemembered

(***************************************************************************)
(* TryLocalPort and ForwardNow say "for this session only": what they      *)
(* chose never reaches the host file (internal/tunnels/manager.go).        *)
(***************************************************************************)
BorrowedIsGivenBack ==
  [][\A p \in Port :
       /\ "mode" \in borrowed[p] /\ disk'[p].mode # disk[p].mode
            => disk'[p].mode # entry[p].mode
       /\ "local" \in borrowed[p] /\ disk'[p].local # disk[p].local
            => disk'[p].local # entry[p].pin]_tunnelsVars

(***************************************************************************)
(* Pausing leaves what is up alone: while paused, going through the table  *)
(* closes no tunnel, unless its service is gone (web.go: what is already   *)
(* up stays up).                                                           *)
(***************************************************************************)
PauseKeepsWhatIsUp ==
  [][paused /\ hold # "free" /\ instance' = "running" =>
       \A p \in Known \ missed : entry[p].local # 0 => entry'[p].local # 0]_tunnelsVars

(***************************************************************************)
(* The board follows the box: a service that stays and should be forwarded *)
(* on a port nobody has gets its tunnel, whatever failed before; one that  *)
(* is gone loses its row.                                                  *)
(***************************************************************************)
BoardFollowsBox ==
  \A p \in Port :
    /\ <>[](instance = "running" /\ p \in box /\ p \notin Busy(p)
              /\ (entry[p].known => Wanted(p)))
         => <>[](entry[p].local # 0)
    /\ <>[](instance = "running" /\ p \notin box) => <>[](~entry[p].known)
=============================================================================
