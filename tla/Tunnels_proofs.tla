---------------------------- MODULE Tunnels_proofs ----------------------------
(***************************************************************************)
(* Proofs about the tunnel manager of a session and the localize page, for *)
(* any ports, options, users and bounds: what is forwarded is wanted, what *)
(* is wanted has been tried, pausing closes nothing, only a user takes a   *)
(* port out of hiding, and the table remembers places and decisions.       *)
(***************************************************************************)
EXTENDS Localize, SequenceTheorems, TLAPS

-----------------------------------------------------------------------------
(***************************************************************************)
(* What the decision about a port depends on, and what it can say.         *)
(***************************************************************************)
LEMMA WantSame ==
  ASSUME NEW p, NEW e, NEW f, e.mode = f.mode, e.keep = f.keep
  PROVE  Want(p, e) = Want(p, f)
BY DEF Want

\* Manager.evaluate says why a port is skipped, or nothing.
LEMMA WantType ==
  ASSUME NEW p, NEW e
  PROVE  Want(p, e) \in Skip \cup {"none"}
BY DEF Want, Eval, Skip

\* localCandidates always has a first port to listen on.
LEMMA TriedType ==
  ASSUME NEW p \in Port, NEW pin \in Local \cup {0}, NEW last \in Local \cup {0}
  PROVE  Head(Tried(p, pin, last)) \in Local
<1>1. Port \subseteq Local /\ 0 \notin Local
  BY TunnelsAssumption
<1>. DEFINE a == IF pin # 0 THEN <<pin>> ELSE <<>>
            b == IF last \notin {0, p} THEN <<last>> ELSE <<>>
<1>2. a \in Seq(Local) /\ b \in Seq(Local) /\ <<p>> \in Seq(Local)
  BY <1>1
<1>3. (a \o b) \in Seq(Local)
  BY <1>2, ConcatProperties
<1>4. (a \o b) \o <<p>> \in Seq(Local) /\ Len((a \o b) \o <<p>>) = Len(a \o b) + 1
  <2>. HIDE DEF a, b
  <2>1. Len(<<p>>) = 1
    OBVIOUS
  <2>. QED  BY <1>2, <1>3, <2>1, ConcatProperties
<1>5. Tried(p, pin, last) = (a \o b) \o <<p>>
  BY DEF Tried
<1>6. ASSUME NEW s \in Seq(Local), NEW n \in Nat, Len(s) = n + 1
      PROVE  Head(s) \in Local
  <2>1. s # <<>>
    BY <1>6
  <2>. QED  BY <2>1, HeadTailProperties
<1>7. Len(a \o b) \in Nat
  BY <1>3, LenProperties
<1>. QED  BY <1>4, <1>5, <1>6, <1>7

\* The port a listener gets is one of the candidates, or a free one.
LEMMA AllottedType ==
  ASSUME NEW p, NEW pin, NEW last
  PROVE  Allotted(p, pin, last) \subseteq Local
BY DEF Allotted, Free

-----------------------------------------------------------------------------
(***************************************************************************)
(* What applyLocked leaves of an entry e, as f: all that was decided, and  *)
(* a forwarder exactly if one is wanted and can be had.                    *)
(***************************************************************************)
Decided(e, f) ==
  /\ f.known = e.known /\ f.mode = e.mode /\ f.keep = e.keep /\ f.pin = e.pin
  /\ f.scheme = e.scheme /\ f.pinned = e.pinned /\ f.missing = e.missing

Outcome(p, e, f) ==
  /\ Decided(e, f)
  /\ f.skip = Want(p, e)
  /\ f.local # 0 => /\ Want(p, e) = "none"
                    /\ \/ e.local # 0 /\ f.local = e.local /\ f.via = e.via
                       \/ dialer # 0 /\ f.via = dialer
  /\ Want(p, e) = "none" /\ e.local # 0 => f.local = e.local
  /\ Want(p, e) = "none" /\ dialer # 0 => f.local # 0 \/ f.err # 0

\* What applyLocked leaves of a row: at most one of a tunnel and a reason.
LEMMA Applied ==
  ASSUME TunnelsTypeOK, NEW p \in Port, NEW e \in Entry, NEW last \in Local \cup {0},
         Apply(p, e, last)
  PROVE  /\ sticky' \in [Port -> Local \cup {0}]
         /\ \E f \in Entry : entry' = [entry EXCEPT ![p] = f] /\ Outcome(p, e, f)
<1>1. Want(p, e) \in Skip \cup {"none"}
  BY WantType
<1>2. dialer \in Nat /\ sticky \in [Port -> Local \cup {0}]
  BY DEF TunnelsTypeOK
<1>3. Local \subseteq Nat /\ 0 \notin Local
  BY TunnelsAssumption
<1>4. CASE ApplyRefuse(p, e, last)
  <2>. DEFINE f == [Stop(e) EXCEPT !.skip = Want(p, e)]
  <2>1. f \in Entry /\ Outcome(p, e, f)
    BY <1>1, <1>4 DEF Entry, Stop, Outcome, Decided, ApplyRefuse
  <2>. QED  BY <1>2, <1>4, <2>1 DEF ApplyRefuse
<1>5. CASE ApplyKeep(p, e, last)
  <2>. DEFINE f == [e EXCEPT !.skip = "none"]
  <2>1. f \in Entry /\ Outcome(p, e, f)
    BY <1>2, <1>5 DEF Entry, Outcome, Decided, ApplyKeep
  <2>. QED  BY <1>2, <1>5, <2>1 DEF ApplyKeep
<1>6. CASE ApplyOpen(p, e, last)
  <2>1. PICK l \in Allotted(p, e.pin, last) :
          /\ entry' = [entry EXCEPT ![p] = [e EXCEPT !.skip = "none", !.err = 0,
                                                     !.local = l, !.via = dialer]]
          /\ sticky' = [sticky EXCEPT ![p] = l]
    BY <1>6 DEF ApplyOpen
  <2>2. l \in Local
    BY AllottedType
  <2>. DEFINE f == [e EXCEPT !.skip = "none", !.err = 0, !.local = l, !.via = dialer]
  <2>3. f \in Entry /\ Outcome(p, e, f)
    BY <1>2, <1>3, <1>6, <2>2 DEF Entry, Outcome, Decided, ApplyOpen
  <2>. QED  BY <1>2, <2>1, <2>2, <2>3
<1>7. CASE ApplyFail(p, e, last)
  <2>1. e.pin \in Local \cup {0}
    BY DEF Entry
  <2>2. PICK h \in Local : h = Head(Tried(p, e.pin, last))
    BY <2>1, TriedType
  <2>. DEFINE f == [e EXCEPT !.skip = "none", !.err = h]
  <2>3. f \in Entry /\ Outcome(p, e, f)
    BY <1>2, <1>3, <1>7, <2>2 DEF Entry, Outcome, Decided, ApplyFail
  <2>. QED  BY <1>2, <1>7, <2>2, <2>3 DEF ApplyFail
<1>. QED  BY <1>4, <1>5, <1>6, <1>7 DEF Apply

-----------------------------------------------------------------------------
(***************************************************************************)
(* The inductive invariant. A tunnel uses the connection that is up, and   *)
(* is one that is wanted, unless the lock is held by something that has    *)
(* not come to it; while paused not even then, which is why going through  *)
(* the table in a pause closes nothing.                                    *)
(***************************************************************************)
RowsTyped ==
  /\ entry \in [Port -> Entry]
  /\ \A p \in Port : ~entry[p].known => entry[p] = NoEntry

TunnelsUseTheLink ==
  \A p \in Port : entry[p].local # 0 => dialer # 0 /\ entry[p].via = dialer

TunnelsAreAllowed ==
  \A p \in Port : entry[p].local # 0 /\ (p \notin todo \/ paused) => Wanted(p)

RowsInv ==
  RowsTyped /\ todo \subseteq Known /\ TunnelsUseTheLink /\ TunnelsAreAllowed /\ NothingMissed

LockInv ==
  /\ missed \subseteq Known
  /\ hold # "scan" => missed = {}
  /\ hold = "free" => todo = {}

LinkInv ==
  /\ dialer # 0 <=> instance \in {"running", "returned"}
  /\ instance # "none" => conn # 0

JobsInv == \A u \in User : job[u].at # "idle" => job[u].port \in Port

TunnelsInv == TunnelsTypeOK /\ RowsInv /\ LockInv /\ LinkInv /\ JobsInv

(***************************************************************************)
(* The rows after an operation that applies e to one of them.              *)
(***************************************************************************)
LEMMA OneRow ==
  ASSUME TunnelsInv, NEW p \in Port, NEW e \in Entry, NEW last \in Local \cup {0},
         Apply(p, e, last), entry[p].known, e.known,
         e.local # 0 => e.local = entry[p].local /\ e.via = entry[p].via,
         UNCHANGED <<opt, paused, dialer>>, todo' = todo \ {p}
  PROVE  /\ RowsInv' /\ sticky' \in [Port -> Local \cup {0}] /\ Known' = Known
         /\ \A q \in Port \ {p} : entry'[q] = entry[q]
         /\ entry'[p].mode = e.mode
<1>1. PICK f \in Entry : entry' = [entry EXCEPT ![p] = f] /\ Outcome(p, e, f)
  BY Applied DEF TunnelsInv
<1>2. sticky' \in [Port -> Local \cup {0}]
  BY Applied DEF TunnelsInv
<1>3. RowsInv /\ entry \in [Port -> Entry]
  BY DEF TunnelsInv, RowsInv, RowsTyped
<1>4. entry'[p] = f /\ \A q \in Port \ {p} : entry'[q] = entry[q]
  BY <1>1, <1>3
<1>5. f.known /\ f.mode = e.mode
  BY <1>1 DEF Outcome, Decided
<1>6. Known' = Known
  BY <1>3, <1>4, <1>5 DEF Known
<1>7. RowsTyped'
  BY <1>1, <1>3, <1>4, <1>5 DEF RowsInv, RowsTyped
<1>8. Want(p, entry[p])' = Want(p, e)
  <2>1. Want(p, entry'[p]) = Want(p, e)
    BY <1>1, <1>4, WantSame DEF Outcome, Decided
  <2>. QED  BY <2>1 DEF Want, Eval
<1>9. \A q \in Port \ {p} : Want(q, entry[q])' = Want(q, entry[q])
  BY <1>4 DEF Want, Eval
<1>10. TunnelsUseTheLink'
  BY <1>1, <1>3, <1>4 DEF Outcome, RowsInv, TunnelsUseTheLink
<1>11. TunnelsAreAllowed'
  BY <1>1, <1>3, <1>4, <1>8, <1>9 DEF Outcome, RowsInv, TunnelsAreAllowed, Wanted
<1>12. NothingMissed'
  <2>1. ASSUME NEW q \in (Settled)'
        PROVE  /\ (dialer # 0 /\ Wanted(q) => entry[q].local # 0 \/ entry[q].err # 0)'
               /\ (entry[q].skip = Want(q, entry[q]))'
    <3>1. q \in Port
      BY <2>1 DEF Settled, Known
    <3>2. CASE q = p
      BY <1>1, <1>4, <1>8, <3>2 DEF Outcome, Wanted
    <3>3. CASE q # p
      <4>1. q \in Settled
        BY <1>6, <2>1, <3>3 DEF Settled
      <4>. QED  BY <1>3, <1>4, <1>9, <3>1, <3>3, <4>1 DEF RowsInv, NothingMissed, Wanted
    <3>. QED  BY <3>2, <3>3
  <2>. QED  BY <2>1 DEF NothingMissed
<1>. QED  BY <1>2, <1>3, <1>4, <1>5, <1>6, <1>7, <1>10, <1>11, <1>12 DEF RowsInv

(***************************************************************************)
(* The rows after a step that leaves them, but for what is shown of them.  *)
(***************************************************************************)
Same(e, f) ==
  /\ f.known = e.known /\ f.mode = e.mode /\ f.keep = e.keep /\ f.skip = e.skip
  /\ f.local = e.local /\ f.via = e.via /\ f.err = e.err

\* A step that leaves every row as it was keeps what is said of the rows.
LEMMA SameRows ==
  ASSUME RowsInv, RowsTyped', \A p \in Port : Same(entry[p], entry'[p]),
         UNCHANGED <<opt, paused, dialer, todo>>
  PROVE  RowsInv' /\ Known' = Known
<1>1. \A p \in Port : Want(p, entry[p])' = Want(p, entry[p])
  BY DEF Same, Want, Eval
<1>2. Known' = Known
  BY DEF Same, Known
<1>3. TunnelsUseTheLink' /\ TunnelsAreAllowed'
  BY <1>1 DEF RowsInv, Same, TunnelsUseTheLink, TunnelsAreAllowed, Wanted
<1>4. NothingMissed'
  BY <1>1, <1>2 DEF RowsInv, Same, NothingMissed, Settled, Known, Wanted
<1>. QED  BY <1>2, <1>3, <1>4 DEF RowsInv

\* The special case in which the rows do not change at all.
LEMMA RowsUntouched ==
  ASSUME TunnelsInv, UNCHANGED <<opt, paused, dialer, todo, entry>>
  PROVE  RowsInv' /\ Known' = Known
BY SameRows DEF TunnelsInv, RowsInv, RowsTyped, Same

-----------------------------------------------------------------------------
(***************************************************************************)
(* Each operation keeps the invariant.                                     *)
(***************************************************************************)
LEMMA OnlyMissing ==
  ASSUME NEW e \in Entry, NEW m \in 0 .. Grace - 1
  PROVE  [e EXCEPT !.missing = m] \in Entry /\ Same(e, [e EXCEPT !.missing = m])
BY DEF Entry, Same

\* A port never seen has no tunnel.
LEMMA NoRow == NoEntry \in Entry /\ ~NoEntry.known /\ NoEntry.local = 0
BY TunnelsAssumption DEF NoEntry, Entry, Mode

\* Nothing is stored for a port at first.
LEMMA NoPrefsType == NoPrefs \in Prefs
BY DEF NoPrefs, Prefs, Mode

\* The budget of requests only goes down.
LEMMA LeftType ==
  ASSUME left \in 0 .. Disturbances, Disturb
  PROVE  left' \in 0 .. Disturbances
BY TunnelsAssumption DEF Disturb

Jobs == [at : {"idle", "read", "store", "write"}, port : Port \cup {0},
         prefs : Prefs, copy : [Port -> Prefs]]

\* A user with no request in hand.
LEMMA NoJobType == NoJob \in Jobs /\ NoJob.at = "idle"
BY NoPrefsType DEF NoJob, Jobs

\* Moving one request along keeps the others.
LEMMA OneJob ==
  ASSUME job \in [User -> Jobs], JobsInv, NEW u \in User, NEW j \in Jobs,
         j.at # "idle" => j.port \in Port, job' = [job EXCEPT ![u] = j]
  PROVE  job' \in [User -> Jobs] /\ JobsInv'
BY DEF JobsInv

\* applyLocked on one port of a scan, of SetPolicy or of SetDialer.
LEMMA ReconcileKeeps ==
  ASSUME TunnelsInv, NEW p \in Port, Reconcile(p)
  PROVE  TunnelsInv'
<1>1. entry[p] \in Entry /\ sticky[p] \in Local \cup {0} /\ entry[p].known
  BY DEF TunnelsInv, TunnelsTypeOK, RowsInv, Reconcile, Known
<1>2. /\ RowsInv' /\ sticky' \in [Port -> Local \cup {0}] /\ Known' = Known
  BY <1>1, OneRow DEF Reconcile
<1>3. TunnelsTypeOK'
  BY <1>2 DEF Reconcile, TunnelsInv, TunnelsTypeOK, LockInv, RowsInv, RowsTyped,
              linkVars, storeVars, historyVars
<1>4. LockInv' /\ LinkInv' /\ JobsInv'
  BY <1>2 DEF Reconcile, TunnelsInv, LockInv, LinkInv, JobsInv, linkVars, storeVars
<1>. QED  BY <1>2, <1>3, <1>4 DEF TunnelsInv

\* Manager.Sync makes a row for each port the scan found.
LEMMA ScanKeeps ==
  ASSUME TunnelsInv, NEW found, found \subseteq box, Scan(found), left' \in 0 .. Disturbances
  PROVE  TunnelsInv'
<1>. USE DEF TunnelsInv
<1>1. /\ found \subseteq Port /\ todo = {} /\ todo' = found /\ hold' = "scan"
      /\ missed' = Known \ found
      /\ UNCHANGED <<opt, sticky, dialer, paused, instance, conn, job>>
  BY DEF Scan, TunnelsTypeOK, LockInv, linkVars, storeVars
<1>2. ASSUME NEW p \in Port
      PROVE  Restored(p) \in Entry /\ Restored(p).known /\ Restored(p).local = 0
  <2>1. PICK r \in Prefs : r = prefs[p]
    BY DEF TunnelsTypeOK
  <2>2. r.mode \in Mode /\ r.local \in Local \cup {0} /\ r.scheme \in Scheme \cup {"unknown"}
    BY DEF Prefs
  <2>. QED  BY <2>1, <2>2, NoRow, ZenonT(30) DEF Restored, Entry
<1>3. /\ \A p \in Port \ found : entry'[p] = entry[p]
      /\ \A p \in found : entry[p].known => entry'[p] = [entry[p] EXCEPT !.missing = 0]
      /\ \A p \in found : ~entry[p].known => entry'[p] = [Restored(p) EXCEPT !.missing = 0]
  BY <1>1 DEF Scan
<1>4. RowsTyped'
  <2>1. ASSUME NEW p \in found
        PROVE  entry'[p] \in Entry /\ entry'[p].known
    <3>1. 0 \in 0 .. Grace - 1 /\ entry[p] \in Entry /\ p \in Port
      BY <1>1, TunnelsAssumption DEF TunnelsTypeOK
    <3>2. PICK e \in Entry : e.known /\ entry'[p] = [e EXCEPT !.missing = 0]
      BY <1>2, <1>3, <3>1
    <3>3. entry'[p] \in Entry /\ Same(e, entry'[p])
      BY <3>1, <3>2, OnlyMissing
    <3>. QED  BY <3>2, <3>3 DEF Same
  <2>2. entry' = [p \in Port |-> entry'[p]]
    BY DEF Scan
  <2>. QED  BY <1>1, <1>3, <2>1, <2>2 DEF RowsInv, RowsTyped
<1>5. ASSUME NEW p \in Port, entry[p].known
      PROVE  Same(entry[p], entry'[p])
  <2>1. 0 \in 0 .. Grace - 1 /\ entry[p] \in Entry
    BY TunnelsAssumption DEF TunnelsTypeOK
  <2>2. Same(entry[p], entry[p])
    BY DEF Same
  <2>3. CASE p \in found
    <3>1. entry'[p] = [entry[p] EXCEPT !.missing = 0]
      BY <1>3, <1>5, <2>3
    <3>2. Same(entry[p], [entry[p] EXCEPT !.missing = 0])
      BY <2>1, OnlyMissing
    <3>. QED  BY <3>1, <3>2
  <2>. QED  BY <1>3, <2>2, <2>3
<1>6. \A p \in Port : entry[p].known => Want(p, entry[p])' = Want(p, entry[p])
  BY <1>1, <1>5 DEF Same, Want, Eval
<1>7. ASSUME NEW p \in found, ~entry[p].known
      PROVE  entry'[p].known /\ entry'[p].local = 0
  <2>1. 0 \in 0 .. Grace - 1 /\ p \in Port
    BY <1>1, TunnelsAssumption
  <2>2. entry'[p] = [Restored(p) EXCEPT !.missing = 0] /\ Restored(p) \in Entry
    BY <1>2, <1>3, <1>7, <2>1
  <2>3. Same(Restored(p), entry'[p])
    BY <2>1, <2>2, OnlyMissing
  <2>. QED  BY <1>2, <2>1, <2>3 DEF Same
<1>8. Known' = Known \cup found
  BY <1>1, <1>3, <1>5, <1>7 DEF Known, Same
<1>9. \A p \in Port : ~entry[p].known => entry'[p].local = 0
  BY <1>3, <1>7, NoRow DEF RowsInv, RowsTyped
<1>10. TunnelsUseTheLink' /\ TunnelsAreAllowed'
  BY <1>1, <1>5, <1>6, <1>9 DEF RowsInv, TunnelsUseTheLink, TunnelsAreAllowed, Same, Wanted
<1>11. NothingMissed'
  BY <1>1, <1>5, <1>6, <1>8
     DEF RowsInv, NothingMissed, Settled, Known, Same, Wanted
<1>12. TunnelsTypeOK'
  BY <1>1, <1>4 DEF Scan, TunnelsTypeOK, RowsTyped, Known, linkVars, storeVars, NoHome
<1>13. LockInv' /\ LinkInv' /\ JobsInv'
  BY <1>1, <1>8 DEF LockInv, LinkInv, JobsInv
<1>. QED  BY <1>1, <1>4, <1>8, <1>10, <1>11, <1>12, <1>13 DEF RowsInv

\* Manager.Sync gives up the rows that too many scans missed.
LEMMA SweepKeeps ==
  ASSUME TunnelsInv, Sweep
  PROVE  TunnelsInv'
<1>. USE DEF TunnelsInv
<1>1. /\ todo = {} /\ todo' = {} /\ hold' = "free" /\ missed' = {}
      /\ UNCHANGED <<opt, dialer, paused, instance, conn, job>>
  BY DEF Sweep, linkVars, storeVars
<1>2. entry \in [Port -> Entry] /\ missed \subseteq Known
  BY DEF TunnelsTypeOK, LockInv
<1>3. ASSUME NEW p \in Port
      PROVE  entry'[p] = NoEntry \/ (entry'[p] \in Entry /\ Same(entry[p], entry'[p]))
  <2>1. CASE p \notin missed
    BY <1>2, <2>1 DEF Sweep, Same
  <2>2. CASE p \in missed /\ entry[p].missing + 1 < Grace
    <3>1. entry[p].missing \in Nat /\ Grace \in Nat
      BY <1>2, TunnelsAssumption DEF Entry
    <3>2. entry[p].missing + 1 \in 0 .. Grace - 1
      BY <2>2, <3>1
    <3>3. entry'[p] = [entry[p] EXCEPT !.missing = entry[p].missing + 1]
      BY <2>2 DEF Sweep
    <3>. QED  BY <1>2, <3>2, <3>3, OnlyMissing
  <2>3. CASE p \in missed /\ ~(entry[p].missing + 1 < Grace)
    BY <2>3 DEF Sweep
  <2>. QED  BY <2>1, <2>2, <2>3
<1>4. ASSUME NEW p \in Port, ~entry[p].known
      PROVE  entry'[p] = entry[p] /\ entry[p] = NoEntry
  BY <1>2, <1>4 DEF Sweep, Known, RowsInv, RowsTyped
<1>5. RowsTyped'
  <2>1. entry' = [p \in Port |-> entry'[p]]
    BY DEF Sweep
  <2>2. \A p \in Port : ~entry'[p].known => entry'[p] = NoEntry
    BY <1>3, <1>4 DEF Same
  <2>. QED  BY <1>3, <2>1, <2>2, NoRow DEF RowsTyped
<1>6. \A p \in Port : entry'[p].known => entry[p].known /\ Same(entry[p], entry'[p])
  BY <1>3, NoRow DEF Same
<1>7. \A p \in Port : entry'[p].known => Want(p, entry[p])' = Want(p, entry[p])
  BY <1>1, <1>6 DEF Same, Want, Eval
<1>8. \A p \in Port : ~entry'[p].known => entry'[p].local = 0
  BY <1>5, NoRow DEF RowsTyped
<1>9. TunnelsUseTheLink' /\ TunnelsAreAllowed'
  BY <1>1, <1>6, <1>7, <1>8 DEF RowsInv, TunnelsUseTheLink, TunnelsAreAllowed, Same, Wanted
<1>10. NothingMissed'
  BY <1>1, <1>6, <1>7 DEF RowsInv, NothingMissed, Settled, Known, Same, Wanted
<1>11. TunnelsTypeOK'
  <2>1. borrowed' \in [Port -> SUBSET {"mode", "local", "row"}]
    BY DEF Sweep, TunnelsTypeOK
  <2>. QED  BY <1>1, <1>5, <2>1 DEF Sweep, TunnelsTypeOK, RowsTyped, linkVars, storeVars
<1>. QED  BY <1>1, <1>5, <1>9, <1>10, <1>11 DEF RowsInv, LockInv, LinkInv, JobsInv

\* The steps that leave the rows and the lock alone.
LEMMA OthersKeep ==
  ASSUME TunnelsInv,
         \/ Attach \/ RunReturns \/ NeverRun
         \/ \E u \in User : StorePrefs(u) \/ WritePrefs(u)
         \/ \E p \in Port : BoxChanges(p)
         \/ \E l \in Local : Take(l) \/ Release(l)
         \/ \E b \in BOOLEAN : SetShowHidden(b)
  PROVE  TunnelsInv'
<1>. USE DEF TunnelsInv
<1>1. UNCHANGED <<opt, entry, sticky, dialer, hold, todo, missed, paused>>
  BY DEF Attach, RunReturns, NeverRun, StorePrefs, WritePrefs, BoxChanges, Take, Release,
         SetShowHidden, managerVars
<1>2. RowsInv' /\ Known' = Known
  BY <1>1, RowsUntouched
<1>3. LockInv'
  BY <1>1, <1>2 DEF LockInv
<1>4. ASSUME Attach \/ RunReturns \/ NeverRun
      PROVE  TunnelsTypeOK' /\ LinkInv' /\ JobsInv'
  <2>1. UNCHANGED <<showHidden, box, taken, storeVars, historyVars>>
    BY <1>4 DEF Attach, RunReturns, NeverRun, managerVars
  <2>2. left' \in 0 .. Disturbances
    BY <1>4, LeftType DEF Attach, RunReturns, NeverRun, TunnelsTypeOK
  <2>3. conn' \in Nat /\ instance' \in {"none", "attached", "running", "returned"}
    BY <1>4 DEF Attach, RunReturns, NeverRun, TunnelsTypeOK
  <2>4. LinkInv'
    BY <1>1, <1>4 DEF Attach, RunReturns, NeverRun, TunnelsTypeOK, LinkInv
  <2>. QED  BY <1>1, <2>1, <2>2, <2>3, <2>4 DEF TunnelsTypeOK, JobsInv, storeVars, historyVars
<1>5. ASSUME NEW u \in User, StorePrefs(u)
      PROVE  TunnelsTypeOK' /\ LinkInv' /\ JobsInv'
  <2>1. prefs' \in [Port -> Prefs]
    BY <1>5 DEF StorePrefs, TunnelsTypeOK
  <2>2. PICK r \in Jobs : r = job[u] /\ r.port \in Port
    BY <1>5 DEF StorePrefs, TunnelsTypeOK, JobsInv, Jobs
  <2>. DEFINE j == IF prefs' = prefs THEN NoJob ELSE [r EXCEPT !.at = "write", !.copy = prefs']
  <2>3. j \in Jobs /\ (j.at # "idle" => j.port \in Port)
    BY <2>1, <2>2, NoJobType DEF Jobs
  <2>4. job' = [job EXCEPT ![u] = j] /\ job \in [User -> Jobs]
    BY <1>5, <2>2 DEF StorePrefs, TunnelsTypeOK, Jobs
  <2>5. job' \in [User -> Jobs] /\ JobsInv'
    BY <2>3, <2>4, OneJob
  <2>6. behind' \in BOOLEAN
    BY <1>5 DEF StorePrefs, TunnelsTypeOK
  <2>. QED  BY <1>1, <1>5, <2>1, <2>5, <2>6, ZenonT(30)
            DEF Jobs, StorePrefs, TunnelsTypeOK, LinkInv, managerVars, linkVars, historyVars
<1>6. ASSUME NEW u \in User, WritePrefs(u)
      PROVE  TunnelsTypeOK' /\ LinkInv' /\ JobsInv'
  <2>1. job' \in [User -> Jobs] /\ JobsInv'
    BY <1>6, NoJobType, OneJob DEF WritePrefs, TunnelsTypeOK, Jobs
  <2>2. job[u].copy \in [Port -> Prefs] /\ left \in 0 .. Disturbances
    BY DEF TunnelsTypeOK
  <2>3. disk' \in [Port -> Prefs] /\ behind' \in BOOLEAN /\ left' \in 0 .. Disturbances
    BY <1>6, <2>2, LeftType DEF WritePrefs, TunnelsTypeOK
  <2>. QED  BY <1>1, <1>6, <2>1, <2>3 DEF Jobs, WritePrefs, TunnelsTypeOK, LinkInv,
                    managerVars, linkVars, historyVars
<1>7. ASSUME \/ \E p \in Port : BoxChanges(p)
             \/ \E l \in Local : Take(l) \/ Release(l)
             \/ \E b \in BOOLEAN : SetShowHidden(b)
      PROVE  TunnelsTypeOK' /\ LinkInv' /\ JobsInv'
  <2>1. box' \subseteq Port /\ taken' \subseteq Local /\ showHidden' \in BOOLEAN
    BY <1>7 DEF BoxChanges, Take, Release, SetShowHidden, TunnelsTypeOK, managerVars
  <2>2. left' \in 0 .. Disturbances
    BY <1>7, LeftType DEF BoxChanges, Take, Release, SetShowHidden, TunnelsTypeOK
  <2>3. home' \in [Port -> Local \cup {0}]
    BY <1>7 DEF BoxChanges, Take, Release, SetShowHidden, TunnelsTypeOK, NoHome, historyVars
  <2>4. UNCHANGED <<linkVars, storeVars, borrowed>>
    BY <1>7 DEF BoxChanges, Take, Release, SetShowHidden, historyVars
  <2>. QED  BY <1>1, <2>1, <2>2, <2>3, <2>4 DEF TunnelsTypeOK, LinkInv, JobsInv, linkVars,
                                                storeVars
<1>. QED  BY <1>2, <1>3, <1>4, <1>5, <1>6, <1>7

\* Manager.persist reads the row again.
LEMMA ReadKeeps ==
  ASSUME TunnelsInv, NEW u \in User, ReadPrefs(u)
  PROVE  TunnelsInv'
<1>. USE DEF TunnelsInv
<1>1. UNCHANGED <<opt, entry, sticky, dialer, hold, todo, missed, paused, showHidden>>
  BY DEF ReadPrefs, managerVars
<1>2. RowsInv' /\ Known' = Known
  BY <1>1, RowsUntouched
<1>3. job[u].port \in Port
  BY DEF ReadPrefs, JobsInv
<1>4. PrefsOf(entry[job[u].port]) \in Prefs
  <2>1. PICK e \in Entry : e = entry[job[u].port]
    BY <1>3 DEF TunnelsTypeOK
  <2>2. e.mode \in Mode /\ e.pin \in Local \cup {0} /\ e.scheme \in Scheme \cup {"unknown"}
    BY DEF Entry
  <2>. QED  BY <2>1, <2>2 DEF PrefsOf, Prefs
<1>5. PICK r \in Jobs : r = job[u]
  BY DEF TunnelsTypeOK, Jobs
<1>. DEFINE j == IF entry[job[u].port].known
                 THEN [r EXCEPT !.at = "store", !.prefs = PrefsOf(entry[job[u].port])]
                 ELSE NoJob
<1>6. j \in Jobs /\ (j.at # "idle" => j.port \in Port)
  BY <1>3, <1>4, <1>5, NoJobType DEF Jobs
<1>7. job' = [job EXCEPT ![u] = j] /\ job \in [User -> Jobs]
  BY <1>5 DEF ReadPrefs, TunnelsTypeOK, Jobs
<1>8. job' \in [User -> Jobs] /\ JobsInv'
  BY <1>6, <1>7, OneJob
<1>. QED  BY <1>1, <1>2, <1>8
          DEF Jobs, ReadPrefs, TunnelsTypeOK, LockInv, LinkInv, linkVars, historyVars

\* Instance.Run gives the manager a dialer, and every row is looked at.
LEMMA RunKeeps ==
  ASSUME TunnelsInv, Run
  PROVE  TunnelsInv'
<1>. USE DEF TunnelsInv
<1>1. /\ UNCHANGED <<opt, entry, sticky, missed, paused, showHidden, conn, box, taken,
                     storeVars, left, historyVars>>
      /\ instance = "attached" /\ instance' = "running" /\ dialer' = conn
      /\ todo' = Known /\ hold' \in {"free", "all"} /\ (hold' = "free" => Known = {})
      /\ missed = {}
  BY DEF Run, TakeAll, LockInv
<1>2. dialer = 0 /\ conn # 0 /\ conn \in Nat
  BY <1>1 DEF LinkInv, TunnelsTypeOK
<1>3. \A p \in Port : entry[p].local = 0
  BY <1>2 DEF RowsInv, TunnelsUseTheLink
<1>4. Known' = Known /\ Known \subseteq Port
  BY <1>1 DEF Known
<1>5. RowsInv'
  BY <1>1, <1>3, <1>4 DEF RowsInv, RowsTyped, TunnelsUseTheLink, TunnelsAreAllowed,
                          NothingMissed, Settled
<1>6. TunnelsTypeOK'
  BY <1>1, <1>2, <1>4 DEF TunnelsTypeOK, storeVars, historyVars
<1>. QED  BY <1>1, <1>2, <1>4, <1>5, <1>6 DEF LockInv, LinkInv, JobsInv, storeVars

\* Instance.Close takes the dialer away, and every tunnel with it.
LEMMA CloseInstanceKeeps ==
  ASSUME TunnelsInv, Close
  PROVE  TunnelsInv'
<1>. USE DEF TunnelsInv
<1>1. /\ UNCHANGED <<opt, sticky, hold, todo, missed, paused, showHidden, conn, box, taken,
                     storeVars, left, borrowed>>
      /\ hold = "free" /\ todo = {} /\ instance' = "none" /\ dialer' = 0
  BY DEF Close, LockInv
<1>2. ASSUME NEW p \in Port
      PROVE  /\ entry'[p] \in Entry
             /\ entry'[p].mode = entry[p].mode /\ entry'[p].keep = entry[p].keep
             /\ entry'[p].skip = entry[p].skip /\ entry'[p].local = 0
             /\ entry'[p].known = entry[p].known
             /\ entry[p] = NoEntry => entry'[p] = NoEntry
  <2>1. entry'[p] = [Stop(entry[p]) EXCEPT !.missing = 0]
    BY DEF Close
  <2>2. PICK e \in Entry : e = entry[p]
    BY DEF TunnelsTypeOK
  <2>3. 0 \in 0 .. Grace - 1
    BY TunnelsAssumption
  <2>4. PICK f \in Entry : f = Stop(e)
    BY DEF Stop, Entry
  <2>5. /\ f.mode = e.mode /\ f.keep = e.keep /\ f.skip = e.skip /\ f.known = e.known
        /\ f.local = 0
    BY <2>4 DEF Stop, Entry
  <2>6. entry'[p] \in Entry /\ Same(f, entry'[p])
    BY <2>1, <2>2, <2>3, <2>4, OnlyMissing
  <2>7. entry[p] = NoEntry => entry'[p] = NoEntry
    <3>1. [NoEntry EXCEPT !.local = 0] = NoEntry /\ [NoEntry EXCEPT !.via = 0] = NoEntry
      BY DEF NoEntry
    <3>2. Stop(NoEntry) = [[NoEntry EXCEPT !.local = 0] EXCEPT !.via = 0]
      BY DEF Stop
    <3>3. [NoEntry EXCEPT !.missing = 0] = NoEntry
      BY DEF NoEntry
    <3>. QED  BY <2>1, <3>1, <3>2, <3>3
  <2>. QED  BY <2>2, <2>5, <2>6, <2>7 DEF Same
<1>3. entry' = [p \in Port |-> entry'[p]]
  BY DEF Close
<1>4. RowsTyped'
  BY <1>2, <1>3 DEF RowsInv, RowsTyped
<1>5. Known' = Known
  BY <1>2 DEF Known
<1>6. \A p \in Port : Want(p, entry[p])' = Want(p, entry[p])
  BY <1>1, <1>2 DEF Want, Eval
<1>7. TunnelsUseTheLink' /\ TunnelsAreAllowed'
  BY <1>2 DEF TunnelsUseTheLink, TunnelsAreAllowed
<1>8. NothingMissed'
  BY <1>1, <1>2, <1>5, <1>6 DEF RowsInv, NothingMissed, Settled, Known
<1>9. home' \in [Port -> Local \cup {0}]
  BY DEF Close, TunnelsTypeOK, Entry
<1>10. TunnelsTypeOK'
  BY <1>1, <1>4, <1>9 DEF TunnelsTypeOK, RowsTyped, storeVars
<1>. QED  BY <1>1, <1>4, <1>5, <1>7, <1>8, <1>10 DEF RowsInv, LockInv, LinkInv, JobsInv, storeVars

\* A new process has the host file and no rows.
LEMMA RestartKeeps ==
  ASSUME TunnelsInv, Restart
  PROVE  TunnelsInv'
<1>. USE DEF TunnelsInv
<1>1. /\ UNCHANGED <<opt, showHidden, conn, box, taken, disk>>
      /\ paused' = FALSE /\ dialer' = 0 /\ hold' = "free" /\ todo' = {} /\ missed' = {}
      /\ instance' = "none" /\ prefs' = disk
      /\ entry' = [p \in Port |-> NoEntry] /\ sticky' = [p \in Port |-> 0]
      /\ job' = [u \in User |-> NoJob]
      /\ borrowed' = [p \in Port |-> {}] /\ home' = [p \in Port |-> 0]
      /\ crossed' = {} /\ behind' = FALSE
  BY DEF Restart, NoHome
<1>2. Known' = {}
  BY <1>1, NoRow DEF Known
<1>3. RowsInv'
  BY <1>1, <1>2, NoRow DEF RowsInv, RowsTyped, TunnelsUseTheLink, TunnelsAreAllowed,
                           NothingMissed, Settled
<1>4. TunnelsTypeOK'
  <2>1. left' \in 0 .. Disturbances
    BY LeftType DEF Restart, TunnelsTypeOK
  <2>2. job' \in [User -> Jobs]
    BY <1>1, NoJobType
  <2>. QED  BY <1>1, <2>1, <2>2, NoRow DEF TunnelsTypeOK, Jobs
<1>. QED  BY <1>1, <1>2, <1>3, <1>4, NoJobType DEF LockInv, LinkInv, JobsInv

(***************************************************************************)
(* The operations on one row: e is what they make of it before it is       *)
(* reconciled.                                                             *)
(***************************************************************************)
Around == <<opt, dialer, hold, todo, missed, paused, showHidden, linkVars, box, taken,
            prefs, disk, behind>>
RestTyped ==
  /\ left \in 0 .. Disturbances
  /\ job \in [User -> Jobs]
  /\ borrowed \in [Port -> SUBSET {"mode", "local", "row"}]
  /\ home \in [Port -> Local \cup {0}]
  /\ crossed \subseteq Port

\* An operation that applies one row under the lock keeps the invariant.
LEMMA OneRowKeeps ==
  ASSUME TunnelsInv, NEW p \in Port, NEW e \in Entry, NEW last \in Local \cup {0},
         hold = "free", Apply(p, e, last), entry[p].known, e.known,
         e.local # 0 => e.local = entry[p].local /\ e.via = entry[p].via,
         UNCHANGED Around, RestTyped', JobsInv'
  PROVE  TunnelsInv'
<1>. USE DEF TunnelsInv
<1>1. todo = {} /\ todo' = todo \ {p} /\ UNCHANGED <<opt, paused, dialer>>
  BY DEF Around, LockInv
<1>2. RowsInv' /\ sticky' \in [Port -> Local \cup {0}] /\ Known' = Known
  BY <1>1, OneRow
<1>3. TunnelsTypeOK'
  BY <1>2 DEF Around, RestTyped, Jobs, TunnelsTypeOK, RowsInv, RowsTyped, linkVars
<1>. QED  BY <1>2, <1>3 DEF Around, LockInv, LinkInv, linkVars

\* What a call by a user changes besides the row it applies.
LEMMA CallsType ==
  ASSUME TunnelsInv, NEW u \in User, NEW p \in Port, Calls(u, p)
  PROVE  /\ left' \in 0 .. Disturbances /\ job' \in [User -> Jobs] /\ JobsInv'
         /\ hold = "free" /\ entry[p].known /\ UNCHANGED Around /\ crossed' \subseteq Port
<1>1. left' \in 0 .. Disturbances
  BY LeftType DEF Calls, TunnelsInv, TunnelsTypeOK
<1>. DEFINE j == [NoJob EXCEPT !.at = "read", !.port = p]
<1>2. j \in Jobs /\ j.port = p
  BY NoJobType DEF Jobs
<1>3. job' = [job EXCEPT ![u] = j] /\ job \in [User -> Jobs] /\ JobsInv
  BY DEF Calls, TunnelsInv, TunnelsTypeOK, Jobs
<1>. HIDE DEF j
<1>4. job' \in [User -> Jobs] /\ JobsInv'
  BY <1>2, <1>3, OneJob
<1>5. crossed' \subseteq Port
  BY DEF Calls, TunnelsInv, TunnelsTypeOK
<1>. QED  BY <1>1, <1>4, <1>5 DEF Calls, Around

\* The row SetMode applies is well typed.
LEMMA InModeType ==
  ASSUME TunnelsInv, NEW p \in Port, NEW mode \in Mode, entry[p].known
  PROVE  /\ InMode(p, mode) \in Entry /\ InMode(p, mode).known
         /\ InMode(p, mode).local = entry[p].local /\ InMode(p, mode).via = entry[p].via
         /\ InMode(p, mode).mode = mode
<1>1. PICK e \in Entry : e = entry[p]
  BY DEF TunnelsInv, TunnelsTypeOK
<1>2. PICK k \in BOOLEAN : k = (e.keep /\ mode = "auto")
  OBVIOUS
<1>3. PICK r \in Local \cup {0} : r = IF mode = "hidden" THEN e.err ELSE 0
  BY DEF Entry
<1>4. InMode(p, mode) = [e EXCEPT !.mode = mode, !.keep = k, !.err = r]
  BY <1>1, <1>2, <1>3 DEF InMode
<1>. QED  BY <1>1, <1>4, ZenonT(30) DEF Entry

\* The row SetLocalPort applies is well typed.
LEMMA RelocatedType ==
  ASSUME TunnelsInv, NEW p \in Port, NEW local \in Local \cup {0}, entry[p].known
  PROVE  /\ Relocated(p, local) \in Entry /\ Relocated(p, local).known
         /\ Relocated(p, local).local = 0
         /\ Relocated(p, local).mode = entry[p].mode
<1>1. PICK e \in Entry : e = entry[p]
  BY DEF TunnelsInv, TunnelsTypeOK
<1>2. PICK f \in Entry : f = Stop(e)
  BY DEF Stop, Entry
<1>3. f.known = e.known /\ f.mode = e.mode /\ f.local = 0
  BY <1>2 DEF Stop, Entry
<1>4. Relocated(p, local) = [f EXCEPT !.pin = local, !.err = 0]
  BY <1>1, <1>2 DEF Relocated
<1>. QED  BY <1>1, <1>3, <1>4, ZenonT(30) DEF Entry

\* Manager.SetMode.
LEMMA SetModeKeeps ==
  ASSUME TunnelsInv, NEW u \in User, NEW p \in Port, NEW mode \in Mode, SetMode(u, p, mode)
  PROVE  TunnelsInv'
<1>1. RestTyped'
  BY CallsType DEF SetMode, NoHome, RestTyped, TunnelsInv, TunnelsTypeOK
<1>2. sticky[p] \in Local \cup {0}
  BY DEF TunnelsInv, TunnelsTypeOK
<1>. QED  BY <1>1, <1>2, CallsType, InModeType, OneRowKeeps DEF SetMode

\* Manager.SetLocalPort.
LEMMA SetLocalPortKeeps ==
  ASSUME TunnelsInv, NEW u \in User, NEW p \in Port, NEW local \in Local \cup {0},
         SetLocalPort(u, p, local)
  PROVE  TunnelsInv'
<1>1. RestTyped'
  BY CallsType DEF SetLocalPort, NoHome, RestTyped, TunnelsInv, TunnelsTypeOK
<1>. QED  BY <1>1, CallsType, RelocatedType, OneRowKeeps DEF SetLocalPort

\* What the calls for this session only change besides the row they apply.
LEMMA BorrowsType ==
  ASSUME TunnelsInv, NEW p \in Port, NEW what, what \subseteq {"mode", "local"}, Borrows(p, what)
  PROVE  RestTyped' /\ JobsInv' /\ hold = "free" /\ entry[p].known /\ UNCHANGED Around
<1>1. left' \in 0 .. Disturbances
  BY LeftType DEF Borrows, TunnelsInv, TunnelsTypeOK
<1>2. UNCHANGED Around /\ UNCHANGED job
  BY DEF Borrows, Around, storeVars
<1>3. borrowed' \in [Port -> SUBSET {"mode", "local", "row"}] /\ home' \in [Port -> Local \cup {0}]
  BY DEF Borrows, NoHome, TunnelsInv, TunnelsTypeOK
<1>. QED  BY <1>1, <1>2, <1>3
          DEF Borrows, storeVars, RestTyped, TunnelsInv, TunnelsTypeOK, JobsInv, Jobs

\* Manager.ForwardNow.
LEMMA ForwardNowKeeps ==
  ASSUME TunnelsInv, NEW p \in Port, ForwardNow(p)
  PROVE  TunnelsInv'
<1>1. sticky[p] \in Local \cup {0} /\ "on" \in Mode
  BY DEF TunnelsInv, TunnelsTypeOK, Mode
<1>2. RestTyped' /\ JobsInv' /\ hold = "free" /\ entry[p].known /\ UNCHANGED Around
  BY BorrowsType DEF ForwardNow
<1>. QED  BY <1>1, <1>2, InModeType, OneRowKeeps DEF ForwardNow

\* Manager.TryLocalPort.
LEMMA TryLocalPortKeeps ==
  ASSUME TunnelsInv, NEW p \in Port, TryLocalPort(p, p)
  PROVE  TunnelsInv'
<1>1. p \in Local
  BY TunnelsAssumption
<1>2. RestTyped' /\ JobsInv' /\ hold = "free" /\ entry[p].known /\ UNCHANGED Around
  BY BorrowsType DEF TryLocalPort
<1>. QED  BY <1>1, <1>2, RelocatedType, OneRowKeeps DEF TryLocalPort

\* The scheme of a row says nothing about its tunnel.
LEMMA OnlyScheme ==
  ASSUME RowsTyped, NEW p \in Port, entry[p].known, NEW scheme \in Scheme \cup {"unknown"},
         NEW pinned \in BOOLEAN,
         entry' = [entry EXCEPT ![p] = [entry[p] EXCEPT !.scheme = scheme, !.pinned = pinned]]
  PROVE  RowsTyped' /\ \A q \in Port : Same(entry[q], entry'[q])
<1>1. PICK e \in Entry : e = entry[p]
  BY DEF RowsTyped
<1>2. PICK f \in Entry : f = [e EXCEPT !.scheme = scheme, !.pinned = pinned]
  BY DEF Entry
<1>3. Same(e, f)
  BY <1>2 DEF Entry, Same
<1>4. entry' = [entry EXCEPT ![p] = f] /\ f.known
  BY <1>1, <1>2, <1>3 DEF Same
<1>5. \A q \in Port \ {p} : entry'[q] = entry[q]
  BY <1>4 DEF RowsTyped
<1>6. entry'[p] = f
  BY <1>4 DEF RowsTyped
<1>7. RowsTyped'
  BY <1>4, <1>5, <1>6 DEF RowsTyped
<1>. QED  BY <1>1, <1>3, <1>5, <1>6, <1>7 DEF Same

\* So an operation that sets only the scheme keeps the invariant.
LEMMA SchemeKeeps ==
  ASSUME TunnelsInv, UNCHANGED Around, UNCHANGED sticky, RestTyped', JobsInv', RowsTyped',
         \A q \in Port : Same(entry[q], entry'[q])
  PROVE  TunnelsInv'
<1>. USE DEF TunnelsInv
<1>1. RowsInv' /\ Known' = Known
  BY SameRows DEF Around
<1>2. TunnelsTypeOK'
  BY DEF Around, RestTyped, Jobs, TunnelsTypeOK, RowsTyped, linkVars
<1>. QED  BY <1>1, <1>2 DEF Around, LockInv, LinkInv, linkVars

\* Manager.SetScheme.
LEMMA SetSchemeKeeps ==
  ASSUME TunnelsInv, NEW u \in User, NEW p \in Port, NEW scheme \in Scheme \cup {"unknown"},
         SetScheme(u, p, scheme)
  PROVE  TunnelsInv'
<1>1. RestTyped'
  BY CallsType DEF SetScheme, historyVars, RestTyped, TunnelsInv, TunnelsTypeOK
<1>2. PICK b \in BOOLEAN : b = (scheme # "unknown")
  OBVIOUS
<1>3. entry' = [entry EXCEPT ![p] = [entry[p] EXCEPT !.scheme = scheme, !.pinned = b]]
  BY <1>2 DEF SetScheme, TunnelsInv, TunnelsTypeOK
<1>4. RowsTyped /\ entry[p].known
  BY CallsType DEF SetScheme, TunnelsInv, RowsInv
<1>5. RowsTyped' /\ \A q \in Port : Same(entry[q], entry'[q])
  BY <1>3, <1>4, OnlyScheme
<1>. QED  BY <1>1, <1>5, CallsType, SchemeKeeps DEF SetScheme

\* Manager.SetLabel.
LEMMA SetLabelKeeps ==
  ASSUME TunnelsInv, NEW u \in User, NEW p \in Port, SetLabel(u, p)
  PROVE  TunnelsInv'
<1>1. RestTyped'
  BY CallsType DEF SetLabel, historyVars, RestTyped, TunnelsInv, TunnelsTypeOK
<1>2. RowsTyped' /\ \A q \in Port : Same(entry[q], entry'[q])
  BY DEF SetLabel, TunnelsInv, RowsInv, RowsTyped, Same
<1>. QED  BY <1>1, <1>2, CallsType, SchemeKeeps DEF SetLabel

\* A scheme learnt from the first reply.
LEMMA ObserveKeeps ==
  ASSUME TunnelsInv, NEW p \in Port, NEW scheme \in Scheme, Observe(p, scheme)
  PROVE  TunnelsInv'
<1>1. left' \in 0 .. Disturbances
  BY LeftType DEF Observe, TunnelsInv, TunnelsTypeOK
<1>2. UNCHANGED Around /\ UNCHANGED <<sticky, job, borrowed, home, crossed>>
  BY DEF Observe, Around, storeVars, historyVars
<1>3. RestTyped' /\ JobsInv'
  BY <1>1, <1>2 DEF RestTyped, TunnelsInv, TunnelsTypeOK, JobsInv, Jobs
<1>4. RowsTyped /\ entry[p].known
  BY NoRow DEF Observe, TunnelsInv, RowsInv, RowsTyped
<1>5. PICK e \in Entry : e = entry[p] /\ e.pinned \in BOOLEAN
  BY DEF TunnelsInv, TunnelsTypeOK, Entry
<1>6. entry' = [entry EXCEPT ![p] = [entry[p] EXCEPT !.scheme = scheme, !.pinned = e.pinned]]
  BY <1>5 DEF Observe, TunnelsInv, TunnelsTypeOK, Entry
<1>7. RowsTyped' /\ \A q \in Port : Same(entry[q], entry'[q])
  BY <1>4, <1>5, <1>6, OnlyScheme
<1>. QED  BY <1>2, <1>3, <1>7, SchemeKeeps

\* Manager.SetPaused marks what is up, and every row is looked at.
LEMMA SetPausedKeeps ==
  ASSUME TunnelsInv, NEW b \in BOOLEAN, SetPaused(b)
  PROVE  TunnelsInv'
<1>. USE DEF TunnelsInv
<1>1. /\ UNCHANGED <<opt, sticky, dialer, missed, showHidden, linkVars, box, taken, storeVars,
                     borrowed>>
      /\ paused' = b /\ todo' = Known /\ hold' \in {"free", "all"}
      /\ (hold' = "free" => Known = {}) /\ todo = {} /\ missed = {} /\ paused \in BOOLEAN
  BY DEF SetPaused, TakeAll, LockInv, TunnelsTypeOK
<1>. DEFINE k(p) == IF ~b THEN FALSE ELSE IF paused THEN entry[p].keep
                    ELSE entry[p].mode = "auto" /\ entry[p].local # 0
<1>2. entry' = [p \in Port |-> [entry[p] EXCEPT !.keep = k(p)]]
  BY DEF SetPaused
<1>3. ASSUME NEW p \in Port
      PROVE  /\ entry'[p] \in Entry /\ entry'[p].known = entry[p].known
             /\ entry'[p].local = entry[p].local /\ entry'[p].via = entry[p].via
             /\ entry'[p].mode = entry[p].mode /\ entry'[p].keep = k(p)
  <2>1. PICK e \in Entry : e = entry[p]
    BY DEF TunnelsTypeOK
  <2>2. k(p) \in BOOLEAN
    BY <1>1, <2>1 DEF Entry
  <2>. HIDE DEF k
  <2>. QED  BY <1>2, <2>1, <2>2 DEF Entry
<1>4. ASSUME NEW p \in Port, ~entry[p].known
      PROVE  entry'[p] = NoEntry
  <2>1. entry[p] = NoEntry
    BY <1>4 DEF RowsInv, RowsTyped
  <2>2. k(p) = FALSE
    BY <1>1, <2>1 DEF NoEntry
  <2>3. [NoEntry EXCEPT !.keep = FALSE] = NoEntry
    <3>1. PICK e \in Entry : e = NoEntry
      BY NoRow
    <3>2. [e EXCEPT !.keep = e.keep] = e
      BY DEF Entry
    <3>3. e.keep = FALSE
      BY <3>1 DEF NoEntry
    <3>. QED  BY <3>1, <3>2, <3>3
  <2>. QED  BY <1>2, <2>1, <2>2, <2>3
<1>5. RowsTyped' /\ Known' = Known
  <2>1. entry' = [p \in Port |-> entry'[p]]
    BY DEF SetPaused
  <2>. HIDE DEF k
  <2>2. RowsTyped'
    BY <1>3, <1>4, <2>1 DEF RowsTyped
  <2>. QED  BY <1>3, <2>2 DEF Known
<1>6. ASSUME NEW p \in Port, entry'[p].local # 0, b
      PROVE  Wanted(p)'
  <2>1. Want(p, entry[p]) = "none"
    BY <1>1, <1>3, <1>6 DEF RowsInv, TunnelsAreAllowed, Wanted
  <2>2. CASE paused
    BY <1>1, <1>3, <1>6, <2>1, <2>2 DEF Wanted, Want, Eval
  <2>3. CASE ~paused
    <3>1. entry[p].mode = "auto" => entry'[p].keep = TRUE
      BY <1>3, <1>6, <2>3
    <3>2. entry[p].mode \in Mode /\ entry'[p].mode = entry[p].mode /\ paused' /\ opt' = opt
      BY <1>1, <1>3, <1>6 DEF TunnelsTypeOK, Entry
    <3>3. CASE entry[p].mode = "on"
      BY <2>1, <3>2, <3>3 DEF Wanted, Want
    <3>4. CASE entry[p].mode = "auto"
      BY <2>1, <3>1, <3>2, <3>4 DEF Wanted, Want
    <3>. QED  BY <2>1, <3>2, <3>3, <3>4 DEF Mode, Want
  <2>. QED  BY <2>2, <2>3
<1>7. \A p \in Port : entry'[p].local # 0 => p \in Known
  BY <1>4, NoRow DEF Known
<1>8. TunnelsUseTheLink' /\ TunnelsAreAllowed' /\ NothingMissed'
  BY <1>1, <1>3, <1>5, <1>6, <1>7
     DEF RowsInv, TunnelsUseTheLink, TunnelsAreAllowed, NothingMissed, Settled
<1>9. TunnelsTypeOK'
  <2>1. left' \in 0 .. Disturbances /\ home' \in [Port -> Local \cup {0}]
    BY LeftType DEF SetPaused, NoHome, TunnelsTypeOK
  <2>2. Known \subseteq Port
    BY DEF Known
  <2>. QED  BY <1>1, <1>5, <2>1, <2>2 DEF TunnelsTypeOK, RowsTyped, linkVars, storeVars
<1>. QED  BY <1>1, <1>5, <1>8, <1>9 DEF RowsInv, LockInv, LinkInv, JobsInv, linkVars, storeVars

-----------------------------------------------------------------------------
\* The invariant of the manager holds at the start.
LEMMA TunnelsStart ==
  ASSUME TunnelsInit
  PROVE  TunnelsInv
<1>1. Known = {} /\ RowsTyped
  BY NoRow DEF TunnelsInit, Known, RowsTyped
<1>2. RowsInv
  BY <1>1, NoRow DEF TunnelsInit, RowsInv, TunnelsUseTheLink, TunnelsAreAllowed,
                     NothingMissed, Settled
<1>3. TunnelsTypeOK
  <2>1. job \in [User -> Jobs] /\ disk \in [Port -> Prefs]
    BY NoJobType, FilesAssumption DEF TunnelsInit
  <2>. QED  BY <1>1, <2>1 DEF TunnelsInit, TunnelsTypeOK, RowsTyped, Jobs
<1>. QED  BY <1>2, <1>3, NoJobType DEF TunnelsInv, TunnelsInit, LockInv, LinkInv, JobsInv

\* Every operation of the manager keeps its invariant.
LEMMA TunnelsStep ==
  ASSUME TunnelsInv, [TunnelsNext]_tunnelsVars
  PROVE  TunnelsInv'
<1>1. CASE Work
  <2>1. ASSUME ScanAll
        PROVE  TunnelsInv'
    BY <2>1, ScanKeeps DEF ScanAll, TunnelsInv, TunnelsTypeOK
  <2>2. ASSUME ScanDrops
        PROVE  TunnelsInv'
    <3>1. left' \in 0 .. Disturbances
      BY <2>2, LeftType DEF ScanDrops, TunnelsInv, TunnelsTypeOK
    <3>2. PICK p \in box : Scan(box \ {p})
      BY <2>2 DEF ScanDrops
    <3>3. box \ {p} \subseteq box
      OBVIOUS
    <3>. QED  BY <3>1, <3>2, <3>3, ScanKeeps
  <2>. QED  BY <1>1, <2>1, <2>2, ReconcileKeeps, SweepKeeps, RunKeeps, CloseInstanceKeeps,
               OthersKeep, ReadKeeps DEF Work
<1>2. CASE Use
  <2>1. ASSUME NEW b \in BOOLEAN, SetShowHidden(b)
        PROVE  TunnelsInv'
    BY <2>1, OthersKeep
  <2>. QED  BY <1>2, <2>1, SetModeKeeps, SetLocalPortKeeps, SetSchemeKeeps, SetLabelKeeps,
               SetPausedKeeps DEF Use
<1>3. CASE World
  BY <1>3, ObserveKeeps, OthersKeep DEF World
<1>4. CASE Browse
  BY <1>4, ForwardNowKeeps, TryLocalPortKeeps DEF Browse
<1>5. CASE Restart
  BY <1>5, RestartKeeps
<1>6. CASE UNCHANGED tunnelsVars
  <2>1. UNCHANGED <<opt, paused, dialer, todo, entry>>
    BY <1>6 DEF tunnelsVars, managerVars
  <2>2. RowsInv' /\ Known' = Known
    BY <2>1, RowsUntouched
  <2>. QED  BY <1>6, <2>2 DEF TunnelsInv, TunnelsTypeOK, LockInv, LinkInv, JobsInv, tunnelsVars,
                              managerVars, linkVars, storeVars, historyVars
<1>. QED  BY <1>1, <1>2, <1>3, <1>4, <1>5, <1>6 DEF TunnelsNext

(***************************************************************************)
(* A page's steps are the browser's calls, or leave the tunnels alone.     *)
(***************************************************************************)
Pages == [at : {"none", "looking", "asking", "found", "open", "refused"},
          port : Port \cup {0}, asked : BOOLEAN, local : Local \cup {0}]
LocalizeInv == TunnelsInv /\ page \in Pages /\ (page.at \notin {"none"} => page.port \in Port)

\* No localize page is open.
LEMMA NoPageType == NoPage \in Pages /\ NoPage.at = "none"
BY DEF NoPage, Pages

\* Each step of the localize page keeps the invariant of the manager, and the page.
LEMMA PageStep ==
  ASSUME LocalizeInv, [LocalizeNext]_localizeVars
  PROVE  /\ page' \in Pages /\ (page'.at \notin {"none"} => page'.port \in Port)
         /\ \/ [TunnelsNext]_tunnelsVars
            \/ /\ left' \in 0 .. Disturbances
               /\ UNCHANGED <<opt, managerVars, linkVars, box, taken, storeVars, historyVars>>
<1>. USE DEF LocalizeInv
<1>1. PICK r \in Pages : r = page
  OBVIOUS
<1>2. CASE (Work \/ Use \/ World) /\ UNCHANGED page
  BY <1>2 DEF TunnelsNext
<1>3. CASE Restart /\ page' = NoPage
  BY <1>3, NoPageType DEF TunnelsNext
<1>4. ASSUME NEW p \in Port, Request(p)
      PROVE  /\ page' \in Pages /\ page'.port \in Port /\ left' \in 0 .. Disturbances
             /\ UNCHANGED <<opt, managerVars, linkVars, box, taken, storeVars, historyVars>>
  <2>1. left' \in 0 .. Disturbances
    BY <1>4, LeftType DEF Request, TunnelsInv, TunnelsTypeOK
  <2>2. page' = [NoPage EXCEPT !.at = "looking", !.port = p]
    BY <1>4 DEF Request
  <2>. QED  BY <1>4, <2>1, <2>2, NoPageType DEF Request, Pages
<1>5. CASE Look
  <2>1. entry[r.port].local \in Local \cup {0} /\ r.port \in Port
    BY <1>1, <1>5 DEF Look, TunnelsInv, TunnelsTypeOK, Entry
  <2>2. \/ page' = [r EXCEPT !.at = "found", !.local = entry[r.port].local]
        \/ page' = [r EXCEPT !.at = "asking", !.asked = TRUE]
    BY <1>1, <1>5 DEF Look
  <2>. QED  BY <1>5, <2>1, <2>2 DEF Look, Pages
<1>6. CASE Ask
  <2>1. page' = [r EXCEPT !.at = "looking"] /\ r.port \in Port
    BY <1>1, <1>6 DEF Ask
  <2>2. [TunnelsNext]_tunnelsVars
    BY <1>1, <1>6, <2>1 DEF Ask, TunnelsNext, Browse
  <2>. QED  BY <2>1, <2>2 DEF Pages
<1>7. CASE GiveUp \/ OpenAsFound
  <2>1. page' \in {[r EXCEPT !.at = "refused"], [r EXCEPT !.at = "open"]} /\ r.port \in Port
    BY <1>1, <1>7 DEF GiveUp, OpenAsFound
  <2>. QED  BY <1>7, <2>1 DEF GiveUp, OpenAsFound, Pages
<1>8. CASE Reclaim
  <2>1. r.port \in Port /\ r.port \in Local
    BY <1>1, <1>8, TunnelsAssumption DEF Reclaim
  <2>2. [TunnelsNext]_tunnelsVars
    BY <1>1, <1>8, <2>1 DEF Reclaim, TunnelsNext, Browse
  <2>3. \E l \in Local \cup {0} : page' = [r EXCEPT !.at = "open", !.local = l]
    <3>1. r.local \in Local \cup {0}
      BY DEF Pages
    <3>2. [r EXCEPT !.at = "open"] = [r EXCEPT !.at = "open", !.local = r.local]
      BY DEF Pages
    <3>. QED  BY <1>1, <1>8, <2>1, <3>1, <3>2 DEF Reclaim
  <2>. QED  BY <2>1, <2>2, <2>3 DEF Pages
<1>9. CASE Done
  BY <1>9, NoPageType DEF Done
<1>10. CASE UNCHANGED localizeVars
  BY <1>10 DEF localizeVars
<1>. QED  BY <1>2, <1>3, <1>4, <1>5, <1>6, <1>7, <1>8, <1>9, <1>10 DEF LocalizeNext

\* Every step of the two together keeps the invariant.
LEMMA LocalizeStep ==
  ASSUME LocalizeInv, [LocalizeNext]_localizeVars
  PROVE  LocalizeInv'
<1>1. CASE [TunnelsNext]_tunnelsVars
  BY <1>1, PageStep, TunnelsStep DEF LocalizeInv
<1>2. CASE /\ left' \in 0 .. Disturbances
           /\ UNCHANGED <<opt, managerVars, linkVars, box, taken, storeVars, historyVars>>
  <2>1. RowsInv' /\ Known' = Known
    BY <1>2, RowsUntouched DEF LocalizeInv, managerVars
  <2>2. TunnelsInv'
    BY <1>2, <2>1 DEF LocalizeInv, TunnelsInv, TunnelsTypeOK, LockInv, LinkInv, JobsInv,
                      managerVars, linkVars, storeVars, historyVars
  <2>. QED  BY <2>2, PageStep DEF LocalizeInv
<1>. QED  BY <1>1, <1>2, PageStep

\* It holds at the start.
LEMMA LocalizeStart ==
  ASSUME LocalizeInit
  PROVE  LocalizeInv
BY TunnelsStart, NoPageType DEF LocalizeInit, LocalizeInv

(***************************************************************************)
(* The inductive invariant of the manager with the localize page: each     *)
(* tunnel uses the connection Manager.SetDialer gave and, once applyLocked *)
(* has reached its row, is wanted; each wanted port that was reached has a *)
(* tunnel or the port that could not be had.                               *)
(***************************************************************************)
THEOREM Invariance == LocalizeSpec => []LocalizeInv
BY LocalizeStart, LocalizeStep, PTL DEF LocalizeSpec
-----------------------------------------------------------------------------
(***************************************************************************)
(* Every reachable state is well typed (LocalizeTypeOK), whatever ports    *)
(* there are, however many users, and whatever they and the box do.        *)
(***************************************************************************)
THEOREM LocalizeTypeCorrect == LocalizeSpec => []LocalizeTypeOK
<1>1. LocalizeInv => LocalizeTypeOK
  BY DEF LocalizeInv, TunnelsInv, LocalizeTypeOK, Pages
<1>. QED  BY <1>1, Invariance, PTL

(***************************************************************************)
(* Nothing is forwarded against a decision or over a connection that is    *)
(* gone (NothingUnwanted): Manager.applyLocked and SetDialer.              *)
(***************************************************************************)
THEOREM TunnelsAreWanted == LocalizeSpec => []NothingUnwanted
<1>1. LocalizeInv => NothingUnwanted
  BY DEF LocalizeInv, TunnelsInv, RowsInv, TunnelsUseTheLink, TunnelsAreAllowed,
         NothingUnwanted, Settled, Known
<1>. QED  BY <1>1, Invariance, PTL

(***************************************************************************)
(* Nothing that should be forwarded is forgotten (NothingMissed).          *)
(***************************************************************************)
THEOREM WantedIsTried == LocalizeSpec => []NothingMissed
<1>1. LocalizeInv => NothingMissed
  BY DEF LocalizeInv, TunnelsInv, RowsInv
<1>. QED  BY <1>1, Invariance, PTL

(***************************************************************************)
(* Pausing leaves what is up alone (PauseKeepsWhatIsUp): while paused      *)
(* every tunnel is a wanted one, reached or not (TunnelsAreAllowed).       *)
(***************************************************************************)
LEMMA PauseStep ==
  ASSUME TunnelsInv, [TunnelsNext]_tunnelsVars, paused, hold # "free", instance' = "running",
         NEW p \in Known \ missed, entry[p].local # 0
  PROVE  entry'[p].local # 0
<1>1. p \in Port /\ Want(p, entry[p]) = "none"
  BY DEF TunnelsInv, RowsInv, TunnelsAreAllowed, Wanted, Known
<1>2. ASSUME NEW q \in Port, Reconcile(q)
      PROVE  entry'[p].local # 0
  <2>1. entry[q] \in Entry /\ sticky[q] \in Local \cup {0} /\ entry \in [Port -> Entry]
    BY DEF TunnelsInv, TunnelsTypeOK
  <2>2. PICK f \in Entry : entry' = [entry EXCEPT ![q] = f] /\ Outcome(q, entry[q], f)
    BY <1>2, <2>1, Applied DEF Reconcile, TunnelsInv
  <2>3. CASE p = q
    BY <1>1, <2>1, <2>2, <2>3 DEF Outcome
  <2>4. CASE p # q
    BY <1>1, <2>1, <2>2, <2>4
  <2>. QED  BY <2>3, <2>4
<1>3. CASE Sweep
  BY <1>1, <1>3 DEF Sweep
<1>4. ASSUME UNCHANGED entry
      PROVE  entry'[p].local # 0
  BY <1>4
<1>5. CASE Work
  BY <1>2, <1>3, <1>4, <1>5
     DEF Work, ScanAll, ScanDrops, Scan, Attach, Run, RunReturns, NeverRun, Close, ReadPrefs,
         StorePrefs, WritePrefs, managerVars
<1>6. CASE Use \/ Browse
  BY <1>6, ZenonT(30)
     DEF Use, Browse, SetMode, SetLocalPort, SetScheme, SetLabel, SetPaused, SetShowHidden,
              Calls, ForwardNow, TryLocalPort, Borrows
<1>7. CASE World
  BY <1>4, <1>7 DEF World, BoxChanges, Observe, Take, Release, managerVars
<1>8. CASE Restart
  BY <1>8 DEF Restart
<1>9. CASE UNCHANGED tunnelsVars
  BY <1>4, <1>9 DEF tunnelsVars, managerVars
<1>. QED  BY <1>5, <1>6, <1>7, <1>8, <1>9 DEF TunnelsNext

(***************************************************************************)
(* While Manager.SetPaused holds, no operation that goes through the rows  *)
(* closes a tunnel, except of a service that is gone (PauseKeepsWhatIsUp). *)
(***************************************************************************)
THEOREM PausingClosesNothing == LocalizeSpec => PauseKeepsWhatIsUp
<1>1. ASSUME LocalizeInv, [LocalizeNext]_localizeVars
      PROVE  [paused /\ hold # "free" /\ instance' = "running" =>
                \A p \in Known \ missed : entry[p].local # 0 => entry'[p].local # 0]_tunnelsVars
  <2>1. CASE [TunnelsNext]_tunnelsVars
    BY <1>1, <2>1, PauseStep DEF LocalizeInv
  <2>2. CASE UNCHANGED <<opt, managerVars, linkVars, box, taken, storeVars, historyVars>>
    BY <2>2 DEF managerVars
  <2>. QED  BY <1>1, <2>1, <2>2, PageStep
<1>. QED  BY <1>1, Invariance, PTL DEF LocalizeSpec, PauseKeepsWhatIsUp

(***************************************************************************)
(* What the user hid stays hidden until the user says otherwise            *)
(* (OnlyUsersUnhide): Manager.ForwardNow looks at the mode with the lock   *)
(* that it sets it under.                                                  *)
(***************************************************************************)
LEMMA HiddenStep ==
  ASSUME TunnelsInv, [TunnelsNext]_tunnelsVars, NEW p \in Known, entry[p].mode = "hidden",
         entry'[p].known, entry'[p].mode # "hidden"
  PROVE  \E u \in User : job[u] # job'[u] /\ job'[u].port = p
<1>1. /\ p \in Port /\ entry[p].known /\ entry \in [Port -> Entry]
      /\ sticky \in [Port -> Local \cup {0}]
  BY DEF Known, TunnelsInv, TunnelsTypeOK
<1>2. ASSUME NEW q \in Port, NEW e \in Entry, NEW last \in Local \cup {0}, Apply(q, e, last),
             e.mode = entry[q].mode \/ entry[q].mode # "hidden"
      PROVE  FALSE
  <2>1. PICK f \in Entry : entry' = [entry EXCEPT ![q] = f] /\ Outcome(q, e, f)
    BY <1>2, Applied DEF TunnelsInv
  <2>. QED  BY <1>1, <1>2, <2>1 DEF Outcome, Decided
<1>3. ASSUME NEW q \in Port, Reconcile(q)
      PROVE  FALSE
  BY <1>1, <1>2, <1>3 DEF Reconcile
<1>4. ASSUME NEW found, Scan(found)
      PROVE  FALSE
  BY <1>1, <1>4 DEF Scan, Entry
<1>5. CASE Sweep
  BY <1>1, <1>5, NoRow DEF Sweep, Entry
<1>6. CASE Close
  BY <1>1, <1>6 DEF Close, Stop, Entry
<1>7. ASSUME NEW u \in User, NEW q \in Port, NEW mode \in Mode, SetMode(u, q, mode)
      PROVE  \E v \in User : job[v] # job'[v] /\ job'[v].port = p
  <2>1. InMode(q, mode) \in Entry /\ job \in [User -> Jobs]
    BY <1>7, InModeType, CallsType DEF SetMode, TunnelsInv, TunnelsTypeOK, Jobs
  <2>2. CASE q # p
    <3>1. PICK f \in Entry : entry' = [entry EXCEPT ![q] = f]
      BY <1>1, <1>7, <2>1, Applied DEF SetMode, TunnelsInv
    <3>. QED  BY <1>1, <2>2, <3>1
  <2>3. CASE q = p
    <3>1. job[u].at = "idle" /\ job'[u] = [NoJob EXCEPT !.at = "read", !.port = p]
      BY <1>7, <2>1, <2>3 DEF SetMode, Calls
    <3>2. job'[u].at = "read" /\ job'[u].port = p
      BY <3>1, NoJobType DEF Jobs
    <3>. QED  BY <3>1, <3>2
  <2>. QED  BY <2>2, <2>3
<1>8. ASSUME NEW u \in User, NEW q \in Port, NEW local \in Local \cup {0}, SetLocalPort(u, q, local)
      PROVE  FALSE
  BY <1>2, <1>8, RelocatedType, CallsType DEF SetLocalPort
<1>9. ASSUME NEW q \in Port, TryLocalPort(q, q)
      PROVE  FALSE
  <2>1. q \in Local /\ entry[q].known
    BY <1>9, TunnelsAssumption DEF TryLocalPort, Borrows
  <2>. QED  BY <1>2, <1>9, <2>1, RelocatedType DEF TryLocalPort
<1>10. ASSUME NEW q \in Port, ForwardNow(q)
       PROVE  FALSE
  <2>1. entry[q].known /\ "on" \in Mode
    BY <1>10 DEF ForwardNow, Borrows, Mode
  <2>. QED  BY <1>1, <1>2, <1>10, <2>1, InModeType DEF ForwardNow
<1>11. ASSUME UNCHANGED entry
       PROVE  FALSE
  BY <1>11
<1>12. ASSUME NEW u \in User, NEW q \in Port, NEW scheme, SetScheme(u, q, scheme)
       PROVE  FALSE
  BY <1>1, <1>12 DEF SetScheme, Entry
<1>13. ASSUME NEW q \in Port, NEW scheme, Observe(q, scheme)
       PROVE  FALSE
  BY <1>1, <1>13 DEF Observe, Entry
<1>14. ASSUME NEW b \in BOOLEAN, SetPaused(b)
       PROVE  FALSE
  BY <1>1, <1>14 DEF SetPaused, Entry
<1>15. CASE Restart
  BY <1>1, <1>15, NoRow DEF Restart
<1>16. CASE Work
  BY <1>3, <1>4, <1>5, <1>6, <1>11, <1>16
     DEF Work, ScanAll, ScanDrops, Attach, Run, RunReturns, NeverRun, ReadPrefs,
         StorePrefs, WritePrefs, managerVars
<1>17. CASE Use
  BY <1>7, <1>8, <1>11, <1>12, <1>14, <1>17 DEF Use, SetLabel, SetShowHidden
<1>18. CASE World
  BY <1>11, <1>13, <1>18 DEF World, BoxChanges, Take, Release, managerVars
<1>19. CASE Browse
  BY <1>9, <1>10, <1>19 DEF Browse
<1>20. CASE UNCHANGED tunnelsVars
  BY <1>11, <1>20 DEF tunnelsVars, managerVars
<1>. QED  BY <1>15, <1>16, <1>17, <1>18, <1>19, <1>20 DEF TunnelsNext

(***************************************************************************)
(* A port a user hid stays hidden until a user changes its mode: no scan,  *)
(* no reconnection and no page that is opened does (OnlyUsersUnhide).      *)
(***************************************************************************)
THEOREM HiddenStaysHidden == LocalizeSpec => OnlyUsersUnhide
<1>1. ASSUME LocalizeInv, [LocalizeNext]_localizeVars
      PROVE  [\A p \in Known :
                entry[p].mode = "hidden" /\ entry'[p].known /\ entry'[p].mode # "hidden" =>
                  \E u \in User : job[u] # job'[u] /\ job'[u].port = p]_localizeVars
  <2>1. CASE [TunnelsNext]_tunnelsVars
    BY <1>1, <2>1, HiddenStep DEF LocalizeInv
  <2>2. CASE UNCHANGED <<opt, managerVars, linkVars, box, taken, storeVars, historyVars>>
    BY <2>2 DEF managerVars
  <2>. QED  BY <1>1, <2>1, <2>2, PageStep
<1>. QED  BY <1>1, Invariance, PTL DEF LocalizeSpec, OnlyUsersUnhide

-----------------------------------------------------------------------------
(***************************************************************************)
(* The table remembers. First what users decided. A persist is overtaken   *)
(* only by one for the same row (crossed) or by one that writes the file   *)
(* beside it (behind). Otherwise, where none is on its way, the store says *)
(* what the row does; where one is, what it stores is what the row says by *)
(* then; and what the one writer there is writes is what the store says    *)
(* (Manager.persist, Store.SetPort).                                       *)
(***************************************************************************)
Told(p) == entry[p].known /\ borrowed[p] = {}

RowsKept ==
  \A p \in Port : p \notin crossed /\ Told(p) /\ ~Engaged(p) => prefs[p] = PrefsOf(entry[p])

OnTheWay ==
  \A u \in User, p \in Port : job[u].at # "idle" /\ job[u].port = p =>
    /\ entry[p].known \/ borrowed[p] # {}
    /\ Told(p) /\ p \notin crossed =>
         /\ job[u].at = "store" => job[u].prefs = PrefsOf(entry[p])
         /\ job[u].at = "write" => prefs[p] = PrefsOf(entry[p])

Alone ==
  \A u, v \in User, p \in Port :
    /\ job[u].at # "idle" /\ job[u].port = p /\ job[v].at # "idle" /\ job[v].port = p
    /\ p \notin crossed
    => u = v

FileKept ==
  ~behind =>
    /\ \A u, v \in Writing : u = v /\ job[u].copy = prefs
    /\ Writing = {} => disk = prefs

MemoryInv == RowsKept /\ OnTheWay /\ Alone /\ FileKept

(***************************************************************************)
(* A step that leaves the store, and of a row all that is remembered, or   *)
(* makes it from what is.                                                  *)
(***************************************************************************)
LEMMA RowsTell ==
  ASSUME MemoryInv, UNCHANGED storeVars,
         \A p \in Port : entry'[p].known /\ borrowed'[p] = {} =>
           \/ Told(p) /\ PrefsOf(entry'[p]) = PrefsOf(entry[p])
           \/ ~Engaged(p) /\ PrefsOf(entry'[p]) = prefs[p],
         \A p \in Port : Engaged(p) => entry'[p].known \/ borrowed'[p] # {}
  PROVE  MemoryInv'
<1>1. /\ UNCHANGED <<prefs, disk, job, crossed, behind>>
      /\ \A p \in Port : Engaged(p)' = Engaged(p)
  BY DEF storeVars, Engaged
<1>2. \A p \in Port : Told(p)' = (entry'[p].known /\ borrowed'[p] = {})
  BY DEF Told
<1>3. RowsKept'
  BY <1>1, <1>2 DEF MemoryInv, RowsKept
<1>4. OnTheWay'
  <2>1. ASSUME NEW u \in User, NEW p \in Port, job[u].at # "idle", job[u].port = p
        PROVE  /\ entry'[p].known \/ borrowed'[p] # {}
               /\ Told(p)' /\ p \notin crossed =>
                    /\ job[u].at = "store" => job[u].prefs = PrefsOf(entry'[p])
                    /\ job[u].at = "write" => prefs[p] = PrefsOf(entry'[p])
    <3>1. Engaged(p)
      BY <2>1 DEF Engaged
    <3>2. Told(p)' => Told(p) /\ PrefsOf(entry'[p]) = PrefsOf(entry[p])
      BY <1>2, <3>1
    <3>. QED  BY <2>1, <3>1, <3>2 DEF MemoryInv, OnTheWay
  <2>. QED  BY <1>1, <2>1 DEF OnTheWay
<1>5. Alone' /\ FileKept'
  BY <1>1 DEF MemoryInv, Alone, FileKept, Writing
<1>. QED  BY <1>3, <1>4, <1>5 DEF MemoryInv

\* Most steps change nothing of a row that is remembered.
LEMMA SameTold ==
  ASSUME MemoryInv, UNCHANGED <<storeVars, borrowed>>,
         \A p \in Port : entry'[p].known = entry[p].known /\ PrefsOf(entry'[p]) = PrefsOf(entry[p])
  PROVE  MemoryInv'
<1>1. \A p \in Port : Engaged(p) => entry[p].known \/ borrowed[p] # {}
  BY DEF MemoryInv, OnTheWay, Engaged
<1>. QED  BY <1>1, RowsTell DEF Told

\* What applyLocked does to a row is not remembered.
LEMMA DecidedTells ==
  ASSUME NEW e, NEW f, Decided(e, f)
  PROVE  f.known = e.known /\ PrefsOf(f) = PrefsOf(e)
BY DEF Decided, PrefsOf

\* Manager.Sync makes the row of a port from what was decided about it.
LEMMA ScanTells ==
  ASSUME TunnelsInv, MemoryInv, NEW found, found \subseteq box, Scan(found)
  PROVE  MemoryInv'
<1>1. UNCHANGED <<storeVars, borrowed>> /\ found \subseteq Port
  BY DEF Scan, TunnelsInv, TunnelsTypeOK
<1>2. 0 \in 0 .. Grace - 1
  BY TunnelsAssumption
<1>3. ASSUME NEW e \in Entry
      PROVE  /\ PrefsOf([e EXCEPT !.missing = 0]) = PrefsOf(e)
             /\ [e EXCEPT !.missing = 0].known = e.known
  BY DEF PrefsOf, Entry
<1>4. ASSUME NEW p \in Port
      PROVE  Restored(p) \in Entry /\ PrefsOf(Restored(p)) = prefs[p]
  <2>1. PICK r \in Prefs : r = prefs[p]
    BY DEF TunnelsInv, TunnelsTypeOK
  <2>2. r.mode \in Mode /\ r.local \in Local \cup {0} /\ r.scheme \in Scheme \cup {"unknown"}
    BY DEF Prefs
  <2>3. Restored(p) \in Entry
    BY <2>1, <2>2, NoRow, ZenonT(30) DEF Restored, Entry
  <2>4. /\ Restored(p).mode = r.mode /\ Restored(p).pin = r.local
        /\ Restored(p).scheme = r.scheme /\ Restored(p).pinned = (r.scheme # "unknown")
    BY <2>1, NoRow DEF Restored, Entry
  <2>5. PrefsOf(Restored(p)) = [mode |-> r.mode, local |-> r.local, scheme |-> r.scheme]
    BY <2>4 DEF PrefsOf
  <2>6. [mode |-> r.mode, local |-> r.local, scheme |-> r.scheme] = r
    BY DEF Prefs
  <2>. QED  BY <2>1, <2>3, <2>5, <2>6
<1>5. ASSUME NEW p \in Port
      PROVE  /\ entry[p].known => entry'[p].known /\ PrefsOf(entry'[p]) = PrefsOf(entry[p])
             /\ ~entry[p].known =>
                  ~entry'[p].known \/ PrefsOf(entry'[p]) = prefs[p]
  <2>1. entry[p] \in Entry
    BY DEF TunnelsInv, TunnelsTypeOK
  <2>2. CASE p \notin found
    BY <2>2 DEF Scan
  <2>3. CASE p \in found /\ entry[p].known
    BY <1>3, <2>1, <2>3 DEF Scan
  <2>4. CASE p \in found /\ ~entry[p].known
    BY <1>3, <1>4, <2>4 DEF Scan
  <2>. QED  BY <2>2, <2>3, <2>4
<1>6. \A p \in Port : Engaged(p) => entry[p].known \/ borrowed[p] # {}
  BY DEF MemoryInv, OnTheWay, Engaged
<1>. QED  BY <1>1, <1>5, <1>6, RowsTell DEF Told

\* A row that goes while a persist for it is on its way is marked.
LEMMA SweepTells ==
  ASSUME TunnelsInv, MemoryInv, Sweep
  PROVE  MemoryInv'
<1>1. UNCHANGED storeVars /\ entry \in [Port -> Entry]
  BY DEF Sweep, TunnelsInv, TunnelsTypeOK
<1>2. ASSUME NEW p \in Port
      PROVE  /\ entry'[p].known => /\ borrowed'[p] = borrowed[p] /\ entry[p].known
                                   /\ PrefsOf(entry'[p]) = PrefsOf(entry[p])
             /\ ~entry'[p].known => (Engaged(p) => borrowed'[p] # {})
  <2>1. entry[p] \in Entry
    BY <1>1
  <2>2. entry'[p].known => borrowed'[p] = borrowed[p]
    BY DEF Sweep
  <2>3. ~entry'[p].known /\ Engaged(p) => borrowed'[p] # {}
    BY DEF Sweep, Engaged
  <2>4. CASE entry'[p] = NoEntry
    BY <2>2, <2>3, <2>4, NoRow
  <2>5. CASE entry'[p] = entry[p]
    BY <2>2, <2>3, <2>5
  <2>6. CASE entry'[p] = [entry[p] EXCEPT !.missing = @ + 1]
    <3>1. entry'[p].known = entry[p].known /\ PrefsOf(entry'[p]) = PrefsOf(entry[p])
      BY <2>1, <2>6 DEF PrefsOf, Entry
    <3>. QED  BY <2>2, <2>3, <3>1
  <2>7. \/ entry'[p] = NoEntry \/ entry'[p] = entry[p]
        \/ entry'[p] = [entry[p] EXCEPT !.missing = @ + 1]
    BY DEF Sweep
  <2>. QED  BY <2>4, <2>5, <2>6, <2>7
<1>3. \A p \in Port : Engaged(p) => entry[p].known \/ borrowed[p] # {}
  BY DEF MemoryInv, OnTheWay, Engaged
<1>. QED  BY <1>1, <1>2, <1>3, RowsTell DEF Told

\* A call of a user's: what it decides is for its persist to store.
LEMMA CallTells ==
  ASSUME TunnelsInv, MemoryInv, NEW u \in User, NEW p \in Port, Calls(u, p),
         entry'[p].known,
         \A q \in Port \ {p} : entry'[q] = entry[q] /\ borrowed'[q] = borrowed[q]
  PROVE  MemoryInv'
<1>1. /\ job[u].at = "idle" /\ UNCHANGED <<prefs, disk, behind>> /\ job \in [User -> Jobs]
      /\ job' = [job EXCEPT ![u] = [NoJob EXCEPT !.at = "read", !.port = p]]
      /\ crossed' = IF Engaged(p) THEN crossed \cup {p} ELSE crossed \ {p}
  BY DEF Calls, TunnelsInv, TunnelsTypeOK, Jobs
<1>2. /\ job'[u].at = "read" /\ job'[u].port = p
      /\ \A v \in User \ {u} : job'[v] = job[v]
  BY <1>1, NoJobType DEF Jobs
<1>3. \A v \in User : job[v].at # "idle" /\ job[v].port = p => p \in crossed'
  BY <1>1 DEF Engaged
<1>4. \A q \in Port \ {p} : /\ q \in crossed' <=> q \in crossed
                            /\ Told(q)' = Told(q) /\ Engaged(q)' = Engaged(q)
  BY <1>1, <1>2 DEF Told, Engaged
<1>5. Engaged(p)'
  BY <1>2 DEF Engaged
<1>6. RowsKept'
  BY <1>1, <1>4, <1>5 DEF MemoryInv, RowsKept
<1>7. OnTheWay'
  <2>1. ASSUME NEW v \in User, NEW q \in Port, job'[v].at # "idle", job'[v].port = q
        PROVE  /\ entry'[q].known \/ borrowed'[q] # {}
               /\ Told(q)' /\ q \notin crossed' =>
                    /\ job'[v].at = "store" => job'[v].prefs = PrefsOf(entry'[q])
                    /\ job'[v].at = "write" => prefs'[q] = PrefsOf(entry'[q])
    <3>1. CASE v = u
      BY <1>2, <2>1, <3>1
    <3>2. CASE v # u /\ q = p
      BY <1>2, <1>3, <2>1, <3>2
    <3>3. CASE v # u /\ q # p
      BY <1>1, <1>2, <1>4, <2>1, <3>3 DEF MemoryInv, OnTheWay
    <3>. QED  BY <3>1, <3>2, <3>3
  <2>. QED  BY <2>1 DEF OnTheWay
<1>8. Alone'
  <2>1. ASSUME NEW v \in User, NEW w \in User, NEW q \in Port, q \notin crossed',
               job'[v].at # "idle", job'[v].port = q, job'[w].at # "idle", job'[w].port = q
        PROVE  v = w
    <3>1. CASE q = p
      BY <1>2, <1>3, <2>1, <3>1
    <3>2. CASE q # p
      BY <1>2, <1>4, <2>1, <3>2 DEF MemoryInv, Alone
    <3>. QED  BY <3>1, <3>2
  <2>. QED  BY <2>1 DEF Alone
<1>9. FileKept'
  <2>1. Writing' = Writing /\ u \notin Writing
    BY <1>1, <1>2 DEF Writing
  <2>. QED  BY <1>1, <1>2, <2>1 DEF MemoryInv, FileKept, Writing
<1>. QED  BY <1>6, <1>7, <1>8, <1>9 DEF MemoryInv

\* What is said of one row leaves the others.
LEMMA OneRowTells ==
  ASSUME TunnelsInv, NEW p \in Port, NEW e \in Entry, NEW last \in Local \cup {0},
         Apply(p, e, last)
  PROVE  /\ entry'[p].known = e.known /\ PrefsOf(entry'[p]) = PrefsOf(e)
         /\ \A q \in Port \ {p} : entry'[q] = entry[q]
<1>1. PICK f \in Entry : entry' = [entry EXCEPT ![p] = f] /\ Outcome(p, e, f)
  BY Applied DEF TunnelsInv
<1>2. entry \in [Port -> Entry]
  BY DEF TunnelsInv, TunnelsTypeOK
<1>3. f.known = e.known /\ PrefsOf(f) = PrefsOf(e)
  BY <1>1, DecidedTells DEF Outcome
<1>. QED  BY <1>1, <1>2, <1>3

\* Manager.SetMode, SetLocalPort, SetScheme and SetLabel.
LEMMA UseTells ==
  ASSUME TunnelsInv, MemoryInv, NEW u \in User, NEW p \in Port,
         \/ \E mode \in Mode : SetMode(u, p, mode)
         \/ \E local \in Local \cup {0} : SetLocalPort(u, p, local)
         \/ \E scheme \in Scheme \cup {"unknown"} : SetScheme(u, p, scheme)
         \/ SetLabel(u, p)
  PROVE  MemoryInv'
<1>1. /\ entry \in [Port -> Entry] /\ sticky[p] \in Local \cup {0}
      /\ borrowed \in [Port -> SUBSET {"mode", "local", "row"}]
  BY DEF TunnelsInv, TunnelsTypeOK
<1>2. ASSUME NEW mode \in Mode, SetMode(u, p, mode)
      PROVE  MemoryInv'
  <2>1. Calls(u, p) /\ InMode(p, mode) \in Entry /\ InMode(p, mode).known
    BY <1>2, CallsType, InModeType DEF SetMode
  <2>2. \A q \in Port \ {p} : borrowed'[q] = borrowed[q]
    BY <1>1, <1>2 DEF SetMode
  <2>. QED  BY <1>1, <1>2, <2>1, <2>2, OneRowTells, CallTells DEF SetMode
<1>3. ASSUME NEW local \in Local \cup {0}, SetLocalPort(u, p, local)
      PROVE  MemoryInv'
  <2>1. Calls(u, p) /\ Relocated(p, local) \in Entry /\ Relocated(p, local).known
    BY <1>3, CallsType, RelocatedType DEF SetLocalPort
  <2>2. \A q \in Port \ {p} : borrowed'[q] = borrowed[q]
    BY <1>1, <1>3 DEF SetLocalPort
  <2>. QED  BY <1>1, <1>3, <2>1, <2>2, OneRowTells, CallTells DEF SetLocalPort
<1>4. ASSUME NEW scheme, SetScheme(u, p, scheme)
      PROVE  MemoryInv'
  <2>1. Calls(u, p) /\ entry[p].known /\ UNCHANGED borrowed
    BY <1>4 DEF SetScheme, Calls, historyVars
  <2>2. \A q \in Port \ {p} : entry'[q] = entry[q]
    BY <1>1, <1>4 DEF SetScheme
  <2>3. entry'[p].known
    BY <1>1, <1>4, <2>1 DEF SetScheme, Entry
  <2>. QED  BY <2>1, <2>2, <2>3, CallTells
<1>5. CASE SetLabel(u, p)
  BY <1>5, CallTells DEF SetLabel, Calls, historyVars
<1>. QED  BY <1>2, <1>3, <1>4, <1>5

\* Manager.ForwardNow and TryLocalPort borrow what they change.
LEMMA BrowseTells ==
  ASSUME TunnelsInv, MemoryInv, NEW p \in Port, ForwardNow(p) \/ TryLocalPort(p, p)
  PROVE  MemoryInv'
<1>1. /\ entry \in [Port -> Entry] /\ sticky[p] \in Local \cup {0} /\ p \in Local
      /\ borrowed \in [Port -> SUBSET {"mode", "local", "row"}] /\ "on" \in Mode
  BY TunnelsAssumption DEF TunnelsInv, TunnelsTypeOK, Mode
<1>2. ASSUME NEW what \in SUBSET {"mode", "local"}, NEW e \in Entry, NEW last \in Local \cup {0},
             Borrows(p, what), Apply(p, e, last), e.known,
             what = {} => PrefsOf(e) = PrefsOf(entry[p])
      PROVE  MemoryInv'
  <2>1. /\ entry'[p].known = e.known /\ PrefsOf(entry'[p]) = PrefsOf(e)
        /\ \A q \in Port \ {p} : entry'[q] = entry[q]
    BY <1>2, OneRowTells
  <2>2. /\ UNCHANGED storeVars /\ entry[p].known
        /\ borrowed'[p] = borrowed[p] \cup what
        /\ \A q \in Port \ {p} : borrowed'[q] = borrowed[q]
    BY <1>1, <1>2 DEF Borrows
  <2>3. \A q \in Port : Engaged(q) => entry[q].known \/ borrowed[q] # {}
    BY DEF MemoryInv, OnTheWay, Engaged
  <2>4. entry'[p].known /\ borrowed'[p] = {} =>
          Told(p) /\ PrefsOf(entry'[p]) = PrefsOf(entry[p])
    <3>1. borrowed'[p] = {} => what = {} /\ borrowed[p] = {}
      BY <2>2
    <3>. QED  BY <1>2, <2>1, <2>2, <3>1 DEF Told
  <2>5. entry'[p].known
    BY <1>2, <2>1
  <2>. QED  BY <2>1, <2>2, <2>3, <2>4, <2>5, RowsTell DEF Told
<1>3. CASE ForwardNow(p)
  <2>. DEFINE what == IF entry[p].mode # "on" THEN {"mode"} ELSE {}
  <2>1. Borrows(p, what) /\ Apply(p, InMode(p, "on"), sticky[p]) /\ entry[p].known
    BY <1>3 DEF ForwardNow, Borrows
  <2>2. InMode(p, "on") \in Entry /\ InMode(p, "on").known
    BY <1>1, <2>1, InModeType
  <2>3. entry[p].mode = "on" => PrefsOf(InMode(p, "on")) = PrefsOf(entry[p])
    BY <1>1 DEF InMode, PrefsOf, Entry
  <2>. QED  BY <1>1, <1>2, <2>1, <2>2, <2>3
<1>4. CASE TryLocalPort(p, p)
  <2>. DEFINE what == IF entry[p].pin # p THEN {"local"} ELSE {}
  <2>1. Borrows(p, what) /\ Apply(p, Relocated(p, p), 0) /\ entry[p].known
    BY <1>4 DEF TryLocalPort, Borrows
  <2>2. Relocated(p, p) \in Entry /\ Relocated(p, p).known
    BY <1>1, <2>1, RelocatedType
  <2>3. entry[p].pin = p => PrefsOf(Relocated(p, p)) = PrefsOf(entry[p])
    <3>1. PICK e \in Entry : e = entry[p]
      BY <1>1
    <3>. QED  BY <3>1 DEF Relocated, Stop, PrefsOf, Entry
  <2>. QED  BY <1>1, <1>2, <2>1, <2>2, <2>3
<1>. QED  BY <1>3, <1>4

\* The three steps of Manager.persist, of one row and of the file.
LEMMA PersistTells ==
  ASSUME TunnelsInv, MemoryInv, NEW u \in User,
         ReadPrefs(u) \/ StorePrefs(u) \/ WritePrefs(u)
  PROVE  MemoryInv'
<1>1. /\ job[u].port \in Port /\ job \in [User -> Jobs] /\ job[u].at # "idle"
      /\ prefs \in [Port -> Prefs] /\ UNCHANGED <<entry, borrowed, crossed>>
      /\ \A v \in User \ {u} : job'[v] = job[v]
  BY DEF ReadPrefs, StorePrefs, WritePrefs, TunnelsInv, TunnelsTypeOK, JobsInv, Jobs,
         managerVars, historyVars
<1>2. PICK r \in Jobs, p \in Port : r = job[u] /\ p = job[u].port
  BY <1>1
<1>3. /\ entry[p].known \/ borrowed[p] # {}
      /\ Told(p) /\ p \notin crossed =>
           /\ job[u].at = "store" => job[u].prefs = PrefsOf(entry[p])
           /\ job[u].at = "write" => prefs[p] = PrefsOf(entry[p])
  BY <1>1, <1>2 DEF MemoryInv, OnTheWay
<1>4. \A v \in User \ {u} : job[v].at # "idle" /\ job[v].port = p => p \in crossed
  BY <1>1, <1>2 DEF MemoryInv, Alone
<1>5. ASSUME job'[u].at # "idle" => job'[u].port = p,
             \A q \in Port \ {p} : prefs'[q] = prefs[q],
             Told(p) /\ p \notin crossed =>
               /\ job'[u].at = "store" => job'[u].prefs = PrefsOf(entry[p])
               /\ job'[u].at \in {"write", "idle"} => prefs'[p] = PrefsOf(entry[p])
      PROVE  RowsKept' /\ OnTheWay' /\ Alone'
  <2>1. \A q \in Port \ {p} : Engaged(q) => Engaged(q)'
    BY <1>1, <1>2 DEF Engaged
  <2>2. \A q \in Port : Told(q)' = Told(q)
    BY <1>1 DEF Told
  <2>3. ~Engaged(p)' => job'[u].at = "idle"
    BY <1>1, <1>5 DEF Engaged
  <2>4. RowsKept'
    <3>1. ASSUME NEW q \in Port, q \notin crossed, Told(q), ~Engaged(q)'
          PROVE  prefs'[q] = PrefsOf(entry[q])
      <4>1. CASE q = p
        BY <1>5, <2>3, <3>1, <4>1
      <4>2. CASE q # p
        BY <1>5, <2>1, <3>1, <4>2 DEF MemoryInv, RowsKept
      <4>. QED  BY <4>1, <4>2
    <3>. QED  BY <1>1, <2>2, <3>1 DEF RowsKept
  <2>5. OnTheWay'
    <3>1. ASSUME NEW v \in User, NEW q \in Port, job'[v].at # "idle", job'[v].port = q
          PROVE  /\ entry[q].known \/ borrowed[q] # {}
                 /\ Told(q) /\ q \notin crossed =>
                      /\ job'[v].at = "store" => job'[v].prefs = PrefsOf(entry[q])
                      /\ job'[v].at = "write" => prefs'[q] = PrefsOf(entry[q])
      <4>1. CASE v = u
        BY <1>3, <1>5, <3>1, <4>1
      <4>2. CASE v # u
        <5>1. job[v].at # "idle" /\ job[v].port = q /\ job'[v] = job[v]
          BY <1>1, <3>1, <4>2
        <5>2. q = p => p \in crossed
          BY <1>4, <4>2, <5>1
        <5>3. q # p => prefs'[q] = prefs[q]
          BY <1>5
        <5>. QED  BY <5>1, <5>2, <5>3 DEF MemoryInv, OnTheWay
      <4>. QED  BY <4>1, <4>2
    <3>. QED  BY <1>1, <2>2, <3>1 DEF OnTheWay
  <2>6. Alone'
    <3>1. ASSUME NEW v \in User, NEW w \in User, NEW q \in Port, q \notin crossed,
                 job'[v].at # "idle", job'[v].port = q, job'[w].at # "idle", job'[w].port = q
          PROVE  v = w
      <4>1. ASSUME NEW x \in User, job'[x].at # "idle"
            PROVE  job[x].at # "idle" /\ job[x].port = job'[x].port
        BY <1>1, <1>2, <1>5, <4>1
      <4>. QED  BY <3>1, <4>1 DEF MemoryInv, Alone
    <3>. QED  BY <1>1, <3>1 DEF Alone
  <2>. QED  BY <2>4, <2>5, <2>6
<1>6. CASE ReadPrefs(u)
  <2>1. job[u].at = "read" /\ UNCHANGED <<prefs, disk, behind>>
    BY <1>6 DEF ReadPrefs
  <2>2. CASE entry[p].known
    <3>1. job'[u] = [r EXCEPT !.at = "store", !.prefs = PrefsOf(entry[p])]
      BY <1>1, <1>2, <1>6, <2>2 DEF ReadPrefs
    <3>2. job'[u].at = "store" /\ job'[u].port = p /\ job'[u].prefs = PrefsOf(entry[p])
      BY <1>2, <3>1 DEF Jobs
    <3>3. Writing' = Writing /\ u \notin Writing
      <4>1. \A v \in User : job'[v].at = "write" <=> job[v].at = "write"
        BY <1>1, <2>1, <3>2
      <4>. QED  BY <2>1, <4>1 DEF Writing
    <3>4. FileKept'
      <4>1. \A v \in Writing : v # u /\ job'[v] = job[v]
        BY <1>1, <3>3 DEF Writing
      <4>. QED  BY <2>1, <3>3, <4>1 DEF MemoryInv, FileKept
    <3>. QED  BY <1>5, <2>1, <3>2, <3>4 DEF MemoryInv
  <2>3. CASE ~entry[p].known
    <3>1. job'[u].at = "idle" /\ ~Told(p)
      BY <1>1, <1>2, <1>6, <2>3, NoJobType DEF ReadPrefs, Told
    <3>2. Writing' = Writing /\ u \notin Writing
      BY <1>1, <2>1, <3>1 DEF Writing
    <3>3. FileKept'
      BY <1>1, <2>1, <3>2 DEF MemoryInv, FileKept, Writing
    <3>. QED  BY <1>5, <2>1, <3>1, <3>3 DEF MemoryInv
  <2>. QED  BY <2>2, <2>3
<1>7. CASE StorePrefs(u)
  <2>1. /\ job[u].at = "store" /\ disk' = disk
        /\ prefs' = [prefs EXCEPT ![p] = job[u].prefs]
    BY <1>2, <1>7 DEF StorePrefs
  <2>2. prefs'[p] = job[u].prefs /\ \A q \in Port \ {p} : prefs'[q] = prefs[q]
    BY <1>1, <2>1
  <2>3. CASE prefs' = prefs
    <3>1. job'[u].at = "idle" /\ behind' = behind
      BY <1>1, <1>7, <2>3, NoJobType DEF StorePrefs
    <3>2. Writing' = Writing /\ u \notin Writing
      BY <1>1, <2>1, <3>1 DEF Writing
    <3>3. FileKept'
      BY <1>1, <2>1, <2>3, <3>1, <3>2 DEF MemoryInv, FileKept, Writing
    <3>. QED  BY <1>3, <1>5, <2>1, <2>2, <3>1, <3>3 DEF MemoryInv
  <2>4. CASE prefs' # prefs
    <3>1. job'[u] = [r EXCEPT !.at = "write", !.copy = prefs'] /\ behind' = (Writing # {})
      BY <1>1, <1>2, <1>7, <2>4 DEF StorePrefs
    <3>2. job'[u].at = "write" /\ job'[u].port = p /\ job'[u].copy = prefs'
      BY <1>2, <3>1 DEF Jobs
    <3>3. behind' = (Writing # {}) /\ Writing' = Writing \cup {u}
      <4>1. \A v \in User : job'[v].at = "write" <=> job[v].at = "write" \/ v = u
        BY <1>1, <3>2
      <4>. QED  BY <3>1, <4>1 DEF Writing
    <3>4. FileKept'
      BY <3>2, <3>3 DEF FileKept
    <3>. QED  BY <1>3, <1>5, <2>1, <2>2, <3>2, <3>4 DEF MemoryInv
  <2>. QED  BY <2>3, <2>4
<1>8. CASE WritePrefs(u)
  <2>1. /\ job[u].at = "write" /\ prefs' = prefs /\ job'[u].at = "idle"
        /\ ~behind' => ~behind /\ disk' = job[u].copy
    BY <1>1, <1>8, NoJobType DEF WritePrefs
  <2>2. Writing' = Writing \ {u} /\ u \in Writing
    BY <1>1, <2>1 DEF Writing
  <2>3. FileKept'
    BY <2>1, <2>2 DEF MemoryInv, FileKept
  <2>. QED  BY <1>3, <1>5, <2>1, <2>3 DEF MemoryInv
<1>. QED  BY <1>6, <1>7, <1>8

\* Every step of the manager keeps what was decided.
LEMMA MemoryStep ==
  ASSUME TunnelsInv, MemoryInv, [TunnelsNext]_tunnelsVars
  PROVE  MemoryInv'
<1>1. entry \in [Port -> Entry] /\ sticky \in [Port -> Local \cup {0}]
  BY DEF TunnelsInv, TunnelsTypeOK
<1>2. ASSUME UNCHANGED <<entry, storeVars, borrowed>>
      PROVE  MemoryInv'
  BY <1>2, SameTold
<1>3. ASSUME NEW p \in Port, Reconcile(p)
      PROVE  MemoryInv'
  <2>1. /\ entry'[p].known = entry[p].known /\ PrefsOf(entry'[p]) = PrefsOf(entry[p])
        /\ \A q \in Port \ {p} : entry'[q] = entry[q]
    BY <1>1, <1>3, OneRowTells DEF Reconcile
  <2>. QED  BY <1>3, <2>1, SameTold DEF Reconcile, historyVars
<1>4. ASSUME ScanAll \/ ScanDrops
      PROVE  MemoryInv'
  <2>1. PICK found \in SUBSET box : Scan(found)
    BY <1>4 DEF ScanAll, ScanDrops
  <2>. QED  BY <2>1, ScanTells
<1>5. CASE Close
  <2>1. \A p \in Port : entry'[p].known = entry[p].known /\ PrefsOf(entry'[p]) = PrefsOf(entry[p])
    <3>1. ASSUME NEW e \in Entry
          PROVE  LET f == [[e EXCEPT !.local = 0, !.via = 0] EXCEPT !.missing = 0]
                 IN  f.known = e.known /\ PrefsOf(f) = PrefsOf(e)
      BY DEF Entry, PrefsOf
    <3>. SUFFICES ASSUME NEW p \in Port
                 PROVE  entry'[p].known = entry[p].known /\ PrefsOf(entry'[p]) = PrefsOf(entry[p])
      OBVIOUS
    <3>2. entry[p] \in Entry
      BY <1>1
    <3>3. entry'[p] = [[entry[p] EXCEPT !.local = 0, !.via = 0] EXCEPT !.missing = 0]
      BY <1>5 DEF Close, Stop
    <3>. QED  BY <3>1, <3>2, <3>3
  <2>. QED  BY <1>5, <2>1, SameTold DEF Close
<1>6. ASSUME NEW b \in BOOLEAN, SetPaused(b)
      PROVE  MemoryInv'
  <2>1. \A p \in Port : entry'[p].known = entry[p].known /\ PrefsOf(entry'[p]) = PrefsOf(entry[p])
    BY <1>1, <1>6 DEF SetPaused, PrefsOf, Entry
  <2>. QED  BY <1>6, <2>1, SameTold DEF SetPaused
<1>7. ASSUME NEW p \in Port, NEW scheme \in Scheme, Observe(p, scheme)
      PROVE  MemoryInv'
  <2>1. \A q \in Port : entry'[q].known = entry[q].known /\ PrefsOf(entry'[q]) = PrefsOf(entry[q])
    BY <1>1, <1>7 DEF Observe, PrefsOf, Entry
  <2>. QED  BY <1>7, <2>1, SameTold DEF Observe, historyVars
<1>8. CASE Restart
  <2>1. /\ \A p \in Port : ~entry'[p].known
        /\ prefs' = disk' /\ \A u \in User : job'[u].at = "idle"
    BY <1>8, NoRow, NoJobType DEF Restart
  <2>2. Writing' = {}
    BY <2>1 DEF Writing
  <2>. QED  BY <2>1, <2>2 DEF MemoryInv, RowsKept, OnTheWay, Alone, FileKept, Told
<1>9. CASE Work
  BY <1>2, <1>3, <1>4, <1>5, <1>9, SweepTells, PersistTells
     DEF Work, Attach, Run, RunReturns, NeverRun, managerVars, historyVars
<1>10. CASE Use
  BY <1>2, <1>6, <1>10, UseTells DEF Use, SetShowHidden, historyVars
<1>11. CASE World
  BY <1>2, <1>7, <1>11 DEF World, BoxChanges, Take, Release, managerVars, historyVars
<1>12. CASE Browse
  BY <1>12, BrowseTells DEF Browse
<1>13. CASE UNCHANGED tunnelsVars
  BY <1>2, <1>13 DEF tunnelsVars, managerVars, historyVars
<1>. QED  BY <1>8, <1>9, <1>10, <1>11, <1>12, <1>13 DEF TunnelsNext

-----------------------------------------------------------------------------
(***************************************************************************)
(* Then where the tunnels were. A tunnel has its port to itself, and the   *)
(* allocator remembers it. While tunnels that all were where they should   *)
(* be wait to come back, nobody else here takes a port: no other row wants *)
(* one, and each is tried first at the port it had.                        *)
(***************************************************************************)
PlacesDistinct ==
  \A p \in Port : entry[p].local # 0 =>
    /\ sticky[p] = entry[p].local /\ entry[p].local \notin taken
    /\ \A q \in Port : entry[q].local = entry[p].local => q = p

HomesKept ==
  \A p \in Port : home[p] # 0 =>
    /\ entry[p].known /\ Wanted(p) /\ sticky[p] = home[p] /\ entry[p].pin \in {0, home[p]}
    /\ home[p] \notin taken
    /\ entry[p].local \in {0, home[p]}
    /\ instance = "running" /\ p \notin todo => entry[p].local = home[p]
    /\ \A q \in Port \ {p} : home[q] # home[p]
    /\ \A q \in Port : home[q] = 0 => entry[q].local = 0 /\ (q \in Known => ~Wanted(q))

ScansForget == hold = "scan" => \A p \in Port : home[p] = 0

PlacesInv == PlacesDistinct /\ HomesKept /\ ScansForget

\* The first of two sequences that has any begins them both.
LEMMA FirstOf ==
  ASSUME NEW s \in Seq(Local), NEW t \in Seq(Local)
  PROVE  /\ s \o t \in Seq(Local) /\ Len(s \o t) = Len(s) + Len(t)
         /\ Len(s) >= 1 => (s \o t)[1] = s[1]
         /\ Len(s) = 0 /\ Len(t) >= 1 => (s \o t)[1] = t[1]
BY ConcatProperties, LenProperties

\* Allocator.Allocate comes back with the port it remembers, if that is free.
LEMMA RememberedIsAllotted ==
  ASSUME NEW p \in Port, NEW last \in Local, NEW pin \in {0, last}, last \in Free(p)
  PROVE  Allotted(p, pin, last) = {last}
<1>1. Port \subseteq Local /\ 0 \notin Local
  BY TunnelsAssumption
<1>. DEFINE a == IF pin # 0 THEN <<pin>> ELSE <<>>
            b == IF last \notin {0, p} THEN <<last>> ELSE <<>>
            tried == (a \o b) \o <<p>>
            ok == {i \in DOMAIN tried : tried[i] \in Free(p)}
<1>2. /\ a \in Seq(Local) /\ (Len(a) = 0 \/ (Len(a) >= 1 /\ a[1] = last))
      /\ b \in Seq(Local) /\ ((Len(b) = 0 /\ last = p) \/ (Len(b) >= 1 /\ b[1] = last))
      /\ <<p>> \in Seq(Local) /\ Len(<<p>>) = 1 /\ <<p>>[1] = p
  <2>1. a \in Seq(Local) /\ (Len(a) = 0 \/ (Len(a) >= 1 /\ a[1] = last))
    <3>1. CASE pin = 0
      BY <3>1
    <3>2. CASE pin = last
      BY <1>1, <3>2
    <3>. QED  BY <3>1, <3>2
  <2>2. b \in Seq(Local) /\ ((Len(b) = 0 /\ last = p) \/ (Len(b) >= 1 /\ b[1] = last))
    <3>1. CASE last = p
      BY <3>1
    <3>2. CASE last # p
      BY <1>1, <3>2
    <3>. QED  BY <3>1, <3>2
  <2>3. <<p>> \in Seq(Local) /\ Len(<<p>>) = 1 /\ <<p>>[1] = p
    BY <1>1
  <2>. QED  BY <2>1, <2>2, <2>3
<1>. HIDE DEF a, b
<1>3. /\ a \o b \in Seq(Local) /\ Len(a \o b) = Len(a) + Len(b)
      /\ Len(a) \in Nat /\ Len(b) \in Nat
      /\ (Len(a \o b) = 0 /\ last = p) \/ (Len(a \o b) >= 1 /\ (a \o b)[1] = last)
  BY <1>2, FirstOf, LenProperties
<1>4. /\ tried \in Seq(Local) /\ Len(tried) = Len(a \o b) + 1 /\ tried[1] = last
  BY <1>2, <1>3, FirstOf
<1>5. Tried(p, pin, last) = tried
  BY DEF Tried, a, b
<1>. HIDE DEF tried
<1>6. DOMAIN tried = 1 .. Len(tried) /\ Len(tried) \in Nat /\ Len(tried) >= 1
  BY <1>3, <1>4, LenProperties
<1>7. 1 \in ok /\ \A k \in ok : 1 <= k
  BY <1>4, <1>6
<1>8. {j \in ok : \A k \in ok : j <= k} = {1}
  BY <1>6, <1>7
<1>9. Allotted(p, pin, last) = {tried[i] : i \in {j \in ok : \A k \in ok : j <= k}}
  BY <1>5, <1>7 DEF Allotted
<1>. QED  BY <1>4, <1>8, <1>9

\* Where applyLocked leaves a tunnel, and what the allocator remembers of it.
LEMMA AppliedPlace ==
  ASSUME TunnelsTypeOK, NEW p \in Port, NEW e \in Entry, NEW last \in Local \cup {0},
         Apply(p, e, last)
  PROVE  /\ \A q \in Port \ {p} : entry'[q] = entry[q] /\ sticky'[q] = sticky[q]
         /\ Decided(e, entry'[p])
         /\ \/ entry'[p].local \in {0, e.local} /\ sticky'[p] = last
            \/ entry'[p].local \in Free(p) /\ sticky'[p] = entry'[p].local
         /\ Want(p, e) # "none" => entry'[p].local = 0 /\ sticky'[p] = last
         /\ Want(p, e) = "none" /\ e.local # 0 => entry'[p].local = e.local /\ sticky'[p] = last
         /\ Want(p, e) = "none" /\ e.local = 0 /\ last \in Free(p) /\ e.pin \in {0, last} =>
              /\ sticky'[p] = last
              /\ entry'[p].local = IF dialer = 0 THEN 0 ELSE last
<1>1. /\ entry \in [Port -> Entry] /\ sticky \in [Port -> Local \cup {0}]
      /\ Port \subseteq Local /\ 0 \notin Local /\ Free(p) \subseteq Local
  BY TunnelsAssumption DEF TunnelsTypeOK, Free
<1>2. \E f \in Entry : entry' = [entry EXCEPT ![p] = f] /\ Outcome(p, e, f)
  BY Applied
<1>3. entry'[p] \in Entry /\ Decided(e, entry'[p]) /\ \A q \in Port \ {p} : entry'[q] = entry[q]
  BY <1>1, <1>2 DEF Outcome
<1>4. \A q \in Port \ {p} : sticky'[q] = sticky[q]
  BY <1>1 DEF Apply, ApplyRefuse, ApplyKeep, ApplyOpen, ApplyFail
<1>5. CASE ApplyRefuse(p, e, last)
  <2>1. Want(p, e) # "none" /\ sticky'[p] = last
    BY <1>1, <1>5 DEF ApplyRefuse
  <2>2. entry'[p].local = 0
    BY <1>1, <1>5 DEF ApplyRefuse, Stop, Entry
  <2>. QED  BY <1>3, <1>4, <2>1, <2>2
<1>6. CASE ApplyKeep(p, e, last)
  <2>1. Want(p, e) = "none" /\ (e.local # 0 \/ dialer = 0) /\ sticky'[p] = last
    BY <1>1, <1>6 DEF ApplyKeep
  <2>2. entry'[p].local = e.local
    BY <1>1, <1>6 DEF ApplyKeep, Entry
  <2>. QED  BY <1>3, <1>4, <2>1, <2>2
<1>7. CASE ApplyOpen(p, e, last)
  <2>1. Want(p, e) = "none" /\ e.local = 0 /\ dialer # 0
    BY <1>7 DEF ApplyOpen
  <2>2. PICK l \in Allotted(p, e.pin, last) :
          /\ entry' = [entry EXCEPT ![p] = [e EXCEPT !.skip = "none", !.err = 0,
                                                     !.local = l, !.via = dialer]]
          /\ sticky' = [sticky EXCEPT ![p] = l]
    BY <1>7 DEF ApplyOpen
  <2>3. entry'[p].local = l /\ sticky'[p] = l
    BY <1>1, <2>2 DEF Entry
  <2>4. l \in Free(p)
    BY <2>2 DEF Allotted
  <2>5. last \in Free(p) /\ e.pin \in {0, last} => l = last
    BY <1>1, <2>2, RememberedIsAllotted
  <2>. QED  BY <1>3, <1>4, <2>1, <2>3, <2>4, <2>5
<1>8. CASE ApplyFail(p, e, last)
  <2>1. /\ Want(p, e) = "none" /\ e.local = 0 /\ dialer # 0
        /\ Allotted(p, e.pin, last) = {} /\ sticky'[p] = last
    BY <1>1, <1>8 DEF ApplyFail
  <2>2. ~(last \in Free(p) /\ e.pin \in {0, last})
    BY <1>1, <2>1, RememberedIsAllotted
  <2>3. entry'[p].local = 0
    BY <1>1, <1>8, <2>1 DEF ApplyFail, Entry
  <2>. QED  BY <1>3, <1>4, <2>1, <2>2, <2>3
<1>. QED  BY <1>5, <1>6, <1>7, <1>8 DEF Apply

\* So a row that is applied takes nobody's port.
LEMMA AppliedDistinct ==
  ASSUME TunnelsTypeOK, PlacesDistinct, NEW p \in Port, NEW e \in Entry,
         NEW last \in Local \cup {0}, Apply(p, e, last), UNCHANGED taken,
         e.local \in {0, entry[p].local}, e.local # 0 => last = sticky[p]
  PROVE  PlacesDistinct'
<1>1. /\ \A q \in Port \ {p} : entry'[q] = entry[q] /\ sticky'[q] = sticky[q]
      /\ \/ entry'[p].local \in {0, e.local} /\ sticky'[p] = last
         \/ entry'[p].local \in Free(p) /\ sticky'[p] = entry'[p].local
  BY AppliedPlace
<1>2. CASE entry'[p].local \in {0, e.local} /\ sticky'[p] = last
  <2>1. \A q \in Port : entry'[q].local # 0 =>
          entry'[q].local = entry[q].local /\ sticky'[q] = sticky[q]
    BY <1>1, <1>2
  <2>. QED  BY <2>1 DEF PlacesDistinct
<1>3. CASE entry'[p].local \in Free(p) /\ sticky'[p] = entry'[p].local
  <2>1. entry'[p].local \notin taken /\ \A q \in Port \ {p} : entry[q].local # entry'[p].local
    BY <1>3 DEF Free, Busy
  <2>. QED  BY <1>1, <1>3, <2>1 DEF PlacesDistinct
<1>. QED  BY <1>1, <1>2, <1>3

\* A step that opens no tunnel leaves them apart.
LEMMA NoneOpened ==
  ASSUME PlacesDistinct, UNCHANGED sticky, taken' \subseteq taken,
         \A p \in Port : entry'[p].local \in {0, entry[p].local}
  PROVE  PlacesDistinct'
BY DEF PlacesDistinct

\* Nobody waits to come back after a step that is the user's or the world's.
LEMMA Forgotten ==
  ASSUME NoHome
  PROVE  HomesKept' /\ ScansForget'
BY DEF NoHome, HomesKept, ScansForget

\* A step that leaves the rows as they were, and takes no port.
LEMMA PlacesSame ==
  ASSUME PlacesInv, UNCHANGED <<opt, paused, sticky, todo, home>>, taken' \subseteq taken,
         instance' = "running" => instance = "running", hold' = "scan" => hold = "scan",
         \A p \in Port : Same(entry[p], entry'[p]) /\ entry'[p].pin = entry[p].pin
  PROVE  PlacesInv'
<1>1. \A p \in Port : Wanted(p)' = Wanted(p)
  BY DEF Same, Wanted, Want, Eval
<1>2. Known' = Known
  BY DEF Same, Known
<1>3. PlacesDistinct'
  BY NoneOpened DEF PlacesInv, Same
<1>4. HomesKept'
  BY <1>1, <1>2 DEF PlacesInv, HomesKept, Same
<1>. QED  BY <1>3, <1>4 DEF PlacesInv, ScansForget

\* Each tunnel is tried first where it was, and nobody is there before it.
LEMMA ReconcileReturns ==
  ASSUME TunnelsInv, PlacesInv, NEW p \in Port, Reconcile(p)
  PROVE  PlacesInv'
<1>1. /\ entry[p] \in Entry /\ sticky[p] \in Local \cup {0} /\ TunnelsTypeOK /\ entry[p].known
      /\ Apply(p, entry[p], sticky[p]) /\ todo' = todo \ {p} /\ (hold' = "scan" => hold = "scan")
      /\ UNCHANGED <<opt, paused, dialer, taken, home, instance>>
  BY DEF Reconcile, TunnelsInv, TunnelsTypeOK, RowsInv, Known, linkVars, historyVars
<1>2. PlacesDistinct'
  BY <1>1, AppliedDistinct DEF PlacesInv
<1>3. /\ \A q \in Port \ {p} : entry'[q] = entry[q] /\ sticky'[q] = sticky[q]
      /\ Decided(entry[p], entry'[p])
      /\ ~Wanted(p) => entry'[p].local = 0 /\ sticky'[p] = sticky[p]
      /\ Wanted(p) /\ entry[p].local # 0 =>
           entry'[p].local = entry[p].local /\ sticky'[p] = sticky[p]
      /\ Wanted(p) /\ entry[p].local = 0 /\ sticky[p] \in Free(p)
         /\ entry[p].pin \in {0, sticky[p]} =>
           /\ sticky'[p] = sticky[p]
           /\ entry'[p].local = IF dialer = 0 THEN 0 ELSE sticky[p]
  BY <1>1, AppliedPlace DEF Wanted
<1>4. \A q \in Port : Wanted(q)' = Wanted(q) /\ entry'[q].known = entry[q].known
                      /\ entry'[q].pin = entry[q].pin
  <2>1. \A q \in Port : /\ entry'[q].mode = entry[q].mode /\ entry'[q].keep = entry[q].keep
                        /\ entry'[q].known = entry[q].known /\ entry'[q].pin = entry[q].pin
    BY <1>3 DEF Decided
  <2>2. \A q \in Port : Wanted(q)' = Wanted(q)
    BY <1>1, <2>1 DEF Wanted, Want, Eval
  <2>. QED  BY <2>1, <2>2
<1>5. Known' = Known
  BY <1>4 DEF Known
<1>6. instance = "running" => dialer # 0
  BY DEF TunnelsInv, LinkInv
<1>7. home \in [Port -> Local \cup {0}] /\ 0 \notin Local
  BY TunnelsAssumption DEF TunnelsInv, TunnelsTypeOK
<1>8. CASE home[p] # 0
  <2>1. /\ Wanted(p) /\ sticky[p] = home[p] /\ entry[p].pin \in {0, home[p]}
        /\ home[p] \notin taken /\ entry[p].local \in {0, home[p]}
        /\ \A q \in Port \ {p} : home[q] # home[p]
        /\ \A q \in Port : home[q] = 0 => entry[q].local = 0
    BY <1>8 DEF PlacesInv, HomesKept
  <2>2. \A q \in Port \ {p} : entry[q].local # home[p]
    BY <1>8, <2>1 DEF PlacesInv, HomesKept
  <2>3. home[p] \in Free(p)
    BY <1>7, <1>8, <2>1, <2>2 DEF Free, Busy
  <2>4. sticky'[p] = home[p] /\ entry'[p].local \in {0, home[p]}
        /\ (dialer # 0 => entry'[p].local = home[p])
    BY <1>3, <1>8, <2>1, <2>3
  <2>5. HomesKept'
    BY <1>1, <1>3, <1>4, <1>5, <1>6, <1>8, <2>4 DEF PlacesInv, HomesKept
  <2>. QED  BY <1>1, <1>2, <2>5 DEF PlacesInv, ScansForget
<1>9. CASE home[p] = 0
  <2>1. ASSUME NEW q \in Port, home[q] # 0
        PROVE  entry'[p].local = 0 /\ q # p
    <3>1. ~Wanted(p)
      BY <1>1, <1>9, <2>1 DEF PlacesInv, HomesKept, Known
    <3>. QED  BY <1>3, <1>9, <2>1, <3>1
  <2>2. HomesKept'
    BY <1>1, <1>3, <1>4, <1>5, <2>1 DEF PlacesInv, HomesKept
  <2>. QED  BY <1>1, <1>2, <2>2 DEF PlacesInv, ScansForget
<1>. QED  BY <1>8, <1>9

\* Instance.Close notes where the tunnels were, all of them where they should be.
LEMMA CloseNotes ==
  ASSUME TunnelsInv, PlacesInv, Close
  PROVE  PlacesInv'
<1>1. /\ UNCHANGED <<opt, sticky, hold, todo, paused, taken>>
      /\ todo = {} /\ instance' = "none" /\ hold = "free"
      /\ home' = [p \in Port |-> IF Contented THEN entry[p].local ELSE 0]
      /\ entry \in [Port -> Entry]
  BY DEF Close, TunnelsInv, LockInv, TunnelsTypeOK
<1>2. \A p \in Port : /\ entry'[p].local = 0 /\ entry'[p].known = entry[p].known
                      /\ entry'[p].mode = entry[p].mode /\ entry'[p].keep = entry[p].keep
                      /\ entry'[p].pin = entry[p].pin
  <2>1. ASSUME NEW e \in Entry
        PROVE  LET f == [[e EXCEPT !.local = 0, !.via = 0] EXCEPT !.missing = 0]
               IN  /\ f.local = 0 /\ f.known = e.known /\ f.mode = e.mode
                   /\ f.keep = e.keep /\ f.pin = e.pin
    BY DEF Entry
  <2>2. \A p \in Port : entry'[p] = [[entry[p] EXCEPT !.local = 0, !.via = 0] EXCEPT !.missing = 0]
    BY DEF Close, Stop
  <2>. SUFFICES ASSUME NEW p \in Port
               PROVE  /\ entry'[p].local = 0 /\ entry'[p].known = entry[p].known
                      /\ entry'[p].mode = entry[p].mode /\ entry'[p].keep = entry[p].keep
                      /\ entry'[p].pin = entry[p].pin
    OBVIOUS
  <2>3. entry[p] \in Entry
    BY <1>1
  <2>4. entry'[p] = [[entry[p] EXCEPT !.local = 0, !.via = 0] EXCEPT !.missing = 0]
    BY <2>2
  <2>. QED  BY <2>1, <2>3, <2>4
<1>3. \A p \in Port : Wanted(p)' = Wanted(p)
  BY <1>1, <1>2 DEF Wanted, Want, Eval
<1>4. Known' = Known
  BY <1>2 DEF Known
<1>5. PlacesDistinct'
  BY <1>2 DEF PlacesDistinct
<1>6. ASSUME NEW p \in Port, entry[p].local # 0
      PROVE  p \in Known /\ Wanted(p)
  BY <1>1, <1>6, NoRow DEF TunnelsInv, RowsInv, RowsTyped, TunnelsAreAllowed, Known
<1>7. HomesKept'
  <2>1. CASE ~Contented
    BY <1>1, <2>1 DEF HomesKept
  <2>2. CASE Contented
    <3>1. home' = [p \in Port |-> entry[p].local]
      BY <1>1, <2>2
    <3>2. \A p \in Port : entry[p].local # 0 => entry[p].pin \in {0, entry[p].local}
      BY <1>6, <2>2 DEF Contented
    <3>3. \A q \in Known : entry[q].local = 0 => ~Wanted(q)
      BY <2>2 DEF Contented
    <3>. QED  BY <1>1, <1>2, <1>3, <1>4, <1>6, <3>1, <3>2, <3>3
              DEF PlacesInv, PlacesDistinct, HomesKept, Known
  <2>. QED  BY <2>1, <2>2
<1>. QED  BY <1>1, <1>5, <1>7 DEF PlacesInv, ScansForget

\* The calls that apply a row: nobody waits to come back after them.
LEMMA CallPlaces ==
  ASSUME TunnelsInv, PlacesInv, NEW p \in Port,
         \/ \E u \in User, mode \in Mode : SetMode(u, p, mode)
         \/ \E u \in User, local \in Local \cup {0} : SetLocalPort(u, p, local)
         \/ ForwardNow(p) \/ TryLocalPort(p, p)
  PROVE  PlacesInv'
<1>1. /\ TunnelsTypeOK /\ sticky[p] \in Local \cup {0} /\ p \in Local /\ "on" \in Mode
  BY TunnelsAssumption DEF TunnelsInv, TunnelsTypeOK, Mode
<1>2. NoHome /\ UNCHANGED taken /\ entry[p].known
  BY DEF SetMode, SetLocalPort, ForwardNow, TryLocalPort, Calls, Borrows
<1>3. ASSUME NEW mode \in Mode, Apply(p, InMode(p, mode), sticky[p])
      PROVE  PlacesDistinct'
  BY <1>1, <1>2, <1>3, InModeType, AppliedDistinct DEF PlacesInv
<1>4. ASSUME NEW local \in Local \cup {0}, Apply(p, Relocated(p, local), 0)
      PROVE  PlacesDistinct'
  BY <1>1, <1>2, <1>4, RelocatedType, AppliedDistinct DEF PlacesInv
<1>5. PlacesDistinct'
  BY <1>1, <1>3, <1>4 DEF SetMode, SetLocalPort, ForwardNow, TryLocalPort
<1>. QED  BY <1>2, <1>5, Forgotten DEF PlacesInv

\* Every step of the manager keeps the places.
LEMMA PlacesStep ==
  ASSUME TunnelsInv, PlacesInv, [TunnelsNext]_tunnelsVars
  PROVE  PlacesInv'
<1>1. entry \in [Port -> Entry]
  BY DEF TunnelsInv, TunnelsTypeOK
<1>2. ASSUME UNCHANGED <<opt, paused, sticky, todo, entry, home>>, taken' \subseteq taken,
             instance' = "running" => instance = "running", hold' = "scan" => hold = "scan"
      PROVE  PlacesInv'
  BY <1>2, PlacesSame DEF Same
<1>3. ASSUME ScanAll \/ ScanDrops
      PROVE  PlacesInv'
  <2>1. PICK found \in SUBSET box : Scan(found)
    BY <1>3 DEF ScanAll, ScanDrops
  <2>2. \A p \in Port : entry[p] \in Entry /\ (~entry[p].known => entry[p] = NoEntry)
    BY DEF TunnelsInv, RowsInv, RowsTyped
  <2>3. \A p \in Port : entry'[p].local = entry[p].local
    <3>1. ASSUME NEW p \in Port
          PROVE  [Restored(p) EXCEPT !.missing = 0].local = 0
      BY NoRow DEF Restored, NoEntry
    <3>2. ASSUME NEW p \in Port
          PROVE  [entry[p] EXCEPT !.missing = 0].local = entry[p].local
      BY <1>1 DEF Entry
    <3>. QED  BY <2>1, <2>2, <3>1, <3>2, NoRow DEF Scan
  <2>. QED  BY <2>1, <2>3, NoneOpened, Forgotten DEF Scan, PlacesInv
<1>4. CASE Sweep
  <2>1. \A p \in Port : entry'[p].local \in {0, entry[p].local}
    BY <1>1, <1>4, NoRow DEF Sweep, Entry
  <2>2. PlacesDistinct'
    BY <1>4, <2>1, NoneOpened DEF Sweep, PlacesInv
  <2>3. NoHome \/ (UNCHANGED home /\ \A p \in Port : home[p] = 0)
    BY <1>4 DEF Sweep, PlacesInv, ScansForget
  <2>. QED  BY <2>2, <2>3 DEF PlacesInv, HomesKept, ScansForget, NoHome
<1>5. CASE Run
  <2>1. /\ UNCHANGED <<opt, paused, sticky, entry, home, taken>>
        /\ todo' = Known /\ hold' # "scan"
    BY <1>5 DEF Run, TakeAll, historyVars
  <2>2. Known' = Known /\ \A p \in Port : Wanted(p)' = Wanted(p)
    BY <2>1 DEF Known, Wanted, Want, Eval
  <2>. QED  BY <2>1, <2>2 DEF PlacesInv, PlacesDistinct, HomesKept, ScansForget, Known
<1>6. ASSUME NEW u \in User, NEW p \in Port, NEW scheme, SetScheme(u, p, scheme)
      PROVE  PlacesInv'
  <2>1. \A q \in Port : Same(entry[q], entry'[q]) /\ entry'[q].pin = entry[q].pin
    BY <1>1, <1>6 DEF SetScheme, Same, Entry
  <2>. QED  BY <1>6, <2>1, PlacesSame DEF SetScheme, Calls, historyVars, linkVars
<1>7. ASSUME NEW p \in Port, NEW scheme, Observe(p, scheme)
      PROVE  PlacesInv'
  <2>1. \A q \in Port : Same(entry[q], entry'[q]) /\ entry'[q].pin = entry[q].pin
    BY <1>1, <1>7 DEF Observe, Same, Entry
  <2>. QED  BY <1>7, <2>1, PlacesSame DEF Observe, historyVars, linkVars
<1>8. ASSUME NEW b \in BOOLEAN, SetPaused(b)
      PROVE  PlacesInv'
  <2>1. \A p \in Port : entry'[p].local = entry[p].local
    BY <1>1, <1>8 DEF SetPaused, Entry
  <2>. QED  BY <1>8, <2>1, NoneOpened, Forgotten DEF SetPaused, PlacesInv
<1>9. ASSUME NEW l \in Local, Take(l)
      PROVE  PlacesInv'
  <2>1. PlacesDistinct'
    BY <1>9 DEF Take, managerVars, PlacesInv, PlacesDistinct
  <2>. QED  BY <1>9, <2>1, Forgotten DEF Take, PlacesInv
<1>10. CASE Restart
  <2>1. \A p \in Port : entry'[p].local = 0
    BY <1>10, NoRow DEF Restart
  <2>. QED  BY <1>10, <2>1, Forgotten DEF Restart, PlacesInv, PlacesDistinct
<1>11. CASE Work
  BY <1>2, <1>3, <1>4, <1>5, <1>11, ReconcileReturns, CloseNotes
     DEF Work, Attach, RunReturns, NeverRun, ReadPrefs, StorePrefs, WritePrefs,
         managerVars, linkVars, historyVars
<1>12. CASE Use
  <2>1. ASSUME NEW u \in User, NEW p \in Port, SetLabel(u, p)
        PROVE  PlacesInv'
    BY <1>2, <2>1 DEF SetLabel, Calls, historyVars, linkVars
  <2>2. ASSUME NEW b \in BOOLEAN, SetShowHidden(b)
        PROVE  PlacesInv'
    BY <1>2, <2>2 DEF SetShowHidden, historyVars, linkVars
  <2>. QED  BY <1>6, <1>8, <1>12, <2>1, <2>2, CallPlaces DEF Use
<1>13. CASE World
  BY <1>2, <1>7, <1>9, <1>13
     DEF World, BoxChanges, Release, managerVars, linkVars, historyVars
<1>14. CASE Browse
  BY <1>14, CallPlaces DEF Browse
<1>15. CASE UNCHANGED tunnelsVars
  BY <1>2, <1>15 DEF tunnelsVars, managerVars, linkVars, historyVars
<1>. QED  BY <1>10, <1>11, <1>12, <1>13, <1>14, <1>15 DEF TunnelsNext

(***************************************************************************)
(* The table remembers (TableRemembers), whatever users do at once and     *)
(* whichever writes fail: a service comes back on the local port it had    *)
(* before the link dropped, if all were where they should be and nobody    *)
(* interfered; the store says of a row what was decided about it, unless   *)
(* two decided at once; and the host file says what the store does, unless *)
(* the last write failed or ran beside another.                            *)
(***************************************************************************)
THEOREM TableIsRemembered == LocalizeSpec => []TableRemembers
<1>. DEFINE Inv == MemoryInv /\ PlacesInv
<1>1. LocalizeInit => Inv
  <2>. SUFFICES ASSUME LocalizeInit PROVE Inv
    OBVIOUS
  <2>1. /\ \A p \in Port : ~entry[p].known /\ entry[p].local = 0 /\ home[p] = 0
        /\ prefs = disk /\ hold = "free" /\ \A u \in User : job[u].at = "idle"
    BY NoRow, NoJobType DEF LocalizeInit, TunnelsInit
  <2>2. Writing = {}
    BY <2>1 DEF Writing
  <2>. QED  BY <2>1, <2>2 DEF MemoryInv, RowsKept, OnTheWay, Alone, FileKept, Told, PlacesInv,
                             PlacesDistinct, HomesKept, ScansForget
<1>2. LocalizeInv /\ Inv /\ [LocalizeNext]_localizeVars => Inv'
  <2>. SUFFICES ASSUME LocalizeInv, Inv, [LocalizeNext]_localizeVars PROVE Inv'
    OBVIOUS
  <2>1. CASE [TunnelsNext]_tunnelsVars
    BY <2>1, MemoryStep, PlacesStep DEF LocalizeInv
  <2>2. CASE UNCHANGED <<opt, managerVars, linkVars, box, taken, storeVars, historyVars>>
    <3>1. MemoryInv'
      BY <2>2, SameTold DEF managerVars, historyVars
    <3>2. PlacesInv'
      BY <2>2, PlacesSame DEF managerVars, linkVars, historyVars, Same
    <3>. QED  BY <3>1, <3>2
  <2>. QED  BY <2>1, <2>2, PageStep
<1>3. LocalizeInv /\ Inv => TableRemembers
  <2>. SUFFICES ASSUME LocalizeInv, Inv PROVE TableRemembers
    OBVIOUS
  <2>1. PortsComeBack
    BY DEF LocalizeInv, TunnelsInv, LockInv, PlacesInv, HomesKept, PortsComeBack
  <2>2. DecisionsAreRemembered
    BY DEF MemoryInv, RowsKept, FileKept, Told, Known, DecisionsAreRemembered
  <2>. QED  BY <2>1, <2>2 DEF TableRemembers
<1>. QED  BY <1>1, <1>2, <1>3, Invariance, PTL DEF LocalizeSpec

=============================================================================
