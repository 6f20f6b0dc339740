------------------------------ MODULE MCTunnels ------------------------------
(***************************************************************************)
(* Two remote ports. The system may hand out the number of the second one, *)
(* and a number that is no remote port, for a tunnel whose own is taken.   *)
(***************************************************************************)
EXTENDS Localize

CONSTANTS tui, web

Flags(samePort, exclude, hide) ==
  [samePort |-> samePort, min |-> 1, max |-> 2, include |-> {}, exclude |-> exclude,
   loopback |-> FALSE, exposed |-> {}, hide |-> hide]
MCPort == 1 .. 2
MCLocal == 1 .. 3
MCEphemeral == {2, 3}
MCOptions == {Flags(FALSE, {}, {}), Flags(TRUE, {}, {}), Flags(FALSE, {2}, {1})}
Prefer(mode, local) == [mode |-> mode, local |-> local, scheme |-> "unknown"]
MCNone == <<NoPrefs, NoPrefs>>
MCFiles == {MCNone, <<Prefer("hidden", 0), Prefer("auto", 1)>>}
MCNoFile == {MCNone}
MCPlain == {Flags(FALSE, {}, {})}
\* What is listened on at the start, here and over there; with hide lists,
\* the file of an earlier run. The longest histories are those of no flags.
MCInit ==
  /\ LocalizeInit
  /\ box = Port /\ taken = {}
  /\ disk = MCNone <=> opt.hide = {}
  /\ left = IF opt \in MCPlain THEN Disturbances ELSE Disturbances - 1
\* The users are alike: the second calls while the persist of the first call
\* is on its way, to hide a port, and leaves the rest to the first.
SecondHides ==
  /\ opt \in MCPlain /\ left = Disturbances - 1 /\ job[tui].at # "idle"
  /\ entry'[job'[web].port].mode = "hidden"
MCNext == LocalizeNext /\ (job[web].at = "idle" /\ job'[web].at # "idle" => SecondHides)
MCSpec == MCInit /\ [][MCNext]_localizeVars /\ LocalizeFairness
=============================================================================
