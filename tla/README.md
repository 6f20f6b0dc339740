# devtun in TLA+

devtun keeps one SSH connection to a development box and runs services over it:
port tunnels, a 1Password broker, an SSH agent, a GPG agent, a browser opener.
A process on the box asks for something; devtun, on the workstation, decides by
rules and grants, or asks a person in a terminal, a desktop dialog or a web
board. This directory holds specifications of the parts of it that decide
whether that is done correctly, what TLC checks of them, and what TLAPS proves.

Every definition names, in `PROJECT.json` ("map"), the lines of Go it stands for.

## The system

| part | state | operations | what is hard |
|---|---|---|---|
| `authz` store (`policy.go`, `record.go`) | the host's rules, live grants, what is on disk | `Decide`, `Record`, `Revoke`, `Deny`, `RevokeGrant`, `ForgetGrants`, save | order of precedence, grants that lapse, indices read earlier, failed saves |
| `authz` gate and broker | the current prompter, requests in flight | `Authorize`, `SetPrompter` | a verdict used after a wait; answers racing deadlines |
| `prompt` (`Serialize`, surfaces, dialog) | a mutex, its waiters | `Ask` | callers that give up in the queue |
| `approval` desk | waiting list, surfaces, one pending entry per question | `Ask`, `Answer`, `Fill` | several surfaces, one answer; ids that outlive questions |
| `tui` modal, `web` board | the question on screen; clicks in flight | `Ask`, keys, `handleApprove` | reordered messages, stale pages |
| `onepassword` and `vaultcache` | batches in progress, cached values | `handleResolve`, `handleExec`, `Forget`, cache `Get`/`Put`/`Purge` | a value that outlives its approval |
| `session` | status, backoff, attached instances, published sockets | `Run`, `serveOnce` and its deferred calls | link loss at any moment, teardown order, a full channel |
| `sshx` | a chain of connections, `known_hosts`, credentials; the remote sockets | `Dial`, `ListenSocket`, `RemoveSocket`, `KeepAlive` | a failure at any hop; what a person is asked, and when; sockets of a link sshd has not missed; a second devtun |
| `tunnels` | port table, forwards, local ports, scan results | scan, reconcile, hide, pin, rename, pause | scans racing edits and reconnects; ports taken locally |
| `sshagent`, `gpgagent` | a goroutine and a connection to the local agent per client; the destination it proved | bind, list, sign; copy both ways | a link that ends while somebody is asked; approvals of one connection used on another |
| `browser` | — | open, `localize` | shares the broker and the table |
| `hostcfg`, `settings` | two files, a copy of each in memory, which of them changed | `Get`, `Set`, `SetEnabled`, `Save`, `Step`, `Apply` | a whole file rewritten from an old copy, failed writes, kills, a lock given up between change and save |
| `event` and its readers | subscribers, bounded history; queues of the screen and of each page | `Emit`, `Subscribe`, `History` | the gap between history and subscription, slow readers, delivery order |
| `tui` screen | copies of rows, a cursor, overlays, an editor, two questions | every key, click, tick and message | rows that move under an editor, a box over a question, late messages |
| `web`, other `tui` tabs | copies of lists, tokens | buttons and keys | indices into lists that have changed |
| `authz/glob.go`, `onepassword/policy` | none | `Match`, `Check` | backtracking; options in front of a command |
| `shim`, `doctor`, `selfupdate`, `cmd/devtun`, rendering | none or little | — | mostly I/O and wiring |

How they meet: a request arrives on the control socket (`session`, `sshx`), is
handed to a service, which calls `Gate.Authorize`. The gate decides by its
store or asks its prompter, a `Serialize` of its own around the one desk all
services share. The desk puts the question to every surface; the first answer
wins, is recorded in the store, and reaches the host file. The session attaches
services to each new connection and closes them when it ends; grants, rules,
cached values and port assignments live in the services and outlive it.

## Modules

| module | models | built on |
|---|---|---|
| `Policy` | the policy store: rules, grants, verdicts, what reaches disk | — |
| `Broker_proofs`, `Desk_proofs`, `Settings_proofs` | theorems about the module each is named after | that module, TLAPS |
| `Policy_proofs` | theorems about `Policy` and `Glob` | both, TLAPS |
| `Tunnels_proofs` | theorems about `Tunnels` with the page at work | `Localize`, TLAPS |
| `Secrets_proofs` | theorems about `Vault`, `Agents` and `Guard`, what hands out secrets and signatures | the three, `Policy_proofs` |
| `Connection_proofs` | theorems about `Session` and `Dial` | both, TLAPS |
| `Interface_proofs` | theorems about `Screen` and `Feed`, what a person sees | both, TLAPS |
| `Broker` | `Authorize` behind the gate and its `Serialize`, many requests at once | extends `Policy`; takes the asked party at its promise |
| `Prompter` | that promise: what an `Ask` may return (abstract) | — |
| `Desk` | the desk with the modal, the dialog and the board | implements `Prompter` (`IsAPrompter`) |
| `Vault` | 1Password requests and batches, the value cache, Forget | extends `Policy` |
| `Tunnels` | the manager's table, local port allocation, the instance, what is remembered of a port | — |
| `Localize` | a page the remote asks to have opened, looking at the table and forwarding | extends `Tunnels` |
| `Lifecycle` | the contract of `service.Instance` (abstract) | — |
| `Session` | the supervisor, one connection, the remote sockets, another devtun | implements `Lifecycle` (`KeepsLifecycle`) |
| `Dial` | one connection through its jump hosts: host keys, credentials, questions, retries | — |
| `Settings` | the configuration files, devtun's copies of them, the surfaces that change them | — |
| `Agents` | the SSH and GPG agent services on every link | takes the gate at its promise |
| `Feed` | the event bus and everything that reads it | — |
| `Screen` | the terminal interface as a state machine of keys, clicks and messages | — |
| `Glob`, `Guard` | two pure algorithms, each with a reference definition | assumptions of `MCPolicy` and `MCVault` |
| `MC…` | finite instances of each for TLC | |

`Broker`, `Desk` and `Prompter` split one path in two. `Broker` uses only what
`Prompter` says (an answer in time, or "no"), and `Desk` is shown to implement
`Prompter`, so neither needs the other's interleavings.

An operator commented "Mutation:" is a definition with one plausible slip,
placed before the definition it would replace. No specification uses it;
`PROJECT.json` pairs each property of a run with one that breaks it.

### How state and steps correspond

- `Policy`: every method of `Store` runs under `Store.mu`, so each is one
  action. `hostRules` is the list `Rules()` shows, `grants` the slice with each
  grant's place (`at`), `saved` and `unsaved` the host file. `Match` is a
  relation `Covers`, about which only `NamesArePatterns` is assumed. Time is
  counted down by `Tick`. A lapsed grant stays until the next grant prunes it.
- `Broker`: `pc[r]` is where `Authorize(r)` is. A step runs to the next point
  at which another goroutine can: the return of a store method, `mu.Lock`, the
  `select` on the context. The goroutine that blocks in `mu.Lock` for a request
  that has given up is `abandoned`. `settled` and `forbidden` are history.
- `Desk`: `pc[r]` is where `Ask` is, `surface[r][x]` what the goroutine asking
  surface `x` does, `answer` and `reply` the one-place channels, `sends` the
  messages on their way to the interface, which arrive in any order because
  each is sent from a goroutine of its own. A click of the board is in
  `clicks` between `Desk.Answer` finding the id and delivering.
- `Vault`: a handler takes the references of its batch in order (`at`); each is
  authorised, then taken from the cache or from `op`. `Forget` is two steps
  (grants, then purge), as in the code.
- `Session`: `pc` is the call the supervisor is in, from `dialing` through the
  parts of `serveOnce` and its deferred calls to `hangup`. `life` and
  `attached` are the instances; `background` and `results` the goroutines that
  report and the channel they report into. On the remote, `file[p]` is what the
  path is and `listening[p]` who is still listed by the kernel under it: this
  connection, a connection of ours that sshd has not missed (`ghost`), or
  another devtun (`rival`). A link is `up`, `lost` (calls fail) or `blackholed`
  (calls do not return). `Unpublish` of the path in hand is several steps
  (`tidying`): the listener is closed, the remote script asks who listens (`test`),
  and removes (`rm`). What another devtun binds between the two makes the removal
  `late`. A link lost under the script leaves open whether it removed.
- `Tunnels`: `entry[p]` is a row with its forwarder (`local`, and `via`, the
  connection it dials over), `sticky` what the allocator remembers, `dialer` the
  connection in use. `Manager.mu` is held by one operation at a time: an
  operation on one port is one action, one that reconciles the table holds the
  lock (`hold`) while `Reconcile` takes the ports of `todo`, in any order for a
  scan (it ranges over a map), in port order otherwise. A user's call is
  followed by `persist` in its three steps (`job`). `taken` are the local ports
  of other processes; they change whenever, inside a held lock too. Users (the
  terminal and the board) persist side by side, and a write of the host file may
  fail unnoticed. `crossed` are the rows two of them decided about at once,
  `behind` says that a write failed or ran beside another.
- `Localize`: `page.at` is where `localize` is. Each look at the table and each
  call takes the lock of its own accord.
- `Dial`: `stage` is the call the one goroutine is in and `hop` the position in
  the chain; `conns` are the hops with an open connection. `known` is the file,
  `seen` what the verifier read of it, `added` what it wrote since. `files`,
  `loaded`, `held` and `queue` are the signers from the files on disk to the
  list in the order of offering. `late` is the handshake deadline, which a
  channel of another connection does not take.
- `Settings`: `disk[f]` is a file, `mem[p][f]` process `p`'s copy, `dirty[p]` the
  copies it changed. A change (`Change`) and its save are two holdings of
  `Store.mu`; a save writes its files one at a time and any write may fail.
  `job[p][t]` is what surface `t` is doing, `told` what people have been told was
  recorded, `aimed[p]` what `p` was asked to change, `stale[p]` the files somebody
  else, another process or an editor, has written since `p` read them.
- `Agents`: `serving[s]` is where `ServeSocket` is, `phase[c]` where `serveConn` of a
  forwarded connection is, `remote` and `local` its two ends. `dest[c]` is what
  the gate believes of a connection and `proven[c]` what was last proved on it.
  A question is answered (`said`) in one step and acted on in another; a request
  that has waited for its turn is asked whatever was granted meanwhile. `yes[c]` and
  `lasting` are what people said yes to, for this request and for the session.
  A GPG connection is two copies (`copying`); each ends when its source is closed at
  the other end, or a write to where it goes fails.
- `Feed`: events are numbered in the order they are recorded; `emit[m]` is where
  a call of `Emit` is: it records under one lock, waits for the delivery lock,
  then calls the subscribers it copied. The interface's forwarder and a page
  subscribe before they read the history, the board's notes after.
- `Screen`: `rows` is the copy of the manager's table that the last reload took;
  the table itself is not state, since nothing reads it but a reload, which may
  bring any (`ReloadAny`). `Keys` says who takes a key and `Drawn` what is on top; the two are
  decided in different places of the code and differ. `mail` are the messages
  of questions and withdrawals, each sent by a goroutine of its own. `chosen` and
  `effect` record what the user picked and what was then done to which port.
- `Glob`, `Guard`: the code's loops as recursive functions, beside what they are
  meant to decide. `MatchMeansWhatItSays` and `GuardReadsCommands` compare the
  two for every input within a length, the proofs for every input.

## What the runs check

| run | instance | shows |
|---|---|---|
| `policy` | 2 hosts, 2 secrets, a global rule and two starting host files, 2 rules, 2 grants | `RefusalsStand`: a verdict of deny ends only by a withdrawal. `OpensOnlyByDecision`: allow comes only from an allowing answer that covers the request, or a withdrawn refusal. `DenyOnlyTightens`: `D` on any index only tightens. `DiskFollowsMemory`: unless the last write failed, disk and memory agree. |
| `broker` | 3 requests (two for one secret), one replacement of the prompter | `OneQuestion` per prompter; `LateAnswersLeaveNoTrace`; `NotAskedTwice` after a lasting answer; `GateSettles`: callers that go (`EndedRequestsSettle`), and a holder of the mutex that hangs up (`HangupFreesTheGate`), do not wedge anything. |
| `desk` | 1 question, all surfaces, 2 browser tabs, changing settings | `IsAPrompter` (refinement); `OneAnswerCounts`; `IdsDieWithQuestions`; `EveryQuestionSettles`. |
| `vault` | a batch of two secrets and a read of one, a cache of one value, lapsing grants | `KeptOnlyWhileAllowed`: a value is cached no longer than its approval lasts. `NothingUnasked`: nothing is handed out that was not authorised for this very request. |
| `session` | 2 services, one with a socket; 4 ways of being started; any number of losses and of visits by another devtun | `KeepsLifecycle` (refinement, with its liveness); `QuitReturns`; `LossIsRetried`; `LostSocketIsNoticed`; `SessionOK` (with `NothingLeftBehind`: what is published is taken back); `RivalsAreNotRemoved`: a socket that had been taken over when the tidying up asked is left alone. |
| `tunnels` | 2 remote ports, 3 local ones, no flags / `--same-port` / `--exclude` with a hide list, two users, one page | `NothingUnwanted`: a live tunnel is one the decisions in force allow, over the connection that is up. `NothingMissed`: what should be forwarded is, or its row says what is in the way. `PauseKeepsWhatIsUp`. `OnlyUsersUnhide`: a page never forwards what the user hid. `TableRemembers`: a reconnection moves no tunnel (`PortsComeBack`) and decisions reach the store and the host file, across restarts too, as far as `persist` can (`DecisionsAreRemembered`). `BoardFollowsBox`. |
| `dial` | a box behind a jump host or in front of it; four keys, five ways of being started | `DialOK`: whoever is talked through presented a vouched-for key (`HostsAreVouchedFor`) and a failed dial holds nothing (`NothingLeaks`). `QuestionsAreDue`: nobody is asked for a passphrase or a password in vain. `DialSettles`: a silent host ends the dial. |
| `settings` | two processes for one host; prompt, service, text, recorded and service-owned settings | `SettingsOK`: what `Section.Set` or `Apply` reported is on disk through kills, failures and changes made elsewhere (`SavedSurvives`), what the screen says is what the next run reads (`ScreenTellsTheNextRun`); both but for a copy older than somebody else's write. `ChangesGetAnAnswer`. |
| `agents` | 2 connections at once over 2 links, 2 destinations | `AgentsOK`: nothing is held once a service has returned (`NothingHeldAfterwards`), what is shown was proved (`ShownIsProven`). `SignsWhatWasApproved`: a signature follows a yes to this request, or one for the session not forgotten since, for this key and the proven destination; never a no, a deadline or a withdrawal. `NobodyIsWaitedFor`. |
| `feed` | 2 emitters; the interface, or a log with a page or the board's notes | `FeedOK`: nothing falls between history and subscription (`NothingMissed`), a line stands twice only from opening (`RepeatsOnlyFromOpening`), the screen and the board agree with the session (`ServicesAgree`). `ScreenCatchesUp`; `TabsStallNobody`. |
| `screen` | 2 ports, 2 questions and the shell-rc question | `ScreenOK`: the highlight stays on the port it was put on (`HighlightIsChosen`) and everything done to a port is done to the one picked (`EffectsAreChosen`). `BoxesHold`: nothing is done to a port behind a question, nor by a click through a box or an editor; an editor and the chooser do their own work only. It does not hold back keys behind the connection-lost box, help or the detail, nor clicks beneath the palette (`ScreenDocs`). `QuestionsStand`: a question somebody waits on leaves the screen only with an answer. |

Each module states one type invariant. The runs of `session`, `dial`, `settings`,
`agents`, `feed` and `screen` check it, as part of their `…OK`; those of `Policy`,
`Broker`, `Desk`, `Vault` and `Localize` are not in a configuration: they are proved
(below).

`policy` also evaluates that `Match` is `Meaning` for every pattern and subject
up to a length, and that `Covers` of the instance is `Match`; `vault` that the
command guard runs what it is meant to run, for every short command line.

`screen_second` ends in a violation. `tui/prompter.go:145` says "A second request
cannot arrive while one is showing"; it can, because every service serialises
only its own questions, and it is refused without having been shown.

### Side configurations

These are run by hand (`tlc -config X.cfg M`). `DeskTwo` with `MCDesk` passes: two
questions, one of the vault and one of the agent, with the modal and the desktop
dialog, which has one turn at a time (`dialog.go:92`). Both are settled
(`EveryQuestionSettles`), and a dialog nobody listens to any more gives its turn back
(`DialogGivesWay`). Each of the others ends in a violation of a
sentence of the repository. One that has several properties checks one of them; the
others stand in comments, to be put in its place.

| configuration, property | expectation | what happens |
|---|---|---|
| `BrokerNever`, `MCBroker` | a deny "beats every allow, including one clicked through later" | A request already queued when "never" is answered is still asked, and its "yes" honoured. |
| `SessionDocs`, `MCSession`: `OnlyOursIsRemoved` | it cleans up "only if the socket is still ours" (`sshx/remote.go:209`) | The script tests and removes in two commands; what another devtun binds in between is removed. |
| `InUseMeansARival` | "another devtun session is already attached" | After a drop sshd has not noticed, the reconnection finds its own old socket and gives up for good. |
| `GivesUpForASetting` | "none of that should need a human" (`session/fatal.go`) | A link failing during the socket probe, or during the forward request, is classed as permanent. |
| `QuitEndsADial` | `Connect` "must honour ctx" (`session/session.go:70`) | The handshake, its questions and the hops behind a jump host do not look at the context (`sshx/dial.go:159-198`). |
| `TunnelsDocs`, `MCTunnels`: `HiddenForever` | "Press x and it remembers, per host, forever" | The write's error is dropped, and of two writes at once the older may come last; the next run shows the port. |
| `BorrowedIsGivenBack` | "for this session only, without remembering the choice" | A browser's choice is saved with the next thing the user sets on the row. |
| `OpensOurTunnel` | a port with no tunnel is not "pointed at whatever this machine is running there" | A port another process holds cannot be reclaimed, the attempt reports no error, and the page goes to that process. |
| `DialScreen`, `MCDial` | questions are asked "before the TUI takes the screen" | The interface and the session start side by side, and a question may come later. |
| `DialThrough`, `MCDial` | the timeout "bounds the TCP connect and SSH handshake for one hop" | A channel of a jump host takes no deadline, and the error is not looked at. |
| `SettingsDocs`, `MCSettings`: `ToggledIsRemembered` | a toggle the interface shows is remembered across a kill | The tab drops the error of `Save` and says the service is on or off. |
| `EditedIsSaved` | the settings screen is "saved now" (`settings.go:455`) | What a service lists of its own is set without an error to pass on (`settings.go:483-486`), and reported as changed. |
| `SafeToEditByHand` | "Safe to edit by hand", in every file's header | A process saves the copy it read at its start over what somebody wrote since. |
| `InterfaceCanAnswer` | the interface fills the desk where the plain session does | It parses the prompt setting without resolving it, and may ask where nobody can answer. |
| `FeedStalls`, `MCFeed` | a blocked renderer "should stall the log, not the session" | The renderer is called on the emitter's goroutine, so it stalls the session. |
| `ScreenDocs`, `MCScreen`: `ReconnectBoxHolds` | the connection-lost box "cannot be acted through" (`model.go:313`, `model_test.go:1041`) | `handleOfflineKey` takes `r` and passes every other key on: with a row highlighted, `x` hides it. The test's `x` finds no row highlighted. |
| `OverlaySwallowsClicks` | "an open overlay swallows the click" (`model.go:924`) | Beneath the palette the first click closes the editor it borrows, and the next reaches the row. |
| `YesWasSeen` | "anything other than a deliberate yes is a no" | The palette is drawn over the shell-rc question, which takes its keys. |

Two more sentences were seen not to hold: that a click reported as accepted was
counted (`approval/desk.go:370`; not when it is delivered as the deadline
passes), and that a revoked rule purges the cache (`vaultcache.go:106`; only
`Forget` does, and nothing kept is served without a new approval). What is
promised to the callers holds all the same: `IsAPrompter`, `OneAnswerCounts`,
`NothingUnasked`.

Smaller things met on the way, which break no property: a withdrawal that
overtakes its own question leaves a dead question on the modal until a key is
pressed; an agent client that hangs up while its request is being asked about
is not noticed until the answer; delivery order of events need not be the order
recorded, so `overlap` may find less than there is and repeat lines.

### Bounds

- `MaxRules`, `MaxGrants` (`Policy`) limit what people answer, never what the
  store does. Two of each are enough for a rule and a grant that disagree, an
  index that shifts, and a prune in between.
- `Request`: three in `Broker` are a holder of the mutex, one that gives up in
  the queue and one behind it. `MaxSwaps` = 1 gives two prompters. The menu is
  "no" and "for this session" (every answer is run by `policy`).
- `DefaultTTL`, `CacheTTL`: small counts of ticks; what matters is which of two
  times ends first, and both orders occur.
- `MaxEntries` = 1 (`Vault`): eviction happens on the second value.
- `Tab` (`Desk`): a browser tab has one click in flight.
- `MaxDelay` = 2 (`Session`): the backoff doubles once and stays. Losses,
  reconnections, ghosts and visits of the other devtun are not bounded: no
  counter is kept of them. `attempt` is capped at 2, as the code only asks
  whether it is 1.
- `Disturbances` (`Tunnels`): what is done from outside in one history, whoever
  does it: a call, a port taken, a service gone, a scan that misses one, a failed write, a
  reconnection. Three with no flags, two with flags; the scans, the first
  connection and every step of what was started are not counted. Each property
  above was seen to fail within them when the code is changed (`mutants`).
  `Grace` = 2: one miss is forgiven, the second is not. Three local ports for
  two remote ones are enough for a tunnel on another's number.
- `MaxTries` = 2, `MaxAge` = 1 (`Dial`): a host hangs up at the third refused key
  of four, and its keys are replaced once, before or during a dial or between
  two. Attempts are not counted.
- `MaxEdits` = 2, `MaxTrouble` = 1 (`Settings`): two changes on two surfaces
  interleave with their saves, around one failed write, kill or edit by hand.
  The second process is the one with the board; it is there from the start or not
  at all, and while both run people only switch the service on and off (`MCNext`).
  That is enough for one to save over what the other wrote. The theorem has
  neither bound.
- `MaxLinks` = 2, `MaxCalls` = 4 (`Agents`): a connection of the first link
  can still be ending when the second comes; four requests or failures are a bind,
  a signature that waits, and two events around it. One of the two connections is
  of an SSH client, the other of either service.
- `Limit` = 2, `Buffer` = 1, `MaxSaid` = 3 (`Feed`): the history has lost its first
  event, and a page's queue overflows, before the last is said.
- `Screen` has no bound: two ports and two questions keep it finite.
- Patterns of up to three characters against subjects of up to four, with two
  letters, one of them the separator; command lines of up to four arguments out
  of ten kinds.
- Two users in `tunnels`, who are alike: the second calls once, with no flags,
  while the persist of the first one's first call is on its way, and to hide a
  port (`SecondHides`). That is enough for two decisions about one row to cross
  and for two writes to overlap; the theorems leave users free.

### Fairness

Weak fairness throughout, of steps a goroutine that is scheduled takes by
itself: `Broker` of each request's own steps and of each mutex queue (a request
takes the mutex once, so weak fairness is enough); `Desk` of `Ask` and of the
goroutines asking surfaces; `Session` of the supervisor's next call, of an
instance's `Run` returning once its context is cancelled (its contract in
`service.go`), of the keepalive and the socket watcher, whose timers fire, and
of TCP giving up on data nobody acknowledges; `Tunnels` of the prober's scans,
which come every interval while the link is up, and of an operation that holds
the lock going on. Not assumed: that a person
answers, that a request is made or its context ends, that a dial ends (not even when its
context has: `QuitReturns` speaks of a supervisor outside one, and `QuitEndsADial`
shows why), that a connection succeeds,
that sshd notices anything, that the other devtun ever leaves.

`Dial` assumes of its own steps, of the handshake deadline and of what it ends
that they come, and that an agent answers a list; not that a host speaks, a
person answers or a token is touched. `Settings`: a goroutine with a save to do
goes on with it. `Agents`: devtun's goroutines run, a lost link is noticed and
its context ended, an agent that runs lists its keys. `Feed`: an emitter goes on
and the interface's pump runs; whoever reads the log or a page need not.
`Screen` has no liveness property and states no fairness.

## What is proved

`Policy_proofs` proves, for any hosts, subjects, patterns, rules and bounds,
from `NamesArePatterns`, `RulesAreRules` and `BoundsAreNumbers` only:

- `TypeCorrect`: `PolicySpec => []PolicyTypeOK`, including that no two grants
  share a place;
- `RulesReachDisk`: `PolicySpec => []DiskFollowsMemory`;
- `RefusalsAreFinal`: `PolicySpec => RefusalsStand`;
- `ApprovalsAreDecided`: `PolicySpec => OpensOnlyByDecision`;
- `DenyTightens`: `PolicySpec => DenyOnlyTightens`.

The inductive invariant is `PolicyInv == PolicyTypeOK /\ RefusalsLast`.
`RefusalsLast` (every deny grant is for the session) is what makes a refusal
survive `Tick` and a prune: the type alone would let one lapse. It holds
because the only answer that leaves a deny grant is "not this session". The
type part needs a lemma on maxima of finite sets (`NextPlace` is above every
place in use), which is proved from well-foundedness because the library's
induction rules take an operator as parameter.

The type invariant and the argument for each action are steps of `Invariance`;
the action properties follow action by action from what it does to `Denied` and
`Approved`.

It also proves, of the algorithm in `glob.go`, for every pattern and subject:

- `MatchIsItsMeaning`: `Match(pattern, subject) <=> Meaning(pattern, subject)`;
- `NamesMatchThemselves`: a subject matches itself, whatever its characters; a
  pattern without glob characters matches nothing else; `**` matches everything.
  This is what `NamesArePatterns` assumes of `Covers`, so the assumption is one
  the code meets.

What is left of a pattern is a pattern too, and `Means(i)` is where the subject may
be when the i-th character is reached. `Means` satisfies the equation `matchFrom` is
defined by (`MeansIsAccepted`), so the equation has a solution; it has only one,
because a place where two solutions first differ, from the end, refers only to later
ones (`MatchFromMeans`). Least counterexamples (`LeastNat`) stand in for induction.

`Broker_proofs`, from `RequestsAreRequests`, for any requests, menu and number
of prompter swaps:

- `BrokerTypeCorrect`: `BrokerSpec => []BrokerTypeOK`;
- `OneAtATime`: `BrokerSpec => []OneQuestion`;
- `LateAnswersAreLost`: `BrokerSpec => LateAnswersLeaveNoTrace`;
- `AskedOnce`: `BrokerSpec => NotAskedTwice`.

`OneQuestion` says who may hold the mutex, but not that a request on the screen
holds it. `QueueInv` adds that, and the other half of giving up: a request that
left the queue has a goroutine that is either still in `Lock` or holds the mutex
and owes an unlock. Without it `Release` could free a mutex somebody else holds.
For `AskedOnce` the state must say what history only records:
`SettledAreRemembered`, that whatever a lasting answer was given for has a rule or
a grant without expiry that matches it. Every step but a withdrawal leaves one (a
write may replace a rule with another, a tightening turns it into a refusal), and
`RememberedIsDecided`: a request that matches one is never asked about.

`Desk_proofs`, from `AnswersAreDistinct` and `SettingsAreSettings`, for any
questions, services, answers, settings and tabs:

- `DeskTypeCorrect`: `DeskSpec => []DeskTypeOK`;
- `BoardIsToldTheTruth`: `DeskSpec => []OneAnswerCounts`;
- `IdsDie`: `DeskSpec => []IdsDieWithQuestions`;
- `DeskIsAPrompter`: `DeskSpec => IsAPrompter`, the refinement.

`DeskInv` says where an answer can come from (`AnswersWereSaid`: whatever lies
in a channel or is on its way from the board was said of that question or is a
"no"), that nothing reaches a surface before its question was asked, that an id
is published only while its question is open, and that a channel keeps its first
answer (`FirstAnswerStays`). In the refinement `Ask`, `End`, `ReturnAnswer` and
`GiveUp` are steps of `Prompter`, a key or click that says something new is its
`Say`, and every other step is a stutter.

`Secrets_proofs`, first, from `VaultRequests` and the assumptions of `Policy`, for
any requests, references, rules, lifetimes and cache size:

- `VaultTypeCorrect`: `VaultSpec => []VaultTypeOK`;
- `ValuesAreApproved`: `VaultSpec => []NothingUnasked`;
- `CacheStaysBounded`: `VaultSpec => []CacheIsBounded`;
- `CacheFollowsApproval`: `VaultSpec => []KeptOnlyWhileAllowed`.

The last is the deepest. A value enters the cache when `op` answers, long after
the approval, so the invariant (`BackingInv`) follows an approval from the
answer to the cache: while nobody has taken anything back, one with `left` ticks
to go is *backed* by a rule, a session grant, or a grant with at least `left`
ticks to go. Time shortens both sides alike (`TickKeepsCovered`), answers that
forbid nothing only add (`AnswersOpen`), pruning drops only what backs nothing,
and `Put` keeps a value for no longer than the approval has left.

`Secrets_proofs`, second, from `AgentsAssumption`, for any places, keys, host keys,
links and requests:

- `AgentsAreOK`: `AgentsSpec => []AgentsOK`;
- `GrantsStandForAYes`: `AgentsSpec => []GrantsAreMeant`;
- `SignedAreApproved`: `AgentsSpec => SignsWhatWasApproved`.

`AgentsOK` is not inductive: that a connection to the desk's agent is held only
while its service accepts or waits rests on every open connection belonging to
such a service, those not yet joined included (`OpenAreServed`), and on a free
place holding nothing (`FreeHoldNothing`). `OneIsAsked` and `BoundAsProven` are
its other two parts, for every connection instead of the open ones. The way from a
yes to a signature is `GrantsAreMeant`: a grant covers only what people said yes to
for the session and has not been forgotten, which takes that two signatures with
one subject are the same key and destination; and a connection that was answered
other than no holds a yes to the very request it has under way.

`Secrets_proofs`, third, for every command line, every command of one to three words
the configuration allows, with and without `allow_all_commands`:

- `GuardReadsEveryCommand`: `Check` accepts exactly what `Permitted` does.

`Comes(i)` says that the arguments before the i-th can be read as options and their
values. Where the loop of `commandPath` ends is the same from wherever it comes
(`LoopComes`), so it ends at the last argument that comes (`FirstWordIs`): the first
word, the end of the options, the end of the line, or an option it does not know,
which it refuses. `CandidatesAreSpelt` does the rest: the prefixes of the words from
there are the commands spelt there.

`Tunnels_proofs`, from `TunnelsAssumption` and `FilesAssumption`, for any ports,
users, flags, schemes, host files, grace and number of disturbances, with the
localize page at work:

- `LocalizeTypeCorrect`: `LocalizeSpec => []LocalizeTypeOK`;
- `TunnelsAreWanted`: `LocalizeSpec => []NothingUnwanted`;
- `WantedIsTried`: `LocalizeSpec => []NothingMissed`;
- `PausingClosesNothing`: `LocalizeSpec => PauseKeepsWhatIsUp`;
- `HiddenStaysHidden`: `LocalizeSpec => OnlyUsersUnhide`;
- `TableIsRemembered`: `LocalizeSpec => []TableRemembers`.

`NothingUnwanted` and `NothingMissed` speak of rows that have been reached.
`RowsInv` adds what holds of the rows not reached yet: no tunnel uses a
connection other than the manager's (`TunnelsUseTheLink`), and while paused even
a row still to be reached is wanted if it has a tunnel (`TunnelsAreAllowed`).
Without the second, pausing could close what is up. `LockInv` ties what is left
to do to what holds the lock, `LinkInv` ties the dialer to the instance, `JobsInv`
names the row a request is about. `Applied` states once what `applyLocked`
leaves of a row, from any row and any port remembered; every mutator is then the
same step with another row (`OneRowKeeps`), and a step of the page is one of the
manager's or touches none of its state.

`TableIsRemembered` takes two more invariants. `MemoryInv` (decisions) says how far a
persist can be relied on, with any number of users: but for rows being decided
about twice at once (`crossed`), the store says what the row does where no persist is
on its way (`RowsKept`), what one on its way will store is what the row says by then
(`OnTheWay`), and it is the only one for its row (`Alone`); but for a failed write and
one beside another (`behind`), who writes writes what the store says, and the file
says it afterwards (`FileKept`).
`PlacesInv` (ports): no two tunnels share a local port (`PlacesDistinct`), and
while some wait to come back no other row wants a port and each is remembered
where it was (`HomesKept`), which the allocator tries first
(`RememberedIsAllotted`). During a scan nobody waits (`ScansForget`).

`Settings_proofs`, from `SettingsAssumption`, for any hosts, settings, values,
processes, editors and bounds:

- `SavedIsKept`: `SettingsSpec => []SettingsOK`.

That what was reported is in the file is not inductive: a later save of another
setting in the same file could undo it. `SettingsInv` therefore relates every copy to
its file, until somebody else writes that file (`stale`): a copy with nothing to be
written equals it, any differs from it only in settings its process was asked to
change (`CopiesAreFaithful`). Who saves holds the lock, leaves only what has changed
to be written, and knows that a file it passed over failed (`SavingIsHeld`). A save of
a faithful copy undoes nothing but what its own process was asked to change, and of
that nothing is counted as reported any more; a save of a stale one may undo
anything in the file, and `SavedSurvives` says so.

`Connection_proofs`, first, from `SessionAssumption` and `OptionsAssumption`, for
any services in any order, sockets, ways of being started and longest wait:

- `SessionIsOK`: `SessionSpec => []SessionOK`;
- `RivalsStay`: `SessionSpec => RivalsAreNotRemoved`;
- `SessionKeepsTheLifecycle`: `SessionSpec => Life!LifeInit /\
  [][Life!LifeNext]_(Life!lifeVars)`, the refinement of `Lifecycle` but for its
  fairness.

`NothingLeftBehind` speaks of the end, after the defers of `serveOnce` have run;
the invariant has to say what they still owe. `SessionInv` is `SuperOK` (the
supervisor and the link), `ServeOK` (services attached once each and in order,
sockets published in the same order, an instance's life in step with where the
supervisor is) and `RemoteOK`, whose core is `OursArePublished`: a socket of ours
on the remote is one in `own` or the control socket between its binding and its
removal, and the link it was published over is up. Any end of the link turns all
of ours into ghosts, so at `hangup` none is left, whichever way the connection
ended. `RivalsStay` needs `HandIsClosed`: once the listener is closed the path in hand
is not ours, and between the test and the rm it is another's only if bound in
between. For the refinement, every step is one of `Lifecycle`'s four or changes
nothing it speaks of: a service is attached once because `attached` lists only
services the loop has passed (`HeldInTurn`), and an instance is closed only when
every `Run` has returned (`LivesInTurn`).

`Connection_proofs`, second, from `DialAssumption`, for any hosts, jumps, keys,
`known_hosts`, modes, and numbers of tries and of key changes:

- `DialIsOK`: `DialSpec => []DialOK`;
- `QuestionsAreAskedWhenDue`: `DialSpec => QuestionsAreDue`.

`HostsAreVouchedFor` and `NothingLeaks` are about the hops already opened.
`DialInv` adds where the dial is among them (`HopsInTurn`: the connections are the
hops before the one being dialled), that a person is asked only about a host of
which the verifier read no key of that type (`AskedOfNew`), and, for the questions
about keys, that a key which needs no passphrase is still to be loaded, loaded, or
passed over for the one the agent listed (`KeysInTurn`), and that one is held locked
only where somebody can unlock it (`OffersInTurn`).

`Interface_proofs`, first, from `ScreenAssumption`, for any ports and questions:

- `ScreenIsOK`: `ScreenSpec => []ScreenOK`;
- `BoxesDoHold`: `ScreenSpec => BoxesHold`;
- `QuestionsDoStand`: `ScreenSpec => QuestionsStand`.

`ScreenInv` adds that the inline editor was opened for the port picked and stays
with it (`EditsChosen`), that the palette takes the editor of a command and never
one of a port (`PaletteBorrows`), and that a withdrawal is sent only by an asker
that no longer waits (`CancelledGaveUp`), which is what `QuestionsDoStand` rests on.
The highlight keeps its port through a reload because a table lists each port once (`TableIsListed` and the
lemmas after it).

`Interface_proofs`, second, from `FeedAssumption`, for any emitters, pages,
services, history and queue:

- `FeedIsOK`: `FeedSpec => []FeedOK`.

Nothing `FeedOK` says is inductive by itself: events are delivered in another order
than they were recorded, by emitters that copied the subscribers at another time.
`FeedInv` adds, in parts:

- `BusOK`: an emitter delivers the last event it said, calls nobody twice, and
  only the session speaks of services;
- `OpeningOK`: nothing is caught for a reader before it subscribed, and what is in
  its queue or on its way was said after;
- `RepeatsOK`: what stands twice in a reader's line, or stands there and is still
  on its way, was said between its subscription and its reading of the history;
- `FollowsOK`: what the session said later stands later in the interface's line
  than every occurrence of what it said earlier, or is still on its way. This is
  what lets the interface repeat lines and still end at the right set of running
  services;
- `RunningOK`: the interface shows as running what the lines it has shown make of
  it, and the board what all it was told so far does (`Told`), which leaves out
  the one event the session may be delivering.

From these `ServicesAgree` follows: once nothing is on its way, the last word about
each service is the session's last word.

Only model-checked: every liveness property (`GateSettles`, `EveryQuestionSettles`,
`QuitReturns`, `LossIsRetried`, `LostSocketIsNoticed`, `BoardFollowsBox`,
`DialSettles`, `ChangesGetAnAnswer`, `NobodyIsWaitedFor`, `ScreenCatchesUp`,
`TabsStallNobody`) and the fairness half of the refinement of `Lifecycle`: with
`ENABLED` they are out of the prover's reach. Every invariant and every action
property of the runs is proved, and so is what the two pure algorithms compute.

## Not modelled

- Wording, layout, colours, logs, activity entries; strings are members of
  small sets, `Match` a relation outside `Glob`.
- `crypto/rand` failing when a desk id is minted.
- The remote helper, its upload and the shell-rc edit; frames and the greeting
  on the control socket; `Prepare`.
- The length of waits: `Session` does not tell a short wait from a long one, so
  the retry token and the time a teardown over a blackholed link takes are not
  visible. That such a teardown ends at all rests on TCP giving up.
- `cleanupGrace`, the time a connection has for its tidying up over a link that
  works.
- How `ssh_config` and `known_hosts` are parsed and hashed; the SSH protocol
  itself is taken at what `auth.go` and `hostkey.go` say of it.
- What preparing a remote `GNUPGHOME` copies; the agent operations devtun refuses
  out of hand (add, remove, lock), which change nothing.
- The Access, Log, Config and Services tabs as screens (their effects are in
  `Policy`, `Settings` and `Feed`), the contents of rows, sorting and searching;
  the board's pages and its token trade.
- `doctor`, `selfupdate`, `render`'s wording, `ui`, `release`, `shim`, `opref`,
  `opcli` and most of `cmd/devtun`: read-only checks, a download, layout,
  parsing of one reference, wiring.
- Labels and the events of `tunnels`; the parsing of what `ss`, `lsof` and
  `netstat` print; the bytes a forwarder carries, an accept loop that ends, and
  connections that outlive their forwarder.

## Plan

Models, in order of what matters most to a user:

1. `AccessTab`: the rule list as the terminal and a page hold it, while `Policy`
   moves; revoking by a stale index.
2. `Forwarder`: connections that outlive their forwarder, an accept loop that ends.
3. `SelfUpdate`: a download that replaces the running program.

Proofs: that a `Desk` behind a `Broker` is all a `Broker` needs (the two halves of the
path composed), and the theorems of the models above.
