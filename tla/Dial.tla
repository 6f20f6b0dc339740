-------------------------------- MODULE Dial --------------------------------
(***************************************************************************)
(* internal/sshx: one connection to a host, through any jump hosts in      *)
(* front of it (dial.go), with the host keys (hostkey.go), credentials     *)
(* (auth.go) and questions (prompt.go) of each hop, from a destination     *)
(* resolved against ssh_config (destination.go).                           *)
(*                                                                         *)
(* Dial is one goroutine and `stage` is the call it is in. A step ends     *)
(* where the program waits for somebody else: a host, the agent, a person, *)
(* a timer. A jump host and the box behind it are positions of one chain;  *)
(* hop i + 1 is an SSH connection over a channel of hop i.                 *)
(*                                                                         *)
(* The SSH protocol is x/crypto/ssh's, taken at what auth.go and           *)
(* hostkey.go say of it: the first host key type of the client's list that *)
(* the server has is the one presented; keys are queried one by one before *)
(* anything is signed; a method that ends in an error is not tried again;  *)
(* a channel of a connection takes no deadline, unlike a socket.           *)
(***************************************************************************)
EXTENDS Integers, FiniteSets, SequencesExt

CONSTANTS
  Host,          \* addresses, the box among them
  Box,           \* the destination that was typed
  Key,           \* user keys, by their public half
  Configured,    \* Configured[h]: what ssh_config says of h
  DialOptions,   \* how devtun was started
  DefaultKeys,   \* what discoverKeys finds in ~/.ssh, in order
  Encrypted,     \* the key files with a passphrase
  Halved,        \* the key files with a public half to be had without it
  AgentKeys,     \* what the agent holds, in its order
  Served,        \* Served[h]: the host key types h has
  DefaultTypes,  \* host key types in x/crypto/ssh's own order
  Accepts,       \* Accepts[h]: the user keys h lets in
  MaxTries,      \* refusals h puts up with before it hangs up
  MaxAge         \* how often a host's keys are replaced

HostType == Range(DefaultTypes)
Mode == {"ask", "accept-new", "yes", "no"}
Unset == ""
HostRecord == [host : Host, type : HostType, age : 0 .. MaxAge]
Signer == [key : Key, from : {"agent", "file", "deferred"}]

ASSUME DialAssumption ==
  /\ Box \in Host
  /\ Configured \in [Host -> [jumps : Seq(Host), keys : Seq(Key), only : BOOLEAN,
                              strict : Mode \cup {Unset}]]
  /\ DialOptions \subseteq [jumps : Seq(Host), keys : Seq(Key), mode : Mode \cup {Unset},
                            terminal : BOOLEAN, wait : BOOLEAN, interface : BOOLEAN]
  /\ DefaultKeys \in Seq(Key) /\ AgentKeys \in Seq(Key)
  /\ Encrypted \subseteq Key /\ Halved \subseteq Key
  /\ DefaultTypes \in Seq(HostType)
  /\ Served \in [Host -> (SUBSET HostType) \ {{}}]
  /\ Accepts \in [Host -> SUBSET Key]
  /\ MaxTries \in Nat /\ MaxAge \in Nat

VARIABLES
  flags,         \* the flags of this run
  stage,         \* what Dial is doing
  ctx,           \* the caller's context
  attended,      \* whether Options.Prompter is there
  screen,        \* whether an interface draws on the terminal
  hop,           \* the hop in hand
  conns,         \* the hops with an open connection
  agentConn,     \* the authenticator's connection to the agent
  late,          \* whether the handshake's deadline has passed
  known,         \* the known_hosts file
  seen,          \* what the verifier read of it
  added,         \* what was written to it since
  shown,         \* shown[i]: the host key hop i presented
  age,           \* age[h]: how often h's keys were replaced
  files,         \* key files still to be loaded
  held,          \* the agent's signers
  blobs,         \* the keys the agent listed
  loaded,        \* signers of key files, in order
  queue,         \* signers not yet offered
  refused        \* what the host has refused in this handshake

personVars == <<flags, ctx, attended, screen>>
hostVars == <<known, seen, added, shown, age>>
keyVars == <<files, held, blobs, loaded, queue, refused>>
dialVars == <<stage, personVars, hop, conns, agentConn, late, hostVars, keyVars>>

(***************************************************************************)
(* Resolve: the command line over ssh_config. A key named with -i replaces *)
(* those of ssh_config and rules the agent out. A jump host is resolved    *)
(* with no flags, and what it would jump through itself is not asked.      *)
(***************************************************************************)
Resolve(h) ==
  LET named == IF h = Box THEN flags.keys ELSE <<>>
  IN [keys |-> IF named # <<>> THEN named ELSE Configured[h].keys,
      only |-> named # <<>> \/ Configured[h].only,
      jumps |-> IF h = Box /\ flags.jumps # <<>> THEN flags.jumps ELSE Configured[h].jumps]

Chain == Append(Resolve(Box).jumps, Box)
Here == Chain[hop]
Dest == Resolve(Here)

\* ParseHostKeyMode, of --host-key or of the destination's own setting, for
\* every hop of the chain.
HostKeyMode ==
  LET set == IF flags.mode # Unset THEN flags.mode ELSE Configured[Box].strict
  IN IF set = Unset THEN "ask" ELSE set

(***************************************************************************)
(* Verifier and AlgorithmsFor. Records of this host's types are preferred, *)
(* so a host presents a type that is recorded if it has one.               *)
(***************************************************************************)
Recorded(h) == {r \in seen : r.host = h}
Presentable(h) ==
  LET agreed == {r.type : r \in Recorded(h)} \cap Served[h]
      foremost == {i \in DOMAIN DefaultTypes :
                     /\ DefaultTypes[i] \in Served[h]
                     /\ \A j \in 1 .. i - 1 : DefaultTypes[j] \notin Served[h]}
  IN IF HostKeyMode # "no" /\ agreed # {} THEN agreed ELSE {DefaultTypes[i] : i \in foremost}

\* Mutation: a type the file has not is taken for new, whatever the key is.
ChangedNever(r) == FALSE

Changed(r) == \E old \in Recorded(r.host) : old.type = r.type /\ old # r

DialTypeOK ==
  /\ flags \in DialOptions
  /\ stage \in {"idle", "reading", "connecting", "handshake", "confirm", "listing", "loading",
             "unlock", "offering", "signing", "passphrase", "password", "unwinding",
             "waiting", "connected", "closing", "returned"}
  /\ ctx \in {"live", "done"} /\ attended \in BOOLEAN /\ screen \in BOOLEAN
  /\ hop \in 1 .. Len(Chain) /\ conns \subseteq 1 .. Len(Chain)
  /\ agentConn \in BOOLEAN /\ late \in BOOLEAN
  /\ known \subseteq HostRecord /\ seen \subseteq HostRecord /\ added \subseteq HostRecord
  /\ shown \in [1 .. Len(Chain) -> HostRecord]
  /\ age \in [Host -> 0 .. MaxAge]
  /\ files \in Seq(Key) /\ blobs \subseteq Key /\ refused \in 0 .. MaxTries
  /\ held \in Seq(Signer) /\ loaded \in Seq(Signer) /\ queue \in Seq(Signer)

Fresh(h, t) == [host |-> h, type |-> t, age |-> age[h]]

DialInit ==
  /\ flags \in DialOptions
  /\ stage = "idle" /\ ctx = "live" /\ attended = flags.terminal /\ screen = FALSE
  /\ hop = 1 /\ conns = {} /\ agentConn = FALSE /\ late = FALSE
  /\ age = [h \in Host |-> 0]
  /\ known \in SUBSET {Fresh(Box, t) : t \in Served[Box]}
  /\ seen = {} /\ added = {}
  /\ shown = [i \in 1 .. Len(Chain) |-> Fresh(Chain[i], DefaultTypes[1])]
  /\ files = <<>> /\ held = <<>> /\ blobs = {} /\ loaded = <<>> /\ queue = <<>>
  /\ refused = 0
-----------------------------------------------------------------------------
(***************************************************************************)
(* Leaving. A hop that fails closes its own connection and lets its        *)
(* authenticator go; closeAll then closes the jumps, far end first. Close  *)
(* of a client does the same from the box back.                            *)
(***************************************************************************)
\* What a handshake held in memory is dropped with it.
Forget ==
  /\ files' = <<>> /\ held' = <<>> /\ blobs' = {} /\ loaded' = <<>> /\ queue' = <<>>
  /\ refused' = 0 /\ late' = FALSE

Fail ==
  /\ stage' = "unwinding"
  /\ conns' = conns \ {hop} /\ agentConn' = FALSE
  /\ Forget

\* The end of an attempt: an error for the caller, or another attempt.
GivesUp == ~flags.wait \/ ctx = "done"
Unwind ==
  /\ stage \in {"unwinding", "closing"}
  /\ IF conns # {} THEN conns' = conns \ {Max(conns)} /\ UNCHANGED stage
     ELSE /\ stage' = CASE stage = "closing" -> "idle"
                        [] stage = "unwinding" /\ GivesUp -> "returned"
                        [] OTHER -> "waiting"
          /\ UNCHANGED conns
  /\ UNCHANGED <<personVars, hop, agentConn, late, hostVars, keyVars>>

WaitEnds ==
  /\ stage = "waiting"
  /\ stage' = IF ctx = "done" THEN "returned" ELSE "reading"
  /\ UNCHANGED <<personVars, hop, conns, agentConn, late, hostVars, keyVars>>
-----------------------------------------------------------------------------
(***************************************************************************)
(* The chain. known_hosts is read once for all its hops.                   *)
(***************************************************************************)
Dial ==
  /\ stage \in {"idle", "returned"} /\ ctx = "live"
  /\ stage' = "reading"
  /\ UNCHANGED <<personVars, hop, conns, agentConn, late, hostVars, keyVars>>

ReadKnownHosts ==
  /\ stage = "reading"
  /\ hop' = 1 /\ added' = {}
  /\ \/ stage' = "connecting" /\ seen' = IF HostKeyMode = "no" THEN {} ELSE known
     \/ stage' = "unwinding" /\ HostKeyMode # "no" /\ UNCHANGED seen
  /\ UNCHANGED <<personVars, conns, agentConn, late, known, shown, age, keyVars>>

\* The TCP connection, or the channel. The context and the timeout end both.
Connect ==
  /\ stage = "connecting" /\ ctx = "live"
  /\ stage' = "handshake" /\ conns' = conns \cup {hop}
  /\ UNCHANGED <<personVars, hop, agentConn, late, hostVars, keyVars>>
Unreachable ==
  /\ stage = "connecting" /\ stage' = "unwinding"
  /\ UNCHANGED <<personVars, hop, conns, agentConn, late, hostVars, keyVars>>

(***************************************************************************)
(* The handshake runs against a deadline set on the connection. It ends    *)
(* what reads or writes a socket; whoever is waiting for the agent or for  *)
(* a person finds out later. A channel refuses the deadline, and dialHop   *)
(* does not look at the error.                                             *)
(***************************************************************************)
Reading == {"handshake", "offering"}
TakesDeadline == hop = 1
Shaking == stage \in Reading \cup {"confirm", "listing", "loading", "unlock", "signing",
                                "passphrase", "password"}
DeadlinePasses ==
  /\ Shaking /\ TakesDeadline /\ ~late
  /\ late' = TRUE
  /\ UNCHANGED <<stage, personVars, hop, conns, agentConn, hostVars, keyVars>>
\* Mutation: a deadline that passes while a person is asked ends nothing afterwards.
TimesOutAtOnce == stage = "handshake" /\ late /\ Fail /\ UNCHANGED <<personVars, hop, hostVars>>

TimesOut == stage \in Reading /\ late /\ Fail /\ UNCHANGED <<personVars, hop, hostVars>>

\* The host, or a hop in front of it, goes away.
HangsUp == stage \in Reading /\ Fail /\ UNCHANGED <<personVars, hop, hostVars>>

Authenticated ==
  /\ conns' = conns /\ agentConn' = FALSE
  /\ IF hop < Len(Chain) THEN hop' = hop + 1 /\ stage' = "connecting" /\ UNCHANGED attended
     ELSE UNCHANGED hop /\ stage' = "connected" /\ attended' = FALSE
  /\ Forget
-----------------------------------------------------------------------------
(***************************************************************************)
(* The host key. An unknown one is a question, or refused, or recorded; a  *)
(* changed one is refused whatever the mode, unless nothing is checked.    *)
(***************************************************************************)
Record(r) == known' = known \cup {r} /\ added' = added \cup {r}

HostKey ==
  /\ stage = "handshake"
  /\ \E t \in Presentable(Here) :
       LET r == Fresh(Here, t)
       IN /\ shown' = [shown EXCEPT ![hop] = r]
          /\ \/ /\ HostKeyMode = "no" \/ r \in seen
                /\ stage' = "listing"
                /\ UNCHANGED <<conns, agentConn, late, keyVars, known, added>>
             \/ /\ HostKeyMode # "no" /\ r \notin seen
                /\ \/ Changed(r) \/ HostKeyMode = "yes"
                   \/ HostKeyMode = "ask" /\ ~attended
                   \/ HostKeyMode = "accept-new"    \* and the file cannot be written
                /\ Fail /\ UNCHANGED <<known, added>>
             \/ /\ HostKeyMode = "accept-new" /\ r \notin seen /\ ~Changed(r)
                /\ stage' = "listing" /\ Record(r)
                /\ UNCHANGED <<conns, agentConn, late, keyVars>>
             \/ /\ HostKeyMode = "ask" /\ attended /\ r \notin seen /\ ~Changed(r)
                /\ stage' = "confirm"
                /\ UNCHANGED <<conns, agentConn, late, keyVars, known, added>>
  /\ UNCHANGED <<personVars, hop, seen, age>>

Confirm ==
  /\ stage = "confirm"
  /\ \/ /\ stage' = "listing" /\ Record(shown[hop])
        /\ UNCHANGED <<conns, agentConn, late, keyVars>>
     \/ Fail /\ UNCHANGED <<known, added>>    \* no, no answer, or not written
  /\ UNCHANGED <<personVars, hop, seen, shown, age>>

-----------------------------------------------------------------------------
(***************************************************************************)
(* publicKeySigners. The agent is asked for its list and then for its      *)
(* signers; each may fail (or come back empty) twice although the other    *)
(* does not. A key file the list names is passed over, unless it was named *)
(* by the user.                                                            *)
(***************************************************************************)
Named == Dest.keys # <<>>

ListAgent ==
  /\ stage = "listing"
  /\ stage' = "loading"
  /\ files' = IF Named THEN Dest.keys ELSE DefaultKeys
  /\ \/ ~Dest.only /\ agentConn' = TRUE
        /\ blobs' \in {{}, Range(AgentKeys)}
        /\ held' \in {<<>>, [i \in DOMAIN AgentKeys |->
                               [key |-> AgentKeys[i], from |-> "agent"]]}
     \/ UNCHANGED <<agentConn, blobs, held>>    \* IdentitiesOnly, or no agent
  /\ UNCHANGED <<personVars, hop, conns, late, hostVars, loaded, queue, refused>>

\* The next method the client knows: a password, where somebody can be asked.
NextMethod ==
  \/ attended /\ stage' = "password" /\ UNCHANGED <<conns, agentConn, late, keyVars>>
  \/ ~attended /\ Fail

\* loadIdentity: an encrypted file is unlocked now only if there is no public
\* half to offer instead.
LoadsAs(k) == IF k \in Encrypted THEN "deferred" ELSE "file"
\* Mutation: encrypted files are unlocked up front.
MustUnlockAll(k) == k \in Encrypted

MustUnlock(k) == k \in Encrypted \ Halved

LoadKey ==
  /\ stage = "loading" /\ files # <<>>
  /\ LET k == Head(files)
         heldToo == ~Named /\ k \in blobs /\ k \in Halved
         usable == ~heldToo /\ (k \in Encrypted => attended)
     IN IF usable /\ MustUnlock(k) THEN stage' = "unlock" /\ UNCHANGED <<files, loaded>>
        ELSE /\ files' = Tail(files) /\ UNCHANGED stage
             /\ loaded' = IF usable THEN Append(loaded, [key |-> k, from |-> LoadsAs(k)])
                          ELSE loaded
  /\ UNCHANGED <<personVars, hop, conns, agentConn, late, hostVars, held, blobs, queue, refused>>

\* A file that was unlocked, or skipped because it could not be.
Unlock ==
  /\ stage = "unlock" /\ stage' = "loading"
  /\ files' = Tail(files)
  /\ loaded' \in {loaded, Append(loaded, [key |-> Head(files), from |-> "file"])}
  /\ UNCHANGED <<personVars, hop, conns, agentConn, late, hostVars, held, blobs, queue, refused>>

\* Keys that were named go first, else the agent's do. None at all ends the method.
OrderKeys ==
  /\ stage = "loading" /\ files = <<>>
  /\ IF held \o loaded = <<>> THEN NextMethod
     ELSE /\ stage' = "offering"
          /\ queue' = IF Named THEN loaded \o held ELSE held \o loaded
          /\ UNCHANGED <<conns, agentConn, late, files, held, blobs, loaded, refused>>
  /\ UNCHANGED <<personVars, hop, hostVars>>
-----------------------------------------------------------------------------
(***************************************************************************)
(* The keys are offered one by one. One the host would take is signed      *)
(* with: by the agent, which may wait for a PIN or a touch, or with a file *)
(* that is unlocked for it. A signature that fails ends the method.        *)
(***************************************************************************)
Offer ==
  /\ stage = "offering" /\ queue # <<>>
  /\ LET s == Head(queue)
         taken == s.key \in Accepts[Here]
     IN \/ /\ taken /\ s.from = "file" /\ Authenticated
        \/ /\ taken /\ s.from # "file"
           /\ stage' = IF s.from = "agent" THEN "signing" ELSE "passphrase"
           /\ UNCHANGED <<hop, attended, conns, agentConn, late, keyVars>>
        \/ /\ ~taken /\ refused < MaxTries
           /\ queue' = Tail(queue) /\ refused' = refused + 1
           /\ UNCHANGED <<stage, hop, attended, conns, agentConn, late, files, held, blobs, loaded>>
        \/ ~taken /\ refused = MaxTries /\ Fail /\ UNCHANGED <<hop, attended>>
  /\ UNCHANGED <<flags, ctx, screen, hostVars>>

Exhausted ==
  /\ stage = "offering" /\ queue = <<>>
  /\ NextMethod
  /\ UNCHANGED <<personVars, hop, hostVars>>

Sign ==
  /\ stage \in {"signing", "passphrase"}
  /\ \/ Authenticated
     \/ NextMethod /\ UNCHANGED <<hop, attended>>
  /\ UNCHANGED <<flags, ctx, screen, hostVars>>

\* Keyboard-interactive, then a password: once each, and nothing after them.
Password ==
  /\ stage = "password"
  /\ \/ Authenticated
     \/ Fail /\ UNCHANGED <<hop, attended>>
  /\ UNCHANGED <<flags, ctx, screen, hostVars>>

\* Client.Close, by whoever dialled, however the connection ended.
Close ==
  /\ stage = "connected" /\ stage' = "closing"
  /\ UNCHANGED <<personVars, hop, conns, agentConn, late, hostVars, keyVars>>
-----------------------------------------------------------------------------
(***************************************************************************)
(* Around it: the caller gives up; the interface takes the screen, when it *)
(* likes, beside the session it starts (tui.Run); a host is rebuilt; the   *)
(* user removes its old lines with ssh-keygen -R.                          *)
(***************************************************************************)
CallerQuits == ctx = "live" /\ ctx' = "done" /\ UNCHANGED <<flags, attended, screen>>
TakeScreen == flags.interface /\ ~screen /\ screen' = TRUE /\ UNCHANGED <<flags, ctx, attended>>
Rebuild(h) == age[h] < MaxAge /\ age' = [age EXCEPT ![h] = @ + 1] /\ UNCHANGED known
RemoveLines(h) ==
  /\ \E r \in known : r.host = h /\ r.age # age[h]
  /\ known' = {r \in known : r.host # h} /\ UNCHANGED age

Outside ==
  /\ \/ (CallerQuits \/ TakeScreen) /\ UNCHANGED <<known, age>>
     \/ (\E h \in Host : Rebuild(h) \/ RemoveLines(h)) /\ UNCHANGED personVars
  /\ UNCHANGED <<stage, hop, conns, agentConn, late, seen, added, shown, keyVars>>

DialNext ==
  \/ Dial \/ ReadKnownHosts \/ Connect \/ Unreachable
  \/ HostKey \/ Confirm
  \/ ListAgent \/ LoadKey \/ Unlock \/ OrderKeys
  \/ Offer \/ Exhausted \/ Sign \/ Password
  \/ DeadlinePasses \/ TimesOut \/ HangsUp
  \/ Unwind \/ WaitEnds \/ Close \/ Outside

(***************************************************************************)
(* The program's own steps are taken, its timers fire, and an agent lists  *)
(* its keys. A host may be silent for ever and a person never answer.      *)
(***************************************************************************)
Own == ReadKnownHosts \/ Unreachable \/ ListAgent \/ LoadKey \/ OrderKeys \/ Unwind \/ WaitEnds
DialSpec ==
  /\ DialInit /\ [][DialNext]_dialVars
  /\ WF_dialVars(Own) /\ WF_dialVars(DeadlinePasses) /\ WF_dialVars(TimesOut)
-----------------------------------------------------------------------------
(***************************************************************************)
(* What a dial holds on to, at any moment it can be left at: the hops up   *)
(* to the one in hand, nearest first, and the agent for as long as that    *)
(* one's handshake lasts. A dial that failed, or is between two attempts,  *)
(* holds nothing.                                                          *)
(***************************************************************************)
NothingLeaks ==
  /\ conns = 1 .. Cardinality(conns)
  /\ agentConn => Shaking
  /\ stage \in {"idle", "reading", "waiting", "returned"} => conns = {}
  /\ stage = "connecting" => conns = 1 .. hop - 1
  /\ Shaking => conns = 1 .. hop
  /\ stage = "connected" => conns = 1 .. Len(Chain)

KeyChecked(i) == i \in conns /\ (i < hop \/ stage \notin {"handshake", "confirm", "connecting"})

(***************************************************************************)
(* Every hop that is talked through or signed in to presented a key that   *)
(* known_hosts held when the attempt began, or holds now because it was    *)
(* accepted; and never one that differs from a recorded key of its type.   *)
(* Not where checking was turned off.                                      *)
(***************************************************************************)
HostsAreVouchedFor ==
  HostKeyMode # "no" =>
    \A i \in 1 .. Len(Chain) : KeyChecked(i) =>
      \/ shown[i] \in seen
      \/ /\ shown[i] \in added
         /\ \A r \in seen : r.host = Chain[i] => r.type # shown[i].type

\* The two together with the types, at every step of a dial.
DialOK == DialTypeOK /\ NothingLeaks /\ HostsAreVouchedFor

Questions == {"confirm", "unlock", "passphrase", "password"}
FileKeys == IF Named THEN Dest.keys ELSE DefaultKeys

(***************************************************************************)
(* A person is asked only while there is one, and only what is worth it:   *)
(* a passphrase, for a key the host said it would take or one that cannot  *)
(* be offered locked; a password, when a signature failed or every key     *)
(* that needs no passphrase was offered, or is said to be in the agent.    *)
(***************************************************************************)
Due(question) ==
  CASE question = "passphrase" -> Head(queue).key \in Accepts[Here]
    [] question = "unlock" -> Head(files) \notin Halved
    [] question = "password" ->
         \/ stage \in {"signing", "passphrase"}
         \/ \A k \in Range(FileKeys) \ Encrypted :
              k \in blobs \/ \E s \in Range(held \o loaded) : s.key = k
    [] OTHER -> HostKeyMode = "ask"
QuestionsAreDue ==
  [][stage' # stage /\ stage' \in Questions => attended /\ Due(stage')]_dialVars

Over == stage \in {"idle", "connected", "closing", "returned"}
Owed == stage \in Questions \cup {"signing"}

(***************************************************************************)
(* Without a jump host, a dial that will not be tried again comes to an    *)
(* end however silent the host is, or waits for a person or the agent.     *)
(***************************************************************************)
DialSettles == (~Over /\ GivesUp /\ Len(Chain) = 1) ~> (Over \/ Owed)

(***************************************************************************)
(* The same of every chain, as DefaultConnectTimeout says ("bounds the TCP *)
(* connect and SSH handshake for one hop").                                *)
(***************************************************************************)
HopsSettle == (~Over /\ GivesUp) ~> (Over \/ Owed)

(***************************************************************************)
(* Questions are asked before an interface has the screen, as up.go and    *)
(* connector.go say ("before the TUI takes the screen").                   *)
(***************************************************************************)
AsksOnOurTerminal == [][stage' # stage /\ stage' \in Questions => ~screen]_dialVars
=============================================================================
