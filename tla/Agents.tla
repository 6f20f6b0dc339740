------------------------------- MODULE Agents -------------------------------
(***************************************************************************)
(* internal/sshagent and internal/gpgagent: the two agents of the desk, on *)
(* sockets of their own on the box. Each service has an accept loop with a *)
(* goroutine and a connection to the local agent for every client.         *)
(*                                                                         *)
(* An ssh client says where it signs in to (session-bind, with a proof),   *)
(* lists and signs, and every signature is put to the policy and then to   *)
(* the person. A gpg client is joined to gpg-agent, which asks for itself. *)
(* A request is handled to its end before the next one of the same         *)
(* connection is read, so a client that hangs up meanwhile is not noticed. *)
(***************************************************************************)
EXTENDS Integers, FiniteSets

CONSTANTS
  Conn,          \* places for forwarded connections
  Key,           \* keys the ssh agent holds
  HostKey,       \* host keys a client may name
  KnownAs,       \* KnownAs[h]: what known_hosts calls h, or h itself
  MaxLinks,      \* SSH connections to the box
  MaxCalls       \* requests clients make, and failures of the agents

Svc == {"ssh-agent", "gpg-agent"}
Unknown == "(destination unknown)"
Nobody == "nobody"
Dest == HostKey \cup {Unknown}

ASSUME AgentsAssumption ==
  /\ Unknown \notin HostKey /\ Nobody \notin Conn
  /\ DOMAIN KnownAs = HostKey /\ Key # {}
  /\ MaxLinks \in Nat /\ MaxCalls \in Nat

VARIABLES
  link,          \* the SSH connection: its number, whether it carries
  ctx,           \* whether its context lives
  serving,       \* serving[s]: what ServeSocket of s does
  listening,     \* the services whose listener is open
  agentUp,       \* the agents of the desk that run
  extraSocket,   \* whether gpgconf has been asked for the socket
  prepared,      \* whether the remote GNUPGHOME was made
  phase,         \* phase[c]: what serveConn of c does
  svc,           \* svc[c]: whose connection c is
  remote,        \* remote[c]: the client's end
  local,         \* local[c]: the connection to the agent
  copying,       \* copying[c]: the directions pipe still copies in
  dest,          \* dest[c]: where gate says c signs in to
  proven,        \* history, proven[c]: what c last proved
  key,           \* key[c]: the key c asks a signature of
  question,      \* whose question the person sees
  said,          \* said[c]: what the person answered to c's question
  granted,       \* subjects approved for the session
  yes,           \* history, yes[c]: what a yes to c's request is a yes to
  lasting,       \* history: what people said yes to for the session
  calls          \* requests and failures so far

linkVars == <<link, ctx, serving, listening>>
deskVars == <<agentUp, extraSocket, prepared>>
connVars == <<phase, svc, remote, local, copying, dest, proven, key>>
askVars == <<question, said, granted, yes, lasting>>
agentsVars == <<linkVars, deskVars, connVars, askVars, calls>>

\* destination.String: nothing unproven gets a name.
NameOf(d) == IF d = Unknown THEN Unknown ELSE KnownAs[d]
\* Mutation: a key is the same subject wherever it signs in.
SubjectIsKey(k, d) == <<k, Unknown>>

SubjectFor(k, d) == <<k, NameOf(d)>>
SubjectOf(c) == SubjectFor(key[c], dest[c])
\* A signature as a person understands it: which key, to get in where.
Use(k, d) == [key |-> k, into |-> NameOf(d)]
Open(c) == phase[c] # "free"
Own(s) == {c \in Conn : svc[c] = s /\ Open(c)}
Count == calls < MaxCalls /\ calls' = calls + 1

AgentsInit ==
  /\ link = [n |-> 0, up |-> FALSE] /\ ctx = FALSE
  /\ serving = [s \in Svc |-> "off"] /\ listening = {}
  /\ agentUp = Svc /\ extraSocket = FALSE /\ prepared = FALSE
  /\ phase = [c \in Conn |-> "free"] /\ svc = [c \in Conn |-> "ssh-agent"]
  /\ remote = [c \in Conn |-> "closed"] /\ local = [c \in Conn |-> "closed"]
  /\ copying = [c \in Conn |-> {}]
  /\ dest = [c \in Conn |-> Unknown] /\ proven = [c \in Conn |-> Unknown]
  /\ key \in [Conn -> {CHOOSE k \in Key : TRUE}]
  /\ question = Nobody /\ said = [c \in Conn |-> "nothing"] /\ granted = {}
  /\ yes = [c \in Conn |-> {}] /\ lasting = {}
  /\ calls = 0

-----------------------------------------------------------------------------
(***************************************************************************)
(* A link: both services are probed, attached and served.                  *)
(***************************************************************************)
Connect ==
  /\ ~ctx /\ ~link.up /\ link.n < MaxLinks /\ \A s \in Svc : serving[s] = "off"
  /\ link' = [n |-> link.n + 1, up |-> TRUE] /\ ctx' = TRUE
  /\ serving' = [s \in Svc |-> "probing"]
  /\ UNCHANGED <<listening, deskVars, connVars, askVars, calls>>

\* Probe: the agent has to answer; gpgconf is asked once in a run.
ProbeFails(s) ==
  /\ serving[s] = "probing" /\ (s \notin agentUp \/ ~ctx)
  /\ serving' = [serving EXCEPT ![s] = "off"]
  /\ UNCHANGED <<link, ctx, listening, deskVars, connVars, askVars, calls>>

\* Attach: a GNUPGHOME is prepared once in a run, public keys or none.
Attach(s) ==
  /\ serving[s] = "probing" /\ s \in agentUp /\ ctx /\ link.up
  /\ extraSocket' = (extraSocket \/ s = "gpg-agent")
  /\ prepared' = (prepared \/ s = "gpg-agent")
  /\ serving' = [serving EXCEPT ![s] = "accepting"]
  /\ listening' = listening \cup {s}
  /\ UNCHANGED <<link, ctx, agentUp, connVars, askVars, calls>>

AttachFails ==
  /\ serving["gpg-agent"] = "probing" /\ "gpg-agent" \in agentUp /\ ~prepared
  /\ Count
  /\ extraSocket' = TRUE
  /\ serving' = [serving EXCEPT !["gpg-agent"] = "off"]
  /\ UNCHANGED <<link, ctx, listening, agentUp, prepared, connVars, askVars>>

(***************************************************************************)
(* The link goes: channels close and Accept fails at once, the session     *)
(* ends the context when it notices. A quit ends the context first.        *)
(***************************************************************************)
Drop ==
  /\ link.up
  /\ link' = [link EXCEPT !.up = FALSE]
  /\ remote' = [c \in Conn |-> "closed"]
  /\ serving' = [s \in Svc |-> IF serving[s] = "accepting" THEN "waiting" ELSE serving[s]]
  /\ UNCHANGED <<ctx, listening, deskVars, phase, svc, local, copying, dest, proven, key,
                 askVars, calls>>

Cancel ==
  /\ ctx /\ ctx' = FALSE
  /\ UNCHANGED <<link, serving, listening, deskVars, connVars, askVars, calls>>

\* context.AfterFunc of ServeSocket, and the Accept it ends.
CloseListener(s) ==
  /\ ~ctx /\ s \in listening
  /\ listening' = listening \ {s}
  /\ serving' = [serving EXCEPT ![s] = IF @ = "accepting" THEN "waiting" ELSE @]
  /\ UNCHANGED <<link, ctx, deskVars, connVars, askVars, calls>>

\* Mutation: the connections are not waited for.
ReturnsAtOnce(s) ==
  /\ serving[s] = "waiting"
  /\ serving' = [serving EXCEPT ![s] = "returned"]
  /\ UNCHANGED <<link, ctx, listening, deskVars, connVars, askVars, calls>>

\* connections.Wait
ServeReturns(s) ==
  /\ serving[s] = "waiting" /\ Own(s) = {}
  /\ serving' = [serving EXCEPT ![s] = "returned"]
  /\ UNCHANGED <<link, ctx, listening, deskVars, connVars, askVars, calls>>

\* session: the link is given up once every service has returned.
Serving == \E s \in Svc : serving[s] \in {"probing", "accepting", "waiting"}
LinkEnds ==
  /\ ~ctx /\ ~Serving /\ \E s \in Svc : serving[s] = "returned"
  /\ serving' = [s \in Svc |-> "off"] /\ listening' = {}
  /\ link' = [link EXCEPT !.up = FALSE]
  /\ UNCHANGED <<ctx, deskVars, connVars, askVars, calls>>

LinkFailed ==
  /\ link.up /\ ~ctx /\ \A s \in Svc : serving[s] = "off"
  /\ link' = [link EXCEPT !.up = FALSE]
  /\ UNCHANGED <<ctx, serving, listening, deskVars, connVars, askVars, calls>>

-----------------------------------------------------------------------------
(* One forwarded connection. *)
Accept(c, s) ==
  /\ phase[c] = "free" /\ serving[s] = "accepting" /\ link.up /\ s \in listening
  /\ Count
  /\ phase' = [phase EXCEPT ![c] = "accepted"] /\ svc' = [svc EXCEPT ![c] = s]
  /\ remote' = [remote EXCEPT ![c] = "open"]
  /\ UNCHANGED <<linkVars, deskVars, local, copying, dest, proven, key, askVars>>

Gone(c) ==
  /\ phase' = [phase EXCEPT ![c] = "free"] /\ svc' = [svc EXCEPT ![c] = "ssh-agent"]
  /\ dest' = [dest EXCEPT ![c] = Unknown] /\ proven' = [proven EXCEPT ![c] = Unknown]
  /\ remote' = [remote EXCEPT ![c] = "closed"] /\ local' = [local EXCEPT ![c] = "closed"]
  /\ copying' = [copying EXCEPT ![c] = {}]
  /\ UNCHANGED <<linkVars, deskVars, key, askVars, calls>>

DialLocal(c) ==
  /\ phase[c] = "accepted" /\ ctx /\ svc[c] \in agentUp
  /\ local' = [local EXCEPT ![c] = "open"]
  /\ phase' = [phase EXCEPT ![c] = IF svc[c] = "ssh-agent" THEN "reading" ELSE "piping"]
  /\ copying' = [copying EXCEPT ![c] = IF svc[c] = "gpg-agent" THEN {"up", "down"} ELSE {}]
  /\ UNCHANGED <<linkVars, deskVars, svc, remote, dest, proven, key, askVars, calls>>
DialFails(c) == phase[c] = "accepted" /\ (~ctx \/ svc[c] \notin agentUp) /\ Gone(c)

\* Mutation: only the client's end is closed, and the agent may never answer.
ClosesRemote(c) ==
  /\ ~ctx /\ phase[c] \notin {"free", "accepted"} /\ remote[c] # "closed"
  /\ remote' = [remote EXCEPT ![c] = "closed"]
  /\ UNCHANGED <<linkVars, deskVars, phase, svc, local, copying, dest, proven, key, askVars, calls>>

\* context.AfterFunc of serveConn.
ClosesBoth(c) ==
  /\ ~ctx /\ phase[c] \notin {"free", "accepted"}
  /\ remote[c] # "closed" \/ local[c] # "closed"
  /\ remote' = [remote EXCEPT ![c] = "closed"] /\ local' = [local EXCEPT ![c] = "closed"]
  /\ UNCHANGED <<linkVars, deskVars, phase, svc, copying, dest, proven, key, askVars, calls>>

HangUp(c) ==
  /\ Open(c) /\ remote[c] # "closed"
  /\ remote' = [remote EXCEPT ![c] = "closed"]
  /\ UNCHANGED <<linkVars, deskVars, phase, svc, local, copying, dest, proven, key, askVars, calls>>

\* ServeAgent's next read.
ReadsEOF(c) == phase[c] = "reading" /\ remote[c] = "closed" /\ Gone(c)

Reads(c) == phase[c] = "reading" /\ remote[c] = "open" /\ Count
Goes(c, next) ==
  /\ phase' = [phase EXCEPT ![c] = next]
  /\ UNCHANGED <<linkVars, deskVars, svc, remote, local, copying>>

(***************************************************************************)
(* Extension: a bind whose signature was not made by the host key it names *)
(* leaves the connection with no destination.                              *)
(***************************************************************************)
DestBound(c, h, genuine) == IF genuine THEN h ELSE Unknown

SessionBind(c, h, genuine) ==
  /\ Reads(c) /\ Goes(c, "reading")
  /\ dest' = [dest EXCEPT ![c] = DestBound(c, h, genuine)]
  /\ proven' = [proven EXCEPT ![c] = IF genuine THEN h ELSE Unknown]
  /\ UNCHANGED <<key, askVars>>

List(c) == Reads(c) /\ Goes(c, "listing") /\ UNCHANGED <<dest, proven, key, askVars>>

SignWithFlags(c, k) ==
  /\ Reads(c) /\ Goes(c, IF SubjectFor(k, dest[c]) \in granted THEN "signing" ELSE "queued")
  /\ key' = [key EXCEPT ![c] = k]
  /\ UNCHANGED <<dest, proven, askVars>>

(***************************************************************************)
(* authz.Gate.Authorize: one question at a time, and the next one may be   *)
(* on screen before this one's answer is acted on. An answer the deadline  *)
(* or the end of the context has overtaken is a no. Broker.tla and         *)
(* Policy.tla have the detail.                                             *)
(***************************************************************************)
Ask(c) ==
  /\ phase[c] = "queued" /\ question = Nobody /\ ctx
  /\ Goes(c, "asking") /\ question' = c
  /\ UNCHANGED <<dest, proven, key, said, granted, yes, lasting, calls>>

Answer(c, choice) ==
  /\ phase[c] = "asking" /\ question' = Nobody
  /\ Goes(c, "answered")
  /\ said' = [said EXCEPT ![c] = choice]
  /\ yes' = [yes EXCEPT ![c] = IF choice = "deny" THEN {} ELSE {Use(key[c], proven[c])}]
  /\ UNCHANGED <<dest, proven, key, granted, lasting, calls>>

Decided(c) ==
  /\ said' = [said EXCEPT ![c] = "nothing"] /\ yes' = [yes EXCEPT ![c] = {}]
  /\ UNCHANGED <<dest, proven, key, calls>>

Recorded(c) ==
  /\ phase[c] = "answered" /\ ctx
  /\ Goes(c, IF said[c] = "deny" THEN "reading" ELSE "signing")
  /\ granted' = IF said[c] = "session" THEN granted \cup {SubjectOf(c)} ELSE granted
  /\ lasting' = IF said[c] = "session" THEN lasting \cup yes[c] ELSE lasting
  /\ Decided(c) /\ UNCHANGED question

\* PromptTimeout, or the end of the context that was passed on.
Refused(c) ==
  /\ phase[c] \in {"queued", "asking", "answered"}
  /\ Goes(c, "reading")
  /\ question' = IF question = c THEN Nobody ELSE question
  /\ Decided(c) /\ UNCHANGED <<granted, lasting>>
TimesOut(c) == ctx /\ Refused(c)
Withdrawn(c) == ~ctx /\ Refused(c)

ForgetConn ==
  /\ granted # {} /\ granted' = {} /\ lasting' = {}
  /\ UNCHANGED <<linkVars, deskVars, connVars, question, said, yes, calls>>

Upstream(c) == phase[c] \in {"listing", "signing"}
\* Whether the desk's agent takes c's request now: each has its own connection.
\* Mutation: one connection, on which a signature has to be waited for.
TakesOneByOne(c) == \A d \in Conn \ {c} : phase[d] \notin {"signing", "asking"}

TakesEach(c) == TRUE

AgentAnswers(c) ==
  /\ Upstream(c) /\ local[c] = "open" /\ TakesEach(c)
  /\ Goes(c, "reading") /\ UNCHANGED <<dest, proven, key, askVars, calls>>
AgentFails(c) ==
  /\ Upstream(c) /\ local[c] # "open"
  /\ Goes(c, "reading") /\ UNCHANGED <<dest, proven, key, askVars, calls>>

(***************************************************************************)
(* pipe: either direction ends when its source is closed at the other end, *)
(* or a write to where it goes fails, and is passed on as a half-close; a  *)
(* half-close ends neither. The connection ends when both have.            *)
(***************************************************************************)
Ends(c, way) ==
  /\ phase[c] = "piping" /\ way \in copying[c]
  /\ copying' = [copying EXCEPT ![c] = @ \ {way}]
  /\ local' = [local EXCEPT ![c] = IF way = "up" /\ @ = "open" THEN "told" ELSE @]
  /\ remote' = [remote EXCEPT ![c] = IF way = "down" /\ @ = "open" THEN "told" ELSE @]
  /\ UNCHANGED <<linkVars, deskVars, phase, svc, dest, proven, key, askVars, calls>>
CopyEnds(c, way) == (IF way = "up" THEN remote[c] ELSE local[c]) = "closed" /\ Ends(c, way)
WriteFails(c, way) == (IF way = "up" THEN local[c] ELSE remote[c]) = "closed" /\ Ends(c, way)
PipeEnds(c) == phase[c] = "piping" /\ copying[c] = {} /\ Gone(c)

\* gpg-agent ends a conversation, having been told that it is over or not.
AgentCloses(c) ==
  /\ phase[c] = "piping" /\ local[c] # "closed"
  /\ local' = [local EXCEPT ![c] = "closed"]
  /\ UNCHANGED <<linkVars, deskVars, phase, svc, remote, copying, dest, proven, key>>
  /\ UNCHANGED <<askVars, calls>>

\* An agent of the desk goes away, with its connections, or comes back.
AgentDies(s) ==
  /\ s \in agentUp /\ Count
  /\ agentUp' = agentUp \ {s}
  /\ local' = [c \in Conn |-> IF svc[c] = s THEN "closed" ELSE local[c]]
  /\ UNCHANGED <<linkVars, extraSocket, prepared, phase, svc, remote, copying, dest, proven, key,
                 askVars>>
AgentStarts(s) ==
  /\ s \notin agentUp /\ agentUp' = agentUp \cup {s}
  /\ UNCHANGED <<linkVars, extraSocket, prepared, connVars, askVars, calls>>

LinkStep ==
  \/ Connect \/ AttachFails \/ Drop \/ Cancel \/ LinkEnds \/ LinkFailed
  \/ \E s \in Svc : ProbeFails(s) \/ Attach(s) \/ CloseListener(s) \/ ServeReturns(s)
OwnStep(c) ==
  \/ DialLocal(c) \/ DialFails(c) \/ ClosesBoth(c) \/ ReadsEOF(c) \/ Ask(c) \/ Recorded(c)
  \/ Withdrawn(c) \/ AgentFails(c) \/ CopyEnds(c, "up") \/ CopyEnds(c, "down") \/ PipeEnds(c)
ClientStep(c) ==
  \/ \E s \in Svc : Accept(c, s)
  \/ HangUp(c) \/ List(c) \/ WriteFails(c, "up")
  \/ \E h \in HostKey, genuine \in BOOLEAN : SessionBind(c, h, genuine)
  \/ \E k \in Key : SignWithFlags(c, k)
PersonStep(c) == TimesOut(c) \/ \E choice \in {"once", "session", "deny"} : Answer(c, choice)
DeskStep == ForgetConn \/ \E s \in Svc : AgentDies(s) \/ AgentStarts(s)

AgentsNext ==
  \/ LinkStep \/ DeskStep
  \/ \E c \in Conn : \/ OwnStep(c) \/ ClientStep(c) \/ PersonStep(c)
                     \/ AgentAnswers(c) \/ AgentCloses(c) \/ WriteFails(c, "down")

\* devtun's goroutines run, a lost link is noticed, and an agent that runs
\* lists its keys. Nobody has to answer, to touch a token or to hang up.
AgentsFairness ==
  /\ WF_agentsVars(Cancel /\ ~link.up) /\ WF_agentsVars(LinkEnds)
  /\ \A s \in Svc :
       WF_agentsVars(ProbeFails(s)) /\ WF_agentsVars(CloseListener(s) \/ ServeReturns(s))
  /\ \A c \in Conn :
       WF_agentsVars(OwnStep(c)) /\ WF_agentsVars(AgentAnswers(c) /\ phase[c] = "listing")

AgentsSpec == AgentsInit /\ [][AgentsNext]_agentsVars /\ AgentsFairness

-----------------------------------------------------------------------------
(* Types. *)
AgentsTypeOK ==
  /\ link \in [n : 0 .. MaxLinks, up : BOOLEAN] /\ ctx \in BOOLEAN
  /\ serving \in [Svc -> {"off", "probing", "accepting", "waiting", "returned"}]
  /\ listening \subseteq Svc /\ agentUp \subseteq Svc
  /\ extraSocket \in BOOLEAN /\ prepared \in BOOLEAN
  /\ phase \in [Conn -> {"free", "accepted", "reading", "listing", "queued", "asking",
                      "answered", "signing", "piping"}]
  /\ said \in [Conn -> {"nothing", "once", "session", "deny"}]
  /\ svc \in [Conn -> Svc] /\ key \in [Conn -> Key]
  /\ remote \in [Conn -> {"open", "told", "closed"}]
  /\ local \in [Conn -> {"open", "told", "closed"}]
  /\ copying \in [Conn -> SUBSET {"up", "down"}]
  /\ dest \in [Conn -> Dest] /\ proven \in [Conn -> Dest]
  /\ question \in Conn \cup {Nobody} /\ calls \in 0 .. MaxCalls
  /\ granted \subseteq {SubjectFor(k, d) : k \in Key, d \in Dest}

(* ServeSocket returns after its connections: with a service's socket gone *)
(* nobody holds a connection to the desk's agent or a question on screen.  *)
NothingHeldAfterwards ==
  /\ \A c \in Conn : local[c] # "closed" \/ question = c =>
       Open(c) /\ serving[svc[c]] \in {"accepting", "waiting"}
  /\ \A c \in Conn : question = c <=> phase[c] = "asking"

(* Extension and subjectFor: what a person is shown, and what a grant is   *)
(* held against, is the destination this very connection proved last.      *)
ShownIsProven ==
  \A c \in Conn : Open(c) /\ svc[c] = "ssh-agent" => dest[c] = proven[c]

AgentsOK == AgentsTypeOK /\ NothingHeldAfterwards /\ ShownIsProven

(* SignWithFlags and subjectFor: whatever connections do at once, and      *)
(* whichever answers, lapses and forgetting fall between, the agent is     *)
(* asked for a signature only where a person said yes to this key for this *)
(* place: to this very request, in time, or for the session and not        *)
(* forgotten since. A no, a deadline and a withdrawal are not a yes.       *)
SignsWhatWasApproved ==
  [][\A c \in Conn : phase[c] # "signing" /\ phase'[c] = "signing" =>
       Use(key'[c], proven[c]) \in yes[c] \cup lasting]_agentsVars

(* serveConn: a link that ends leaves no goroutine of these services, and  *)
(* a list is answered, while others wait for people, tokens and clients.   *)
NobodyIsWaitedFor ==
  /\ ~ctx ~> ~Serving
  /\ \A c \in Conn : phase[c] = "listing" ~> phase[c] # "listing"
=============================================================================
