------------------------------ MODULE Localize -------------------------------
(***************************************************************************)
(* internal/browser: a page the remote asks to have opened. localize waits *)
(* for the tunnel of the URL's port, asks for one if policy skips it, and  *)
(* takes the port's own number back when the tunnel was given another.     *)
(* It looks at the table, forwards and relocates in calls that each take   *)
(* the manager's lock, with anything in between. One page at a time;       *)
(* whether the user lets it open at all is the gate's affair (Broker).     *)
(***************************************************************************)
EXTENDS Tunnels

VARIABLE page    \* the request: where it is, the port, asked, the local port

localizeVars == <<tunnelsVars, page>>

NoPage == [at |-> "none", port |-> 0, asked |-> FALSE, local |-> 0]

LocalizeTypeOK ==
  /\ TunnelsTypeOK
  /\ page \in [at : {"none", "looking", "asking", "found", "open", "refused"},
               port : Port \cup {0}, asked : BOOLEAN, local : Local \cup {0}]

LocalizeInit == TunnelsInit /\ page = NoPage
-----------------------------------------------------------------------------
Request(p) ==
  /\ Disturb
  /\ page.at = "none"
  /\ page' = [NoPage EXCEPT !.at = "looking", !.port = p]
  /\ UNCHANGED <<opt, managerVars, linkVars, box, taken, storeVars, historyVars>>

\* await: one look at the table.
Look ==
  /\ page.at = "looking" /\ hold = "free" /\ Listed(page.port)
  /\ \/ /\ entry[page.port].local # 0
        /\ page' = [page EXCEPT !.at = "found", !.local = entry[page.port].local]
     \/ /\ entry[page.port].local = 0 /\ ~page.asked
        /\ page' = [page EXCEPT !.at = "asking", !.asked = TRUE]
  /\ UNCHANGED tunnelsVars

\* Whether it forwards or is refused, the answer is not looked at.
Ask ==
  /\ page.at = "asking"
  /\ \/ ForwardNow(page.port)
     \/ /\ hold = "free" /\ (~entry[page.port].known \/ entry[page.port].mode = "hidden")
        /\ UNCHANGED tunnelsVars
  /\ page' = [page EXCEPT !.at = "looking"]

\* The deadline passes, or the request is over.
GiveUp ==
  /\ page.at = "looking"
  /\ page' = [page EXCEPT !.at = "refused"]
  /\ UNCHANGED tunnelsVars

OpenAsFound ==
  /\ page.at = "found" /\ page.local = page.port
  /\ page' = [page EXCEPT !.at = "open"]
  /\ UNCHANGED tunnelsVars

\* The number is taken for the port's own whenever there was no error.
Reclaim ==
  /\ page.at = "found" /\ page.local # page.port
  /\ \/ /\ TryLocalPort(page.port, page.port)
        /\ page' = [page EXCEPT !.at = "open",
                                !.local = IF entry'[page.port].err = 0 THEN page.port ELSE @]
     \/ /\ hold = "free" /\ ~entry[page.port].known
        /\ page' = [page EXCEPT !.at = "open"]
        /\ UNCHANGED tunnelsVars

Done ==
  /\ page.at \in {"open", "refused"}
  /\ page' = NoPage
  /\ UNCHANGED tunnelsVars

LocalizeNext ==
  \/ (Work \/ Use \/ World) /\ UNCHANGED page
  \/ Restart /\ page' = NoPage
  \/ \E p \in Port : Request(p)
  \/ Look \/ Ask \/ GiveUp \/ OpenAsFound \/ Reclaim \/ Done

LocalizeFairness ==
  /\ WF_localizeVars(ScanAll /\ UNCHANGED page)
  /\ WF_localizeVars(Sweep /\ UNCHANGED page)
  /\ \A p \in Port : WF_localizeVars(Reconcile(p) /\ UNCHANGED page)

LocalizeSpec == LocalizeInit /\ [][LocalizeNext]_localizeVars /\ LocalizeFairness
-----------------------------------------------------------------------------
(***************************************************************************)
(* What the user hid stays hidden until the user says otherwise: no page,  *)
(* whatever happens between its looks and its calls, no scan and no        *)
(* reconnection takes a row out of mode hidden.                            *)
(***************************************************************************)
OnlyUsersUnhide ==
  [][\A p \in Known :
       entry[p].mode = "hidden" /\ entry'[p].known /\ entry'[p].mode # "hidden" =>
         \E u \in User : job[u] # job'[u] /\ job'[u].port = p]_localizeVars

(***************************************************************************)
(* browser.go of localize: a loopback port with no tunnel is refused       *)
(* rather than pointed at whatever this machine is running there. A page   *)
(* whose tunnel was given another port, and is to be taken to its own      *)
(* number, is not sent to a port another process holds at that moment.     *)
(***************************************************************************)
OpensOurTunnel ==
  [][page.at = "found" /\ page.local # page.port /\ page'.at = "open" =>
       page'.local = page.local \/ page'.local \notin taken]_localizeVars
=============================================================================
