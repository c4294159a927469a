------------------------------ MODULE AdminClients ------------------------------
(* A `codemcp` admin command beside the gateways of Gateway: it reads the      *)
(* directory of sockets, asks each one who is there, picks the gateway that    *)
(* the selector (--instance) names and sends it the command (src/src/admin.rs; *)
(* src/src/cli.rs).  Gateways start, end and crash between any two steps.      *)
(* Some commands scan, select and ask twice: `list`, `tool`, `tools` and `sdk` *)
(* select once for the heading and again for the answer, and `auth` starts a   *)
(* login with one request and finishes it with another.                        *)
EXTENDS Gateway

CONSTANTS
  Selectors,  \* what -i may be: the pids a selector matches (all, without -i)
  MaxAsks     \* bound: commands

VARIABLES
  phase,      \* the command: none, scanning, its request under way, about to scan
              \* again, done
  command,    \* what it still has to do
  want,       \* the pids that match its selector
  todo,       \* the socket files it has yet to probe
  found,      \* the gateways that answered
  choice,     \* the gateway selected, or why there is none
  reply,      \* who answered the request
  steady,     \* history: the gateways reachable ever since this scan began
  asks        \* commands so far

cvars == <<phase, command, want, todo, found, choice, reply, steady, asks>>
vars == <<gvars, cvars>>

\* The gateways whose socket answers `info`: this file's listener accepts.
Answers(s) == {p \in Pids : sock[s] = p /\ adm[p] = "on" /\ Path(p) = s}
Live == UNION {Answers(s) : s \in DOMAIN sock}
Files == {s \in DOMAIN sock : sock[s] # NoPid}

NoChoice == {"none", "nobody", "ambiguous"}

ASSUME ClientAssumption ==
  /\ NoChoice \cap Pids = {}
  /\ Selectors \subseteq SUBSET Pids
  /\ MaxAsks \in Nat

\* "instances" only scans; "headed" and "auth" are the two that select twice, and
\* "request" is any other command, and the second half of these.
Commands == {"instances", "headed", "auth", "request"}

CTypeOK ==
  /\ phase \in {"idle", "scan", "send", "again", "done"} /\ command \in Commands
  /\ want \in SUBSET Pids /\ found \in SUBSET Pids /\ steady \in SUBSET Pids
  /\ todo \in SUBSET DOMAIN sock
  /\ reply \in Pids \cup {NoPid}
  /\ choice \in Pids \cup NoChoice
  /\ asks \in 0 .. MaxAsks
  /\ phase = "send" => choice \in want /\ command # "instances"
  /\ steady \subseteq Live

CInit ==
  /\ Init
  /\ phase = "idle" /\ command = "request" /\ want = {} /\ todo = {} /\ found = {}
  /\ choice = "none" /\ reply = NoPid /\ steady = {} /\ asks = 0

Scan ==
  /\ phase' = "scan"
  /\ todo' = Files /\ found' = {} /\ steady' = Live
  /\ choice' = "none" /\ reply' = NoPid

Ask ==
  /\ phase \in {"idle", "done"} /\ asks < MaxAsks
  /\ asks' = asks + 1
  /\ command' \in Commands /\ want' \in Selectors
  /\ Scan
  /\ UNCHANGED gvars

\* The second half scans anew, with the same selector.
AskAgain ==
  /\ phase = "again"
  /\ command' = "request"
  /\ Scan
  /\ UNCHANGED <<gvars, want, asks>>

\* A slip: the scan ends at the first dead socket.
StopAtDead(s) ==
  /\ phase = "scan" /\ s \in todo
  /\ found' = found \cup Answers(s)
  /\ todo' = IF Answers(s) = {} THEN {} ELSE todo \ {s}
  /\ UNCHANGED <<gvars, phase, command, want, choice, reply, steady, asks>>

\* live_instances: a socket nobody listens on is skipped.
Probe(s) ==
  /\ phase = "scan" /\ s \in todo
  /\ found' = found \cup Answers(s)
  /\ todo' = todo \ {s}
  /\ UNCHANGED <<gvars, phase, command, want, choice, reply, steady, asks>>

\* select_instance: exactly one gateway matches, or the command ends.
Pick(ps) ==
  IF ps = {} THEN "nobody"
  ELSE IF \E p \in ps : ps = {p} THEN CHOOSE p \in ps : TRUE
  ELSE "ambiguous"

Matching == found \cap want

\* A list of instances is complete; any other selection ends the command if it
\* matches none or several.
Select ==
  /\ phase = "scan" /\ todo = {}
  /\ choice' = IF command = "instances" THEN "none" ELSE Pick(Matching)
  /\ phase' = IF choice' \notin Pids THEN "done"
              ELSE IF command = "headed" THEN "again" ELSE "send"
  /\ found' = IF command = "instances" THEN found ELSE {}
  /\ UNCHANGED <<gvars, command, want, todo, reply, steady, asks>>

\* request_on: whoever listens on that file now serves it; nobody is an error, and
\* so may be the answer to auth_start.
Request ==
  /\ phase = "send"
  /\ reply' = IF Answers(Path(choice)) = {} THEN NoPid ELSE sock[Path(choice)]
  /\ \/ phase' = "done"
     \/ command = "auth" /\ reply' # NoPid /\ phase' = "again"
  /\ UNCHANGED <<gvars, command, want, todo, found, choice, steady, asks>>

GatewayStep ==
  /\ Next
  /\ steady' = IF phase = "done" THEN {} ELSE steady \cap Live'
  /\ UNCHANGED <<phase, command, want, todo, found, choice, reply, asks>>

CNext ==
  GatewayStep \/ Ask \/ AskAgain \/ (\E s \in todo : Probe(s)) \/ Select \/ Request

CSpec == CInit /\ [][CNext]_vars

---------------------------------------------------------------------------
\* Properties.

\* A command goes to the one gateway it names, and says "no running gateway" only if
\* there is none: a gateway that matches and was reachable all along is neither
\* passed over, nor hidden by dead sockets, nor left out of a list of instances,
\* whatever starts or crashes during the scan, and whoever answers the request
\* matches.  So both halves of a command go to one gateway while that is reachable:
\* the heading names the one whose list follows, and a login is finished where it
\* was started, or not at all.
NoneIsPassedOver ==
  /\ choice \notin {"none", "ambiguous"} => steady \cap want \subseteq {choice}
  /\ phase = "done" /\ command = "instances" => steady \subseteq found
  /\ reply # NoPid => reply \in want

---------------------------------------------------------------------------
\* The invariant behind it: whoever is reachable all along is still to be probed,
\* or has been found.

ScanIsComplete == phase = "scan" => \A p \in steady : Path(p) \in todo \/ p \in found

CIInv == CTypeOK /\ ScanIsComplete /\ NoneIsPassedOver
=============================================================================
