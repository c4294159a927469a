------------------------------- MODULE OAuthFlow -------------------------------
(***************************************************************************)
(* Logging in to a remote server and out again (auth_start, auth_finish    *)
(* and auth_remove of src/src/runtime.rs, with src/src/auth/login.rs and   *)
(* callback.rs), and how a connection to it is opened (connect_one of      *)
(* src/src/upstream/mod.rs, with client.rs and auth/oauth_client.rs).      *)
(*                                                                         *)
(* auth_start leaves a flow behind: a callback server that listens for the *)
(* browser's redirect, and a handle kept for auth_finish, which waits at   *)
(* most five minutes for the redirect, exchanges its code for tokens and   *)
(* connects.  Connecting tries the stored tokens, if the file has any, and *)
(* goes without them if not, or if the server knows nothing of OAuth.      *)
(* Requests overlap as they like.                                          *)
(***************************************************************************)
CONSTANTS Tasks,      \* admin requests
          Requests,   \* what they may be: functions from Tasks to [kind, server]
          Servers,
          None

Kinds == {"start", "finish", "remove", "enable"}

ASSUME AskedTyped ==
  /\ Requests \subseteq [Tasks -> [kind : Kinds, server : Servers]]
  /\ None \notin Tasks

\* What a server may be: it lets nobody in without tokens (guarded), it offers
\* OAuth, or it is configured with `oauth: false` or an Authorization header
\* (direct), and guarded then means that this is not enough.
Natures == [guarded : BOOLEAN, oauth : BOOLEAN, direct : BOOLEAN]

VARIABLES
  request,    \* what each request asks for,
  fixed,      \* the servers configured with a callback port,
  nature,     \* what each server is: these three stay so
  pc,
  pending,    \* Runtime's handle for each server
  holding,    \* the handle each auth_finish took
  listener,   \* each flow's callback server: "none", "open" or "stopping"
  heard,      \* the first redirect each flow received: "none", "code" or "error"
  tokens,     \* mcp-auth.json: the tokens stored for each server
  connected,  \* the tokens each server's connection uses, "plain", or None
  creds,      \* the tokens each request loaded to connect with
  outcome,    \* the ConnectResult of each request that has one
  faulty,     \* history: requests that failed to reach the server this time
  revoked,    \* history: flows a removal found pending
  asked,      \* history: the flows each removal is asked to cancel
  overlap     \* history: two requests for one server ran at once

config == <<request, fixed, nature>>
flow == <<listener, heard>>
stored == <<tokens, connected>>
attempt == <<creds, outcome, faulty>>
history == <<revoked, asked, overlap>>
vars == <<config, pc, pending, holding, flow, stored, attempt, history>>

Kind(t)   == request[t].kind
Server(t) == request[t].server

\* A flow is named after the auth_start that began it.
Flows == {t \in Tasks : Kind(t) = "start"}

\* Tokens are named after the flow they come from, or are of an earlier gateway.
Tokens == Flows \cup {"earlier"}

Stages == {"idle", "bound", "authorized", "waiting", "exchanging",
           "probing", "loading", "connecting", "plain", "asking", "recording",
           "removing", "disconnecting", "done", "failed"}

Statuses == {"authenticated", "needs_auth", "not_oauth", "not_applicable"}
NoOutcome == [via |-> None, status |-> "not_applicable"]

\* What the handles, the callback servers and the credentials may hold.
TypeOK ==
  /\ request \in Requests
  /\ fixed \in SUBSET Servers
  /\ nature \in [Servers -> Natures]
  /\ pc \in [Tasks -> Stages]
  /\ pending \in [Servers -> Flows \cup {None}]
  /\ holding \in [Tasks -> Flows \cup {None}]
  /\ listener \in [Flows -> {"none", "open", "stopping"}]
  /\ heard \in [Flows -> {"none", "code", "error"}]
  /\ tokens \in [Servers -> Tokens \cup {None}]
  /\ connected \in [Servers -> Tokens \cup {None, "plain"}]
  /\ creds \in [Tasks -> Tokens \cup {None}]
  /\ outcome \in [Tasks -> [via : Tokens \cup {None, "plain"}, status : Statuses]]
  /\ faulty \in SUBSET Tasks
  /\ revoked \in SUBSET Flows
  /\ asked \in [Tasks -> SUBSET Flows]
  /\ overlap \in BOOLEAN

Init ==
  /\ request \in Requests
  /\ fixed \in SUBSET Servers
  /\ nature \in [Servers -> {n \in Natures : n.direct => ~ n.oauth}]
  /\ pc = [t \in Tasks |-> "idle"]
  /\ pending = [s \in Servers |-> None]
  /\ holding = [t \in Tasks |-> None]
  /\ listener = [f \in Flows |-> "none"]
  /\ heard = [f \in Flows |-> "none"]
  /\ tokens \in [Servers -> {None, "earlier"}]
  /\ connected = [s \in Servers |-> None]
  /\ creds = [t \in Tasks |-> None]
  /\ outcome = [t \in Tasks |-> NoOutcome]
  /\ faulty = {}
  /\ revoked = {}
  /\ asked = [t \in Tasks |-> {}]
  /\ overlap = FALSE

Ended(t) == pc[t] \in {"done", "failed"}
Active(t) == pc[t] # "idle" /\ ~ Ended(t)

Goto(t, stage) == pc' = [pc EXCEPT ![t] = stage]

\* A request for a server begins while another one for it is under way, or not.
Arrive(t) ==
  /\ pc[t] = "idle"
  /\ overlap' = (overlap \/ \E u \in Tasks : Active(u) /\ Server(u) = Server(t))

\* The callback servers of these flows are told to stop.
Stopped(fs) == [f \in Flows |-> IF f \in fs /\ listener[f] = "open" THEN "stopping" ELSE listener[f]]

\* What is behind a handle or a slot that may be empty.
Some(x) == {x} \ {None}

-----------------------------------------------------------------------------
(* auth_start                                                              *)

PortFree(t) ==
  Server(t) \notin fixed
    \/ \A f \in Flows : Server(f) = Server(t) => listener[f] = "none"

\* The callback port is bound, unless it is taken or the setup fails.
Bind(t) ==
  /\ Kind(t) = "start"
  /\ Arrive(t)
  /\ \/ PortFree(t) /\ Goto(t, "bound") /\ listener' = [listener EXCEPT ![t] = "open"]
     \/ Goto(t, "failed") /\ UNCHANGED listener
  /\ UNCHANGED <<config, pending, holding, heard, stored, attempt, revoked, asked>>

\* Discovery and registration succeed and the callback server runs, or the
\* listener is dropped, as it is if the server offers no OAuth.
Authorize(t) ==
  /\ pc[t] = "bound"
  /\ \/ nature[Server(t)].oauth /\ Goto(t, "authorized") /\ UNCHANGED listener
     \/ Goto(t, "failed") /\ listener' = [listener EXCEPT ![t] = "none"]
  /\ UNCHANGED <<config, pending, holding, heard, stored, attempt, history>>

\* The handle is kept; one it replaces is dropped, which stops its server.
Publish(t) ==
  /\ pc[t] = "authorized"
  /\ pending' = [pending EXCEPT ![Server(t)] = t]
  /\ listener' = Stopped(Some(pending[Server(t)]))
  /\ Goto(t, "done")
  /\ UNCHANGED <<config, holding, heard, stored, attempt, history>>

-----------------------------------------------------------------------------
(* The callback server                                                     *)

\* A redirect meant for flow g reaches the server of flow f, which is g's own
\* unless they share a port.  Only the first one counts.
Redirect(f, g) ==
  /\ listener[f] = "open"
  /\ pc[g] = "done" /\ Server(f) = Server(g)
  /\ f = g \/ Server(f) \in fixed
  /\ heard[f] = "none"
  /\ heard' = [heard EXCEPT ![f] = IF f = g THEN "code" ELSE "error"]
  /\ UNCHANGED <<config, pc, pending, holding, listener, stored, attempt, history>>

\* The provider or the user refuses.
Refused(f) ==
  /\ listener[f] = "open"
  /\ pc[f] = "done"
  /\ heard[f] = "none"
  /\ heard' = [heard EXCEPT ![f] = "error"]
  /\ UNCHANGED <<config, pc, pending, holding, listener, stored, attempt, history>>

\* The server notices the signal and closes its port.
Close(f) ==
  /\ listener[f] = "stopping"
  /\ listener' = [listener EXCEPT ![f] = "none"]
  /\ UNCHANGED <<config, pc, pending, holding, heard, stored, attempt, history>>

-----------------------------------------------------------------------------
(* auth_finish                                                             *)

\* The handle is taken, if there is one.
Take(t) ==
  /\ Kind(t) = "finish"
  /\ Arrive(t)
  /\ holding' = [holding EXCEPT ![t] = pending[Server(t)]]
  /\ pending' = [pending EXCEPT ![Server(t)] = None]
  /\ Goto(t, IF pending[Server(t)] = None THEN "failed" ELSE "waiting")
  /\ UNCHANGED <<config, flow, stored, attempt, revoked, asked>>

\* The handle is dropped, and the callback server stops.
Drop(t) ==
  /\ holding' = [holding EXCEPT ![t] = None]
  /\ listener' = Stopped(Some(holding[t]))

Hear(t) ==
  /\ pc[t] = "waiting"
  /\ \/ /\ heard[holding[t]] = "code"
        /\ Goto(t, "exchanging")
        /\ UNCHANGED <<holding, listener>>
     \/ /\ heard[holding[t]] = "error"
        /\ Goto(t, "failed")
        /\ Drop(t)
  /\ UNCHANGED <<config, pending, heard, stored, attempt, history>>

\* Mutant: there is no timeout.
NoTimeout(t) == FALSE /\ UNCHANGED vars

\* Five minutes have passed.
Timeout(t) ==
  /\ pc[t] = "waiting"
  /\ heard[holding[t]] = "none"
  /\ Goto(t, "failed")
  /\ Drop(t)
  /\ UNCHANGED <<config, pending, heard, stored, attempt, history>>

\* Mutant: an exchange that fails leaves its callback server running.
ExchangeAndForget(t) ==
  /\ pc[t] = "exchanging"
  /\ holding' = [holding EXCEPT ![t] = None]
  /\ \/ /\ tokens' = [tokens EXCEPT ![Server(t)] = holding[t]]
        /\ listener' = Stopped(Some(holding[t]))
        /\ Goto(t, "probing")
     \/ Goto(t, "failed") /\ UNCHANGED <<tokens, listener>>
  /\ UNCHANGED <<config, pending, heard, connected, attempt, history>>

\* The code is exchanged for tokens, which are saved at once, or refused.
Exchange(t) ==
  /\ pc[t] = "exchanging"
  /\ Drop(t)
  /\ \/ tokens' = [tokens EXCEPT ![Server(t)] = holding[t]] /\ Goto(t, "probing")
     \/ Goto(t, "failed") /\ UNCHANGED tokens
  /\ UNCHANGED <<config, pending, heard, connected, attempt, history>>

-----------------------------------------------------------------------------
(* connect_one: enable, and the end of auth_finish                         *)

Enable(t) ==
  /\ Kind(t) = "enable"
  /\ Arrive(t)
  /\ Goto(t, "probing")
  /\ UNCHANGED <<config, pending, holding, flow, stored, attempt, revoked, asked>>

Nature(t) == nature[Server(t)]

\* The rest of the state, which connecting leaves alone.
Elsewhere == <<config, pending, holding, flow, tokens, history>>

\* What came of the attempt.
Ends(t, via, s) ==
  /\ outcome' = [outcome EXCEPT ![t] = [via |-> via, status |-> s]]
  /\ Goto(t, "recording")

\* The server is not reached, or answers with an error of another kind.
Unreached(t) == faulty' = faulty \cup {t}

\* load_entry: whether the file has tokens for the server.  A file that cannot be
\* read has none.
Probe(t) ==
  /\ pc[t] = "probing"
  /\ \/ tokens[Server(t)] # None /\ ~ Nature(t).direct /\ Goto(t, "loading")
     \/ Goto(t, "plain")
  /\ UNCHANGED <<Elsewhere, connected, attempt>>

\* A slip: a server without OAuth is one that failed.
LoadOrFail(t) ==
  /\ pc[t] = "loading"
  /\ creds' = [creds EXCEPT ![t] = tokens[Server(t)]]
  /\ IF tokens[Server(t)] # None /\ Nature(t).oauth
     THEN Goto(t, "connecting") /\ UNCHANGED outcome
     ELSE Ends(t, None, "needs_auth")
  /\ UNCHANGED <<Elsewhere, connected, faulty>>

\* connect_with_stored_tokens reads the file again, with what the server says of
\* OAuth; a server without it is tried without tokens.
Load(t) ==
  /\ pc[t] = "loading"
  /\ creds' = [creds EXCEPT ![t] = tokens[Server(t)]]
  /\ \/ /\ Nature(t).oauth /\ tokens[Server(t)] # None
        /\ Goto(t, "connecting")
        /\ UNCHANGED <<outcome, faulty>>
     \/ /\ Nature(t).oauth /\ tokens[Server(t)] = None
        /\ Ends(t, None, "needs_auth")
        /\ UNCHANGED faulty
     \/ /\ ~ Nature(t).oauth
        /\ Goto(t, "plain")
        /\ UNCHANGED <<outcome, faulty>>
     \/ Unreached(t) /\ (Ends(t, None, "not_applicable") \/ (Goto(t, "plain") /\ UNCHANGED outcome))
  /\ UNCHANGED <<Elsewhere, connected>>

\* The handshake with the tokens; they may have expired.
Connect(t) ==
  /\ pc[t] = "connecting"
  /\ \/ Ends(t, creds[t], "authenticated") /\ UNCHANGED faulty
     \/ Ends(t, None, "needs_auth") /\ UNCHANGED faulty
     \/ Unreached(t) /\ Ends(t, None, "not_applicable")
  /\ UNCHANGED <<Elsewhere, connected, creds>>

\* plain_http_connect.  If it fails, the server is asked for OAuth.
Plain(t) ==
  /\ pc[t] = "plain"
  /\ \/ ~ Nature(t).guarded /\ Ends(t, "plain", "not_applicable") /\ UNCHANGED faulty
     \/ /\ IF Nature(t).guarded THEN UNCHANGED faulty ELSE Unreached(t)
        /\ IF Nature(t).direct THEN Ends(t, None, "not_applicable")
           ELSE Goto(t, "asking") /\ UNCHANGED outcome
  /\ UNCHANGED <<Elsewhere, connected, creds>>

\* check_oauth_support, which takes any failure for a no.
Ask(t) ==
  /\ pc[t] = "asking"
  /\ \/ Ends(t, None, IF Nature(t).oauth THEN "needs_auth" ELSE "not_oauth") /\ UNCHANGED faulty
     \/ Unreached(t) /\ Ends(t, None, "not_oauth")
  /\ UNCHANGED <<Elsewhere, connected, creds>>

\* The connection replaces another one; of a failed attempt only the status is
\* kept.
Record(t) ==
  /\ pc[t] = "recording"
  /\ IF outcome[t].via = None
     THEN Goto(t, "failed") /\ UNCHANGED connected
     ELSE Goto(t, "done") /\ connected' = [connected EXCEPT ![Server(t)] = outcome[t].via]
  /\ creds' = [creds EXCEPT ![t] = None]
  /\ outcome' = [outcome EXCEPT ![t] = NoOutcome]
  /\ faulty' = faulty \ {t}
  /\ UNCHANGED Elsewhere

-----------------------------------------------------------------------------
(* auth_remove                                                             *)

Cancelled(t) ==
  /\ revoked' = revoked \cup Some(pending[Server(t)])
  /\ asked' = [asked EXCEPT ![t] = {f \in Flows : pc[f] = "done" /\ Server(f) = Server(t)}]

\* Mutant: the pending flow's server is stopped but its handle stays.
CancelInPlace(t) ==
  /\ Kind(t) = "remove"
  /\ Arrive(t)
  /\ Cancelled(t)
  /\ listener' = Stopped(Some(pending[Server(t)]))
  /\ Goto(t, "removing")
  /\ UNCHANGED <<config, pending, holding, heard, stored, attempt>>

\* A pending flow is dropped, ...
Cancel(t) ==
  /\ Kind(t) = "remove"
  /\ Arrive(t)
  /\ Cancelled(t)
  /\ pending' = [pending EXCEPT ![Server(t)] = None]
  /\ listener' = Stopped(Some(pending[Server(t)]))
  /\ Goto(t, "removing")
  /\ UNCHANGED <<config, holding, heard, stored, attempt>>

\* ... the tokens are removed, if the file can be written, ...
Remove(t) ==
  /\ pc[t] = "removing"
  /\ \/ tokens' = [tokens EXCEPT ![Server(t)] = None] /\ Goto(t, "disconnecting")
     \/ Goto(t, "failed") /\ UNCHANGED tokens
  /\ UNCHANGED <<config, pending, holding, flow, connected, attempt, history>>

\* ... and the server is disconnected.
Disconnect(t) ==
  /\ pc[t] = "disconnecting"
  /\ connected' = [connected EXCEPT ![Server(t)] = None]
  /\ Goto(t, "done")
  /\ UNCHANGED <<config, pending, holding, flow, tokens, attempt, history>>

\* The client library renews an open connection's tokens, and saves them.
Refresh(s) ==
  /\ connected[s] \in Tokens
  /\ tokens' = [tokens EXCEPT ![s] = connected[s]]
  /\ UNCHANGED <<config, pc, pending, holding, flow, connected, attempt, history>>

-----------------------------------------------------------------------------
Start(t)   == Bind(t) \/ Authorize(t) \/ Publish(t)
Finish(t)  == Take(t) \/ Hear(t) \/ Timeout(t) \/ Exchange(t)
Open(t)    == \/ Enable(t) \/ Probe(t) \/ Load(t) \/ Connect(t) \/ Plain(t) \/ Ask(t)
              \/ Record(t)
LogOut(t)  == Cancel(t) \/ Remove(t) \/ Disconnect(t)
Browser(f) == (\E g \in Flows : Redirect(f, g)) \/ Refused(f) \/ Close(f)

Next ==
  \/ \E t \in Tasks : Start(t) \/ Finish(t) \/ Open(t) \/ LogOut(t)
  \/ \E f \in Flows : Browser(f)
  \/ \E s \in Servers : Refresh(s)

Spec == Init /\ [][Next]_vars

\* The five minutes of a finish pass, and a callback server told to stop gives up
\* its port.  Everything else may take for ever: discovery and registration,
\* the exchange, a connection attempt and the write lock of the connections have no
\* time limit, and no request and no redirect need come.
Fairness ==
  /\ \A t \in Tasks : WF_vars(Hear(t) \/ Timeout(t))
  /\ \A f \in Tasks : WF_vars(f \in Flows /\ Close(f))

FairSpec == Spec /\ Fairness

-----------------------------------------------------------------------------

\* A flow belongs to one place at a time: its auth_start, the pending handles
\* or one auth_finish.  A callback server that listens is in such hands, so
\* that every end of the flow stops it.
Owners(f) ==
  {t \in Tasks : holding[t] = f \/ (t = f /\ pc[t] \in {"bound", "authorized"})}
    \cup {s \in Servers : pending[s] = f}

FlowsHaveOneOwner ==
  \A f \in Flows :
    /\ \A x, y \in Owners(f) : x = y
    /\ listener[f] = "open" => Owners(f) # {}

\* A flow that auth_remove found waiting for its auth_finish never saves tokens.
RevokedFlowsSaveNothing ==
  [][\A t \in Tasks : pc[t] = "exchanging" /\ pc'[t] = "probing" => holding[t] \notin revoked]_vars

\* The verdict on a server that answers fits the server, whatever the token file
\* holds and whoever changes it meanwhile (connect_http, connect_with_stored_tokens):
\* one without OAuth that lets everybody in is connected; one that lets nobody in
\* is connected with tokens or reported as in need of a login, if it offers OAuth,
\* and as without OAuth, if not.  Tokens that fail on a server that would do
\* without them are reported, and of a direct one only that it failed.
VerdictsFitServers ==
  \A t \in Tasks : pc[t] = "recording" /\ t \notin faulty =>
    \/ outcome[t].via \in Tokens /\ Nature(t).oauth
    \/ outcome[t].via = "plain" /\ ~ Nature(t).guarded
    \/ outcome[t].status = "needs_auth" /\ Nature(t).oauth
    \/ outcome[t].status = "not_oauth" /\ Nature(t).guarded /\ ~ Nature(t).oauth
    \/ Nature(t).direct /\ Nature(t).guarded /\ outcome[t].via = None

\* auth_finish waits for the browser for a time only, though it may never come
\* back; and a flow that is nobody's any more, whether it was finished, timed out,
\* replaced or logged out, leaves its callback port free for the next login.
WaitsEnd ==
  /\ \A t \in Tasks : pc[t] = "waiting" ~> pc[t] # "waiting"
  /\ \A f \in Tasks : (f \in Flows /\ Ended(f) /\ Owners(f) = {})
                      ~> (f \in Flows => listener[f] = "none")

-----------------------------------------------------------------------------
(* The invariant behind these.                                             *)

Began(f) == pc[f] \in {"bound", "authorized"}

\* Which kind of request is where.
StagesFitKinds ==
  \A t \in Tasks :
    /\ Began(t) => Kind(t) = "start"
    /\ Kind(t) = "start" => pc[t] \in {"idle", "bound", "authorized", "done", "failed"}
    /\ pc[t] \in {"waiting", "exchanging"} <=> holding[t] # None

\* A handle is in one place, and the flow behind it has been started.
HandlesAreSingle ==
  /\ \A s \in Servers : pending[s] # None => Server(pending[s]) = s /\ pc[pending[s]] = "done"
  /\ \A t \in Tasks : holding[t] # None =>
       /\ pc[holding[t]] = "done"
       /\ \A s \in Servers : pending[s] # holding[t]
       /\ \A u \in Tasks : holding[u] = holding[t] => u = t

\* A callback server that listens is in somebody's hands.
ListenersAreHeld ==
  \A f \in Flows :
    /\ pc[f] = "idle" => listener[f] = "none"
    /\ listener[f] = "open" =>
         Began(f) \/ pending[Server(f)] = f \/ \E t \in Tasks : holding[t] = f

\* A flow that was removed is nobody's any more.
RevokedAreGone ==
  \A f \in revoked :
    /\ pc[f] = "done"
    /\ \A t \in Tasks : holding[t] # f
    /\ \A s \in Servers : pending[s] # f

\* What is known of the server at each step of an attempt.
AttemptsFitServers ==
  \A t \in Tasks :
    /\ pc[t] = "connecting" => Nature(t).oauth /\ creds[t] \in Tokens
    /\ pc[t] = "asking" => Nature(t).guarded \/ t \in faulty

IInv ==
  /\ TypeOK /\ StagesFitKinds /\ HandlesAreSingle /\ ListenersAreHeld /\ RevokedAreGone
  /\ AttemptsFitServers /\ VerdictsFitServers

-----------------------------------------------------------------------------
(* What the comments and the README promise, and the code does not keep.   *)

\* "Cancel any pending flow": no flow begun before auth_remove saves tokens
\* after it has returned.
CancelledFlowsSaveNothing ==
  [][\A t, r \in Tasks : pc[t] = "exchanging" /\ pc'[t] = "probing" /\ pc[r] = "done"
       => holding[t] \notin asked[r]]_vars

\* "remove stored credentials and disconnect": when a logout that overlapped
\* with nothing returns, the credentials are gone.
LogoutRemovesCredentials ==
  [][\A t \in Tasks : pc[t] = "disconnecting" /\ pc'[t] = "done" /\ ~ overlap
       => tokens'[Server(t)] = None]_vars

\* "timeout, and clean shutdown when idle": a callback server stops in the end.
CallbackServersStop == \A f \in Tasks :
  (f \in Flows /\ listener[f] = "open") ~> (f \in Flows => listener[f] = "none")
=============================================================================
