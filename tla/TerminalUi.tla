------------------------------- MODULE TerminalUi -------------------------------
(***************************************************************************)
(* The terminal UI (src/src/tui/mod.rs) before a gateway that others        *)
(* change too.                                                             *)
(*                                                                         *)
(* One loop draws and then handles one key or one tick.  A refresh is two  *)
(* requests, "list" and "tools"; a toggle is one, and a refresh after it.  *)
(* The loop waits for each answer, so every row it shows is as old as the  *)
(* last refresh, and a toggle asks for the opposite of what a row showed.  *)
(* Keys wait in a channel meanwhile: any key may be next.                  *)
(***************************************************************************)
EXTENDS Integers, Sequences, FiniteSets, SequencesExt

CONSTANTS ServerOrder, \* the servers of mcp.json, in order
          ToolOrder,   \* their tools, sorted by server and name
          Home,        \* the server of each tool
          MaxOthers,   \* changes by others
          MaxFaults    \* requests that fail

ASSUME ToolsHaveServers == Home \in [ToSet(ToolOrder) -> ToSet(ServerOrder)]

VARIABLES
  alive,      \* the gateway runs,
  conn,       \* the servers it is connected to,
  offered,    \* the tools these offer,
  off, kept,  \* the tools switched off, and those with a default in mcp.json
  rows,       \* App.servers: [name, on]
  toolRows,   \* App.tools: [name, on]
  pane, serverSel, toolSel, error, help, \* as in App
  pc,         \* where the loop waits: "idle", "asking", "list", "tools", or "quit"
  ask,        \* the toggle it waits for
  vouched,    \* history: nothing changed since the last refresh began, and no
              \* error was wiped off since
  others, faults

gateway == <<alive, conn, offered, off, kept>>
shown   == <<rows, toolRows>>
cursor  == <<pane, serverSel, toolSel, help>>
bounds  == <<others, faults>>
vars == <<gateway, shown, cursor, error, pc, ask, vouched, bounds>>

Items == ToSet(ServerOrder) \cup ToSet(ToolOrder)
ToolsOf(servers) == {t \in ToSet(ToolOrder) : Home[t] \in servers}
Asks == [item : Items, to : BOOLEAN, keep : BOOLEAN, sure : BOOLEAN]

TypeOK ==
  /\ alive \in BOOLEAN /\ conn \in SUBSET ToSet(ServerOrder)
  /\ offered \in SUBSET ToolsOf(conn)
  /\ off \in SUBSET ToSet(ToolOrder) /\ kept \in SUBSET ToSet(ToolOrder)
  /\ rows \in Seq([name : ToSet(ServerOrder), on : BOOLEAN])
  /\ toolRows \in Seq([name : ToSet(ToolOrder), on : BOOLEAN])
  /\ pane \in {"servers", "tools"} /\ serverSel \in Nat /\ toolSel \in Nat
  /\ error \in BOOLEAN /\ help \in BOOLEAN /\ vouched \in BOOLEAN
  /\ pc \in {"idle", "asking", "list", "tools", "quit"}
  /\ ask \in Asks \cup {<<>>}
  /\ others \in 0 .. MaxOthers /\ faults \in 0 .. MaxFaults

-----------------------------------------------------------------------------
(* The gateway, one request at a time (Runtime has its inside).            *)

ServerOn(s) == s \in conn
ToolOn(t)   == t \notin off
IsTool(item) == item \in ToSet(ToolOrder)
ServerOf(item) == IF IsTool(item) THEN Home[item] ELSE item
ItemOn(item) == IF IsTool(item) THEN ToolOn(item) ELSE ServerOn(item)

Rows(names) == [i \in DOMAIN names |-> [name |-> names[i], on |-> ItemOn(names[i])]]

\* "list": every configured server.  "tools": what is offered, and what has a
\* default in mcp.json.
ServerRows == Rows(ServerOrder)
InOrder(tools) == SelectSeq(ToolOrder, LAMBDA t : t \in tools)
ToolRows == Rows(InOrder(offered \cup kept))

\* connect_one: a server connected anew offers what it likes.
Connect(s) ==
  /\ conn' = conn \cup {s}
  /\ \E tools \in SUBSET ToolsOf({s}) : offered' = (offered \ ToolsOf({s})) \cup tools

Disconnect(s) == conn' = conn \ {s} /\ offered' = offered \ ToolsOf({s})

\* enable and disable
SwitchServer(s, to) ==
  /\ IF to THEN Connect(s) ELSE Disconnect(s)
  /\ UNCHANGED <<off, kept>>

\* enable_tool, which connects the server if it must, and disable_tool
SwitchTool(t, to, keep) ==
  /\ IF to /\ Home[t] \notin conn THEN Connect(Home[t]) ELSE UNCHANGED <<conn, offered>>
  /\ off' = IF to THEN off \ {t} ELSE off \cup {t}
  /\ kept' = IF keep THEN kept \cup {t} ELSE kept

Switch(item, to, keep) ==
  /\ alive /\ UNCHANGED alive
  /\ IF IsTool(item) THEN SwitchTool(item, to, keep) ELSE SwitchServer(item, to)

\* Somebody else switches something, or the gateway ends.  Its socket carries its
\* process id, so no other gateway takes its place.
Disturb ==
  /\ others < MaxOthers
  /\ others' = others + 1
  /\ vouched' = FALSE
  /\ \/ \E item \in Items, to, keep \in BOOLEAN : Switch(item, to, keep)
     \/ alive /\ alive' = FALSE /\ UNCHANGED <<conn, offered, off, kept>>
  /\ UNCHANGED <<shown, cursor, error, pc, ask, faults>>

-----------------------------------------------------------------------------
(* The loop.                                                               *)

Init ==
  /\ alive = TRUE
  /\ conn \in SUBSET ToSet(ServerOrder) /\ offered = ToolsOf(conn)
  /\ kept \in SUBSET ToSet(ToolOrder) /\ off \in SUBSET kept
  /\ rows = <<>> /\ toolRows = <<>>
  /\ pane = "servers" /\ serverSel = 0 /\ toolSel = 0 /\ help = FALSE
  /\ error = FALSE
  /\ pc = "list" /\ ask = <<>>
  /\ vouched = FALSE
  /\ others = 0 /\ faults = 0

Goto(stage) == pc' = stage

\* selected_server_name: the row at this index, if there is one.
Selected(servers, i) == {servers[k] : k \in {i + 1} \cap DOMAIN servers}

\* tools_for_selected: where the rows of the selected server's tools are, and the
\* n-th of them, if there is one.
ToolsShown(servers, i, tools) ==
  {j \in DOMAIN tools : \E row \in Selected(servers, i) : Home[tools[j].name] = row.name}
Nth(places, n) == {j \in places : Cardinality({k \in places : k < j}) = n}

\* A request fails: always once the gateway has ended.
Fault == IF alive THEN faults < MaxFaults /\ faults' = faults + 1 ELSE UNCHANGED faults
Fails == Fault /\ error' = TRUE

\* refresh, first request: the rows are replaced, or kept and an error shown.
RefreshServers ==
  /\ pc = "list"
  /\ \/ alive /\ rows' = ServerRows /\ UNCHANGED <<error, faults>>
     \/ Fails /\ UNCHANGED rows
  /\ vouched' = TRUE
  /\ Goto("tools")
  /\ UNCHANGED <<gateway, toolRows, cursor, ask, others>>

\* The selections are clamped to what there is now.
Clamp ==
  /\ serverSel' = IF serverSel >= Len(rows) THEN IF rows = <<>> THEN 0 ELSE Len(rows) - 1
                  ELSE serverSel
  /\ toolSel' = IF toolSel >= Cardinality(ToolsShown(rows, serverSel', toolRows')) THEN 0 ELSE toolSel

\* A slip: an answer without tools is no error.
RefreshToolsSilently ==
  /\ pc = "tools"
  /\ \/ alive /\ toolRows' = ToolRows /\ UNCHANGED <<error, faults>>
     \/ Fault /\ UNCHANGED <<toolRows, error>>
  /\ Clamp
  /\ Goto("idle")
  /\ UNCHANGED <<gateway, rows, pane, help, ask, vouched, others>>

\* refresh, second request.
RefreshTools ==
  /\ pc = "tools"
  /\ \/ alive /\ toolRows' = ToolRows /\ UNCHANGED <<error, faults>>
     \/ Fails /\ UNCHANGED toolRows
  /\ Clamp
  /\ Goto("idle")
  /\ UNCHANGED <<gateway, rows, pane, help, ask, vouched, others>>

\* A slip: no refresh behind the help overlay.
TickUnlessHelp ==
  /\ pc = "idle" /\ ~ help
  /\ Goto("list")
  /\ UNCHANGED <<gateway, shown, cursor, error, ask, vouched, bounds>>

\* The ticker, every three seconds, and the keys r and R.
Tick ==
  /\ pc = "idle"
  /\ Goto("list")
  /\ UNCHANGED <<gateway, shown, cursor, error, ask, vouched, bounds>>

\* Keys that only move: ? shows or hides the help, q ends.  Under the help every
\* other key is ignored.
HelpKey ==
  /\ pc = "idle"
  /\ help' = ~ help
  /\ UNCHANGED <<gateway, shown, pane, serverSel, toolSel, error, pc, ask, vouched, bounds>>

QuitKey ==
  /\ pc = "idle"
  /\ Goto("quit")
  /\ UNCHANGED <<gateway, shown, cursor, error, ask, vouched, bounds>>

TabKey ==
  /\ pc = "idle" /\ ~ help
  /\ pane' = IF pane = "servers" THEN "tools" ELSE "servers"
  /\ UNCHANGED <<gateway, shown, serverSel, toolSel, help, error, pc, ask, vouched, bounds>>

Wrap(i, n) == IF n = 0 THEN 0 ELSE i % n

\* move_sel: the selection wraps, and another server starts at its first tool.
MoveKey(delta) ==
  /\ pc = "idle" /\ ~ help
  /\ \/ /\ pane = "servers"
        /\ serverSel' = Wrap(serverSel + delta, Len(rows))
        /\ toolSel' = IF rows = <<>> THEN toolSel ELSE 0
     \/ /\ pane = "tools"
        /\ toolSel' = Wrap(toolSel + delta, Cardinality(ToolsShown(rows, serverSel, toolRows)))
        /\ UNCHANGED serverSel
  /\ UNCHANGED <<gateway, shown, pane, help, error, pc, ask, vouched, bounds>>

\* The row under the cursor, if there is one.
Under ==
  IF pane = "servers" THEN Selected(rows, serverSel)
  ELSE {toolRows[j] : j \in Nth(ToolsShown(rows, serverSel, toolRows), toolSel)}

\* toggle (Space, Enter and D): the error is wiped off before anything else; the
\* request asks for the opposite of what the row shows.
ToggleKey(keep) ==
  /\ pc = "idle" /\ ~ help
  /\ error' = FALSE
  /\ \/ /\ Under = {}
        /\ vouched' = (vouched /\ ~ error)
        /\ UNCHANGED <<pc, ask>>
     \/ /\ \E row \in Under :
             ask' = [item |-> row.name, to |-> ~ row.on, keep |-> keep,
                     sure |-> vouched /\ ~ error]
        /\ Goto("asking")
        /\ UNCHANGED vouched
  /\ UNCHANGED <<gateway, shown, cursor, bounds>>

\* A slip: what is shown is not read again after a toggle.
AnsweredAndShown ==
  /\ Switch(ask.item, ask.to, ask.keep)
  /\ Goto("idle")
  /\ UNCHANGED <<error, faults>>

\* do_action, when the gateway has done it: a refresh follows.
Answered ==
  /\ Switch(ask.item, ask.to, ask.keep)
  /\ Goto("list")
  /\ UNCHANGED <<error, faults>>

\* An error, or no answer: the rows stay, although the change may have been made,
\* with or without its default.
Refused ==
  /\ \/ \E kept1 \in {FALSE, ask.keep} : Switch(ask.item, ask.to, kept1)
     \/ UNCHANGED gateway
  /\ Fails
  /\ Goto("idle")

DoAction ==
  /\ pc = "asking"
  /\ Answered \/ Refused
  /\ ask' = <<>>
  /\ UNCHANGED <<shown, cursor, vouched, others>>

-----------------------------------------------------------------------------
Refresh == RefreshServers \/ RefreshTools
HandleEvent ==
  \/ HelpKey \/ QuitKey \/ TabKey
  \/ \E delta \in {-1, 1} : MoveKey(delta)
  \/ \E keep \in BOOLEAN : ToggleKey(keep)

Next == Refresh \/ Tick \/ HandleEvent \/ DoAction \/ Disturb

\* The ticker fires, and select! does not pass it over for ever; and a request
\* fails once the gateway, and its end of the socket with it, is gone.  While the
\* gateway runs a request has no time limit, and nobody need press a key.
Fairness == WF_vars(Tick) /\ WF_vars(~ alive /\ (Refresh \/ DoAction))

Spec == Init /\ [][Next]_vars /\ Fairness

-----------------------------------------------------------------------------
ScreenIsTrue == rows = ServerRows /\ toolRows = ToolRows

\* A screen without an error is true (refresh, do_action, toggle): unless somebody
\* else changed the gateway since the last refresh began, it runs, and has the
\* servers and tools shown.  The one exception is Space on an empty pane, which
\* wipes an error off and asks for nothing.
CleanScreensAreTrue == (pc = "idle" /\ ~ error /\ vouched) => alive /\ ScreenIsTrue

\* A toggle does what its key says: on a screen without an error, and if nobody
\* else changes the gateway meanwhile, every toggle that succeeds turns its item
\* over, however often and how fast keys are pressed.
TogglesTurnOver ==
  [][\A item \in Items :
       (pc = "asking" /\ ask.item = item /\ ask.sure /\ vouched /\ pc' # pc /\ ~ error')
         => (ItemOn(item))' # ItemOn(item)]_vars

\* What a refresh under way has shown so far, and what a toggle asks for: the
\* invariant behind the two.
RefreshIsTrue == (pc = "tools" /\ ~ error /\ vouched) => alive /\ rows = ServerRows
AsksTurnOver  == (pc = "asking" /\ ask.sure /\ vouched) => ask.to = ~ ItemOn(ask.item)
ScreenIInv    == CleanScreensAreTrue /\ RefreshIsTrue /\ AsksTurnOver

\* Unless a request hangs in a gateway that runs, for which the loop then waits:
\* once the others are done and requests get through, the screen is true again
\* and again until the user leaves, with the help shown or not; once the gateway
\* has ended, it says so (run_app's ticker).
ScreenCatchesUp ==
  []<>(alive => pc \in {"idle", "quit"})
    => []<>(pc = "quit" \/ (pc = "idle" /\ IF alive THEN ScreenIsTrue ELSE error))
=============================================================================
