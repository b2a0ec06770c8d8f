------------------------------ MODULE Desktop ------------------------------
(***************************************************************************)
(* The desktop client (qw-desktop): one UI thread that draws frames from a *)
(* snapshot of the store, worker threads for the scan, the network         *)
(* operations, the reachability probes and the packet captures, and the    *)
(* store itself, which a gateway may write at the same time.               *)
(*                                                                         *)
(* A frame (App::update) first polls the workers, then handles at most one *)
(* click.  Navigation is part of the shell group of events only: every     *)
(* page can be reached in any state.  Layout, texts and colours are left   *)
(* out.  A row of the estate or of the assets is its air-gapped tag and    *)
(* its posture, a connection what its last test and scan said, a record of *)
(* another table is its kind.                                              *)
(***************************************************************************)
EXTENDS Naturals, Sequences, FiniteSets, SequencesExt

CONSTANTS
    Hosts, Assets,  \* ids of the estate and of the asset inventory
    Keys,           \* findings
    Conns,          \* connections
    Pages,          \* pages of the window
    Foci,           \* groups of events explored together
    TermCap,        \* lines the terminal keeps after a command (500)
    MaxCerts,       \* bound: certificates issued
    MaxEvents,      \* bound: clicks and commands
    MaxForeign,     \* bound: writes of the gateway
    MaxQuits        \* bound: restarts of the client

Groups == {"shell", "rows", "findings", "certs", "net", "probes"}

ASSUME DesktopAssumption ==
    /\ "Overview" \in Pages
    /\ Foci \subseteq SUBSET Groups
    /\ Hosts \cap Assets = {}
    /\ TermCap \in Nat \ {0} /\ MaxCerts \in Nat
    /\ MaxEvents \in Nat /\ MaxForeign \in Nat /\ MaxQuits \in Nat

VARIABLES
    focus,      \* the groups of events of this behaviour
    phase,      \* where App::update is: "poll" or "ui"
    db,         \* the store
    data,       \* App.data: the snapshot the frames are drawn from
    selected,   \* App.selected
    scan,       \* the scan worker and what App knows of it
    net,        \* the network operation, likewise
    probe,      \* the reachability probes, likewise
    online,     \* App.net_probes_enabled
    graph,      \* App.graph
    key,        \* App.issued_key: the certificate whose key is shown
    tabs, page, \* App.open_tabs, App.page
    term,       \* the terminal: its lines, the lines printed, captures
    behind,     \* auxiliary: another writer wrote since the last refresh
    events, foreign, quits

ui == <<selected, online, graph, key, tabs, page, term>>
bounds == <<events, foreign, quits>>
desktopVars == <<focus, phase, db, data, scan, net, probe, ui, behind, bounds>>

Ids == Hosts \cup Assets
Gone == [gone |-> TRUE]
Statuses == {"unknown", "weak"}
Others == {"endpoint", "session", "alert"}

-----------------------------------------------------------------------------
(* Snapshots and the graph. *)

\* The records a snapshot lists, as selections.
Records(d) ==
    {<<"row", i>> : i \in {j \in Ids : d.rows[j] # Gone}}
    \cup {<<"finding", k>> : k \in {l \in Keys : d.triage[l] # "none"}}
    \cup {<<"conn", c>> : c \in {e \in Conns : d.conns[e] # Gone}}
    \cup {<<"cert", n>> : n \in DOMAIN d.certs}
    \cup {<<o, 1>> : o \in d.others}
    \cup {<<"scan", 1>> : n \in 1..d.scans} \cup {<<"ticket", 1>> : n \in 1..d.tickets}

\* What GraphView is built from.
Inputs(d) == [rows |-> d.rows, triage |-> d.triage]

\* GraphView::sync compares how many rows there are; its hash of the four
\* lengths is abstracted to the lengths.
Signature(d) == <<Cardinality({i \in Hosts : d.rows[i] # Gone}), Cardinality({i \in Assets : d.rows[i] # Gone}),
                  Cardinality({k \in Keys : d.triage[k] # "none"})>>

Forced == <<>>  \* u64::MAX

\* GraphView::set_override and clear_overrides.
SetOverride(g) == [g EXCEPT !.over = ~g.over, !.sig = Forced]

\* GraphView::sync and build; an empty graph is always built again.
Synced(g, d) ==
    IF g.sig = Signature(d) /\ Signature(d) # <<0, 0, 0>> THEN g
    ELSE [sig |-> Signature(d), of |-> Inputs(d), over |-> g.over, built |-> g.over]

-----------------------------------------------------------------------------
(* The window starts: main and App::new. *)

FirstGraph == [sig |-> Forced, of |-> [rows |-> <<>>, triage |-> <<>>], over |-> FALSE, built |-> FALSE]
FirstTerm == [lines |-> <<1>>, printed |-> 1, captures |-> 0, inbox |-> 0, open |-> FALSE, float |-> FALSE]
IdleScan == [busy |-> FALSE, at |-> "none", recorded |-> FALSE]
IdleNet == [busy |-> FALSE, rx |-> 0, next |-> 1, jobs |-> {}, inbox |-> {}]
IdleProbe == [results |-> [i \in Ids |-> "none"], rx |-> 0, latest |-> "none", jobs |-> {}, inbox |-> {}]

Init ==
    /\ focus \in Foci
    /\ db = [rows |-> [i \in Ids |-> IF i \in Hosts THEN [air |-> FALSE, status |-> "unknown"] ELSE Gone],
             triage |-> [k \in Keys |-> "none"], conns |-> [c \in Conns |-> [tested |-> "no", scanned |-> "no"]],
             certs |-> <<>>, others |-> {}, scans |-> 0, tickets |-> 0, postures |-> 0]
    /\ data = db /\ phase = "poll" /\ selected = <<>>
    /\ scan = IdleScan /\ net = IdleNet /\ probe = IdleProbe
    /\ online = FALSE /\ graph = FirstGraph /\ key = 0
    /\ tabs = <<"Overview">> /\ page = "Overview" /\ term = FirstTerm
    /\ behind = FALSE /\ events = 0 /\ foreign = 0 /\ quits = 0

\* The process ends with its threads; the next one loads the store.
Quit ==
    /\ quits < MaxQuits
    /\ quits' = quits + 1
    /\ data' = db /\ phase' = "poll" /\ selected' = <<>> /\ behind' = FALSE
    /\ scan' = IdleScan /\ net' = IdleNet /\ probe' = IdleProbe
    /\ online' = FALSE /\ graph' = FirstGraph /\ key' = 0
    /\ tabs' = <<"Overview">> /\ page' = "Overview" /\ term' = FirstTerm
    /\ UNCHANGED <<focus, db, events, foreign>>

-----------------------------------------------------------------------------
(* The polls at the start of a frame. *)

\* App::poll_scan.
PollScan(s) == IF s.at = "sent" THEN IdleScan ELSE s

\* App::poll_net.
PollNet(n) == IF n.inbox # {} THEN [n EXCEPT !.busy = FALSE, !.rx = 0, !.inbox = {}] ELSE n

\* Mutant: the results are drained and dropped.
MutPollProbes(p) == [p EXCEPT !.inbox = {}]

\* App::poll_probes.
PollProbes(p) ==
    [p EXCEPT !.results = [i \in Ids |-> IF \E m \in p.inbox : m.id = i THEN (CHOOSE m \in p.inbox : m.id = i).st
                                         ELSE p.results[i]],
              !.inbox = {}]

\* The terminal output of the captures.
Drain(t) == [t EXCEPT !.lines = t.lines \o [n \in 1..t.inbox |-> t.printed + n],
                      !.printed = t.printed + t.inbox, !.inbox = 0]

Poll ==
    /\ phase = "poll"
    /\ phase' = "ui"
    /\ scan' = PollScan(scan) /\ net' = PollNet(net) /\ probe' = PollProbes(probe) /\ term' = Drain(term)
    /\ LET refreshed == scan.at = "sent" \/ net.inbox # {}
       IN  /\ data' = IF refreshed THEN db ELSE data
           /\ behind' = (behind /\ ~refreshed)
    /\ UNCHANGED <<focus, db, selected, online, graph, key, tabs, page, bounds>>

-----------------------------------------------------------------------------
(* Clicks.  Each ends the frame; the detail panel, drawn before the page,  *)
(* has dropped a selection whose record is gone (App::detail_panel).       *)

\* update: the active page always has a tab.
WithTab(p, ts) == IF Contains(ts, p) THEN ts ELSE Append(ts, p)

Panel == IF selected \in Records(data) THEN selected ELSE <<>>

\* A click of a group, at the bound of the exploration.
Click(group) ==
    /\ phase = "ui" /\ group \in focus /\ events < MaxEvents
    /\ phase' = "poll" /\ events' = events + 1
    /\ UNCHANGED <<focus, foreign, quits>>

\* The end of a frame with no click.
NoClick ==
    /\ phase = "ui" /\ phase' = "poll" /\ selected' = Panel /\ tabs' = WithTab(page, tabs)
    /\ UNCHANGED <<focus, db, data, scan, net, probe, online, graph, key, page, term, behind, bounds>>

\* App::refresh, with what the handler wrote.
Refreshed(d) == db' = d /\ data' = d /\ behind' = FALSE
Looks == UNCHANGED <<db, data, behind>>

\* What a click leaves alone; the frame gives the active page its tab.
Keeps(changed, name, v) == IF name \in changed THEN TRUE ELSE UNCHANGED v
RestOf(changed) ==
    /\ Keeps(changed, "scan", scan) /\ Keeps(changed, "net", net) /\ Keeps(changed, "probe", probe)
    /\ Keeps(changed, "online", online) /\ Keeps(changed, "graph", graph) /\ Keeps(changed, "key", key)
    /\ Keeps(changed, "page", page) /\ Keeps(changed, "term", term)
    /\ IF "tabs" \in changed THEN TRUE ELSE tabs' = WithTab(page, tabs)
    /\ IF "selected" \in changed THEN TRUE ELSE selected' = Panel

\* A row of a table is clicked: its record is shown.
Select(group, kinds) ==
    /\ Click(group) /\ Looks /\ RestOf({"selected"})
    /\ \E r \in Records(data) : r[1] \in kinds /\ selected' = r

ClosePanel == Click("rows") /\ Looks /\ RestOf({"selected"}) /\ selected # <<>> /\ selected' = <<>>

Refresh == Click("rows") /\ Refreshed(db) /\ RestOf({})

-----------------------------------------------------------------------------
(* Hosts and assets.  Add replaces the row of an id; the toggle writes the *)
(* row of the snapshot back with its tag flipped.                          *)

SaveRow(i, row) == Refreshed([db EXCEPT !.rows[i] = row])

AddAsset(i, air) == Click("rows") /\ i \in Assets /\ SaveRow(i, [air |-> air, status |-> "unknown"]) /\ RestOf({})
AddTarget(i, air) == Click("rows") /\ i \in Hosts /\ SaveRow(i, [air |-> air, status |-> "unknown"]) /\ RestOf({})

Toggled(row) == [row EXCEPT !.air = ~row.air]

ToggleAssetAirgap(i) ==
    Click("rows") /\ i \in Assets /\ data.rows[i] # Gone /\ SaveRow(i, Toggled(data.rows[i])) /\ RestOf({})
ToggleTargetAirgap(i) ==
    Click("rows") /\ i \in Hosts /\ data.rows[i] # Gone /\ SaveRow(i, Toggled(data.rows[i])) /\ RestOf({})

\* "Del" of a row of the table, on any page that lists it.
DeleteRow(i) == Click("rows") /\ data.rows[i] # Gone /\ SaveRow(i, Gone) /\ RestOf({})

\* The buttons of the detail panels of an asset and of a host.
AssetBody(i) ==
    /\ i \in Assets /\ Panel = <<"row", i>>
    /\ \/ ToggleAssetAirgap(i)
       \/ Click("rows") /\ SaveRow(i, Gone) /\ RestOf({"selected"}) /\ selected' = <<>>
HostBody(i) ==
    /\ i \in Hosts /\ Panel = <<"row", i>>
    /\ \/ ToggleTargetAirgap(i)
       \/ Click("rows") /\ SaveRow(i, Gone) /\ RestOf({"selected"}) /\ selected' = <<>>

\* Pages and panels that only list and show: their rows can be selected.
EndpointsView == Select("rows", {"endpoint"})
SessionsView == Select("rows", {"session"})
AlertsView == Select("rows", {"alert"})
ScansView == Select("findings", {"scan"})
RemediationsView == Select("net", {"ticket"})

-----------------------------------------------------------------------------
(* Findings, the scan, the attack paths and the exports.                   *)

\* App::export_board_report.
ExportBoardReport == Click("findings") /\ Looks /\ graph' = Synced(graph, data) /\ RestOf({"graph"})

\* App::start_scan: nothing while a scan runs.
Started(s) == IF s.busy THEN s ELSE [busy |-> TRUE, at |-> "scanning", recorded |-> FALSE]

\* The button of the overview, and its board report.
OverviewView ==
    \/ Click("findings") /\ ~scan.busy /\ scan' = Started(scan) /\ Looks /\ RestOf({"scan"})
    \/ ExportBoardReport

\* The status buttons of a finding.
SetStatus(k, st) ==
    /\ Click("findings") /\ Panel = <<"finding", k>> /\ data.triage[k] # st
    /\ Refreshed([db EXCEPT !.triage[k] = IF db.triage[k] = "none" THEN "none" ELSE st])
    /\ RestOf({})

FindingsView == Select("findings", {"finding"})

\* The attack-path page draws the synced graph; its simulation toggles a channel.
AttackPathsView ==
    /\ Click("findings") /\ Looks /\ RestOf({"graph", "selected"})
    /\ \/ graph' = SetOverride(Synced(graph, data)) /\ selected' = Panel
       \/ graph' = Synced(graph, data)
          /\ \E r \in Records(data) : r[1] \in {"row", "finding"} /\ selected' = r

-----------------------------------------------------------------------------
(* The local certificate authority. *)

IssueCert ==
    /\ Click("certs") /\ Len(db.certs) < MaxCerts
    /\ Refreshed([db EXCEPT !.certs = Append(@, "active")])
    /\ key' = Len(db.certs) + 1
    /\ RestOf({"key"})

\* A certificate is issued again; the old one stays as it is.
RenewCert(n) ==
    /\ Click("certs") /\ n \in DOMAIN data.certs /\ Len(db.certs) < MaxCerts
    /\ Refreshed([db EXCEPT !.certs = Append(@, "active")])
    /\ key' = Len(db.certs) + 1
    /\ RestOf({"key"})

\* Offered for the rows the snapshot shows as active.
RevokeCert(n) ==
    /\ Click("certs") /\ n \in DOMAIN data.certs /\ data.certs[n] = "active"
    /\ Refreshed([db EXCEPT !.certs[n] = "revoked"])
    /\ RestOf({})

DismissKey == Click("certs") /\ key # 0 /\ key' = 0 /\ Looks /\ RestOf({"key"})

CertificatesView == IssueCert \/ DismissKey \/ Select("certs", {"cert"})
                    \/ \E n \in DOMAIN data.certs : RenewCert(n) \/ RevokeCert(n)

-----------------------------------------------------------------------------
(* Network operations: refused unless online, one at a time. *)

ToggleOnline(group) == Click(group) /\ online' = ~online /\ Looks /\ RestOf({"online"})

\* Mutant: an operation is not refused while another one runs.
MutMaySpawn == online

MaySpawn == online /\ ~net.busy

\* App::spawn_net_op with a channel of its own.
SpawnNetOp(op, c, k) ==
    /\ Click("net") /\ MaySpawn
    /\ net' = [busy |-> TRUE, rx |-> net.next, next |-> net.next + 1, inbox |-> {},
               jobs |-> net.jobs \cup {[op |-> op, conn |-> c, key |-> k, chan |-> net.next, at |-> "begin", row |-> Gone]}]
    /\ Looks /\ RestOf({"net"})

ConnectionsView ==
    \/ Select("net", {"conn"})
    \/ \E c \in {e \in Conns : data.conns[e] # Gone} : SpawnNetOp("test", c, "none") \/ SpawnNetOp("scan", c, "none")

\* A ticket is offered for the finding in the panel.
OpenTicket(k) ==
    /\ Panel = <<"finding", k>>
    /\ \E c \in {e \in Conns : data.conns[e] # Gone} : SpawnNetOp("ticket", c, k)

\* The finding panel: triage and tickets.
FindingBody(k) == (\E st \in {"open", "acknowledged", "suppressed"} : SetStatus(k, st)) \/ OpenTicket(k)

-----------------------------------------------------------------------------
(* Reachability probes. *)

\* App::start_probe: a fresh probe replaces the receiver.
StartProbe(i) ==
    /\ Click("probes") /\ online /\ data.rows[i] # Gone
    /\ probe' = [results |-> [probe.results EXCEPT ![i] = "probing"], rx |-> events', latest |-> i, inbox |-> {},
                 jobs |-> probe.jobs \cup {[id |-> i, chan |-> events']}]
    /\ Looks /\ RestOf({"probe"})

\* The tables of the estate and of the assets.
EstateView(i) == i \in Hosts /\ (\/ \E air \in BOOLEAN : AddTarget(i, air)
                                 \/ ToggleTargetAirgap(i) \/ StartProbe(i) \/ DeleteRow(i) \/ Select("rows", {"row"}))
AssetsView(i) == i \in Assets /\ (\/ \E air \in BOOLEAN : AddAsset(i, air)
                                  \/ ToggleAssetAirgap(i) \/ StartProbe(i) \/ DeleteRow(i) \/ Select("rows", {"row"}))

-----------------------------------------------------------------------------
(* The shell: navigation, tabs and the terminal. *)

Shell(p, ts) == Click("shell") /\ page' = p /\ tabs' = ts

\* The side bar and the activity bar.
Navigate(p) == Shell(p, WithTab(p, tabs)) /\ Looks /\ RestOf({"page", "tabs"})

\* Vec::retain: the tabs of the other pages, in their order.
Retained(ts, p) ==
    LET kept == {i \in DOMAIN ts : ts[i] # p}
        Place(i) == Cardinality({j \in kept : j <= i})
    IN  [n \in 1..Cardinality(kept) |-> ts[CHOOSE i \in kept : Place(i) = n]]

\* App::close_tab.
CloseTab(p, ts) ==
    LET rest == Retained(ts, p)
        left == IF rest = <<>> THEN <<"Overview">> ELSE rest
    IN  [tabs |-> left, page |-> IF page = p THEN Last(left) ELSE page]

\* App::tab_strip: a drag or a move, or one of the actions of a tab.
MoveTab(from, to) ==
    LET ts == WithTab(page, tabs)
    IN  /\ from \in DOMAIN ts /\ to \in DOMAIN ts /\ from # to
        /\ Shell(page, InsertAt(RemoveAt(ts, from), to, ts[from]))
        /\ Looks /\ RestOf({"page", "tabs"})
TabStrip ==
    LET ts == WithTab(page, tabs)
    IN  /\ \E i \in DOMAIN ts :
              \/ Shell(ts[i], ts)
              \/ Shell(CloseTab(ts[i], ts).page, CloseTab(ts[i], ts).tabs)
              \/ LET left == SubSeq(ts, 1, i) IN Shell(IF Contains(left, page) THEN page ELSE Last(left), left)
              \/ Shell(ts[i], <<ts[i]>>)
              \/ Shell("Overview", <<"Overview">>)
        /\ Looks /\ RestOf({"page", "tabs"})

\* The end of run_terminal keeps the last lines.
Trim(ls) == IF Len(ls) > TermCap THEN SubSeq(ls, Len(ls) - TermCap + 1, Len(ls)) ELSE ls

Said(t, n) == [t EXCEPT !.lines = Trim(t.lines \o [j \in 1..n |-> t.printed + j]), !.printed = t.printed + n]

\* App::run_terminal: the echo, the lines a command prints at once, its effect.
RunTerminal ==
    /\ Click("shell") /\ term.open
    /\ \/ term' = [term EXCEPT !.lines = <<>>, !.printed = @ + 1] /\ Looks /\ RestOf({"term"})           \* clear
       \/ \E n \in 2..3 : term' = Said(term, n) /\ Looks /\ RestOf({"term"})                              \* a report
       \/ term' = Said(term, 2) /\ scan' = Started(scan) /\ Looks /\ RestOf({"term", "scan"})             \* scan
       \/ term' = Said(term, 2) /\ graph' = Synced(graph, data) /\ Looks /\ RestOf({"term", "graph"})     \* paths
       \/ term' = Said(term, 2) /\ page' \in Pages /\ Looks /\ RestOf({"term", "page"})                   \* open
       \/ term' = Said(term, 2) /\ Refreshed(db) /\ RestOf({"term"})                                      \* refresh
       \/ /\ term' = [Said(term, 2) EXCEPT !.captures = IF online THEN @ + 1 ELSE @]                      \* capture
          /\ Looks /\ RestOf({"term"})

\* The terminal's own buttons, its shortcut and its settings.
TerminalBody ==
    /\ Click("shell") /\ Looks /\ RestOf({"term"})
    /\ \/ term' = [term EXCEPT !.open = ~term.open]
       \/ term.open /\ term' = [term EXCEPT !.float = ~term.float]
       \/ term.open /\ term' = [term EXCEPT !.lines = <<>>]

-----------------------------------------------------------------------------
(* Worker threads. *)

\* run_scan_blocking: the results are recorded one by one, then the posture.
ScanRecords ==
    /\ scan.at = "scanning" /\ ~scan.recorded
    /\ \E k \in Keys : db' = [db EXCEPT !.triage[k] = IF @ = "none" THEN "open" ELSE @, !.scans = 1]
    /\ scan' = [scan EXCEPT !.recorded = TRUE] /\ behind' = TRUE
    /\ UNCHANGED <<focus, phase, data, net, probe, ui, bounds>>
ScanEnds ==
    /\ scan.at = "scanning"
    /\ \/ ~scan.recorded /\ UNCHANGED <<db, behind>>    \* no runtime
       \/ scan.recorded /\ db' = [db EXCEPT !.postures = 1] /\ behind' = TRUE
    /\ scan' = [scan EXCEPT !.at = "sent"]
    /\ UNCHANGED <<focus, phase, data, net, probe, ui, bounds>>

\* The message of a worker reaches the receiver of its own channel only.
NetSends(j, d) ==
    /\ db' = d /\ behind' = (behind \/ d # db)
    /\ net' = [net EXCEPT !.jobs = @ \ {j}, !.inbox = IF net.rx = j.chan THEN {j.chan} ELSE @]
NetGoesOn(j, k, d) == db' = d /\ behind' = (behind \/ d # db) /\ net' = [net EXCEPT !.jobs = (@ \ {j}) \cup {k}]

\* run_net_op_blocking: the row is read, the service called, the row written.
NetBegins(j) ==
    /\ j.at = "begin"
    /\ LET found == db.conns[j.conn] # Gone /\ (j.op = "ticket" => db.triage[j.key] # "none")
       IN  \/ ~found /\ NetSends(j, db)
           \/ found /\ NetGoesOn(j, [j EXCEPT !.at = "call", !.row = db.conns[j.conn]], db)

TestConnection(j) ==
    /\ j.op = "test" /\ j.at = "call"
    /\ \E ok \in {"connected", "failed"} : NetSends(j, [db EXCEPT !.conns[j.conn] = [j.row EXCEPT !.tested = ok]])

\* Discovery fails as a whole; what the files give is recorded as it comes.
ScanConnection(j) ==
    /\ j.op = "scan"
    /\ \/ j.at = "call" /\ NetSends(j, db)
       \/ /\ j.at = "call"
          /\ \E k \in Keys : NetGoesOn(j, [j EXCEPT !.at = "write"],
                                       [db EXCEPT !.triage[k] = IF @ = "none" THEN "open" ELSE @, !.scans = 1])
       \/ /\ j.at = "write"
          /\ NetSends(j, [db EXCEPT !.postures = 1, !.conns[j.conn] = [j.row EXCEPT !.scanned = "yes"]])

FileTicket(j) == j.op = "ticket" /\ j.at = "call" /\ (NetSends(j, db) \/ NetSends(j, [db EXCEPT !.tickets = 1]))

NetOp(j) ==
    /\ j \in net.jobs
    /\ NetBegins(j) \/ TestConnection(j) \/ ScanConnection(j) \/ FileTicket(j)
    /\ UNCHANGED <<focus, phase, data, scan, probe, ui, bounds>>

\* probe_addr, and its message.
ProbeEnds(j) ==
    /\ j \in probe.jobs
    /\ \E st \in {"reachable", "unreachable"} :
          probe' = [probe EXCEPT !.jobs = @ \ {j}, !.inbox = IF probe.rx = j.chan THEN @ \cup {[id |-> j.id, st |-> st]} ELSE @]
    /\ UNCHANGED <<focus, phase, db, data, scan, net, ui, behind, bounds>>

\* tshark_capture: its lines, or the error.
CaptureEnds ==
    /\ term.captures > 0
    /\ \E n \in 1..2 : term' = [term EXCEPT !.captures = @ - 1, !.inbox = @ + n]
    /\ UNCHANGED <<focus, phase, db, data, scan, net, probe, selected, online, graph, key, tabs, page, behind, bounds>>

\* The gateway writes the same store.
GatewayWrites ==
    /\ foreign < MaxForeign
    /\ \E d \in {[db EXCEPT !.rows[i] = [air |-> IF @ = Gone THEN FALSE ELSE @.air, status |-> "weak"]] : i \in Ids}
                \cup {[db EXCEPT !.conns[c] = Gone] : c \in Conns} \cup {[db EXCEPT !.others = {o}] : o \in Others}
                \cup {[db EXCEPT !.certs[n] = "revoked"] : n \in DOMAIN db.certs} :
          d # db /\ db' = d
    /\ foreign' = foreign + 1 /\ behind' = TRUE
    /\ UNCHANGED <<focus, phase, data, scan, net, probe, ui, events, quits>>

-----------------------------------------------------------------------------
Views ==
    \/ \E i \in Ids : EstateView(i) \/ AssetsView(i) \/ HostBody(i) \/ AssetBody(i)
    \/ EndpointsView \/ SessionsView \/ AlertsView \/ ScansView \/ RemediationsView
    \/ ClosePanel \/ Refresh
    \/ OverviewView \/ FindingsView \/ AttackPathsView \/ (\E k \in Keys : FindingBody(k))
    \/ CertificatesView \/ ConnectionsView \/ (\E g \in {"shell", "net", "probes"} : ToggleOnline(g))
    \/ (\E p \in Pages : Navigate(p)) \/ TabStrip \/ (\E i, j \in DOMAIN tabs : MoveTab(i, j))
    \/ RunTerminal \/ TerminalBody

Workers == ScanRecords \/ ScanEnds \/ (\E j \in net.jobs : NetOp(j)) \/ (\E j \in probe.jobs : ProbeEnds(j)) \/ CaptureEnds

Next == Poll \/ NoClick \/ Views \/ Workers \/ GatewayWrites \/ Quit

Spec == Init /\ [][Next]_desktopVars

\* Workers and frames run on: a worker asks for a frame when it has sent its
\* result, and the frame loop is kept alive while an operation runs.
FairSpec == Spec /\ WF_desktopVars(Poll) /\ WF_desktopVars(NoClick) /\ WF_desktopVars(Workers)

-----------------------------------------------------------------------------
(* Properties. *)

SnapshotType(d) ==
    /\ \A i \in Ids : d.rows[i] = Gone \/ d.rows[i] \in [air : BOOLEAN, status : Statuses]
    /\ \A k \in Keys : d.triage[k] \in {"none", "open", "acknowledged", "suppressed"}
    /\ \A c \in Conns : d.conns[c] = Gone
                        \/ d.conns[c] \in [tested : {"no", "connected", "failed"}, scanned : {"no", "yes"}]
    /\ d.certs \in Seq({"active", "revoked"}) /\ Len(d.certs) <= MaxCerts /\ d.others \subseteq Others

\* Type invariant of the client and of the store it shows.
DesktopTypeOK ==
    /\ SnapshotType(db) /\ SnapshotType(data)
    /\ phase \in {"poll", "ui"} /\ page \in Pages /\ tabs \in Seq(Pages) /\ key \in 0..MaxCerts
    /\ selected = <<>> \/ Len(selected) = 2
    /\ scan.at \in {"none", "scanning", "sent"} /\ probe.results \in [Ids -> {"none", "probing", "reachable", "unreachable"}]

\* The user sees what the user wrote: the snapshot differs from the store only
\* when a worker or the gateway wrote since the last refresh.
ViewShowsOwnWrites == data # db => behind

\* net_busy stands for one running operation whose result will be read: at most
\* one thread talks to the network, and the message of the one there is is not
\* addressed to a dropped receiver.
OneNetOp == Cardinality(net.jobs) <= 1 /\ (net.busy <=> (net.jobs # {} \/ net.inbox # {}))
            /\ \A j \in net.jobs : j.chan = net.rx

\* The simulation shown is the one ticked: a graph that sync would keep was
\* built with the overrides that are set.
SimulationIsCurrent == graph.sig # Forced => graph.built = graph.over

\* There is always a tab to fall back on (close_tab and tab_strip unwrap the
\* last one) and no page has two.
TabsAreSound == tabs # <<>> /\ IsInjective(tabs)

\* The terminal shows the newest lines it printed, in order and without a gap.
ConsoleIsTail == \A n \in DOMAIN term.lines : term.lines[n] = term.printed - Len(term.lines) + n

\* What the window shows is what it was last given, in every frame: the user's own
\* writes are in the rows, the simulation is the one ticked, tabs and terminal are
\* sound, and one network operation runs.  (The graph itself may lag: sync looks at
\* the numbers of its inputs only.)
WindowIsTrue ==
    /\ DesktopTypeOK /\ ViewShowsOwnWrites /\ OneNetOp
    /\ SimulationIsCurrent /\ TabsAreSound /\ ConsoleIsTail

\* A revoked certificate stays revoked ("irreversible"), whatever is issued,
\* renewed or written by the gateway afterwards.
RevokedStays == [][\A n \in DOMAIN db.certs : db.certs[n] = "revoked" => db'.certs[n] = "revoked"]_desktopVars

\* A scan ends: the button is enabled again.
ScanButtonReturns == scan.busy ~> ~scan.busy

\* The badge of the probe started last leaves "probing...".
LastProbeResolves ==
    \A i \in Ids : (probe.latest = i /\ probe.results[i] = "probing") ~> (probe.latest # i \/ probe.results[i] # "probing")

\* Work that was started comes to an end the user sees, and a revocation lasts.
WorkEnds == RevokedStays /\ ScanButtonReturns /\ LastProbeResolves

\* start_probe says of a replaced receiver that "results still drain": every
\* probe that was started is answered.
ResultsStillDrain == \A i \in Ids : probe.results[i] = "probing" ~> probe.results[i] # "probing"

=============================================================================
