------------------------------ MODULE Supervisor ------------------------------
(***************************************************************************)
(* The application as a whole: setup makes the states and then starts the  *)
(* gateway and the self-scan as tasks; the main page loads, registers for  *)
(* their events and asks for what it may have missed.  Tasks, events and   *)
(* answers to the page overtake each other.                                *)
(***************************************************************************)
EXTENDS Naturals, Sequences, FiniteSets, UpdateCheck

CONSTANTS MaxScans,     \* scans that end (a bound)
          BroadcastCap  \* results the scanner keeps for a slow receiver: 8

ASSUME ScanAssumption == MaxScans \in Nat /\ BroadcastCap \in Nat \ {0}

VARIABLES ready,    \* steps of the setup that are done
          gateway,  \* GatewayState, and where gateway::run is
          guarded,  \* what the router was built with
          exiting,
          wire,     \* events on their way to the page
          page,     \* what the page has registered for, and what it shows
          reply,    \* an answer on its way to the page
          scans     \* the scanner, its forwarding task, LastScanCache

supervisorVars == <<ready, gateway, guarded, exiting, wire, page, reply, scans>>

\* The order of the setup.  The three last ones start tasks.
Order == <<"handle", "settings", "metrics", "registries", "catalog", "keys", "workspaces",
           "pipelines", "telemetry", "provider", "gateway", "cron", "scanner">>
Managed == {Order[i] : i \in 1..ready}
SetUp == ready = Len(Order)

SupervisorInit ==
  /\ ready = 0
  /\ gateway = [status |-> "booting", port |-> 0, run |-> "none"]
  /\ guarded = {} /\ exiting = FALSE /\ wire = <<>> /\ reply = "none"
  /\ page = [at |-> "load", status |-> "booting", port |-> 0, scan |-> 0,
             late |-> FALSE, missed |-> 0]
  /\ scans = [task |-> "none", busy |-> FALSE, ended |-> 0, queue |-> <<>>,
              hand |-> 0, cache |-> 0]

\* setup, one state or task after the other.
SetupStep ==
  /\ ~SetUp /\ ready' = ready + 1
  /\ gateway' = IF Order[ready'] = "gateway" THEN [gateway EXCEPT !.run = "bind"] ELSE gateway
  /\ scans' = IF Order[ready'] = "scanner" THEN [scans EXCEPT !.task = "new"] ELSE scans
  /\ UNCHANGED <<guarded, exiting, wire, page, reply>>

-----------------------------------------------------------------------------
\* What the page listens for, by the step it has come to.
Hears(event) ==
  CASE event = "ready" -> page.at # "load"
    [] event = "failed" -> page.at \notin {"load", "ready"}
    [] OTHER -> page.at = "up"
Emitted(event, value) ==
  IF Hears(event) THEN Append(wire, [event |-> event, value |-> value]) ELSE wire

Fail ==
  /\ gateway' = [gateway EXCEPT !.status = "failed", !.run = "over"]
  /\ wire' = Emitted("failed", 0)
  /\ UNCHANGED <<ready, guarded, exiting, page, reply, scans>>

\* The address is taken from the settings, which were applied before.
Bind ==
  /\ gateway.run = "bind"
  /\ gateway' = [gateway EXCEPT !.run = "bound"]
  /\ UNCHANGED <<ready, guarded, exiting, wire, page, reply, scans>>
BindFails == gateway.run = "bind" /\ Fail

\* set_listening.
Listen ==
  /\ gateway.run = "bound"
  /\ gateway' = [status |-> "listening", port |-> 1, run |-> "announce"]
  /\ UNCHANGED <<ready, guarded, exiting, wire, page, reply, scans>>

\* Without an address of its own the gateway ends, and nobody is told.
NoAddress ==
  /\ gateway.run = "bound"
  /\ gateway' = [gateway EXCEPT !.run = "over"]
  /\ UNCHANGED <<ready, guarded, exiting, wire, page, reply, scans>>

Announce ==
  /\ gateway.run = "announce"
  /\ gateway' = [gateway EXCEPT !.run = "build"]
  /\ wire' = Emitted("ready", gateway.port)
  /\ UNCHANGED <<ready, guarded, exiting, page, reply, scans>>

\* The router gets the keys, the pipelines, the runtimes and the metrics, as far as
\* they are managed by now.
BuildRouter ==
  /\ gateway.run = "build"
  /\ gateway' = [gateway EXCEPT !.run = "serve"]
  /\ guarded' = Managed \cap {"keys", "pipelines", "provider", "metrics"}
  /\ UNCHANGED <<ready, exiting, wire, page, reply, scans>>

ServeFails == gateway.run = "serve" /\ Fail
ServeEnds ==
  /\ gateway.run = "serve" /\ exiting
  /\ gateway' = [gateway EXCEPT !.run = "over"]
  /\ UNCHANGED <<ready, guarded, exiting, wire, page, reply, scans>>

\* ExitRequested: GatewayHandle::cancel.
RequestExit ==
  /\ SetUp /\ ~exiting /\ exiting' = TRUE
  /\ gateway' = [gateway EXCEPT !.status = "stopping"]
  /\ UNCHANGED <<ready, guarded, wire, page, reply, scans>>

-----------------------------------------------------------------------------
\* The scanner is mounted by its task, and its results are forwarded from then on.
MountScanner ==
  /\ scans.task = "new"
  /\ \E t \in {"mounted", "absent"} : scans' = [scans EXCEPT !.task = t]
  /\ UNCHANGED <<ready, gateway, guarded, exiting, wire, page, reply>>
Subscribe ==
  /\ scans.task = "mounted" /\ scans' = [scans EXCEPT !.task = "forward"]
  /\ UNCHANGED <<ready, gateway, guarded, exiting, wire, page, reply>>

\* scan_now, on a schedule or for a page: one at a time.
BeginScan ==
  /\ scans.task \in {"mounted", "forward", "lagged"} /\ ~scans.busy
  /\ scans.ended < MaxScans
  /\ scans' = [scans EXCEPT !.busy = TRUE]
  /\ UNCHANGED <<ready, gateway, guarded, exiting, wire, page, reply>>

\* The result is broadcast.  A receiver that is too far behind is told so, and the
\* forwarding loop takes that for the end.
EndScan ==
  /\ scans.busy
  /\ \/ scans' = [scans EXCEPT !.busy = FALSE]
     \/ LET n == scans.ended + 1
            s == [scans EXCEPT !.busy = FALSE, !.ended = n]
        IN scans' = IF scans.task # "forward" THEN s
                    ELSE IF Len(scans.queue) < BroadcastCap THEN [s EXCEPT !.queue = Append(@, n)]
                    ELSE [s EXCEPT !.task = "lagged", !.queue = <<>>]
  /\ UNCHANGED <<ready, gateway, guarded, exiting, wire, page, reply>>

\* The forwarding task keeps a result in the cache first, and tells the page then.
KeepScan ==
  /\ scans.queue # <<>> /\ scans.hand = 0
  /\ scans' = [scans EXCEPT !.hand = Head(scans.queue), !.queue = Tail(@),
                            !.cache = Head(scans.queue)]
  /\ UNCHANGED <<ready, gateway, guarded, exiting, wire, page, reply>>
TellScan ==
  /\ scans.hand # 0
  /\ wire' = Emitted("scan", scans.hand)
  /\ page' = [page EXCEPT !.missed = IF Hears("scan") THEN @ ELSE scans.hand]
  /\ scans' = [scans EXCEPT !.hand = 0]
  /\ UNCHANGED <<ready, gateway, guarded, exiting, reply>>

-----------------------------------------------------------------------------
\* The page: both listeners, the status, the last scan, the listener for scans.
PageTo(a) == page' = [page EXCEPT !.at = a]

ListenReady ==
  /\ SetUp /\ page.at = "load" /\ PageTo("ready")
  /\ UNCHANGED <<ready, gateway, guarded, exiting, wire, reply, scans>>
ListenFailed ==
  /\ page.at = "ready" /\ PageTo("failed")
  /\ UNCHANGED <<ready, gateway, guarded, exiting, wire, reply, scans>>

\* get_gateway_status reads the state; the answer takes its time.
AskStatus ==
  /\ page.at = "failed" /\ PageTo("asked")
  /\ reply' = gateway.status
  /\ UNCHANGED <<ready, gateway, guarded, exiting, wire, scans>>

\* A page that heard that the gateway listens keeps to it.
ShowStatus ==
  /\ page.at = "asked"
  /\ page' =
       IF page.status = "listening"
       THEN [page EXCEPT !.at = "status", !.late = @ \/ reply = "failed"]
       ELSE [page EXCEPT !.at = "status", !.status = reply,
                         !.port = IF reply = "listening" THEN 1 ELSE 0,
                         !.late = @ \/ (page.status = "failed" /\ reply # "failed")]
  /\ reply' = "none"
  /\ UNCHANGED <<ready, gateway, guarded, exiting, wire, scans>>

\* get_last_scan: the page shows what the cache holds, if anything.
ShowLastScan ==
  /\ page.at = "status"
  /\ page' = [page EXCEPT !.at = "scanned",
                          !.scan = IF scans.cache # 0 THEN scans.cache ELSE @,
                          !.missed = 0]
  /\ UNCHANGED <<ready, gateway, guarded, exiting, wire, reply, scans>>
ListenScans ==
  /\ page.at = "scanned" /\ PageTo("up")
  /\ UNCHANGED <<ready, gateway, guarded, exiting, wire, reply, scans>>

Deliver ==
  /\ wire # <<>> /\ wire' = Tail(wire)
  /\ LET e == Head(wire) IN
       page' = CASE e.event = "ready" -> [page EXCEPT !.status = "listening", !.port = e.value,
                                                         !.late = @ \/ page.status = "failed"]
                 [] e.event = "failed" -> [page EXCEPT !.status = "failed"]
                 [] OTHER -> [page EXCEPT !.scan = e.value, !.missed = 0]
  /\ UNCHANGED <<ready, gateway, guarded, exiting, reply, scans>>

SupervisorNext ==
  \/ SetupStep \/ Bind \/ BindFails \/ Listen \/ NoAddress \/ Announce \/ BuildRouter
  \/ ServeFails \/ ServeEnds \/ RequestExit
  \/ MountScanner \/ Subscribe \/ BeginScan \/ EndScan \/ KeepScan \/ TellScan
  \/ ListenReady \/ ListenFailed \/ AskStatus \/ ShowStatus \/ ShowLastScan \/ ListenScans
  \/ Deliver

-----------------------------------------------------------------------------
Settled == page.at = "up" /\ wire = <<>> /\ ~exiting

\* No request is served without keys, filters, runtimes and metrics: the tasks are
\* started after the states they look for.
ServesGuarded == gateway.run = "serve" => Cardinality(guarded) = 4

\* Once the page is up and nothing is on its way, a gateway that has said that it
\* listens is shown as listening, with its port; one that failed is shown as failed,
\* unless older word that it listens, or boots, came after that or was kept to.
ListeningIsShown ==
  Settled =>
    /\ gateway.run \in {"build", "serve"} => page.status = "listening" /\ page.port = gateway.port
    /\ gateway.status = "failed" => page.status = "failed" \/ page.late

\* It shows the last result that was kept, unless that came after the page had asked
\* and before it listened, or is still to be told.
ScansAreShown ==
  Settled /\ scans.hand = 0 => scans.cache \in {page.scan, page.missed}

\* What the main page and the pages that check for updates show agrees with what has
\* happened, however tasks, events and answers overtake each other.
PagesAreTold == ServesGuarded /\ ListeningIsShown /\ ScansAreShown /\ ChecksAreAnswered
=============================================================================
