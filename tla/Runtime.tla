------------------------------ MODULE Runtime ------------------------------
(***************************************************************************)
(* The process: start-up, the background tasks and the graceful shutdown   *)
(* (app/main.py), with the trading loop's cycle and the scanner's requests *)
(* (app/workers/trading_loop.py, app/scanner/dex_screener.py).             *)
(*                                                                         *)
(* All of it runs in one event loop.  A task gives way only at an await,   *)
(* and a cancelled task does nothing more than unwind.  The clients of the *)
(* outside world are opened by whoever first needs them and reopened when  *)
(* somebody needs them after they were closed.                             *)
(***************************************************************************)
EXTENDS Naturals

CONSTANTS
  MaxRetries,  \* MAX_RETRIES of the scanner's client, literal 3
  MaxBatches   \* bound on the batches of one scan

ASSUME RuntimeAssumption ==
  /\ MaxRetries \in Nat \ {0}
  /\ MaxBatches \in Nat \ {0}

VARIABLES
  config,     \* the settings start-up looks at
  signalled,  \* _shutdown: the event the signal handlers set
  main,       \* where run() is
  cancelled,  \* the tasks on which cancel() was called
  loop,       \* the trading loop's task: the phase of its cycle
  fetch,      \* the scanner's request within a launch or scan phase
  loop_error, \* whether last_loop_error is set
  recon,      \* the reconciliation worker's task
  health,     \* the health worker's task
  api,        \* the web server's task
  handling,   \* whether a dashboard sale is running in a task of its own
  abandoned,  \* history: the server went away and left such a sale behind
  open        \* the clients that are open

vars == <<config, signalled, main, cancelled, loop, fetch, loop_error, recon,
          health, api, handling, abandoned, open>>

loopVars == <<loop, fetch, loop_error>>
mainVars == <<signalled, main, cancelled, handling, abandoned, open>>

\* The settings and what the background tasks own, without and with the server.
workVars == <<config, loop, fetch, loop_error, recon, health>>
taskVars == <<config, loop, fetch, loop_error, recon, health, api>>

Configs == [live : BOOLEAN, launches : BOOLEAN, web_ui : BOOLEAN]

Tasks == {"loop", "recon", "health", "api"}
Clients == {"dex", "jupiter", "solana", "health"}

Stages ==
  {"preflight", "starting", "first_balance", "running", "await_loop",
   "await_recon", "await_health", "close_checker", "await_api", "close_dex",
   "close_jupiter", "close_solana", "exited", "crashed", "aborted"}

\* run() has returned or raised; asyncio.run cancels whatever is left.
IsOver == main \in {"exited", "crashed", "aborted"}

Phases == {"position", "launch", "scan", "balance", "sleep"}
ScanPhases == {"launch", "scan"}

Rounds == {"checking", "sleeping"}

Idle == [step |-> "idle", batches |-> 0, attempt |-> 0]
ListRequest == [step |-> "list", batches |-> 0, attempt |-> 0]
BatchRequest(n) == [step |-> "batch", batches |-> n, attempt |-> 0]
Analysis == [step |-> "analyse", batches |-> 0, attempt |-> 0]

Fetches ==
  [step    : {"idle", "list", "batch", "analyse"},
   batches : 0 .. MaxBatches,
   attempt : 0 .. MaxRetries - 1]

Init ==
  /\ config \in Configs
  /\ signalled = FALSE
  /\ main = "preflight"
  /\ cancelled = {}
  /\ loop = "absent"
  /\ fetch = Idle
  /\ loop_error = FALSE
  /\ recon = "absent"
  /\ health = "absent"
  /\ api = "absent"
  /\ handling = FALSE
  /\ abandoned = FALSE
  /\ open = {}

-----------------------------------------------------------------------------
(***************************************************************************)
(* Who needs which client, while it waits for an answer.                   *)
(***************************************************************************)
LoopUses(c) ==
  \/ c = "dex" /\ fetch.step \in {"list", "batch"}
  \/ c = "jupiter" /\ config.live /\ (loop = "position" \/ fetch.step = "analyse")
  \/ c = "solana" /\ loop = "balance"

HealthUses(c) == c = "health" /\ health = "checking"

RequestUses(c) == c = "jupiter" /\ config.live /\ handling

MainUses(c) == c = "solana" /\ main = "first_balance"

IsUsed(c) == LoopUses(c) \/ HealthUses(c) \/ RequestUses(c) \/ MainUses(c)

\* _get_client: a user that was not cancelled creates the client if there is
\* none, or if the one there is was closed.
OpenClient(c) ==
  /\ \/ LoopUses(c) /\ "loop" \notin cancelled
     \/ HealthUses(c) /\ "health" \notin cancelled
     \/ RequestUses(c) /\ ~IsOver
     \/ MainUses(c)
  /\ c \notin open
  /\ open' = open \cup {c}
  /\ UNCHANGED <<taskVars, signalled, main, cancelled, handling, abandoned>>

-----------------------------------------------------------------------------
(***************************************************************************)
(* Start-up: run, AppRuntime.start.                                        *)
(***************************************************************************)
\* SIGINT or SIGTERM; the handlers are there before the preflight checks.
\* uvicorn installs its own beside them and stops serving by itself.
Signal ==
  /\ ~signalled
  /\ ~IsOver
  /\ signalled' = TRUE
  /\ api' \in IF api = "serving" THEN {"serving", "draining"} ELSE {api}
  /\ UNCHANGED <<workVars, main, cancelled, handling, abandoned, open>>

\* main moves on without touching the tasks, except to cancel some of them.
Proceed(from, to, cancels) ==
  /\ main = from
  /\ main' = to
  /\ cancelled' = cancelled \cup cancels
  /\ UNCHANGED <<taskVars, signalled, handling, abandoned>>

\* check_dependencies closes its own checker on every way out.
PreflightPasses == Proceed("preflight", "starting", {}) /\ UNCHANGED open

PreflightAborts ==
  /\ config.live
  /\ Proceed("preflight", "aborted", {})
  /\ UNCHANGED open

\* TradingLoop() without a wallet key, outside run's try.
StartFails ==
  /\ config.live
  /\ Proceed("starting", "crashed", {})
  /\ UNCHANGED open

\* The rest of start has no await.  Reading --port may raise, again outside
\* run's try, with the workers already started.
StartServices ==
  /\ recon' = "checking"
  /\ health' = "checking"
  /\ \/ /\ api' = IF config.web_ui THEN "serving" ELSE "absent"
        /\ main' = "running"
        /\ UNCHANGED cancelled
     \/ /\ config.web_ui
        /\ main' = "crashed"
        /\ cancelled' = Tasks
        /\ UNCHANGED api

StartPaper ==
  /\ main = "starting"
  /\ ~config.live
  /\ loop' = "position"
  /\ StartServices
  /\ UNCHANGED <<config, signalled, fetch, loop_error, handling, abandoned,
                 open>>

\* In live mode the loop already trades while start waits for the balance.
StartLive ==
  /\ main = "starting"
  /\ config.live
  /\ loop' = "position"
  /\ main' = "first_balance"
  /\ UNCHANGED <<config, signalled, cancelled, fetch, loop_error, recon,
                 health, api, handling, abandoned, open>>

\* fetch_onchain_balance swallows every error.
FirstBalanceDone ==
  /\ main = "first_balance"
  /\ StartServices
  /\ UNCHANGED <<config, signalled, loopVars, handling, abandoned, open>>

-----------------------------------------------------------------------------
(***************************************************************************)
(* Shutdown: AppRuntime.shutdown, one action per await.                    *)
(***************************************************************************)
BeginShutdown ==
  /\ signalled
  /\ Proceed("running", "await_loop", {"loop"})
  /\ UNCHANGED open

LoopStopped ==
  /\ loop = "ended"
  /\ Proceed("await_loop", "await_recon", {"recon"})
  /\ UNCHANGED open

ReconStopped ==
  /\ recon = "ended"
  /\ Proceed("await_recon", "await_health", {"health"})
  /\ UNCHANGED open

HealthStopped ==
  /\ health = "ended"
  /\ Proceed("await_health", "close_checker", {})
  /\ UNCHANGED open

\* should_exit for the server, if there is one.
StopApi ==
  /\ main = "close_checker"
  /\ main' = IF api = "absent" THEN "close_dex" ELSE "await_api"
  /\ api' = IF api = "serving" THEN "draining" ELSE api
  /\ UNCHANGED <<workVars, signalled, cancelled, handling, abandoned>>

\* Mutant: the health worker leaves its checker open.
CloseCheckerForgotten == StopApi /\ UNCHANGED open

\* Mutant: the execution client is closed before the server is drained.
CloseCheckerAndJupiter == StopApi /\ open' = open \ {"health", "jupiter"}

\* The last step of HealthWorker.stop.
CloseChecker == StopApi /\ open' = open \ {"health"}

ApiStopped ==
  /\ api = "ended"
  /\ Proceed("await_api", "close_dex", {})
  /\ UNCHANGED open

\* Mutant: no time-out as long as a request is in flight.
ApiTimesOutPatiently ==
  /\ main = "await_api"
  /\ api = "draining"
  /\ ~handling
  /\ api' = "ended"
  /\ main' = "close_dex"
  /\ UNCHANGED <<workVars, signalled, cancelled, handling, abandoned, open>>

\* wait_for gives up after ten seconds and cancels serve, but not the task of
\* the request that serve was waiting for.
ApiTimesOut ==
  /\ main = "await_api"
  /\ api = "draining"
  /\ api' = "ended"
  /\ main' = "close_dex"
  /\ abandoned' = (abandoned \/ handling)
  /\ UNCHANGED <<workVars, signalled, cancelled, handling, open>>

\* Only time-outs and cancellation are caught: an exception of the server
\* ends shutdown before a client is closed.
ApiRaises ==
  /\ api = "failed"
  /\ Proceed("await_api", "crashed", Tasks)
  /\ UNCHANGED open

CloseDex ==
  /\ Proceed("close_dex", IF config.live THEN "close_jupiter" ELSE "exited", {})
  /\ open' = open \ {"dex"}

CloseJupiter ==
  /\ Proceed("close_jupiter", "close_solana", {})
  /\ open' = open \ {"jupiter"}

CloseSolana ==
  /\ Proceed("close_solana", "exited", {})
  /\ open' = open \ {"solana"}

-----------------------------------------------------------------------------
(***************************************************************************)
(* The trading loop: TradingLoop._run.                                     *)
(***************************************************************************)
LoopRuns == loop \in Phases /\ "loop" \notin cancelled

AfterScan == IF config.live THEN {"balance"} ELSE {"sleep"}
AfterLaunch == {"scan"} \cup AfterScan

\* The phases that may be next; scans are taken only when they are due.
NextPhases(phase) ==
  CASE phase = "position" ->
         AfterLaunch \cup (IF config.launches THEN {"launch"} ELSE {})
    [] phase = "launch"   -> AfterLaunch
    [] phase = "scan"     -> AfterScan
    [] phase = "balance"  -> {"sleep"}
    [] OTHER              -> {"position"}

OnlyTheLoop == UNCHANGED <<config, recon, health, api, mainVars>>

Enter(phase) ==
  /\ loop' = phase
  /\ fetch' = IF phase \in ScanPhases THEN ListRequest ELSE Idle
  /\ OnlyTheLoop

\* Beyond the scanner's requests, which swallow their errors themselves.
OutsideFetch == LoopRuns /\ fetch.step \in {"idle", "analyse"}

\* A phase without a scan, or the analysis after one, comes to its end.
PhaseDone ==
  /\ OutsideFetch
  /\ \E phase \in NextPhases(loop) : Enter(phase)
  /\ UNCHANGED loop_error

\* Mutant: the error ends the task.
PhaseFailsLoudly ==
  /\ OutsideFetch
  /\ loop # "sleep"
  /\ loop_error' = TRUE
  /\ Enter("ended")

\* Any exception out of a phase is recorded, and the cycle goes on.
PhaseFails ==
  /\ OutsideFetch
  /\ loop # "sleep"
  /\ loop_error' = TRUE
  /\ \E phase \in NextPhases(loop) : Enter(phase)

FetchGoesOn(next) ==
  /\ fetch' = next
  /\ UNCHANGED <<loop, loop_error>>
  /\ OnlyTheLoop

Fetching == LoopRuns /\ fetch.step \in {"list", "batch"}

\* The addresses of the list are asked for in batches of thirty.
ListAnswered ==
  /\ Fetching
  /\ fetch.step = "list"
  /\ \E n \in 1 .. MaxBatches : FetchGoesOn(BatchRequest(n))

\* An empty list, a list that could not be had, or an answer that could not
\* be read: no snapshots at all, and the cycle of this phase returns.
NothingToScan ==
  /\ Fetching
  /\ \E phase \in NextPhases(loop) : Enter(phase)
  /\ UNCHANGED loop_error

\* A batch was answered, or given up and passed over.
BatchDone ==
  /\ Fetching
  /\ fetch.step = "batch"
  /\ FetchGoesOn(IF fetch.batches > 1 THEN BatchRequest(fetch.batches - 1)
                                      ELSE Analysis)

\* Mutant: one attempt too many.
RequestRetriesOnceMore ==
  /\ Fetching
  /\ fetch.attempt < MaxRetries
  /\ FetchGoesOn([fetch EXCEPT !.attempt = @ + 1])

\* 429, a server error or a time-out, after its back-off.
RequestRetries ==
  /\ Fetching
  /\ fetch.attempt + 1 < MaxRetries
  /\ FetchGoesOn([fetch EXCEPT !.attempt = @ + 1])

LoopStep ==
  \/ PhaseDone
  \/ PhaseFails
  \/ ListAnswered
  \/ NothingToScan
  \/ BatchDone
  \/ RequestRetries

\* CancelledError is no Exception: it leaves every phase and the loop.
LoopUnwinds ==
  /\ loop \in Phases
  /\ "loop" \in cancelled
  /\ Enter("ended")
  /\ UNCHANGED loop_error

-----------------------------------------------------------------------------
(***************************************************************************)
(* The workers.  Whatever a round raises is logged, so a round that fails  *)
(* is a round that ended.                                                  *)
(***************************************************************************)
NextRound(worker, round) ==
  IF worker \in cancelled THEN "ended"
  ELSE IF round = "checking" THEN "sleeping" ELSE "checking"

ReconStep ==
  /\ recon \in Rounds
  /\ recon' = NextRound("recon", recon)
  /\ UNCHANGED <<config, loopVars, health, api, mainVars>>

HealthStep ==
  /\ health \in Rounds
  /\ health' = NextRound("health", health)
  /\ UNCHANGED <<config, loopVars, recon, api, mainVars>>

-----------------------------------------------------------------------------
(***************************************************************************)
(* The web server (uvicorn) and a dashboard sale it handles.               *)
(***************************************************************************)
RequestArrives ==
  /\ api = "serving"
  /\ ~handling
  /\ handling' = TRUE
  /\ UNCHANGED <<taskVars, signalled, main, cancelled, abandoned, open>>

RequestEnds ==
  /\ handling
  /\ handling' = FALSE
  /\ UNCHANGED <<taskVars, signalled, main, cancelled, abandoned, open>>

\* serve returns when the last request has ended, or at a second SIGINT,
\* which makes it leave the requests behind.
ApiDrained ==
  /\ api = "draining"
  /\ handling => signalled
  /\ api' = "ended"
  /\ abandoned' = (abandoned \/ handling)
  /\ UNCHANGED <<workVars, signalled, main, cancelled, handling, open>>

\* An exception of the server stays in its task until someone awaits it; a
\* port that is taken makes uvicorn exit instead, which takes the event loop
\* down: every task is cancelled and run goes to its finally clause.
ApiFails ==
  /\ api = "serving"
  /\ api' = "failed"
  /\ abandoned' = (abandoned \/ handling)
  /\ \/ UNCHANGED <<signalled, cancelled>>
     \/ /\ main = "running"
        /\ ~handling
        /\ signalled' = TRUE
        /\ cancelled' = Tasks
  /\ UNCHANGED <<workVars, main, handling, open>>

-----------------------------------------------------------------------------
MainStep ==
  \/ PreflightPasses
  \/ PreflightAborts
  \/ StartFails
  \/ StartPaper
  \/ StartLive
  \/ FirstBalanceDone
  \/ BeginShutdown
  \/ LoopStopped
  \/ ReconStopped
  \/ HealthStopped
  \/ CloseChecker
  \/ ApiStopped
  \/ ApiTimesOut
  \/ ApiRaises
  \/ CloseDex
  \/ CloseJupiter
  \/ CloseSolana

Next ==
  \/ MainStep
  \/ LoopStep
  \/ LoopUnwinds
  \/ ReconStep
  \/ HealthStep
  \/ Signal
  \/ RequestArrives
  \/ RequestEnds
  \/ ApiDrained
  \/ ApiFails
  \/ \E c \in Clients : OpenClient(c)

Spec == Init /\ [][Next]_vars

\* The event loop runs every task that can run.  Nothing is assumed of the
\* dashboard, its requests, the web server or the signals.
FairSpec ==
  /\ Spec
  /\ WF_vars(MainStep)
  /\ WF_vars(LoopStep)
  /\ WF_vars(LoopUnwinds)
  /\ WF_vars(ReconStep)
  /\ WF_vars(HealthStep)

-----------------------------------------------------------------------------
\* Every variable keeps its shape: the loop starts only when the preflight and
\* the start have passed, and a request is pending exactly in a scan phase, with
\* attempts and batches left (dexscreener.py:54).
RuntimeTypeOK ==
  /\ config \in Configs
  /\ signalled \in BOOLEAN
  /\ main \in Stages
  /\ cancelled \in SUBSET Tasks
  /\ loop \in Phases \cup {"absent", "ended"}
  /\ main \in {"preflight", "starting"} => loop = "absent"
  /\ fetch \in Fetches
  /\ fetch.step = "idle" <=> loop \notin ScanPhases
  /\ loop_error \in BOOLEAN
  /\ recon \in Rounds \cup {"absent", "ended"}
  /\ health \in Rounds \cup {"absent", "ended"}
  /\ api \in {"absent", "serving", "draining", "ended", "failed"}
  /\ handling \in BOOLEAN
  /\ abandoned \in BOOLEAN
  /\ open \in SUBSET Clients

\* Shutdown never pulls a client away from a task that waits for an answer
\* from it.  The one exception is a dashboard sale that outlived its server.
NoClientClosedUnderItsUser ==
  [][\A c \in open \ open' :
       IsUsed(c) => c = "jupiter" /\ abandoned]_vars

\* After a shutdown that reached its end no task is running and, unless a
\* dashboard sale outlived its server, no client is left open, although any
\* user may have reopened one while the others were being stopped.
CleanExitLeavesNothing ==
  main = "exited" =>
    /\ loop = "ended" /\ recon = "ended" /\ health = "ended"
    /\ api \in {"absent", "ended"}
    /\ ~abandoned => ~handling /\ open = {}

\* A signal at any moment ends the process, even while it starts up, and even
\* when a dashboard request never ends.
ShutdownEnds == signalled ~> IsOver

\* The scans share the loop's task with the exits of open positions: failing
\* phases, a scanner that answers nothing and an unfinished list of batches
\* all lead back to the positions, unless the loop is stopped.
LoopKeepsWatching ==
  loop \in Phases \/ loop = "ended"
    ~> loop = "position" \/ "loop" \in cancelled
=============================================================================
