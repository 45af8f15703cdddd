--------------------------- MODULE Runtime_proofs ---------------------------
(***************************************************************************)
(* Proofs about start-up and shutdown, for every number of retries and     *)
(* batches.                                                                *)
(***************************************************************************)
EXTENDS Runtime, TLAPS

-----------------------------------------------------------------------------
\* The cycle stays among its phases, and looks at the wallet in live mode only.
LEMMA NextPhasesArePhases ==
  ASSUME NEW phase \in Phases
  PROVE  /\ NextPhases(phase) \subseteq Phases
         /\ "balance" \in NextPhases(phase) => config.live
BY DEF NextPhases, Phases, AfterScan, AfterLaunch

\* What the scanner may be asking for is a Fetch.
LEMMA RequestsAreFetches ==
  /\ Idle \in Fetches /\ ListRequest \in Fetches /\ Analysis \in Fetches
  /\ \A n \in 1 .. MaxBatches : BatchRequest(n) \in Fetches
BY RuntimeAssumption DEF Fetches, Idle, ListRequest, Analysis, BatchRequest

LEMMA EnterType ==
  ASSUME RuntimeTypeOK, loop # "absent", NEW phase \in Phases \cup {"ended"}, Enter(phase),
         loop_error' \in BOOLEAN
  PROVE  RuntimeTypeOK'
<1>1. fetch' \in Fetches /\ (fetch'.step = "idle" <=> loop' \notin ScanPhases)
  BY RequestsAreFetches DEF Enter, Idle, ListRequest
<1> QED
  BY <1>1 DEF Enter, OnlyTheLoop, mainVars, RuntimeTypeOK

LEMMA FetchType ==
  ASSUME RuntimeTypeOK, NEW next \in Fetches, next.step # "idle",
         fetch.step # "idle", FetchGoesOn(next)
  PROVE  RuntimeTypeOK'
BY DEF FetchGoesOn, OnlyTheLoop, mainVars, RuntimeTypeOK

LEMMA LoopStepType ==
  ASSUME RuntimeTypeOK, LoopStep \/ LoopUnwinds
  PROVE  RuntimeTypeOK'
<1> USE NextPhasesArePhases, EnterType
<1>0. loop \in Phases => loop # "absent"
  BY DEF Phases
<1>1. CASE PhaseDone
  BY <1>0, <1>1 DEF PhaseDone, OutsideFetch, LoopRuns, RuntimeTypeOK
<1>2. CASE PhaseFails
  BY <1>0, <1>2 DEF PhaseFails, OutsideFetch, LoopRuns
<1>3. CASE ListAnswered
  <2>1. PICK n \in 1 .. MaxBatches : FetchGoesOn(BatchRequest(n))
    BY <1>3 DEF ListAnswered
  <2> QED
    BY <1>3, <2>1, FetchType, RequestsAreFetches
    DEF ListAnswered, BatchRequest
<1>4. CASE NothingToScan
  BY <1>0, <1>4 DEF NothingToScan, Fetching, LoopRuns, RuntimeTypeOK
<1>5. CASE BatchDone
  <2>1. fetch.batches \in 0 .. MaxBatches
    BY DEF RuntimeTypeOK, Fetches
  <2>2. fetch.batches > 1 => fetch.batches - 1 \in 1 .. MaxBatches
    BY <2>1, RuntimeAssumption
  <2>3. CASE fetch.batches > 1
    BY <1>5, <2>2, <2>3, FetchType, RequestsAreFetches
    DEF BatchDone, BatchRequest
  <2>4. CASE ~(fetch.batches > 1)
    BY <1>5, <2>4, FetchType, RequestsAreFetches DEF BatchDone, Analysis
  <2> QED
    BY <2>3, <2>4
<1>6. CASE RequestRetries
  <2> DEFINE next == [fetch EXCEPT !.attempt = @ + 1]
  <2>1. next \in Fetches /\ next.step = fetch.step
    BY <1>6, RuntimeAssumption DEF RequestRetries, RuntimeTypeOK, Fetches
  <2>2. FetchGoesOn(next) /\ fetch.step # "idle"
    BY <1>6 DEF RequestRetries, Fetching
  <2> HIDE DEF next
  <2> QED
    BY <2>1, <2>2, FetchType
<1>7. CASE LoopUnwinds
  BY <1>0, <1>7 DEF LoopUnwinds, RuntimeTypeOK
<1> QED
  BY <1>1, <1>2, <1>3, <1>4, <1>5, <1>6, <1>7 DEF LoopStep

LEMMA ProceedType ==
  ASSUME RuntimeTypeOK, NEW from, NEW to \in Stages, NEW cancels \in SUBSET Tasks,
         Proceed(from, to, cancels), open' \subseteq open,
         from = "preflight" \/ to \notin {"preflight", "starting"}
  PROVE  RuntimeTypeOK'
BY DEF Proceed, taskVars, RuntimeTypeOK

LEMMA MainStepType ==
  ASSUME RuntimeTypeOK, MainStep
  PROVE  RuntimeTypeOK'
<1>1. CASE PreflightPasses \/ PreflightAborts \/ StartFails
  BY <1>1, ProceedType DEF PreflightPasses, PreflightAborts, StartFails, Stages
<1>2. CASE BeginShutdown \/ LoopStopped \/ ReconStopped \/ HealthStopped
  BY <1>2, ProceedType
  DEF BeginShutdown, LoopStopped, ReconStopped, HealthStopped, Stages, Tasks
<1>3. CASE ApiStopped \/ ApiRaises
  <2>1. CASE ApiStopped
    BY <2>1 DEF ApiStopped, Proceed, taskVars, RuntimeTypeOK, Stages
  <2>2. CASE ApiRaises
    BY <2>2 DEF ApiRaises, Proceed, taskVars, RuntimeTypeOK, Stages
  <2> QED
    BY <1>3, <2>1, <2>2
<1>4. CASE CloseDex \/ CloseJupiter \/ CloseSolana
  <2>1. CASE CloseDex
    <3>1. CASE config.live
      BY <2>1, <3>1 DEF CloseDex, Proceed, taskVars, RuntimeTypeOK, Stages
    <3>2. CASE ~config.live
      BY <2>1, <3>2 DEF CloseDex, Proceed, taskVars, RuntimeTypeOK, Stages
    <3> QED
      BY <3>1, <3>2
  <2>2. CASE CloseJupiter
    <3>1. /\ Proceed("close_jupiter", "close_solana", {})
          /\ open' \subseteq open
      BY <2>2 DEF CloseJupiter
    <3>2. "close_solana" \in Stages \ {"preflight", "starting"}
      BY DEF Stages
    <3>3. {} \in SUBSET Tasks
      OBVIOUS
    <3> QED
      BY <3>1, <3>2, <3>3, ProceedType
  <2>3. CASE CloseSolana
    <3>1. /\ Proceed("close_solana", "exited", {})
          /\ open' \subseteq open
      BY <2>3 DEF CloseSolana
    <3>2. "exited" \in Stages \ {"preflight", "starting"}
      BY DEF Stages
    <3>3. {} \in SUBSET Tasks
      OBVIOUS
    <3> QED
      BY <3>1, <3>2, <3>3, ProceedType
  <2> QED
    BY <1>4, <2>1, <2>2, <2>3
<1>5. CASE CloseChecker \/ ApiTimesOut
  BY <1>5 DEF CloseChecker, StopApi, ApiTimesOut, workVars, RuntimeTypeOK, Stages
<1>6. CASE StartPaper \/ StartLive
  BY <1>6 DEF StartPaper, StartLive, StartServices, RuntimeTypeOK, Stages, Rounds,
              Phases, ScanPhases
<1>7. CASE FirstBalanceDone
  BY <1>7 DEF FirstBalanceDone, StartServices, loopVars, RuntimeTypeOK, Stages, Rounds
<1> QED
  BY <1>1, <1>2, <1>3, <1>4, <1>5, <1>6, <1>7 DEF MainStep

LEMMA TypeStep ==
  ASSUME RuntimeTypeOK, [Next]_vars
  PROVE  RuntimeTypeOK'
<1>1. CASE MainStep
  BY <1>1, MainStepType
<1>2. CASE LoopStep \/ LoopUnwinds
  BY <1>2, LoopStepType
<1>3. CASE ReconStep \/ HealthStep
  BY <1>3 DEF ReconStep, HealthStep, NextRound, Rounds, loopVars, mainVars,
              RuntimeTypeOK
<1>4. CASE Signal
  <2>1. api' \in {api, "draining"}
    BY <1>4 DEF Signal
  <2> QED
    BY <1>4, <2>1 DEF Signal, workVars, RuntimeTypeOK
<1>5. CASE RequestArrives \/ RequestEnds
  BY <1>5 DEF RequestArrives, RequestEnds, taskVars, RuntimeTypeOK
<1>6. CASE ApiDrained \/ ApiFails
  BY <1>6 DEF ApiDrained, ApiFails, workVars, RuntimeTypeOK
<1>7. ASSUME NEW c \in Clients, OpenClient(c)
      PROVE  RuntimeTypeOK'
  BY <1>7 DEF OpenClient, taskVars, RuntimeTypeOK
<1>8. CASE UNCHANGED vars
  BY <1>8 DEF vars, RuntimeTypeOK
<1> QED
  BY <1>1, <1>2, <1>3, <1>4, <1>5, <1>6, <1>7, <1>8 DEF Next

LEMMA InitType == Init => RuntimeTypeOK
<1> SUFFICES ASSUME Init
             PROVE  RuntimeTypeOK
  OBVIOUS
<1>1. fetch \in Fetches
  BY RequestsAreFetches DEF Init
<1>2. fetch.step = "idle" /\ loop \notin ScanPhases
  BY DEF Init, Idle, ScanPhases
<1> QED
  BY <1>1, <1>2 DEF Init, RuntimeTypeOK, Stages

\* Every variable of the process keeps its shape, and no request is tried more
\* often than MaxRetries.
THEOREM RuntimeTypeCorrect == Spec => []RuntimeTypeOK
BY InitType, TypeStep, PTL DEF Spec

-----------------------------------------------------------------------------
(***************************************************************************)
(* What shutdown has behind it at each of its stages.                      *)
(***************************************************************************)
CheckerClosed == {"await_api", "close_dex", "close_jupiter", "close_solana",
                  "exited"}
ApiGone == {"close_dex", "close_jupiter", "close_solana", "exited"}
HealthGone == {"close_checker"} \cup CheckerClosed
ReconGone == {"await_health"} \cup HealthGone
LoopGone == {"await_recon"} \cup ReconGone

TasksGone ==
  /\ main \in {"preflight", "starting", "first_balance"} => api = "absent"
  /\ main \in LoopGone => loop = "ended"
  /\ main \in ReconGone => recon = "ended"
  /\ main \in HealthGone => health = "ended"
  /\ main \in ApiGone => api \in {"absent", "ended"}

\* A dashboard sale outside its server was abandoned.
SalesServed == handling /\ ~abandoned => api \in {"serving", "draining"}

\* In paper mode nobody needs the clients of the chain.
PaperStaysOffChain ==
  ~config.live =>
    /\ open \cap {"jupiter", "solana"} = {}
    /\ main \notin {"first_balance", "close_jupiter", "close_solana"}
    /\ loop # "balance"

ClientsClosed ==
  /\ main \in CheckerClosed => "health" \notin open
  /\ main \in {"close_jupiter", "close_solana", "exited"} => "dex" \notin open
  /\ main \in {"close_solana", "exited"} /\ ~abandoned => "jupiter" \notin open
  /\ main = "exited" => "solana" \notin open

ShutdownInv ==
  RuntimeTypeOK /\ TasksGone /\ SalesServed /\ PaperStaysOffChain /\ ClientsClosed

\* A task that is gone uses nothing.
LEMMA GoneUsesNothing ==
  ASSUME ShutdownInv
  PROVE  /\ main \in LoopGone => \A c \in Clients : ~LoopUses(c)
         /\ main \in HealthGone => \A c \in Clients : ~HealthUses(c)
         /\ main \in ApiGone /\ ~abandoned => \A c \in Clients : ~RequestUses(c)
<1>1. loop = "ended" => fetch.step = "idle"
  BY DEF ShutdownInv, RuntimeTypeOK, ScanPhases
<1>2. main \in LoopGone => \A c \in Clients : ~LoopUses(c)
  BY <1>1 DEF ShutdownInv, TasksGone, LoopUses
<1>3. main \in HealthGone => \A c \in Clients : ~HealthUses(c)
  BY DEF ShutdownInv, TasksGone, HealthUses
<1>4. main \in ApiGone /\ ~abandoned => \A c \in Clients : ~RequestUses(c)
  BY DEF ShutdownInv, TasksGone, SalesServed, RequestUses
<1> QED
  BY <1>2, <1>3, <1>4

LEMMA MainStepKeeps ==
  ASSUME ShutdownInv, RuntimeTypeOK', MainStep
  PROVE  ShutdownInv'
<1> USE DEF ShutdownInv, TasksGone, SalesServed, PaperStaysOffChain,
            ClientsClosed, LoopGone, ReconGone, HealthGone, ApiGone,
            CheckerClosed
<1>1. CASE PreflightPasses \/ PreflightAborts \/ StartFails
  BY <1>1 DEF PreflightPasses, PreflightAborts, StartFails, Proceed, taskVars
<1>2. CASE StartPaper \/ StartLive
  BY <1>2 DEF StartPaper, StartLive, StartServices
<1>3. CASE FirstBalanceDone
  BY <1>3 DEF FirstBalanceDone, StartServices, loopVars
<1>4. CASE BeginShutdown \/ LoopStopped
  BY <1>4 DEF BeginShutdown, LoopStopped, Proceed, taskVars
<1>5. CASE ReconStopped \/ HealthStopped
  BY <1>5 DEF ReconStopped, HealthStopped, Proceed, taskVars
<1>6. CASE CloseChecker
  BY <1>6 DEF CloseChecker, StopApi, workVars
<1>7. CASE ApiStopped \/ ApiRaises
  BY <1>7 DEF ApiStopped, ApiRaises, Proceed, taskVars
<1>8. CASE ApiTimesOut
  BY <1>8 DEF ApiTimesOut, workVars
<1>9. CASE CloseDex
  BY <1>9 DEF CloseDex, Proceed, taskVars
<1>10. CASE CloseJupiter
  BY <1>10 DEF CloseJupiter, Proceed, taskVars
<1>11. CASE CloseSolana
  BY <1>11 DEF CloseSolana, Proceed, taskVars
<1> QED
  BY <1>1, <1>2, <1>3, <1>4, <1>5, <1>6, <1>7, <1>8, <1>9, <1>10, <1>11
  DEF MainStep

LEMMA LoopStepKeeps ==
  ASSUME ShutdownInv, RuntimeTypeOK', LoopStep \/ LoopUnwinds
  PROVE  ShutdownInv'
<1>1. loop \in Phases /\ UNCHANGED <<config, recon, health, api, mainVars>>
  BY DEF LoopStep, LoopUnwinds, PhaseDone, PhaseFails, ListAnswered,
         NothingToScan, BatchDone, RequestRetries, OutsideFetch, Fetching,
         LoopRuns, Enter, FetchGoesOn, OnlyTheLoop
<1>2. main \notin LoopGone
  BY <1>1 DEF ShutdownInv, TasksGone, Phases
<1>3. ~config.live => loop' # "balance"
  BY <1>1, NextPhasesArePhases
  DEF LoopStep, LoopUnwinds, PhaseDone, PhaseFails, ListAnswered,
      NothingToScan, BatchDone, RequestRetries, Enter, FetchGoesOn,
      ShutdownInv, PaperStaysOffChain
<1>4. TasksGone' /\ SalesServed' /\ ClientsClosed'
  BY <1>1, <1>2
  DEF mainVars, ShutdownInv, TasksGone, SalesServed, ClientsClosed, LoopGone,
      ReconGone
<1>5. PaperStaysOffChain'
  BY <1>1, <1>3 DEF mainVars, ShutdownInv, PaperStaysOffChain
<1> QED
  BY <1>4, <1>5 DEF ShutdownInv

LEMMA WorkersKeep ==
  ASSUME ShutdownInv, RuntimeTypeOK', ReconStep \/ HealthStep
  PROVE  ShutdownInv'
BY DEF ReconStep, HealthStep, NextRound, Rounds, loopVars, mainVars,
       ShutdownInv, TasksGone, SalesServed, PaperStaysOffChain, ClientsClosed

LEMMA ServerKeeps ==
  ASSUME ShutdownInv, RuntimeTypeOK',
         \/ Signal \/ RequestArrives \/ RequestEnds
         \/ ApiDrained \/ ApiFails
  PROVE  ShutdownInv'
<1> USE DEF ShutdownInv, TasksGone, SalesServed, PaperStaysOffChain,
            ClientsClosed
<1>1. CASE Signal
  <2>1. \/ api' = api
        \/ api = "serving" /\ api' = "draining"
    BY <1>1 DEF Signal
  <2> QED
    BY <1>1, <2>1 DEF Signal, workVars, ApiGone
<1>2. CASE RequestArrives \/ RequestEnds
  BY <1>2 DEF RequestArrives, RequestEnds, taskVars
<1>3. CASE ApiDrained
  BY <1>3 DEF ApiDrained, workVars
<1>4. CASE ApiFails
  BY <1>4 DEF ApiFails, workVars
<1> QED
  BY <1>1, <1>2, <1>3, <1>4

LEMMA OpeningKeeps ==
  ASSUME ShutdownInv, RuntimeTypeOK', NEW c \in Clients, OpenClient(c)
  PROVE  ShutdownInv'
<1>1. UNCHANGED <<taskVars, main, handling, abandoned>>
      /\ open' = open \cup {c}
  BY DEF OpenClient
<1>2. TasksGone' /\ SalesServed'
  BY <1>1 DEF taskVars, ShutdownInv, TasksGone, SalesServed
<1>3. PaperStaysOffChain'
  BY <1>1 DEF OpenClient, LoopUses, HealthUses, RequestUses, MainUses, taskVars,
              ShutdownInv, PaperStaysOffChain
<1>4. LoopUses(c) \/ HealthUses(c) \/ RequestUses(c) \/ MainUses(c)
  BY DEF OpenClient
<1>5. main \in CheckerClosed => c # "health"
  BY <1>4, GoneUsesNothing
  DEF LoopUses, RequestUses, MainUses, CheckerClosed, HealthGone
<1>6. main \in {"close_jupiter", "close_solana", "exited"} => c # "dex"
  BY <1>4, GoneUsesNothing
  DEF HealthUses, RequestUses, MainUses, LoopGone, ReconGone, HealthGone,
      CheckerClosed
<1>7. main \in {"close_solana", "exited"} /\ ~abandoned => c # "jupiter"
  BY <1>4, GoneUsesNothing
  DEF HealthUses, MainUses, LoopGone, ReconGone, HealthGone, CheckerClosed,
      ApiGone
<1>8. main = "exited" => c # "solana"
  BY <1>4, GoneUsesNothing
  DEF HealthUses, RequestUses, MainUses, LoopGone, ReconGone, HealthGone,
      CheckerClosed
<1>9. ClientsClosed'
  BY <1>1, <1>5, <1>6, <1>7, <1>8 DEF ShutdownInv, ClientsClosed
<1> QED
  BY <1>2, <1>3, <1>9 DEF ShutdownInv

LEMMA ShutdownStep ==
  ASSUME ShutdownInv, [Next]_vars
  PROVE  ShutdownInv'
<1>1. RuntimeTypeOK'
  BY TypeStep DEF ShutdownInv
<1>2. CASE UNCHANGED vars
  BY <1>1, <1>2 DEF vars, ShutdownInv, TasksGone, SalesServed,
                    PaperStaysOffChain, ClientsClosed
<1>3. CASE Next
  BY <1>1, <1>3, MainStepKeeps, LoopStepKeeps, WorkersKeep, ServerKeeps,
     OpeningKeeps DEF Next
<1> QED
  BY <1>2, <1>3

\* The inductive invariant of shutdown: at each stage the tasks stopped so far
\* are gone, and what was closed so far is not open again.
THEOREM ShutdownInvariant == Spec => []ShutdownInv
<1>1. Init => ShutdownInv
  <2> SUFFICES ASSUME Init
               PROVE  ShutdownInv
    OBVIOUS
  <2>1. RuntimeTypeOK
    BY InitType
  <2>2. TasksGone /\ SalesServed /\ PaperStaysOffChain /\ ClientsClosed
    BY DEF Init, TasksGone, SalesServed, PaperStaysOffChain, ClientsClosed,
           LoopGone, ReconGone, HealthGone, CheckerClosed, ApiGone
  <2> QED
    BY <2>1, <2>2 DEF ShutdownInv
<1> QED
  BY <1>1, ShutdownStep, PTL DEF Spec

-----------------------------------------------------------------------------
\* A shutdown that reached its end leaves no task and, unless a dashboard sale
\* outlived its server, no client behind.
THEOREM CleanExit == Spec => []CleanExitLeavesNothing
<1>1. ShutdownInv => CleanExitLeavesNothing
  <2> SUFFICES ASSUME ShutdownInv, main = "exited"
               PROVE  /\ loop = "ended" /\ recon = "ended" /\ health = "ended"
                      /\ api \in {"absent", "ended"}
                      /\ ~abandoned => ~handling /\ open = {}
    BY DEF CleanExitLeavesNothing
  <2> USE DEF ShutdownInv, LoopGone, ReconGone, HealthGone, CheckerClosed,
              ApiGone
  <2>1. /\ loop = "ended" /\ recon = "ended" /\ health = "ended"
        /\ api \in {"absent", "ended"}
    BY DEF TasksGone
  <2>2. ~abandoned => ~handling
    BY <2>1 DEF SalesServed
  <2>3. ~abandoned => \A c \in Clients : c \notin open
    BY DEF ClientsClosed, Clients
  <2> QED
    BY <2>1, <2>2, <2>3 DEF RuntimeTypeOK
<1> QED
  BY <1>1, ShutdownInvariant, PTL

\* Only shutdown closes clients, each after everyone who might be using it.
THEOREM ClientsOutliveUsers == Spec => NoClientClosedUnderItsUser
<1>1. ShutdownInv /\ [Next]_vars
        => [\A c \in open \ open' : IsUsed(c) => c = "jupiter" /\ abandoned]_vars
  <2> SUFFICES ASSUME ShutdownInv, Next, NEW c \in open \ open', IsUsed(c)
               PROVE  c = "jupiter" /\ abandoned
    OBVIOUS
  <2>1. CloseChecker \/ CloseDex \/ CloseJupiter \/ CloseSolana
    BY DEF Next, MainStep, LoopStep, PreflightPasses, PreflightAborts,
           StartFails, StartPaper, StartLive, FirstBalanceDone, BeginShutdown,
           LoopStopped, ReconStopped, HealthStopped, ApiStopped, ApiTimesOut,
           ApiRaises, PhaseDone, PhaseFails, ListAnswered, NothingToScan,
           BatchDone, RequestRetries, LoopUnwinds, Enter, FetchGoesOn,
           OnlyTheLoop, ReconStep, HealthStep, Signal, RequestArrives,
           RequestEnds, ApiDrained, ApiFails, OpenClient, mainVars
  <2> USE GoneUsesNothing
      DEF IsUsed, Proceed, LoopGone, ReconGone, HealthGone, CheckerClosed,
          ApiGone, MainUses
  <2>2. c \in Clients
    BY DEF ShutdownInv, RuntimeTypeOK
  <2>3. CASE CloseChecker
    BY <2>2, <2>3 DEF CloseChecker, StopApi, LoopUses, RequestUses
  <2>4. CASE CloseDex
    BY <2>2, <2>4 DEF CloseDex, HealthUses, RequestUses
  <2>5. CASE CloseJupiter
    BY <2>2, <2>5 DEF CloseJupiter, HealthUses
  <2>6. CASE CloseSolana
    BY <2>2, <2>6 DEF CloseSolana, HealthUses, RequestUses
  <2> QED
    BY <2>1, <2>3, <2>4, <2>5, <2>6
<1> QED
  BY <1>1, ShutdownInvariant, PTL DEF Spec, NoClientClosedUnderItsUser

-----------------------------------------------------------------------------
(***************************************************************************)
(* Shutdown is never stuck.  This is what ShutdownEnds adds fairness to:   *)
(* main goes through its awaits in one direction, each is for a task that  *)
(* was told to stop, and such a task ends with its next step.              *)
(***************************************************************************)
Place(stage) ==
  CASE stage = "preflight"     -> 0
    [] stage = "starting"      -> 1
    [] stage = "first_balance" -> 2
    [] stage = "running"       -> 3
    [] stage = "await_loop"    -> 4
    [] stage = "await_recon"   -> 5
    [] stage = "await_health"  -> 6
    [] stage = "close_checker" -> 7
    [] stage = "await_api"     -> 8
    [] stage = "close_dex"     -> 9
    [] stage = "close_jupiter" -> 10
    [] stage = "close_solana"  -> 11
    [] OTHER                   -> 12

\* run() never comes back to an await it has left.
MainMovesOn == [][main' # main => Place(main) < Place(main')]_vars

\* A task that main waits for exists and has ended or was told to.
WaitsForTheStopped ==
  /\ main = "await_loop" =>
       loop = "ended" \/ (loop \in Phases /\ "loop" \in cancelled)
  /\ main = "await_recon" =>
       recon = "ended" \/ (recon \in Rounds /\ "recon" \in cancelled)
  /\ main = "await_health" =>
       health = "ended" \/ (health \in Rounds /\ "health" \in cancelled)
  /\ main = "await_api" => api \in {"draining", "ended", "failed"}

\* What a task does after it was told to stop is end, for good.
StoppedTasksEnd ==
  [][/\ (loop = "ended" \/ "loop" \in cancelled) /\ loop' # loop => loop' = "ended"
     /\ (recon = "ended" \/ "recon" \in cancelled) /\ recon' # recon => recon' = "ended"
     /\ (health = "ended" \/ "health" \in cancelled) /\ health' # health =>
          health' = "ended"
     /\ cancelled \subseteq cancelled']_vars

LoopStarted == {"first_balance", "running", "await_loop"} \cup LoopGone
WorkersStarted == {"running", "await_loop"} \cup LoopGone

\* The tasks exist by the time they are cancelled, and are cancelled before they
\* are awaited.
Attended ==
  /\ main \in LoopStarted => loop # "absent"
  /\ main \in WorkersStarted => recon # "absent" /\ health # "absent"
  /\ main = "await_loop" => "loop" \in cancelled
  /\ main = "await_recon" => "recon" \in cancelled
  /\ main = "await_health" => "health" \in cancelled
  /\ main = "await_api" => api \in {"draining", "ended", "failed"}

\* Nobody but main moves main, and nobody but start creates a task.
LEMMA TasksLeaveMain ==
  ASSUME RuntimeTypeOK, Next, ~MainStep
  PROVE  /\ main' = main
         /\ cancelled \subseteq cancelled'
         /\ loop = "absent" <=> loop' = "absent"
         /\ recon = "absent" <=> recon' = "absent"
         /\ health = "absent" <=> health' = "absent"
         /\ api \in {"draining", "ended", "failed"} => api' \in {"draining", "ended", "failed"}
<1>1. CASE LoopStep \/ LoopUnwinds
  <2>1. /\ loop \in Phases /\ UNCHANGED <<config, recon, health, api, mainVars>>
        /\ loop' \in Phases \cup {"ended"}
    BY <1>1, NextPhasesArePhases
    DEF LoopStep, LoopUnwinds, PhaseDone, PhaseFails, ListAnswered,
        NothingToScan, BatchDone, RequestRetries, OutsideFetch, Fetching,
        LoopRuns, Enter, FetchGoesOn, OnlyTheLoop
  <2> QED
    BY <2>1 DEF mainVars, Phases
<1>2. CASE ReconStep \/ HealthStep
  BY <1>2 DEF ReconStep, HealthStep, NextRound, Rounds, loopVars, mainVars, RuntimeTypeOK
<1>3. CASE Signal
  <2>1. api' \in {api, "draining"}
    BY <1>3 DEF Signal
  <2> QED
    BY <1>3, <2>1 DEF Signal, workVars
<1>4. CASE RequestArrives \/ RequestEnds
  BY <1>4 DEF RequestArrives, RequestEnds, taskVars
<1>5. CASE ApiDrained \/ ApiFails
  BY <1>5 DEF ApiDrained, ApiFails, workVars, RuntimeTypeOK
<1>6. ASSUME NEW c \in Clients, OpenClient(c)
      PROVE  UNCHANGED <<taskVars, main, cancelled>>
  BY <1>6 DEF OpenClient
<1> QED
  BY <1>1, <1>2, <1>3, <1>4, <1>5, <1>6 DEF Next, taskVars

LEMMA AttendedStep ==
  ASSUME RuntimeTypeOK, Attended, [Next]_vars
  PROVE  Attended'
<1> USE DEF Attended, LoopStarted, WorkersStarted, LoopGone, ReconGone, HealthGone,
            CheckerClosed
<1>1. CASE PreflightPasses \/ PreflightAborts \/ StartFails
  BY <1>1 DEF PreflightPasses, PreflightAborts, StartFails, Proceed, taskVars
<1>2. CASE StartPaper \/ StartLive \/ FirstBalanceDone
  BY <1>2 DEF StartPaper, StartLive, FirstBalanceDone, StartServices, loopVars
<1>3. CASE BeginShutdown \/ LoopStopped \/ ReconStopped \/ HealthStopped
  BY <1>3 DEF BeginShutdown, LoopStopped, ReconStopped, HealthStopped, Proceed, taskVars
<1>4. CASE CloseChecker
  BY <1>4 DEF CloseChecker, StopApi, workVars, RuntimeTypeOK
<1>5. CASE ApiStopped \/ ApiTimesOut \/ ApiRaises
  BY <1>5 DEF ApiStopped, ApiTimesOut, ApiRaises, Proceed, taskVars, workVars
<1>6. CASE CloseDex \/ CloseJupiter \/ CloseSolana
  BY <1>6 DEF CloseDex, CloseJupiter, CloseSolana, Proceed, taskVars
<1>7. CASE Next /\ ~MainStep
  BY <1>7, TasksLeaveMain
<1>8. CASE UNCHANGED vars
  BY <1>8 DEF vars
<1> QED
  BY <1>1, <1>2, <1>3, <1>4, <1>5, <1>6, <1>7, <1>8 DEF MainStep

\* Whatever start-up, the dashboard and the tasks do, run() is never left waiting
\* for a task that nobody stopped or that was never there, and each of its steps
\* takes it on: twelve at most.
THEOREM ShutdownIsNeverStuck == Spec => []WaitsForTheStopped /\ MainMovesOn
<1>1. Init => RuntimeTypeOK /\ Attended
  BY InitType
  DEF Init, Attended, LoopStarted, WorkersStarted, LoopGone, ReconGone, HealthGone,
      CheckerClosed
<1>2. RuntimeTypeOK /\ Attended /\ [Next]_vars => (RuntimeTypeOK /\ Attended)'
  BY TypeStep, AttendedStep
<1>3. RuntimeTypeOK /\ Attended => WaitsForTheStopped
  BY DEF RuntimeTypeOK, Attended, WaitsForTheStopped, LoopStarted, WorkersStarted, LoopGone,
         ReconGone
<1>4. RuntimeTypeOK /\ [Next]_vars => [main' # main => Place(main) < Place(main')]_vars
  <2> SUFFICES ASSUME RuntimeTypeOK, Next, main' # main
               PROVE  Place(main) < Place(main')
    OBVIOUS
  <2>1. MainStep
    BY TasksLeaveMain
  <2>2. CASE PreflightPasses \/ PreflightAborts \/ StartFails \/ StartPaper \/ StartLive
    BY <2>2 DEF PreflightPasses, PreflightAborts, StartFails, Proceed, StartPaper,
                StartLive, StartServices, Place
  <2>3. CASE FirstBalanceDone \/ BeginShutdown \/ LoopStopped \/ ReconStopped \/ HealthStopped
    BY <2>3 DEF FirstBalanceDone, StartServices, BeginShutdown, LoopStopped,
                ReconStopped, HealthStopped, Proceed, Place
  <2>4. CASE CloseChecker \/ ApiStopped \/ ApiTimesOut \/ ApiRaises
    BY <2>4 DEF CloseChecker, StopApi, ApiStopped, ApiTimesOut, ApiRaises, Proceed, Place
  <2>5. CASE CloseDex \/ CloseJupiter \/ CloseSolana
    BY <2>5 DEF CloseDex, CloseJupiter, CloseSolana, Proceed, Place
  <2> QED
    BY <2>1, <2>2, <2>3, <2>4, <2>5 DEF MainStep
<1> QED
  BY <1>1, <1>2, <1>3, <1>4, PTL DEF Spec, MainMovesOn

\* Nothing is stopped before start has created everything.
NothingStopped ==
  main \in {"preflight", "starting", "first_balance"} =>
    cancelled = {} /\ recon = "absent" /\ health = "absent"

LEMMA NothingStoppedStep ==
  ASSUME RuntimeTypeOK, NothingStopped, [Next]_vars
  PROVE  NothingStopped'
<1> USE DEF NothingStopped
<1>1. CASE MainStep
  BY <1>1
  DEF MainStep, PreflightPasses, PreflightAborts, StartFails, StartPaper, StartLive,
      FirstBalanceDone, BeginShutdown, LoopStopped, ReconStopped, HealthStopped,
      CloseChecker, StopApi, ApiStopped, ApiTimesOut, ApiRaises, CloseDex, CloseJupiter,
      CloseSolana, StartServices, Proceed, taskVars, workVars, loopVars
<1>2. CASE Next /\ ~MainStep
  <2>1. main' = main
    BY <1>2, TasksLeaveMain
  <2>2. recon = "absent" /\ health = "absent" => recon' = "absent" /\ health' = "absent"
    BY <1>2, TasksLeaveMain
  <2>3. main # "running" => cancelled' = cancelled
    BY <1>2
    DEF Next, LoopStep, LoopUnwinds, PhaseDone, PhaseFails, ListAnswered, NothingToScan,
        BatchDone, RequestRetries, Enter, FetchGoesOn, OnlyTheLoop, ReconStep, HealthStep,
        Signal, RequestArrives, RequestEnds, ApiDrained, ApiFails, OpenClient, mainVars
  <2> QED
    BY <2>1, <2>2, <2>3
<1>3. CASE UNCHANGED vars
  BY <1>3 DEF vars
<1> QED
  BY <1>1, <1>2, <1>3

\* A cancelled task does nothing but end, an ended one stays ended, and a
\* cancellation is never taken back.
THEOREM StoppedStaysStopped == Spec => StoppedTasksEnd
<1>1. Init => RuntimeTypeOK /\ NothingStopped
  BY InitType DEF Init, NothingStopped
<1>2. RuntimeTypeOK /\ NothingStopped /\ [Next]_vars => (RuntimeTypeOK /\ NothingStopped)'
  BY TypeStep, NothingStoppedStep
<1>3. RuntimeTypeOK /\ NothingStopped /\ [Next]_vars =>
        [/\ (loop = "ended" \/ "loop" \in cancelled) /\ loop' # loop => loop' = "ended"
         /\ (recon = "ended" \/ "recon" \in cancelled) /\ recon' # recon => recon' = "ended"
         /\ (health = "ended" \/ "health" \in cancelled) /\ health' # health =>
              health' = "ended"
         /\ cancelled \subseteq cancelled']_vars
  <2> SUFFICES ASSUME RuntimeTypeOK, NothingStopped, Next
               PROVE  /\ (loop = "ended" \/ "loop" \in cancelled) /\ loop' # loop =>
                           loop' = "ended"
                      /\ (recon = "ended" \/ "recon" \in cancelled) /\ recon' # recon =>
                           recon' = "ended"
                      /\ (health = "ended" \/ "health" \in cancelled) /\ health' # health =>
                           health' = "ended"
                      /\ cancelled \subseteq cancelled'
    OBVIOUS
  <2>1. CASE MainStep
    <3>1. cancelled \subseteq cancelled'
      BY <2>1
      DEF MainStep, PreflightPasses, PreflightAborts, StartFails, StartPaper, StartLive,
          FirstBalanceDone, BeginShutdown, LoopStopped, ReconStopped, HealthStopped,
          CloseChecker, StopApi, ApiStopped, ApiTimesOut, ApiRaises, CloseDex,
          CloseJupiter, CloseSolana, StartServices, Proceed, taskVars, workVars, RuntimeTypeOK
    <3>2. \/ UNCHANGED <<loop, recon, health>>
          \/ main \in {"starting", "first_balance"} /\ (main = "first_balance" => loop' = loop)
      BY <2>1
      DEF MainStep, PreflightPasses, PreflightAborts, StartFails, StartPaper, StartLive,
          FirstBalanceDone, BeginShutdown, LoopStopped, ReconStopped, HealthStopped,
          CloseChecker, StopApi, ApiStopped, ApiTimesOut, ApiRaises, CloseDex,
          CloseJupiter, CloseSolana, Proceed, taskVars, workVars, loopVars
    <3> QED
      BY <3>1, <3>2 DEF NothingStopped, RuntimeTypeOK
  <2>2. CASE LoopStep \/ LoopUnwinds
    BY <2>2
    DEF LoopStep, LoopUnwinds, PhaseDone, PhaseFails, ListAnswered, NothingToScan,
        BatchDone, RequestRetries, OutsideFetch, Fetching, LoopRuns, Enter, FetchGoesOn,
        OnlyTheLoop, mainVars, Phases
  <2>3. CASE ReconStep \/ HealthStep
    BY <2>3 DEF ReconStep, HealthStep, NextRound, Rounds, loopVars, mainVars
  <2>4. CASE Next /\ ~MainStep /\ ~(LoopStep \/ LoopUnwinds) /\ ~(ReconStep \/ HealthStep)
    <3>1. UNCHANGED <<loop, recon, health>>
      BY <2>4
      DEF Next, Signal, RequestArrives, RequestEnds, ApiDrained, ApiFails, OpenClient,
          taskVars, workVars
    <3>2. cancelled \subseteq cancelled'
      BY <2>4, TasksLeaveMain
    <3> QED
      BY <3>1, <3>2
  <2> QED
    BY <2>1, <2>2, <2>3, <2>4
<1> QED
  BY <1>1, <1>2, <1>3, PTL DEF Spec, StoppedTasksEnd

-----------------------------------------------------------------------------
(***************************************************************************)
(* A cycle is bounded.  This is what LoopKeepsWatching adds fairness to:   *)
(* every step of the loop goes on to a later phase, back to the positions, *)
(* or leaves fewer requests to make.                                       *)
(***************************************************************************)
PhasesLeft(phase) ==
  CASE phase = "position" -> 4
    [] phase = "launch"   -> 3
    [] phase = "scan"     -> 2
    [] phase = "balance"  -> 1
    [] OTHER              -> 0

\* Attempts that a request and those after it may still take.
Attempts(request) ==
  CASE request.step = "list"    -> (MaxBatches + 1) * MaxRetries + 1 - request.attempt
    [] request.step = "batch"   -> request.batches * MaxRetries + 1 - request.attempt
    [] request.step = "analyse" -> 1
    [] OTHER                    -> 0

CycleAdvances ==
  [][(loop \in Phases /\ loop' \in Phases) =>
       \/ UNCHANGED <<loop, fetch>>
       \/ loop' = loop /\ Attempts(fetch') < Attempts(fetch)
       \/ PhasesLeft(loop') < PhasesLeft(loop)
       \/ loop = "sleep" /\ loop' = "position"]_vars

\* An answered list, a batch that is done and a retry leave fewer attempts.
LEMMA AttemptsDrop ==
  ASSUME NEW request \in Fetches, NEW n \in 1 .. MaxBatches,
         request.step = "batch" => request.batches > 0
  PROVE  /\ Attempts(request) \in 0 .. (MaxBatches + 1) * MaxRetries + 1
         /\ request.step = "list" => Attempts(BatchRequest(n)) < Attempts(request)
         /\ request.step = "batch" =>
              Attempts(Analysis) < Attempts(request)
         /\ request.step = "batch" /\ request.batches > 1 =>
              Attempts(BatchRequest(request.batches - 1)) < Attempts(request)
         /\ request.step \in {"list", "batch"} /\ request.attempt + 1 < MaxRetries =>
              Attempts([request EXCEPT !.attempt = @ + 1]) < Attempts(request)
<1> USE RuntimeAssumption
<1> DEFINE k == request.batches
           a == request.attempt
<1>1. k \in 0 .. MaxBatches /\ a \in Nat /\ a < MaxRetries
  BY DEF Fetches
<1>2. /\ k * MaxRetries \in Nat /\ n * MaxRetries \in Nat
      /\ MaxBatches * MaxRetries \in Nat
      /\ k * MaxRetries <= MaxBatches * MaxRetries
      /\ n * MaxRetries <= MaxBatches * MaxRetries
      /\ (MaxBatches + 1) * MaxRetries = MaxBatches * MaxRetries + MaxRetries
      /\ k > 0 => k * MaxRetries >= MaxRetries
      /\ k > 1 => (k - 1) * MaxRetries = k * MaxRetries - MaxRetries
  <2>1. \A i \in Nat, j \in Nat : i <= j => i * MaxRetries <= j * MaxRetries
    BY SMTT(30)
  <2>2. \A i \in Nat : i * MaxRetries \in Nat
    BY SMTT(30)
  <2>3. (MaxBatches + 1) * MaxRetries = MaxBatches * MaxRetries + MaxRetries
    BY SMTT(30)
  <2>4. k > 0 => 1 * MaxRetries <= k * MaxRetries
    BY <1>1, <2>1
  <2>5. k > 1 => (k - 1) * MaxRetries = k * MaxRetries - MaxRetries
    BY <1>1, SMTT(30)
  <2> QED
    BY <1>1, <2>1, <2>2, <2>3, <2>4, <2>5
<1>3. /\ request.step = "list" => Attempts(request) = (MaxBatches + 1) * MaxRetries + 1 - a
      /\ request.step = "batch" => Attempts(request) = k * MaxRetries + 1 - a
      /\ request.step = "analyse" => Attempts(request) = 1
      /\ request.step = "idle" => Attempts(request) = 0
  BY DEF Attempts
<1>4. /\ \A m \in Nat : Attempts(BatchRequest(m)) = m * MaxRetries + 1 - 0
      /\ Attempts(Analysis) = 1
  BY DEF Attempts, BatchRequest, Analysis
<1>5. request.step \in {"list", "batch"} =>
        Attempts([request EXCEPT !.attempt = @ + 1]) =
          (IF request.step = "list" THEN (MaxBatches + 1) * MaxRetries ELSE k * MaxRetries)
            + 1 - (a + 1)
  BY DEF Attempts, Fetches
<1>6. /\ request.step \in {"idle", "list", "batch", "analyse"}
      /\ request.step = "batch" => k > 0
  BY DEF Fetches
<1>7. k > 1 => Attempts(BatchRequest(k - 1)) = k * MaxRetries - MaxRetries + 1
  BY <1>1, <1>2, <1>4
<1>8. Attempts(BatchRequest(n)) = n * MaxRetries + 1
  BY <1>2, <1>4
<1> HIDE DEF k, a
<1>9. Attempts(request) \in 0 .. (MaxBatches + 1) * MaxRetries + 1
  BY <1>1, <1>2, <1>3, <1>6
<1>10. request.step = "list" => Attempts(BatchRequest(n)) < Attempts(request)
  BY <1>1, <1>2, <1>3, <1>8
<1>11. request.step = "batch" => Attempts(Analysis) < Attempts(request)
  BY <1>1, <1>2, <1>3, <1>4, <1>6
<1>12. request.step = "batch" /\ k > 1 => Attempts(BatchRequest(k - 1)) < Attempts(request)
  BY <1>1, <1>2, <1>3, <1>7
<1>13. request.step \in {"list", "batch"} =>
         Attempts([request EXCEPT !.attempt = @ + 1]) < Attempts(request)
  BY <1>1, <1>2, <1>3, <1>5
<1> QED
  BY <1>9, <1>10, <1>11, <1>12, <1>13 DEF k, a

\* A batch is asked for only if there is one.
BatchesLeft == fetch.step = "batch" => fetch.batches > 0

\* What the steps of the loop do to its phase and its request.
LEMMA LoopMoves ==
  ASSUME RuntimeTypeOK, BatchesLeft, LoopStep
  PROVE  /\ loop \in Phases
         /\ \/ /\ loop' = loop
               /\ \/ fetch.step = "list" /\ \E n \in 1 .. MaxBatches : fetch' = BatchRequest(n)
                  \/ fetch.step = "batch" /\ fetch' = Analysis
                  \/ /\ fetch.step = "batch" /\ fetch.batches > 1
                     /\ fetch' = BatchRequest(fetch.batches - 1)
                  \/ /\ fetch.step \in {"list", "batch"} /\ fetch.attempt + 1 < MaxRetries
                     /\ fetch' = [fetch EXCEPT !.attempt = @ + 1]
            \/ /\ loop' \in NextPhases(loop)
               /\ fetch' = IF loop' \in ScanPhases THEN ListRequest ELSE Idle
<1>1. CASE PhaseDone \/ PhaseFails \/ NothingToScan
  BY <1>1 DEF PhaseDone, PhaseFails, NothingToScan, OutsideFetch, Fetching, LoopRuns, Enter
<1>2. CASE ListAnswered \/ RequestRetries
  BY <1>2 DEF ListAnswered, RequestRetries, Fetching, LoopRuns, FetchGoesOn
<1>3. CASE BatchDone
  BY <1>3 DEF BatchDone, Fetching, LoopRuns, FetchGoesOn
<1> QED
  BY <1>1, <1>2, <1>3 DEF LoopStep

\* Nobody else touches them while the loop lives.
LEMMA OthersLeaveTheLoop ==
  ASSUME RuntimeTypeOK, Next, ~LoopStep
  PROVE  \/ UNCHANGED <<loop, fetch>>
         \/ loop' \notin Phases /\ fetch' = Idle
         \/ loop \notin Phases /\ fetch' = fetch
<1>1. CASE MainStep
  BY <1>1
  DEF MainStep, PreflightPasses, PreflightAborts, StartFails, StartPaper, StartLive,
      FirstBalanceDone, BeginShutdown, LoopStopped, ReconStopped, HealthStopped,
      CloseChecker, StopApi, ApiStopped, ApiTimesOut, ApiRaises, CloseDex,
      CloseJupiter, CloseSolana, Proceed, taskVars, workVars, loopVars, RuntimeTypeOK, Phases
<1>2. CASE LoopUnwinds
  BY <1>2 DEF LoopUnwinds, Enter, Phases, ScanPhases
<1>3. CASE Next /\ ~MainStep /\ ~LoopStep /\ ~LoopUnwinds
  BY <1>3
  DEF Next, ReconStep, HealthStep, Signal, RequestArrives, RequestEnds, ApiDrained,
      ApiFails, OpenClient, taskVars, workVars, loopVars
<1> QED
  BY <1>1, <1>2, <1>3

LEMMA BatchesLeftStep ==
  ASSUME RuntimeTypeOK, BatchesLeft, [Next]_vars
  PROVE  BatchesLeft'
<1>1. CASE LoopStep
  <2>1. CASE \E n \in 1 .. MaxBatches : fetch' = BatchRequest(n)
    BY <2>1 DEF BatchesLeft, BatchRequest
  <2>2. CASE fetch' \in {Analysis, ListRequest, Idle}
    BY <2>2 DEF BatchesLeft, Analysis, ListRequest, Idle
  <2>3. CASE fetch.batches > 1 /\ fetch' = BatchRequest(fetch.batches - 1)
    BY <2>3 DEF BatchesLeft, BatchRequest, RuntimeTypeOK, Fetches
  <2>4. CASE fetch' = [fetch EXCEPT !.attempt = @ + 1]
    BY <2>4 DEF BatchesLeft, RuntimeTypeOK, Fetches
  <2> QED
    BY <1>1, <2>1, <2>2, <2>3, <2>4, LoopMoves
<1>2. CASE Next /\ ~LoopStep
  BY <1>2, OthersLeaveTheLoop DEF BatchesLeft, Idle
<1>3. CASE UNCHANGED vars
  BY <1>3 DEF vars, BatchesLeft
<1> QED
  BY <1>1, <1>2, <1>3

\* From one look at the positions to the next there are at most four phases with
\* (MaxBatches + 1) * MaxRetries + 1 attempts each, whatever fails in them.
THEOREM CyclesAreBounded ==
  /\ Spec => [](Attempts(fetch) \in 0 .. (MaxBatches + 1) * MaxRetries + 1)
  /\ Spec => CycleAdvances
<1>1. Init => RuntimeTypeOK /\ BatchesLeft
  BY InitType DEF Init, BatchesLeft, Idle
<1>2. RuntimeTypeOK /\ BatchesLeft /\ [Next]_vars => (RuntimeTypeOK /\ BatchesLeft)'
  BY TypeStep, BatchesLeftStep
<1>3. RuntimeTypeOK /\ BatchesLeft => Attempts(fetch) \in 0 .. (MaxBatches + 1) * MaxRetries + 1
  <2>1. 1 \in 1 .. MaxBatches
    BY RuntimeAssumption
  <2> QED
    BY <2>1, AttemptsDrop DEF RuntimeTypeOK, BatchesLeft
<1>4. RuntimeTypeOK /\ BatchesLeft /\ [Next]_vars =>
        [(loop \in Phases /\ loop' \in Phases) =>
           \/ UNCHANGED <<loop, fetch>>
           \/ loop' = loop /\ Attempts(fetch') < Attempts(fetch)
           \/ PhasesLeft(loop') < PhasesLeft(loop)
           \/ loop = "sleep" /\ loop' = "position"]_vars
  <2> SUFFICES ASSUME RuntimeTypeOK, BatchesLeft, Next, loop \in Phases, loop' \in Phases
               PROVE  \/ UNCHANGED <<loop, fetch>>
                      \/ loop' = loop /\ Attempts(fetch') < Attempts(fetch)
                      \/ PhasesLeft(loop') < PhasesLeft(loop)
                      \/ loop = "sleep" /\ loop' = "position"
    OBVIOUS
  <2>1. CASE ~LoopStep
    BY <2>1, OthersLeaveTheLoop
  <2>2. CASE LoopStep /\ loop' \in NextPhases(loop)
    BY <2>2 DEF NextPhases, AfterLaunch, AfterScan, PhasesLeft, Phases
  <2>3. CASE LoopStep /\ loop' = loop /\ loop' \notin NextPhases(loop)
    <3>1. fetch \in Fetches /\ (fetch.step = "batch" => fetch.batches > 0)
      BY DEF RuntimeTypeOK, BatchesLeft
    <3>2. 1 \in 1 .. MaxBatches
      BY RuntimeAssumption
    <3>3. Attempts(fetch') < Attempts(fetch)
      BY <2>3, <3>1, <3>2, AttemptsDrop, LoopMoves
    <3> QED
      BY <2>3, <3>3
  <2> QED
    BY <2>1, <2>2, <2>3, LoopMoves
<1> QED
  BY <1>1, <1>2, <1>3, <1>4, PTL DEF Spec, CycleAdvances
=============================================================================
