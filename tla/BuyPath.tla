------------------------------- MODULE BuyPath -------------------------------
(***************************************************************************)
(* From a market snapshot to an order: the scan and new-launch cycles of   *)
(* the trading loop (app/workers/trading_loop.py) with the filters, the    *)
(* strategies, the rug detector, the risk engine and the sizer, for one    *)
(* token.                                                                  *)
(*                                                                         *)
(* None of these awaits suspends, so an attempt runs to its end: stage     *)
(* says how far it has come, and nothing else happens meanwhile.  Other    *)
(* tokens, the breaker, the duplicate window and the executor are choices  *)
(* of the environment; module Orchestrator models them.                    *)
(***************************************************************************)
EXTENDS Screening, RiskSizing

CONSTANTS
  Snapshots,   \* what the feed may report of the token
  BookStates,  \* what the books may say when an order is considered
  WatchAges    \* minutes a token has been watched, at an analysis

ASSUME BuyPathAssumption ==
  /\ Snapshots \subseteq Snapshot
  /\ None \notin Snapshots
  /\ None \notin [size : Int, books : Books]
  /\ BookStates \subseteq Books
  /\ WatchAges \subseteq Nat \ {0}

VARIABLES
  snapshot,  \* state.latest_snapshots of the token
  watched,   \* minutes since it joined state.watchlist, None if it is not there
  seen,      \* whether it is in _new_launch_seen
  held,      \* whether a position is open
  stage,     \* what the attempt awaits; "idle" between attempts
  path,      \* the cycle that makes the attempt
  books,     \* portfolio the risk engine approved
  risk,      \* its score
  order,     \* the order handed to the executor
  turned     \* history: turned away since a filter last let it in

vars == <<snapshot, watched, seen, held, stage, path, books, risk, order, turned>>

Init ==
  /\ snapshot = None
  /\ watched = None
  /\ seen = FALSE
  /\ held = FALSE
  /\ stage = "idle"
  /\ path = "none"
  /\ books = None
  /\ risk = None
  /\ order = None
  /\ turned = FALSE

-----------------------------------------------------------------------------
(***************************************************************************)
(* Ends of an attempt.                                                     *)
(***************************************************************************)
Rest ==
  /\ stage' = "idle"
  /\ path' = "none"
  /\ books' = None
  /\ risk' = None
  /\ order' = None

\* Mutant: the rejected token stays on the watchlist.
TurnAwayKeepsWatching ==
  /\ Rest
  /\ turned' = TRUE
  /\ UNCHANGED <<snapshot, watched, seen, held>>

\* Vetoed or rejected: the token leaves the watchlist.
TurnAway ==
  /\ Rest
  /\ watched' = None
  /\ turned' = TRUE
  /\ UNCHANGED <<snapshot, seen, held>>

\* Skipped, failed or not bought: it stays where it is.
Leave ==
  /\ Rest
  /\ UNCHANGED <<snapshot, watched, seen, held, turned>>

Continue(next) ==
  /\ stage' = next
  /\ UNCHANGED <<snapshot, watched, seen, held, path, turned>>

-----------------------------------------------------------------------------
(***************************************************************************)
(* Cycles.                                                                 *)
(***************************************************************************)
StartAttempt(which) ==
  /\ stage' = "signal"
  /\ path' = which
  /\ UNCHANGED <<books, risk, order>>

\* _scan_cycle with the token among the results.
Scan(s) ==
  /\ stage = "idle"
  /\ snapshot' = s
  /\ \/ /\ watched = None /\ PassesFilter(s)
        /\ watched' = 0
        /\ turned' = FALSE
        /\ StartAttempt("scan")
     \/ /\ watched # None
        /\ UNCHANGED <<watched, turned>>
        /\ StartAttempt("scan")
     \/ /\ watched = None /\ ~PassesFilter(s)
        /\ UNCHANGED <<watched, turned, stage, path, books, risk, order>>
  /\ UNCHANGED <<seen, held>>

\* _scan_cycle without it: a watched token is analysed on its old snapshot.
ScanOthers ==
  /\ stage = "idle"
  /\ watched # None
  /\ StartAttempt("scan")
  /\ UNCHANGED <<snapshot, watched, seen, held, turned>>

\* _new_launch_cycle with the token among the results.
LaunchScan(s) ==
  /\ stage = "idle"
  /\ IsFetched(s)
  /\ ~seen
  /\ watched = None
  /\ seen' = TRUE
  /\ snapshot' = s
  /\ \/ /\ PassesLaunchFilter(s)
        /\ watched' = 0
        /\ turned' = FALSE
        /\ StartAttempt("launch")
     \/ /\ ~PassesLaunchFilter(s)
        /\ UNCHANGED <<watched, turned, stage, path, books, risk, order>>
  /\ UNCHANGED held

TimePasses ==
  /\ stage = "idle"
  /\ watched # None
  /\ \E age \in WatchAges : age > watched /\ watched' = age
  /\ UNCHANGED <<snapshot, seen, held, stage, path, books, risk, order, turned>>

\* Age of the token in this attempt: the pair's for a launch, else the time it
\* has been watched, unknown when it was discovered just now.
Age ==
  IF path = "launch" THEN snapshot.pair_age
  ELSE IF watched = 0 THEN None ELSE watched

-----------------------------------------------------------------------------
(***************************************************************************)
(* The attempt.                                                            *)
(***************************************************************************)
\* _analyze_watchlist or _attempt_new_launch_buy.  Neither knows of authorities.
Signal ==
  IF path = "launch" THEN SniperSignal(snapshot, Age, FALSE)
  ELSE MomentumSignal(snapshot, HeuristicRiskScore(snapshot), Age, FALSE)

Analyze ==
  /\ stage = "signal"
  /\ Signal.kind = "buy"
  /\ Continue("rug")
  /\ UNCHANGED <<books, risk, order>>

\* No buy signal, or MAX_CANDIDATES_PER_SCAN others came first.
PassOver ==
  /\ stage = "signal"
  /\ Signal.kind # "buy" \/ path = "scan"
  /\ Leave

RugCheck ==
  /\ stage = "rug"
  /\ \/ /\ RugCheckPasses(snapshot, Age)
        /\ Continue("risk")
        /\ UNCHANGED <<books, risk, order>>
     \/ /\ ~RugCheckPasses(snapshot, Age)
        /\ TurnAway

\* process_buy_signal: duplicate window, or an operation in progress.
Skip ==
  /\ stage = "risk"
  /\ Leave

\* The breaker does not allow trading.
BreakerRejects ==
  /\ stage = "risk"
  /\ TurnAway

RiskRejects ==
  /\ stage = "risk"
  /\ \E b \in BookStates : ~EngineApproves(snapshot, PortfolioRisk(b), FALSE)
  /\ TurnAway

RiskApproves ==
  /\ stage = "risk"
  /\ ~held
  /\ \E b \in BookStates :
       /\ EngineApproves(snapshot, PortfolioRisk(b), FALSE)
       /\ books' = b
       /\ risk' = EngineScore(snapshot, PortfolioRisk(b))
  /\ Continue("strategy")
  /\ UNCHANGED order

AlreadyOpen ==
  /\ stage = "risk"
  /\ held
  /\ \E b \in BookStates : EngineApproves(snapshot, PortfolioRisk(b), FALSE)
  /\ Leave

\* _default_analyze, with the score of the risk engine.
SecondSignal == MomentumSignal(snapshot, risk, Age, FALSE)

Decline ==
  /\ stage = "strategy"
  /\ \/ SecondSignal.kind # "buy"
     \/ 0 \in PositionSizes(PortfolioRisk(books), risk, SecondSignal.confidence)
  /\ Leave

PlaceOrder ==
  /\ stage = "strategy"
  /\ SecondSignal.kind = "buy"
  /\ \E size \in PositionSizes(PortfolioRisk(books), risk, SecondSignal.confidence) :
       /\ size > 0
       /\ order' = [size |-> size, books |-> books]
  /\ Continue("order")
  /\ UNCHANGED <<books, risk>>

OrderFails ==
  /\ stage = "order"
  /\ Leave

OrderFills ==
  /\ stage = "order"
  /\ Rest
  /\ held' = TRUE
  /\ UNCHANGED <<snapshot, watched, seen, turned>>

\* The loop's exit takes the token off the watchlist, a dashboard close does not.
ExitByLoop ==
  /\ stage = "idle"
  /\ held
  /\ held' = FALSE
  /\ watched' = None
  /\ UNCHANGED <<snapshot, seen, stage, path, books, risk, order, turned>>

CloseByHand ==
  /\ stage = "idle"
  /\ held
  /\ held' = FALSE
  /\ UNCHANGED <<snapshot, watched, seen, stage, path, books, risk, order, turned>>

Next ==
  \/ \E s \in Snapshots : Scan(s) \/ LaunchScan(s)
  \/ ScanOthers
  \/ TimePasses
  \/ Analyze
  \/ PassOver
  \/ RugCheck
  \/ Skip
  \/ BreakerRejects
  \/ RiskRejects
  \/ RiskApproves
  \/ AlreadyOpen
  \/ Decline
  \/ PlaceOrder
  \/ OrderFails
  \/ OrderFills
  \/ ExitByLoop
  \/ CloseByHand

Spec == Init /\ [][Next]_vars

-----------------------------------------------------------------------------
(***************************************************************************)
(* Properties.                                                             *)
(***************************************************************************)
\* The records of an attempt match its stage.
TypeOK ==
  /\ snapshot \in Snapshots \cup {None}
  /\ watched \in WatchAges \cup {None, 0}
  /\ seen \in BOOLEAN /\ held \in BOOLEAN /\ turned \in BOOLEAN
  /\ stage \in {"idle", "signal", "rug", "risk", "strategy", "order"}
  /\ path \in (IF stage = "idle" THEN {"none"} ELSE {"scan", "launch"})
  /\ stage # "idle" => watched # None
  /\ watched # None => snapshot # None
  /\ IF stage \in {"strategy", "order"} THEN books \in BookStates /\ risk \in 0 .. 100
     ELSE books = None /\ risk = None
  /\ IF stage = "order" THEN order \in [size : Nat \ {0}, books : {books}] ELSE order = None

\* The pool of a token that is ordered holds half of MIN_LIQUIDITY_USD, however
\* low the bar of the launch filter; and the whole of it when the order comes from
\* the watchlist, although the filter saw an older snapshot, or another filter let
\* the token in (filters.py:51, trading_loop.py:645, risk_engine.py:77).
OrdersAreLiquid ==
  order # None =>
    /\ 2 * OrZero(snapshot.liquidity) >= MinLiquidity
    /\ path = "scan" => OrZero(snapshot.liquidity) >= MinLiquidity

\* The signs of fraud that rug_detector.py calls CRITICAL and the feed can show.
Fraudulent(s) ==
  \/ s.name = "honeypot"
  \/ s.liquidity # None /\ s.liquidity < 100
  \/ s.buys_1h >= 10 /\ s.sells_1h = 0
  \/ s.change_h1 # None /\ s.change_h1 > 1000

\* No order for a token that shows such a sign in the snapshot the order is based
\* on, whatever it scores (rug_detector.py:54: veto, never buy).
NoFraudOrdered == order # None => ~Fraudulent(snapshot)

\* An order respects every cap the sizer knows, counting what is already lost and
\* exposed, but for the half cent that rounding may add (position_sizing.py:54).
OrderWithinLimits ==
  order # None =>
    LET p == PortfolioRisk(order.books)
    IN  /\ order.size <= MaxPosition + 5
        /\ order.size <= p.wallet + 5
        /\ p.daily_loss + order.size <= MaxDailyLoss + 5
        /\ p.exposure + order.size <= MaxTotalExposure + 5
        /\ p.open < MaxOpenPositions

\* Had the risk engine scored the token lower, on the same books, the momentum
\* strategy and the sizer together would not have bought more of it
\* (momentum.py:70, position_sizing.py:48).
LowerScoreNeverBuysMore ==
  order # None =>
    LET Sizes(score) ==
          LET signal == MomentumSignal(snapshot, score, Age, FALSE)
          IN  IF signal.kind = "buy"
              THEN PositionSizes(PortfolioRisk(books), score, signal.confidence)
              ELSE {0}
    IN  \A lower \in 0 .. risk : \A less \in Sizes(lower) :
          \E size \in Sizes(risk) : less <= size

\* A token that was vetoed or rejected is not ordered again until a filter has let
\* it in again (trading_loop.py:701, 755: rejected candidates don't linger).
TurnedAwayNotOrdered == turned => order = None

\* MAX_TOTAL_EXPOSURE_USD is the "Aggregate position value cap", enforced before
\* every buy (README.md:116).  The loop reports value less cash instead.
ExposureCapHolds ==
  order # None => order.books.value + order.size <= MaxTotalExposure
==============================================================================
