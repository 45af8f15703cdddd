---------------------------- MODULE Orchestrator ----------------------------
(***************************************************************************)
(* The trading core: TradeOrchestrator (app/execution/orchestrator.py)     *)
(* with the position manager, exposure tracker, P&L calculator and circuit *)
(* breaker it owns, driven by the single TradingLoop task and by the       *)
(* dashboard's request tasks.                                              *)
(*                                                                         *)
(* asyncio runs one task at a time and switches only where a task          *)
(* suspends, so a step of this module is the code of one handler between   *)
(* two suspension points.  The suspension points are the awaits on the     *)
(* injected executor: executor.analyze, execute_buy and execute_sell.      *)
(* Handlers that return early without changing state (duplicate window,    *)
(* busy token, risk rejection, hold decision) are stuttering steps.        *)
(***************************************************************************)
EXTENDS CircuitBreaker, Sequences, FiniteSets, Sums

CONSTANTS
  Tokens,               \* token addresses
  Loop,                 \* the TradingLoop task
  Clients,              \* dashboard requests being served concurrently
  None,
  Sizes,                \* position sizes the sizer may return, USD units
  PnLs,                 \* realized profit of a sale, USD units
  MaxOpenPositions,     \* open-position limit of the risk engine
  MaxConsecutiveLosses, \* loss-streak limit of the risk engine and breaker
  MaxDailyLoss,         \* daily-loss limit of the same two
  PortfolioRiskPassed,  \* does the loop hand portfolio_risk to the sell side?
  MaxPositionIds        \* bound: positions opened in a behaviour

ASSUME OrchestratorAssumption ==
  /\ IsFiniteSet(Tokens)
  /\ None \notin Tokens
  /\ Loop \notin Clients
  /\ None \notin Clients \union {Loop}
  /\ None \notin [id : Nat, capital : Nat]
  /\ Sizes \subseteq Nat \ {0}
  /\ PnLs \subseteq Int
  /\ MaxOpenPositions \in Nat \ {0}
  /\ MaxConsecutiveLosses \in Nat \ {0}
  /\ MaxDailyLoss \in Nat \ {0}
  /\ PortfolioRiskPassed \in BOOLEAN
  /\ MaxPositionIds \in Nat

VARIABLES
  positions,       \* PositionManager._positions
  next_id,         \* _position_id_counter
  exposure,        \* ExposureTracker._positions: capital by id, 0 for no entry
  total_exposure,  \* ExposureTracker._total_exposure
  closed_trades,   \* PnLCalculator._closed_trades
  day_start,       \* number of trades closed before today's midnight
  in_flight,       \* _in_flight
  lock,            \* holder of each token's asyncio.Lock
  recent,          \* tokens whose last buy lies inside the duplicate window
  breaker,         \* the circuit breaker
  held,            \* tokens in the executor's own book
  pc,              \* where each task is suspended
  token,           \* the token a task is working on
  pos,             \* the position a sell pipeline read before its await
  order,           \* size of the buy being executed
  todo,            \* tokens an emergency_close_all has still to visit
  late_opens       \* history: positions opened since the breaker tripped

vars == <<positions, next_id, exposure, total_exposure, closed_trades,
          day_start, in_flight, lock, recent, breaker, held, pc, token, pos,
          order, todo, late_opens>>

books == <<positions, next_id, exposure, total_exposure, closed_trades, held>>
trading == <<in_flight, lock, pc, token, pos, order>>

Tasks == Clients \union {Loop}

Ids == 1 .. MaxPositionIds
Position == [id : Ids, capital : Sizes]
Trade == [id : Ids, pnl : PnLs]

Open == {t \in Tokens : positions[t] # None}

Init ==
  /\ positions = [t \in Tokens |-> None]
  /\ next_id = 1
  /\ exposure = [id \in Ids |-> 0]
  /\ total_exposure = 0
  /\ closed_trades = << >>
  /\ day_start = 0
  /\ in_flight = {}
  /\ lock = [t \in Tokens |-> None]
  /\ recent = {}
  /\ breaker = NewBreaker
  /\ held = {}
  /\ pc = [p \in Tasks |-> "idle"]
  /\ token = [p \in Tasks |-> None]
  /\ pos = [p \in Tasks |-> None]
  /\ order = 0
  /\ todo = [c \in Clients |-> {}]
  /\ late_opens = 0

-----------------------------------------------------------------------------
(***************************************************************************)
(* Statistics over the closed trades (PnLCalculator).                      *)
(***************************************************************************)
\* Losing trades from the most recent one backwards; a break-even trade
\* ends the streak.
ConsecutiveLosses(trades) ==
  Cardinality({i \in 1 .. Len(trades) :
                 \A j \in i .. Len(trades) : trades[j].pnl < 0})

\* Net profit of the trades closed since midnight.
DailyNet(trades, midnight) ==
  LET today == midnight + 1 .. Len(trades)
  IN  SumOf([i \in today |-> trades[i].pnl], today)

DailyLossReached(trades, midnight) ==
  DailyNet(trades, midnight) <= 0 - MaxDailyLoss

\* Mutant: one position too many.
PortfolioAllowsOneMore ==
  /\ Cardinality(Open) <= MaxOpenPositions
  /\ ConsecutiveLosses(closed_trades) < MaxConsecutiveLosses
  /\ ~DailyLossReached(closed_trades, day_start)

\* The portfolio part of RiskEngine.evaluate that depends on this state.  Its
\* other inputs (market data, wallet balance, exposure) are free here: the
\* engine may also reject for them, which changes nothing.
PortfolioAllowsBuy ==
  /\ Cardinality(Open) < MaxOpenPositions
  /\ ConsecutiveLosses(closed_trades) < MaxConsecutiveLosses
  /\ ~DailyLossReached(closed_trades, day_start)

(***************************************************************************)
(* Taking and leaving a token: async with self._get_lock(t), and the       *)
(* in-flight registration inside it.  A task that found the token not busy *)
(* but its lock taken would wait here until the lock is free.              *)
(***************************************************************************)
IsBusy(t) == t \in in_flight

\* Mutant: neither the busy check nor the lock.
AcquireUnguarded(p, t, state) ==
  /\ lock' = [lock EXCEPT ![t] = p]
  /\ in_flight' = in_flight \union {t}
  /\ pc' = [pc EXCEPT ![p] = state]
  /\ token' = [token EXCEPT ![p] = t]

Acquire(p, t, state) ==
  /\ ~IsBusy(t)
  /\ lock[t] = None
  /\ lock' = [lock EXCEPT ![t] = p]
  /\ in_flight' = in_flight \union {t}
  /\ pc' = [pc EXCEPT ![p] = state]
  /\ token' = [token EXCEPT ![p] = t]

\* Mutant: no finally clause, the token stays marked as busy.
ReleaseLockOnly(p, state) ==
  /\ lock' = [lock EXCEPT ![token[p]] = None]
  /\ in_flight' = in_flight
  /\ pc' = [pc EXCEPT ![p] = state]
  /\ token' = [token EXCEPT ![p] = None]
  /\ pos' = [pos EXCEPT ![p] = None]

\* The finally clause and the end of the async with block.
Release(p, state) ==
  /\ lock' = [lock EXCEPT ![token[p]] = None]
  /\ in_flight' = in_flight \ {token[p]}
  /\ pc' = [pc EXCEPT ![p] = state]
  /\ token' = [token EXCEPT ![p] = None]
  /\ pos' = [pos EXCEPT ![p] = None]

(***************************************************************************)
(* Exposure tracker.                                                       *)
(***************************************************************************)
\* Mutant: the two arguments swapped.
AddExposureSwapped(id, capital) ==
  /\ exposure' = [exposure EXCEPT ![capital] = id]
  /\ total_exposure' = total_exposure + id

AddExposure(id, capital) ==
  /\ exposure' = [exposure EXCEPT ![id] = capital]
  /\ total_exposure' = total_exposure + capital

\* Mutant: the entry is dropped but the total is not reduced.
RemoveEntryOnly(id) ==
  /\ exposure' = [exposure EXCEPT ![id] = 0]
  /\ UNCHANGED total_exposure

\* Mutant: the entry stays.
RemoveNothing(id) == id \in Ids /\ UNCHANGED <<exposure, total_exposure>>

\* An id without an entry is ignored.
RemoveExposure(id) ==
  IF id \in Ids
    THEN /\ exposure' = [exposure EXCEPT ![id] = 0]
         /\ total_exposure' = total_exposure - exposure[id]
    ELSE UNCHANGED <<exposure, total_exposure>>

(***************************************************************************)
(* The breaker after a step, and the history of positions opened since it  *)
(* left NORMAL.                                                            *)
(***************************************************************************)
SetBreaker(b) ==
  /\ breaker' = b
  /\ late_opens' = IF b.state = "NORMAL" THEN 0 ELSE late_opens

-----------------------------------------------------------------------------
(***************************************************************************)
(* Buy pipeline.  Only the loop task buys.                                 *)
(***************************************************************************)
\* Mutant: no guard against buying a token already held.
BeginDoubleBuy(t) ==
  /\ pc[Loop] = "idle"
  /\ next_id <= MaxPositionIds
  /\ t \notin recent
  /\ CanTrade(breaker)
  /\ Acquire(Loop, t, "analyzing")
  /\ PortfolioAllowsBuy
  /\ UNCHANGED <<books, day_start, recent, breaker, pos, order, todo,
                 late_opens>>

\* process_buy_signal up to the suspension in analyze: duplicate window, busy,
\* breaker, lock, risk engine, already-held guard.
BeginBuy(t) ==
  /\ pc[Loop] = "idle"
  /\ next_id <= MaxPositionIds
  /\ t \notin recent
  /\ CanTrade(breaker)
  /\ Acquire(Loop, t, "analyzing")
  /\ PortfolioAllowsBuy
  /\ positions[t] = None
  /\ UNCHANGED <<books, day_start, recent, breaker, pos, order, todo,
                 late_opens>>

\* The strategy says no, or the sizer returns zero.
DeclineBuy ==
  /\ pc[Loop] = "analyzing"
  /\ Release(Loop, "idle")
  /\ UNCHANGED <<books, day_start, recent, breaker, order, todo, late_opens>>

\* The breaker left NORMAL while the strategy was running; the rejection
\* counts as an execution failure.
BlockBuy ==
  /\ pc[Loop] = "analyzing"
  /\ ~CanTrade(breaker)
  /\ SetBreaker(ExecutionFailure(breaker))
  /\ Release(Loop, "idle")
  /\ UNCHANGED <<books, day_start, recent, order, todo>>

\* Mid-pipeline breaker check, sizing, and the call of execute_buy.
ExecuteBuy(size) ==
  /\ pc[Loop] = "analyzing"
  /\ CanTrade(breaker)
  /\ pc' = [pc EXCEPT ![Loop] = "buying"]
  /\ order' = size
  /\ UNCHANGED <<books, day_start, in_flight, lock, token, pos, recent,
                 breaker, todo, late_opens>>

BuyFails ==
  /\ pc[Loop] = "buying"
  /\ SetBreaker(ExecutionFailure(breaker))
  /\ Release(Loop, "idle")
  /\ order' = 0
  /\ UNCHANGED <<books, day_start, recent, todo>>

BuyFills ==
  LET t == token[Loop]
  IN  /\ pc[Loop] = "buying"
      /\ held' = held \union {t}
      /\ positions' =
           [positions EXCEPT ![t] = [id |-> next_id, capital |-> order]]
      /\ next_id' = next_id + 1
      /\ AddExposure(next_id, order)
      /\ recent' = recent \union {t}
      /\ late_opens' = IF breaker.state = "NORMAL" THEN 0 ELSE late_opens + 1
      /\ Release(Loop, "idle")
      /\ order' = 0
      /\ UNCHANGED <<closed_trades, day_start, breaker, todo>>

-----------------------------------------------------------------------------
(***************************************************************************)
(* Sell pipeline, shared by the loop's price updates and the dashboard.    *)
(***************************************************************************)
BeginSell(p, t) ==
  /\ pc[p] = "idle"
  /\ positions[t] # None
  /\ Acquire(p, t, "selling")
  /\ pos' = [pos EXCEPT ![p] = positions[t]]
  /\ UNCHANGED <<books, day_start, recent, breaker, order, late_opens>>

\* Mutant: exits, too, wait for the breaker.
PriceUpdateExitUnlessPaused(t) ==
  /\ CanTrade(breaker)
  /\ BeginSell(Loop, t)
  /\ UNCHANGED todo

\* process_price_update found an exit condition of the position.
PriceUpdateExit(t) ==
  /\ BeginSell(Loop, t)
  /\ UNCHANGED todo

\* POST /api/actions/positions/{t}/close
CloseRequest(c, t) ==
  /\ todo[c] = {}
  /\ BeginSell(c, t)
  /\ UNCHANGED todo

\* Mutant: a failed sale is recorded as a trade.
SellFailsAndRecords(p) ==
  /\ pc[p] = "selling"
  /\ SetBreaker(ExecutionFailure(breaker))
  /\ closed_trades' = Append(closed_trades, [id |-> pos[p].id, pnl |-> -1])
  /\ Release(p, "idle")
  /\ UNCHANGED <<next_id, positions, exposure, total_exposure, held,
                 day_start, recent, order, todo>>

SellFails(p) ==
  /\ pc[p] = "selling"
  /\ SetBreaker(ExecutionFailure(breaker))
  /\ Release(p, "idle")
  /\ UNCHANGED <<books, day_start, recent, order, todo>>

\* Only the loop may have been given portfolio_risk; close_position_now
\* passes None, so a dashboard sale never runs the loss checks.
LossChecks(p, trades, b) ==
  LET checked   == p = Loop /\ PortfolioRiskPassed
      daily     == IF checked /\ DailyLossReached(trades, day_start)
                   THEN Pause(b) ELSE b
  IN  IF checked /\ ConsecutiveLosses(trades) >= MaxConsecutiveLosses
      THEN Pause(daily) ELSE daily

SellFills(p, pnl) ==
  LET t         == token[p]
      closed_id == IF positions[t] = None THEN 0 ELSE positions[t].id
      trades    == Append(closed_trades, [id |-> pos[p].id, pnl |-> pnl])
  IN  /\ pc[p] = "selling"
      /\ t \in held
      /\ held' = held \ {t}
      /\ positions' = [positions EXCEPT ![t] = None]
      /\ closed_trades' = trades
      /\ RemoveExposure(closed_id)
      /\ SetBreaker(LossChecks(p, trades, Success(breaker)))
      /\ Release(p, "idle")
      /\ UNCHANGED <<next_id, day_start, recent, order, todo>>

-----------------------------------------------------------------------------
(***************************************************************************)
(* Emergency stop: the breaker first, then every token that had a position *)
(* when the request arrived, one after the other.  The order of the dict   *)
(* is left open.                                                           *)
(***************************************************************************)
EmergencyRequest(c) ==
  /\ pc[c] = "idle"
  /\ todo[c] = {}
  /\ SetBreaker(Emergency(breaker))
  /\ todo' = [todo EXCEPT ![c] = Open]
  /\ UNCHANGED <<books, trading, day_start, recent>>

EmergencyClose(c, t) ==
  /\ t \in todo[c]
  /\ BeginSell(c, t)
  /\ todo' = [todo EXCEPT ![c] = @ \ {t}]

\* close_position_now returns "skipped": busy, or the position is gone.
EmergencySkip(c, t) ==
  /\ pc[c] = "idle"
  /\ t \in todo[c]
  /\ IsBusy(t) \/ positions[t] = None
  /\ todo' = [todo EXCEPT ![c] = @ \ {t}]
  /\ UNCHANGED <<books, trading, day_start, recent, breaker, late_opens>>

(***************************************************************************)
(* Dashboard pause and resume, the live loop's wallet check, the end of    *)
(* the process's trading task, and the clock.                              *)
(***************************************************************************)
PauseRequest ==
  /\ SetBreaker(Pause(breaker))
  /\ UNCHANGED <<books, trading, day_start, recent, todo>>

ResumeRequest ==
  /\ SetBreaker(Resume(breaker))
  /\ UNCHANGED <<books, trading, day_start, recent, todo>>

WalletLow ==
  /\ pc[Loop] = "idle"
  /\ SetBreaker(Pause(breaker))
  /\ UNCHANGED <<books, trading, day_start, recent, todo>>

\* TradingLoop.stop cancels the task at whatever await it is suspended; the
\* finally clauses still release the token.
StopLoop ==
  /\ pc[Loop] # "stopped"
  /\ \/ /\ pc[Loop] = "idle"
        /\ pc' = [pc EXCEPT ![Loop] = "stopped"]
        /\ UNCHANGED <<lock, in_flight, token, pos>>
     \/ /\ pc[Loop] # "idle"
        /\ Release(Loop, "stopped")
  /\ order' = 0
  /\ UNCHANGED <<books, day_start, recent, breaker, todo, late_opens>>

WindowExpires(t) ==
  /\ t \in recent
  /\ recent' = recent \ {t}
  /\ UNCHANGED <<books, trading, day_start, breaker, todo, late_opens>>

Midnight ==
  /\ day_start < Len(closed_trades)
  /\ day_start' = Len(closed_trades)
  /\ UNCHANGED <<books, trading, recent, breaker, todo, late_opens>>

-----------------------------------------------------------------------------
BuyStep ==
  \/ \E t \in Tokens : BeginBuy(t)
  \/ DeclineBuy
  \/ BlockBuy
  \/ \E size \in Sizes : ExecuteBuy(size)
  \/ BuyFails
  \/ BuyFills

SellStep ==
  \/ \E t \in Tokens : PriceUpdateExit(t)
  \/ \E c \in Clients, t \in Tokens : CloseRequest(c, t)
  \/ \E p \in Tasks : SellFails(p)
  \/ \E p \in Tasks, pnl \in PnLs : SellFills(p, pnl)

OperatorStep ==
  \/ \E c \in Clients : EmergencyRequest(c)
  \/ \E c \in Clients, t \in Tokens : EmergencyClose(c, t)
  \/ \E c \in Clients, t \in Tokens : EmergencySkip(c, t)
  \/ PauseRequest
  \/ ResumeRequest

EnvironmentStep ==
  \/ WalletLow
  \/ StopLoop
  \/ \E t \in Tokens : WindowExpires(t)
  \/ Midnight

Next == BuyStep \/ SellStep \/ OperatorStep \/ EnvironmentStep

Spec == Init /\ [][Next]_vars

(***************************************************************************)
(* Fairness.  A task that can run is run, and a call of the executor ends: *)
(* its HTTP requests have timeouts and its confirmation polling stops      *)
(* after 60 seconds.  Two environment assumptions are needed for exits:    *)
(* the feed keeps delivering a positive price for an open position (its    *)
(* holding-time limit then makes every later check an exit decision), and  *)
(* a token that is offered to the executor again and again is sold.        *)
(***************************************************************************)
ExecutorReturns(p) ==
  \/ SellFails(p)
  \/ \E pnl \in PnLs : SellFills(p, pnl)
  \/ p = Loop /\ (BuyFails \/ BuyFills)

AnalysisReturns ==
  DeclineBuy \/ BlockBuy \/ \E size \in Sizes : ExecuteBuy(size)

TaskFairness ==
  /\ WF_vars(AnalysisReturns)
  /\ \A p \in Tasks : WF_vars(ExecutorReturns(p))
  /\ \A c \in Clients :
       WF_vars(\E t \in Tokens : EmergencyClose(c, t) \/ EmergencySkip(c, t))

ExitFairness ==
  \A t \in Tokens :
    /\ SF_vars(PriceUpdateExit(t))
    /\ SF_vars(\E p \in Tasks, pnl \in PnLs :
                 token[p] = t /\ SellFills(p, pnl))

FairSpec == Spec /\ TaskFairness

ExitSpec == FairSpec /\ ExitFairness

-----------------------------------------------------------------------------
(***************************************************************************)
(* Properties.                                                             *)
(***************************************************************************)
Idle(p) == pc[p] \in {"idle", "stopped"}

\* Every variable keeps its shape.
TypeOK ==
  /\ positions \in [Tokens -> Position \union {None}]
  /\ next_id \in 1 .. MaxPositionIds + 1
  /\ exposure \in [Ids -> Sizes \union {0}]
  /\ total_exposure \in Int
  /\ closed_trades \in Seq(Trade)
  /\ day_start \in Nat
  /\ in_flight \subseteq Tokens
  /\ lock \in [Tokens -> Tasks \union {None}]
  /\ recent \subseteq Tokens
  /\ breaker \in Breaker
  /\ held \subseteq Tokens
  /\ pc \in [Tasks -> {"idle", "analyzing", "buying", "selling", "stopped"}]
  /\ token \in [Tasks -> Tokens \union {None}]
  /\ pos \in [Tasks -> Position \union {None}]
  /\ order \in Sizes \union {0}
  /\ todo \in [Clients -> SUBSET Tokens]
  /\ late_opens \in Nat

\* One operation per token (orchestrator.py:33): the in-flight set, the locks
\* and the tasks always tell the same story, so the busy check alone already
\* keeps every task from waiting on a lock, and no path out of a pipeline
\* (success, failure, rejection, cancellation) leaves a token marked busy.
OneOperationPerToken ==
  /\ \A p \in Tasks : Idle(p) <=> token[p] = None
  /\ \A t \in Tokens : t \in in_flight <=> lock[t] # None
  /\ \A t \in Tokens, p \in Tasks : lock[t] = p <=> token[p] = t

\* The position a sell pipeline read before awaiting the executor is still
\* the open position when the executor answers: no other task closed or
\* replaced it meanwhile.
ReadPositionIsCurrent ==
  \A p \in Tasks : pc[p] = "selling" =>
    pos[p] # None /\ positions[token[p]] = pos[p]

\* The three books agree: the executor holds exactly the tokens with a managed
\* position, and the exposure tracker has exactly one entry per position, with
\* its id and capital.
BooksAgree ==
  /\ held = Open
  /\ \A t \in Open : exposure[positions[t].id] = positions[t].capital
  /\ \A id \in Ids : exposure[id] # 0 => \E t \in Open : positions[t].id = id

\* The running total of the exposure tracker is the capital of the open
\* positions, whatever sequence of opens and closes led here.
ExposureTotalExact ==
  total_exposure = SumOf([t \in Open |-> positions[t].capital], Open)

\* Every position id handed out is, at any moment, either the id of exactly
\* one open position or recorded by exactly one closed trade: no trade is
\* lost, recorded twice, or recorded for a position still open.
OpenIds == {positions[t].id : t \in Open}
TradeIds == {closed_trades[i].id : i \in DOMAIN closed_trades}

EveryPositionAccountedOnce ==
  /\ OpenIds \union TradeIds = 1 .. next_id - 1
  /\ OpenIds \intersect TradeIds = {}
  /\ \A t, u \in Open : positions[t].id = positions[u].id => t = u
  /\ \A i, j \in DOMAIN closed_trades :
       closed_trades[i].id = closed_trades[j].id => i = j

\* README.md:114: no more than MAX_OPEN_POSITIONS at a time.  The limit is
\* checked when a buy starts and the position appears only when it ends, so
\* this rests on the loop being the only buyer.
OpenPositionsLimited == Cardinality(Open) <= MaxOpenPositions

\* A tripped breaker lets at most the one buy already inside the executor
\* open a position: neither a queued signal nor a buy still being analyzed
\* gets through until the operator resumes.
OneLateOpenAtMost == late_opens <= 1

\* In the deployed wiring only the operator's resume re-enables trading: no
\* sale, failure or other step takes the breaker back to NORMAL.
OnlyResumeEnablesTrading ==
  [][(~CanTrade(breaker) /\ CanTrade(breaker')) => ResumeRequest]_vars

\* A failed sale keeps the position: a position leaves the book only in a
\* step that appends the trade of that very position.
PositionLeavesWithItsTrade ==
  [][\A t \in Tokens :
       (positions[t] # None /\ positions'[t] # positions[t]) =>
         /\ Len(closed_trades') = Len(closed_trades) + 1
         /\ closed_trades'[Len(closed_trades')].id = positions[t].id]_vars

\* The core implements the abstract token lifecycle.
PhaseOf(t) ==
  IF positions[t] = None
    THEN IF t \in in_flight THEN "buying" ELSE "free"
    ELSE IF t \in in_flight THEN "selling" ELSE "held"

Phase == [t \in Tokens |-> PhaseOf(t)]

Holding ==
  [t \in Tokens |-> IF positions[t] = None THEN 0 ELSE positions[t].id]

Lifecycle == INSTANCE TokenLifecycle WITH
  phase   <- Phase,
  holding <- Holding,
  issued  <- next_id - 1,
  settled <- TradeIds

ImplementsLifecycle == Lifecycle!Spec

\* Every operation ends: a token that is in flight is released again, without
\* any help from an operator.
OperationsEnd ==
  \A t \in Tokens : t \in in_flight ~> t \notin in_flight

\* README.md:120 (force-exit after the holding time): while the loop runs,
\* every open position is eventually closed, whatever the breaker state and
\* however dashboard requests interfere.
PositionsEventuallyClose ==
  \A t \in Tokens :
    positions[t] # None ~> (positions[t] = None \/ pc[Loop] = "stopped")

\* What the documentation promises and the code does not do.

\* orchestrator.py:363, "Close every open position": once an emergency stop
\* has been carried out and nothing is in flight, no position is open.
EmergencyClosesEverything ==
  (/\ breaker.state = "EMERGENCY"
   /\ in_flight = {}
   /\ \A c \in Clients : todo[c] = {})
    => Open = {}

\* README.md:115 and 119: a sale that brings the losses to a limit leaves the
\* breaker tripped.
LossLimitTripsBreaker ==
  [][(/\ closed_trades' # closed_trades
      /\ \/ ConsecutiveLosses(closed_trades') >= MaxConsecutiveLosses
         \/ DailyLossReached(closed_trades', day_start))
       => ~CanTrade(breaker')]_vars
=============================================================================
