---------------------------- MODULE PaperTrading ----------------------------
(***************************************************************************)
(* Money in paper mode: the fill simulator (app/execution/paper.py), the   *)
(* exits of the position manager (app/portfolio/positions.py), the balance *)
(* tracker (app/portfolio/balances.py) and the reconciliation worker, as   *)
(* the trading loop and the dashboard drive them.                          *)
(*                                                                         *)
(* The simulator never suspends, so a scan, a position cycle, a close and  *)
(* an emergency stop run without interruption once their data is there:    *)
(* while phase is not idle, the handler it names has the event loop for    *)
(* itself and works on one token per step.  A scan may visit any tokens in *)
(* any order, which covers the standard and the new-launch scan.           *)
(*                                                                         *)
(* Money is counted in cents and prices in ticks; quantities carry the     *)
(* factor QuantityScale.  Divisions round down where the code has floats.  *)
(***************************************************************************)
EXTENDS FiniteSets, Sums

CONSTANTS
  Tokens,
  None,
  Prices,             \* prices a snapshot may carry; 0 when it has none
  Liquidities,        \* liquidity of a pool; 0 when unknown
  Amounts,            \* sizes the position sizer may return
  StartingCash,       \* PAPER_STARTING_BALANCE_USD
  StopLossPercent,    \* STOP_LOSS_PERCENT
  TakeProfitPercent,  \* TAKE_PROFIT_PERCENT
  MaxTrades           \* bound: no buy after this many fills

ASSUME PaperAssumption ==
  /\ None \notin [entry : Nat, quantity : Nat, capital : Nat]
  /\ Prices \subseteq Nat
  /\ Liquidities \subseteq Nat
  /\ Amounts \subseteq Nat \ {0}
  /\ StartingCash \in Nat
  /\ StopLossPercent \in 0 .. 100
  /\ TakeProfitPercent \in Nat
  /\ MaxTrades \in Nat

VARIABLES
  feed,         \* state.prices: what the last snapshot said
  market,       \* simulator._prices: the last positive price, 0 for none
  liquidity,    \* simulator._liquidity
  simulated,    \* simulator.positions
  cash,         \* simulator.cash_usd
  realized,     \* simulator.realized_pnl_usd
  trade_count,  \* simulator.trade_count
  managed,      \* PositionManager._positions
  expired,      \* open positions held longer than max_duration_hours
  tracker,      \* the balance tracker
  report,       \* issues of the last ReconciliationReport
  phase,        \* the handler that has the event loop
  due,          \* tokens it has still to visit
  by_hand       \* history: number, cash and profit of dashboard closes

simulator == <<simulated, cash, realized, trade_count>>
quotes == <<feed, market, liquidity>>
vars == <<quotes, simulator, managed, expired, tracker, report, phase, due,
          by_hand>>

QuantityScale == 1000
FeeBasisPoints == 25        \* SIMULATED_PLATFORM_FEE_PCT
BaseSpread == 1             \* BASE_SPREAD_PCT, per mille

Position == [entry : Nat, quantity : Nat, capital : Amounts]
Open == {t \in Tokens : managed[t] # None}

Init ==
  /\ feed = [t \in Tokens |-> 0]
  /\ market = [t \in Tokens |-> 0]
  /\ liquidity = [t \in Tokens |-> 0]
  /\ simulated = [t \in Tokens |-> None]
  /\ cash = StartingCash
  /\ realized = 0
  /\ trade_count = 0
  /\ managed = [t \in Tokens |-> None]
  /\ expired = {}
  /\ tracker = [cash |-> StartingCash, realized |-> 0, value |-> 0]
  /\ report = {}
  /\ phase = "idle"
  /\ due = {}
  /\ by_hand = [trades |-> 0, cash |-> 0, realized |-> 0]

-----------------------------------------------------------------------------
(***************************************************************************)
(* Fills.                                                                  *)
(***************************************************************************)
\* simulate_slippage_pct, per mille.
Slippage(order, pool) ==
  IF pool <= 0 THEN BaseSpread + 1000
  ELSE LET impact == (order * 1000) \div pool
       IN  BaseSpread + (IF impact > 500 THEN 500 ELSE impact)

Fee(amount) == (amount * FeeBasisPoints) \div 10000

\* Mutant: a sale pushes the price up as a buy does.
ProceedsPushedUp(quantity, price, pool) ==
  LET gross  == (quantity * price) \div QuantityScale
      filled == (gross * (1000 + Slippage(gross, pool))) \div 1000
  IN  filled - Fee(filled)

\* What a sale pays out: price pushed down by slippage, then the fee.
Proceeds(quantity, price, pool) ==
  LET gross  == (quantity * price) \div QuantityScale
      filled == (gross * (1000 - Slippage(gross, pool))) \div 1000
  IN  filled - Fee(filled)

\* Mutant: the fee is left out of the cost of the position.
FilledNetOfFee(amount, price, pool) ==
  LET fill == (price * (1000 + Slippage(amount, pool))) \div 1000
  IN  [entry    |-> fill,
       quantity |-> ((amount - Fee(amount)) * QuantityScale) \div fill,
       capital  |-> amount - Fee(amount)]

\* A buy fills above the market, after the fee; it cost the whole amount.
Filled(amount, price, pool) ==
  LET fill == (price * (1000 + Slippage(amount, pool))) \div 1000
  IN  [entry    |-> fill,
       quantity |-> ((amount - Fee(amount)) * QuantityScale) \div fill,
       capital  |-> amount]

UpdateMarket(t, price, pool) ==
  /\ market' = [market EXCEPT ![t] = IF price > 0 THEN price ELSE @]
  /\ liquidity' = [liquidity EXCEPT ![t] = pool]

-----------------------------------------------------------------------------
(***************************************************************************)
(* Scan: snapshots are fed to both price books, then candidates are tried. *)
(***************************************************************************)
BeginScan ==
  /\ phase = "idle"
  /\ phase' = "scan"
  /\ due' = Tokens
  /\ UNCHANGED <<quotes, simulator, managed, expired, tracker, report, by_hand>>

Snapshot(t, price, pool) ==
  /\ phase = "scan"
  /\ t \in due
  /\ due' = due \ {t}
  /\ feed' = [feed EXCEPT ![t] = price]
  /\ UpdateMarket(t, price, pool)
  /\ UNCHANGED <<simulator, managed, expired, tracker, report, phase, by_hand>>

\* A buy that the risk engine, the strategy and the sizer let through: the
\* simulator's own checks, the fill, the managed position, record_buy.
Buy(t, amount) ==
  LET position == Filled(amount, market[t], liquidity[t])
  IN  /\ phase = "scan"
      /\ trade_count < MaxTrades
      /\ managed[t] = None
      /\ simulated[t] = None
      /\ market[t] > 0
      /\ amount <= cash
      /\ simulated' = [simulated EXCEPT ![t] = position]
      /\ cash' = cash - amount
      /\ trade_count' = trade_count + 1
      /\ managed' = [managed EXCEPT ![t] = position]
      /\ tracker' = [tracker EXCEPT !.cash = @ - amount]
      /\ UNCHANGED <<quotes, realized, expired, report, phase, due, by_hand>>

EndScan ==
  /\ phase = "scan"
  /\ phase' = "idle"
  /\ due' = {}
  /\ UNCHANGED <<quotes, simulator, managed, expired, tracker, report, by_hand>>

-----------------------------------------------------------------------------
(***************************************************************************)
(* Sales.                                                                  *)
(***************************************************************************)
Sellable(t) == simulated[t] # None /\ market[t] > 0

PaidFor(t) == Proceeds(simulated[t].quantity, market[t], liquidity[t])
ProfitOf(t) == PaidFor(t) - simulated[t].capital

\* Mutant: the simulator keeps the position.
SellKeepingIt(t) ==
  /\ managed' = [managed EXCEPT ![t] = None]
  /\ simulated' = simulated
  /\ cash' = cash + PaidFor(t)
  /\ realized' = realized + ProfitOf(t)
  /\ trade_count' = trade_count + 1
  /\ expired' = expired \ {t}

\* Mutant: the profit is counted as proceeds.
SellForProfit(t) ==
  /\ simulated' = [simulated EXCEPT ![t] = None]
  /\ cash' = cash + ProfitOf(t)
  /\ realized' = realized + ProfitOf(t)
  /\ trade_count' = trade_count + 1
  /\ managed' = [managed EXCEPT ![t] = None]
  /\ expired' = expired \ {t}

\* simulator.sell of the whole position, and close_position after it.
Sell(t) ==
  /\ simulated' = [simulated EXCEPT ![t] = None]
  /\ cash' = cash + PaidFor(t)
  /\ realized' = realized + ProfitOf(t)
  /\ trade_count' = trade_count + 1
  /\ managed' = [managed EXCEPT ![t] = None]
  /\ expired' = expired \ {t}

AtStopLoss(t) ==
  StopLossPercent # 0 /\ feed[t] * 100 <= managed[t].entry * (100 - StopLossPercent)

AtTakeProfit(t) ==
  TakeProfitPercent # 0 /\ feed[t] * 100 >= managed[t].entry * (100 + TakeProfitPercent)

\* Mutant: the holding time is compared only while the position is in profit.
ExitDueUnlessLosing(t) ==
  /\ feed[t] > 0
  /\ \/ AtStopLoss(t)
     \/ AtTakeProfit(t)
     \/ t \in expired /\ feed[t] > managed[t].entry

\* update_price: stop loss, take profit, time limit.  The loop configures no
\* trailing stop, and a token without a price is held.
ExitDue(t) ==
  /\ feed[t] > 0
  /\ AtStopLoss(t) \/ AtTakeProfit(t) \/ t \in expired

\* A cycle without any position ends at once, before the tracker is synced.
BeginPositionCycle ==
  /\ phase = "idle"
  /\ Open # {}
  /\ phase' = "positions"
  /\ due' = Open
  /\ UNCHANGED <<quotes, simulator, managed, expired, tracker, report, by_hand>>

\* Mutant: record_sell forgets the capital.
ExitRecordedWrong(t) ==
  /\ Sell(t)
  /\ tracker' = [tracker EXCEPT !.cash = @ + ProfitOf(t),
                                !.realized = @ + ProfitOf(t)]

\* The sale of an exit, and record_sell.
Exit(t) ==
  /\ Sell(t)
  /\ tracker' = [tracker EXCEPT !.cash = @ + PaidFor(t),
                                !.realized = @ + ProfitOf(t)]

VisitPosition(t) ==
  /\ phase = "positions"
  /\ t \in due
  /\ due' = due \ {t}
  /\ IF ExitDue(t) /\ Sellable(t)
       THEN Exit(t)
       ELSE UNCHANGED <<simulator, managed, expired, tracker>>
  /\ UNCHANGED <<quotes, report, phase, by_hand>>

\* _sync_balance_tracker: mark to market at the fed prices.
MarketValue ==
  SumOf([t \in Open |-> (managed[t].quantity * feed[t]) \div QuantityScale], Open)

\* update_position_value.
Marked(value) == IF value > 0 THEN value ELSE 0

EndPositionCycle ==
  /\ phase = "positions"
  /\ due = {}
  /\ phase' = "idle"
  /\ tracker' = [tracker EXCEPT !.value = Marked(MarketValue)]
  /\ UNCHANGED <<quotes, simulator, managed, expired, report, due, by_hand>>

-----------------------------------------------------------------------------
(***************************************************************************)
(* Dashboard closes: close_position_now sells, and nobody tells the        *)
(* tracker.                                                                *)
(***************************************************************************)
SellByHand(t) ==
  /\ Sell(t)
  /\ by_hand' = [trades   |-> by_hand.trades + 1,
                 cash     |-> by_hand.cash + PaidFor(t),
                 realized |-> by_hand.realized + ProfitOf(t)]

CloseRequest(t) ==
  /\ phase = "idle"
  /\ managed[t] # None
  /\ Sellable(t)
  /\ SellByHand(t)
  /\ UNCHANGED <<quotes, tracker, report, phase, due>>

EmergencyRequest ==
  /\ phase = "idle"
  /\ phase' = "emergency"
  /\ due' = Open
  /\ UNCHANGED <<quotes, simulator, managed, expired, tracker, report, by_hand>>

\* Mutant: a position without a current price is left alone.
EmergencyCloseIfPriced(t) ==
  /\ phase = "emergency"
  /\ t \in due
  /\ due' = due \ {t}
  /\ IF feed[t] > 0 /\ Sellable(t)
       THEN SellByHand(t)
       ELSE UNCHANGED <<simulator, managed, expired, by_hand>>
  /\ UNCHANGED <<quotes, tracker, report, phase>>

EmergencyClose(t) ==
  /\ phase = "emergency"
  /\ t \in due
  /\ due' = due \ {t}
  /\ IF Sellable(t)
       THEN SellByHand(t)
       ELSE UNCHANGED <<simulator, managed, expired, by_hand>>
  /\ UNCHANGED <<quotes, tracker, report, phase>>

EmergencyEnds ==
  /\ phase = "emergency"
  /\ due = {}
  /\ phase' = "idle"
  /\ UNCHANGED <<quotes, simulator, managed, expired, tracker, report, due, by_hand>>

-----------------------------------------------------------------------------
(***************************************************************************)
(* Reconciliation and the clock.                                           *)
(***************************************************************************)
Abs(n) == IF n < 0 THEN -n ELSE n

SimulatedOpen == {t \in Tokens : simulated[t] # None}

Reconcile ==
  /\ phase = "idle"
  /\ report' =
       {i \in {"positions", "quantity", "cash"} :
          \/ i = "positions" /\ Open # SimulatedOpen
          \/ i = "quantity" /\ \E t \in Open \intersect SimulatedOpen :
                                 managed[t].quantity # simulated[t].quantity
          \/ i = "cash" /\ Abs(tracker.cash - cash) > 1}
  /\ UNCHANGED <<quotes, simulator, managed, expired, tracker, phase, due, by_hand>>

HoldingTimeEnds(t) ==
  /\ phase = "idle"
  /\ t \in Open \ expired
  /\ expired' = expired \union {t}
  /\ UNCHANGED <<quotes, simulator, managed, tracker, report, phase, due, by_hand>>

-----------------------------------------------------------------------------
Next ==
  \/ BeginScan
  \/ \E t \in Tokens, price \in Prices, pool \in Liquidities :
       Snapshot(t, price, pool)
  \/ \E t \in Tokens, amount \in Amounts : Buy(t, amount)
  \/ EndScan
  \/ BeginPositionCycle
  \/ \E t \in Tokens : VisitPosition(t)
  \/ EndPositionCycle
  \/ \E t \in Tokens : CloseRequest(t)
  \/ EmergencyRequest
  \/ \E t \in Tokens : EmergencyClose(t)
  \/ EmergencyEnds
  \/ Reconcile
  \/ \E t \in Tokens : HoldingTimeEnds(t)

Spec == Init /\ [][Next]_vars

-----------------------------------------------------------------------------
(***************************************************************************)
(* Properties.                                                             *)
(***************************************************************************)
\* Every variable keeps its shape, and the cost of a position is the whole
\* amount of an order, fee included (paper.py:146).
TypeOK ==
  /\ feed \in [Tokens -> Nat]
  /\ market \in [Tokens -> Nat]
  /\ liquidity \in [Tokens -> Nat]
  /\ simulated \in [Tokens -> Position \union {None}]
  /\ cash \in Int
  /\ realized \in Int
  /\ trade_count \in Nat
  /\ managed \in [Tokens -> Position \union {None}]
  /\ expired \subseteq Tokens
  /\ tracker \in [cash : Int, realized : Int, value : Nat]
  /\ report \subseteq {"positions", "quantity", "cash"}
  /\ phase \in {"idle", "scan", "positions", "emergency"}
  /\ due \subseteq Tokens
  /\ by_hand \in [trades : Nat, cash : Int, realized : Int]

\* reconciliation_worker.py:27, "simulator positions match PositionManager
\* positions", at every moment and not only when the worker looks: the same
\* tokens, quantities and cost.
BooksMatch == managed = simulated

\* No money appears or disappears: what is not in cash is the cost of the open
\* positions or a profit or loss that was booked.
CashIdentity ==
  cash + SumOf([t \in SimulatedOpen |-> simulated[t].capital], SimulatedOpen)
    = StartingCash + realized

\* The tracker is off by exactly the sales made by hand: the loop itself
\* reports every buy and every exit to it once.
TrackerDriftIsByHand ==
  /\ cash = tracker.cash + by_hand.cash
  /\ realized = tracker.realized + by_hand.realized

\* An exit that is due can be carried out: the simulator has the price the
\* feed shows, and knows a price for whatever is open.
PricesAgree ==
  \A t \in Tokens :
    /\ feed[t] > 0 => market[t] = feed[t]
    /\ managed[t] # None => market[t] > 0

\* A position cycle leaves no position behind that had reached its stop loss,
\* its take profit or its holding time at a known price.
CycleLeavesNothingDue ==
  [][(phase = "positions" /\ phase' = "idle") =>
       \A t \in Open :
         feed[t] > 0 => ~AtStopLoss(t) /\ ~AtTakeProfit(t) /\ t \notin expired]_vars

\* In paper mode an emergency stop does close every position, also those whose
\* token the feed no longer prices: nothing is in flight when it begins, and
\* the simulator can always sell what is open.
EmergencyClosesAll ==
  [][(phase = "emergency" /\ phase' = "idle") => Open = {}]_vars

\* A sale at or below the entry price never books a profit, whatever the pool
\* does between the buy and the sale.
NoProfitAtOrBelowEntry ==
  [][\A t \in Tokens :
       (/\ simulated[t] # None /\ simulated'[t] = None
        /\ market[t] <= simulated[t].entry)
         => realized' < realized]_vars

\* reconciliation_worker.py:29, "balance tracker cash matches simulator cash".
TrackerCashMatches == "cash" \notin report
=============================================================================
