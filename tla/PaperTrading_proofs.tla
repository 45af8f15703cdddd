------------------------ MODULE PaperTrading_proofs ------------------------
(***************************************************************************)
(* Paper mode: the books agree, the tracker's drift, what a position cycle *)
(* and an emergency stop leave behind, and that no sale at or below the    *)
(* entry price books a profit.                                             *)
(***************************************************************************)
EXTENDS PaperTrading, Sums_proofs

LEMMA AmountsArePositive == \A n \in Amounts : n \in Nat /\ n > 0
BY PaperAssumption

(***************************************************************************)
(* Arithmetic of the fills.                                                *)
(***************************************************************************)
\* Rounding down by a constant, as the fee and the slippage do.
LEMMA FeeFacts ==
  ASSUME NEW n \in Nat
  PROVE  Fee(n) \in Nat /\ Fee(n) <= n
BY SMTT(30) DEF Fee, FeeBasisPoints

LEMMA FeeOfLoss ==
  ASSUME NEW n \in Int, n < 0
  PROVE  Fee(n) \in Int /\ n - Fee(n) <= 0
BY SMTT(30) DEF Fee, FeeBasisPoints

\* The slippage of an order is at least the base spread.
LEMMA SlippageFacts ==
  ASSUME NEW order \in Nat, NEW pool \in Nat
  PROVE  /\ Slippage(order, pool) \in Nat
         /\ Slippage(order, pool) > 0
         /\ Slippage(order, pool) <= 1001
<1>1. CASE pool = 0
  BY <1>1 DEF Slippage, BaseSpread
<1>2. CASE pool > 0
  <2> DEFINE impact == (order * 1000) \div pool
  <2>1. impact \in Nat
    BY <1>2, SMTT(30)
  <2>2. Slippage(order, pool) = BaseSpread + (IF impact > 500 THEN 500 ELSE impact)
    BY <1>2 DEF Slippage
  <2> HIDE DEF impact
  <2> QED BY <2>1, <2>2 DEF BaseSpread
<1> QED BY <1>1, <1>2

\* A quotient by a positive number, times that number.
LEMMA QuotientBound ==
  ASSUME NEW n \in Nat, NEW d \in Nat, d > 0
  PROVE  n \div d \in Nat /\ (n \div d) * d <= n
BY SMTT(30)

\* A sale pays out at most its gross value, and less than that if the gross
\* value is positive.
LEMMA ProceedsBelowGross ==
  ASSUME NEW quantity \in Nat, NEW price \in Nat, NEW pool \in Nat
  PROVE  LET gross == (quantity * price) \div QuantityScale
         IN  /\ gross \in Nat
             /\ Proceeds(quantity, price, pool) \in Int
             /\ Proceeds(quantity, price, pool) <= gross
             /\ gross > 0 => Proceeds(quantity, price, pool) < gross
<1> DEFINE gross  == (quantity * price) \div QuantityScale
<1>1. gross \in Nat
  <2>1. quantity * price \in Nat
    OBVIOUS
  <2> QED BY <2>1, QuotientBound DEF QuantityScale
<1> DEFINE slip   == Slippage(gross, pool)
           filled == (gross * (1000 - slip)) \div 1000
<1>3. Proceeds(quantity, price, pool) = filled - Fee(filled)
  BY DEF Proceeds
<1> HIDE DEF gross
<1>2. slip \in Nat /\ slip > 0 /\ slip <= 1001
  <2>1. \A n \in Nat : /\ Slippage(n, pool) \in Nat
                      /\ Slippage(n, pool) > 0
                      /\ Slippage(n, pool) <= 1001
    BY SlippageFacts
  <2> QED BY <1>1, <2>1
<1> HIDE DEF slip
<1>4. CASE slip <= 1000
  <2>1. gross * (1000 - slip) \in Nat /\ gross * (1000 - slip) <= gross * 999
    BY <1>1, <1>2, <1>4
  <2>2. filled \in Nat /\ filled * 1000 <= gross * 999
    BY <2>1, <1>1, SMTT(30)
  <2> HIDE DEF filled
  <2>3. Fee(filled) \in Nat /\ Fee(filled) <= filled
    BY <2>2, FeeFacts
  <2> QED BY <1>1, <1>3, <2>2, <2>3 DEF gross
<1>5. CASE slip = 1001
  <2>1. gross * (1000 - slip) = 0 - gross
    BY <1>1, <1>5
  <2>2. filled \in Int /\ filled <= 0 /\ (gross > 0 => filled < 0)
    BY <2>1, <1>1, SMTT(30)
  <2> HIDE DEF filled
  <2>3. CASE filled = 0
    BY <1>1, <1>3, <2>2, <2>3, FeeFacts DEF gross
  <2>4. CASE filled < 0
    BY <1>1, <1>3, <2>2, <2>4, FeeOfLoss DEF gross
  <2> QED BY <2>2, <2>3, <2>4
<1> QED BY <1>2, <1>4, <1>5

\* What a position cost covers its quantity at the entry price.
FairlyFilled(position) ==
  position.quantity * position.entry <= position.capital * QuantityScale

\* A fill is a position, bought at no less than its price is worth.
LEMMA FilledFacts ==
  ASSUME NEW amount \in Amounts, NEW price \in Nat, NEW pool \in Nat, price > 0
  PROVE  Filled(amount, price, pool) \in Position /\ FairlyFilled(Filled(amount, price, pool))
<1>1. amount \in Nat
  BY PaperAssumption
<1> DEFINE slip == Slippage(amount, pool)
<1>2. slip \in Nat /\ slip > 0 /\ slip <= 1001
  <2>1. \A n \in Nat : /\ Slippage(n, pool) \in Nat
                      /\ Slippage(n, pool) > 0
                      /\ Slippage(n, pool) <= 1001
    BY SlippageFacts
  <2> QED BY <1>1, <2>1
<1> DEFINE fill == (price * (1000 + slip)) \div 1000
           net  == (amount - Fee(amount)) * QuantityScale
<1>3. Fee(amount) \in Nat /\ Fee(amount) <= amount
  BY <1>1, FeeFacts
<1>4. Filled(amount, price, pool)
        = [entry |-> fill, quantity |-> net \div fill, capital |-> amount]
  BY DEF Filled
<1> HIDE DEF slip
<1>5. price * (1000 + slip) \in Nat /\ price * (1000 + slip) >= price * 1000
  BY <1>2
<1>6. fill \in Nat /\ fill > 0
  BY <1>5, SMTT(30)
<1> HIDE DEF fill
<1>7. net \in Nat /\ net <= amount * QuantityScale
  BY <1>1, <1>3 DEF QuantityScale
<1> HIDE DEF net
<1>8. net \div fill \in Nat /\ (net \div fill) * fill <= net
  BY <1>6, <1>7, QuotientBound
<1> QED BY <1>1, <1>4, <1>6, <1>7, <1>8 DEF Position, FairlyFilled, QuantityScale

\* Sold at or below its entry price, a fairly filled position pays out less
\* than it cost.
LEMMA SaleAtOrBelowEntryLoses ==
  ASSUME NEW position \in Position, FairlyFilled(position),
         NEW price \in Nat, price <= position.entry, NEW pool \in Nat
  PROVE  Proceeds(position.quantity, price, pool) < position.capital
<1> DEFINE gross == (position.quantity * price) \div QuantityScale
           paid  == Proceeds(position.quantity, price, pool)
<1> HIDE DEF gross, paid
<1>1. /\ position.quantity \in Nat
      /\ position.entry \in Nat
      /\ position.capital \in Nat
      /\ position.capital > 0
  <2>1. /\ position.quantity \in Nat
        /\ position.entry \in Nat
        /\ position.capital \in Amounts
    BY DEF Position
  <2> QED BY <2>1, AmountsArePositive
<1> USE DEF gross, paid
<1>2. gross \in Nat /\ paid \in Int /\ paid <= gross /\ (gross > 0 => paid < gross)
  BY <1>1, ProceedsBelowGross
<1>3. /\ position.quantity * price \in Nat
      /\ position.quantity * price <= position.quantity * position.entry
  BY <1>1
<1>4. gross * QuantityScale <= position.quantity * price
  BY <1>3, QuotientBound DEF QuantityScale
<1> HIDE DEF gross, paid
<1>5. gross * QuantityScale <= position.capital * QuantityScale
  BY <1>1, <1>2, <1>3, <1>4 DEF FairlyFilled, QuantityScale
<1>6. gross <= position.capital
  BY <1>1, <1>2, <1>5 DEF QuantityScale
<1>7. paid < position.capital
  BY <1>1, <1>2, <1>6
<1> QED BY <1>7 DEF paid

-----------------------------------------------------------------------------
(***************************************************************************)
(* The inductive invariant.                                                *)
(***************************************************************************)
\* The types the steps below rely on.
PaperTypes ==
  /\ feed \in [Tokens -> Nat]
  /\ market \in [Tokens -> Nat]
  /\ liquidity \in [Tokens -> Nat]
  /\ managed \in [Tokens -> Position \union {None}]
  /\ cash \in Int
  /\ realized \in Int
  /\ expired \subseteq Tokens
  /\ tracker \in [cash : Int, realized : Int, value : Nat]
  /\ due \subseteq Tokens
  /\ by_hand \in [trades : Nat, cash : Int, realized : Int]

\* Every open position was bought at no less than its price was worth.
OpenFairlyFilled == \A t \in Open : FairlyFilled(managed[t])

\* Only finitely many positions are open, although any number of tokens may
\* be known: the sums over them have a value.
FinitelyManyOpen == IsFiniteSet(Open)

\* What a handler has visited, it has dealt with.
VisitedAreSettled ==
  /\ phase = "positions" => \A t \in Open \ due : ~ExitDue(t)
  /\ phase = "emergency" => Open \subseteq due

IInv ==
  /\ PaperTypes
  /\ BooksMatch
  /\ PricesAgree
  /\ OpenFairlyFilled
  /\ FinitelyManyOpen
  /\ TrackerDriftIsByHand
  /\ VisitedAreSettled

LEMMA NoneIsNoPosition == None \notin Position
BY PaperAssumption DEF Position

LEMMA InitIInv == Init => IInv
<1> SUFFICES ASSUME Init
             PROVE  IInv
  OBVIOUS
<1>1. Open = {}
  BY DEF Init, Open
<1>2. FinitelyManyOpen
  BY <1>1, FS_EmptySet DEF FinitelyManyOpen
<1> QED
  BY <1>1, <1>2, PaperAssumption DEF Init, IInv, PaperTypes, BooksMatch,
     PricesAgree, OpenFairlyFilled, TrackerDriftIsByHand, VisitedAreSettled

\* An open position can always be sold.
LEMMA OpenIsSellable ==
  ASSUME IInv, NEW t \in Open
  PROVE  /\ Sellable(t)
         /\ simulated[t] = managed[t]
         /\ managed[t] \in Position
         /\ PaidFor(t) \in Int
         /\ ProfitOf(t) \in Int
<1>1. /\ t \in Tokens
      /\ managed[t] \in Position
      /\ simulated[t] = managed[t]
      /\ market[t] \in Nat /\ market[t] > 0
      /\ liquidity[t] \in Nat
  BY DEF IInv, PaperTypes, BooksMatch, PricesAgree, Open
<1>2. simulated[t].quantity \in Nat /\ simulated[t].capital \in Amounts
  BY <1>1 DEF Position
<1>3. simulated[t].capital \in Int
  BY <1>2, AmountsArePositive
<1>4. PaidFor(t) \in Int
  BY <1>1, <1>2, ProceedsBelowGross DEF PaidFor
<1> QED BY <1>1, <1>3, <1>4, NoneIsNoPosition DEF Sellable, ProfitOf

\* A sale takes one position out of both books and changes no other.
LEMMA SaleFacts ==
  ASSUME IInv, NEW t \in Open, Sell(t), UNCHANGED <<quotes, phase>>,
         due' \subseteq Tokens
  PROVE  /\ managed' \in [Tokens -> Position \union {None}]
         /\ cash' \in Int /\ realized' \in Int
         /\ cash' = cash + PaidFor(t) /\ realized' = realized + ProfitOf(t)
         /\ expired' \subseteq Tokens
         /\ Open' = Open \ {t}
         /\ \A u \in Open' : managed'[u] = managed[u]
         /\ \A u \in Open' : ExitDue(u)' <=> ExitDue(u)
         /\ BooksMatch' /\ PricesAgree' /\ OpenFairlyFilled' /\ FinitelyManyOpen'
<1>1. t \in Tokens /\ PaidFor(t) \in Int /\ ProfitOf(t) \in Int
  BY OpenIsSellable DEF Open
<1>2. /\ managed' = [managed EXCEPT ![t] = None]
      /\ simulated' = [simulated EXCEPT ![t] = None]
      /\ cash' = cash + PaidFor(t)
      /\ realized' = realized + ProfitOf(t)
      /\ expired' = expired \ {t}
  BY DEF Sell
<1>3. managed \in [Tokens -> Position \union {None}]
  BY DEF IInv, PaperTypes
<1>4. managed' \in [Tokens -> Position \union {None}]
  BY <1>2, <1>3
<1>5. \A u \in Tokens : managed'[u] = IF u = t THEN None ELSE managed[u]
  BY <1>2, <1>3
<1>6. Open' = Open \ {t} /\ \A u \in Open' : managed'[u] = managed[u]
  BY <1>1, <1>5 DEF Open
<1>7. \A u \in Open' : ExitDue(u)' <=> ExitDue(u)
  <2> TAKE u \in Open'
  <2>1. managed'[u] = managed[u] /\ u # t
    BY <1>6
  <2>2. u \in expired' <=> u \in expired
    BY <1>2, <2>1
  <2>3. feed' = feed
    BY DEF quotes
  <2> QED BY <2>1, <2>2, <2>3 DEF ExitDue, AtStopLoss, AtTakeProfit
<1>8. BooksMatch'
  BY <1>2 DEF IInv, BooksMatch
<1>9. PricesAgree'
  BY <1>5 DEF IInv, PricesAgree, quotes
<1>10. OpenFairlyFilled'
  BY <1>6 DEF IInv, OpenFairlyFilled
<1>11. cash' \in Int /\ realized' \in Int /\ expired' \subseteq Tokens
  BY <1>1, <1>2 DEF IInv, PaperTypes
<1>12. FinitelyManyOpen'
  BY <1>6, FS_Subset DEF IInv, FinitelyManyOpen
<1> QED BY <1>2, <1>4, <1>6, <1>7, <1>8, <1>9, <1>10, <1>11, <1>12

\* The mark-to-market value of the book is a number, and not a negative one.
LEMMA MarketValueIsNat ==
  ASSUME IInv
  PROVE  MarketValue \in Nat
<1> DEFINE value == [t \in Open |-> (managed[t].quantity * feed[t]) \div QuantityScale]
<1>1. ASSUME NEW t \in Open
      PROVE  value[t] \in Nat
  <2>1. managed[t].quantity \in Nat /\ feed[t] \in Nat
    BY DEF IInv, PaperTypes, Open, Position
  <2>2. managed[t].quantity * feed[t] \in Nat
    BY <2>1
  <2> QED BY <2>2, QuotientBound DEF QuantityScale
<1> HIDE DEF value
<1>2. SumOf(value, Open) \in Nat
  BY <1>1, SumType DEF IInv, FinitelyManyOpen
<1> QED BY <1>2 DEF MarketValue, value

\* The steps that move no money and touch no position.
LEMMA QuietStepKeeps ==
  ASSUME IInv, UNCHANGED <<market, liquidity, simulator, managed, by_hand>>,
         feed' = feed,
         expired' \subseteq Tokens,
         tracker' = tracker \/ \E v \in Nat : tracker' = [tracker EXCEPT !.value = v],
         due' \subseteq Tokens, VisitedAreSettled'
  PROVE  IInv'
<1>1. /\ tracker' \in [cash : Int, realized : Int, value : Nat]
      /\ tracker'.cash = tracker.cash
      /\ tracker'.realized = tracker.realized
  BY DEF IInv, PaperTypes
<1>2. PaperTypes'
  BY <1>1 DEF IInv, PaperTypes, simulator
<1>3. BooksMatch' /\ PricesAgree' /\ TrackerDriftIsByHand'
  BY <1>1 DEF IInv, BooksMatch, PricesAgree, TrackerDriftIsByHand, simulator
<1>4. OpenFairlyFilled' /\ FinitelyManyOpen'
  BY DEF IInv, OpenFairlyFilled, FinitelyManyOpen, Open
<1> QED BY <1>2, <1>3, <1>4 DEF IInv

LEMMA SnapshotKeeps ==
  ASSUME IInv, NEW t \in Tokens, NEW price \in Prices, NEW pool \in Liquidities,
         Snapshot(t, price, pool)
  PROVE  IInv'
<1>1. price \in Nat /\ pool \in Nat
  BY PaperAssumption
<1>2. PaperTypes'
  BY <1>1 DEF IInv, PaperTypes, Snapshot, UpdateMarket, simulator
<1>3. PricesAgree'
  BY <1>1 DEF IInv, PaperTypes, PricesAgree, Snapshot, UpdateMarket
<1>4. /\ BooksMatch' /\ OpenFairlyFilled' /\ FinitelyManyOpen'
      /\ TrackerDriftIsByHand'
  BY DEF IInv, BooksMatch, OpenFairlyFilled, FinitelyManyOpen, Open,
     TrackerDriftIsByHand, Snapshot, simulator
<1>5. VisitedAreSettled'
  BY DEF Snapshot, VisitedAreSettled
<1> QED BY <1>2, <1>3, <1>4, <1>5 DEF IInv

LEMMA BuyKeeps ==
  ASSUME IInv, NEW t \in Tokens, NEW amount \in Amounts, Buy(t, amount)
  PROVE  IInv'
<1> DEFINE position == Filled(amount, market[t], liquidity[t])
<1>1. /\ managed' = [managed EXCEPT ![t] = position]
      /\ simulated' = [simulated EXCEPT ![t] = position]
      /\ market[t] > 0
      /\ cash' = cash - amount
      /\ tracker' = [tracker EXCEPT !.cash = @ - amount]
      /\ UNCHANGED <<quotes, realized, expired, phase, due, by_hand>>
      /\ phase = "scan"
  BY DEF Buy
<1>2. position \in Position /\ FairlyFilled(position)
  BY <1>1, FilledFacts DEF IInv, PaperTypes
<1>3. amount \in Int
  BY AmountsArePositive
<1> HIDE DEF position
<1>4. /\ tracker' \in [cash : Int, realized : Int, value : Nat]
      /\ tracker'.cash = tracker.cash - amount
      /\ tracker'.realized = tracker.realized
  BY <1>1, <1>3 DEF IInv, PaperTypes
<1>5. PaperTypes'
  BY <1>1, <1>2, <1>3, <1>4 DEF IInv, PaperTypes, quotes
<1>6. BooksMatch'
  BY <1>1 DEF IInv, BooksMatch
<1>7. \A u \in Tokens : managed'[u] = IF u = t THEN position ELSE managed[u]
  BY <1>1 DEF IInv, PaperTypes
<1>8. PricesAgree'
  BY <1>1, <1>7 DEF IInv, PricesAgree, quotes
<1>9. OpenFairlyFilled'
  BY <1>2, <1>7 DEF IInv, OpenFairlyFilled, Open
<1>10. TrackerDriftIsByHand'
  BY <1>1, <1>3, <1>4 DEF IInv, PaperTypes, TrackerDriftIsByHand
<1>11. VisitedAreSettled'
  BY <1>1 DEF VisitedAreSettled
<1>12. FinitelyManyOpen'
  <2>1. Open' = Open \union {t}
    BY <1>2, <1>7, NoneIsNoPosition DEF Open
  <2> QED BY <2>1, FS_AddElement DEF IInv, FinitelyManyOpen
<1> QED BY <1>5, <1>6, <1>8, <1>9, <1>10, <1>11, <1>12 DEF IInv

\* The sale of an exit: the tracker hears of it.
LEMMA ExitKeeps ==
  ASSUME IInv, NEW t \in due, phase = "positions", Open \subseteq Tokens,
         t \in Open, Exit(t), due' = due \ {t}, UNCHANGED <<quotes, phase, by_hand>>
  PROVE  IInv'
<1>1. Sell(t) /\ due' \subseteq Tokens
  BY DEF Exit, IInv, PaperTypes
<1>2. PaidFor(t) \in Int /\ ProfitOf(t) \in Int
  BY OpenIsSellable
<1>3. /\ managed' \in [Tokens -> Position \union {None}]
      /\ cash' \in Int /\ realized' \in Int
      /\ cash' = cash + PaidFor(t) /\ realized' = realized + ProfitOf(t)
      /\ expired' \subseteq Tokens
      /\ Open' = Open \ {t}
      /\ \A u \in Open' : ExitDue(u)' <=> ExitDue(u)
      /\ BooksMatch' /\ PricesAgree' /\ OpenFairlyFilled' /\ FinitelyManyOpen'
  BY <1>1, SaleFacts
<1>4. /\ tracker' \in [cash : Int, realized : Int, value : Nat]
      /\ tracker'.cash = tracker.cash + PaidFor(t)
      /\ tracker'.realized = tracker.realized + ProfitOf(t)
  <2>1. tracker \in [cash : Int, realized : Int, value : Nat]
    BY DEF IInv, PaperTypes
  <2>2. tracker' = [tracker EXCEPT !.cash = @ + PaidFor(t),
                                   !.realized = @ + ProfitOf(t)]
    BY DEF Exit
  <2>3. tracker.cash + PaidFor(t) \in Int /\ tracker.realized + ProfitOf(t) \in Int
    BY <1>2, <2>1
  <2> QED BY <2>1, <2>2, <2>3
<1>5. PaperTypes'
  BY <1>1, <1>2, <1>3, <1>4 DEF IInv, PaperTypes, quotes
<1>6. TrackerDriftIsByHand'
  BY <1>2, <1>3, <1>4 DEF IInv, PaperTypes, TrackerDriftIsByHand
<1>7. VisitedAreSettled'
  BY <1>3 DEF IInv, VisitedAreSettled
<1> QED BY <1>3, <1>5, <1>6, <1>7 DEF IInv

\* A sale by hand: only the history hears of it.
LEMMA SellByHandKeeps ==
  ASSUME IInv, NEW t \in Open, phase \in {"idle", "emergency"}, SellByHand(t),
         due' \subseteq Tokens, due \ {t} \subseteq due', UNCHANGED <<quotes, phase, tracker>>
  PROVE  IInv'
<1>1. Sell(t)
  BY DEF SellByHand
<1>2. PaidFor(t) \in Int /\ ProfitOf(t) \in Int
  BY OpenIsSellable
<1>3. /\ managed' \in [Tokens -> Position \union {None}]
      /\ cash' \in Int /\ realized' \in Int
      /\ cash' = cash + PaidFor(t) /\ realized' = realized + ProfitOf(t)
      /\ expired' \subseteq Tokens
      /\ Open' = Open \ {t}
      /\ BooksMatch' /\ PricesAgree' /\ OpenFairlyFilled' /\ FinitelyManyOpen'
  BY <1>1, SaleFacts
<1>4. /\ by_hand' \in [trades : Nat, cash : Int, realized : Int]
      /\ by_hand'.cash = by_hand.cash + PaidFor(t)
      /\ by_hand'.realized = by_hand.realized + ProfitOf(t)
  BY <1>2 DEF SellByHand, IInv, PaperTypes
<1>5. PaperTypes'
  BY <1>3, <1>4 DEF IInv, PaperTypes, quotes
<1>6. TrackerDriftIsByHand'
  BY <1>2, <1>3, <1>4 DEF IInv, PaperTypes, TrackerDriftIsByHand
<1>7. VisitedAreSettled'
  BY <1>3 DEF IInv, VisitedAreSettled
<1> QED BY <1>3, <1>5, <1>6, <1>7 DEF IInv

LEMMA VisitPositionKeeps ==
  ASSUME IInv, NEW t \in Tokens, VisitPosition(t)
  PROVE  IInv'
<1>1. /\ phase = "positions" /\ t \in due /\ due' = due \ {t}
      /\ UNCHANGED <<quotes, phase, by_hand>>
  BY DEF VisitPosition
<1>2. CASE ExitDue(t) /\ Sellable(t)
  <2>1. Exit(t)
    BY <1>2 DEF VisitPosition
  <2>2. t \in Open /\ Open \subseteq Tokens
    BY <1>2 DEF Sellable, Open, IInv, BooksMatch
  <2> QED BY <1>1, <2>1, <2>2, ExitKeeps
<1>3. CASE ~(ExitDue(t) /\ Sellable(t))
  <2>1. UNCHANGED <<simulator, managed, expired, tracker>>
    BY <1>3 DEF VisitPosition
  <2>2. t \in Open => ~ExitDue(t)
    BY <1>3, OpenIsSellable
  <2>3. Open' = Open /\ \A u \in Open : ExitDue(u)' <=> ExitDue(u)
    BY <1>1, <2>1 DEF Open, ExitDue, AtStopLoss, AtTakeProfit, quotes
  <2>4. VisitedAreSettled'
    BY <1>1, <2>2, <2>3 DEF IInv, VisitedAreSettled
  <2>5. due' \subseteq Tokens /\ expired' \subseteq Tokens
    BY <1>1, <2>1 DEF IInv, PaperTypes
  <2> QED BY <1>1, <2>1, <2>4, <2>5, QuietStepKeeps DEF quotes
<1> QED BY <1>2, <1>3

LEMMA EmergencyCloseKeeps ==
  ASSUME IInv, NEW t \in Tokens, EmergencyClose(t)
  PROVE  IInv'
<1>1. /\ phase = "emergency" /\ t \in due /\ due' = due \ {t}
      /\ UNCHANGED <<quotes, phase, tracker>>
  BY DEF EmergencyClose
<1>2. due' \subseteq Tokens
  BY <1>1 DEF IInv, PaperTypes
<1>3. CASE Sellable(t)
  <2>1. SellByHand(t)
    BY <1>3 DEF EmergencyClose
  <2>2. t \in Open
    BY <1>3 DEF Sellable, Open, IInv, BooksMatch
  <2> QED BY <1>1, <1>2, <2>1, <2>2, SellByHandKeeps
<1>4. CASE ~Sellable(t)
  <2>1. UNCHANGED <<simulator, managed, expired, by_hand>>
    BY <1>4 DEF EmergencyClose
  <2>2. t \notin Open
    BY <1>4, OpenIsSellable
  <2>3. Open' = Open
    BY <2>1 DEF Open
  <2>4. VisitedAreSettled'
    BY <1>1, <2>2, <2>3 DEF IInv, VisitedAreSettled
  <2>5. expired' \subseteq Tokens
    BY <2>1 DEF IInv, PaperTypes
  <2> QED BY <1>1, <1>2, <2>1, <2>4, <2>5, QuietStepKeeps DEF quotes
<1> QED BY <1>3, <1>4

LEMMA StepIInv == IInv /\ [Next]_vars => IInv'
<1> SUFFICES ASSUME IInv, [Next]_vars
             PROVE  IInv'
  OBVIOUS
<1> USE DEF quotes
<1>1. due \subseteq Tokens /\ expired \subseteq Tokens /\ Open \subseteq Tokens
  BY DEF IInv, PaperTypes, Open
<1>2. CASE BeginScan
  BY <1>1, <1>2, QuietStepKeeps DEF BeginScan, VisitedAreSettled
<1>3. ASSUME NEW t \in Tokens, NEW price \in Prices, NEW pool \in Liquidities,
             Snapshot(t, price, pool)
      PROVE  IInv'
  BY <1>3, SnapshotKeeps
<1>4. ASSUME NEW t \in Tokens, NEW amount \in Amounts, Buy(t, amount)
      PROVE  IInv'
  BY <1>4, BuyKeeps
<1>5. CASE EndScan
  BY <1>1, <1>5, QuietStepKeeps DEF EndScan, VisitedAreSettled
<1>6. CASE BeginPositionCycle
  <2>1. Open' = Open /\ due' = Open /\ phase' = "positions"
    BY <1>6 DEF BeginPositionCycle, Open
  <2>2. VisitedAreSettled'
    BY <2>1 DEF VisitedAreSettled
  <2> QED BY <1>1, <1>6, <2>1, <2>2, QuietStepKeeps DEF BeginPositionCycle
<1>7. ASSUME NEW t \in Tokens, VisitPosition(t)
      PROVE  IInv'
  BY <1>7, VisitPositionKeeps
<1>8. CASE EndPositionCycle
  <2>1. \E v \in Nat : tracker' = [tracker EXCEPT !.value = v]
    BY <1>8, MarketValueIsNat DEF EndPositionCycle, Marked
  <2>2. VisitedAreSettled'
    BY <1>8 DEF EndPositionCycle, VisitedAreSettled
  <2>3. UNCHANGED <<quotes, simulator, managed, expired, due, by_hand>>
    BY <1>8 DEF EndPositionCycle
  <2> QED BY <1>1, <2>1, <2>2, <2>3, QuietStepKeeps
<1>9. ASSUME NEW t \in Tokens, CloseRequest(t)
      PROVE  IInv'
  BY <1>1, <1>9, SellByHandKeeps DEF CloseRequest, Open
<1>10. CASE EmergencyRequest
  <2>1. Open' = Open /\ due' = Open /\ phase' = "emergency"
    BY <1>10 DEF EmergencyRequest, Open
  <2>2. VisitedAreSettled'
    BY <2>1 DEF VisitedAreSettled
  <2> QED BY <1>1, <1>10, <2>1, <2>2, QuietStepKeeps DEF EmergencyRequest
<1>11. ASSUME NEW t \in Tokens, EmergencyClose(t)
       PROVE  IInv'
  BY <1>11, EmergencyCloseKeeps
<1>12. CASE EmergencyEnds
  BY <1>1, <1>12, QuietStepKeeps DEF EmergencyEnds, VisitedAreSettled
<1>13. CASE Reconcile
  BY <1>1, <1>13, QuietStepKeeps DEF Reconcile, VisitedAreSettled
<1>14. ASSUME NEW t \in Tokens, HoldingTimeEnds(t)
       PROVE  IInv'
  BY <1>1, <1>14, QuietStepKeeps DEF HoldingTimeEnds, VisitedAreSettled
<1>15. CASE UNCHANGED vars
  <2>1. VisitedAreSettled'
    BY <1>15 DEF vars, simulator, IInv, VisitedAreSettled, Open, ExitDue,
       AtStopLoss, AtTakeProfit
  <2> QED BY <1>1, <1>15, <2>1, QuietStepKeeps DEF vars
<1> QED BY <1>2, <1>3, <1>4, <1>5, <1>6, <1>7, <1>8, <1>9, <1>10, <1>11,
           <1>12, <1>13, <1>14, <1>15 DEF Next

-----------------------------------------------------------------------------
\* The inductive invariant of paper mode.
THEOREM PaperInvariant == Spec => []IInv
BY InitIInv, StepIInv, PTL DEF Spec

\* reconciliation_worker.py:27: simulator and position manager hold the same
\* positions with the same quantities, at every moment.
THEOREM PaperBooksMatch == Spec => []BooksMatch
<1>1. IInv => BooksMatch
  BY DEF IInv
<1> QED BY <1>1, PaperInvariant, PTL

\* The tracker's cash and profit differ from the simulator's by the dashboard's
\* sales and nothing else.
THEOREM TrackerDrift == Spec => []TrackerDriftIsByHand
<1>1. IInv => TrackerDriftIsByHand
  BY DEF IInv
<1> QED BY <1>1, PaperInvariant, PTL

\* The simulator's market shows every price the feed shows, and a price for
\* every open position.
THEOREM FeedAndMarketAgree == Spec => []PricesAgree
<1>1. IInv => PricesAgree
  BY DEF IInv
<1> QED BY <1>1, PaperInvariant, PTL

\* A cycle that ends has visited every position: none of those left had
\* reached an exit at a known price.
THEOREM CyclesComplete == Spec => CycleLeavesNothingDue
<1> DEFINE Done ==
      (phase = "positions" /\ phase' = "idle") =>
        \A t \in Open :
          feed[t] > 0 => ~AtStopLoss(t) /\ ~AtTakeProfit(t) /\ t \notin expired
<1>1. IInv /\ [Next]_vars => [Done]_vars
  <2> SUFFICES ASSUME IInv, Next, phase = "positions", phase' = "idle"
               PROVE  \A t \in Open : ~ExitDue(t)
    BY DEF ExitDue
  <2>1. due = {}
    BY DEF Next, BeginScan, Snapshot, Buy, EndScan, BeginPositionCycle,
       VisitPosition, EndPositionCycle, CloseRequest, EmergencyRequest,
       EmergencyClose, EmergencyEnds, Reconcile, HoldingTimeEnds
  <2> QED BY <2>1 DEF IInv, VisitedAreSettled
<1> QED BY <1>1, PaperInvariant, PTL DEF Spec, CycleLeavesNothingDue

\* In paper mode an emergency stop that ends leaves no position open.
THEOREM EmergencyStopsComplete == Spec => EmergencyClosesAll
<1> DEFINE Done == (phase = "emergency" /\ phase' = "idle") => Open = {}
<1>1. IInv /\ [Next]_vars => [Done]_vars
  <2> SUFFICES ASSUME IInv, Next, phase = "emergency", phase' = "idle"
               PROVE  Open = {}
    OBVIOUS
  <2>1. due = {}
    BY DEF Next, BeginScan, Snapshot, Buy, EndScan, BeginPositionCycle,
       VisitPosition, EndPositionCycle, CloseRequest, EmergencyRequest,
       EmergencyClose, EmergencyEnds, Reconcile, HoldingTimeEnds
  <2> QED BY <2>1 DEF IInv, VisitedAreSettled
<1> QED BY <1>1, PaperInvariant, PTL DEF Spec, EmergencyClosesAll

\* Positions and money change by a sale or by a buy; every other step leaves
\* the simulator as it is.
LEMMA KindsOfStep ==
  ASSUME IInv, [Next]_vars
  PROVE  \/ \E t \in Open : Sell(t)
         \/ \E t \in Tokens, amount \in Amounts : Buy(t, amount)
         \/ UNCHANGED simulator
<1>1. ASSUME NEW t \in Tokens, Sellable(t)
      PROVE  t \in Open
  BY <1>1 DEF Sellable, Open, IInv, BooksMatch
<1>2. CASE BeginScan \/ EndScan \/ BeginPositionCycle \/ EndPositionCycle
             \/ EmergencyRequest \/ EmergencyEnds \/ Reconcile \/ UNCHANGED vars
  BY <1>2 DEF BeginScan, EndScan, BeginPositionCycle, EndPositionCycle,
     EmergencyRequest, EmergencyEnds, Reconcile, vars
<1>3. ASSUME NEW t \in Tokens, VisitPosition(t)
      PROVE  UNCHANGED simulator \/ (t \in Open /\ Sell(t))
  BY <1>1, <1>3 DEF VisitPosition, Exit
<1>4. ASSUME NEW t \in Tokens, CloseRequest(t) \/ EmergencyClose(t)
      PROVE  UNCHANGED simulator \/ (t \in Open /\ Sell(t))
  BY <1>1, <1>4 DEF CloseRequest, EmergencyClose, SellByHand
<1>5. ASSUME NEW t \in Tokens, HoldingTimeEnds(t)
      PROVE  UNCHANGED simulator
  BY <1>5 DEF HoldingTimeEnds
<1>6. ASSUME NEW t \in Tokens, NEW price \in Prices, NEW pool \in Liquidities,
             Snapshot(t, price, pool)
      PROVE  UNCHANGED simulator
  BY <1>6 DEF Snapshot
<1> QED BY <1>2, <1>3, <1>4, <1>5, <1>6 DEF Next

\* A buy gives its token a position in the simulator.
LEMMA BuyFacts ==
  ASSUME IInv, NEW t \in Tokens, NEW amount \in Amounts, Buy(t, amount)
  PROVE  /\ t \notin SimulatedOpen
         /\ SimulatedOpen' = SimulatedOpen \union {t}
         /\ \A u \in SimulatedOpen : simulated'[u] = simulated[u]
         /\ simulated'[t] # None /\ simulated'[t].capital = amount
<1> DEFINE position == Filled(amount, market[t], liquidity[t])
<1>1. market[t] \in Nat /\ market[t] > 0 /\ liquidity[t] \in Nat
  BY DEF Buy, IInv, PaperTypes
<1>2. position # None
  BY <1>1, FilledFacts, NoneIsNoPosition
<1>3. position.capital = amount
  BY DEF Filled
<1> HIDE DEF position
<1>4. simulated' = [simulated EXCEPT ![t] = position] /\ simulated[t] = None
  BY DEF Buy, position
<1>5. simulated \in [Tokens -> Position \union {None}]
  BY DEF IInv, BooksMatch, PaperTypes
<1>6. \A u \in Tokens : simulated'[u] = IF u = t THEN position ELSE simulated[u]
  BY <1>4, <1>5
<1> QED BY <1>2, <1>3, <1>4, <1>6 DEF SimulatedOpen

\* A sale takes its token out of the simulator.
LEMMA SimulatedAfterSale ==
  ASSUME IInv, NEW t \in Open, Sell(t)
  PROVE  /\ t \in SimulatedOpen
         /\ SimulatedOpen' = SimulatedOpen \ {t}
         /\ \A u \in SimulatedOpen' : simulated'[u] = simulated[u]
<1>1. simulated \in [Tokens -> Position \union {None}] /\ t \in Tokens
  BY DEF IInv, BooksMatch, PaperTypes, Open
<1>2. \A u \in Tokens : simulated'[u] = IF u = t THEN None ELSE simulated[u]
  BY <1>1 DEF Sell
<1>3. simulated[t] # None
  BY DEF IInv, BooksMatch, Open
<1> QED BY <1>1, <1>2, <1>3 DEF SimulatedOpen

\* A position disappears from the simulator only by its sale.
LEMMA OnlySalesRemove ==
  ASSUME IInv, Next, NEW t \in Tokens, simulated[t] # None, simulated'[t] = None
  PROVE  realized' = realized + ProfitOf(t)
<1>1. ASSUME NEW u \in Open, Sell(u)
      PROVE  realized' = realized + ProfitOf(t)
  <2>1. t = u
    BY <1>1, SimulatedAfterSale DEF SimulatedOpen
  <2> QED BY <1>1, <2>1 DEF Sell
<1>2. ASSUME NEW u \in Tokens, NEW amount \in Amounts, Buy(u, amount)
      PROVE  FALSE
  <2>1. t \in SimulatedOpen' /\ simulated'[t] # None
    BY <1>2, BuyFacts DEF SimulatedOpen
  <2> QED BY <2>1
<1>3. ~UNCHANGED simulator
  BY DEF simulator
<1> QED BY <1>1, <1>2, <1>3, KindsOfStep

\* No sale at or below the entry price books a profit: spread, impact and fee
\* cannot be outrun, however the pool's depth changes while the position is
\* open, including a pool that has run dry.
THEOREM NoFreeLunch == Spec => NoProfitAtOrBelowEntry
<1> DEFINE Loses ==
      \A t \in Tokens :
        (/\ simulated[t] # None /\ simulated'[t] = None
         /\ market[t] <= simulated[t].entry)
          => realized' < realized
<1>1. IInv /\ [Next]_vars => [Loses]_vars
  <2> SUFFICES ASSUME IInv, Next, NEW t \in Tokens,
                      simulated[t] # None, simulated'[t] = None,
                      market[t] <= simulated[t].entry
               PROVE  realized' < realized
    OBVIOUS
  <2>1. /\ t \in Open
        /\ simulated[t] \in Position /\ FairlyFilled(simulated[t])
        /\ market[t] \in Nat /\ liquidity[t] \in Nat /\ realized \in Int
    BY DEF IInv, PaperTypes, BooksMatch, OpenFairlyFilled, Open
  <2>2. PaidFor(t) < simulated[t].capital
    BY <2>1, SaleAtOrBelowEntryLoses DEF PaidFor
  <2>3. PaidFor(t) \in Int /\ ProfitOf(t) \in Int
    BY <2>1, OpenIsSellable
  <2>4. simulated[t].capital \in Int
    BY <2>1, AmountsArePositive DEF Position
  <2>5. ProfitOf(t) < 0
    BY <2>2, <2>3, <2>4 DEF ProfitOf
  <2> QED BY <2>1, <2>3, <2>5, OnlySalesRemove
<1> QED BY <1>1, PaperInvariant, PTL DEF Spec, NoProfitAtOrBelowEntry

-----------------------------------------------------------------------------
(***************************************************************************)
(* No money appears or disappears.                                         *)
(***************************************************************************)
\* What each position in the simulator cost.
Cost == [t \in SimulatedOpen |-> simulated[t].capital]

LEMMA CostFacts ==
  ASSUME IInv
  PROVE  /\ IsFiniteSet(SimulatedOpen)
         /\ \A t \in SimulatedOpen : Cost[t] = simulated[t].capital /\ Cost[t] \in Int
         /\ SumOf(Cost, SimulatedOpen) \in Int
<1>1. SimulatedOpen = Open
  BY DEF SimulatedOpen, Open, IInv, BooksMatch
<1>2. IsFiniteSet(SimulatedOpen)
  BY <1>1 DEF IInv, FinitelyManyOpen
<1>3. \A t \in SimulatedOpen : simulated[t] \in Position
  BY DEF SimulatedOpen, IInv, BooksMatch, PaperTypes
<1>4. \A t \in SimulatedOpen : Cost[t] = simulated[t].capital /\ Cost[t] \in Int
  BY <1>3, AmountsArePositive DEF Cost, Position
<1> QED BY <1>2, <1>4, SumType

\* A buy turns cash into cost.
LEMMA BuyConservesCash ==
  ASSUME IInv, CashIdentity, NEW t \in Tokens, NEW amount \in Amounts,
         Buy(t, amount)
  PROVE  CashIdentity'
<1>1. /\ t \notin SimulatedOpen
      /\ SimulatedOpen' = SimulatedOpen \union {t}
      /\ \A u \in SimulatedOpen : Cost'[u] = Cost[u]
      /\ Cost'[t] = amount
  BY BuyFacts DEF Cost
<1>2. amount \in Int /\ cash \in Int /\ realized \in Int /\ StartingCash \in Int
  BY AmountsArePositive, PaperAssumption DEF IInv, PaperTypes
<1>3. SumOf(Cost', SimulatedOpen') = amount + SumOf(Cost', SimulatedOpen)
  <2>1. \A u \in SimulatedOpen \union {t} : Cost'[u] \in Int
    BY <1>1, <1>2, CostFacts
  <2> QED BY <1>1, <2>1, CostFacts, SumAdd
<1>4. SumOf(Cost', SimulatedOpen) = SumOf(Cost, SimulatedOpen)
  BY <1>1, CostFacts, SumSame
<1>5. cash' = cash - amount /\ realized' = realized
  BY DEF Buy
<1>6. cash + SumOf(Cost, SimulatedOpen) = StartingCash + realized
  BY DEF CashIdentity, Cost
<1>7. cash' + SumOf(Cost', SimulatedOpen') = StartingCash + realized'
  BY <1>2, <1>3, <1>4, <1>5, <1>6, CostFacts
<1> QED BY <1>7 DEF CashIdentity, Cost

\* A sale turns cost into cash and books the difference.
LEMMA SaleConservesCash ==
  ASSUME IInv, CashIdentity, NEW t \in Open, Sell(t)
  PROVE  CashIdentity'
<1>1. /\ t \in SimulatedOpen
      /\ SimulatedOpen' = SimulatedOpen \ {t}
      /\ \A u \in SimulatedOpen' : Cost'[u] = Cost[u]
  BY SimulatedAfterSale DEF Cost
<1>2. IsFiniteSet(SimulatedOpen') /\ SimulatedOpen' \subseteq SimulatedOpen
  BY <1>1, CostFacts, FS_Subset
<1>3. SumOf(Cost, SimulatedOpen) = Cost[t] + SumOf(Cost, SimulatedOpen')
  BY <1>1, CostFacts, SumRemove
<1>4. SumOf(Cost', SimulatedOpen') = SumOf(Cost, SimulatedOpen')
  BY <1>1, <1>2, SumSame
<1>5. SumOf(Cost, SimulatedOpen') \in Int
  BY <1>2, CostFacts, SumType
<1>6. cash' = cash + PaidFor(t) /\ realized' = realized + ProfitOf(t)
  BY DEF Sell
<1>7. ProfitOf(t) = PaidFor(t) - Cost[t]
  BY <1>1, CostFacts DEF ProfitOf
<1>8. PaidFor(t) \in Int /\ Cost[t] \in Int /\ cash \in Int /\ realized \in Int
      /\ StartingCash \in Int
  BY <1>1, OpenIsSellable, CostFacts, PaperAssumption DEF IInv, PaperTypes
<1>9. cash + SumOf(Cost, SimulatedOpen) = StartingCash + realized
  BY DEF CashIdentity, Cost
<1>10. cash' + SumOf(Cost', SimulatedOpen') = StartingCash + realized'
  BY <1>3, <1>4, <1>5, <1>6, <1>7, <1>8, <1>9
<1> QED BY <1>10 DEF CashIdentity, Cost

\* No money appears or disappears: whatever is traded, at whatever prices and
\* slippage, what left the cash is the cost of the open positions or booked as
\* a profit or loss.
THEOREM MoneyConserved == Spec => []CashIdentity
<1>1. Init => CashIdentity
  <2> SUFFICES ASSUME Init
               PROVE  CashIdentity
    OBVIOUS
  <2>1. SimulatedOpen = {} /\ cash = StartingCash /\ realized = 0
    BY DEF Init, SimulatedOpen
  <2> QED BY <2>1, SumEmpty, PaperAssumption DEF CashIdentity
<1>2. IInv /\ CashIdentity /\ [Next]_vars => CashIdentity'
  <2>1. UNCHANGED simulator /\ CashIdentity => CashIdentity'
    BY DEF simulator, CashIdentity, SimulatedOpen
  <2> QED BY <2>1, BuyConservesCash, SaleConservesCash, KindsOfStep
<1> QED BY <1>1, <1>2, PaperInvariant, PTL DEF Spec

-----------------------------------------------------------------------------
\* The types the inductive invariant leaves out.
RestTypes ==
  /\ trade_count \in Nat
  /\ report \subseteq {"positions", "quantity", "cash"}
  /\ phase \in {"idle", "scan", "positions", "emergency"}

LEMMA RestTypesStep ==
  ASSUME IInv, RestTypes, [Next]_vars
  PROVE  RestTypes'
<1>1. trade_count' \in Nat
  BY KindsOfStep DEF RestTypes, Sell, Buy, simulator
<1>2. report' \subseteq {"positions", "quantity", "cash"}
  BY DEF RestTypes, Next, BeginScan, Snapshot, Buy, EndScan, BeginPositionCycle,
     VisitPosition, EndPositionCycle, CloseRequest, EmergencyRequest,
     EmergencyClose, EmergencyEnds, Reconcile, HoldingTimeEnds, vars
<1>3. phase' \in {"idle", "scan", "positions", "emergency"}
  BY DEF RestTypes, Next, BeginScan, Snapshot, Buy, EndScan, BeginPositionCycle,
     VisitPosition, EndPositionCycle, CloseRequest, EmergencyRequest,
     EmergencyClose, EmergencyEnds, Reconcile, HoldingTimeEnds, vars
<1> QED BY <1>1, <1>2, <1>3 DEF RestTypes

\* Every variable keeps its shape, the balance tracker's position value, a sum
\* over the open positions, included.
THEOREM PaperTypeCorrect == Spec => []TypeOK
<1>1. Init => RestTypes
  BY DEF Init, RestTypes
<1>2. IInv /\ RestTypes => TypeOK
  BY DEF IInv, BooksMatch, PaperTypes, RestTypes, TypeOK
<1> QED BY <1>1, <1>2, RestTypesStep, PaperInvariant, PTL DEF Spec
=============================================================================
