-------------------------------- MODULE Scoring --------------------------------
(***************************************************************************)
(* How a token is scored and turned into a signal: TokenScorer and the     *)
(* momentum strategy (app/strategy/scoring.py, momentum.py), the           *)
(* new-launch sniper (new_launch.py) and the loop's own risk heuristic     *)
(* (trading_loop.py, _heuristic_risk_score).                               *)
(*                                                                         *)
(* A snapshot is a record; liquidity and volumes are in dollars, price     *)
(* changes in percent, prices in millionths of a dollar, ages in minutes,  *)
(* confidences per mille.  A figure the feed may lack is None where the    *)
(* code tells None from 0, and 0 where it does not (x or 0).  Ratios are   *)
(* compared by cross-multiplication.                                       *)
(***************************************************************************)
EXTENDS Integers

CONSTANTS
  None,
  MinLiquidity,   \* MIN_LIQUIDITY_USD
  MinVolume,      \* MIN_VOLUME_5M_USD
  MinRiskScore,   \* MIN_RISK_SCORE
  Weights         \* scoring_weights: a record of integers

ASSUME ScoringAssumption ==
  /\ None \notin Int
  /\ MinLiquidity \in Nat
  /\ MinVolume \in Nat
  /\ MinRiskScore \in Int
  /\ Weights \in [liquidity : Int, volume : Int, buy_pressure : Int, momentum : Int,
                  volume_acceleration : Int, token_age : Int, risk_score : Int]

\* What a MarketSnapshot says, with the class of its name.
Snapshot ==
  [liquidity : Nat \cup {None}, volume_5m : Nat, volume_1h : Nat,
   buys_5m : Nat, sells_5m : Nat, buys_1h : Nat, sells_1h : Nat,
   change_m5 : Int \cup {None}, change_h1 : Int \cup {None},
   market_cap : Nat, fdv : Nat, pair_age : (Nat \ {0}) \cup {None}, price : Nat,
   name : {"clean", "suspicious", "honeypot"}, known_dex : BOOLEAN]

\* x or 0.
OrZero(x) == IF x = None THEN 0 ELSE x

Clamp(score) == IF score < 0 THEN 0 ELSE IF score > 100 THEN 100 ELSE score

\* int(weight * 0.7)
Share(weight, percent) == (weight * percent) \div 100

\* The percentage of the highest bound in grades that x reaches, 0 for none.
Reached(x, grades) ==
  LET below == {g \in grades : x >= g[1]}
  IN  IF below = {} THEN 0
      ELSE (CHOOSE g \in below : \A h \in below : h[1] <= g[1])[2]

Trades(s) == s.buys_5m + s.sells_5m

-----------------------------------------------------------------------------
(***************************************************************************)
(* The standard scorer.                                                    *)
(***************************************************************************)
ScoreLiquidity(s) ==
  Share(Weights.liquidity,
        Reached(OrZero(s.liquidity),
                {<<50000, 100>>, <<20000, 80>>, <<10000, 50>>, <<5000, 20>>}))

ScoreVolume(s) ==
  Share(Weights.volume,
        Reached(s.volume_5m, {<<25000, 100>>, <<10000, 80>>, <<5000, 50>>, <<0, 20>>}))

ScoreBuyPressure(s) ==
  IF Trades(s) = 0 THEN 0
  ELSE Share(Weights.buy_pressure,
             Reached(10 * s.buys_5m,
                     {<<7 * Trades(s), 100>>, <<5 * Trades(s), 70>>, <<3 * Trades(s), 30>>}))

ScoreMomentum(s) ==
  Share(Weights.momentum,
        IF s.change_h1 = None THEN 50
        ELSE Reached(s.change_h1, {<<20, 100>>, <<5, 70>>, <<-5, 50>>, <<-20, 30>>}))

\* The last five minutes against a twelfth of the hour.
ScoreVolumeAcceleration(s) ==
  IF s.volume_1h = 0 THEN 0
  ELSE Share(Weights.volume_acceleration,
             Reached(120 * s.volume_5m,
                     {<<20 * s.volume_1h, 100>>, <<12 * s.volume_1h, 70>>,
                      <<8 * s.volume_1h, 50>>, <<0, 20>>}))

ScoreTokenAge(age) ==
  Share(Weights.token_age,
        IF age = None THEN 50
        ELSE Reached(age, {<<24 * 60, 50>>, <<6 * 60, 80>>, <<30, 100>>, <<0, 30>>}))

ScoreRisk(risk) ==
  Share(Weights.risk_score, Reached(risk, {<<80, 100>>, <<60, 70>>, <<40, 40>>}))

Score(s, risk, age) ==
  Clamp(ScoreLiquidity(s) + ScoreVolume(s) + ScoreBuyPressure(s) + ScoreMomentum(s)
          + ScoreVolumeAcceleration(s) + ScoreTokenAge(age) + ScoreRisk(risk))

(***************************************************************************)
(* The momentum strategy.  A risk score of 0 counts as unknown when the    *)
(* token is scored, not when it is compared with the minimum.              *)
(***************************************************************************)
Reject == [kind |-> "reject", confidence |-> 0]
Watch == [kind |-> "watch", confidence |-> 300]
Buy(confidence) == [kind |-> "buy", confidence |-> confidence]

\* Mutant: the confidences of a strong and a moderate signal are swapped.
MomentumSignalSwapped(s, risk, age, unsafe) ==
  LET score == Score(s, IF OrZero(risk) = 0 THEN 50 ELSE risk, age)
  IN  IF (risk # None /\ risk < MinRiskScore) \/ unsafe THEN Reject
      ELSE IF score >= 75 THEN Buy(8 * score)
      ELSE IF score >= 60 THEN Buy(10 * score)
      ELSE IF score >= 45 THEN Watch
      ELSE Reject

\* unsafe: the context says that there is a mint or freeze authority.
MomentumSignal(s, risk, age, unsafe) ==
  LET score == Score(s, IF OrZero(risk) = 0 THEN 50 ELSE risk, age)
  IN  IF (risk # None /\ risk < MinRiskScore) \/ unsafe THEN Reject
      ELSE IF score >= 75 THEN Buy(10 * score)
      ELSE IF score >= 60 THEN Buy(8 * score)
      ELSE IF score >= 45 THEN Watch
      ELSE Reject

(***************************************************************************)
(* The loop's heuristic risk score.                                        *)
(***************************************************************************)
\* Mutant: a pool below the minimum costs nothing.
HeuristicLiquidityLenient(liquidity) ==
  IF liquidity >= 100000 THEN 20 ELSE IF liquidity >= MinLiquidity THEN 10 ELSE 0

HeuristicLiquidity(liquidity) ==
  IF liquidity >= 100000 THEN 20 ELSE IF liquidity >= MinLiquidity THEN 10 ELSE -15

HeuristicVolume(volume) ==
  IF volume >= 2 * MinVolume THEN 10 ELSE IF volume < MinVolume THEN -10 ELSE 0

HeuristicPressure(s) ==
  IF Trades(s) = 0 THEN 0
  ELSE IF 10 * s.buys_5m >= 6 * Trades(s) THEN 10
  ELSE IF 10 * s.buys_5m < 4 * Trades(s) THEN -10
  ELSE 0

HeuristicRiskScore(s) ==
  Clamp(50 + HeuristicLiquidity(OrZero(s.liquidity)) + HeuristicVolume(s.volume_5m)
           + HeuristicPressure(s))

-----------------------------------------------------------------------------
(***************************************************************************)
(* The new-launch sniper, with its fixed weights.                          *)
(***************************************************************************)
LaunchBuyPressure(s) ==
  IF Trades(s) = 0 THEN 12
  ELSE Share(25, Reached(10 * s.buys_5m,
                         {<<8 * Trades(s), 100>>, <<6 * Trades(s), 80>>, <<4 * Trades(s), 40>>}))

LaunchVolume(s) ==
  Share(20, Reached(s.volume_5m, {<<5000, 100>>, <<1000, 80>>, <<200, 50>>, <<0, 20>>}))

LaunchNewness(age) ==
  Share(20, IF age = None THEN 50
            ELSE Reached(age, {<<60, 10>>, <<30, 40>>, <<15, 70>>, <<5, 90>>, <<0, 100>>}))

\* A deep pool has probably pumped already.
LaunchLiquidity(s) ==
  Share(15, Reached(OrZero(s.liquidity),
                    {<<50000, 50>>, <<10000, 100>>, <<2000, 70>>, <<500, 40>>}))

LaunchPriceEntry(s) ==
  Share(10, Reached(-s.price, {<<-1, 100>>, <<-10, 80>>, <<-100, 60>>, <<-1000, 30>>}))

LaunchSellPressure(s) ==
  IF Trades(s) = 0 THEN 5
  ELSE IF 10 * s.sells_5m > 6 * Trades(s) THEN 0
  ELSE IF 10 * s.sells_5m > 4 * Trades(s) THEN 5
  ELSE 10

LaunchScore(s, age) ==
  Clamp(LaunchBuyPressure(s) + LaunchVolume(s) + LaunchNewness(age) + LaunchLiquidity(s)
          + LaunchPriceEntry(s) + LaunchSellPressure(s))

SniperSignal(s, age, unsafe) ==
  LET score == LaunchScore(s, age)
  IN  IF unsafe THEN Reject
      ELSE IF score >= 60 THEN Buy(10 * score)
      ELSE IF score >= 40 THEN Watch
      ELSE Reject
===============================================================================
