------------------------------ MODULE RiskSizing ------------------------------
(***************************************************************************)
(* The risk engine (app/risk/risk_engine.py) and the position sizer        *)
(* (app/risk/position_sizing.py), on what the loop hands to them           *)
(* (trading_loop.py, _portfolio_risk).                                     *)
(*                                                                         *)
(* Money is in tenths of a cent.  The engine compares the portfolio with   *)
(* the defaults of PortfolioRiskData, which the loop leaves untouched; the *)
(* sizer uses the settings.  Warnings change nothing and are left out.     *)
(***************************************************************************)
EXTENDS Scoring

CONSTANTS
  MaxPosition,        \* MAX_POSITION_USD
  MaxOpenPositions,   \* MAX_OPEN_POSITIONS
  MaxDailyLoss,       \* MAX_DAILY_LOSS_USD
  MaxTotalExposure,   \* MAX_TOTAL_EXPOSURE_USD
  LiveSafe            \* is_live_safe

ASSUME RiskAssumption ==
  /\ MaxPosition \in Nat \ {0}
  /\ MaxOpenPositions \in Nat \ {0}
  /\ MaxDailyLoss \in Int
  /\ MaxTotalExposure \in Int
  /\ LiveSafe \in BOOLEAN

\* Defaults of PortfolioRiskData.
EngineMaxPosition == 500
EngineMaxOpenPositions == 2
EngineMaxDailyLoss == 1000
EngineMaxExposure == 5000
EngineMaxConsecutiveLosses == 5

\* The books the loop reads: the wallet (simulated cash, or SOL in dollars), the
\* cash and position value of the balance tracker, the day's net profit, the
\* open positions and the current run of losses.
Books == [wallet : Int, tracked_cash : Int, value : Nat, net : Int,
          open : Nat, losses : Nat]

\* The exposure is the value of the positions less the cash.
PortfolioRisk(b) ==
  [wallet     |-> IF b.wallet < 0 THEN 0 ELSE b.wallet,
   exposure   |-> b.value - b.tracked_cash,
   open       |-> b.open,
   losses     |-> b.losses,
   daily_loss |-> IF b.net > 0 THEN 0 ELSE -b.net]

-----------------------------------------------------------------------------
(***************************************************************************)
(* The risk engine.                                                        *)
(***************************************************************************)
LiquidityPoints(liquidity) ==
  IF liquidity = None \/ 2 * OrZero(liquidity) < MinLiquidity THEN 0
  ELSE IF liquidity < MinLiquidity THEN -30
  ELSE IF liquidity < 2 * MinLiquidity THEN -10
  ELSE 0

VolumePoints(volume) ==
  IF 10 * volume < 3 * MinVolume THEN -25
  ELSE IF volume < MinVolume THEN -15
  ELSE IF volume < 2 * MinVolume THEN 0
  ELSE 5

PressurePoints(s) ==
  IF Trades(s) = 0 THEN 0
  ELSE IF 10 * s.buys_5m < 3 * Trades(s) THEN -20
  ELSE IF 10 * s.buys_5m < 5 * Trades(s) THEN -10
  ELSE 5

ExposurePoints(p) ==
  IF p.wallet > 0 /\ 100 * p.exposure > 80 * p.wallet THEN -10 ELSE 0

\* Mutant: the bonuses lift the score above 100.
EngineScoreUnclamped(s, p) ==
  100 + LiquidityPoints(s.liquidity) + VolumePoints(s.volume_5m)
      + PressurePoints(s) + ExposurePoints(p)

EngineScore(s, p) ==
  Clamp(100 + LiquidityPoints(s.liquidity) + VolumePoints(s.volume_5m)
            + PressurePoints(s) + ExposurePoints(p))

LiquidityAcceptable(liquidity) ==
  liquidity # None /\ 2 * liquidity >= MinLiquidity

PortfolioAcceptable(p) ==
  /\ p.open < EngineMaxOpenPositions
  /\ p.daily_loss < EngineMaxDailyLoss
  /\ p.exposure < EngineMaxExposure
  /\ p.losses < EngineMaxConsecutiveLosses
  /\ p.wallet >= EngineMaxPosition

\* unsafe: token data that report a mint or freeze authority.
EngineApproves(s, p, unsafe) ==
  /\ LiquidityAcceptable(s.liquidity)
  /\ ~unsafe
  /\ PortfolioAcceptable(p)

-----------------------------------------------------------------------------
(***************************************************************************)
(* The sizer.  Base is MAX_POSITION scaled by balance, risk score and      *)
(* confidence, as a fraction with the denominator Unit.                    *)
(***************************************************************************)
Lesser(x, y) == IF x <= y THEN x ELSE y

Unit == MaxOpenPositions * 100 * 1000

ConfidenceFactor(confidence) ==
  IF confidence < 500 THEN 500 ELSE Lesser(confidence, 1000)

Base(wallet, risk, confidence) ==
  Lesser(MaxPosition * MaxOpenPositions, wallet) * risk * ConfidenceFactor(confidence)

\* Mutant: the remaining daily loss is forgotten.
RemainingIgnoringLoss(p) ==
  Lesser(MaxPosition, Lesser(MaxTotalExposure - p.exposure, p.wallet))

\* What is left of the exposure, the daily loss and the wallet.  The base is at
\* most MaxPosition, so a larger remainder binds no more than MaxPosition does.
Remaining(p) ==
  Lesser(MaxPosition,
         Lesser(MaxTotalExposure - p.exposure,
                Lesser(MaxDailyLoss - p.daily_loss, p.wallet)))

\* round(x, 2) of amount / Unit: a whole number of cents, half a cent away at
\* most; floats decide a tie either way.
Rounded(amount) ==
  LET lower == 10 * (amount \div (10 * Unit))
  IN  {size \in {lower, lower + 10} :
         /\ amount - size * Unit <= 5 * Unit
         /\ size * Unit - amount <= 5 * Unit}

\* Below half a dollar, live_safe does not trade.
Floored(size) == IF LiveSafe /\ size < 500 THEN 0 ELSE size

SizerRefuses(p) ==
  \/ p.wallet <= 0
  \/ p.open >= MaxOpenPositions
  \/ p.daily_loss >= MaxDailyLoss
  \/ p.exposure >= MaxTotalExposure

\* The sizes calculate may return.
PositionSizes(p, risk, confidence) ==
  IF SizerRefuses(p) THEN {0}
  ELSE {Floored(size) :
          size \in Rounded(Lesser(Base(p.wallet, risk, confidence), Remaining(p) * Unit))}
=============================================================================
