------------------------------ MODULE Screening ------------------------------
(***************************************************************************)
(* The filters a snapshot passes to get onto the watchlist                 *)
(* (app/scanner/filters.py, dex_screener.py) and the rug-pull detector     *)
(* that may veto an order (app/risk/rug_detector.py).                      *)
(*                                                                         *)
(* A snapshot has the fields and units of module Scoring.  Of a name only  *)
(* its class matters: clean, suspicious or honeypot.                       *)
(***************************************************************************)
EXTENDS Scoring, FiniteSetsExt

CONSTANTS
  LaunchMaxAge,          \* NEW_LAUNCH_MAX_AGE_MINUTES
  LaunchMinLiquidity,    \* NEW_LAUNCH_MIN_LIQUIDITY_USD
  LaunchMinBuys,         \* NEW_LAUNCH_MIN_BUYS_5M
  LaunchMinBuyPercent,   \* NEW_LAUNCH_MIN_BUY_SELL_RATIO, in percent
  LaunchMinVolume,       \* NEW_LAUNCH_MIN_VOLUME_5M_USD
  LaunchMaxPrice,        \* NEW_LAUNCH_MAX_PRICE
  RugMinScore            \* RUG_MIN_SCORE

-----------------------------------------------------------------------------
\* TokenFilter.from_settings leaves every other bound of the filter off.
PassesFilter(s) ==
  /\ s.liquidity # None
  /\ s.liquidity >= MinLiquidity
  /\ s.volume_5m >= MinVolume

\* What get_new_solana_pairs hands to the loop.
IsFetched(s) ==
  /\ s.pair_age # None => s.pair_age <= LaunchMaxAge
  /\ OrZero(s.liquidity) >= LaunchMinLiquidity

PassesLaunchFilter(s) ==
  /\ s.pair_age # None
  /\ s.pair_age <= LaunchMaxAge
  /\ s.liquidity # None
  /\ s.liquidity >= LaunchMinLiquidity
  /\ s.buys_5m >= LaunchMinBuys
  /\ Trades(s) > 0 => 100 * s.buys_5m >= LaunchMinBuyPercent * Trades(s)
  /\ s.volume_5m >= LaunchMinVolume
  /\ LaunchMaxPrice > 0 => s.price <= LaunchMaxPrice

-----------------------------------------------------------------------------
(***************************************************************************)
(* The rug detector.  A finding is [penalty, veto]; each check returns     *)
(* the set of its findings, told apart by the check's name.                *)
(***************************************************************************)
Penalty(check, points) == [check |-> check, penalty |-> points, veto |-> FALSE]
Veto(check) == [check |-> check, penalty |-> 100, veto |-> TRUE]
If(condition, finding) == IF condition THEN {finding} ELSE {}

CheckName(s) ==
  If(s.name = "honeypot", Veto("name")) \cup If(s.name = "suspicious", Penalty("name", 40))

CheckAuthorities(mint, freeze) ==
  If(mint, Veto("mint")) \cup If(freeze, Veto("freeze"))

CheckLiquidity(s) ==
  IF s.liquidity = None THEN {Penalty("liquidity", 30)}
  ELSE If(s.liquidity < 100, Veto("liquidity"))
         \cup If(s.liquidity \in 100 .. 499, Penalty("liquidity", 40))
         \cup If(s.liquidity \in 500 .. 1999, Penalty("liquidity", 15))

\* Mutant: an hour without a sale is only a penalty.
CheckHoneypotPenalty(s) ==
  If(s.buys_5m >= 5 /\ s.sells_5m = 0, Penalty("honeypot_5m", 35))
    \cup If(s.buys_1h >= 10 /\ s.sells_1h = 0, Penalty("honeypot_1h", 35))
    \cup If(/\ s.sells_5m > 0 /\ s.buys_5m > 0 /\ Trades(s) >= 5
            /\ 100 * s.sells_5m > 85 * Trades(s), Penalty("sell_tax", 30))

CheckHoneypot(s) ==
  If(s.buys_5m >= 5 /\ s.sells_5m = 0, Penalty("honeypot_5m", 35))
    \cup If(s.buys_1h >= 10 /\ s.sells_1h = 0, Veto("honeypot_1h"))
    \cup If(/\ s.sells_5m > 0 /\ s.buys_5m > 0 /\ Trades(s) >= 5
            /\ 100 * s.sells_5m > 85 * Trades(s), Penalty("sell_tax", 30))

CheckBuyBot(s) ==
  LET total == Trades(s)
  IN  If(/\ total >= 5 /\ s.buys_5m >= 10
         /\ 10 * s.buys_5m > 9 * total /\ s.volume_5m < 5 * total, Penalty("tiny_buys", 30))
        \cup If(/\ s.buys_5m >= 20 /\ s.sells_5m <= 1
                /\ 100 * s.buys_5m > 95 * total, Penalty("uniform_buys", 20))

CheckPriceManipulation(s) ==
  If(s.change_m5 # None /\ s.change_m5 > 500, Penalty("pump_5m", 30))
    \cup If(s.change_h1 # None /\ s.change_h1 > 1000, Veto("pump_1h"))

\* Liquidity against the fully diluted value and against the market cap.
CheckHolders(s) ==
  IF s.liquidity = None THEN {}
  ELSE If(s.fdv > 10000 /\ 100 * s.liquidity < s.fdv, Penalty("concentration", 25))
         \cup If(s.fdv > 10000 /\ 100 * s.liquidity >= s.fdv /\ 100 * s.liquidity < 3 * s.fdv,
                 Penalty("concentration", 10))
         \cup If(s.market_cap > 50000 /\ 200 * s.liquidity < s.market_cap, Penalty("low_float", 25))
         \cup If(s.market_cap > 10000 /\ 1000 * s.liquidity < s.market_cap, Penalty("dev_bag", 20))

\* Social links are expected after 15 minutes, a known venue after an hour.
CheckSocial(s, age, social) ==
  If(~social /\ (age = None \/ age >= 15), Penalty("no_social", 10))
    \cup If(~social /\ ~s.known_dex /\ age # None /\ age > 60, Penalty("stealth", 15))

CheckAging(s, age) ==
  If(/\ age # None /\ age > 30
     /\ s.liquidity # None /\ s.liquidity < 500, Penalty("dying", 10))

RugFindings(s, age, mint, freeze, social) ==
  CheckName(s) \cup CheckAuthorities(mint, freeze) \cup CheckLiquidity(s)
    \cup CheckHoneypot(s) \cup CheckBuyBot(s) \cup CheckPriceManipulation(s)
    \cup CheckHolders(s) \cup CheckSocial(s, age, social) \cup CheckAging(s, age)

RugScore(findings) == Clamp(100 - MapThenSumSet(LAMBDA f : f.penalty, findings))

RugApproved(findings) ==
  /\ \A f \in findings : ~f.veto
  /\ RugScore(findings) >= RugMinScore

\* The loop knows nothing of authorities or social links and passes neither.
RugCheckPasses(s, age) ==
  RugApproved(RugFindings(s, age, FALSE, FALSE, FALSE))
==============================================================================
