------------------------------ MODULE MCBuyPath ------------------------------
(***************************************************************************)
(* Instances of BuyPath for TLC: snapshots that differ from a good one in  *)
(* at most two respects, at the thresholds of the code.                    *)
(***************************************************************************)
EXTENDS BuyPath, TLC

DefaultWeights ==
  [liquidity |-> 20, volume |-> 20, buy_pressure |-> 15, momentum |-> 15,
   volume_acceleration |-> 10, token_age |-> 10, risk_score |-> 10]

Good ==
  [liquidity |-> 50000, volume_5m |-> 12000, volume_1h |-> 60000,
   buys_5m |-> 14, sells_5m |-> 6, buys_1h |-> 60, sells_1h |-> 40,
   change_m5 |-> 5, change_h1 |-> 25, market_cap |-> 200000, fdv |-> 200000,
   pair_age |-> 20, price |-> 50, name |-> "clean", known_dex |-> TRUE]

Edits ==
  {[liquidity |-> x] : x \in {None, 400, 4999, 5000, 9999, 10000, 100000}}
    \cup {[volume_5m |-> x] : x \in {0, 4999, 5000}}
    \cup {[volume_1h |-> 0]}
    \cup {[buys_5m |-> x[1], sells_5m |-> x[2]] :
            x \in {<<0, 0>>, <<4, 0>>, <<20, 0>>, <<4, 6>>, <<1, 9>>}}
    \cup {[buys_1h |-> 12, sells_1h |-> 0, buys_5m |-> 4, sells_5m |-> 0]}
    \cup {[change_h1 |-> x] : x \in {None, -30, 1001}}
    \cup {[change_m5 |-> 501]}
    \cup {[fdv |-> 20000000], [market_cap |-> 20000000]}
    \cup {[pair_age |-> x] : x \in {None, 3, 61}}
    \cup {[price |-> 20000]}
    \cup {[name |-> x] : x \in {"suspicious", "honeypot"}}
    \cup {[known_dex |-> FALSE]}

NearlyGood == {e @@ f @@ Good : e, f \in Edits}

OneGood == {Good}

Book(wallet, value, net, open, losses) ==
  [wallet |-> wallet, tracked_cash |-> wallet, value |-> value, net |-> net,
   open |-> open, losses |-> losses]

\* In tenths of a cent: a full wallet, one that is nearly empty, limits reached
\* and nearly reached.
BooksAtLimits ==
  {Book(100000, 0, 0, 0, 0), Book(99700, 300, -873, 1, 4), Book(700, 400, -300, 1, 0),
   Book(499, 0, 0, 0, 0), Book(99000, 900, 0, 2, 0), Book(99000, 0, -1000, 0, 1),
   Book(600, 5560, 0, 1, 0), Book(600, 5300, 0, 1, 0), Book(99000, 0, -500, 0, 5)}

\* One position of four dollars is open.
OneOpen == {Book(96000, 4000, 0, 1, 0)}
==============================================================================
