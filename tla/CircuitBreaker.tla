--------------------------- MODULE CircuitBreaker ---------------------------
(***************************************************************************)
(* The global trading circuit breaker (app/risk/circuit_breaker.py).       *)
(*                                                                         *)
(* The breaker is one record: its state and the four failure counters of   *)
(* _trigger_counts.  Every method of the class is an operator from the     *)
(* breaker before the call to the breaker after it, so that a component    *)
(* that calls several methods in one uninterrupted segment can compose     *)
(* them; module BreakerAlone gives the breaker a life of its own.          *)
(***************************************************************************)
EXTENDS Naturals

CONSTANTS
  ExecutionFailureLimit,  \* literal 5 in record_execution_failure
  RpcFailureLimit,        \* literal 3 in record_rpc_failure
  JupiterFailureLimit,    \* literal 3 in record_jupiter_unavailable
  UnknownTxLimit          \* literal 2 in record_unknown_tx_state

ASSUME BreakerLimitsAssumption ==
  /\ ExecutionFailureLimit \in Nat \ {0}
  /\ RpcFailureLimit \in Nat \ {0}
  /\ JupiterFailureLimit \in Nat \ {0}
  /\ UnknownTxLimit \in Nat \ {0}

BreakerStates == {"NORMAL", "WARNING", "PAUSED", "EMERGENCY"}

\* A counter has no upper bound: _increment goes on past the limit.
Breaker ==
  [state : BreakerStates, exec : Nat, rpc : Nat, jupiter : Nat, unknown : Nat]

NewBreaker ==
  [state |-> "NORMAL", exec |-> 0, rpc |-> 0, jupiter |-> 0, unknown |-> 0]

\* Mutant: only PAUSED stops trading.
CanTradeUnlessPaused(b) == b.state # "PAUSED"

CanTrade(b) == b.state = "NORMAL"

(***************************************************************************)
(* Private helpers.                                                        *)
(***************************************************************************)
\* _increment counts without end.  The code only asks whether a counter has
\* reached its limit, so one value stands for the limit and all above it, which
\* keeps the states finite.  No property may say that a counter ends there.
Increment(count, limit) == IF count < limit THEN count + 1 ELSE limit

\* _transition goes from any state to any other; there is no ordering of
\* the states.
Transition(b, state) == [b EXCEPT !.state = state]

ClearCounts(b) ==
  [b EXCEPT !.exec = 0, !.rpc = 0, !.jupiter = 0, !.unknown = 0]

(***************************************************************************)
(* Triggers.                                                               *)
(***************************************************************************)
ExecutionFailure(b) ==
  LET count == Increment(b.exec, ExecutionFailureLimit)
      c     == [b EXCEPT !.exec = count]
  IN  IF count >= ExecutionFailureLimit THEN Transition(c, "PAUSED") ELSE c

RpcFailure(b) ==
  LET count == Increment(b.rpc, RpcFailureLimit)
      c     == [b EXCEPT !.rpc = count]
  IN  IF count >= RpcFailureLimit THEN Transition(c, "PAUSED") ELSE c

JupiterUnavailable(b) ==
  LET count == Increment(b.jupiter, JupiterFailureLimit)
      c     == [b EXCEPT !.jupiter = count]
  IN  IF count >= JupiterFailureLimit THEN Transition(c, "PAUSED") ELSE c

UnknownTxState(b) ==
  LET count == Increment(b.unknown, UnknownTxLimit)
      c     == [b EXCEPT !.unknown = count]
  IN  IF count >= UnknownTxLimit THEN Transition(c, "WARNING") ELSE c

\* record_database_unavailable, record_daily_loss_exceeded, manual_pause, and
\* the tripping branches of record_consecutive_losses and
\* record_wallet_balance_low: an unconditional move to PAUSED.
Pause(b) == Transition(b, "PAUSED")

\* record_abnormal_slippage above three times the configured limit.
AbnormalSlippage(b) == Transition(b, "WARNING")

Emergency(b) == Transition(b, "EMERGENCY")

(***************************************************************************)
(* Ways back.                                                              *)
(***************************************************************************)
\* Mutant: resume lifts a pause only, and an emergency stop stays.
ResumeFromPauseOnly(b) ==
  IF b.state = "PAUSED" THEN ClearCounts(Transition(b, "NORMAL")) ELSE b

\* Mutant: resume forgets _trigger_counts.clear().
ResumeKeepsCounts(b) == Transition(b, "NORMAL")

Resume(b) ==
  IF b.state # "NORMAL" THEN ClearCounts(Transition(b, "NORMAL")) ELSE b

\* Mutant: a success restores trading from every state.
SuccessClearsAll(b) == Transition(ClearCounts(b), "NORMAL")

Success(b) ==
  IF b.state = "WARNING" THEN Transition(ClearCounts(b), "NORMAL") ELSE b
=============================================================================
