------------------------ MODULE CircuitBreaker_proofs ------------------------
(***************************************************************************)
(* Facts about the methods of the circuit breaker, used by the proofs of   *)
(* the modules that own one.                                               *)
(***************************************************************************)
EXTENDS CircuitBreaker, TLAPS

\* A counter remains a number, whatever the limit it is compared with.
LEMMA IncrementInNat ==
  ASSUME NEW limit \in Nat, NEW count \in Nat
  PROVE  Increment(count, limit) \in Nat
BY DEF Increment

\* Every method maps a well-formed breaker to a well-formed breaker.
LEMMA MethodsKeepBreaker ==
  ASSUME NEW b \in Breaker
  PROVE  /\ ExecutionFailure(b) \in Breaker
         /\ RpcFailure(b) \in Breaker
         /\ JupiterUnavailable(b) \in Breaker
         /\ UnknownTxState(b) \in Breaker
         /\ Pause(b) \in Breaker
         /\ AbnormalSlippage(b) \in Breaker
         /\ Emergency(b) \in Breaker
         /\ Resume(b) \in Breaker
         /\ Success(b) \in Breaker
<1> USE BreakerLimitsAssumption DEF Breaker, BreakerStates, Transition
<1>1. ExecutionFailure(b) \in Breaker
  <2>1. Increment(b.exec, ExecutionFailureLimit) \in Nat
    BY IncrementInNat
  <2> QED
    BY <2>1 DEF ExecutionFailure
<1>2. RpcFailure(b) \in Breaker
  <2>1. Increment(b.rpc, RpcFailureLimit) \in Nat
    BY IncrementInNat
  <2> QED
    BY <2>1 DEF RpcFailure
<1>3. JupiterUnavailable(b) \in Breaker
  <2>1. Increment(b.jupiter, JupiterFailureLimit) \in Nat
    BY IncrementInNat
  <2> QED
    BY <2>1 DEF JupiterUnavailable
<1>4. UnknownTxState(b) \in Breaker
  <2>1. Increment(b.unknown, UnknownTxLimit) \in Nat
    BY IncrementInNat
  <2> QED
    BY <2>1 DEF UnknownTxState
<1>5. /\ Pause(b) \in Breaker
      /\ AbnormalSlippage(b) \in Breaker
      /\ Emergency(b) \in Breaker
  BY DEF Pause, AbnormalSlippage, Emergency
<1>6. /\ Resume(b) \in Breaker
      /\ Success(b) \in Breaker
  BY DEF Resume, Success, ClearCounts
<1> QED
  BY <1>1, <1>2, <1>3, <1>4, <1>5, <1>6

\* A new breaker is well formed.
LEMMA NewBreakerInBreaker == NewBreaker \in Breaker
BY DEF NewBreaker, Breaker, BreakerStates
=============================================================================
