---------------------------- MODULE BreakerAlone ----------------------------
(***************************************************************************)
(* The circuit breaker driven by every method of its class, in any order:  *)
(* what the class itself guarantees to whoever calls it.                   *)
(***************************************************************************)
EXTENDS CircuitBreaker

VARIABLES
  breaker,
  tripped   \* history: paused or stopped since the operator last resumed

vars == <<breaker, tripped>>

IsPaused(b) == b.state \in {"PAUSED", "EMERGENCY"}

Init == breaker = NewBreaker /\ tripped = FALSE

\* A call of any method but resume.
Call(after) ==
  /\ breaker' = after
  /\ tripped' = (tripped \/ IsPaused(after))

RecordExecutionFailure   == Call(ExecutionFailure(breaker))
RecordRpcFailure         == Call(RpcFailure(breaker))
RecordJupiterUnavailable == Call(JupiterUnavailable(breaker))
RecordUnknownTx          == Call(UnknownTxState(breaker))
RecordPauseCondition     == Call(Pause(breaker))
RecordAbnormalSlippage   == Call(AbnormalSlippage(breaker))
DeclareEmergency         == Call(Emergency(breaker))
RecordSuccess            == Call(Success(breaker))

OperatorResume ==
  /\ breaker' = Resume(breaker)
  /\ tripped' = FALSE

Next ==
  \/ RecordExecutionFailure
  \/ RecordRpcFailure
  \/ RecordJupiterUnavailable
  \/ RecordUnknownTx
  \/ RecordPauseCondition
  \/ RecordAbnormalSlippage
  \/ DeclareEmergency
  \/ OperatorResume
  \/ RecordSuccess

Spec == Init /\ [][Next]_vars

-----------------------------------------------------------------------------
\* The breaker keeps its shape, and it is paused or stopped only if it was
\* tripped since the operator last resumed: after a resume, from whatever state,
\* nothing is left of an earlier trip (circuit_breaker.py:127).
TypeOK ==
  /\ breaker \in Breaker
  /\ tripped \in BOOLEAN
  /\ IsPaused(breaker) => tripped

\* Trading is never allowed on top of an exhausted failure budget: every way
\* back to NORMAL also clears the counters (resume, record_success), so the
\* next failure after a resume is counted from zero and not from the old total.
NormalMeansBelowLimits ==
  CanTrade(breaker) =>
    /\ breaker.exec < ExecutionFailureLimit
    /\ breaker.rpc < RpcFailureLimit
    /\ breaker.jupiter < JupiterFailureLimit
    /\ breaker.unknown < UnknownTxLimit

\* A successful trade may clear a warning but never a pause or an emergency:
\* only the operator's resume takes the breaker straight from PAUSED or
\* EMERGENCY to NORMAL.
PauseClearedOnlyByResume ==
  [][(IsPaused(breaker) /\ CanTrade(breaker')) => ~tripped']_vars
=============================================================================
