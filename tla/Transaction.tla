---------------------------- MODULE Transaction ----------------------------
(***************************************************************************)
(* The swap transaction state machine (app/execution/transaction.py): the  *)
(* states a TransactionRecord goes through and the transitions             *)
(* TransactionManager.transition accepts.  A refused transition raises     *)
(* ValueError and leaves the record alone; what the caller does then is    *)
(* the caller's business (module Swap).                                    *)
(***************************************************************************)

FailureStates == {"FAILED", "CANCELLED", "EXPIRED", "UNKNOWN"}

TransactionStates ==
  {"CREATED", "QUOTE_REQUESTED", "QUOTE_RECEIVED", "RISK_APPROVED",
   "TRANSACTION_BUILT", "SIGNED", "SUBMITTED", "CONFIRMING", "CONFIRMED"}
    \union FailureStates

TerminalStates == {"CONFIRMED", "FAILED", "CANCELLED", "EXPIRED"}

\* VALID_TRANSITIONS, as a relation
ValidTransitions ==
         {"CREATED"} \X {"QUOTE_REQUESTED", "FAILED", "CANCELLED"}
  \union {"QUOTE_REQUESTED"} \X {"QUOTE_RECEIVED", "FAILED", "EXPIRED"}
  \union {"QUOTE_RECEIVED"} \X {"RISK_APPROVED", "FAILED", "CANCELLED"}
  \union {"RISK_APPROVED"} \X {"TRANSACTION_BUILT", "FAILED", "CANCELLED"}
  \union {"TRANSACTION_BUILT"} \X {"SIGNED", "FAILED"}
  \union {"SIGNED"} \X {"SUBMITTED", "FAILED"}
  \union {"SUBMITTED"} \X {"CONFIRMING", "FAILED", "UNKNOWN"}
  \union {"CONFIRMING"} \X {"CONFIRMED", "FAILED", "UNKNOWN"}
  \union {"UNKNOWN"} \X {"CONFIRMED", "FAILED", "CANCELLED"}

\* Mutant: the table forgets that a quote request may fail.
MayFollowButQuoteCannotFail(state, next) ==
  <<state, next>> \in ValidTransitions \ {<<"QUOTE_REQUESTED", "FAILED">>}

MayFollow(state, next) == <<state, next>> \in ValidTransitions

\* One call of transition inside a run of calls.  r.ok turns FALSE at the
\* first refusal, which ends the run.
Advance(r, next) ==
  IF r.ok /\ MayFollow(r.state, next)
    THEN [state |-> next, ok |-> TRUE]
    ELSE [state |-> r.state, ok |-> FALSE]

From(state) == [state |-> state, ok |-> TRUE]

\* What the except clause of an executor does to its record.
Failed(state) == Advance(From(state), "FAILED").state
=============================================================================
