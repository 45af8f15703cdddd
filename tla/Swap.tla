-------------------------------- MODULE Swap --------------------------------
(***************************************************************************)
(* One call of an executor, from the orchestrator's await to its answer:   *)
(* LiveExecutor (app/execution/live.py) around BuyExecutor and             *)
(* SellExecutor (buy.py, sell.py: the same steps on swapped mints), the    *)
(* Jupiter client's retries, the TransactionManager's records and the      *)
(* chain; and PaperExecutor, which walks the same records without any      *)
(* outside call.                                                           *)
(*                                                                         *)
(* An executor suspends in five places, named by stage: the quote that     *)
(* checks the price impact (precheck), the quote and the transaction asked *)
(* of Jupiter (quote, swap), the broadcast (send) and the confirmation     *)
(* polling (confirm).  The chain is external: it accepts what is sent and  *)
(* lands or drops it at its own pace.                                      *)
(***************************************************************************)
EXTENDS Transaction, Naturals

CONSTANTS
  Swaps,        \* executor calls of a behaviour
  Tokens,
  None,
  MaxRetries,   \* attempts of one Jupiter request
  MaxPolls      \* confirmation polls: timeout over interval in the code

ASSUME SwapAssumption ==
  /\ None \notin Tokens
  /\ MaxRetries \in Nat \ {0}
  /\ MaxPolls \in Nat \ {0}

VARIABLES
  stage,     \* where each call is suspended
  side,      \* buy, sell or paper
  token,     \* the token of each call
  record,    \* state of its transaction record
  signature, \* record.tx_signature is set
  tries,     \* attempts or polls at the current stage
  result,    \* what the executor answered
  chain,     \* what became of the transaction on the chain
  tracked    \* LiveExecutor._positions

vars == <<stage, side, token, record, signature, tries, result, chain,
          tracked>>

Stages == {"idle", "precheck", "quote", "swap", "send", "confirm", "ended"}
NoRecord == "NO_RECORD"

Init ==
  /\ stage = [x \in Swaps |-> "idle"]
  /\ side = [x \in Swaps |-> "none"]
  /\ token = [x \in Swaps |-> None]
  /\ record = [x \in Swaps |-> NoRecord]
  /\ signature = {}
  /\ tries = [x \in Swaps |-> 0]
  /\ result = [x \in Swaps |-> "none"]
  /\ chain = [x \in Swaps |-> "none"]
  /\ tracked = {}

Running(x) == stage[x] \notin {"idle", "ended"}

-----------------------------------------------------------------------------
(***************************************************************************)
(* Moving a call on and ending it.                                         *)
(***************************************************************************)
Suspend(x, where) ==
  /\ stage' = [stage EXCEPT ![x] = where]
  /\ tries' = [tries EXCEPT ![x] = 0]

Answer(x, outcome) ==
  /\ Suspend(x, "ended")
  /\ result' = [result EXCEPT ![x] = outcome]

\* The orchestrator runs one operation per token and the executor's caller
\* waits for its answer.
Call(x, t, kind) ==
  /\ stage[x] = "idle"
  /\ \A y \in Swaps : Running(y) => token[y] # t
  /\ side' = [side EXCEPT ![x] = kind]
  /\ token' = [token EXCEPT ![x] = t]

\* tx_manager.create and the transition to QUOTE_REQUESTED.
Create(x) ==
  record' = [record EXCEPT
               ![x] = Advance(From("CREATED"), "QUOTE_REQUESTED").state]

\* The except clauses of execute, or a second refusal raised by them; either
\* way LiveExecutor answers a failure.
Fail(x) ==
  /\ record' = [record EXCEPT ![x] = Failed(@)]
  /\ Answer(x, "failure")

\* A run of transitions at the end of a stage: on to the next stage, or into
\* the except clause when one is refused.
Proceed(x, r, where) ==
  IF r.ok
    THEN /\ record' = [record EXCEPT ![x] = r.state]
         /\ Suspend(x, where)
         /\ UNCHANGED result
    ELSE /\ record' = [record EXCEPT ![x] = Failed(r.state)]
         /\ Answer(x, "failure")

-----------------------------------------------------------------------------
(***************************************************************************)
(* Calls of the executors.                                                 *)
(***************************************************************************)
LiveBuy(x, t) ==
  /\ Call(x, t, "buy")
  /\ Suspend(x, "precheck")
  /\ UNCHANGED <<record, signature, result, chain, tracked>>

\* execute_sell answers at once when it tracks no balance of the token.
LiveSell(x, t) ==
  /\ Call(x, t, "sell")
  /\ IF t \in tracked
       THEN /\ Create(x)
            /\ Suspend(x, "quote")
            /\ UNCHANGED result
       ELSE /\ Answer(x, "failure")
            /\ UNCHANGED record
  /\ UNCHANGED <<signature, chain, tracked>>

Submitted ==
  Advance(Advance(Advance(Advance(Advance(Advance(From("CREATED"),
    "QUOTE_REQUESTED"), "QUOTE_RECEIVED"), "RISK_APPROVED"),
    "TRANSACTION_BUILT"), "SIGNED"), "SUBMITTED")

\* The paper executor never suspends; the simulator fills or refuses.
PaperOrder(x, t, fills) ==
  /\ Call(x, t, "paper")
  /\ record' = [record EXCEPT ![x] =
       IF fills THEN Advance(Advance(Submitted, "CONFIRMING"), "CONFIRMED").state
                ELSE Advance(Submitted, "FAILED").state]
  /\ Answer(x, IF fills THEN "success" ELSE "failure")
  /\ UNCHANGED <<signature, chain, tracked>>

(***************************************************************************)
(* Jupiter requests.  A time-out, a 429, a 5xx or a transport error uses   *)
(* up one of MaxRetries attempts; any other status and an answer that does *)
(* not parse end the request at once.                                      *)
(***************************************************************************)
Requesting(x) == stage[x] \in {"precheck", "quote", "swap"}

\* Mutant: a second failure starts the count again.
RequestRetriesUncounted(x) ==
  /\ Requesting(x)
  /\ tries' = [tries EXCEPT ![x] = IF @ = 0 THEN 1 ELSE 0]
  /\ UNCHANGED <<stage, side, token, record, signature, result, chain, tracked>>

RequestRetries(x) ==
  /\ Requesting(x)
  /\ tries[x] + 1 < MaxRetries
  /\ tries' = [tries EXCEPT ![x] = @ + 1]
  /\ UNCHANGED <<stage, side, token, record, signature, result, chain, tracked>>

\* The precheck fails before there is a record.
RequestFails(x) ==
  /\ Requesting(x)
  /\ IF stage[x] = "precheck"
       THEN Answer(x, "failure") /\ UNCHANGED record
       ELSE Fail(x)
  /\ UNCHANGED <<side, token, signature, chain, tracked>>

\* The quote of LiveExecutor.execute_buy: too much price impact ends the
\* call, otherwise BuyExecutor.execute begins.
PrecheckAnswered(x, impact_ok) ==
  /\ stage[x] = "precheck"
  /\ IF impact_ok
       THEN Create(x) /\ Suspend(x, "quote") /\ UNCHANGED result
       ELSE Answer(x, "failure") /\ UNCHANGED record
  /\ UNCHANGED <<side, token, signature, chain, tracked>>

QuoteAnswered(x) ==
  /\ stage[x] = "quote"
  /\ Proceed(x, Advance(Advance(From(record[x]), "QUOTE_RECEIVED"),
                        "RISK_APPROVED"), "swap")
  /\ UNCHANGED <<side, token, signature, chain, tracked>>

\* Mutant: the broadcast starts before SIGNED is recorded.
SwapAnsweredUnrecorded(x) ==
  /\ stage[x] = "swap"
  /\ Proceed(x, Advance(From(record[x]), "TRANSACTION_BUILT"), "send")
  /\ UNCHANGED <<side, token, signature, chain, tracked>>

SwapAnswered(x) ==
  /\ stage[x] = "swap"
  /\ Proceed(x, Advance(Advance(From(record[x]), "TRANSACTION_BUILT"),
                        "SIGNED"), "send")
  /\ UNCHANGED <<side, token, signature, chain, tracked>>

\* The transaction Jupiter built does not decode.
DecodeFails(x) ==
  /\ stage[x] = "swap"
  /\ record' = [record EXCEPT ![x] =
       Failed(Advance(From(record[x]), "TRANSACTION_BUILT").state)]
  /\ Answer(x, "failure")
  /\ UNCHANGED <<side, token, signature, chain, tracked>>

-----------------------------------------------------------------------------
(***************************************************************************)
(* Broadcast and confirmation.                                             *)
(***************************************************************************)
\* The RPC node's answer carries the signature.
SendAnswered(x) ==
  /\ stage[x] = "send"
  /\ chain[x] # "none"
  /\ signature' = signature \union {x}
  /\ Proceed(x, Advance(From(record[x]), "SUBMITTED"), "confirm")
  /\ UNCHANGED <<side, token, chain, tracked>>

\* The node refuses, or its answer is lost: the transaction may be out.
SendFails(x) ==
  /\ stage[x] = "send"
  /\ Fail(x)
  /\ UNCHANGED <<side, token, signature, chain, tracked>>

\* Mutant: the elapsed time is not compared with the timeout.
PollMissesForever(x) ==
  /\ stage[x] = "confirm"
  /\ tries' = [tries EXCEPT ![x] = @ + 1]
  /\ UNCHANGED <<stage, side, token, record, signature, result, chain, tracked>>

\* A poll finds nothing, or raises; the last one ends the wait.
PollMisses(x) ==
  /\ stage[x] = "confirm"
  /\ tries[x] + 1 < MaxPolls
  /\ tries' = [tries EXCEPT ![x] = @ + 1]
  /\ UNCHANGED <<stage, side, token, record, signature, result, chain, tracked>>

\* Mutant: an unconfirmed swap is reported as filled.
ConfirmTimesOutAsFill(x) ==
  /\ stage[x] = "confirm"
  /\ tries[x] + 1 = MaxPolls
  /\ record' = [record EXCEPT ![x] = Advance(From(@), "CONFIRMING").state]
  /\ Answer(x, "success")
  /\ UNCHANGED <<side, token, signature, chain, tracked>>

ConfirmTimesOut(x) ==
  /\ stage[x] = "confirm"
  /\ tries[x] + 1 = MaxPolls
  /\ LET r == Advance(From(record[x]), "CONFIRMING")
     IN  record' = [record EXCEPT
                      ![x] = IF r.ok THEN r.state ELSE Failed(r.state)]
  /\ Answer(x, "failure")
  /\ UNCHANGED <<side, token, signature, chain, tracked>>

\* A poll sees the transaction on the chain.  transition(CONFIRMED) comes
\* straight from SUBMITTED.  The await of live.py:215 that follows a confirmed
\* answer, before the position is tracked, is no suspension point here: as the
\* code stands CONFIRMED is refused and no call gets there.
ConfirmSeen(x) ==
  LET r == Advance(From(record[x]), "CONFIRMED")
  IN  /\ stage[x] = "confirm"
      /\ chain[x] = "landed"
      /\ record' = [record EXCEPT
                      ![x] = IF r.ok THEN r.state ELSE Failed(r.state)]
      /\ Answer(x, IF r.ok THEN "success" ELSE "failure")
      /\ tracked' = IF ~r.ok THEN tracked
                    ELSE IF side[x] = "buy" THEN tracked \union {token[x]}
                         ELSE tracked \ {token[x]}
      /\ UNCHANGED <<side, token, signature, chain>>

\* The task is cancelled at its await: CancelledError passes every except
\* clause and the record stays as it is.
Cancel(x) ==
  /\ Running(x)
  /\ Suspend(x, "ended")
  /\ UNCHANGED <<side, token, record, signature, result, chain, tracked>>

(***************************************************************************)
(* The chain.                                                              *)
(***************************************************************************)
SendArrives(x) ==
  /\ stage[x] = "send"
  /\ chain[x] = "none"
  /\ chain' = [chain EXCEPT ![x] = "pending"]
  /\ UNCHANGED <<stage, side, token, record, signature, tries, result, tracked>>

ChainDecides(x, outcome) ==
  /\ chain[x] = "pending"
  /\ chain' = [chain EXCEPT ![x] = outcome]
  /\ UNCHANGED <<stage, side, token, record, signature, tries, result, tracked>>

-----------------------------------------------------------------------------
Begin(x) ==
  \E t \in Tokens :
    \/ LiveBuy(x, t)
    \/ LiveSell(x, t)
    \/ \E fills \in BOOLEAN : PaperOrder(x, t, fills)

\* What the executor does once an outside call has come back, or given up.
Continue(x) ==
  \/ RequestRetries(x)
  \/ RequestFails(x)
  \/ \E impact_ok \in BOOLEAN : PrecheckAnswered(x, impact_ok)
  \/ QuoteAnswered(x)
  \/ SwapAnswered(x)
  \/ DecodeFails(x)
  \/ SendAnswered(x)
  \/ SendFails(x)
  \/ PollMisses(x)
  \/ ConfirmTimesOut(x)
  \/ ConfirmSeen(x)

Next ==
  \E x \in Swaps :
    \/ Begin(x)
    \/ Continue(x)
    \/ Cancel(x)
    \/ SendArrives(x)
    \/ \E outcome \in {"landed", "dropped"} : ChainDecides(x, outcome)

Spec == Init /\ [][Next]_vars

\* Every outside call has a time-out (httpx 30 s, the polling loop 60 s), so
\* a suspended executor is always resumed.
FairSpec == Spec /\ \A x \in Swaps : WF_vars(Continue(x))

-----------------------------------------------------------------------------
(***************************************************************************)
(* Properties.                                                             *)
(***************************************************************************)
\* Every variable keeps its shape.
TypeOK ==
  /\ stage \in [Swaps -> Stages]
  /\ side \in [Swaps -> {"none", "buy", "sell", "paper"}]
  /\ token \in [Swaps -> Tokens \union {None}]
  /\ record \in [Swaps -> TransactionStates \union {NoRecord}]
  /\ signature \subseteq Swaps
  /\ tries \in [Swaps -> Nat]
  /\ \A x \in Swaps :
       tries[x] < IF stage[x] = "confirm" THEN MaxPolls ELSE MaxRetries
  /\ result \in [Swaps -> {"none", "success", "failure"}]
  /\ chain \in [Swaps -> {"none", "pending", "landed", "dropped"}]
  /\ tracked \subseteq Tokens

\* An executor that answered has settled its record (transaction.py:38-48
\* lets every except clause do so): no path through the retries, refusals and
\* exceptions leaves a record half way; only an unconfirmed swap stays open,
\* in CONFIRMING, for a later reconciliation.
AnsweredMeansSettled ==
  \A x \in Swaps : result[x] # "none" =>
    record[x] \in {NoRecord, "CONFIRMED", "FAILED", "CONFIRMING"}

\* Read after a cancellation or a crash, a record that has not reached SIGNED
\* proves that nothing was sent, so the order may safely be repeated.
UnsignedMeansUnsent ==
  \A x \in Swaps :
    record[x] \in {NoRecord, "CREATED", "QUOTE_REQUESTED", "QUOTE_RECEIVED",
                   "RISK_APPROVED", "TRANSACTION_BUILT"}
      => chain[x] = "none"

\* prd.md:2030, "Never assume an on-chain transaction succeeded without
\* confirmation": a reported fill has a CONFIRMED record, and a live one is
\* on the chain.
FillsAreConfirmed ==
  \A x \in Swaps : result[x] = "success" =>
    /\ record[x] = "CONFIRMED"
    /\ side[x] # "paper" => chain[x] = "landed"

\* Every call of an executor ends, whatever Jupiter and the chain do: retries
\* and polls are bounded.
CallsEnd == \A x \in Swaps : Running(x) ~> ~Running(x)

\* tasks.md:207, SUBMITTED -> CONFIRMING -> CONFIRMED: a swap that was
\* submitted (it has its signature) and landed is not recorded as FAILED.
LandedSwapIsNotFailed ==
  \A x \in Swaps :
    (x \in signature /\ chain[x] = "landed") => record[x] # "FAILED"
=============================================================================
