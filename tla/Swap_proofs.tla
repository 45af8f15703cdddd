----------------------------- MODULE Swap_proofs -----------------------------
(***************************************************************************)
(* Safety of an executor call, for any number of calls and tokens and any  *)
(* retry limits.                                                           *)
(***************************************************************************)
EXTENDS Swap, TLAPS

-----------------------------------------------------------------------------
(***************************************************************************)
(* The transaction state machine: what the executors rely on.              *)
(***************************************************************************)
TransactionRun == [state : TransactionStates, ok : BOOLEAN]

\* A state can always be asked for FAILED while something may still go wrong:
\* transaction.py:38-48 lets every non-terminal state fail.
THEOREM EveryOpenStateMayFail ==
  \A s \in TransactionStates \ TerminalStates : MayFollow(s, "FAILED")
BY DEF TransactionStates, FailureStates, TerminalStates, MayFollow, ValidTransitions

\* Terminal states are final: the table has no way out of them.
THEOREM TerminalStatesAreFinal ==
  \A s \in TerminalStates, next \in TransactionStates : ~MayFollow(s, next)
BY DEF TerminalStates, MayFollow, ValidTransitions

\* A confirmed record has been CONFIRMING, or UNKNOWN and reconciled:
\* CONFIRMED is not reachable in one step from any other state.
THEOREM ConfirmedComesFromConfirming ==
  \A s \in TransactionStates :
    MayFollow(s, "CONFIRMED") <=> s \in {"CONFIRMING", "UNKNOWN"}
BY DEF TransactionStates, FailureStates, MayFollow, ValidTransitions

\* A run of calls of transition stays inside the states of the machine.
LEMMA AdvanceInRun ==
  ASSUME NEW r \in TransactionRun, NEW next \in TransactionStates
  PROVE  Advance(r, next) \in TransactionRun
BY DEF Advance, TransactionRun

LEMMA FromInRun ==
  ASSUME NEW s \in TransactionStates
  PROVE  From(s) \in TransactionRun
BY DEF From, TransactionRun

\* The except clause leaves a failed record behind whenever the record was
\* still open.
LEMMA FailedFromOpen ==
  ASSUME NEW s \in TransactionStates \ TerminalStates
  PROVE  Failed(s) = "FAILED"
<1>1. MayFollow(s, "FAILED")
  BY EveryOpenStateMayFail
<1> QED
  BY <1>1 DEF Failed, Advance, From

\* The runs of transitions the executors make.
LEMMA ExecutorRuns ==
  /\ Advance(From("CREATED"), "QUOTE_REQUESTED")
       = [state |-> "QUOTE_REQUESTED", ok |-> TRUE]
  /\ Advance(Advance(From("QUOTE_REQUESTED"), "QUOTE_RECEIVED"), "RISK_APPROVED")
       = [state |-> "RISK_APPROVED", ok |-> TRUE]
  /\ Advance(From("RISK_APPROVED"), "TRANSACTION_BUILT")
       = [state |-> "TRANSACTION_BUILT", ok |-> TRUE]
  /\ Advance(Advance(From("RISK_APPROVED"), "TRANSACTION_BUILT"), "SIGNED")
       = [state |-> "SIGNED", ok |-> TRUE]
  /\ Advance(From("SIGNED"), "SUBMITTED")
       = [state |-> "SUBMITTED", ok |-> TRUE]
  /\ Advance(From("SUBMITTED"), "CONFIRMING")
       = [state |-> "CONFIRMING", ok |-> TRUE]
  /\ Advance(From("SUBMITTED"), "CONFIRMED")
       = [state |-> "SUBMITTED", ok |-> FALSE]
<1>1. /\ MayFollow("CREATED", "QUOTE_REQUESTED")
      /\ MayFollow("QUOTE_REQUESTED", "QUOTE_RECEIVED")
      /\ MayFollow("QUOTE_RECEIVED", "RISK_APPROVED")
      /\ MayFollow("RISK_APPROVED", "TRANSACTION_BUILT")
      /\ MayFollow("TRANSACTION_BUILT", "SIGNED")
      /\ MayFollow("SIGNED", "SUBMITTED")
      /\ MayFollow("SUBMITTED", "CONFIRMING")
      /\ ~MayFollow("SUBMITTED", "CONFIRMED")
  BY DEF MayFollow, ValidTransitions
<1> QED
  BY <1>1 DEF Advance, From

-----------------------------------------------------------------------------
(***************************************************************************)
(* The executors.                                                          *)
(***************************************************************************)
\* The record always names the outside call the executor is waiting for.
StageRecord ==
  \A x \in Swaps :
    /\ stage[x] \in {"idle", "precheck"} => record[x] = NoRecord
    /\ stage[x] = "quote" => record[x] = "QUOTE_REQUESTED"
    /\ stage[x] = "swap" => record[x] = "RISK_APPROVED"
    /\ stage[x] = "send" => record[x] = "SIGNED"
    /\ stage[x] = "confirm" => record[x] = "SUBMITTED"
    /\ stage[x] # "ended" => result[x] = "none"

\* Nothing was sent before the broadcast, and what was sent shows in the
\* record.
SentRecord ==
  \A x \in Swaps :
    /\ stage[x] \in {"idle", "precheck", "quote", "swap"} => chain[x] = "none"
    /\ chain[x] # "none" => record[x] \in {"SIGNED", "SUBMITTED", "CONFIRMING",
                                            "CONFIRMED", "FAILED"}

\* Only paper orders are answered with a fill, so the live executor never
\* tracks a balance.
OnlyPaperFills ==
  /\ tracked = {}
  /\ \A x \in Swaps : result[x] = "success" =>
       record[x] = "CONFIRMED" /\ side[x] = "paper"

IInv == TypeOK /\ StageRecord /\ SentRecord /\ OnlyPaperFills
          /\ AnsweredMeansSettled

NoRecordIsNoState == NoRecord \notin TransactionStates

LEMMA NoRecordFact == NoRecordIsNoState
BY DEF NoRecordIsNoState, NoRecord, TransactionStates, FailureStates

LEMMA InitEstablishes == Init => IInv
BY SwapAssumption DEF Init, IInv, TypeOK, StageRecord, SentRecord,
   OnlyPaperFills, AnsweredMeansSettled, Stages, NoRecord, TransactionStates

USE DEF Stages, NoRecord

\* Records an answered call may leave behind.
SettledRecords == {NoRecord, "CONFIRMED", "FAILED", "CONFIRMING"}

(***************************************************************************)
(* A step that ends call x with an answer and a settled record.            *)
(***************************************************************************)
LEMMA EndingStep ==
  ASSUME IInv,
         NEW x \in Swaps,
         NEW r \in SettledRecords,
         NEW outcome \in {"success", "failure"},
         r = NoRecord \/ r = "FAILED" \/ r = "CONFIRMING"
           \/ (r = "CONFIRMED" /\ chain[x] = "none"),
         r = NoRecord => chain[x] = "none",
         outcome = "success" => r = "CONFIRMED" /\ side'[x] = "paper",
         \A y \in Swaps : y # x => side'[y] = side[y],
         side' \in [Swaps -> {"none", "buy", "sell", "paper"}],
         token' \in [Swaps -> Tokens \union {None}],
         record' = [record EXCEPT ![x] = r],
         Answer(x, outcome),
         signature' \subseteq Swaps,
         chain' = chain,
         tracked' = tracked
  PROVE  IInv'
<1>1. r \in TransactionStates \union {NoRecord}
  BY DEF SettledRecords, TransactionStates, FailureStates
<1>2. TypeOK'
  BY <1>1, SwapAssumption DEF IInv, TypeOK, Answer, Suspend
<1>3. StageRecord'
  BY <1>1 DEF IInv, TypeOK, StageRecord, Answer, Suspend
<1>4. SentRecord'
  BY <1>1 DEF IInv, TypeOK, SentRecord, Answer, Suspend, SettledRecords
<1>5. OnlyPaperFills'
  BY <1>1 DEF IInv, TypeOK, OnlyPaperFills, Answer, Suspend
<1>6. AnsweredMeansSettled'
  BY <1>1 DEF IInv, TypeOK, AnsweredMeansSettled, Answer, Suspend,
     SettledRecords
<1> QED
  BY <1>2, <1>3, <1>4, <1>5, <1>6 DEF IInv

(***************************************************************************)
(* A step that suspends call x at another outside call.                    *)
(***************************************************************************)
LEMMA SuspendingStep ==
  ASSUME IInv,
         NEW x \in Swaps,
         NEW r \in TransactionStates \union {NoRecord},
         NEW where \in {"precheck", "quote", "swap", "send", "confirm"},
         where = "precheck" => r = NoRecord,
         where = "quote" => r = "QUOTE_REQUESTED",
         where = "swap" => r = "RISK_APPROVED",
         where = "send" => r = "SIGNED",
         where = "confirm" => r = "SUBMITTED",
         where # "confirm" => chain[x] = "none",
         result[x] = "none",
         \A y \in Swaps : y # x => side'[y] = side[y],
         side' \in [Swaps -> {"none", "buy", "sell", "paper"}],
         token' \in [Swaps -> Tokens \union {None}],
         record' = [record EXCEPT ![x] = r],
         Suspend(x, where),
         signature' \subseteq Swaps,
         result' = result,
         chain' = chain,
         tracked' = tracked
  PROVE  IInv'
<1>1. TypeOK'
  BY SwapAssumption DEF IInv, TypeOK, Suspend
<1>2. StageRecord'
  BY DEF IInv, TypeOK, StageRecord, Suspend
<1>3. SentRecord'
  BY DEF IInv, TypeOK, SentRecord, Suspend
<1>4. OnlyPaperFills'
  BY DEF IInv, TypeOK, OnlyPaperFills, Suspend
<1>5. AnsweredMeansSettled'
  BY DEF IInv, TypeOK, AnsweredMeansSettled, Suspend
<1> QED
  BY <1>1, <1>2, <1>3, <1>4, <1>5 DEF IInv

(***************************************************************************)
(* The except clause settles every record an executor can be working on.   *)
(***************************************************************************)
LEMMA FailingStep ==
  ASSUME IInv,
         NEW x \in Swaps,
         stage[x] \in {"quote", "swap", "send", "confirm"},
         Fail(x),
         UNCHANGED <<side, token, signature, chain, tracked>>
  PROVE  IInv'
<1>1. record[x] \in TransactionStates \ TerminalStates
  BY DEF IInv, StageRecord, TypeOK, TransactionStates, FailureStates,
     TerminalStates
<1>2. Failed(record[x]) = "FAILED"
  BY <1>1, FailedFromOpen
<1>3. record' = [record EXCEPT ![x] = "FAILED"]
  BY <1>2 DEF Fail
<1> QED
  BY <1>3, EndingStep DEF Fail, SettledRecords, IInv, TypeOK

\* A paper order walks the whole machine.
LEMMA PaperRuns ==
  /\ Advance(Advance(Submitted, "CONFIRMING"), "CONFIRMED").state = "CONFIRMED"
  /\ Advance(Submitted, "FAILED").state = "FAILED"
<1>1. Submitted = From("SUBMITTED")
  BY DEF Submitted, Advance, From, MayFollow, ValidTransitions
<1>2. /\ MayFollow("SUBMITTED", "CONFIRMING")
      /\ MayFollow("CONFIRMING", "CONFIRMED")
      /\ MayFollow("SUBMITTED", "FAILED")
  BY DEF MayFollow, ValidTransitions
<1> QED
  BY <1>1, <1>2 DEF Advance, From

-----------------------------------------------------------------------------
LEMMA BeginKeeps ==
  ASSUME IInv, NEW x \in Swaps, Begin(x)
  PROVE  IInv'
<1>1. PICK t \in Tokens :
        LiveBuy(x, t) \/ LiveSell(x, t)
          \/ \E fills \in BOOLEAN : PaperOrder(x, t, fills)
  BY DEF Begin
<1>2. stage[x] = "idle" /\ record[x] = NoRecord /\ result[x] = "none"
        /\ chain[x] = "none"
  BY <1>1 DEF LiveBuy, LiveSell, PaperOrder, Call, IInv, StageRecord,
     SentRecord
<1>3. ASSUME NEW kind \in {"buy", "sell", "paper"}, Call(x, t, kind)
      PROVE  /\ \A y \in Swaps : y # x => side'[y] = side[y]
             /\ side' \in [Swaps -> {"none", "buy", "sell", "paper"}]
             /\ token' \in [Swaps -> Tokens \union {None}]
             /\ side'[x] = kind
  BY <1>3 DEF Call, IInv, TypeOK
<1>4. CASE LiveBuy(x, t)
  <2>1. record' = [record EXCEPT ![x] = NoRecord]
    BY <1>2, <1>4 DEF LiveBuy, IInv, TypeOK
  <2>2. /\ \A y \in Swaps : y # x => side'[y] = side[y]
        /\ side' \in [Swaps -> {"none", "buy", "sell", "paper"}]
        /\ token' \in [Swaps -> Tokens \union {None}]
    BY <1>3, <1>4 DEF LiveBuy
  <2>3. /\ Suspend(x, "precheck")
        /\ signature' \subseteq Swaps
        /\ UNCHANGED <<result, chain, tracked>>
    BY <1>4 DEF LiveBuy, IInv, TypeOK
  <2> QED
    BY <1>2, <2>1, <2>2, <2>3, SuspendingStep
<1>5. CASE LiveSell(x, t)
  <2>1. t \notin tracked
    BY DEF IInv, OnlyPaperFills
  <2>2. record' = [record EXCEPT ![x] = NoRecord]
    BY <1>2, <1>5, <2>1 DEF LiveSell, IInv, TypeOK
  <2> QED
    BY <1>2, <1>3, <1>5, <2>1, <2>2, EndingStep
    DEF LiveSell, SettledRecords, IInv, TypeOK
<1>6. CASE \E fills \in BOOLEAN : PaperOrder(x, t, fills)
  <2>1. PICK fills \in BOOLEAN : PaperOrder(x, t, fills)
    BY <1>6
  <2>2. CASE fills
    <3>1. record' = [record EXCEPT ![x] = "CONFIRMED"]
      BY <2>1, <2>2, PaperRuns DEF PaperOrder
    <3> QED
      BY <1>2, <1>3, <2>1, <2>2, <3>1, EndingStep
      DEF PaperOrder, SettledRecords, IInv, TypeOK
  <2>3. CASE ~fills
    <3>1. record' = [record EXCEPT ![x] = "FAILED"]
      BY <2>1, <2>3, PaperRuns DEF PaperOrder
    <3> QED
      BY <1>2, <1>3, <2>1, <2>3, <3>1, EndingStep
      DEF PaperOrder, SettledRecords, IInv, TypeOK
  <2> QED
    BY <2>2, <2>3
<1> QED
  BY <1>1, <1>4, <1>5, <1>6

LEMMA ContinueKeeps ==
  ASSUME IInv, NEW x \in Swaps, Continue(x)
  PROVE  IInv'
<1> USE DEF IInv, TypeOK
<1>0. /\ side' = side /\ token' = token
      /\ stage[x] # "ended" /\ result[x] = "none"
  BY DEF Continue, RequestRetries, RequestFails, PrecheckAnswered,
     QuoteAnswered, SwapAnswered, DecodeFails, SendAnswered, SendFails,
     PollMisses, ConfirmTimesOut, ConfirmSeen, StageRecord, Requesting
<1>1. CASE RequestRetries(x)
  <2>1. TypeOK'
    BY <1>1, SwapAssumption DEF RequestRetries, Requesting
  <2> QED
    BY <1>1, <2>1
    DEF RequestRetries, StageRecord, SentRecord, OnlyPaperFills,
        AnsweredMeansSettled
<1>2. CASE RequestFails(x)
  <2>1. CASE stage[x] = "precheck"
    <3>1. record' = [record EXCEPT ![x] = NoRecord] /\ chain[x] = "none"
      BY <1>2, <2>1 DEF RequestFails, StageRecord, SentRecord
    <3> QED
      BY <1>0, <1>2, <2>1, <3>1, EndingStep
      DEF RequestFails, SettledRecords
  <2>2. CASE stage[x] # "precheck"
    BY <1>2, <2>2, FailingStep DEF RequestFails, Requesting
  <2> QED
    BY <2>1, <2>2
<1>3. CASE \E impact_ok \in BOOLEAN : PrecheckAnswered(x, impact_ok)
  <2>1. PICK impact_ok \in BOOLEAN : PrecheckAnswered(x, impact_ok)
    BY <1>3
  <2>2. chain[x] = "none" /\ record[x] = NoRecord
    BY <2>1 DEF PrecheckAnswered, StageRecord, SentRecord
  <2>3. CASE impact_ok
    <3>1. record' = [record EXCEPT ![x] = "QUOTE_REQUESTED"]
      BY <2>1, <2>3, ExecutorRuns DEF PrecheckAnswered, Create
    <3>2. Suspend(x, "quote") /\ UNCHANGED <<result, signature, chain, tracked>>
      BY <2>1, <2>3 DEF PrecheckAnswered
    <3>3. "QUOTE_REQUESTED" \in TransactionStates
      BY DEF TransactionStates
    <3> QED
      BY <1>0, <2>2, <3>1, <3>2, <3>3, SuspendingStep
  <2>4. CASE ~impact_ok
    <3>1. record' = [record EXCEPT ![x] = NoRecord]
      BY <2>1, <2>2, <2>4 DEF PrecheckAnswered
    <3> QED
      BY <1>0, <2>1, <2>2, <2>4, <3>1, EndingStep
      DEF PrecheckAnswered, SettledRecords
  <2> QED
    BY <2>3, <2>4
<1>4. CASE QuoteAnswered(x)
  <2>1. record[x] = "QUOTE_REQUESTED" /\ chain[x] = "none"
    BY <1>4 DEF QuoteAnswered, StageRecord, SentRecord
  <2>2. /\ record' = [record EXCEPT ![x] = "RISK_APPROVED"]
        /\ Suspend(x, "swap")
        /\ UNCHANGED <<result, signature, chain, tracked>>
    BY <1>4, <2>1, ExecutorRuns DEF QuoteAnswered, Proceed
  <2>3. "RISK_APPROVED" \in TransactionStates
    BY DEF TransactionStates
  <2> QED
    BY <1>0, <2>1, <2>2, <2>3, SuspendingStep
<1>5. CASE SwapAnswered(x)
  <2>1. record[x] = "RISK_APPROVED" /\ chain[x] = "none"
    BY <1>5 DEF SwapAnswered, StageRecord, SentRecord
  <2>2. /\ record' = [record EXCEPT ![x] = "SIGNED"]
        /\ Suspend(x, "send")
        /\ UNCHANGED <<result, signature, chain, tracked>>
    BY <1>5, <2>1, ExecutorRuns DEF SwapAnswered, Proceed
  <2>3. "SIGNED" \in TransactionStates
    BY DEF TransactionStates
  <2> QED
    BY <1>0, <2>1, <2>2, <2>3, SuspendingStep
<1>6. CASE DecodeFails(x)
  <2>1. record[x] = "RISK_APPROVED"
    BY <1>6 DEF DecodeFails, StageRecord
  <2>2. Failed("TRANSACTION_BUILT") = "FAILED"
    BY FailedFromOpen DEF TransactionStates, FailureStates, TerminalStates
  <2>3. Advance(From(record[x]), "TRANSACTION_BUILT")
          = [state |-> "TRANSACTION_BUILT", ok |-> TRUE]
    BY <2>1, ExecutorRuns
  <2>4. Failed(Advance(From(record[x]), "TRANSACTION_BUILT").state) = "FAILED"
    BY <2>2, <2>3
  <2>5. record' = [record EXCEPT ![x] = "FAILED"]
    BY <1>6, <2>4, Zenon DEF DecodeFails
  <2>6. /\ Answer(x, "failure")
        /\ signature' \subseteq Swaps
        /\ UNCHANGED <<chain, tracked>>
    BY <1>6, Zenon DEF DecodeFails
  <2> QED
    BY <1>0, <2>5, <2>6, EndingStep DEF SettledRecords
<1>7. CASE SendAnswered(x)
  <2>1. record[x] = "SIGNED"
    BY <1>7 DEF SendAnswered, StageRecord
  <2>2. /\ record' = [record EXCEPT ![x] = "SUBMITTED"]
        /\ Suspend(x, "confirm")
        /\ signature' \subseteq Swaps
        /\ UNCHANGED <<result, chain, tracked>>
    BY <1>7, <2>1, ExecutorRuns DEF SendAnswered, Proceed
  <2>3. "SUBMITTED" \in TransactionStates
    BY DEF TransactionStates
  <2> QED
    BY <1>0, <2>2, <2>3, SuspendingStep
<1>8. CASE SendFails(x)
  BY <1>8, FailingStep DEF SendFails
<1>9. CASE PollMisses(x)
  <2>1. TypeOK'
    BY <1>9, SwapAssumption DEF PollMisses
  <2> QED
    BY <1>9, <2>1
    DEF PollMisses, StageRecord, SentRecord, OnlyPaperFills,
        AnsweredMeansSettled
<1>10. CASE ConfirmTimesOut(x)
  <2>1. record[x] = "SUBMITTED"
    BY <1>10 DEF ConfirmTimesOut, StageRecord
  <2>2. Advance(From(record[x]), "CONFIRMING")
          = [state |-> "CONFIRMING", ok |-> TRUE]
    BY <2>1, ExecutorRuns
  <2>3. LET r == Advance(From(record[x]), "CONFIRMING")
        IN  (IF r.ok THEN r.state ELSE Failed(r.state)) = "CONFIRMING"
    BY <2>2
  <2>4. record' = [record EXCEPT ![x] = "CONFIRMING"]
    BY <1>10, <2>3, Zenon DEF ConfirmTimesOut
  <2>5. /\ Answer(x, "failure")
        /\ signature' \subseteq Swaps
        /\ UNCHANGED <<chain, tracked>>
    BY <1>10, Zenon DEF ConfirmTimesOut
  <2> QED
    BY <1>0, <2>4, <2>5, EndingStep DEF SettledRecords
<1>11. CASE ConfirmSeen(x)
  <2>1. record[x] = "SUBMITTED"
    BY <1>11 DEF ConfirmSeen, StageRecord
  <2>2. Failed("SUBMITTED") = "FAILED"
    BY FailedFromOpen DEF TransactionStates, FailureStates, TerminalStates
  <2>3. Advance(From(record[x]), "CONFIRMED")
          = [state |-> "SUBMITTED", ok |-> FALSE]
    BY <2>1, ExecutorRuns
  <2>4. LET r == Advance(From(record[x]), "CONFIRMED")
        IN  /\ (IF r.ok THEN r.state ELSE Failed(r.state)) = "FAILED"
            /\ (IF r.ok THEN "success" ELSE "failure") = "failure"
            /\ ~r.ok
    BY <2>2, <2>3
  <2>5. record' = [record EXCEPT ![x] = "FAILED"]
    BY <1>11, <2>4, Zenon DEF ConfirmSeen
  <2>6. Answer(x, "failure")
    BY <1>11, <2>4, Zenon DEF ConfirmSeen
  <2>7. /\ signature' \subseteq Swaps
        /\ chain' = chain
    BY <1>11, Zenon DEF ConfirmSeen
  <2>8. tracked' = tracked
    BY <1>11, <2>4, Zenon DEF ConfirmSeen
  <2> QED
    BY <1>0, <2>5, <2>6, <2>7, <2>8, EndingStep DEF SettledRecords
<1> QED
  BY <1>1, <1>2, <1>3, <1>4, <1>5, <1>6, <1>7, <1>8, <1>9, <1>10, <1>11
  DEF Continue

\* Cancellation and the chain.
LEMMA CancelKeeps ==
  ASSUME IInv, NEW x \in Swaps, Cancel(x)
  PROVE  IInv'
<1>1. TypeOK'
  BY SwapAssumption DEF IInv, TypeOK, Cancel, Suspend
<1>2. StageRecord' /\ SentRecord'
  BY DEF IInv, TypeOK, Cancel, Suspend, StageRecord, SentRecord
<1>3. OnlyPaperFills' /\ AnsweredMeansSettled'
  BY DEF IInv, Cancel, OnlyPaperFills, AnsweredMeansSettled
<1> QED
  BY <1>1, <1>2, <1>3 DEF IInv

LEMMA ChainKeeps ==
  ASSUME IInv, NEW x \in Swaps,
         \/ SendArrives(x)
         \/ \E outcome \in {"landed", "dropped"} : ChainDecides(x, outcome)
  PROVE  IInv'
<1>1. TypeOK'
  BY DEF IInv, TypeOK, SendArrives, ChainDecides
<1>2. StageRecord'
  BY DEF IInv, TypeOK, SendArrives, ChainDecides, StageRecord
<1>3. SentRecord'
  <2>1. CASE SendArrives(x)
    BY <2>1 DEF IInv, TypeOK, SendArrives, StageRecord, SentRecord
  <2>2. CASE \E outcome \in {"landed", "dropped"} : ChainDecides(x, outcome)
    BY <2>2 DEF IInv, TypeOK, ChainDecides, SentRecord
  <2> QED
    BY <2>1, <2>2
<1>4. OnlyPaperFills' /\ AnsweredMeansSettled'
  BY DEF IInv, SendArrives, ChainDecides, OnlyPaperFills,
     AnsweredMeansSettled
<1> QED
  BY <1>1, <1>2, <1>3, <1>4 DEF IInv

LEMMA StutterKeeps == IInv /\ UNCHANGED vars => IInv'
BY DEF IInv, vars, TypeOK, StageRecord, SentRecord, OnlyPaperFills,
   AnsweredMeansSettled

\* The inductive invariant: the record always names the pending outside call.
THEOREM SwapInvariant == Spec => []IInv
<1>1. IInv /\ [Next]_vars => IInv'
  BY BeginKeeps, ContinueKeeps, CancelKeeps, ChainKeeps, StutterKeeps
  DEF Next
<1> QED
  BY InitEstablishes, <1>1, PTL DEF Spec

-----------------------------------------------------------------------------
\* Every variable keeps its shape, for any number of calls.
THEOREM SwapTypeCorrect == Spec => []TypeOK
BY SwapInvariant, PTL DEF IInv

\* No answered call leaves a record half way.
THEOREM AnswersSettle == Spec => []AnsweredMeansSettled
BY SwapInvariant, PTL DEF IInv

\* A record that has not reached SIGNED proves that nothing was sent.
THEOREM UnsignedNeverSent == Spec => []UnsignedMeansUnsent
<1>1. IInv => UnsignedMeansUnsent
  BY DEF IInv, SentRecord, UnsignedMeansUnsent
<1> QED
  BY <1>1, SwapInvariant, PTL

\* A reported fill is confirmed.
THEOREM FillsConfirmed == Spec => []FillsAreConfirmed
<1>1. IInv => FillsAreConfirmed
  BY DEF IInv, OnlyPaperFills, FillsAreConfirmed
<1> QED
  BY <1>1, SwapInvariant, PTL

\* As the code stands no call of the live executor is ever answered with a
\* fill: buy.py:97 and sell.py:98 ask for CONFIRMED straight from SUBMITTED,
\* which transaction.py:45 refuses, so LiveExecutor never tracks a balance and
\* the orchestrator never opens a position in live mode.
LiveNeverFills ==
  \A x \in Swaps : result[x] = "success" => side[x] = "paper"

THEOREM NoLiveFill == Spec => [](LiveNeverFills /\ tracked = {})
<1>1. IInv => LiveNeverFills /\ tracked = {}
  BY DEF IInv, OnlyPaperFills, LiveNeverFills
<1> QED
  BY <1>1, SwapInvariant, PTL

-----------------------------------------------------------------------------
(***************************************************************************)
(* A call is bounded, and its record only moves on.  This is what CallsEnd *)
(* adds fairness to.                                                       *)
(***************************************************************************)
\* Steps a call at this stage may still take, after n attempts or polls there:
\* three requests with their retries, the broadcast, the polls and the answer.
Left(at, n) ==
  CASE at = "idle"     -> 3 * MaxRetries + MaxPolls + 2
    [] at = "precheck" -> 3 * MaxRetries + MaxPolls + 1 - n
    [] at = "quote"    -> 2 * MaxRetries + MaxPolls + 1 - n
    [] at = "swap"     -> MaxRetries + MaxPolls + 1 - n
    [] at = "send"     -> MaxPolls + 1
    [] at = "confirm"  -> MaxPolls - n
    [] at = "ended"    -> 0

Budget(x) == Left(stage[x], tries[x])

\* How far a record has come.
Progress(state) ==
  CASE state = NoRecord            -> 0
    [] state = "CREATED"           -> 1
    [] state = "QUOTE_REQUESTED"   -> 2
    [] state = "QUOTE_RECEIVED"    -> 3
    [] state = "RISK_APPROVED"     -> 4
    [] state = "TRANSACTION_BUILT" -> 5
    [] state = "SIGNED"            -> 6
    [] state = "SUBMITTED"         -> 7
    [] state = "CONFIRMING"        -> 8
    [] OTHER                       -> 9

\* What a call is about stays as it is, or there is less left to do.
CallsAdvance ==
  [][\A x \in Swaps :
       \/ UNCHANGED <<stage[x], tries[x], record[x], result[x]>>
       \/ Budget(x)' < Budget(x)]_vars

\* A retry, a poll or an except clause never takes a record back, and nothing
\* happens to one that has reached a terminal state.
RecordsMoveOn ==
  [][\A x \in Swaps :
       record'[x] # record[x] =>
         /\ record[x] \notin TerminalStates
         /\ Progress(record[x]) < Progress(record'[x])]_vars

\* The pairs of stages a call passes through.
Onward ==
  {<<"idle", "precheck">>, <<"idle", "quote">>, <<"precheck", "quote">>,
   <<"quote", "swap">>, <<"swap", "send">>, <<"send", "confirm">>}
    \union (Stages \ {"ended"}) \X {"ended"}

\* A step of a call is another attempt or poll, or takes it on.
Again(x) ==
  /\ stage[x] \in {"precheck", "quote", "swap", "confirm"}
  /\ stage'[x] = stage[x]
  /\ tries'[x] = tries[x] + 1
  /\ record'[x] = record[x]

GoesOn(x) ==
  /\ <<stage[x], stage'[x]>> \in Onward
  /\ tries'[x] = 0
  /\ stage'[x] = "ended" =>
       record'[x] \in {record[x], "FAILED", "CONFIRMING", "CONFIRMED"}

LEMMA SuspendMoves ==
  ASSUME TypeOK, NEW x \in Swaps, NEW where, Suspend(x, where)
  PROVE  /\ stage'[x] = where /\ tries'[x] = 0
         /\ \A y \in Swaps \ {x} : stage'[y] = stage[y] /\ tries'[y] = tries[y]
BY DEF TypeOK, Suspend

\* The except clause leaves a failed record, or the one there was.
LEMMA FailureMoves ==
  ASSUME NEW state
  PROVE  Failed(state) \in {state, "FAILED"}
BY DEF Failed, Advance, From

LEMMA BeginMoves ==
  ASSUME IInv, NEW x \in Swaps, Begin(x)
  PROVE  GoesOn(x)
<1>1. PICK t \in Tokens :
        LiveBuy(x, t) \/ LiveSell(x, t) \/ \E fills \in BOOLEAN : PaperOrder(x, t, fills)
  BY DEF Begin
<1>2. stage[x] = "idle"
  BY <1>1 DEF LiveBuy, LiveSell, PaperOrder, Call
<1>3. CASE LiveBuy(x, t)
  BY <1>2, <1>3, SuspendMoves DEF LiveBuy, GoesOn, Onward, IInv
<1>4. CASE LiveSell(x, t)
  BY <1>2, <1>4, SuspendMoves
  DEF LiveSell, Answer, GoesOn, Onward, IInv, OnlyPaperFills
<1>5. ASSUME NEW fills \in BOOLEAN, PaperOrder(x, t, fills)
      PROVE  GoesOn(x)
  <2>1. stage'[x] = "ended" /\ tries'[x] = 0
    BY <1>5, SuspendMoves DEF PaperOrder, Answer, IInv
  <2>2. record'[x] = IF fills THEN "CONFIRMED" ELSE "FAILED"
    BY <1>5, PaperRuns DEF PaperOrder, IInv, TypeOK
  <2> QED
    BY <1>2, <2>1, <2>2 DEF GoesOn, Onward
<1> QED
  BY <1>1, <1>3, <1>4, <1>5

LEMMA ContinueMoves ==
  ASSUME IInv, NEW x \in Swaps, Continue(x)
  PROVE  Again(x) \/ GoesOn(x)
<1> USE DEF IInv, TypeOK
<1>1. CASE RequestRetries(x) \/ PollMisses(x)
  BY <1>1 DEF RequestRetries, PollMisses, Requesting, Again
<1>2. CASE RequestFails(x)
  BY <1>2, SuspendMoves, FailureMoves
  DEF RequestFails, Requesting, Fail, Answer, GoesOn, Onward
<1>3. ASSUME NEW impact_ok \in BOOLEAN, PrecheckAnswered(x, impact_ok)
      PROVE  GoesOn(x)
  BY <1>3, SuspendMoves DEF PrecheckAnswered, Answer, GoesOn, Onward
<1>4. CASE QuoteAnswered(x)
  <2>1. Suspend(x, "swap") /\ stage[x] = "quote"
    BY <1>4, ExecutorRuns DEF QuoteAnswered, Proceed, StageRecord
  <2> QED
    BY <2>1, SuspendMoves DEF GoesOn, Onward
<1>5. CASE SwapAnswered(x)
  <2>1. Suspend(x, "send") /\ stage[x] = "swap"
    BY <1>5, ExecutorRuns DEF SwapAnswered, Proceed, StageRecord
  <2> QED
    BY <2>1, SuspendMoves DEF GoesOn, Onward
<1>6. CASE DecodeFails(x)
  <2>1. Failed("TRANSACTION_BUILT") = "FAILED"
    BY FailedFromOpen DEF TransactionStates, FailureStates, TerminalStates
  <2>2. record[x] = "RISK_APPROVED"
    BY <1>6 DEF DecodeFails, StageRecord
  <2>3. Failed(Advance(From(record[x]), "TRANSACTION_BUILT").state) = "FAILED"
    BY <2>1, <2>2, ExecutorRuns
  <2>4. record'[x] = "FAILED"
    BY <1>6, <2>3, Zenon DEF DecodeFails
  <2>5. Suspend(x, "ended") /\ stage[x] = "swap"
    BY <1>6, Zenon DEF DecodeFails, Answer
  <2> QED
    BY <2>4, <2>5, SuspendMoves DEF GoesOn, Onward
<1>7. CASE SendAnswered(x)
  <2>1. Suspend(x, "confirm") /\ stage[x] = "send"
    BY <1>7, ExecutorRuns DEF SendAnswered, Proceed, StageRecord
  <2> QED
    BY <2>1, SuspendMoves DEF GoesOn, Onward
<1>8. CASE SendFails(x)
  BY <1>8, SuspendMoves, FailureMoves DEF SendFails, Fail, Answer, GoesOn, Onward
<1>9. CASE ConfirmTimesOut(x) \/ ConfirmSeen(x)
  <2>1. Suspend(x, "ended") /\ stage[x] = "confirm"
    BY <1>9, Zenon DEF ConfirmTimesOut, ConfirmSeen, Answer
  <2>2. record[x] = "SUBMITTED"
    BY <2>1 DEF StageRecord
  <2>3. Failed("SUBMITTED") \in {"SUBMITTED", "FAILED"}
    BY FailureMoves
  <2>4. \A next \in {"CONFIRMING", "CONFIRMED"} :
          LET r == Advance(From(record[x]), next)
          IN  (IF r.ok THEN r.state ELSE Failed(r.state)) \in {record[x], "FAILED", "CONFIRMING"}
    BY <2>2, <2>3, ExecutorRuns
  <2>5. record'[x] \in {record[x], "FAILED", "CONFIRMING"}
    BY <1>9, <2>4 DEF ConfirmTimesOut, ConfirmSeen
  <2> QED
    BY <2>1, <2>5, SuspendMoves DEF GoesOn, Onward
<1> QED
  BY <1>1, <1>2, <1>3, <1>4, <1>5, <1>6, <1>7, <1>8, <1>9 DEF Continue

LEMMA CancelMoves ==
  ASSUME IInv, NEW x \in Swaps, Cancel(x)
  PROVE  GoesOn(x)
BY SuspendMoves DEF IInv, TypeOK, Cancel, Running, GoesOn, Onward

\* The other calls are left alone.
LEMMA OthersStay ==
  ASSUME IInv, NEW x \in Swaps, Begin(x) \/ Continue(x) \/ Cancel(x),
         NEW y \in Swaps, y # x
  PROVE  UNCHANGED <<stage[y], tries[y], record[y], result[y]>>
BY DEF IInv, TypeOK, Begin, Continue, Cancel, LiveBuy, LiveSell, PaperOrder, Call, Create,
       Fail, Answer, Suspend, Proceed, RequestRetries, RequestFails, PrecheckAnswered,
       QuoteAnswered, SwapAnswered, DecodeFails, SendAnswered, SendFails, PollMisses,
       ConfirmTimesOut, ConfirmSeen

\* What is left is a number, and a step takes from it.
LEMMA LeftDrops ==
  ASSUME NEW at \in Stages, NEW n \in Nat,
         n < IF at = "confirm" THEN MaxPolls ELSE MaxRetries
  PROVE  /\ Left(at, n) \in 0 .. 3 * MaxRetries + MaxPolls + 2
         /\ Left(at, n) = 0 <=> at = "ended"
         /\ at \in {"precheck", "quote", "swap", "confirm"} => Left(at, n + 1) < Left(at, n)
         /\ \A next \in Stages : <<at, next>> \in Onward => Left(next, 0) < Left(at, n)
<1> USE SwapAssumption
<1>1. /\ Left("idle", n) = 3 * MaxRetries + MaxPolls + 2
      /\ \A k \in {0, n, n + 1} :
           /\ Left("precheck", k) = 3 * MaxRetries + MaxPolls + 1 - k
           /\ Left("quote", k) = 2 * MaxRetries + MaxPolls + 1 - k
           /\ Left("swap", k) = MaxRetries + MaxPolls + 1 - k
           /\ Left("send", k) = MaxPolls + 1
           /\ Left("confirm", k) = MaxPolls - k
           /\ Left("ended", k) = 0
  BY DEF Left
<1>2. Left(at, n) \in 0 .. 3 * MaxRetries + MaxPolls + 2 /\ (Left(at, n) = 0 <=> at = "ended")
  BY <1>1
<1>3. at \in {"precheck", "quote", "swap", "confirm"} => Left(at, n + 1) < Left(at, n)
  BY <1>1
<1>4. ASSUME NEW next \in Stages, <<at, next>> \in Onward
      PROVE  Left(next, 0) < Left(at, n)
  BY <1>1, <1>4 DEF Onward
<1> QED
  BY <1>2, <1>3, <1>4

\* Each call takes 3 * MaxRetries + MaxPolls + 2 steps at most, counted down by
\* Budget, and has ended when nothing is left.
THEOREM CallsAreBounded ==
  /\ Spec => [](\A x \in Swaps :
                  /\ Budget(x) \in 0 .. 3 * MaxRetries + MaxPolls + 2
                  /\ Budget(x) = 0 <=> stage[x] = "ended")
  /\ Spec => CallsAdvance
<1>1. IInv => \A x \in Swaps :
                /\ Budget(x) \in 0 .. 3 * MaxRetries + MaxPolls + 2
                /\ Budget(x) = 0 <=> stage[x] = "ended"
  BY LeftDrops DEF IInv, TypeOK, Budget
<1>2. IInv /\ [Next]_vars =>
        [\A x \in Swaps :
           \/ UNCHANGED <<stage[x], tries[x], record[x], result[x]>>
           \/ Budget(x)' < Budget(x)]_vars
  <2> SUFFICES ASSUME IInv, Next, NEW x \in Swaps
               PROVE  \/ UNCHANGED <<stage[x], tries[x], record[x], result[x]>>
                      \/ Budget(x)' < Budget(x)
    OBVIOUS
  <2>1. PICK y \in Swaps :
          \/ Begin(y) \/ Continue(y) \/ Cancel(y)
          \/ SendArrives(y)
          \/ \E outcome \in {"landed", "dropped"} : ChainDecides(y, outcome)
    BY DEF Next
  <2>2. CASE SendArrives(y) \/ \E outcome \in {"landed", "dropped"} : ChainDecides(y, outcome)
    BY <2>2 DEF SendArrives, ChainDecides
  <2>3. CASE (Begin(y) \/ Continue(y) \/ Cancel(y)) /\ y # x
    BY <2>3, OthersStay
  <2>4. CASE (Begin(x) \/ Continue(x) \/ Cancel(x))
    <3>1. Again(x) \/ GoesOn(x)
      BY <2>4, BeginMoves, ContinueMoves, CancelMoves
    <3>2. stage'[x] \in Stages
      BY <3>1 DEF Again, GoesOn, Onward, IInv, TypeOK
    <3>3. /\ stage[x] \in Stages /\ tries[x] \in Nat
          /\ tries[x] < IF stage[x] = "confirm" THEN MaxPolls ELSE MaxRetries
      BY DEF IInv, TypeOK
    <3>4. Left(stage'[x], tries'[x]) < Left(stage[x], tries[x])
      BY <3>1, <3>2, <3>3, LeftDrops DEF Again, GoesOn
    <3> QED
      BY <3>4 DEF Budget
  <2> QED
    BY <2>1, <2>2, <2>3, <2>4
<1> QED
  BY <1>1, <1>2, SwapInvariant, PTL DEF Spec, CallsAdvance

\* What the record of a running call says, stage by stage, and how far that is.
LEMMA RunningRecords ==
  ASSUME IInv, NEW x \in Swaps, stage[x] # "ended"
  PROVE  /\ record[x] \notin TerminalStates
         /\ Progress(record[x]) =
              CASE stage[x] \in {"idle", "precheck"} -> 0
                [] stage[x] = "quote"                -> 2
                [] stage[x] = "swap"                 -> 4
                [] stage[x] = "send"                 -> 6
                [] stage[x] = "confirm"              -> 7
BY DEF IInv, TypeOK, StageRecord, Progress, TerminalStates

\* A record is never taken back, and a settled one never touched.
THEOREM RecordsAreMonotone == Spec => RecordsMoveOn
<1>1. IInv /\ IInv' /\ [Next]_vars =>
        [\A x \in Swaps :
           record'[x] # record[x] =>
             /\ record[x] \notin TerminalStates
             /\ Progress(record[x]) < Progress(record'[x])]_vars
  <2> SUFFICES ASSUME IInv, IInv', Next, NEW x \in Swaps, record'[x] # record[x]
               PROVE  /\ record[x] \notin TerminalStates
                      /\ Progress(record[x]) < Progress(record'[x])
    OBVIOUS
  <2>1. PICK y \in Swaps :
          \/ Begin(y) \/ Continue(y) \/ Cancel(y)
          \/ SendArrives(y)
          \/ \E outcome \in {"landed", "dropped"} : ChainDecides(y, outcome)
    BY DEF Next
  <2>2. Begin(x) \/ Continue(x) \/ Cancel(x)
    BY <2>1, OthersStay DEF SendArrives, ChainDecides
  <2>3. GoesOn(x)
    BY <2>2, BeginMoves, ContinueMoves, CancelMoves DEF Again
  <2>4. stage[x] # "ended"
    BY <2>3 DEF GoesOn, Onward
  <2>5. CASE stage'[x] # "ended"
    <3>1. /\ Progress(record[x]) =
               CASE stage[x] \in {"idle", "precheck"} -> 0
                 [] stage[x] = "quote"                -> 2
                 [] stage[x] = "swap"                 -> 4
                 [] stage[x] = "send"                 -> 6
                 [] stage[x] = "confirm"              -> 7
          /\ record[x] \notin TerminalStates
      BY <2>4, RunningRecords
    <3>2. stage'[x] = "precheck" => record'[x] = record[x]
      BY <2>3, <2>4, <2>5 DEF GoesOn, Onward, IInv, StageRecord
    <3>3. /\ stage'[x] = "quote" => record'[x] = "QUOTE_REQUESTED"
          /\ stage'[x] = "swap" => record'[x] = "RISK_APPROVED"
          /\ stage'[x] = "send" => record'[x] = "SIGNED"
          /\ stage'[x] = "confirm" => record'[x] = "SUBMITTED"
      BY DEF IInv, StageRecord
    <3>4. /\ Progress("QUOTE_REQUESTED") = 2 /\ Progress("RISK_APPROVED") = 4
          /\ Progress("SIGNED") = 6 /\ Progress("SUBMITTED") = 7
      BY DEF Progress
    <3>5. <<stage[x], stage'[x]>> \in
            {<<"idle", "quote">>, <<"precheck", "quote">>, <<"quote", "swap">>,
             <<"swap", "send">>, <<"send", "confirm">>}
      BY <2>3, <2>5, <3>2 DEF GoesOn, Onward
    <3> QED
      BY <3>1, <3>3, <3>4, <3>5
  <2>6. CASE stage'[x] = "ended"
    <3>1. record'[x] \in {"FAILED", "CONFIRMING", "CONFIRMED"}
      BY <2>3, <2>6 DEF GoesOn
    <3>2. Progress(record'[x]) \in {8, 9}
      BY <3>1 DEF Progress
    <3>3. Progress(record[x]) \in {0, 2, 4, 6, 7} /\ record[x] \notin TerminalStates
      BY <2>4, RunningRecords DEF IInv, TypeOK
    <3> QED
      BY <3>2, <3>3
  <2> QED
    BY <2>5, <2>6
<1>2. IInv /\ [Next]_vars => IInv'
  BY BeginKeeps, ContinueKeeps, CancelKeeps, ChainKeeps, StutterKeeps DEF Next
<1> QED
  BY <1>1, <1>2, SwapInvariant, PTL DEF Spec, RecordsMoveOn
=============================================================================
