------------------------- MODULE Orchestrator_proofs -------------------------
(***************************************************************************)
(* Proofs about the trading core, for every set of tokens and clients and  *)
(* every value of the limits.                                              *)
(*                                                                         *)
(* The 19 actions change the shared state in seven ways only (KindsOfStep):*)
(* a buy takes its token, the order is placed, it fills; a sell takes its  *)
(* token, it fills; a task leaves its token with nothing traded; or books, *)
(* locks and tasks stay as they are.  Each part of the inductive invariant *)
(* is proved over these.                                                   *)
(***************************************************************************)
EXTENDS Orchestrator, CircuitBreaker_proofs, Sums_proofs

\* A task gives its token up without having traded.
LeaveToken(p, s) ==
  /\ ~Idle(p)
  /\ s = "idle" \/ (s = "stopped" /\ p = Loop)
  /\ Release(p, s)
  /\ UNCHANGED books
  /\ order' = order \/ (p = Loop /\ order' = 0)

\* The loop ends between two operations.
EndLoop ==
  /\ pc[Loop] = "idle"
  /\ pc' = [pc EXCEPT ![Loop] = "stopped"]
  /\ order' \in {order, 0}
  /\ UNCHANGED <<books, lock, in_flight, token, pos>>

LEMMA KindsOfStep ==
  ASSUME Next
  PROVE  \/ \E t \in Tokens : BeginBuy(t)
         \/ \E size \in Sizes : ExecuteBuy(size)
         \/ BuyFills
         \/ \E p \in Tasks, t \in Tokens : BeginSell(p, t)
         \/ \E p \in Tasks, pnl \in PnLs : SellFills(p, pnl)
         \/ \E p \in Tasks, s \in {"idle", "stopped"} : LeaveToken(p, s)
         \/ EndLoop
         \/ UNCHANGED <<books, trading>>
<1> USE DEF Tasks
<1>1. CASE BuyStep
  <2>1. ASSUME DeclineBuy \/ BlockBuy \/ BuyFails
        PROVE  LeaveToken(Loop, "idle")
    BY <2>1 DEF DeclineBuy, BlockBuy, BuyFails, LeaveToken, Idle
  <2> QED
    BY <1>1, <2>1 DEF BuyStep
<1>2. CASE SellStep
  <2>1. ASSUME NEW p \in Tasks, SellFails(p)
        PROVE  LeaveToken(p, "idle")
    BY <2>1 DEF SellFails, LeaveToken, Idle
  <2>2. ASSUME NEW t \in Tokens, PriceUpdateExit(t)
        PROVE  BeginSell(Loop, t)
    BY <2>2 DEF PriceUpdateExit
  <2>3. ASSUME NEW c \in Clients, NEW t \in Tokens, CloseRequest(c, t)
        PROVE  BeginSell(c, t)
    BY <2>3 DEF CloseRequest
  <2> QED
    BY <1>2, <2>1, <2>2, <2>3 DEF SellStep
<1>3. CASE OperatorStep
  <2>1. ASSUME NEW c \in Clients, NEW t \in Tokens, EmergencyClose(c, t)
        PROVE  BeginSell(c, t)
    BY <2>1 DEF EmergencyClose
  <2> QED
    BY <1>3, <2>1 DEF OperatorStep, EmergencyRequest, EmergencySkip,
                      PauseRequest, ResumeRequest
<1>4. CASE EnvironmentStep
  <2>1. CASE StopLoop
    BY <2>1 DEF StopLoop, LeaveToken, EndLoop, Idle
  <2> QED
    BY <1>4, <2>1 DEF EnvironmentStep, WalletLow, WindowExpires, Midnight
<1> QED
  BY <1>1, <1>2, <1>3, <1>4 DEF Next

-----------------------------------------------------------------------------
(***************************************************************************)
(* The inductive invariant.                                                *)
(***************************************************************************)
\* The variables the seven kinds of step are about keep their types.
CoreTypes ==
  /\ positions \in [Tokens -> Position \union {None}]
  /\ next_id \in 1 .. MaxPositionIds + 1
  /\ exposure \in [Ids -> Sizes \union {0}]
  /\ total_exposure \in Int
  /\ closed_trades \in Seq(Trade)
  /\ in_flight \subseteq Tokens
  /\ lock \in [Tokens -> Tasks \union {None}]
  /\ held \subseteq Tokens
  /\ pc \in [Tasks -> {"idle", "analyzing", "buying", "selling", "stopped"}]
  /\ token \in [Tasks -> Tokens \union {None}]
  /\ pos \in [Tasks -> Position \union {None}]
  /\ order \in Sizes \union {0}

\* Dashboard requests only sell.
ClientsOnlySell == \A c \in Clients : pc[c] \in {"idle", "selling"}

\* While a buy runs its token has no position and there is room for one more.
BuyHasRoom ==
  pc[Loop] \in {"analyzing", "buying"} =>
    /\ positions[token[Loop]] = None
    /\ next_id <= MaxPositionIds
    /\ Cardinality(Open) < MaxOpenPositions
    /\ pc[Loop] = "buying" => order \in Sizes

IInv ==
  /\ CoreTypes
  /\ ClientsOnlySell
  /\ OneOperationPerToken
  /\ ReadPositionIsCurrent
  /\ BuyHasRoom
  /\ BooksAgree
  /\ EveryPositionAccountedOnce
  /\ OpenPositionsLimited

LEMMA TaskFacts == Loop \in Tasks /\ Clients \subseteq Tasks /\ None \notin Tasks
BY OrchestratorAssumption DEF Tasks

LEMMA NoneIsNoPosition == None \notin Position /\ None \notin Tokens
<1>1. Ids \subseteq Nat /\ Sizes \subseteq Nat
  BY OrchestratorAssumption DEF Ids
<1>2. \A q \in Position : q \in [id : Nat, capital : Nat]
  BY <1>1 DEF Position
<1> QED
  BY <1>2, OrchestratorAssumption

\* A buy that fills opens a position under the next id.
NewPosition == [id |-> next_id, capital |-> order]

LEMMA NewPositionTyped ==
  ASSUME IInv, pc[Loop] = "buying"
  PROVE  /\ NewPosition \in Position
         /\ NewPosition # None
         /\ next_id \in Ids
         /\ order \in Sizes
<1>1. next_id \in Ids /\ order \in Sizes
  BY OrchestratorAssumption DEF IInv, CoreTypes, BuyHasRoom, Ids
<1>2. NewPosition \in Position
  BY <1>1 DEF NewPosition, Position
<1> QED
  BY <1>1, <1>2, NoneIsNoPosition

\* What a sell pipeline holds when its executor answers.
LEMMA SoldPositionTyped ==
  ASSUME IInv, NEW p \in Tasks, pc[p] = "selling"
  PROVE  /\ token[p] \in Tokens
         /\ pos[p] = positions[token[p]]
         /\ pos[p] # None
         /\ pos[p] \in Position
         /\ token[p] \in Open
BY DEF IInv, CoreTypes, OneOperationPerToken, ReadPositionIsCurrent, Open, Idle

-----------------------------------------------------------------------------
\* Removing an id keeps the tracker well formed, whatever the id is.
LEMMA RemoveExposureTyped ==
  ASSUME CoreTypes, NEW id, RemoveExposure(id)
  PROVE  exposure' \in [Ids -> Sizes \union {0}] /\ total_exposure' \in Int
<1>1. CASE id \in Ids
  <2>1. exposure[id] \in Int
    <3>1. Sizes \union {0} \subseteq Int
      BY OrchestratorAssumption
    <3> QED
      BY <1>1, <3>1 DEF CoreTypes
  <2>2. total_exposure' \in Int
    BY <1>1, <2>1 DEF RemoveExposure, CoreTypes
  <2>3. exposure' \in [Ids -> Sizes \union {0}]
    BY <1>1 DEF RemoveExposure, CoreTypes
  <2> QED
    BY <2>2, <2>3
<1>2. CASE id \notin Ids
  BY <1>2 DEF RemoveExposure, CoreTypes
<1> QED
  BY <1>1, <1>2

LEMMA CoreTypesStep ==
  ASSUME IInv, Next
  PROVE  CoreTypes'
<1> USE TaskFacts, NoneIsNoPosition
<1>1. ASSUME NEW t \in Tokens, BeginBuy(t)
      PROVE  CoreTypes'
  BY <1>1 DEF BeginBuy, Acquire, books, IInv, CoreTypes
<1>2. ASSUME NEW size \in Sizes, ExecuteBuy(size)
      PROVE  CoreTypes'
  BY <1>2 DEF ExecuteBuy, books, IInv, CoreTypes
<1>3. CASE BuyFills
  <2>1. /\ token[Loop] \in Tokens
        /\ next_id \in Ids /\ order \in Sizes
        /\ NewPosition \in Position
    BY <1>3, NewPositionTyped
    DEF BuyFills, IInv, CoreTypes, OneOperationPerToken, Idle
  <2>2. /\ positions' \in [Tokens -> Position \union {None}]
        /\ held' \subseteq Tokens
    BY <1>3, <2>1 DEF BuyFills, NewPosition, IInv, CoreTypes
  <2>3. next_id' \in 1 .. MaxPositionIds + 1
    BY <1>3, <2>1, OrchestratorAssumption DEF BuyFills, Ids
  <2>4. /\ exposure' \in [Ids -> Sizes \union {0}]
        /\ total_exposure' \in Int
    BY <1>3, <2>1, OrchestratorAssumption
    DEF BuyFills, AddExposure, IInv, CoreTypes
  <2>5. /\ in_flight' \subseteq Tokens
        /\ lock' \in [Tokens -> Tasks \union {None}]
        /\ pc' \in [Tasks -> {"idle", "analyzing", "buying", "selling", "stopped"}]
        /\ token' \in [Tasks -> Tokens \union {None}]
        /\ pos' \in [Tasks -> Position \union {None}]
    BY <1>3 DEF BuyFills, Release, IInv, CoreTypes
  <2> QED
    BY <1>3, <2>2, <2>3, <2>4, <2>5 DEF BuyFills, IInv, CoreTypes
<1>4. ASSUME NEW p \in Tasks, NEW t \in Tokens, BeginSell(p, t)
      PROVE  CoreTypes'
  BY <1>4 DEF BeginSell, Acquire, books, IInv, CoreTypes
<1>5. ASSUME NEW p \in Tasks, NEW pnl \in PnLs, SellFills(p, pnl)
      PROVE  CoreTypes'
  <2>1. /\ pc[p] = "selling"
        /\ positions' = [positions EXCEPT ![token[p]] = None]
        /\ held' = held \ {token[p]}
        /\ closed_trades' = Append(closed_trades, [id |-> pos[p].id, pnl |-> pnl])
        /\ RemoveExposure(IF positions[token[p]] = None THEN 0
                          ELSE positions[token[p]].id)
        /\ Release(p, "idle")
        /\ UNCHANGED <<next_id, order>>
    BY <1>5 DEF SellFills
  <2>2. [id |-> pos[p].id, pnl |-> pnl] \in Trade
    BY <2>1, SoldPositionTyped DEF Position, Trade
  <2>3. closed_trades' \in Seq(Trade)
    BY <2>1, <2>2 DEF IInv, CoreTypes
  <2>4. /\ exposure' \in [Ids -> Sizes \union {0}]
        /\ total_exposure' \in Int
    BY <2>1, RemoveExposureTyped DEF IInv
  <2>5. /\ in_flight' \subseteq Tokens
        /\ lock' \in [Tokens -> Tasks \union {None}]
        /\ pc' \in [Tasks -> {"idle", "analyzing", "buying", "selling", "stopped"}]
        /\ token' \in [Tasks -> Tokens \union {None}]
        /\ pos' \in [Tasks -> Position \union {None}]
    BY <2>1 DEF Release, IInv, CoreTypes
  <2> QED
    BY <2>1, <2>3, <2>4, <2>5 DEF IInv, CoreTypes
<1>6. ASSUME NEW p \in Tasks, NEW s \in {"idle", "stopped"}, LeaveToken(p, s)
      PROVE  CoreTypes'
  BY <1>6 DEF LeaveToken, Release, books, IInv, CoreTypes
<1>7. CASE EndLoop
  BY <1>7 DEF EndLoop, books, IInv, CoreTypes
<1>8. CASE UNCHANGED <<books, trading>>
  BY <1>8 DEF books, trading, IInv, CoreTypes
<1> QED
  BY <1>1, <1>2, <1>3, <1>4, <1>5, <1>6, <1>7, <1>8, KindsOfStep

-----------------------------------------------------------------------------
LEMMA ClientsOnlySellStep ==
  ASSUME IInv, Next
  PROVE  ClientsOnlySell'
<1> USE TaskFacts, OrchestratorAssumption DEF IInv, ClientsOnlySell, CoreTypes
<1>1. ASSUME NEW t \in Tokens, BeginBuy(t)
      PROVE  ClientsOnlySell'
  BY <1>1 DEF BeginBuy, Acquire
<1>2. ASSUME NEW size \in Sizes, ExecuteBuy(size)
      PROVE  ClientsOnlySell'
  BY <1>2 DEF ExecuteBuy
<1>3. CASE BuyFills
  BY <1>3 DEF BuyFills, Release
<1>4. ASSUME NEW p \in Tasks, NEW t \in Tokens, BeginSell(p, t)
      PROVE  ClientsOnlySell'
  BY <1>4 DEF BeginSell, Acquire
<1>5. ASSUME NEW p \in Tasks, NEW pnl \in PnLs, SellFills(p, pnl)
      PROVE  ClientsOnlySell'
  BY <1>5 DEF SellFills, Release
<1>6. ASSUME NEW p \in Tasks, NEW s \in {"idle", "stopped"}, LeaveToken(p, s)
      PROVE  ClientsOnlySell'
  BY <1>6 DEF LeaveToken, Release
<1>7. CASE EndLoop
  BY <1>7 DEF EndLoop
<1>8. CASE UNCHANGED <<books, trading>>
  BY <1>8 DEF trading
<1> QED
  BY <1>1, <1>2, <1>3, <1>4, <1>5, <1>6, <1>7, <1>8, KindsOfStep

-----------------------------------------------------------------------------
(***************************************************************************)
(* Mutual exclusion.  The lock, the in-flight set and the tasks' own view  *)
(* change together in Acquire and in Release.                              *)
(***************************************************************************)
LEMMA AcquireKeepsExclusion ==
  ASSUME CoreTypes, OneOperationPerToken,
         NEW p \in Tasks, NEW t \in Tokens, pc[p] = "idle",
         NEW s \in {"analyzing", "selling"}, Acquire(p, t, s)
  PROVE  OneOperationPerToken'
<1> USE TaskFacts DEF CoreTypes, OneOperationPerToken, Idle
<1>1. /\ lock[t] = None /\ token[p] = None
      /\ lock' = [lock EXCEPT ![t] = p]
      /\ in_flight' = in_flight \union {t}
      /\ pc' = [pc EXCEPT ![p] = s]
      /\ token' = [token EXCEPT ![p] = t]
  BY DEF Acquire
<1>2. \A q \in Tasks : Idle(q)' <=> token'[q] = None
  BY <1>1, NoneIsNoPosition
<1>3. \A u \in Tokens : u \in in_flight' <=> lock'[u] # None
  BY <1>1
<1>4. \A u \in Tokens, q \in Tasks : lock'[u] = q <=> token'[q] = u
  BY <1>1, NoneIsNoPosition
<1> QED
  BY <1>2, <1>3, <1>4

LEMMA ReleaseKeepsExclusion ==
  ASSUME CoreTypes, OneOperationPerToken,
         NEW p \in Tasks, ~Idle(p),
         NEW s \in {"idle", "stopped"}, Release(p, s)
  PROVE  OneOperationPerToken'
<1> USE TaskFacts DEF CoreTypes, OneOperationPerToken, Idle
<1>1. /\ token[p] \in Tokens
      /\ lock[token[p]] = p
      /\ lock' = [lock EXCEPT ![token[p]] = None]
      /\ in_flight' = in_flight \ {token[p]}
      /\ pc' = [pc EXCEPT ![p] = s]
      /\ token' = [token EXCEPT ![p] = None]
  BY DEF Release
<1>2. \A q \in Tasks : Idle(q)' <=> token'[q] = None
  BY <1>1
<1>3. \A u \in Tokens : u \in in_flight' <=> lock'[u] # None
  BY <1>1
<1>4. \A u \in Tokens, q \in Tasks : lock'[u] = q <=> token'[q] = u
  BY <1>1, NoneIsNoPosition
<1> QED
  BY <1>2, <1>3, <1>4

LEMMA OneOperationPerTokenStep ==
  ASSUME IInv, Next
  PROVE  OneOperationPerToken'
<1> USE TaskFacts DEF IInv
<1>1. ASSUME NEW t \in Tokens, BeginBuy(t)
      PROVE  OneOperationPerToken'
  BY <1>1, AcquireKeepsExclusion DEF BeginBuy
<1>2. ASSUME NEW size \in Sizes, ExecuteBuy(size)
      PROVE  OneOperationPerToken'
  BY <1>2 DEF ExecuteBuy, OneOperationPerToken, Idle, CoreTypes
<1>3. CASE BuyFills
  BY <1>3, ReleaseKeepsExclusion DEF BuyFills, Idle
<1>4. ASSUME NEW p \in Tasks, NEW t \in Tokens, BeginSell(p, t)
      PROVE  OneOperationPerToken'
  BY <1>4, AcquireKeepsExclusion DEF BeginSell
<1>5. ASSUME NEW p \in Tasks, NEW pnl \in PnLs, SellFills(p, pnl)
      PROVE  OneOperationPerToken'
  BY <1>5, ReleaseKeepsExclusion DEF SellFills, Idle
<1>6. ASSUME NEW p \in Tasks, NEW s \in {"idle", "stopped"}, LeaveToken(p, s)
      PROVE  OneOperationPerToken'
  BY <1>6, ReleaseKeepsExclusion DEF LeaveToken
<1>7. CASE EndLoop
  BY <1>7 DEF EndLoop, OneOperationPerToken, Idle, CoreTypes
<1>8. CASE UNCHANGED <<books, trading>>
  BY <1>8 DEF trading, OneOperationPerToken, Idle
<1> QED
  BY <1>1, <1>2, <1>3, <1>4, <1>5, <1>6, <1>7, <1>8, KindsOfStep

-----------------------------------------------------------------------------
(***************************************************************************)
(* Why no task can change a position that another task is selling: the     *)
(* position of a token changes only in the step of the task that holds it. *)
(***************************************************************************)
LEMMA OnlyHolderChangesPosition ==
  ASSUME IInv, Next,
         NEW q \in Tasks, token[q] \in Tokens, pc'[q] = pc[q], ~Idle(q),
         token'[q] = token[q]
  PROVE  positions'[token[q]] = positions[token[q]]
<1> USE TaskFacts DEF IInv, CoreTypes
<1>1. CASE BuyFills
  <2>1. q # Loop
    BY <1>1 DEF BuyFills, Release, Idle
  <2>2. token[Loop] # token[q]
    BY <1>1, <2>1 DEF OneOperationPerToken
  <2> QED
    BY <1>1, <2>2 DEF BuyFills
<1>2. ASSUME NEW p \in Tasks, NEW pnl \in PnLs, SellFills(p, pnl)
      PROVE  positions'[token[q]] = positions[token[q]]
  <2>1. q # p
    BY <1>2 DEF SellFills, Release, Idle
  <2>2. token[p] # token[q]
    BY <2>1 DEF OneOperationPerToken
  <2> QED
    BY <1>2, <2>2 DEF SellFills
<1> QED
  BY <1>1, <1>2, KindsOfStep
  DEF BeginBuy, ExecuteBuy, BeginSell, LeaveToken, EndLoop, books

LEMMA ReadPositionIsCurrentStep ==
  ASSUME IInv, Next
  PROVE  ReadPositionIsCurrent'
<1> USE TaskFacts DEF IInv, CoreTypes
<1> SUFFICES ASSUME NEW q \in Tasks, pc'[q] = "selling"
             PROVE  pos'[q] # None /\ positions'[token'[q]] = pos'[q]
  BY DEF ReadPositionIsCurrent
<1>1. CASE pc[q] = "selling" /\ token'[q] = token[q] /\ pos'[q] = pos[q]
  <2>1. token[q] \in Tokens
    BY <1>1, SoldPositionTyped
  <2>2. positions'[token[q]] = positions[token[q]]
    BY <1>1, <2>1, OnlyHolderChangesPosition DEF Idle
  <2> QED
    BY <1>1, <2>2 DEF ReadPositionIsCurrent
<1>2. CASE \E t \in Tokens : BeginSell(q, t)
  BY <1>2 DEF BeginSell, Acquire, books
<1>3. CASE /\ ~(pc[q] = "selling" /\ token'[q] = token[q] /\ pos'[q] = pos[q])
           /\ ~\E t \in Tokens : BeginSell(q, t)
  <2>1. ASSUME NEW t \in Tokens, BeginBuy(t)
        PROVE  FALSE
    BY <1>3, <2>1 DEF BeginBuy, Acquire
  <2>2. ASSUME NEW size \in Sizes, ExecuteBuy(size)
        PROVE  FALSE
    BY <1>3, <2>2 DEF ExecuteBuy
  <2>3. CASE BuyFills
    BY <1>3, <2>3 DEF BuyFills, Release
  <2>4. ASSUME NEW p \in Tasks, NEW t \in Tokens, BeginSell(p, t)
        PROVE  FALSE
    BY <1>3, <2>4 DEF BeginSell, Acquire
  <2>5. ASSUME NEW p \in Tasks, NEW pnl \in PnLs, SellFills(p, pnl)
        PROVE  FALSE
    BY <1>3, <2>5 DEF SellFills, Release
  <2>6. ASSUME NEW p \in Tasks, NEW s \in {"idle", "stopped"}, LeaveToken(p, s)
        PROVE  FALSE
    BY <1>3, <2>6 DEF LeaveToken, Release
  <2>7. CASE EndLoop
    BY <1>3, <2>7 DEF EndLoop
  <2>8. CASE UNCHANGED <<books, trading>>
    BY <1>3, <2>8 DEF trading
  <2> QED
    BY <2>1, <2>2, <2>3, <2>4, <2>5, <2>6, <2>7, <2>8, KindsOfStep
<1> QED
  BY <1>1, <1>2, <1>3

-----------------------------------------------------------------------------
(***************************************************************************)
(* The number of open positions.                                           *)
(***************************************************************************)
LEMMA OpenFinite == IsFiniteSet(Open) /\ Cardinality(Open) \in Nat
<1>1. Open \subseteq Tokens
  BY DEF Open
<1> QED
  BY <1>1, OrchestratorAssumption, FS_Subset, FS_CardinalityType

\* A fill adds one position.
LEMMA OpenAfterBuy ==
  ASSUME IInv, BuyFills
  PROVE  /\ Open' = Open \union {token[Loop]}
         /\ Cardinality(Open') = Cardinality(Open) + 1
<1>1. /\ token[Loop] \in Tokens
      /\ positions[token[Loop]] = None
      /\ NewPosition # None
  BY NewPositionTyped, TaskFacts
  DEF BuyFills, IInv, CoreTypes, OneOperationPerToken, BuyHasRoom, Idle
<1>2. Open' = Open \union {token[Loop]} /\ token[Loop] \notin Open
  BY <1>1 DEF BuyFills, NewPosition, Open, IInv, CoreTypes
<1> QED
  BY <1>2, OpenFinite, FS_AddElement

\* A sale removes one.
LEMMA OpenAfterSale ==
  ASSUME IInv, NEW p \in Tasks, NEW pnl \in PnLs, SellFills(p, pnl)
  PROVE  /\ Open' = Open \ {token[p]}
         /\ Cardinality(Open') \in Nat
         /\ Cardinality(Open') <= Cardinality(Open)
<1>1. token[p] \in Open /\ token[p] \in Tokens
  BY SoldPositionTyped DEF SellFills
<1>2. positions' = [positions EXCEPT ![token[p]] = None]
  BY DEF SellFills
<1>3. Open' = Open \ {token[p]}
  BY <1>1, <1>2 DEF Open, IInv, CoreTypes
<1>4. Open' \in SUBSET Open
  BY <1>3
<1> QED
  BY <1>3, <1>4, OpenFinite, FS_Subset, FS_CardinalityType

LEMMA BuyHasRoomStep ==
  ASSUME IInv, Next
  PROVE  BuyHasRoom'
<1> USE TaskFacts DEF IInv, CoreTypes
<1> SUFFICES ASSUME pc'[Loop] \in {"analyzing", "buying"}
             PROVE  /\ positions'[token'[Loop]] = None
                    /\ next_id' <= MaxPositionIds
                    /\ Cardinality(Open') < MaxOpenPositions
                    /\ pc'[Loop] = "buying" => order' \in Sizes
  BY DEF BuyHasRoom
<1>1. ASSUME NEW t \in Tokens, BeginBuy(t)
      PROVE  BuyHasRoom'
  <2>1. Open' = Open
    BY <1>1 DEF BeginBuy, books, Open
  <2> QED
    BY <1>1, <2>1 DEF BeginBuy, Acquire, PortfolioAllowsBuy, books, BuyHasRoom
<1>2. ASSUME NEW size \in Sizes, ExecuteBuy(size)
      PROVE  BuyHasRoom'
  <2>1. Open' = Open
    BY <1>2 DEF ExecuteBuy, books, Open
  <2> QED
    BY <1>2, <2>1 DEF ExecuteBuy, books, BuyHasRoom
<1>3. CASE BuyFills
  BY <1>3 DEF BuyFills, Release
<1>4. ASSUME NEW p \in Tasks, NEW t \in Tokens, BeginSell(p, t)
      PROVE  BuyHasRoom'
  <2>1. Open' = Open
    BY <1>4 DEF BeginSell, books, Open
  <2>2. p # Loop
    BY <1>4 DEF BeginSell, Acquire
  <2> QED
    BY <1>4, <2>1, <2>2 DEF BeginSell, Acquire, books, BuyHasRoom
<1>5. ASSUME NEW p \in Tasks, NEW pnl \in PnLs, SellFills(p, pnl)
      PROVE  BuyHasRoom'
  <2>1. p # Loop
    BY <1>5 DEF SellFills, Release
  <2>2. /\ pc'[Loop] = pc[Loop] /\ token'[Loop] = token[Loop]
        /\ order' = order /\ next_id' = next_id
    BY <1>5, <2>1 DEF SellFills, Release
  <2>3. positions'[token[Loop]] = None
    BY <1>5, <2>2 DEF SellFills, BuyHasRoom, OneOperationPerToken, Idle
  <2>4. Cardinality(Open') < MaxOpenPositions
    <3>1. Cardinality(Open) < MaxOpenPositions
      BY <2>2 DEF BuyHasRoom
    <3>2. /\ Cardinality(Open') <= Cardinality(Open)
          /\ Cardinality(Open') \in Nat
      BY <1>5, OpenAfterSale
    <3> QED
      BY <3>1, <3>2, OpenFinite, OrchestratorAssumption
  <2> QED
    BY <2>2, <2>3, <2>4 DEF BuyHasRoom
<1>6. ASSUME NEW p \in Tasks, NEW s \in {"idle", "stopped"}, LeaveToken(p, s)
      PROVE  BuyHasRoom'
  <2>1. Open' = Open
    BY <1>6 DEF LeaveToken, books, Open
  <2>2. p # Loop
    BY <1>6 DEF LeaveToken, Release
  <2> QED
    BY <1>6, <2>1, <2>2 DEF LeaveToken, Release, books, BuyHasRoom
<1>7. CASE EndLoop
  BY <1>7 DEF EndLoop
<1>8. CASE UNCHANGED <<books, trading>>
  BY <1>8 DEF books, trading, BuyHasRoom, Open
<1> QED
  BY <1>1, <1>2, <1>3, <1>4, <1>5, <1>6, <1>7, <1>8, KindsOfStep DEF BuyHasRoom

LEMMA OpenPositionsLimitedStep ==
  ASSUME IInv, Next
  PROVE  OpenPositionsLimited'
<1> USE OpenFinite, OrchestratorAssumption DEF IInv, OpenPositionsLimited
<1>1. CASE BuyFills
  BY <1>1, OpenAfterBuy DEF BuyFills, BuyHasRoom
<1>2. ASSUME NEW p \in Tasks, NEW pnl \in PnLs, SellFills(p, pnl)
      PROVE  OpenPositionsLimited'
  BY <1>2, OpenAfterSale
<1>3. CASE UNCHANGED books
  BY <1>3 DEF books, Open
<1> QED
  BY <1>1, <1>2, <1>3, KindsOfStep
  DEF BeginBuy, ExecuteBuy, BeginSell, LeaveToken, EndLoop

-----------------------------------------------------------------------------
(***************************************************************************)
(* Ids.  What a fill and a sale do to the ids of the open positions and of *)
(* the closed trades.                                                      *)
(***************************************************************************)
LEMMA IdsAfterBuy ==
  ASSUME IInv, BuyFills
  PROVE  /\ token[Loop] \in Tokens /\ token[Loop] \notin Open
         /\ next_id \in Ids /\ order \in Sizes
         /\ positions' = [positions EXCEPT ![token[Loop]] = NewPosition]
         /\ Open' = Open \union {token[Loop]}
         /\ OpenIds' = OpenIds \union {next_id}
         /\ TradeIds' = TradeIds
<1>1. /\ token[Loop] \in Tokens /\ token[Loop] \notin Open
      /\ next_id \in Ids /\ order \in Sizes
  BY NewPositionTyped, TaskFacts
  DEF BuyFills, IInv, CoreTypes, OneOperationPerToken, BuyHasRoom, Idle, Open
<1>2. positions' = [positions EXCEPT ![token[Loop]] = NewPosition]
  BY DEF BuyFills, NewPosition
<1>3. Open' = Open \union {token[Loop]}
  BY OpenAfterBuy
<1>4. OpenIds' = OpenIds \union {next_id}
  <2>1. \A t \in Open : positions'[t].id = positions[t].id
    BY <1>1, <1>2 DEF Open, IInv, CoreTypes
  <2>2. positions'[token[Loop]].id = next_id
    BY <1>1, <1>2 DEF NewPosition, IInv, CoreTypes
  <2> QED
    BY <1>3, <2>1, <2>2 DEF OpenIds
<1>5. TradeIds' = TradeIds
  BY DEF BuyFills, TradeIds
<1> QED
  BY <1>1, <1>2, <1>3, <1>4, <1>5

LEMMA IdsAfterSale ==
  ASSUME IInv, NEW p \in Tasks, NEW pnl \in PnLs, SellFills(p, pnl)
  PROVE  LET t  == token[p]
             id == positions[t].id
         IN  /\ t \in Tokens /\ t \in Open
             /\ id \in Ids
             /\ positions' = [positions EXCEPT ![t] = None]
             /\ Open' = Open \ {t}
             /\ OpenIds' = OpenIds \ {id}
             /\ closed_trades' = Append(closed_trades, [id |-> id, pnl |-> pnl])
             /\ closed_trades \in Seq(Trade)
             /\ TradeIds' = TradeIds \union {id}
             /\ exposure' = [exposure EXCEPT ![id] = 0]
<1> DEFINE t  == token[p]
           id == positions[t].id
<1>1. /\ t \in Tokens /\ t \in Open
      /\ positions[t] = pos[p]
      /\ id \in Ids
  BY SoldPositionTyped DEF SellFills, Position
<1>2. /\ positions' = [positions EXCEPT ![t] = None]
      /\ closed_trades' = Append(closed_trades, [id |-> id, pnl |-> pnl])
  BY <1>1 DEF SellFills
<1>3. Open' = Open \ {t}
  BY OpenAfterSale
<1>4. OpenIds' = OpenIds \ {id}
  <2>1. \A u \in Open \ {t} :
          positions'[u] = positions[u] /\ positions[u].id # id
    BY <1>1, <1>2 DEF Open, IInv, CoreTypes, EveryPositionAccountedOnce
  <2> QED
    BY <1>1, <1>3, <2>1 DEF OpenIds
<1>5. TradeIds' = TradeIds \union {id}
  <2>1. closed_trades \in Seq(Trade)
    BY DEF IInv, CoreTypes
  <2>2. /\ DOMAIN closed_trades' = DOMAIN closed_trades \union {Len(closed_trades) + 1}
        /\ \A i \in DOMAIN closed_trades : closed_trades'[i] = closed_trades[i]
        /\ closed_trades'[Len(closed_trades) + 1].id = id
    BY <1>2, <2>1
  <2> QED
    BY <2>2 DEF TradeIds
<1>6. exposure' = [exposure EXCEPT ![id] = 0]
  BY <1>1 DEF SellFills, RemoveExposure, Open
<1> QED
  BY <1>1, <1>2, <1>3, <1>4, <1>5, <1>6 DEF IInv, CoreTypes

LEMMA EveryPositionAccountedOnceStep ==
  ASSUME IInv, Next
  PROVE  EveryPositionAccountedOnce'
<1>1. CASE BuyFills
  <2> DEFINE t == token[Loop]
  <2>1. next_id' = next_id + 1 /\ closed_trades' = closed_trades
    BY <1>1 DEF BuyFills
  <2>2. next_id \notin OpenIds /\ next_id \notin TradeIds
    BY <1>1, IdsAfterBuy DEF IInv, EveryPositionAccountedOnce, Ids
  <2>3. OpenIds' \union TradeIds' = 1 .. next_id' - 1
    BY <1>1, <2>1, IdsAfterBuy DEF IInv, EveryPositionAccountedOnce, Ids
  <2>4. OpenIds' \intersect TradeIds' = {}
    BY <1>1, <2>2, IdsAfterBuy DEF IInv, EveryPositionAccountedOnce
  <2>5. \A u, v \in Open' : positions'[u].id = positions'[v].id => u = v
    <3>1. \A u \in Open : positions'[u] = positions[u] /\ positions[u].id \in OpenIds
      BY <1>1, IdsAfterBuy DEF Open, OpenIds, IInv, CoreTypes
    <3>2. positions'[t].id = next_id
      BY <1>1, IdsAfterBuy DEF NewPosition, IInv, CoreTypes
    <3> QED
      BY <1>1, <2>2, <3>1, <3>2, IdsAfterBuy
      DEF IInv, EveryPositionAccountedOnce
  <2> QED
    BY <2>1, <2>3, <2>4, <2>5 DEF IInv, EveryPositionAccountedOnce
<1>2. ASSUME NEW p \in Tasks, NEW pnl \in PnLs, SellFills(p, pnl)
      PROVE  EveryPositionAccountedOnce'
  <2> DEFINE t  == token[p]
             id == positions[t].id
  <2>0. /\ t \in Tokens /\ t \in Open /\ id \in Ids
        /\ positions' = [positions EXCEPT ![t] = None]
        /\ Open' = Open \ {t}
        /\ OpenIds' = OpenIds \ {id}
        /\ closed_trades' = Append(closed_trades, [id |-> id, pnl |-> pnl])
        /\ closed_trades \in Seq(Trade)
        /\ TradeIds' = TradeIds \union {id}
        /\ exposure' = [exposure EXCEPT ![id] = 0]
    BY <1>2, IdsAfterSale
  <2>1. id \in OpenIds /\ id \notin TradeIds
    BY <2>0 DEF OpenIds, IInv, EveryPositionAccountedOnce
  <2>2. OpenIds' \union TradeIds' = 1 .. next_id' - 1
    BY <1>2, <2>0, <2>1
    DEF SellFills, IInv, EveryPositionAccountedOnce
  <2>3. OpenIds' \intersect TradeIds' = {}
    BY <2>0 DEF IInv, EveryPositionAccountedOnce
  <2>4. \A u, v \in Open' : positions'[u].id = positions'[v].id => u = v
    <3>1. \A u \in Open' : u \in Open /\ positions'[u] = positions[u]
      BY <2>0 DEF Open, IInv, CoreTypes
    <3> QED
      BY <3>1 DEF IInv, EveryPositionAccountedOnce
  <2>5. \A i, j \in DOMAIN closed_trades' :
          closed_trades'[i].id = closed_trades'[j].id => i = j
    <3>1. /\ DOMAIN closed_trades' = DOMAIN closed_trades \union {Len(closed_trades) + 1}
          /\ \A i \in DOMAIN closed_trades :
               /\ closed_trades'[i] = closed_trades[i]
               /\ closed_trades[i].id \in TradeIds
          /\ closed_trades'[Len(closed_trades) + 1].id = id
      BY <2>0 DEF TradeIds
    <3> QED
      BY <2>1, <3>1 DEF IInv, EveryPositionAccountedOnce
  <2> QED
    BY <2>2, <2>3, <2>4, <2>5 DEF EveryPositionAccountedOnce
<1>3. CASE UNCHANGED books
  BY <1>3 DEF books, EveryPositionAccountedOnce, OpenIds, TradeIds, Open, IInv
<1> QED
  BY <1>1, <1>2, <1>3, KindsOfStep
  DEF BeginBuy, ExecuteBuy, BeginSell, LeaveToken, EndLoop

LEMMA BooksAgreeStep ==
  ASSUME IInv, Next
  PROVE  BooksAgree'
<1> USE DEF IInv, CoreTypes, BooksAgree
<1>1. CASE BuyFills
  <2> DEFINE t == token[Loop]
  <2>1. /\ held' = held \union {t}
        /\ exposure' = [exposure EXCEPT ![next_id] = order]
    BY <1>1 DEF BuyFills, AddExposure
  <2>2. \A u \in Open : /\ positions'[u] = positions[u]
                        /\ positions[u].id \in Ids
                        /\ positions[u].id # next_id
    <3>1. next_id \notin OpenIds
      BY <1>1, IdsAfterBuy DEF EveryPositionAccountedOnce, Ids
    <3> QED
      BY <1>1, <3>1, IdsAfterBuy DEF OpenIds, Open, Position
  <2>3. positions'[t] = NewPosition
    BY <1>1, IdsAfterBuy
  <2>4. \A u \in Open' : exposure'[positions'[u].id] = positions'[u].capital
    BY <1>1, <2>1, <2>2, <2>3, IdsAfterBuy DEF NewPosition
  <2>5. \A id \in Ids : exposure'[id] # 0 => \E u \in Open' : positions'[u].id = id
    <3> SUFFICES ASSUME NEW id \in Ids, exposure'[id] # 0
                 PROVE  \E u \in Open' : positions'[u].id = id
      OBVIOUS
    <3>1. CASE id = next_id
      BY <1>1, <2>3, <3>1, IdsAfterBuy DEF NewPosition
    <3>2. CASE id # next_id
      <4>1. PICK u \in Open : positions[u].id = id
        BY <1>1, <2>1, <3>2, IdsAfterBuy
      <4> QED
        BY <1>1, <2>2, <4>1, IdsAfterBuy
    <3> QED
      BY <3>1, <3>2
  <2> QED
    BY <1>1, <2>1, <2>4, <2>5, IdsAfterBuy
<1>2. ASSUME NEW p \in Tasks, NEW pnl \in PnLs, SellFills(p, pnl)
      PROVE  BooksAgree'
  <2> DEFINE t == token[p]
             sold == positions[t].id
  <2>0. /\ t \in Tokens /\ t \in Open /\ sold \in Ids
        /\ positions' = [positions EXCEPT ![t] = None]
        /\ Open' = Open \ {t}
        /\ OpenIds' = OpenIds \ {sold}
        /\ closed_trades' = Append(closed_trades, [id |-> sold, pnl |-> pnl])
        /\ closed_trades \in Seq(Trade)
        /\ TradeIds' = TradeIds \union {sold}
        /\ exposure' = [exposure EXCEPT ![sold] = 0]
    BY <1>2, IdsAfterSale
  <2>1. held' = held \ {t}
    BY <1>2 DEF SellFills
  <2>2. \A u \in Open' : /\ u \in Open
                         /\ positions'[u] = positions[u]
                         /\ positions[u].id \in Ids
                         /\ positions[u].id # sold
    BY <2>0 DEF EveryPositionAccountedOnce, Open, Position
  <2>3. \A u \in Open' : exposure'[positions'[u].id] = positions'[u].capital
    BY <2>0, <2>2
  <2>4. \A id \in Ids : exposure'[id] # 0 => \E u \in Open' : positions'[u].id = id
    <3> SUFFICES ASSUME NEW id \in Ids, exposure'[id] # 0
                 PROVE  \E u \in Open' : positions'[u].id = id
      OBVIOUS
    <3>1. id # sold /\ exposure[id] # 0
      BY <2>0
    <3>2. PICK u \in Open : positions[u].id = id
      BY <3>1
    <3>3. u \in Open'
      BY <2>0, <3>1, <3>2
    <3> QED
      BY <2>2, <3>2, <3>3
  <2> QED
    BY <2>0, <2>1, <2>3, <2>4
<1>3. CASE UNCHANGED books
  BY <1>3 DEF books, Open
<1> QED
  BY <1>1, <1>2, <1>3, KindsOfStep
  DEF BeginBuy, ExecuteBuy, BeginSell, LeaveToken, EndLoop

-----------------------------------------------------------------------------
LEMMA InitIInv == Init => IInv
<1> SUFFICES ASSUME Init
             PROVE  IInv
  OBVIOUS
<1> USE TaskFacts, NoneIsNoPosition, OrchestratorAssumption DEF Init
<1>1. CoreTypes
  <2>1. next_id \in 1 .. MaxPositionIds + 1
    OBVIOUS
  <2>2. exposure \in [Ids -> Sizes \union {0}]
    OBVIOUS
  <2>3. closed_trades \in Seq(Trade)
    OBVIOUS
  <2> QED
    BY <2>1, <2>2, <2>3 DEF CoreTypes
<1>2. ClientsOnlySell /\ OneOperationPerToken /\ ReadPositionIsCurrent /\ BuyHasRoom
  BY DEF ClientsOnlySell, OneOperationPerToken, ReadPositionIsCurrent,
         BuyHasRoom, Idle
<1>3. Open = {} /\ OpenIds = {} /\ TradeIds = {}
  BY DEF Open, OpenIds, TradeIds
<1>4. BooksAgree
  BY <1>3 DEF BooksAgree
<1>5. EveryPositionAccountedOnce
  BY <1>3 DEF EveryPositionAccountedOnce
<1>6. OpenPositionsLimited
  BY <1>3, FS_EmptySet DEF OpenPositionsLimited
<1> QED
  BY <1>1, <1>2, <1>4, <1>5, <1>6 DEF IInv

LEMMA StepIInv == IInv /\ [Next]_vars => IInv'
<1> SUFFICES ASSUME IInv, [Next]_vars
             PROVE  IInv'
  OBVIOUS
<1>1. CASE Next
  BY <1>1, CoreTypesStep, ClientsOnlySellStep, OneOperationPerTokenStep,
     ReadPositionIsCurrentStep, BuyHasRoomStep, BooksAgreeStep,
     EveryPositionAccountedOnceStep, OpenPositionsLimitedStep DEF IInv
<1>2. CASE UNCHANGED vars
  <2>1. UNCHANGED <<books, trading>>
    BY <1>2 DEF vars, books, trading
  <2>2. UNCHANGED <<Open, OpenIds, TradeIds>>
    BY <2>1 DEF books, Open, OpenIds, TradeIds
  <2>3. CoreTypes' /\ ClientsOnlySell'
    BY <2>1 DEF books, trading, IInv, CoreTypes, ClientsOnlySell
  <2>4. OneOperationPerToken' /\ ReadPositionIsCurrent'
    BY <2>1 DEF books, trading, IInv, OneOperationPerToken,
                ReadPositionIsCurrent, Idle
  <2>5. BuyHasRoom' /\ OpenPositionsLimited'
    BY <2>1, <2>2 DEF books, trading, IInv, BuyHasRoom, OpenPositionsLimited
  <2>6. BooksAgree' /\ EveryPositionAccountedOnce'
    BY <2>1, <2>2 DEF books, IInv, BooksAgree, EveryPositionAccountedOnce
  <2> QED
    BY <2>3, <2>4, <2>5, <2>6 DEF IInv
<1> QED
  BY <1>1, <1>2

\* The inductive invariant of the trading core.
THEOREM CoreInvariant == Spec => []IInv
BY InitIInv, StepIInv, PTL DEF Spec

\* One operation per token at a time, with locks, in-flight set and tasks
\* always telling the same story: for any number of dashboard requests.
THEOREM MutualExclusion == Spec => []OneOperationPerToken
BY CoreInvariant, PTL DEF IInv

\* The position a sale read before its await is still the open position when
\* the executor answers.
THEOREM SoldPositionStillOpen == Spec => []ReadPositionIsCurrent
BY CoreInvariant, PTL DEF IInv

\* Position manager, executor and exposure tracker agree after every step.
THEOREM BooksAlwaysAgree == Spec => []BooksAgree
BY CoreInvariant, PTL DEF IInv

\* No trade is lost, recorded twice or recorded for an open position.
THEOREM AccountedOnce == Spec => []EveryPositionAccountedOnce
BY CoreInvariant, PTL DEF IInv

\* The open-position limit holds although it is checked long before the
\* position appears.
THEOREM LimitHolds == Spec => []OpenPositionsLimited
BY CoreInvariant, PTL DEF IInv

\* A position leaves the book only together with its own trade.
THEOREM TradeForEveryExit == Spec => PositionLeavesWithItsTrade
<1> DEFINE Leaves(t) ==
      (positions[t] # None /\ positions'[t] # positions[t]) =>
         /\ Len(closed_trades') = Len(closed_trades) + 1
         /\ closed_trades'[Len(closed_trades')].id = positions[t].id
<1>1. IInv /\ [Next]_vars => [\A t \in Tokens : Leaves(t)]_vars
  <2> SUFFICES ASSUME IInv, Next, NEW t \in Tokens
               PROVE  Leaves(t)
    OBVIOUS
  <2>1. CASE BuyFills
    <3>1. /\ positions' = [positions EXCEPT ![token[Loop]] = NewPosition]
          /\ positions[token[Loop]] = None
      BY <2>1, IdsAfterBuy DEF Open
    <3> QED
      BY <3>1 DEF IInv, CoreTypes
  <2>2. ASSUME NEW p \in Tasks, NEW pnl \in PnLs, SellFills(p, pnl)
        PROVE  Leaves(t)
    <3>1. CASE t = token[p]
      <4>1. /\ closed_trades \in Seq(Trade)
            /\ closed_trades' =
                 Append(closed_trades, [id |-> positions[t].id, pnl |-> pnl])
        BY <2>2, <3>1, IdsAfterSale
      <4> QED
        BY <4>1
    <3>2. CASE t # token[p]
      BY <2>2, <3>2 DEF SellFills, IInv, CoreTypes
    <3> QED
      BY <3>1, <3>2
  <2>3. CASE UNCHANGED books
    BY <2>3 DEF books
  <2> QED
    BY <2>1, <2>2, <2>3, KindsOfStep
    DEF BeginBuy, ExecuteBuy, BeginSell, LeaveToken, EndLoop
<1> QED
  BY <1>1, CoreInvariant, PTL DEF Spec, PositionLeavesWithItsTrade

-----------------------------------------------------------------------------
(***************************************************************************)
(* The exposure total.                                                     *)
(***************************************************************************)
\* What each open position cost.
Capital == [t \in Open |-> positions[t].capital]

LEMMA CapitalTyped ==
  ASSUME IInv
  PROVE  \A t \in Open : Capital[t] = positions[t].capital /\ Capital[t] \in Int
<1>1. \A t \in Open : positions[t] \in Position
  BY DEF Open, IInv, CoreTypes
<1>2. Sizes \subseteq Int
  BY OrchestratorAssumption
<1> QED
  BY <1>1, <1>2 DEF Capital, Position

\* A fill adds to the total what it adds to the book.
LEMMA TotalAfterBuy ==
  ASSUME IInv, ExposureTotalExact, BuyFills
  PROVE  ExposureTotalExact'
<1> DEFINE t == token[Loop]
<1>1. /\ t \notin Open /\ order \in Int
      /\ Open' = Open \union {t}
      /\ positions' = [positions EXCEPT ![t] = NewPosition]
      /\ t \in Tokens
  <2>1. Sizes \subseteq Int
    BY OrchestratorAssumption
  <2> QED
    BY <2>1, IdsAfterBuy
<1>2. \A u \in Open : Capital'[u] = Capital[u]
  BY <1>1 DEF Capital, Open, IInv, CoreTypes
<1>3. Capital'[t] = order
  BY <1>1 DEF Capital, NewPosition, IInv, CoreTypes
<1>4. SumOf(Capital', Open') = order + SumOf(Capital', Open)
  <2>1. \A u \in Open \union {t} : Capital'[u] \in Int
    BY <1>1, <1>2, <1>3, CapitalTyped
  <2> QED
    BY <1>1, <1>3, <2>1, OpenFinite, SumAdd
<1>5. SumOf(Capital', Open) = SumOf(Capital, Open)
  BY <1>2, OpenFinite, SumSame
<1>6. total_exposure' = total_exposure + order /\ total_exposure \in Int
  BY DEF BuyFills, AddExposure, IInv, CoreTypes
<1> HIDE DEF t
<1> QED
  BY <1>1, <1>4, <1>5, <1>6 DEF ExposureTotalExact, Capital

\* A sale takes out what the tracker had filed under the id of the position,
\* which by BooksAgree is the capital of that position.
LEMMA TotalAfterSale ==
  ASSUME IInv, ExposureTotalExact,
         NEW p \in Tasks, NEW pnl \in PnLs, SellFills(p, pnl)
  PROVE  ExposureTotalExact'
<1> DEFINE t  == token[p]
           id == positions[t].id
<1>1. /\ t \in Open /\ t \in Tokens /\ id \in Ids
      /\ positions' = [positions EXCEPT ![t] = None]
      /\ Open' = Open \ {t}
  BY IdsAfterSale
<1>2. total_exposure' = total_exposure - exposure[id]
  BY <1>1 DEF SellFills, RemoveExposure, Open
<1>3. exposure[id] = Capital[t]
  BY <1>1, CapitalTyped DEF IInv, BooksAgree
<1>4. \A u \in Open' : Capital'[u] = Capital[u]
  BY <1>1 DEF Capital, Open, IInv, CoreTypes
<1>5. SumOf(Capital, Open) = Capital[t] + SumOf(Capital, Open')
  BY <1>1, CapitalTyped, OpenFinite, SumRemove
<1>6. IsFiniteSet(Open') /\ Open' \subseteq Open
  BY <1>1, OpenFinite, FS_Subset
<1>7. SumOf(Capital', Open') = SumOf(Capital, Open')
  BY <1>4, <1>6, SumSame
<1>8. Capital[t] \in Int /\ SumOf(Capital, Open') \in Int
  BY <1>1, <1>6, CapitalTyped, SumType
<1>9. total_exposure = SumOf(Capital, Open)
  BY DEF ExposureTotalExact, Capital
<1>10. total_exposure' = SumOf(Capital', Open')
  <2> HIDE DEF t, id
  <2> QED
    BY <1>2, <1>3, <1>5, <1>7, <1>8, <1>9
<1> QED
  BY <1>10 DEF ExposureTotalExact, Capital

LEMMA ExposureTotalStep ==
  ASSUME IInv, ExposureTotalExact, [Next]_vars
  PROVE  ExposureTotalExact'
<1>1. CASE UNCHANGED books
  BY <1>1 DEF books, ExposureTotalExact, Open
<1>2. CASE Next
  BY <1>1, <1>2, TotalAfterBuy, TotalAfterSale, KindsOfStep
  DEF BeginBuy, ExecuteBuy, BeginSell, LeaveToken, EndLoop
<1> QED
  BY <1>1, <1>2 DEF vars, books

\* The running total that the risk engine reads is the capital of the open
\* positions after any sequence of fills and sales, for any number of tokens
\* and any sizes.
THEOREM ExposureTotalCorrect == Spec => []ExposureTotalExact
<1>1. Init => ExposureTotalExact
  <2> SUFFICES ASSUME Init
               PROVE  ExposureTotalExact
    OBVIOUS
  <2>1. Open = {} /\ total_exposure = 0
    BY DEF Init, Open
  <2> QED
    BY <2>1, SumEmpty DEF ExposureTotalExact
<1> QED
  BY <1>1, ExposureTotalStep, CoreInvariant, PTL DEF Spec

-----------------------------------------------------------------------------
(***************************************************************************)
(* The statistics over the closed trades.  The code recomputes both from   *)
(* the whole list at every call; this is how one trade moves them.         *)
(***************************************************************************)
\* A loss lengthens the streak by one, anything else ends it.
LEMMA StreakOfAppend ==
  ASSUME NEW trades \in Seq(Trade), NEW tr \in Trade
  PROVE  ConsecutiveLosses(Append(trades, tr)) =
           IF tr.pnl < 0 THEN ConsecutiveLosses(trades) + 1 ELSE 0
<1> DEFINE n         == Len(trades)
           more      == Append(trades, tr)
           Streak(q) == {i \in 1 .. Len(q) :
                           \A j \in i .. Len(q) : q[j].pnl < 0}
<1>1. /\ n \in Nat /\ Len(more) = n + 1
      /\ more[n + 1] = tr
      /\ \A i \in 1 .. n : more[i] = trades[i]
  OBVIOUS
<1>2. CASE tr.pnl < 0
  <2>1. Streak(more) = Streak(trades) \union {n + 1}
    <3> HIDE DEF n, more
    <3>1. ASSUME NEW i \in 1 .. n
          PROVE  (\A j \in i .. n + 1 : more[j].pnl < 0) <=>
                 (\A j \in i .. n : trades[j].pnl < 0)
      BY <1>1, <1>2
    <3>2. \A j \in n + 1 .. n + 1 : more[j].pnl < 0
      BY <1>1, <1>2
    <3> QED
      BY <1>1, <3>1, <3>2 DEF n
  <2>2. n + 1 \notin Streak(trades) /\ IsFiniteSet(Streak(trades))
    <3>1. IsFiniteSet(1 .. n)
      BY <1>1, FS_Interval
    <3> QED
      BY <1>1, <3>1, FS_Subset
  <2> HIDE DEF Streak
  <2>3. Cardinality(Streak(more)) = Cardinality(Streak(trades)) + 1
    BY <2>1, <2>2, FS_AddElement
  <2> QED
    BY <1>2, <2>3 DEF ConsecutiveLosses, Streak
<1>3. CASE ~(tr.pnl < 0)
  <2>1. Streak(more) = {}
    <3> HIDE DEF n, more
    <3>1. ASSUME NEW i \in 1 .. n + 1
          PROVE  n + 1 \in i .. n + 1
      BY <1>1
    <3> QED
      BY <1>1, <1>3, <3>1
  <2> QED
    BY <1>3, <2>1, FS_EmptySet DEF ConsecutiveLosses
<1> QED
  BY <1>2, <1>3

\* Every trade after midnight adds its own profit, once.
LEMMA NetOfAppend ==
  ASSUME NEW trades \in Seq(Trade), NEW tr \in Trade,
         NEW m \in 0 .. Len(trades)
  PROVE  DailyNet(Append(trades, tr), m) = DailyNet(trades, m) + tr.pnl
<1> DEFINE n     == Len(trades)
           more  == Append(trades, tr)
           today == m + 1 .. n
           old   == [i \in today |-> trades[i].pnl]
           new   == [i \in m + 1 .. n + 1 |-> more[i].pnl]
<1>1. /\ n \in Nat /\ m \in Nat /\ m <= n
      /\ Len(more) = n + 1 /\ more[n + 1] = tr
      /\ \A i \in 1 .. n : more[i] = trades[i]
  OBVIOUS
<1>2. /\ m + 1 .. n + 1 = today \union {n + 1}
      /\ n + 1 \notin today
  BY <1>1
<1>3. IsFiniteSet(today)
  BY <1>1, FS_Interval
<1>4. /\ \A i \in today : old[i] = new[i] /\ old[i] \in Int
      /\ new[n + 1] = tr.pnl /\ tr.pnl \in Int
  <2>1. PnLs \subseteq Int
    BY OrchestratorAssumption
  <2>2. \A i \in today : i \in 1 .. n /\ i \in m + 1 .. n + 1
    BY <1>1
  <2>3. \A i \in 1 .. n : trades[i] \in Trade
    OBVIOUS
  <2>4. n + 1 \in m + 1 .. n + 1
    BY <1>1
  <2> QED
    BY <1>1, <2>1, <2>2, <2>3, <2>4 DEF Trade
<1> HIDE DEF n, more, today, old, new
<1>5. SumOf(old, today) = SumOf(new, today) /\ SumOf(old, today) \in Int
  BY <1>3, <1>4, SumSame, SumType
<1>6. SumOf(new, today \union {n + 1}) = tr.pnl + SumOf(new, today)
  BY <1>2, <1>3, <1>4, SumAdd
<1>7. DailyNet(trades, m) = SumOf(old, today)
  BY DEF DailyNet, n, today, old
<1>8. DailyNet(more, m) = SumOf(new, today \union {n + 1})
  BY <1>1, <1>2 DEF DailyNet, new
<1> QED
  BY <1>4, <1>5, <1>6, <1>7, <1>8 DEF more

\* Midnight never lies in the future of the list.
MidnightPassed == day_start \in 0 .. Len(closed_trades)

\* How a step moves the statistics the risk engine and the breaker read: a
\* sale by its own profit, midnight to zero, anything else not at all.
StatisticsMove ==
  \/ UNCHANGED <<closed_trades, day_start>>
  \/ /\ closed_trades' = closed_trades
     /\ DailyNet(closed_trades', day_start') = 0
  \/ \E tr \in Trade :
       /\ closed_trades' = Append(closed_trades, tr)
       /\ day_start' = day_start
       /\ DailyNet(closed_trades', day_start') =
            DailyNet(closed_trades, day_start) + tr.pnl
       /\ ConsecutiveLosses(closed_trades') =
            IF tr.pnl < 0 THEN ConsecutiveLosses(closed_trades) + 1 ELSE 0

StatisticsFollowTrades == [][StatisticsMove]_vars

\* Only midnight moves the day.
LEMMA DayOfStep ==
  ASSUME Next
  PROVE  day_start' = day_start \/ Midnight
<1>1. CASE BuyStep
  BY <1>1 DEF BuyStep, BeginBuy, DeclineBuy, BlockBuy, ExecuteBuy, BuyFails, BuyFills
<1>2. CASE SellStep
  BY <1>2 DEF SellStep, PriceUpdateExit, CloseRequest, BeginSell, SellFails, SellFills
<1>3. CASE OperatorStep
  BY <1>3
  DEF OperatorStep, EmergencyRequest, EmergencyClose, EmergencySkip, BeginSell,
      PauseRequest, ResumeRequest
<1>4. CASE EnvironmentStep
  BY <1>4 DEF EnvironmentStep, WalletLow, StopLoop, WindowExpires
<1> QED
  BY <1>1, <1>2, <1>3, <1>4 DEF Next

\* Trades are added by sales only.
LEMMA TradesOfStep ==
  ASSUME IInv, Next, closed_trades' # closed_trades
  PROVE  \E p \in Tasks, pnl \in PnLs :
           /\ SellFills(p, pnl)
           /\ [id |-> pos[p].id, pnl |-> pnl] \in Trade
<1>1. PICK p \in Tasks, pnl \in PnLs : SellFills(p, pnl)
  <2>1. BuyFills => closed_trades' = closed_trades
    BY IdsAfterBuy DEF BuyFills
  <2> QED
    BY <2>1, KindsOfStep
    DEF books, BeginBuy, ExecuteBuy, BeginSell, LeaveToken, EndLoop
<1>2. pos[p].id \in Ids
  BY <1>1 DEF SellFills, IInv, CoreTypes, ReadPositionIsCurrent, Position, Open
<1> QED
  BY <1>1, <1>2 DEF Trade

\* PnLCalculator's figures after any sequence of trades and days: each trade
\* counts once, on its own day, and a break-even trade ends a streak of losses.
THEOREM StatisticsExact == Spec => StatisticsFollowTrades
<1> DEFINE n == Len(closed_trades)
<1>1. Init => MidnightPassed
  BY DEF Init, MidnightPassed
<1>2. IInv /\ MidnightPassed /\ [Next]_vars => MidnightPassed'
  <2> SUFFICES ASSUME IInv, MidnightPassed, [Next]_vars
               PROVE  MidnightPassed'
    OBVIOUS
  <2>1. CASE UNCHANGED vars
    BY <2>1 DEF vars, MidnightPassed
  <2>2. CASE Next
    <3>1. n \in Nat /\ closed_trades \in Seq(Trade)
      BY DEF IInv, CoreTypes
    <3>2. Len(closed_trades') \in Nat /\ Len(closed_trades') >= n
      <4>1. CASE closed_trades' = closed_trades
        BY <3>1, <4>1
      <4>2. CASE closed_trades' # closed_trades
        <5>1. PICK tr \in Trade : closed_trades' = Append(closed_trades, tr)
          BY <2>2, <4>2, TradesOfStep DEF SellFills
        <5> QED
          BY <3>1, <5>1
      <4> QED
        BY <4>1, <4>2
    <3> QED
      BY <2>2, <3>1, <3>2, DayOfStep DEF MidnightPassed, Midnight
  <2> QED
    BY <2>1, <2>2
<1>3. IInv /\ MidnightPassed /\ [Next]_vars => [StatisticsMove]_vars
  <2> SUFFICES ASSUME IInv, MidnightPassed, Next,
                      ~UNCHANGED <<closed_trades, day_start>>
               PROVE  StatisticsMove
    BY DEF StatisticsMove
  <2>1. closed_trades \in Seq(Trade) /\ n \in Nat
    BY DEF IInv, CoreTypes
  <2>2. CASE Midnight
    <3>1. closed_trades' = closed_trades /\ day_start' = n
      BY <2>2 DEF Midnight, books
    <3>2. n + 1 .. n = {}
      BY <2>1
    <3>3. DailyNet(closed_trades, n) = 0
      BY <3>2, SumEmpty DEF DailyNet
    <3> QED
      BY <3>1, <3>3 DEF StatisticsMove
  <2>3. CASE day_start' = day_start
    <3>1. PICK tr \in Trade : closed_trades' = Append(closed_trades, tr)
      BY <2>3, TradesOfStep DEF SellFills
    <3> QED
      BY <2>1, <2>3, <3>1, StreakOfAppend, NetOfAppend
      DEF MidnightPassed, StatisticsMove
  <2> QED
    BY <2>2, <2>3, DayOfStep
<1> QED
  BY <1>1, <1>2, <1>3, CoreInvariant, PTL DEF Spec, StatisticsFollowTrades

-----------------------------------------------------------------------------
(***************************************************************************)
(* The breaker inside the core.  Of its methods the core calls only        *)
(* record_execution_failure, record_success, the pausing ones, emergency   *)
(* and resume, so WARNING is never reached and nothing but resume leads    *)
(* back to NORMAL.                                                         *)
(***************************************************************************)
Buying == pc[Loop] \in {"analyzing", "buying"}

BreakerInv ==
  /\ breaker \in Breaker
  /\ breaker.state # "WARNING"
  /\ late_opens \in {0, 1}
  /\ late_opens = 1 => ~CanTrade(breaker) /\ ~Buying

\* What a step other than a resume may do to the breaker.
Lowered(b) ==
  {b, ExecutionFailure(b), Pause(b), Emergency(b), Success(b), Pause(Success(b))}

LEMMA LoweredBreaker ==
  ASSUME NEW b \in Breaker, b.state # "WARNING", NEW c \in Lowered(b)
  PROVE  /\ c \in Breaker
         /\ c.state # "WARNING"
         /\ CanTrade(c) => CanTrade(b)
<1>1. Success(b) = b
  BY DEF Success
<1>2. c \in {b, ExecutionFailure(b), Pause(b), Emergency(b)}
  BY <1>1 DEF Lowered
<1>3. c \in Breaker
  BY <1>2, MethodsKeepBreaker
<1>4. c.state \in {b.state, "PAUSED", "EMERGENCY"}
  BY <1>2 DEF Breaker, ExecutionFailure, Pause, Emergency, Transition
<1> QED
  BY <1>3, <1>4 DEF CanTrade

LEMMA LossChecksOnlyPause ==
  ASSUME NEW p, NEW trades, NEW b \in Breaker
  PROVE  LossChecks(p, trades, b) \in {b, Pause(b)}
<1>1. Pause(Pause(b)) = Pause(b)
  BY DEF Pause, Transition, Breaker
<1> QED
  BY <1>1 DEF LossChecks

LEMMA BreakerKinds ==
  ASSUME Next, CoreTypes, breaker \in Breaker
  PROVE  \/ breaker' = breaker /\ late_opens' = late_opens /\ (Buying' => Buying)
         \/ \E t \in Tokens : BeginBuy(t)
         \/ BuyFills
         \/ \E b \in Lowered(breaker) : SetBreaker(b) /\ (Buying' => Buying)
         \/ ResumeRequest /\ (Buying' => Buying)
<1> USE TaskFacts DEF Buying, CoreTypes
<1>1. CASE BuyStep
  <2>1. CASE DeclineBuy
    BY <1>1, <2>1 DEF DeclineBuy
  <2>2. CASE BlockBuy \/ BuyFails
    BY <2>2 DEF BlockBuy, BuyFails, Lowered
  <2>3. ASSUME NEW size \in Sizes, ExecuteBuy(size)
        PROVE  breaker' = breaker /\ late_opens' = late_opens /\ (Buying' => Buying)
    BY <2>3 DEF ExecuteBuy
  <2> QED
    BY <1>1, <2>1, <2>2, <2>3 DEF BuyStep
<1>2. ASSUME NEW p \in Tasks, NEW t \in Tokens, BeginSell(p, t)
      PROVE  breaker' = breaker /\ late_opens' = late_opens /\ (Buying' => Buying)
  BY <1>2 DEF BeginSell, Acquire
<1>3. CASE SellStep
  <2>1. ASSUME NEW p \in Tasks, SellFails(p)
        PROVE  SetBreaker(ExecutionFailure(breaker)) /\ (Buying' => Buying)
    BY <2>1 DEF SellFails, Release
  <2>2. ASSUME NEW p \in Tasks, NEW pnl \in PnLs, SellFills(p, pnl)
        PROVE  \E b \in Lowered(breaker) : SetBreaker(b) /\ (Buying' => Buying)
    <3>1. PICK trades : SetBreaker(LossChecks(p, trades, Success(breaker)))
      BY <2>2 DEF SellFills
    <3>2. LossChecks(p, trades, Success(breaker))
            \in {Success(breaker), Pause(Success(breaker))}
      BY MethodsKeepBreaker, LossChecksOnlyPause
    <3>3. Buying' => Buying
      BY <2>2 DEF SellFills, Release
    <3> QED
      BY <3>1, <3>2, <3>3 DEF Lowered
  <2> QED
    BY <1>2, <1>3, <2>1, <2>2 DEF SellStep, PriceUpdateExit, CloseRequest, Lowered
<1>4. CASE OperatorStep
  BY <1>2, <1>4
  DEF OperatorStep, EmergencyRequest, EmergencyClose, EmergencySkip,
      PauseRequest, ResumeRequest, trading, Lowered
<1>5. CASE EnvironmentStep
  <2>1. CASE StopLoop
    BY <2>1 DEF StopLoop, Release
  <2>2. CASE WalletLow
    BY <2>2 DEF WalletLow, trading, Lowered
  <2> QED
    BY <1>5, <2>1, <2>2 DEF EnvironmentStep, WindowExpires, Midnight, trading
<1> QED
  BY <1>1, <1>3, <1>4, <1>5 DEF Next

LEMMA BreakerStep ==
  ASSUME IInv, BreakerInv, Next
  PROVE  BreakerInv'
<1> USE DEF BreakerInv
<1>1. CASE breaker' = breaker /\ late_opens' = late_opens /\ (Buying' => Buying)
  BY <1>1
<1>2. ASSUME NEW t \in Tokens, BeginBuy(t)
      PROVE  BreakerInv'
  BY <1>2 DEF BeginBuy
<1>3. CASE BuyFills
  <2>1. breaker' = breaker /\ Buying /\ ~Buying'
    BY <1>3, TaskFacts DEF BuyFills, Buying, Release, IInv, CoreTypes
  <2>2. late_opens = 0
    BY <2>1
  <2> QED
    BY <1>3, <2>1, <2>2 DEF BuyFills, CanTrade
<1>4. ASSUME NEW b \in Lowered(breaker), SetBreaker(b), Buying' => Buying
      PROVE  BreakerInv'
  BY <1>4, LoweredBreaker DEF SetBreaker, CanTrade
<1>5. CASE ResumeRequest
  <2>1. Resume(breaker) \in Breaker /\ Resume(breaker).state = "NORMAL"
    BY MethodsKeepBreaker
    DEF Resume, ClearCounts, Transition, Breaker
  <2> QED
    BY <1>5, <2>1 DEF ResumeRequest, SetBreaker
<1> QED
  BY <1>1, <1>2, <1>3, <1>4, <1>5, BreakerKinds DEF IInv

\* The breaker is well formed, never in WARNING, and at most one position is
\* opened after it tripped.
THEOREM BreakerInvariant == Spec => []BreakerInv
<1>1. Init => BreakerInv
  BY NewBreakerInBreaker, TaskFacts
  DEF Init, BreakerInv, NewBreaker, Buying
<1>2. IInv /\ BreakerInv /\ [Next]_vars => BreakerInv'
  <2> SUFFICES ASSUME IInv, BreakerInv, [Next]_vars
               PROVE  BreakerInv'
    OBVIOUS
  <2>1. CASE UNCHANGED vars
    BY <2>1 DEF vars, BreakerInv, Buying
  <2> QED
    BY <2>1, BreakerStep
<1> QED
  BY <1>1, <1>2, CoreInvariant, PTL DEF Spec

\* A tripped breaker lets at most the one buy already inside the executor
\* open a position.
THEOREM LateOpensBounded == Spec => []OneLateOpenAtMost
<1>1. BreakerInv => OneLateOpenAtMost
  BY DEF BreakerInv, OneLateOpenAtMost
<1> QED
  BY <1>1, BreakerInvariant, PTL

\* Nothing but the operator's resume takes the breaker back to NORMAL.
THEOREM TradingEnabledByResume == Spec => OnlyResumeEnablesTrading
<1>1. IInv /\ BreakerInv /\ [Next]_vars
        => [(~CanTrade(breaker) /\ CanTrade(breaker')) => ResumeRequest]_vars
  <2> SUFFICES ASSUME IInv, BreakerInv, Next, ~CanTrade(breaker), CanTrade(breaker')
               PROVE  ResumeRequest
    OBVIOUS
  <2>1. ASSUME NEW b \in Lowered(breaker), SetBreaker(b)
        PROVE  FALSE
    BY <2>1, LoweredBreaker DEF SetBreaker, BreakerInv
  <2> QED
    BY <2>1, BreakerKinds DEF BreakerInv, IInv, BeginBuy, BuyFills
<1> QED
  BY <1>1, CoreInvariant, BreakerInvariant, PTL DEF Spec, OnlyResumeEnablesTrading

\* What LossLimitTripsBreaker asks of every sale, for those that run the
\* checks: the loop's, when it was given portfolio_risk.  That the property
\* fails is due to the argument the loop leaves out and to the dashboard's
\* sales, not to the checks.
LossesTrip ==
  (/\ PortfolioRiskPassed
   /\ \E pnl \in PnLs : SellFills(Loop, pnl)
   /\ \/ ConsecutiveLosses(closed_trades') >= MaxConsecutiveLosses
      \/ DailyLossReached(closed_trades', day_start))
    => ~CanTrade(breaker')

LossLimitsTripWhenPassed == [][LossesTrip]_vars

\* The checks see the sale that is being recorded, and neither they nor the
\* success recorded just before can leave the breaker open.
THEOREM LossChecksTrip == Spec => LossLimitsTripWhenPassed
<1>1. BreakerInv /\ [Next]_vars => [LossesTrip]_vars
  <2> SUFFICES ASSUME BreakerInv, NEW pnl \in PnLs,
                      PortfolioRiskPassed, SellFills(Loop, pnl),
                      \/ ConsecutiveLosses(closed_trades') >= MaxConsecutiveLosses
                      \/ DailyLossReached(closed_trades', day_start)
               PROVE  ~CanTrade(breaker')
    BY DEF LossesTrip
  <2>1. breaker' = LossChecks(Loop, closed_trades', Success(breaker))
    BY DEF SellFills, SetBreaker
  <2>2. Success(breaker) = breaker /\ breaker \in Breaker
    BY DEF Success, BreakerInv
  <2>3. LossChecks(Loop, closed_trades', breaker) = Pause(breaker)
    <3>1. Pause(Pause(breaker)) = Pause(breaker)
      BY <2>2 DEF Pause, Transition, Breaker
    <3> QED
      BY <3>1 DEF LossChecks
  <2> QED
    BY <2>1, <2>2, <2>3 DEF CanTrade, Pause, Transition, Breaker
<1> QED
  BY <1>1, BreakerInvariant, PTL DEF Spec, LossLimitsTripWhenPassed

-----------------------------------------------------------------------------
\* The variables of the clock, the duplicate window and the emergency stop.
RestTypes ==
  /\ day_start \in Nat
  /\ recent \subseteq Tokens
  /\ todo \in [Clients -> SUBSET Tokens]

LEMMA RestTypesStep ==
  ASSUME IInv, RestTypes, Next
  PROVE  RestTypes'
<1> USE DEF RestTypes
<1>1. ASSUME NEW p \in Tasks, NEW t \in Tokens, BeginSell(p, t)
      PROVE  UNCHANGED <<day_start, recent>>
  BY <1>1 DEF BeginSell
<1>2. CASE BuyStep
  <2>1. CASE BuyFills
    BY <2>1, IdsAfterBuy DEF BuyFills
  <2> QED
    BY <1>2, <2>1
    DEF BuyStep, BeginBuy, DeclineBuy, BlockBuy, ExecuteBuy, BuyFails
<1>3. CASE SellStep
  BY <1>1, <1>3, TaskFacts
  DEF SellStep, PriceUpdateExit, CloseRequest, SellFails, SellFills
<1>4. CASE OperatorStep
  <2>1. Open \subseteq Tokens
    BY DEF Open
  <2> QED
    BY <1>1, <1>4, <2>1, TaskFacts
    DEF OperatorStep, EmergencyRequest, EmergencyClose, EmergencySkip,
        PauseRequest, ResumeRequest
<1>5. CASE EnvironmentStep
  <2>1. Len(closed_trades) \in Nat
    BY DEF IInv, CoreTypes
  <2> QED
    BY <1>5, <2>1
    DEF EnvironmentStep, WalletLow, StopLoop, WindowExpires, Midnight
<1> QED
  BY <1>2, <1>3, <1>4, <1>5 DEF Next

LEMMA RestInvariant == Spec => []RestTypes
<1>1. Init => RestTypes
  BY DEF Init, RestTypes
<1>2. IInv /\ RestTypes /\ [Next]_vars => RestTypes'
  <2> SUFFICES ASSUME IInv, RestTypes, [Next]_vars
               PROVE  RestTypes'
    OBVIOUS
  <2>1. CASE UNCHANGED vars
    BY <2>1 DEF vars, RestTypes
  <2> QED
    BY <2>1, RestTypesStep
<1> QED
  BY <1>1, <1>2, CoreInvariant, PTL DEF Spec

\* Every variable keeps its type, for all parameters.
THEOREM TypeCorrect == Spec => []TypeOK
<1>1. IInv /\ BreakerInv /\ RestTypes => TypeOK
  BY DEF IInv, CoreTypes, BreakerInv, RestTypes, TypeOK
<1> QED
  BY <1>1, CoreInvariant, BreakerInvariant, RestInvariant, PTL

-----------------------------------------------------------------------------
(***************************************************************************)
(* What OperationsEnd rests on, without fairness.                          *)
(***************************************************************************)
\* Answers an operation may still have to wait for.
Work(p) ==
  CASE pc[p] = "analyzing"             -> 2
    [] pc[p] \in {"buying", "selling"} -> 1
    [] OTHER                           -> 0

\* Whoever keeps a token busy is waiting for an answer about that token.
BusyTokensAreWorkedOn ==
  \A t \in in_flight : \E p \in Tasks : token[p] = t /\ Work(p) > 0

\* A task begins an operation only when it is idle; from then on it stays with
\* its token, each of its steps brings the operation nearer to its end, and
\* what other tasks do leaves it alone.
OperationMoves(p) ==
  \/ UNCHANGED <<pc[p], token[p], pos[p]>>
  \/ pc[p] = "idle"
  \/ /\ Work(p)' < Work(p)
     /\ Work(p)' > 0 => token'[p] = token[p]

\* An emergency stop is given no new tokens while it lasts, and starts no sale
\* that is not one of its own.
EmergencyMoves(c) ==
  todo[c] # {} =>
    /\ todo'[c] \subseteq todo[c]
    /\ pc[c] = "idle" /\ pc'[c] # "idle" =>
         token'[c] \in todo[c] \ todo'[c]

OperationsMoveOn ==
  [][/\ \A p \in Tasks : OperationMoves(p)
     /\ \A c \in Clients : EmergencyMoves(c)]_vars

\* Both kinds of step that end an operation.
LEMMA AnswerMoves ==
  ASSUME IInv, NEW p \in Tasks, NEW s \in {"idle", "stopped"},
         ~Idle(p), Release(p, s), NEW q \in Tasks
  PROVE  OperationMoves(q)
<1>1. CASE q = p
  <2>1. Work(p)' = 0
    BY DEF Release, Work, IInv, CoreTypes
  <2>2. Work(p) > 0
    BY DEF Idle, Work, IInv, CoreTypes
  <2> QED
    BY <1>1, <2>1, <2>2 DEF OperationMoves
<1>2. CASE q # p
  BY <1>2 DEF Release, OperationMoves
<1> QED
  BY <1>1, <1>2

LEMMA OperationMovesStep ==
  ASSUME IInv, Next, NEW q \in Tasks
  PROVE  OperationMoves(q)
<1>1. ASSUME NEW t \in Tokens, BeginBuy(t)
      PROVE  OperationMoves(q)
  BY <1>1 DEF BeginBuy, Acquire, OperationMoves
<1>2. ASSUME NEW p \in Tasks, NEW t \in Tokens, BeginSell(p, t)
      PROVE  OperationMoves(q)
  BY <1>2 DEF BeginSell, Acquire, OperationMoves
<1>3. ASSUME NEW size \in Sizes, ExecuteBuy(size)
      PROVE  OperationMoves(q)
  <2>1. CASE q = Loop
    <3>1. pc[Loop] = "analyzing" /\ pc'[Loop] = "buying"
      BY <1>3, TaskFacts DEF ExecuteBuy, IInv, CoreTypes
    <3>2. Work(Loop) = 2 /\ Work(Loop)' = 1
      BY <3>1 DEF Work
    <3> QED
      BY <1>3, <2>1, <3>2 DEF ExecuteBuy, OperationMoves
  <2>2. CASE q # Loop
    BY <1>3, <2>2 DEF ExecuteBuy, OperationMoves
  <2> QED
    BY <2>1, <2>2
<1>4. CASE BuyFills
  <2>1. ~Idle(Loop) /\ Release(Loop, "idle")
    BY <1>4 DEF BuyFills, Idle
  <2> QED
    BY <2>1, TaskFacts, AnswerMoves
<1>5. ASSUME NEW p \in Tasks, NEW pnl \in PnLs, SellFills(p, pnl)
      PROVE  OperationMoves(q)
  <2>1. ~Idle(p) /\ Release(p, "idle")
    BY <1>5 DEF SellFills, Idle
  <2> QED
    BY <2>1, AnswerMoves
<1>6. ASSUME NEW p \in Tasks, NEW s \in {"idle", "stopped"}, LeaveToken(p, s)
      PROVE  OperationMoves(q)
  BY <1>6, AnswerMoves DEF LeaveToken
<1>7. CASE EndLoop
  BY <1>7 DEF EndLoop, OperationMoves
<1>8. CASE UNCHANGED <<books, trading>>
  BY <1>8 DEF trading, OperationMoves
<1> QED
  BY <1>1, <1>2, <1>3, <1>4, <1>5, <1>6, <1>7, <1>8, KindsOfStep

LEMMA EmergencyMovesStep ==
  ASSUME IInv, RestTypes, Next, NEW c \in Clients, todo[c] # {}
  PROVE  EmergencyMoves(c)
<1> USE TaskFacts DEF IInv, CoreTypes, RestTypes, EmergencyMoves
<1>1. ASSUME NEW p \in Tasks, NEW t \in Tokens, BeginSell(p, t), p # c
      PROVE  pc'[c] = pc[c]
  BY <1>1 DEF BeginSell, Acquire
<1>2. CASE BuyStep
  <2>1. UNCHANGED todo /\ pc'[c] = pc[c]
    BY <1>2, IdsAfterBuy, OrchestratorAssumption
    DEF BuyStep, BeginBuy, DeclineBuy, BlockBuy, ExecuteBuy, BuyFails,
        BuyFills, Acquire, Release
  <2> QED
    BY <2>1
<1>3. CASE SellStep
  <2>1. ASSUME NEW t \in Tokens, PriceUpdateExit(t)
        PROVE  UNCHANGED todo /\ pc'[c] = pc[c]
    BY <1>1, <2>1, OrchestratorAssumption DEF PriceUpdateExit
  <2>2. ASSUME NEW d \in Clients, NEW t \in Tokens, CloseRequest(d, t)
        PROVE  UNCHANGED todo /\ pc'[c] = pc[c]
    BY <1>1, <2>2 DEF CloseRequest
  <2>3. ASSUME NEW p \in Tasks, SellFails(p)
        PROVE  UNCHANGED todo /\ pc'[c] \in {pc[c], "idle"}
    BY <2>3 DEF SellFails, Release
  <2>4. ASSUME NEW p \in Tasks, NEW pnl \in PnLs, SellFills(p, pnl)
        PROVE  UNCHANGED todo /\ pc'[c] \in {pc[c], "idle"}
    BY <2>4 DEF SellFills, Release
  <2> QED
    BY <1>3, <2>1, <2>2, <2>3, <2>4 DEF SellStep
<1>4. CASE OperatorStep
  <2>1. ASSUME NEW d \in Clients, NEW t \in Tokens, EmergencyClose(d, t)
        PROVE  EmergencyMoves(c)
    <3>1. CASE d = c
      <4>1. t \in todo[c] /\ todo'[c] = todo[c] \ {t} /\ token'[c] = t
        BY <2>1, <3>1 DEF EmergencyClose, BeginSell, Acquire
      <4> QED
        BY <4>1
    <3>2. CASE d # c
      <4>1. todo'[c] = todo[c] /\ pc'[c] = pc[c]
        BY <1>1, <2>1, <3>2 DEF EmergencyClose
      <4> QED
        BY <4>1
    <3> QED
      BY <3>1, <3>2
  <2>2. ASSUME NEW d \in Clients, NEW t \in Tokens, EmergencySkip(d, t)
        PROVE  todo'[c] \subseteq todo[c] /\ pc' = pc
    BY <2>2 DEF EmergencySkip, trading
  <2>3. ASSUME NEW d \in Clients, EmergencyRequest(d)
        PROVE  todo'[c] = todo[c] /\ pc' = pc
    BY <2>3 DEF EmergencyRequest, trading
  <2> QED
    BY <1>4, <2>1, <2>2, <2>3 DEF OperatorStep, PauseRequest, ResumeRequest, trading
<1>5. CASE EnvironmentStep
  <2>1. UNCHANGED todo /\ pc'[c] = pc[c]
    BY <1>5, OrchestratorAssumption
    DEF EnvironmentStep, WalletLow, StopLoop, WindowExpires, Midnight,
        Release, trading
  <2> QED
    BY <2>1
<1> QED
  BY <1>2, <1>3, <1>4, <1>5 DEF Next

\* Without any help from an operator an operation is over after at most two
\* answers, and so is the visit of each token of an emergency stop: only an
\* await that never returns, or a task that is not run, can keep a token busy.
THEOREM OperationsAreBounded ==
  Spec => []BusyTokensAreWorkedOn /\ OperationsMoveOn
<1>1. IInv => BusyTokensAreWorkedOn
  <2> SUFFICES ASSUME IInv, NEW t \in in_flight
               PROVE  \E p \in Tasks : token[p] = t /\ Work(p) > 0
    BY DEF BusyTokensAreWorkedOn
  <2>1. PICK p \in Tasks : lock[t] = p
    BY DEF IInv, CoreTypes, OneOperationPerToken
  <2>2. token[p] = t /\ ~Idle(p)
    BY <2>1, NoneIsNoPosition DEF IInv, CoreTypes, OneOperationPerToken
  <2>3. Work(p) > 0
    BY <2>2 DEF Work, Idle, IInv, CoreTypes
  <2> QED
    BY <2>2, <2>3
<1>2. IInv /\ RestTypes /\ [Next]_vars =>
        [/\ \A p \in Tasks : OperationMoves(p)
         /\ \A c \in Clients : EmergencyMoves(c)]_vars
  <2> SUFFICES ASSUME IInv, RestTypes, Next
               PROVE  /\ \A p \in Tasks : OperationMoves(p)
                      /\ \A c \in Clients : EmergencyMoves(c)
    OBVIOUS
  <2>1. \A c \in Clients : todo[c] = {} => EmergencyMoves(c)
    BY DEF EmergencyMoves
  <2> QED
    BY <2>1, OperationMovesStep, EmergencyMovesStep
<1> QED
  BY <1>1, <1>2, CoreInvariant, RestInvariant, PTL DEF Spec, OperationsMoveOn

-----------------------------------------------------------------------------
(***************************************************************************)
(* The trading core implements the abstract token lifecycle.               *)
(***************************************************************************)
LEMMA InitMaps == Init => Lifecycle!Init
<1> SUFFICES ASSUME Init
             PROVE  Lifecycle!Init
  OBVIOUS
<1>1. Phase = [t \in Tokens |-> "free"]
  BY DEF Init, Phase, PhaseOf
<1>2. Holding = [t \in Tokens |-> 0]
  BY DEF Init, Holding
<1>3. next_id - 1 = 0 /\ TradeIds = {}
  BY DEF Init, TradeIds
<1> QED
  BY <1>1, <1>2, <1>3 DEF Lifecycle!Init

\* A token in flight without a position is the one being bought.
LEMMA BoughtToken ==
  ASSUME IInv, NEW t \in Tokens, t \in in_flight, positions[t] = None
  PROVE  Buying /\ t = token[Loop]
<1>1. PICK p \in Tasks : lock[t] = p /\ token[p] = t
  BY DEF IInv, CoreTypes, OneOperationPerToken
<1>2. pc[p] # "selling"
  BY <1>1 DEF IInv, ReadPositionIsCurrent
<1>3. ~Idle(p)
  BY <1>1, NoneIsNoPosition DEF IInv, OneOperationPerToken
<1>4. p = Loop
  BY <1>1, <1>2, <1>3 DEF Tasks, IInv, ClientsOnlySell, Idle
<1> QED
  BY <1>1, <1>2, <1>3, <1>4, TaskFacts DEF Buying, Idle, IInv, CoreTypes

LEMMA BeginBuyMaps ==
  ASSUME IInv, NEW t \in Tokens, BeginBuy(t)
  PROVE  Lifecycle!StartBuy(t)
<1>1. /\ ~Buying
      /\ t \notin in_flight /\ positions[t] = None
      /\ in_flight' = in_flight \union {t}
      /\ UNCHANGED <<positions, next_id, closed_trades>>
      /\ Cardinality(Open) < MaxOpenPositions
  BY DEF BeginBuy, Acquire, IsBusy, PortfolioAllowsBuy, Buying, books
<1>2. \A u \in Tokens : u \in in_flight => positions[u] # None
  BY <1>1, BoughtToken
<1>3. \A u \in Tokens : Phase[u] # "buying"
  BY <1>2 DEF Phase, PhaseOf
<1>4. Lifecycle!Cardinality(Lifecycle!Engaged) < MaxOpenPositions
  <2>1. Lifecycle!Engaged = Open
    BY <1>2 DEF Lifecycle!Engaged, Phase, PhaseOf, Open
  <2>2. Lifecycle!Cardinality(Open) = Cardinality(Open)
    BY DEF Lifecycle!Cardinality, Cardinality
  <2> QED
    BY <1>1, <2>1, <2>2
<1>5. Phase[t] = "free" /\ Phase' = [Phase EXCEPT ![t] = "buying"]
  BY <1>1 DEF Phase, PhaseOf
<1>6. UNCHANGED <<Holding, next_id, TradeIds>>
  BY <1>1 DEF Holding, TradeIds
<1> QED
  BY <1>1, <1>3, <1>4, <1>5, <1>6 DEF Lifecycle!StartBuy, Lifecycle!Enter

LEMMA BuyFillsMaps ==
  ASSUME IInv, BuyFills
  PROVE  Lifecycle!FinishBuy(token[Loop])
<1> DEFINE t == token[Loop]
<1>1. /\ t \in Tokens /\ positions[t] = None
      /\ positions' = [positions EXCEPT ![t] = NewPosition]
      /\ NewPosition # None /\ NewPosition.id = next_id
      /\ next_id' = next_id + 1 /\ next_id \in Int
      /\ TradeIds' = TradeIds
  BY IdsAfterBuy, NewPositionTyped
  DEF BuyFills, NewPosition, Open, IInv, CoreTypes
<1>2. t \in in_flight /\ in_flight' = in_flight \ {t}
  BY <1>1, TaskFacts
  DEF BuyFills, Release, IInv, OneOperationPerToken
<1>3. Phase[t] = "buying" /\ Phase' = [Phase EXCEPT ![t] = "held"]
  BY <1>1, <1>2 DEF Phase, PhaseOf, IInv, CoreTypes
<1>4. Holding' = [Holding EXCEPT ![t] = next_id - 1 + 1]
  <2>1. Holding' = [Holding EXCEPT ![t] = next_id]
    BY <1>1 DEF Holding, IInv, CoreTypes
  <2>2. next_id - 1 + 1 = next_id
    BY <1>1
  <2> QED
    BY <2>1, <2>2
<1>5. next_id' - 1 = next_id - 1 + 1
  BY <1>1
<1> QED
  BY <1>1, <1>3, <1>4, <1>5 DEF Lifecycle!FinishBuy, Lifecycle!Enter

LEMMA BeginSellMaps ==
  ASSUME IInv, NEW p \in Tasks, NEW t \in Tokens, BeginSell(p, t)
  PROVE  Lifecycle!StartSell(t)
<1>1. /\ t \notin in_flight /\ positions[t] # None
      /\ in_flight' = in_flight \union {t}
      /\ UNCHANGED <<positions, next_id, closed_trades>>
  BY DEF BeginSell, Acquire, IsBusy, books
<1>2. Phase[t] = "held" /\ Phase' = [Phase EXCEPT ![t] = "selling"]
  BY <1>1 DEF Phase, PhaseOf
<1>3. UNCHANGED <<Holding, next_id, TradeIds>>
  BY <1>1 DEF Holding, TradeIds
<1> QED
  BY <1>2, <1>3 DEF Lifecycle!StartSell, Lifecycle!Enter

LEMMA SellFillsMaps ==
  ASSUME IInv, NEW p \in Tasks, NEW pnl \in PnLs, SellFills(p, pnl)
  PROVE  Lifecycle!FinishSell(token[p])
<1> DEFINE t == token[p]
<1>1. /\ t \in Tokens /\ positions[t] # None
      /\ positions' = [positions EXCEPT ![t] = None]
      /\ TradeIds' = TradeIds \union {positions[t].id}
  BY IdsAfterSale DEF Open
<1>2. t \in in_flight /\ in_flight' = in_flight \ {t} /\ next_id' = next_id
  BY <1>1, TaskFacts DEF SellFills, Release, IInv, OneOperationPerToken
<1>3. Phase[t] = "selling" /\ Phase' = [Phase EXCEPT ![t] = "free"]
  BY <1>1, <1>2 DEF Phase, PhaseOf, IInv, CoreTypes
<1>4. Holding[t] = positions[t].id /\ Holding' = [Holding EXCEPT ![t] = 0]
  BY <1>1 DEF Holding, IInv, CoreTypes
<1> QED
  BY <1>1, <1>2, <1>3, <1>4 DEF Lifecycle!FinishSell, Lifecycle!Enter

LEMMA LeaveTokenMaps ==
  ASSUME IInv, NEW p \in Tasks, NEW s \in {"idle", "stopped"}, LeaveToken(p, s)
  PROVE  Lifecycle!AbandonBuy(token[p]) \/ Lifecycle!AbandonSell(token[p])
<1> DEFINE t == token[p]
<1>1. /\ t \in Tokens /\ t \in in_flight
      /\ in_flight' = in_flight \ {t}
      /\ UNCHANGED <<positions, next_id, closed_trades>>
  BY TaskFacts
  DEF LeaveToken, Release, books, IInv, CoreTypes, OneOperationPerToken
<1>2. UNCHANGED <<Holding, next_id, TradeIds>>
  BY <1>1 DEF Holding, TradeIds
<1>3. CASE positions[t] = None
  <2>1. Phase[t] = "buying" /\ Phase' = [Phase EXCEPT ![t] = "free"]
    BY <1>1, <1>3 DEF Phase, PhaseOf
  <2> QED
    BY <1>2, <2>1 DEF Lifecycle!AbandonBuy, Lifecycle!Enter
<1>4. CASE positions[t] # None
  <2>1. Phase[t] = "selling" /\ Phase' = [Phase EXCEPT ![t] = "held"]
    BY <1>1, <1>4 DEF Phase, PhaseOf
  <2> QED
    BY <1>2, <2>1 DEF Lifecycle!AbandonSell, Lifecycle!Enter
<1> QED
  BY <1>3, <1>4

LEMMA StepMaps == IInv /\ [Next]_vars => [Lifecycle!Next]_(Lifecycle!vars)
<1> SUFFICES ASSUME IInv, [Next]_vars
             PROVE  [Lifecycle!Next]_(Lifecycle!vars)
  OBVIOUS
<1>1. ASSUME UNCHANGED <<positions, next_id, closed_trades, in_flight>>
      PROVE  UNCHANGED Lifecycle!vars
  BY <1>1 DEF Lifecycle!vars, Phase, PhaseOf, Holding, TradeIds
<1>2. CASE UNCHANGED vars
  BY <1>1, <1>2 DEF vars
<1>3. ASSUME NEW size \in Sizes, ExecuteBuy(size)
      PROVE  UNCHANGED Lifecycle!vars
  BY <1>1, <1>3 DEF ExecuteBuy, books
<1>4. CASE EndLoop \/ UNCHANGED <<books, trading>>
  BY <1>1, <1>4 DEF EndLoop, books, trading
<1>5. CASE BuyFills
  BY <1>5, BuyFillsMaps, IdsAfterBuy DEF Lifecycle!Next
<1>6. ASSUME NEW p \in Tasks, NEW pnl \in PnLs, SellFills(p, pnl)
      PROVE  Lifecycle!Next
  BY <1>6, SellFillsMaps, IdsAfterSale DEF Lifecycle!Next
<1>7. ASSUME NEW p \in Tasks, NEW s \in {"idle", "stopped"}, LeaveToken(p, s)
      PROVE  Lifecycle!Next
  <2>1. token[p] \in Tokens
    BY <1>7 DEF LeaveToken, IInv, CoreTypes, OneOperationPerToken
  <2> QED
    BY <1>7, <2>1, LeaveTokenMaps DEF Lifecycle!Next
<1>8. ASSUME NEW t \in Tokens, BeginBuy(t)
      PROVE  Lifecycle!Next
  BY <1>8, BeginBuyMaps DEF Lifecycle!Next
<1>9. ASSUME NEW p \in Tasks, NEW t \in Tokens, BeginSell(p, t)
      PROVE  Lifecycle!Next
  BY <1>9, BeginSellMaps DEF Lifecycle!Next
<1> QED
  BY <1>2, <1>3, <1>4, <1>5, <1>6, <1>7, <1>8, <1>9, KindsOfStep

\* Every behaviour of the core is, seen through Phase, Holding, next_id and
\* TradeIds, a behaviour of the abstract lifecycle.
THEOREM CoreImplementsLifecycle == Spec => ImplementsLifecycle
BY InitMaps, StepMaps, CoreInvariant, PTL
DEF Spec, ImplementsLifecycle, Lifecycle!Spec
=============================================================================
