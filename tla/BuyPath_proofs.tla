---------------------------- MODULE BuyPath_proofs ----------------------------
(***************************************************************************)
(* The buy path: types, the size of an order, the rug detector's veto, the *)
(* liquidity of what is ordered, and that a rejected token does not linger.*)
(***************************************************************************)
EXTENDS BuyPath, TLAPS, WellFoundedInduction

(***************************************************************************)
(* Scores are numbers.                                                     *)
(***************************************************************************)
LEMMA ClampRange ==
  ASSUME NEW n \in Int
  PROVE  Clamp(n) \in 0 .. 100
BY DEF Clamp

\* A set of bounds below x has a highest one.
LEMMA HighestBound ==
  ASSUME NEW x \in Int, NEW below, below \subseteq Int \X Int, below # {},
         \A g \in below : x >= g[1]
  PROVE  \E g \in below : \A h \in below : h[1] <= g[1]
<1> DEFINE gaps == {x - g[1] : g \in below}
<1>1. gaps \subseteq Nat /\ gaps # {}
  OBVIOUS
<1>2. PICK m \in gaps : \A n \in gaps : ~ (<<n, m>> \in OpToRel(<, Nat))
  <2> HIDE DEF gaps
  <2> QED BY <1>1, NatLessThanWellFounded, WFMin, Zenon
<1>3. \A n \in gaps : m <= n
  <2> HIDE DEF gaps
  <2>1. SUFFICES ASSUME NEW n \in gaps PROVE ~ (n < m)
    BY <1>1
  <2>2. <<n, m>> \notin OpToRel(<, Nat)
    BY <1>2
  <2> QED BY <1>1, <2>2 DEF OpToRel
<1>4. PICK g \in below : m = x - g[1]
  OBVIOUS
<1>5. \A h \in below : h[1] <= g[1]
  <2> SUFFICES ASSUME NEW h \in below PROVE h[1] <= g[1]
    OBVIOUS
  <2>1. m <= x - h[1]
    BY <1>3
  <2> QED BY <2>1, <1>4
<1> QED BY <1>5

LEMMA ReachedRange ==
  ASSUME NEW x \in Int, NEW grades, grades \subseteq Int \X (0 .. 100)
  PROVE  Reached(x, grades) \in 0 .. 100
<1> DEFINE below == {g \in grades : x >= g[1]}
           top   == CHOOSE g \in below : \A h \in below : h[1] <= g[1]
<1>1. CASE below = {}
  BY <1>1 DEF Reached
<1>2. CASE below # {}
  <2>1. \E g \in below : \A h \in below : h[1] <= g[1]
    <3>1. below \subseteq Int \X Int /\ \A g \in below : x >= g[1]
      OBVIOUS
    <3> HIDE DEF below
    <3> QED BY <1>2, <3>1, HighestBound
  <2>2. top \in below
    BY <2>1
  <2>3. top[2] \in 0 .. 100
    BY <2>2
  <2>4. Reached(x, grades) = top[2]
    BY <1>2 DEF Reached
  <2> QED BY <2>3, <2>4
<1> QED BY <1>1, <1>2

LEMMA ShareIsInt ==
  ASSUME NEW weight \in Int, NEW percent \in Int
  PROVE  Share(weight, percent) \in Int
BY DEF Share

\* A percentage of a weight by the bound reached.
LEMMA GradeIsInt ==
  ASSUME NEW weight \in Int, NEW x \in Int,
         NEW grades, grades \subseteq Int \X (0 .. 100)
  PROVE  Share(weight, Reached(x, grades)) \in Int
<1>1. Reached(x, grades) \in 0 .. 100
  BY ReachedRange
<1>2. Reached(x, grades) \in Int
  BY <1>1
<1> QED BY <1>2, ShareIsInt

\* The components of a score, other than the one for the risk score.
OtherScores(s, age) ==
  ScoreLiquidity(s) + ScoreVolume(s) + ScoreBuyPressure(s) + ScoreMomentum(s)
    + ScoreVolumeAcceleration(s) + ScoreTokenAge(age)

LEMMA ScoreParts ==
  ASSUME NEW s \in Snapshot, NEW score \in Int, NEW age \in Int \cup {None}
  PROVE  /\ OtherScores(s, age) \in Int
         /\ ScoreRisk(score) \in Int
         /\ Score(s, score, age) = Clamp(OtherScores(s, age) + ScoreRisk(score))
<1> USE ScoringAssumption
<1>1. /\ OrZero(s.liquidity) \in Int
      /\ s.volume_5m \in Int /\ s.volume_1h \in Int
      /\ s.buys_5m \in Int /\ Trades(s) \in Int
      /\ s.change_h1 \in Int \cup {None}
  BY DEF Snapshot, OrZero, Trades
<1>2. ScoreLiquidity(s) \in Int
  BY <1>1, GradeIsInt DEF ScoreLiquidity
<1>3. ScoreVolume(s) \in Int
  BY <1>1, GradeIsInt DEF ScoreVolume
<1>4. ScoreBuyPressure(s) \in Int
  BY <1>1, GradeIsInt DEF ScoreBuyPressure
<1>5. ScoreMomentum(s) \in Int
  <2> DEFINE grades == {<<20, 100>>, <<5, 70>>, <<-5, 50>>, <<-20, 30>>}
  <2>1. CASE s.change_h1 = None
    BY <2>1, ShareIsInt DEF ScoreMomentum
  <2>2. CASE s.change_h1 # None
    <3>1. Share(Weights.momentum, Reached(s.change_h1, grades)) \in Int
      BY <1>1, <2>2, GradeIsInt
    <3> QED BY <2>2, <3>1 DEF ScoreMomentum
  <2> QED BY <2>1, <2>2
<1>6. ScoreVolumeAcceleration(s) \in Int
  BY <1>1, GradeIsInt DEF ScoreVolumeAcceleration
<1>7. ScoreTokenAge(age) \in Int
  <2> DEFINE grades == {<<24 * 60, 50>>, <<6 * 60, 80>>, <<30, 100>>, <<0, 30>>}
  <2>1. CASE age = None
    BY <2>1, ShareIsInt DEF ScoreTokenAge
  <2>2. CASE age # None
    <3>1. Share(Weights.token_age, Reached(age, grades)) \in Int
      BY <2>2, GradeIsInt
    <3> QED BY <2>2, <3>1 DEF ScoreTokenAge
  <2> QED BY <2>1, <2>2
<1>8. ScoreRisk(score) \in Int
  BY GradeIsInt DEF ScoreRisk
<1> QED BY <1>2, <1>3, <1>4, <1>5, <1>6, <1>7, <1>8 DEF Score, OtherScores

LEMMA ScoreRange ==
  ASSUME NEW s \in Snapshot, NEW score \in Int, NEW age \in Int \cup {None}
  PROVE  Score(s, score, age) \in 0 .. 100
BY ScoreParts, ClampRange

LEMMA ConfidenceIsInt ==
  ASSUME NEW s \in Snapshot, NEW score \in 0 .. 100, NEW age \in Int \cup {None}
  PROVE  MomentumSignal(s, score, age, FALSE).confidence \in Nat
<1> DEFINE known == IF OrZero(score) = 0 THEN 50 ELSE score
           grade == Score(s, known, age)
<1>1. known \in Int
  OBVIOUS
<1>2. grade \in 0 .. 100
  <2> HIDE DEF known
  <2> QED BY <1>1, ScoreRange
<1>3. MomentumSignal(s, score, age, FALSE) \in
        {Reject, Watch, Buy(10 * grade), Buy(8 * grade)}
  <2> HIDE DEF grade
  <2>1. MomentumSignal(s, score, age, FALSE) =
          IF (score # None /\ score < MinRiskScore) \/ FALSE THEN Reject
          ELSE IF grade >= 75 THEN Buy(10 * grade)
          ELSE IF grade >= 60 THEN Buy(8 * grade)
          ELSE IF grade >= 45 THEN Watch
          ELSE Reject
    BY DEF MomentumSignal, grade
  <2> QED BY <2>1, Zenon
<1> HIDE DEF grade
<1>4. 10 * grade \in Nat /\ 8 * grade \in Nat
  BY <1>2
<1> SUFFICES ASSUME NEW signal \in {Reject, Watch, Buy(10 * grade), Buy(8 * grade)}
             PROVE  signal.confidence \in Nat
  BY <1>3
<1> QED BY <1>4 DEF Reject, Watch, Buy

LEMMA EngineScoreRange ==
  ASSUME NEW s, NEW p
  PROVE  EngineScore(s, p) \in 0 .. 100
<1>1. LiquidityPoints(s.liquidity) \in Int
  BY DEF LiquidityPoints
<1>2. VolumePoints(s.volume_5m) \in Int
  BY DEF VolumePoints
<1>3. PressurePoints(s) \in Int
  BY DEF PressurePoints
<1>4. ExposurePoints(p) \in Int
  BY DEF ExposurePoints
<1> QED BY <1>1, <1>2, <1>3, <1>4, ClampRange DEF EngineScore

-----------------------------------------------------------------------------
(***************************************************************************)
(* What the sizer may return.                                              *)
(***************************************************************************)
LEMMA PortfolioRiskType ==
  ASSUME NEW b \in Books
  PROVE  LET p == PortfolioRisk(b)
         IN  /\ p.wallet \in Nat /\ p.exposure \in Int /\ p.daily_loss \in Nat
             /\ p.open \in Nat
BY DEF Books, PortfolioRisk

LEMMA LesserFacts ==
  ASSUME NEW x \in Int, NEW y \in Int
  PROVE  Lesser(x, y) \in Int /\ Lesser(x, y) <= x /\ Lesser(x, y) <= y
BY DEF Lesser

LEMMA CancelFactor ==
  ASSUME NEW m \in Int, NEW n \in Int, NEW d \in Nat \ {0}, m * d <= n * d
  PROVE  m <= n
<1> SUFFICES ASSUME m > n PROVE FALSE
  OBVIOUS
<1>1. (m - n) * d >= d
  BY SMTT(30)
<1>2. m * d - n * d >= d
  BY <1>1, SMTT(30)
<1> QED BY <1>2, SMTT(30)

LEMMA RemainingFacts ==
  ASSUME NEW p, p.wallet \in Int, p.exposure \in Int, p.daily_loss \in Int
  PROVE  /\ Remaining(p) \in Int
         /\ Remaining(p) <= MaxPosition
         /\ Remaining(p) <= MaxTotalExposure - p.exposure
         /\ Remaining(p) <= MaxDailyLoss - p.daily_loss
         /\ Remaining(p) <= p.wallet
BY RiskAssumption DEF Remaining, Lesser

LEMMA BaseIsInt ==
  ASSUME NEW wallet \in Int, NEW score \in Int, NEW confidence \in Int
  PROVE  Base(wallet, score, confidence) \in Int
<1>1. ConfidenceFactor(confidence) \in Int
  BY DEF ConfidenceFactor, Lesser
<1>2. MaxPosition * MaxOpenPositions \in Int
  BY RiskAssumption
<1>3. Lesser(MaxPosition * MaxOpenPositions, wallet) \in Int
  BY <1>2, LesserFacts
<1> QED BY <1>1, <1>3 DEF Base

\* Rounding adds half a cent at most.
LEMMA RoundedBound ==
  ASSUME NEW amount \in Int, NEW limit \in Int, amount <= limit * Unit,
         NEW size \in Rounded(amount)
  PROVE  size \in Int /\ size <= limit + 5
<1>1. Unit \in Nat \ {0}
  BY RiskAssumption DEF Unit
<1>2. size \in Int /\ size * Unit - amount <= 5 * Unit
  <2> DEFINE lower == 10 * (amount \div (10 * Unit))
  <2>1. 10 * Unit \in Nat /\ 10 * Unit > 0
    BY <1>1
  <2>2. lower \in Int
    BY <2>1
  <2> HIDE DEF lower
  <2>3. size \in {lower, lower + 10} /\ size * Unit - amount <= 5 * Unit
    BY DEF Rounded, lower
  <2> QED BY <2>2, <2>3
<1>3. size * Unit \in Int /\ 5 * Unit \in Int /\ limit * Unit \in Int
  BY <1>1, <1>2
<1>4. size * Unit <= limit * Unit + 5 * Unit
  BY <1>2, <1>3
<1>5. limit * Unit + 5 * Unit = (limit + 5) * Unit
  BY <1>1
<1>6. limit + 5 \in Int /\ size * Unit <= (limit + 5) * Unit
  BY <1>4, <1>5
<1> HIDE DEF Unit
<1> QED BY <1>1, <1>2, <1>6, CancelFactor

LEMMA SizeWithinLimits ==
  ASSUME NEW b \in Books, NEW score \in 0 .. 100, NEW confidence \in Nat,
         NEW size \in PositionSizes(PortfolioRisk(b), score, confidence), size > 0
  PROVE  LET p == PortfolioRisk(b)
         IN  /\ size \in Nat \ {0}
             /\ size <= MaxPosition + 5
             /\ size <= p.wallet + 5
             /\ p.daily_loss + size <= MaxDailyLoss + 5
             /\ p.exposure + size <= MaxTotalExposure + 5
             /\ p.open < MaxOpenPositions
<1> DEFINE p      == PortfolioRisk(b)
           base   == Base(p.wallet, score, confidence)
           amount == Lesser(base, Remaining(p) * Unit)
<1>1. p.wallet \in Nat /\ p.exposure \in Int /\ p.daily_loss \in Nat /\ p.open \in Nat
  BY PortfolioRiskType
<1> HIDE DEF p
<1>2. ~SizerRefuses(p) /\ size \in {Floored(raw) : raw \in Rounded(amount)}
  BY DEF PositionSizes, p
<1>3. PICK raw \in Rounded(amount) : size = Floored(raw)
  BY <1>2
<1>4. size = raw
  BY <1>3 DEF Floored
<1>5. /\ Remaining(p) \in Int
      /\ Remaining(p) <= MaxPosition
      /\ Remaining(p) <= MaxTotalExposure - p.exposure
      /\ Remaining(p) <= MaxDailyLoss - p.daily_loss
      /\ Remaining(p) <= p.wallet
  BY <1>1, RemainingFacts
<1>6. amount \in Int /\ amount <= Remaining(p) * Unit
  <2>1. base \in Int
    <3>1. p.wallet \in Int /\ score \in Int /\ confidence \in Int
      BY <1>1
    <3> QED BY <3>1, BaseIsInt
  <2>2. Unit \in Int
    BY RiskAssumption DEF Unit
  <2>3. Remaining(p) * Unit \in Int
    BY <1>5, <2>2
  <2> HIDE DEF base
  <2> QED BY <2>1, <2>3, LesserFacts
<1> HIDE DEF amount
<1>7. size \in Int /\ size <= Remaining(p) + 5
  BY <1>3, <1>4, <1>5, <1>6, RoundedBound
<1>8. p.open < MaxOpenPositions
  BY <1>1, <1>2, RiskAssumption DEF SizerRefuses
<1> QED BY <1>1, <1>5, <1>7, <1>8, RiskAssumption DEF p

-----------------------------------------------------------------------------
(***************************************************************************)
(* Types.                                                                  *)
(***************************************************************************)
LEMMA AgeType ==
  ASSUME TypeOK, stage # "idle"
  PROVE  snapshot \in Snapshot /\ Age \in Int \cup {None}
<1>1. snapshot \in Snapshot
  BY BuyPathAssumption DEF TypeOK
<1>2. snapshot.pair_age \in Int \cup {None}
  BY <1>1 DEF Snapshot
<1>3. watched \in Int \cup {None}
  BY BuyPathAssumption DEF TypeOK
<1> QED BY <1>1, <1>2, <1>3 DEF Age

\* What PlaceOrder puts into the order.
LEMMA OrderPlaced ==
  ASSUME TypeOK, PlaceOrder
  PROVE  /\ order' \in [size : Nat \ {0}, books : {books}]
         /\ books \in Books
         /\ LET p == PortfolioRisk(books)
            IN  /\ order'.size <= MaxPosition + 5
                /\ order'.size <= p.wallet + 5
                /\ p.daily_loss + order'.size <= MaxDailyLoss + 5
                /\ p.exposure + order'.size <= MaxTotalExposure + 5
                /\ p.open < MaxOpenPositions
<1>1. snapshot \in Snapshot /\ Age \in Int \cup {None}
  BY AgeType DEF PlaceOrder
<1>2. books \in Books /\ risk \in 0 .. 100
  BY BuyPathAssumption DEF PlaceOrder, TypeOK
<1>3. SecondSignal.confidence \in Nat
  BY <1>1, <1>2, ConfidenceIsInt DEF SecondSignal
<1>4. PICK size \in PositionSizes(PortfolioRisk(books), risk, SecondSignal.confidence) :
        size > 0 /\ order' = [size |-> size, books |-> books]
  BY DEF PlaceOrder
<1>5. LET p == PortfolioRisk(books)
      IN  /\ size \in Nat \ {0}
          /\ size <= MaxPosition + 5
          /\ size <= p.wallet + 5
          /\ p.daily_loss + size <= MaxDailyLoss + 5
          /\ p.exposure + size <= MaxTotalExposure + 5
          /\ p.open < MaxOpenPositions
  BY <1>2, <1>3, <1>4, SizeWithinLimits
<1> QED BY <1>2, <1>4, <1>5

LEMMA TypeInit == Init => TypeOK
BY DEF Init, TypeOK

LEMMA TypeStep == TypeOK /\ [Next]_vars => TypeOK'
<1> SUFFICES ASSUME TypeOK, [Next]_vars PROVE TypeOK'
  OBVIOUS
<1> USE BuyPathAssumption, ScoringAssumption DEF TypeOK
<1>1. ASSUME NEW s \in Snapshots, Scan(s) PROVE TypeOK'
  BY <1>1 DEF Scan, StartAttempt
<1>2. ASSUME NEW s \in Snapshots, LaunchScan(s) PROVE TypeOK'
  BY <1>2 DEF LaunchScan, StartAttempt
<1>3. CASE ScanOthers
  BY <1>3 DEF ScanOthers, StartAttempt
<1>4. CASE TimePasses
  BY <1>4 DEF TimePasses
<1>5. CASE Analyze
  BY <1>5 DEF Analyze, Continue
<1>6. CASE PassOver
  BY <1>6 DEF PassOver, Leave, Rest
<1>7. CASE RugCheck
  BY <1>7 DEF RugCheck, Continue, TurnAway, Rest
<1>8. CASE Skip
  BY <1>8 DEF Skip, Leave, Rest
<1>9. CASE BreakerRejects
  BY <1>9 DEF BreakerRejects, TurnAway, Rest
<1>10. CASE RiskRejects
  BY <1>10 DEF RiskRejects, TurnAway, Rest
<1>11. CASE RiskApproves
  <2>1. risk' \in 0 .. 100 /\ books' \in BookStates
    BY <1>11, EngineScoreRange DEF RiskApproves
  <2> QED BY <1>11, <2>1 DEF RiskApproves, Continue
<1>12. CASE AlreadyOpen
  BY <1>12 DEF AlreadyOpen, Leave, Rest
<1>13. CASE Decline
  BY <1>13 DEF Decline, Leave, Rest
<1>14. CASE PlaceOrder
  <2>1. order' \in [size : Nat \ {0}, books : {books}]
    BY <1>14, OrderPlaced
  <2> QED BY <1>14, <2>1 DEF PlaceOrder, Continue
<1>15. CASE OrderFails
  BY <1>15 DEF OrderFails, Leave, Rest
<1>16. CASE OrderFills
  BY <1>16 DEF OrderFills, Rest
<1>17. CASE ExitByLoop
  BY <1>17 DEF ExitByLoop
<1>18. CASE CloseByHand
  BY <1>18 DEF CloseByHand
<1>19. CASE UNCHANGED vars
  BY <1>19 DEF vars
<1> QED BY <1>1, <1>2, <1>3, <1>4, <1>5, <1>6, <1>7, <1>8, <1>9, <1>10, <1>11, <1>12,
           <1>13, <1>14, <1>15, <1>16, <1>17, <1>18, <1>19 DEF Next

\* The records of an attempt match its stage, whatever the feed reports and the
\* books say.
THEOREM TypeCorrect == Spec => []TypeOK
BY TypeInit, TypeStep, PTL DEF Spec

-----------------------------------------------------------------------------
(***************************************************************************)
(* What the four safety invariants rest on: a token turned away is not     *)
(* watched; past each check the attempt still has the snapshot it passed.  *)
(***************************************************************************)
NotWatched == turned => watched = None

PastRugCheck ==
  stage \in {"risk", "strategy", "order"} => RugCheckPasses(snapshot, Age)

PastSignal ==
  stage \in {"rug", "risk", "strategy", "order"} /\ path = "scan" =>
    MinRiskScore <= HeuristicRiskScore(snapshot)

PastEngine ==
  stage \in {"strategy", "order"} => LiquidityAcceptable(snapshot.liquidity)

IInv ==
  /\ TypeOK
  /\ NotWatched
  /\ PastRugCheck
  /\ PastSignal
  /\ PastEngine
  /\ OrderWithinLimits

LEMMA InvInit == Init => IInv
BY TypeInit DEF Init, IInv, TypeOK, NotWatched, PastRugCheck, PastSignal, PastEngine,
                OrderWithinLimits

\* A buy signal of the momentum strategy leaves the heuristic score at its minimum.
LEMMA SignalNeedsScore ==
  ASSUME TypeOK, Analyze, path = "scan"
  PROVE  MinRiskScore <= HeuristicRiskScore(snapshot)
<1> DEFINE score == HeuristicRiskScore(snapshot)
<1>1. score \in Int
  <2>1. HeuristicLiquidity(OrZero(snapshot.liquidity)) \in Int
    BY DEF HeuristicLiquidity
  <2>2. HeuristicVolume(snapshot.volume_5m) \in Int
    BY DEF HeuristicVolume
  <2>3. HeuristicPressure(snapshot) \in Int
    BY DEF HeuristicPressure
  <2> QED BY <2>1, <2>2, <2>3, ClampRange DEF HeuristicRiskScore
<1> HIDE DEF score
<1>2. MomentumSignal(snapshot, score, Age, FALSE).kind = "buy"
  BY DEF Analyze, Signal, score
<1>3. score # None
  BY <1>1, ScoringAssumption
<1>4. SUFFICES ASSUME score < MinRiskScore PROVE FALSE
  BY <1>1, ScoringAssumption DEF score
<1>5. MomentumSignal(snapshot, score, Age, FALSE) = Reject
  BY <1>3, <1>4 DEF MomentumSignal
<1>6. Reject.kind # "buy"
  BY DEF Reject
<1> QED BY <1>2, <1>5, <1>6, Zenon

\* While an attempt goes on, what it looks at stays as it is.
LEMMA ContinueKeeps ==
  ASSUME NEW next, Continue(next)
  PROVE  /\ stage' = next /\ snapshot' = snapshot /\ watched' = watched
         /\ path' = path /\ turned' = turned /\ Age' = Age
         /\ HeuristicRiskScore(snapshot)' = HeuristicRiskScore(snapshot)
<1>1. /\ stage' = next /\ snapshot' = snapshot /\ watched' = watched
      /\ path' = path /\ turned' = turned
  BY DEF Continue
<1>2. Age' = Age
  BY <1>1 DEF Age
<1>3. HeuristicRiskScore(snapshot)' = HeuristicRiskScore(snapshot')
  OBVIOUS
<1> QED BY <1>1, <1>2, <1>3

\* At rest nothing has been passed and nothing is ordered.
LEMMA RestKeepsInv ==
  ASSUME stage' \in {"idle", "signal"}, order' = None, NotWatched'
  PROVE  /\ NotWatched' /\ PastRugCheck' /\ PastSignal' /\ PastEngine'
         /\ OrderWithinLimits'
BY DEF PastRugCheck, PastSignal, PastEngine, OrderWithinLimits

LEMMA InvStep == IInv /\ [Next]_vars => IInv'
<1> SUFFICES ASSUME IInv, [Next]_vars PROVE IInv'
  OBVIOUS
<1>1. TypeOK /\ TypeOK'
  BY TypeStep DEF IInv
<1>2. SUFFICES /\ NotWatched' /\ PastRugCheck' /\ PastSignal' /\ PastEngine'
               /\ OrderWithinLimits'
  BY <1>1 DEF IInv
<1>3. ASSUME NEW s \in Snapshots, Scan(s) \/ LaunchScan(s)
      PROVE  stage' \in {"idle", "signal"} /\ order' = None /\ NotWatched'
  BY <1>1, <1>3, ScoringAssumption
     DEF Scan, LaunchScan, StartAttempt, IInv, TypeOK, NotWatched
<1>4. CASE ScanOthers \/ TimePasses \/ ExitByLoop \/ CloseByHand
  <2>1. stage' \in {"idle", "signal"} /\ order' = None /\ NotWatched'
    BY <1>1, <1>4
       DEF ScanOthers, StartAttempt, TimePasses, ExitByLoop, CloseByHand, IInv, TypeOK,
           NotWatched
  <2> QED BY <2>1, RestKeepsInv
<1>5. CASE PassOver \/ Skip \/ AlreadyOpen \/ Decline \/ OrderFails \/ OrderFills
  <2>1. stage' = "idle" /\ order' = None /\ NotWatched'
    <3>1. CASE Leave
      BY <3>1, Zenon DEF Leave, Rest, IInv, NotWatched
    <3>2. CASE OrderFills
      BY <3>2, Zenon DEF OrderFills, Rest, IInv, NotWatched
    <3> QED BY <1>5, <3>1, <3>2 DEF PassOver, Skip, AlreadyOpen, Decline, OrderFails
  <2> QED BY <2>1, RestKeepsInv
<1>6. CASE BreakerRejects \/ RiskRejects \/ (RugCheck /\ TurnAway)
  <2>1. stage' = "idle" /\ order' = None /\ NotWatched'
    BY <1>6 DEF BreakerRejects, RiskRejects, TurnAway, Rest, NotWatched
  <2> QED BY <2>1, RestKeepsInv
<1>7. CASE Analyze
  <2>1. Continue("rug") /\ order' = None /\ path \in {"scan", "launch"}
    BY <1>1, <1>7 DEF Analyze, TypeOK
  <2>2. path = "scan" => MinRiskScore <= HeuristicRiskScore(snapshot)
    BY <1>1, <1>7, SignalNeedsScore
  <2> QED BY <2>1, <2>2, ContinueKeeps
          DEF IInv, NotWatched, PastRugCheck, PastSignal, PastEngine, OrderWithinLimits
<1>8. CASE RugCheck /\ ~TurnAway
  <2>1. Continue("risk") /\ order' = None /\ stage = "rug" /\ RugCheckPasses(snapshot, Age)
    BY <1>1, <1>8 DEF RugCheck, TypeOK
  <2>2. PastRugCheck'
    BY <2>1, ContinueKeeps, Zenon DEF PastRugCheck
  <2>3. NotWatched' /\ PastSignal' /\ PastEngine' /\ OrderWithinLimits'
    BY <2>1, ContinueKeeps DEF IInv, NotWatched, PastSignal, PastEngine, OrderWithinLimits
  <2> QED BY <2>2, <2>3
<1>9. CASE RiskApproves
  <2>1. Continue("strategy") /\ order' = None /\ stage = "risk"
    BY <1>1, <1>9 DEF RiskApproves, TypeOK
  <2>2. LiquidityAcceptable(snapshot.liquidity)
    BY <1>9 DEF RiskApproves, EngineApproves
  <2> QED BY <2>1, <2>2, ContinueKeeps
          DEF IInv, NotWatched, PastRugCheck, PastSignal, PastEngine, OrderWithinLimits
<1>10. CASE PlaceOrder
  <2>1. Continue("order") /\ stage = "strategy"
    BY <1>10 DEF PlaceOrder
  <2>2. OrderWithinLimits'
    <3>1. order'.books = books
      BY <1>1, <1>10, OrderPlaced
    <3> QED BY <1>1, <1>10, <3>1, OrderPlaced DEF OrderWithinLimits
  <2> QED BY <2>1, <2>2, ContinueKeeps
          DEF IInv, NotWatched, PastRugCheck, PastSignal, PastEngine
<1>11. CASE UNCHANGED vars
  BY <1>11 DEF vars, IInv, NotWatched, PastRugCheck, PastSignal, PastEngine,
               OrderWithinLimits, Age
<1> QED BY <1>3, <1>4, <1>5, <1>6, <1>7, <1>8, <1>9, <1>10, <1>11, RestKeepsInv DEF Next

LEMMA InvHolds == Spec => []IInv
BY InvInit, InvStep, PTL DEF Spec

-----------------------------------------------------------------------------
(***************************************************************************)
(* The invariants.                                                         *)
(***************************************************************************)
\* A token that was vetoed or rejected is not ordered until a filter lets it in
\* again.
THEOREM RejectedTokensDoNotLinger == Spec => []TurnedAwayNotOrdered
<1>1. IInv => TurnedAwayNotOrdered
  BY DEF IInv, TypeOK, NotWatched, TurnedAwayNotOrdered
<1> QED BY <1>1, InvHolds, PTL

\* Whatever the limits are, an order respects them up to half a cent.
THEOREM SizeRespectsLimits == Spec => []OrderWithinLimits
<1>1. IInv => OrderWithinLimits
  BY DEF IInv
<1> QED BY <1>1, InvHolds, PTL

\* Each sign of fraud is a veto, and a veto alone rejects.
LEMMA FraudIsVetoed ==
  ASSUME NEW s \in Snapshot, NEW age, RugCheckPasses(s, age)
  PROVE  ~Fraudulent(s)
<1> DEFINE findings == RugFindings(s, age, FALSE, FALSE, FALSE)
<1>1. \A f \in findings : ~f.veto
  BY DEF RugCheckPasses, RugApproved
<1>2. \A check : Veto(check) \notin findings
  BY <1>1 DEF Veto
<1>3. CASE s.name = "honeypot"
  <2>1. Veto("name") \in CheckName(s)
    BY <1>3 DEF CheckName, If
  <2> QED BY <1>2, <2>1, Zenon DEF RugFindings
<1>4. CASE s.liquidity # None /\ s.liquidity < 100
  <2>1. Veto("liquidity") \in CheckLiquidity(s)
    BY <1>4 DEF CheckLiquidity, If
  <2> QED BY <1>2, <2>1, Zenon DEF RugFindings
<1>5. CASE s.buys_1h >= 10 /\ s.sells_1h = 0
  <2>1. Veto("honeypot_1h") \in CheckHoneypot(s)
    BY <1>5 DEF CheckHoneypot, If
  <2> QED BY <1>2, <2>1, Zenon DEF RugFindings
<1>6. CASE s.change_h1 # None /\ s.change_h1 > 1000
  <2>1. Veto("pump_1h") \in CheckPriceManipulation(s)
    BY <1>6 DEF CheckPriceManipulation, If
  <2> QED BY <1>2, <2>1, Zenon DEF RugFindings
<1> QED BY <1>3, <1>4, <1>5, <1>6 DEF Fraudulent

\* No order for a token whose snapshot shows a sign of fraud that the detector
\* calls critical, whatever its other scores and the settings.
THEOREM FraudIsNeverOrdered == Spec => []NoFraudOrdered
<1>1. IInv => NoFraudOrdered
  <2> SUFFICES ASSUME IInv, order # None PROVE ~Fraudulent(snapshot)
    BY DEF NoFraudOrdered
  <2>1. stage = "order" /\ snapshot \in Snapshot
    BY BuyPathAssumption, ScoringAssumption DEF IInv, TypeOK
  <2>2. RugCheckPasses(snapshot, Age)
    BY <2>1 DEF IInv, PastRugCheck
  <2> QED BY <2>1, <2>2, FraudIsVetoed
<1> QED BY <1>1, InvHolds, PTL

\* A thin pool leaves the heuristic score at 55 at most.
LEMMA ThinPoolScoresLow ==
  ASSUME NEW s \in Snapshot, MinLiquidity <= 100000, OrZero(s.liquidity) < MinLiquidity
  PROVE  HeuristicRiskScore(s) <= 55
<1>1. OrZero(s.liquidity) \in Nat
  BY DEF Snapshot, OrZero
<1>2. HeuristicLiquidity(OrZero(s.liquidity)) = -15
  BY <1>1, ScoringAssumption DEF HeuristicLiquidity
<1>3. HeuristicVolume(s.volume_5m) \in -10 .. 10
  BY DEF HeuristicVolume
<1>4. HeuristicPressure(s) \in -10 .. 10
  BY DEF HeuristicPressure
<1> QED BY <1>2, <1>3, <1>4 DEF HeuristicRiskScore, Clamp

\* With a minimum score above 55 (70 by default) and a liquidity minimum of at
\* most 100000 (10000), an order from the watchlist finds the whole minimum in the
\* pool, and any order half of it.
THEOREM OrdersFindLiquidity ==
  ASSUME MinRiskScore > 55, MinLiquidity <= 100000
  PROVE  Spec => []OrdersAreLiquid
<1>1. IInv => OrdersAreLiquid
  <2> SUFFICES ASSUME IInv, order # None
               PROVE  /\ 2 * OrZero(snapshot.liquidity) >= MinLiquidity
                      /\ path = "scan" => OrZero(snapshot.liquidity) >= MinLiquidity
    BY DEF OrdersAreLiquid
  <2>1. stage = "order" /\ snapshot \in Snapshot
    BY BuyPathAssumption, ScoringAssumption DEF IInv, TypeOK
  <2>2. OrZero(snapshot.liquidity) \in Nat
    BY <2>1 DEF Snapshot, OrZero
  <2>3. 2 * OrZero(snapshot.liquidity) >= MinLiquidity
    BY <2>1 DEF IInv, PastEngine, LiquidityAcceptable, OrZero
  <2>4. ASSUME path = "scan" PROVE OrZero(snapshot.liquidity) >= MinLiquidity
    <3>1. MinRiskScore <= HeuristicRiskScore(snapshot)
      BY <2>1, <2>4 DEF IInv, PastSignal
    <3>2. HeuristicRiskScore(snapshot) \in Int
      BY DEF HeuristicRiskScore, HeuristicLiquidity, HeuristicVolume, HeuristicPressure, Clamp
    <3>3. ~(HeuristicRiskScore(snapshot) <= 55)
      BY <3>1, <3>2, ScoringAssumption
    <3> QED BY <2>1, <2>2, <3>3, ThinPoolScoresLow, ScoringAssumption
  <2> QED BY <2>3, <2>4
<1> QED BY <1>1, InvHolds, PTL

-----------------------------------------------------------------------------
(***************************************************************************)
(* A lower risk score never buys more: the score, the confidence, the base *)
(* size and its rounding are each monotone in the risk score.              *)
(***************************************************************************)
LEMMA ProductMonotone ==
  ASSUME NEW a \in Nat, NEW b \in Nat, NEW c \in Nat, NEW d \in Nat, a <= b, c <= d
  PROVE  a * c \in Nat /\ b * d \in Nat /\ a * c <= b * d
<1>1. a * c <= b * c
  BY SMTT(30)
<1>2. b * c <= b * d
  BY SMTT(30)
<1> QED BY <1>1, <1>2

LEMMA QuotientMonotone ==
  ASSUME NEW m \in Int, NEW n \in Int, NEW d \in Nat, d > 0, m <= n
  PROVE  m \div d \in Int /\ n \div d \in Int /\ m \div d <= n \div d
BY SMTT(30)

RiskGrades == {<<80, 100>>, <<60, 70>>, <<40, 40>>}

LEMMA RiskGradeReached ==
  ASSUME NEW n \in Int
  PROVE  Reached(n, RiskGrades) =
           IF n >= 80 THEN 100 ELSE IF n >= 60 THEN 70 ELSE IF n >= 40 THEN 40 ELSE 0
<1> DEFINE below == {g \in RiskGrades : n >= g[1]}
           top   == CHOOSE g \in below : \A h \in below : h[1] <= g[1]
<1>1. Reached(n, RiskGrades) = IF below = {} THEN 0 ELSE top[2]
  BY DEF Reached
<1>2. ASSUME NEW best \in below, \A h \in below : h[1] <= best[1]
      PROVE  below # {} /\ top = best
  <2>1. \A g, h \in below : g[1] = h[1] => g = h
    BY DEF RiskGrades
  <2>2. top \in below /\ \A h \in below : h[1] <= top[1]
    BY <1>2
  <2>3. top[1] \in Int /\ best[1] \in Int
    BY <1>2, <2>2 DEF RiskGrades
  <2> HIDE DEF below, top
  <2> QED BY <1>2, <2>1, <2>2, <2>3
<1>3. below \subseteq RiskGrades /\ \A g \in RiskGrades : g \in below <=> n >= g[1]
  OBVIOUS
<1> HIDE DEF below, top
<1>4. CASE n >= 80
  <2>1. <<80, 100>> \in below /\ \A h \in below : h[1] <= 80
    BY <1>3, <1>4 DEF RiskGrades
  <2> QED BY <1>1, <1>2, <1>4, <2>1
<1>5. CASE n < 80 /\ n >= 60
  <2>1. <<60, 70>> \in below /\ \A h \in below : h[1] <= 60
    BY <1>3, <1>5 DEF RiskGrades
  <2> QED BY <1>1, <1>2, <1>5, <2>1
<1>6. CASE n < 60 /\ n >= 40
  <2>1. <<40, 40>> \in below /\ \A h \in below : h[1] <= 40
    BY <1>3, <1>6 DEF RiskGrades
  <2> QED BY <1>1, <1>2, <1>6, <2>1
<1>7. CASE n < 40
  <2>1. below = {}
    BY <1>3, <1>7 DEF RiskGrades
  <2> QED BY <1>1, <1>7, <2>1
<1> QED BY <1>4, <1>5, <1>6, <1>7

LEMMA ScoreMonotone ==
  ASSUME Weights.risk_score >= 0, NEW s \in Snapshot, NEW age \in Int \cup {None},
         NEW m \in Int, NEW n \in Int, m <= n
  PROVE  /\ Score(s, m, age) \in 0 .. 100 /\ Score(s, n, age) \in 0 .. 100
         /\ Score(s, m, age) <= Score(s, n, age)
<1>1. Weights.risk_score \in Nat
  BY ScoringAssumption
<1> DEFINE p == Reached(m, RiskGrades)
           q == Reached(n, RiskGrades)
<1>2. p \in Nat /\ q \in Nat /\ p <= q
  BY RiskGradeReached
<1>3. ScoreRisk(m) = Share(Weights.risk_score, p) /\ ScoreRisk(n) = Share(Weights.risk_score, q)
  BY DEF ScoreRisk, RiskGrades
<1> HIDE DEF p, q
<1>4. /\ Weights.risk_score * p \in Nat /\ Weights.risk_score * q \in Nat
      /\ Weights.risk_score * p <= Weights.risk_score * q
  BY <1>1, <1>2, ProductMonotone
<1>5. ScoreRisk(m) <= ScoreRisk(n)
  BY <1>3, <1>4, QuotientMonotone DEF Share
<1>6. /\ OtherScores(s, age) \in Int
      /\ ScoreRisk(m) \in Int /\ ScoreRisk(n) \in Int
      /\ Score(s, m, age) = Clamp(OtherScores(s, age) + ScoreRisk(m))
      /\ Score(s, n, age) = Clamp(OtherScores(s, age) + ScoreRisk(n))
  BY ScoreParts
<1> QED BY <1>5, <1>6 DEF Clamp

\* If a positive risk score leads to a buy, a higher one does, with no less
\* confidence.
LEMMA SignalMonotone ==
  ASSUME Weights.risk_score >= 0, NEW s \in Snapshot, NEW age \in Int \cup {None},
         NEW m \in Int, NEW n \in Int, 0 < m, m <= n,
         MomentumSignal(s, m, age, FALSE).kind = "buy"
  PROVE  /\ MomentumSignal(s, n, age, FALSE).kind = "buy"
         /\ MomentumSignal(s, m, age, FALSE).confidence \in Nat
         /\ MomentumSignal(s, n, age, FALSE).confidence \in Nat
         /\ MomentumSignal(s, m, age, FALSE).confidence
              <= MomentumSignal(s, n, age, FALSE).confidence
<1> DEFINE Graded(points, score) ==
             IF points < MinRiskScore THEN Reject
             ELSE IF score >= 75 THEN Buy(10 * score)
             ELSE IF score >= 60 THEN Buy(8 * score)
             ELSE IF score >= 45 THEN Watch
             ELSE Reject
           x == Score(s, m, age)
           y == Score(s, n, age)
<1>1. x \in 0 .. 100 /\ y \in 0 .. 100 /\ x <= y
  BY ScoreMonotone
<1>2. \A points \in Int : points > 0 =>
        MomentumSignal(s, points, age, FALSE) = Graded(points, Score(s, points, age))
  BY ScoringAssumption DEF MomentumSignal, OrZero
<1>3. MomentumSignal(s, m, age, FALSE) = Graded(m, x)
      /\ MomentumSignal(s, n, age, FALSE) = Graded(n, y)
  <2>1. m > 0 /\ n > 0
    OBVIOUS
  <2> HIDE DEF Graded
  <2> QED BY <1>2, <2>1
<1> HIDE DEF x, y
<1>4. ~(m < MinRiskScore) /\ (x >= 75 \/ x >= 60)
  <2>1. Reject.kind # "buy" /\ Watch.kind # "buy"
    BY DEF Reject, Watch
  <2>2. Graded(m, x).kind = "buy"
    BY <1>3
  <2>3. m < MinRiskScore => Graded(m, x) = Reject
    OBVIOUS
  <2>4. ~(m < MinRiskScore) /\ ~(x >= 75) /\ ~(x >= 60) => Graded(m, x) \in {Watch, Reject}
    OBVIOUS
  <2> HIDE DEF Graded
  <2> QED BY <2>1, <2>2, <2>3, <2>4
<1>5. ~(n < MinRiskScore) /\ x >= 60 /\ y >= 60
  BY <1>1, <1>4, ScoringAssumption
<1>6. Graded(m, x) = IF x >= 75 THEN Buy(10 * x) ELSE Buy(8 * x)
  BY <1>4, <1>5
<1>7. Graded(n, y) = IF y >= 75 THEN Buy(10 * y) ELSE Buy(8 * y)
  BY <1>5
<1> HIDE DEF Graded
<1>8. /\ Graded(n, y).kind = "buy"
      /\ Graded(m, x).confidence = IF x >= 75 THEN 10 * x ELSE 8 * x
      /\ Graded(n, y).confidence = IF y >= 75 THEN 10 * y ELSE 8 * y
  BY <1>6, <1>7 DEF Buy
<1>9. /\ Graded(m, x).confidence \in Nat /\ Graded(n, y).confidence \in Nat
      /\ Graded(m, x).confidence <= Graded(n, y).confidence
  BY <1>1, <1>5, <1>8
<1> QED BY <1>3, <1>8, <1>9

\* Rounding to cents: k cents are a result of rounding amount if they are one
\* of its two neighbours and half a cent away at most.
Cents(amount) == amount \div (10 * Unit)
Near(amount, k) ==
  amount - k * (10 * Unit) <= 5 * Unit /\ k * (10 * Unit) - amount <= 5 * Unit

LEMMA CentsFacts ==
  ASSUME NEW amount \in Int
  PROVE  /\ Unit \in Nat \ {0} /\ 10 * Unit \in Nat
         /\ Cents(amount) \in Int
         /\ Cents(amount) * (10 * Unit) \in Int
         /\ (Cents(amount) + 1) * (10 * Unit) = Cents(amount) * (10 * Unit) + 10 * Unit
         /\ Cents(amount) * (10 * Unit) <= amount
         /\ amount < Cents(amount) * (10 * Unit) + 10 * Unit
<1>1. Unit \in Nat \ {0}
  BY RiskAssumption DEF Unit
<1> DEFINE d == 10 * Unit
           q == Cents(amount)
<1>2. d \in Nat /\ d > 0
  BY <1>1
<1>3. q = amount \div d
  BY DEF Cents
<1> HIDE DEF d, q
<1>4. q \in Int /\ q * d <= amount /\ amount < q * d + d
  BY <1>2, <1>3, SMTT(30)
<1>5. q * d \in Int /\ (q + 1) * d = q * d + d
  BY <1>2, <1>4
<1> QED BY <1>1, <1>2, <1>4, <1>5 DEF d, q

LEMMA RoundedIsNear ==
  ASSUME NEW amount \in Int, NEW size
  PROVE  size \in Rounded(amount) <=>
           \E k \in {Cents(amount), Cents(amount) + 1} : size = 10 * k /\ Near(amount, k)
<1>1. Unit \in Int /\ Cents(amount) \in Int
  BY CentsFacts
<1>2. \A k \in Int : (10 * k) * Unit = k * (10 * Unit)
  BY <1>1
<1>3. 10 * Cents(amount) + 10 = 10 * (Cents(amount) + 1)
  BY <1>1
<1>4. Rounded(amount) =
        {raw \in {10 * Cents(amount), 10 * (Cents(amount) + 1)} :
           amount - raw * Unit <= 5 * Unit /\ raw * Unit - amount <= 5 * Unit}
  BY <1>3 DEF Rounded, Cents
<1> HIDE DEF Unit
<1>5. Cents(amount) + 1 \in Int
  BY <1>1
<1> QED BY <1>1, <1>2, <1>4, <1>5 DEF Near

\* Rounding keeps the order: to whatever a lower amount is rounded, a higher
\* one can be rounded to no less, although ties go either way.
LEMMA RoundedMonotone ==
  ASSUME NEW a \in Int, NEW b \in Int, a <= b, NEW less \in Rounded(a)
  PROVE  less \in Int /\ \E size \in Rounded(b) : size \in Int /\ less <= size
<1> DEFINE p == Cents(a)
           q == Cents(b)
           d == 10 * Unit
<1>1. /\ Unit \in Nat \ {0} /\ d \in Nat /\ d = 10 * Unit
      /\ p \in Int /\ p * d \in Int /\ (p + 1) * d = p * d + d
      /\ q \in Int /\ q * d \in Int /\ (q + 1) * d = q * d + d
      /\ p * d <= a /\ a < p * d + d
      /\ q * d <= b /\ b < q * d + d
  BY CentsFacts
<1>2. p <= q
  BY <1>1, QuotientMonotone DEF Cents
<1>3. PICK k \in {p, p + 1} : less = 10 * k /\ Near(a, k)
  BY RoundedIsNear
<1>4. \A n \in {q, q + 1} : Near(b, n) => 10 * n \in Rounded(b)
  BY RoundedIsNear
<1> HIDE DEF p, q
<1>5. Near(a, k) <=> a - k * d <= 5 * Unit /\ k * d - a <= 5 * Unit
  BY DEF Near
<1>6. \A n \in {q, q + 1} :
        Near(b, n) <=> b - n * d <= 5 * Unit /\ n * d - b <= 5 * Unit
  BY DEF Near
<1> HIDE DEF d, Unit
<1>7. \E n \in {q, q + 1} : Near(b, n) /\ k <= n
  <2>1. CASE b - q * d > 5 * Unit
    <3>1. Near(b, q + 1)
      BY <1>1, <1>6, <2>1
    <3> QED BY <1>1, <1>2, <1>3, <3>1
  <2>2. CASE b - q * d <= 5 * Unit
    <3>1. Near(b, q)
      BY <1>1, <1>6, <2>2
    <3>2. CASE k <= q
      BY <3>1, <3>2
    <3>3. CASE k > q
      <4>1. k = p + 1 /\ p = q
        BY <1>1, <1>2, <1>3, <3>3
      <4>2. Near(b, q + 1)
        BY <1>1, <1>3, <1>5, <1>6, <4>1
      <4> QED BY <1>1, <4>1, <4>2
    <3> QED BY <1>1, <1>3, <3>2, <3>3
  <2> QED BY <1>1, <2>1, <2>2
<1>8. k \in Int
  BY <1>1, <1>3
<1> QED BY <1>1, <1>3, <1>4, <1>7, <1>8

\* Nothing rounds to nothing.
LEMMA RoundedZero == Rounded(0) = {0}
<1>1. Unit \in Nat \ {0} /\ Cents(0) = 0
  BY CentsFacts, RiskAssumption, SMTT(30) DEF Cents, Unit
<1> HIDE DEF Unit
<1>2. Rounded(0) = {size \in {0, 10} : 0 - size * Unit <= 5 * Unit /\ size * Unit - 0 <= 5 * Unit}
  BY <1>1 DEF Rounded, Cents
<1> QED BY <1>1, <1>2

\* What the sizer finds when it does not refuse.
LEMMA SizerFacts ==
  ASSUME NEW b \in Books, ~SizerRefuses(PortfolioRisk(b))
  PROVE  LET p == PortfolioRisk(b)
         IN  /\ p.wallet \in Nat
             /\ Lesser(MaxPosition * MaxOpenPositions, p.wallet) \in Nat
             /\ Remaining(p) \in Nat
             /\ Remaining(p) * Unit \in Nat
<1> DEFINE p == PortfolioRisk(b)
<1>1. p.wallet \in Nat /\ p.exposure \in Int /\ p.daily_loss \in Nat /\ p.open \in Nat
  BY PortfolioRiskType
<1> HIDE DEF p
<1>2. ~SizerRefuses(p)
  BY DEF p
<1>3. MaxPosition * MaxOpenPositions \in Nat
  BY RiskAssumption
<1>4. Lesser(MaxPosition * MaxOpenPositions, p.wallet) \in Nat
  BY <1>1, <1>3 DEF Lesser
<1>5. Remaining(p) \in Nat
  BY <1>1, <1>2, RiskAssumption DEF Remaining, Lesser, SizerRefuses
<1>6. Unit \in Nat
  BY RiskAssumption DEF Unit
<1>7. Remaining(p) * Unit \in Nat
  BY <1>5, <1>6
<1> QED BY <1>1, <1>4, <1>5, <1>7 DEF p

\* The base grows with the risk score and the confidence.
LEMMA BaseMonotone ==
  ASSUME NEW wallet, Lesser(MaxPosition * MaxOpenPositions, wallet) \in Nat,
         NEW m \in Nat, NEW n \in Nat, m <= n,
         NEW c \in Nat, NEW d \in Nat, c <= d
  PROVE  Base(wallet, m, c) <= Base(wallet, n, d)
<1> DEFINE w == Lesser(MaxPosition * MaxOpenPositions, wallet)
           f == ConfidenceFactor(c)
           g == ConfidenceFactor(d)
<1>1. f \in Nat /\ g \in Nat /\ f <= g
  BY DEF ConfidenceFactor, Lesser
<1>2. w \in Nat
  OBVIOUS
<1>3. Base(wallet, m, c) = w * m * f /\ Base(wallet, n, d) = w * n * g
  BY DEF Base
<1> HIDE DEF w, f, g
<1>4. w * m \in Nat /\ w * n \in Nat /\ w * m <= w * n
  BY <1>2, ProductMonotone
<1>5. (w * m) * f <= (w * n) * g
  BY <1>1, <1>4, ProductMonotone
<1> QED BY <1>3, <1>5

\* On the same books, a higher base is not rounded, floored or capped to less.
LEMMA SizesMonotone ==
  ASSUME NEW b \in Books, NEW m \in Nat, NEW n \in Nat, NEW c \in Nat, NEW d \in Nat,
         LET wallet == PortfolioRisk(b).wallet
         IN  Base(wallet, m, c) <= Base(wallet, n, d),
         NEW less \in PositionSizes(PortfolioRisk(b), m, c)
  PROVE  \E size \in PositionSizes(PortfolioRisk(b), n, d) : less <= size
<1> DEFINE p        == PortfolioRisk(b)
           limit    == Remaining(p) * Unit
           smaller  == Base(p.wallet, m, c)
           larger   == Base(p.wallet, n, d)
<1>1. CASE SizerRefuses(p)
  BY <1>1 DEF PositionSizes
<1>2. CASE ~SizerRefuses(p)
  <2>1. limit \in Int
    BY <1>2, SizerFacts
  <2>2. smaller \in Int /\ larger \in Int /\ smaller <= larger
    <3>1. p.wallet \in Int /\ m \in Int /\ n \in Int /\ c \in Int /\ d \in Int
      BY PortfolioRiskType
    <3> HIDE DEF p
    <3>2. smaller \in Int /\ larger \in Int
      BY <3>1, BaseIsInt
    <3> QED BY <3>2 DEF p
  <2>3. /\ PositionSizes(p, m, c) = {Floored(size) : size \in Rounded(Lesser(smaller, limit))}
        /\ PositionSizes(p, n, d) = {Floored(size) : size \in Rounded(Lesser(larger, limit))}
    BY <1>2 DEF PositionSizes
  <2> HIDE DEF smaller, larger, limit
  <2>4. /\ Lesser(smaller, limit) \in Int /\ Lesser(larger, limit) \in Int
        /\ Lesser(smaller, limit) <= Lesser(larger, limit)
    BY <2>1, <2>2 DEF Lesser
  <2>5. PICK raw \in Rounded(Lesser(smaller, limit)) : less = Floored(raw)
    BY <2>3
  <2>6. raw \in Int /\ \E size \in Rounded(Lesser(larger, limit)) : size \in Int /\ raw <= size
    BY <2>4, RoundedMonotone
  <2>7. PICK size \in Rounded(Lesser(larger, limit)) : size \in Int /\ raw <= size
    BY <2>6
  <2>8. Floored(raw) <= Floored(size)
    BY <2>6, <2>7 DEF Floored
  <2> QED BY <2>3, <2>5, <2>7, <2>8
<1> QED BY <1>1, <1>2

\* With the score 0, which the strategy takes for an unknown one and the sizer for
\* a zero, nothing is bought.
LEMMA NoScoreNoSize ==
  ASSUME NEW b \in Books, NEW c \in Nat
  PROVE  PositionSizes(PortfolioRisk(b), 0, c) = {0}
<1> DEFINE p     == PortfolioRisk(b)
           limit == Remaining(p) * Unit
<1>1. CASE SizerRefuses(p)
  BY <1>1 DEF PositionSizes
<1>2. CASE ~SizerRefuses(p)
  <2>1. limit \in Nat /\ Lesser(MaxPosition * MaxOpenPositions, p.wallet) \in Nat
    BY <1>2, SizerFacts
  <2>2. Base(p.wallet, 0, c) = 0
    BY <2>1 DEF Base, ConfidenceFactor, Lesser
  <2>3. PositionSizes(p, 0, c) =
          {Floored(size) : size \in Rounded(Lesser(Base(p.wallet, 0, c), limit))}
    BY <1>2 DEF PositionSizes
  <2> HIDE DEF limit
  <2>4. Lesser(Base(p.wallet, 0, c), limit) = 0
    BY <2>1, <2>2 DEF Lesser
  <2>5. Floored(0) = 0
    BY DEF Floored
  <2> QED BY <2>3, <2>4, <2>5, RoundedZero
<1> QED BY <1>1, <1>2

\* The sizer returns something that is not negative.
LEMMA SomeSize ==
  ASSUME NEW b \in Books, NEW n \in Nat, NEW d \in Nat
  PROVE  \E size \in PositionSizes(PortfolioRisk(b), n, d) : 0 <= size
<1>1. 0 \in PositionSizes(PortfolioRisk(b), 0, d)
  BY NoScoreNoSize
<1>2. CASE SizerRefuses(PortfolioRisk(b))
  BY <1>2 DEF PositionSizes
<1>3. CASE ~SizerRefuses(PortfolioRisk(b))
  <2>1. /\ PortfolioRisk(b).wallet \in Nat
        /\ Lesser(MaxPosition * MaxOpenPositions, PortfolioRisk(b).wallet) \in Nat
    BY <1>3, SizerFacts
  <2>2. Base(PortfolioRisk(b).wallet, 0, d) <= Base(PortfolioRisk(b).wallet, n, d)
    BY <2>1, BaseMonotone
  <2>3. 0 \in Nat
    OBVIOUS
  <2> QED BY <1>1, <2>2, <2>3, SizesMonotone
<1> QED BY <1>2, <1>3

\* Had the risk engine scored the token of an order lower, on the same books, the
\* strategy and the sizer would not have bought more of it.  A negative weight of
\* the risk score (10 by default) would reward risk, and the lemmas fail.
THEOREM LowerScoreBuysNoMore ==
  ASSUME Weights.risk_score >= 0
  PROVE  Spec => []LowerScoreNeverBuysMore
<1>1. TypeOK => LowerScoreNeverBuysMore
  <2> SUFFICES ASSUME TypeOK, order # None PROVE LowerScoreNeverBuysMore
    BY DEF LowerScoreNeverBuysMore
  <2> DEFINE Signalled(score) == MomentumSignal(snapshot, score, Age, FALSE)
             Sizes(score) ==
               IF Signalled(score).kind = "buy"
               THEN PositionSizes(PortfolioRisk(books), score, Signalled(score).confidence)
               ELSE {0}
  <2>1. snapshot \in Snapshot /\ Age \in Int \cup {None}
    BY AgeType DEF TypeOK
  <2>2. books \in Books /\ risk \in 0 .. 100
    BY BuyPathAssumption DEF TypeOK
  <2>3. \A score \in 0 .. 100 : Signalled(score).confidence \in Nat
    BY <2>1, ConfidenceIsInt
  <2>4. SUFFICES ASSUME NEW lower \in 0 .. risk, NEW less \in Sizes(lower)
                 PROVE  \E size \in Sizes(risk) : less <= size
    BY DEF LowerScoreNeverBuysMore
  <2>5. /\ lower \in Nat /\ risk \in Nat /\ lower <= risk /\ lower \in 0 .. 100
        /\ Signalled(lower).confidence \in Nat /\ Signalled(risk).confidence \in Nat
    <3> HIDE DEF Signalled, Sizes
    <3>1. lower \in Nat /\ risk \in Nat /\ lower <= risk /\ lower \in 0 .. 100
      BY <2>2
    <3>2. Signalled(lower).confidence \in Nat /\ Signalled(risk).confidence \in Nat
      BY <2>2, <2>3, <3>1
    <3> QED BY <3>1, <3>2
  <2>6. \E size \in Sizes(risk) : 0 <= size
    <3>1. CASE Signalled(risk).kind = "buy"
      <4>1. Sizes(risk) =
              PositionSizes(PortfolioRisk(books), risk, Signalled(risk).confidence)
        BY <3>1
      <4> HIDE DEF Sizes, Signalled
      <4> QED BY <2>2, <2>5, <4>1, SomeSize
    <3>2. CASE Signalled(risk).kind # "buy"
      BY <3>2
    <3> QED BY <3>1, <3>2
  <2>7. CASE Signalled(lower).kind # "buy"
    BY <2>6, <2>7
  <2>8. CASE Signalled(lower).kind = "buy" /\ lower = 0
    <3>1. Sizes(lower) = PositionSizes(PortfolioRisk(books), 0, Signalled(lower).confidence)
      BY <2>8
    <3> HIDE DEF Sizes, Signalled
    <3>2. less = 0
      BY <2>2, <2>5, <3>1, NoScoreNoSize
    <3> QED BY <2>6, <3>2
  <2>9. CASE Signalled(lower).kind = "buy" /\ lower > 0
    <3>1. /\ Signalled(risk).kind = "buy"
          /\ Signalled(lower).confidence <= Signalled(risk).confidence
      <4>1. lower \in Int /\ risk \in Int /\ 0 < lower
        BY <2>5, <2>9
      <4> QED BY <2>1, <2>5, <2>9, <4>1, SignalMonotone
    <3>2. Sizes(lower) =
            PositionSizes(PortfolioRisk(books), lower, Signalled(lower).confidence)
      BY <2>9
    <3>3. Sizes(risk) =
            PositionSizes(PortfolioRisk(books), risk, Signalled(risk).confidence)
      BY <3>1
    <3> HIDE DEF Sizes, Signalled
    <3>4. CASE SizerRefuses(PortfolioRisk(books))
      BY <3>2, <3>3, <3>4 DEF PositionSizes
    <3>5. CASE ~SizerRefuses(PortfolioRisk(books))
      <4>1. Lesser(MaxPosition * MaxOpenPositions, PortfolioRisk(books).wallet) \in Nat
        BY <2>2, <3>5, SizerFacts
      <4>2. Base(PortfolioRisk(books).wallet, lower, Signalled(lower).confidence)
              <= Base(PortfolioRisk(books).wallet, risk, Signalled(risk).confidence)
        BY <2>5, <3>1, <4>1, BaseMonotone
      <4> QED BY <2>2, <2>5, <3>2, <3>3, <4>2, SizesMonotone
    <3> QED BY <3>4, <3>5
  <2>10. lower = 0 \/ lower > 0
    BY <2>5
  <2> HIDE DEF Sizes, Signalled
  <2> QED BY <2>7, <2>8, <2>9, <2>10
<1> QED BY <1>1, TypeCorrect, PTL
=============================================================================
