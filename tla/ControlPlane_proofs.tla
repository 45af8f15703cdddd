------------------------- MODULE ControlPlane_proofs -------------------------
(***************************************************************************)
(* Proofs about the breaker on its own (module BreakerAlone), for every    *)
(* value of its limits, and about the control plane around it, for every   *)
(* number of clients and session tokens.                                   *)
(***************************************************************************)
EXTENDS ControlPlane, CircuitBreaker_proofs, FiniteSetTheorems

-----------------------------------------------------------------------------
(***************************************************************************)
(* The breaker.                                                            *)
(***************************************************************************)
\* What a breaker in NORMAL says about its counters.
Below(b) ==
  CanTrade(b) =>
    /\ b.exec < ExecutionFailureLimit
    /\ b.rpc < RpcFailureLimit
    /\ b.jupiter < JupiterFailureLimit
    /\ b.unknown < UnknownTxLimit

\* No method leaves trading allowed with an exhausted counter, whatever the
\* state and the counters were before the call.
LEMMA MethodsKeepBelow ==
  ASSUME NEW b \in Breaker, Below(b)
  PROVE  /\ Below(ExecutionFailure(b))
         /\ Below(RpcFailure(b))
         /\ Below(JupiterUnavailable(b))
         /\ Below(UnknownTxState(b))
         /\ Below(Pause(b))
         /\ Below(AbnormalSlippage(b))
         /\ Below(Emergency(b))
         /\ Below(Resume(b))
         /\ Below(Success(b))
<1> USE BreakerLimitsAssumption
    DEF Breaker, BreakerStates, Transition, Below, CanTrade
<1>1. Below(ExecutionFailure(b))
  BY DEF ExecutionFailure, Increment
<1>2. Below(RpcFailure(b))
  BY DEF RpcFailure, Increment
<1>3. Below(JupiterUnavailable(b))
  BY DEF JupiterUnavailable, Increment
<1>4. Below(UnknownTxState(b))
  BY DEF UnknownTxState, Increment
<1>5. /\ Below(Pause(b))
      /\ Below(AbnormalSlippage(b))
      /\ Below(Emergency(b))
  BY DEF Pause, AbnormalSlippage, Emergency
<1>6. /\ Below(Resume(b))
      /\ Below(Success(b))
  BY DEF Resume, Success, ClearCounts
<1> QED
  BY <1>1, <1>2, <1>3, <1>4, <1>5, <1>6

\* The only methods that can take a paused or stopped breaker to NORMAL are
\* not among the ones a Call makes.
LEMMA MethodsKeepPaused ==
  ASSUME NEW b \in Breaker, IsPaused(b)
  PROVE  /\ ~CanTrade(ExecutionFailure(b))
         /\ ~CanTrade(RpcFailure(b))
         /\ ~CanTrade(JupiterUnavailable(b))
         /\ ~CanTrade(UnknownTxState(b))
         /\ ~CanTrade(Pause(b))
         /\ ~CanTrade(AbnormalSlippage(b))
         /\ ~CanTrade(Emergency(b))
         /\ ~CanTrade(Success(b))
<1> USE DEF Breaker, BreakerStates, Transition, IsPaused, CanTrade
<1>1. /\ ~CanTrade(ExecutionFailure(b))
      /\ ~CanTrade(RpcFailure(b))
  BY DEF ExecutionFailure, RpcFailure
<1>2. /\ ~CanTrade(JupiterUnavailable(b))
      /\ ~CanTrade(UnknownTxState(b))
  BY DEF JupiterUnavailable, UnknownTxState
<1>3. /\ ~CanTrade(Pause(b))
      /\ ~CanTrade(AbnormalSlippage(b))
      /\ ~CanTrade(Emergency(b))
      /\ ~CanTrade(Success(b))
  BY DEF Pause, AbnormalSlippage, Emergency, Success, ClearCounts
<1> QED
  BY <1>1, <1>2, <1>3

-----------------------------------------------------------------------------
\* Type correctness is inductive.
LEMMA TypeStep ==
  ASSUME TypeOK, [Next]_vars
  PROVE  TypeOK'
<1>1. ASSUME NEW after \in Breaker, Call(after)
      PROVE  TypeOK'
  BY <1>1 DEF Call, TypeOK
<1>2. ASSUME OperatorResume
      PROVE  TypeOK'
  <2>1. Resume(breaker) \in Breaker
    BY MethodsKeepBreaker DEF TypeOK
  <2>2. ~IsPaused(Resume(breaker))
    BY DEF TypeOK, Breaker, BreakerStates, IsPaused, Resume, ClearCounts,
           Transition
  <2> QED
    BY <1>2, <2>1, <2>2 DEF OperatorResume, TypeOK
<1>3. CASE UNCHANGED vars
  BY <1>3 DEF vars, TypeOK, IsPaused
<1> QED
  BY <1>1, <1>2, <1>3, MethodsKeepBreaker
  DEF TypeOK, Next, RecordExecutionFailure, RecordRpcFailure,
      RecordJupiterUnavailable, RecordUnknownTx, RecordPauseCondition,
      RecordAbnormalSlippage, DeclareEmergency, RecordSuccess

\* The breaker keeps its shape in every behaviour, for all limits.
THEOREM BreakerTypeCorrect == Spec => []TypeOK
<1>1. Init => TypeOK
  <2>1. NewBreaker \in Breaker
    BY NewBreakerInBreaker
  <2>2. ~IsPaused(NewBreaker)
    BY DEF NewBreaker, IsPaused
  <2> QED
    BY <2>1, <2>2 DEF Init, TypeOK
<1> QED
  BY <1>1, TypeStep, PTL DEF Spec

\* Trading is never allowed on an exhausted failure budget, for all limits.
THEOREM BreakerBelowLimits == Spec => []NormalMeansBelowLimits
<1>1. Init => NormalMeansBelowLimits
  BY BreakerLimitsAssumption DEF Init, NormalMeansBelowLimits, NewBreaker
<1>2. TypeOK /\ NormalMeansBelowLimits /\ [Next]_vars => NormalMeansBelowLimits'
  <2> SUFFICES ASSUME TypeOK, NormalMeansBelowLimits, [Next]_vars
               PROVE  NormalMeansBelowLimits'
    OBVIOUS
  <2>1. breaker \in Breaker /\ Below(breaker)
    BY DEF TypeOK, NormalMeansBelowLimits, Below
  <2>2. ASSUME NEW after, Below(after), breaker' = after
        PROVE  NormalMeansBelowLimits'
    BY <2>2 DEF Below, NormalMeansBelowLimits, CanTrade
  <2>3. CASE UNCHANGED vars
    BY <2>1, <2>2, <2>3 DEF vars
  <2> QED
    BY <2>1, <2>2, <2>3, MethodsKeepBelow
    DEF Next, Call, OperatorResume, RecordExecutionFailure, RecordRpcFailure,
        RecordJupiterUnavailable, RecordUnknownTx, RecordPauseCondition,
        RecordAbnormalSlippage, DeclareEmergency, RecordSuccess
<1> QED
  BY <1>1, <1>2, BreakerTypeCorrect, PTL DEF Spec

\* Only the operator's resume takes a paused or stopped breaker to NORMAL.
THEOREM BreakerPauseHolds == Spec => PauseClearedOnlyByResume
<1>1. TypeOK /\ [Next]_vars
        => [(IsPaused(breaker) /\ CanTrade(breaker')) => ~tripped']_vars
  <2> SUFFICES ASSUME TypeOK, Next, IsPaused(breaker), CanTrade(breaker')
               PROVE  ~tripped'
    BY DEF vars
  <2>1. CASE OperatorResume
    BY <2>1 DEF OperatorResume
  <2>2. ASSUME NEW after, ~CanTrade(after), Call(after)
        PROVE  FALSE
    BY <2>2 DEF Call
  <2> QED
    BY <2>1, <2>2, MethodsKeepPaused
    DEF TypeOK, Next, RecordExecutionFailure, RecordRpcFailure,
        RecordJupiterUnavailable, RecordUnknownTx, RecordPauseCondition,
        RecordAbnormalSlippage, DeclareEmergency, RecordSuccess
<1> QED
  BY <1>1, BreakerTypeCorrect, PTL DEF Spec, PauseClearedOnlyByResume

-----------------------------------------------------------------------------
(***************************************************************************)
(* The control plane.                                                      *)
(***************************************************************************)
\* The control plane adds nothing to what its breaker can do.
LEMMA StepIsBreakerStep ==
  ASSUME [ControlNext]_controlVars
  PROVE  [Next]_vars
<1>1. CASE FromLoop
  BY <1>1 DEF FromLoop, Next
<1>2. CASE ClockTicks
  BY <1>2 DEF ClockTicks, breakerVars, vars
<1>3. CASE Login
  BY <1>3 DEF Login, breakerVars, vars
<1>4. ASSUME NEW t \in SessionTokens, Read(t)
      PROVE  [Next]_vars
  BY <1>4 DEF Read, breakerVars, vars
<1>5. ASSUME NEW r \in Requests, LogoutRequest(r)
      PROVE  [Next]_vars
  BY <1>5 DEF LogoutRequest, breakerVars, vars
<1>6. ASSUME NEW r \in Requests,
             PauseRequest(r) \/ ResumeRequest(r) \/ EmergencyRequest(r)
      PROVE  [Next]_vars
  BY <1>6 DEF PauseRequest, ResumeRequest, EmergencyRequest, Next
<1>7. CASE UNCHANGED controlVars
  BY <1>7 DEF controlVars, vars
<1> QED
  BY <1>1, <1>2, <1>3, <1>4, <1>5, <1>6, <1>7 DEF ControlNext

\* Every behaviour of the control plane is one of the breaker's own, so that
\* what the breaker promises its callers holds behind the dashboard too.
THEOREM ControlImplementsBreaker == ControlSpec => Spec
<1>1. ControlInit => Init
  BY DEF ControlInit
<1> QED
  BY <1>1, StepIsBreakerStep, PTL DEF ControlSpec, Spec

\* Trading is never allowed on top of an exhausted failure budget, whatever
\* the loop, the clock and the dashboard do.
THEOREM ControlBelowLimits == ControlSpec => []NormalMeansBelowLimits
BY ControlImplementsBreaker, BreakerBelowLimits, PTL

\* Every step of the control plane is one of these on the sessions.
SessionsNext ==
  \/ Tick
  \/ \E c \in LoginClients : LoginRefused(c) \/ LoginFails(c)
  \/ \E c \in LoginClients, t \in SessionTokens : LoginSucceeds(c, t)
  \/ \E t \in SessionTokens : Touch(t)
  \/ \E t, csrf \in SessionTokens : Logout(t, csrf)

LEMMA StepIsSessionsStep ==
  ASSUME [ControlNext]_controlVars
  PROVE  [SessionsNext]_sessionVars
<1>1. CASE FromLoop
  BY <1>1 DEF FromLoop
<1>2. CASE ClockTicks
  BY <1>2 DEF ClockTicks, SessionsNext
<1>3. CASE Login
  BY <1>3 DEF Login, SessionsNext
<1>4. ASSUME NEW t \in SessionTokens, Read(t)
      PROVE  SessionsNext
  BY <1>4 DEF Read, SessionsNext
<1>5. ASSUME NEW r \in Requests, LogoutRequest(r)
      PROVE  SessionsNext
  BY <1>5 DEF LogoutRequest, SessionsNext, Requests
<1>6. ASSUME NEW r \in Requests,
             PauseRequest(r) \/ ResumeRequest(r) \/ EmergencyRequest(r)
      PROVE  SessionsNext
  BY <1>6 DEF PauseRequest, ResumeRequest, EmergencyRequest, Admit,
              SessionsNext, Requests
<1>7. CASE UNCHANGED controlVars
  BY <1>7 DEF controlVars, sessionVars
<1> QED
  BY <1>1, <1>2, <1>3, <1>4, <1>5, <1>6, <1>7 DEF ControlNext

-----------------------------------------------------------------------------
(***************************************************************************)
(* The inductive invariant of the sessions.                                *)
(***************************************************************************)
\* What the limiter keeps of a client lies between its recent guesses and all
\* of them: old ones may linger, recent ones are never lost.
LimiterCovers ==
  \A c \in LoginClients :
    /\ IsFiniteSet(guesses[c])
    /\ failures[c] \subseteq guesses[c]
    /\ RecentGuesses(c) \subseteq failures[c]
    /\ Cardinality(RecentGuesses(c)) <= MaxFailures

SessionsWereIssued ==
  \A t \in SessionTokens : sessions[t] # NoSession => t \in issued

SessionsInv == SessionsTypeOK /\ LimiterCovers /\ SessionsWereIssued

LEMMA SessionsTypeStep ==
  ASSUME SessionsTypeOK, LimiterCovers, SessionsNext
  PROVE  SessionsTypeOK'
<1> USE SessionsAssumption
<1>1. CASE Tick
  BY <1>1 DEF Tick, SessionsTypeOK
<1>2. ASSUME NEW c \in LoginClients, LoginRefused(c)
      PROVE  SessionsTypeOK'
  <2>1. Prune(failures[c]) \in SUBSET Failure
    BY DEF Prune, SessionsTypeOK
  <2> QED
    BY <1>2, <2>1 DEF LoginRefused, SessionsTypeOK
<1>3. ASSUME NEW c \in LoginClients, LoginFails(c)
      PROVE  SessionsTypeOK'
  <2> DEFINE guess == [nr |-> Cardinality(guesses[c]) + 1, at |-> now]
  <2>1. Cardinality(guesses[c]) \in Nat
    BY FS_CardinalityType DEF LimiterCovers
  <2>2. guess \in Failure
    BY <2>1 DEF Failure, SessionsTypeOK
  <2>3. Prune(failures[c]) \cup {guess} \in SUBSET Failure
    BY <2>2 DEF Prune, SessionsTypeOK
  <2>4. guesses[c] \cup {guess} \in SUBSET Failure
    BY <2>2 DEF SessionsTypeOK
  <2>5. /\ failures' = [failures EXCEPT ![c] = Prune(failures[c]) \cup {guess}]
        /\ guesses' = [guesses EXCEPT ![c] = guesses[c] \cup {guess}]
        /\ UNCHANGED <<now, sessions, issued>>
    BY <1>3 DEF LoginFails
  <2> HIDE DEF guess
  <2> QED
    BY <2>3, <2>4, <2>5 DEF SessionsTypeOK
<1>4. ASSUME NEW c \in LoginClients, NEW t \in SessionTokens,
             LoginSucceeds(c, t)
      PROVE  SessionsTypeOK'
  BY <1>4 DEF LoginSucceeds, SessionsTypeOK
<1>5. ASSUME NEW t \in SessionTokens, Touch(t)
      PROVE  SessionsTypeOK'
  BY <1>5 DEF Touch, Validate, NoSession, SessionsTypeOK
<1>6. ASSUME NEW t \in SessionTokens, NEW csrf \in SessionTokens, Logout(t, csrf)
      PROVE  SessionsTypeOK'
  BY <1>6 DEF Logout, NoSession, SessionsTypeOK
<1> QED
  BY <1>1, <1>2, <1>3, <1>4, <1>5, <1>6 DEF SessionsNext

\* A step that leaves a client's records alone, however the clock moves on.
LEMMA OtherClientsCovered ==
  ASSUME SessionsTypeOK, SessionsTypeOK', LimiterCovers, NEW c \in LoginClients,
         failures'[c] = failures[c], guesses'[c] = guesses[c], now' >= now
  PROVE  /\ IsFiniteSet(guesses'[c])
         /\ failures'[c] \subseteq guesses'[c]
         /\ RecentGuesses(c)' \subseteq failures'[c]
         /\ Cardinality(RecentGuesses(c)') <= MaxFailures
<1>1. RecentGuesses(c)' \subseteq RecentGuesses(c)
  BY SessionsAssumption DEF RecentGuesses, SessionsTypeOK, Failure
<1>2. IsFiniteSet(RecentGuesses(c))
  BY FS_Subset DEF RecentGuesses, LimiterCovers
<1>3. /\ IsFiniteSet(RecentGuesses(c)')
      /\ Cardinality(RecentGuesses(c)') <= Cardinality(RecentGuesses(c))
  BY <1>1, <1>2, FS_Subset
<1>4. /\ Cardinality(RecentGuesses(c)') \in Nat
      /\ Cardinality(RecentGuesses(c)) \in Nat
  BY <1>2, <1>3, FS_CardinalityType
<1> QED
  BY <1>1, <1>3, <1>4, SessionsAssumption DEF LimiterCovers

\* What a prune leaves of the kept failures is exactly the recent guesses.
LEMMA PruneKeepsRecent ==
  ASSUME SessionsTypeOK, LimiterCovers, NEW c \in LoginClients
  PROVE  Prune(failures[c]) = RecentGuesses(c)
<1>1. /\ failures[c] \subseteq Failure
      /\ failures[c] \subseteq guesses[c]
      /\ RecentGuesses(c) \subseteq failures[c]
  BY DEF SessionsTypeOK, LimiterCovers
<1>2. \A f \in Failure : f.at >= now - Window <=> now <= f.at + Window
  BY SessionsAssumption DEF Failure, SessionsTypeOK
<1>3. Prune(failures[c]) \subseteq RecentGuesses(c)
  BY <1>1, <1>2 DEF Prune, RecentGuesses
<1>4. RecentGuesses(c) \subseteq Prune(failures[c])
  BY <1>1, <1>2 DEF Prune, RecentGuesses
<1> QED
  BY <1>3, <1>4

LEMMA LimiterStep ==
  ASSUME SessionsTypeOK, SessionsTypeOK', LimiterCovers, SessionsNext
  PROVE  LimiterCovers'
<1> USE SessionsAssumption
<1> SUFFICES ASSUME NEW c \in LoginClients
             PROVE  /\ IsFiniteSet(guesses'[c])
                    /\ failures'[c] \subseteq guesses'[c]
                    /\ RecentGuesses(c)' \subseteq failures'[c]
                    /\ Cardinality(RecentGuesses(c)') <= MaxFailures
  BY DEF LimiterCovers
<1>1. CASE Tick
  BY <1>1, OtherClientsCovered DEF Tick, SessionsTypeOK
<1>2. ASSUME NEW d \in LoginClients, LoginRefused(d)
      PROVE  /\ IsFiniteSet(guesses'[c])
             /\ failures'[c] \subseteq guesses'[c]
             /\ RecentGuesses(c)' \subseteq failures'[c]
             /\ Cardinality(RecentGuesses(c)') <= MaxFailures
  <2>1. CASE c # d
    BY <1>2, <2>1, OtherClientsCovered DEF LoginRefused, SessionsTypeOK
  <2>2. CASE c = d
    <3>1. RecentGuesses(c)' = RecentGuesses(c)
      BY <1>2 DEF LoginRefused, RecentGuesses
    <3>2. failures'[c] = RecentGuesses(c)
      BY <1>2, <2>2, PruneKeepsRecent DEF LoginRefused, SessionsTypeOK
    <3>3. guesses'[c] = guesses[c]
      BY <1>2 DEF LoginRefused
    <3> QED
      BY <3>1, <3>2, <3>3 DEF LimiterCovers, RecentGuesses
  <2> QED
    BY <2>1, <2>2
<1>3. ASSUME NEW d \in LoginClients, LoginFails(d)
      PROVE  /\ IsFiniteSet(guesses'[c])
             /\ failures'[c] \subseteq guesses'[c]
             /\ RecentGuesses(c)' \subseteq failures'[c]
             /\ Cardinality(RecentGuesses(c)') <= MaxFailures
  <2>1. CASE c # d
    BY <1>3, <2>1, OtherClientsCovered DEF LoginFails, SessionsTypeOK
  <2>2. CASE c = d
    <3> DEFINE guess == [nr |-> Cardinality(guesses[c]) + 1, at |-> now]
    <3>1. guesses'[c] = guesses[c] \cup {guess}
      BY <1>3, <2>2 DEF LoginFails, SessionsTypeOK
    <3>2. failures'[c] = RecentGuesses(c) \cup {guess}
      BY <1>3, <2>2, PruneKeepsRecent DEF LoginFails, SessionsTypeOK
    <3>3. guess.at = now
      OBVIOUS
    <3>4. now' = now
      BY <1>3 DEF LoginFails
    <3> HIDE DEF guess
    <3>5. RecentGuesses(c)' = RecentGuesses(c) \cup {guess}
      BY <3>1, <3>3, <3>4 DEF RecentGuesses, SessionsTypeOK
    <3>6. /\ IsFiniteSet(RecentGuesses(c))
          /\ Cardinality(RecentGuesses(c)) \in Nat
      BY FS_Subset, FS_CardinalityType DEF RecentGuesses, LimiterCovers
    <3>7. Cardinality(RecentGuesses(c)) < MaxFailures
      BY <1>3, <2>2, <3>6, PruneKeepsRecent DEF LoginFails, IsBlocked
    <3>8. Cardinality(RecentGuesses(c) \cup {guess})
            <= Cardinality(RecentGuesses(c)) + 1
      BY <3>6, FS_AddElement
    <3>9. IsFiniteSet(RecentGuesses(c) \cup {guess})
      BY <3>6, FS_AddElement
    <3>10. Cardinality(RecentGuesses(c) \cup {guess}) \in Nat
      BY <3>9, FS_CardinalityType
    <3>11. Cardinality(RecentGuesses(c)') <= MaxFailures
      BY <3>5, <3>6, <3>7, <3>8, <3>10
    <3>12. IsFiniteSet(guesses'[c])
      BY <3>1, FS_AddElement DEF LimiterCovers
    <3>13. failures'[c] \subseteq guesses'[c]
      BY <3>1, <3>2 DEF RecentGuesses
    <3> QED
      BY <3>2, <3>5, <3>11, <3>12, <3>13
  <2> QED
    BY <2>1, <2>2
<1>4. ASSUME NEW d \in LoginClients, NEW t \in SessionTokens,
             LoginSucceeds(d, t)
      PROVE  /\ IsFiniteSet(guesses'[c])
             /\ failures'[c] \subseteq guesses'[c]
             /\ RecentGuesses(c)' \subseteq failures'[c]
             /\ Cardinality(RecentGuesses(c)') <= MaxFailures
  <2>1. CASE c # d
    BY <1>4, <2>1, OtherClientsCovered DEF LoginSucceeds, SessionsTypeOK
  <2>2. CASE c = d
    <3>1. guesses'[c] = {} /\ failures'[c] = {}
      BY <1>4, <2>2 DEF LoginSucceeds, SessionsTypeOK
    <3>2. RecentGuesses(c)' = {}
      BY <3>1 DEF RecentGuesses
    <3> QED
      BY <3>1, <3>2, FS_EmptySet
  <2> QED
    BY <2>1, <2>2
<1>5. ASSUME NEW t \in SessionTokens, Touch(t)
      PROVE  /\ IsFiniteSet(guesses'[c])
             /\ failures'[c] \subseteq guesses'[c]
             /\ RecentGuesses(c)' \subseteq failures'[c]
             /\ Cardinality(RecentGuesses(c)') <= MaxFailures
  BY <1>5, OtherClientsCovered DEF Touch, SessionsTypeOK
<1>6. ASSUME NEW t \in SessionTokens, NEW csrf \in SessionTokens, Logout(t, csrf)
      PROVE  /\ IsFiniteSet(guesses'[c])
             /\ failures'[c] \subseteq guesses'[c]
             /\ RecentGuesses(c)' \subseteq failures'[c]
             /\ Cardinality(RecentGuesses(c)') <= MaxFailures
  BY <1>6, OtherClientsCovered DEF Logout, SessionsTypeOK
<1> QED
  BY <1>1, <1>2, <1>3, <1>4, <1>5, <1>6 DEF SessionsNext

LEMMA IssuedStep ==
  ASSUME SessionsTypeOK, SessionsWereIssued, SessionsNext
  PROVE  SessionsWereIssued'
<1>1. CASE Tick
  BY <1>1 DEF Tick, SessionsWereIssued
<1>2. ASSUME NEW c \in LoginClients, LoginRefused(c) \/ LoginFails(c)
      PROVE  SessionsWereIssued'
  BY <1>2 DEF LoginRefused, LoginFails, SessionsWereIssued
<1>3. ASSUME NEW c \in LoginClients, NEW t \in SessionTokens,
             LoginSucceeds(c, t)
      PROVE  SessionsWereIssued'
  BY <1>3 DEF LoginSucceeds, SessionsWereIssued, SessionsTypeOK
<1>4. ASSUME NEW t \in SessionTokens, Touch(t)
      PROVE  SessionsWereIssued'
  BY <1>4 DEF Touch, Validate, IsLive, SessionsWereIssued, SessionsTypeOK
<1>5. ASSUME NEW t \in SessionTokens, NEW csrf \in SessionTokens, Logout(t, csrf)
      PROVE  SessionsWereIssued'
  BY <1>5 DEF Logout, SessionsWereIssued, SessionsTypeOK
<1> QED
  BY <1>1, <1>2, <1>3, <1>4, <1>5 DEF SessionsNext

\* The inductive invariant holds in every behaviour.
THEOREM SessionsInvariant == ControlSpec => []SessionsInv
<1>1. ControlInit => SessionsInv
  <2> SUFFICES ASSUME SessionsInit
               PROVE  SessionsInv
    BY DEF ControlInit
  <2>1. SessionsTypeOK /\ SessionsWereIssued
    BY SessionsAssumption
    DEF SessionsInit, SessionsTypeOK, SessionsWereIssued, NoSession
  <2>2. ASSUME NEW c \in LoginClients
        PROVE  /\ guesses[c] = {} /\ failures[c] = {}
               /\ RecentGuesses(c) = {}
    BY DEF SessionsInit, RecentGuesses
  <2>3. LimiterCovers
    BY <2>2, FS_EmptySet, SessionsAssumption DEF LimiterCovers
  <2> QED
    BY <2>1, <2>3 DEF SessionsInv
<1>2. SessionsInv /\ [ControlNext]_controlVars => SessionsInv'
  <2> SUFFICES ASSUME SessionsInv, [SessionsNext]_sessionVars
               PROVE  SessionsInv'
    BY StepIsSessionsStep
  <2>1. CASE SessionsNext
    BY <2>1, SessionsTypeStep, LimiterStep, IssuedStep DEF SessionsInv
  <2>2. CASE UNCHANGED sessionVars
    BY <2>2 DEF sessionVars, SessionsInv, SessionsTypeOK, LimiterCovers,
                SessionsWereIssued, RecentGuesses
  <2> QED
    BY <2>1, <2>2
<1> QED
  BY <1>1, <1>2, PTL DEF ControlSpec

-----------------------------------------------------------------------------
\* Every variable of the control plane keeps its shape.
THEOREM ControlTypeCorrect == ControlSpec => []ControlTypeOK
<1> DEFINE RequestOK == request \in Requests \cup {NoRequest}
<1>1. ControlInit => RequestOK
  BY DEF ControlInit
<1>2. RequestOK /\ [ControlNext]_controlVars => RequestOK'
  BY DEF ControlNext, controlVars, FromLoop, ClockTicks, Login, Read,
         LogoutRequest, PauseRequest, ResumeRequest, EmergencyRequest, Admit
<1>3. TypeOK /\ SessionsInv /\ RequestOK => ControlTypeOK
  BY DEF SessionsInv, ControlTypeOK
<1> HIDE DEF RequestOK
<1> QED
  BY <1>1, <1>2, <1>3, ControlImplementsBreaker, BreakerTypeCorrect,
     SessionsInvariant, PTL DEF ControlSpec

\* A client is refused exactly while MaxFailures of its wrong guesses lie
\* within the window, for every number of clients, failures and seconds.
THEOREM LimiterExact == ControlSpec => []LimiterIsExact
<1>1. SessionsInv => LimiterIsExact
  <2> SUFFICES ASSUME SessionsInv, NEW c \in LoginClients
               PROVE  /\ IsBlocked(c) <=>
                           Cardinality(RecentGuesses(c)) = MaxFailures
                      /\ Cardinality(RecentGuesses(c)) <= MaxFailures
    BY DEF LimiterIsExact
  <2>1. Prune(failures[c]) = RecentGuesses(c)
    BY PruneKeepsRecent DEF SessionsInv
  <2>2. Cardinality(RecentGuesses(c)) \in Nat
    BY FS_Subset, FS_CardinalityType
    DEF RecentGuesses, SessionsInv, LimiterCovers
  <2> QED
    BY <2>1, <2>2, SessionsAssumption
    DEF IsBlocked, SessionsInv, LimiterCovers
<1> QED
  BY <1>1, SessionsInvariant, PTL

\* A session that was logged out or ran out never authenticates again.
THEOREM DeadStayDead == ControlSpec => DeadSessionsStayDead
<1>1. SessionsInv /\ [ControlNext]_controlVars
        => [\A t \in SessionTokens : IsDead(t) => IsDead(t)']_sessionVars
  <2> SUFFICES ASSUME SessionsInv, SessionsNext,
                      NEW t \in SessionTokens, IsDead(t)
               PROVE  IsDead(t)'
    BY StepIsSessionsStep
  <2> USE DEF SessionsInv, SessionsTypeOK, IsDead, IsLive
  <2>1. CASE Tick
    BY <2>1 DEF Tick
  <2>2. ASSUME NEW c \in LoginClients, LoginRefused(c) \/ LoginFails(c)
        PROVE  IsDead(t)'
    BY <2>2 DEF LoginRefused, LoginFails
  <2>3. ASSUME NEW c \in LoginClients, NEW s \in SessionTokens,
               LoginSucceeds(c, s)
        PROVE  IsDead(t)'
    BY <2>3 DEF LoginSucceeds
  <2>4. ASSUME NEW s \in SessionTokens, Touch(s)
        PROVE  IsDead(t)'
    BY <2>4 DEF Touch, Validate
  <2>5. ASSUME NEW s \in SessionTokens, NEW csrf \in SessionTokens,
               Logout(s, csrf)
        PROVE  IsDead(t)'
    BY <2>5 DEF Logout
  <2> QED
    BY <2>1, <2>2, <2>3, <2>4, <2>5 DEF SessionsNext
<1> QED
  BY <1>1, SessionsInvariant, PTL DEF ControlSpec, DeadSessionsStayDead

\* Only a request with a live session and that session's CSRF token takes
\* trading back from PAUSED or EMERGENCY.
THEOREM PauseLiftedByLiveSession == ControlSpec => PauseLiftedOnlyByLiveSession
<1> DEFINE Admitted ==
      \E t \in SessionTokens :
        /\ request' = [token |-> t, csrf |-> t]
        /\ t \in issued
        /\ now < sessions[t]
<1>1. TypeOK /\ SessionsInv /\ [ControlNext]_controlVars
        => [IsPaused(breaker) /\ CanTrade(breaker') => Admitted]_controlVars
  <2> SUFFICES ASSUME TypeOK, SessionsInv, ControlNext,
                      IsPaused(breaker), CanTrade(breaker')
               PROVE  Admitted
    OBVIOUS
  <2>1. ASSUME NEW after, ~CanTrade(after), Call(after)
        PROVE  FALSE
    BY <2>1 DEF Call
  <2>2. ~IsPaused(breaker) \/ breaker' # breaker
    BY DEF IsPaused, CanTrade
  <2>3. ~FromLoop /\ ~ClockTicks /\ ~Login
    BY <2>1, <2>2, MethodsKeepPaused
    DEF TypeOK, FromLoop, ClockTicks, Login, breakerVars,
        RecordExecutionFailure, RecordRpcFailure, RecordJupiterUnavailable,
        RecordUnknownTx, RecordPauseCondition, RecordAbnormalSlippage,
        RecordSuccess
  <2>4. ASSUME NEW t \in SessionTokens, Read(t)
        PROVE  FALSE
    BY <2>2, <2>4 DEF Read, breakerVars
  <2>5. ASSUME NEW r \in Requests,
               LogoutRequest(r) \/ PauseRequest(r) \/ EmergencyRequest(r)
        PROVE  FALSE
    BY <2>1, <2>2, <2>5, MethodsKeepPaused
    DEF TypeOK, LogoutRequest, PauseRequest, EmergencyRequest, breakerVars,
        RecordPauseCondition, DeclareEmergency
  <2>6. ASSUME NEW r \in Requests, ResumeRequest(r)
        PROVE  Admitted
    <3>1. /\ r.token \in SessionTokens
          /\ r = [token |-> r.token, csrf |-> r.token]
          /\ request' = r
          /\ IsLive(r.token)
      BY <2>6 DEF ResumeRequest, Admit, Authorized, Requests
    <3>2. r.token \in issued /\ now < sessions[r.token]
      BY <3>1 DEF SessionsInv, SessionsWereIssued, IsLive
    <3> QED
      BY <3>1, <3>2
  <2> QED
    BY <2>3, <2>4, <2>5, <2>6 DEF ControlNext
<1> QED
  BY <1>1, ControlImplementsBreaker, BreakerTypeCorrect, SessionsInvariant, PTL
  DEF ControlSpec, PauseLiftedOnlyByLiveSession
=============================================================================
