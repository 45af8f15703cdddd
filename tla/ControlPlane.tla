---------------------------- MODULE ControlPlane ----------------------------
(***************************************************************************)
(* The dashboard's hold on trading: the circuit breaker called by the      *)
(* trading loop at any time, and by the routes (app/api/routes.py) only on *)
(* behalf of a request whose session and CSRF token check out.             *)
(***************************************************************************)
EXTENDS BreakerAlone, Sessions

VARIABLE
  request  \* history: the tokens of the action just carried out, if any

controlVars == <<breaker, tripped, now, failures, guesses, sessions, issued,
                 request>>

breakerVars == <<breaker, tripped>>

NoRequest == [token |-> "none", csrf |-> "none"]

Requests == [token : SessionTokens, csrf : SessionTokens]

ControlInit == Init /\ SessionsInit /\ request = NoRequest

-----------------------------------------------------------------------------
\* A call from the trading loop or its orchestrator.
FromLoop ==
  /\ \/ RecordExecutionFailure
     \/ RecordRpcFailure
     \/ RecordJupiterUnavailable
     \/ RecordUnknownTx
     \/ RecordPauseCondition
     \/ RecordAbnormalSlippage
     \/ RecordSuccess
  /\ request' = NoRequest
  /\ UNCHANGED sessionVars

ClockTicks ==
  /\ Tick
  /\ request' = NoRequest
  /\ UNCHANGED breakerVars

Login ==
  /\ \E c \in LoginClients :
       \/ LoginRefused(c)
       \/ LoginFails(c)
       \/ \E t \in SessionTokens : LoginSucceeds(c, t)
  /\ request' = NoRequest
  /\ UNCHANGED breakerVars

-----------------------------------------------------------------------------
\* A status query, or an action refused with 401 or 403.  Closing a position
\* reads the same here: its sale is behind an await of the route, and what it
\* tells the breaker comes from the orchestrator.
Read(t) ==
  /\ Touch(t)
  /\ request' = NoRequest
  /\ UNCHANGED breakerVars

LogoutRequest(r) ==
  /\ Logout(r.token, r.csrf)
  /\ request' = NoRequest
  /\ UNCHANGED breakerVars

\* require_auth_csrf in front of an action on the breaker.
Admit(r) ==
  /\ Authorized(r.token, r.csrf)
  /\ Touch(r.token)
  /\ request' = r

PauseRequest(r) == Admit(r) /\ RecordPauseCondition

ResumeRequest(r) == Admit(r) /\ OperatorResume

\* The breaker is stopped before the first await of the route.
EmergencyRequest(r) == Admit(r) /\ DeclareEmergency

ControlNext ==
  \/ FromLoop
  \/ ClockTicks
  \/ Login
  \/ \E t \in SessionTokens : Read(t)
  \/ \E r \in Requests :
       \/ LogoutRequest(r)
       \/ PauseRequest(r)
       \/ ResumeRequest(r)
       \/ EmergencyRequest(r)

ControlSpec == ControlInit /\ [][ControlNext]_controlVars

-----------------------------------------------------------------------------
\* Breaker, login limiter and session store keep their shapes, and after the
\* operator's resume the breaker is neither paused nor stopped until the next
\* trip (routes.py:364, circuit_breaker.py:127).
ControlTypeOK ==
  /\ TypeOK
  /\ SessionsTypeOK
  /\ request \in Requests \cup {NoRequest}

\* No step takes the breaker straight from PAUSED or EMERGENCY to NORMAL but a
\* request that carries a live session together with that session's own CSRF
\* token: neither a success of the loop, nor an expired or logged out session,
\* nor the CSRF token of another session lifts a pause.
PauseLiftedOnlyByLiveSession ==
  [][IsPaused(breaker) /\ CanTrade(breaker') =>
       \E t \in SessionTokens :
         /\ request' = [token |-> t, csrf |-> t]
         /\ t \in issued
         /\ now < sessions[t]]_controlVars
=============================================================================
