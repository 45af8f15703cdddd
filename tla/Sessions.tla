------------------------------ MODULE Sessions ------------------------------
(***************************************************************************)
(* Login limiter and session store of the dashboard (app/api/security.py), *)
(* with the routes that use them directly (login, logout, require_auth).   *)
(*                                                                         *)
(* Both are tables in memory that look at the clock only when a request    *)
(* arrives: failed logins are pruned and sessions expire when they are     *)
(* next asked about, never before.                                         *)
(***************************************************************************)
EXTENDS Integers, FiniteSets

CONSTANTS
  LoginClients,   \* client addresses
  SessionTokens,  \* raw tokens the store may hand out
  MaxFailures,    \* LoginRateLimiter.max_failures
  Window,         \* LoginRateLimiter.window_seconds
  TTL,            \* SessionStore.ttl_seconds
  MaxTime         \* bound on the clock

ASSUME SessionsAssumption ==
  /\ MaxFailures \in Nat \ {0}
  /\ Window \in Nat
  /\ TTL \in Nat \ {0}
  /\ MaxTime \in Nat

VARIABLES
  now,       \* time.time()
  failures,  \* _failures: the failed logins kept per client
  guesses,   \* history: every failed login of a client since its last success
  sessions,  \* _sessions: the expires_at of every token; NoSession without one
  issued     \* history: the tokens handed out so far

sessionVars == <<now, failures, guesses, sessions, issued>>

NoSession == 0

\* A failed login; nr tells two failures at the same instant apart.
Failure == [nr : Nat, at : Nat]

SessionsInit ==
  /\ now = 0
  /\ failures = [c \in LoginClients |-> {}]
  /\ guesses = [c \in LoginClients |-> {}]
  /\ sessions = [t \in SessionTokens |-> NoSession]
  /\ issued = {}

Tick ==
  /\ now < MaxTime
  /\ now' = now + 1
  /\ UNCHANGED <<failures, guesses, sessions, issued>>

-----------------------------------------------------------------------------
(***************************************************************************)
(* LoginRateLimiter.  The deque is in the order of the clock, so popping   *)
(* its old head is the same as keeping what is not older than the cutoff.  *)
(***************************************************************************)
\* Mutant: a failure exactly as old as the window is already forgotten.
PruneAtCutoff(kept) == {f \in kept : f.at > now - Window}

Prune(kept) == {f \in kept : f.at >= now - Window}

IsBlocked(c) == Cardinality(Prune(failures[c])) >= MaxFailures

LoginRefused(c) ==
  /\ IsBlocked(c)
  /\ failures' = [failures EXCEPT ![c] = Prune(@)]
  /\ UNCHANGED <<now, guesses, sessions, issued>>

LoginFails(c) ==
  LET guess == [nr |-> Cardinality(guesses[c]) + 1, at |-> now]
  IN  /\ ~IsBlocked(c)
      /\ failures' = [failures EXCEPT ![c] = Prune(@) \cup {guess}]
      /\ guesses' = [guesses EXCEPT ![c] = @ \cup {guess}]
      /\ UNCHANGED <<now, sessions, issued>>

LoginSucceeds(c, t) ==
  /\ ~IsBlocked(c)
  /\ t \notin issued
  /\ failures' = [failures EXCEPT ![c] = {}]
  /\ guesses' = [guesses EXCEPT ![c] = {}]
  /\ sessions' = [sessions EXCEPT ![t] = now + TTL]
  /\ issued' = issued \cup {t}
  /\ UNCHANGED now

-----------------------------------------------------------------------------
(***************************************************************************)
(* SessionStore.  A CSRF token belongs to one session and is named by that *)
(* session's token.  require_auth_csrf validates the session twice at one  *)
(* instant, which is the same as once: a request with a wrong CSRF token   *)
(* still renews its session before it is refused.                          *)
(***************************************************************************)
IsLive(t) == sessions[t] # NoSession /\ now < sessions[t]

\* Mutant: a session is still accepted at the instant it expires.
ValidateTooLate(t) ==
  sessions' = [sessions EXCEPT
    ![t] = IF @ # NoSession /\ now <= @ THEN now + TTL ELSE NoSession]

Validate(t) ==
  sessions' = [sessions EXCEPT
    ![t] = IF IsLive(t) THEN now + TTL ELSE NoSession]

\* Mutant: the double submit is not compared with the session's own token.
AuthorizedByCookie(t, csrf) == IsLive(t) /\ csrf \in issued

Authorized(t, csrf) == IsLive(t) /\ csrf = t

\* A request that ends in require_auth, or is refused by require_auth_csrf.
Touch(t) ==
  /\ Validate(t)
  /\ UNCHANGED <<now, failures, guesses, issued>>

Logout(t, csrf) ==
  /\ Authorized(t, csrf)
  /\ sessions' = [sessions EXCEPT ![t] = NoSession]
  /\ UNCHANGED <<now, failures, guesses, issued>>

-----------------------------------------------------------------------------
SessionsTypeOK ==
  /\ now \in 0 .. MaxTime
  /\ failures \in [LoginClients -> SUBSET Failure]
  /\ guesses \in [LoginClients -> SUBSET Failure]
  /\ sessions \in [SessionTokens -> Nat]
  /\ issued \in SUBSET SessionTokens

\* The failed logins of a client within one window before now.
RecentGuesses(c) == {g \in guesses[c] : now <= g.at + Window}

\* Although old failures are dropped only when the same client comes back, a
\* client is refused exactly while MaxFailures wrong guesses since its last
\* success lie within the window, no client ever gets in more of them, and
\* another client's guesses or success change neither.
LimiterIsExact ==
  \A c \in LoginClients :
    /\ IsBlocked(c) <=> Cardinality(RecentGuesses(c)) = MaxFailures
    /\ Cardinality(RecentGuesses(c)) <= MaxFailures

IsDead(t) == t \in issued /\ ~IsLive(t)

\* A session that was logged out or ran out is never accepted again, however
\* long its row stays in the table and whatever requests still carry it.
DeadSessionsStayDead ==
  [][\A t \in SessionTokens : IsDead(t) => IsDead(t)']_sessionVars
=============================================================================
