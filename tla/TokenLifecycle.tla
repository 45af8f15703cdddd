--------------------------- MODULE TokenLifecycle ---------------------------
(***************************************************************************)
(* What the trading core promises about each token, without locks, tasks,  *)
(* executors or a circuit breaker: a token is free, being bought, held or  *)
(* being sold; one buy runs at a time and only while there is room for     *)
(* another position; every position carries a fresh number and is settled  *)
(* at most once.  Module Orchestrator implements it.                       *)
(***************************************************************************)
EXTENDS Naturals, FiniteSets

CONSTANTS
  Tokens,
  MaxOpenPositions

VARIABLES
  phase,    \* what is going on with each token
  holding,  \* number of the position held on each token, 0 for none
  issued,   \* positions opened so far
  settled   \* numbers of the positions sold

vars == <<phase, holding, issued, settled>>

Phases == {"free", "buying", "held", "selling"}

Engaged == {t \in Tokens : phase[t] # "free"}

Init ==
  /\ phase = [t \in Tokens |-> "free"]
  /\ holding = [t \in Tokens |-> 0]
  /\ issued = 0
  /\ settled = {}

Enter(t, from, to) ==
  /\ phase[t] = from
  /\ phase' = [phase EXCEPT ![t] = to]

StartBuy(t) ==
  /\ \A u \in Tokens : phase[u] # "buying"
  /\ Cardinality(Engaged) < MaxOpenPositions
  /\ Enter(t, "free", "buying")
  /\ UNCHANGED <<holding, issued, settled>>

FinishBuy(t) ==
  /\ Enter(t, "buying", "held")
  /\ issued' = issued + 1
  /\ holding' = [holding EXCEPT ![t] = issued + 1]
  /\ UNCHANGED settled

AbandonBuy(t) ==
  /\ Enter(t, "buying", "free")
  /\ UNCHANGED <<holding, issued, settled>>

StartSell(t) ==
  /\ Enter(t, "held", "selling")
  /\ UNCHANGED <<holding, issued, settled>>

FinishSell(t) ==
  /\ Enter(t, "selling", "free")
  /\ settled' = settled \union {holding[t]}
  /\ holding' = [holding EXCEPT ![t] = 0]
  /\ UNCHANGED issued

AbandonSell(t) ==
  /\ Enter(t, "selling", "held")
  /\ UNCHANGED <<holding, issued, settled>>

Next ==
  \E t \in Tokens :
    \/ StartBuy(t)
    \/ FinishBuy(t)
    \/ AbandonBuy(t)
    \/ StartSell(t)
    \/ FinishSell(t)
    \/ AbandonSell(t)

Spec == Init /\ [][Next]_vars
=============================================================================
