----------------------------- MODULE RiskService -----------------------------
(***************************************************************************)
(* RiskService (risk.service.ts): the circuit breaker, the parameters and  *)
(* the checks a cycle must pass before it opens.  The breaker and the loss *)
(* counter live in memory; the parameters are also saved to the database.  *)
(* Checks of money (notional, margin) only decide whether a cycle may go   *)
(* on, so they are a free choice of the cycle that asks (StrategyEngine).  *)
(***************************************************************************)
EXTENDS Integers, FiniteSets

CONSTANTS
    Limits,     \* values the global position limit is set to
    FirstLimit, \* its value in the configuration file
    MaxLosses   \* maxConsecutiveLosses

ASSUME LimitsAssumption == Limits \subseteq Nat \ {0} /\ FirstLimit \in Limits
ASSUME MaxLossesAssumption == MaxLosses \in Nat \ {0}

VARIABLES
    breaker,    \* circuitBreakerTriggered
    cooled,     \* five minutes have passed since it was triggered
    losses,     \* consecutiveLosses; recordPositionResult, which would count
                \* one, is called by nothing
    limit,      \* maxPositions of the running process
    savedLimit  \* maxPositions in system_settings

memoryVars == <<breaker, cooled, losses, limit>>
riskVars == <<memoryVars, savedLimit>>

RiskTypeOK ==
    /\ breaker \in BOOLEAN /\ cooled \in BOOLEAN
    /\ losses \in Nat
    /\ limit \in Limits /\ savedLimit \in Limits

RiskInit ==
    /\ breaker = FALSE /\ cooled = FALSE
    /\ losses = 0
    /\ limit = FirstLimit /\ savedLimit = FirstLimit

TriggerBreaker ==
    /\ breaker' = TRUE /\ cooled' = FALSE
    /\ UNCHANGED <<losses, limit, savedLimit>>

\* Five minutes pass.
CoolDown ==
    /\ breaker /\ ~cooled
    /\ cooled' = TRUE
    /\ UNCHANGED <<breaker, losses, limit, savedLimit>>

\* runtimeMonitor: the day's loss has passed the threshold.
RuntimeMonitor == ~breaker /\ TriggerBreaker

ResetBreaker ==
    /\ breaker' = FALSE /\ cooled' = FALSE
    /\ losses' = 0
    /\ UNCHANGED <<limit, savedLimit>>

\* The first check of checkBeforeOpen releases a breaker that has cooled down.
ReleaseBreaker == breaker /\ cooled

BreakerBlocks == breaker /\ ~ReleaseBreaker

PassBreaker ==
    /\ ~BreakerBlocks
    /\ breaker' = FALSE
    /\ UNCHANGED <<cooled, losses, limit, savedLimit>>

\* The stricter of the strategy's limit and the global one.
Allowed(own) == IF own < limit THEN own ELSE limit

\* Mutant: one more is let in.
TooMany_OffByOne(open, own) == open > Allowed(own)
TooMany(open, own) == open >= Allowed(own)
TooManyLosses == losses >= MaxLosses

\* updateParams: memory at once, the database after an await.
SetLimit(n) == limit' = n /\ UNCHANGED <<breaker, cooled, losses, savedLimit>>
SaveLimit(n) == savedLimit' = n /\ UNCHANGED memoryVars

\* The process starts again and loads its parameters (loadPersistedParams).
RiskRestart ==
    /\ breaker' = FALSE /\ cooled' = FALSE
    /\ losses' = 0
    /\ limit' = savedLimit
    /\ UNCHANGED savedLimit

============================================================================
