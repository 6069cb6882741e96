--------------------------- MODULE VruntimeScaling ---------------------------
(***************************************************************************)
(* The virtual-time increments of SchedMath against the value they stand   *)
(* for, delta_exec * NICE_0_LOAD / weight, over the whole nice table, and  *)
(* the error bounds the sources state for them.                            *)
(***************************************************************************)
EXTENDS SchedMath

VARIABLES nice,    \* The nice level under inspection
          state    \* The adaptive state

scaleVars == << nice, state >>

NiceLevels == -20 .. 19

ScaleInit == nice \in NiceLevels /\ state \in ApafStates
ScaleNext == nice' \in NiceLevels /\ state' \in ApafStates

\* What each logic charges a task of nice level n for one tick.
Delta(logic, n) == VruntimeDelta(logic, nice_to_weight(n), state)

\* floor(delta_exec * NICE_0_LOAD / weight), by division
Ideal(n) == LET w == nice_to_weight(n)
            IN  (TICK_NS \div w) * NICE_0_LOAD + ((TICK_NS % w) * NICE_0_LOAD) \div w

Diff(a, b) == IF a < b THEN b - a ELSE a - b

\* The increment of logic is within p/100000 of the exact one.
ErrorWithin(logic, p) ==
  LET e == Delta(EXACT, nice)
  IN  Diff(Delta(logic, nice), e) <= (e \div 100000) * p + ((e % 100000) * p) \div 100000

\* Approximation keeps the order of priorities: a heavier task never pays more
\* virtual time per tick than a lighter one, and always less unless CLTI puts both
\* in one class; every increment is positive, so running always moves a task back
\* in the queue (approx_bsa.c:142-156, approx_clti.c:121-140, approx_apaf.c:121-149).
PrioritiesKept ==
  nice < 19 => \A logic \in Logics :
    /\ 0 < Delta(logic, nice)
    /\ Delta(logic, nice) <= Delta(logic, nice + 1)
    /\ logic # CLTI => Delta(logic, nice) < Delta(logic, nice + 1)

\* The error budgets of the sources that hold, for every nice level: the reciprocal
\* multiplication of exact_calc_delta_fair() loses at most one nanosecond to the division
\* it replaces (cfs_exact.c:66, "Error bound: 0%"), and APAF keeps "TIGHT/MEDIUM: <= 1.0%
\* (2 Newton iters), LOOSE: <= 5.0% (1 Newton iter)" (approx_apaf.c:117-119).
DeltasWithinBudget ==
  /\ Ideal(nice) - Delta(EXACT, nice) \in {0, 1}
  /\ ErrorWithin(APAF, IF state = LOOSE THEN 5000 ELSE 1000)
=============================================================================
