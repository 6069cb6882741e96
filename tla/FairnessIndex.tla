---------------------------- MODULE FairnessIndex ----------------------------
(***************************************************************************)
(* Jain's fairness index and the transition function of the adaptive       *)
(* controller (fairness.c).                                                *)
(*                                                                         *)
(* The index is a fraction [num, den].  The program computes it from u64   *)
(* sums of exec_runtime in nanoseconds and divides in double precision;    *)
(* exec_runtime only ever grows by TICK_NS, so it is counted here in ticks *)
(* and the factor TICK_NS^2 cancels.  That is what the program computes as *)
(* long as JainExact holds; beyond, sum * sum and n * sum_sq may exceed    *)
(* 2^64 and wrap.  The modules that compute indices keep their clocks      *)
(* within it.                                                              *)
(***************************************************************************)
EXTENDS SchedConstants, FiniteSets, FiniteSetsExt, Functions

JAIN_MIN_TASKS == 2

\* n tasks that run for that many ticks in all cannot overflow the u64 products:
\* n * (ticks * TICK_NS)^2 < 2^64.  Nor do the conversions to double round then:
\* a multiple of 2^12 below 2^64 fits 53 bits.
JainExact(n, ticks) == n * ticks * ticks <= 18446744

One == [num |-> 1, den |-> 1]

\* A fraction in 0..1: what fairness_jain_index can return.
IsIndex(j) == /\ j.num \in Nat
              /\ j.den \in Nat \ {0}
              /\ j.num <= j.den

\* fairness_jain_index(): (sum x)^2 / (n * sum x^2) over the runnable tasks.
\* The clamps to 0..1 never act: the fraction is at most 1 (Cauchy-Schwarz).
fairness_jain_index(runnable, exec_runtime) ==
  LET R      == {i \in DOMAIN runnable : runnable[i] = 1}
      n      == Cardinality(R)
      sum    == SumFunctionOnSet(exec_runtime, R)
      sum_sq == SumFunction([i \in R |-> exec_runtime[i] * exec_runtime[i]])
  IN  IF n < JAIN_MIN_TASKS \/ sum = 0 THEN One
      ELSE [num |-> sum * sum, den |-> n * sum_sq]

\* j < p/100 and j > p/100
Below(j, p) == 100 * j.num < p * j.den
Above(j, p) == 100 * j.num > p * j.den

\* Fault: thresholds of LOOSE and MEDIUM too close.
Narrow_JAIN_LOOSE_TO_MEDIUM == 95

JAIN_LOOSE_TO_MEDIUM == 93
JAIN_MEDIUM_TO_TIGHT == 90
JAIN_MEDIUM_TO_LOOSE == 97
JAIN_TIGHT_TO_MEDIUM == 95

\* Fault: no way back from TIGHT.
Stuck_next_state(state, j) ==
  CASE state = LOOSE /\ Below(j, JAIN_LOOSE_TO_MEDIUM)  -> MEDIUM
    [] state = MEDIUM /\ Below(j, JAIN_MEDIUM_TO_TIGHT) -> TIGHT
    [] state = MEDIUM /\ Above(j, JAIN_MEDIUM_TO_LOOSE) -> LOOSE
    [] OTHER                                            -> state

\* fairness_apaf_next_state()
fairness_apaf_next_state(state, j) ==
  CASE state = LOOSE /\ Below(j, JAIN_LOOSE_TO_MEDIUM)  -> MEDIUM
    [] state = MEDIUM /\ Below(j, JAIN_MEDIUM_TO_TIGHT) -> TIGHT
    [] state = MEDIUM /\ Above(j, JAIN_MEDIUM_TO_LOOSE) -> LOOSE
    [] state = TIGHT /\ Above(j, JAIN_TIGHT_TO_MEDIUM)  -> MEDIUM
    [] OTHER                                            -> state
=============================================================================
