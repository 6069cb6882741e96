---------------------------- MODULE SchedConstants ----------------------------
(***************************************************************************)
(* The constants of task.h and of the three approx_*.h headers that more   *)
(* than one module needs.                                                  *)
(***************************************************************************)
EXTENDS Integers

NICE_0_LOAD      == 1024
LOAD_AVG_PERIOD  == 32
LOAD_AVG_MAX     == 47742
PELT_MAX_PERIODS == 63
TICK_NS          == 1000000

\* The value of approx_mode: which arithmetic a runqueue uses.
EXACT  == 0
BSA    == 1
CLTI   == 2
APAF   == 3
Logics == {EXACT, BSA, CLTI, APAF}

\* The greatest load sum a decay of one period leaves as it is: load >> 5 is 0
\* below 32, and CLTI's slope is 0 while two table entries are less than 4 apart.
Residue(logic) == CASE logic = EXACT -> 0
                    [] logic = BSA   -> 31
                    [] logic = CLTI  -> 36
                    [] logic = APAF  -> 0

\* The states of the adaptive controller.
TIGHT      == 0
MEDIUM     == 1
LOOSE      == 2
ApafStates == {TIGHT, MEDIUM, LOOSE}

\* The fairness monitor runs when the tick counter is a multiple of this.
APAF_MONITOR_INTERVAL == 4
=============================================================================
