------------------------------ MODULE MCLockstep ------------------------------
(***************************************************************************)
(* TLC instance of Lockstep: two tasks of nice 0, so that the schedules    *)
(* agree, and long phases between the changes of the workload, so that     *)
(* loads saturate and fade.                                                *)
(***************************************************************************)
EXTENDS Lockstep, SchedMath

CONSTANT Nice   \* The nice levels, in task order

EqualNice == << 0, 0 >>

MCWeight  == [i \in Tasks |-> nice_to_weight(Nice[i + 1])]
MCLoadMax == [i \in Tasks |-> 49 * MCWeight[i] + 64]

DeltaTable ==
  [m \in Logics |-> [i \in Tasks |-> [s \in ApafStates |-> VruntimeDelta(m, MCWeight[i], s)]]]

MCDelta(m, i, s) == DeltaTable[m][i][s]
MCDecay(m, l, s) == TickDecay(m, l, s)

\* The logics under test
Approximate == {BSA, CLTI, APAF}

\* The workload changes at phase boundaries, as in exp3.
PhaseTicks == {3, 40, 70, 120, 300}
=============================================================================
