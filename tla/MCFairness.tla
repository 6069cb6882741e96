------------------------------ MODULE MCFairness ------------------------------
(***************************************************************************)
(* TLC instance of CfsFairness: three tasks of mixed nice levels, with the *)
(* arithmetic of each mode.                                                *)
(***************************************************************************)
EXTENDS CfsFairness, SchedMath

CONSTANT Nice   \* The nice levels, in task order

MixedNice == << 0, 0, 5 >>

MCWeight  == [i \in Tasks |-> nice_to_weight(Nice[i + 1])]

\* Above the balance point of every logic: CLTI, whose decay is the slowest
\* (factor 0.9793), balances at 48.2 times the weight.
MCLoadMax == [i \in Tasks |-> 49 * MCWeight[i] + 64]

DeltaTable ==
  [m \in Logics |-> [i \in Tasks |-> [s \in ApafStates |-> VruntimeDelta(m, MCWeight[i], s)]]]

MCDelta(m, i, s) == DeltaTable[m][i][s]
MCDecay(m, l, s) == TickDecay(m, l, s)
=============================================================================
