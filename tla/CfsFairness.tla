----------------------------- MODULE CfsFairness -----------------------------
(***************************************************************************)
(* CfsRunqueue with the history its fairness guarantees are about: which   *)
(* tasks have run since a task last woke up.  The history changes nothing: *)
(* every step is a step of CfsRunqueue.                                    *)
(***************************************************************************)
EXTENDS CfsRunqueue

VARIABLE ran         \* ran[j]: tasks that ran since j last became runnable

fairVars == << vars, ran >>

FairInit == /\ Init
            /\ ran = [j \in Tasks |-> {}]

\* Task i runs in this tick.
RunTick(i) == /\ Tick
              /\ Picks(i)
              /\ ran' = [j \in Tasks |-> IF runnable[j] = 1 THEN ran[j] \cup {i} ELSE ran[j]]

NoRunTick == /\ Tick
             /\ PicksNone
             /\ UNCHANGED ran

\* A task that becomes runnable starts a new period; a call that leaves it as
\* it was does not.
FairChange == /\ Change
              /\ ran' = [j \in Tasks |-> IF runnable[j] = 0 /\ runnable'[j] = 1
                                         THEN {} ELSE ran[j]]

FairCount == CountRunning /\ UNCHANGED ran

FairNext == (\E i \in Tasks : RunTick(i)) \/ NoRunTick \/ FairChange \/ FairCount

FairSpec == FairInit /\ [][FairNext]_fairVars

-----------------------------------------------------------------------------

DeltaMax(m, i) == Max({Delta(m, i, s) : s \in ApafStates})

\* The CFS lag bound (cfs_exact.c:107-198): a task that has run since j woke up is
\* at most one tick of its own virtual time past j while j waits.  A task woken with an old
\* vruntime is not held to it: it may run until it catches up.
LagBounded ==
  \A j \in RunnableTasks : \A i \in ran[j] :
    vruntime[i] <= vruntime[j] + DeltaMax(approx_mode, i)
=============================================================================
