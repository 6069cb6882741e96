--------------------------- MODULE MCLoadBalance ---------------------------
(* A cluster of two CPUs and one more CPU; tasks that are pinned and sleep, and tasks that   *)
(* may run anywhere and do not.                                                              *)
EXTENDS LoadBalance

CONSTANTS t1, t2, t3

MCClusters == {{1, 2}, {3}}
MCTasks == {t1, t2, t3}

Setup(allowed1, allowed2, allowed3, sleepers) ==
  [allowed |-> (t1 :> allowed1) @@ (t2 :> allowed2) @@ (t3 :> allowed3), sleepers |-> sleepers]

MCSetups == {Setup({1}, {1, 3}, {2, 3}, {t3}),
             Setup({1}, {1, 3}, {1, 2}, {t3}),
             Setup(CPUs, CPUs, CPUs, {})}
=============================================================================
