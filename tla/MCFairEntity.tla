---------------------------- MODULE MCFairEntity ----------------------------
(* Two CPUs and three tasks: two stay on c1, one of half the weight moves. *)
EXTENDS FairEntity

CONSTANTS c1, t1, t2, t3

MCAllowed == [t \in Tasks |-> IF t = t3 THEN CPUs ELSE {c1}]

MCWeight == [t \in Tasks |-> IF t = t3 THEN 1 ELSE 2]

\* Only differences to the min_vruntime of the own queue matter: every step is the same
\* after all vruntimes of a queue are shifted, so such states are explored once.
Relative ==
  << [c \in CPUs |-> [rq[c] EXCEPT !.min_vruntime = 0]],
     [t \in Tasks |-> [se[t] EXCEPT !.vruntime =
                         IF se[t].normalized THEN @ ELSE Diff(@, rq[se[t].cpu].min_vruntime)]],
     lapsed >>

\* After a lapse nothing is claimed but what is proved of all states.
Awake == ~lapsed
=============================================================================
