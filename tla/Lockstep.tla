------------------------------- MODULE Lockstep -------------------------------
(***************************************************************************)
(* The loop every experiment runs: a runqueue with the exact arithmetic    *)
(* and one with the logic under test are given the same workload, ticked   *)
(* one after the other, and compared by metrics_record().                  *)
(*                                                                         *)
(* The two runqueues have task arrays of their own; an experiment changes  *)
(* runnable in both at once, so the two copies of that field are one       *)
(* variable here.  Variables of the exact runqueue begin with x, those of  *)
(* the other with a.                                                       *)
(***************************************************************************)
EXTENDS FairnessIndex

CONSTANTS NTasks, Weight, Modes, LoadMax, MaxTick, MaxChanges,
          Delta(_, _, _), Decay(_, _, _),
          ChangeTicks,   \* Tick counts at which the workload may change
          ChangeTasks    \* Tasks whose runnable flag it changes

Tasks == 0 .. NTasks - 1

\* The horizon within which the u64 sums of the fairness index are exact.
ASSUME HorizonAssumption == JainExact(NTasks, MaxTick)

\* What CfsRunqueue assumes, of the logic under test and of the exact one, whose
\* increments do not depend on a controller's state.
ASSUME LockstepAssumption ==
  /\ NTasks \in Nat \ {0} /\ MaxTick \in Nat \ {0} /\ MaxChanges \in Nat
  /\ Modes \subseteq Logics /\ ChangeTasks \subseteq Tasks
  /\ Weight \in [Tasks -> Nat \ {0}] /\ LoadMax \in [Tasks -> Nat]
  /\ \A m \in Modes \cup {EXACT}, i \in Tasks, s \in ApafStates :
       /\ Delta(m, i, s) \in Nat \ {0}
       /\ \A l \in 0 .. LoadMax[i] : /\ Decay(m, l, s) \in 0 .. l
                                    /\ Decay(m, l, s) + Weight[i] <= LoadMax[i]
  /\ \A i \in Tasks, s, r \in ApafStates : Delta(EXACT, i, s) = Delta(EXACT, i, r)

VARIABLES runnable, changes,
          xvruntime, xexec, xload_sum, xload_avg,
          xtick, xnr_running, xmode, xapaf_state, xjain_index,
          avruntime, aexec, aload_sum, aload_avg,
          atick, anr_running, amode, aapaf_state, ajain_index,
          entry          \* The metrics_t entry of the last tick

xVars == << xvruntime, xexec, xload_sum, xload_avg,
            xtick, xnr_running, xmode, xapaf_state, xjain_index >>
aVars == << avruntime, aexec, aload_sum, aload_avg,
            atick, anr_running, amode, aapaf_state, ajain_index >>
lockVars == << runnable, changes, xVars, aVars, entry >>

Exact == INSTANCE CfsRunqueue WITH
  Modes <- {EXACT}, approx_mode <- xmode,
  vruntime <- xvruntime, exec_runtime <- xexec,
  load_sum <- xload_sum, load_avg <- xload_avg,
  tick <- xtick, nr_running <- xnr_running,
  apaf_state <- xapaf_state, jain_index <- xjain_index

Approx == INSTANCE CfsRunqueue WITH
  approx_mode <- amode,
  vruntime <- avruntime, exec_runtime <- aexec,
  load_sum <- aload_sum, load_avg <- aload_avg,
  tick <- atick, nr_running <- anr_running,
  apaf_state <- aapaf_state, jain_index <- ajain_index

-----------------------------------------------------------------------------
(* metrics_record() *)

Abs(n) == IF n < 0 THEN -n ELSE n

\* The errors of the tasks whose exact load is not zero, as fractions of it.
LoadErrors(approx, exact) ==
  {[num |-> Abs(approx[i] - exact[i]), den |-> exact[i]] :
     i \in {t \in Tasks : exact[t] > 0}}

\* max_error_pct / 100
MaxError(errors) ==
  IF errors = {} THEN [num |-> 0, den |-> 1]
  ELSE CHOOSE e \in errors : \A f \in errors : f.num * e.den <= e.num * f.den

\* Operations saved per task: by logic, and by state when it is adaptive.
OpsPerTask(state) ==
  CASE amode = EXACT                    -> 0
    [] amode = BSA                      -> 1
    [] amode = CLTI                     -> 4
    [] amode = APAF /\ state = TIGHT    -> 2
    [] amode = APAF /\ state = MEDIUM   -> 3
    [] amode = APAF /\ state = LOOSE    -> 4

\* Fault: the runqueue's own figure is copied.
Copied_RecordMetrics ==
  entry' = [tick       |-> atick',
            apaf_state |-> aapaf_state',
            jain_index |-> ajain_index',
            max_error  |-> MaxError(LoadErrors(aload_avg', xload_avg')),
            ops_saved  |-> anr_running' * OpsPerTask(aapaf_state')]

\* avg_error_pct is left out: it is the mean of the same errors.
RecordMetrics ==
  entry' = [tick       |-> atick',
            apaf_state |-> aapaf_state',
            jain_index |-> fairness_jain_index(runnable, aexec'),
            max_error  |-> MaxError(LoadErrors(aload_avg', xload_avg')),
            ops_saved  |-> anr_running' * OpsPerTask(aapaf_state')]

-----------------------------------------------------------------------------

\* metrics_init()
Init == /\ Exact!Init
        /\ Approx!Init
        /\ entry = [tick |-> 0, apaf_state |-> MEDIUM, jain_index |-> One,
                    max_error |-> [num |-> 0, den |-> 1], ops_saved |-> 0]

\* task_set_runnable() on a task of both arrays, before the ticks
ChangeWorkload == /\ xtick \in ChangeTicks
                  /\ \E i \in ChangeTasks, r \in {0, 1, 2} :
                       Exact!SetRunnable(i, r) /\ Approx!SetRunnable(i, r)
                  /\ UNCHANGED entry

\* rq_count_running() on both runqueues, after a change of the workload
CountBoth == /\ xtick \in ChangeTicks
             /\ Exact!CountRunning
             /\ Approx!CountRunning
             /\ UNCHANGED entry

\* The loop body: exact_tick, the tick of the logic, metrics_record
TickBoth == /\ Exact!Tick
            /\ Approx!Tick
            /\ RecordMetrics

Next == ChangeWorkload \/ CountBoth \/ TickBoth

Spec == Init /\ [][Next]_lockVars

-----------------------------------------------------------------------------
(* Properties *)

\* No task's increments differ from the exact ones.
SameDeltas == \A i \in Tasks, s \in ApafStates : Delta(amode, i, s) = Delta(EXACT, i, s)

\* The load errors the experiments report are errors of load only: where the
\* approximate deltas are the exact ones (nice 0, exp1), both runqueues pick the
\* same task in every tick, whatever blocks and wakes, idle ticks included
\* (exp1_equal_weight.c:68-89, approx_bsa.c:224).
SameSchedule ==
  SameDeltas =>
    /\ avruntime = xvruntime
    /\ aexec = xexec
    /\ atick = xtick

\* The fairness an experiment reports is that of the exact schedule, and of the
\* tick it is reported for, also when the tick was idle and left the runqueue's own
\* figure behind (metrics.c:45-46, metrics.c:65): for tasks of equal increments the
\* entry repeats what exact_tick() found.
RecordedFairness ==
  [][ atick' # atick /\ SameDeltas =>
        entry'.tick = xtick' /\ entry'.jain_index = xjain_index' ]_lockVars

\* Both runqueues keep their loads in bounds, in runs long enough for the sums to pass
\* LOAD_AVG_MAX, where the clamp of load_avg begins to act (cfs_exact.c:155-167 and its
\* counterparts).
LoadBounded == Exact!LoadBounded /\ Approx!LoadBounded
=============================================================================
