----------------------------- MODULE CfsRunqueue -----------------------------
(***************************************************************************)
(* One simulated CFS runqueue: its tasks (cfs_task_t), its own fields      *)
(* (cfs_rq_t), the workload changes an experiment makes between ticks      *)
(* (task_set_runnable) and the tick of the arithmetic in use (exact_tick,  *)
(* bsa_tick, clti_tick or apaf_tick).                                      *)
(*                                                                         *)
(* A task's fields are functions of its array index.  id, nice and clock   *)
(* are left out: id is the index, nice only selects the weight, and clock  *)
(* is TICK_NS * tick and never read.  exec_runtime is counted in units of  *)
(* TICK_NS, the only amount ever added to it.                              *)
(***************************************************************************)
EXTENDS FairnessIndex

CONSTANTS NTasks,        \* rq->nr_tasks
          Weight,        \* Weight[i]: the weight of task i
          Modes,         \* The values approx_mode may be set up with
          Delta(_, _, _),  \* Delta(m, i, s): vruntime task i gains by running a tick
          Decay(_, _, _),  \* Decay(m, l, s): load sum l decayed by one tick
          LoadMax,       \* LoadMax[i]: a bound on the load sum of task i
          MaxTick,       \* Bound on the tick counter
          MaxChanges     \* Bound on the workload changes

Tasks == 0 .. NTasks - 1

ASSUME NTasksAssumption  == NTasks \in Nat \ {0}
ASSUME ModesAssumption   == Modes \subseteq Logics
ASSUME WeightAssumption  == Weight \in [Tasks -> Nat \ {0}]
ASSUME LoadMaxAssumption == LoadMax \in [Tasks -> Nat]
ASSUME BoundsAssumption  == MaxTick \in Nat \ {0} /\ MaxChanges \in Nat

\* The horizon within which the u64 sums of the fairness index are exact.
ASSUME HorizonAssumption == JainExact(NTasks, MaxTick)

\* Running always costs virtual time.
ASSUME DeltaAssumption ==
  \A m \in Modes, i \in Tasks, s \in ApafStates : Delta(m, i, s) \in Nat \ {0}

\* Decay never adds load, and LoadMax is where it balances the weight added.
ASSUME DecayAssumption ==
  \A m \in Modes, i \in Tasks, s \in ApafStates : \A l \in 0 .. LoadMax[i] :
    /\ Decay(m, l, s) \in 0 .. l
    /\ Decay(m, l, s) + Weight[i] <= LoadMax[i]

VARIABLES runnable, vruntime, exec_runtime, load_sum, load_avg,   \* per task
          tick, nr_running, approx_mode, apaf_state, jain_index,  \* per runqueue
          changes                                 \* workload changes made so far

taskVars == << runnable, vruntime, exec_runtime, load_sum, load_avg >>
rqVars   == << tick, nr_running, approx_mode, apaf_state, jain_index >>
vars     == << runnable, vruntime, exec_runtime, load_sum, load_avg,
               tick, nr_running, approx_mode, apaf_state, jain_index, changes >>

-----------------------------------------------------------------------------
(* Helpers *)

IsRunnable(i) == runnable[i] = 1

RunnableTasks == {i \in Tasks : runnable[i] = 1}

\* rq_count_running()
rq_count_running == Cardinality(RunnableTasks)

\* Fault: the first runnable task, whatever its vruntime.
First_Picks(i) == /\ i \in RunnableTasks
                  /\ \A j \in RunnableTasks : i <= j

\* exact_pick_next_task() returns i: the least vruntime among the runnable
\* tasks, and the least index among those.
Picks(i) ==
  /\ i \in RunnableTasks
  /\ \A j \in RunnableTasks : \/ vruntime[i] < vruntime[j]
                              \/ vruntime[i] = vruntime[j] /\ i <= j

\* exact_pick_next_task() returns -1.
PicksNone == RunnableTasks = {}

\* load_avg = (weight * load_sum) / LOAD_AVG_MAX, clamped to weight.  The clamp
\* is reached exactly when load_sum is.
LoadAvg(w, sum) == IF sum >= LOAD_AVG_MAX THEN w ELSE (w * sum) \div LOAD_AVG_MAX

-----------------------------------------------------------------------------
(* The parts of a tick *)

\* rq_tick()
AdvanceClock == tick < MaxTick /\ tick' = tick + 1

\* exact_update_curr() and its three counterparts
UpdateCurr(i) ==
  /\ exec_runtime' = [exec_runtime EXCEPT ![i] = @ + 1]
  /\ vruntime' = [vruntime EXCEPT ![i] = @ + Delta(approx_mode, i, apaf_state)]

\* Fault: the weight is added without the decay.
NoDecay_UpdateLoads ==
  /\ load_sum' = [i \in Tasks |-> load_sum[i]
                                  + (IF runnable[i] = 1 THEN Weight[i] ELSE 0)]
  /\ load_avg' = [i \in Tasks |-> LoadAvg(Weight[i], load_sum'[i])]

\* Fault: only runnable tasks are visited.
RunnableOnly_UpdateLoads ==
  /\ load_sum' = [i \in Tasks |-> IF runnable[i] = 1
                                  THEN Decay(approx_mode, load_sum[i], apaf_state) + Weight[i]
                                  ELSE load_sum[i]]
  /\ load_avg' = [i \in Tasks |-> LoadAvg(Weight[i], load_sum'[i])]

\* exact_update_load_avg() and its three counterparts, for every task
UpdateLoads ==
  /\ load_sum' = [i \in Tasks |-> Decay(approx_mode, load_sum[i], apaf_state)
                                  + (IF runnable[i] = 1 THEN Weight[i] ELSE 0)]
  /\ load_avg' = [i \in Tasks |-> LoadAvg(Weight[i], load_sum'[i])]

\* The last two steps of every tick
Snapshot ==
  /\ jain_index' = fairness_jain_index(runnable, exec_runtime')
  /\ nr_running' = rq_count_running

\* Fault: the controller judges the runtimes of the tick before.
Stale_UpdateState ==
  apaf_state' =
    IF tick' % APAF_MONITOR_INTERVAL = 0
    THEN fairness_apaf_next_state(apaf_state, fairness_jain_index(runnable, exec_runtime))
    ELSE apaf_state

\* Fault: the controller acts on every tick.
EveryTick_UpdateState ==
  apaf_state' =
    fairness_apaf_next_state(apaf_state, fairness_jain_index(runnable, exec_runtime'))

\* apaf_update_state(): it runs when the new tick counter is a multiple of the
\* interval, on the index of the runtimes just updated.
UpdateState ==
  apaf_state' =
    IF tick' % APAF_MONITOR_INTERVAL = 0
    THEN fairness_apaf_next_state(apaf_state, fairness_jain_index(runnable, exec_runtime'))
    ELSE apaf_state

-----------------------------------------------------------------------------
(* Init and the actions *)

\* task_create() for every task, then rq_init()
Init ==
  /\ runnable     = [i \in Tasks |-> 1]
  /\ vruntime     = [i \in Tasks |-> 0]
  /\ exec_runtime = [i \in Tasks |-> 0]
  /\ load_sum     = [i \in Tasks |-> 0]
  /\ load_avg     = [i \in Tasks |-> 0]
  /\ tick         = 0
  /\ nr_running   = NTasks
  /\ approx_mode \in Modes
  /\ apaf_state   = MEDIUM
  /\ jain_index   = One
  /\ changes      = 0

\* Fault: the argument is stored unchecked.
Unchecked_SetRunnable(i, r) ==
  /\ changes < MaxChanges
  /\ changes' = changes + 1
  /\ runnable' = [runnable EXCEPT ![i] = r]
  /\ UNCHANGED << vruntime, exec_runtime, load_sum, load_avg >>
  /\ UNCHANGED rqVars

\* task_set_runnable(&tasks[i], r): anything but 0 or 1 counts as 0, and the
\* runqueue is not told.
SetRunnable(i, r) ==
  /\ changes < MaxChanges
  /\ changes' = changes + 1
  /\ runnable' = [runnable EXCEPT ![i] = IF r = 1 THEN 1 ELSE 0]
  /\ UNCHANGED << vruntime, exec_runtime, load_sum, load_avg >>
  /\ UNCHANGED rqVars

\* Fault: the pick comes before the clock.
Unclocked_IdleReturn ==
  /\ tick < MaxTick
  /\ PicksNone
  /\ UNCHANGED << taskVars, rqVars, changes >>

\* What bsa_tick, clti_tick and apaf_tick do when the pick returns -1: they
\* return, the clock already advanced.
IdleReturn ==
  /\ AdvanceClock
  /\ PicksNone
  /\ UNCHANGED << taskVars, nr_running, approx_mode, apaf_state, jain_index, changes >>

\* exact_tick(): a tick without a runnable task still decays every load and
\* takes the snapshot.
ExactTick ==
  /\ approx_mode = EXACT
  /\ AdvanceClock
  /\ \/ \E i \in Tasks : Picks(i) /\ UpdateCurr(i)
     \/ PicksNone /\ UNCHANGED << vruntime, exec_runtime >>
  /\ UpdateLoads
  /\ Snapshot
  /\ UNCHANGED << runnable, approx_mode, apaf_state, changes >>

\* bsa_tick() and clti_tick(), which differ in Delta and Decay only
FixedTick ==
  /\ AdvanceClock
  /\ \E i \in Tasks : Picks(i) /\ UpdateCurr(i)
  /\ UpdateLoads
  /\ Snapshot
  /\ UNCHANGED << runnable, approx_mode, apaf_state, changes >>

BsaTick  == approx_mode = BSA /\ (FixedTick \/ IdleReturn)
CltiTick == approx_mode = CLTI /\ (FixedTick \/ IdleReturn)

\* apaf_tick(): runtimes and loads are updated under the state the tick began
\* with, then the controller may change it.
ApafTick ==
  /\ approx_mode = APAF
  /\ \/ /\ AdvanceClock
        /\ \E i \in Tasks : Picks(i) /\ UpdateCurr(i)
        /\ UpdateLoads
        /\ UpdateState
        /\ Snapshot
        /\ UNCHANGED << runnable, approx_mode, changes >>
     \/ IdleReturn

\* rq_count_running(&rq), which experiments also call after changing the workload.
CountRunning ==
  /\ nr_running' = rq_count_running
  /\ UNCHANGED << taskVars, tick, approx_mode, apaf_state, jain_index, changes >>

Tick == ExactTick \/ BsaTick \/ CltiTick \/ ApafTick

\* The values an experiment or a test passes: blocked, runnable, out of range.
RunnableArgs == {0, 1, 2}

Change == \E i \in Tasks, r \in RunnableArgs : SetRunnable(i, r)

Next == Tick \/ Change \/ CountRunning

Spec == Init /\ [][Next]_vars

-----------------------------------------------------------------------------
(* Properties *)

TypeOK ==
  /\ runnable     \in [Tasks -> {0, 1}]
  /\ vruntime     \in [Tasks -> Nat]
  /\ exec_runtime \in [Tasks -> Nat]
  /\ load_sum     \in [Tasks -> Nat]
  /\ load_avg     \in [Tasks -> Nat]
  /\ tick         \in 0 .. MaxTick
  /\ nr_running   \in 0 .. NTasks
  /\ approx_mode  \in Modes
  /\ apaf_state   \in ApafStates
  /\ changes      \in 0 .. MaxChanges

\* Load accounting stays within what the decay allows however long a task runs
\* and however it blocks and wakes: load_sum below its balance point, and
\* load_avg, the figure metrics_record() compares, at most the weight
\* (cfs_exact.c:155-167 and its counterparts).
LoadBounded ==
  \A i \in Tasks : load_sum[i] \in 0 .. LoadMax[i] /\ load_avg[i] \in 0 .. Weight[i]

\* The weaker of two deltas, over the states the controller may be in.
DeltaMin(i) == Min({Delta(approx_mode, i, s) : s \in ApafStates})

\* How many more ticks task i can be picked before it is behind task j in the
\* order exact_pick_next_task() uses, j not running meanwhile.
Turns(i, j) ==
  IF vruntime[i] < vruntime[j] \/ (vruntime[i] = vruntime[j] /\ i < j)
  THEN (vruntime[j] - vruntime[i]) \div DeltaMin(i) + 1
  ELSE 0

Ahead(j) == SumFunction([i \in Tasks \ {j} |-> Turns(i, j)])

Ticks == tick' # tick

\* No starvation (cfs_exact.c:190): each tick a runnable task spends waiting uses
\* up one of the finitely many turns the others have before it, also when tasks
\* block, wake with an old vruntime, or the controller changes the deltas.
WaitingShrinks ==
  [][ Ticks => \A j \in RunnableTasks :
        exec_runtime'[j] = exec_runtime[j] => Ahead(j)' < Ahead(j) ]_vars

\* A blocked task is forgotten: every tick that gets past the pick, and in
\* exact_tick() every tick, takes something off its load until only what the decay
\* cannot reach is left (cfs_exact.c:155-161, cfs_exact.c:232-234).
BlockedLoadFades ==
  [][ Ticks /\ (approx_mode = EXACT \/ ~PicksNone) =>
        \A i \in Tasks \ RunnableTasks :
          load_sum[i] > Residue(approx_mode) => load_sum'[i] < load_sum[i] ]_vars

\* What the controller decided still fits the fairness it can see: right after a
\* monitor tick that ran a task, LOOSE is not kept below 0.93 nor TIGHT above
\* 0.95 (fairness.c:76-95).
StateFitsFairness ==
  [][ Ticks /\ approx_mode = APAF /\ tick' % APAF_MONITOR_INTERVAL = 0 /\ ~PicksNone =>
        /\ apaf_state' = LOOSE => ~Below(jain_index', JAIN_LOOSE_TO_MEDIUM)
        /\ apaf_state' = TIGHT => ~Above(jain_index', JAIN_TIGHT_TO_MEDIUM) ]_vars

\* The adaptive runqueue behaves as the controller says, whatever its workload; a
\* runqueue of another mode never leaves the controller's initial state
\* (approx_apaf.c:171-191, approx_apaf.c:290-314).
Indices == {j \in [num : Nat, den : Nat \ {0}] : IsIndex(j)}
Controller == INSTANCE ApafController WITH
  JainValues <- Indices, CtlMaxTick <- MaxTick,
  tick <- IF approx_mode = APAF THEN tick ELSE 0,
  jain_index <- IF approx_mode = APAF THEN jain_index ELSE One
ControllerSpec == Controller!CtlSpec
=============================================================================
