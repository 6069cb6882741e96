# APEX-CFS in TLA+

A model of the simulator under `src/apex-cfs` and of the scheduler it is derived from. The
simulator is a CFS runqueue driven by 1 ms ticks, computed four times over — exactly, and with
three cheaper arithmetics (BSA, CLTI and the adaptive APAF) — and four experiments that compare
them. Its ground truth is the fair class of the Linux kernel, whose 6.1 sources (`fair.c`,
`pelt.c` and the headers they use) the repository keeps under `apex-cfs/docs`. The modules say
what both compute and promise, TLC checks it on small instances, and TLAPS proves the main
guarantees of both for any number of tasks and CPUs and any weights. Where the code does
something other than its comments or its derivation say, section 6 tells.

## 1. Inventory

### The simulator

It is single-threaded C with no allocation, I/O or locking inside a tick. What is
hard about it is not concurrency but *sequence* (tasks block and wake between any two
ticks, and keep their virtual runtime while blocked), *feedback* (APAF's controller changes
the arithmetic of the next tick from the fairness of this one), *comparison* (two runqueues
ticked side by side are compared as if only their arithmetic differed) and *numbers*
(fixed-point products, truncation accumulated over thousands of ticks, u64 products that
wrap).

| Component (source) | State | Operations | What makes it correct |
|---|---|---|---|
| Tasks and runqueue (`task.c`, `task.h`) | `cfs_task_t`: weight, vruntime, load_sum, load_avg, exec_runtime, runnable; `cfs_rq_t`: tick, nr_running, apaf_state, jain_index | `task_create`, `rq_init`, `task_set_runnable`, `rq_tick`, `rq_count_running` | the runqueue's own figures describe its tasks after a tick |
| Exact CFS (`cfs_exact.c`) | the runqueue | `exact_tick`: clock, pick, charge the task, update all loads, snapshot | no starvation, bounded lag, equal service for equals, bounded loads, blocked loads fade |
| BSA (`approx_bsa.c`) | the runqueue | `bsa_tick`; nearest power of two, Newton reciprocal, shift decay | the same, and priorities kept in order; documented error bounds |
| CLTI (`approx_clti.c`) | the runqueue | `clti_tick`; weight classes, interpolated decay table | the same |
| APAF (`approx_apaf.c`) | the runqueue with `apaf_state` | `apaf_tick`, `apaf_update_state` every 4 ticks | the controller does not oscillate, moves one level at a time, fits the fairness it sees |
| Fairness (`fairness.c`) | none | `fairness_jain_index`, `fairness_apaf_next_state`; shares and weights | the index is in 0..1, and exact |
| Metrics (`metrics.c`) | `metrics_t` entries | `metrics_init`, `metrics_record`; CSV and summary output | an entry describes the tick it is recorded for |
| Experiments (`experiments/exp1..4`) | two runqueues; exp2's wait accounting, exp3's transition log, exp4's bound check | workload changes, the two ticks, `metrics_record`, their own books | both runqueues see the same workload and, as far as reported, the same schedule; the books say what happened |
| Self-tests, Makefile, papers, results | | | not modelled (section 9) |

How they interact: an experiment creates two task arrays and two runqueues (`task_create`,
`rq_init`), and then loops: change `runnable` in both arrays (and in exp2 and exp3 call
`rq_count_running`), `exact_tick` on one, the tick under test on the other, `metrics_record`
on both. A tick calls its own logic's `update_curr` and `update_load_avg`, the exact pick in
every logic, `fairness_jain_index`, and, in APAF, the controller between the load update and
the snapshot. Everything is shared through the two structs; a task does not know its
runqueue, so a workload change leaves the runqueue's figures stale until the next tick that
gets to its end.

### The kernel's fair class

Here the difficulty is concurrency. Each CPU has a runqueue and an `rq->lock`, and nearly
everything it does to itself is one step under that lock. The hard parts are what crosses CPUs:
timer callbacks that walk a list of other CPUs' queues, tasks that leave a queue without its lock,
flags and masks of idle CPUs, and balancers that act on what they saw under a lock they have let
go.

| Component (`docs/fair.c`, lines) | State | Operations | What makes it correct |
|---|---|---|---|
| Bandwidth control (4950–5700) | `cfs_bandwidth`: pool, quota, burst, timers, throttled list; per CPU `runtime_remaining`, `throttled` | account, assign, throttle, unthrottle, return slack; the period timer, the slack timer; a CPU on and off line | runtime is neither doubled nor lost; who is throttled is in debt, and runs again; the timer stops |
| Group hierarchy, leaf list (280–560, 5090–5320, 5900–6130, 7540–7680, 11740–12200) | per group a `cfs_rq` and an entity; `h_nr_running`, `idle_h_nr_running`, `throttle_count`; `leaf_cfs_rq_list` | enqueue, dequeue, throttle, unthrottle, pick, put; move between groups, create, destroy, make idle | counts equal what is below; a queued group has work; children before parents |
| Entities and vruntime (560–1000, 4480–4950, 7240–7540) | `vruntime`, `min_vruntime`, buddies, `exec_runtime` | `update_curr`, `place_entity`, wakeup and tick preemption, pick, yield, fork, migration | nobody waits for ever; no buddy dangles; clocks go forward and survive wrapping |
| Load tracking (3190–4640, 8400–8500, `pelt.c`) | `sched_avg` of tasks, group entity, queues; `removed`; `tg->load_avg` | update, attach, detach, remove without the lock, propagate up | sums cover averages; the group knows its load; load goes away |
| NOHZ idle balancing (10800–11350) | `nohz`: mask, `nr_cpus`, `has_blocked`; per CPU `has_blocked_load`, `nohz_tick_stopped` | kick by IPI, walk over idle CPUs, enter and leave idle | blocked load of a sleeping CPU is not forgotten, and decays |
| Load balancing (7930–8400, 8900–10600) | the queues; per domain `nr_balance_failed`, per group `imbalance`; the `lb_env` of each balance under way | statistics, imbalance, detach, attach, active balance by the stopper | affinity holds across the gaps between locks; waste is seen |
| Wake placement, NUMA, energy, core scheduling | | | not modelled (section 9) |

They interact through the runqueue: bandwidth control decides *that* a group is throttled, the
hierarchy what that does to the counts and to the pick, the entities *which* queued entity is
picked, load tracking what the balancers see, and NOHZ makes sure that it is seen of CPUs that
sleep. Each module leaves the decision of another as a free choice, so that what is checked of it
holds whatever the other does.

### Hazards

The hazards, one by one with their lines and the properties that catch them, are listed in
`PROJECT.json`. In short: a stale or partly updated runqueue after a workload change and an
idle tick; a monitor tick that is skipped; starvation and unbounded lag when tasks wake with
an old vruntime or the controller changes the increments; oscillation of the controller; the
controller judging stale runtimes; truncation that leaves or loses load; priorities inverted
by an approximate reciprocal; seams of the decay functions; overflow of the index; a
comparison of runqueues that no longer run the same tasks. In the kernel: list entries that move under
a walk; runtime under two locks; a timer stopped while it is needed; counts that several walks up
the tree must keep together; a branch of the leaf list left open; buddies that outlive their
queueing; vruntimes relative to a clock that moved; load removed without a lock; a flag cleared
before a walk and set by others during it; affinity read under another lock; an imbalance rounded
to nothing.

## 2. Modules

Bottom up; the kernel modules stand by themselves.

| Module | What it models |
|---|---|
| `SchedConstants` | the constants of `task.h` and the headers |
| `SchedMath` | the arithmetic, bit for bit: vruntime increments and load decay of the four logics |
| `FairnessIndex` | `fairness_jain_index` and `fairness_apaf_next_state`; the index is a fraction |
| `ApafController` | **abstract specification**: the controller against arbitrary fairness indices |
| `ApafHysteresis` | the controller with a record of its last switch, and what is claimed of it |
| `CfsRunqueue` | the core: one runqueue, workload changes, the four ticks |
| `CfsFairness` | the core with the history its fairness guarantees speak of |
| `Lockstep` | the experiment loop: two instances of `CfsRunqueue` and `metrics_record` |
| `Experiments` | the four experiments as they are run, each an instance of `Lockstep` with its bookkeeping |
| `BlockedDecay` | one blocked task's load over thousands of ticks, next to one decay over as many periods |
| `VruntimeScaling` | the increments over the whole nice table |
| `JainWidth` | the index in u64 arithmetic, past the range in which it is exact |
| `CfsBandwidth` | kernel: bandwidth control of one group on several CPUs |
| `CfsHierarchy` | kernel: nested groups and the leaf list, on one CPU |
| `FairEntity` | kernel: vruntimes, buddies and preemption on several CPUs |
| `Pelt` | kernel: load tracking of a group and its tasks on one CPU |
| `NohzIdle` | kernel: the idle load balancer |
| `LoadBalance` | kernel: load balancing over two levels of domains |
| `MC*` | TLC instances: tasks, weights, arithmetic, bounds |
| `SumProofs` | lemmas: induction over finite sets, sums over them, sequences that list a set |
| `CfsRunqueueProofs` | theorems about `CfsRunqueue` and, with the history, `CfsFairness` |
| `ApproximationProofs` | theorems about `ApafHysteresis` and `Lockstep` |
| `BandwidthPeltProofs` | theorems about `CfsBandwidth` and `Pelt` |
| `CfsHierarchyProofs`, `FairEntityProofs`, `NohzIdleProofs`, `LoadBalanceProofs` | theorems about the other kernel modules |

**State of the simulator.** A task's fields are functions from its array index (`vruntime[i]`, ...); the
runqueue's fields are variables of their own with the source's names. `exec_runtime` is
counted in ticks, since `TICK_NS` is the only amount ever added. `id`, `nice` and `clock` are
left out (the index, the source of the weight, and `TICK_NS * tick`; none is read by the
scheduler). `approx_mode` is chosen at `Init`, as `rq_init` is told, from the constant `Modes` and
never changes. `changes` only bounds the workload.

**Actions of the simulator.** `ExactTick`, `BsaTick`, `CltiTick` and `ApafTick` are the four ticks, each one
step and composed in the order of the C function: `AdvanceClock` (`rq_tick`), `Picks`
(`exact_pick_next_task`), `UpdateCurr`, `UpdateLoads`, `UpdateState` (APAF) and `Snapshot`.
`IdleReturn` is the early return of the three approximate ticks, which `exact_tick` does not
have. `SetRunnable` is `task_set_runnable` with its out-of-range argument, and it may happen
between any two ticks, while the experiments do it at fixed ones; `CountRunning` is the
explicit `rq_count_running`. The arithmetic comes in through the constants `Delta` and
`Decay`, so that the proofs hold for any arithmetic that satisfies their assumptions.

**Experiments.** `Experiments` instantiates `Lockstep` once per experiment, with the task sets, nice
levels and lengths of the sources, and shares one set of variables among the four. An iteration
of a loop is up to three steps in the order of its source: the workload change, the two ticks
with the bookkeeping on their outcome, and `rq_count_running`. What an experiment computes from
its metrics buffer after the loop is kept as running sums (`totals`). Only exp1 is cut down, to
N = 10 of its three task counts.

**Kernel modules.** A CPU's handler under `rq->lock` is one action; where code drops or never takes
a lock, it is split.

- `CfsBandwidth`: `Run`, `Enqueue`, `Dequeue`, `Block`, `Schedule`, `Pick` are the places where a CPU
  accounts, takes, returns or lacks runtime; `Offline`, `Online` the hotplug callbacks. A callback is
  `PeriodPass` or `SlackFires`, then `StartWalk`, `Visit` and `Advance` for each list entry under
  that CPU's lock, `PeriodRelock`, `PeriodExit`. An entry that leaves the list keeps its next pointer
  (`stale_next`), as `list_del_rcu` leaves it, and a walk that stands on it goes on from there.
  `OthersTake`, `OthersRun` and `OthersReturn` are the group's remaining CPUs, which are never throttled
  and which the model knows by one number, `pool.elsewhere`.
- `CfsHierarchy`: every action folds the code's `for_each_sched_entity` loops over the levels from the
  task up, with their early exits. The four walks share their steps: `TakeOut` and `PutIn` move the
  entity, `Tally` changes the counts, and `Walk` carries where a loop has got to. `poor` is the set of groups
  that bandwidth control finds out of runtime in this step. `newidle` is the one place where the
  lock is dropped with the previous task dequeued and not yet put.
- `FairEntity`: `StartWakeup`/`FinishWakeup` and `Detach`/`Attach` are the two halves of moving a task;
  in between its vruntime is relative. `Leftmost` is the head of the tree: where vruntimes are so far
  apart that no entity is before all others, it may be any of them. Time is in ticks of one unit;
  vruntimes are numbers modulo `W`, compared by signed difference as the code does. A sleeper falls
  behind as its queue goes on: what is known of it ends at `MaxSleepLag` (`Becomes`), and from there
  `Oversleep` may put it anywhere the signed difference does once it is half the range behind.
- `Pelt`: `UpdateAvg` is `___update_load_sum` and `___update_load_avg` with truncations; ages
  (time since `last_update_time`) take the place of absolute times. `StartRemove`/`FinishRemove` are
  `remove_entity_load_avg` in its two accesses to the queue. `Put` and `SetNext` are the updates of a
  switch between tasks; that of `put_prev_entity` passes no `UPDATE_TG` and so tells the group nothing.
- `NohzIdle`: a step is a store that others may see. `Kick` is the IPI, `Csd` its handler, `Softirq` the
  start of a walk, `Visit`, `Abort`, `Finish` its steps; `EnterIdle`, `SetMask`, `SetHasBlocked` the
  three stores of `nohz_balance_enter_idle`. Who may be kicked is an idle CPU of the mask that is also in
  `housekeeping_cpumask(HK_TYPE_MISC)` (`nohz.misc`), and there may be none.
- `LoadBalance`: `Rebalance` and `Pick` (newidle) decide without locks; `Detach`, `Attach` run under one
  lock each; `ActiveBalance` takes the busiest lock and starts the stopper, `Stopper` and
  `StopperAttach` are its two halves. Which tasks are cache hot and the order of the list are any.

**Numbers.** `SchedMath` computes what the 64- and 128-bit C code computes, although TLC's
integers have 32 bits: a product that is shifted right is evaluated digit by digit with
nested floors, which is exact. APAF's decay multiplies by a double; for the one period a
tick passes, its factor is a constant in each state and is given with 48 fractional bits,
enough for the exact result on every load below 4.5 million (above the balance point of the
heaviest weight). The index is a fraction compared by cross-multiplication. `JainExact` is the
range in which that equals the program's computation: n tasks that ran T ticks in all with
n * T^2 <= 18446744; `CfsRunqueue` and `Lockstep` assume it of their bounds, and `JainWidth`
is about what happens beyond. The experiments of 2000 ticks are too long for that assumption, which
reckons with one task that had all of them; the products that do occur in `Experiments` stay
in range.

**Fault operators.** Next to some definitions stands a variant marked `Fault`: a plausible
slip in that code. They are not used by any specification. Each property is known to fail
when the definition is replaced by its variant, which shows that it says something about the
code.

## 3. Runs

| Run | Instance and bounds | States | Properties |
|---|---|---|---|
| `Scheduler` | all four modes; nice 0, 0, 5; 13 ticks; 3 changes at any time | 321 k | `TypeOK`, `LagBounded`, `WaitingShrinks`, `BlockedLoadFades`, `StateFitsFairness`, `ControllerSpec` |
| `Comparison` | BSA, CLTI and APAF, each next to exact; two tasks of nice 0, 400 ticks, 4 changes at phase boundaries | 524 k | `SameSchedule`, `LoadBounded`, `RecordedFairness` |
| `Hysteresis` | 13 indices on and around the thresholds, 14 ticks | 2 k | `ReversalNeedsGap`, `SwitchesSpaced` |
| `Arithmetic` | all four modes; loads from 1 to a balance point, 2030 ticks; 40 nice levels, 3 states | 183 k | `LoadSettlesByCutoff`, `DecayPiecesFit`, `PrioritiesKept`, `DeltasWithinBudget` |
| `Experiments` | the experiments themselves, to their last tick | 35 k | `RecordedResults`, `WaitForeseesPick`, `LogIsHistory`, `RecoversFromSpike`, `MeasuredErrorCoversLoads` |
| `Bandwidth` | 2 CPUs, one of which goes off line, and others of the group; quota 1, doubled once; slice 2; debts of 1 | 301 k | `ThrottledAreInDebt`, `RuntimeConserved`, `ThrottledRunsAgain`, `IdleTimerStops` |
| `Hierarchy` | root, a, and b, c in a; a and b limited; two tasks, one idle | 112 k | `HierarchicalCounts`, `GroupEntitiesHaveWork`, `ThrottleCountsAncestors`, `LeafListOrdered` |
| `FairEntity` | 2 CPUs, 3 tasks of two weights, one moves and forks; vruntimes modulo 16 | 158 k | `BuddiesQueued`, `VruntimeNearQueue`, `MinVruntimeForward`, `QueuedRuns` |
| `Pelt` | 1 task, periods of 2 units, capacity 2, updates at most 3 units apart | 100 k | `SumCoversAvg`, `GroupLoadTracks`, `LoadGoesAway` |
| `NohzIdle` | 3 CPUs, one of which always ticks; blocked loads of 2 and 1 updates; `HK_TYPE_MISC` has all, two or the ticking CPU only | 522 k | `BlockedLoadRemembered`, `BlockedLoadDecays` |
| `LoadBalance` | CPUs {1,2} and {3}, 3 tasks in 3 setups of affinity and sleep | 491 k | `TasksWellPlaced`, `WasteIsSeen` |

The run `JainOverflow`, which refutes what a text says, is in section 6.

What the main ones show:

- `WaitingShrinks` is freedom from starvation as a step property: each tick a runnable task
  is not picked uses up at least one of the finitely many turns the others can have before it.
  It holds with the real increments, with waking tasks that are far behind, and while the
  controller changes the increments. `LagBounded` is the other half of CFS fairness: nobody
  who ran since a task woke is more than one tick of virtual time past it.
- `ControllerSpec` is a refinement: APAF's runqueue, under any workload, implements
  `ApafController`, so that what is proved of the controller for arbitrary indices holds of
  the program.
- `ReversalNeedsGap` is what "hysteresis prevents oscillation" comes to: undoing a switch
  takes a move of the index of more than 0.04.
- `SameSchedule` justifies the experiments' comparison for equal tasks: both runqueues run the
  same task in every tick, whatever blocks and wakes.
- `RecordedResults` ties the model to the program: at their last ticks the experiments have the
  operation counts, waits, transitions, reaction times, states and (rounded) errors of the files
  committed under `results/`. `WaitForeseesPick` and `LogIsHistory` show that exp2's and exp3's own
  books say what the scheduler did, `MeasuredErrorCoversLoads` that the one number exp4 checks
  stands for the loads of all tasks.
- `LoadSettlesByCutoff` and `BlockedLoadFades` come with a residue: one period of BSA's shift leaves
  a load below 32 as it is, one of CLTI's interpolation a load of up to 36, so the ticks never
  clear the last units of a blocked task although one decay over 2016 periods does.
- `ThrottledAreInDebt` is an assertion of the source (`SCHED_WARN_ON(cfs_rq->runtime_remaining > 0)`)
  under two walks at once. `RuntimeConserved` says of every step in the same interleavings that it
  changes the runtime of at most one CPU, and that the pool and that CPU together do not gain by
  it, except one quota at a refill. The one exception is in the code: a CPU going down gets one
  unit from nowhere.
- `HierarchicalCounts` and `GroupEntitiesHaveWork` relate four walks up the tree that stop at
  different levels; the second is why the pick may descend without looking again
  ("the nr_running test will indeed be correct").
- `QueuedRuns` is freedom from starvation in the kernel, against sleeper credit, buddies, yields and
  forks. It has an escape the code needs: see section 4.
- `VruntimeNearQueue` covers what a task brings along from elsewhere: however it slept, moved or was
  forked, it is queued where signed differences mean what they say. It ceases to hold once a sleeper
  was left half the range behind, which the code does not prevent: see section 7.
- `GroupLoadTracks`: whatever changes a queue's load average, or what the group has of it, tells the group
  of all but a small part; only a `Put` does not. `SumCoversAvg` is the warning of
  `load_avg_is_decayed()`, which truncation could raise.
- `LoadGoesAway` has an exception that TLC found: if the last of a queue's sum decays in a `Put`, as for a
  task that is queued for a moment around the end of each period, no later update finds anything
  decayed, and the group is not told. The queue then leaves the leaf list with its
  `tg_load_avg_contrib`, at which `cfs_rq_is_decayed()` (`fair.c:3567-3579`) does not look, and nobody
  comes to it any more. `LostWhenPut` is that state, and the property asks that it was met and the
  contribution not cleared since.
- `BlockedLoadRemembered` is what the comments around `nohz.has_blocked` argue by pairing barriers.
- `TasksWellPlaced`: a task that moves is on no queue between two locks, on a balancer's list or
  in the stopper's hands. At every point of those gaps each task is in exactly one place
  (`InOnePlace`), and each queued one is where its affinity allows it (`AffinityKept`), although the
  destination was chosen under another lock.
- `WasteIsSeen` says that the several rules for an imbalance leave no state in which all CPUs find
  everything balanced while an idle one could take a waiting task.

**Why the bounds are enough.** *Simulator.* Thirteen ticks hold three monitor rounds; the first
index below 0.90 comes in the first of them, so TIGHT, MEDIUM and the increments of each are met
while tasks wait. Three changes are the shortest sequences that block a task, wake it and
disturb another one in between, or empty the queue and refill it. Three tasks are the
fewest with a tie, a heavier and a lighter one and a queue that changes size without
emptying. 400 ticks suffice for the load sum of a task to reach its fixed point above
`LOAD_AVG_MAX`, where the clamp of `load_avg` acts, and the phases of `Comparison` are long
enough for loads to saturate and to fade; 2030 ticks pass the cutoff at 2016 periods. These runs
stop at their last tick, hence no deadlock check in them.

*Kernel.* Two CPUs are enough for a throttled list with an order, for a CPU that leaves it under a
walk, and for both walks to meet; the slack timer needs a third, which hands back runtime while
the others wait, and `OthersReturn` is that one; a quota below what two CPUs want keeps debts and an empty pool
around. Two levels of groups with limits on both give a nested throttle, a throttle that stops a
walk in the middle, and siblings on the leaf list; the idle task makes the two counts differ.
With two tasks on one queue and one that comes and goes there are a leftmost, a current and a
buddy that differ. Numbers modulo 16 wrap within a few slices. In `Pelt` an average needs a
few periods to rise and fall, and an update falls within one, on the edge of one or over several;
larger instances (capacity 4; periods of 3 units) were also run for the two invariants. A
walk over the idle mask needs one CPU that walks, one that changes under it and one that kicks. Two
levels of domains with one and two CPUs have a local and a remote group, an idle CPU next to a busy
one and a CPU that a pinned task may not reach.

## 4. Liveness and fairness

- *Simulator.* `Experiments` assumes weak fairness of its next step: an experiment is one sequential
  program that never waits. `RecoversFromSpike` is checked with it. In the other modules
  "eventually picked" follows from ticks happening at all, and the ranking behind it, which is the
  part the code could get wrong, is checked directly as `WaitingShrinks`.
- *Bandwidth.* Each callback is a thread: weak fairness of "the period timer fires or its callback
  takes a step" and of the same for the slack timer. Strong fairness of some walk starting, and
  of some walk visiting an entry, while the pool has runtime: a walk takes microseconds, and a
  CPU must run for a slice before it takes runtime again, so the refilled pool is not emptied
  under the callbacks every single time. Without it the model starves a CPU by exactly that.
  Nothing is assumed of the CPUs.
- *FairEntity.* Weak fairness of `Schedule` (a reschedule asked for happens) and strong fairness of
  `Tick` (time passes on a CPU that runs tasks, whatever else they do). `QueuedRuns` excepts queues
  to which tasks come from elsewhere for ever: two tasks that each run here and go to another CPU
  before their lag shows come back with relative vruntimes at the front, and a pinned task that
  waits can be kept waiting. That is a limit of CFS itself. It also excepts executions in which a
  sleeper was left half the range behind (section 7). In the instance only one task may run on the
  second CPU, so what the property says is about the first.
- *Pelt.* Weak fairness of time and of the periodic update.
- *NohzIdle.* Strong fairness of a tick that finds `nohz.has_blocked` set, on some CPU that can go
  idle and on some that never does; weak fairness of interrupts, of softirqs and of what a CPU is at:
  its walk or its idle loop. `BlockedLoadDecays` excepts executions in which no CPU ticks any more, or
  walks are aborted for ever, since only a ticking CPU kicks another walk. A CPU outside `HK_TYPE_MISC`
  (`nohz_full`) cannot walk itself: of it the property excepts executions in which again and again
  none of the CPUs that may walk is idle, for then `find_new_ilb()` finds nobody (`fair.c:10790-10802`).
- `Hierarchy`, `LoadBalance` and the rest have safety properties only. That waste is eventually
  repaired cannot be claimed of `LoadBalance`: tasks that switch in lock-step with a balancer are
  always the running one when it looks.

## 5. Proofs

The theorems hold for every value of the constants that satisfies the assumptions of the modules,
which TLC evaluates on every instance. Of the simulator they are: there is a task, weights are
positive, running costs virtual time in every state (`DeltaAssumption`), decay never adds load and
`LoadMax` leaves room for the weight a tick adds (`DecayAssumption`), the index is exact within
`MaxTick` (`HorizonAssumption`), controller indices are fractions in 0..1 (`JainValuesAssumption`).
`LockstepAssumption` is the same of both runqueues of the loop, and that the exact increments do not
depend on a controller's state. The modes a runqueue may have are any of the four, and each theorem
is about all of them at once. Of the kernel modules the assumptions are that sets of tasks are
finite, that weights, slices, periods and quotas are positive numbers, the heaviest weight a
multiple of each (`FairEntity` counts virtual time in whole units), that a task is allowed on
some CPU, and that the groups of `CfsHierarchy` are finitely many and a tree.

### The simulator

- `TypeCorrect` and `LoadStaysBounded`. The inductive invariant is `IInv == TypeOK /\ LoadBounded`.
  The two need each other: decay is only assumed to behave on loads below `LoadMax`, so the load
  of the next state is a number because the present one is in bounds. The four ticks share
  `BusyStep`; the idle return is `IdleStep`. That the index is at most 1 (`JainIsIndex`) is the
  inequality of Cauchy and Schwarz, `SumSquares` in `SumProofs`.
- `WaitingEnds`, freedom from starvation. `Ahead(j)` adds up, over the other tasks, the turns that each
  can still take before `j`, if each turn costs it the least it may. The task that a tick picks
  is before `j`, so its turns are positive, and they become fewer by one at least, whatever the
  controller makes of the increment (`TurnsShrink`, on `DivDrop`); nobody else's change, since
  `DeltaMin` ranges over all states. `SumMonotonic` then gives the sum.
- `StateKeepsFitting`: the bands of the controller overlap, so the state it has just chosen is one that
  its index does not leave (`NextStateFits`). The index the runqueue shows is computed again by
  the snapshot, from the same runtimes (`SameTerms`).
- `RefinesController`: step by step, a tick of an adaptive runqueue that runs a task is a step of
  `ApafController` with the index of its new runtimes; all else stutters (`ControllerSteps`).
- `LagStaysBounded`. `FairIInv` adds the history's type and `LagBounded` itself, which is inductive once
  it is stated about tasks that ran *since the other woke*: the picked task has the least
  vruntime, so one tick puts it at most one tick past anyone waiting (`RunKeepsLag`); a task that
  wakes starts with an empty history (`ChangeKeepsLag`). That the pick is unique (`RunCharges`) is
  where the tie rule matters. `HistoryOnly` shows that the history adds no behaviour, `FairSpec =>
  Spec`, so that the theorems about `Spec` hold of the specification the runs check.
- `NoOscillation` and `SwitchesAreSpaced` (`ApproximationProofs`). `ReversalNeedsGap` is not inductive: it
  relates two switches. `LastExplains` strengthens it: the index of the last switch lies beyond the
  threshold that led into the present state. `SwitchCases` reduces a switch to four, and
  `BandGap` multiplies the fractions out: an index above q/100 exceeds one below p/100 by more than
  0.04 if q >= p + 4.
- `SchedulesAgree`, `BothLoadsBounded`, `FairnessIsExact`, `EachIsARunqueue` (also there). The
  first is about two runqueues at once, and inductive only with what makes their picks
  comparable (`LockInv`): their modes and states are those the equal increments are known of, and
  the vruntimes are numbers, of which the least with the tie rule is unique. The load bounds come
  from `CfsRunqueueProofs`, instantiated for each runqueue. `EachIsARunqueue` is the refinement that
  justifies the composition: neither runqueue notices the other.

### The kernel

- `BlockedLoadIsRemembered` (`NohzIdleProofs`). `IdleInv` adds what the comments argue with: a CPU with
  its tick stopped is on the mask, so that every walk that starts has it before it; load on its way
  to sleep is flagged in the runqueue before `has_blocked` is set, so that a walk does not pass by;
  only housekeeping CPUs do any of it.
- `ThrottledListIsRight` and `RuntimeIsConserved` (`BandwidthPeltProofs`). The list is a sequence and the
  throttled CPUs are a set; `Lists` relates the two, and lemmas give what appending, removing and
  the stale next pointers do to it. `BandwidthInv` adds where the two walks are, `InDebt` and the
  types. The operators on the pair of pool and runqueue are shown to keep `Held`, what the two have
  together; each action then changes one pair.
- `SumsCoverAverages` and `GroupIsTold` (also there). An average is the quotient of its sum by a divider
  that is at least `MinDivider`, and time that goes by never takes from a sum without a new average
  (`UpdateAvgOf`), for which the segments of an update must not be negative (`SegmentsOf`);
  subtraction and propagation clamp. For the group the types suffice: an update that finds nothing
  decayed leaves the average as it is (`UpdateCfsRqOf`), what else changes it ends in
  `update_tg_load_avg()`, after which nothing more is to be told (`Told`), and propagation does not
  touch the queue (`SettleOf`).
- `BuddiesAreQueued`, `RunsOnOneCpu`, `MinVruntimeIsForward` (`FairEntityProofs`). A buddy may be picked, and what is picked may become a buddy, so `BuddiesQueued` and `CurrQueued` are
  inductive together only. `Legal` is what every operator on a queue keeps, of that queue and of
  those it does not touch, and the actions are put together from it. Nothing is assumed of how far
  vruntimes are apart: the theorems hold where the signed comparison is no order.
- `TasksAreWellPlaced` (`LoadBalanceProofs`). `BalanceInv` adds what each gap between two locks relies on:
  what is on a list may run at its destination, which changes only while the list is empty; what the
  stopper holds may run where it is pushed; the task that runs is queued, so nobody sleeps while a
  balancer holds it. What `detach_tasks()` takes is a fold over the queue in any order: the fold is
  shown to exist as a function on sets of positions (`FoldExists`, by induction on their size), and
  `Detaching` to be kept by each of its steps (`DetachStepOf`) and so by the whole (`DetachedOf`, by
  induction over sets). Every action either leaves all tasks where they are (`StaysInv`) or takes a set of
  them from one place to another (`MovesInv`).
- `ThrottleCountsAreRight`, `QueuedGroupsHaveWork`, `LeafListIsConsistent` (`CfsHierarchyProofs`). The
  inductive invariant is `HierarchyInv`: the groups that exist are closed upwards (`Rooted`), every
  task has one of them for its home, and `Sound`: `State` (types, and a leaf list with each listed
  group once), `CountsRight` (the throttle counts) and `QueuesRight` (which entities are queued where).
  Walks up and down the tree are folds over a path. Of each the module shows that the fold exists
  as a function on sets of positions (`FoldExists` and the lemmas that use it) and that what a walk
  has done so far satisfies an invariant of its own: `Dequeuing`, `Leaving` (a throttle) and
  `Entering` (an enqueue or unthrottle) are `Sound` with one exception, the entity the walk has just
  moved or is about to. The early exits are where the exception is seen to be gone: a group that keeps
  other entities stays queued, one that has them already is, and a throttled one must not be. A walk may
  itself throttle a group it passes (`ThrottleIs`); throttling and unthrottling first visit a whole
  subtree, each group once, which moves the counts below by one (`ThrottleDownAll`, `UnthrottleUpAll`).
  That each group has a path to the root is proved by induction over the tree (`TreeInduction`,
  `PathExists`). A task that moves between groups is on no queue in the middle of the step (`Away`). The
  numbers of runnable tasks are in no part of the invariant: they may be anything without harm to the queues.

### What stays with TLC

- Liveness and whatever needs `ENABLED`: `RecoversFromSpike`, `ThrottledRunsAgain`, `IdleTimerStops`,
  `QueuedRuns`, `LoadGoesAway`, `BlockedLoadDecays`.
- The concrete arithmetic: `SchedMath` is recursive and is evaluated, so the properties of the
  runs `Arithmetic` and `Experiments` are about numbers. `BlockedLoadFades` and what the theorems assume
  of `Delta` and `Decay` rest on them.
- Of `CfsHierarchy`: `HierarchicalCounts`, since the walks change sums over subtrees and an invariant of
  each walk would have to say by how much every level is off; and of `LeafListOrdered` all but
  its first two conjuncts, since the order depends on where earlier walks left `tmp_alone_branch`.
- `WasteIsSeen` of `LoadBalance`, which is about statistics that are folds over all CPUs of a domain.
- `VruntimeNearQueue`, a matter of how far tasks can run apart within the slices of an instance.

## 6. Disagreements between code and text

The run `JainOverflow` checks what a comment says, and TLC reports a violation: `fairness.c:11`
has "Error bound: 0%", but the u64 products wrap at 4295 ticks, and ten equal tasks get 0.918.

Others were met while modelling and have no run of their own:

| The text | The code |
|---|---|
| `approx_bsa.c:243` "Tick order mirrors exact_tick() exactly" | an idle approximate tick returns early (line 258): `nr_running` keeps its old value, loads do not decay |
| `approx_apaf.h:34` "Fairness monitor runs every N ticks" | a monitor tick that is idle is skipped (`approx_apaf.c:301`) |
| `approx_clti.c:118` "class mapping + Newton <= 3.0%" | 35% for nice -20 and more elsewhere; adjacent nice levels share a class |
| `approx_bsa.c:139` 1.9110% | 2.17% at nice -5 |
| `math_derivation.md:216` 23.4% is "never reached in practice" | one nice-0 task passes it at tick 82; the bias settles at 31%, as `results/exp1_summary.txt` also has it |
| `approx_clti.c:88` "<= 2.1889% accumulated (32 ticks)" | for 29 to 31 periods half of the load is lost (line 75); no tick passes that many |
| `cfs_exact.h:11` "Maximum periods before load = 0" | the residues of section 3 |
| `approx_apaf.c:166`, `fairness.c:65` non-oscillating | exp2 has 397 transitions in 2000 ticks; each obeys the hysteresis, the index itself swings |

## 7. Bounds and abstractions to keep in mind

`MaxTick`, `CtlMaxTick`, `MaxChanges` and `MaxTicks` bound counters of the model; the program has
no such bounds but `METRICS_MAX_TICKS`. `vruntime` is an unbounded number: the u64 would wrap after
10^11 ticks. Null pointers and indices out of range are guarded against in every C function and
cannot come from the modelled callers. `rq_init`'s fallback to EXACT for an unknown mode and
`task_create`'s clamping of nice are outside the instances, whose modes and levels are valid.
Both runqueues of `Lockstep` share one `runnable`, since the experiments always write both copies
together.

Kernel modules:

- `CfsBandwidth`: `MaxTasks`, `MaxDelta`, `MaxDebt` and `MaxIterations` bound what the CPUs do; a period callback
  that takes more passes than `MaxIterations` does not occur in the model. Runtime is in small units.
  Doubling the period is bounded by `MaxScale`, as `max_cfs_quota_period` does; `Passes`, the passes of
  one callback before it doubles, is 4 in the code and 2 in the run. `HotPlug` are the CPUs that go off
  line: one stays. `Elsewhere` is what other CPUs hold, all or nothing, and they take it only
  while no callback runs. The run has no burst.
- `CfsHierarchy`: one CPU; averages are reduced to whether they have decayed.
- `FairEntity`: `MaxExec` cuts off what is known of a long run. The `VIEW` of its run drops the absolute
  value of each `min_vruntime`: every step is the same after all vruntimes of a queue are shifted, so
  states that differ by a shift are explored once. `MaxSleepLag` (2) saturates how far behind a sleeper is
  known to be: from there to half of `W`, `place_entity()` gives it the same place. It compares by signed
  difference and does not ask how long a task slept (`fair.c:4545-4546`), so a sleeper half the
  range behind counts as ahead, and is queued there and waits. `Oversleep` is that, to any value of the
  signed difference, and the history `lapsed` records it. Without the exception for `lapsed`, TLC finds
  both `VruntimeNearQueue` and `QueuedRuns` violated. The `CONSTRAINT Awake` of the run cuts what follows
  a lapse, where these two claim nothing; `BuddiesQueued` and `MinVruntimeForward` are proved of all
  states, those after a lapse included. A `yield_to` is on the own CPU only.
- `Pelt`: one signal, unit weights, halving periods. "The queue's average is the sum of its
  entities'" holds up to rounding only and is not stated. `MaxLag` is what ticks and the idle
  balancer guarantee. The other update without `UPDATE_TG`, of a throttled group's parent
  (`fair.c:5215`), is to the parent's queue what a `Put` is.
- `NohzIdle`: blocked load is the number of updates it takes to decay; whether an update is due is any
  choice. `MiscSets` are the CPU sets that `HK_TYPE_MISC` may be; each behaviour has one of them.
- `LoadBalance`: equal CPUs; averages at their limits for tasks that are always runnable;
  `nr_balance_failed` counts up to where it makes a difference (`MaxFailed`).

## 8. Plan

1. *Done*: arithmetic, index, controller, runqueue, lockstep loop, decay, their runs; type
   invariant, load bound, lag bound and the two controller theorems.
2. *Done*: the four experiments with their books; the kernel's bandwidth control, hierarchy, entities,
   load tracking, idle balancing and load balancing; liveness in the modules where the code justifies
   fairness.
3. *Done*: the theorems of section 5: starvation, the refinement of the controller, the lockstep loop;
   idle balancing, bandwidth control, entities, load tracking, load balancing and the group hierarchy of
   the kernel.
4. Prove next: `HierarchicalCounts`, with the difference a walk has yet to carry up added to `Dequeuing`,
   `Leaving` and `Entering`; then the order of the leaf list.
5. Model further: reweighting and changes of priority and class in `FairEntity`; group shares
   (`calc_group_shares`) over several CPUs; misfit tasks and asymmetric capacity in `LoadBalance`; a
   composition of `CfsBandwidth` and `CfsHierarchy`, with the set `poor` given by the former.

## 9. Not modelled

*Simulator*: the self-test mains, which are straight-line checks of single functions; the Makefile; text
output (`task_print`, `rq_print`, CSV files, the layout of summaries); means and histograms that
restate what is modelled; `fairness_cpu_shares`, `fairness_ideal_share` and `fairness_total_weight`, which
only self-tests and printed tables use; `apaf_poly_eval` for more than the one period a tick passes; the
papers.

*Kernel*: wake placement (`select_task_rq_fair` and below, `find_idlest_group`), NUMA balancing,
energy-aware placement, utilisation estimates and core scheduling: heuristics whose outcome is some
allowed CPU or some preference among tasks, which `FairEntity` and `LoadBalance` leave open, with no
safety statement of their own in the source. Of `LoadBalance`: asymmetric packing and capacity, misfit
tasks, balance intervals. Of `Pelt`: the migration lag, the rt, dl, irq and thermal averages. Of
`FairEntity`: SCHED_IDLE and SCHED_BATCH, reweighting, priority and class changes, the high-resolution
tick. Statistics, tracing and debug output. The core scheduler, the timers, RCU and the stopper are
outside the excerpts and modelled by how `fair.c` uses them.

## 10. Running

    tlc -config Scheduler.cfg MCFairness.tla         # a run: its .cfg and its module
    tlapm CfsRunqueueProofs.tla                      # the proofs of a module

The module of each run is in `PROJECT.json`. Most finish within a minute, `Bandwidth`, `Hierarchy`,
`FairEntity`, `Pelt` and `NohzIdle` within three, and so do the proofs of each module.
