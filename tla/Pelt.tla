-------------------------------- MODULE Pelt --------------------------------
(***************************************************************************)
(* Per-entity load tracking (docs/pelt.c, docs/fair.c) on one CPU: the     *)
(* runqueue of a task group keeps the sum of the averages of the tasks     *)
(* attached to it, the group's entity and the root runqueue follow, and    *)
(* the load of the group learns of the changes that matter.                *)
(*                                                                         *)
(* The CPU updates its averages under rq->lock.  A task that wakes up on   *)
(* another CPU is taken out without that lock: its average is brought to   *)
(* the last_update_time of the queue and handed over in `removed', which   *)
(* this CPU subtracts at its next update.  On other CPUs a task comes to   *)
(* any average before it returns.                                          *)
(*                                                                         *)
(* One signal stands for the three: the runnable average, of tasks of unit *)
(* weight, whose load average is the same number.  Periods are of Period   *)
(* units instead of 1024 and halve instead of y^32 = 1/2; LoadAvgMax is    *)
(* scaled with them.                                                       *)
(***************************************************************************)
EXTENDS Integers, FiniteSets, FiniteSetsExt

CONSTANTS Tasks,
          Period,       \* Units of time in a period
          Capacity,     \* 1 << SCHED_CAPACITY_SHIFT
          Tolerance,    \* The group learns of a change by more than 1/Tolerance; 64
          MaxLag        \* Bound: time between two updates of a queue that has load

ASSUME PeltAssumption ==
  /\ IsFiniteSet(Tasks)
  /\ {Period, Capacity, Tolerance, MaxLag} \subseteq Nat \ {0}

\* Capacity * (1 + 1/2 + 1/4 + ...) periods
LoadAvgMax == 2 * Period
MinDivider == LoadAvgMax - Period

VARIABLES phase,   \* The time within a period
          q,       \* The group's runqueue grq, its entity ge and the root runqueue
          se,      \* se[t]: the average of task t
          at       \* at[t]: where the task is

pVars == << phase, q, se, at >>

Zero == [sum |-> 0, avg |-> 0, age |-> 0]

\* age: the time since last_update_time; removed is None when removed.nr is 0; contrib: what
\* the group's load_avg has of this queue.
None == -1
PeltInit ==
  /\ phase = 0
  /\ q = [grq |-> Zero, ge |-> Zero, root |-> Zero, removed |-> None,
          propagate |-> FALSE, contrib |-> 0, on_list |-> FALSE]
  /\ se = [t \in Tasks |-> Zero]
  /\ at = [t \in Tasks |-> "away"]

Runnable == {t \in Tasks : at[t] = "queued"}
NrRunning == Cardinality(Runnable)

-----------------------------------------------------------------------------
(* pelt.c *)

\* decay_load()
Decay(val, periods) == val \div 2^periods

\* period_contrib of an average that was last updated this long ago
PeriodContrib(age) == (phase - age) % Period

\* get_pelt_divider()
Divider(age) == LoadAvgMax - Period + PeriodContrib(age)

\* Whole periods that end between last_update_time and the time `to' ago
Periods(sa, to) == (PeriodContrib(sa.age) + sa.age - to) \div Period

\* __accumulate_pelt_segments()
Segments(periods, d1, d3) ==
  Decay(d1, periods) + (LoadAvgMax - Decay(LoadAvgMax, periods) - Period) + d3

\* ___update_load_sum() and ___update_load_avg(): sa is brought to the time `to' ago, n
\* tasks were runnable meanwhile.
UpdateAvg(sa, n, to) ==
  LET p   == Periods(sa, to)
      c   == PeriodContrib(sa.age)
      new == IF n = 0 THEN 0
             ELSE IF p = 0 THEN sa.age - to ELSE Segments(p, Period - c, PeriodContrib(to))
      sum == Decay(sa.sum, p) + n * new * Capacity
  IN  IF sa.age <= to THEN [sa EXCEPT !.age = to]
      ELSE [sum |-> sum, age |-> to, avg |-> IF p = 0 THEN sa.avg ELSE sum \div Divider(to)]

-----------------------------------------------------------------------------
(* Attaching and detaching *)

SubPositive(x, y) == Max({x - y, 0})

\* Fault: the sum of what is left may become too small for its average.
Unclamped_Minus(sa, avg, sum) ==
  [sa EXCEPT !.avg = SubPositive(@, avg), !.sum = SubPositive(@, sum)]

\* An average without one that was part of it; the sum keeps up with the average that
\* is left.
Minus(sa, avg, sum) ==
  LET left == SubPositive(sa.avg, avg)
  IN  [sa EXCEPT !.avg = left, !.sum = Max({SubPositive(@, sum), left * MinDivider})]

Removed(s) == Max({s.removed, 0})

\* update_cfs_rq_load_avg() of the group's runqueue: what was handed over goes first.
UpdateCfsRq(s, n) ==
  [s EXCEPT !.grq = UpdateAvg(Minus(@, Removed(s), Removed(s) * Divider(@.age)), n, 0),
            !.removed = None, !.propagate = @ \/ s.removed # None]

\* Whether it says that the load changed
Decayed(s) == s.removed # None \/ Periods(s.grq, 0) > 0

\* propagate_entity_load_avg() and update_tg_cfs_runnable(): the entity takes over the
\* average of its runqueue, and the root runqueue the difference.
Propagate(s) ==
  LET delta == s.grq.avg - s.ge.avg
      sum   == s.grq.avg * Divider(s.root.age)
      avg   == Max({s.root.avg + delta, 0})
  IN  IF ~s.propagate THEN s
      ELSE IF delta = 0 THEN [s EXCEPT !.propagate = FALSE]
      ELSE [s EXCEPT !.propagate = FALSE,
                     !.ge.avg = s.grq.avg, !.ge.sum = sum,
                     !.root.avg = avg,
                     !.root.sum = Max({@ + sum - s.ge.sum, avg * MinDivider})]

\* Fault: what is small does not depend on what the group has.
Fixed_UpdateTg(s) ==
  LET delta == s.grq.avg - s.contrib
  IN  IF Max({delta, -delta}) > Tolerance THEN [s EXCEPT !.contrib = s.grq.avg] ELSE s

\* update_tg_load_avg(): the group learns of a difference that is not small.
UpdateTg(s) ==
  LET delta == s.grq.avg - s.contrib
  IN  IF Max({delta, -delta}) > s.contrib \div Tolerance THEN [s EXCEPT !.contrib = s.grq.avg]
      ELSE s

\* The group's queue has come to x while n tasks were runnable; update_load_avg() of the
\* entity and the root runqueue follows.
Settle(x, n) ==
  \E s \in {x} : \E u \in {[s EXCEPT !.ge = UpdateAvg(@, n, 0), !.root = UpdateAvg(@, n, 0)]} :
    q' = Propagate(u)

\* update_load_avg() of the group's queue, which came to s: the group learns of it if the load
\* decayed and the flags have UPDATE_TG.
Updated(s, update_tg) == IF update_tg /\ Decayed(q) THEN UpdateTg(s) ELSE s

-----------------------------------------------------------------------------
(* Operations of the CPU *)

\* enqueue_task_fair() of a task that slept here
Wakeup(t) ==
  /\ at[t] = "sleeping"
  /\ se' = [se EXCEPT ![t] = UpdateAvg(@, 0, 0)]
  /\ at' = [at EXCEPT ![t] = "queued"]
  /\ \E s \in {UpdateCfsRq(q, NrRunning)} :
       Settle([Updated(s, TRUE) EXCEPT !.on_list = TRUE], NrRunning)
  /\ UNCHANGED phase

\* enqueue_task_fair() of a task that comes from elsewhere: attach_entity_load_avg()
Attach(t, avg) ==
  LET sum == avg * Divider(0)
  IN  /\ at[t] = "away"
      /\ se' = [se EXCEPT ![t] = [sum |-> sum, avg |-> avg, age |-> 0]]
      /\ at' = [at EXCEPT ![t] = "queued"]
      /\ \E s \in {[UpdateCfsRq(q, NrRunning) EXCEPT
                       !.on_list = TRUE, !.propagate = TRUE,
                       !.grq.avg = @ + avg, !.grq.sum = @ + sum]} :
           Settle(UpdateTg(s), NrRunning)
      /\ UNCHANGED phase

\* task_tick_fair() of a running task, and dequeue_task_fair() of one that goes to sleep
Runs(t, then) ==
  /\ at[t] = "queued"
  /\ se' = [se EXCEPT ![t] = UpdateAvg(@, 1, 0)]
  /\ at' = [at EXCEPT ![t] = then]
  /\ \E s \in {UpdateCfsRq(q, NrRunning)} : Settle(Updated(s, TRUE), NrRunning)
  /\ UNCHANGED phase

Tick(t)  == Runs(t, "queued")
Sleep(t) == Runs(t, "sleeping")

\* A switch to or from a queued task updates its queue; the entity's too, unless the other
\* task is of the same group.
Switch(t, update_tg) ==
  /\ at[t] = "queued"
  /\ se' = [se EXCEPT ![t] = UpdateAvg(@, 1, 0)]
  /\ \E s \in {Updated(UpdateCfsRq(q, NrRunning), update_tg)} :
       q' = s \/ Settle(s, NrRunning)
  /\ UNCHANGED << phase, at >>

\* put_prev_entity() passes no flags, set_next_entity() UPDATE_TG.
Put(t)     == Switch(t, FALSE)
SetNext(t) == Switch(t, TRUE)

\* Fault: the group is not told.
Silent_DetachEntity(s, own) ==
  [s EXCEPT !.grq = Minus(@, own.avg, own.sum), !.propagate = TRUE]

\* detach_entity_load_avg()
DetachEntity(s, own) ==
  UpdateTg([s EXCEPT !.grq = Minus(@, own.avg, own.sum), !.propagate = TRUE])

\* dequeue_task_fair() of a task that is pulled to another CPU
Detach(t) ==
  /\ at[t] = "queued"
  /\ se' = [se EXCEPT ![t] = Zero]
  /\ at' = [at EXCEPT ![t] = "away"]
  /\ \E s \in {UpdateCfsRq(q, NrRunning)} :
       Settle(DetachEntity(s, UpdateAvg(se[t], 1, 0)), NrRunning)
  /\ UNCHANGED phase

\* skip_blocked_update(): the entity has no load left, and none to propagate.
SkipBlocked(s) == s.ge.avg = 0 /\ ~s.propagate

\* update_blocked_averages(), also when the CPU is idle. A queue that has decayed leaves the
\* list, and is not looked at any more.
UpdateBlocked ==
  LET n == NrRunning
  IN  /\ q.on_list
      /\ \E s \in {UpdateCfsRq(q, n)} :
           \E new \in {[Updated(s, TRUE) EXCEPT !.on_list = n > 0 \/ s.grq.sum > 0]} :
             IF SkipBlocked(s)
             THEN q' = [new EXCEPT !.root = UpdateAvg(@, n, 0)]
             ELSE Settle(new, n)
      /\ UNCHANGED << phase, se, at >>

-----------------------------------------------------------------------------
(* Leaving without the lock *)

\* remove_entity_load_avg() of a task that sleeps: its average is brought to the
\* last_update_time of the queue, as it was read ...
StartRemove(t) ==
  /\ at[t] = "sleeping"
  /\ se' = [se EXCEPT ![t] = UpdateAvg(@, 0, q.grq.age)]
  /\ at' = [at EXCEPT ![t] = "removing"]
  /\ UNCHANGED << phase, q >>

\* ... and handed over. The task wakes up on another CPU or is dead.
FinishRemove(t) ==
  /\ at[t] = "removing"
  /\ q' = [q EXCEPT !.removed = Removed(q) + se[t].avg]
  /\ se' = [se EXCEPT ![t] = Zero]
  /\ at' = [at EXCEPT ![t] = "away"]
  /\ UNCHANGED phase

\* Times after which nothing is left of an idle average are equal if they differ by periods.
Older(sa, idle) ==
  LET gone == idle /\ Decay(sa.sum, sa.age \div Period) = 0
  IN  [sa EXCEPT !.age = IF gone /\ @ >= Period THEN @ + 1 - Period ELSE @ + 1]

\* A unit of time. A queue with load, and a task on it, is updated every MaxLag: by ticks, or
\* for an idle CPU by the idle load balancer.
Time ==
  /\ q.on_list => q.grq.age < MaxLag
  /\ \A t \in Runnable : \A sa \in {se[t], q.ge, q.root} : sa.age < MaxLag
  /\ phase' = (phase + 1) % Period
  /\ q' = LET idle == Runnable = {}
          IN  [q EXCEPT !.grq = Older(@, idle), !.ge = Older(@, idle), !.root = Older(@, idle)]
  /\ se' = [t \in Tasks |-> IF at[t] = "away" THEN Zero ELSE Older(se[t], at[t] # "queued")]
  /\ UNCHANGED at

PeltNext ==
  \/ Time \/ UpdateBlocked
  \/ \E t \in Tasks : \/ Wakeup(t) \/ Tick(t) \/ Sleep(t) \/ Put(t) \/ SetNext(t)
                      \/ Detach(t) \/ StartRemove(t) \/ FinishRemove(t)
                      \/ \E avg \in 0 .. Capacity : Attach(t, avg)

PeltFairness == WF_pVars(Time) /\ WF_pVars(UpdateBlocked)

PeltSpec == PeltInit /\ [][PeltNext]_pVars /\ PeltFairness

-----------------------------------------------------------------------------
(* Properties *)

\* "_avg must be null when _sum are null": whatever is attached and removed, and in whatever
\* part of a period, the sum of an average is no less than the average times the least
\* divider, so the warning of load_avg_is_decayed() never comes (fair.c:3521-3530).
SumCoversAvg == \A sa \in {q.grq, q.ge, q.root} : sa.sum >= sa.avg * MinDivider

\* "tg->load_avg := \Sum tg->cfs_rq[]->avg.load" (fair.c:3584-3594): whatever changes the load
\* of a queue, or what the group has of it, leaves no more than a small part untold. Only a
\* task that is put does: put_prev_entity() updates without UPDATE_TG (fair.c:4904, 4207-4211).
GroupLoadTracks ==
  [][\/ q'.grq.avg = q.grq.avg /\ q'.contrib = q.contrib
     \/ UpdateTg(q') = q'
     \/ \E t \in Tasks : Put(t)]_pVars

\* The last of the load of a queue went when a task on it was put, untold.
LostWhenPut == Runnable # {} /\ q.grq.sum = 0 /\ q.contrib # 0

\* When no task runs any more, their load goes away and the queue leaves the list, also when
\* tasks left while the CPU updated it; and it goes away from the group, but for what the group
\* was left with by a put, and has had since (fair.c:3569-3579, 4016-4080, 8448-8489).
LoadGoesAway ==
  \/ []<>(Runnable # {})
  \/ /\ <>[](q.grq.avg = 0 /\ ~q.on_list)
     /\ <>[](q.contrib = 0) \/ <>(LostWhenPut /\ [](q.contrib # 0))
=============================================================================
