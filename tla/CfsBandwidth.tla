---------------------------- MODULE CfsBandwidth ----------------------------
(***************************************************************************)
(* CFS bandwidth control of one task group (docs/fair.c, from "CFS         *)
(* bandwidth control machinery").  The group has a pool of runtime that a  *)
(* timer refills every period, and on each CPU a runqueue (cfs_rq) that    *)
(* takes runtime from the pool a slice at a time, is throttled when it can *)
(* get none, and hands back what it does not need when its last task       *)
(* leaves.                                                                 *)
(*                                                                         *)
(* The CPUs in CPUs are modelled one by one.  Others of the group take     *)
(* runtime while there is some, use it up or hand it back, and are never   *)
(* throttled; the slack timer needs at least one of them to start.         *)
(*                                                                         *)
(* A CPU's steps are atomic: each runs under that CPU's rq->lock.  The     *)
(* timer callbacks are not: they drop cfs_b->lock to distribute runtime,   *)
(* and take one rq->lock after the other while walking the throttled list, *)
(* which changes under them.                                               *)
(*                                                                         *)
(* Statistics (nr_periods, nr_throttled, burst_time, throttled_time), the  *)
(* accounting of the group's entity in its parent (see CfsHierarchy) and   *)
(* quota == RUNTIME_INF are left out.                                      *)
(***************************************************************************)
EXTENDS Integers, Sequences, FiniteSets, SequencesExt, FiniteSetsExt, Functions

CONSTANTS CPUs, HotPlug,    \* HotPlug: CPUs that go off line, which the boot CPU does not
          Quota, Burst,     \* cfs_b->quota and cfs_b->burst
          Slice,            \* sched_cfs_bandwidth_slice()
          MinRuntime,       \* min_cfs_rq_runtime
          Passes,           \* Passes of one period callback that double the period; 4
          MaxScale,         \* How often the period can double (max_cfs_quota_period)
          Elsewhere,        \* Bound: runtime that the CPUs outside CPUs have or return at once
          MaxTasks,         \* Bound on the tasks of the group on one CPU
          MaxDelta,         \* Bound on the runtime one update_curr() accounts
          MaxDebt,          \* Bound on the deficit of one CPU
          MaxIterations     \* Bound on the passes of one period callback

ASSUME BandwidthAssumption ==
  /\ CPUs # {} /\ HotPlug \subseteq CPUs
  /\ {Quota, Slice, Passes, MaxTasks, MaxDelta, MaxIterations} \subseteq Nat \ {0}
  /\ {Burst, MinRuntime, MaxScale, MaxDebt, Elsewhere} \subseteq Nat

\* The two timer callbacks, each of which may be walking the throttled list.
Timers == {"period", "slack"}
ListHead == "head"   \* The list head in a next pointer

VARIABLES pool,      \* struct cfs_bandwidth but for its list; elsewhere: what other CPUs took
          rq,        \* rq[c]: the group's cfs_rq on CPU c
          throttled_cfs_rq,   \* The throttled list: CPUs, first to last
          stale_next,         \* The next pointer a CPU kept when it left the list
          cb,        \* cb[t]: where the callback of timer t is
          cursor     \* cursor[t]: the CPU it is visiting

bwVars == << pool, rq, throttled_cfs_rq, stale_next, cb, cursor >>

\* init_cfs_bandwidth() and init_cfs_rq_runtime(), then tg_set_cfs_bandwidth() (core.c)
\* with a quota: it refills the pool, enables every CPU and starts the timer.
Init ==
  /\ pool = [runtime |-> Quota, quota |-> Quota, burst |-> Burst, scale |-> 0,
             idle |-> 0, period_active |-> 1, slack_started |-> FALSE, elsewhere |-> 0]
  /\ rq = [c \in CPUs |-> [remaining |-> 0, enabled |-> TRUE, throttled |-> FALSE,
                           curr |-> FALSE, nr |-> 0]]
  /\ throttled_cfs_rq = << >>
  /\ stale_next = [c \in CPUs |-> ListHead]
  /\ cb = [t \in Timers |-> [at |-> "off", count |-> 0, idle |-> FALSE]]
  /\ cursor = [t \in Timers |-> ListHead]

-----------------------------------------------------------------------------
(* The pool: operators on pairs s = [pool, rq], rq that of one CPU *)

\* cfs_b->lock: the period callback holds it between two passes.
PoolUnlocked == cb["period"].at # "held"

\* __refill_cfs_bandwidth_runtime()
Refill(p) == [p EXCEPT !.runtime = Min({p.runtime + p.quota, p.quota + p.burst})]

\* start_cfs_bandwidth()
StartPeriod(p) == [p EXCEPT !.period_active = 1]

\* __assign_cfs_rq_runtime(): it succeeds if the result has runtime remaining.
Assign(s, target) ==
  LET p      == StartPeriod(s.pool)
      amount == Min({p.runtime, target - s.rq.remaining})
  IN  IF p.runtime > 0
      THEN [pool |-> [p EXCEPT !.runtime = @ - amount, !.idle = 0],
            rq   |-> [s.rq EXCEPT !.remaining = @ + amount]]
      ELSE [s EXCEPT !.pool = p]

\* account_cfs_rq_runtime(): what ran is docked, and a slice fetched when nothing
\* is left.  (The resched it may ask for is Schedule, which can always happen.)
Account(s, delta) ==
  LET docked == [s EXCEPT !.rq.remaining = @ - delta]
  IN  IF ~s.rq.enabled THEN s
      ELSE IF docked.rq.remaining > 0 \/ s.rq.throttled THEN docked
      ELSE Assign(docked, Slice)

\* throttle_cfs_rq(): it asks for one unit first, in case some has become available.
Throttle(s) == LET a == Assign(s, 1)
               IN  IF a.rq.remaining > 0 THEN a ELSE [a EXCEPT !.rq.throttled = TRUE]

\* check_cfs_rq_runtime(), from put_prev_entity() and the pick
CheckRuntime(s) ==
  IF ~s.rq.enabled \/ s.rq.remaining > 0 \/ s.rq.throttled THEN s ELSE Throttle(s)

\* check_enqueue_throttle(), when the first entity of the group is enqueued
CheckEnqueue(s) ==
  IF ~s.rq.enabled \/ s.rq.curr \/ s.rq.throttled THEN s
  ELSE LET a == Account(s, 0)
       IN  IF a.rq.remaining <= 0 THEN Throttle(a) ELSE a

\* runtime_refresh_within(): always while the period callback runs, otherwise a
\* question of time.
RefreshSoon(answer) == cb["period"].at # "off" => answer

\* Fault: the runtime handed back is not taken from the CPU.
Keeping_ReturnRuntime(s, soon) ==
  LET slack == s.rq.remaining - MinRuntime
      p     == [s.pool EXCEPT !.runtime = @ + slack]
      start == p.runtime > Slice /\ throttled_cfs_rq # << >> /\ ~soon
  IN  IF ~s.rq.enabled \/ s.rq.nr > 0 \/ slack <= 0 THEN s
      ELSE [s EXCEPT !.pool = [p EXCEPT !.slack_started = p.slack_started \/ start]]

\* return_cfs_rq_runtime(): all but MinRuntime goes back to the pool, and the slack
\* timer is started if somebody could use it and the refill is not near.
ReturnRuntime(s, soon) ==
  LET slack == s.rq.remaining - MinRuntime
      p     == [s.pool EXCEPT !.runtime = @ + slack]
      start == p.runtime > Slice /\ throttled_cfs_rq # << >> /\ ~soon
  IN  IF ~s.rq.enabled \/ s.rq.nr > 0 \/ slack <= 0 THEN s
      ELSE [pool |-> [p EXCEPT !.slack_started = p.slack_started \/ start],
            rq   |-> [s.rq EXCEPT !.remaining = MinRuntime]]

-----------------------------------------------------------------------------
(* The steps of a CPU *)

Here(c) == [pool |-> pool, rq |-> rq[c]]

\* The outcome s of a step of CPU c; a CPU that throttles joins the list at its tail.
Becomes(c, s) ==
  /\ PoolUnlocked
  /\ pool' = s.pool
  /\ rq' = [rq EXCEPT ![c] = s.rq]
  /\ IF s.rq.throttled /\ ~rq[c].throttled
     THEN /\ throttled_cfs_rq' = Append(throttled_cfs_rq, c)
          /\ stale_next' = [stale_next EXCEPT ![c] = ListHead]
     ELSE UNCHANGED << throttled_cfs_rq, stale_next >>
  /\ UNCHANGED << cb, cursor >>

\* Runtimes update_curr() can find: none unless the group runs.
Deltas(c) == {d \in 0 .. MaxDelta : (d > 0 => rq[c].curr) /\ rq[c].remaining - d >= -MaxDebt}

\* update_curr() from the tick
Run(c) == \E d \in Deltas(c) \ {0} : Becomes(c, Account(Here(c), d))

\* A task wakes up in the group: update_curr(), then the check for the first one.
Enqueue(c) ==
  /\ rq[c].nr < MaxTasks
  /\ \E d \in Deltas(c) :
       LET s == [Account(Here(c), d) EXCEPT !.rq.nr = @ + 1]
       IN  Becomes(c, IF s.rq.nr = 1 THEN CheckEnqueue(s) ELSE s)

\* A task that is not running leaves the group.
Dequeue(c) ==
  /\ rq[c].nr > IF rq[c].curr THEN 1 ELSE 0
  /\ \E d \in Deltas(c), soon \in BOOLEAN :
       /\ RefreshSoon(soon)
       /\ Becomes(c, ReturnRuntime([Account(Here(c), d) EXCEPT !.rq.nr = @ - 1], soon))

\* The running task blocks: dequeue_entity(), then put_prev_entity() of the same
\* schedule().
Block(c) ==
  /\ rq[c].curr /\ rq[c].nr > 0
  /\ \E d \in Deltas(c), soon \in BOOLEAN :
       /\ RefreshSoon(soon)
       /\ LET s == ReturnRuntime([Account(Here(c), d) EXCEPT !.rq.nr = @ - 1], soon)
          IN  Becomes(c, [CheckRuntime(s) EXCEPT !.rq.curr = FALSE])

\* The running task is preempted: put_prev_entity().
Schedule(c) ==
  /\ rq[c].curr
  /\ \E d \in Deltas(c) : Becomes(c, [CheckRuntime(Account(Here(c), d)) EXCEPT !.rq.curr = FALSE])

\* A task of the group is picked: its entity is on the queue unless throttled.
Pick(c) ==
  /\ rq[c].nr > 0 /\ ~rq[c].throttled /\ ~rq[c].curr
  /\ Becomes(c, [Here(c) EXCEPT !.rq.curr = TRUE])

\* unthrottle_cfs_rq(): off the list, its next pointer kept (list_del_rcu).
Unthrottled(c, remaining, enabled) ==
  LET i == CHOOSE k \in DOMAIN throttled_cfs_rq : throttled_cfs_rq[k] = c
  IN  /\ rq' = [rq EXCEPT ![c].throttled = FALSE, ![c].remaining = remaining,
                          ![c].enabled = enabled]
      /\ throttled_cfs_rq' = RemoveAt(throttled_cfs_rq, i)
      /\ stale_next' = [stale_next EXCEPT ![c] =
                          IF i < Len(throttled_cfs_rq) THEN throttled_cfs_rq[i + 1] ELSE ListHead]

\* Fault: a throttled CPU goes down as it is.
Stuck_Offline(c) ==
  /\ PoolUnlocked
  /\ c \in HotPlug /\ rq[c].enabled
  /\ rq' = [rq EXCEPT ![c].remaining = 1, ![c].enabled = FALSE]
  /\ UNCHANGED << pool, throttled_cfs_rq, stale_next, cb, cursor >>

\* unthrottle_offline_cfs_rqs(): the CPU goes down with one unit, and unlimited.
Offline(c) ==
  /\ PoolUnlocked
  /\ c \in HotPlug /\ rq[c].enabled
  /\ IF rq[c].throttled
     THEN Unthrottled(c, 1, FALSE)
     ELSE /\ rq' = [rq EXCEPT ![c].remaining = 1, ![c].enabled = FALSE]
          /\ UNCHANGED << throttled_cfs_rq, stale_next >>
  /\ UNCHANGED << pool, cb, cursor >>

\* update_runtime_enabled(): the CPU comes up.
Online(c) ==
  /\ ~rq[c].enabled
  /\ Becomes(c, [Here(c) EXCEPT !.rq.enabled = TRUE])

-----------------------------------------------------------------------------
(* distribute_cfs_runtime(), run by the callback of timer t *)

\* Where the list walk goes from CPU c: its successor, or where it pointed when it
\* was removed.
NextOf(c) ==
  IF c \in Range(throttled_cfs_rq)
  THEN LET i == CHOOSE k \in DOMAIN throttled_cfs_rq : throttled_cfs_rq[k] = c
       IN  IF i < Len(throttled_cfs_rq) THEN throttled_cfs_rq[i + 1] ELSE ListHead
  ELSE stale_next[c]

First == IF throttled_cfs_rq = << >> THEN ListHead ELSE throttled_cfs_rq[1]

\* The walk is over: the slack callback is done, the period callback takes
\* cfs_b->lock again.
WalkEnds(t) ==
  /\ cb' = [cb EXCEPT ![t].at = IF t = "slack" THEN "off" ELSE "relock"]
  /\ cursor' = [cursor EXCEPT ![t] = ListHead]

WalksTo(t, c) == IF c = ListHead THEN WalkEnds(t)
                 ELSE /\ cb' = [cb EXCEPT ![t].at = "visit"]
                      /\ cursor' = [cursor EXCEPT ![t] = c]

Visited(t) == cb' = [cb EXCEPT ![t].at = "advance"] /\ UNCHANGED cursor

StartWalk(t) ==
  /\ cb[t].at = "walk"
  /\ WalksTo(t, First)
  /\ UNCHANGED << pool, rq, throttled_cfs_rq, stale_next >>

\* Fault: half the deficit is enough.
Short_Grant(c) == Min({(1 - rq[c].remaining) \div 2, pool.runtime})

\* What CPU c gets: enough to be one above its deficit, if the pool has it.
Grant(c) == Min({1 - rq[c].remaining, pool.runtime})

\* One list entry, under its rq->lock.  A CPU no longer throttled is passed over; the
\* walk stops when the pool is found empty.
Visit(t) ==
  LET c == cursor[t]
  IN  /\ cb[t].at = "visit"
      /\ PoolUnlocked
      /\ IF rq[c].throttled
         THEN /\ pool' = [pool EXCEPT !.runtime = @ - Grant(c)]
              /\ IF rq[c].remaining + Grant(c) > 0
                 THEN Unthrottled(c, rq[c].remaining + Grant(c), rq[c].enabled)
                 ELSE /\ rq' = [rq EXCEPT ![c].remaining = @ + Grant(c)]
                      /\ UNCHANGED << throttled_cfs_rq, stale_next >>
              /\ IF Grant(c) = pool.runtime THEN WalkEnds(t) ELSE Visited(t)
         ELSE /\ Visited(t)
              /\ UNCHANGED << pool, rq, throttled_cfs_rq, stale_next >>

\* On to the next entry, outside any rq->lock.
Advance(t) ==
  /\ cb[t].at = "advance"
  /\ WalksTo(t, NextOf(cursor[t]))
  /\ UNCHANGED << pool, rq, throttled_cfs_rq, stale_next >>

-----------------------------------------------------------------------------
(* The period timer *)

\* The pass of sched_cfs_period_timer() after do_sched_cfs_period_timer() returned
\* idle: every Passes passes in one callback double the period while it may grow.
ScaleUp(p, count) ==
  IF count % Passes = 0 /\ p.scale < MaxScale
  THEN [p EXCEPT !.scale = @ + 1, !.quota = 2 * @, !.burst = 2 * @]
  ELSE p

\* Fault: a period without activity is not noted.
Restless_Outcome(p) == IF throttled_cfs_rq # << >> THEN "distribute"
                       ELSE IF p.idle = 1 THEN "deactivate" ELSE "nothing"

\* What a pass does after the refill: stop if there was no activity for a period,
\* note that there may be none, or distribute.
Outcome(p) == IF throttled_cfs_rq # << >> THEN "distribute"
              ELSE IF p.idle = 1 THEN "deactivate" ELSE "mark idle"

\* The timer fires, or has overrun again by the end of a pass.
PeriodPass ==
  /\ \/ cb["period"].at = "off" /\ pool.period_active = 1
     \/ cb["period"].at = "held" /\ cb["period"].count < MaxIterations
  /\ LET n == IF cb["period"].at = "off" THEN 1 ELSE cb["period"].count + 1
         p == Refill(pool)
         what == Outcome(p)
     IN  /\ pool' = CASE what = "distribute" -> p
                      [] what = "mark idle"  -> ScaleUp([p EXCEPT !.idle = 1], n)
                      [] OTHER               -> ScaleUp(p, n)
         /\ cb' = [cb EXCEPT !["period"] =
                     [at |-> IF what = "distribute" THEN "walk" ELSE "held",
                      count |-> n, idle |-> what = "deactivate"]]
  /\ UNCHANGED << rq, throttled_cfs_rq, stale_next, cursor >>

\* cfs_b->lock is taken again after a walk: distribute once more while CPUs wait and
\* there is runtime, else end the pass.
PeriodRelock ==
  /\ cb["period"].at = "relock"
  /\ IF throttled_cfs_rq # << >> /\ pool.runtime > 0
     THEN cb' = [cb EXCEPT !["period"].at = "walk"] /\ UNCHANGED pool
     ELSE /\ pool' = ScaleUp([pool EXCEPT !.idle = 0], cb["period"].count)
          /\ cb' = [cb EXCEPT !["period"].at = "held"]
  /\ UNCHANGED << rq, throttled_cfs_rq, stale_next, cursor >>

\* No overrun: the callback returns, and the timer is restarted unless idle.
PeriodExit ==
  /\ cb["period"].at = "held"
  /\ pool' = [pool EXCEPT !.period_active = IF cb["period"].idle THEN 0 ELSE @]
  /\ cb' = [cb EXCEPT !["period"] = [at |-> "off", count |-> 0, idle |-> FALSE]]
  /\ UNCHANGED << rq, throttled_cfs_rq, stale_next, cursor >>

-----------------------------------------------------------------------------
(* The slack timer *)

\* do_sched_cfs_slack_timer(): distribute unless the refill is near or too little
\* is left.
SlackFires ==
  /\ cb["slack"].at = "off" /\ pool.slack_started
  /\ PoolUnlocked
  /\ pool' = [pool EXCEPT !.slack_started = FALSE]
  /\ \E soon \in BOOLEAN :
       /\ RefreshSoon(soon)
       /\ IF ~soon /\ pool.runtime > Slice THEN cb' = [cb EXCEPT !["slack"].at = "walk"]
          ELSE UNCHANGED cb
  /\ UNCHANGED << rq, throttled_cfs_rq, stale_next, cursor >>

-----------------------------------------------------------------------------
(* Other CPUs *)

\* They take slices, which add up to Elsewhere beyond what they keep (bound: while no
\* callback runs),
OthersTake ==
  /\ \A t \in Timers : cb[t].at = "off"
  /\ pool.elsewhere = 0 /\ pool.runtime >= Elsewhere /\ Elsewhere > 0
  /\ pool' = [StartPeriod(pool) EXCEPT !.runtime = @ - Elsewhere, !.idle = 0,
                                       !.elsewhere = Elsewhere]

\* use them up,
OthersRun ==
  /\ pool.elsewhere > 0
  /\ pool' = [pool EXCEPT !.elsewhere = 0]

\* or hand them back when their last tasks leave.
OthersReturn ==
  /\ PoolUnlocked
  /\ pool.elsewhere > 0
  /\ \E soon \in BOOLEAN :
       LET other == [remaining |-> MinRuntime + pool.elsewhere, enabled |-> TRUE, nr |-> 0]
       IN  /\ RefreshSoon(soon)
           /\ pool' = [ReturnRuntime([pool |-> pool, rq |-> other], soon).pool
                         EXCEPT !.elsewhere = 0]

-----------------------------------------------------------------------------

CpuStep(c) == Run(c) \/ Enqueue(c) \/ Dequeue(c) \/ Block(c) \/ Schedule(c) \/ Pick(c)
              \/ Offline(c) \/ Online(c)

WalkStep(t) == StartWalk(t) \/ Visit(t) \/ Advance(t)

PeriodStep == PeriodPass \/ PeriodRelock \/ PeriodExit

OtherStep == /\ OthersTake \/ OthersRun \/ OthersReturn
             /\ UNCHANGED << rq, throttled_cfs_rq, stale_next, cb, cursor >>

Next == \/ \E c \in CPUs : CpuStep(c)
        \/ \E t \in Timers : WalkStep(t)
        \/ PeriodStep \/ SlackFires \/ OtherStep

\* A timer that is armed fires, and a callback runs to its end.  Strong fairness: a
\* walk takes microseconds and a CPU needs a slice of running to take runtime again,
\* so the refilled pool is not emptied under the callbacks every single time.
Fairness == /\ WF_bwVars(PeriodStep \/ WalkStep("period"))
            /\ WF_bwVars(SlackFires \/ WalkStep("slack"))
            /\ SF_bwVars(\E t \in Timers : StartWalk(t) /\ pool.runtime > 0)
            /\ SF_bwVars(\E t \in Timers : Visit(t) /\ pool.runtime > 0)

Spec == Init /\ [][Next]_bwVars /\ Fairness

-----------------------------------------------------------------------------
(* Properties *)

\* The throttled list holds each throttled CPU once and no other, and those have no
\* runtime: "By the above check, this should never be true", says distribution of
\* the contrary while two callbacks hand out runtime and CPUs come and go
\* (fair.c:5334-5335, 5187, 5252).
ThrottledAreInDebt ==
  /\ Range(throttled_cfs_rq) = {c \in CPUs : rq[c].throttled}
  /\ Len(throttled_cfs_rq) = Cardinality(Range(throttled_cfs_rq))
  /\ \A c \in CPUs : rq[c].throttled => rq[c].remaining <= 0 /\ rq[c].enabled /\ ~rq[c].curr

Refilled == cb'["period"].count > cb["period"].count
Downed   == \E c \in CPUs : rq[c].enabled /\ ~rq'[c].enabled

\* The runtime of the group in the pool and on CPU c.
Around(c) == pool.runtime + pool.elsewhere + rq[c].remaining

\* What a step may do to runtime: it moves between the pool and one CPU.
Conserving ==
  /\ \E c \in CPUs :
       /\ \A d \in CPUs \ {c} : rq'[d].remaining = rq[d].remaining
       /\ ~Refilled /\ ~Downed => Around(c)' <= Around(c)
       /\ Refilled => Around(c)' <= Around(c) + pool.quota
       /\ (\A d \in CPUs : ~rq[d].curr) /\ ~OthersRun /\ ~Refilled /\ ~Downed
            => Around(c)' = Around(c)
  /\ Refilled => pool'.runtime <= pool'.quota + pool'.burst

\* Quota is the limit: runtime comes from the refill only, one quota at a time, and
\* what assignment, return and two concurrent distributions move, between the pool and
\* one CPU at a time, is neither doubled nor lost.  A CPU going down is excepted: it
\* gets its one unit from nowhere (fair.c:4977-5034, 5321-5364, 5474-5496).
RuntimeConserved == [][Conserving]_bwVars

\* A throttled CPU is let run again, whatever the others do and whichever callback
\* is cut short by an empty pool or a moved list entry (fair.c:5321-5435).
ThrottledRunsAgain == \A c \in CPUs : []<>~rq[c].throttled

\* "If there has been no activity within the last period the timer is deactivated
\* until scheduling resumes" (fair.c:5363-5366).
IdleTimerStops ==
  <>[](pool.elsewhere = 0 /\ \A c \in CPUs : rq[c].nr = 0 /\ ~rq[c].curr) => []<>(pool.period_active = 0)
=============================================================================
