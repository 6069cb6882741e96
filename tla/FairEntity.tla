----------------------------- MODULE FairEntity -----------------------------
(***************************************************************************)
(* The virtual runtimes of the kernel's fair class (docs/fair.c): tasks    *)
(* run, sleep, wake up, fork, yield and move between the runqueues of      *)
(* several CPUs, and each is placed relative to the min_vruntime of the    *)
(* queue it is on.  vruntimes are 64-bit numbers that wrap and are         *)
(* compared by their signed difference; here they are numbers modulo W.    *)
(*                                                                         *)
(* A step of a CPU runs under its rq->lock.  Moving a task takes two       *)
(* steps, one on each queue, and so does a wakeup on another CPU, which    *)
(* reads the old queue's min_vruntime without its lock.                    *)
(*                                                                         *)
(* Groups are left out (CfsHierarchy), and so are load averages, SCHED_IDLE*)
(* and SCHED_BATCH.  Time passes in ticks of one unit.                     *)
(***************************************************************************)
EXTENDS Integers, FiniteSets, FiniteSetsExt, Functions

CONSTANTS CPUs, Tasks,
          Children,       \* The tasks that are born by a fork, after they exited
          Allowed,        \* Allowed[t]: the CPUs that t may run on, its cpus_ptr
          Weight,         \* Weight[t]; NICE_0_LOAD is HeavyWeight
          HeavyWeight,
          W,              \* The vruntimes wrap at W
          Latency,        \* sysctl_sched_latency
          MinGran,        \* sysctl_sched_min_granularity
          WakeGran,       \* sysctl_sched_wakeup_granularity
          MaxSleepLag,    \* Bound: how far behind its queue a sleeper is known to be
          None

ASSUME FairAssumption ==
  /\ IsFiniteSet(Tasks)
  /\ {HeavyWeight, W, Latency, MinGran} \subseteq Nat \ {0}
  /\ WakeGran \in Nat /\ MaxSleepLag \in Nat
  /\ Children \subseteq Tasks
  /\ Allowed \in [Tasks -> (SUBSET CPUs) \ {{}}]
  /\ Weight \in [Tasks -> Nat \ {0}]
  /\ \A t \in Tasks : HeavyWeight % Weight[t] = 0
  /\ None \notin Tasks \cup CPUs

\* sched_nr_latency
NrLatency == (Latency + MinGran - 1) \div MinGran

\* Bound: a task that ran for longer than any slice is known to have run this long.
MaxExec == Max({Latency, Cardinality(Tasks) * MinGran}) + 1

VARIABLES rq,     \* rq[c]: the root cfs_rq of CPU c
          se,     \* se[t]: the entity of task t, and its state
          lapsed  \* History: a sleeper's queue has gone on by half the range of vruntimes

fVars == << rq, se, lapsed >>

\* at: where a task is; normalized: its vruntime is relative, not of any queue.
\* exec: what curr has run since it was picked; resched: TIF_NEED_RESCHED.
Init ==
  /\ rq = [c \in CPUs |-> [min_vruntime |-> W - 1, curr |-> None, next |-> None, last |-> None,
                           skip |-> None, exec |-> 0, resched |-> FALSE]]
  /\ \E home \in [Tasks -> CPUs] :
       /\ \A t \in Tasks : home[t] \in Allowed[t]
       /\ se = [t \in Tasks |-> [vruntime |-> W - 1, cpu |-> home[t], at |-> "sleeping",
                                 normalized |-> FALSE]]
  /\ lapsed = FALSE

-----------------------------------------------------------------------------
(* Virtual time *)

Plus(v, d) == (v + d) % W

\* The signed difference of two vruntimes.
Diff(v, u) == LET d == (v - u) % W IN IF 2 * d >= W THEN d - W ELSE d

\* max_vruntime()
MaxV(v, u) == IF Diff(u, v) > 0 THEN u ELSE v

\* calc_delta_fair()
DeltaFair(delta, t) == delta * (HeavyWeight \div Weight[t])

OnRq(c)   == {t \in Tasks : se[t].at = "queued" /\ se[t].cpu = c}
Before(s, t, u) == Diff(s.se[t].vruntime, s.se[u].vruntime) < 0

\* A state of queue c and the entities, which the operators below transform.
Here(c) == [rq |-> rq[c], se |-> se]

Queue(s, c) == {t \in Tasks : s.se[t].at = "queued" /\ s.se[t].cpu = c}
Tree(s, c)  == Queue(s, c) \ {s.rq.curr}

\* __pick_first_entity(): either of two with the same vruntime; any, if vruntimes are so far
\* apart that each is before another.
Leftmost(s, tree) ==
  LET first == {t \in tree : \A u \in tree : ~Before(s, u, t)}
  IN  IF first = {} THEN tree ELSE first

\* The load of a queue of tasks
Load(q) == SumFunctionOnSet(Weight, q)

\* sched_slice() of t, which may not be queued yet
Slice(s, c, t) ==
  LET q      == Queue(s, c) \cup {t}
      nr     == Cardinality(q)
      period == IF nr > NrLatency THEN nr * MinGran ELSE Latency
  IN  Max({(period * Weight[t]) \div Load(q), MinGran})

\* The least vruntime of curr, if queued, and the tree
Least(s, q) == s.se[CHOOSE t \in Leftmost(s, q) : TRUE].vruntime

\* Fault: min_vruntime may go back.
Dropping_UpdateMinVruntime(s, c) ==
  LET q == Queue(s, c)
  IN  IF q = {} THEN s ELSE [s EXCEPT !.rq.min_vruntime = Least(s, q)]

\* update_min_vruntime(): the least on the queue, but never backwards.
UpdateMinVruntime(s, c) ==
  LET q == Queue(s, c)
  IN  IF q = {} THEN s ELSE [s EXCEPT !.rq.min_vruntime = MaxV(@, Least(s, q))]

\* update_curr() after a unit of time, before it calls update_min_vruntime()
UpdateCurr(s) ==
  [s EXCEPT !.se[s.rq.curr].vruntime = Plus(@, DeltaFair(1, s.rq.curr)),
            !.rq.exec = Min({@ + 1, MaxExec})]

-----------------------------------------------------------------------------
(* Queueing *)

\* Fault: a woken task is placed at the front whatever it had.
Generous_PlaceWoken(s, t) ==
  [s EXCEPT !.se[t].vruntime = Plus(s.rq.min_vruntime, -(Latency \div 2))]

\* place_entity() of a woken task: half a latency before min_vruntime, unless that is
\* before where it was.
PlaceWoken(s, t) ==
  [s EXCEPT !.se[t].vruntime = MaxV(@, Plus(s.rq.min_vruntime, -(Latency \div 2)))]

\* place_entity() of a new task: a slice after min_vruntime
PlaceNew(s, c, t) ==
  [s EXCEPT !.se[t].vruntime =
     MaxV(@, Plus(s.rq.min_vruntime, DeltaFair(Slice(s, c, t), t)))]

\* Fault: the vruntime stays relative.
Relative_EnqueueEntity(s, c, t, wakeup) ==
  LET placed == IF wakeup THEN PlaceWoken(s, t) ELSE s
  IN  [placed EXCEPT !.se[t].cpu = c, !.se[t].at = "queued", !.se[t].normalized = FALSE]

\* enqueue_entity(): renormalised to this queue, placed if it wakes up.
EnqueueEntity(s, c, t, wakeup) ==
  LET renorm == IF s.se[t].normalized
                THEN [s EXCEPT !.se[t].vruntime = Plus(@, s.rq.min_vruntime)] ELSE s
      placed == IF wakeup THEN PlaceWoken(renorm, t) ELSE renorm
  IN  [placed EXCEPT !.se[t].cpu = c, !.se[t].at = "queued", !.se[t].normalized = FALSE]

Without(b, t) == IF b = t THEN None ELSE b

\* Fault: the last buddy is kept.
Keeping_ClearBuddies(s, t) ==
  [s EXCEPT !.rq.next = Without(@, t), !.rq.skip = Without(@, t)]

\* clear_buddies()
ClearBuddies(s, t) ==
  [s EXCEPT !.rq.next = Without(@, t), !.rq.last = Without(@, t), !.rq.skip = Without(@, t)]

\* dequeue_entity(): relative to this queue unless it sleeps.
DequeueEntity(s, c, t, at) ==
  LET sleep == at = "sleeping"
      out   == [ClearBuddies(s, t) EXCEPT
                  !.se[t].at = at, !.se[t].normalized = ~sleep,
                  !.se[t].vruntime = IF sleep THEN @ ELSE Plus(@, -s.rq.min_vruntime)]
  IN  UpdateMinVruntime(out, c)

\* wakeup_preempt_entity(): -1, 0 or 1
WakeupPreempt(s, curr, t) ==
  LET vdiff == Diff(s.se[curr].vruntime, s.se[t].vruntime)
  IN  IF vdiff <= 0 THEN -1 ELSE IF vdiff > DeltaFair(WakeGran, t) THEN 1 ELSE 0

\* check_preempt_wakeup() of curr by t; an idle CPU reschedules at once.
CheckPreempt(s, c, t) ==
  LET curr == s.rq.curr
      next == [s EXCEPT !.rq.next = t, !.rq.resched = TRUE]
  IN  IF curr = None THEN [s EXCEPT !.rq.resched = TRUE]
      ELSE IF s.rq.resched \/ WakeupPreempt(s, curr, t) # 1 THEN s
      ELSE IF Cardinality(Queue(s, c)) >= NrLatency /\ s.se[curr].at = "queued"
      THEN [next EXCEPT !.rq.last = curr]
      ELSE next

\* check_preempt_tick(): the slice is used up, or somebody is a slice behind.
CheckPreemptTick(s, c) ==
  LET curr  == s.rq.curr
      ideal == Slice(s, c, curr)
      left  == CHOOSE t \in Leftmost(s, Tree(s, c)) : TRUE
  IN  IF Cardinality(Queue(s, c)) <= 1 THEN s
      ELSE IF s.rq.exec > ideal THEN ClearBuddies([s EXCEPT !.rq.resched = TRUE], curr)
      ELSE IF s.rq.exec >= MinGran /\ Diff(s.se[curr].vruntime, s.se[left].vruntime) > ideal
      THEN [s EXCEPT !.rq.resched = TRUE]
      ELSE s

\* pick_next_entity(): the leftmost, the one after it if it is to be skipped, or a buddy,
\* the last two unless that would be too unfair.
PickNext(s, c, curr) ==
  LET tree == Tree(s, c)
      first(t) == IF t = None \/ (curr # None /\ Before(s, curr, t)) THEN curr ELSE t
      Lefts(T) == IF T = {} THEN {None} ELSE Leftmost(s, T)
      fair(t, left) == t # None /\ WakeupPreempt(s, t, left) < 1
      second(left) == IF left = curr THEN Lefts(tree) ELSE {first(t) : t \in Lefts(tree \ {left})}
      skipped(left) == IF s.rq.skip # left THEN {left}
                       ELSE {IF fair(t, left) THEN t ELSE left : t \in second(left)}
  IN  UNION {IF fair(s.rq.next, left) THEN {s.rq.next}
             ELSE IF fair(s.rq.last, left) THEN {s.rq.last}
             ELSE skipped(left) : left \in {first(t) : t \in Lefts(tree)}}

-----------------------------------------------------------------------------
(* Steps of a CPU *)

\* A sleeper's vruntime stays as it is while its queue goes on. Of one that was left behind by
\* MaxSleepLag it is not known how much further behind it is, which makes no difference ...
Asleep(e, c) == e.at \in {"sleeping", "waking"} /\ ~e.normalized /\ e.cpu = c

Lag(s, t) == Diff(s.rq.min_vruntime, s.se[t].vruntime)

Becomes(c, x) == \E s \in {x} :
  /\ rq' = [rq EXCEPT ![c] = s.rq]
  /\ se' = [t \in Tasks |-> IF Asleep(s.se[t], c) /\ Lag(s, t) > MaxSleepLag
                            THEN [s.se[t] EXCEPT !.vruntime = Plus(s.rq.min_vruntime, -MaxSleepLag)]
                            ELSE s.se[t]]
  /\ UNCHANGED lapsed

\* ... until it is half the range behind: then the signed difference puts it ahead of its
\* queue, and later behind it again. place_entity() does not ask how long a task slept.
Oversleep(t, v) ==
  LET c == se[t].cpu
  IN  /\ Asleep(se[t], c) /\ Lag(Here(c), t) = MaxSleepLag
      /\ Diff(rq[c].min_vruntime, v) < MaxSleepLag
      /\ se' = [se EXCEPT ![t].vruntime = v]
      /\ lapsed' = TRUE
      /\ UNCHANGED rq

\* __schedule(): the running task is put if another is picked.
Picks(c, x) == \E s \in {x} :
  LET prev == IF s.rq.curr # None /\ s.se[s.rq.curr].at = "queued" THEN s.rq.curr ELSE None
      next(t) == [ClearBuddies(s, t) EXCEPT !.rq.curr = t, !.rq.resched = FALSE, !.rq.exec = 0]
  IN  IF Queue(s, c) = {}
      THEN Becomes(c, [s EXCEPT !.rq.curr = None, !.rq.resched = FALSE, !.rq.exec = 0])
      ELSE \E t \in PickNext(s, c, prev) :
             Becomes(c, IF t = prev THEN [s EXCEPT !.rq.resched = FALSE] ELSE next(t))

Schedule(c) == rq[c].resched /\ Picks(c, Here(c))

\* task_tick_fair(): a unit of time passes for the running task.
Tick(c) ==
  /\ rq[c].curr # None /\ ~rq[c].resched
  /\ \E ran \in {UpdateCurr(Here(c))} : \E s \in {UpdateMinVruntime(ran, c)} :
       Becomes(c, CheckPreemptTick(s, c))

\* The running task sleeps or exits.
Block(c) ==
  /\ rq[c].curr # None
  /\ Picks(c, DequeueEntity(Here(c), c, rq[c].curr, "sleeping"))

\* yield_task_fair(), then schedule()
Yield(c) ==
  /\ rq[c].curr # None
  /\ LET s == IF Cardinality(OnRq(c)) = 1 THEN Here(c)
              ELSE [ClearBuddies(Here(c), rq[c].curr) EXCEPT !.rq.skip = rq[c].curr]
     IN  Picks(c, s)

\* yield_to_task_fair()
YieldTo(c, t) ==
  /\ rq[c].curr # None /\ t \in OnRq(c) \ {rq[c].curr}
  /\ Picks(c, [ClearBuddies([Here(c) EXCEPT !.rq.next = t], rq[c].curr) EXCEPT
                 !.rq.skip = rq[c].curr])

\* try_to_wake_up() (core.c): a CPU is chosen; on another one, migrate_task_rq_fair()
\* makes the vruntime relative to the min_vruntime it reads.
StartWakeup(t, c) ==
  /\ se[t].at = "sleeping" /\ c \in Allowed[t]
  /\ \A d \in CPUs : rq[d].curr # t
  /\ se' = [se EXCEPT ![t] =
              IF c = @.cpu THEN [@ EXCEPT !.at = "waking"]
              ELSE [cpu |-> c, at |-> "waking", normalized |-> TRUE,
                    vruntime |-> Plus(@.vruntime, -rq[@.cpu].min_vruntime)]]
  /\ UNCHANGED << rq, lapsed >>

\* enqueue_task_fair() of the woken task on its CPU, and check_preempt_wakeup()
FinishWakeup(t) ==
  LET c == se[t].cpu
  IN  /\ se[t].at = "waking"
      /\ \E s \in {EnqueueEntity(Here(c), c, t, TRUE)} : Becomes(c, CheckPreempt(s, c, t))

\* detach_task(): a task that waits is taken off its queue.
Detach(t) ==
  LET c == se[t].cpu
  IN  /\ se[t].at = "queued" /\ rq[c].curr # t /\ Allowed[t] # {c}
      /\ Becomes(c, DequeueEntity(Here(c), c, t, "migrating"))

\* attach_task(): it is queued on another CPU.
Attach(t, c) ==
  /\ se[t].at = "migrating" /\ c \in Allowed[t] \ {se[t].cpu}
  /\ \E s \in {EnqueueEntity(Here(c), c, t, FALSE)} : Becomes(c, CheckPreempt(s, c, t))

\* task_fork_fair() by the running task of CPU c: t, which is not alive, gets the
\* parent's vruntime, or later; the child may run first.
Fork(c, t, child_first) ==
  LET parent == rq[c].curr
      copied == [Here(c) EXCEPT !.se[t] = [vruntime |-> se[parent].vruntime, cpu |-> c,
                                           at |-> "new", normalized |-> TRUE]]
      placed == PlaceNew(copied, c, t)
      swap   == child_first /\ Before(placed, parent, t)
      both   == IF ~swap THEN placed
                ELSE [placed EXCEPT !.se[parent].vruntime = placed.se[t].vruntime,
                                    !.se[t].vruntime = placed.se[parent].vruntime,
                                    !.rq.resched = TRUE]
  IN  /\ parent # None /\ t \in Children
      /\ se[t].at = "sleeping" /\ \A d \in CPUs : rq[d].curr # t
      /\ Becomes(c, [both EXCEPT !.se[t].vruntime = Plus(@, -rq[c].min_vruntime)])

\* wake_up_new_task() (core.c): the child is queued where the fork balancing puts it.
WakeNew(t, c) ==
  /\ se[t].at = "new" /\ c \in Allowed[t]
  /\ \E s \in {EnqueueEntity(Here(c), c, t, FALSE)} : Becomes(c, CheckPreempt(s, c, t))

Next ==
  \/ \E c \in CPUs : \/ Schedule(c) \/ Tick(c) \/ Block(c) \/ Yield(c)
                     \/ \E t \in Tasks : \/ YieldTo(c, t) \/ StartWakeup(t, c) \/ Attach(t, c)
                                         \/ WakeNew(t, c)
                                         \/ \E first \in BOOLEAN : Fork(c, t, first)
  \/ \E t \in Tasks : FinishWakeup(t) \/ Detach(t) \/ \E v \in 0 .. W - 1 : Oversleep(t, v)

\* Time passes on a CPU that runs tasks, whatever else they do, and a reschedule asked for
\* happens.
Fairness == \A c \in CPUs : WF_fVars(Schedule(c)) /\ SF_fVars(Tick(c))

Spec == Init /\ [][Next]_fVars /\ Fairness

-----------------------------------------------------------------------------
(* Properties *)

\* A buddy is queued here: pick_next_entity() takes it without asking, so one that
\* slept or moved away would run on two CPUs or while asleep (fair.c:4666-4677, 4862-4872).
BuddiesQueued ==
  \A c \in CPUs : {rq[c].next, rq[c].last, rq[c].skip} \ {None} \subseteq OnRq(c)

\* Whatever queue a task came from, it is queued within reach of this queue's
\* min_vruntime: at most half a latency of credit, and never as far as half the range,
\* where the signed comparison would turn round ("this way the vruntime transition
\* between RQs is done when both min_vruntime are up-to-date", fair.c:4551-4574). Only after
\* a sleeper was left half the range behind is anything possible (fair.c:4545-4546).
VruntimeNearQueue ==
  ~lapsed => \A c \in CPUs : \A t \in OnRq(c) :
    LET d == Diff(se[t].vruntime, rq[c].min_vruntime)
    IN  d >= -(Latency \div 2) /\ 4 * d < W

\* min_vruntime only moves forward, also when the entity holding it back leaves and a
\* sleeper is placed before it (fair.c:592-618).
MinVruntimeForward == [][\A c \in CPUs : Diff(rq'[c].min_vruntime, rq[c].min_vruntime) >= 0]_fVars

\* A task that was on another queue comes to queue c with a relative vruntime.
Joins(c) == \E t \in Tasks : /\ se[t].normalized /\ (se[t].at = "new" => se[t].cpu # c)
                             /\ se'[t].at = "queued" /\ se'[t].cpu = c

\* A queued task runs, or leaves the queue, however often others wake up, fork, yield or
\* are favoured as buddies. What can keep it waiting are tasks that come from other queues
\* again and again, and leave what they ran there behind, and a sleeper that was left half
\* the range behind (fair.c:4825-4882, 4551-4574, 4545-4546).
QueuedRuns ==
  \A t \in Tasks : \A c \in Allowed[t] :
    \/ []<><<Joins(c)>>_fVars
    \/ <>lapsed
    \/ []<>(se[t].at # "queued" \/ se[t].cpu # c \/ rq[c].curr = t)
=============================================================================
