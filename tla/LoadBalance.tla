---------------------------- MODULE LoadBalance ----------------------------
(***************************************************************************)
(* The load balancer of the kernel's fair class (docs/fair.c): a CPU looks *)
(* for the busiest queue of a domain without any lock, detaches tasks      *)
(* under the lock of that queue, attaches them under the lock of its own,  *)
(* and if that fails often enough lets the stopper of the busiest CPU push *)
(* the task that runs there.  All CPUs do this at once, on what the others *)
(* leave them.                                                             *)
(*                                                                         *)
(* CPUs are equal; two levels of domains: the CPUs of a cluster (shared    *)
(* cache), and the clusters.  The averages are those of tasks of one       *)
(* weight that are always runnable: a CPU with tasks is fully used and its *)
(* load is their number.  When a balance is due, which tasks are cache     *)
(* hot, and the order of the list are any choice.  Left out: NUMA,         *)
(* asymmetric packing and capacity, energy, throttled groups, and the      *)
(* break after SCHED_NR_MIGRATE_BREAK tasks, which are more than there are.*)
(***************************************************************************)
EXTENDS Integers, Sequences, FiniteSets, SequencesExt

CONSTANTS Clusters,      \* a partition of the CPUs
          Tasks,
          Setups,        \* allowed[t]: p->cpus_ptr; sleepers: tasks that sleep now and then
          Scale,         \* SCHED_CAPACITY_SCALE
          Pct,           \* sd->imbalance_pct
          NiceTries,     \* sd->cache_nice_tries
          None

CPUs == UNION Clusters

ASSUME LoadBalanceAssumption ==
  /\ IsFiniteSet(CPUs) /\ CPUs \subseteq Nat
  /\ \A g \in Clusters : g # {}
  /\ \A g, h \in Clusters : g # h => g \cap h = {}
  /\ Setups \subseteq [allowed : [Tasks -> (SUBSET CPUs) \ {{}}], sleepers : SUBSET Tasks]
  /\ IsFiniteSet(Tasks) /\ None \notin Tasks \cup [task : Tasks, dst : CPUs]
  /\ Scale \in Nat \ {0} /\ Pct \in Nat /\ NiceTries \in Nat

VARIABLES rq,       \* rq[c]: cfs_tasks, curr, active_balance and push_cpu of a runqueue
          asleep,   \* tasks that are on no runqueue
          failed,   \* failed[c][l]: sd->nr_balance_failed, up to where it makes a difference
          imbal,    \* imbal[g]: sgc->imbalance of a cluster
          lb,       \* lb[c]: the load_balance() that CPU c is in
          stop,     \* stop[c]: what the stopper of CPU c has detached
          setup     \* one of Setups

lVars == << rq, asleep, failed, imbal, lb, stop, setup >>

Allowed == setup.allowed
Sleepers == setup.sleepers

-----------------------------------------------------------------------------
(* Domains *)

Cluster(c) == CHOOSE g \in Clusters : c \in g
Levels(c) == IF Cluster(c) = {c} THEN {2} ELSE {1, 2}
Span(c, l) == IF l = 1 THEN Cluster(c) ELSE CPUs
Groups(c, l) == IF l = 1 THEN {{d} : d \in Cluster(c)} ELSE Clusters
LocalGroup(c, l) == CHOOSE g \in Groups(c, l) : c \in g

MaxFailed == NiceTries + 3

Count(c) == Cardinality(rq[c].tasks)
\* rq->nr_running, with the stopper; cfs.h_nr_running is Count.
NrRunning(c) == Count(c) + IF rq[c].active THEN 1 ELSE 0
IdleCpu(c) == rq[c].curr = None /\ NrRunning(c) = 0

NoLb == [pc |-> "none"]
\* struct lb_env, as load_balance() starts with it
Env(c, l, idle) ==
  [pc |-> "find", level |-> l, idle |-> idle, dst |-> c, src |-> c, cpus |-> Span(c, l), kind |-> "none",
   imbalance |-> 0, max |-> 0, flags |-> {}, new_dst |-> c, moved |-> FALSE, list |-> {}]

\* The tasks that do not sleep are anywhere.
Init ==
  /\ setup \in Setups
  /\ \E at \in [Tasks \ Sleepers -> CPUs] :
       /\ \A t \in Tasks \ Sleepers : at[t] \in Allowed[t]
       /\ rq = [c \in CPUs |-> [tasks |-> {t \in DOMAIN at : at[t] = c}, curr |-> None,
                                active |-> FALSE, push |-> c]]
  /\ asleep = Sleepers
  /\ failed = [c \in CPUs |-> [l \in Levels(c) |-> 0]]
  /\ imbal = [g \in Clusters |-> FALSE]
  /\ lb = [c \in CPUs |-> NoLb]
  /\ stop = [c \in CPUs |-> None]

-----------------------------------------------------------------------------
(* Statistics *)

SumOver(f(_), S) == FoldSet(LAMBDA c, acc : f(c) + acc, 0, S)
CpuUtil(c) == IF Count(c) = 0 THEN 0 ELSE Scale
CpuLoad(c) == Count(c) * Scale

\* enum group_type
HasSpare == 0
FullyBusy == 1
Imbalanced == 4
Overloaded == 5

\* group_is_overloaded()
IsOverloaded(s) ==
  /\ s.nr > s.weight
  /\ s.capacity * 100 < s.util * Pct \/ s.capacity * Pct < s.runnable * 100

\* group_has_capacity()
HasCapacity(s) ==
  \/ s.nr < s.weight
  \/ s.capacity * Pct >= s.runnable * 100 /\ s.capacity * 100 > s.util * Pct

\* group_classify(): only the groups of the upper level are marked imbalanced.
Classify(g, l, s) ==
  IF IsOverloaded(s) THEN Overloaded
  ELSE IF l = 2 /\ imbal[g] THEN Imbalanced
  ELSE IF ~HasCapacity(s) THEN FullyBusy ELSE HasSpare

\* update_sg_lb_stats()
Stats(e, g) ==
  LET on == g \cap e.cpus
      s  == [nr       |-> SumOver(NrRunning, on),
             h_nr     |-> SumOver(Count, on),
             idle     |-> Cardinality({c \in on : IdleCpu(c)}),
             load     |-> SumOver(CpuLoad, on),
             runnable |-> SumOver(CpuLoad, on),
             util     |-> SumOver(CpuUtil, on),
             capacity |-> Cardinality(g) * Scale,
             weight   |-> Cardinality(g)]
      type == Classify(g, e.level, s)
  IN  s @@ ("type" :> type
            @@ "avg_load" :> IF type = Overloaded THEN (s.load * Scale) \div s.capacity ELSE 0)

\* update_sd_pick_busiest(): group stats s are busier than b.
Busier(s, b) ==
  \/ s.type > b.type
  \/ /\ s.type = b.type
     /\ CASE s.type = Imbalanced -> FALSE
          [] s.type = HasSpare -> s.idle < b.idle \/ (s.idle = b.idle /\ s.nr > b.nr)
          [] OTHER -> s.avg_load > b.avg_load

\* update_sd_lb_stats(): the groups that can be the busiest.  A fully busy group has no
\* avg_load and comes first only because its type does.
BusiestGroups(e) ==
  LET st  == [g \in Groups(e.dst, e.level) |-> Stats(e, g)]
      can == {g \in DOMAIN st : e.dst \notin g /\ st[g].h_nr > 0}
  IN  {g \in can : \A h \in can : ~Busier(st[h], st[g])}

PreferSibling(e) == e.level = 2
SharesCache(e) == e.level = 1

\* Fault: spare capacity is always evened out by the number of tasks.
Even_Imbalance(e, l, b, avg) ==
  IF b.type = Imbalanced THEN [kind |-> "task", n |-> 1]
  ELSE [kind |-> "task", n |-> Max({b.nr - l.nr, 0}) \div 2]

\* calculate_imbalance(); l: statistics of the local group, b: of the busiest, avg: of all.
\* An unsigned difference below 0 is never the smaller one.
Imbalance(e, l, b, avg) ==
  IF b.type = Imbalanced THEN [kind |-> "task", n |-> 1]
  ELSE IF l.type = HasSpare THEN
    IF b.type > FullyBusy /\ ~SharesCache(e) THEN
      LET spare == Max({l.capacity, l.util}) - l.util
      IN  IF e.idle # "busy" /\ spare = 0 THEN [kind |-> "task", n |-> 1]
          ELSE [kind |-> "util", n |-> spare]
    ELSE LET diff == IF b.weight = 1 \/ PreferSibling(e) THEN b.nr - l.nr ELSE l.idle - b.idle
         IN  [kind |-> "task", n |-> Max({diff, 0}) \div 2]
  ELSE LET lavg == (l.load * Scale) \div l.capacity
       IN  IF l.type < Overloaded /\ lavg >= b.avg_load THEN [kind |-> "none", n |-> 0]
           ELSE [kind |-> "load",
                 n |-> Min({n \in {(b.avg_load - avg) * b.capacity, (avg - lavg) * l.capacity} : n >= 0}) \div Scale]

\* find_busiest_group(): is there an imbalance to compute?
ForceBalance(e, l, b, avg) ==
  \/ b.type = Imbalanced
  \/ /\ l.type <= b.type
     /\ l.type = Overloaded =>
          l.avg_load < b.avg_load /\ l.avg_load < avg /\ 100 * b.avg_load > Pct * l.avg_load
     /\ \/ PreferSibling(e) /\ l.type = HasSpare /\ b.nr > l.nr + 1
        \/ b.type = Overloaded
        \/ e.idle # "busy" /\ (b.weight = 1 \/ l.idle > b.idle + 1) /\ b.h_nr # 1

AvgLoad(e) ==
  (SumOver(CpuLoad, e.cpus) * Scale) \div (Cardinality(Span(e.dst, e.level)) * Scale)

\* find_busiest_queue()
BusiestQueues(e, g) ==
  LET can == {c \in g \cap e.cpus :
                /\ Count(c) > 0
                /\ e.kind = "load" => ~(Count(c) = 1 /\ CpuLoad(c) > e.imbalance)
                /\ e.kind = "util" => Count(c) > 1}
      key(c) == IF e.kind = "util" THEN CpuUtil(c) ELSE Count(c)
  IN  {c \in can : \A d \in can : key(c) >= key(d)}

\* should_we_balance()
ShouldBalance(e) ==
  LET mask == LocalGroup(e.dst, e.level) \cap e.cpus
      idle == {c \in mask : IdleCpu(c)}
  IN  /\ e.dst \in e.cpus
      /\ IF e.idle = "newly" THEN NrRunning(e.dst) = 0
         ELSE IF idle # {} THEN e.dst = Min(idle)
         ELSE e.dst = Min(LocalGroup(e.dst, e.level))

-----------------------------------------------------------------------------
(* load_balance() on CPU c *)

Done(c) == lb' = [lb EXCEPT ![c] = NoLb]

\* sd_parent->groups->sgc->imbalance
SetImbalance(c, l, value) ==
  imbal' = IF l = 1 THEN [imbal EXCEPT ![Cluster(c)] = value] ELSE imbal

\* out_balanced
Balanced(c, e) ==
  /\ Done(c)
  /\ IF "ALL_PINNED" \in e.flags THEN UNCHANGED imbal ELSE SetImbalance(c, e.level, FALSE)
  /\ failed' = [failed EXCEPT ![c][e.level] = 0]

\* need_active_balance()
NeedActive(e, fails) == e.kind = "task" /\ fails > NiceTries + 2

\* Nothing could be moved: the failures are counted, and the stopper may be needed.
CountFailure(c, e) ==
  LET fails == IF e.idle = "newly" THEN failed[c][e.level]
               ELSE Min({failed[c][e.level] + 1, MaxFailed})
  IN  /\ failed' = [failed EXCEPT ![c][e.level] = fails]
      /\ IF NeedActive(e, fails) THEN lb' = [lb EXCEPT ![c] = [e EXCEPT !.pc = "active"]]
         ELSE Done(c)

ResetFailures(c, e) == failed' = [failed EXCEPT ![c][e.level] = 0]

\* find_busiest_group() for group g
Pull(e, g) ==
  LET l   == Stats(e, LocalGroup(e.dst, e.level))
      b   == Stats(e, g)
      avg == AvgLoad(e)
      i   == IF ForceBalance(e, l, b, avg) THEN Imbalance(e, l, b, avg)
             ELSE [kind |-> "none", n |-> 0]
  IN  [e EXCEPT !.kind = i.kind, !.imbalance = i.n]

Finds(f, g) == f.imbalance # 0 /\ BusiestQueues(f, g) # {}

\* From redo on: is there a queue to pull from?
Find(c, e) ==
  IF ~ShouldBalance(e) \/ BusiestGroups(e) = {} THEN Balanced(c, e)
  ELSE \E g \in BusiestGroups(e) : \E f \in {Pull(e, g)} :
         IF ~Finds(f, g) THEN Balanced(c, e)
         ELSE \E src \in BusiestQueues(f, g) :
                LET h == [f EXCEPT !.pc = "detach", !.src = src, !.max = NrRunning(src),
                                   !.moved = FALSE, !.flags = @ \cup {"ALL_PINNED"}]
                IN  /\ IF NrRunning(src) > 1 THEN lb' = [lb EXCEPT ![c] = h] /\ UNCHANGED failed
                       ELSE CountFailure(c, h)
                    /\ UNCHANGED imbal

\* rebalance_domains() in the softirq of the tick or of a kick
Rebalance(c, l) ==
  /\ lb[c] = NoLb /\ stop[c] = None /\ l \in Levels(c)
  /\ Find(c, Env(c, l, IF IdleCpu(c) THEN "idle" ELSE "busy"))
  /\ UNCHANGED << rq, asleep, stop >>

Redo(c) ==
  /\ lb[c].pc = "find"
  /\ Find(c, lb[c])
  /\ UNCHANGED << rq, asleep, stop >>

\* Fault: the stopper does not look at the affinity, which load_balance() has looked at.
Forced_CanMigrate(e, fails, hot, t, flags) ==
  [yes |-> "ACTIVE_LB" \in flags \/ (e.dst \in Allowed[t] /\ rq[e.src].curr # t /\ t \notin hot),
   flags |-> flags, new_dst |-> e.new_dst]

\* can_migrate_task(), with the flags and new_dst_cpu it leaves.  While the stopper runs no
\* task does.
CanMigrate(e, fails, hot, t, flags) ==
  IF e.dst \notin Allowed[t] THEN
    LET others == (LocalGroup(e.dst, e.level) \cap e.cpus) \cap Allowed[t]
        look   == e.idle # "newly" /\ flags \cap {"DST_PINNED", "ACTIVE_LB"} = {} /\ others # {}
    IN  [yes |-> FALSE,
         flags |-> flags \cup {"SOME_PINNED"} \cup IF look THEN {"DST_PINNED"} ELSE {},
         new_dst |-> IF look THEN Min(others) ELSE e.new_dst]
  ELSE [yes |-> \/ "ACTIVE_LB" \in flags
                \/ rq[e.src].curr # t /\ (t \notin hot \/ fails > NiceTries),
        flags |-> flags \ {"ALL_PINNED"}, new_dst |-> e.new_dst]

\* What task t takes of the imbalance, as detach_tasks() counts it; fits: may it?
Share(e, n) ==
  CASE e.kind = "load" -> Scale
    [] e.kind = "util" -> Scale \div n
    [] OTHER -> 1

Fits(e, fails, n) ==
  CASE e.kind = "load" -> Scale \div 2 ^ fails <= e.imbalance
    [] e.kind = "util" -> Scale \div n <= e.imbalance
    [] OTHER -> TRUE

\* The loop of detach_tasks() at its i-th task t
DetachStep(c, hot, e, i, t) ==
  LET left  == NrRunning(e.src) - Cardinality(e.list)
      fails == failed[c][e.level]
      can   == CanMigrate(e, fails, hot, t, e.flags)
      seen  == [e EXCEPT !.flags = can.flags, !.new_dst = can.new_dst]
  IN  IF \/ e.idle # "busy" /\ left <= 1
         \/ i > e.max /\ "ALL_PINNED" \notin e.flags
         \/ e.list # {} /\ (e.idle = "newly" \/ e.imbalance <= 0)
      THEN e
      ELSE IF can.yes /\ Fits(e, fails, Count(e.src))
           THEN [seen EXCEPT !.imbalance = @ - Share(e, Count(e.src)), !.list = @ \cup {t}]
           ELSE seen

\* detach_tasks(), under the lock of the busiest queue
Detached(c, order, hot) ==
  LET e == lb[c]
  IN  IF NrRunning(e.src) <= 1 THEN [e EXCEPT !.flags = @ \ {"ALL_PINNED"}]
      ELSE IF e.imbalance <= 0 THEN e
      ELSE FoldLeftDomain(LAMBDA f, i : DetachStep(c, hot, f, i, order[i]), e, order)

\* After an attempt to move tasks: those that are pinned may be moved to another CPU of the
\* group, or make it imbalanced; another queue is tried if all are pinned.
After(c, e) ==
  IF "DST_PINNED" \in e.flags /\ e.imbalance > 0
  THEN /\ lb' = [lb EXCEPT ![c] = [e EXCEPT !.pc = "detach", !.cpus = @ \ {e.dst},
                                            !.dst = e.new_dst, !.flags = @ \ {"DST_PINNED"}]]
       /\ UNCHANGED << failed, imbal >>
  ELSE /\ IF "SOME_PINNED" \in e.flags /\ e.imbalance > 0 THEN SetImbalance(c, e.level, TRUE)
          ELSE UNCHANGED imbal
       /\ IF "ALL_PINNED" \in e.flags
          THEN IF e.cpus \ {e.src} \subseteq LocalGroup(c, e.level)
               THEN Done(c) /\ ResetFailures(c, e)
               ELSE /\ lb' = [lb EXCEPT ![c] = [e EXCEPT !.pc = "find", !.cpus = @ \ {e.src}]]
                    /\ UNCHANGED failed
          ELSE IF e.moved THEN Done(c) /\ ResetFailures(c, e) ELSE CountFailure(c, e)

\* Which tasks are hot matters only while balancing has not failed often.
HotSets(c) ==
  IF failed[c][lb[c].level] > NiceTries THEN {{}} ELSE SUBSET rq[lb[c].src].tasks

Detach(c) ==
  /\ lb[c].pc = "detach"
  /\ \E order \in SetToSeqs(rq[lb[c].src].tasks), hot \in HotSets(c) :
       \E e \in {Detached(c, order, hot)} :
         IF e.list = {} THEN After(c, e) /\ UNCHANGED rq
         ELSE /\ rq' = [rq EXCEPT ![e.src].tasks = @ \ e.list]
              /\ lb' = [lb EXCEPT ![c] = [e EXCEPT !.pc = "attach"]]
              /\ UNCHANGED << failed, imbal >>
  /\ UNCHANGED << asleep, stop >>

\* attach_tasks(), under the lock of the destination
Attach(c) ==
  /\ lb[c].pc = "attach"
  /\ rq' = [rq EXCEPT ![lb[c].dst].tasks = @ \cup lb[c].list]
  /\ After(c, [lb[c] EXCEPT !.list = {}, !.moved = TRUE])
  /\ UNCHANGED << asleep, stop >>

\* Under the lock of the busiest queue: the stopper is woken if it is not at work already.
ActiveBalance(c) ==
  LET src == lb[c].src
  IN  /\ lb[c].pc = "active"
      /\ IF /\ rq[src].curr # None /\ c \in Allowed[rq[src].curr]
            /\ ~rq[src].active
         THEN rq' = [rq EXCEPT ![src].active = TRUE, ![src].push = c]
         ELSE UNCHANGED rq
      /\ Done(c)
      /\ UNCHANGED << asleep, failed, imbal, stop >>

-----------------------------------------------------------------------------
(* The stopper *)

\* active_load_balance_cpu_stop() on CPU c: it runs instead of the current task.
Stopper(c) ==
  LET dst  == rq[c].push
      l    == IF dst \in Cluster(c) THEN 1 ELSE 2
      e    == [Env(dst, l, "idle") EXCEPT !.src = c, !.flags = {"ACTIVE_LB"}]
      here == [rq EXCEPT ![c].curr = None, ![c].active = FALSE]
      can  == {t \in rq[c].tasks : CanMigrate(e, 0, {}, t, e.flags).yes}
  IN  /\ rq[c].active /\ lb[c] = NoLb /\ stop[c] = None
      /\ IF can = {}
         THEN rq' = here /\ UNCHANGED << stop, failed >>
         ELSE \E t \in can :
                /\ rq' = [here EXCEPT ![c].tasks = @ \ {t}]
                /\ stop' = [stop EXCEPT ![c] = [task |-> t, dst |-> dst]]
                /\ failed' = [failed EXCEPT ![dst][l] = 0]
      /\ UNCHANGED << asleep, imbal, lb >>

\* attach_one_task()
StopperAttach(c) ==
  /\ stop[c] # None
  /\ rq' = [rq EXCEPT ![stop[c].dst].tasks = @ \cup {stop[c].task}]
  /\ stop' = [stop EXCEPT ![c] = None]
  /\ UNCHANGED << asleep, failed, imbal, lb >>

-----------------------------------------------------------------------------
(* Tasks *)

\* A task gets the CPU, when it is free or from the one that has it.
Pick(c) ==
  /\ lb[c] = NoLb /\ stop[c] = None /\ ~rq[c].active
  /\ \E t \in rq[c].tasks \ {rq[c].curr} : rq' = [rq EXCEPT ![c].curr = t]
  /\ UNCHANGED << asleep, failed, imbal, lb, stop >>

\* The task that runs sleeps; if it was the last one, newidle_balance() may look for others.
Sleep(c) ==
  LET t == rq[c].curr
  IN  /\ t \in Sleepers /\ lb[c] = NoLb /\ ~rq[c].active
      /\ rq' = [rq EXCEPT ![c].tasks = @ \ {t}, ![c].curr = None]
      /\ asleep' = asleep \cup {t}
      /\ \/ UNCHANGED lb
         \/ /\ rq[c].tasks = {t}
            /\ \E l \in Levels(c) : lb' = [lb EXCEPT ![c] = Env(c, l, "newly")]
      /\ UNCHANGED << failed, imbal, stop >>

\* select_task_rq_fair() and the wake-up on the CPU it found
Wake(t, c) ==
  /\ t \in asleep /\ c \in Allowed[t]
  /\ rq' = [rq EXCEPT ![c].tasks = @ \cup {t}]
  /\ asleep' = asleep \ {t}
  /\ UNCHANGED << failed, imbal, lb, stop >>

LbStep(c) == Redo(c) \/ Detach(c) \/ Attach(c) \/ ActiveBalance(c)
StopStep(c) == Stopper(c) \/ StopperAttach(c)

Next ==
  /\ \E c \in CPUs : \/ \E l \in Levels(c) : Rebalance(c, l)
                     \/ LbStep(c) \/ StopStep(c) \/ Pick(c) \/ Sleep(c)
                     \/ \E t \in Tasks : Wake(t, c)
  /\ UNCHANGED setup

Spec == Init /\ [][Next]_lVars

-----------------------------------------------------------------------------
(* Properties *)

\* A task is only queued where its affinity allows, whatever balancers and stoppers found
\* out about it, or about another task, in an earlier section under a lock.
AffinityKept == \A c \in CPUs : \A t \in rq[c].tasks : c \in Allowed[t]

\* Where a task can be: on a queue, on the list of a balance that has detached it and not
\* attached it yet, with a stopper that has, or asleep.
Places == ({"queue", "list", "stopper"} \X CPUs) \cup {<<"asleep", None>>}

Listed(c) == IF lb[c] = NoLb THEN {} ELSE lb[c].list
Held(c) == IF stop[c] = None THEN {} ELSE {stop[c].task}

At(p) == CASE p[1] = "queue"   -> rq[p[2]].tasks
           [] p[1] = "list"    -> Listed(p[2])
           [] p[1] = "stopper" -> Held(p[2])
           [] OTHER            -> asleep

InOnePlace == \A t \in Tasks : \E p \in Places : {q \in Places : t \in At(q)} = {p}

\* However balancers, stoppers and wake-ups take turns between a detach and its attach, no
\* task is lost and none is in two places; and each is queued where it may run.
TasksWellPlaced == AffinityKept /\ InOnePlace

\* A CPU is idle while a task waits that might run on it.
Wasted ==
  \E c, d \in CPUs : /\ rq[c].tasks = {} /\ Count(d) > 1
                     /\ \E t \in rq[d].tasks : c \in Allowed[t]

\* CPU c would see, in its domain of level l, a queue to pull from.
Sees(c, l) ==
  LET e == Env(c, l, IF IdleCpu(c) THEN "idle" ELSE "busy")
  IN  ShouldBalance(e) /\ \E g \in BusiestGroups(e) : Finds(Pull(e, g), g)

Quiet == \A c \in CPUs : lb[c] = NoLb /\ stop[c] = None /\ ~rq[c].active

\* No CPU stays idle that could have a waiting task because every CPU finds its domains
\* balanced.
WasteIsSeen == Quiet /\ Wasted => \E c \in CPUs : \E l \in Levels(c) : Sees(c, l)
=============================================================================
