---------------------------- MODULE CfsHierarchy ----------------------------
(***************************************************************************)
(* Group scheduling on one CPU (docs/fair.c): task groups nest, every      *)
(* group has a runqueue (cfs_rq) and an entity that stands for it in its   *)
(* parent's.  Tasks come and go, groups are throttled and unthrottled,     *)
(* created, destroyed and made idle, and each of these walks the tree up   *)
(* and keeps counts of the tasks below every runqueue, and a list of the   *)
(* runqueues with load in which a child always comes before its parent.    *)
(*                                                                         *)
(* Every step runs under rq->lock.  Only newidle_balance() drops it, with  *)
(* the previous task already dequeued but not yet put: the state newidle.  *)
(* Whether a group is out of runtime (CfsBandwidth) and which queued       *)
(* entity is picked (FairEntity) are left open; the load averages are      *)
(* reduced to whether they have decayed to zero.                           *)
(***************************************************************************)
EXTENDS Integers, Sequences, FiniteSets, SequencesExt, FiniteSetsExt, Functions

CONSTANTS Groups, Root,
          Parent,     \* Parent[g] for each g but Root
          Limited,    \* Groups with a bandwidth limit on this CPU (runtime_enabled)
          Tasks,
          IdleTasks,  \* Tasks of policy SCHED_IDLE
          None

ASSUME HierarchyAssumption ==
  /\ IsFiniteSet(Groups) /\ Root \in Groups
  /\ Parent \in [Groups \ {Root} -> Groups]
  \* A tree: some group of any set is not below another of the set.
  /\ \A S \in (SUBSET Groups) \ {{}} : \E g \in S : g = Root \/ Parent[g] \notin S
  /\ Limited \subseteq Groups \ {Root}
  /\ IdleTasks \subseteq Tasks
  /\ Tasks \cap Groups = {} /\ None \notin Tasks \cup Groups

ListHead == "head"       \* &rq->leaf_cfs_rq_list

VARIABLES cfs,       \* cfs[g]: struct cfs_rq of the group g
          rq,        \* The fields of struct rq outside the cfs_rqs
          home,      \* home[t]: the group of a task (p->se.cfs_rq)
          online,    \* Groups that exist
          newidle    \* newidle_balance() is running

hVars == << cfs, rq, home, online, newidle >>

\* Fields: queue: the entities with on_rq, curr included (so nr_running and load.weight
\* are its size); h, idle_h, idle_nr: h_nr_running, idle_h_nr_running and
\* idle_nr_running; loaded: the averages are not all zero.
NewCfsRq == [queue |-> {}, curr |-> None, h |-> 0, idle_h |-> 0, idle_nr |-> 0,
             idle |-> FALSE, throttled |-> FALSE, throttle_count |-> 0, on_list |-> FALSE,
             loaded |-> FALSE]

Init ==
  /\ cfs = [g \in Groups |-> NewCfsRq]
  /\ rq = [nr_running |-> 0, leaf |-> << >>, branch |-> ListHead]
  /\ home \in [Tasks -> {Root}]
  /\ online = {Root}
  /\ newidle = FALSE

\* The state the walks below transform.
Here == [cfs |-> cfs, rq |-> rq]

-----------------------------------------------------------------------------
(* The tree *)

\* The cfs_rqs from g up to the root.
Path[g \in Groups] == IF g = Root THEN << Root >> ELSE << g >> \o Path[Parent[g]]

Ancestors(g) == Range(Path[g])

\* for_each_sched_entity(): entity e in the cfs_rq q, then q's own entity, and so on.
Levels(e, q) ==
  LET p == Path[q] IN [i \in DOMAIN p |-> [q |-> p[i], e |-> IF i = 1 THEN e ELSE p[i - 1]]]

\* The levels of group g's own entity, none for the root.
GroupLevels(g) == IF g = Root THEN << >> ELSE Levels(g, Parent[g])

\* A set of groups, parents first.
TopDown == [S \in SUBSET Groups |->
              CHOOSE q \in SetToSeqs(S) :
                \A i, j \in DOMAIN q : i < j => Len(Path[q[i]]) <= Len(Path[q[j]])]

\* walk_tg_tree_from(): the subtree of g, parents first.
Subtree(g) == TopDown[{d \in online : g \in Ancestors(d)}]

IsIdleEntity(s, e) == IF e \in Tasks THEN e \in IdleTasks ELSE s.cfs[e].idle

-----------------------------------------------------------------------------
(* The list of leaf cfs_rqs *)

\* Fault: a branch whose parent comes later is put at the end of the list.
Appending_ListAdd(s, g) ==
  IF s.cfs[g].on_list THEN s
  ELSE [s EXCEPT !.cfs[g].on_list = TRUE, !.rq.leaf = Append(@, g), !.rq.branch = ListHead]

\* list_add_leaf_cfs_rq(): before the parent if that is on the list, at the end for the
\* root, else at the front of the branch that waits for its parent.
ListAdd(s, g) ==
  LET leaf  == s.rq.leaf
      at(x) == CHOOSE i \in DOMAIN leaf : leaf[i] = x
      on    == [s EXCEPT !.cfs[g].on_list = TRUE]
  IN  IF s.cfs[g].on_list THEN s
      ELSE IF g = Root
      THEN [on EXCEPT !.rq.leaf = Append(leaf, g), !.rq.branch = ListHead]
      ELSE IF s.cfs[Parent[g]].on_list
      THEN [on EXCEPT !.rq.leaf = InsertAt(leaf, at(Parent[g]), g), !.rq.branch = ListHead]
      ELSE [on EXCEPT !.rq.leaf = InsertAt(leaf, IF s.rq.branch = ListHead THEN 1
                                                 ELSE at(s.rq.branch) + 1, g),
                      !.rq.branch = g]

\* Its result: whether the branch is connected to the tree.
Connected(s) == s.rq.branch = ListHead

\* list_del_leaf_cfs_rq()
ListDel(s, g) ==
  LET i == CHOOSE k \in DOMAIN s.rq.leaf : s.rq.leaf[k] = g
  IN  IF ~s.cfs[g].on_list THEN s
      ELSE [s EXCEPT !.cfs[g].on_list = FALSE,
                     !.rq.leaf = RemoveAt(@, i),
                     !.rq.branch = IF @ # g THEN @
                                   ELSE IF i = 1 THEN ListHead ELSE s.rq.leaf[i - 1]]

\* child_cfs_rq_on_list(): is the entry before g, or the waiting branch, a child of g?
ChildOnList(s, g) ==
  LET i    == CHOOSE k \in DOMAIN s.rq.leaf : s.rq.leaf[k] = g
      prev == IF ~s.cfs[g].on_list THEN s.rq.branch
              ELSE IF i = 1 THEN ListHead ELSE s.rq.leaf[i - 1]
  IN  prev \notin {ListHead, Root} /\ Parent[prev] = g

\* cfs_rq_is_decayed()
IsDecayed(s, g) == s.cfs[g].queue = {} /\ ~s.cfs[g].loaded /\ ~ChildOnList(s, g)

-----------------------------------------------------------------------------
(* Throttling *)

\* tg_throttle_down()
ThrottleDown(s, g) ==
  [IF s.cfs[g].throttle_count = 0 THEN ListDel(s, g) ELSE s
     EXCEPT !.cfs[g].throttle_count = @ + 1]

\* tg_unthrottle_up()
UnthrottleUp(s, g) ==
  LET list(x) == IF x.cfs[g].throttle_count = 0 /\ ~IsDecayed(x, g) THEN ListAdd(x, g) ELSE x
  IN  list([s EXCEPT !.cfs[g].throttle_count = @ - 1])

\* dequeue_entity(), as far as this module goes
DequeueEntity(s, l) ==
  [s EXCEPT !.cfs[l.q].queue = @ \ {l.e},
            !.cfs[l.q].idle_nr = @ - (IF IsIdleEntity(s, l.e) THEN 1 ELSE 0)]

\* A walk up the tree: by how much idle_h_nr_running changes, and how far it got: it moves
\* entities, or only changes the counts, or has stopped.
Walk(s, idle_delta) == [s |-> s, delta |-> idle_delta, at |-> "entity"]

\* At every level h_nr_running changes by n, and idle_h_nr_running by the idle ones of
\* them: all, once the walk has come through an idle group.
Tally(w, l, n) ==
  LET delta == IF l.e \notin Tasks /\ w.s.cfs[l.e].idle THEN n ELSE w.delta
      sums  == [w.s.cfs[l.q] EXCEPT !.h = @ + n, !.idle_h = @ + delta]
  IN  [w EXCEPT !.s.cfs[l.q] = sums, !.delta = delta]

StopIf(w, stopped) == IF stopped THEN [w EXCEPT !.at = "stop"] ELSE w

StopAtThrottled(w, l) == StopIf(w, w.s.cfs[l.q].throttled)

\* A walk that reached the top changes the CPU's count too.
Done(w, n) == IF w.at = "stop" THEN w.s ELSE [w.s EXCEPT !.rq.nr_running = @ + n]

\* The entity leaves; if others stay, only the counts change above.
TakeOut(w, l) ==
  LET stays(x) == IF x.s.cfs[l.q].queue = {} THEN x ELSE [x EXCEPT !.at = "counts"]
  IN  IF w.at = "entity" THEN stays([w EXCEPT !.s = DequeueEntity(@, l)]) ELSE w

\* Fault: entities leave their queue although others stay in it.
Eager_ThrottleLevel(n, w, l) ==
  IF w.at = "stop" \/ l.e \notin w.s.cfs[l.q].queue THEN StopIf(w, TRUE)
  ELSE Tally([w EXCEPT !.s = DequeueEntity(@, l)], l, -n)

\* One level of throttle_cfs_rq(), up to an entity that is not queued: the n tasks leave
\* the counts, and entities left without any leave their queue.
ThrottleLevel(n, w, l) ==
  IF w.at = "stop" \/ l.e \notin w.s.cfs[l.q].queue THEN StopIf(w, TRUE)
  ELSE Tally(TakeOut(w, l), l, -n)

\* throttle_cfs_rq() of a group that gets no runtime
Throttle(s, g) ==
  LET leave(x) == Done(FoldLeft(LAMBDA w, l : ThrottleLevel(x.cfs[g].h, w, l),
                                Walk(x, -x.cfs[g].idle_h), GroupLevels(g)),
                       -x.cfs[g].h)
  IN  [leave(FoldLeft(ThrottleDown, s, Subtree(g))) EXCEPT !.cfs[g].throttled = TRUE]

\* Whether a check of its runtime throttles g, those in poor being out of it.
Throttles(s, g, poor) == g \in poor /\ ~s.cfs[g].throttled

\* enqueue_entity(): the first entity brings the cfs_rq a check of its runtime, and onto
\* the list unless it is, or is now, in a throttled hierarchy.
EnqueueEntity(s, l, poor) ==
  LET q        == l.q
      first(x) == Cardinality(x.cfs[q].queue) = 1
      check(x) == IF first(x) /\ x.cfs[q].curr = None /\ Throttles(x, q, poor)
                  THEN Throttle(x, q) ELSE x
      list(x)  == IF first(x) /\ x.cfs[q].throttle_count = 0 THEN ListAdd(x, q) ELSE x
  IN  list(check([s EXCEPT !.cfs[q].queue = @ \cup {l.e}, !.cfs[q].loaded = TRUE,
                           !.cfs[q].idle_nr = @ + (IF IsIdleEntity(s, l.e) THEN 1 ELSE 0)]))

\* The entity goes in, unless it is in: then only the counts change from here up.
PutIn(w, l, poor) ==
  IF w.at = "entity" /\ l.e \notin w.s.cfs[l.q].queue
  THEN [w EXCEPT !.s = EnqueueEntity(@, l, poor)] ELSE [w EXCEPT !.at = "counts"]

\* One level of unthrottle_cfs_rq() and enqueue_task_fair(): n tasks join the counts, up
\* to a throttled cfs_rq.
EnqueueLevel(n, poor, w, l) ==
  IF w.at = "stop" THEN w ELSE StopAtThrottled(Tally(PutIn(w, l, poor), l, n), l)

BranchLevel(w, l) ==
  LET until(x) == StopIf(x, Connected(x.s))
  IN  IF w.at = "stop" THEN w ELSE until([w EXCEPT !.s = ListAdd(@, l.q)])

\* With nothing to run but something to decay, only the list's branch is completed.
CompleteBranch(s, g) == FoldLeft(BranchLevel, Walk(s, 0), GroupLevels(g)).s

\* unthrottle_cfs_rq()
UnthrottleCfsRq(s, g, poor) ==
  LET thawed == FoldLeft(UnthrottleUp, [s EXCEPT !.cfs[g].throttled = FALSE], Reverse(Subtree(g)))
      join(x) == IF x.cfs[g].queue = {}
                 THEN IF x.cfs[g].on_list THEN CompleteBranch(x, g) ELSE x
                 ELSE Done(FoldLeft(LAMBDA w, l : EnqueueLevel(x.cfs[g].h, poor, w, l),
                                    Walk(x, x.cfs[g].idle_h), GroupLevels(g)),
                           x.cfs[g].h)
  IN  join(thawed)

-----------------------------------------------------------------------------
(* Tasks coming and going *)

IdleCount(t) == IF t \in IdleTasks THEN 1 ELSE 0

\* enqueue_task_fair()
EnqueueTask(s, t, g, poor) ==
  Done(FoldLeft(LAMBDA w, l : EnqueueLevel(1, poor, w, l), Walk(s, IdleCount(t)), Levels(t, g)), 1)

\* One level of dequeue_task_fair(): entities are dequeued until one leaves others
\* behind, then only the counts change, up to a throttled cfs_rq.
DequeueLevel(w, l) ==
  IF w.at = "stop" THEN w ELSE StopAtThrottled(Tally(TakeOut(w, l), l, -1), l)

\* dequeue_task_fair()
DequeueTask(s, t, g) == Done(FoldLeft(DequeueLevel, Walk(s, -IdleCount(t)), Levels(t, g)), -1)

PutLevel(poor, s, l) ==
  [IF Throttles(s, l.q, poor) THEN Throttle(s, l.q) ELSE s EXCEPT !.cfs[l.q].curr = None]

\* put_prev_task_fair(): every level checks its runtime, bottom up, then forgets curr.
PutPrevTask(s, t, g, poor) == FoldLeft(LAMBDA x, l : PutLevel(poor, x, l), s, Levels(t, g))

NextLevel(s, l) == [s EXCEPT !.cfs[l.q].curr = l.e]

\* set_next_task_fair(), and the set_next_entity() calls of a pick
SetNextTask(s, t, g) == FoldLeft(NextLevel, s, Levels(t, g))

PropagateLevel(w, l) ==
  IF w.at = "stop" \/ w.s.cfs[l.q].throttled THEN [w EXCEPT !.at = "stop"]
  ELSE IF w.s.cfs[l.q].throttle_count = 0 THEN [w EXCEPT !.s = ListAdd(@, l.q)]
  ELSE w

\* propagate_entity_cfs_rq(): what changed the load of e puts the cfs_rqs above it on
\* the list, up to a throttled one.
Propagate(s, levels) == FoldLeft(PropagateLevel, Walk(s, 0), levels).s

\* task_change_group_fair(): detach_task_cfs_rq(), after which the old cfs_rq may have
\* no load left, and attach_task_cfs_rq().
ChangeGroup(s, t, from, to, empty) ==
  LET detached == Propagate([s EXCEPT !.cfs[from].loaded = @ /\ ~empty], Levels(t, from))
  IN  Propagate([detached EXCEPT !.cfs[to].loaded = TRUE], Levels(t, to))

-----------------------------------------------------------------------------
(* Steps *)

Running == {t \in Tasks : cfs[home[t]].curr = t}
Queued(t) == t \in cfs[home[t]].queue

Becomes(s) == cfs' = s.cfs /\ rq' = s.rq

\* The tasks a pick can reach from the root.
Pickable(s) == {t \in Tasks : LET l == Levels(t, home[t])
                              IN  \A i \in DOMAIN l : l[i].e \in s.cfs[l[i].q].queue}

\* The cfs_rqs of the running task that a pick can visit, so that it checks their
\* runtime; the first of them out of runtime is throttled before anything is picked.
FirstPoor(s, poor) ==
  {g \in poor : \E t \in Running :
     LET l == Levels(t, home[t])
     IN  \E i \in DOMAIN l :
           /\ l[i].q = g /\ Throttles(s, g, poor)
           /\ \A j \in i + 1 .. Len(l) : l[j].e \in s.cfs[l[j].q].queue /\ l[j].q \notin poor}

PutPrev(s, poor) ==
  LET t == CHOOSE t \in Running : TRUE
  IN  IF Running = {} THEN s ELSE PutPrevTask(s, t, home[t], poor)

\* pick_next_task_fair(): with nothing to pick it tries to pull tasks.
Pick(s, poor) ==
  \E r \in {s} \cup {Throttle(s, g) : g \in FirstPoor(s, poor)} :
    \/ r.cfs[Root].queue = {} /\ Becomes(r) /\ newidle' = TRUE
    \/ /\ r.cfs[Root].queue # {}
       /\ \E put \in {PutPrev(r, poor)} :
            \E t \in Pickable(put) : Becomes(SetNextTask(put, t, home[t]))
       /\ newidle' = FALSE

\* __schedule() while the running task, if any, could go on
Schedule(poor) ==
  /\ ~newidle /\ cfs[Root].queue # {}
  /\ Pick(Here, poor)
  /\ UNCHANGED << home, online >>

\* __schedule() of a task that goes to sleep
Block(poor) ==
  /\ ~newidle
  /\ \E t \in Running : Queued(t) /\ Pick(DequeueTask(Here, t, home[t]), poor)
  /\ UNCHANGED << home, online >>

\* newidle_balance() is over: there are tasks again, or the CPU goes idle and
\* the core scheduler puts the previous task.
NewidleDone(poor) ==
  /\ newidle
  /\ IF cfs[Root].h > 0 THEN Pick(Here, poor)
     ELSE Becomes(PutPrev(Here, poor)) /\ newidle' = FALSE
  /\ UNCHANGED << home, online >>

\* A task wakes up, or is migrated here.
Wake(t, poor) ==
  /\ ~Queued(t) /\ t \notin Running
  /\ Becomes(EnqueueTask(Here, t, home[t], poor))
  /\ UNCHANGED << home, online, newidle >>

\* A task that waits is migrated away or changes its class.
Leave(t) ==
  /\ Queued(t) /\ t \notin Running
  /\ Becomes(DequeueTask(Here, t, home[t]))
  /\ UNCHANGED << home, online, newidle >>

\* sched_move_task() (core.c): off the queue and off the CPU, to the other group, back.
MoveTask(t, g, poor, empty) ==
  LET off(s)    == IF Queued(t) THEN DequeueTask(s, t, home[t]) ELSE s
      put(s)    == IF t \in Running THEN PutPrevTask(s, t, home[t], poor) ELSE s
      on(s)     == IF Queued(t) THEN EnqueueTask(s, t, g, poor) ELSE s
      set(s)    == IF t \in Running THEN SetNextTask(s, t, g) ELSE s
  IN  /\ g \in online /\ g # home[t]
      /\ empty => cfs[home[t]].queue \subseteq {t}
      /\ Becomes(set(on(ChangeGroup(put(off(Here)), t, home[t], g, empty))))
      /\ home' = [home EXCEPT ![t] = g]
      /\ UNCHANGED << online, newidle >>

\* Distribution, an offline CPU or a lifted limit unthrottles a group.
Unthrottle(g, poor) ==
  /\ g \in online /\ cfs[g].throttled
  /\ Becomes(UnthrottleCfsRq(Here, g, poor))
  /\ UNCHANGED << home, online, newidle >>

\* A decayed cfs_rq leaves the list.
Visit(gone, s, g) ==
  LET t == [s EXCEPT !.cfs[g].loaded = @ /\ g \notin gone]
  IN  IF IsDecayed(t, g) THEN ListDel(t, g) ELSE t

\* __update_blocked_fair(): the averages of the groups in gone, which have nothing
\* queued, reach zero.
UpdateBlocked(gone) ==
  /\ gone # {} /\ \A g \in gone : cfs[g].on_list /\ cfs[g].loaded /\ cfs[g].queue = {}
  /\ Becomes(FoldLeft(LAMBDA s, g : Visit(gone, s, g), Here, rq.leaf))
  /\ UNCHANGED << home, online, newidle >>

\* Fault: no sync_throttle().
Unsynced_OnlineGroup(g) ==
  /\ g \notin online /\ Parent[g] \in online
  /\ Becomes(Propagate(Here, GroupLevels(g)))
  /\ online' = online \cup {g}
  /\ UNCHANGED << home, newidle >>

\* online_fair_sched_group(): the new entity is attached to the parent's cfs_rq, and
\* the throttle count is the parent's (sync_throttle).
OnlineGroup(g) ==
  /\ g \notin online /\ Parent[g] \in online
  /\ LET s == Propagate(Here, GroupLevels(g))
     IN  Becomes([s EXCEPT !.cfs[g].throttle_count = s.cfs[Parent[g]].throttle_count])
  /\ online' = online \cup {g}
  /\ UNCHANGED << home, newidle >>

\* unregister_fair_sched_group(), of a group without tasks and children
UnregisterGroup(g) ==
  /\ g \in online \ {Root}
  /\ \A t \in Tasks : home[t] # g
  /\ \A c \in online \ {Root} : Parent[c] # g
  /\ LET s == ListDel(Here, g) IN Becomes([s EXCEPT !.cfs[g] = NewCfsRq])
  /\ online' = online \ {g}
  /\ UNCHANGED << home, newidle >>

\* Fault: the walk goes on above an idle cfs_rq.
Doubling_SetIdleLevel(w, l) ==
  IF w.at = "stop" \/ l.e \notin w.s.cfs[l.q].queue THEN [w EXCEPT !.at = "stop"]
  ELSE [w EXCEPT !.s.cfs[l.q].idle_h = @ + w.delta]

\* One level of sched_group_set_idle(): up to an entity that is not queued, or a cfs_rq
\* that is idle itself.
SetIdleLevel(w, l) ==
  IF w.at = "stop" \/ l.e \notin w.s.cfs[l.q].queue THEN [w EXCEPT !.at = "stop"]
  ELSE [w EXCEPT !.s.cfs[l.q].idle_h = @ + w.delta,
                 !.at = IF w.s.cfs[l.q].idle THEN "stop" ELSE @]

\* sched_group_set_idle() on this CPU
SetIdle(g) ==
  /\ g \in online \ {Root}
  /\ LET set  == [Here EXCEPT !.cfs[g].idle = ~@]
         sign == IF set.cfs[g].idle THEN 1 ELSE -1
         own  == IF g \in cfs[Parent[g]].queue
                 THEN [set EXCEPT !.cfs[Parent[g]].idle_nr = @ + sign] ELSE set
         w    == Walk(own, sign * (cfs[g].h - cfs[g].idle_h))
     IN  Becomes(FoldLeft(SetIdleLevel, w, GroupLevels(g)).s)
  /\ UNCHANGED << home, online, newidle >>

\* The groups that a check of their runtime can throttle.
Throttleable == {g \in Limited \cap online : ~cfs[g].throttled}

Next ==
  \/ \E poor \in SUBSET Throttleable :
       \/ Schedule(poor) \/ Block(poor) \/ NewidleDone(poor)
       \/ \E t \in Tasks : \/ Wake(t, poor)
                           \/ \E g \in Groups, empty \in BOOLEAN : MoveTask(t, g, poor, empty)
       \/ \E g \in Limited : Unthrottle(g, poor)
  \/ \E t \in Tasks : Leave(t)
  \/ \E gone \in SUBSET Groups : UpdateBlocked(gone)
  \/ \E g \in Groups : OnlineGroup(g) \/ UnregisterGroup(g) \/ SetIdle(g)

Spec == Init /\ [][Next]_hVars

-----------------------------------------------------------------------------
(* Properties *)

\* The groups whose tasks count in g: its own children that are not throttled.
Counted(g) == {c \in online \ {Root} : Parent[c] = g /\ ~cfs[c].throttled}

\* "h_nr_running" is the number of runnable tasks below, a throttled group counting for
\* nothing, and idle_h_nr_running those that are idle, every task of an idle group being
\* one; the CPU's total is the root's (fair.c:5941-5976, 6017-6065, 5196-5230, 5272-5303).
HierarchicalCounts ==
  /\ \A g \in online :
       LET local == cfs[g].queue \cap Tasks
       IN  /\ cfs[g].h = Cardinality(local) + MapThenSumSet(LAMBDA c : cfs[c].h, Counted(g))
           /\ cfs[g].idle_h = Cardinality(local \cap IdleTasks)
                + MapThenSumSet(LAMBDA c : IF cfs[c].idle THEN cfs[c].h ELSE cfs[c].idle_h, Counted(g))
           /\ cfs[g].idle_nr = Cardinality({e \in cfs[g].queue : IsIdleEntity(Here, e)})
  /\ rq.nr_running = cfs[Root].h

\* "Therefore the nr_running test will indeed be correct" (fair.c:7559-7564): an entity
\* that a pick can descend into has something to run, since a group is queued exactly
\* when it has something queued and is not throttled.
GroupEntitiesHaveWork ==
  \A g \in online \ {Root} :
    g \in cfs[Parent[g]].queue <=> cfs[g].queue # {} /\ ~cfs[g].throttled

\* throttle_count says how many groups from here up are throttled; sync_throttle(),
\* tg_throttle_down() and tg_unthrottle_up() keep it so as groups come and go
\* (fair.c:5111-5149, 5561-5576).
ThrottleCountsAncestors ==
  \A g \in online : cfs[g].throttle_count = Cardinality({a \in Ancestors(g) : cfs[a].throttled})

\* The list of leaf cfs_rqs holds every one that has entities and is not frozen, each
\* once and before its parent, and no branch is left unconnected ("we always enqueue
\* bottom-up", fair.c:357-365; assert_list_leaf_cfs_rq(), fair.c:436-439).
LeafListOrdered ==
  /\ Range(rq.leaf) = {g \in Groups : cfs[g].on_list}
  /\ Len(rq.leaf) = Cardinality(Range(rq.leaf))
  /\ rq.branch = ListHead
  /\ \A g \in online : cfs[g].queue # {} /\ cfs[g].throttle_count = 0 => cfs[g].on_list
  /\ \A i, j \in DOMAIN rq.leaf : rq.leaf[j] \in Ancestors(rq.leaf[i]) => i <= j
  /\ \A i \in DOMAIN rq.leaf : rq.leaf[i] # Root => cfs[Parent[rq.leaf[i]]].on_list
=============================================================================
