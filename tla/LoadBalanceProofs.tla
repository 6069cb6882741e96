-------------------------- MODULE LoadBalanceProofs --------------------------
(***************************************************************************)
(* What the load balancer keeps, for any clusters, tasks and affinities:   *)
(* however balancers, stoppers and wake-ups take turns, no task is lost or *)
(* doubled and none is queued where its affinity does not allow it.        *)
(***************************************************************************)
EXTENDS LoadBalance, SumProofs, FiniteSetTheorems, TLAPS

Runqueue == [tasks : SUBSET Tasks, curr : Tasks \cup {None}, active : BOOLEAN, push : CPUs]
Handed == [task : Tasks, dst : CPUs]

\* struct lb_env, as far as it tells where tasks may go.
IsEnv(e) ==
  /\ {"pc", "level", "dst", "src", "cpus", "flags", "new_dst", "list"} \subseteq DOMAIN e
  /\ e.pc \in {"find", "detach", "attach", "active"} /\ e.level \in {1, 2}
  /\ e.dst \in CPUs /\ e.src \in CPUs /\ e.new_dst \in CPUs /\ e.cpus \subseteq CPUs
  /\ "ACTIVE_LB" \notin e.flags
  /\ e.list \subseteq Tasks

BalanceTypeOK ==
  /\ setup \in Setups
  /\ rq \in [CPUs -> Runqueue]
  /\ asleep \subseteq Tasks
  /\ lb = [c \in CPUs |-> lb[c]]
  /\ \A c \in CPUs : lb[c] = NoLb \/ IsEnv(lb[c])
  /\ stop \in [CPUs -> Handed \cup {None}]

\* The task that runs is queued: a balance does not detach it, and the stopper stops it.
CurrQueued == \A c \in CPUs : rq[c].curr # None => rq[c].curr \in rq[c].tasks

\* A balance holds tasks between its detach and its attach only, and they may run at its
\* destination, which a balance changes only when it holds none.
ListAllowed ==
  \A c \in CPUs : lb[c] # NoLb =>
    /\ lb[c].pc # "attach" => lb[c].list = {}
    /\ \A t \in lb[c].list : lb[c].dst \in Allowed[t]

\* The stopper has what may run where the balance that woke it wants it.
StopperAllowed ==
  \A c \in CPUs : stop[c] # None => stop[c].dst \in Allowed[stop[c].task]

BalanceInv == /\ BalanceTypeOK /\ CurrQueued /\ ListAllowed /\ StopperAllowed
              /\ TasksWellPlaced

-----------------------------------------------------------------------------
(* Setups and domains *)

LEMMA SetupOf ==
  ASSUME setup \in Setups
  PROVE  Allowed \in [Tasks -> SUBSET CPUs] /\ Sleepers \subseteq Tasks
BY LoadBalanceAssumption DEF Allowed, Sleepers

LEMMA ClusterOf ==
  ASSUME NEW c \in CPUs
  PROVE  Cluster(c) \in Clusters /\ c \in Cluster(c) /\ Cluster(c) \subseteq CPUs
<1>1. \E g \in Clusters : c \in g
  BY DEF CPUs
<1>2. Cluster(c) \in Clusters /\ c \in Cluster(c)
  BY <1>1 DEF Cluster
<1>. QED
  BY <1>2 DEF CPUs

\* Every balance starts with nothing detached.
LEMMA EnvOf ==
  ASSUME NEW c \in CPUs, NEW l \in {1, 2}, NEW idle
  PROVE  IsEnv(Env(c, l, idle)) /\ Env(c, l, idle).list = {}
<1>1. Span(c, l) \subseteq CPUs
  BY ClusterOf DEF Span
<1>. QED
  BY <1>1 DEF Env, IsEnv

LEMMA LevelsOf ==
  ASSUME NEW c
  PROVE  Levels(c) \subseteq {1, 2}
BY DEF Levels

-----------------------------------------------------------------------------
(* detach_tasks() *)

\* What the loop leaves of a balance that began it as e.
Detaching(e, f) ==
  /\ IsEnv(f) /\ f.src = e.src /\ f.dst = e.dst
  /\ f.list \subseteq {t \in rq[e.src].tasks : e.dst \in Allowed[t] /\ rq[e.src].curr # t}

\* can_migrate_task() on what is not the stopper's
LEMMA CanMigrateOf ==
  ASSUME setup \in Setups, NEW e, IsEnv(e), NEW fails, NEW hot, NEW t \in Tasks
  PROVE  LET can == CanMigrate(e, fails, hot, t, e.flags)
         IN  /\ "ACTIVE_LB" \notin can.flags /\ can.new_dst \in CPUs
             /\ can.yes => e.dst \in Allowed[t] /\ rq[e.src].curr # t
<1> DEFINE can    == CanMigrate(e, fails, hot, t, e.flags)
           others == (LocalGroup(e.dst, e.level) \cap e.cpus) \cap Allowed[t]
           look   == /\ e.idle # "newly" /\ e.flags \cap {"DST_PINNED", "ACTIVE_LB"} = {}
                     /\ others # {}
           flags  == e.flags \cup {"SOME_PINNED"} \cup IF look THEN {"DST_PINNED"} ELSE {}
           new    == IF look THEN Min(others) ELSE e.new_dst
           go     == rq[e.src].curr # t /\ (t \notin hot \/ fails > NiceTries)
<1>1. "ACTIVE_LB" \notin e.flags /\ e.new_dst \in CPUs
  BY DEF IsEnv
<1>2. CASE e.dst \notin Allowed[t]
  <2>1. can = [yes |-> FALSE, flags |-> flags, new_dst |-> new]
    BY <1>2 DEF CanMigrate
  <2>2. "ACTIVE_LB" \notin flags
    BY <1>1
  <2>3. new \in CPUs
    <3>1. others \subseteq CPUs /\ others \subseteq Nat
      BY SetupOf, LoadBalanceAssumption
    <3> HIDE DEF others
    <3>2. look => Min(others) \in CPUs
      BY <3>1, MinIn
    <3>. QED
      BY <1>1, <3>2
  <2> HIDE DEF can, flags, new
  <2>4. ~can.yes /\ can.flags = flags /\ can.new_dst = new
    BY <2>1
  <2>. QED
    BY <2>2, <2>3, <2>4 DEF can
<1>3. CASE e.dst \in Allowed[t]
  <2>1. can = [yes |-> "ACTIVE_LB" \in e.flags \/ go,
               flags |-> e.flags \ {"ALL_PINNED"}, new_dst |-> e.new_dst]
    BY <1>3 DEF CanMigrate
  <2> HIDE DEF can
  <2>2. (can.yes <=> "ACTIVE_LB" \in e.flags \/ go) /\ can.flags = e.flags \ {"ALL_PINNED"}
        /\ can.new_dst = e.new_dst
    BY <2>1
  <2>. QED
    BY <1>1, <1>3, <2>2 DEF can
<1>. QED
  BY <1>2, <1>3

\* The loop takes what may run at the destination and does not run now.
LEMMA DetachStepOf ==
  ASSUME BalanceTypeOK, NEW e, e.src \in CPUs, NEW f, Detaching(e, f),
         NEW c, NEW hot, NEW i, NEW t \in rq[e.src].tasks
  PROVE  Detaching(e, DetachStep(c, hot, f, i, t))
<1> DEFINE fails == failed[c][f.level]
           can   == CanMigrate(f, fails, hot, t, f.flags)
           a     == can.flags
           b     == can.new_dst
           seen  == [f EXCEPT !.flags = a, !.new_dst = b]
           m     == seen.list \cup {t}
           v     == seen.imbalance - Share(f, Count(f.src))
           taken == [seen EXCEPT !.imbalance = v, !.list = m]
           step  == DetachStep(c, hot, f, i, t)
<1>1. step \in {f, seen} \/ (step = taken /\ can.yes)
  BY Zenon DEF DetachStep
<1>2. t \in Tasks /\ rq[e.src].tasks \subseteq Tasks
  BY DEF BalanceTypeOK, Runqueue
<1>3. IsEnv(f) /\ f.src = e.src /\ f.dst = e.dst
  BY DEF Detaching
<1>4. /\ "ACTIVE_LB" \notin can.flags /\ can.new_dst \in CPUs
      /\ can.yes => f.dst \in Allowed[t] /\ rq[f.src].curr # t
  BY <1>2, <1>3, CanMigrateOf DEF BalanceTypeOK
<1>5. IsEnv(seen) /\ seen.src = f.src /\ seen.dst = f.dst /\ seen.list = f.list
  <2>1. IsEnv(f) /\ "ACTIVE_LB" \notin a /\ b \in CPUs
    BY <1>3, <1>4
  <2> HIDE DEF a, b
  <2>2. DOMAIN seen = DOMAIN f
    OBVIOUS
  <2>3. /\ seen.pc = f.pc /\ seen.level = f.level /\ seen.dst = f.dst /\ seen.src = f.src
        /\ seen.cpus = f.cpus /\ seen.list = f.list
    BY <2>1 DEF IsEnv
  <2>4. seen.flags = a /\ seen.new_dst = b
    BY <2>1 DEF IsEnv
  <2> HIDE DEF seen
  <2>. QED
    BY <2>1, <2>2, <2>3, <2>4 DEF IsEnv
<1> HIDE DEF can, fails, a, b
<1> HIDE DEF seen
<1>6. Detaching(e, seen)
  BY <1>5 DEF Detaching
<1>7. m \subseteq Tasks
  BY <1>2, <1>5, <1>6 DEF Detaching
<1> HIDE DEF v, m
<1>8. IsEnv(taken) /\ taken.src = seen.src /\ taken.dst = seen.dst /\ taken.list = m
  <2>1. IsEnv(seen)
    BY <1>5
  <2>2. DOMAIN taken = DOMAIN seen
    OBVIOUS
  <2>3. /\ taken.pc = seen.pc /\ taken.level = seen.level /\ taken.dst = seen.dst
        /\ taken.src = seen.src /\ taken.cpus = seen.cpus /\ taken.flags = seen.flags
        /\ taken.new_dst = seen.new_dst
    BY <2>1 DEF IsEnv
  <2>4. taken.list = m
    BY <2>1 DEF IsEnv
  <2> HIDE DEF taken
  <2>. QED
    BY <1>7, <2>1, <2>2, <2>3, <2>4 DEF IsEnv
<1> HIDE DEF taken
<1>9. can.yes => Detaching(e, taken)
  <2>1. m = f.list \cup {t}
    BY <1>5 DEF m
  <2>. QED
    BY <1>3, <1>4, <1>5, <1>8, <2>1 DEF Detaching
<1> HIDE DEF step
<1>. QED
  BY <1>1, <1>6, <1>9 DEF step

\* The loop over the tasks in their order, as the function that FoldLeftDomain takes.
FoldBody(c, order, hot, e, g, s) ==
  IF s = {} THEN e
  ELSE DetachStep(c, hot, g[s \ {Max(s)}], [i \in DOMAIN order |-> i][Max(s)],
                  order[[i \in DOMAIN order |-> i][Max(s)]])

IsFold(c, order, hot, e, g) ==
  g = [s \in SUBSET DOMAIN order |-> FoldBody(c, order, hot, e, g, s)]

Folded(c, order, hot, e) ==
  FoldLeftDomain(LAMBDA f, i : DetachStep(c, hot, f, i, order[i]), e, order)

LEMMA FoldExists ==
  ASSUME NEW c, NEW order, NEW n \in Nat, DOMAIN order = 1 .. n, NEW hot, NEW e
  PROVE  \E g : IsFold(c, order, hot, e, g)
<1> DEFINE S == DOMAIN order
           body(g, s) == FoldBody(c, order, hot, e, g, s)
           UpTo(g, k) == /\ g = [s \in SUBSET S |-> g[s]]
                         /\ \A s \in SUBSET S : Cardinality(s) <= k => g[s] = body(g, s)
           Q == {k \in Nat : \E g : UpTo(g, k)}
<1>1. IsFiniteSet(S)
  <2>1. IsFiniteSet(1 .. n)
    BY FS_Interval
  <2>. QED
    BY <2>1
<1>2. \A s \in SUBSET S : IsFiniteSet(s) /\ Cardinality(s) \in Nat
  BY <1>1, FS_Subset, FS_CardinalityType
<1>3. \A s \in SUBSET S : s # {} => Max(s) \in s
  <2>1. \A s \in SUBSET S : s \subseteq 0 .. n
    OBVIOUS
  <2>. QED
    BY <2>1, MaxIn
<1> HIDE DEF S
<1>4. \A s \in SUBSET S : s # {} => /\ s \ {Max(s)} \in SUBSET S
                                    /\ Cardinality(s \ {Max(s)}) = Cardinality(s) - 1
  BY <1>2, <1>3, FS_RemoveElement
<1>5. ASSUME NEW g, NEW h, NEW s \in SUBSET S, s # {} => g[s \ {Max(s)}] = h[s \ {Max(s)}]
      PROVE  body(g, s) = body(h, s)
  <2>1. CASE s = {}
    BY <2>1, Zenon DEF FoldBody
  <2>2. CASE s # {}
    <3> DEFINE r == s \ {Max(s)}
               j == [i \in DOMAIN order |-> i][Max(s)]
               step(x) == DetachStep(c, hot, x, j, order[j])
    <3>1. body(g, s) = step(g[r]) /\ body(h, s) = step(h[r])
      BY <2>2, Zenon DEF FoldBody
    <3>2. g[r] = h[r]
      BY <1>5, <2>2
    <3> HIDE DEF r, j, step, body
    <3>. QED
      BY <3>1, <3>2, Zenon
  <2>. QED
    BY <2>1, <2>2
<1>6. \A s \in SUBSET S : s = {} => \A g, h : body(g, s) = body(h, s)
  BY <1>5
<1> HIDE DEF body
<1>7. 0 \in Q
  <2> DEFINE o == [s \in SUBSET S |-> e]
             g == [s \in SUBSET S |-> body(o, s)]
  <2>1. \A s \in SUBSET S : Cardinality(s) <= 0 => s = {}
    BY <1>2, FS_EmptySet
  <2>2. \A s \in SUBSET S : Cardinality(s) <= 0 => g[s] = body(g, s)
    <3> SUFFICES ASSUME NEW s \in SUBSET S, Cardinality(s) <= 0
                 PROVE  g[s] = body(g, s)
      OBVIOUS
    <3>1. g[s] = body(o, s)
      OBVIOUS
    <3> HIDE DEF g, o
    <3>2. body(o, s) = body(g, s)
      BY <1>5, <2>1
    <3>. QED
      BY <3>1, <3>2
  <2>3. g = [s \in SUBSET S |-> g[s]]
    OBVIOUS
  <2> HIDE DEF g
  <2>. QED
    BY <2>2, <2>3
<1>8. ASSUME NEW k \in Nat, k \in Q
      PROVE  k + 1 \in Q
  <2>1. PICK g : UpTo(g, k)
    BY <1>8
  <2> DEFINE h == [s \in SUBSET S |-> body(g, s)]
  <2>2. ASSUME NEW s \in SUBSET S, Cardinality(s) <= k + 1
        PROVE  h[s] = body(h, s)
    <3>1. h[s] = body(g, s)
      OBVIOUS
    <3>2. ASSUME s # {}
          PROVE  h[s \ {Max(s)}] = g[s \ {Max(s)}]
      <4> DEFINE r == s \ {Max(s)}
      <4>1. r \in SUBSET S /\ Cardinality(r) <= k
        BY <1>2, <1>4, <2>2, <3>2
      <4> HIDE DEF r
      <4>2. h[r] = body(g, r)
        BY <4>1
      <4>3. g[r] = body(g, r)
        BY <2>1, <4>1
      <4>. QED
        BY <4>2, <4>3 DEF r
    <3> HIDE DEF h
    <3>. QED
      BY <1>5, <3>1, <3>2
  <2>3. h = [s \in SUBSET S |-> h[s]]
    OBVIOUS
  <2> HIDE DEF h
  <2>4. UpTo(h, k + 1)
    BY <2>2, <2>3
  <2> HIDE DEF UpTo
  <2>. QED
    BY <2>4
<1> HIDE DEF Q
<1>9. Nat \subseteq Q
  BY <1>7, <1>8, NatSetInduction
<1>10. Cardinality(S) \in Q
  BY <1>1, <1>9, FS_CardinalityType
<1>11. PICK g : UpTo(g, Cardinality(S))
  BY <1>10 DEF Q
<1>12. \A s \in SUBSET S : Cardinality(s) <= Cardinality(S)
  BY <1>1, FS_Subset
<1>13. \A s \in SUBSET S : g[s] = body(g, s)
  BY <1>11, <1>12
<1>14. g = [s \in SUBSET S |-> body(g, s)]
  BY <1>11, <1>13
<1>15. IsFold(c, order, hot, e, g)
  BY <1>14, Zenon DEF IsFold, S, body
<1>. QED
  BY <1>15

LEMMA FoldIs ==
  ASSUME NEW c, NEW order, NEW n \in Nat, DOMAIN order = 1 .. n, NEW hot, NEW e
  PROVE  \E g : /\ IsFold(c, order, hot, e, g)
                /\ Folded(c, order, hot, e) = g[DOMAIN order]
<1> DEFINE idx == [i \in DOMAIN order |-> i]
           Of(D) == (CHOOSE g : g = [s \in SUBSET D |-> FoldBody(c, order, hot, e, g, s)])[D]
           g     == CHOOSE g : IsFold(c, order, hot, e, g)
<1>1. IsFold(c, order, hot, e, g)
  BY FoldExists, Zenon
<1>2. Folded(c, order, hot, e) = Of(DOMAIN idx)
  <2>1. Folded(c, order, hot, e) =
          (CHOOSE iter : iter = [s \in SUBSET DOMAIN idx |->
              IF s = {} THEN e
              ELSE DetachStep(c, hot, iter[s \ {Max(s)}], idx[Max(s)], order[idx[Max(s)]])])
            [DOMAIN idx]
    BY DEF Folded, FoldLeftDomain, FoldLeft, MapThenFoldSet
  <2>. QED
    BY <2>1, Zenon DEF FoldBody
<1>3. DOMAIN idx = DOMAIN order
  OBVIOUS
<1>4. Of(DOMAIN order) = g[DOMAIN order]
  BY Zenon DEF IsFold
<1>5. Of(DOMAIN idx) = Of(DOMAIN order)
  <2> HIDE DEF Of, idx
  <2>. QED
    BY <1>3, Zenon
<1> HIDE DEF g, Of, idx
<1>. QED
  BY <1>1, <1>2, <1>4, <1>5

\* What a balance has after detach_tasks() may run at its destination and does not run now.
LEMMA DetachedOf ==
  ASSUME BalanceTypeOK, NEW c \in CPUs, IsEnv(lb[c]), lb[c].list = {}, NEW hot,
         NEW order \in SetToSeqs(rq[lb[c].src].tasks)
  PROVE  Detaching(lb[c], Detached(c, order, hot))
<1> DEFINE e == lb[c]
           x == [e EXCEPT !.flags = e.flags \ {"ALL_PINNED"}]
           n == Cardinality(rq[e.src].tasks)
           fold == Folded(c, order, hot, e)
<1>1. Detached(c, order, hot) \in {x, e, fold}
  BY Zenon DEF Detached, Folded
<1>2. e.src \in CPUs
  BY DEF IsEnv
<1>3. Detaching(e, e)
  BY DEF Detaching
<1>4. Detaching(e, x)
  <2>1. DOMAIN x = DOMAIN e
    OBVIOUS
  <2>2. /\ x.pc = e.pc /\ x.level = e.level /\ x.dst = e.dst /\ x.src = e.src
        /\ x.cpus = e.cpus /\ x.list = e.list /\ x.new_dst = e.new_dst
    BY DEF IsEnv
  <2>3. x.flags = e.flags \ {"ALL_PINNED"}
    BY DEF IsEnv
  <2> HIDE DEF x
  <2>. QED
    BY <1>3, <2>1, <2>2, <2>3 DEF IsEnv, Detaching
<1>5. n \in Nat
  <2>1. rq[e.src].tasks \subseteq Tasks
    BY <1>2 DEF BalanceTypeOK, Runqueue
  <2>2. IsFiniteSet(rq[e.src].tasks)
    BY <2>1, FS_Subset, LoadBalanceAssumption
  <2>. QED
    BY <2>2, FS_CardinalityType
<1>6. order \in [1 .. n -> rq[e.src].tasks]
  BY DEF SetToSeqs
<1> HIDE DEF e, x, n
<1>7. DOMAIN order = 1 .. n
  BY <1>6
<1>8. PICK g : IsFold(c, order, hot, e, g) /\ fold = g[DOMAIN order]
  BY <1>5, <1>7, FoldIs
<1> DEFINE S == DOMAIN order
           P == {s \in SUBSET S : Detaching(e, g[s])}
<1>9. IsFiniteSet(S)
  <2>1. IsFiniteSet(1 .. n)
    BY <1>5, FS_Interval
  <2>. QED
    BY <1>7, <2>1
<1>10. ASSUME NEW s \in SUBSET S, \A k \in s : s \ {k} \in P
       PROVE  s \in P
  <2>1. g[s] = FoldBody(c, order, hot, e, g, s)
    BY <1>8 DEF IsFold
  <2>2. CASE s = {}
    <3>1. g[s] = e
      BY <2>1, <2>2 DEF FoldBody
    <3>. QED
      BY <1>3, <3>1
  <2>3. CASE s # {}
    <3> DEFINE m == Max(s)
               r == g[s \ {m}]
    <3>1. m \in s /\ m \in 1 .. n
      <4>1. s \subseteq 0 .. n /\ s \subseteq 1 .. n
        BY <1>7
      <4>. QED
        BY <1>5, <2>3, <4>1, MaxIn
    <3>2. g[s] = DetachStep(c, hot, r, [i \in DOMAIN order |-> i][m],
                            order[[i \in DOMAIN order |-> i][m]])
      BY <2>1, <2>3, Zenon DEF FoldBody
    <3>3. [i \in DOMAIN order |-> i][m] = m
      BY <1>7, <3>1
    <3>4. g[s] = DetachStep(c, hot, r, m, order[m])
      BY <3>2, <3>3, Zenon
    <3>5. Detaching(e, r)
      BY <1>10, <3>1
    <3>6. order[m] \in rq[e.src].tasks
      BY <1>6, <3>1
    <3> HIDE DEF m, r
    <3>7. Detaching(e, g[s])
      BY <1>2, <3>4, <3>5, <3>6, DetachStepOf
    <3>. QED
      BY <3>7
  <2>. QED
    BY <2>2, <2>3
<1> HIDE DEF P, S
<1>11. S \in P
  <2>1. \A s \in SUBSET S : (\A k \in s : s \ {k} \in P) => s \in P
    BY <1>10
  <2>2. \A s \in SUBSET S : s \in P
    BY <1>9, <2>1, SubsetInduction, Zenon
  <2>. QED
    BY <2>2
<1>12. Detaching(e, fold)
  BY <1>8, <1>11 DEF P, S
<1>. QED
  BY <1>1, <1>3, <1>4, <1>12 DEF e

-----------------------------------------------------------------------------
(* Between a balance's attempts *)

\* A balance without tasks on its list, over or about to go on
Blank(x) == x = NoLb \/ (IsEnv(x) /\ x.pc # "attach" /\ x.list = {})

\* need_active_balance() asks for the stopper and changes nothing else.
LEMMA ActiveBlank ==
  ASSUME NEW e, IsEnv(e), e.list = {}
  PROVE  Blank([e EXCEPT !.pc = "active"])
<1> DEFINE x == [e EXCEPT !.pc = "active"]
<1>1. DOMAIN x = DOMAIN e
  OBVIOUS
<1>2. /\ x.level = e.level /\ x.dst = e.dst /\ x.src = e.src /\ x.cpus = e.cpus
      /\ x.flags = e.flags /\ x.new_dst = e.new_dst /\ x.list = e.list
  BY DEF IsEnv
<1>3. x.pc = "active"
  BY DEF IsEnv
<1> HIDE DEF x
<1>4. IsEnv(x) /\ x.pc # "attach" /\ x.list = {}
  BY <1>1, <1>2, <1>3 DEF IsEnv
<1>. QED
  BY <1>4 DEF Blank, x

\* A balance that could not move everything: over, or to be tried again with another
\* destination or another queue.
LEMMA AfterBlank ==
  ASSUME NEW c \in CPUs, NEW e, IsEnv(e), e.list = {}, After(c, e)
  PROVE  \E x : Blank(x) /\ lb' = [lb EXCEPT ![c] = x]
<1> DEFINE a == [e EXCEPT !.pc = "detach", !.cpus = e.cpus \ {e.dst}, !.dst = e.new_dst,
                          !.flags = e.flags \ {"DST_PINNED"}]
           b == [e EXCEPT !.pc = "find", !.cpus = e.cpus \ {e.src}]
           d == [e EXCEPT !.pc = "active"]
<1>1. \/ lb' = [lb EXCEPT ![c] = a] \/ lb' = [lb EXCEPT ![c] = b]
      \/ lb' = [lb EXCEPT ![c] = d] \/ lb' = [lb EXCEPT ![c] = NoLb]
  BY Zenon DEF After, Done, ResetFailures, CountFailure
<1>2. Blank(a)
  <2>1. DOMAIN a = DOMAIN e
    OBVIOUS
  <2>2. /\ a.level = e.level /\ a.src = e.src /\ a.new_dst = e.new_dst /\ a.list = e.list
    BY DEF IsEnv
  <2>3. a.pc = "detach" /\ a.cpus = e.cpus \ {e.dst}
    BY DEF IsEnv
  <2>4. a.dst = e.new_dst /\ a.flags = e.flags \ {"DST_PINNED"}
    BY DEF IsEnv
  <2> HIDE DEF a
  <2>5. IsEnv(a) /\ a.pc # "attach" /\ a.list = {}
    BY <2>1, <2>2, <2>3, <2>4 DEF IsEnv
  <2>. QED
    BY <2>5 DEF Blank
<1>3. Blank(b)
  <2>1. DOMAIN b = DOMAIN e
    OBVIOUS
  <2>2. /\ b.level = e.level /\ b.src = e.src /\ b.dst = e.dst /\ b.new_dst = e.new_dst
        /\ b.flags = e.flags /\ b.list = e.list
    BY DEF IsEnv
  <2>3. b.pc = "find" /\ b.cpus = e.cpus \ {e.src}
    BY DEF IsEnv
  <2> HIDE DEF b
  <2>4. IsEnv(b) /\ b.pc # "attach" /\ b.list = {}
    BY <2>1, <2>2, <2>3 DEF IsEnv
  <2>. QED
    BY <2>4 DEF Blank
<1>4. Blank(d) /\ Blank(NoLb)
  BY ActiveBlank DEF Blank
<1> HIDE DEF a, b, d
<1>. QED
  BY <1>1, <1>2, <1>3, <1>4

\* find_busiest_group() and find_busiest_queue() choose a queue among the CPUs of the balance.
LEMMA FindBlank ==
  ASSUME NEW c \in CPUs, NEW e, IsEnv(e), e.list = {}, Find(c, e)
  PROVE  \E x : Blank(x) /\ lb' = [lb EXCEPT ![c] = x]
<1>1. CASE Balanced(c, e)
  <2>1. lb' = [lb EXCEPT ![c] = NoLb]
    BY <1>1 DEF Balanced, Done
  <2>. QED
    BY <2>1, Zenon DEF Blank
<1>2. CASE ~Balanced(c, e)
  <2>1. PICK g : \E f \in {Pull(e, g)} :
                   \E src \in BusiestQueues(f, g) :
                     LET h == [f EXCEPT !.pc = "detach", !.src = src, !.max = NrRunning(src),
                                        !.moved = FALSE, !.flags = @ \cup {"ALL_PINNED"}]
                     IN  IF NrRunning(src) > 1
                         THEN lb' = [lb EXCEPT ![c] = h] /\ UNCHANGED failed
                         ELSE CountFailure(c, h)
    BY <1>2, Zenon DEF Find
  <2> DEFINE f == Pull(e, g)
  <2>2. PICK src \in BusiestQueues(f, g) :
               LET h == [f EXCEPT !.pc = "detach", !.src = src, !.max = NrRunning(src),
                                  !.moved = FALSE, !.flags = @ \cup {"ALL_PINNED"}]
               IN  IF NrRunning(src) > 1
                   THEN lb' = [lb EXCEPT ![c] = h] /\ UNCHANGED failed
                   ELSE CountFailure(c, h)
    BY <2>1, Zenon
  <2> DEFINE nr == NrRunning(src)
             fl == f.flags \cup {"ALL_PINNED"}
             h  == [f EXCEPT !.pc = "detach", !.src = src, !.max = nr, !.moved = FALSE,
                             !.flags = fl]
             d  == [h EXCEPT !.pc = "active"]
  <2>3. \/ lb' = [lb EXCEPT ![c] = h] \/ lb' = [lb EXCEPT ![c] = d]
        \/ lb' = [lb EXCEPT ![c] = NoLb]
    BY <2>2, Zenon DEF CountFailure, Done
  <2>4. /\ DOMAIN f = DOMAIN e /\ f.cpus = e.cpus
        /\ f.level = e.level /\ f.dst = e.dst /\ f.new_dst = e.new_dst /\ f.list = e.list
        /\ f.flags = e.flags
    BY DEF IsEnv, Pull
  <2>5. src \in f.cpus
    BY DEF BusiestQueues
  <2> HIDE DEF f, nr
  <2>6. /\ DOMAIN h = DOMAIN f /\ h.cpus = f.cpus
        /\ h.level = f.level /\ h.dst = f.dst /\ h.new_dst = f.new_dst /\ h.list = f.list
    BY <2>4 DEF IsEnv
  <2>7. h.pc = "detach" /\ h.src = src /\ h.flags = fl
    BY <2>4 DEF IsEnv
  <2> HIDE DEF h, fl
  <2>8. "ACTIVE_LB" \notin fl
    BY <2>4 DEF IsEnv, fl
  <2>9. IsEnv(h) /\ h.pc # "attach" /\ h.list = {}
    BY <2>4, <2>5, <2>6, <2>7, <2>8 DEF IsEnv
  <2>10. Blank(h) /\ Blank(d) /\ Blank(NoLb)
    BY <2>9, ActiveBlank DEF Blank
  <2> HIDE DEF d
  <2>. QED
    BY <2>3, <2>10
<1>. QED
  BY <1>1, <1>2

-----------------------------------------------------------------------------
(* Steps, by what they make of one runqueue, one balance and one stopper *)

RqFine(c, x) == /\ x \in Runqueue
                /\ x.curr # None => x.curr \in x.tasks
                /\ \A t \in x.tasks : c \in Allowed[t]

LbFine(x) == x # NoLb => /\ IsEnv(x)
                         /\ x.pc # "attach" => x.list = {}
                         /\ \A t \in x.list : x.dst \in Allowed[t]

StopFine(x) == x \in Handed \cup {None} /\ (x # None => x.dst \in Allowed[x.task])

LEMMA AllFine ==
  ASSUME BalanceInv, NEW c \in CPUs
  PROVE  /\ RqFine(c, rq[c]) /\ rq = [rq EXCEPT ![c] = rq[c]]
         /\ LbFine(lb[c]) /\ lb = [lb EXCEPT ![c] = lb[c]]
         /\ StopFine(stop[c]) /\ stop = [stop EXCEPT ![c] = stop[c]]
<1>1. RqFine(c, rq[c])
  BY DEF BalanceInv, BalanceTypeOK, CurrQueued, TasksWellPlaced, AffinityKept, RqFine
<1>2. LbFine(lb[c])
  BY DEF BalanceInv, BalanceTypeOK, ListAllowed, LbFine
<1>3. StopFine(stop[c])
  BY DEF BalanceInv, BalanceTypeOK, StopperAllowed, StopFine
<1>4. rq = [rq EXCEPT ![c] = rq[c]] /\ stop = [stop EXCEPT ![c] = stop[c]]
  BY DEF BalanceInv, BalanceTypeOK
<1>5. lb = [lb EXCEPT ![c] = lb[c]]
  BY DEF BalanceInv, BalanceTypeOK
<1>. QED
  BY <1>1, <1>2, <1>3, <1>4, <1>5

LEMMA BlankIsFine ==
  ASSUME NEW x, Blank(x)
  PROVE  LbFine(x)
BY DEF Blank, LbFine

LEMMA StepFine ==
  ASSUME BalanceInv, setup' = setup, asleep' \subseteq Tasks,
         NEW d \in CPUs, NEW x, RqFine(d, x), rq' = [rq EXCEPT ![d] = x],
         NEW c \in CPUs, NEW y, LbFine(y), lb' = [lb EXCEPT ![c] = y],
         NEW b \in CPUs, NEW z, StopFine(z), stop' = [stop EXCEPT ![b] = z]
  PROVE  BalanceTypeOK' /\ CurrQueued' /\ ListAllowed' /\ StopperAllowed' /\ AffinityKept'
<1>1. /\ rq \in [CPUs -> Runqueue] /\ lb = [i \in CPUs |-> lb[i]]
      /\ stop \in [CPUs -> Handed \cup {None}] /\ setup \in Setups
  BY DEF BalanceInv, BalanceTypeOK
<1>2. \A i \in CPUs : RqFine(i, rq[i]) /\ LbFine(lb[i]) /\ StopFine(stop[i])
  BY AllFine
<1>3. \A i \in CPUs : RqFine(i, rq'[i])
  BY <1>1, <1>2
<1>4. \A i \in CPUs : LbFine(lb'[i])
  BY <1>1, <1>2
<1>5. \A i \in CPUs : StopFine(stop'[i])
  BY <1>1, <1>2
<1>6. rq' \in [CPUs -> Runqueue]
  BY <1>1 DEF RqFine
<1>7. stop' \in [CPUs -> Handed \cup {None}]
  BY <1>1 DEF StopFine
<1>8. lb' = [i \in CPUs |-> lb'[i]]
  BY <1>1
<1>9. Allowed' = Allowed
  BY DEF Allowed
<1>10. BalanceTypeOK'
  BY <1>1, <1>4, <1>6, <1>7, <1>8 DEF BalanceTypeOK, LbFine
<1>11. CurrQueued' /\ AffinityKept'
  BY <1>3, <1>9 DEF CurrQueued, AffinityKept, RqFine
<1>12. ListAllowed'
  BY <1>4, <1>9 DEF ListAllowed, LbFine
<1>13. StopperAllowed'
  BY <1>5, <1>9 DEF StopperAllowed, StopFine
<1>. QED
  BY <1>10, <1>11, <1>12, <1>13

-----------------------------------------------------------------------------
(* Places *)

LEMMA AtOf ==
  ASSUME NEW CONSTANT d
  PROVE  /\ At(<<"queue", d>>) = rq[d].tasks /\ At(<<"queue", d>>)' = rq'[d].tasks
         /\ At(<<"list", d>>) = Listed(d) /\ At(<<"list", d>>)' = Listed(d)'
         /\ At(<<"stopper", d>>) = Held(d) /\ At(<<"stopper", d>>)' = Held(d)'
         /\ At(<<"asleep", d>>) = asleep /\ At(<<"asleep", d>>)' = asleep'
BY DEF At

LEMMA PlacesAre ==
  ASSUME NEW CONSTANT p \in Places
  PROVE  \/ \E d \in CPUs : p \in {<<"queue", d>>, <<"list", d>>, <<"stopper", d>>}
         \/ p = <<"asleep", None>>
BY DEF Places

\* Tasks that go from one place to another are in one place again.
LEMMA MoveKeeps ==
  ASSUME InOnePlace, NEW CONSTANT p \in Places, NEW CONSTANT q \in Places, p # q,
         NEW S \in SUBSET At(p),
         At(p)' = At(p) \ S, At(q)' = At(q) \cup S,
         \A r \in Places : r \notin {p, q} => At(r)' = At(r)
  PROVE  InOnePlace'
<1> SUFFICES ASSUME NEW CONSTANT t \in Tasks
             PROVE  \E o \in Places : {r \in Places : t \in At(r)'} = {o}
  BY DEF InOnePlace
<1>1. PICK o \in Places : {r \in Places : t \in At(r)} = {o}
  BY DEF InOnePlace
<1>2. \A r \in Places : t \in At(r) <=> r = o
  BY <1>1
<1>3. CASE t \in S
  <2>1. \A r \in Places : t \in At(r)' <=> r = q
    BY <1>2, <1>3
  <2>. QED
    BY <2>1
<1>4. CASE t \notin S
  <2>1. \A r \in Places : t \in At(r)' <=> r = o
    BY <1>2, <1>4
  <2>. QED
    BY <2>1
<1>. QED
  BY <1>3, <1>4

LEMMA StayKeeps ==
  ASSUME InOnePlace, \A r \in Places : At(r)' = At(r)
  PROVE  InOnePlace'
BY DEF InOnePlace

\* A step makes x of runqueue d, y of the balance of c and z of the stopper of b.
Makes(d, x, c, y, b, z) ==
  /\ RqFine(d, x) /\ rq' = [rq EXCEPT ![d] = x]
  /\ LbFine(y) /\ lb' = [lb EXCEPT ![c] = y]
  /\ StopFine(z) /\ stop' = [stop EXCEPT ![b] = z]
  /\ asleep' \subseteq Tasks /\ setup' = setup

\* The tasks of S go from p to q, and no others, if only d, c and b change.
Moves(S, p, q, d, c, b) ==
  /\ p # q /\ S \subseteq At(p) /\ At(p)' = At(p) \ S /\ At(q)' = At(q) \cup S
  /\ <<"queue", d>> \in {p, q} \/ rq'[d].tasks = rq[d].tasks
  /\ <<"list", c>> \in {p, q} \/ Listed(c)' = Listed(c)
  /\ <<"stopper", b>> \in {p, q} \/ Held(b)' = Held(b)
  /\ <<"asleep", None>> \in {p, q} \/ asleep' = asleep

\* A step that takes tasks from one place to another
LEMMA MovesInv ==
  ASSUME BalanceInv,
         NEW CONSTANT d \in CPUs, NEW CONSTANT c \in CPUs, NEW CONSTANT b \in CPUs,
         NEW x, NEW y, NEW z, Makes(d, x, c, y, b, z),
         NEW CONSTANT p \in Places, NEW CONSTANT q \in Places, NEW S, Moves(S, p, q, d, c, b)
  PROVE  BalanceInv'
<1>1. BalanceTypeOK' /\ CurrQueued' /\ ListAllowed' /\ StopperAllowed' /\ AffinityKept'
  BY StepFine DEF Makes
<1>2. /\ rq \in [CPUs -> Runqueue] /\ lb = [i \in CPUs |-> lb[i]]
      /\ stop \in [CPUs -> Handed \cup {None}] /\ InOnePlace
      /\ rq' = [rq EXCEPT ![d] = x] /\ lb' = [lb EXCEPT ![c] = y] /\ stop' = [stop EXCEPT ![b] = z]
  BY DEF BalanceInv, BalanceTypeOK, TasksWellPlaced, Makes
<1>3. ASSUME NEW CONSTANT i \in CPUs
      PROVE  /\ <<"queue", i>> \in {p, q} \/ rq'[i].tasks = rq[i].tasks
             /\ <<"list", i>> \in {p, q} \/ Listed(i)' = Listed(i)
             /\ <<"stopper", i>> \in {p, q} \/ Held(i)' = Held(i)
  <2>1. i # d => rq'[i] = rq[i]
    BY <1>2
  <2>2. <<"queue", d>> \in {p, q} \/ rq'[d].tasks = rq[d].tasks
    BY DEF Moves
  <2>3. i # c => Listed(i)' = Listed(i)
    BY <1>2 DEF Listed
  <2>4. i # b => Held(i)' = Held(i)
    BY <1>2 DEF Held
  <2>5. <<"queue", i>> \in {p, q} \/ rq'[i].tasks = rq[i].tasks
    BY <2>1, <2>2
  <2>6. <<"list", i>> \in {p, q} \/ Listed(i)' = Listed(i)
    BY <2>3 DEF Moves
  <2>7. <<"stopper", i>> \in {p, q} \/ Held(i)' = Held(i)
    BY <2>4 DEF Moves
  <2>. QED
    BY <2>5, <2>6, <2>7
<1>4. ASSUME NEW CONSTANT r \in Places, r \notin {p, q}
      PROVE  At(r)' = At(r)
  <2>1. CASE r = <<"asleep", None>>
    BY <1>4, <2>1, AtOf DEF Moves
  <2>2. CASE r # <<"asleep", None>>
    <3>1. PICK i \in CPUs : r \in {<<"queue", i>>, <<"list", i>>, <<"stopper", i>>}
      BY <2>2, PlacesAre
    <3>2. CASE r = <<"queue", i>>
      BY <1>3, <1>4, <3>2, AtOf
    <3>3. CASE r = <<"list", i>>
      BY <1>3, <1>4, <3>3, AtOf
    <3>4. CASE r = <<"stopper", i>>
      BY <1>3, <1>4, <3>4, AtOf
    <3>. QED
      BY <3>1, <3>2, <3>3, <3>4
  <2>. QED
    BY <2>1, <2>2
<1>5. InOnePlace'
  BY <1>2, <1>4, MoveKeeps DEF Moves
<1>. QED
  BY <1>1, <1>5 DEF BalanceInv, TasksWellPlaced

\* A step that leaves every task where it is: it changes what a runqueue says of itself, or
\* where a balance stands that has no task on its list.
LEMMA StaysInv ==
  ASSUME BalanceInv, setup' = setup, asleep' = asleep, stop' = stop,
         NEW CONSTANT d \in CPUs, NEW x, RqFine(d, x), rq' = [rq EXCEPT ![d] = x],
         x.tasks = rq[d].tasks,
         NEW CONSTANT c \in CPUs, NEW y, Blank(y), lb' = [lb EXCEPT ![c] = y], Listed(c) = {}
  PROVE  BalanceInv'
<1>1. BalanceTypeOK' /\ CurrQueued' /\ ListAllowed' /\ StopperAllowed' /\ AffinityKept'
  <2>1. LbFine(y)
    BY BlankIsFine
  <2>2. StopFine(stop[c]) /\ stop' = [stop EXCEPT ![c] = stop[c]]
    BY AllFine
  <2>3. asleep' \subseteq Tasks
    BY DEF BalanceInv, BalanceTypeOK
  <2>. QED
    BY <2>1, <2>2, <2>3, StepFine
<1>2. /\ rq \in [CPUs -> Runqueue] /\ lb = [i \in CPUs |-> lb[i]] /\ InOnePlace
  BY DEF BalanceInv, BalanceTypeOK, TasksWellPlaced
<1>3. ASSUME NEW CONSTANT i \in CPUs
      PROVE  rq'[i].tasks = rq[i].tasks /\ Listed(i)' = Listed(i) /\ Held(i)' = Held(i)
  <2>1. rq'[i].tasks = rq[i].tasks
    BY <1>2
  <2>2. i # c => Listed(i)' = Listed(i)
    BY <1>2 DEF Listed
  <2>3. Listed(c)' = {}
    BY <1>2 DEF Listed, Blank
  <2>4. Held(i)' = Held(i)
    BY DEF Held
  <2>. QED
    BY <2>1, <2>2, <2>3, <2>4
<1>4. ASSUME NEW CONSTANT r \in Places
      PROVE  At(r)' = At(r)
  <2>1. CASE r = <<"asleep", None>>
    BY <2>1, AtOf
  <2>2. CASE r # <<"asleep", None>>
    <3>1. PICK i \in CPUs : r \in {<<"queue", i>>, <<"list", i>>, <<"stopper", i>>}
      BY <2>2, PlacesAre
    <3>2. CASE r = <<"queue", i>>
      BY <1>3, <3>2, AtOf
    <3>3. CASE r = <<"list", i>>
      BY <1>3, <3>3, AtOf
    <3>4. CASE r = <<"stopper", i>>
      BY <1>3, <3>4, AtOf
    <3>. QED
      BY <3>1, <3>2, <3>3, <3>4
  <2>. QED
    BY <2>1, <2>2
<1>5. InOnePlace'
  BY <1>2, <1>4, StayKeeps
<1>. QED
  BY <1>1, <1>5 DEF BalanceInv, TasksWellPlaced


-----------------------------------------------------------------------------
(* The steps *)

LEMMA RebalanceKeeps ==
  ASSUME BalanceInv, setup' = setup, NEW CONSTANT c \in CPUs, NEW CONSTANT l \in Levels(c),
         Rebalance(c, l)
  PROVE  BalanceInv'
<1> DEFINE idle == IF IdleCpu(c) THEN "idle" ELSE "busy"
<1>1. lb[c] = NoLb /\ Find(c, Env(c, l, idle)) /\ UNCHANGED << rq, asleep, stop >>
  BY Zenon DEF Rebalance
<1> HIDE DEF idle
<1>2. IsEnv(Env(c, l, idle)) /\ Env(c, l, idle).list = {}
  BY EnvOf, LevelsOf
<1>3. PICK y : Blank(y) /\ lb' = [lb EXCEPT ![c] = y]
  BY <1>1, <1>2, FindBlank, Zenon
<1>4. RqFine(c, rq[c]) /\ rq' = [rq EXCEPT ![c] = rq[c]]
  BY <1>1, AllFine
<1>5. Listed(c) = {}
  BY <1>1 DEF Listed
<1>. QED
  BY <1>1, <1>3, <1>4, <1>5, StaysInv

LEMMA RedoKeeps ==
  ASSUME BalanceInv, setup' = setup, NEW CONSTANT c \in CPUs, Redo(c)
  PROVE  BalanceInv'
<1>1. lb[c].pc = "find" /\ Find(c, lb[c]) /\ UNCHANGED << rq, asleep, stop >>
  BY Zenon DEF Redo
<1>2. LbFine(lb[c]) /\ RqFine(c, rq[c]) /\ rq' = [rq EXCEPT ![c] = rq[c]]
  BY <1>1, AllFine
<1>3. lb[c] # NoLb
  BY <1>1 DEF NoLb
<1>4. IsEnv(lb[c]) /\ lb[c].list = {}
  BY <1>1, <1>2, <1>3 DEF LbFine
<1>5. PICK y : Blank(y) /\ lb' = [lb EXCEPT ![c] = y]
  BY <1>1, <1>4, FindBlank, Zenon
<1>6. Listed(c) = {}
  BY <1>4 DEF Listed
<1>. QED
  BY <1>1, <1>2, <1>5, <1>6, StaysInv

LEMMA ActiveBalanceKeeps ==
  ASSUME BalanceInv, setup' = setup, NEW CONSTANT c \in CPUs, ActiveBalance(c)
  PROVE  BalanceInv'
<1>1. lb[c].pc = "active" /\ Done(c) /\ UNCHANGED << asleep, stop >>
  BY Zenon DEF ActiveBalance
<1>2. IsEnv(lb[c]) /\ lb[c].list = {}
  <2>1. LbFine(lb[c]) /\ lb[c] # NoLb
    BY <1>1, AllFine DEF NoLb
  <2>. QED
    BY <1>1, <2>1 DEF LbFine
<1>3. PICK src \in CPUs : src = lb[c].src
  BY <1>2 DEF IsEnv
<1> DEFINE x == [rq[src] EXCEPT !.active = TRUE, !.push = c]
<1>4. rq' = [rq EXCEPT ![src] = x] \/ rq' = rq
  <2>1. rq' = [rq EXCEPT ![src].active = TRUE, ![src].push = c] \/ rq' = rq
    BY <1>3, Zenon DEF ActiveBalance
  <2>2. rq \in [CPUs -> Runqueue]
    BY DEF BalanceInv, BalanceTypeOK
  <2>. QED
    BY <2>1, <2>2
<1>5. RqFine(src, rq[src]) /\ rq = [rq EXCEPT ![src] = rq[src]]
  BY AllFine
<1>6. RqFine(src, x) /\ x.tasks = rq[src].tasks
  BY <1>5 DEF RqFine, Runqueue
<1> HIDE DEF x
<1>7. PICK z : RqFine(src, z) /\ z.tasks = rq[src].tasks /\ rq' = [rq EXCEPT ![src] = z]
  BY <1>4, <1>5, <1>6
<1>8. Blank(NoLb) /\ lb' = [lb EXCEPT ![c] = NoLb]
  BY <1>1 DEF Blank, Done
<1>9. Listed(c) = {}
  BY <1>2 DEF Listed
<1>. QED
  BY <1>1, <1>7, <1>8, <1>9, StaysInv

LEMMA PickKeeps ==
  ASSUME BalanceInv, setup' = setup, NEW CONSTANT c \in CPUs, Pick(c)
  PROVE  BalanceInv'
<1>1. /\ lb[c] = NoLb /\ UNCHANGED << asleep, lb, stop >>
      /\ \E t \in rq[c].tasks : rq' = [rq EXCEPT ![c].curr = t]
  BY DEF Pick
<1>2. PICK t \in rq[c].tasks : rq' = [rq EXCEPT ![c].curr = t]
  BY <1>1
<1> DEFINE x == [rq[c] EXCEPT !.curr = t]
<1>3. rq' = [rq EXCEPT ![c] = x]
  BY <1>2 DEF BalanceInv, BalanceTypeOK
<1>4. RqFine(c, x) /\ x.tasks = rq[c].tasks
  <2>1. RqFine(c, rq[c])
    BY AllFine
  <2>. QED
    BY <2>1 DEF RqFine, Runqueue
<1> HIDE DEF x
<1>5. Blank(NoLb) /\ lb' = [lb EXCEPT ![c] = NoLb] /\ Listed(c) = {}
  <2>1. lb = [lb EXCEPT ![c] = lb[c]]
    BY AllFine
  <2>. QED
    BY <1>1, <2>1 DEF Blank, Listed
<1>. QED
  BY <1>1, <1>3, <1>4, <1>5, StaysInv


\* attach_tasks() takes from the list what detach_tasks() put there.
LEMMA AttachKeeps ==
  ASSUME BalanceInv, setup' = setup, NEW CONSTANT c \in CPUs, Attach(c)
  PROVE  BalanceInv'
<1> DEFINE e == lb[c]
           S == e.list
           a == [e EXCEPT !.list = {}, !.moved = TRUE]
<1>1. /\ e.pc = "attach" /\ rq' = [rq EXCEPT ![e.dst].tasks = @ \cup S] /\ After(c, a)
      /\ asleep' = asleep /\ stop' = stop
  BY Zenon DEF Attach
<1>2. IsEnv(e) /\ \A t \in S : e.dst \in Allowed[t]
  <2>1. LbFine(e) /\ e # NoLb
    BY <1>1, AllFine DEF NoLb
  <2>. QED
    BY <2>1 DEF LbFine
<1>3. PICK dst \in CPUs : dst = e.dst
  BY <1>2 DEF IsEnv
<1>4. IsEnv(a) /\ a.list = {}
  <2>1. DOMAIN a = DOMAIN e
    OBVIOUS
  <2>2. /\ a.pc = e.pc /\ a.level = e.level /\ a.dst = e.dst /\ a.src = e.src
        /\ a.cpus = e.cpus /\ a.flags = e.flags /\ a.new_dst = e.new_dst
    BY <1>2 DEF IsEnv
  <2>3. a.list = {}
    BY <1>2 DEF IsEnv
  <2> HIDE DEF a, e
  <2>. QED
    BY <1>2, <2>1, <2>2, <2>3 DEF IsEnv
<1> HIDE DEF a
<1>5. PICK y : Blank(y) /\ lb' = [lb EXCEPT ![c] = y]
  BY <1>1, <1>4, AfterBlank, Zenon
<1> DEFINE x == [rq[dst] EXCEPT !.tasks = rq[dst].tasks \cup S]
           p == <<"list", c>>
           q == <<"queue", dst>>
<1>6. rq' = [rq EXCEPT ![dst] = x]
  BY <1>1, <1>3 DEF BalanceInv, BalanceTypeOK
<1>7. RqFine(dst, x) /\ x.tasks = rq[dst].tasks \cup S
  <2>1. RqFine(dst, rq[dst]) /\ S \subseteq Tasks
    BY <1>2, AllFine DEF IsEnv
  <2>. QED
    BY <1>2, <1>3, <2>1 DEF RqFine, Runqueue
<1> HIDE DEF x
<1>8. At(q)' = At(q) \cup S
  <2>1. rq'[dst] = x
    BY <1>6 DEF BalanceInv, BalanceTypeOK
  <2>. QED
    BY <1>7, <2>1, AtOf
<1>9. At(p) = S /\ At(p)' = {}
  <2>1. Listed(c) = S
    BY <1>1 DEF Listed, NoLb
  <2>2. lb'[c] = y
    BY <1>5 DEF BalanceInv, BalanceTypeOK
  <2>3. Listed(c)' = {}
    BY <1>5, <2>2 DEF Listed, Blank
  <2>. QED
    BY <2>1, <2>3, AtOf
<1>10. p \in Places /\ q \in Places /\ p # q
  BY DEF Places
<1>11. LbFine(y) /\ StopFine(stop[c]) /\ stop' = [stop EXCEPT ![c] = stop[c]]
  BY <1>1, <1>5, AllFine, BlankIsFine
<1>12. Held(c)' = Held(c) /\ asleep' \subseteq Tasks
  BY <1>1 DEF Held, BalanceInv, BalanceTypeOK
<1>13. S \in SUBSET At(p) /\ At(p)' = At(p) \ S
  BY <1>9
<1> HIDE DEF S, e
<1>14. Moves(S, p, q, dst, c, c)
  BY <1>1, <1>8, <1>10, <1>12, <1>13 DEF Moves
<1>15. Makes(dst, x, c, y, c, stop[c])
  BY <1>5, <1>6, <1>7, <1>11, <1>12 DEF Makes
<1> HIDE DEF p, q
<1>. QED
  BY <1>10, <1>14, <1>15, MovesInv

\* attach_one_task() takes what the stopper detached.
LEMMA StopperAttachKeeps ==
  ASSUME BalanceInv, setup' = setup, NEW CONSTANT c \in CPUs, StopperAttach(c)
  PROVE  BalanceInv'
<1> DEFINE t == stop[c].task
<1>1. /\ stop[c] # None /\ rq' = [rq EXCEPT ![stop[c].dst].tasks = @ \cup {t}]
      /\ stop' = [stop EXCEPT ![c] = None] /\ asleep' = asleep /\ lb' = lb
  BY DEF StopperAttach
<1>2. stop[c].dst \in CPUs /\ t \in Tasks /\ stop[c].dst \in Allowed[t]
  <2>1. StopFine(stop[c])
    BY AllFine
  <2>. QED
    BY <1>1, <2>1 DEF StopFine, Handed
<1>3. PICK dst \in CPUs : dst = stop[c].dst
  BY <1>2
<1> DEFINE x == [rq[dst] EXCEPT !.tasks = rq[dst].tasks \cup {t}]
           p == <<"stopper", c>>
           q == <<"queue", dst>>
<1>4. rq' = [rq EXCEPT ![dst] = x]
  BY <1>1, <1>3 DEF BalanceInv, BalanceTypeOK
<1>5. RqFine(dst, x) /\ x.tasks = rq[dst].tasks \cup {t}
  <2>1. RqFine(dst, rq[dst])
    BY AllFine
  <2>. QED
    BY <1>2, <1>3, <2>1 DEF RqFine, Runqueue
<1> HIDE DEF x
<1>6. At(q)' = At(q) \cup {t}
  <2>1. rq'[dst] = x
    BY <1>4 DEF BalanceInv, BalanceTypeOK
  <2>. QED
    BY <1>5, <2>1, AtOf
<1>7. At(p) = {t} /\ At(p)' = {}
  <2>1. Held(c) = {t}
    BY <1>1 DEF Held
  <2>2. Held(c)' = {}
    BY <1>1 DEF Held, BalanceInv, BalanceTypeOK
  <2>. QED
    BY <2>1, <2>2, AtOf
<1>8. p \in Places /\ q \in Places /\ p # q
  BY DEF Places
<1>9. LbFine(lb[c]) /\ lb' = [lb EXCEPT ![c] = lb[c]] /\ StopFine(None)
  BY <1>1, AllFine DEF StopFine
<1>10. Listed(c)' = Listed(c) /\ asleep' \subseteq Tasks
  BY <1>1 DEF Listed, BalanceInv, BalanceTypeOK
<1>11. {t} \in SUBSET At(p) /\ At(p)' = At(p) \ {t}
  BY <1>7
<1> HIDE DEF t
<1>12. Moves({t}, p, q, dst, c, c)
  BY <1>1, <1>6, <1>8, <1>10, <1>11 DEF Moves
<1>13. Makes(dst, x, c, lb[c], c, None)
  BY <1>1, <1>4, <1>5, <1>9, <1>10 DEF Makes
<1> HIDE DEF p, q
<1>. QED
  BY <1>8, <1>12, <1>13, MovesInv

\* The wake-up puts the task where its affinity allows it.
LEMMA WakeKeeps ==
  ASSUME BalanceInv, setup' = setup, NEW CONSTANT c \in CPUs, NEW CONSTANT t \in Tasks,
         Wake(t, c)
  PROVE  BalanceInv'
<1>1. /\ t \in asleep /\ c \in Allowed[t] /\ rq' = [rq EXCEPT ![c].tasks = @ \cup {t}]
      /\ asleep' = asleep \ {t} /\ lb' = lb /\ stop' = stop
  BY DEF Wake
<1> DEFINE x == [rq[c] EXCEPT !.tasks = rq[c].tasks \cup {t}]
           p == <<"asleep", None>>
           q == <<"queue", c>>
<1>2. rq' = [rq EXCEPT ![c] = x]
  BY <1>1 DEF BalanceInv, BalanceTypeOK
<1>3. RqFine(c, x) /\ x.tasks = rq[c].tasks \cup {t}
  <2>1. RqFine(c, rq[c])
    BY AllFine
  <2>. QED
    BY <1>1, <2>1 DEF RqFine, Runqueue
<1> HIDE DEF x
<1>4. At(q)' = At(q) \cup {t}
  <2>1. rq'[c] = x
    BY <1>2 DEF BalanceInv, BalanceTypeOK
  <2>. QED
    BY <1>3, <2>1, AtOf
<1>5. At(p) = asleep /\ At(p)' = asleep \ {t}
  BY <1>1, AtOf
<1>6. p \in Places /\ q \in Places /\ p # q
  BY DEF Places
<1>7. /\ LbFine(lb[c]) /\ lb' = [lb EXCEPT ![c] = lb[c]]
      /\ StopFine(stop[c]) /\ stop' = [stop EXCEPT ![c] = stop[c]]
  BY <1>1, AllFine
<1>8. Listed(c)' = Listed(c) /\ Held(c)' = Held(c) /\ asleep' \subseteq Tasks
  BY <1>1 DEF Listed, Held, BalanceInv, BalanceTypeOK
<1>9. {t} \in SUBSET At(p) /\ At(p)' = At(p) \ {t}
  BY <1>1, <1>5
<1>10. Moves({t}, p, q, c, c, c)
  BY <1>1, <1>4, <1>6, <1>8, <1>9 DEF Moves
<1>11. Makes(c, x, c, lb[c], c, stop[c])
  BY <1>2, <1>3, <1>7, <1>8 DEF Makes
<1> HIDE DEF p, q
<1>. QED
  BY <1>6, <1>10, <1>11, MovesInv


\* detach_tasks() puts on the list what it takes off the queue, or nothing.
LEMMA DetachKeeps ==
  ASSUME BalanceInv, setup' = setup, NEW CONSTANT c \in CPUs, Detach(c)
  PROVE  BalanceInv'
<1> DEFINE e == lb[c]
<1>1. /\ e.pc = "detach" /\ asleep' = asleep /\ stop' = stop
      /\ \E order \in SetToSeqs(rq[e.src].tasks), hot \in HotSets(c) :
           \E f \in {Detached(c, order, hot)} :
             IF f.list = {} THEN After(c, f) /\ UNCHANGED rq
             ELSE /\ rq' = [rq EXCEPT ![f.src].tasks = @ \ f.list]
                  /\ lb' = [lb EXCEPT ![c] = [f EXCEPT !.pc = "attach"]]
  BY Zenon DEF Detach
<1>2. IsEnv(e) /\ e.list = {}
  <2>1. LbFine(e) /\ e # NoLb
    BY <1>1, AllFine DEF NoLb
  <2>. QED
    BY <1>1, <2>1 DEF LbFine
<1>3. PICK order \in SetToSeqs(rq[e.src].tasks), hot \in HotSets(c) :
        LET f == Detached(c, order, hot)
        IN  IF f.list = {} THEN After(c, f) /\ UNCHANGED rq
            ELSE /\ rq' = [rq EXCEPT ![f.src].tasks = @ \ f.list]
                 /\ lb' = [lb EXCEPT ![c] = [f EXCEPT !.pc = "attach"]]
  BY <1>1, Zenon
<1> DEFINE f == Detached(c, order, hot)
           S == f.list
<1>4. Detaching(e, f)
  BY <1>2, DetachedOf DEF BalanceInv
<1>5. /\ S = {} => After(c, f) /\ rq' = rq
      /\ S # {} => /\ rq' = [rq EXCEPT ![f.src].tasks = @ \ S]
                   /\ lb' = [lb EXCEPT ![c] = [f EXCEPT !.pc = "attach"]]
  BY <1>3, Zenon
<1> HIDE DEF f
<1>6. IsEnv(f) /\ f.src = e.src /\ f.dst = e.dst
  BY <1>4 DEF Detaching
<1>7. PICK src \in CPUs : src = e.src
  BY <1>2 DEF IsEnv
<1>8. S \subseteq {t \in rq[src].tasks : e.dst \in Allowed[t] /\ rq[src].curr # t}
  BY <1>4, <1>7 DEF Detaching
<1>9. RqFine(src, rq[src]) /\ rq = [rq EXCEPT ![src] = rq[src]]
  BY AllFine
<1>10. Listed(c) = {}
  BY <1>2 DEF Listed
<1>11. CASE S = {}
  <2>1. PICK y : Blank(y) /\ lb' = [lb EXCEPT ![c] = y]
    BY <1>5, <1>6, <1>11, AfterBlank, Zenon
  <2>2. rq' = [rq EXCEPT ![src] = rq[src]]
    BY <1>5, <1>9, <1>11
  <2>. QED
    BY <1>1, <1>9, <1>10, <2>1, <2>2, StaysInv
<1>12. CASE S # {}
  <2> DEFINE x == [rq[src] EXCEPT !.tasks = rq[src].tasks \ S]
             y == [f EXCEPT !.pc = "attach"]
             p == <<"queue", src>>
             q == <<"list", c>>
  <2>1. rq' = [rq EXCEPT ![src] = x]
    BY <1>5, <1>6, <1>7, <1>12 DEF BalanceInv, BalanceTypeOK
  <2>2. RqFine(src, x) /\ x.tasks = rq[src].tasks \ S
    BY <1>8, <1>9 DEF RqFine, Runqueue
  <2>3. LbFine(y) /\ y # NoLb /\ y.list = S
    <3>1. DOMAIN y = DOMAIN f
      OBVIOUS
    <3>2. /\ y.level = f.level /\ y.dst = f.dst /\ y.src = f.src /\ y.cpus = f.cpus
          /\ y.flags = f.flags /\ y.new_dst = f.new_dst /\ y.list = f.list
      BY <1>6 DEF IsEnv
    <3>3. y.pc = "attach"
      BY <1>6 DEF IsEnv
    <3> HIDE DEF y
    <3>4. IsEnv(y) /\ y # NoLb
      BY <1>6, <3>1, <3>2, <3>3 DEF IsEnv, NoLb
    <3>. QED
      BY <1>6, <1>8, <3>2, <3>3, <3>4 DEF LbFine
  <2>4. lb' = [lb EXCEPT ![c] = y]
    BY <1>5, <1>12
  <2> HIDE DEF x, y
  <2>5. At(p)' = At(p) \ S /\ S \subseteq At(p)
    <3>1. rq'[src] = x
      BY <2>1 DEF BalanceInv, BalanceTypeOK
    <3>. QED
      BY <1>8, <2>2, <3>1, AtOf
  <2>6. At(q)' = At(q) \cup S
    <3>1. lb'[c] = y
      BY <2>4 DEF BalanceInv, BalanceTypeOK
    <3>2. Listed(c)' = S
      BY <2>3, <3>1 DEF Listed
    <3>. QED
      BY <1>10, <3>2, AtOf
  <2>7. p \in Places /\ q \in Places /\ p # q
    BY DEF Places
  <2>8. StopFine(stop[c]) /\ stop' = [stop EXCEPT ![c] = stop[c]]
    BY <1>1, AllFine
  <2>9. Held(c)' = Held(c) /\ asleep' \subseteq Tasks
    BY <1>1 DEF Held, BalanceInv, BalanceTypeOK
  <2> HIDE DEF S
  <2>10. Moves(S, p, q, src, c, c)
    BY <1>1, <2>5, <2>6, <2>7, <2>9 DEF Moves
  <2>11. Makes(src, x, c, y, c, stop[c])
    BY <2>1, <2>2, <2>3, <2>4, <2>8, <2>9 DEF Makes
  <2> HIDE DEF p, q
  <2>. QED
    BY <2>7, <2>10, <2>11, MovesInv
<1>. QED
  BY <1>11, <1>12

\* active_load_balance_cpu_stop() detaches one task, which may run where it is wanted.
LEMMA StopperKeeps ==
  ASSUME BalanceInv, setup' = setup, NEW CONSTANT c \in CPUs, Stopper(c)
  PROVE  BalanceInv'
<1> DEFINE dst  == rq[c].push
           l    == IF dst \in Cluster(c) THEN 1 ELSE 2
           e    == [Env(dst, l, "idle") EXCEPT !.src = c, !.flags = {"ACTIVE_LB"}]
           here == [rq EXCEPT ![c].curr = None, ![c].active = FALSE]
           can  == {t \in rq[c].tasks : CanMigrate(e, 0, {}, t, e.flags).yes}
<1>1. /\ lb[c] = NoLb /\ stop[c] = None /\ asleep' = asleep /\ lb' = lb
      /\ \/ rq' = here /\ stop' = stop
         \/ \E t \in can : /\ rq' = [here EXCEPT ![c].tasks = @ \ {t}]
                           /\ stop' = [stop EXCEPT ![c] = [task |-> t, dst |-> dst]]
  BY Zenon DEF Stopper
<1>2. RqFine(c, rq[c]) /\ lb = [lb EXCEPT ![c] = lb[c]]
  BY AllFine
<1>3. /\ rq \in [CPUs -> Runqueue] /\ stop \in [CPUs -> Handed \cup {None}]
      /\ setup \in Setups
  BY DEF BalanceInv, BalanceTypeOK
<1>4. Listed(c) = {} /\ LbFine(NoLb) /\ Blank(NoLb) /\ lb' = [lb EXCEPT ![c] = NoLb]
  BY <1>1, <1>2 DEF Listed, LbFine, Blank
<1>5. \A t \in can : t \in rq[c].tasks /\ dst \in Allowed[t]
  <2> SUFFICES ASSUME NEW t \in rq[c].tasks, CanMigrate(e, 0, {}, t, e.flags).yes
               PROVE  dst \in Allowed[t]
    OBVIOUS
  <2>1. e.dst = dst
    BY DEF Env
  <2> HIDE DEF e
  <2>2. ASSUME e.dst \notin Allowed[t]
        PROVE  ~CanMigrate(e, 0, {}, t, e.flags).yes
    BY <2>2 DEF CanMigrate
  <2>. QED
    BY <2>1, <2>2
<1>6. CASE rq' = here /\ stop' = stop
  <2> DEFINE x == [rq[c] EXCEPT !.curr = None, !.active = FALSE]
  <2>1. rq' = [rq EXCEPT ![c] = x]
    BY <1>3, <1>6
  <2>2. RqFine(c, x) /\ x.tasks = rq[c].tasks
    BY <1>2 DEF RqFine, Runqueue
  <2> HIDE DEF x
  <2>. QED
    BY <1>1, <1>4, <1>6, <2>1, <2>2, StaysInv
<1>7. CASE \E t \in can : /\ rq' = [here EXCEPT ![c].tasks = @ \ {t}]
                          /\ stop' = [stop EXCEPT ![c] = [task |-> t, dst |-> dst]]
  <2>1. PICK t \in can : /\ rq' = [here EXCEPT ![c].tasks = @ \ {t}]
                         /\ stop' = [stop EXCEPT ![c] = [task |-> t, dst |-> dst]]
    BY <1>7
  <2>2. t \in rq[c].tasks /\ dst \in Allowed[t]
    BY <1>5
  <2> HIDE DEF can
  <2> DEFINE x == [rq[c] EXCEPT !.curr = None, !.active = FALSE, !.tasks = rq[c].tasks \ {t}]
             z == [task |-> t, dst |-> dst]
             p == <<"queue", c>>
             q == <<"stopper", c>>
  <2>3. rq' = [rq EXCEPT ![c] = x]
    BY <1>3, <2>1
  <2>4. RqFine(c, x) /\ x.tasks = rq[c].tasks \ {t}
    BY <1>2 DEF RqFine, Runqueue
  <2>5. dst \in CPUs /\ t \in Tasks
    BY <1>2, <2>2 DEF RqFine, Runqueue
  <2> HIDE DEF x, dst
  <2>6. StopFine(z) /\ stop' = [stop EXCEPT ![c] = z] /\ z # None /\ z.task = t
    <3>1. z \in Handed /\ None \notin Handed
      BY <2>5, LoadBalanceAssumption DEF Handed
    <3>. QED
      BY <2>1, <2>2, <3>1 DEF StopFine
  <2> HIDE DEF z
  <2>7. At(p)' = At(p) \ {t} /\ {t} \subseteq At(p)
    <3>1. rq'[c] = x
      BY <1>3, <2>3
    <3>. QED
      BY <2>2, <2>4, <3>1, AtOf
  <2>8. At(q)' = At(q) \cup {t}
    <3>1. Held(c) = {}
      BY <1>1 DEF Held
    <3>2. stop'[c] = z
      BY <1>3, <2>6
    <3>3. Held(c)' = {t}
      BY <2>6, <3>2 DEF Held
    <3>. QED
      BY <3>1, <3>3, AtOf
  <2>9. p \in Places /\ q \in Places /\ p # q
    BY DEF Places
  <2>10. Listed(c)' = Listed(c) /\ asleep' \subseteq Tasks
    BY <1>1 DEF Listed, BalanceInv, BalanceTypeOK
  <2>11. Moves({t}, p, q, c, c, c)
    BY <1>1, <2>7, <2>8, <2>9, <2>10 DEF Moves
  <2>12. Makes(c, x, c, NoLb, c, z)
    BY <1>4, <2>3, <2>4, <2>6, <2>10 DEF Makes
  <2> HIDE DEF p, q
  <2>. QED
    BY <2>9, <2>11, <2>12, MovesInv
<1>. QED
  BY <1>1, <1>6, <1>7


\* The task that runs goes to sleep, and newidle_balance() may begin a balance.
LEMMA SleepKeeps ==
  ASSUME BalanceInv, setup' = setup, NEW CONSTANT c \in CPUs, Sleep(c)
  PROVE  BalanceInv'
<1> DEFINE curr == rq[c].curr
<1>1. /\ curr \in Sleepers /\ lb[c] = NoLb /\ stop' = stop
      /\ rq' = [rq EXCEPT ![c].tasks = @ \ {curr}, ![c].curr = None]
      /\ asleep' = asleep \cup {curr}
      /\ lb' = lb \/ \E l \in Levels(c) : lb' = [lb EXCEPT ![c] = Env(c, l, "newly")]
  BY Zenon DEF Sleep
<1>2. RqFine(c, rq[c]) /\ lb = [lb EXCEPT ![c] = lb[c]]
  BY AllFine
<1>3. /\ rq \in [CPUs -> Runqueue] /\ setup \in Setups /\ asleep \subseteq Tasks
      /\ lb = [i \in CPUs |-> lb[i]]
  BY DEF BalanceInv, BalanceTypeOK
<1>4. curr \in Tasks /\ curr \in rq[c].tasks
  <2>1. curr \in Tasks
    BY <1>1, <1>3, SetupOf
  <2>2. curr # None
    BY <2>1, LoadBalanceAssumption
  <2>. QED
    BY <1>2, <2>1, <2>2 DEF RqFine
<1>5. PICK t \in Tasks : t = curr
  BY <1>4
<1>6. PICK y : Blank(y) /\ lb' = [lb EXCEPT ![c] = y]
  <2>1. CASE lb' = lb
    BY <1>1, <1>2, <2>1, Zenon DEF Blank
  <2>2. CASE lb' # lb
    <3>1. PICK l \in Levels(c) : lb' = [lb EXCEPT ![c] = Env(c, l, "newly")]
      BY <1>1, <2>2
    <3>2. IsEnv(Env(c, l, "newly")) /\ Env(c, l, "newly").list = {}
      BY EnvOf, LevelsOf
    <3>3. Env(c, l, "newly").pc # "attach"
      BY DEF Env
    <3>4. Blank(Env(c, l, "newly"))
      BY <3>2, <3>3 DEF Blank
    <3>. QED
      BY <3>1, <3>4
  <2>. QED
    BY <2>1, <2>2
<1> DEFINE x == [rq[c] EXCEPT !.tasks = rq[c].tasks \ {t}, !.curr = None]
           p == <<"queue", c>>
           q == <<"asleep", None>>
<1>7. rq' = [rq EXCEPT ![c] = x]
  BY <1>1, <1>3, <1>5
<1>8. RqFine(c, x) /\ x.tasks = rq[c].tasks \ {t}
  BY <1>2 DEF RqFine, Runqueue
<1> HIDE DEF x, curr
<1>9. At(p)' = At(p) \ {t} /\ {t} \subseteq At(p)
  <2>1. rq'[c] = x
    BY <1>3, <1>7
  <2>. QED
    BY <1>4, <1>5, <1>8, <2>1, AtOf
<1>10. At(q)' = At(q) \cup {t}
  BY <1>1, <1>5, AtOf
<1>11. p \in Places /\ q \in Places /\ p # q
  BY DEF Places
<1>12. Listed(c)' = Listed(c)
  <2>1. Listed(c) = {}
    BY <1>1 DEF Listed
  <2>2. lb'[c] = y
    BY <1>3, <1>6
  <2>3. Listed(c)' = {}
    BY <1>6, <2>2 DEF Listed, Blank
  <2>. QED
    BY <2>1, <2>3
<1>13. Held(c)' = Held(c) /\ asleep' \subseteq Tasks
  BY <1>1, <1>3, <1>4 DEF Held
<1>14. LbFine(y) /\ StopFine(stop[c]) /\ stop' = [stop EXCEPT ![c] = stop[c]]
  BY <1>1, <1>6, AllFine, BlankIsFine
<1>15. Moves({t}, p, q, c, c, c)
  BY <1>9, <1>10, <1>11, <1>12, <1>13 DEF Moves
<1>16. Makes(c, x, c, y, c, stop[c])
  BY <1>6, <1>7, <1>8, <1>13, <1>14 DEF Makes
<1> HIDE DEF p, q
<1>. QED
  BY <1>11, <1>15, <1>16, MovesInv

-----------------------------------------------------------------------------
(* The theorem *)

\* The tasks that do not sleep begin on a queue each, where they may run.
LEMMA InitKeeps ==
  ASSUME Init
  PROVE  BalanceInv
<1>1. PICK at \in [Tasks \ Sleepers -> CPUs] :
        /\ \A t \in Tasks \ Sleepers : at[t] \in Allowed[t]
        /\ rq = [c \in CPUs |-> [tasks |-> {t \in DOMAIN at : at[t] = c}, curr |-> None,
                                 active |-> FALSE, push |-> c]]
  BY DEF Init
<1>2. /\ setup \in Setups /\ asleep = Sleepers /\ lb = [c \in CPUs |-> NoLb]
      /\ stop = [c \in CPUs |-> None]
  BY DEF Init
<1>3. Sleepers \subseteq Tasks
  BY <1>2, SetupOf
<1>4. \A c \in CPUs : /\ rq[c].tasks = {t \in Tasks \ Sleepers : at[t] = c}
                      /\ rq[c] \in Runqueue /\ rq[c].curr = None
  BY <1>1 DEF Runqueue
<1>5. BalanceTypeOK /\ CurrQueued /\ ListAllowed /\ StopperAllowed
  <2>1. rq \in [CPUs -> Runqueue]
    BY <1>1, <1>4
  <2>. QED
    BY <1>2, <1>3, <1>4, <2>1 DEF BalanceTypeOK, CurrQueued, ListAllowed, StopperAllowed
<1>6. AffinityKept
  BY <1>1, <1>4 DEF AffinityKept
<1>7. InOnePlace
  <2> SUFFICES ASSUME NEW CONSTANT t \in Tasks
               PROVE  \E o \in Places : \A r \in Places : t \in At(r) <=> r = o
    BY DEF InOnePlace
  <2>1. \A c \in CPUs : Listed(c) = {} /\ Held(c) = {}
    BY <1>2 DEF Listed, Held
  <2>2. ASSUME NEW CONSTANT r \in Places
        PROVE  t \in At(r) <=> \/ r = <<"asleep", None>> /\ t \in Sleepers
                               \/ t \notin Sleepers /\ r = <<"queue", at[t]>>
    <3>1. CASE r = <<"asleep", None>>
      BY <1>2, <3>1, AtOf
    <3>2. CASE r # <<"asleep", None>>
      <4>1. PICK i \in CPUs : r \in {<<"queue", i>>, <<"list", i>>, <<"stopper", i>>}
        BY <3>2, PlacesAre
      <4>2. CASE r = <<"queue", i>>
        <5>1. At(r) = rq[i].tasks
          BY <4>2, AtOf
        <5>. QED
          BY <1>4, <4>2, <5>1
      <4>3. CASE r = <<"list", i>>
        BY <2>1, <4>3, AtOf
      <4>4. CASE r = <<"stopper", i>>
        BY <2>1, <4>4, AtOf
      <4>. QED
        BY <4>1, <4>2, <4>3, <4>4
    <3>. QED
      BY <3>1, <3>2
  <2>3. CASE t \in Sleepers
    <3>1. <<"asleep", None>> \in Places
      BY DEF Places
    <3>. QED
      BY <2>2, <2>3, <3>1
  <2>4. CASE t \notin Sleepers
    <3>1. <<"queue", at[t]>> \in Places
      BY <1>1, <2>4 DEF Places
    <3>. QED
      BY <2>2, <2>4, <3>1
  <2>. QED
    BY <2>3, <2>4
<1>. QED
  BY <1>5, <1>6, <1>7 DEF BalanceInv, TasksWellPlaced

LEMMA NextKeeps ==
  ASSUME BalanceInv, Next
  PROVE  BalanceInv'
<1>1. setup' = setup
  BY DEF Next
<1>2. PICK c \in CPUs : \/ \E l \in Levels(c) : Rebalance(c, l)
                        \/ LbStep(c) \/ StopStep(c) \/ Pick(c) \/ Sleep(c)
                        \/ \E t \in Tasks : Wake(t, c)
  BY Zenon DEF Next
<1>3. CASE \E l \in Levels(c) : Rebalance(c, l)
  BY <1>1, <1>3, RebalanceKeeps
<1>4. CASE LbStep(c)
  BY <1>1, <1>4, RedoKeeps, DetachKeeps, AttachKeeps, ActiveBalanceKeeps DEF LbStep
<1>5. CASE StopStep(c)
  BY <1>1, <1>5, StopperKeeps, StopperAttachKeeps DEF StopStep
<1>6. CASE Pick(c)
  BY <1>1, <1>6, PickKeeps
<1>7. CASE Sleep(c)
  BY <1>1, <1>7, SleepKeeps
<1>8. CASE \E t \in Tasks : Wake(t, c)
  BY <1>1, <1>8, WakeKeeps
<1>. QED
  BY <1>2, <1>3, <1>4, <1>5, <1>6, <1>7, <1>8

\* A step in which no variable changes changes no place.
LEMMA StutterKeeps ==
  ASSUME BalanceInv, UNCHANGED lVars
  PROVE  BalanceInv'
BY DEF BalanceInv, BalanceTypeOK, CurrQueued, ListAllowed, StopperAllowed, TasksWellPlaced,
       AffinityKept, InOnePlace, At, Listed, Held, Allowed, lVars

\* detach_tasks() and attach_tasks() (fair.c:8071), and the two sections of the stopper, are
\* under different locks, with wake-ups, sleeps and other balances between them: whatever
\* the clusters, tasks and affinities, no task is lost or doubled, and each is queued only
\* where its affinity allows it.
THEOREM TasksAreWellPlaced == Spec => []TasksWellPlaced
<1>1. Init => BalanceInv
  BY InitKeeps
<1>2. BalanceInv /\ [Next]_lVars => BalanceInv'
  BY NextKeeps, StutterKeeps
<1>3. BalanceInv => TasksWellPlaced
  BY DEF BalanceInv
<1>. QED
  BY <1>1, <1>2, <1>3, PTL DEF Spec
=============================================================================
