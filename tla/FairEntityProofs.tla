--------------------------- MODULE FairEntityProofs ---------------------------
(***************************************************************************)
(* The fair class for any CPUs, tasks, weights and affinities: what runs   *)
(* or is favoured is queued where it runs, and virtual time goes forward.  *)
(***************************************************************************)
EXTENDS FairEntity, SumProofs, FiniteSetTheorems, TLAPS

Rq == [min_vruntime : Int, curr : Tasks \cup {None}, next : Tasks \cup {None},
       last : Tasks \cup {None}, skip : Tasks \cup {None}, exec : Int, resched : BOOLEAN]

Entity == [vruntime : Int, cpu : CPUs, normalized : BOOLEAN,
           at : {"sleeping", "waking", "queued", "migrating", "new"}]

\* What the operators on a queue transform
QState == [rq : Rq, se : [Tasks -> Entity]]

FairTypeOK == rq \in [CPUs -> Rq] /\ se \in [Tasks -> Entity]

\* What a CPU runs is on its queue; so no task runs twice, or while it sleeps or moves.
CurrQueued == \A c \in CPUs : rq[c].curr # None => rq[c].curr \in OnRq(c)

FairInv == FairTypeOK /\ BuddiesQueued /\ CurrQueued

-----------------------------------------------------------------------------
(* Arithmetic *)

LEMMA Constants ==
  /\ W \in Nat /\ W > 0 /\ Latency \in Nat /\ Latency > 0 /\ MinGran \in Nat /\ MinGran > 0
  /\ HeavyWeight \in Nat /\ MaxSleepLag \in Nat /\ IsFiniteSet(Tasks) /\ None \notin Tasks
  /\ \A t \in Tasks : Weight[t] \in Nat /\ Weight[t] > 0
BY FairAssumption

LEMMA Wraps ==
  ASSUME NEW v \in Int, NEW d \in Int
  PROVE  Plus(v, d) \in Int
BY Constants DEF Plus

LEMMA DiffOf ==
  ASSUME NEW v \in Int, NEW u \in Int
  PROVE  Diff(v, u) \in Int /\ Diff(v, v) = 0
<1>1. W \in Nat /\ W > 0
  BY Constants
<1>2. (v - u) % W \in Int
  BY <1>1
<1>3. v - v = 0 /\ 0 % W = 0
  BY <1>1
<1>. QED
  BY <1>1, <1>2, <1>3 DEF Diff

\* max_vruntime() is no earlier than what it is given first.
LEMMA MaxVOf ==
  ASSUME NEW v \in Int, NEW u \in Int
  PROVE  MaxV(v, u) \in Int /\ Diff(MaxV(v, u), v) >= 0
<1>1. Diff(u, v) \in Int /\ Diff(v, v) = 0
  BY DiffOf
<1>2. CASE Diff(u, v) > 0
  BY <1>1, <1>2 DEF MaxV
<1>3. CASE ~(Diff(u, v) > 0)
  BY <1>1, <1>3 DEF MaxV
<1>. QED
  BY <1>2, <1>3

LEMMA DeltaFairOf ==
  ASSUME NEW d \in Int, NEW t \in Tasks
  PROVE  DeltaFair(d, t) \in Int
<1>1. HeavyWeight \div Weight[t] \in Int
  BY Constants
<1>. QED
  BY <1>1 DEF DeltaFair

LEMMA MaxExecOf == MaxExec \in Int
<1>1. Cardinality(Tasks) \in Nat
  BY Constants, FS_CardinalityType
<1> DEFINE a == Cardinality(Tasks) * MinGran
<1>2. a \in Int /\ Latency \in Int
  BY <1>1, Constants
<1>3. MaxExec = Max({Latency, a}) + 1
  BY DEF MaxExec
<1> HIDE DEF a
<1>4. Max({Latency, a}) \in Int
  BY <1>2, MaxOfTwo
<1>. QED
  BY <1>3, <1>4

\* A queue with a task on it has load.
LEMMA LoadOf ==
  ASSUME NEW q \in SUBSET Tasks, NEW t \in Tasks
  PROVE  Load(q \cup {t}) \in Nat /\ Load(q \cup {t}) > 0
<1> DEFINE p == q \cup {t}
<1>1. IsFiniteSet(p) /\ t \in p
  BY Constants, FS_Subset
<1>2. \A u \in p : Weight[u] \in Nat \ {0}
  BY Constants
<1> HIDE DEF p
<1>3. SumFunctionOnSet(Weight, p) \in Nat /\ SumFunctionOnSet(Weight, p) # 0
  BY <1>1, <1>2, SumNat
<1>. QED
  BY <1>3 DEF p, Load

LEMMA SliceOf ==
  ASSUME NEW s \in QState, NEW c \in CPUs, NEW t \in Tasks
  PROVE  Slice(s, c, t) \in Int
<1> DEFINE q      == Queue(s, c) \cup {t}
           nr     == Cardinality(q)
           period == IF nr > NrLatency THEN nr * MinGran ELSE Latency
           share  == (period * Weight[t]) \div Load(q)
<1>1. Queue(s, c) \in SUBSET Tasks
  BY DEF Queue
<1>2. nr \in Nat
  <2>1. IsFiniteSet(q)
    BY <1>1, Constants, FS_Subset
  <2>. QED
    BY <2>1, FS_CardinalityType
<1>3. Load(q) \in Nat /\ Load(q) > 0
  BY <1>1, LoadOf
<1>4. period \in Nat
  <2> HIDE DEF nr
  <2>1. nr * MinGran \in Nat
    BY <1>2, Constants
  <2>. QED
    BY <2>1, Constants
<1>5. Slice(s, c, t) = Max({share, MinGran})
  BY DEF Slice
<1>6. share \in Int
  <2> HIDE DEF q, period
  <2>1. period * Weight[t] \in Nat
    BY <1>4, Constants
  <2>. QED
    BY <1>3, <2>1
<1> HIDE DEF share
<1>7. MinGran \in Int
  BY Constants
<1>. QED
  BY <1>5, <1>6, <1>7, MaxOfTwo

-----------------------------------------------------------------------------
(* The operators on a queue *)

\* What a step of queue c may make of it: tasks stay on the other queues, its buddies are on
\* it, and its min_vruntime is no earlier.
Legal(c, s) ==
  /\ s \in QState
  /\ \A d \in CPUs \ {c} : OnRq(d) \subseteq Queue(s, d)
  /\ {s.rq.next, s.rq.last, s.rq.skip} \ {None} \subseteq Queue(s, c)
  /\ Diff(s.rq.min_vruntime, rq[c].min_vruntime) >= 0

\* What runs is queued, or has just left the queue.
Leaving(c, s) == s.rq.curr # None /\ s.se[s.rq.curr].at = "queued" => s.se[s.rq.curr].cpu = c

Running(c, s) == s.rq.curr # None => s.rq.curr \in Queue(s, c)

LEMMA HereIs ==
  ASSUME FairInv, NEW c \in CPUs
  PROVE  /\ Here(c) \in QState /\ Here(c).rq = rq[c] /\ Here(c).se = se
         /\ Legal(c, Here(c)) /\ Running(c, Here(c))
         /\ \A d \in CPUs : Queue(Here(c), d) = OnRq(d)
<1>1. Here(c) \in QState /\ Here(c).rq = rq[c] /\ Here(c).se = se
  BY DEF Here, QState, FairInv, FairTypeOK
<1>2. \A d \in CPUs : Queue(Here(c), d) = OnRq(d)
  BY <1>1 DEF Queue, OnRq
<1>3. Diff(rq[c].min_vruntime, rq[c].min_vruntime) >= 0
  BY DiffOf DEF FairInv, FairTypeOK, Rq
<1>4. Legal(c, Here(c))
  <2>1. {rq[c].next, rq[c].last, rq[c].skip} \ {None} \subseteq Queue(Here(c), c)
    BY <1>2 DEF FairInv, BuddiesQueued
  <2>. QED
    BY <1>1, <1>2, <1>3, <2>1 DEF Legal
<1>5. Running(c, Here(c))
  BY <1>1, <1>2 DEF Running, FairInv, CurrQueued
<1>. QED
  BY <1>1, <1>2, <1>4, <1>5

\* clear_buddies() forgets t and leaves the rest.
LEMMA ClearBuddiesOf ==
  ASSUME NEW s \in QState, NEW t \in Tasks
  PROVE  LET r == ClearBuddies(s, t)
         IN  /\ r \in QState /\ r.se = s.se
             /\ r.rq.curr = s.rq.curr /\ r.rq.min_vruntime = s.rq.min_vruntime
             /\ r.rq.next \in {s.rq.next, None} \ {t}
             /\ r.rq.last \in {s.rq.last, None} \ {t}
             /\ r.rq.skip \in {s.rq.skip, None} \ {t}
<1> DEFINE a == Without(s.rq.next, t)
           b == Without(s.rq.last, t)
           d == Without(s.rq.skip, t)
           q == [s.rq EXCEPT !.next = a, !.last = b, !.skip = d]
<1>1. None # t
  BY Constants
<1>2. /\ a \in {s.rq.next, None} \ {t} /\ b \in {s.rq.last, None} \ {t}
      /\ d \in {s.rq.skip, None} \ {t}
  BY <1>1 DEF Without
<1>3. s.rq \in Rq
  BY DEF QState
<1>4. ClearBuddies(s, t) = [s EXCEPT !.rq.next = a, !.rq.last = b, !.rq.skip = d]
  BY DEF ClearBuddies
<1> DEFINE r == ClearBuddies(s, t)
<1> HIDE DEF a, b, d
<1>5. /\ q \in Rq /\ q.curr = s.rq.curr /\ q.min_vruntime = s.rq.min_vruntime
      /\ q.next = a /\ q.last = b /\ q.skip = d
  BY <1>2, <1>3 DEF Rq
<1>6. r.rq = q /\ r.se = s.se
  BY <1>3, <1>4 DEF QState, Rq
<1>7. r \in QState
  <2>1. r = [rq |-> r.rq, se |-> r.se]
    BY <1>4 DEF QState
  <2> HIDE DEF q, r
  <2>. QED
    BY <1>5, <1>6, <2>1 DEF QState
<1> HIDE DEF q
<1>. QED
  BY <1>2, <1>5, <1>6, <1>7

LEMMA ClearedLegal ==
  ASSUME NEW c \in CPUs, NEW s, Legal(c, s), NEW t \in Tasks
  PROVE  Legal(c, ClearBuddies(s, t))
BY ClearBuddiesOf DEF Legal, Queue

\* A change of what else a queue knows.
LEMMA SameQueueLegal ==
  ASSUME NEW c \in CPUs, NEW s, Legal(c, s), NEW r \in QState, r.se = s.se,
         r.rq.min_vruntime = s.rq.min_vruntime,
         r.rq.next \in Queue(s, c) \cup {s.rq.next},
         r.rq.last \in Queue(s, c) \cup {s.rq.last},
         r.rq.skip \in Queue(s, c) \cup {s.rq.skip}
  PROVE  Legal(c, r)
BY DEF Legal, Queue

\* update_min_vruntime()
LEMMA UpdateMinOf ==
  ASSUME NEW s \in QState, NEW c \in CPUs
  PROVE  LET r == UpdateMinVruntime(s, c)
         IN  /\ r \in QState /\ r.se = s.se /\ r.rq.curr = s.rq.curr
             /\ r.rq.next = s.rq.next /\ r.rq.last = s.rq.last /\ r.rq.skip = s.rq.skip
             /\ Diff(r.rq.min_vruntime, s.rq.min_vruntime) >= 0
<1> DEFINE q == Queue(s, c)
           m == MaxV(s.rq.min_vruntime, Least(s, q))
           n == [s.rq EXCEPT !.min_vruntime = m]
<1>1. s.rq \in Rq /\ s.rq.min_vruntime \in Int
  BY DEF QState, Rq
<1>2. CASE q = {}
  <2>1. UpdateMinVruntime(s, c) = s
    BY <1>2 DEF UpdateMinVruntime
  <2>2. Diff(s.rq.min_vruntime, s.rq.min_vruntime) = 0
    BY <1>1, DiffOf
  <2>. QED
    BY <2>1, <2>2
<1>3. CASE q # {}
  <2>1. Least(s, q) \in Int
    <3>1. Leftmost(s, q) # {} /\ Leftmost(s, q) \subseteq Tasks
      BY <1>3 DEF Leftmost, Queue
    <3>2. (CHOOSE t \in Leftmost(s, q) : TRUE) \in Tasks
      BY <3>1
    <3>. QED
      BY <3>2 DEF Least, QState, Entity
  <2>2. m \in Int /\ Diff(m, s.rq.min_vruntime) >= 0
    BY <1>1, <2>1, MaxVOf
  <2>3. UpdateMinVruntime(s, c) = [s EXCEPT !.rq = n]
    BY <1>3, Zenon DEF UpdateMinVruntime
  <2> HIDE DEF m
  <2>4. /\ n \in Rq /\ n.curr = s.rq.curr /\ n.min_vruntime = m
        /\ n.next = s.rq.next /\ n.last = s.rq.last /\ n.skip = s.rq.skip
    BY <1>1, <2>2 DEF Rq
  <2> HIDE DEF n
  <2>5. /\ [s EXCEPT !.rq = n] \in QState
        /\ [s EXCEPT !.rq = n].rq = n /\ [s EXCEPT !.rq = n].se = s.se
    BY <2>4 DEF QState
  <2>. QED
    BY <2>2, <2>3, <2>4, <2>5
<1>. QED
  BY <1>2, <1>3

LEMMA UpdatedMinLegal ==
  ASSUME NEW c \in CPUs, NEW s, Legal(c, s), s.rq.min_vruntime = rq[c].min_vruntime
  PROVE  Legal(c, UpdateMinVruntime(s, c))
BY UpdateMinOf DEF Legal, Queue

\* The entity of one task changes.
LEMMA OneEntity ==
  ASSUME NEW s \in QState, NEW t \in Tasks, NEW e \in Entity
  PROVE  LET r == [s EXCEPT !.se[t] = e]
         IN  /\ r \in QState /\ r.rq = s.rq /\ r.se[t] = e
             /\ \A u \in Tasks : u # t => r.se[u] = s.se[u]
<1> DEFINE r == [s EXCEPT !.se[t] = e]
<1>1. r.rq = s.rq /\ r.se = [s.se EXCEPT ![t] = e] /\ r = [rq |-> r.rq, se |-> r.se]
  BY DEF QState
<1>2. s.rq \in Rq /\ s.se \in [Tasks -> Entity]
  BY DEF QState
<1>. QED
  BY <1>1, <1>2 DEF QState

\* place_entity() of a woken task
LEMMA PlaceWokenOf ==
  ASSUME NEW s \in QState, NEW t \in Tasks
  PROVE  \E e \in Entity : PlaceWoken(s, t) = [s EXCEPT !.se[t] = e]
<1> DEFINE front == Plus(s.rq.min_vruntime, -(Latency \div 2))
           m == MaxV(s.se[t].vruntime, front)
           e == [s.se[t] EXCEPT !.vruntime = m]
<1>1. /\ s.se[t] \in Entity /\ s.se[t].vruntime \in Int /\ s.rq.min_vruntime \in Int
  BY DEF QState, Entity, Rq
<1>2. -(Latency \div 2) \in Int
  BY Constants
<1>3. front \in Int
  BY <1>1, <1>2, Wraps
<1> HIDE DEF front
<1>4. m \in Int
  BY <1>1, <1>3, MaxVOf
<1>5. PlaceWoken(s, t) = [s EXCEPT !.se[t] = e]
  BY Zenon DEF PlaceWoken, m, front
<1> HIDE DEF m
<1>6. e \in Entity
  BY <1>1, <1>4 DEF Entity
<1> HIDE DEF e
<1> e \in Entity
  BY <1>6
<1> WITNESS e \in Entity
<1>. QED
  BY <1>5, <1>6

\* enqueue_entity() changes the entity of t alone.
LEMMA EnqueueEntityOf ==
  ASSUME NEW s \in QState, NEW c \in CPUs, NEW t \in Tasks, NEW wakeup \in BOOLEAN
  PROVE  LET r == EnqueueEntity(s, c, t, wakeup)
         IN  /\ r \in QState /\ r.rq = s.rq
             /\ \A u \in Tasks : u # t => r.se[u] = s.se[u]
             /\ r.se[t].at = "queued" /\ r.se[t].cpu = c
<1> DEFINE sum    == Plus(s.se[t].vruntime, s.rq.min_vruntime)
           e      == [s.se[t] EXCEPT !.vruntime = sum]
           moved  == [s EXCEPT !.se[t] = e]
           renorm == IF s.se[t].normalized THEN moved ELSE s
           placed == IF wakeup THEN PlaceWoken(renorm, t) ELSE renorm
           r      == EnqueueEntity(s, c, t, wakeup)
<1>1. /\ s.se[t] \in Entity /\ s.se[t].vruntime \in Int /\ s.rq.min_vruntime \in Int
  BY DEF QState, Entity, Rq
<1>2. sum \in Int
  BY <1>1, Wraps
<1>3. r = [placed EXCEPT !.se[t].cpu = c, !.se[t].at = "queued", !.se[t].normalized = FALSE]
  BY Zenon DEF EnqueueEntity
<1> HIDE DEF sum, r
<1>4. e \in Entity
  BY <1>1, <1>2 DEF Entity
<1> HIDE DEF e
<1>5. /\ moved \in QState /\ moved.rq = s.rq
      /\ \A u \in Tasks : u # t => moved.se[u] = s.se[u]
  BY <1>4, OneEntity
<1> HIDE DEF moved
<1>6. /\ renorm \in QState /\ renorm.rq = s.rq
      /\ \A u \in Tasks : u # t => renorm.se[u] = s.se[u]
  BY <1>5
<1> HIDE DEF renorm
<1>7. /\ placed \in QState /\ placed.rq = s.rq
      /\ \A u \in Tasks : u # t => placed.se[u] = s.se[u]
  <2>1. CASE wakeup
    <3>1. PICK f \in Entity : PlaceWoken(renorm, t) = [renorm EXCEPT !.se[t] = f]
      <4>1. renorm \in QState
        BY <1>6
      <4>. QED
        BY <4>1, PlaceWokenOf, Zenon
    <3>2. placed = [renorm EXCEPT !.se[t] = f]
      BY <2>1, <3>1
    <3> HIDE DEF placed
    <3>3. /\ placed \in QState /\ placed.rq = renorm.rq /\ placed.se[t] = f
          /\ \A u \in Tasks : u # t => placed.se[u] = renorm.se[u]
      BY <1>6, <3>2, OneEntity
    <3>. QED
      BY <1>6, <3>3
  <2>2. CASE ~wakeup
    BY <1>6, <2>2
  <2>. QED
    BY <2>1, <2>2
<1> HIDE DEF placed
<1> DEFINE g == [placed.se[t] EXCEPT !.cpu = c, !.at = "queued", !.normalized = FALSE]
<1>8. placed.se[t] \in Entity
  BY <1>7 DEF QState
<1>9. g \in Entity /\ g.at = "queued" /\ g.cpu = c
  BY <1>8 DEF Entity
<1>10. r = [placed EXCEPT !.se[t] = g]
  <2>1. /\ r.rq = placed.rq /\ r = [rq |-> r.rq, se |-> r.se]
        /\ r.se = [placed.se EXCEPT ![t] = r.se[t]]
    BY <1>3, <1>7 DEF QState
  <2>2. r.se[t] = g
    BY <1>3, <1>7, <1>8 DEF QState, Entity
  <2>3. [placed EXCEPT !.se[t] = g] = [rq |-> placed.rq, se |-> [placed.se EXCEPT ![t] = g]]
    BY <1>7 DEF QState
  <2>. QED
    BY <2>1, <2>2, <2>3, Zenon
<1> HIDE DEF g
<1>11. /\ r \in QState /\ r.rq = placed.rq /\ r.se[t] = g
       /\ \A u \in Tasks : u # t => r.se[u] = placed.se[u]
  BY <1>7, <1>9, <1>10, OneEntity
<1>12. /\ r \in QState /\ r.rq = s.rq
       /\ \A u \in Tasks : u # t => r.se[u] = s.se[u]
       /\ r.se[t].at = "queued" /\ r.se[t].cpu = c
  BY <1>7, <1>9, <1>11
<1>. QED
  BY <1>12 DEF r

LEMMA OneVruntime ==
  ASSUME NEW s \in QState, NEW t \in Tasks, NEW v \in Int
  PROVE  LET r == [s EXCEPT !.se[t].vruntime = v]
         IN  /\ r \in QState /\ r.rq = s.rq
             /\ r.se[t].vruntime = v /\ r.se[t].at = s.se[t].at /\ r.se[t].cpu = s.se[t].cpu
             /\ r.se[t].normalized = s.se[t].normalized
             /\ \A u \in Tasks : u # t => r.se[u] = s.se[u]
<1> DEFINE e == [s.se[t] EXCEPT !.vruntime = v]
           r == [s EXCEPT !.se[t] = e]
<1>1. s.se[t] \in Entity
  BY DEF QState
<1>2. /\ e \in Entity /\ e.vruntime = v /\ e.at = s.se[t].at /\ e.cpu = s.se[t].cpu
      /\ e.normalized = s.se[t].normalized
  BY <1>1 DEF Entity
<1>3. [s EXCEPT !.se[t].vruntime = v] = r
  BY Zenon
<1> HIDE DEF e
<1>4. /\ r \in QState /\ r.rq = s.rq /\ r.se[t] = e
      /\ \A u \in Tasks : u # t => r.se[u] = s.se[u]
  BY <1>2, OneEntity
<1> HIDE DEF r
<1>. QED
  BY <1>2, <1>3, <1>4

\* dequeue_entity() of a task of the queue; what ran may be the one that leaves.
LEMMA DequeueEntityOf ==
  ASSUME NEW c \in CPUs, NEW s, Legal(c, s), s.rq.min_vruntime = rq[c].min_vruntime,
         NEW t \in Queue(s, c), NEW at \in {"sleeping", "migrating"}
  PROVE  LET r == DequeueEntity(s, c, t, at)
         IN  /\ Legal(c, r) /\ r.rq.curr = s.rq.curr /\ r.se[t].at = at
             /\ \A u \in Tasks : u # t => r.se[u] = s.se[u]
<1> DEFINE clear == ClearBuddies(s, t)
           v     == IF at = "sleeping" THEN clear.se[t].vruntime
                    ELSE Plus(clear.se[t].vruntime, -s.rq.min_vruntime)
           norm  == ~(at = "sleeping")
           e     == [clear.se[t] EXCEPT !.at = at, !.normalized = norm, !.vruntime = v]
           out   == [clear EXCEPT !.se[t] = e]
<1>1. t \in Tasks /\ s.se[t].at = "queued" /\ s.se[t].cpu = c
  BY DEF Queue
<1>2. s \in QState
  BY DEF Legal
<1>3. /\ clear \in QState /\ clear.se = s.se
      /\ clear.rq.curr = s.rq.curr /\ clear.rq.min_vruntime = s.rq.min_vruntime
      /\ clear.rq.next # t /\ clear.rq.last # t /\ clear.rq.skip # t
  BY <1>1, <1>2, ClearBuddiesOf
<1>4. Legal(c, clear)
  BY <1>1, ClearedLegal
<1>5. DequeueEntity(s, c, t, at) =
        UpdateMinVruntime([clear EXCEPT !.se[t].at = at, !.se[t].normalized = norm,
                             !.se[t].vruntime = v], c)
  BY Zenon DEF DequeueEntity
<1> HIDE DEF clear
<1>6. clear.se[t] \in Entity /\ clear.se[t].vruntime \in Int
  BY <1>1, <1>3 DEF QState, Entity
<1>7. v \in Int
  <2>1. -s.rq.min_vruntime \in Int
    BY <1>2 DEF QState, Rq
  <2>. QED
    BY <1>6, <2>1, Wraps
<1>20. norm \in BOOLEAN
  OBVIOUS
<1> DEFINE raw == [clear EXCEPT !.se[t].at = at, !.se[t].normalized = norm,
                     !.se[t].vruntime = v]
<1> HIDE DEF v, norm
<1>21. raw = [clear EXCEPT !.se[t].at = at, !.se[t].normalized = norm, !.se[t].vruntime = v]
  OBVIOUS
<1>8. raw = out
  <2> HIDE DEF raw
  <2>1. /\ raw.rq = clear.rq /\ raw = [rq |-> raw.rq, se |-> raw.se]
        /\ raw.se = [clear.se EXCEPT ![t] = raw.se[t]]
    BY <1>3, <1>21 DEF QState
  <2>2. raw.se[t] = e
    BY <1>1, <1>3, <1>6, <1>21 DEF QState, Entity
  <2>3. out = [rq |-> clear.rq, se |-> [clear.se EXCEPT ![t] = e]]
    BY <1>3 DEF QState
  <2>. QED
    BY <2>1, <2>2, <2>3, Zenon
<1>9. e \in Entity /\ e.at = at
  BY <1>6, <1>7, <1>20 DEF Entity
<1> HIDE DEF e, raw
<1>10. /\ out \in QState /\ out.rq = clear.rq /\ out.se[t] = e
       /\ \A u \in Tasks : u # t => out.se[u] = clear.se[u]
  BY <1>1, <1>3, <1>9, OneEntity
<1> HIDE DEF out
<1>11. /\ \A d \in CPUs \ {c} : Queue(out, d) = Queue(clear, d)
       /\ Queue(out, c) = Queue(clear, c) \ {t}
  BY <1>1, <1>3, <1>9, <1>10 DEF Queue
<1>12. Legal(c, out)
  BY <1>3, <1>4, <1>9, <1>10, <1>11 DEF Legal
<1>13. out.rq.min_vruntime = rq[c].min_vruntime
  BY <1>3, <1>10
<1>14. Legal(c, UpdateMinVruntime(out, c))
  BY <1>12, <1>13, UpdatedMinLegal
<1>15. UpdateMinVruntime(out, c).se = out.se /\ UpdateMinVruntime(out, c).rq.curr = out.rq.curr
  BY <1>10, UpdateMinOf
<1>16. DequeueEntity(s, c, t, at) = UpdateMinVruntime(out, c)
  BY <1>5, <1>8, Zenon DEF raw
<1>. QED
  BY <1>3, <1>9, <1>10, <1>14, <1>15, <1>16

\* check_preempt_wakeup(): the buddies it sets are the woken task and the running one.
LEMMA CheckPreemptOf ==
  ASSUME NEW c \in CPUs, NEW s, Legal(c, s), Running(c, s), NEW t \in Queue(s, c)
  PROVE  Legal(c, CheckPreempt(s, c, t)) /\ Running(c, CheckPreempt(s, c, t))
<1> DEFINE curr == s.rq.curr
           soon == [s EXCEPT !.rq.resched = TRUE]
           next == [s EXCEPT !.rq.next = t, !.rq.resched = TRUE]
           last == [next EXCEPT !.rq.last = curr]
           r    == CheckPreempt(s, c, t)
<1>1. s \in QState /\ s.rq \in Rq /\ t \in Tasks
  BY DEF Legal, QState, Queue
<1>2. soon \in QState /\ soon.se = s.se /\ soon.rq = [s.rq EXCEPT !.resched = TRUE]
  BY <1>1 DEF QState, Rq
<1>3. /\ next \in QState /\ next.se = s.se
      /\ next.rq = [s.rq EXCEPT !.next = t, !.resched = TRUE]
  BY <1>1 DEF QState, Rq
<1>4. /\ last \in QState /\ last.se = s.se
      /\ last.rq = [s.rq EXCEPT !.next = t, !.resched = TRUE, !.last = curr]
  BY <1>1 DEF QState, Rq
<1>5. r \in {s, soon, next} \/ (curr # None /\ r = last)
  BY Zenon DEF CheckPreempt
<1> HIDE DEF r, soon, next, last
<1>6. /\ r \in QState /\ r.se = s.se /\ r.rq.curr = s.rq.curr
      /\ r.rq.min_vruntime = s.rq.min_vruntime /\ r.rq.skip = s.rq.skip
      /\ r.rq.next \in {t, s.rq.next}
      /\ r.rq.last = s.rq.last \/ (curr # None /\ r.rq.last = curr)
  <2>1. CASE r = s
    BY <1>1, <2>1
  <2>2. CASE r = soon
    BY <1>1, <1>2, <2>2 DEF Rq
  <2>3. CASE r = next
    BY <1>1, <1>3, <2>3 DEF Rq
  <2>4. CASE curr # None /\ r = last
    BY <1>1, <1>4, <2>4 DEF Rq
  <2>. QED
    BY <1>5, <2>1, <2>2, <2>3, <2>4
<1>7. r.rq.last \in Queue(s, c) \cup {s.rq.last}
  BY <1>6 DEF Running
<1>8. r.rq.next \in Queue(s, c) \cup {s.rq.next}
  BY <1>6
<1>9. Legal(c, r)
  BY <1>6, <1>7, <1>8, SameQueueLegal
<1>10. Running(c, r)
  BY <1>6 DEF Running, Queue
<1>. QED
  BY <1>9, <1>10 DEF r

\* check_preempt_tick()
LEMMA CheckPreemptTickOf ==
  ASSUME NEW c \in CPUs, NEW s, Legal(c, s), Running(c, s), s.rq.curr # None
  PROVE  Legal(c, CheckPreemptTick(s, c)) /\ Running(c, CheckPreemptTick(s, c))
<1> DEFINE curr == s.rq.curr
           soon == [s EXCEPT !.rq.resched = TRUE]
           r    == CheckPreemptTick(s, c)
<1>1. s \in QState /\ s.rq \in Rq
  BY DEF Legal, QState
<1>2. soon \in QState /\ soon.se = s.se /\ soon.rq = [s.rq EXCEPT !.resched = TRUE]
  BY <1>1 DEF QState, Rq
<1>3. r \in {s, soon, ClearBuddies(soon, curr)}
  BY Zenon DEF CheckPreemptTick
<1>4. curr \in Tasks
  BY DEF Running, Queue
<1> HIDE DEF soon, r
<1>5. /\ soon.rq.min_vruntime = s.rq.min_vruntime /\ soon.rq.curr = s.rq.curr
      /\ soon.rq.next = s.rq.next /\ soon.rq.last = s.rq.last /\ soon.rq.skip = s.rq.skip
  BY <1>1, <1>2 DEF Rq
<1>a. soon \in QState /\ soon.se = s.se
  BY <1>2
<1>6. Legal(c, soon)
  BY <1>a, <1>5, SameQueueLegal
<1>7. Legal(c, ClearBuddies(soon, curr))
  BY <1>4, <1>6, ClearedLegal
<1>8. ClearBuddies(soon, curr).se = s.se /\ ClearBuddies(soon, curr).rq.curr = s.rq.curr
  <2>. HIDE DEF curr
  <2>1. /\ ClearBuddies(soon, curr).se = soon.se
        /\ ClearBuddies(soon, curr).rq.curr = soon.rq.curr
    BY <1>a, <1>4, ClearBuddiesOf
  <2>. QED
    BY <1>a, <1>5, <2>1
<1>9. r.se = s.se /\ r.rq.curr = s.rq.curr /\ Legal(c, r)
  BY <1>a, <1>3, <1>5, <1>6, <1>7, <1>8
<1>10. Running(c, r)
  BY <1>9 DEF Running, Queue
<1>. QED
  BY <1>9, <1>10 DEF r

\* pick_next_entity() picks what is queued, the running task included if it can go on.
LEMMA PickNextOf ==
  ASSUME NEW c \in CPUs, NEW s, Legal(c, s), Leaving(c, s), Queue(s, c) # {},
         NEW prev, prev = (IF s.rq.curr # None /\ s.se[s.rq.curr].at = "queued"
                           THEN s.rq.curr ELSE None)
  PROVE  PickNext(s, c, prev) \subseteq Queue(s, c)
<1> DEFINE q       == Queue(s, c)
           tree    == Tree(s, c)
           first(t) == IF t = None \/ (prev # None /\ Before(s, prev, t)) THEN prev ELSE t
           Lefts(T) == IF T = {} THEN {None} ELSE Leftmost(s, T)
           fair(t, left) == t # None /\ WakeupPreempt(s, t, left) < 1
           second(left) == IF left = prev THEN Lefts(tree)
                           ELSE {first(t) : t \in Lefts(tree \ {left})}
           skipped(left) == IF s.rq.skip # left THEN {left}
                            ELSE {IF fair(t, left) THEN t ELSE left : t \in second(left)}
           picked(left) == IF fair(s.rq.next, left) THEN {s.rq.next}
                           ELSE IF fair(s.rq.last, left) THEN {s.rq.last}
                           ELSE skipped(left)
<1>1. prev \in q \cup {None}
  BY DEF Leaving, Queue, Legal, QState, Rq
<1>2. tree \subseteq q
  BY DEF Tree
<1>3. prev = None => tree = q
  BY Constants DEF Tree, Queue
<1>4. \A T \in SUBSET q : Lefts(T) \subseteq q \cup {None} /\ (T # {} => Lefts(T) \subseteq q)
  BY DEF Leftmost
<1>5. \A t \in q \cup {None} : first(t) \in q \cup {None}
  BY <1>1
<1>6. \A t \in Lefts(tree) : first(t) \in q
  <2>1. None \notin q
    BY Constants DEF Queue
  <2>2. CASE tree = {}
    BY <1>1, <1>3, <2>2
  <2>3. CASE tree # {}
    BY <1>1, <1>2, <1>4, <2>1, <2>3
  <2>. QED
    BY <2>2, <2>3
<1>7. ASSUME NEW left \in q
      PROVE  picked(left) \subseteq q
  <2>1. second(left) \subseteq q \cup {None}
    <3>1. tree \in SUBSET q /\ tree \ {left} \in SUBSET q
      BY <1>2
    <3> HIDE DEF Lefts, first, tree, q
    <3>. QED
      BY <1>4, <1>5, <3>1
  <2>2. \A t : fair(t, left) => t # None
    OBVIOUS
  <2> HIDE DEF second, fair
  <2>3. skipped(left) \subseteq q
    BY <2>1, <2>2
  <2>4. {s.rq.next, s.rq.last} \ {None} \subseteq q
    BY DEF Legal
  <2>. QED
    BY <2>2, <2>3, <2>4
<1>8. PickNext(s, c, prev) = UNION {picked(left) : left \in {first(t) : t \in Lefts(tree)}}
  BY Zenon DEF PickNext
<1> HIDE DEF first, Lefts, picked, q
<1>9. PickNext(s, c, prev) \subseteq q
  BY <1>6, <1>7, <1>8
<1>. QED
  BY <1>9 DEF q

-----------------------------------------------------------------------------
(* The steps *)

Forward == \A c \in CPUs : Diff(rq'[c].min_vruntime, rq[c].min_vruntime) >= 0

\* What each step shows
Sound == FairInv' /\ Forward

LEMMA StaysForward ==
  ASSUME FairInv, NEW c \in CPUs
  PROVE  Diff(rq[c].min_vruntime, rq[c].min_vruntime) >= 0
BY DiffOf DEF FairInv, FairTypeOK, Rq

LEMMA BecomesSound ==
  ASSUME FairInv, NEW c \in CPUs, NEW s, Legal(c, s), Running(c, s), Becomes(c, s)
  PROVE  Sound
<1> DEFINE behind(t) == Asleep(s.se[t], c) /\ Lag(s, t) > MaxSleepLag
           v     == Plus(s.rq.min_vruntime, -MaxSleepLag)
           e(t)  == [s.se[t] EXCEPT !.vruntime = v]
           n(t)  == IF behind(t) THEN e(t) ELSE s.se[t]
<1>1. s.rq \in Rq /\ s.se \in [Tasks -> Entity] /\ s.rq.min_vruntime \in Int
  BY DEF Legal, QState, Rq
<1>2. rq' = [rq EXCEPT ![c] = s.rq] /\ se' = [t \in Tasks |-> n(t)]
  BY Zenon DEF Becomes
<1>3. v \in Int
  <2>1. -MaxSleepLag \in Int
    BY Constants
  <2>. QED
    BY <1>1, <2>1, Wraps
<1> HIDE DEF v
<1>4. ASSUME NEW t \in Tasks
      PROVE  n(t) \in Entity /\ n(t).at = s.se[t].at /\ n(t).cpu = s.se[t].cpu
  <2>1. s.se[t] \in Entity
    BY <1>1
  <2>2. e(t) \in Entity /\ e(t).at = s.se[t].at /\ e(t).cpu = s.se[t].cpu
    BY <1>3, <2>1 DEF Entity
  <2> HIDE DEF e, behind
  <2>. QED
    BY <2>1, <2>2
<1>5. \A t \in Tasks : s.se[t].at = "queued" => n(t) = s.se[t]
  BY DEF Asleep
<1> HIDE DEF n
<1>6. rq'[c] = s.rq /\ \A d \in CPUs : d # c => rq'[d] = rq[d]
  BY <1>2 DEF FairInv, FairTypeOK
<1>7. FairTypeOK'
  BY <1>1, <1>2, <1>4 DEF FairInv, FairTypeOK
<1>8. \A d \in CPUs : OnRq(d)' = Queue(s, d)
  BY <1>2, <1>4 DEF OnRq, Queue
<1>9. BuddiesQueued'
  <2>. SUFFICES ASSUME NEW d \in CPUs
                PROVE  {rq'[d].next, rq'[d].last, rq'[d].skip} \ {None} \subseteq OnRq(d)'
    BY DEF BuddiesQueued
  <2>1. CASE d = c
    BY <1>6, <1>8, <2>1 DEF Legal
  <2>2. CASE d # c
    <3>1. {rq[d].next, rq[d].last, rq[d].skip} \ {None} \subseteq OnRq(d)
      BY DEF FairInv, BuddiesQueued
    <3>2. OnRq(d) \subseteq Queue(s, d)
      BY <2>2 DEF Legal
    <3>. QED
      BY <1>6, <1>8, <2>2, <3>1, <3>2
  <2>. QED
    BY <2>1, <2>2
<1>10. CurrQueued'
  <2>. SUFFICES ASSUME NEW d \in CPUs, rq'[d].curr # None
                PROVE  rq'[d].curr \in OnRq(d)'
    BY DEF CurrQueued
  <2>1. CASE d = c
    BY <1>6, <1>8, <2>1 DEF Running
  <2>2. CASE d # c
    <3>1. rq[d].curr \in OnRq(d)
      BY <1>6, <2>2 DEF FairInv, CurrQueued
    <3>2. OnRq(d) \subseteq Queue(s, d)
      BY <2>2 DEF Legal
    <3>. QED
      BY <1>6, <1>8, <2>2, <3>1, <3>2
  <2>. QED
    BY <2>1, <2>2
<1>11. Forward
  BY <1>6, StaysForward DEF Forward, Legal
<1>. QED
  BY <1>7, <1>9, <1>10, <1>11 DEF Sound, FairInv

\* A queue runs t, or nothing.
LEMMA SetCurrOf ==
  ASSUME NEW s \in QState, NEW t \in Tasks \cup {None}
  PROVE  LET r == [s EXCEPT !.rq.curr = t, !.rq.resched = FALSE, !.rq.exec = 0]
         IN  /\ r \in QState /\ r.se = s.se
             /\ r.rq.curr = t /\ r.rq.min_vruntime = s.rq.min_vruntime
             /\ r.rq.next = s.rq.next /\ r.rq.last = s.rq.last /\ r.rq.skip = s.rq.skip
<1> DEFINE off  == FALSE
           zero == 0
           q == [s.rq EXCEPT !.curr = t, !.resched = off, !.exec = zero]
           r == [s EXCEPT !.rq.curr = t, !.rq.resched = off, !.rq.exec = zero]
<1>1. s.rq \in Rq
  BY DEF QState
<1>2. off \in BOOLEAN /\ zero \in Int
  OBVIOUS
<1> HIDE DEF off, zero
<1>3. /\ q \in Rq /\ q.curr = t /\ q.min_vruntime = s.rq.min_vruntime
      /\ q.next = s.rq.next /\ q.last = s.rq.last /\ q.skip = s.rq.skip
  BY <1>1, <1>2 DEF Rq
<1>4. r.rq = q /\ r.se = s.se
  BY <1>1 DEF QState, Rq
<1>5. r \in QState
  <2>2. r = [s EXCEPT !.rq.curr = t, !.rq.resched = off, !.rq.exec = zero]
    OBVIOUS
  <2> HIDE DEF q, r
  <2>1. r = [rq |-> r.rq, se |-> r.se]
    BY <2>2 DEF QState
  <2>. QED
    BY <1>3, <1>4, <2>1 DEF QState
<1>6. [s EXCEPT !.rq.curr = t, !.rq.resched = FALSE, !.rq.exec = 0] = r
  BY Zenon DEF off, zero
<1> HIDE DEF q, r
<1>. QED
  BY <1>3, <1>4, <1>5, <1>6

LEMMA PicksSound ==
  ASSUME FairInv, NEW c \in CPUs, NEW s, Legal(c, s), Leaving(c, s), Picks(c, s)
  PROVE  Sound
<1> DEFINE prev == IF s.rq.curr # None /\ s.se[s.rq.curr].at = "queued" THEN s.rq.curr ELSE None
           next(t) == [ClearBuddies(s, t) EXCEPT !.rq.curr = t, !.rq.resched = FALSE,
                                                  !.rq.exec = 0]
           idle == [s EXCEPT !.rq.curr = None, !.rq.resched = FALSE, !.rq.exec = 0]
           on   == [s EXCEPT !.rq.resched = FALSE]
<1>1. s \in QState /\ s.rq \in Rq
  BY DEF Legal, QState
<1>2. IF Queue(s, c) = {} THEN Becomes(c, idle)
      ELSE \E t \in PickNext(s, c, prev) : Becomes(c, IF t = prev THEN on ELSE next(t))
  BY Zenon DEF Picks
<1>3. CASE Queue(s, c) = {}
  <2>1. /\ idle \in QState /\ idle.se = s.se
        /\ idle.rq.curr = None /\ idle.rq.min_vruntime = s.rq.min_vruntime
        /\ idle.rq.next = s.rq.next /\ idle.rq.last = s.rq.last /\ idle.rq.skip = s.rq.skip
    BY <1>1, SetCurrOf
  <2> HIDE DEF idle
  <2>2. Legal(c, idle)
    BY <2>1, SameQueueLegal
  <2>3. Legal(c, idle) /\ Running(c, idle)
    BY <2>1, <2>2 DEF Running
  <2>. QED
    BY <1>2, <1>3, <2>3, BecomesSound
<1>4. CASE Queue(s, c) # {}
  <2>1. PICK t \in PickNext(s, c, prev) : Becomes(c, IF t = prev THEN on ELSE next(t))
    BY <1>2, <1>4
  <2>2. t \in Queue(s, c) /\ t \in Tasks
    BY <1>4, PickNextOf DEF Queue
  <2>3. CASE t = prev
    <3>1. on \in QState /\ on.se = s.se /\ on.rq = [s.rq EXCEPT !.resched = FALSE]
      BY <1>1 DEF QState, Rq
    <3>2. s.rq.curr \in Queue(s, c)
      BY <2>2, <2>3, Constants
    <3>3. Becomes(c, on)
      BY <2>1, <2>3
    <3> HIDE DEF on
    <3>4. /\ on.rq.curr = s.rq.curr /\ on.rq.min_vruntime = s.rq.min_vruntime
          /\ on.rq.next = s.rq.next /\ on.rq.last = s.rq.last /\ on.rq.skip = s.rq.skip
      BY <1>1, <3>1 DEF Rq
    <3>5. Legal(c, on) /\ Running(c, on)
      BY <3>1, <3>2, <3>4, SameQueueLegal DEF Running, Queue
    <3>. QED
      BY <3>3, <3>5, BecomesSound
  <2>4. CASE t # prev
    <3> DEFINE clear == ClearBuddies(s, t)
               run   == [clear EXCEPT !.rq.curr = t, !.rq.resched = FALSE, !.rq.exec = 0]
    <3>1. clear \in QState /\ clear.se = s.se /\ Legal(c, clear)
      BY <1>1, <2>2, ClearBuddiesOf, ClearedLegal
    <3>2. Becomes(c, run)
      BY <2>1, <2>4
    <3> HIDE DEF clear
    <3>3. /\ run \in QState /\ run.se = clear.se
          /\ run.rq.curr = t /\ run.rq.min_vruntime = clear.rq.min_vruntime
          /\ run.rq.next = clear.rq.next /\ run.rq.last = clear.rq.last
          /\ run.rq.skip = clear.rq.skip
      BY <2>2, <3>1, SetCurrOf
    <3> HIDE DEF run
    <3>5. Legal(c, run)
      BY <3>1, <3>3, SameQueueLegal
    <3>6. Running(c, run)
      BY <2>2, <3>1, <3>3 DEF Running, Queue
    <3>. QED
      BY <3>2, <3>5, <3>6, BecomesSound
  <2>. QED
    BY <2>3, <2>4
<1>. QED
  BY <1>3, <1>4

LEMMA RunningLeaves ==
  ASSUME NEW c \in CPUs, NEW s, Running(c, s)
  PROVE  Leaving(c, s)
BY DEF Running, Leaving, Queue

LEMMA ScheduleSound ==
  ASSUME FairInv, NEW c \in CPUs, Schedule(c)
  PROVE  Sound
<1>1. Legal(c, Here(c)) /\ Running(c, Here(c))
  BY HereIs
<1>2. Picks(c, Here(c))
  BY DEF Schedule
<1>. QED
  BY <1>1, <1>2, RunningLeaves, PicksSound

\* Virtual runtimes change, but no task moves.
LEMMA SamePlacesLegal ==
  ASSUME NEW c \in CPUs, NEW s, Legal(c, s), NEW r \in QState,
         r.rq.min_vruntime = s.rq.min_vruntime,
         r.rq.next = s.rq.next, r.rq.last = s.rq.last, r.rq.skip = s.rq.skip,
         \A u \in Tasks : r.se[u].at = s.se[u].at /\ r.se[u].cpu = s.se[u].cpu
  PROVE  Legal(c, r) /\ \A d \in CPUs : Queue(r, d) = Queue(s, d)
<1>1. \A d \in CPUs : Queue(r, d) = Queue(s, d)
  BY DEF Queue
<1>. QED
  BY <1>1 DEF Legal

\* update_curr() moves the running task on.
LEMMA UpdateCurrOf ==
  ASSUME NEW s \in QState, s.rq.curr \in Tasks
  PROVE  LET r == UpdateCurr(s)
         IN  /\ r \in QState
             /\ r.rq.curr = s.rq.curr /\ r.rq.min_vruntime = s.rq.min_vruntime
             /\ r.rq.next = s.rq.next /\ r.rq.last = s.rq.last /\ r.rq.skip = s.rq.skip
             /\ \A u \in Tasks : r.se[u].at = s.se[u].at /\ r.se[u].cpu = s.se[u].cpu
             /\ \A u \in Tasks : u # s.rq.curr => r.se[u] = s.se[u]
<1> DEFINE t   == s.rq.curr
           v   == Plus(s.se[t].vruntime, DeltaFair(1, t))
           x   == Min({s.rq.exec + 1, MaxExec})
           run == [s EXCEPT !.se[t].vruntime = v]
           q   == [s.rq EXCEPT !.exec = x]
<1>1. s.rq \in Rq /\ s.se[t].vruntime \in Int
  BY DEF QState, Entity
<1>2. v \in Int
  <2>1. DeltaFair(1, t) \in Int
    BY DeltaFairOf
  <2>. QED
    BY <1>1, <2>1, Wraps
<1>3. x \in Int
  <2>1. s.rq.exec + 1 \in Int
    BY <1>1 DEF Rq
  <2> DEFINE a == s.rq.exec + 1
  <2>2. x = Min({a, MaxExec}) /\ a \in Int
    BY <2>1
  <2> HIDE DEF a
  <2>3. Min({a, MaxExec}) \in {a, MaxExec}
    BY <2>2, MaxExecOf, MinOfTwo
  <2>. QED
    BY <2>2, <2>3, MaxExecOf
<1>4. UpdateCurr(s) = [run EXCEPT !.rq.exec = x]
  <2>1. UpdateCurr(s) = [s EXCEPT !.se[t].vruntime = v, !.rq.exec = x]
    BY Zenon DEF UpdateCurr
  <2>. QED
    BY <2>1, Zenon
<1> HIDE DEF v, x
<1>5. /\ run \in QState /\ run.rq = s.rq
      /\ \A u \in Tasks : run.se[u].at = s.se[u].at /\ run.se[u].cpu = s.se[u].cpu
      /\ \A u \in Tasks : u # t => run.se[u] = s.se[u]
  BY <1>2, OneVruntime
<1> HIDE DEF run
<1>6. /\ q \in Rq /\ q.curr = s.rq.curr /\ q.min_vruntime = s.rq.min_vruntime
      /\ q.next = s.rq.next /\ q.last = s.rq.last /\ q.skip = s.rq.skip
  BY <1>1, <1>3 DEF Rq
<1> DEFINE r == UpdateCurr(s)
<1> HIDE DEF r
<1>7. r.rq = q /\ r.se = run.se /\ r = [rq |-> r.rq, se |-> r.se]
  BY <1>4, <1>5 DEF r, QState
<1> HIDE DEF q
<1>8. r \in QState
  BY <1>5, <1>6, <1>7 DEF QState
<1>9. /\ r \in QState
      /\ r.rq.curr = s.rq.curr /\ r.rq.min_vruntime = s.rq.min_vruntime
      /\ r.rq.next = s.rq.next /\ r.rq.last = s.rq.last /\ r.rq.skip = s.rq.skip
      /\ \A u \in Tasks : r.se[u].at = s.se[u].at /\ r.se[u].cpu = s.se[u].cpu
      /\ \A u \in Tasks : u # t => r.se[u] = s.se[u]
  BY <1>5, <1>6, <1>7, <1>8
<1>. QED
  BY <1>9 DEF r

LEMMA TickSound ==
  ASSUME FairInv, NEW c \in CPUs, Tick(c)
  PROVE  Sound
<1> DEFINE h   == Here(c)
           ran == UpdateCurr(h)
           s   == UpdateMinVruntime(ran, c)
<1>1. rq[c].curr # None /\ Becomes(c, CheckPreemptTick(s, c))
  BY DEF Tick
<1>2. /\ h \in QState /\ h.rq = rq[c] /\ h.se = se /\ Legal(c, h) /\ Running(c, h)
      /\ \A d \in CPUs : Queue(h, d) = OnRq(d)
  BY HereIs
<1> HIDE DEF h
<1>3. h.rq.curr \in Tasks /\ se[h.rq.curr].at = "queued"
  BY <1>1, <1>2 DEF FairInv, CurrQueued, OnRq
<1>4. /\ ran \in QState
      /\ ran.rq.curr = h.rq.curr /\ ran.rq.min_vruntime = h.rq.min_vruntime
      /\ ran.rq.next = h.rq.next /\ ran.rq.last = h.rq.last /\ ran.rq.skip = h.rq.skip
      /\ \A u \in Tasks : ran.se[u].at = h.se[u].at /\ ran.se[u].cpu = h.se[u].cpu
      /\ \A u \in Tasks : u # h.rq.curr => ran.se[u] = h.se[u]
  BY <1>2, <1>3, UpdateCurrOf
<1> HIDE DEF ran
<1>5. Legal(c, ran) /\ \A d \in CPUs : Queue(ran, d) = Queue(h, d)
  BY <1>2, <1>4, SamePlacesLegal
<1>6. Legal(c, s)
  BY <1>2, <1>4, <1>5, UpdatedMinLegal
<1>7. s.se = ran.se /\ s.rq.curr = ran.rq.curr
  BY <1>4, UpdateMinOf
<1> HIDE DEF s
<1>8. Running(c, s) /\ s.rq.curr # None
  BY <1>1, <1>2, <1>4, <1>5, <1>7 DEF Running, Queue
<1>9. Legal(c, CheckPreemptTick(s, c)) /\ Running(c, CheckPreemptTick(s, c))
  BY <1>6, <1>8, CheckPreemptTickOf
<1>. QED
  BY <1>1, <1>9, BecomesSound

LEMMA BlockSound ==
  ASSUME FairInv, NEW c \in CPUs, Block(c)
  PROVE  Sound
<1> DEFINE h == Here(c)
           t == rq[c].curr
           r == DequeueEntity(h, c, t, "sleeping")
<1>1. t # None /\ Picks(c, r)
  BY DEF Block
<1>2. h.rq = rq[c] /\ Legal(c, h) /\ \A d \in CPUs : Queue(h, d) = OnRq(d)
  BY HereIs
<1> HIDE DEF h
<1>3. t \in Queue(h, c)
  BY <1>1, <1>2 DEF FairInv, CurrQueued
<1>4. Legal(c, r) /\ r.rq.curr = t /\ r.se[t].at = "sleeping"
  BY <1>2, <1>3, DequeueEntityOf
<1> HIDE DEF r, t
<1>5. Leaving(c, r)
  BY <1>4 DEF Leaving
<1>. QED
  BY <1>1, <1>4, <1>5, PicksSound

\* The running task asks to be skipped.
LEMMA SetSkipOf ==
  ASSUME NEW c \in CPUs, NEW s, Legal(c, s), Running(c, s), NEW t \in Queue(s, c)
  PROVE  LET r == [ClearBuddies(s, t) EXCEPT !.rq.skip = t]
         IN  Legal(c, r) /\ Running(c, r)
<1> DEFINE clear == ClearBuddies(s, t)
           r     == [clear EXCEPT !.rq.skip = t]
<1>1. t \in Tasks /\ s \in QState
  BY DEF Queue, Legal
<1>2. clear \in QState /\ clear.se = s.se /\ clear.rq.curr = s.rq.curr
  BY <1>1, ClearBuddiesOf
<1>3. Legal(c, clear)
  BY <1>1, ClearedLegal
<1> HIDE DEF clear
<1>4. /\ r \in QState /\ r.se = clear.se
      /\ r.rq = [clear.rq EXCEPT !.skip = t]
  BY <1>1, <1>2 DEF QState, Rq
<1> HIDE DEF r
<1>5. /\ r.rq.curr = clear.rq.curr /\ r.rq.min_vruntime = clear.rq.min_vruntime
      /\ r.rq.next = clear.rq.next /\ r.rq.last = clear.rq.last /\ r.rq.skip = t
  BY <1>2, <1>4 DEF QState, Rq
<1>6. r.rq.skip \in Queue(clear, c)
  BY <1>2, <1>5 DEF Queue
<1>a. r \in QState /\ r.se = clear.se
  BY <1>4
<1>7. Legal(c, r)
  BY <1>3, <1>a, <1>5, <1>6, SameQueueLegal
<1>8. Running(c, r)
  BY <1>2, <1>4, <1>5 DEF Running, Queue
<1>. QED
  BY <1>7, <1>8 DEF r, clear

LEMMA YieldSound ==
  ASSUME FairInv, NEW c \in CPUs, Yield(c)
  PROVE  Sound
<1> DEFINE h == Here(c)
           t == rq[c].curr
           r == [ClearBuddies(h, t) EXCEPT !.rq.skip = t]
<1>1. t # None /\ (Picks(c, h) \/ Picks(c, r))
  BY DEF Yield
<1>2. /\ h.rq = rq[c] /\ Legal(c, h) /\ Running(c, h)
      /\ \A d \in CPUs : Queue(h, d) = OnRq(d)
  BY HereIs
<1> HIDE DEF h
<1>3. t \in Queue(h, c)
  BY <1>1, <1>2 DEF FairInv, CurrQueued
<1>4. Legal(c, r) /\ Running(c, r)
  BY <1>2, <1>3, SetSkipOf
<1> HIDE DEF r
<1>. QED
  BY <1>1, <1>2, <1>4, RunningLeaves, PicksSound

LEMMA YieldToSound ==
  ASSUME FairInv, NEW c \in CPUs, NEW t \in Tasks, YieldTo(c, t)
  PROVE  Sound
<1> DEFINE h == Here(c)
           u == rq[c].curr
           n == [h EXCEPT !.rq.next = t]
           r == [ClearBuddies(n, u) EXCEPT !.rq.skip = u]
<1>1. u # None /\ t \in OnRq(c) /\ Picks(c, r)
  BY DEF YieldTo
<1>2. /\ h \in QState /\ h.rq = rq[c] /\ Legal(c, h) /\ Running(c, h)
      /\ \A d \in CPUs : Queue(h, d) = OnRq(d)
  BY HereIs
<1> HIDE DEF h
<1>3. u \in Queue(h, c) /\ t \in Queue(h, c)
  BY <1>1, <1>2 DEF FairInv, CurrQueued
<1>4. n \in QState /\ n.se = h.se /\ n.rq = [h.rq EXCEPT !.next = t]
  BY <1>2 DEF QState, Rq
<1> HIDE DEF n
<1>5. /\ n.rq.curr = h.rq.curr /\ n.rq.min_vruntime = h.rq.min_vruntime
      /\ n.rq.next = t /\ n.rq.last = h.rq.last /\ n.rq.skip = h.rq.skip
  BY <1>2, <1>4 DEF QState, Rq
<1>a. n \in QState /\ n.se = h.se
  BY <1>4
<1>6. Legal(c, n)
  BY <1>2, <1>3, <1>a, <1>5, SameQueueLegal
<1>7. Running(c, n) /\ u \in Queue(n, c)
  BY <1>2, <1>3, <1>4, <1>5 DEF Running, Queue
<1>8. Legal(c, r) /\ Running(c, r)
  BY <1>6, <1>7, SetSkipOf
<1> HIDE DEF r
<1>. QED
  BY <1>1, <1>8, RunningLeaves, PicksSound

\* A task that is on no queue comes to this one.
LEMMA EnqueueLegal ==
  ASSUME FairInv, NEW c \in CPUs, NEW t \in Tasks, se[t].at # "queued", NEW wakeup \in BOOLEAN
  PROVE  LET r == EnqueueEntity(Here(c), c, t, wakeup)
         IN  Legal(c, r) /\ Running(c, r) /\ t \in Queue(r, c)
<1> DEFINE h == Here(c)
           r == EnqueueEntity(h, c, t, wakeup)
<1>1. /\ h \in QState /\ h.rq = rq[c] /\ h.se = se /\ Legal(c, h) /\ Running(c, h)
      /\ \A d \in CPUs : Queue(h, d) = OnRq(d)
  BY HereIs
<1> HIDE DEF h
<1>2. /\ r \in QState /\ r.rq = h.rq
      /\ \A u \in Tasks : u # t => r.se[u] = h.se[u]
      /\ r.se[t].at = "queued" /\ r.se[t].cpu = c
  BY <1>1, EnqueueEntityOf
<1> HIDE DEF r
<1>3. \A d \in CPUs : Queue(h, d) \subseteq Queue(r, d)
  BY <1>1, <1>2 DEF Queue
<1>4. Legal(c, r)
  BY <1>1, <1>2, <1>3 DEF Legal
<1>5. Running(c, r)
  BY <1>1, <1>2, <1>3 DEF Running
<1>6. t \in Queue(r, c)
  BY <1>2 DEF Queue
<1>. QED
  BY <1>4, <1>5, <1>6 DEF r, h

LEMMA FinishWakeupSound ==
  ASSUME FairInv, NEW t \in Tasks, FinishWakeup(t)
  PROVE  Sound
<1> DEFINE c == se[t].cpu
           s == EnqueueEntity(Here(c), c, t, TRUE)
<1>1. se[t].at = "waking" /\ Becomes(c, CheckPreempt(s, c, t))
  BY DEF FinishWakeup
<1>2. c \in CPUs /\ TRUE \in BOOLEAN
  BY DEF FairInv, FairTypeOK, Entity
<1> HIDE DEF c
<1>3. Legal(c, s) /\ Running(c, s) /\ t \in Queue(s, c)
  BY <1>1, <1>2, EnqueueLegal
<1> HIDE DEF s
<1>4. Legal(c, CheckPreempt(s, c, t)) /\ Running(c, CheckPreempt(s, c, t))
  BY <1>2, <1>3, CheckPreemptOf
<1>. QED
  BY <1>1, <1>2, <1>4, BecomesSound

\* attach_task() and wake_up_new_task()
LEMMA ArrivalSound ==
  ASSUME FairInv, NEW c \in CPUs, NEW t \in Tasks, Attach(t, c) \/ WakeNew(t, c)
  PROVE  Sound
<1> DEFINE s == EnqueueEntity(Here(c), c, t, FALSE)
<1>1. se[t].at # "queued" /\ Becomes(c, CheckPreempt(s, c, t))
  BY DEF Attach, WakeNew
<1>2. FALSE \in BOOLEAN
  OBVIOUS
<1>3. Legal(c, s) /\ Running(c, s) /\ t \in Queue(s, c)
  BY <1>1, <1>2, EnqueueLegal
<1> HIDE DEF s
<1>4. Legal(c, CheckPreempt(s, c, t)) /\ Running(c, CheckPreempt(s, c, t))
  BY <1>3, CheckPreemptOf
<1>. QED
  BY <1>1, <1>4, BecomesSound

LEMMA DetachSound ==
  ASSUME FairInv, NEW t \in Tasks, Detach(t)
  PROVE  Sound
<1> DEFINE c == se[t].cpu
           h == Here(c)
           r == DequeueEntity(h, c, t, "migrating")
<1>1. se[t].at = "queued" /\ rq[c].curr # t /\ Becomes(c, r)
  BY DEF Detach
<1>2. c \in CPUs /\ t \in OnRq(c)
  BY <1>1 DEF FairInv, FairTypeOK, Entity, OnRq
<1> HIDE DEF c
<1>3. /\ h.rq = rq[c] /\ Legal(c, h) /\ Running(c, h)
      /\ \A d \in CPUs : Queue(h, d) = OnRq(d)
  BY <1>2, HereIs
<1> HIDE DEF h
<1>4. /\ Legal(c, r) /\ r.rq.curr = rq[c].curr
      /\ \A u \in Tasks : u # t => r.se[u] = h.se[u]
  BY <1>2, <1>3, DequeueEntityOf
<1> HIDE DEF r
<1>5. Running(c, r)
  BY <1>1, <1>3, <1>4 DEF Running, Queue
<1>. QED
  BY <1>1, <1>2, <1>4, <1>5, BecomesSound

LEMMA StartWakeupSound ==
  ASSUME FairInv, NEW c \in CPUs, NEW t \in Tasks, StartWakeup(t, c)
  PROVE  Sound
<1> DEFINE v == Plus(se[t].vruntime, -rq[se[t].cpu].min_vruntime)
           e == IF c = se[t].cpu THEN [se[t] EXCEPT !.at = "waking"]
                ELSE [cpu |-> c, at |-> "waking", normalized |-> TRUE, vruntime |-> v]
<1>1. se[t].at = "sleeping" /\ se' = [se EXCEPT ![t] = e] /\ rq' = rq
  BY Zenon DEF StartWakeup
<1>2. /\ se[t] \in Entity /\ se[t].vruntime \in Int /\ se[t].cpu \in CPUs
      /\ rq \in [CPUs -> Rq] /\ se \in [Tasks -> Entity]
  BY DEF FairInv, FairTypeOK, Entity
<1>3. v \in Int
  <2>1. -rq[se[t].cpu].min_vruntime \in Int
    BY <1>2 DEF Rq
  <2>. QED
    BY <1>2, <2>1, Wraps
<1> HIDE DEF v
<1>4. e \in Entity /\ e.at = "waking"
  BY <1>2, <1>3 DEF Entity
<1> HIDE DEF e
<1>5. FairTypeOK'
  BY <1>1, <1>2, <1>4 DEF FairTypeOK
<1>6. \A d \in CPUs : OnRq(d)' = OnRq(d)
  BY <1>1, <1>2, <1>4 DEF OnRq
<1>7. BuddiesQueued' /\ CurrQueued'
  BY <1>1, <1>6 DEF FairInv, BuddiesQueued, CurrQueued
<1>8. Forward
  BY <1>1, StaysForward DEF Forward
<1>. QED
  BY <1>5, <1>7, <1>8 DEF Sound, FairInv

\* Wherever a task that sleeps is taken to be, it is on no queue.
LEMMA OversleepSound ==
  ASSUME FairInv, NEW t \in Tasks, NEW v \in Int, Oversleep(t, v)
  PROVE  Sound
<1>1. /\ se[t].at # "queued" /\ se' = [se EXCEPT ![t].vruntime = v] /\ rq' = rq
  BY Zenon DEF Oversleep, Asleep
<1> DEFINE e == [se[t] EXCEPT !.vruntime = v]
<1>2. /\ se' = [se EXCEPT ![t] = e] /\ rq \in [CPUs -> Rq] /\ se \in [Tasks -> Entity]
  BY <1>1 DEF FairInv, FairTypeOK
<1>3. e \in Entity /\ e.at # "queued"
  BY <1>1, <1>2 DEF Entity
<1> HIDE DEF e
<1>4. FairTypeOK'
  BY <1>1, <1>2, <1>3 DEF FairTypeOK
<1>5. \A d \in CPUs : OnRq(d)' = OnRq(d)
  BY <1>1, <1>2, <1>3 DEF OnRq
<1>6. BuddiesQueued' /\ CurrQueued'
  BY <1>1, <1>5 DEF FairInv, BuddiesQueued, CurrQueued
<1>7. Forward
  BY <1>1, StaysForward DEF Forward
<1>. QED
  BY <1>4, <1>6, <1>7 DEF Sound, FairInv

\* task_fork_fair() changes the child, which is on no queue, and swaps virtual runtimes with
\* the parent, which stays on its queue.
LEMMA ForkSound ==
  ASSUME FairInv, NEW c \in CPUs, NEW t \in Tasks, NEW first \in BOOLEAN, Fork(c, t, first)
  PROVE  Sound
<1> DEFINE h      == Here(c)
           p      == rq[c].curr
           child  == [vruntime |-> se[p].vruntime, cpu |-> c, at |-> "new", normalized |-> TRUE]
           copied == [h EXCEPT !.se[t] = child]
           v      == MaxV(copied.se[t].vruntime,
                          Plus(copied.rq.min_vruntime, DeltaFair(Slice(copied, c, t), t)))
           placed == [copied EXCEPT !.se[t].vruntime = v]
           a      == placed.se[t].vruntime
           b      == placed.se[p].vruntime
           one    == [placed EXCEPT !.se[p].vruntime = a]
           two    == [one EXCEPT !.se[t].vruntime = b]
           soon   == [two EXCEPT !.rq.resched = TRUE]
           both   == IF ~(first /\ Before(placed, p, t)) THEN placed ELSE soon
           back   == Plus(both.se[t].vruntime, -rq[c].min_vruntime)
           r      == [both EXCEPT !.se[t].vruntime = back]
           Same(s) == /\ s \in QState
                      /\ s.rq.curr = h.rq.curr /\ s.rq.min_vruntime = h.rq.min_vruntime
                      /\ s.rq.next = h.rq.next /\ s.rq.last = h.rq.last
                      /\ s.rq.skip = h.rq.skip
                      /\ s.se[t].at = "new"
                      /\ s.se[p].at = h.se[p].at /\ s.se[p].cpu = h.se[p].cpu
                      /\ \A u \in Tasks : u \notin {t, p} => s.se[u] = h.se[u]
<1>1. p # None /\ se[t].at = "sleeping" /\ p # t
  BY DEF Fork
<1>2. Becomes(c, r)
  <2> DEFINE swapped == [placed EXCEPT !.se[p].vruntime = a, !.se[t].vruntime = b,
                                       !.rq.resched = TRUE]
             all == IF ~(first /\ Before(placed, p, t)) THEN placed ELSE swapped
  <2>1. swapped = soon
    <3> HIDE DEF placed, a, b
    <3>. QED
      BY Zenon
  <2>2. Becomes(c, [all EXCEPT !.se[t].vruntime = Plus(@, -rq[c].min_vruntime)])
    BY Zenon DEF Fork, PlaceNew
  <2>3. all = both
    BY <2>1, Zenon
  <2> HIDE DEF all, both
  <2>. QED
    BY <2>2, <2>3, Zenon
<1>3. /\ h \in QState /\ h.rq = rq[c] /\ h.se = se /\ Legal(c, h) /\ Running(c, h)
      /\ \A d \in CPUs : Queue(h, d) = OnRq(d)
  BY HereIs
<1> HIDE DEF h
<1>4. p \in Tasks /\ se[p].at = "queued" /\ p \in Queue(h, c)
  BY <1>1, <1>3 DEF FairInv, CurrQueued, OnRq
<1>5. child \in Entity /\ child.at = "new"
  BY <1>4 DEF Entity, FairInv, FairTypeOK
<1> HIDE DEF child
<1>6. Same(copied)
  BY <1>1, <1>3, <1>4, <1>5, OneEntity
<1> HIDE DEF copied
<1>a. ASSUME NEW s, Same(s), NEW i \in {t, p}, NEW w \in Int
      PROVE  Same([s EXCEPT !.se[i].vruntime = w])
  <2> DEFINE q == [s EXCEPT !.se[i].vruntime = w]
  <2>1. s \in QState /\ i \in Tasks
    BY <1>4, <1>a
  <2>2. /\ q \in QState /\ q.rq = s.rq
        /\ q.se[i].at = s.se[i].at /\ q.se[i].cpu = s.se[i].cpu
        /\ \A u \in Tasks : u # i => q.se[u] = s.se[u]
    BY <2>1, OneVruntime
  <2> HIDE DEF q
  <2>. HIDE DEF p
  <2>3. q.se[t].at = "new" /\ q.se[p].at = h.se[p].at /\ q.se[p].cpu = h.se[p].cpu
    <3>1. t \in Tasks /\ p \in Tasks /\ p # t
      BY <1>1, <1>4
    <3>2. /\ s.se[t].at = "new" /\ s.se[p].at = h.se[p].at /\ s.se[p].cpu = h.se[p].cpu
      BY <1>a
    <3>3. CASE i = t
      <4>1. q.se[p] = s.se[p]
        BY <2>2, <3>1, <3>3
      <4>. QED
        BY <2>2, <3>2, <3>3, <4>1
    <3>4. CASE i = p
      <4>1. q.se[t] = s.se[t]
        BY <2>2, <3>1, <3>4
      <4>. QED
        BY <2>2, <3>2, <3>4, <4>1
    <3>. QED
      BY <3>3, <3>4
  <2>4. \A u \in Tasks : u \notin {t, p} => q.se[u] = h.se[u]
    BY <1>a, <2>2
  <2>5. /\ q.rq.curr = h.rq.curr /\ q.rq.min_vruntime = h.rq.min_vruntime
        /\ q.rq.next = h.rq.next /\ q.rq.last = h.rq.last /\ q.rq.skip = h.rq.skip
    BY <1>a, <2>2
  <2>6. Same(q)
    BY <2>2, <2>3, <2>4, <2>5
  <2>. QED
    BY <2>6 DEF q
<1>7. v \in Int
  <2>1. Slice(copied, c, t) \in Int
    BY <1>6, SliceOf
  <2>2. DeltaFair(Slice(copied, c, t), t) \in Int
    BY <2>1, DeltaFairOf
  <2>3. copied.rq.min_vruntime \in Int /\ copied.se[t].vruntime \in Int
    BY <1>6 DEF QState, Rq, Entity
  <2>4. Plus(copied.rq.min_vruntime, DeltaFair(Slice(copied, c, t), t)) \in Int
    BY <2>2, <2>3, Wraps
  <2>. QED
    BY <2>3, <2>4, MaxVOf
<1> HIDE DEF v
<1>8. Same(placed)
  <2> HIDE DEF Same
  <2>. QED
    BY <1>6, <1>7, <1>a
<1> HIDE DEF placed
<1>9. a \in Int /\ b \in Int
  BY <1>4, <1>8 DEF QState, Entity
<1> HIDE DEF a, b
<1>10. Same(one)
  <2> HIDE DEF Same
  <2>. QED
    BY <1>8, <1>9, <1>a
<1> HIDE DEF one
<1>11. Same(two)
  <2> HIDE DEF Same
  <2>. QED
    BY <1>9, <1>10, <1>a
<1> HIDE DEF two
<1>12. Same(soon)
  <2>1. soon \in QState /\ soon.se = two.se /\ soon.rq = [two.rq EXCEPT !.resched = TRUE]
    BY <1>11 DEF QState, Rq
  <2> HIDE DEF soon
  <2>2. /\ soon.rq.curr = two.rq.curr /\ soon.rq.min_vruntime = two.rq.min_vruntime
        /\ soon.rq.next = two.rq.next /\ soon.rq.last = two.rq.last
        /\ soon.rq.skip = two.rq.skip
    BY <1>11, <2>1 DEF QState, Rq
  <2>. QED
    BY <1>11, <2>1, <2>2
<1> HIDE DEF soon
<1>13. Same(both)
  BY <1>8, <1>12
<1> HIDE DEF both
<1>14. back \in Int
  <2>1. both.se[t].vruntime \in Int
    BY <1>13 DEF QState, Entity
  <2>2. -rq[c].min_vruntime \in Int
    BY DEF FairInv, FairTypeOK, Rq
  <2>. QED
    BY <2>1, <2>2, Wraps
<1> HIDE DEF back
<1>15. Same(r)
  <2> HIDE DEF Same
  <2>. QED
    BY <1>13, <1>14, <1>a
<1> HIDE DEF r
<1>16. \A d \in CPUs : Queue(r, d) = Queue(h, d)
  BY <1>1, <1>3, <1>15 DEF Queue
<1>17. Legal(c, r) /\ Running(c, r)
  BY <1>3, <1>15, <1>16 DEF Legal, Running
<1>. QED
  BY <1>2, <1>17, BecomesSound

-----------------------------------------------------------------------------
(* The theorems *)

LEMMA InitFairInv == Init => FairInv
<1>. SUFFICES ASSUME Init
              PROVE  FairInv
  OBVIOUS
<1>1. PICK home \in [Tasks -> CPUs] :
        se = [t \in Tasks |-> [vruntime |-> W - 1, cpu |-> home[t], at |-> "sleeping",
                               normalized |-> FALSE]]
  BY DEF Init
<1>2. rq = [c \in CPUs |-> [min_vruntime |-> W - 1, curr |-> None, next |-> None, last |-> None,
                            skip |-> None, exec |-> 0, resched |-> FALSE]]
  BY DEF Init
<1>3. W - 1 \in Int
  BY Constants
<1>4. FairTypeOK
  BY <1>1, <1>2, <1>3 DEF FairTypeOK, Rq, Entity
<1>5. BuddiesQueued /\ CurrQueued
  BY <1>2 DEF BuddiesQueued, CurrQueued
<1>. QED
  BY <1>4, <1>5 DEF FairInv

LEMMA NextSound ==
  ASSUME FairInv, Next
  PROVE  Sound
<1>1. ASSUME NEW c \in CPUs, Schedule(c) \/ Tick(c) \/ Block(c) \/ Yield(c)
      PROVE  Sound
  BY <1>1, ScheduleSound, TickSound, BlockSound, YieldSound
<1>2. ASSUME NEW c \in CPUs, NEW t \in Tasks,
             YieldTo(c, t) \/ StartWakeup(t, c) \/ Attach(t, c) \/ WakeNew(t, c)
      PROVE  Sound
  BY <1>2, YieldToSound, StartWakeupSound, ArrivalSound
<1>3. ASSUME NEW c \in CPUs, NEW t \in Tasks, NEW first \in BOOLEAN, Fork(c, t, first)
      PROVE  Sound
  BY <1>3, ForkSound
<1>4. ASSUME NEW t \in Tasks, FinishWakeup(t) \/ Detach(t)
      PROVE  Sound
  BY <1>4, FinishWakeupSound, DetachSound
<1>5. ASSUME NEW t \in Tasks, NEW v \in 0 .. W - 1, Oversleep(t, v)
      PROVE  Sound
  BY <1>5, OversleepSound
<1>. QED
  BY <1>1, <1>2, <1>3, <1>4, <1>5 DEF Next

LEMMA FairInvariant == Spec => []FairInv
<1>1. FairInv /\ UNCHANGED fVars => FairInv'
  BY DEF fVars, FairInv, FairTypeOK, BuddiesQueued, CurrQueued, OnRq
<1>2. FairInv /\ [Next]_fVars => FairInv'
  BY <1>1, NextSound DEF Sound
<1>. QED
  BY InitFairInv, <1>2, PTL DEF Spec

\* pick_next_entity() never takes a buddy that slept or moved away, whatever was
\* set, swapped or migrated in between (fair.c:4666-4677, 4862-4872).
THEOREM BuddiesAreQueued == Spec => []BuddiesQueued
<1>1. FairInv => BuddiesQueued
  BY DEF FairInv
<1>. QED
  BY <1>1, FairInvariant, PTL

\* A task runs on one CPU at a time, the one whose queue it is on: migration takes only a
\* task that waits, and schedule() picks only what is queued (fair.c:4825-4882, 8107-8110).
OnOneCpu == \A c \in CPUs, d \in CPUs : rq[c].curr = rq[d].curr /\ rq[c].curr # None => c = d

THEOREM RunsOnOneCpu == Spec => []OnOneCpu
<1>1. FairInv => OnOneCpu
  BY DEF FairInv, CurrQueued, OnOneCpu, OnRq
<1>. QED
  BY <1>1, FairInvariant, PTL

\* No step takes a queue's min_vruntime back: the signed comparison keeps it when the
\* leftmost entity is earlier, even where vruntimes are so far apart that it is not an
\* order (fair.c:592-618).
THEOREM MinVruntimeIsForward == Spec => MinVruntimeForward
<1>1. FairInv /\ [Next]_fVars
        => [\A c \in CPUs : Diff(rq'[c].min_vruntime, rq[c].min_vruntime) >= 0]_fVars
  BY NextSound DEF Sound, Forward
<1>. QED
  BY <1>1, FairInvariant, PTL DEF Spec, MinVruntimeForward
=============================================================================
