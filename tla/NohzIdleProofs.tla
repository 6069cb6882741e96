---------------------------- MODULE NohzIdleProofs ----------------------------
(***************************************************************************)
(* The blocked load of a CPU without a tick is never forgotten, for every  *)
(* number of CPUs and any loads: what the comments around                  *)
(* nohz.has_blocked argue by pairing barriers (fair.c:11088-11110,         *)
(* 11040-11078).                                                           *)
(***************************************************************************)
EXTENDS NohzIdle, TLAPS

Runqueue == [load : Nat, has_blocked_load : BOOLEAN, tick_stopped : BOOLEAN, work : BOOLEAN,
             stats : BOOLEAN, newilb : BOOLEAN, softirq : BOOLEAN]

NohzStruct == [mask : SUBSET CPUs, nr_cpus : Int, nr_busy : Int, has_blocked : BOOLEAN,
               misc : SUBSET CPUs]

NohzTypeOK ==
  /\ nohz \in NohzStruct
  /\ rq \in [CPUs -> Runqueue]
  /\ pc \in [CPUs -> {"busy", "newidle", "idle", "mask", "flag", "tickless"}]
  /\ walk \in [CPUs -> [on : BOOLEAN, todo : SUBSET CPUs, blocked : BOOLEAN]]

\* Only housekeeping CPUs ever leave "busy", so every walk has those without a tick before it.
OnlyHousekeeping == \A c \in CPUs : pc[c] # "busy" => c \in Housekeeping

\* A CPU with its tick stopped is on the mask, where a walk finds it.
StoppedOnMask ==
  \A c \in CPUs : /\ rq[c].tick_stopped => c \in nohz.mask
                  /\ pc[c] \in {"flag", "tickless"} => rq[c].tick_stopped

\* Its own flag tells a walk of its load: without it the walk would pass by.
LoadIsFlagged ==
  \A c \in CPUs : pc[c] \in {"mask", "flag", "tickless"} /\ rq[c].load > 0
                    => rq[c].has_blocked_load

IdleInv == /\ NohzTypeOK /\ OnlyHousekeeping /\ StoppedOnMask /\ LoadIsFlagged
           /\ BlockedLoadRemembered

LEMMA InitIdleInv == Init => IdleInv
<1> SUFFICES ASSUME Init PROVE IdleInv
  OBVIOUS
<1>1. NohzTypeOK
  <2>1. nohz \in NohzStruct
    BY NohzAssumption DEF Init, NohzStruct, CPUs
  <2>. QED
    BY <2>1, NohzAssumption DEF Init, NohzTypeOK, Runqueue, NoWalk
<1>. QED
  BY <1>1 DEF Init, IdleInv, OnlyHousekeeping, StoppedOnMask, LoadIsFlagged,
     BlockedLoadRemembered, Tickless

-----------------------------------------------------------------------------
(* The operators on a runqueue *)

LEMMA LessOne ==
  ASSUME NEW n \in Nat
  PROVE  Max({n - 1, 0}) \in Nat
<1> DEFINE S == {n - 1, 0}
           IsMax(x) == x \in S /\ \A y \in S : x >= y
<1>1. \E x : IsMax(x)
  <2>1. CASE n = 0
    <3>. QED BY <2>1, IsMax(0)
  <2>2. CASE n > 0
    <3>. QED BY <2>2, IsMax(n - 1)
  <2>. QED
    BY <2>1, <2>2
<1>2. Max(S) = CHOOSE x : IsMax(x)
  BY DEF Max
<1>3. IsMax(Max(S))
  <2> HIDE DEF IsMax
  <2>. QED
    BY <1>1, <1>2
<1>. QED
  BY <1>3

\* What is set of a runqueue leaves the rest of it alone.
LEMMA StopTick ==
  ASSUME NEW r \in Runqueue, NEW x, x = [r EXCEPT !.tick_stopped = TRUE]
  PROVE  /\ x \in Runqueue
         /\ x.tick_stopped
         /\ x.load = r.load /\ x.has_blocked_load = r.has_blocked_load /\ x.work = r.work
<1>1. x \in Runqueue
  BY DEF Runqueue
<1>2. x.tick_stopped
  BY DEF Runqueue
<1>3. x.load = r.load /\ x.has_blocked_load = r.has_blocked_load /\ x.work = r.work
  BY DEF Runqueue
<1>. QED
  BY <1>1, <1>2, <1>3

LEMMA StartTick ==
  ASSUME NEW r \in Runqueue, NEW x, x = [r EXCEPT !.tick_stopped = FALSE]
  PROVE  /\ x \in Runqueue
         /\ ~x.tick_stopped
         /\ x.load = r.load /\ x.has_blocked_load = r.has_blocked_load /\ x.work = r.work
<1>1. x \in Runqueue
  BY DEF Runqueue
<1>2. ~x.tick_stopped
  BY DEF Runqueue
<1>3. x.load = r.load /\ x.has_blocked_load = r.has_blocked_load /\ x.work = r.work
  BY DEF Runqueue
<1>. QED
  BY <1>1, <1>2, <1>3

LEMMA SetFlagged ==
  ASSUME NEW r \in Runqueue, NEW x, x = [r EXCEPT !.has_blocked_load = TRUE]
  PROVE  x \in Runqueue /\ x.has_blocked_load /\ x.tick_stopped = r.tick_stopped
<1>1. x \in Runqueue
  BY DEF Runqueue
<1>2. x.has_blocked_load /\ x.tick_stopped = r.tick_stopped
  BY DEF Runqueue
<1>. QED
  BY <1>1, <1>2

LEMMA SetWork ==
  ASSUME NEW r \in Runqueue, NEW x, x = [r EXCEPT !.work = TRUE]
  PROVE  /\ x \in Runqueue
         /\ x.work
         /\ x.load = r.load /\ x.has_blocked_load = r.has_blocked_load
         /\ x.tick_stopped = r.tick_stopped
<1>1. x \in Runqueue
  BY DEF Runqueue
<1>2. x.work /\ x.tick_stopped = r.tick_stopped
  BY DEF Runqueue
<1>3. x.load = r.load /\ x.has_blocked_load = r.has_blocked_load
  BY DEF Runqueue
<1>. QED
  BY <1>1, <1>2, <1>3

\* The flags of a kick are not among what the invariant looks at.
LEMMA SetStats ==
  ASSUME NEW r \in Runqueue, NEW b \in BOOLEAN, NEW x, x = [r EXCEPT !.stats = b]
  PROVE  /\ x \in Runqueue
         /\ x.load = r.load /\ x.has_blocked_load = r.has_blocked_load
         /\ x.tick_stopped = r.tick_stopped /\ x.work = r.work
<1>1. x \in Runqueue
  BY DEF Runqueue
<1>2. x.load = r.load /\ x.has_blocked_load = r.has_blocked_load
  BY DEF Runqueue
<1>3. x.tick_stopped = r.tick_stopped /\ x.work = r.work
  BY DEF Runqueue
<1>. QED
  BY <1>1, <1>2, <1>3

LEMMA SetNewilb ==
  ASSUME NEW r \in Runqueue, NEW b \in BOOLEAN, NEW x, x = [r EXCEPT !.newilb = b]
  PROVE  /\ x \in Runqueue
         /\ x.load = r.load /\ x.has_blocked_load = r.has_blocked_load
         /\ x.tick_stopped = r.tick_stopped /\ x.work = r.work
<1>1. x \in Runqueue
  BY DEF Runqueue
<1>2. x.load = r.load /\ x.has_blocked_load = r.has_blocked_load
  BY DEF Runqueue
<1>3. x.tick_stopped = r.tick_stopped /\ x.work = r.work
  BY DEF Runqueue
<1>. QED
  BY <1>1, <1>2, <1>3

LEMMA SetSoftirq ==
  ASSUME NEW r \in Runqueue, NEW b \in BOOLEAN, NEW x, x = [r EXCEPT !.softirq = b]
  PROVE  /\ x \in Runqueue
         /\ x.load = r.load /\ x.has_blocked_load = r.has_blocked_load
         /\ x.tick_stopped = r.tick_stopped /\ x.work = r.work
<1>1. x \in Runqueue
  BY DEF Runqueue
<1>2. x.load = r.load /\ x.has_blocked_load = r.has_blocked_load
  BY DEF Runqueue
<1>3. x.tick_stopped = r.tick_stopped /\ x.work = r.work
  BY DEF Runqueue
<1>. QED
  BY <1>1, <1>2, <1>3

\* update_blocked_averages() changes the load and its flag only, and leaves a flagged
\* runqueue flagged exactly when load is left.
LEMMA UpdateBlockedOf ==
  ASSUME NEW r \in Runqueue
  PROVE  /\ UpdateBlocked(r) \in Runqueue
         /\ UpdateBlocked(r).tick_stopped = r.tick_stopped
         /\ UpdateBlocked(r).work = r.work
         /\ r.has_blocked_load =>
              (UpdateBlocked(r).has_blocked_load <=> UpdateBlocked(r).load > 0)
<1>1. Max({r.load - 1, 0}) \in Nat
  BY LessOne DEF Runqueue
<1>. QED
  BY <1>1 DEF UpdateBlocked, Runqueue

\* A kick sets a flag and nothing else.
LEMMA KickOf ==
  ASSUME NEW c, NEW f \in [CPUs -> Runqueue]
  PROVE  /\ Kick(c, f) \in [CPUs -> Runqueue]
         /\ \A i \in CPUs : /\ Kick(c, f)[i].load = f[i].load
                            /\ Kick(c, f)[i].has_blocked_load = f[i].has_blocked_load
                            /\ Kick(c, f)[i].tick_stopped = f[i].tick_stopped
                            /\ Kick(c, f)[i].work = f[i].work
<1> DEFINE k == Min(NewIlb(c))
           g == [f EXCEPT ![k].stats = TRUE]
<1>1. Kick(c, f) = f \/ Kick(c, f) = g
  BY DEF Kick
<1> HIDE DEF k
<1>2. ASSUME NEW i \in CPUs
      PROVE  /\ g[i] \in Runqueue
             /\ g[i].load = f[i].load
             /\ g[i].has_blocked_load = f[i].has_blocked_load
             /\ g[i].tick_stopped = f[i].tick_stopped
             /\ g[i].work = f[i].work
  <2>1. CASE i = k
    <3>1. g[i] = [f[i] EXCEPT !.stats = TRUE]
      BY <2>1
    <3>2. f[i] \in Runqueue /\ TRUE \in BOOLEAN
      OBVIOUS
    <3> HIDE DEF g
    <3>. QED
      BY <3>1, <3>2, SetStats
  <2>2. CASE i # k
    <3>1. g[i] = f[i]
      BY <2>2
    <3>. QED
      BY <3>1
  <2>. QED
    BY <2>1, <2>2
<1>3. g \in [CPUs -> Runqueue]
  BY <1>2
<1>. QED
  BY <1>1, <1>2, <1>3

-----------------------------------------------------------------------------
(* The steps *)

LEMMA TickIdleInv ==
  ASSUME IdleInv, NEW c \in CPUs, NEW kick \in BOOLEAN, Tick(c, kick)
  PROVE  IdleInv'
<1> DEFINE rqs == [rq EXCEPT ![c].tick_stopped = FALSE]
           r == [rq[c] EXCEPT !.tick_stopped = FALSE]
<1> USE DEF IdleInv
<1>a. rq \in [CPUs -> Runqueue] /\ rqs = [rq EXCEPT ![c] = r]
  BY DEF NohzTypeOK
<1>b. /\ r \in Runqueue /\ ~r.tick_stopped
      /\ r.load = rq[c].load /\ r.has_blocked_load = rq[c].has_blocked_load
      /\ r.work = rq[c].work
  <2>1. rq[c] \in Runqueue
    BY <1>a
  <2>. QED
    BY <2>1, StartTick
<1> HIDE DEF r, rqs
<1>1. rqs \in [CPUs -> Runqueue]
  BY <1>a, <1>b
<1>2. \A i \in CPUs : /\ rqs[i].load = rq[i].load
                      /\ rqs[i].has_blocked_load = rq[i].has_blocked_load
                      /\ rqs[i].work = rq[i].work
                      /\ rqs[i].tick_stopped => i # c /\ rq[i].tick_stopped
                      /\ i # c => rqs[i].tick_stopped = rq[i].tick_stopped
  BY <1>a, <1>b
<1>3. /\ rq' \in [CPUs -> Runqueue]
      /\ \A i \in CPUs : /\ rq'[i].load = rqs[i].load
                         /\ rq'[i].has_blocked_load = rqs[i].has_blocked_load
                         /\ rq'[i].tick_stopped = rqs[i].tick_stopped
                         /\ rq'[i].work = rqs[i].work
  <2>1. rq' = rqs \/ rq' = Kick(c, rqs)
    BY DEF Tick, rqs
  <2>. QED
    BY <1>1, <2>1, KickOf
<1>4. /\ nohz' \in NohzStruct
      /\ nohz'.has_blocked = nohz.has_blocked
      /\ \A i \in CPUs \ {c} : i \in nohz.mask => i \in nohz'.mask
  <2>1. nohz' = ExitIdle(c)
    BY DEF Tick
  <2>2. CASE rq[c].tick_stopped
    <3> DEFINE m == nohz.mask \ {c}
               n == nohz.nr_cpus - 1
               b == nohz.nr_busy + 1
    <3>1. nohz' = [nohz EXCEPT !.mask = m, !.nr_cpus = n, !.nr_busy = b]
      BY <2>1, <2>2 DEF ExitIdle
    <3>2. m \in SUBSET CPUs /\ n \in Int /\ b \in Int
      BY DEF NohzTypeOK, NohzStruct
    <3>3. \A i \in CPUs \ {c} : i \in nohz.mask => i \in m
      OBVIOUS
    <3> HIDE DEF m, n, b
    <3>. QED
      BY <3>1, <3>2, <3>3 DEF NohzTypeOK, NohzStruct
  <2>3. CASE ~rq[c].tick_stopped
    BY <2>1, <2>3 DEF ExitIdle, NohzTypeOK
  <2>. QED
    BY <2>2, <2>3
<1>5. pc' = pc /\ walk' = walk /\ pc[c] = "busy"
  BY DEF Tick
<1>6. NohzTypeOK' /\ OnlyHousekeeping'
  BY <1>3, <1>4, <1>5 DEF NohzTypeOK, OnlyHousekeeping
<1>7. StoppedOnMask'
  BY <1>2, <1>3, <1>4, <1>5 DEF StoppedOnMask
<1>8. LoadIsFlagged'
  BY <1>2, <1>3, <1>5 DEF LoadIsFlagged
<1>9. BlockedLoadRemembered'
  BY <1>2, <1>3, <1>4, <1>5 DEF BlockedLoadRemembered, Tickless
<1>. QED
  BY <1>6, <1>7, <1>8, <1>9

\* Steps that leave what a walk would find as it is.
LEMMA CsdIdleInv ==
  ASSUME IdleInv, NEW c \in CPUs, Csd(c)
  PROVE  IdleInv'
<1> USE DEF IdleInv
<1>1. /\ rq' \in [CPUs -> Runqueue]
      /\ \A i \in CPUs : /\ rq'[i].load = rq[i].load
                         /\ rq'[i].has_blocked_load = rq[i].has_blocked_load
                         /\ rq'[i].tick_stopped = rq[i].tick_stopped
                         /\ rq'[i].work = rq[i].work
  <2> DEFINE b == rq[c].softirq \/ Idle(c)
             r == [rq[c] EXCEPT !.stats = FALSE, !.newilb = FALSE, !.softirq = b]
  <2>1. b \in BOOLEAN
    OBVIOUS
  <2>2. rq' = [rq EXCEPT ![c] = r]
    BY Zenon DEF Csd
  <2> HIDE DEF b
  <2>3. rq[c] \in Runqueue
    BY DEF NohzTypeOK
  <2>4. /\ r \in Runqueue
        /\ r.load = rq[c].load /\ r.has_blocked_load = rq[c].has_blocked_load
        /\ r.tick_stopped = rq[c].tick_stopped /\ r.work = rq[c].work
    BY <2>1, <2>3 DEF Runqueue
  <2> HIDE DEF r
  <2>. QED
    BY <2>2, <2>4 DEF NohzTypeOK
<1>2. nohz' = nohz /\ pc' = pc /\ walk' = walk
  BY DEF Csd
<1>3. NohzTypeOK' /\ OnlyHousekeeping' /\ StoppedOnMask' /\ LoadIsFlagged'
  BY <1>1, <1>2 DEF NohzTypeOK, OnlyHousekeeping, StoppedOnMask, LoadIsFlagged
<1>4. BlockedLoadRemembered'
  BY <1>1, <1>2 DEF BlockedLoadRemembered, Tickless
<1>. QED
  BY <1>3, <1>4

\* A walk that starts forgets the flag and has every CPU without a tick before it.
LEMMA StartsRemembers ==
  ASSUME IdleInv, NEW c \in CPUs, Starts(c), NEW i \in CPUs, pc[i] # "busy"
  PROVE  walk'[c].on /\ i \in walk'[c].todo
BY DEF IdleInv, Starts, OnlyHousekeeping, NohzTypeOK

LEMMA SoftirqIdleInv ==
  ASSUME IdleInv, NEW c \in CPUs, Softirq(c)
  PROVE  IdleInv'
<1>1. /\ rq' \in [CPUs -> Runqueue]
      /\ \A i \in CPUs : /\ rq'[i].load = rq[i].load
                         /\ rq'[i].has_blocked_load = rq[i].has_blocked_load
                         /\ rq'[i].tick_stopped = rq[i].tick_stopped
                         /\ rq'[i].work = rq[i].work
  <2> DEFINE r == [rq[c] EXCEPT !.softirq = FALSE]
  <2>1. rq \in [CPUs -> Runqueue] /\ rq' = [rq EXCEPT ![c] = r]
    BY DEF IdleInv, Softirq, NohzTypeOK
  <2>2. rq[c] \in Runqueue /\ FALSE \in BOOLEAN
    BY <2>1
  <2>3. /\ r \in Runqueue
        /\ r.load = rq[c].load /\ r.has_blocked_load = rq[c].has_blocked_load
        /\ r.tick_stopped = rq[c].tick_stopped /\ r.work = rq[c].work
    BY <2>2, SetSoftirq
  <2> HIDE DEF r
  <2>. QED
    BY <2>1, <2>3
<1>2. pc' = pc /\ nohz'.mask = nohz.mask
  BY DEF IdleInv, Softirq, Starts, NohzTypeOK, NohzStruct
<1>3. NohzTypeOK'
  <2>1. Housekeeping \subseteq CPUs
    BY NohzAssumption DEF CPUs
  <2>2. CASE Starts(c)
    BY <1>1, <1>2, <2>1, <2>2 DEF IdleInv, Starts, NohzTypeOK, NohzStruct
  <2>3. CASE nohz' = nohz /\ walk' = walk
    BY <1>1, <1>2, <2>3 DEF IdleInv, NohzTypeOK
  <2>. QED
    BY <2>2, <2>3 DEF Softirq
<1>4. OnlyHousekeeping' /\ StoppedOnMask' /\ LoadIsFlagged'
  BY <1>1, <1>2 DEF IdleInv, OnlyHousekeeping, StoppedOnMask, LoadIsFlagged
<1>5. BlockedLoadRemembered'
  <2>1. CASE Starts(c)
    <3>1. \A i \in CPUs : Tickless(i) => walk'[c].on /\ i \in walk'[c].todo
      BY <2>1, StartsRemembers DEF Tickless
    <3>. QED
      BY <1>1, <1>2, <3>1 DEF BlockedLoadRemembered, Tickless
  <2>2. CASE nohz' = nohz /\ walk' = walk
    BY <1>1, <1>2, <2>2 DEF IdleInv, BlockedLoadRemembered, Tickless
  <2>. QED
    BY <2>1, <2>2 DEF Softirq
<1>. QED
  BY <1>3, <1>4, <1>5 DEF IdleInv

\* A CPU that is passed by is not without a tick, and one that is looked at shows its load.
LEMMA VisitIdleInv ==
  ASSUME IdleInv, NEW c \in CPUs, Visit(c)
  PROVE  IdleInv'
<1> DEFINE b == NextCpu(c)
           passes == walk' = [walk EXCEPT ![c].todo = walk[c].todo \ {b}]
<1> USE DEF IdleInv
<1>1. nohz' = nohz /\ pc' = pc
  BY DEF Visit
<1>2. CASE ~(b \in nohz.mask /\ Idle(b))
  <2>1. rq' = rq /\ passes
    BY <1>2 DEF Visit, Passed
  <2>2. b \in CPUs => ~Tickless(b)
    BY <1>2 DEF Tickless, StoppedOnMask, Idle
  <2> HIDE DEF b
  <2>3. /\ walk' \in [CPUs -> [on : BOOLEAN, todo : SUBSET CPUs, blocked : BOOLEAN]]
        /\ \A j \in CPUs : /\ walk'[j].on = walk[j].on /\ walk'[j].blocked = walk[j].blocked
                           /\ \A i \in walk[j].todo : i # b => i \in walk'[j].todo
    BY <2>1 DEF NohzTypeOK
  <2>4. BlockedLoadRemembered'
    BY <1>1, <2>1, <2>2, <2>3 DEF BlockedLoadRemembered, Tickless
  <2>. QED
    BY <1>1, <2>1, <2>3, <2>4
       DEF NohzTypeOK, OnlyHousekeeping, StoppedOnMask, LoadIsFlagged
<1>3. CASE b \in nohz.mask /\ Idle(b)
  <2> DEFINE new  == IF rq[b].has_blocked_load THEN UpdateBlocked(rq[b]) ELSE rq[b]
             seen == walk[c].blocked \/ new.has_blocked_load
  <2>1. b \in CPUs /\ rq[b] \in Runqueue
    BY <1>3 DEF NohzTypeOK, NohzStruct
  <2>2. /\ walk' = [walk EXCEPT ![c].todo = walk[c].todo \ {b}, ![c].blocked = seen]
        /\ rq' = [rq EXCEPT ![b] = new]
    BY <1>3, Zenon DEF Visit, Looks, Passed
  <2> HIDE DEF b
  <2>3. /\ new \in Runqueue
        /\ new.tick_stopped = rq[b].tick_stopped /\ new.work = rq[b].work
        /\ rq[b].has_blocked_load => (new.has_blocked_load <=> new.load > 0)
        /\ ~rq[b].has_blocked_load => new = rq[b]
    BY <2>1, UpdateBlockedOf
  <2> HIDE DEF new
  <2>4. seen \in BOOLEAN /\ (walk[c].blocked \/ new.has_blocked_load => seen)
    OBVIOUS
  <2> HIDE DEF seen
  <2>5. /\ rq' \in [CPUs -> Runqueue] /\ rq'[b] = new
        /\ \A i \in CPUs : i # b => rq'[i] = rq[i]
    BY <2>1, <2>2, <2>3 DEF NohzTypeOK
  <2>6. /\ walk' \in [CPUs -> [on : BOOLEAN, todo : SUBSET CPUs, blocked : BOOLEAN]]
        /\ \A j \in CPUs : /\ walk'[j].on = walk[j].on
                           /\ walk[j].blocked => walk'[j].blocked
                           /\ \A i \in walk[j].todo : i # b => i \in walk'[j].todo
        /\ new.has_blocked_load => walk'[c].blocked
    <3> DEFINE w == [walk[c] EXCEPT !.todo = walk[c].todo \ {b}, !.blocked = seen]
    <3>1. walk' = [walk EXCEPT ![c] = w]
      BY <2>2, Zenon
    <3>2. walk[c] \in [on : BOOLEAN, todo : SUBSET CPUs, blocked : BOOLEAN]
      BY DEF NohzTypeOK
    <3>3. /\ w \in [on : BOOLEAN, todo : SUBSET CPUs, blocked : BOOLEAN]
          /\ w.on = walk[c].on /\ w.blocked = seen /\ w.todo = walk[c].todo \ {b}
      BY <3>2, <2>4
    <3> HIDE DEF w
    <3>. QED
      BY <3>1, <3>3, <2>4 DEF NohzTypeOK
  <2>7. NohzTypeOK' /\ OnlyHousekeeping'
    BY <1>1, <2>5, <2>6 DEF NohzTypeOK, OnlyHousekeeping
  <2>8. StoppedOnMask'
    BY <1>1, <2>1, <2>3, <2>5 DEF StoppedOnMask
  <2>9. LoadIsFlagged'
    BY <1>1, <2>1, <2>3, <2>5 DEF LoadIsFlagged
  <2>10. ASSUME NEW i \in CPUs, Tickless(i)', rq'[i].load > 0
         PROVE  \/ nohz.has_blocked
                \/ \E j \in CPUs : walk'[j].on /\ (i \in walk'[j].todo \/ walk'[j].blocked)
    <3>1. CASE i = b
      <4>1. rq[b].has_blocked_load
        BY <1>1, <2>3, <2>5, <2>10, <3>1 DEF Tickless, LoadIsFlagged
      <4>. QED
        BY <2>3, <2>5, <2>6, <2>10, <3>1, <4>1 DEF Visit
    <3>2. CASE i # b
      <4>1. Tickless(i) /\ rq[i].load > 0
        BY <1>1, <2>5, <2>10, <3>2 DEF Tickless
      <4>. QED
        BY <2>6, <3>2, <4>1 DEF BlockedLoadRemembered
    <3>. QED
      BY <3>1, <3>2
  <2>11. BlockedLoadRemembered'
    BY <1>1, <2>10 DEF BlockedLoadRemembered
  <2>. QED
    BY <2>7, <2>8, <2>9, <2>11
<1>. QED
  BY <1>2, <1>3

\* Both ends of a walk leave the flag set if the walk knows of load.
LEMMA WalkEndIdleInv ==
  ASSUME IdleInv, NEW c \in CPUs, Abort(c) \/ Finish(c)
  PROVE  IdleInv'
<1> DEFINE flag == Abort(c) \/ nohz.has_blocked \/ walk[c].blocked
<1>1. /\ nohz' = [nohz EXCEPT !.has_blocked = flag]
      /\ walk' = [walk EXCEPT ![c] = NoWalk] /\ rq' = rq /\ pc' = pc
  <2>1. CASE Abort(c)
    <3>1. [nohz EXCEPT !.has_blocked = TRUE] = [nohz EXCEPT !.has_blocked = flag]
      BY <2>1, Zenon
    <3> HIDE DEF flag
    <3>. QED
      BY <2>1, <3>1, Zenon DEF Abort
  <2>2. CASE ~Abort(c) /\ Finish(c)
    <3>1. flag = (nohz.has_blocked \/ walk[c].blocked)
      BY <2>2
    <3> HIDE DEF flag
    <3>. QED
      BY <2>2, <3>1, Zenon DEF Finish
  <2>. QED
    BY <2>1, <2>2
<1>2. flag \in BOOLEAN
  OBVIOUS
<1>3. NohzTypeOK'
  BY <1>1, <1>2 DEF IdleInv, NohzTypeOK, NohzStruct, NoWalk
<1>4. OnlyHousekeeping' /\ StoppedOnMask' /\ LoadIsFlagged'
  BY <1>1 DEF IdleInv, NohzTypeOK, OnlyHousekeeping, StoppedOnMask, LoadIsFlagged
<1>5. BlockedLoadRemembered'
  <2>1. CASE flag
    BY <1>1, <2>1 DEF IdleInv, NohzTypeOK, NohzStruct, BlockedLoadRemembered
  <2>2. CASE ~flag
    <3>1. walk[c].todo = {} /\ ~walk[c].blocked /\ ~nohz.has_blocked
      BY <2>2 DEF Finish
    <3>2. \A j \in CPUs : j # c => walk'[j] = walk[j]
      BY <1>1 DEF IdleInv, NohzTypeOK
    <3>3. nohz'.has_blocked = nohz.has_blocked
      BY <1>1, <2>2 DEF IdleInv, NohzTypeOK, NohzStruct
    <3>. QED
      BY <1>1, <3>1, <3>2, <3>3 DEF IdleInv, BlockedLoadRemembered, Tickless
  <2>. QED
    BY <2>1, <2>2
<1>. QED
  BY <1>3, <1>4, <1>5 DEF IdleInv

\* The other steps of a CPU change its own runqueue.
LEMMA OneRunqueue ==
  ASSUME NohzTypeOK, NEW c \in CPUs, NEW r \in Runqueue, rq' = [rq EXCEPT ![c] = r]
  PROVE  /\ rq' \in [CPUs -> Runqueue] /\ rq'[c] = r
         /\ \A i \in CPUs : i # c => rq'[i] = rq[i]
BY DEF NohzTypeOK

LEMMA GoIdleIdleInv ==
  ASSUME IdleInv, NEW c \in CPUs, NEW due \in BOOLEAN, GoIdle(c, due)
  PROVE  IdleInv'
<1> DEFINE ilb == rq[c].newilb \/ due
           r   == [rq[c] EXCEPT !.work = FALSE, !.newilb = ilb, !.load = MaxLoad[c]]
<1> USE DEF IdleInv
<1>1. /\ pc[c] = "busy" /\ pc' = [pc EXCEPT ![c] = "newidle"] /\ c \in Housekeeping
      /\ nohz' = nohz /\ walk' = walk
  BY DEF GoIdle
<1>2. rq' = [rq EXCEPT ![c] = r]
  BY Zenon DEF GoIdle
<1>3. MaxLoad[c] \in Nat /\ rq[c] \in Runqueue /\ ilb \in BOOLEAN
  BY <1>1, NohzAssumption DEF NohzTypeOK
<1> HIDE DEF ilb
<1>4. r \in Runqueue /\ r.tick_stopped = rq[c].tick_stopped
  BY <1>3 DEF Runqueue
<1> HIDE DEF r
<1>5. /\ rq' \in [CPUs -> Runqueue] /\ rq'[c] = r
      /\ \A i \in CPUs : i # c => rq'[i] = rq[i]
  BY <1>2, <1>4, OneRunqueue
<1>6. NohzTypeOK'
  BY <1>1, <1>5 DEF NohzTypeOK
<1>7. /\ pc'[c] = "newidle"
      /\ \A i \in CPUs : i # c => pc'[i] = pc[i]
  BY <1>1 DEF NohzTypeOK
<1>8. OnlyHousekeeping'
  BY <1>1, <1>7 DEF OnlyHousekeeping
<1>9. StoppedOnMask'
  BY <1>1, <1>4, <1>5, <1>7 DEF StoppedOnMask
<1>10. LoadIsFlagged'
  BY <1>5, <1>7 DEF LoadIsFlagged
<1>11. BlockedLoadRemembered'
  BY <1>1, <1>5, <1>7 DEF BlockedLoadRemembered, Tickless
<1>. QED
  BY <1>6, <1>8, <1>9, <1>10, <1>11

LEMMA RunIdleBalanceIdleInv ==
  ASSUME IdleInv, NEW c \in CPUs, RunIdleBalance(c)
  PROVE  IdleInv'
<1> DEFINE r == [rq[c] EXCEPT !.newilb = FALSE]
<1>1. /\ pc[c] = "newidle" /\ pc' = [pc EXCEPT ![c] = "idle"]
      /\ rq' = [rq EXCEPT ![c] = r]
      /\ Starts(c) \/ (nohz' = nohz /\ walk' = walk)
  BY DEF RunIdleBalance
<1>2. /\ r \in Runqueue /\ r.tick_stopped = rq[c].tick_stopped
  <2>1. rq[c] \in Runqueue /\ FALSE \in BOOLEAN
    BY DEF IdleInv, NohzTypeOK
  <2>. QED
    BY <2>1, SetNewilb
<1> HIDE DEF r
<1>3. /\ rq' \in [CPUs -> Runqueue] /\ rq'[c] = r
      /\ \A i \in CPUs : i # c => rq'[i] = rq[i]
  BY <1>1, <1>2, OneRunqueue DEF IdleInv
<1>4. /\ pc' \in [CPUs -> {"busy", "newidle", "idle", "mask", "flag", "tickless"}]
      /\ pc'[c] = "idle"
      /\ \A i \in CPUs : i # c => pc'[i] = pc[i]
  BY <1>1 DEF IdleInv, NohzTypeOK
<1>5. NohzTypeOK' /\ nohz'.mask = nohz.mask
  <2>1. Housekeeping \subseteq CPUs
    BY NohzAssumption DEF CPUs
  <2>2. CASE Starts(c)
    BY <1>3, <1>4, <2>1, <2>2 DEF IdleInv, Starts, NohzTypeOK, NohzStruct
  <2>3. CASE nohz' = nohz /\ walk' = walk
    BY <1>3, <1>4, <2>3 DEF IdleInv, NohzTypeOK
  <2>. QED
    BY <1>1, <2>2, <2>3
<1>6. OnlyHousekeeping'
  BY <1>1, <1>4 DEF IdleInv, OnlyHousekeeping
<1>7. StoppedOnMask'
  BY <1>2, <1>3, <1>4, <1>5 DEF IdleInv, StoppedOnMask
<1>8. LoadIsFlagged'
  BY <1>3, <1>4 DEF IdleInv, LoadIsFlagged
<1>9. BlockedLoadRemembered'
  <2>1. \A i \in CPUs : Tickless(i)' => i # c /\ Tickless(i) /\ rq'[i].load = rq[i].load
    BY <1>3, <1>4 DEF Tickless
  <2>2. CASE Starts(c)
    <3>1. \A i \in CPUs : Tickless(i) => walk'[c].on /\ i \in walk'[c].todo
      BY <2>2, StartsRemembers DEF Tickless
    <3>. QED
      BY <2>1, <3>1 DEF BlockedLoadRemembered
  <2>3. CASE nohz' = nohz /\ walk' = walk
    BY <2>1, <2>3 DEF IdleInv, BlockedLoadRemembered
  <2>. QED
    BY <1>1, <2>2, <2>3
<1>. QED
  BY <1>5, <1>6, <1>7, <1>8, <1>9 DEF IdleInv

\* Steps of a CPU's idle loop before it is without a tick, or as it stops being so: pc and rq
\* change for c alone, which is not tickless afterwards.
LEMMA NotTicklessIdleInv ==
  ASSUME IdleInv, NEW c \in CPUs, NEW r \in Runqueue,
         NEW p \in {"busy", "newidle", "idle", "mask", "flag", "tickless"},
         rq' = [rq EXCEPT ![c] = r], pc' = [pc EXCEPT ![c] = p],
         nohz' = nohz, walk' = walk,
         p # "busy" => c \in Housekeeping,
         r.tick_stopped => rq[c].tick_stopped,
         p \in {"flag", "tickless"} => r.tick_stopped,
         p \in {"mask", "flag", "tickless"} /\ r.load > 0 => r.has_blocked_load,
         p = "tickless" => r.work \/ (Tickless(c) /\ r.load = rq[c].load)
  PROVE  IdleInv'
<1> USE DEF IdleInv
<1>1. /\ rq' \in [CPUs -> Runqueue] /\ rq'[c] = r
      /\ \A i \in CPUs : i # c => rq'[i] = rq[i]
  BY OneRunqueue
<1>2. /\ pc'[c] = p
      /\ \A i \in CPUs : i # c => pc'[i] = pc[i]
  BY DEF NohzTypeOK
<1>3. NohzTypeOK' /\ OnlyHousekeeping'
  BY <1>1, <1>2 DEF NohzTypeOK, OnlyHousekeeping
<1>4. StoppedOnMask'
  BY <1>1, <1>2 DEF StoppedOnMask
<1>5. LoadIsFlagged'
  BY <1>1, <1>2 DEF LoadIsFlagged
<1>6. \A i \in CPUs : Tickless(i)' => Tickless(i) /\ rq'[i].load = rq[i].load
  BY <1>1, <1>2 DEF Tickless
<1>7. BlockedLoadRemembered'
  BY <1>6 DEF BlockedLoadRemembered
<1>. QED
  BY <1>3, <1>4, <1>5, <1>7

LEMMA EnterIdleIdleInv ==
  ASSUME IdleInv, NEW c \in CPUs, EnterIdle(c)
  PROVE  IdleInv'
<1> DEFINE r == [rq[c] EXCEPT !.has_blocked_load = TRUE]
           p == IF rq[c].tick_stopped THEN "flag" ELSE "mask"
<1>1. /\ pc[c] = "idle" /\ pc' = [pc EXCEPT ![c] = p] /\ rq' = [rq EXCEPT ![c] = r]
      /\ nohz' = nohz /\ walk' = walk
  BY DEF EnterIdle
<1>2. r \in Runqueue /\ r.tick_stopped = rq[c].tick_stopped /\ r.has_blocked_load
  <2>1. rq[c] \in Runqueue
    BY DEF IdleInv, NohzTypeOK
  <2>. QED
    BY <2>1, SetFlagged
<1>3. /\ p \in {"busy", "newidle", "idle", "mask", "flag", "tickless"}
      /\ p \in {"flag", "tickless"} => rq[c].tick_stopped
      /\ p # "tickless"
  OBVIOUS
<1>4. c \in Housekeeping
  BY <1>1 DEF IdleInv, OnlyHousekeeping
<1> HIDE DEF r, p
<1>. QED
  BY <1>1, <1>2, <1>3, <1>4, NotTicklessIdleInv

LEMMA WakeIdleInv ==
  ASSUME IdleInv, NEW c \in CPUs, Wake(c)
  PROVE  IdleInv'
<1> DEFINE r == [rq[c] EXCEPT !.work = TRUE]
<1>1. /\ pc[c] # "busy" /\ rq' = [rq EXCEPT ![c] = r] /\ pc' = [pc EXCEPT ![c] = pc[c]]
      /\ nohz' = nohz /\ walk' = walk
  BY DEF Wake, Idle, IdleInv, NohzTypeOK
<1>2. /\ r \in Runqueue /\ r.tick_stopped = rq[c].tick_stopped /\ r.work
      /\ r.load = rq[c].load /\ r.has_blocked_load = rq[c].has_blocked_load
  <2>1. rq[c] \in Runqueue
    BY DEF IdleInv, NohzTypeOK
  <2>. QED
    BY <2>1, SetWork
<1>3. /\ pc[c] \in {"busy", "newidle", "idle", "mask", "flag", "tickless"}
      /\ c \in Housekeeping
      /\ pc[c] \in {"flag", "tickless"} => r.tick_stopped
      /\ pc[c] \in {"mask", "flag", "tickless"} /\ r.load > 0 => r.has_blocked_load
  BY <1>1, <1>2 DEF IdleInv, NohzTypeOK, OnlyHousekeeping, StoppedOnMask, LoadIsFlagged
<1> HIDE DEF r
<1>. QED
  BY <1>1, <1>2, <1>3, NotTicklessIdleInv

LEMMA LeaveIdleIdleInv ==
  ASSUME IdleInv, NEW c \in CPUs, LeaveIdle(c)
  PROVE  IdleInv'
<1> DEFINE r == [rq[c] EXCEPT !.load = 0]
<1>1. /\ rq' = [rq EXCEPT ![c] = r] /\ pc' = [pc EXCEPT ![c] = "busy"]
      /\ nohz' = nohz /\ walk' = walk
  BY DEF LeaveIdle
<1>2. r \in Runqueue /\ r.tick_stopped = rq[c].tick_stopped
  BY DEF IdleInv, NohzTypeOK, Runqueue
<1> HIDE DEF r
<1>. QED
  BY <1>1, <1>2, NotTicklessIdleInv

LEMMA IdleTickIdleInv ==
  ASSUME IdleInv, NEW c \in CPUs, IdleTick(c)
  PROVE  IdleInv'
<1> DEFINE r == UpdateBlocked(rq[c])
<1>1. /\ pc[c] = "idle" /\ rq' = [rq EXCEPT ![c] = r] /\ pc' = [pc EXCEPT ![c] = "idle"]
      /\ nohz' = nohz /\ walk' = walk
  BY DEF IdleTick, IdleInv, NohzTypeOK
<1>2. r \in Runqueue /\ r.tick_stopped = rq[c].tick_stopped
  BY UpdateBlockedOf DEF IdleInv, NohzTypeOK
<1>3. c \in Housekeeping
  BY <1>1 DEF IdleInv, OnlyHousekeeping
<1> HIDE DEF r
<1>. QED
  BY <1>1, <1>2, <1>3, NotTicklessIdleInv

\* The CPU is on the mask before it is without a tick, ...
LEMMA SetMaskIdleInv ==
  ASSUME IdleInv, NEW c \in CPUs, SetMask(c)
  PROVE  IdleInv'
<1> DEFINE r == [rq[c] EXCEPT !.tick_stopped = TRUE]
<1> USE DEF IdleInv
<1>1. /\ pc[c] = "mask" /\ rq' = [rq EXCEPT ![c] = r] /\ pc' = [pc EXCEPT ![c] = "flag"]
      /\ nohz' = [nohz EXCEPT !.mask = nohz.mask \cup {c}, !.nr_cpus = nohz.nr_cpus + 1,
                              !.nr_busy = nohz.nr_busy - 1]
      /\ walk' = walk
  BY Zenon DEF SetMask
<1>2. /\ r \in Runqueue /\ r.load = rq[c].load /\ r.has_blocked_load = rq[c].has_blocked_load
  <2>1. rq[c] \in Runqueue
    BY DEF IdleInv, NohzTypeOK
  <2>. QED
    BY <2>1, StopTick
<1> HIDE DEF r
<1>3. /\ rq' \in [CPUs -> Runqueue] /\ rq'[c] = r
      /\ \A i \in CPUs : i # c => rq'[i] = rq[i]
  BY <1>1, <1>2, OneRunqueue
<1>4. /\ pc' \in [CPUs -> {"busy", "newidle", "idle", "mask", "flag", "tickless"}]
      /\ pc'[c] = "flag"
      /\ \A i \in CPUs : i # c => pc'[i] = pc[i]
  BY <1>1 DEF NohzTypeOK
<1>5. /\ nohz' \in NohzStruct
      /\ nohz'.mask = nohz.mask \cup {c} /\ nohz'.has_blocked = nohz.has_blocked
  <2> DEFINE m == nohz.mask \cup {c}
             n == nohz.nr_cpus + 1
             b == nohz.nr_busy - 1
  <2>1. nohz' = [nohz EXCEPT !.mask = m, !.nr_cpus = n, !.nr_busy = b]
    BY <1>1
  <2>2. m \in SUBSET CPUs /\ n \in Int /\ b \in Int
    BY DEF NohzTypeOK, NohzStruct
  <2> HIDE DEF m, n, b
  <2>3. /\ nohz' \in NohzStruct
        /\ nohz'.mask = m /\ nohz'.has_blocked = nohz.has_blocked
    BY <2>1, <2>2 DEF NohzTypeOK, NohzStruct
  <2>. QED
    BY <2>3 DEF m
<1>6. NohzTypeOK' /\ OnlyHousekeeping'
  BY <1>1, <1>3, <1>4, <1>5 DEF NohzTypeOK, OnlyHousekeeping
<1>7. StoppedOnMask'
  <2>1. rq'[c].tick_stopped
    BY <1>3 DEF r, NohzTypeOK, Runqueue
  <2>. QED
    BY <1>3, <1>4, <1>5, <2>1 DEF StoppedOnMask
<1>8. LoadIsFlagged'
  BY <1>1, <1>2, <1>3, <1>4 DEF LoadIsFlagged
<1>9. BlockedLoadRemembered'
  BY <1>1, <1>3, <1>4, <1>5 DEF BlockedLoadRemembered, Tickless
<1>. QED
  BY <1>6, <1>7, <1>8, <1>9

\* ... and the flag is set as it is.
LEMMA SetHasBlockedIdleInv ==
  ASSUME IdleInv, NEW c \in CPUs, SetHasBlocked(c)
  PROVE  IdleInv'
<1>1. /\ pc[c] = "flag" /\ pc' = [pc EXCEPT ![c] = "tickless"]
      /\ nohz' = [nohz EXCEPT !.has_blocked = TRUE] /\ rq' = rq /\ walk' = walk
  BY DEF SetHasBlocked
<1>2. NohzTypeOK' /\ nohz'.mask = nohz.mask /\ nohz'.has_blocked
  BY <1>1 DEF IdleInv, NohzTypeOK, NohzStruct
<1>3. OnlyHousekeeping' /\ StoppedOnMask' /\ LoadIsFlagged'
  BY <1>1, <1>2 DEF IdleInv, NohzTypeOK, OnlyHousekeeping, StoppedOnMask, LoadIsFlagged
<1>. QED
  BY <1>2, <1>3 DEF IdleInv, BlockedLoadRemembered

-----------------------------------------------------------------------------

LEMMA NextIdleInv == IdleInv /\ [Next]_nVars => IdleInv'
<1> SUFFICES ASSUME IdleInv, [Next]_nVars PROVE IdleInv'
  OBVIOUS
<1>1. CASE UNCHANGED nVars
  <2>1. nohz' = nohz /\ rq' = rq /\ pc' = pc /\ walk' = walk
    BY <1>1 DEF nVars
  <2>2. NohzTypeOK' /\ OnlyHousekeeping' /\ StoppedOnMask' /\ LoadIsFlagged'
    BY <2>1 DEF IdleInv, NohzTypeOK, OnlyHousekeeping, StoppedOnMask, LoadIsFlagged
  <2>3. BlockedLoadRemembered'
    BY <2>1 DEF IdleInv, BlockedLoadRemembered, Tickless
  <2>. QED
    BY <2>2, <2>3 DEF IdleInv
<1>2. ASSUME NEW c \in CPUs, NEW kick \in BOOLEAN, Tick(c, kick) PROVE IdleInv'
  BY <1>2, TickIdleInv
<1>3. ASSUME NEW c \in CPUs, Csd(c) PROVE IdleInv'
  BY <1>3, CsdIdleInv
<1>4. ASSUME NEW c \in CPUs, Softirq(c) PROVE IdleInv'
  BY <1>4, SoftirqIdleInv
<1>5. ASSUME NEW c \in CPUs, WalkStep(c) PROVE IdleInv'
  BY <1>5, VisitIdleInv, WalkEndIdleInv DEF WalkStep
<1>6. ASSUME NEW c \in CPUs, IdleStep(c) PROVE IdleInv'
  BY <1>6, RunIdleBalanceIdleInv, SetMaskIdleInv, SetHasBlockedIdleInv, LeaveIdleIdleInv
     DEF IdleStep
<1>7. ASSUME NEW c \in CPUs, NEW due \in BOOLEAN, GoIdle(c, due) PROVE IdleInv'
  BY <1>7, GoIdleIdleInv
<1>8. ASSUME NEW c \in CPUs, EnterIdle(c) \/ IdleTick(c) \/ Wake(c) PROVE IdleInv'
  BY <1>8, EnterIdleIdleInv, IdleTickIdleInv, WakeIdleInv
<1>. QED
  BY <1>1, <1>2, <1>3, <1>4, <1>5, <1>6, <1>7, <1>8 DEF Next

\* Blocked load of a CPU without a tick is never forgotten by nohz.has_blocked and all walks
\* over the mask at once (fair.c:11088-11190), for any number of CPUs.
THEOREM BlockedLoadIsRemembered == Spec => []BlockedLoadRemembered
<1>1. Spec => []IdleInv
  BY InitIdleInv, NextIdleInv, PTL DEF Spec
<1>2. IdleInv => BlockedLoadRemembered
  BY DEF IdleInv
<1>. QED
  BY <1>1, <1>2, PTL
=============================================================================
