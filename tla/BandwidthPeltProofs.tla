------------------------ MODULE BandwidthPeltProofs ------------------------
(***************************************************************************)
(* Bandwidth control, for any number of CPUs, any quota, burst and slice,  *)
(* and any interleaving of the CPUs with the two timer callbacks: the      *)
(* throttled list is right, and runtime is conserved.                      *)
(*                                                                         *)
(* Load tracking, for any number of tasks, any lengths of a period and any *)
(* times between updates: a sum is never too small for its average, and    *)
(* the group never misses a change of load that is not small.              *)
(***************************************************************************)
EXTENDS CfsBandwidth, Pelt, SumProofs, FiniteSetTheorems, TLAPS

-----------------------------------------------------------------------------
(* Bandwidth control *)

Pool == [runtime : Nat, quota : Nat, burst : Nat, scale : Nat, idle : {0, 1},
         period_active : {0, 1}, slack_started : BOOLEAN, elsewhere : Nat]

CfsRq == [remaining : Int, enabled : BOOLEAN, throttled : BOOLEAN, curr : BOOLEAN, nr : Int]

\* What the operators of the pool work on
Pair == [pool : Pool, rq : CfsRq]

Callback == [at : {"off", "walk", "visit", "advance", "relock", "held"}, count : Nat,
             idle : BOOLEAN]

BandwidthTypeOK ==
  /\ pool \in Pool
  /\ rq \in [CPUs -> CfsRq]
  /\ throttled_cfs_rq \in Seq(CPUs)
  /\ stale_next \in [CPUs -> CPUs \cup {ListHead}]
  /\ cb \in [Timers -> Callback]
  /\ cursor \in [Timers -> CPUs \cup {ListHead}]

\* A walk that is not at its end is at a CPU, and no pass is counted outside a callback.
WalksOnCPUs ==
  /\ \A t \in Timers : cb[t].at \in {"visit", "advance"} => cursor[t] \in CPUs
  /\ cb["period"].at = "off" => cb["period"].count = 0

InDebt == \A c \in CPUs : rq[c].throttled => rq[c].remaining <= 0 /\ rq[c].enabled /\ ~rq[c].curr

BandwidthInv == /\ BandwidthTypeOK /\ WalksOnCPUs /\ InDebt
                /\ Lists(throttled_cfs_rq, {c \in CPUs : rq[c].throttled})

-----------------------------------------------------------------------------
(* The operators of the pool *)

\* The runtime of a pair, and what of a runqueue only Throttle and the tasks change.
Held(s) == s.pool.runtime + s.pool.elsewhere + s.rq.remaining

SameFlags(r, s) == /\ r.rq.enabled = s.rq.enabled /\ r.rq.throttled = s.rq.throttled
                   /\ r.rq.curr = s.rq.curr

LEMMA StartPeriodOf ==
  ASSUME NEW p \in Pool
  PROVE  /\ StartPeriod(p) \in Pool
         /\ StartPeriod(p).runtime = p.runtime /\ StartPeriod(p).elsewhere = p.elsewhere
BY DEF StartPeriod, Pool

\* __assign_cfs_rq_runtime() moves runtime.
LEMMA AssignOf ==
  ASSUME NEW s \in Pair, NEW target \in Int
  PROVE  /\ Assign(s, target) \in Pair
         /\ Held(Assign(s, target)) = Held(s)
         /\ SameFlags(Assign(s, target), s)
<1> DEFINE p == StartPeriod(s.pool)
           amount == Min({p.runtime, target - s.rq.remaining})
<1>1. /\ p \in Pool /\ p.runtime = s.pool.runtime /\ p.elsewhere = s.pool.elsewhere
      /\ s.rq \in CfsRq /\ s.pool \in Pool
  BY StartPeriodOf DEF Pair
<1> HIDE DEF p
<1>2. CASE p.runtime > 0
  <2>1. amount \in Int /\ amount <= p.runtime
    <3>1. p.runtime \in Int /\ target - s.rq.remaining \in Int
      BY <1>1 DEF Pool, CfsRq
    <3>. QED
      BY <3>1, MinOfTwo
  <2> HIDE DEF amount
  <2> DEFINE v == [p EXCEPT !.runtime = p.runtime - amount, !.idle = 0]
             r == [s.rq EXCEPT !.remaining = s.rq.remaining + amount]
  <2>2. Assign(s, target) = [pool |-> v, rq |-> r]
    BY <1>2, Zenon DEF Assign, p, amount
  <2>3. p.runtime - amount \in Nat /\ s.rq.remaining + amount \in Int
    BY <1>1, <2>1 DEF Pool, CfsRq
  <2>4. v \in Pool /\ v.runtime = p.runtime - amount /\ v.elsewhere = p.elsewhere
    BY <1>1, <2>3 DEF Pool
  <2>5. /\ r \in CfsRq /\ r.remaining = s.rq.remaining + amount
        /\ r.enabled = s.rq.enabled /\ r.throttled = s.rq.throttled /\ r.curr = s.rq.curr
    BY <1>1, <2>3 DEF CfsRq
  <2> HIDE DEF v, r
  <2>6. v.runtime + v.elsewhere + r.remaining = Held(s)
    BY <1>1, <2>1, <2>4, <2>5 DEF Held, Pool, CfsRq
  <2>. QED
    BY <2>2, <2>4, <2>5, <2>6 DEF Pair, Held, SameFlags
<1>3. CASE ~(p.runtime > 0)
  <2>1. Assign(s, target) = [s EXCEPT !.pool = p]
    BY <1>3 DEF Assign, p
  <2>. QED
    BY <1>1, <2>1 DEF Pair, Held, SameFlags
<1>. QED
  BY <1>2, <1>3

\* account_cfs_rq_runtime() takes what ran, and no more.
LEMMA AccountOf ==
  ASSUME NEW s \in Pair, NEW delta \in Nat
  PROVE  /\ Account(s, delta) \in Pair
         /\ Held(Account(s, delta)) <= Held(s)
         /\ delta = 0 => Held(Account(s, delta)) = Held(s)
         /\ SameFlags(Account(s, delta), s)
         /\ s.rq.throttled => Account(s, delta).rq.remaining <= s.rq.remaining
<1> DEFINE left   == s.rq.remaining - delta
           docked == [s EXCEPT !.rq.remaining = left]
<1>1. s.rq \in CfsRq /\ s.pool \in Pool
  BY DEF Pair
<1>2. left \in Int /\ left <= s.rq.remaining /\ (delta = 0 => left = s.rq.remaining)
  BY <1>1 DEF CfsRq
<1>3. Account(s, delta) = IF ~s.rq.enabled THEN s
                          ELSE IF docked.rq.remaining > 0 \/ s.rq.throttled THEN docked
                          ELSE Assign(docked, Slice)
  BY DEF Account
<1>4. /\ docked \in Pair /\ docked.pool = s.pool /\ docked.rq.remaining = left
      /\ SameFlags(docked, s)
  BY <1>1, <1>2 DEF Pair, CfsRq, SameFlags
<1> HIDE DEF left, docked
<1>5. Held(docked) <= Held(s) /\ (delta = 0 => Held(docked) = Held(s))
  BY <1>1, <1>2, <1>4 DEF Held, Pool, CfsRq
<1>6. /\ Assign(docked, Slice) \in Pair /\ Held(Assign(docked, Slice)) = Held(docked)
      /\ SameFlags(Assign(docked, Slice), docked)
  BY <1>4, AssignOf, BandwidthAssumption
<1>7. Held(s) \in Int /\ s.rq.remaining \in Int
  BY <1>1 DEF Held, Pool, CfsRq
<1>8. CASE ~s.rq.enabled
  BY <1>3, <1>7, <1>8 DEF SameFlags
<1>9. CASE s.rq.enabled /\ (docked.rq.remaining > 0 \/ s.rq.throttled)
  BY <1>2, <1>3, <1>4, <1>5, <1>9
<1>10. CASE s.rq.enabled /\ ~(docked.rq.remaining > 0 \/ s.rq.throttled)
  BY <1>3, <1>4, <1>5, <1>6, <1>10 DEF SameFlags
<1>. QED
  BY <1>8, <1>9, <1>10

\* What a step of a CPU may make of its pair: it throttles only who is in debt.
Checked(r, s) == /\ r \in Pair /\ Held(r) = Held(s)
                 /\ r.rq.enabled = s.rq.enabled /\ r.rq.curr = s.rq.curr
                 /\ s.rq.throttled => r = s
                 /\ r.rq.throttled /\ ~s.rq.throttled => r.rq.remaining <= 0 /\ r.rq.enabled

LEMMA ThrottleOf ==
  ASSUME NEW s \in Pair, s.rq.enabled, ~s.rq.throttled
  PROVE  Checked(Throttle(s), s)
<1> DEFINE a == Assign(s, 1)
<1>1. a \in Pair /\ Held(a) = Held(s) /\ SameFlags(a, s)
  BY AssignOf
<1>2. Throttle(s) = IF a.rq.remaining > 0 THEN a ELSE [a EXCEPT !.rq.throttled = TRUE]
  BY DEF Throttle
<1> HIDE DEF a
<1>3. a.rq \in CfsRq
  BY <1>1 DEF Pair
<1>4. CASE a.rq.remaining > 0
  BY <1>1, <1>2, <1>4 DEF Checked, SameFlags
<1>5. CASE ~(a.rq.remaining > 0)
  <2> DEFINE r == [a EXCEPT !.rq.throttled = TRUE]
  <2>1. /\ r \in Pair /\ r.pool = a.pool /\ r.rq.remaining = a.rq.remaining
        /\ r.rq.enabled = a.rq.enabled /\ r.rq.curr = a.rq.curr
    BY <1>1, <1>3 DEF Pair, CfsRq
  <2>2. Throttle(s) = r
    BY <1>2, <1>5
  <2> HIDE DEF r
  <2>3. r.rq.remaining <= 0
    BY <1>3, <1>5, <2>1 DEF CfsRq
  <2>. QED
    BY <1>1, <2>1, <2>2, <2>3 DEF Checked, SameFlags, Held
<1>. QED
  BY <1>4, <1>5

LEMMA CheckRuntimeOf ==
  ASSUME NEW s \in Pair
  PROVE  Checked(CheckRuntime(s), s)
<1>1. CASE ~s.rq.enabled \/ s.rq.remaining > 0 \/ s.rq.throttled
  BY <1>1 DEF CheckRuntime, Checked
<1>2. CASE ~(~s.rq.enabled \/ s.rq.remaining > 0 \/ s.rq.throttled)
  <2>1. s.rq.enabled /\ ~s.rq.throttled /\ CheckRuntime(s) = Throttle(s)
    BY <1>2 DEF CheckRuntime
  <2>. QED
    BY <2>1, ThrottleOf
<1>. QED
  BY <1>1, <1>2

LEMMA CheckEnqueueOf ==
  ASSUME NEW s \in Pair
  PROVE  /\ Checked(CheckEnqueue(s), s)
         /\ s.rq.curr => CheckEnqueue(s) = s
<1> DEFINE a == Account(s, 0)
<1>1. CASE ~s.rq.enabled \/ s.rq.curr \/ s.rq.throttled
  BY <1>1 DEF CheckEnqueue, Checked
<1>2. CASE ~(~s.rq.enabled \/ s.rq.curr \/ s.rq.throttled)
  <2>1. CheckEnqueue(s) = IF a.rq.remaining <= 0 THEN Throttle(a) ELSE a
    BY <1>2 DEF CheckEnqueue
  <2>2. a \in Pair /\ Held(a) = Held(s) /\ SameFlags(a, s)
    BY AccountOf
  <2> HIDE DEF a
  <2>3. Checked(Throttle(a), a)
    BY <1>2, <2>2, ThrottleOf DEF SameFlags
  <2>4. Checked(CheckEnqueue(s), a)
    BY <1>2, <2>1, <2>2, <2>3 DEF Checked, SameFlags
  <2>. QED
    BY <1>2, <2>2, <2>4 DEF Checked, SameFlags
<1>. QED
  BY <1>1, <1>2

\* return_cfs_rq_runtime() moves runtime the other way.
LEMMA ReturnRuntimeOf ==
  ASSUME NEW s \in Pair, NEW soon \in BOOLEAN
  PROVE  /\ ReturnRuntime(s, soon) \in Pair
         /\ Held(ReturnRuntime(s, soon)) = Held(s)
         /\ SameFlags(ReturnRuntime(s, soon), s)
         /\ s.rq.remaining <= 0 => ReturnRuntime(s, soon) = s
<1> DEFINE slack == s.rq.remaining - MinRuntime
           p     == [s.pool EXCEPT !.runtime = s.pool.runtime + slack]
           start == p.runtime > Slice /\ throttled_cfs_rq # << >> /\ ~soon
           timer == p.slack_started \/ start
           v     == [p EXCEPT !.slack_started = timer]
           r     == [s.rq EXCEPT !.remaining = MinRuntime]
<1>1. s.rq \in CfsRq /\ s.pool \in Pool /\ MinRuntime \in Nat
  BY BandwidthAssumption DEF Pair
<1>2. slack \in Int
  BY <1>1 DEF CfsRq
<1>3. ReturnRuntime(s, soon) = IF ~s.rq.enabled \/ s.rq.nr > 0 \/ slack <= 0 THEN s
                               ELSE [pool |-> v, rq |-> r]
  BY DEF ReturnRuntime
<1>4. CASE ~s.rq.enabled \/ s.rq.nr > 0 \/ slack <= 0
  BY <1>3, <1>4 DEF SameFlags
<1>5. CASE ~(~s.rq.enabled \/ s.rq.nr > 0 \/ slack <= 0)
  <2>1. timer \in BOOLEAN
    OBVIOUS
  <2>2. slack > 0 /\ s.pool.runtime + slack \in Nat /\ s.rq.remaining > 0
    BY <1>1, <1>2, <1>5 DEF Pool, CfsRq
  <2> HIDE DEF timer
  <2>3. p \in Pool /\ p.runtime = s.pool.runtime + slack /\ p.elsewhere = s.pool.elsewhere
    BY <1>1, <2>2 DEF Pool
  <2> HIDE DEF p
  <2>4. v \in Pool /\ v.runtime = p.runtime /\ v.elsewhere = p.elsewhere
    BY <2>1, <2>3 DEF Pool
  <2>5. /\ r \in CfsRq /\ r.remaining = MinRuntime /\ r.enabled = s.rq.enabled
        /\ r.throttled = s.rq.throttled /\ r.curr = s.rq.curr
    BY <1>1 DEF CfsRq
  <2>6. ReturnRuntime(s, soon) = [pool |-> v, rq |-> r]
    BY <1>3, <1>5
  <2> HIDE DEF v, r
  <2>7. v.runtime + v.elsewhere + r.remaining = Held(s)
    BY <1>1, <2>3, <2>4, <2>5 DEF Held, Pool, CfsRq
  <2>. QED
    BY <1>1, <2>2, <2>4, <2>5, <2>6, <2>7 DEF Pair, Held, SameFlags, CfsRq
<1>. QED
  BY <1>4, <1>5

-----------------------------------------------------------------------------
(* The steps of a CPU *)

LEMMA HereIs ==
  ASSUME BandwidthInv, NEW c \in CPUs
  PROVE  /\ Here(c) \in Pair /\ Here(c).rq = rq[c] /\ Here(c).pool = pool
         /\ Held(Here(c)) = Around(c) /\ Around(c) \in Int
BY DEF Here, Pair, Held, Around, BandwidthInv, BandwidthTypeOK, Pool, CfsRq

\* The pair of CPU c with what has run accounted, and perhaps runtime handed back.
Accounted(c, s) == /\ s \in Pair /\ SameFlags(s, Here(c))
                   /\ Held(s) <= Held(Here(c))
                   /\ ~rq[c].curr => Held(s) = Held(Here(c))
                   /\ s.rq.throttled => s.rq.remaining <= 0

\* What may become of CPU c.
Lawful(c, s) == /\ s \in Pair
                /\ Held(s) <= Held(Here(c))
                /\ ~rq[c].curr => Held(s) = Held(Here(c))
                /\ rq[c].throttled => s.rq.throttled
                /\ s.rq.throttled => s.rq.remaining <= 0 /\ s.rq.enabled /\ ~s.rq.curr

LEMMA AccountHere ==
  ASSUME BandwidthInv, NEW c \in CPUs, NEW d \in Deltas(c)
  PROVE  Accounted(c, Account(Here(c), d))
<1>1. d \in Nat /\ (d > 0 => rq[c].curr)
  BY BandwidthAssumption DEF Deltas
<1>2. Here(c) \in Pair /\ Here(c).rq = rq[c]
  BY HereIs
<1> DEFINE a == Account(Here(c), d)
<1>3. /\ a \in Pair /\ Held(a) <= Held(Here(c)) /\ (d = 0 => Held(a) = Held(Here(c)))
      /\ SameFlags(a, Here(c)) /\ (rq[c].throttled => a.rq.remaining <= rq[c].remaining)
  BY <1>1, <1>2, AccountOf
<1> HIDE DEF a
<1>4. ~rq[c].curr => Held(a) = Held(Here(c))
  BY <1>1, <1>3
<1>5. a.rq.throttled => a.rq.remaining <= 0
  <2>1. a.rq.throttled = rq[c].throttled
    BY <1>2, <1>3 DEF SameFlags
  <2>2. rq[c].throttled => rq[c].remaining <= 0
    BY DEF BandwidthInv, InDebt
  <2>3. a.rq.remaining \in Int /\ rq[c].remaining \in Int
    BY <1>3 DEF Pair, CfsRq, BandwidthInv, BandwidthTypeOK
  <2>. QED
    BY <1>3, <2>1, <2>2, <2>3
<1>. QED
  BY <1>3, <1>4, <1>5 DEF Accounted, a

LEMMA CountedOf ==
  ASSUME NEW c \in CPUs, NEW s, Accounted(c, s), NEW n \in Int
  PROVE  Accounted(c, [s EXCEPT !.rq.nr = n])
BY DEF Accounted, Pair, CfsRq, SameFlags, Held

LEMMA ReturnedOf ==
  ASSUME BandwidthInv, NEW c \in CPUs, NEW s, Accounted(c, s), NEW soon \in BOOLEAN
  PROVE  Accounted(c, ReturnRuntime(s, soon))
<1>1. s \in Pair
  BY DEF Accounted
<1>2. CASE s.rq.throttled
  BY <1>1, <1>2, ReturnRuntimeOf DEF Accounted
<1>3. CASE ~s.rq.throttled
  BY <1>1, <1>3, ReturnRuntimeOf DEF Accounted, SameFlags
<1>. QED
  BY <1>2, <1>3

LEMMA AccountedLawful ==
  ASSUME BandwidthInv, NEW c \in CPUs, NEW s, Accounted(c, s)
  PROVE  /\ Lawful(c, s)
         /\ Lawful(c, CheckEnqueue(s))
         /\ Lawful(c, [CheckRuntime(s) EXCEPT !.rq.curr = FALSE])
<1>1. /\ s \in Pair
      /\ s.rq.throttled = rq[c].throttled /\ s.rq.curr = rq[c].curr
      /\ s.rq.enabled = rq[c].enabled
  BY HereIs DEF Accounted, SameFlags
<1>2. s.rq.throttled => s.rq.remaining <= 0 /\ s.rq.enabled /\ ~s.rq.curr
  BY <1>1 DEF Accounted, BandwidthInv, InDebt
<1>3. Lawful(c, s)
  BY <1>1, <1>2 DEF Accounted, Lawful
<1>4. Lawful(c, CheckEnqueue(s))
  <2>1. Checked(CheckEnqueue(s), s) /\ (s.rq.curr => CheckEnqueue(s) = s)
    BY <1>1, CheckEnqueueOf
  <2>2. CASE s.rq.curr \/ s.rq.throttled
    BY <1>3, <2>1, <2>2 DEF Checked
  <2>3. CASE ~(s.rq.curr \/ s.rq.throttled)
    BY <1>1, <1>3, <2>1, <2>3 DEF Checked, Lawful
  <2>. QED
    BY <2>2, <2>3
<1>5. Lawful(c, [CheckRuntime(s) EXCEPT !.rq.curr = FALSE])
  <2> DEFINE r == CheckRuntime(s)
             v == [r EXCEPT !.rq.curr = FALSE]
  <2> SUFFICES Lawful(c, v)
    OBVIOUS
  <2>1. Checked(r, s)
    BY <1>1, CheckRuntimeOf
  <2> HIDE DEF r
  <2>2. /\ v \in Pair /\ Held(v) = Held(r) /\ v.rq.throttled = r.rq.throttled
        /\ v.rq.remaining = r.rq.remaining /\ v.rq.enabled = r.rq.enabled /\ ~v.rq.curr
    BY <2>1 DEF Checked, Pair, CfsRq, Held
  <2> HIDE DEF v
  <2>3. CASE s.rq.throttled
    BY <1>2, <1>3, <2>1, <2>2, <2>3 DEF Checked, Lawful
  <2>4. CASE ~s.rq.throttled
    BY <1>1, <1>3, <2>1, <2>2, <2>4 DEF Checked, Lawful
  <2>. QED
    BY <2>3, <2>4
<1>. QED
  BY <1>3, <1>4, <1>5

\* A CPU that becomes what is lawful keeps the invariant and conserves runtime.
LEMMA BecomesInv ==
  ASSUME BandwidthInv, NEW c \in CPUs, NEW s, Lawful(c, s), Becomes(c, s)
  PROVE  BandwidthInv' /\ Conserving
<1> USE DEF BandwidthInv
<1>1. /\ pool' = s.pool /\ rq' = [rq EXCEPT ![c] = s.rq] /\ cb' = cb /\ cursor' = cursor
  BY DEF Becomes
<1>2. s.pool \in Pool /\ s.rq \in CfsRq /\ s \in Pair
  BY DEF Lawful, Pair
<1>3. /\ rq' \in [CPUs -> CfsRq] /\ rq'[c] = s.rq
      /\ \A d \in CPUs : d # c => rq'[d] = rq[d]
  BY <1>1, <1>2 DEF BandwidthTypeOK
<1>4. /\ throttled_cfs_rq' \in Seq(CPUs) /\ stale_next' \in [CPUs -> CPUs \cup {ListHead}]
      /\ Lists(throttled_cfs_rq', {d \in CPUs : rq'[d].throttled})
  <2> DEFINE S == {d \in CPUs : rq[d].throttled}
  <2>1. CASE s.rq.throttled /\ ~rq[c].throttled
    <3>1. /\ throttled_cfs_rq' = Append(throttled_cfs_rq, c)
          /\ stale_next' = [stale_next EXCEPT ![c] = ListHead]
      BY <2>1 DEF Becomes
    <3>2. {d \in CPUs : rq'[d].throttled} = S \cup {c}
      BY <1>3, <2>1
    <3>3. throttled_cfs_rq' \in Seq(CPUs) /\ Lists(throttled_cfs_rq', S \cup {c})
      BY <2>1, <3>1, AppendLists DEF BandwidthTypeOK
    <3>. QED
      BY <3>1, <3>2, <3>3 DEF BandwidthTypeOK
  <2>2. CASE ~(s.rq.throttled /\ ~rq[c].throttled)
    <3>1. throttled_cfs_rq' = throttled_cfs_rq /\ stale_next' = stale_next
      BY <2>2 DEF Becomes
    <3>2. {d \in CPUs : rq'[d].throttled} = S
      BY <1>3, <2>2 DEF Lawful
    <3>. QED
      BY <3>1, <3>2 DEF BandwidthTypeOK
  <2>. QED
    BY <2>1, <2>2
<1>5. BandwidthTypeOK'
  BY <1>1, <1>2, <1>3, <1>4 DEF BandwidthTypeOK
<1>6. WalksOnCPUs'
  BY <1>1 DEF WalksOnCPUs
<1>7. InDebt'
  BY <1>3 DEF InDebt, Lawful
<1>8. Conserving
  <2>1. ~Refilled
    <3>1. cb["period"].count \in Nat /\ cb'["period"].count = cb["period"].count
      BY <1>1 DEF BandwidthTypeOK, Callback, Timers
    <3>. QED
      BY <3>1 DEF Refilled
  <2>2. Around(c)' = Held(s)
    BY <1>1, <1>3 DEF Around, Held
  <2>3. Held(Here(c)) = Around(c)
    BY HereIs DEF BandwidthInv
  <2>. QED
    BY <1>3, <2>1, <2>2, <2>3 DEF Conserving, Lawful
<1>. QED
  BY <1>4, <1>5, <1>6, <1>7, <1>8

LEMMA TaskStepInv ==
  ASSUME BandwidthInv, NEW c \in CPUs,
         Run(c) \/ Enqueue(c) \/ Dequeue(c) \/ Block(c) \/ Schedule(c)
  PROVE  BandwidthInv' /\ Conserving
<1>1. CASE Run(c)
  BY <1>1, AccountHere, AccountedLawful, BecomesInv DEF Run
<1>2. CASE Enqueue(c)
  <2>1. PICK d \in Deltas(c) :
          LET s == [Account(Here(c), d) EXCEPT !.rq.nr = @ + 1]
          IN  Becomes(c, IF s.rq.nr = 1 THEN CheckEnqueue(s) ELSE s)
    BY <1>2 DEF Enqueue
  <2> DEFINE n == Account(Here(c), d).rq.nr + 1
             s == [Account(Here(c), d) EXCEPT !.rq.nr = n]
  <2>2. Accounted(c, Account(Here(c), d))
    BY AccountHere
  <2>3. n \in Int
    BY <2>2 DEF Accounted, Pair, CfsRq
  <2>4. Becomes(c, IF s.rq.nr = 1 THEN CheckEnqueue(s) ELSE s)
    BY <2>1
  <2> HIDE DEF n
  <2>5. Accounted(c, s)
    BY <2>2, <2>3, CountedOf
  <2> HIDE DEF s
  <2>. QED
    BY <2>4, <2>5, AccountedLawful, BecomesInv
<1>3. CASE Dequeue(c)
  <2>1. PICK d \in Deltas(c), soon \in BOOLEAN :
          Becomes(c, ReturnRuntime([Account(Here(c), d) EXCEPT !.rq.nr = @ - 1], soon))
    BY <1>3 DEF Dequeue
  <2> DEFINE n == Account(Here(c), d).rq.nr - 1
             s == [Account(Here(c), d) EXCEPT !.rq.nr = n]
  <2>2. Accounted(c, Account(Here(c), d))
    BY AccountHere
  <2>3. n \in Int
    BY <2>2 DEF Accounted, Pair, CfsRq
  <2>4. Becomes(c, ReturnRuntime(s, soon))
    BY <2>1
  <2> HIDE DEF n
  <2>5. Accounted(c, ReturnRuntime(s, soon))
    BY <2>2, <2>3, CountedOf, ReturnedOf
  <2> HIDE DEF s
  <2>. QED
    BY <2>4, <2>5, AccountedLawful, BecomesInv
<1>4. CASE Block(c)
  <2>1. PICK d \in Deltas(c), soon \in BOOLEAN :
          LET s == ReturnRuntime([Account(Here(c), d) EXCEPT !.rq.nr = @ - 1], soon)
          IN  Becomes(c, [CheckRuntime(s) EXCEPT !.rq.curr = FALSE])
    BY <1>4 DEF Block
  <2> DEFINE n == Account(Here(c), d).rq.nr - 1
             s == ReturnRuntime([Account(Here(c), d) EXCEPT !.rq.nr = n], soon)
  <2>2. Accounted(c, Account(Here(c), d))
    BY AccountHere
  <2>3. n \in Int
    BY <2>2 DEF Accounted, Pair, CfsRq
  <2>4. Becomes(c, [CheckRuntime(s) EXCEPT !.rq.curr = FALSE])
    BY <2>1
  <2> HIDE DEF n
  <2>5. Accounted(c, s)
    BY <2>2, <2>3, CountedOf, ReturnedOf
  <2> HIDE DEF s
  <2>. QED
    BY <2>4, <2>5, AccountedLawful, BecomesInv
<1>5. CASE Schedule(c)
  <2>1. PICK d \in Deltas(c) :
          Becomes(c, [CheckRuntime(Account(Here(c), d)) EXCEPT !.rq.curr = FALSE])
    BY <1>5 DEF Schedule
  <2>2. Accounted(c, Account(Here(c), d))
    BY AccountHere
  <2>. QED
    BY <2>1, <2>2, AccountedLawful, BecomesInv
<1>. QED
  BY <1>1, <1>2, <1>3, <1>4, <1>5

LEMMA PickOnlineInv ==
  ASSUME BandwidthInv, NEW c \in CPUs, Pick(c) \/ Online(c)
  PROVE  BandwidthInv' /\ Conserving
<1>1. Here(c) \in Pair /\ Here(c).rq = rq[c]
  BY HereIs
<1>2. CASE Pick(c)
  <2> DEFINE s == [Here(c) EXCEPT !.rq.curr = TRUE]
  <2>1. /\ s \in Pair /\ Held(s) = Held(Here(c)) /\ s.rq.throttled = rq[c].throttled
    BY <1>1 DEF Pair, CfsRq, Held
  <2>2. Becomes(c, s) /\ ~rq[c].throttled
    BY <1>2 DEF Pick
  <2>3. Held(Here(c)) \in Int
    BY HereIs
  <2> HIDE DEF s
  <2>4. Lawful(c, s)
    BY <2>1, <2>2, <2>3 DEF Lawful
  <2>. QED
    BY <2>2, <2>4, BecomesInv
<1>3. CASE Online(c)
  <2> DEFINE s == [Here(c) EXCEPT !.rq.enabled = TRUE]
  <2>1. /\ s \in Pair /\ Held(s) = Held(Here(c)) /\ s.rq.throttled = rq[c].throttled
    BY <1>1 DEF Pair, CfsRq, Held
  <2>2. Becomes(c, s) /\ ~rq[c].throttled
    BY <1>3 DEF Online, BandwidthInv, InDebt
  <2>3. Held(Here(c)) \in Int
    BY HereIs
  <2> HIDE DEF s
  <2>4. Lawful(c, s)
    BY <2>1, <2>2, <2>3 DEF Lawful
  <2>. QED
    BY <2>2, <2>4, BecomesInv
<1>. QED
  BY <1>2, <1>3

\* unthrottle_cfs_rq() takes a throttled CPU, and it alone, from the list.
LEMMA UnthrottledOf ==
  ASSUME BandwidthInv, NEW c \in CPUs, rq[c].throttled, NEW m \in Int, NEW e \in BOOLEAN,
         Unthrottled(c, m, e)
  PROVE  /\ rq' \in [CPUs -> CfsRq]
         /\ rq'[c].remaining = m /\ rq'[c].enabled = e /\ ~rq'[c].throttled
         /\ \A d \in CPUs : d # c => rq'[d] = rq[d]
         /\ throttled_cfs_rq' \in Seq(CPUs)
         /\ stale_next' \in [CPUs -> CPUs \cup {ListHead}]
         /\ Lists(throttled_cfs_rq', {d \in CPUs : rq'[d].throttled})
<1> DEFINE i == CHOOSE k \in DOMAIN throttled_cfs_rq : throttled_cfs_rq[k] = c
           S == {d \in CPUs : rq[d].throttled}
           next == IF i < Len(throttled_cfs_rq) THEN throttled_cfs_rq[i + 1] ELSE ListHead
           r == [rq[c] EXCEPT !.throttled = FALSE, !.remaining = m, !.enabled = e]
<1>1. throttled_cfs_rq \in Seq(CPUs) /\ Lists(throttled_cfs_rq, S)
  BY DEF BandwidthInv, BandwidthTypeOK
<1>2. DOMAIN throttled_cfs_rq = 1 .. Len(throttled_cfs_rq) /\ Len(throttled_cfs_rq) \in Nat
  BY <1>1
<1>3. \E k \in DOMAIN throttled_cfs_rq : throttled_cfs_rq[k] = c
  BY <1>1, <1>2 DEF Lists
<1>4. i \in 1 .. Len(throttled_cfs_rq) /\ throttled_cfs_rq[i] = c
  BY <1>2, <1>3
<1>5. /\ rq' = [rq EXCEPT ![c] = r]
      /\ throttled_cfs_rq' = RemoveAt(throttled_cfs_rq, i)
      /\ stale_next' = [stale_next EXCEPT ![c] = next]
  BY Zenon DEF Unthrottled
<1> HIDE DEF i
<1>6. next \in CPUs \cup {ListHead}
  BY <1>1, <1>2, <1>4
<1> HIDE DEF next
<1>7. r \in CfsRq /\ r.remaining = m /\ r.enabled = e /\ ~r.throttled
  BY DEF BandwidthInv, BandwidthTypeOK, CfsRq
<1> HIDE DEF r
<1>8. /\ rq' \in [CPUs -> CfsRq] /\ rq'[c] = r
      /\ \A d \in CPUs : d # c => rq'[d] = rq[d]
  BY <1>5, <1>7 DEF BandwidthInv, BandwidthTypeOK
<1>9. {d \in CPUs : rq'[d].throttled} = S \ {c}
  BY <1>7, <1>8
<1>10. throttled_cfs_rq' \in Seq(CPUs) /\ Lists(throttled_cfs_rq', S \ {c})
  BY <1>1, <1>4, <1>5, RemoveAtLists
<1>11. stale_next' \in [CPUs -> CPUs \cup {ListHead}]
  BY <1>5, <1>6 DEF BandwidthInv, BandwidthTypeOK
<1>. QED
  BY <1>7, <1>8, <1>9, <1>10, <1>11

LEMMA OfflineInv ==
  ASSUME BandwidthInv, NEW c \in CPUs, Offline(c)
  PROVE  BandwidthInv' /\ Conserving
<1>1. pool' = pool /\ cb' = cb /\ cursor' = cursor
  BY DEF Offline
<1>2. /\ rq' \in [CPUs -> CfsRq] /\ ~rq'[c].enabled /\ ~rq'[c].throttled
      /\ \A d \in CPUs : d # c => rq'[d] = rq[d]
      /\ throttled_cfs_rq' \in Seq(CPUs)
      /\ stale_next' \in [CPUs -> CPUs \cup {ListHead}]
      /\ Lists(throttled_cfs_rq', {d \in CPUs : rq'[d].throttled})
  <2>1. CASE rq[c].throttled
    <3>1. Unthrottled(c, 1, FALSE)
      BY <2>1 DEF Offline
    <3>2. PICK e \in BOOLEAN, m \in Int : ~e /\ Unthrottled(c, m, e)
      <4>1. 1 \in Int
        OBVIOUS
      <4>. QED
        BY <3>1, <4>1, Zenon
    <3>3. /\ rq' \in [CPUs -> CfsRq] /\ rq'[c].enabled = e /\ ~rq'[c].throttled
          /\ \A d \in CPUs : d # c => rq'[d] = rq[d]
          /\ throttled_cfs_rq' \in Seq(CPUs)
          /\ stale_next' \in [CPUs -> CPUs \cup {ListHead}]
          /\ Lists(throttled_cfs_rq', {d \in CPUs : rq'[d].throttled})
      BY <2>1, <3>2, UnthrottledOf
    <3>. QED
      BY <3>2, <3>3
  <2>2. CASE ~rq[c].throttled
    <3> DEFINE unit == 1
               r == [rq[c] EXCEPT !.remaining = unit, !.enabled = FALSE]
    <3>1. /\ rq' = [rq EXCEPT ![c] = r] /\ throttled_cfs_rq' = throttled_cfs_rq
          /\ stale_next' = stale_next
      BY <2>2 DEF Offline
    <3>2. r \in CfsRq /\ ~r.enabled /\ ~r.throttled
      <4>1. rq[c] \in CfsRq
        BY DEF BandwidthInv, BandwidthTypeOK
      <4>2. unit \in Int
        OBVIOUS
      <4> HIDE DEF unit
      <4>3. r \in CfsRq
        BY <4>1, <4>2 DEF CfsRq
      <4>4. r.enabled = FALSE /\ r.throttled = rq[c].throttled
        BY <4>1 DEF CfsRq
      <4>. QED
        BY <2>2, <4>3, <4>4
    <3> HIDE DEF r
    <3>3. /\ rq' \in [CPUs -> CfsRq] /\ rq'[c] = r
          /\ \A d \in CPUs : d # c => rq'[d] = rq[d]
      BY <3>1, <3>2 DEF BandwidthInv, BandwidthTypeOK
    <3>4. {d \in CPUs : rq'[d].throttled} = {d \in CPUs : rq[d].throttled}
      BY <2>2, <3>2, <3>3
    <3>. QED
      BY <3>1, <3>2, <3>3, <3>4 DEF BandwidthInv, BandwidthTypeOK
  <2>. QED
    BY <2>1, <2>2
<1>3. BandwidthTypeOK' /\ WalksOnCPUs'
  BY <1>1, <1>2 DEF BandwidthInv, BandwidthTypeOK, WalksOnCPUs
<1>4. InDebt'
  BY <1>2 DEF BandwidthInv, InDebt
<1>5. Conserving
  <2>1. cb["period"].count \in Nat
    BY DEF BandwidthInv, BandwidthTypeOK, Callback, Timers
  <2>2. ~Refilled
    BY <1>1, <2>1 DEF Refilled
  <2>3. Downed
    BY <1>2 DEF Downed, Offline
  <2>. QED
    BY <1>2, <2>2, <2>3 DEF Conserving
<1>. QED
  BY <1>2, <1>3, <1>4, <1>5 DEF BandwidthInv

-----------------------------------------------------------------------------
(* The steps of the timers *)

\* A step that leaves the CPUs alone, and of the pool at most refills it.
LEMMA TimerStepInv ==
  ASSUME BandwidthInv, UNCHANGED << rq, throttled_cfs_rq, stale_next >>,
         pool' \in Pool, cb' \in [Timers -> Callback],
         cursor' \in [Timers -> CPUs \cup {ListHead}], WalksOnCPUs',
         \/ pool'.runtime + pool'.elsewhere = pool.runtime + pool.elsewhere /\ ~Refilled
         \/ /\ Refilled /\ pool'.elsewhere = pool.elsewhere
            /\ pool'.runtime <= pool.runtime + pool.quota
            /\ pool'.runtime <= pool'.quota + pool'.burst
         \/ pool'.runtime + pool'.elsewhere <= pool.runtime + pool.elsewhere /\ ~Refilled
            /\ OthersRun
  PROVE  BandwidthInv' /\ Conserving
<1>1. BandwidthTypeOK' /\ InDebt'
  BY DEF BandwidthInv, BandwidthTypeOK, InDebt
<1>2. Lists(throttled_cfs_rq, {c \in CPUs : rq[c].throttled})'
  BY DEF BandwidthInv
<1>3. Conserving
  <2>1. PICK c \in CPUs : TRUE
    BY BandwidthAssumption
  <2>2. /\ Around(c) = pool.runtime + pool.elsewhere + rq[c].remaining
        /\ Around(c)' = pool'.runtime + pool'.elsewhere + rq[c].remaining
    BY DEF Around
  <2>3. /\ pool.runtime \in Nat /\ pool.elsewhere \in Nat /\ pool.quota \in Nat
        /\ pool'.runtime \in Nat /\ pool'.elsewhere \in Nat /\ rq[c].remaining \in Int
    BY DEF BandwidthInv, BandwidthTypeOK, Pool, CfsRq
  <2>4. ~Refilled => Around(c)' <= Around(c)
    BY <2>2, <2>3
  <2>5. Refilled => Around(c)' <= Around(c) + pool.quota
    BY <2>2, <2>3
  <2>6. ~Refilled /\ ~OthersRun => Around(c)' = Around(c)
    BY <2>2, <2>3
  <2>. QED
    BY <2>4, <2>5, <2>6 DEF Conserving
<1>. QED
  BY <1>1, <1>2, <1>3 DEF BandwidthInv

\* A callback that moves its walk, to a CPU or to the end.
LEMMA WalksOf ==
  ASSUME BandwidthInv, NEW t \in Timers, cb[t].at # "off",
         \/ \E x \in CPUs \cup {ListHead} : WalksTo(t, x)
         \/ WalkEnds(t)
         \/ Visited(t) /\ cursor[t] \in CPUs
  PROVE  /\ cb' \in [Timers -> Callback] /\ cursor' \in [Timers -> CPUs \cup {ListHead}]
         /\ WalksOnCPUs' /\ ~Refilled
<1>1. PICK a \in {"off", "relock", "visit", "advance"}, x \in CPUs \cup {ListHead} :
        /\ cb' = [cb EXCEPT ![t].at = a]
        /\ cursor' = [cursor EXCEPT ![t] = x]
        /\ a \in {"visit", "advance"} => x \in CPUs
        /\ a = "off" => t = "slack"
  <2>1. CASE \E x \in CPUs \cup {ListHead} : x # ListHead /\ WalksTo(t, x)
    <3>1. PICK x \in CPUs : cb' = [cb EXCEPT ![t].at = "visit"]
                            /\ cursor' = [cursor EXCEPT ![t] = x]
      BY <2>1 DEF WalksTo
    <3>. QED
      BY <3>1
  <2>2. CASE WalkEnds(t)
    <3> DEFINE a == IF t = "slack" THEN "off" ELSE "relock"
    <3>1. a \in {"off", "relock"} /\ (a = "off" => t = "slack")
      OBVIOUS
    <3>2. cb' = [cb EXCEPT ![t].at = a] /\ cursor' = [cursor EXCEPT ![t] = ListHead]
      BY <2>2 DEF WalkEnds
    <3> HIDE DEF a
    <3>. QED
      BY <3>1, <3>2
  <2>3. CASE Visited(t) /\ cursor[t] \in CPUs
    BY <2>3 DEF Visited, BandwidthInv, BandwidthTypeOK
  <2>. QED
    BY <2>1, <2>2, <2>3 DEF WalksTo
<1>2. /\ cb' \in [Timers -> Callback]
      /\ cb'[t].at = a
      /\ \A u \in Timers : cb'[u].count = cb[u].count /\ (u # t => cb'[u] = cb[u])
  BY <1>1 DEF BandwidthInv, BandwidthTypeOK, Callback
<1>3. /\ cursor' \in [Timers -> CPUs \cup {ListHead}] /\ cursor'[t] = x
      /\ \A u \in Timers : u # t => cursor'[u] = cursor[u]
  BY <1>1 DEF BandwidthInv, BandwidthTypeOK
<1>4. WalksOnCPUs'
  <2>1. "period" \in Timers
    BY DEF Timers
  <2>. QED
    BY <1>1, <1>2, <1>3, <2>1 DEF BandwidthInv, WalksOnCPUs
<1>5. ~Refilled
  <2>1. cb["period"].count \in Nat /\ cb'["period"].count = cb["period"].count
    BY <1>2 DEF BandwidthInv, BandwidthTypeOK, Callback, Timers
  <2>. QED
    BY <2>1 DEF Refilled
<1>. QED
  BY <1>2, <1>3, <1>4, <1>5

\* distribute_cfs_runtime(): what a CPU in debt is given comes from the pool.
LEMMA VisitInv ==
  ASSUME BandwidthInv, NEW t \in Timers, Visit(t)
  PROVE  BandwidthInv' /\ Conserving
<1>1. PICK c \in CPUs : c = cursor[t] /\ cb[t].at # "off"
  BY DEF Visit, BandwidthInv, WalksOnCPUs
<1> DEFINE g == Grant(c)
           m == rq[c].remaining + g
           e == rq[c].enabled
<1>2. /\ rq[c] \in CfsRq /\ pool \in Pool
      /\ rq[c].remaining \in Int /\ e \in BOOLEAN /\ pool.runtime \in Int
  BY <1>1 DEF BandwidthInv, BandwidthTypeOK, CfsRq, Pool
<1>3. CASE ~rq[c].throttled
  <2>1. /\ Visited(t) /\ pool' = pool
        /\ UNCHANGED << rq, throttled_cfs_rq, stale_next >>
    BY <1>1, <1>3 DEF Visit
  <2>2. /\ cb' \in [Timers -> Callback] /\ cursor' \in [Timers -> CPUs \cup {ListHead}]
        /\ WalksOnCPUs' /\ ~Refilled
    BY <1>1, <2>1, WalksOf
  <2>. QED
    BY <1>2, <2>1, <2>2, TimerStepInv
<1>4. CASE rq[c].throttled
  <2>1. /\ pool' = [pool EXCEPT !.runtime = pool.runtime - g]
        /\ IF m > 0 THEN Unthrottled(c, m, e)
           ELSE /\ rq' = [rq EXCEPT ![c].remaining = m]
                /\ UNCHANGED << throttled_cfs_rq, stale_next >>
        /\ WalkEnds(t) \/ Visited(t)
    BY <1>1, <1>4 DEF Visit
  <2>2. g \in Int /\ g <= pool.runtime
    <3>1. 1 - rq[c].remaining \in Int
      BY <1>2
    <3>. QED
      BY <1>2, <3>1, MinOfTwo DEF Grant
  <2> HIDE DEF g
  <2>3. m \in Int
    BY <1>2, <2>2
  <2>4. pool' \in Pool /\ pool'.runtime = pool.runtime - g /\ pool'.elsewhere = pool.elsewhere
    <3>1. pool.runtime - g \in Nat
      BY <1>2, <2>2
    <3>. QED
      BY <1>2, <2>1, <3>1 DEF Pool
  <2> HIDE DEF e
  <2>5. /\ cb' \in [Timers -> Callback] /\ cursor' \in [Timers -> CPUs \cup {ListHead}]
        /\ WalksOnCPUs' /\ ~Refilled
    BY <1>1, <2>1, WalksOf
  <2>6. /\ rq' \in [CPUs -> CfsRq]
        /\ rq'[c].remaining = m /\ rq'[c].enabled = e
        /\ rq'[c].throttled => m <= 0 /\ rq'[c].curr = rq[c].curr
        /\ \A d \in CPUs : d # c => rq'[d] = rq[d]
        /\ throttled_cfs_rq' \in Seq(CPUs)
        /\ stale_next' \in [CPUs -> CPUs \cup {ListHead}]
        /\ Lists(throttled_cfs_rq', {d \in CPUs : rq'[d].throttled})
    <3> HIDE DEF m
    <3>1. CASE m > 0
      <4>1. Unthrottled(c, m, e)
        BY <2>1, <3>1
      <4>2. PICK f \in BOOLEAN : f = e /\ Unthrottled(c, m, f)
        BY <1>2, <4>1, Zenon
      <4>3. /\ rq' \in [CPUs -> CfsRq]
            /\ rq'[c].remaining = m /\ rq'[c].enabled = f /\ ~rq'[c].throttled
            /\ \A d \in CPUs : d # c => rq'[d] = rq[d]
            /\ throttled_cfs_rq' \in Seq(CPUs)
            /\ stale_next' \in [CPUs -> CPUs \cup {ListHead}]
            /\ Lists(throttled_cfs_rq', {d \in CPUs : rq'[d].throttled})
        BY <1>4, <2>3, <4>2, UnthrottledOf
      <4>. QED
        BY <4>2, <4>3
    <3>2. CASE ~(m > 0)
      <4> DEFINE r == [rq[c] EXCEPT !.remaining = m]
      <4>1. /\ rq' = [rq EXCEPT ![c] = r] /\ throttled_cfs_rq' = throttled_cfs_rq
            /\ stale_next' = stale_next
        BY <2>1, <3>2
      <4>2. /\ r \in CfsRq /\ r.remaining = m /\ r.enabled = e /\ r.throttled
            /\ r.curr = rq[c].curr
        BY <1>2, <1>4, <2>3 DEF CfsRq, e
      <4> HIDE DEF r
      <4>3. /\ rq' \in [CPUs -> CfsRq] /\ rq'[c] = r
            /\ \A d \in CPUs : d # c => rq'[d] = rq[d]
        BY <1>1, <4>1, <4>2 DEF BandwidthInv, BandwidthTypeOK
      <4>4. {d \in CPUs : rq'[d].throttled} = {d \in CPUs : rq[d].throttled}
        BY <1>4, <4>2, <4>3
      <4>5. m <= 0
        BY <2>3, <3>2
      <4>. QED
        BY <4>1, <4>2, <4>3, <4>4, <4>5 DEF BandwidthInv, BandwidthTypeOK
    <3>. QED
      BY <3>1, <3>2
  <2>7. BandwidthTypeOK'
    BY <2>4, <2>5, <2>6 DEF BandwidthTypeOK
  <2>8. InDebt'
    BY <1>1, <1>4, <2>6 DEF BandwidthInv, InDebt, e
  <2>9. Around(c)' = Around(c)
    <3>1. Around(c) = pool.runtime + pool.elsewhere + rq[c].remaining
      BY DEF Around
    <3>2. Around(c)' = pool'.runtime + pool'.elsewhere + rq'[c].remaining
      BY DEF Around
    <3>3. pool.elsewhere \in Int
      BY <1>2 DEF Pool
    <3>. QED
      BY <1>2, <2>2, <2>4, <2>6, <3>1, <3>2, <3>3
  <2>10. Conserving
    <3>1. Around(c) \in Int
      BY <1>1, HereIs
    <3>. QED
      BY <1>1, <2>5, <2>6, <2>9, <3>1 DEF Conserving
  <2>. QED
    BY <2>5, <2>6, <2>7, <2>8, <2>10 DEF BandwidthInv
<1>. QED
  BY <1>3, <1>4

\* Wherever the list pointers lead, a walk is at a CPU or at its end.
LEMMA StartAdvanceInv ==
  ASSUME BandwidthInv, NEW t \in Timers, StartWalk(t) \/ Advance(t)
  PROVE  BandwidthInv' /\ Conserving
<1>1. pool' = pool /\ UNCHANGED << rq, throttled_cfs_rq, stale_next >> /\ cb[t].at # "off"
  BY DEF StartWalk, Advance
<1>2. DOMAIN throttled_cfs_rq = 1 .. Len(throttled_cfs_rq) /\ Len(throttled_cfs_rq) \in Nat
      /\ \A i \in 1 .. Len(throttled_cfs_rq) : throttled_cfs_rq[i] \in CPUs
  BY DEF BandwidthInv, BandwidthTypeOK
<1>3. First \in CPUs \cup {ListHead}
  <2>1. throttled_cfs_rq # << >> => Len(throttled_cfs_rq) >= 1
    BY DEF BandwidthInv, BandwidthTypeOK
  <2>. QED
    BY <1>2, <2>1 DEF First
<1>4. ASSUME NEW c \in CPUs PROVE NextOf(c) \in CPUs \cup {ListHead}
  <2>1. CASE c \in Range(throttled_cfs_rq)
    <3> DEFINE i == CHOOSE k \in DOMAIN throttled_cfs_rq : throttled_cfs_rq[k] = c
    <3>1. \E k \in DOMAIN throttled_cfs_rq : throttled_cfs_rq[k] = c
      BY <2>1 DEF Range
    <3>2. i \in 1 .. Len(throttled_cfs_rq)
      BY <1>2, <3>1
    <3>3. NextOf(c) = IF i < Len(throttled_cfs_rq) THEN throttled_cfs_rq[i + 1] ELSE ListHead
      BY <2>1 DEF NextOf
    <3> HIDE DEF i
    <3>4. i < Len(throttled_cfs_rq) => i + 1 \in 1 .. Len(throttled_cfs_rq)
      BY <1>2, <3>2
    <3>. QED
      BY <1>2, <3>3, <3>4
  <2>2. CASE c \notin Range(throttled_cfs_rq)
    BY <2>2 DEF NextOf, BandwidthInv, BandwidthTypeOK
  <2>. QED
    BY <2>1, <2>2
<1>5. \E x \in CPUs \cup {ListHead} : WalksTo(t, x)
  BY <1>3, <1>4 DEF StartWalk, Advance, BandwidthInv, WalksOnCPUs
<1>6. /\ cb' \in [Timers -> Callback] /\ cursor' \in [Timers -> CPUs \cup {ListHead}]
      /\ WalksOnCPUs' /\ ~Refilled
  BY <1>1, <1>5, WalksOf
<1>7. pool \in Pool
  BY DEF BandwidthInv, BandwidthTypeOK
<1>. QED
  BY <1>1, <1>6, <1>7, TimerStepInv

\* __refill_cfs_bandwidth_runtime(): one quota, and never beyond the burst.
LEMMA RefillOf ==
  ASSUME NEW p \in Pool
  PROVE  /\ Refill(p) \in Pool /\ Refill(p).elsewhere = p.elsewhere
         /\ Refill(p).runtime <= p.runtime + p.quota
         /\ Refill(p).runtime <= Refill(p).quota + Refill(p).burst
<1> DEFINE m == Min({p.runtime + p.quota, p.quota + p.burst})
<1>1. /\ p.runtime + p.quota \in Nat /\ p.quota + p.burst \in Nat
      /\ p.runtime + p.quota \in Int /\ p.quota + p.burst \in Int
  BY DEF Pool
<1>2. /\ m \in {p.runtime + p.quota, p.quota + p.burst}
      /\ m <= p.runtime + p.quota /\ m <= p.quota + p.burst
  BY <1>1, MinOfTwo
<1>3. Refill(p) = [p EXCEPT !.runtime = m]
  BY DEF Refill
<1> HIDE DEF m
<1>4. m \in Nat
  BY <1>1, <1>2
<1>. QED
  BY <1>2, <1>3, <1>4 DEF Pool

\* A longer period has more quota and more burst.
LEMMA ScaleUpOf ==
  ASSUME NEW p \in Pool, NEW n
  PROVE  /\ ScaleUp(p, n) \in Pool
         /\ ScaleUp(p, n).runtime = p.runtime /\ ScaleUp(p, n).elsewhere = p.elsewhere
         /\ ScaleUp(p, n).quota + ScaleUp(p, n).burst >= p.quota + p.burst
<1> DEFINE a == p.scale + 1
           b == 2 * p.quota
           c == 2 * p.burst
           v == [p EXCEPT !.scale = a, !.quota = b, !.burst = c]
<1>1. ScaleUp(p, n) = p \/ ScaleUp(p, n) = v
  BY DEF ScaleUp
<1>2. a \in Nat /\ b \in Nat /\ c \in Nat /\ b + c >= p.quota + p.burst
  BY DEF Pool
<1> HIDE DEF a, b, c
<1>3. /\ v \in Pool /\ v.runtime = p.runtime /\ v.elsewhere = p.elsewhere
      /\ v.quota = b /\ v.burst = c
  BY <1>2 DEF Pool
<1> HIDE DEF v
<1>4. p.quota + p.burst \in Int
  BY DEF Pool
<1>. QED
  BY <1>1, <1>2, <1>3, <1>4

LEMMA IdleOf ==
  ASSUME NEW p \in Pool, NEW i \in {0, 1}
  PROVE  /\ [p EXCEPT !.idle = i] \in Pool
         /\ [p EXCEPT !.idle = i].runtime = p.runtime
         /\ [p EXCEPT !.idle = i].elsewhere = p.elsewhere
         /\ [p EXCEPT !.idle = i].quota = p.quota /\ [p EXCEPT !.idle = i].burst = p.burst
BY DEF Pool

\* The period callback outside its walk: its count and flags alone.
LEMMA PeriodAtOf ==
  ASSUME BandwidthInv, NEW r \in Callback, cb' = [cb EXCEPT !["period"] = r], cursor' = cursor,
         r.at \in {"off", "walk", "held"}, r.at = "off" => r.count = 0
  PROVE  /\ cb' \in [Timers -> Callback] /\ cursor' \in [Timers -> CPUs \cup {ListHead}]
         /\ WalksOnCPUs'
         /\ Refilled <=> r.count > cb["period"].count
<1>1. /\ cb' \in [Timers -> Callback] /\ cb'["period"] = r
      /\ \A t \in Timers : t # "period" => cb'[t] = cb[t]
  BY DEF BandwidthInv, BandwidthTypeOK, Timers
<1>2. cursor' \in [Timers -> CPUs \cup {ListHead}]
  BY DEF BandwidthInv, BandwidthTypeOK
<1>3. WalksOnCPUs'
  BY <1>1 DEF BandwidthInv, WalksOnCPUs
<1>4. Refilled <=> r.count > cb["period"].count
  BY <1>1 DEF Refilled
<1>. QED
  BY <1>1, <1>2, <1>3, <1>4

LEMMA PeriodInv ==
  ASSUME BandwidthInv, PeriodStep
  PROVE  BandwidthInv' /\ Conserving
<1> DEFINE count == cb["period"].count
<1>1. /\ pool \in Pool /\ cb["period"] \in Callback /\ count \in Nat
      /\ cb["period"].at = "off" => count = 0
  BY DEF BandwidthInv, BandwidthTypeOK, WalksOnCPUs, Callback, Timers
<1>2. UNCHANGED << rq, throttled_cfs_rq, stale_next >> /\ cursor' = cursor
  BY DEF PeriodStep, PeriodPass, PeriodRelock, PeriodExit
<1>3. CASE PeriodPass
  <2> DEFINE n == IF cb["period"].at = "off" THEN 1 ELSE count + 1
             p == Refill(pool)
             what == Outcome(p)
             on == IF what = "distribute" THEN "walk" ELSE "held"
             stops == what = "deactivate"
             r == [at |-> on, count |-> n, idle |-> stops]
  <2>1. /\ cb' = [cb EXCEPT !["period"] = r]
        /\ \/ pool' = p
           \/ pool' = ScaleUp([p EXCEPT !.idle = 1], n)
           \/ pool' = ScaleUp(p, n)
    BY <1>3 DEF PeriodPass
  <2>2. n \in Nat /\ n > count
    BY <1>1
  <2>3. on \in {"walk", "held"} /\ stops \in BOOLEAN
    OBVIOUS
  <2> HIDE DEF n, on, stops
  <2>4. r \in Callback /\ r.at \in {"walk", "held"} /\ r.count = n
    BY <2>2, <2>3 DEF Callback
  <2> HIDE DEF r
  <2>5. /\ cb' \in [Timers -> Callback] /\ cursor' \in [Timers -> CPUs \cup {ListHead}]
        /\ WalksOnCPUs' /\ Refilled
    BY <1>2, <2>1, <2>2, <2>4, PeriodAtOf
  <2> HIDE DEF p
  <2>6. /\ p \in Pool /\ p.elsewhere = pool.elsewhere
        /\ p.runtime <= pool.runtime + pool.quota /\ p.runtime <= p.quota + p.burst
    BY <1>1, RefillOf DEF p
  <2>7. PICK v \in Pool : /\ v.runtime = p.runtime /\ v.elsewhere = p.elsewhere
                          /\ v.quota = p.quota /\ v.burst = p.burst
                          /\ pool' = v \/ pool' = ScaleUp(v, n)
    BY <2>1, <2>6, IdleOf
  <2>8. /\ pool' \in Pool /\ pool'.runtime = v.runtime /\ pool'.elsewhere = v.elsewhere
        /\ pool'.quota + pool'.burst >= v.quota + v.burst
    <3>1. v.quota + v.burst \in Int
      BY DEF Pool
    <3>. QED
      BY <2>7, <3>1, ScaleUpOf
  <2>9. pool'.runtime <= pool'.quota + pool'.burst
    <3>1. /\ pool'.runtime \in Int /\ v.quota + v.burst \in Int
          /\ pool'.quota + pool'.burst \in Int
      BY <2>8 DEF Pool
    <3>. QED
      BY <2>6, <2>7, <2>8, <3>1
  <2>. QED
    BY <1>2, <2>5, <2>6, <2>7, <2>8, <2>9, TimerStepInv
<1>4. CASE PeriodRelock \/ PeriodExit
  <2>1. PICK r \in Callback : /\ cb' = [cb EXCEPT !["period"] = r]
                              /\ r.at \in {"off", "walk", "held"} /\ r.count <= count
                              /\ r.at = "off" => r.count = 0
    <3>1. CASE PeriodRelock
      <4>1. PICK a \in {"walk", "held"} : cb' = [cb EXCEPT !["period"].at = a]
        BY <3>1 DEF PeriodRelock
      <4> DEFINE r == [cb["period"] EXCEPT !.at = a]
      <4>2. cb' = [cb EXCEPT !["period"] = r]
        BY <4>1
      <4>3. r \in Callback /\ r.at = a /\ r.count = count
        BY <1>1 DEF Callback
      <4>4. count <= count
        BY <1>1
      <4> HIDE DEF r
      <4> r \in Callback
        BY <4>3
      <4> WITNESS r \in Callback
      <4>. QED
        BY <1>1, <4>2, <4>3, <4>4
    <3>2. CASE PeriodExit
      <4> DEFINE r == [at |-> "off", count |-> 0, idle |-> FALSE]
      <4>1. cb' = [cb EXCEPT !["period"] = r]
        BY <3>2 DEF PeriodExit
      <4>2. r \in Callback /\ r.at = "off" /\ r.count = 0
        BY DEF Callback
      <4>3. r.count <= count
        BY <1>1, <4>2
      <4> HIDE DEF r
      <4> r \in Callback
        BY <4>2
      <4> WITNESS r \in Callback
      <4>. QED
        BY <4>1, <4>2, <4>3
    <3>. QED
      BY <1>4, <3>1, <3>2
  <2>2. /\ cb' \in [Timers -> Callback] /\ cursor' \in [Timers -> CPUs \cup {ListHead}]
        /\ WalksOnCPUs' /\ ~Refilled
    <3>1. r.count \in Nat
      BY DEF Callback
    <3>2. /\ cb' \in [Timers -> Callback] /\ cursor' \in [Timers -> CPUs \cup {ListHead}]
          /\ WalksOnCPUs' /\ (Refilled <=> r.count > count)
      BY <1>2, <2>1, PeriodAtOf
    <3>. QED
      BY <1>1, <2>1, <3>1, <3>2
  <2>3. pool' \in Pool /\ pool'.runtime = pool.runtime /\ pool'.elsewhere = pool.elsewhere
    <3>1. CASE PeriodRelock
      <4>1. pool' = pool \/ pool' = ScaleUp([pool EXCEPT !.idle = 0], count)
        BY <3>1 DEF PeriodRelock
      <4>2. PICK v \in Pool : /\ v.runtime = pool.runtime /\ v.elsewhere = pool.elsewhere
                              /\ pool' = pool \/ pool' = ScaleUp(v, count)
        BY <1>1, <4>1, IdleOf
      <4>. QED
        BY <1>1, <4>2, ScaleUpOf
    <3>2. CASE PeriodExit
      <4> DEFINE a == IF cb["period"].idle THEN 0 ELSE pool.period_active
      <4>1. pool' = [pool EXCEPT !.period_active = a]
        BY <3>2 DEF PeriodExit
      <4>2. a \in {0, 1}
        BY <1>1 DEF Pool
      <4> HIDE DEF a
      <4>. QED
        BY <1>1, <4>1, <4>2 DEF Pool
    <3>. QED
      BY <1>4, <3>1, <3>2
  <2>. QED
    BY <1>2, <2>2, <2>3, TimerStepInv
<1>. QED
  BY <1>3, <1>4 DEF PeriodStep

\* The slack timer and the other CPUs.
LEMMA SlackOtherInv ==
  ASSUME BandwidthInv, SlackFires \/ OtherStep
  PROVE  BandwidthInv' /\ Conserving
<1>1. /\ pool \in Pool /\ cb["period"].count \in Nat
      /\ pool.runtime \in Nat /\ pool.elsewhere \in Nat
  BY DEF BandwidthInv, BandwidthTypeOK, Callback, Timers, Pool
<1>2. UNCHANGED << rq, throttled_cfs_rq, stale_next >> /\ cursor' = cursor
  BY DEF SlackFires, OtherStep
<1>3. CASE SlackFires
  <2>1. PICK a \in {"off", "walk"} : cb' = [cb EXCEPT !["slack"].at = a]
    <3>1. cb' = [cb EXCEPT !["slack"].at = "walk"] \/ cb' = cb
      BY <1>3 DEF SlackFires
    <3>2. cb = [cb EXCEPT !["slack"].at = "off"]
      BY <1>3 DEF SlackFires, BandwidthInv, BandwidthTypeOK, Callback, Timers
    <3>. QED
      BY <3>1, <3>2
  <2>2. /\ cb' \in [Timers -> Callback] /\ cb'["period"] = cb["period"]
        /\ \A t \in Timers : cb'[t].at \in {"visit", "advance"} => cb'[t] = cb[t]
    BY <2>1 DEF BandwidthInv, BandwidthTypeOK, Callback, Timers
  <2>3. /\ WalksOnCPUs' /\ ~Refilled
    BY <1>1, <1>2, <2>2 DEF BandwidthInv, WalksOnCPUs, Refilled
  <2>4. pool' \in Pool /\ pool'.runtime = pool.runtime /\ pool'.elsewhere = pool.elsewhere
    BY <1>1, <1>3 DEF SlackFires, Pool
  <2>5. cursor' \in [Timers -> CPUs \cup {ListHead}]
    BY <1>2 DEF BandwidthInv, BandwidthTypeOK
  <2>. QED
    BY <1>2, <2>2, <2>3, <2>4, <2>5, TimerStepInv
<1>4. CASE OtherStep
  <2>1. cb' = cb
    BY <1>4 DEF OtherStep
  <2>2. /\ cb' \in [Timers -> Callback] /\ cursor' \in [Timers -> CPUs \cup {ListHead}]
        /\ WalksOnCPUs' /\ ~Refilled
    BY <1>1, <1>2, <2>1 DEF BandwidthInv, BandwidthTypeOK, WalksOnCPUs, Refilled
  <2>3. CASE OthersTake
    <3> DEFINE p == StartPeriod(pool)
               m == p.runtime - Elsewhere
    <3>1. pool' = [p EXCEPT !.runtime = m, !.idle = 0, !.elsewhere = Elsewhere]
      BY <2>3 DEF OthersTake
    <3>2. p \in Pool /\ p.runtime = pool.runtime
      BY <1>1, StartPeriodOf
    <3>3. m \in Nat /\ Elsewhere \in Nat /\ m + Elsewhere = pool.runtime + pool.elsewhere
      BY <1>1, <2>3, <3>2, BandwidthAssumption DEF OthersTake
    <3> HIDE DEF m, p
    <3>4. pool' \in Pool /\ pool'.runtime = m /\ pool'.elsewhere = Elsewhere
      BY <3>1, <3>2, <3>3 DEF Pool
    <3>. QED
      BY <1>2, <2>2, <3>3, <3>4, TimerStepInv
  <2>4. CASE OthersRun
    <3>1. pool' \in Pool /\ pool'.runtime = pool.runtime /\ pool'.elsewhere = 0
      BY <1>1, <2>4 DEF OthersRun, Pool
    <3>2. pool'.runtime + pool'.elsewhere <= pool.runtime + pool.elsewhere
      BY <1>1, <3>1
    <3>. QED
      BY <1>2, <2>2, <2>4, <3>1, <3>2, TimerStepInv
  <2>5. CASE OthersReturn
    <3>1. PICK soon \in BOOLEAN :
            LET other == [remaining |-> MinRuntime + pool.elsewhere, enabled |-> TRUE, nr |-> 0]
            IN  pool' = [ReturnRuntime([pool |-> pool, rq |-> other], soon).pool
                           EXCEPT !.elsewhere = 0]
      BY <2>5 DEF OthersReturn
    <3> DEFINE other == [remaining |-> MinRuntime + pool.elsewhere, enabled |-> TRUE, nr |-> 0]
               s == [pool |-> pool, rq |-> other]
               m == pool.runtime + pool.elsewhere
               p == [pool EXCEPT !.runtime = m]
    <3>2. MinRuntime \in Nat /\ pool.elsewhere > 0 /\ m \in Nat
      BY <1>1, <2>5, BandwidthAssumption DEF OthersReturn
    <3>3. PICK b \in BOOLEAN : ReturnRuntime(s, soon).pool = [p EXCEPT !.slack_started = b]
      <4> DEFINE slack == s.rq.remaining - MinRuntime
                 v     == [s.pool EXCEPT !.runtime = s.pool.runtime + slack]
                 start == v.runtime > Slice /\ throttled_cfs_rq # << >> /\ ~soon
                 b     == v.slack_started \/ start
      <4>1. slack = pool.elsewhere /\ s.rq.enabled /\ ~(s.rq.nr > 0) /\ ~(slack <= 0)
        BY <1>1, <3>2
      <4>2. v = p
        BY <4>1
      <4>3. ReturnRuntime(s, soon).pool = [v EXCEPT !.slack_started = b]
        BY <4>1 DEF ReturnRuntime
      <4>4. b \in BOOLEAN
        OBVIOUS
      <4> HIDE DEF b, v
      <4>. QED
        BY <4>2, <4>3, <4>4
    <3>4. pool' = [[p EXCEPT !.slack_started = b] EXCEPT !.elsewhere = 0]
      BY <3>1, <3>3
    <3> HIDE DEF m
    <3>5. pool' \in Pool /\ pool'.runtime = m /\ pool'.elsewhere = 0
      BY <1>1, <3>2, <3>4 DEF Pool
    <3>6. pool'.runtime + pool'.elsewhere = pool.runtime + pool.elsewhere
      BY <3>2, <3>5 DEF m
    <3>. QED
      BY <1>2, <2>2, <3>5, <3>6, TimerStepInv
  <2>. QED
    BY <1>4, <2>3, <2>4, <2>5 DEF OtherStep
<1>. QED
  BY <1>3, <1>4

-----------------------------------------------------------------------------
(* The specification *)

LEMMA InitBandwidthInv == Init => BandwidthInv
<1> SUFFICES ASSUME Init PROVE BandwidthInv
  OBVIOUS
<1>1. pool \in Pool
  BY BandwidthAssumption DEF Init, Pool
<1>2. rq \in [CPUs -> CfsRq] /\ \A c \in CPUs : ~rq[c].throttled
  BY DEF Init, CfsRq
<1>3. cb \in [Timers -> Callback] /\ \A t \in Timers : cb[t].at = "off" /\ cb[t].count = 0
  BY DEF Init, Callback
<1>4. BandwidthTypeOK
  BY <1>1, <1>2, <1>3 DEF Init, BandwidthTypeOK
<1>5. Lists(throttled_cfs_rq, {c \in CPUs : rq[c].throttled})
  BY <1>2 DEF Init, Lists
<1>. QED
  BY <1>2, <1>3, <1>4, <1>5 DEF BandwidthInv, WalksOnCPUs, InDebt, Timers

LEMMA NextBandwidthInv ==
  ASSUME BandwidthInv, Next
  PROVE  BandwidthInv' /\ Conserving
<1>1. ASSUME NEW c \in CPUs, CpuStep(c) PROVE BandwidthInv' /\ Conserving
  BY <1>1, TaskStepInv, PickOnlineInv, OfflineInv DEF CpuStep
<1>2. ASSUME NEW t \in Timers, WalkStep(t) PROVE BandwidthInv' /\ Conserving
  BY <1>2, StartAdvanceInv, VisitInv DEF WalkStep
<1>. QED
  BY <1>1, <1>2, PeriodInv, SlackOtherInv DEF Next

LEMMA BandwidthInvariant == Spec => []BandwidthInv
<1>1. BandwidthInv /\ UNCHANGED bwVars => BandwidthInv'
  BY DEF bwVars, BandwidthInv, BandwidthTypeOK, WalksOnCPUs, InDebt, Lists
<1>2. BandwidthInv /\ [Next]_bwVars => BandwidthInv'
  BY <1>1, NextBandwidthInv
<1>. QED
  BY InitBandwidthInv, <1>2, PTL DEF Spec

\* The throttled list holds exactly the CPUs that are throttled, once each, and they are in
\* debt, however the two callbacks and the CPUs interleave (fair.c:5187, 5252, 5334-5335).
THEOREM ThrottledListIsRight == Spec => []ThrottledAreInDebt
<1>1. BandwidthInv => ThrottledAreInDebt
  BY ListsRange DEF BandwidthInv, BandwidthTypeOK, InDebt, ThrottledAreInDebt
<1>. QED
  BY <1>1, BandwidthInvariant, PTL

\* Runtime moves between the pool and one CPU at a time, and only the refill makes any
\* (fair.c:4977-5034, 5321-5364, 5474-5496).
THEOREM RuntimeIsConserved == Spec => RuntimeConserved
<1>1. BandwidthInv /\ [Next]_bwVars => [Conserving]_bwVars
  BY NextBandwidthInv
<1>. QED
  BY <1>1, BandwidthInvariant, PTL DEF Spec, RuntimeConserved

-----------------------------------------------------------------------------
(* Load tracking *)

\* An average whose sum covers it
CoveredAvg == {sa \in [sum : Nat, avg : Nat, age : Nat] : sa.sum >= sa.avg * MinDivider}

\* What the operators on the queues transform
Queues == [grq : CoveredAvg, ge : CoveredAvg, root : CoveredAvg, removed : Nat \cup {None},
           propagate : BOOLEAN, contrib : Nat, on_list : BOOLEAN]

PeltTypeOK ==
  /\ phase \in 0 .. Period - 1
  /\ q \in Queues
  /\ se \in [Tasks -> CoveredAvg]
  /\ at \in [Tasks -> {"away", "queued", "sleeping", "removing"}]

-----------------------------------------------------------------------------
(* Arithmetic *)

LEMMA PowerOfTwo ==
  ASSUME NEW n \in Nat
  PROVE  2^n \in Nat \ {0} /\ (n > 0 => 2^n >= 2)
<1> DEFINE S == 1 .. n
<1>1. IsFiniteSet(S) /\ Cardinality(S) = n
  BY FS_Interval
<1>2. IsFiniteSet(SUBSET S) /\ Cardinality(SUBSET S) = 2^n
  BY <1>1, FS_SUBSET
<1>3. Cardinality(SUBSET S) \in Nat /\ Cardinality(SUBSET S) # 0
  BY <1>2, FS_CardinalityType, FS_EmptySet
<1>4. ASSUME n > 0
      PROVE  Cardinality(SUBSET S) >= 2
  <2> DEFINE P == {{}, {1}}
  <2>1. P \subseteq SUBSET S
    BY <1>4
  <2>2. Cardinality(P) = 2
    <3> DEFINE One == {{1}}
               Both == One \cup {{}}
    <3>1. IsFiniteSet(One) /\ Cardinality(One) = 1
      BY FS_Singleton
    <3>2. P = Both /\ {} \notin One
      OBVIOUS
    <3> HIDE DEF P, One
    <3>3. Cardinality(Both) = Cardinality(One) + 1
      BY <3>1, <3>2, FS_AddElement
    <3>. QED
      BY <3>1, <3>2, <3>3
  <2>3. Cardinality(P) <= Cardinality(SUBSET S)
    BY <1>2, <2>1, FS_Subset
  <2>. QED
    BY <1>3, <2>2, <2>3
<1>. QED
  BY <1>2, <1>3, <1>4

LEMMA Halved ==
  ASSUME NEW x \in Nat, NEW n \in Nat
  PROVE  Decay(x, n) \in Nat /\ Decay(x, n) <= x /\ (n = 0 => Decay(x, n) = x)
                             /\ (n > 0 => 2 * Decay(x, n) <= x)
<1> DEFINE b == 2^n
           d == x \div b
<1>1. b \in Nat \ {0} /\ (n > 0 => b >= 2)
  BY PowerOfTwo
<1>2. n = 0 => b = 1
  OBVIOUS
<1> HIDE DEF b
<1>3. d \in Nat /\ d * b <= x /\ x < (d + 1) * b
  BY <1>1
<1> HIDE DEF d
<1>4. d <= d * b
  BY <1>1, <1>3
<1>5. n > 0 => 2 * d <= d * b
  BY <1>1, <1>3
<1>6. n = 0 => d = x
  BY <1>1, <1>2, <1>3
<1>. QED
  BY <1>3, <1>4, <1>5, <1>6 DEF d, b, Decay

LEMMA Quotient ==
  ASSUME NEW x \in Nat, NEW d \in Nat \ {0}
  PROVE  x \div d \in Nat /\ (x \div d) * d <= x
OBVIOUS

-----------------------------------------------------------------------------
(* An average *)

LEMMA Bounds ==
  /\ Period \in Nat \ {0} /\ Capacity \in Nat \ {0} /\ Tolerance \in Nat \ {0}
  /\ IsFiniteSet(Tasks) /\ MinDivider = Period /\ LoadAvgMax = 2 * Period
BY PeltAssumption DEF MinDivider, LoadAvgMax

LEMMA DividerBounds ==
  ASSUME phase \in 0 .. Period - 1, NEW age \in Nat
  PROVE  /\ PeriodContrib(age) \in 0 .. Period - 1
         /\ Divider(age) \in Nat \ {0} /\ Divider(age) >= MinDivider
<1>1. PeriodContrib(age) \in 0 .. Period - 1
  BY Bounds DEF PeriodContrib
<1>. QED
  BY <1>1, Bounds DEF Divider

\* Time that went by counts as something, in whatever part of a period.
LEMMA SegmentsOf ==
  ASSUME NEW p \in Nat \ {0}, NEW d1 \in Nat, NEW d3 \in Nat
  PROVE  Segments(p, d1, d3) \in Nat
<1>1. Decay(d1, p) \in Nat
  BY Halved
<1>2. Decay(LoadAvgMax, p) \in Nat /\ 2 * Decay(LoadAvgMax, p) <= LoadAvgMax
  BY Halved, Bounds
<1> DEFINE x == Decay(LoadAvgMax, p)
           y == Decay(d1, p)
<1>3. Segments(p, d1, d3) = y + (LoadAvgMax - x - Period) + d3
  BY DEF Segments
<1>4. x \in Nat /\ y \in Nat /\ 2 * x <= LoadAvgMax
  BY <1>1, <1>2
<1> HIDE DEF x, y
<1>. QED
  BY <1>3, <1>4, Bounds

\* An average stays covered as time goes by, and is the same within a period.
LEMMA UpdateAvgOf ==
  ASSUME phase \in 0 .. Period - 1,
         NEW sa \in CoveredAvg, NEW n \in Nat, NEW to \in Nat
  PROVE  /\ UpdateAvg(sa, n, to) \in CoveredAvg
         /\ Periods(sa, to) <= 0 => UpdateAvg(sa, n, to).avg = sa.avg
<1> DEFINE p   == Periods(sa, to)
           c   == PeriodContrib(sa.age)
           c3  == PeriodContrib(to)
           new == IF n = 0 THEN 0
                  ELSE IF p = 0 THEN sa.age - to ELSE Segments(p, Period - c, c3)
           old == Decay(sa.sum, p)
           sum == old + n * new * Capacity
           div == Divider(to)
           avg == sum \div div
<1>1. /\ sa.sum \in Nat /\ sa.avg \in Nat /\ sa.age \in Nat
      /\ sa = [sum |-> sa.sum, avg |-> sa.avg, age |-> sa.age]
      /\ sa.sum >= sa.avg * MinDivider
  BY DEF CoveredAvg
<1>2. CASE sa.age <= to
  <2>1. UpdateAvg(sa, n, to) = [sa EXCEPT !.age = to]
    BY <1>2 DEF UpdateAvg
  <2>. QED
    BY <1>1, <2>1 DEF CoveredAvg
<1>3. CASE ~(sa.age <= to)
  <2>1. UpdateAvg(sa, n, to)
          = [sum |-> sum, age |-> to, avg |-> IF p = 0 THEN sa.avg ELSE avg]
    BY <1>3 DEF UpdateAvg
  <2>2. /\ c \in 0 .. Period - 1 /\ c3 \in 0 .. Period - 1
        /\ div \in Nat \ {0} /\ div >= MinDivider
    BY <1>1, DividerBounds
  <2>3. p \in Nat
    <3>1. p = (c + sa.age - to) \div Period
      BY DEF Periods
    <3> HIDE DEF p, c
    <3>. QED
      BY <1>1, <1>3, <2>2, <3>1, Bounds
  <2>4. new \in Nat
    <3>1. p # 0 => Segments(p, Period - c, c3) \in Nat
      <4>1. Period - c \in Nat /\ c3 \in Nat
        BY <2>2, Bounds
      <4> HIDE DEF p, c, c3
      <4>. QED
        BY <2>3, <4>1, SegmentsOf
    <3>2. sa.age - to \in Nat
      BY <1>1, <1>3
    <3> HIDE DEF p, c, c3
    <3>. QED
      BY <3>1, <3>2
  <2>5. old \in Nat /\ (p = 0 => old = sa.sum)
    <3> HIDE DEF p
    <3>. QED
      BY <1>1, <2>3, Halved
  <2>6. sum \in Nat /\ sum >= old
    <3>1. n * new \in Nat
      <4> HIDE DEF new
      <4>. QED
        BY <2>4
    <3>2. n * new * Capacity \in Nat
      <4> DEFINE k == n * new
      <4>1. k \in Nat
        BY <3>1
      <4> HIDE DEF k
      <4>2. k * Capacity \in Nat
        BY <4>1, Bounds
      <4>. QED
        BY <4>2 DEF k
    <3> DEFINE k == n * new * Capacity
    <3>3. k \in Nat /\ sum = old + k
      BY <3>2
    <3> HIDE DEF k, old, sum
    <3>. QED
      BY <2>5, <3>3
  <2>7. avg \in Nat /\ sum >= avg * MinDivider
    <3> HIDE DEF sum, div
    <3>1. avg \in Nat /\ avg * div <= sum
      BY <2>2, <2>6, Quotient
    <3> HIDE DEF avg
    <3>2. avg * MinDivider <= avg * div
      BY <2>2, <3>1, Bounds
    <3>. QED
      BY <2>2, <2>6, <3>1, <3>2, Bounds
  <2>8. p = 0 => sum >= sa.avg * MinDivider
    <3> HIDE DEF sum, old, p
    <3>. QED
      BY <1>1, <2>5, <2>6, Bounds
  <2> HIDE DEF sum, avg, p
  <2>9. Periods(sa, to) = p
    BY DEF p
  <2>. QED
    BY <1>1, <2>1, <2>3, <2>6, <2>7, <2>8, <2>9 DEF CoveredAvg
<1>. QED
  BY <1>2, <1>3

LEMMA PeriodsOf ==
  ASSUME phase \in 0 .. Period - 1, NEW sa \in CoveredAvg
  PROVE  Periods(sa, 0) \in Int
<1>1. PeriodContrib(sa.age) \in Int /\ sa.age \in Int
  BY DividerBounds DEF CoveredAvg
<1>. QED
  BY <1>1, Bounds DEF Periods

LEMMA SubPositiveOf ==
  ASSUME NEW x \in Nat, NEW y \in Nat
  PROVE  SubPositive(x, y) \in Nat /\ (y = 0 => SubPositive(x, y) = x)
<1> DEFINE d == x - y
<1>1. d \in Int /\ SubPositive(x, y) = Max({d, 0})
  BY DEF SubPositive
<1>2. y = 0 => d = x
  OBVIOUS
<1> HIDE DEF d
<1>3. Max({d, 0}) \in {d, 0} /\ Max({d, 0}) >= d /\ Max({d, 0}) >= 0
  BY <1>1, MaxOfTwo
<1>. QED
  BY <1>1, <1>2, <1>3

\* What is left when an average is taken away is covered: the sum keeps up with it.
LEMMA MinusOf ==
  ASSUME NEW sa \in CoveredAvg, NEW avg \in Nat, NEW sum \in Nat
  PROVE  /\ Minus(sa, avg, sum) \in CoveredAvg
         /\ Minus(sa, avg, sum).age = sa.age
         /\ avg = 0 => Minus(sa, avg, sum).avg = sa.avg
<1> DEFINE left == SubPositive(sa.avg, avg)
           a == SubPositive(sa.sum, sum)
           b == left * MinDivider
           m == Max({a, b})
<1>1. sa.avg \in Nat /\ sa.sum \in Nat /\ sa.age \in Nat
  BY DEF CoveredAvg
<1>2. left \in Nat /\ a \in Nat /\ (avg = 0 => left = sa.avg)
  BY <1>1, SubPositiveOf
<1>3. b \in Nat
  <2> HIDE DEF left
  <2>. QED
    BY <1>2, Bounds
<1>4. m \in Nat /\ m >= b
  <2> HIDE DEF a, b
  <2>. QED
    BY <1>2, <1>3, MaxOfTwo
<1>5. Minus(sa, avg, sum) = [sum |-> m, avg |-> left, age |-> sa.age]
  <2>1. Minus(sa, avg, sum) = [sa EXCEPT !.avg = left, !.sum = m]
    BY Zenon DEF Minus
  <2> HIDE DEF left, m
  <2>. QED
    BY <2>1 DEF CoveredAvg
<1> HIDE DEF m, left
<1>. QED
  BY <1>1, <1>2, <1>4, <1>5 DEF CoveredAvg

-----------------------------------------------------------------------------
(* The queues *)

\* What the group has not been told is small.
Small(s) == LET delta == s.grq.avg - s.contrib
            IN  Max({delta, -delta}) <= s.contrib \div Tolerance

LEMMA SmallIs ==
  ASSUME NEW s \in Queues
  PROVE  UpdateTg(s) = s <=> Small(s)
<1> DEFINE delta == s.grq.avg - s.contrib
           minus == -delta
           m == Max({delta, minus})
           k == s.contrib \div Tolerance
<1>1. /\ s.grq.avg \in Nat /\ s.contrib \in Nat
  BY DEF Queues, CoveredAvg
<1>2. delta \in Int /\ k \in Nat
  BY <1>1, Bounds
<1>3. m \in {delta, minus} /\ m \in Int
  <2>1. minus \in Int
    BY <1>2
  <2> HIDE DEF delta, minus
  <2>. QED
    BY <1>2, <2>1, MaxOfTwo
<1>4. UpdateTg(s) = IF m > k THEN [s EXCEPT !.contrib = s.grq.avg] ELSE s
  BY DEF UpdateTg
<1>5. Small(s) <=> m <= k
  BY DEF Small
<1>6. [s EXCEPT !.contrib = s.grq.avg] = s => m = 0
  <2>. SUFFICES ASSUME [s EXCEPT !.contrib = s.grq.avg] = s
                PROVE  m = 0
    OBVIOUS
  <2>1. s.contrib = s.grq.avg
    BY DEF Queues
  <2>2. delta = 0 /\ minus = 0
    BY <1>1, <2>1
  <2> HIDE DEF delta, minus, m
  <2>. QED
    BY <1>3, <2>2
<1> HIDE DEF m, k
<1>. QED
  BY <1>2, <1>3, <1>4, <1>5, <1>6

LEMMA UpdateTgOf ==
  ASSUME NEW s \in Queues
  PROVE  UpdateTg(s) \in Queues /\ Small(UpdateTg(s))
<1> DEFINE t == [s EXCEPT !.contrib = s.grq.avg]
<1>1. t \in Queues
  BY DEF Queues, CoveredAvg
<1>2. Small(t)
  <2>1. t.grq.avg = s.grq.avg /\ t.contrib = s.grq.avg /\ s.grq.avg \in Nat
    BY DEF Queues, CoveredAvg
  <2>2. t.grq.avg - t.contrib = 0 /\ t.contrib \div Tolerance \in Nat
    BY <2>1, Bounds
  <2> DEFINE delta == t.grq.avg - t.contrib
             minus == -delta
             m == Max({delta, minus})
             k == t.contrib \div Tolerance
  <2>3. delta = 0 /\ minus = 0 /\ k \in Nat
    BY <2>2
  <2>4. m = 0
    <3> HIDE DEF delta, minus
    <3>. QED
      BY <2>3, MaxOfTwo
  <2>5. Small(t) <=> m <= k
    BY DEF Small
  <2> HIDE DEF m, k
  <2>. QED
    BY <2>3, <2>4, <2>5
<1>3. UpdateTg(s) \in {s, t}
  BY DEF UpdateTg
<1>4. UpdateTg(s) = s => Small(s)
  BY SmallIs
<1> HIDE DEF t
<1>. QED
  BY <1>1, <1>2, <1>3, <1>4

LEMMA RemovedOf ==
  ASSUME NEW s \in Queues
  PROVE  Removed(s) \in Nat /\ (s.removed = None => Removed(s) = 0)
<1> DEFINE m == s.removed
<1>1. m \in Int /\ (m \in Nat \/ m = -1)
  BY DEF Queues, None
<1> HIDE DEF m
<1>2. Max({m, 0}) \in {m, 0} /\ Max({m, 0}) >= m /\ Max({m, 0}) >= 0
  <2>1. m \in Int /\ 0 \in Int
    BY <1>1
  <2>. QED
    BY <2>1, MaxOfTwo
<1>3. Removed(s) = Max({m, 0})
  BY DEF Removed, m
<1>. QED
  BY <1>1, <1>2, <1>3 DEF m, None

\* Only a change of load, or one that was handed over, moves the average of the queue.
LEMMA UpdateCfsRqOf ==
  ASSUME phase \in 0 .. Period - 1, NEW s \in Queues, NEW n \in Nat
  PROVE  /\ UpdateCfsRq(s, n) \in Queues
         /\ UpdateCfsRq(s, n).contrib = s.contrib
         /\ ~Decayed(s) => UpdateCfsRq(s, n).grq.avg = s.grq.avg
<1> DEFINE r == Removed(s)
           less == Minus(s.grq, r, r * Divider(s.grq.age))
           x == UpdateAvg(less, n, 0)
<1>1. s.grq \in CoveredAvg /\ s.grq.age \in Nat
  BY DEF Queues, CoveredAvg
<1>2. r \in Nat /\ (s.removed = None => r = 0)
  BY RemovedOf
<1>3. r * Divider(s.grq.age) \in Nat
  <2> DEFINE d == Divider(s.grq.age)
  <2>1. d \in Nat
    BY <1>1, DividerBounds
  <2> HIDE DEF r, d
  <2>2. r * d \in Nat
    BY <1>2, <2>1
  <2>. QED
    BY <2>2 DEF d
<1>4. /\ less \in CoveredAvg /\ less.age = s.grq.age
      /\ r = 0 => less.avg = s.grq.avg
  <2> HIDE DEF r
  <2>. QED
    BY <1>1, <1>2, <1>3, MinusOf
<1>5. x \in CoveredAvg /\ (Periods(less, 0) <= 0 => x.avg = less.avg)
  <2> HIDE DEF less
  <2>. QED
    BY <1>4, UpdateAvgOf
<1>6. Periods(less, 0) = Periods(s.grq, 0) /\ Periods(s.grq, 0) \in Int
  <2> HIDE DEF less
  <2>1. Periods(less, 0) = Periods(s.grq, 0)
    BY <1>4 DEF Periods
  <2>. QED
    BY <1>1, <2>1, PeriodsOf
<1>7. UpdateCfsRq(s, n) = [s EXCEPT !.grq = x, !.removed = None,
                                    !.propagate = @ \/ s.removed # None]
  BY DEF UpdateCfsRq
<1>8. UpdateCfsRq(s, n) \in Queues /\ UpdateCfsRq(s, n).grq = x
      /\ UpdateCfsRq(s, n).contrib = s.contrib
  <2> HIDE DEF x
  <2>. QED
    BY <1>5, <1>7 DEF Queues
<1>9. ~Decayed(s) => s.removed = None /\ Periods(s.grq, 0) <= 0
  BY <1>6 DEF Decayed
<1> HIDE DEF x, less, r
<1>. QED
  BY <1>2, <1>4, <1>5, <1>6, <1>8, <1>9

LEMMA PropagateOf ==
  ASSUME phase \in 0 .. Period - 1, NEW s \in Queues
  PROVE  /\ Propagate(s) \in Queues
         /\ Propagate(s).grq = s.grq /\ Propagate(s).contrib = s.contrib
<1> DEFINE delta == s.grq.avg - s.ge.avg
           div   == Divider(s.root.age)
           sum   == s.grq.avg * div
           low   == s.root.avg + delta
           avg   == Max({low, 0})
           base  == avg * MinDivider
           more  == s.root.sum + sum - s.ge.sum
           top   == Max({more, base})
           ge    == [s.ge EXCEPT !.avg = s.grq.avg, !.sum = sum]
           root  == [s.root EXCEPT !.avg = avg, !.sum = top]
<1>1. /\ s.grq \in CoveredAvg /\ s.ge \in CoveredAvg /\ s.root \in CoveredAvg
      /\ s.grq.avg \in Nat /\ s.ge.avg \in Nat /\ s.ge.sum \in Nat
      /\ s.root.avg \in Nat /\ s.root.sum \in Nat /\ s.root.age \in Nat
  BY DEF Queues, CoveredAvg
<1>2. div \in Nat \ {0} /\ div >= MinDivider
  BY <1>1, DividerBounds
<1>3. sum \in Nat /\ sum >= s.grq.avg * MinDivider
  <2> HIDE DEF div
  <2>. QED
    BY <1>1, <1>2, Bounds
<1>4. avg \in Nat /\ base \in Nat
  <2>1. low \in Int
    BY <1>1
  <2> HIDE DEF low
  <2>2. avg \in Nat
    BY <2>1, MaxOfTwo
  <2> HIDE DEF avg
  <2>. QED
    BY <2>2, Bounds
<1>5. top \in Nat /\ top >= base
  <2> HIDE DEF sum, base
  <2>1. more \in Int
    BY <1>1, <1>3
  <2>2. base \in Int
    BY <1>4
  <2> HIDE DEF more
  <2>3. top \in {more, base} /\ top >= base
    BY <2>1, <2>2, MaxOfTwo
  <2> HIDE DEF top
  <2>. QED
    BY <1>4, <2>1, <2>3
<1>6. ge \in CoveredAvg
  <2> HIDE DEF sum
  <2>. QED
    BY <1>1, <1>3 DEF CoveredAvg
<1>7. root \in CoveredAvg
  <2> HIDE DEF avg, top
  <2>. QED
    BY <1>1, <1>4, <1>5 DEF CoveredAvg
<1>8. Propagate(s) \in {s, [s EXCEPT !.propagate = FALSE],
                        [s EXCEPT !.propagate = FALSE, !.ge = ge, !.root = root]}
  <2> HIDE DEF sum, avg, top, delta
  <2>1. Propagate(s) = IF ~s.propagate THEN s
                       ELSE IF delta = 0 THEN [s EXCEPT !.propagate = FALSE]
                       ELSE [s EXCEPT !.propagate = FALSE,
                                      !.ge.avg = s.grq.avg, !.ge.sum = sum,
                                      !.root.avg = avg, !.root.sum = top]
    BY DEF Propagate, sum, avg, top, delta
  <2>2. [s EXCEPT !.propagate = FALSE, !.ge.avg = s.grq.avg, !.ge.sum = sum,
                  !.root.avg = avg, !.root.sum = top]
          = [s EXCEPT !.propagate = FALSE, !.ge = ge, !.root = root]
    BY DEF Queues, CoveredAvg
  <2>. QED
    BY <2>1, <2>2
<1> HIDE DEF ge, root
<1>. QED
  BY <1>6, <1>7, <1>8 DEF Queues

\* The entity and the root follow; the queue and what the group knows of it stay.
LEMMA SettleOf ==
  ASSUME phase \in 0 .. Period - 1, NEW x \in Queues, NEW n \in Nat, Settle(x, n)
  PROVE  q' \in Queues /\ q'.grq = x.grq /\ q'.contrib = x.contrib
<1> DEFINE u == [x EXCEPT !.ge = UpdateAvg(@, n, 0), !.root = UpdateAvg(@, n, 0)]
<1>1. q' = Propagate(u)
  BY DEF Settle
<1>2. UpdateAvg(x.ge, n, 0) \in CoveredAvg /\ UpdateAvg(x.root, n, 0) \in CoveredAvg
  BY UpdateAvgOf DEF Queues
<1>3. u \in Queues /\ u.grq = x.grq /\ u.contrib = x.contrib
  BY <1>2 DEF Queues
<1> HIDE DEF u
<1>. QED
  BY <1>1, <1>3, PropagateOf

\* The group is told of what differs from the queue as it is, but for a small part.
Told(x) == Small(x) \/ (x.grq.avg = q.grq.avg /\ x.contrib = q.contrib)

\* The same after an update of the queue, of which the group is told if it changed anything
LEMMA UpdatedOf ==
  ASSUME PeltTypeOK, NEW n \in Nat, NEW update_tg \in BOOLEAN
  PROVE  /\ UpdateCfsRq(q, n) \in Queues
         /\ Updated(UpdateCfsRq(q, n), update_tg) \in Queues
         /\ update_tg => Told(Updated(UpdateCfsRq(q, n), update_tg))
<1> DEFINE s == UpdateCfsRq(q, n)
<1>1. s \in Queues /\ s.contrib = q.contrib /\ (~Decayed(q) => s.grq.avg = q.grq.avg)
  BY UpdateCfsRqOf DEF PeltTypeOK
<1> HIDE DEF s
<1>2. CASE update_tg /\ Decayed(q)
  BY <1>1, <1>2, UpdateTgOf DEF Updated, Told, s
<1>3. CASE ~(update_tg /\ Decayed(q))
  BY <1>1, <1>3 DEF Updated, Told, s
<1>. QED
  BY <1>2, <1>3

LEMMA Runners == NrRunning \in Nat
<1>1. Runnable \in SUBSET Tasks
  BY DEF Runnable
<1>. QED
  BY <1>1, Bounds, FS_Subset, FS_CardinalityType DEF NrRunning

-----------------------------------------------------------------------------
(* The invariant *)

LEMMA ZeroCovered == Zero \in CoveredAvg
BY Bounds DEF Zero, CoveredAvg

LEMMA PeltInitType == PeltInit => PeltTypeOK
BY ZeroCovered, Bounds DEF PeltInit, PeltTypeOK, Queues, None

\* Time that goes by changes ages only.
LEMMA OlderOf ==
  ASSUME NEW sa \in CoveredAvg, NEW idle
  PROVE  Older(sa, idle) \in CoveredAvg /\ Older(sa, idle).avg = sa.avg
<1> DEFINE gone == idle /\ Decay(sa.sum, sa.age \div Period) = 0
           age == IF gone /\ sa.age >= Period THEN sa.age + 1 - Period ELSE sa.age + 1
<1>1. age \in Nat
  <2> HIDE DEF gone
  <2>. QED
    BY Bounds DEF CoveredAvg
<1>2. Older(sa, idle) = [sa EXCEPT !.age = age]
  BY DEF Older
<1> HIDE DEF age
<1>. QED
  BY <1>1, <1>2 DEF CoveredAvg

LEMMA PeltTime == PeltTypeOK /\ Time => PeltTypeOK' /\ Told(q')
<1>. SUFFICES ASSUME PeltTypeOK, Time
              PROVE  PeltTypeOK' /\ Told(q')
  OBVIOUS
<1> DEFINE idle == Runnable = {}
<1>1. q \in Queues /\ q.grq \in CoveredAvg /\ q.ge \in CoveredAvg /\ q.root \in CoveredAvg
  BY DEF PeltTypeOK, Queues
<1>2. q' = [q EXCEPT !.grq = Older(@, idle), !.ge = Older(@, idle), !.root = Older(@, idle)]
  BY DEF Time
<1>3. /\ Older(q.grq, idle) \in CoveredAvg /\ Older(q.grq, idle).avg = q.grq.avg
      /\ Older(q.ge, idle) \in CoveredAvg /\ Older(q.root, idle) \in CoveredAvg
  <2> HIDE DEF idle
  <2>. QED
    BY <1>1, OlderOf
<1>4. q' \in Queues /\ q'.grq.avg = q.grq.avg /\ q'.contrib = q.contrib
  <2> HIDE DEF idle
  <2>. QED
    BY <1>1, <1>2, <1>3 DEF Queues
<1>5. phase' \in 0 .. Period - 1
  BY Bounds DEF Time, PeltTypeOK
<1>6. se' \in [Tasks -> CoveredAvg]
  <2>1. \A t \in Tasks : se[t] \in CoveredAvg
    BY DEF PeltTypeOK
  <2>2. \A t \in Tasks : Older(se[t], at[t] # "queued") \in CoveredAvg
    BY <2>1, OlderOf
  <2>. QED
    BY <2>2, ZeroCovered DEF Time
<1>7. at' = at
  BY DEF Time
<1>. QED
  BY <1>4, <1>5, <1>6, <1>7 DEF PeltTypeOK, Told

\* What is left to show of an operation: where it leaves the queues and a task
LEMMA PeltKept ==
  ASSUME PeltTypeOK, phase' = phase, q' \in Queues,
         NEW t \in Tasks, NEW sa \in CoveredAvg, se' = [se EXCEPT ![t] = sa],
         NEW to \in {"away", "queued", "sleeping", "removing"}, at' = [at EXCEPT ![t] = to]
  PROVE  PeltTypeOK'
BY DEF PeltTypeOK

LEMMA PeltStep ==
  PeltTypeOK /\ [PeltNext]_pVars
    => PeltTypeOK' /\ (Told(q') \/ \E t \in Tasks : Put(t))
<1> DEFINE Goal == PeltTypeOK' /\ Told(q')
<1>. SUFFICES ASSUME PeltTypeOK, [PeltNext]_pVars
              PROVE  Goal \/ (PeltTypeOK' /\ \E t \in Tasks : Put(t))
  OBVIOUS
<1>0. /\ phase \in 0 .. Period - 1 /\ q \in Queues
      /\ \A t \in Tasks : se[t] \in CoveredAvg
  BY DEF PeltTypeOK
<1> DEFINE n == NrRunning
           s == UpdateCfsRq(q, n)
<1>n. n \in Nat
  BY Runners
<1>s. /\ s \in Queues /\ Updated(s, TRUE) \in Queues /\ Updated(s, FALSE) \in Queues
      /\ Told(Updated(s, TRUE))
  <2> HIDE DEF n
  <2>. QED
    BY <1>n, UpdatedOf
<1>1. ASSUME Time
      PROVE  Goal
  BY <1>1, PeltTime
<1>2. ASSUME UpdateBlocked
      PROVE  Goal
  <2> DEFINE new == [Updated(s, TRUE) EXCEPT !.on_list = n > 0 \/ s.grq.sum > 0]
  <2>1. new \in Queues /\ Told(new)
    <3> HIDE DEF s
    <3>. QED
      BY <1>s DEF Queues, Small, Told
  <2>2. q' = [new EXCEPT !.root = UpdateAvg(@, n, 0)] \/ Settle(new, n)
    BY <1>2, Zenon DEF UpdateBlocked
  <2>3. phase' = phase /\ se' = se /\ at' = at
    BY <1>2 DEF UpdateBlocked
  <2> HIDE DEF new, s, n
  <2>4. q' \in Queues /\ q'.grq = new.grq /\ q'.contrib = new.contrib
    <3>1. CASE q' = [new EXCEPT !.root = UpdateAvg(@, n, 0)]
      <4>1. UpdateAvg(new.root, n, 0) \in CoveredAvg
        BY <1>0, <1>n, <2>1, UpdateAvgOf DEF Queues
      <4>. QED
        BY <2>1, <3>1, <4>1 DEF Queues
    <3>2. CASE Settle(new, n)
      BY <1>0, <1>n, <2>1, <3>2, SettleOf
    <3>. QED
      BY <2>2, <3>1, <3>2
  <2>. QED
    BY <2>1, <2>3, <2>4 DEF PeltTypeOK, Told, Small
<1>3. ASSUME NEW t \in Tasks, Wakeup(t)
      PROVE  Goal
  <2> DEFINE x == [Updated(s, TRUE) EXCEPT !.on_list = TRUE]
             sa == UpdateAvg(se[t], 0, 0)
  <2>1. x \in Queues /\ Told(x)
    <3> HIDE DEF s
    <3>. QED
      BY <1>s DEF Queues, Small, Told
  <2>2. Settle(x, n)
    BY <1>3, Zenon DEF Wakeup
  <2>3. sa \in CoveredAvg
    BY <1>0, UpdateAvgOf
  <2>4. phase' = phase /\ se' = [se EXCEPT ![t] = sa] /\ at' = [at EXCEPT ![t] = "queued"]
    BY <1>3 DEF Wakeup
  <2> HIDE DEF x, sa, s, n
  <2>5. q' \in Queues /\ q'.grq = x.grq /\ q'.contrib = x.contrib
    BY <1>0, <1>n, <2>1, <2>2, SettleOf
  <2>6. PeltTypeOK'
    BY <2>3, <2>4, <2>5, PeltKept
  <2>. QED
    BY <2>1, <2>5, <2>6 DEF Told, Small
<1>4. ASSUME NEW t \in Tasks, NEW then \in {"queued", "sleeping"}, Runs(t, then)
      PROVE  Goal
  <2> DEFINE sa == UpdateAvg(se[t], 1, 0)
             x == Updated(s, TRUE)
  <2>1. Settle(x, n)
    BY <1>4, Zenon DEF Runs
  <2>2. sa \in CoveredAvg
    BY <1>0, UpdateAvgOf
  <2>3. phase' = phase /\ se' = [se EXCEPT ![t] = sa] /\ at' = [at EXCEPT ![t] = then]
    BY <1>4 DEF Runs
  <2>4. x \in Queues /\ Told(x)
    BY <1>s
  <2> HIDE DEF x, sa, s, n
  <2>5. q' \in Queues /\ q'.grq = x.grq /\ q'.contrib = x.contrib
    BY <1>0, <1>n, <2>1, <2>4, SettleOf
  <2>6. PeltTypeOK'
    BY <2>2, <2>3, <2>5, PeltKept
  <2>. QED
    BY <2>4, <2>5, <2>6 DEF Told, Small
<1>S. ASSUME NEW t \in Tasks, NEW update_tg \in BOOLEAN, Switch(t, update_tg)
      PROVE  PeltTypeOK' /\ (update_tg => Told(q'))
  <2> DEFINE sa == UpdateAvg(se[t], 1, 0)
             x == Updated(s, update_tg)
  <2>1. q' = x \/ Settle(x, n)
    BY <1>S, Zenon DEF Switch
  <2>2. sa \in CoveredAvg
    BY <1>0, UpdateAvgOf
  <2>3. phase' = phase /\ se' = [se EXCEPT ![t] = sa] /\ at' = at
    BY <1>S DEF Switch
  <2>4. x \in Queues /\ (update_tg => Told(x))
    <3> HIDE DEF n
    <3>. QED
      BY <1>n, UpdatedOf
  <2> HIDE DEF x, sa, s, n
  <2>5. q' \in Queues /\ q'.grq = x.grq /\ q'.contrib = x.contrib
    BY <1>0, <1>n, <2>1, <2>4, SettleOf
  <2>6. PeltTypeOK'
    BY <2>2, <2>3, <2>5 DEF PeltTypeOK
  <2>. QED
    BY <2>4, <2>5, <2>6 DEF Told, Small
<1>5. ASSUME NEW t \in Tasks, Detach(t)
      PROVE  Goal
  <2> DEFINE own == UpdateAvg(se[t], 1, 0)
             less == [s EXCEPT !.grq = Minus(@, own.avg, own.sum), !.propagate = TRUE]
             x == UpdateTg(less)
  <2>1. Settle(x, n)
    <3>1. Settle(DetachEntity(s, own), n)
      BY <1>5, Zenon DEF Detach
    <3>. QED
      BY <3>1 DEF DetachEntity
  <2>2. own \in CoveredAvg
    BY <1>0, UpdateAvgOf
  <2> HIDE DEF own, s
  <2>3. Minus(s.grq, own.avg, own.sum) \in CoveredAvg
    BY <1>s, <2>2, MinusOf DEF Queues, CoveredAvg
  <2>4. less \in Queues
    BY <1>s, <2>3 DEF Queues
  <2> HIDE DEF less
  <2>5. x \in Queues /\ Small(x)
    BY <2>4, UpdateTgOf
  <2>6. phase' = phase /\ se' = [se EXCEPT ![t] = Zero] /\ at' = [at EXCEPT ![t] = "away"]
    BY <1>5 DEF Detach
  <2> HIDE DEF x, n
  <2>7. q' \in Queues /\ q'.grq = x.grq /\ q'.contrib = x.contrib
    BY <1>0, <1>n, <2>1, <2>5, SettleOf
  <2>8. PeltTypeOK'
    BY <2>6, <2>7, ZeroCovered, PeltKept
  <2>. QED
    BY <2>5, <2>7, <2>8 DEF Told, Small
<1>6. ASSUME NEW t \in Tasks, StartRemove(t)
      PROVE  Goal
  <2> DEFINE sa == UpdateAvg(se[t], 0, q.grq.age)
  <2>1. q.grq.age \in Nat
    BY <1>0 DEF Queues, CoveredAvg
  <2>2. sa \in CoveredAvg
    BY <1>0, <2>1, UpdateAvgOf
  <2>3. /\ phase' = phase /\ q' = q
        /\ se' = [se EXCEPT ![t] = sa] /\ at' = [at EXCEPT ![t] = "removing"]
    BY <1>6 DEF StartRemove
  <2> HIDE DEF sa
  <2>4. PeltTypeOK'
    BY <1>0, <2>2, <2>3, PeltKept
  <2>. QED
    BY <2>3, <2>4 DEF Told
<1>7. ASSUME NEW t \in Tasks, FinishRemove(t)
      PROVE  Goal
  <2> DEFINE r == Removed(q)
  <2>1. r \in Nat
    BY <1>0, RemovedOf
  <2>2. se[t].avg \in Nat
    BY <1>0 DEF CoveredAvg
  <2>3. /\ q' = [q EXCEPT !.removed = r + se[t].avg]
        /\ phase' = phase /\ se' = [se EXCEPT ![t] = Zero] /\ at' = [at EXCEPT ![t] = "away"]
    BY <1>7 DEF FinishRemove
  <2> HIDE DEF r
  <2>4. q' \in Queues /\ q'.grq = q.grq /\ q'.contrib = q.contrib
    BY <1>0, <2>1, <2>2, <2>3 DEF Queues
  <2>5. PeltTypeOK'
    BY <2>3, <2>4, ZeroCovered, PeltKept
  <2>. QED
    BY <2>4, <2>5 DEF Told
<1>8. ASSUME NEW t \in Tasks, NEW avg \in 0 .. Capacity, Attach(t, avg)
      PROVE  Goal
  <2> DEFINE sum == avg * Divider(0)
             x == [s EXCEPT !.on_list = TRUE, !.propagate = TRUE,
                            !.grq.avg = @ + avg, !.grq.sum = @ + sum]
             grq == [s.grq EXCEPT !.avg = @ + avg, !.sum = @ + sum]
             sa == [sum |-> sum, avg |-> avg, age |-> 0]
  <2>1. /\ Settle(UpdateTg(x), n) /\ phase' = phase
        /\ se' = [se EXCEPT ![t] = sa] /\ at' = [at EXCEPT ![t] = "queued"]
    BY <1>8, Zenon DEF Attach
  <2>2. avg \in Nat
    BY Bounds
  <2>3. sum \in Nat /\ sum >= avg * MinDivider
    <3> DEFINE d == Divider(0)
    <3>1. d \in Nat /\ d >= MinDivider
      BY <1>0, DividerBounds
    <3> HIDE DEF d
    <3>2. avg * d \in Nat /\ avg * d >= avg * MinDivider
      BY <2>2, <3>1, Bounds
    <3>. QED
      BY <3>2 DEF d
  <2> HIDE DEF sum, s
  <2>4. sa \in CoveredAvg
    BY <2>2, <2>3 DEF CoveredAvg
  <2>5. grq \in CoveredAvg
    <3>1. /\ s.grq.avg \in Nat /\ s.grq.sum \in Nat /\ s.grq.age \in Nat
          /\ s.grq.sum >= s.grq.avg * MinDivider
      BY <1>s DEF Queues, CoveredAvg
    <3>2. grq = [sum |-> s.grq.sum + sum, avg |-> s.grq.avg + avg, age |-> s.grq.age]
      <4>1. s.grq = [sum |-> s.grq.sum, avg |-> s.grq.avg, age |-> s.grq.age]
        BY <1>s DEF Queues, CoveredAvg
      <4> DEFINE g == s.grq
      <4>2. g = [sum |-> g.sum, avg |-> g.avg, age |-> g.age]
        BY <4>1
      <4>3. grq = [g EXCEPT !.avg = @ + avg, !.sum = @ + sum]
        OBVIOUS
      <4> HIDE DEF g, grq
      <4>4. grq = [sum |-> g.sum + sum, avg |-> g.avg + avg, age |-> g.age]
        BY <4>2, <4>3
      <4>. QED
        BY <4>4 DEF g
    <3>3. (s.grq.avg + avg) * MinDivider = s.grq.avg * MinDivider + avg * MinDivider
      BY <2>2, <3>1, Bounds
    <3> DEFINE a == s.grq.avg * MinDivider
               b == avg * MinDivider
    <3>4. a \in Int /\ b \in Int
      BY <2>2, <3>1, Bounds
    <3>5. s.grq.sum + sum >= (s.grq.avg + avg) * MinDivider
      <4>1. s.grq.sum >= a /\ sum >= b
        BY <2>3, <3>1
      <4>2. (s.grq.avg + avg) * MinDivider = a + b
        BY <3>3
      <4> HIDE DEF a, b
      <4>. QED
        BY <2>3, <3>1, <3>4, <4>1, <4>2
    <3> HIDE DEF grq
    <3>. QED
      BY <2>2, <2>3, <3>1, <3>2, <3>5 DEF CoveredAvg
  <2>6. x \in Queues
    <3>1. x = [s EXCEPT !.on_list = TRUE, !.propagate = TRUE, !.grq = grq]
      BY <1>s DEF Queues
    <3> HIDE DEF x, grq
    <3>. QED
      BY <1>s, <2>5, <3>1 DEF Queues
  <2> HIDE DEF x, sa
  <2>7. UpdateTg(x) \in Queues /\ Small(UpdateTg(x))
    BY <2>6, UpdateTgOf
  <2> DEFINE y == UpdateTg(x)
  <2> HIDE DEF n
  <2>8. q' \in Queues /\ q'.grq = y.grq /\ q'.contrib = y.contrib /\ Small(y)
    <3>1. Settle(y, n)
      BY <2>1
    <3>2. y \in Queues /\ Small(y)
      BY <2>7
    <3> HIDE DEF y
    <3>. QED
      BY <1>0, <1>n, <3>1, <3>2, SettleOf
  <2>9. PeltTypeOK'
    BY <2>1, <2>4, <2>8, PeltKept
  <2> HIDE DEF y
  <2>. QED
    BY <2>8, <2>9 DEF Told, Small
<1>9. ASSUME NEW t \in Tasks, SetNext(t)
      PROVE  Goal
  BY <1>9, <1>S DEF SetNext
<1>10. ASSUME NEW t \in Tasks, Put(t)
       PROVE  PeltTypeOK'
  BY <1>10, <1>S DEF Put
<1>11. CASE UNCHANGED pVars
  BY <1>11 DEF pVars, PeltTypeOK, Told
<1> HIDE DEF Goal
<1>. QED
  BY <1>1, <1>2, <1>3, <1>4, <1>5, <1>6, <1>7, <1>8, <1>9, <1>10, <1>11
  DEF PeltNext, Tick, Sleep

LEMMA PeltTypeInvariant == PeltSpec => []PeltTypeOK
BY PeltInitType, PeltStep, PTL DEF PeltSpec

\* No order of attaching, detaching, removing without the lock and updating makes a sum too
\* small for its average: load_avg_is_decayed() has nothing to warn of (fair.c:3521-3530).
THEOREM SumsCoverAverages == PeltSpec => []SumCoversAvg
<1>1. PeltTypeOK => SumCoversAvg
  BY DEF PeltTypeOK, Queues, CoveredAvg, SumCoversAvg
<1>. QED
  BY <1>1, PeltTypeInvariant, PTL

\* Whoever changes the load of a queue tells the group but for a small part, though it is not
\* told of an update that finds nothing decayed; only a task that is put, whose update has no
\* UPDATE_TG, may leave more untold (fair.c:3584-3612, 4207-4211, 4904).
THEOREM GroupIsTold == PeltSpec => GroupLoadTracks
<1> DEFINE Tracks == \/ q'.grq.avg = q.grq.avg /\ q'.contrib = q.contrib
                     \/ UpdateTg(q') = q'
                     \/ \E t \in Tasks : Put(t)
<1>1. PeltTypeOK /\ [PeltNext]_pVars => [Tracks]_pVars
  <2>. SUFFICES ASSUME PeltTypeOK, [PeltNext]_pVars
                PROVE  Tracks
    OBVIOUS
  <2>1. q' \in Queues /\ (Told(q') \/ \E t \in Tasks : Put(t))
    BY PeltStep DEF PeltTypeOK
  <2>. QED
    BY <2>1, SmallIs DEF Told
<1>. QED
  BY <1>1, PeltTypeInvariant, PTL DEF PeltSpec, GroupLoadTracks
=============================================================================
