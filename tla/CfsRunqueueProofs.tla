-------------------------- MODULE CfsRunqueueProofs --------------------------
(***************************************************************************)
(* Proofs about CfsRunqueue, for any number of tasks, any weights and any  *)
(* increments and decays that satisfy the module's assumptions: its type   *)
(* invariant, the bound on the load accounting, that no task starves, and  *)
(* what its controller does; and about CfsFairness, the lag bound.         *)
(***************************************************************************)
EXTENDS CfsFairness, SumProofs, FiniteSetTheorems, TLAPS

\* The controller only ever moves among its three states (fairness.c:71-104).
LEMMA NextStateType ==
  ASSUME NEW s \in ApafStates, NEW j
  PROVE  fairness_apaf_next_state(s, j) \in ApafStates
BY DEF fairness_apaf_next_state, ApafStates, TIGHT, MEDIUM, LOOSE

\* rq_count_running() counts at most every task (task.c:136-156).
LEMMA RunningCount ==
  /\ IsFiniteSet(Tasks)
  /\ rq_count_running \in 0 .. NTasks
<1> USE NTasksAssumption
<1>1. /\ IsFiniteSet(Tasks)
      /\ Cardinality(Tasks) = NTasks
  BY FS_Interval DEF Tasks
<1>2. RunnableTasks \subseteq Tasks
  BY DEF RunnableTasks
<1>3. /\ Cardinality(RunnableTasks) \in Nat
      /\ Cardinality(RunnableTasks) <= NTasks
  BY <1>1, <1>2, FS_Subset, FS_CardinalityType
<1>. QED
  BY <1>1, <1>3 DEF rq_count_running

\* load_avg is a natural number no greater than the weight (cfs_exact.c:163-167).
LEMMA LoadAvgBound ==
  ASSUME NEW w \in Nat \ {0}, NEW sum \in Nat
  PROVE  LoadAvg(w, sum) \in 0 .. w
<1>1. CASE sum >= LOAD_AVG_MAX
  BY <1>1 DEF LoadAvg
<1>2. CASE ~(sum >= LOAD_AVG_MAX)
  <2>1. w * sum \in Nat /\ w * sum <= w * 47742
    BY <1>2 DEF LOAD_AVG_MAX
  <2>2. (w * sum) \div 47742 \in Nat /\ (w * sum) \div 47742 <= w
    BY <2>1
  <2>. QED
    BY <1>2, <2>2 DEF LoadAvg, LOAD_AVG_MAX
<1>. QED
  BY <1>1, <1>2

-----------------------------------------------------------------------------

\* What every reachable state satisfies: the types, and the load accounting
\* within its bounds.  Neither half is inductive alone: the decay is only known
\* to be well behaved on load sums below LoadMax.
IInv == TypeOK /\ LoadBounded

LEMMA InitIInv == Init => IInv
<1> SUFFICES ASSUME Init PROVE IInv
  OBVIOUS
<1> USE NTasksAssumption, BoundsAssumption, WeightAssumption, LoadMaxAssumption
<1>1. TypeOK
  BY DEF Init, TypeOK, ApafStates
<1>2. LoadBounded
  BY DEF Init, LoadBounded
<1>. QED
  BY <1>1, <1>2 DEF IInv

\* Updating every load keeps all of them in bounds: DecayAssumption says that
\* LoadMax leaves room for the weight of a tick.
LEMMA UpdateLoadsBounded ==
  ASSUME approx_mode \in Modes, apaf_state \in ApafStates, LoadBounded, UpdateLoads
  PROVE  /\ load_sum' \in [Tasks -> Nat]
         /\ load_avg' \in [Tasks -> Nat]
         /\ LoadBounded'
<1> USE WeightAssumption, LoadMaxAssumption
<1>1. ASSUME NEW i \in Tasks
      PROVE  load_sum'[i] \in 0 .. LoadMax[i] /\ load_avg'[i] \in 0 .. Weight[i]
  <2>1. /\ load_sum[i] \in 0 .. LoadMax[i]
        /\ approx_mode \in Modes /\ apaf_state \in ApafStates
        /\ Weight[i] \in Nat \ {0}
        /\ LoadMax[i] \in Nat
    BY <1>1 DEF LoadBounded
  <2>2. /\ Decay(approx_mode, load_sum[i], apaf_state) \in 0 .. load_sum[i]
        /\ Decay(approx_mode, load_sum[i], apaf_state) + Weight[i] <= LoadMax[i]
    BY <1>1, <2>1, DecayAssumption
  <2>3. load_sum'[i] = Decay(approx_mode, load_sum[i], apaf_state)
                         + (IF runnable[i] = 1 THEN Weight[i] ELSE 0)
    BY <1>1 DEF UpdateLoads
  <2>4. load_sum'[i] \in 0 .. LoadMax[i]
    BY <2>1, <2>2, <2>3
  <2>5. load_avg'[i] = LoadAvg(Weight[i], load_sum'[i])
    BY <1>1 DEF UpdateLoads
  <2>6. load_avg'[i] \in 0 .. Weight[i]
    BY <2>1, <2>4, <2>5, LoadAvgBound
  <2>. QED
    BY <2>4, <2>6
<1>2. /\ load_sum' = [i \in Tasks |-> load_sum'[i]]
      /\ load_avg' = [i \in Tasks |-> load_avg'[i]]
  BY DEF UpdateLoads
<1>3. \A i \in Tasks : load_sum'[i] \in Nat /\ load_avg'[i] \in Nat
  BY <1>1
<1>4. LoadBounded'
  BY <1>1 DEF LoadBounded
<1>. QED
  BY <1>2, <1>3, <1>4

\* Charging the picked task keeps runtimes and virtual runtimes numbers.
LEMMA UpdateCurrType ==
  ASSUME TypeOK, NEW i \in Tasks, UpdateCurr(i)
  PROVE  vruntime' \in [Tasks -> Nat] /\ exec_runtime' \in [Tasks -> Nat]
<1>1. Delta(approx_mode, i, apaf_state) \in Nat
  BY DeltaAssumption DEF TypeOK
<1>. QED
  BY <1>1 DEF TypeOK, UpdateCurr

LEMMA AdvanceClockType ==
  ASSUME TypeOK, AdvanceClock
  PROVE  tick' \in 0 .. MaxTick
BY BoundsAssumption DEF TypeOK, AdvanceClock

\* The busy part the four ticks share.
LEMMA BusyStep ==
  ASSUME IInv, AdvanceClock, UpdateLoads, Snapshot,
         vruntime' \in [Tasks -> Nat], exec_runtime' \in [Tasks -> Nat],
         apaf_state' \in ApafStates, UNCHANGED << runnable, approx_mode, changes >>
  PROVE  IInv'
<1>1. /\ load_sum' \in [Tasks -> Nat]
      /\ load_avg' \in [Tasks -> Nat]
      /\ LoadBounded'
  BY UpdateLoadsBounded DEF IInv, TypeOK
<1>2. tick' \in 0 .. MaxTick
  BY AdvanceClockType DEF IInv
<1>3. nr_running' \in 0 .. NTasks
  BY RunningCount DEF Snapshot
<1>. QED
  BY <1>1, <1>2, <1>3 DEF IInv, TypeOK

LEMMA IdleStep ==
  ASSUME IInv, IdleReturn
  PROVE  IInv'
<1>1. tick' \in 0 .. MaxTick
  BY AdvanceClockType DEF IInv, IdleReturn
<1>2. TypeOK'
  BY <1>1 DEF IInv, TypeOK, IdleReturn, taskVars
<1>3. LoadBounded'
  BY DEF IInv, LoadBounded, IdleReturn, taskVars
<1>. QED
  BY <1>2, <1>3 DEF IInv

LEMMA FixedStep ==
  ASSUME IInv, FixedTick
  PROVE  IInv'
<1>1. PICK i \in Tasks : UpdateCurr(i)
  BY DEF FixedTick
<1>2. vruntime' \in [Tasks -> Nat] /\ exec_runtime' \in [Tasks -> Nat]
  BY <1>1, UpdateCurrType DEF IInv
<1>3. apaf_state' \in ApafStates
  BY DEF FixedTick, IInv, TypeOK
<1>. QED
  BY <1>2, <1>3, BusyStep DEF FixedTick

LEMMA NextIInv == IInv /\ [Next]_vars => IInv'
<1> SUFFICES ASSUME IInv, [Next]_vars PROVE IInv'
  OBVIOUS
<1>1. CASE ExactTick
  <2>1. vruntime' \in [Tasks -> Nat] /\ exec_runtime' \in [Tasks -> Nat]
    <3>1. ASSUME NEW i \in Tasks, UpdateCurr(i)
          PROVE  vruntime' \in [Tasks -> Nat] /\ exec_runtime' \in [Tasks -> Nat]
      BY <3>1, UpdateCurrType DEF IInv
    <3>2. CASE UNCHANGED << vruntime, exec_runtime >>
      BY <3>2 DEF IInv, TypeOK
    <3>. QED
      BY <1>1, <3>1, <3>2 DEF ExactTick
  <2>2. apaf_state' \in ApafStates
    BY <1>1 DEF ExactTick, IInv, TypeOK
  <2>. QED
    BY <1>1, <2>1, <2>2, BusyStep DEF ExactTick
<1>2. CASE BsaTick
  BY <1>2, FixedStep, IdleStep DEF BsaTick
<1>3. CASE CltiTick
  BY <1>3, FixedStep, IdleStep DEF CltiTick
<1>4. CASE ApafTick
  <2>1. CASE IdleReturn
    BY <2>1, IdleStep
  <2>2. CASE ~IdleReturn
    <3>1. PICK i \in Tasks : UpdateCurr(i)
      BY <1>4, <2>2 DEF ApafTick
    <3>2. vruntime' \in [Tasks -> Nat] /\ exec_runtime' \in [Tasks -> Nat]
      BY <3>1, UpdateCurrType DEF IInv
    <3>3. apaf_state' \in ApafStates
      BY <1>4, <2>2, NextStateType DEF ApafTick, UpdateState, IInv, TypeOK
    <3>. QED
      BY <1>4, <2>2, <3>2, <3>3, BusyStep DEF ApafTick
  <2>. QED
    BY <2>1, <2>2
<1>5. CASE Change
  <2>1. PICK i \in Tasks, r \in RunnableArgs : SetRunnable(i, r)
    BY <1>5 DEF Change
  <2>2. changes' \in 0 .. MaxChanges
    BY <2>1, BoundsAssumption DEF SetRunnable, IInv, TypeOK
  <2>3. runnable' \in [Tasks -> {0, 1}]
    BY <2>1 DEF SetRunnable, IInv, TypeOK
  <2>4. TypeOK'
    BY <2>1, <2>2, <2>3 DEF SetRunnable, rqVars, IInv, TypeOK
  <2>5. LoadBounded'
    BY <2>1 DEF SetRunnable, IInv, LoadBounded
  <2>. QED
    BY <2>4, <2>5 DEF IInv
<1>6. CASE CountRunning
  <2>1. nr_running' \in 0 .. NTasks
    BY <1>6, RunningCount DEF CountRunning
  <2>2. TypeOK'
    BY <1>6, <2>1 DEF CountRunning, taskVars, IInv, TypeOK
  <2>3. LoadBounded'
    BY <1>6 DEF CountRunning, taskVars, IInv, LoadBounded
  <2>. QED
    BY <2>2, <2>3 DEF IInv
<1>7. CASE UNCHANGED vars
  BY <1>7 DEF vars, IInv, TypeOK, LoadBounded
<1>. QED
  BY <1>1, <1>2, <1>3, <1>4, <1>5, <1>6, <1>7 DEF Next, Tick

LEMMA Invariant == Spec => []IInv
BY InitIInv, NextIInv, PTL DEF Spec

\* The type invariant, whatever the tasks, weights and arithmetic
\* (task.h:72-93).
THEOREM TypeCorrect == Spec => []TypeOK
<1>1. IInv => TypeOK
  BY DEF IInv
<1>. QED
  BY <1>1, Invariant, PTL

\* Load sums stay below LoadMax and load averages below the weights in every
\* logic, for every workload (cfs_exact.c:142-168 and its counterparts).
THEOREM LoadStaysBounded == Spec => []LoadBounded
<1>1. IInv => LoadBounded
  BY DEF IInv
<1>. QED
  BY <1>1, Invariant, PTL

-----------------------------------------------------------------------------
(* The fairness index *)

\* The squared sum of naturals is at most their number times the sum of their squares, and
\* that sum is 0 only if they all are.
LEMMA JainSums ==
  ASSUME NEW R, IsFiniteSet(R), NEW exec, \A i \in R : exec[i] \in Nat
  PROVE  LET sum    == SumFunctionOnSet(exec, R)
             sum_sq == SumFunction([i \in R |-> exec[i] * exec[i]])
         IN  /\ sum \in Nat /\ sum_sq \in Nat
             /\ sum * sum <= Cardinality(R) * sum_sq
             /\ sum_sq = 0 => sum = 0
<1> DEFINE sq     == [i \in R |-> exec[i] * exec[i]]
           sum    == SumFunctionOnSet(exec, R)
           sum_sq == SumFunctionOnSet(sq, R)
<1>1. SumFunction(sq) = sum_sq
  BY DEF SumFunction
<1>2. \A i \in R : exec[i] \in Int /\ sq[i] = exec[i] * exec[i]
  OBVIOUS
<1>3. \A i \in R : sq[i] \in Nat
  BY <1>2
<1> HIDE DEF sq
<1>4. sum \in Nat
  BY SumNat
<1>5. sum_sq \in Nat
  BY <1>3, SumNat
<1>6. sum * sum <= Cardinality(R) * sum_sq
  BY <1>2, SumSquares
<1>7. Cardinality(R) \in Nat
  BY FS_CardinalityType
<1>8. ASSUME sum_sq = 0
      PROVE  sum = 0
  <2> HIDE DEF sum, sum_sq
  <2>1. sum * sum <= 0
    BY <1>6, <1>7, <1>8
  <2>. QED
    BY <1>4, <2>1
<1>. QED
  BY <1>1, <1>4, <1>5, <1>6, <1>8 DEF sq

\* fairness_jain_index() returns a fraction, whatever ran (fairness.c:21-69).
LEMMA JainIsIndex ==
  ASSUME NEW exec \in [Tasks -> Nat], NEW r \in [Tasks -> {0, 1}]
  PROVE  fairness_jain_index(r, exec) \in Indices
<1> DEFINE R      == {i \in DOMAIN r : r[i] = 1}
           n      == Cardinality(R)
           sum    == SumFunctionOnSet(exec, R)
           sum_sq == SumFunction([i \in R |-> exec[i] * exec[i]])
<1>1. IsFiniteSet(R) /\ \A i \in R : exec[i] \in Nat
  BY RunningCount, FS_Subset
<1>2. n \in Nat
  BY <1>1, FS_CardinalityType
<1>3. /\ sum \in Nat /\ sum_sq \in Nat
      /\ sum * sum <= n * sum_sq
      /\ sum_sq = 0 => sum = 0
  <2> HIDE DEF R
  <2>. QED
    BY <1>1, JainSums
<1>4. fairness_jain_index(r, exec) =
        IF n < JAIN_MIN_TASKS \/ sum = 0 THEN One ELSE [num |-> sum * sum, den |-> n * sum_sq]
  BY DEF fairness_jain_index
<1> HIDE DEF n, sum, sum_sq
<1>5. One \in Indices
  BY DEF One, Indices, IsIndex
<1>6. ASSUME n >= 2, sum # 0
      PROVE  [num |-> sum * sum, den |-> n * sum_sq] \in Indices
  <2> DEFINE num == sum * sum
             den == n * sum_sq
  <2>1. num \in Nat /\ den \in Nat /\ num <= den
    BY <1>2, <1>3
  <2>2. den # 0
    BY <1>2, <1>3, <1>6
  <2> HIDE DEF num, den
  <2>3. [num |-> num, den |-> den] \in Indices
    BY <2>1, <2>2 DEF Indices, IsIndex
  <2>. QED
    BY <2>3 DEF num, den
<1>. QED
  BY <1>2, <1>4, <1>5, <1>6 DEF JAIN_MIN_TASKS

-----------------------------------------------------------------------------
(* Nobody starves *)

\* Two numbers at least d >= m apart are so by a quotient by m.
LEMMA DivDrop ==
  ASSUME NEW x \in Nat, NEW m \in Nat \ {0}, NEW d \in Nat, m <= d, d <= x
  PROVE  /\ x \div m \in Nat /\ (x - d) \div m \in Nat
         /\ (x - d) \div m < x \div m
<1> DEFINE p == (x - d) \div m
           q == x \div m
<1>1. p \in Nat /\ m * p <= x - d
  OBVIOUS
<1>2. q \in Nat /\ x < m * (q + 1)
  OBVIOUS
<1> HIDE DEF p, q
<1>3. m * (p + 1) < m * (q + 1)
  BY <1>1, <1>2
<1>4. p + 1 < q + 1
  BY <1>1, <1>2, <1>3
<1>. QED
  BY <1>1, <1>2, <1>4 DEF p, q

\* DeltaMin bounds what a tick charges, in whatever state.
LEMMA DeltaMinIs ==
  ASSUME TypeOK, NEW i \in Tasks
  PROVE  /\ DeltaMin(i) \in Nat \ {0}
         /\ DeltaMin(i) <= Delta(approx_mode, i, apaf_state)
<1> DEFINE D(s) == Delta(approx_mode, i, s)
           S    == {D(s) : s \in ApafStates}
<1>1. \A s \in ApafStates : D(s) \in Nat \ {0}
  BY DeltaAssumption DEF TypeOK
<1> HIDE DEF D
<1>2. \E x \in S : \A y \in S : x <= y
  BY <1>1 DEF ApafStates, TIGHT, MEDIUM, LOOSE
<1>3. Min(S) \in S /\ \A y \in S : Min(S) <= y
  BY <1>2 DEF Min
<1>4. DeltaMin(i) = Min(S)
  BY DEF DeltaMin, D
<1>5. D(apaf_state) \in S
  BY DEF TypeOK
<1>. QED
  BY <1>1, <1>3, <1>4, <1>5 DEF D
  
\* A tick in which a runnable task does not run charges another.
LEMMA WaitingTick ==
  ASSUME IInv, [Next]_vars, Ticks, NEW j \in RunnableTasks, exec_runtime'[j] = exec_runtime[j]
  PROVE  \E i \in Tasks \ {j} : Picks(i) /\ UpdateCurr(i) /\ approx_mode' = approx_mode
<1>1. ~PicksNone /\ ~IdleReturn
  BY DEF PicksNone, IdleReturn
<1>2. ~Change /\ ~CountRunning /\ ~UNCHANGED vars
  BY DEF Ticks, Change, SetRunnable, CountRunning, rqVars, vars
<1>3. \E i \in Tasks : Picks(i) /\ UpdateCurr(i) /\ approx_mode' = approx_mode
  BY <1>1, <1>2 DEF Next, Tick, ExactTick, BsaTick, CltiTick, FixedTick, ApafTick
<1>4. j \in Tasks /\ exec_runtime \in [Tasks -> Nat]
  BY DEF RunnableTasks, IInv, TypeOK
<1>5. ASSUME UpdateCurr(j)
      PROVE  FALSE
  <2>1. exec_runtime'[j] = exec_runtime[j] + 1
    BY <1>4, <1>5 DEF UpdateCurr
  <2>. QED
    BY <1>4, <2>1
<1>. QED
  BY <1>3, <1>5

LEMMA TurnsType ==
  ASSUME TypeOK, NEW i \in Tasks, NEW j \in Tasks
  PROVE  Turns(i, j) \in Nat
<1>1. DeltaMin(i) \in Nat \ {0} /\ vruntime[i] \in Nat /\ vruntime[j] \in Nat
  BY DeltaMinIs DEF TypeOK
<1> DEFINE m == DeltaMin(i)
<1> HIDE DEF m
<1>2. ASSUME vruntime[i] <= vruntime[j]
      PROVE  (vruntime[j] - vruntime[i]) \div m \in Nat
  <2> DEFINE x == vruntime[j] - vruntime[i]
  <2>1. x \in Nat
    BY <1>1, <1>2
  <2> HIDE DEF x
  <2>2. x \div m \in Nat
    BY <1>1, <2>1 DEF m
  <2>. QED
    BY <2>2 DEF x
<1>. QED
  BY <1>1, <1>2 DEF Turns, m

\* The task that runs has a turn less before j, the others as many as they had.
LEMMA TurnsShrink ==
  ASSUME TypeOK, NEW j \in RunnableTasks, NEW i \in Tasks \ {j}, Picks(i), UpdateCurr(i),
         approx_mode' = approx_mode
  PROVE  /\ Turns(i, j)' \in Nat /\ Turns(i, j)' < Turns(i, j)
         /\ \A k \in Tasks \ {i, j} : Turns(k, j)' = Turns(k, j)
<1> DEFINE m == DeltaMin(i)
           d == Delta(approx_mode, i, apaf_state)
           v == vruntime[i]
           u == vruntime[j]
<1>1. j \in Tasks /\ i # j /\ i \in Int /\ j \in Int
  BY DEF RunnableTasks, Tasks
<1>2. \A k \in Tasks : DeltaMin(k)' = DeltaMin(k)
  BY DEF DeltaMin
<1>3. /\ vruntime'[i] = v + d
      /\ \A k \in Tasks \ {i} : vruntime'[k] = vruntime[k]
  BY DEF TypeOK, UpdateCurr
<1>4. ASSUME NEW k \in Tasks \ {i, j}
      PROVE  Turns(k, j)' = Turns(k, j)
  BY <1>1, <1>2, <1>3, <1>4 DEF Turns
<1>5. m \in Nat \ {0} /\ v \in Nat /\ u \in Nat /\ d \in Nat /\ m <= d
  BY <1>1, DeltaMinIs, DeltaAssumption DEF TypeOK
<1>6. v < u \/ (v = u /\ i < j)
  BY <1>1 DEF Picks
<1>7. Turns(i, j) = (u - v) \div m + 1
  BY <1>6 DEF Turns
<1>8. Turns(i, j)' = IF v + d < u \/ (v + d = u /\ i < j) THEN (u - (v + d)) \div m + 1 ELSE 0
  BY <1>1, <1>2, <1>3 DEF Turns
<1> HIDE DEF m, d, v, u
<1>9. CASE v + d <= u
  <2> DEFINE x == u - v
  <2>1. x \in Nat /\ d <= x /\ u - (v + d) = x - d
    BY <1>5, <1>9
  <2> HIDE DEF x
  <2>2. x \div m \in Nat /\ (x - d) \div m \in Nat /\ (x - d) \div m < x \div m
    BY <1>5, <2>1, DivDrop
  <2>3. Turns(i, j) = x \div m + 1
    BY <1>7 DEF x
  <2>4. Turns(i, j)' = (x - d) \div m + 1 \/ Turns(i, j)' = 0
    BY <1>8, <2>1
  <2>. QED
    BY <1>4, <2>2, <2>3, <2>4
<1>10. CASE ~(v + d <= u)
  <2>1. Turns(i, j)' = 0
    BY <1>5, <1>8, <1>10
  <2> DEFINE x == u - v
  <2>2. x \in Nat
    BY <1>5, <1>6
  <2> HIDE DEF x
  <2>3. x \div m \in Nat
    BY <1>5, <2>2
  <2>4. Turns(i, j) = x \div m + 1
    BY <1>7 DEF x
  <2>. QED
    BY <1>4, <2>1, <2>3, <2>4
<1>. QED
  BY <1>9, <1>10

\* Of the finitely many turns before j, one is used up.
LEMMA WaitStep ==
  ASSUME IInv, [Next]_vars, Ticks, NEW j \in RunnableTasks, exec_runtime'[j] = exec_runtime[j]
  PROVE  Ahead(j)' < Ahead(j)
<1>1. PICK i \in Tasks \ {j} : Picks(i) /\ UpdateCurr(i) /\ approx_mode' = approx_mode
  BY WaitingTick
<1>2. /\ Turns(i, j)' \in Nat /\ Turns(i, j)' < Turns(i, j)
      /\ \A k \in Tasks \ {i, j} : Turns(k, j)' = Turns(k, j)
  BY <1>1, TurnsShrink DEF IInv
<1>3. j \in Tasks /\ \A k \in Tasks : Turns(k, j) \in Nat
  BY TurnsType DEF IInv, RunnableTasks
<1> DEFINE S      == Tasks \ {j}
           Now    == [k \in S |-> Turns(k, j)]
           After  == [k \in S |-> Turns(k, j)']
<1>4. IsFiniteSet(S)
  BY RunningCount, FS_Subset
<1>5. /\ \A k \in S : After[k] \in Int /\ Now[k] \in Int /\ After[k] <= Now[k]
      /\ After[i] < Now[i]
  BY <1>2, <1>3
<1>6. Ahead(j) = SumFunctionOnSet(Now, S) /\ Ahead(j)' = SumFunctionOnSet(After, S)
  BY DEF Ahead, SumFunction
<1> HIDE DEF Now, After, S
<1>7. SumFunctionOnSet(After, S) < SumFunctionOnSet(Now, S)
  BY <1>1, <1>4, <1>5, SumMonotonic DEF S
<1>. QED
  BY <1>6, <1>7

\* No starvation, whatever the others do: every tick a runnable task waits brings it
\* nearer to its turn (cfs_exact.c:178-198, the pick; cfs_exact.c:107-129, the charge).
THEOREM WaitingEnds == Spec => WaitingShrinks
<1>1. IInv /\ [Next]_vars
        => [Ticks => \A j \in RunnableTasks :
              exec_runtime'[j] = exec_runtime[j] => Ahead(j)' < Ahead(j)]_vars
  BY WaitStep
<1>. QED
  BY <1>1, Invariant, PTL DEF Spec, WaitingShrinks

-----------------------------------------------------------------------------
(* The controller *)

\* A state the controller has just moved to, or stayed in, is one its index
\* belongs in: the band that would move it out again begins beyond the one it
\* came through.
LEMMA NextStateFits ==
  ASSUME NEW s \in ApafStates, NEW j \in Indices
  PROVE  /\ fairness_apaf_next_state(s, j) = LOOSE => ~Below(j, JAIN_LOOSE_TO_MEDIUM)
         /\ fairness_apaf_next_state(s, j) = TIGHT => ~Above(j, JAIN_TIGHT_TO_MEDIUM)
<1>1. j.num \in Nat /\ j.den \in Nat \ {0}
  BY DEF Indices, IsIndex
<1>. QED
  BY <1>1 DEF fairness_apaf_next_state, Below, Above, ApafStates, LOOSE, MEDIUM, TIGHT,
       JAIN_LOOSE_TO_MEDIUM, JAIN_MEDIUM_TO_TIGHT, JAIN_MEDIUM_TO_LOOSE, JAIN_TIGHT_TO_MEDIUM

\* What a tick of the adaptive runqueue that ran a task leaves to its controller.
ApafBusy ==
  LET j == fairness_jain_index(runnable, exec_runtime')
  IN  /\ AdvanceClock
      /\ j \in Indices
      /\ jain_index' = j
      /\ apaf_state' = IF tick' % APAF_MONITOR_INTERVAL = 0
                       THEN fairness_apaf_next_state(apaf_state, j)
                       ELSE apaf_state

LEMMA ApafTickIs ==
  ASSUME IInv, ApafTick
  PROVE  ApafBusy \/ IdleReturn
<1>. SUFFICES ASSUME ~IdleReturn
              PROVE  ApafBusy
  OBVIOUS
<1>1. \E i \in Tasks : UpdateCurr(i)
  BY DEF ApafTick
<1>2. exec_runtime' \in [Tasks -> Nat]
  BY <1>1, UpdateCurrType DEF IInv
<1>3. fairness_jain_index(runnable, exec_runtime') \in Indices
  BY <1>2, JainIsIndex DEF IInv, TypeOK
<1>. QED
  BY <1>3 DEF ApafTick, ApafBusy, UpdateState, Snapshot

\* Only a tick of the adaptive runqueue concerns the controller.
LEMMA ControllerSteps ==
  ASSUME IInv, [Next]_vars
  PROVE  /\ approx_mode' = approx_mode
         /\ approx_mode = APAF => \/ ApafBusy
                                  \/ IdleReturn
                                  \/ UNCHANGED << tick, apaf_state, jain_index >>
         /\ approx_mode # APAF => UNCHANGED apaf_state
<1>1. CASE ApafTick
  BY <1>1, ApafTickIs DEF ApafTick, IdleReturn
<1>2. CASE ExactTick \/ BsaTick \/ CltiTick
  BY <1>2 DEF ExactTick, BsaTick, CltiTick, FixedTick, IdleReturn, EXACT, BSA, CLTI, APAF
<1>3. CASE Change \/ CountRunning \/ UNCHANGED vars
  BY <1>3 DEF Change, SetRunnable, CountRunning, rqVars, vars
<1>. QED
  BY <1>1, <1>2, <1>3 DEF Next, Tick

\* After a monitor tick the state fits the index the runqueue shows: the index is the one
\* the controller judged, and the bands leave no state that should have been left
\* (approx_apaf.c:171-191, fairness.c:71-104).
THEOREM StateKeepsFitting == Spec => StateFitsFairness
<1> DEFINE Fits == Ticks /\ approx_mode = APAF /\ tick' % APAF_MONITOR_INTERVAL = 0 /\ ~PicksNone =>
                     /\ apaf_state' = LOOSE => ~Below(jain_index', JAIN_LOOSE_TO_MEDIUM)
                     /\ apaf_state' = TIGHT => ~Above(jain_index', JAIN_TIGHT_TO_MEDIUM)
<1>1. IInv /\ [Next]_vars => [Fits]_vars
  <2>. SUFFICES ASSUME IInv, [Next]_vars,
                       Ticks, approx_mode = APAF, tick' % APAF_MONITOR_INTERVAL = 0, ~PicksNone
                PROVE  /\ apaf_state' = LOOSE => ~Below(jain_index', JAIN_LOOSE_TO_MEDIUM)
                       /\ apaf_state' = TIGHT => ~Above(jain_index', JAIN_TIGHT_TO_MEDIUM)
    OBVIOUS
  <2>1. ApafBusy
    BY ControllerSteps DEF Ticks, IdleReturn
  <2>. QED
    BY <2>1, NextStateFits DEF ApafBusy, IInv, TypeOK
<1>. QED
  BY <1>1, Invariant, PTL DEF Spec, StateFitsFairness

\* The controller's own copies of the constants are those of the runqueue.
LEMMA SameTerms ==
  /\ Controller!One = One /\ Controller!MEDIUM = MEDIUM
  /\ Controller!APAF_MONITOR_INTERVAL = APAF_MONITOR_INTERVAL
  /\ \A s, j : Controller!fairness_apaf_next_state(s, j) = fairness_apaf_next_state(s, j)
BY DEF Controller!One, One, Controller!MEDIUM, MEDIUM, Controller!LOOSE, LOOSE, Controller!TIGHT,
       TIGHT, Controller!APAF_MONITOR_INTERVAL, APAF_MONITOR_INTERVAL,
       Controller!Below, Below, Controller!Above, Above,
       Controller!JAIN_LOOSE_TO_MEDIUM, JAIN_LOOSE_TO_MEDIUM,
       Controller!JAIN_MEDIUM_TO_TIGHT, JAIN_MEDIUM_TO_TIGHT,
       Controller!JAIN_MEDIUM_TO_LOOSE, JAIN_MEDIUM_TO_LOOSE,
       Controller!JAIN_TIGHT_TO_MEDIUM, JAIN_TIGHT_TO_MEDIUM,
       Controller!fairness_apaf_next_state, fairness_apaf_next_state

\* The adaptive runqueue implements the controller as ApafController promises it, for
\* whatever fairness its tasks leave (approx_apaf.c:171-191, approx_apaf.c:290-314): what
\* ApproximationProofs shows of the controller holds of the runqueue.
THEOREM RefinesController == Spec => ControllerSpec
<1>1. Init => Controller!CtlInit
  BY SameTerms DEF Init, Controller!CtlInit
<1>2. IInv /\ [Next]_vars => [Controller!CtlNext]_(Controller!ctlVars)
  <2>. SUFFICES ASSUME IInv, [Next]_vars
                PROVE  Controller!CtlNext \/ UNCHANGED Controller!ctlVars
    OBVIOUS
  <2>1. CASE approx_mode # APAF
    BY <2>1, ControllerSteps DEF Controller!ctlVars
  <2>2. CASE approx_mode = APAF /\ ApafBusy
    BY <2>2, ControllerSteps, SameTerms DEF ApafBusy, AdvanceClock, Controller!CtlNext,
         Controller!BusyTick, Controller!NextState, Controller!MonitorDue
  <2>3. CASE approx_mode = APAF /\ IdleReturn
    BY <2>3, ControllerSteps DEF IdleReturn, AdvanceClock, Controller!CtlNext, Controller!IdleTick
  <2>4. CASE approx_mode = APAF /\ UNCHANGED << tick, apaf_state, jain_index >>
    BY <2>4, ControllerSteps DEF Controller!ctlVars
  <2>. QED
    BY <2>1, <2>2, <2>3, <2>4, ControllerSteps
<1>. QED
  BY <1>1, <1>2, Invariant, PTL DEF Spec, ControllerSpec, Controller!CtlSpec

-----------------------------------------------------------------------------
(* With the history of CfsFairness *)

\* The greatest of a task's increments is one of them and bounds the others.
LEMMA DeltaMaxBounds ==
  ASSUME NEW m \in Modes, NEW i \in Tasks, NEW s \in ApafStates
  PROVE  DeltaMax(m, i) \in Nat /\ Delta(m, i, s) <= DeltaMax(m, i)
<1> DEFINE D == {Delta(m, i, t) : t \in ApafStates}
<1>1. D = {Delta(m, i, 0), Delta(m, i, 1), Delta(m, i, 2)}
  BY DEF ApafStates, TIGHT, MEDIUM, LOOSE
<1>2. Delta(m, i, 0) \in Nat /\ Delta(m, i, 1) \in Nat /\ Delta(m, i, 2) \in Nat
  BY DeltaAssumption DEF ApafStates, TIGHT, MEDIUM, LOOSE
<1> HIDE DEF D
<1>3. \E x \in D : \A y \in D : x >= y
  BY <1>1, <1>2
<1>4. Max(D) \in D /\ \A y \in D : Max(D) >= y
  BY <1>3 DEF Max
<1>5. Max(D) \in Nat /\ D \subseteq Nat
  BY <1>1, <1>2, <1>4
<1>6. Delta(m, i, s) \in D
  BY DEF D
<1>. QED
  BY <1>4, <1>5, <1>6 DEF DeltaMax, D

-----------------------------------------------------------------------------

LEMMA FairStepIsStep == [FairNext]_fairVars => [Next]_vars
BY DEF FairNext, fairVars, RunTick, NoRunTick, FairChange, FairCount, Next

\* The history adds no behaviour: the runqueue under it is the one CfsRunqueue
\* describes (task.c:72-156 and the four ticks), so what is proved of Spec holds
\* of FairSpec.
THEOREM HistoryOnly == FairSpec => Spec
<1>1. FairInit => Init
  BY DEF FairInit
<1>. QED
  BY <1>1, FairStepIsStep, PTL DEF FairSpec, Spec

-----------------------------------------------------------------------------

\* The inductive invariant: LagBounded speaks of runnable tasks, but a blocked one
\* keeps its history and its vruntime until it wakes, so nothing has to be added
\* for it; the types make the sums comparable.
FairIInv == IInv /\ ran \in [Tasks -> SUBSET Tasks] /\ LagBounded

LEMMA FairInitInv == FairInit => FairIInv
<1> SUFFICES ASSUME FairInit PROVE FairIInv
  OBVIOUS
<1>1. IInv
  BY InitIInv DEF FairInit
<1>2. ran \in [Tasks -> SUBSET Tasks] /\ LagBounded
  BY DEF FairInit, LagBounded, RunnableTasks
<1>. QED
  BY <1>1, <1>2 DEF FairIInv

\* A tick in which Picks(i) holds charges task i and nobody else.
LEMMA RunCharges ==
  ASSUME IInv, NEW i \in Tasks, Picks(i), Tick
  PROVE  /\ vruntime' = [vruntime EXCEPT ![i] = @ + Delta(approx_mode, i, apaf_state)]
         /\ runnable' = runnable /\ approx_mode' = approx_mode
<1>1. ~PicksNone
  BY DEF Picks, PicksNone
<1>2. ~IdleReturn
  BY <1>1 DEF IdleReturn
<1>3. ASSUME NEW k \in Tasks, Picks(k)
      PROVE  k = i
  BY <1>3 DEF Picks, RunnableTasks, Tasks, IInv, TypeOK
<1>4. PICK k \in Tasks : Picks(k) /\ UpdateCurr(k)
  <2>1. CASE ExactTick
    BY Zenon, <1>1, <2>1 DEF ExactTick
  <2>2. CASE FixedTick
    BY Zenon, <2>2 DEF FixedTick
  <2>3. CASE ApafTick
    BY Zenon, <1>2, <2>3 DEF ApafTick
  <2>. QED
    BY Zenon, <1>2, <2>1, <2>2, <2>3 DEF Tick, BsaTick, CltiTick
<1>5. UpdateCurr(i)
  BY <1>3, <1>4
<1>6. runnable' = runnable /\ approx_mode' = approx_mode
  BY <1>2 DEF Tick, ExactTick, BsaTick, CltiTick, ApafTick, FixedTick
<1>. QED
  BY <1>5, <1>6 DEF UpdateCurr

\* A tick with nobody to run leaves the virtual runtimes alone.
LEMMA IdleCharges ==
  ASSUME PicksNone, Tick
  PROVE  vruntime' = vruntime /\ runnable' = runnable /\ approx_mode' = approx_mode
<1>1. \A k \in Tasks : ~Picks(k)
  BY DEF Picks, PicksNone
<1>. QED
  BY <1>1 DEF Tick, ExactTick, BsaTick, CltiTick, ApafTick, FixedTick, IdleReturn, taskVars

\* The picked task has the least vruntime, so after its tick it is at most that
\* tick past every other runnable task; the others have not moved.
LEMMA RunKeepsLag ==
  ASSUME FairIInv, NEW i \in Tasks, RunTick(i)
  PROVE  LagBounded'
<1> USE DEF IInv, TypeOK
<1>1. /\ vruntime' = [vruntime EXCEPT ![i] = @ + Delta(approx_mode, i, apaf_state)]
      /\ runnable' = runnable /\ approx_mode' = approx_mode
  BY RunCharges DEF FairIInv, RunTick
<1> SUFFICES ASSUME NEW j \in RunnableTasks', NEW k \in ran'[j]
             PROVE  vruntime'[k] <= vruntime'[j] + DeltaMax(approx_mode, k)
  BY <1>1 DEF LagBounded
<1>2. j \in RunnableTasks /\ j \in Tasks
  BY <1>1 DEF RunnableTasks
<1>3. /\ vruntime \in [Tasks -> Nat]
      /\ ran \in [Tasks -> SUBSET Tasks]
      /\ Delta(approx_mode, i, apaf_state) \in Nat
  BY DeltaAssumption DEF FairIInv
<1>4. k \in ran[j] \cup {i} /\ k \in Tasks
  BY <1>2, <1>3 DEF RunTick, RunnableTasks
<1>5. /\ DeltaMax(approx_mode, k) \in Nat
      /\ Delta(approx_mode, k, apaf_state) <= DeltaMax(approx_mode, k)
  BY <1>4, DeltaMaxBounds DEF FairIInv
<1>6. vruntime'[j] \in Nat /\ vruntime'[j] >= vruntime[j]
  BY <1>1, <1>2, <1>3
<1>7. CASE k = i
  <2>1. vruntime[i] <= vruntime[j]
    BY <1>2, <1>3 DEF RunTick, Picks
  <2>2. CASE i = j
    BY <1>1, <1>2, <1>3, <1>5, <1>7, <2>2
  <2>3. CASE i # j
    BY <1>1, <1>2, <1>3, <1>5, <1>7, <2>1, <2>3
  <2>. QED
    BY <2>2, <2>3
<1>8. CASE k # i
  <2>1. vruntime'[k] = vruntime[k] /\ vruntime[k] \in Nat
    BY <1>1, <1>3, <1>4, <1>8
  <2>2. vruntime[k] <= vruntime[j] + DeltaMax(approx_mode, k)
    BY <1>2, <1>4, <1>8 DEF FairIInv, LagBounded
  <2>3. vruntime[j] \in Nat
    BY <1>2, <1>3
  <2>. QED
    BY <1>5, <1>6, <2>1, <2>2, <2>3
<1>. QED
  BY <1>7, <1>8

\* Blocking and waking move nobody; a task that wakes starts with no history, and a
\* task that was runnable keeps its own.
LEMMA ChangeKeepsLag ==
  ASSUME FairIInv, FairChange
  PROVE  LagBounded'
<1>1. vruntime' = vruntime /\ approx_mode' = approx_mode
  BY DEF FairChange, Change, SetRunnable, rqVars
<1> SUFFICES ASSUME NEW j \in RunnableTasks', NEW k \in ran'[j]
             PROVE  vruntime'[k] <= vruntime'[j] + DeltaMax(approx_mode, k)
  BY <1>1 DEF LagBounded
<1>2. j \in Tasks /\ runnable'[j] = 1
  BY DEF RunnableTasks
<1>3. runnable[j] = 1 /\ ran'[j] = ran[j]
  BY <1>2 DEF FairChange, FairIInv, IInv, TypeOK
<1>. QED
  BY <1>1, <1>2, <1>3 DEF FairIInv, LagBounded, RunnableTasks

LEMMA FairNextInv == FairIInv /\ [FairNext]_fairVars => FairIInv'
<1> SUFFICES ASSUME FairIInv, [FairNext]_fairVars PROVE FairIInv'
  OBVIOUS
<1>1. IInv'
  BY FairStepIsStep, NextIInv DEF FairIInv
<1>2. ASSUME NEW i \in Tasks, RunTick(i)
      PROVE  FairIInv'
  <2>1. ran' \in [Tasks -> SUBSET Tasks]
    BY <1>2 DEF RunTick, FairIInv
  <2>. QED
    BY <1>1, <1>2, <2>1, RunKeepsLag DEF FairIInv
<1>3. CASE NoRunTick
  <2>1. /\ vruntime' = vruntime /\ runnable' = runnable /\ ran' = ran
        /\ approx_mode' = approx_mode
    BY <1>3, IdleCharges DEF NoRunTick
  <2>. QED
    BY <1>1, <2>1 DEF FairIInv, LagBounded, RunnableTasks
<1>4. CASE FairChange
  <2>1. ran' \in [Tasks -> SUBSET Tasks]
    BY <1>4 DEF FairChange, FairIInv
  <2>. QED
    BY <1>1, <1>4, <2>1, ChangeKeepsLag DEF FairIInv
<1>5. CASE FairCount
  <2>1. /\ vruntime' = vruntime /\ runnable' = runnable /\ ran' = ran
        /\ approx_mode' = approx_mode
    BY <1>5 DEF FairCount, CountRunning, taskVars
  <2>. QED
    BY <1>1, <2>1 DEF FairIInv, LagBounded, RunnableTasks
<1>6. CASE UNCHANGED fairVars
  <2>1. /\ vruntime' = vruntime /\ runnable' = runnable /\ ran' = ran
        /\ approx_mode' = approx_mode
    BY <1>6 DEF fairVars, vars
  <2>. QED
    BY <1>1, <2>1 DEF FairIInv, LagBounded, RunnableTasks
<1>. QED
  BY <1>2, <1>3, <1>4, <1>5, <1>6 DEF FairNext

\* While a task waits, no task that has run since it woke is ever more than one
\* tick of its own virtual time past it (cfs_exact.c:178-238 and the three other
\* ticks).
THEOREM LagStaysBounded == FairSpec => []LagBounded
<1>1. FairIInv => LagBounded
  BY DEF FairIInv
<1>. QED
  BY <1>1, FairInitInv, FairNextInv, PTL DEF FairSpec
=============================================================================
