------------------------- MODULE ApproximationProofs -------------------------
(***************************************************************************)
(* What is claimed of the approximations.  Of the controller that chooses  *)
(* among them, for every sequence of fairness indices: it never oscillates *)
(* inside its dead bands and its switches are a monitor interval apart     *)
(* (fairness.c, approx_apaf.c).  Of the comparison of a logic with the     *)
(* exact one, for any tasks, weights, workload and length of the run: each *)
(* of the two runqueues behaves as one by itself, and equal increments     *)
(* give equal schedules.                                                   *)
(***************************************************************************)
EXTENDS Lockstep, ApafHysteresis, TLAPS

-----------------------------------------------------------------------------
(* The controller *)

LEMMA ProductOrder ==
  ASSUME NEW x \in Int, NEW y \in Int, NEW z \in Nat \ {0}, x < y
  PROVE  x * z < y * z
OBVIOUS

\* An index above q/100 exceeds one below p/100 by more than their distance, a
\* band at least 0.04 wide.
LEMMA BandGap ==
  ASSUME NEW a, IsIndex(a), NEW b, IsIndex(b),
         NEW p \in Nat, NEW q \in Nat, q >= p + 4,
         Below(a, p), Above(b, q)
  PROVE  ExceedsBy(b, a, 4)
<1> DEFINE D == a.den * b.den
           A == a.num * b.den
           B == b.num * a.den
<1>1. /\ a.num \in Nat /\ a.den \in Nat \ {0}
      /\ b.num \in Nat /\ b.den \in Nat \ {0}
  BY DEF IsIndex
<1>2. 100 * A < p * D
  <2>1. (100 * a.num) * b.den < (p * a.den) * b.den
    BY <1>1, ProductOrder DEF Below
  <2>. QED
    BY <1>1, <2>1
<1>3. q * D < 100 * B
  <2>1. (q * b.den) * a.den < (100 * b.num) * a.den
    BY <1>1, ProductOrder DEF Above
  <2>. QED
    BY <1>1, <2>1
<1>4. D \in Nat /\ A \in Nat /\ B \in Nat
  BY <1>1
<1>5. (p + 4) * D <= q * D
  BY <1>4
<1>6. (p + 4) * D = p * D + 4 * D
  BY <1>4
<1>7. p * D \in Nat /\ q * D \in Nat
  BY <1>4
<1> HIDE DEF A, B, D
<1>8. 100 * (B - A) > 4 * D
  BY <1>2, <1>3, <1>4, <1>5, <1>6, <1>7
<1>. QED
  BY <1>8 DEF ExceedsBy, A, B, D

-----------------------------------------------------------------------------

\* What the last switch tells of the index it was made on.  This is what the gap
\* rests on: the index that moved the controller into its present state is on the
\* far side of the band that would move it out again the other way.
LastExplains ==
  /\ last.dir = "none" => apaf_state = MEDIUM
  /\ last.dir = "up" =>
       \/ apaf_state = MEDIUM /\ Above(last.jain, JAIN_TIGHT_TO_MEDIUM)
       \/ apaf_state = LOOSE /\ Above(last.jain, JAIN_MEDIUM_TO_LOOSE)
  /\ last.dir = "down" =>
       \/ apaf_state = MEDIUM /\ Below(last.jain, JAIN_LOOSE_TO_MEDIUM)
       \/ apaf_state = TIGHT /\ Below(last.jain, JAIN_MEDIUM_TO_TIGHT)

\* Switches happen at monitor ticks.
LastAtMonitor == last.dir # "none" => MonitorDue(last.at)

HInv == HystTypeOK /\ LastExplains /\ LastAtMonitor

LEMMA HystInitInv == HystInit => HInv
BY CtlMaxTickAssumption DEF HystInit, CtlInit, HInv, HystTypeOK, CtlTypeOK, LastExplains,
   LastAtMonitor, Directions, ApafStates, IsIndex, One

\* A switch is one of four, each on an index beyond its threshold.
Switch(from, to, dir, j) ==
  /\ apaf_state = from /\ apaf_state' = to
  /\ last' = [at |-> tick', dir |-> dir, jain |-> j]

LEMMA SwitchCases ==
  ASSUME HInv, HystNext, apaf_state' # apaf_state
  PROVE  /\ tick' = tick + 1 /\ tick' \in 0 .. CtlMaxTick /\ MonitorDue(tick')
         /\ IsIndex(jain_index')
         /\ \/ Switch(TIGHT, MEDIUM, "up", jain_index') /\ Above(jain_index', 95)
            \/ Switch(MEDIUM, LOOSE, "up", jain_index') /\ Above(jain_index', 97)
            \/ Switch(LOOSE, MEDIUM, "down", jain_index') /\ Below(jain_index', 93)
            \/ Switch(MEDIUM, TIGHT, "down", jain_index') /\ Below(jain_index', 90)
<1>1. BusyTick
  BY DEF HystNext, CtlNext, IdleTick
<1>2. /\ tick' = tick + 1 /\ tick' \in 0 .. CtlMaxTick
      /\ MonitorDue(tick')
      /\ apaf_state' = fairness_apaf_next_state(apaf_state, jain_index')
  BY <1>1, CtlMaxTickAssumption DEF BusyTick, NextState, HInv, HystTypeOK, CtlTypeOK
<1>3. IsIndex(jain_index')
  BY <1>1, JainValuesAssumption DEF BusyTick
<1>4. last' = [at |-> tick',
               dir |-> IF apaf_state' > apaf_state THEN "up" ELSE "down",
               jain |-> jain_index']
  BY DEF HystNext, Record
<1>5. apaf_state \in {0, 1, 2}
  BY DEF HInv, HystTypeOK, CtlTypeOK, ApafStates, TIGHT, MEDIUM, LOOSE
<1>6. \/ apaf_state = 0 /\ apaf_state' = 1 /\ Above(jain_index', 95)
      \/ apaf_state = 1 /\ apaf_state' = 2 /\ Above(jain_index', 97)
      \/ apaf_state = 2 /\ apaf_state' = 1 /\ Below(jain_index', 93)
      \/ apaf_state = 1 /\ apaf_state' = 0 /\ Below(jain_index', 90)
  BY <1>2, <1>5 DEF fairness_apaf_next_state, TIGHT, MEDIUM, LOOSE, JAIN_LOOSE_TO_MEDIUM,
     JAIN_MEDIUM_TO_TIGHT, JAIN_MEDIUM_TO_LOOSE, JAIN_TIGHT_TO_MEDIUM
<1>. QED
  BY <1>2, <1>3, <1>4, <1>6 DEF Switch, TIGHT, MEDIUM, LOOSE

LEMMA HystNextInv == HInv /\ [HystNext]_hystVars => HInv'
<1> SUFFICES ASSUME HInv, [HystNext]_hystVars PROVE HInv'
  OBVIOUS
<1>1. CASE UNCHANGED hystVars
  BY <1>1 DEF hystVars, HInv, HystTypeOK, CtlTypeOK, LastExplains, LastAtMonitor
<1>2. CASE HystNext /\ apaf_state' = apaf_state
  <2>1. last' = last
    BY <1>2 DEF HystNext, Record
  <2>2. tick' = tick + 1 /\ tick' \in 0 .. CtlMaxTick
    BY <1>2, CtlMaxTickAssumption
       DEF HystNext, CtlNext, BusyTick, IdleTick, HInv, HystTypeOK, CtlTypeOK
  <2>3. IsIndex(jain_index')
    BY <1>2, JainValuesAssumption
       DEF HystNext, CtlNext, BusyTick, IdleTick, HInv, HystTypeOK, CtlTypeOK
  <2>4. HystTypeOK'
    BY <1>2, <2>1, <2>2, <2>3 DEF HInv, HystTypeOK, CtlTypeOK
  <2>5. LastExplains' /\ LastAtMonitor'
    BY <1>2, <2>1 DEF HInv, LastExplains, LastAtMonitor
  <2>. QED
    BY <2>4, <2>5 DEF HInv
<1>3. CASE HystNext /\ apaf_state' # apaf_state
  <2>1. /\ tick' \in 0 .. CtlMaxTick /\ MonitorDue(tick')
        /\ IsIndex(jain_index')
        /\ \/ Switch(TIGHT, MEDIUM, "up", jain_index') /\ Above(jain_index', 95)
           \/ Switch(MEDIUM, LOOSE, "up", jain_index') /\ Above(jain_index', 97)
           \/ Switch(LOOSE, MEDIUM, "down", jain_index') /\ Below(jain_index', 93)
           \/ Switch(MEDIUM, TIGHT, "down", jain_index') /\ Below(jain_index', 90)
    BY <1>3, SwitchCases
  <2>2. HystTypeOK'
    BY <2>1 DEF Switch, HystTypeOK, CtlTypeOK, Directions, ApafStates
  <2>3. LastExplains'
    BY <2>1 DEF Switch, LastExplains, JAIN_LOOSE_TO_MEDIUM, JAIN_MEDIUM_TO_TIGHT,
       JAIN_MEDIUM_TO_LOOSE, JAIN_TIGHT_TO_MEDIUM
  <2>4. LastAtMonitor'
    BY <2>1 DEF Switch, LastAtMonitor
  <2>. QED
    BY <2>2, <2>3, <2>4 DEF HInv
<1>. QED
  BY <1>1, <1>2, <1>3

\* The gap, as a step: going back on the last switch takes a move of more than
\* 0.04.
LEMMA ReversalStep ==
  ASSUME HInv, [HystNext]_hystVars, Switches
  PROVE  /\ (last.dir = "up" /\ last'.dir = "down") => ExceedsBy(last.jain, jain_index', 4)
         /\ (last.dir = "down" /\ last'.dir = "up") => ExceedsBy(jain_index', last.jain, 4)
<1>1. HystNext /\ apaf_state' # apaf_state
  BY DEF Switches, hystVars
<1>2. /\ IsIndex(jain_index')
      /\ \/ Switch(TIGHT, MEDIUM, "up", jain_index') /\ Above(jain_index', 95)
         \/ Switch(MEDIUM, LOOSE, "up", jain_index') /\ Above(jain_index', 97)
         \/ Switch(LOOSE, MEDIUM, "down", jain_index') /\ Below(jain_index', 93)
         \/ Switch(MEDIUM, TIGHT, "down", jain_index') /\ Below(jain_index', 90)
  BY <1>1, SwitchCases
<1>3. IsIndex(last.jain)
  BY DEF HInv, HystTypeOK
<1>4. ASSUME last.dir = "up", last'.dir = "down"
      PROVE  ExceedsBy(last.jain, jain_index', 4)
  <2>1. \/ apaf_state = LOOSE /\ Below(jain_index', 93)
        \/ apaf_state = MEDIUM /\ Below(jain_index', 90)
    BY <1>2, <1>4 DEF Switch
  <2>2. \/ Below(jain_index', 93) /\ Above(last.jain, 97)
        \/ Below(jain_index', 90) /\ Above(last.jain, 95)
    BY <1>4, <2>1 DEF HInv, LastExplains, TIGHT, MEDIUM, LOOSE, JAIN_MEDIUM_TO_LOOSE,
       JAIN_TIGHT_TO_MEDIUM
  <2>. QED
    BY <1>2, <1>3, <2>2, BandGap
<1>5. ASSUME last.dir = "down", last'.dir = "up"
      PROVE  ExceedsBy(jain_index', last.jain, 4)
  <2>1. \/ apaf_state = TIGHT /\ Above(jain_index', 95)
        \/ apaf_state = MEDIUM /\ Above(jain_index', 97)
    BY <1>2, <1>5 DEF Switch
  <2>2. \/ Above(jain_index', 95) /\ Below(last.jain, 90)
        \/ Above(jain_index', 97) /\ Below(last.jain, 93)
    BY <1>5, <2>1 DEF HInv, LastExplains, TIGHT, MEDIUM, LOOSE, JAIN_LOOSE_TO_MEDIUM,
       JAIN_MEDIUM_TO_TIGHT
  <2>. QED
    BY <1>2, <1>3, <2>2, BandGap
<1>. QED
  BY <1>4, <1>5

\* The controller does not oscillate within its dead bands, whatever indices the
\* workload produces (fairness.c:66-70, approx_apaf.c:166-167).
THEOREM NoOscillation == HystSpec => ReversalNeedsGap
<1> DEFINE Gap == Switches =>
        /\ (last.dir = "up" /\ last'.dir = "down") => ExceedsBy(last.jain, jain_index', 4)
        /\ (last.dir = "down" /\ last'.dir = "up") => ExceedsBy(jain_index', last.jain, 4)
<1>1. HInv /\ [HystNext]_hystVars => [Gap]_hystVars
  BY ReversalStep
<1>. QED
  BY <1>1, HystInitInv, HystNextInv, PTL DEF HystSpec, ReversalNeedsGap

\* Switches come at monitor ticks only, four ticks apart or more, one level at a
\* time (fairness.c:65, approx_apaf.c:159-180).
THEOREM SwitchesAreSpaced == HystSpec => SwitchesSpaced
<1> DEFINE Spaced == Switches =>
        /\ last.dir # "none" => tick' >= last.at + APAF_MONITOR_INTERVAL
        /\ apaf_state' - apaf_state \in {-1, 1}
<1>1. HInv /\ [HystNext]_hystVars => [Spaced]_hystVars
  <2> SUFFICES ASSUME HInv, [HystNext]_hystVars, Switches
               PROVE  /\ last.dir # "none" => tick' >= last.at + APAF_MONITOR_INTERVAL
                      /\ apaf_state' - apaf_state \in {-1, 1}
    OBVIOUS
  <2>1. HystNext /\ apaf_state' # apaf_state
    BY DEF Switches, hystVars
  <2>2. /\ tick' = tick + 1 /\ MonitorDue(tick')
        /\ apaf_state' - apaf_state \in {-1, 1}
    BY <2>1, SwitchCases DEF Switch, TIGHT, MEDIUM, LOOSE
  <2>3. last.dir # "none" => tick' >= last.at + 4
    BY <2>2 DEF HInv, HystTypeOK, CtlTypeOK, LastAtMonitor, MonitorDue, APAF_MONITOR_INTERVAL
  <2>. QED
    BY <2>2, <2>3 DEF APAF_MONITOR_INTERVAL
<1>. QED
  BY <1>1, HystInitInv, HystNextInv, PTL DEF HystSpec, SwitchesSpaced

-----------------------------------------------------------------------------
(* The comparison *)

\* The two runqueues again, with what CfsRunqueueProofs shows of each.  The history
\* kept by CfsFairness plays no part in it.
X == INSTANCE CfsRunqueueProofs WITH
  Modes <- {EXACT}, approx_mode <- xmode,
  vruntime <- xvruntime, exec_runtime <- xexec,
  load_sum <- xload_sum, load_avg <- xload_avg,
  tick <- xtick, nr_running <- xnr_running,
  apaf_state <- xapaf_state, jain_index <- xjain_index, ran <- {}

A == INSTANCE CfsRunqueueProofs WITH
  approx_mode <- amode,
  vruntime <- avruntime, exec_runtime <- aexec,
  load_sum <- aload_sum, load_avg <- aload_avg,
  tick <- atick, nr_running <- anr_running,
  apaf_state <- aapaf_state, jain_index <- ajain_index, ran <- {}

\* Updating its loads keeps the exact runqueue's within their bounds.
LEMMA XLoads ==
  ASSUME xmode = EXACT, xapaf_state \in ApafStates, Exact!LoadBounded, Exact!UpdateLoads
  PROVE  Exact!LoadBounded'
<1>1. X!LoadBounded
  BY DEF Exact!LoadBounded, X!LoadBounded, Exact!Tasks, X!Tasks
<1>2. X!UpdateLoads
  BY SMT DEF Exact!UpdateLoads, X!UpdateLoads, Exact!LoadAvg, X!LoadAvg, Exact!Tasks, X!Tasks,
         Exact!LOAD_AVG_MAX, X!LOAD_AVG_MAX
<1>3. /\ X!Tasks = Tasks
      /\ {EXACT} \subseteq X!Logics
      /\ X!ApafStates = ApafStates
      /\ X!JainExact(NTasks, MaxTick)
  BY HorizonAssumption
     DEF X!Tasks, Tasks, X!Logics, X!EXACT, EXACT, X!JainExact, JainExact,
         X!ApafStates, X!TIGHT, X!MEDIUM, X!LOOSE, ApafStates, TIGHT, MEDIUM, LOOSE
<1>4. /\ NTasks \in Nat \ {0} /\ MaxTick \in Nat \ {0} /\ MaxChanges \in Nat
      /\ Weight \in [Tasks -> Nat \ {0}] /\ LoadMax \in [Tasks -> Nat]
  BY LockstepAssumption
<1>5. /\ \A m \in {EXACT}, i \in Tasks, s \in ApafStates : Delta(m, i, s) \in Nat \ {0}
      /\ \A m \in {EXACT}, i \in Tasks, s \in ApafStates : \A l \in 0 .. LoadMax[i] :
           /\ Decay(m, l, s) \in 0 .. l
           /\ Decay(m, l, s) + Weight[i] <= LoadMax[i]
  BY LockstepAssumption
<1>6. xmode \in {EXACT}
  OBVIOUS
<1>7. X!LoadBounded'
  BY <1>1, <1>2, <1>3, <1>4, <1>5, <1>6, X!UpdateLoadsBounded, Zenon
<1>. QED
  BY <1>7 DEF Exact!LoadBounded, X!LoadBounded, Exact!Tasks, X!Tasks

\* Updating its loads keeps the other runqueue's within their bounds.
LEMMA ALoads ==
  ASSUME amode \in Modes, aapaf_state \in ApafStates, Approx!LoadBounded, Approx!UpdateLoads
  PROVE  Approx!LoadBounded'
<1>1. A!LoadBounded
  BY DEF Approx!LoadBounded, A!LoadBounded, Approx!Tasks, A!Tasks
<1>2. A!UpdateLoads
  BY DEF Approx!UpdateLoads, A!UpdateLoads, Approx!LoadAvg, A!LoadAvg, Approx!Tasks, A!Tasks,
         Approx!LOAD_AVG_MAX, A!LOAD_AVG_MAX
<1>3. /\ A!Tasks = Tasks
      /\ Modes \subseteq A!Logics
      /\ A!ApafStates = ApafStates
      /\ A!JainExact(NTasks, MaxTick)
  BY HorizonAssumption, LockstepAssumption
     DEF A!Tasks, Tasks, A!Logics, A!EXACT, A!BSA, A!CLTI, A!APAF,
         Logics, EXACT, BSA, CLTI, APAF, A!JainExact, JainExact,
         A!ApafStates, A!TIGHT, A!MEDIUM, A!LOOSE, ApafStates, TIGHT, MEDIUM, LOOSE
<1>4. /\ NTasks \in Nat \ {0} /\ MaxTick \in Nat \ {0} /\ MaxChanges \in Nat
      /\ Weight \in [Tasks -> Nat \ {0}] /\ LoadMax \in [Tasks -> Nat]
  BY LockstepAssumption
<1>5. /\ \A m \in Modes, i \in Tasks, s \in ApafStates : Delta(m, i, s) \in Nat \ {0}
      /\ \A m \in Modes, i \in Tasks, s \in ApafStates : \A l \in 0 .. LoadMax[i] :
           /\ Decay(m, l, s) \in 0 .. l
           /\ Decay(m, l, s) + Weight[i] <= LoadMax[i]
  BY LockstepAssumption
<1>6. amode \in Modes
  OBVIOUS
<1>7. A!LoadBounded'
  BY <1>1, <1>2, <1>3, <1>4, <1>5, <1>6, A!UpdateLoadsBounded, Zenon
<1>. QED
  BY <1>7 DEF Approx!LoadBounded, A!LoadBounded, Approx!Tasks, A!Tasks

\* The index is the same computation in the runqueue and in metrics_record().
LEMMA SameIndex ==
  ASSUME NEW r, NEW e
  PROVE  Exact!fairness_jain_index(r, e) = fairness_jain_index(r, e)
BY DEF Exact!fairness_jain_index, fairness_jain_index, Exact!One, One,
       Exact!JAIN_MIN_TASKS, JAIN_MIN_TASKS, Exact!Cardinality, Cardinality,
       Exact!SumFunction, SumFunction, Exact!SumFunctionOnSet, SumFunctionOnSet,
       Exact!FoldFunctionOnSet, FoldFunctionOnSet, Exact!MapThenFoldSet, MapThenFoldSet

-----------------------------------------------------------------------------

\* The schedules can only agree because both runqueues are what they claim to be: the
\* first keeps the exact mode, both a state that SameDeltas speaks of, and the vruntimes
\* are numbers, among which the pick is unique.
LockInv ==
  /\ xmode = EXACT /\ amode \in Modes
  /\ xapaf_state \in ApafStates /\ aapaf_state \in ApafStates
  /\ xvruntime \in [Tasks -> Nat]
  /\ LoadBounded
  /\ SameSchedule

LEMMA InitLockInv == Init => LockInv
<1> SUFFICES ASSUME Init PROVE LockInv
  OBVIOUS
<1>1. /\ xmode = EXACT /\ amode \in Modes
      /\ xapaf_state \in ApafStates /\ aapaf_state \in ApafStates
      /\ xvruntime \in [Tasks -> Nat]
  BY DEF Init, Exact!Init, Approx!Init, Exact!MEDIUM, Approx!MEDIUM, Exact!Tasks, Tasks,
         ApafStates, TIGHT, MEDIUM, LOOSE
<1>2. SameSchedule
  BY DEF Init, Exact!Init, Approx!Init, SameSchedule, Exact!Tasks, Approx!Tasks
<1>3. \A i \in Tasks : Weight[i] \in Nat /\ LoadMax[i] \in Nat
  BY LockstepAssumption
<1>4. LoadBounded
  BY <1>3 DEF Init, Exact!Init, Approx!Init, LoadBounded, Exact!LoadBounded, Approx!LoadBounded,
              Exact!Tasks, Approx!Tasks, Tasks
<1>. QED
  BY <1>1, <1>2, <1>4 DEF LockInv

\* exact_tick() as the loop calls it.
LEMMA ExactTickIs ==
  ASSUME LockInv, Exact!Tick
  PROVE  /\ xtick' = xtick + 1 /\ xmode' = xmode /\ xapaf_state' = xapaf_state
         /\ Exact!UpdateLoads /\ Exact!Snapshot
         /\ \/ \E i \in Tasks : Exact!Picks(i) /\ Exact!UpdateCurr(i)
            \/ Exact!PicksNone /\ UNCHANGED << xvruntime, xexec >>
BY DEF LockInv, Exact!Tick, Exact!ExactTick, Exact!BsaTick, Exact!CltiTick, Exact!ApafTick,
       Exact!AdvanceClock, EXACT, Exact!BSA, Exact!CLTI, Exact!APAF, Exact!Tasks, Tasks

\* The tick of the logic under test: one without a runnable task leaves the loads alone.
LEMMA ApproxTickIs ==
  ASSUME LockInv, Approx!Tick
  PROVE  /\ atick' = atick + 1 /\ amode' = amode /\ aapaf_state' \in ApafStates
         /\ Approx!UpdateLoads \/ UNCHANGED << aload_sum, aload_avg >>
         /\ \/ \E i \in Tasks : Approx!Picks(i) /\ Approx!UpdateCurr(i)
            \/ Approx!PicksNone /\ UNCHANGED << avruntime, aexec >>
<1>1. ASSUME Approx!FixedTick \/ Approx!IdleReturn
      PROVE  aapaf_state' = aapaf_state
  BY <1>1 DEF Approx!FixedTick, Approx!IdleReturn
<1>2. ASSUME Approx!UpdateState
      PROVE  aapaf_state' \in ApafStates
  BY <1>2 DEF Approx!UpdateState, Approx!fairness_apaf_next_state, LockInv, ApafStates,
       Approx!TIGHT, Approx!MEDIUM, Approx!LOOSE, TIGHT, MEDIUM, LOOSE
<1>3. aapaf_state' \in ApafStates
  BY <1>1, <1>2 DEF LockInv, Approx!Tick, Approx!ExactTick, Approx!BsaTick,
                   Approx!CltiTick, Approx!ApafTick
<1>. QED
  BY <1>3 DEF Approx!Tick, Approx!ExactTick, Approx!BsaTick, Approx!CltiTick, Approx!ApafTick,
       Approx!FixedTick, Approx!IdleReturn, Approx!AdvanceClock, Approx!taskVars,
       Approx!Tasks, Tasks

\* From the same vruntimes both pick the same task and charge it the same.
LEMMA SameTick ==
  ASSUME LockInv, Exact!Tick, Approx!Tick, SameDeltas
  PROVE  avruntime' = xvruntime' /\ aexec' = xexec' /\ atick' = xtick'
<1>1. avruntime = xvruntime /\ aexec = xexec /\ atick = xtick
  BY DEF LockInv, SameSchedule
<1>2. Exact!RunnableTasks = Approx!RunnableTasks /\ Exact!RunnableTasks \subseteq Tasks
  BY DEF Exact!RunnableTasks, Approx!RunnableTasks, Exact!Tasks, Approx!Tasks, Tasks
<1>3. atick' = xtick'
  BY <1>1, ExactTickIs, ApproxTickIs
<1>4. ASSUME NEW i \in Tasks, Exact!Picks(i), Exact!UpdateCurr(i)
      PROVE  avruntime' = xvruntime' /\ aexec' = xexec'
  <2>1. PICK k \in Tasks : Approx!Picks(k) /\ Approx!UpdateCurr(k)
    BY <1>2, <1>4, ApproxTickIs DEF Exact!Picks, Approx!PicksNone
  <2>2. i \in Int /\ k \in Int /\ xvruntime[i] \in Nat /\ xvruntime[k] \in Nat
    BY DEF Tasks, LockInv
  <2>3. /\ xvruntime[i] < xvruntime[k] \/ (xvruntime[i] = xvruntime[k] /\ i <= k)
        /\ xvruntime[k] < xvruntime[i] \/ (xvruntime[i] = xvruntime[k] /\ k <= i)
    BY <1>1, <1>2, <1>4, <2>1 DEF Exact!Picks, Approx!Picks
  <2>4. k = i
    BY <2>2, <2>3
  <2>5. Delta(amode, i, aapaf_state) = Delta(xmode, i, xapaf_state)
    BY LockstepAssumption DEF SameDeltas, LockInv
  <2>. QED
    BY <1>1, <1>4, <2>1, <2>4, <2>5 DEF Exact!UpdateCurr, Approx!UpdateCurr
<1>5. ASSUME Exact!PicksNone, UNCHANGED << xvruntime, xexec >>
      PROVE  avruntime' = xvruntime' /\ aexec' = xexec'
  <2>1. ~ \E k \in Tasks : Approx!Picks(k)
    BY <1>2, <1>5 DEF Exact!PicksNone, Approx!Picks
  <2>2. UNCHANGED << avruntime, aexec >>
    BY <2>1, ApproxTickIs
  <2>. QED
    BY <1>1, <1>5, <2>2
<1>. QED
  BY <1>3, <1>4, <1>5, ExactTickIs

LEMMA NextLockInv == LockInv /\ [Next]_lockVars => LockInv'
<1> SUFFICES ASSUME LockInv, [Next]_lockVars PROVE LockInv'
  OBVIOUS
<1>1. CASE TickBoth
  <2>1. Exact!Tick /\ Approx!Tick
    BY <1>1 DEF TickBoth
  <2>2. /\ xmode' = EXACT /\ amode' \in Modes /\ amode' = amode
        /\ xapaf_state' \in ApafStates /\ aapaf_state' \in ApafStates
    BY <2>1, ExactTickIs, ApproxTickIs DEF LockInv
  <2>3. xvruntime' \in [Tasks -> Nat]
    <3>1. ASSUME NEW i \in Tasks, Exact!UpdateCurr(i)
          PROVE  xvruntime' \in [Tasks -> Nat]
      <4>1. Delta(xmode, i, xapaf_state) \in Nat
        BY LockstepAssumption DEF LockInv
      <4>. QED
        BY <3>1, <4>1 DEF LockInv, Exact!UpdateCurr
    <3>. QED
      BY <2>1, <3>1, ExactTickIs DEF LockInv
  <2>4. Exact!LoadBounded'
    BY <2>1, ExactTickIs, XLoads DEF LockInv, LoadBounded
  <2>5. Approx!LoadBounded'
    <3>1. CASE Approx!UpdateLoads
      BY <3>1, ALoads DEF LockInv, LoadBounded
    <3>2. CASE UNCHANGED << aload_sum, aload_avg >>
      BY <3>2 DEF LockInv, LoadBounded, Approx!LoadBounded
    <3>. QED
      BY <2>1, <3>1, <3>2, ApproxTickIs
  <2>6. SameSchedule'
    BY <2>1, <2>2, SameTick DEF SameSchedule, SameDeltas
  <2>. QED
    BY <2>2, <2>3, <2>4, <2>5, <2>6 DEF LockInv, LoadBounded
<1>2. CASE ~TickBoth
  <2>1. UNCHANGED << xvruntime, xexec, xload_sum, xload_avg, xtick, xmode, xapaf_state,
                     avruntime, aexec, aload_sum, aload_avg, atick, amode, aapaf_state >>
    BY <1>2 DEF Next, ChangeWorkload, CountBoth, Exact!SetRunnable, Approx!SetRunnable,
         Exact!CountRunning, Approx!CountRunning, Exact!taskVars, Approx!taskVars,
         Exact!rqVars, Approx!rqVars, lockVars, xVars, aVars
  <2>. QED
    BY <2>1 DEF LockInv, LoadBounded, Exact!LoadBounded, Approx!LoadBounded, SameSchedule,
             SameDeltas
<1>. QED
  BY <1>1, <1>2

\* Each runqueue of the loop behaves as one by itself: the other one, and the metrics,
\* only watch it (exp1_equal_weight.c:68-89).
THEOREM EachIsARunqueue == Spec => Exact!Spec /\ Approx!Spec
<1>1. Init => Exact!Init /\ Approx!Init
  BY DEF Init
<1>2. [Next]_lockVars => [Exact!Next]_(Exact!vars) /\ [Approx!Next]_(Approx!vars)
  <2> SUFFICES ASSUME [Next]_lockVars
               PROVE  /\ Exact!Next \/ UNCHANGED Exact!vars
                      /\ Approx!Next \/ UNCHANGED Approx!vars
    OBVIOUS
  <2>1. CASE TickBoth
    BY <2>1 DEF TickBoth, Exact!Next, Approx!Next
  <2>2. CASE CountBoth
    BY <2>2 DEF CountBoth, Exact!Next, Approx!Next
  <2>3. CASE ChangeWorkload
    <3>1. PICK i \in ChangeTasks, r \in {0, 1, 2} :
            Exact!SetRunnable(i, r) /\ Approx!SetRunnable(i, r)
      BY <2>3 DEF ChangeWorkload
    <3>. QED
      BY <3>1, LockstepAssumption DEF Exact!Next, Approx!Next, Exact!Change, Approx!Change,
        Exact!RunnableArgs, Approx!RunnableArgs, Exact!Tasks, Approx!Tasks, Tasks
  <2>4. CASE UNCHANGED lockVars
    BY <2>4 DEF lockVars, xVars, aVars, Exact!vars, Approx!vars
  <2>. QED
    BY <2>1, <2>2, <2>3, <2>4 DEF Next
<1>. QED
  BY <1>1, <1>2, PTL DEF Spec, Exact!Spec, Approx!Spec

\* The invariant the theorems below rest on.
LEMMA LockstepInvariant == Spec => []LockInv
BY InitLockInv, NextLockInv, PTL DEF Spec

\* Where a logic's increments are the exact ones the two schedules are the same, so
\* that the load errors reported are errors of load only.
THEOREM SchedulesAgree == Spec => []SameSchedule
<1>1. LockInv => SameSchedule
  BY DEF LockInv
<1>. QED
  BY <1>1, LockstepInvariant, PTL

\* Both runqueues keep their load accounting within its bounds.
THEOREM BothLoadsBounded == Spec => []LoadBounded
<1>1. LockInv => LoadBounded
  BY DEF LockInv
<1>. QED
  BY <1>1, LockstepInvariant, PTL

\* The fairness metrics_record() reports is then the exact runqueue's, of the same tick.
THEOREM FairnessIsExact == Spec => RecordedFairness
<1> DEFINE Recorded == atick' # atick /\ SameDeltas =>
                         entry'.tick = xtick' /\ entry'.jain_index = xjain_index'
<1>1. LockInv /\ [Next]_lockVars => [Recorded]_lockVars
  <2> SUFFICES ASSUME LockInv, [Next]_lockVars, atick' # atick, SameDeltas
               PROVE  entry'.tick = xtick' /\ entry'.jain_index = xjain_index'
    OBVIOUS
  <2>1. TickBoth
    BY DEF Next, ChangeWorkload, CountBoth, Approx!SetRunnable, Approx!CountRunning, Approx!rqVars,
           lockVars, aVars
  <2>2. /\ entry'.tick = atick'
        /\ entry'.jain_index = fairness_jain_index(runnable, aexec')
    BY <2>1 DEF TickBoth, RecordMetrics
  <2>3. aexec' = xexec' /\ atick' = xtick'
    BY <2>1, SameTick DEF TickBoth
  <2>4. xjain_index' = Exact!fairness_jain_index(runnable, xexec')
    BY <2>1, ExactTickIs DEF TickBoth, Exact!Snapshot
  <2>. QED
    BY <2>2, <2>3, <2>4, SameIndex
<1>. QED
  BY <1>1, LockstepInvariant, PTL DEF Spec, RecordedFairness
=============================================================================
