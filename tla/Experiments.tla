----------------------------- MODULE Experiments -----------------------------
(***************************************************************************)
(* The four experiments (experiments/exp1..exp4), each a loop around the   *)
(* two runqueues of Lockstep, with the task counts, nice levels, phases    *)
(* and tick counts of their sources.  Only exp1 is cut down, to N = 10 of  *)
(* its three task counts.                                                  *)
(*                                                                         *)
(* One iteration of a loop is up to three steps: the change of the         *)
(* workload, the two ticks with the bookkeeping on their outcome, and      *)
(* rq_count_running() on both runqueues, in the order the experiment has   *)
(* them in.  The figures an experiment computes from its metrics buffer    *)
(* after the loop are kept as running sums.                                *)
(*                                                                         *)
(* The assumption of Lockstep that the fairness index is exact looks at    *)
(* the most uneven runtimes there could be, which are beyond the index in  *)
(* runs this long.  Those that occur are not: neither product of           *)
(* fairness_jain_index() passes 18446744 in a state of an experiment.      *)
(***************************************************************************)
EXTENDS SchedMath, FairnessIndex

VARIABLES runnable, changes,
          xvruntime, xexec, xload_sum, xload_avg,
          xtick, xnr_running, xmode, xapaf_state, xjain_index,
          avruntime, aexec, aload_sum, aload_avg,
          atick, anr_running, amode, aapaf_state, ajain_index,
          entry,
          exp,           \* Which experiment: 1..4
          pc,            \* The step of its loop: "workload", "tick" or "count"
          totals,        \* Running sums over the metrics buffer
          wait,          \* exp2: the wait accounting of the interactive task
          log,           \* exp3: the transitions array, its phases and state counts
          bounds         \* exp4: the bound check

\* Both runqueues with their tasks, but for who is runnable
rqVars  == << changes, xvruntime, xexec, xload_sum, xload_avg,
              xtick, xnr_running, xmode, xapaf_state, xjain_index,
              avruntime, aexec, aload_sum, aload_avg,
              atick, anr_running, amode, aapaf_state, ajain_index, entry >>
books   == << totals, wait, log, bounds >>
expVars == << rqVars, runnable, exp, pc, books >>

-----------------------------------------------------------------------------
(* The task sets *)

Nice(e) == CASE e = 1 -> [i \in 0 .. 9 |-> 0]
             [] e = 2 -> [i \in 0 .. 10 |-> IF i = 0 THEN -10 ELSE 0]
             [] e = 3 -> [i \in 0 .. 54 |-> 0]
             [] e = 4 -> [i \in 0 .. 19 |-> << -5, 0, 5, 10 >>[i \div 5 + 1]]

LastTick(e) == CASE e = 1 -> 1000 [] e = 2 -> 2000 [] e = 3 -> 2001 [] e = 4 -> 1000

\* The logics an experiment compares with the exact one.
LogicsOf(e) == CASE e \in {1, 2} -> Logics [] e = 3 -> {APAF} [] e = 4 -> {BSA, CLTI, APAF}

WeightsOf(e) == [i \in DOMAIN Nice(e) |-> nice_to_weight(Nice(e)[i])]
LoadMaxOf(e) == [i \in DOMAIN Nice(e) |-> 49 * WeightsOf(e)[i] + 64]
DeltasOf(e) == [m \in Logics |-> [i \in DOMAIN Nice(e) |-> [s \in ApafStates |->
                  VruntimeDelta(m, WeightsOf(e)[i], s)]]]

Weights1 == WeightsOf(1)
Weights2 == WeightsOf(2)
Weights3 == WeightsOf(3)
Weights4 == WeightsOf(4)
LoadMax1 == LoadMaxOf(1)
LoadMax2 == LoadMaxOf(2)
LoadMax3 == LoadMaxOf(3)
LoadMax4 == LoadMaxOf(4)
Deltas1  == DeltasOf(1)
Deltas2  == DeltasOf(2)
Deltas3  == DeltasOf(3)
Deltas4  == DeltasOf(4)

Delta1(m, i, s) == Deltas1[m][i][s]
Delta2(m, i, s) == Deltas2[m][i][s]
Delta3(m, i, s) == Deltas3[m][i][s]
Delta4(m, i, s) == Deltas4[m][i][s]
Decay(m, l, s)  == TickDecay(m, l, s)

Modes       == Logics
MaxTick     == 2001
MaxChanges  == 0
ChangeTicks == 0 .. MaxTick
ChangeTasks == {}

E1 == INSTANCE Lockstep WITH NTasks <- 10, Weight <- Weights1, LoadMax <- LoadMax1, Delta <- Delta1
E2 == INSTANCE Lockstep WITH NTasks <- 11, Weight <- Weights2, LoadMax <- LoadMax2, Delta <- Delta2
E3 == INSTANCE Lockstep WITH NTasks <- 55, Weight <- Weights3, LoadMax <- LoadMax3, Delta <- Delta3
E4 == INSTANCE Lockstep WITH NTasks <- 20, Weight <- Weights4, LoadMax <- LoadMax4, Delta <- Delta4

\* The loop counter: every iteration ticks once.
i_ == xtick

-----------------------------------------------------------------------------
(* Sums over the metrics buffer: total_ops_saved, max_error_pct and the      *)
(* transitions metrics_print_summary() counts                                *)

Greater(e, f) == e.num * f.den > f.num * e.den

AddTotals ==
  totals' = [ops         |-> totals.ops + entry'.ops_saved,
             max_error   |-> IF Greater(entry'.max_error, totals.max_error)
                             THEN entry'.max_error ELSE totals.max_error,
             transitions |-> IF i_ > 0 /\ amode = APAF /\ entry'.apaf_state # entry.apaf_state
                             THEN totals.transitions + 1 ELSE totals.transitions]

-----------------------------------------------------------------------------
(* exp1: equal tasks *)

Exp1Tick == /\ exp = 1 /\ i_ < LastTick(1)
            /\ E1!TickBoth
            /\ AddTotals
            /\ UNCHANGED << exp, pc, wait, log, bounds >>

-----------------------------------------------------------------------------
(* exp2: one interactive task among batch tasks *)

INTERACTIVE     == 0
INTERACTIVE_ON  == 5
INTERACTIVE_OFF == 5

\* Fault: was_blocked is not cleared, and a wait starts over in every tick.
Sticky_Exp2Workload ==
  /\ exp = 2 /\ pc = "workload" /\ i_ < LastTick(2)
  /\ pc' = "tick"
  /\ LET on == i_ % (INTERACTIVE_ON + INTERACTIVE_OFF) < INTERACTIVE_ON
     IN  /\ runnable' = [runnable EXCEPT ![INTERACTIVE] = IF on THEN 1 ELSE 0]
         /\ wait' = IF ~on THEN [wait EXCEPT !.was_blocked = 1, !.current = 0]
                    ELSE IF wait.was_blocked = 1 THEN [wait EXCEPT !.current = 0]
                    ELSE wait
  /\ UNCHANGED << rqVars, exp, totals, log, bounds >>

\* The head of the loop: five ticks on, five off.  A wait that is still open when
\* the task blocks is dropped.
Exp2Workload ==
  /\ exp = 2 /\ pc = "workload" /\ i_ < LastTick(2)
  /\ pc' = "tick"
  /\ LET on == i_ % (INTERACTIVE_ON + INTERACTIVE_OFF) < INTERACTIVE_ON
     IN  /\ runnable' = [runnable EXCEPT ![INTERACTIVE] = IF on THEN 1 ELSE 0]
         /\ wait' = IF ~on THEN [wait EXCEPT !.was_blocked = 1, !.current = 0]
                    ELSE IF wait.was_blocked = 1
                         THEN [wait EXCEPT !.was_blocked = 0, !.current = 0]
                    ELSE wait
  /\ UNCHANGED << rqVars, exp, totals, log, bounds >>

\* Fault: the last of equal vruntimes is taken.
Last_MinIdx(vruntime) ==
  CHOOSE i \in E2!Approx!RunnableTasks : \A j \in E2!Approx!RunnableTasks :
    vruntime[i] < vruntime[j] \/ (vruntime[i] = vruntime[j] /\ i >= j)

\* min_idx: the first runnable task with the least vruntime
MinIdx(vruntime) ==
  CHOOSE i \in E2!Approx!RunnableTasks : \A j \in E2!Approx!RunnableTasks :
    vruntime[i] < vruntime[j] \/ (vruntime[i] = vruntime[j] /\ i <= j)

\* The accounting after the ticks: who is first in line now?
AccountWait ==
  wait' = IF runnable[INTERACTIVE] # 1 THEN wait
          ELSE IF MinIdx(avruntime') # INTERACTIVE
               THEN [wait EXCEPT !.current = @ + 1, !.max = Max({@, wait.current + 1})]
          ELSE IF wait.current > 0
               THEN [wait EXCEPT !.sum = @ + wait.current, !.events = @ + 1, !.current = 0]
          ELSE wait

Exp2Tick == /\ exp = 2 /\ pc = "tick"
            /\ pc' = "count"
            /\ E2!TickBoth
            /\ AccountWait
            /\ AddTotals
            /\ UNCHANGED << exp, log, bounds >>

Exp2Count == /\ exp = 2 /\ pc = "count"
             /\ pc' = "workload"
             /\ E2!CountBoth
             /\ UNCHANGED << exp, books >>

-----------------------------------------------------------------------------
(* exp3: 5, then 55, then 15 tasks *)

PHASE1_END == 500
PHASE2_END == 1500
LogSize    == 100

PhaseTasks(phase) == << 5, 55, 15 >>[phase]

StartPhase(phase) ==
  /\ runnable' = [t \in DOMAIN runnable |-> IF t < PhaseTasks(phase) THEN 1 ELSE 0]
  /\ log' = [log EXCEPT !.phase = phase]

\* The setup of phase 1 (before rq_init counts), the spike and the recovery
Exp3Workload ==
  /\ exp = 3 /\ pc = "workload" /\ i_ < LastTick(3)
  /\ \/ i_ = 0 /\ StartPhase(1) /\ pc' = "count"
     \/ i_ = PHASE1_END /\ StartPhase(2) /\ pc' = "count"
     \/ i_ = PHASE2_END /\ StartPhase(3) /\ pc' = "count"
     \/ /\ i_ \notin {0, PHASE1_END, PHASE2_END}
        /\ pc' = "tick"
        /\ UNCHANGED << runnable, log >>
  /\ UNCHANGED << rqVars, exp, totals, wait, bounds >>

Exp3Count == /\ exp = 3 /\ pc = "count"
             /\ pc' = "tick"
             /\ E3!CountBoth
             /\ UNCHANGED << exp, books >>

\* Fault: the previous state is only updated when an entry was written too late.
Late_LogTransition ==
  log' = [log EXCEPT
    !.prev = aapaf_state,
    !.transitions =
      IF aapaf_state' # log.prev /\ Len(@) < LogSize
      THEN Append(@, [tick |-> i_, old |-> log.prev, new |-> aapaf_state', phase |-> log.phase])
      ELSE @,
    !.counts = [@ EXCEPT ![log.phase][aapaf_state'] = @ + 1]]

\* A change of state is appended while there is room; every tick is counted for
\* the state it ended in.
LogTransition ==
  log' = [log EXCEPT
    !.prev = aapaf_state',
    !.transitions =
      IF aapaf_state' # log.prev /\ Len(@) < LogSize
      THEN Append(@, [tick |-> i_, old |-> log.prev, new |-> aapaf_state', phase |-> log.phase])
      ELSE @,
    !.counts = [@ EXCEPT ![log.phase][aapaf_state'] = @ + 1]]

Exp3Tick == /\ exp = 3 /\ pc = "tick"
            /\ pc' = "workload"
            /\ E3!TickBoth
            /\ LogTransition
            /\ AddTotals
            /\ UNCHANGED << exp, wait, bounds >>

\* reaction_ticks and recovery_ticks: from the boundary to the first logged
\* transition at or after it, of whatever phase; 0 when there is none.
TicksToFirst(boundary) ==
  LET later == SelectSeq(log.transitions, LAMBDA t : t.tick >= boundary)
  IN  IF later = << >> THEN 0 ELSE later[1].tick - boundary

\* dominant_state: the state most ticks of the phase ended in, the first of equals
DominantState(phase) ==
  CHOOSE s \in ApafStates : \A t \in ApafStates :
    log.counts[phase][s] > log.counts[phase][t]
      \/ (log.counts[phase][s] = log.counts[phase][t] /\ s <= t)

-----------------------------------------------------------------------------
(* exp4: the decay error against the bound of the logic *)

\* EFF_*: bound plus tolerance, in 1/10000 of a percent
Bound(state) ==
  CASE amode = BSA                     -> 15037
    [] amode = CLTI                    -> 5938
    [] amode = APAF /\ state = TIGHT   -> 15000
    [] amode = APAF /\ state = MEDIUM  -> 35000
    [] amode = APAF /\ state = LOOSE   -> 46474

\* The decay of LOAD_AVG_MAX by one period, exact and approximate, under the
\* state before the tick.  tick_err is their difference relative to the first.
ExactStep == exact_decay_load(LOAD_AVG_MAX, 1)

\* Fault: the error is that of LOOSE in every state.
Loose_TickErr(state) == E4!Abs(TickDecay(amode, LOAD_AVG_MAX, LOOSE) - ExactStep)

TickErr(state) == E4!Abs(TickDecay(amode, LOAD_AVG_MAX, state) - ExactStep)


\* tick_err > bound, with the bound of the state after the tick
Exceeds(err, bound) ==
  err * 500000 > (bound \div 2) * ExactStep + ((bound % 2) * ExactStep) \div 2

CheckBound ==
  LET err == TickErr(aapaf_state)
  IN  bounds' = [violations |-> IF Exceeds(err, Bound(aapaf_state'))
                                THEN bounds.violations + 1 ELSE bounds.violations,
                 max_err    |-> Max({bounds.max_err, err}),
                 states     |-> IF amode = APAF
                                THEN [bounds.states EXCEPT ![aapaf_state'] = @ + 1]
                                ELSE bounds.states]

Exp4Tick == /\ exp = 4 /\ i_ < LastTick(4)
            /\ E4!TickBoth
            /\ CheckBound
            /\ AddTotals
            /\ UNCHANGED << exp, pc, wait, log >>

-----------------------------------------------------------------------------

\* task_create() and rq_init() for both runqueues, metrics_init(), the counters at 0.
\* exp4 sets apaf_state to MEDIUM, which rq_init() has done already.
Init ==
  /\ exp \in 1 .. 4
  /\ \/ exp = 1 /\ E1!Init
     \/ exp = 2 /\ E2!Init
     \/ exp = 3 /\ E3!Init
     \/ exp = 4 /\ E4!Init
  /\ amode \in LogicsOf(exp)
  /\ pc = IF exp \in {2, 3} THEN "workload" ELSE "tick"
  /\ totals = [ops |-> 0, max_error |-> [num |-> 0, den |-> 1], transitions |-> 0]
  /\ wait   = [current |-> 0, max |-> 0, sum |-> 0, events |-> 0, was_blocked |-> 1]
  /\ log    = [prev |-> MEDIUM, phase |-> 1, transitions |-> << >>,
               counts |-> [p \in 1 .. 3 |-> [s \in ApafStates |-> 0]]]
  /\ bounds = [violations |-> 0, max_err |-> 0, states |-> [s \in ApafStates |-> 0]]

Next == \/ Exp1Tick
        \/ Exp2Workload \/ Exp2Tick \/ Exp2Count
        \/ Exp3Workload \/ Exp3Count \/ Exp3Tick
        \/ Exp4Tick

\* An experiment is one sequential program that never waits.
Spec == Init /\ [][Next]_expVars /\ WF_expVars(Next)

-----------------------------------------------------------------------------
(* Properties *)

Finished == xtick = LastTick(exp) /\ pc # "count"

\* e is p/100 percent, rounded to two decimals
Rounds(e, p) == /\ 20000 * e.num <  (2 * p + 1) * e.den
                /\ 20000 * e.num >= (2 * p - 1) * e.den

\* The model computes what the program computed: the figures committed with the
\* sources (results/exp1_summary.txt:10-15, results/exp2_summary.txt:8-11, results/exp2_APAF.csv,
\* results/exp3_transitions.txt:5-10, results/exp3_summary.txt:6-21,
\* results/exp4_summary.txt:7-22).
RecordedResults ==
  Finished =>
    CASE exp = 1 -> << totals.ops, aapaf_state >> =
                    << << 0, 10000, 40000, 39570 >>[amode + 1],
                       IF amode = APAF THEN LOOSE ELSE MEDIUM >>
                    /\ Rounds(totals.max_error, << 0, 3145, 302, 118 >>[amode + 1])
      [] exp = 2 -> << aexec[INTERACTIVE], wait.max >> = << << 960, 961, 569, 960 >>[amode + 1], 5 >>
                    /\ Rounds([num |-> wait.sum, den |-> 100 * wait.events],
                              << 100, 100, 302, 100 >>[amode + 1])
                    /\ Rounds(totals.max_error, << 0, 3145, 302, 234 >>[amode + 1])
                    /\ totals.transitions = IF amode = APAF THEN 397 ELSE 0
      [] exp = 3 -> /\ [k \in DOMAIN log.transitions |->
                         << log.transitions[k].tick, log.transitions[k].phase,
                            log.transitions[k].new >>]
                       = << << 3, 1, TIGHT >>, << 11, 1, MEDIUM >>, << 15, 1, LOOSE >>,
                            << 503, 2, MEDIUM >>, << 507, 2, TIGHT >>, << 1935, 3, MEDIUM >> >>
                    /\ TicksToFirst(PHASE1_END) = 3 /\ TicksToFirst(PHASE2_END) = 435
                    /\ [p \in 1 .. 3 |-> DominantState(p)] = << LOOSE, TIGHT, TIGHT >>
      [] exp = 4 -> bounds.violations = 0
                    /\ Rounds([num |-> bounds.max_err, den |-> ExactStep],
                              << 100, 7, 12 >>[amode])
                    /\ amode = APAF => bounds.states = [s \in ApafStates |-> << 989, 11, 0 >>[s + 1]]

\* exp2 calls a tick waited when the interactive task is not first in line after
\* it.  Within a phase that is exactly when the scheduler leaves it out in the next
\* tick: the scan of the experiment and the pick of the runqueue, written twice,
\* agree, ties included (exp2_mixed_load.c:117-137, cfs_exact.c:178-198).
WaitForeseesPick ==
  [][ exp = 2 /\ atick' # atick
        /\ i_ % (INTERACTIVE_ON + INTERACTIVE_OFF) \in 1 .. INTERACTIVE_ON - 1 =>
      (wait.current > 0 <=> aexec'[INTERACTIVE] = aexec[INTERACTIVE]) ]_expVars

\* The log is the controller's history: each entry leaves the state the one before
\* entered, ticks and phases go up, none is lost to the cap of 100 entries, and
\* metrics_print_summary() counts the same number from the buffer
\* (exp3_dynamic_spike.c:139-157, metrics.c:190-194).
LogIsHistory ==
  LET t == log.transitions
      n == Len(t)
  IN  exp = 3 =>
        /\ n = totals.transitions
        /\ n > 0 => t[1].old = MEDIUM
        /\ aapaf_state = IF n = 0 THEN MEDIUM ELSE t[n].new
        /\ \A k \in 1 .. n - 1 : /\ t[k].new = t[k + 1].old
                                 /\ t[k].tick < t[k + 1].tick
                                 /\ t[k].phase <= t[k + 1].phase

\* After the spike is gone the controller leaves TIGHT in the end, although the
\* index still remembers the runtimes of phase 1 (exp3_dynamic_spike.c:127-137).
RecoversFromSpike == (exp = 3 /\ log.phase = 3) ~> (aapaf_state # TIGHT)

\* exp4 verifies its bounds on one number, the decay of LOAD_AVG_MAX.  The loads of
\* the tasks, which no experiment checks tick by tick, err by no more than that
\* share of themselves, give or take what truncation hides: up to two of the 47742
\* units measured, and two of the load itself (exp4_error_bound.c:119-141).
MeasuredErrorCoversLoads ==
  \A i \in DOMAIN aload_sum :
    E4!Abs(TickDecay(amode, aload_sum[i], aapaf_state) - exact_decay_load(aload_sum[i], 1))
      * LOAD_AVG_MAX <= (TickErr(aapaf_state) + 2) * aload_sum[i] + 2 * LOAD_AVG_MAX
=============================================================================
