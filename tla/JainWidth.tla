------------------------------- MODULE JainWidth -------------------------------
(***************************************************************************)
(* fairness_jain_index() in the u64 arithmetic it uses, for a group of     *)
(* equal tasks that never block and run past the horizon JainExact of      *)
(* FairnessIndex.                                                          *)
(*                                                                         *)
(* A product of two runtimes is m * TICK_NS^2 = m * 5^12 * 2^12, m in      *)
(* ticks^2, so what u64 keeps of it is m * 5^12 modulo 2^52, times 2^12.   *)
(* That residue is held here as four 13-bit digits, least significant      *)
(* first; the factor 2^12 cancels in the index.                            *)
(***************************************************************************)
EXTENDS FairnessIndex, SchedMath

CONSTANTS NTasks,    \* rq->nr_tasks, all of nice 0 and runnable
          MaxTick    \* Bound on the tick counter

Tasks == 0 .. NTasks - 1

VARIABLES exec_runtime,   \* per task, in units of TICK_NS
          tick            \* rq->tick

widthVars == << exec_runtime, tick >>

-----------------------------------------------------------------------------

Base == 8192

\* The digits of a sum of columns, carries propagated and the last one dropped.
Normal(columns) ==
  FoldLeft(LAMBDA a, c : << Append(a[1], (a[2] + c) % Base), (a[2] + c) \div Base >>,
           << << >>, 0 >>, columns)[1]

\* The u64 (m * TICK_NS^2) \div 2^12
u64(m) ==
  LET x == Digits(m, Base, 3)
      y == Digits(5^12, Base, 3)
  IN  Normal([k \in 1 .. 4 |->
        MapThenSumSet(LAMBDA i : x[i] * y[k + 1 - i], {i \in 1 .. 3 : k + 1 - i \in 1 .. 3})])

Times(p, w) == Normal([k \in 1 .. 5 |-> IF k = 5 THEN 0 ELSE p * w[k]])

Less(a, b) == \E k \in 1 .. 5 : a[k] < b[k] /\ \A l \in k + 1 .. 5 : a[l] = b[l]

\* The two products whose quotient is the index, in u64
jain_num == LET sum == MapThenSumSet(LAMBDA i : exec_runtime[i], Tasks)
            IN  u64(sum * sum)
jain_den == u64(NTasks * MapThenSumSet(LAMBDA i : exec_runtime[i] * exec_runtime[i], Tasks))

-----------------------------------------------------------------------------

Init == exec_runtime = [i \in Tasks |-> 0] /\ tick = 0

\* A tick of any logic: at nice 0 vruntime is exec_runtime.
Tick ==
  /\ tick < MaxTick
  /\ tick' = tick + 1
  /\ \E i \in Tasks :
       /\ \A j \in Tasks : \/ exec_runtime[i] < exec_runtime[j]
                           \/ exec_runtime[i] = exec_runtime[j] /\ i <= j
       /\ exec_runtime' = [exec_runtime EXCEPT ![i] = @ + 1]

Spec == Init /\ [][Tick]_widthVars

\* The index of fairness.c:8, "J = (sum x)^2 / (n * sum x^2)", "Error bound: 0%
\* (exact double arithmetic)" (fairness.c:11), is above 0.97 from the third round on
\* for tasks whose runtimes differ by one tick at most; it must then be so for the
\* computed one.
EqualTasksLookFair ==
  tick >= 3 * NTasks => Less(Times(97, jain_den), Times(100, jain_num))
=============================================================================
