---------------------------- MODULE ApafController ----------------------------
(***************************************************************************)
(* The adaptive controller on its own: apaf_update_state() as apaf_tick()  *)
(* calls it, with the runqueue it watches abstracted to the fairness index *)
(* the tick leaves behind.  This is what the controller promises whatever  *)
(* the workload does; CfsRunqueue with logic APAF implements it.           *)
(***************************************************************************)
EXTENDS FairnessIndex

CONSTANTS JainValues,   \* The fairness indices a tick may produce
          CtlMaxTick    \* Bound on the tick counter

ASSUME JainValuesAssumption  == \A j \in JainValues : IsIndex(j)
ASSUME CtlMaxTickAssumption == CtlMaxTick \in Nat \ {0}

VARIABLES tick,         \* rq->tick
          apaf_state,   \* rq->apaf_state
          jain_index    \* rq->jain_index

ctlVars == << tick, apaf_state, jain_index >>

MonitorDue(t) == t % APAF_MONITOR_INTERVAL = 0

\* rq_init()
CtlInit == /\ tick = 0
           /\ apaf_state = MEDIUM
           /\ jain_index = One

\* Fault: the controller acts on every tick.
EveryTick_NextState(t, j) == fairness_apaf_next_state(apaf_state, j)

\* apaf_update_state() in the tick that makes the counter t, on index j.
NextState(t, j) ==
  IF MonitorDue(t) THEN fairness_apaf_next_state(apaf_state, j) ELSE apaf_state

\* A tick that ran a task: the controller and the snapshot see the same index.
BusyTick == /\ tick < CtlMaxTick
            /\ tick' = tick + 1
            /\ jain_index' \in JainValues
            /\ apaf_state' = NextState(tick', jain_index')

\* A tick with no runnable task returns before the controller is called.
IdleTick == /\ tick < CtlMaxTick
            /\ tick' = tick + 1
            /\ UNCHANGED << apaf_state, jain_index >>

CtlNext == BusyTick \/ IdleTick

CtlSpec == CtlInit /\ [][CtlNext]_ctlVars

-----------------------------------------------------------------------------

CtlTypeOK == /\ tick \in 0 .. CtlMaxTick
             /\ apaf_state \in ApafStates
             /\ IsIndex(jain_index)
=============================================================================
