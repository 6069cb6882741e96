------------------------------ MODULE NohzIdle ------------------------------
(***************************************************************************)
(* The idle load balancer of the kernel's fair class (docs/fair.c): CPUs   *)
(* that stop their tick when they are idle put themselves on a mask and    *)
(* set nohz.has_blocked; a CPU that still ticks kicks an idle one with an  *)
(* IPI, which updates the blocked load of all of them, after it has        *)
(* cleared the flag, and sets it again if load is left.  Nothing of this   *)
(* is under a common lock: an idle CPU may get work, stop its tick or be   *)
(* kicked at any point of somebody else's walk over the mask.              *)
(*                                                                         *)
(* The memory barriers of the code order its stores; a step here is a      *)
(* store others may see.  Whether the time for an update or a balance has  *)
(* come is any choice.  What a full balance does for an idle CPU is left   *)
(* out, and so is nohz.next_balance: of the kick flags NOHZ_STATS_KICK is  *)
(* left, which comes with every NOHZ_BALANCE_KICK, and NOHZ_NEWILB_KICK.   *)
(***************************************************************************)
EXTENDS Integers, FiniteSets, FiniteSetsExt

CONSTANTS NumCPUs,
          Housekeeping,   \* CPUs of HK_TYPE_SCHED; the others always run a task
          MiscSets,       \* What the CPUs of HK_TYPE_MISC may be: all but those of nohz_full
          MaxLoad         \* MaxLoad[c]: updates until the blocked load of CPU c has decayed

ASSUME NohzAssumption ==
  /\ NumCPUs \in Nat \ {0}
  /\ Housekeeping \subseteq 1 .. NumCPUs /\ MiscSets \subseteq SUBSET (1 .. NumCPUs)
  /\ MaxLoad \in [Housekeeping -> Nat \ {0}]

CPUs == 1 .. NumCPUs

VARIABLES nohz,   \* The nohz structure: idle_cpus_mask, nr_cpus, has_blocked; nr_busy_cpus;
                  \* and misc, housekeeping_cpumask(HK_TYPE_MISC), which never changes
          rq,     \* rq[c]: the fields of the runqueue of CPU c that are used here
          pc,     \* pc[c]: "busy", or what the idle loop of CPU c is at
          walk    \* walk[c]: the walk over the mask that CPU c is at

nVars == << nohz, rq, pc, walk >>

NoWalk == [on |-> FALSE, todo |-> {}, blocked |-> FALSE]

\* load: blocked load; work: a task is there to run, need_resched() is set; stats and newilb:
\* the atomic nohz_flags, of which stats says that the IPI is on its way; softirq:
\* rq->nohz_idle_balance.
Init ==
  /\ \E misc \in MiscSets :
       nohz = [mask |-> {}, nr_cpus |-> 0, nr_busy |-> NumCPUs, has_blocked |-> FALSE,
               misc |-> misc]
  /\ rq = [c \in CPUs |-> [load |-> 0, has_blocked_load |-> FALSE,
                           tick_stopped |-> FALSE, work |-> TRUE,
                           stats |-> FALSE, newilb |-> FALSE, softirq |-> FALSE]]
  /\ pc = [c \in CPUs |-> "busy"]
  /\ walk = [c \in CPUs |-> NoWalk]

Idle(c) == pc[c] # "busy" /\ ~rq[c].work

-----------------------------------------------------------------------------
(* Kicks *)

\* find_new_ilb(): there may be none, although CPUs are idle.
NewIlb(c) == {i \in (nohz.mask \cap nohz.misc) \ {c} : Idle(i)}

\* kick_ilb(): the CPU that sets the flag sends the IPI.
Kick(c, rqs) ==
  IF NewIlb(c) = {} THEN rqs
  ELSE [rqs EXCEPT ![Min(NewIlb(c))].stats = TRUE]

\* nohz_balance_exit_idle()
ExitIdle(c) ==
  IF rq[c].tick_stopped
  THEN [nohz EXCEPT !.mask = @ \ {c}, !.nr_cpus = @ - 1, !.nr_busy = @ + 1]
  ELSE nohz

\* The tick of a busy CPU: nohz_balancer_kick(); kick: next_blocked has passed and there is
\* blocked load, or next_balance has and there is a reason to balance.
Tick(c, kick) ==
  LET after == ExitIdle(c)
      rqs   == [rq EXCEPT ![c].tick_stopped = FALSE]
  IN  /\ pc[c] = "busy"
      /\ nohz' = after
      /\ rq' = IF after.nr_cpus > 0 /\ kick THEN Kick(c, rqs) ELSE rqs
      /\ UNCHANGED << pc, walk >>

\* nohz_csd_func() (core.c) in the IPI
Csd(c) ==
  /\ rq[c].stats /\ pc[c] \notin {"mask", "flag"}
  /\ rq' = [rq EXCEPT ![c].stats = FALSE, ![c].newilb = FALSE,
                      ![c].softirq = @ \/ Idle(c)]
  /\ UNCHANGED << nohz, pc, walk >>

-----------------------------------------------------------------------------
(* The walk of the idle load balancer *)

\* _nohz_idle_balance(): what is known is forgotten first.  No other CPUs are ever on the mask.
Starts(c) ==
  /\ nohz' = [nohz EXCEPT !.has_blocked = FALSE]
  /\ walk' = [walk EXCEPT ![c] = [on |-> TRUE, todo |-> Housekeeping, blocked |-> FALSE]]

\* run_rebalance_domains() of a kicked CPU: nohz_idle_balance(), which the idle loop waits
\* for; a CPU that is busy by now forgets it.
Softirq(c) ==
  /\ rq[c].softirq /\ ~walk[c].on /\ pc[c] \in {"busy", "idle", "tickless"}
  /\ rq' = [rq EXCEPT ![c].softirq = FALSE]
  /\ IF pc[c] = "busy" THEN UNCHANGED << nohz, walk >> ELSE Starts(c)
  /\ UNCHANGED pc

\* for_each_cpu_wrap() from the next CPU on
NextCpu(c) ==
  LET dist(b) == (b - c - 1) % NumCPUs
  IN  CHOOSE b \in walk[c].todo : \A d \in walk[c].todo : dist(b) <= dist(d)

Passed(c) == walk[c].todo \ {NextCpu(c)}

\* update_blocked_averages(), under rq->lock
UpdateBlocked(r) ==
  LET load == Max({r.load - 1, 0})
  IN  [r EXCEPT !.load = load, !.has_blocked_load = @ /\ load > 0]

\* CPU b of the mask is visited, if it is still idle: update_nohz_stats(), in another jiffy
\* than the last.
Looks(c, b) ==
  LET new == IF rq[b].has_blocked_load THEN UpdateBlocked(rq[b]) ELSE rq[b]
  IN  /\ walk' = [walk EXCEPT ![c].todo = Passed(c), ![c].blocked = @ \/ new.has_blocked_load]
      /\ rq' = [rq EXCEPT ![b] = new]

Visit(c) ==
  /\ walk[c].on /\ walk[c].todo # {}
  /\ IF NextCpu(c) \in nohz.mask /\ Idle(NextCpu(c)) THEN ~rq[c].work /\ Looks(c, NextCpu(c))
     ELSE walk' = [walk EXCEPT ![c].todo = Passed(c)] /\ UNCHANGED rq
  /\ UNCHANGED << nohz, pc >>

\* The CPU got work: the next idle load balancer will go on.
Abort(c) ==
  /\ walk[c].on /\ walk[c].todo # {} /\ rq[c].work
  /\ NextCpu(c) \in nohz.mask /\ Idle(NextCpu(c))
  /\ nohz' = [nohz EXCEPT !.has_blocked = TRUE]
  /\ walk' = [walk EXCEPT ![c] = NoWalk]
  /\ UNCHANGED << rq, pc >>

\* Fault: the load that was seen is forgotten.
Quiet_Finish(c) ==
  /\ walk[c].on /\ walk[c].todo = {}
  /\ walk' = [walk EXCEPT ![c] = NoWalk]
  /\ UNCHANGED << nohz, rq, pc >>

Finish(c) ==
  /\ walk[c].on /\ walk[c].todo = {}
  /\ nohz' = [nohz EXCEPT !.has_blocked = @ \/ walk[c].blocked]
  /\ walk' = [walk EXCEPT ![c] = NoWalk]
  /\ UNCHANGED << rq, pc >>

-----------------------------------------------------------------------------
(* Going idle and getting work *)

\* The last task sleeps and leaves blocked load; newidle_balance() finds nothing to pull, and
\* nohz_newidle_balance() asks for a walk if one is due.
GoIdle(c, due) ==
  /\ pc[c] = "busy" /\ c \in Housekeeping
  /\ due => nohz.has_blocked
  /\ rq' = [rq EXCEPT ![c].work = FALSE, ![c].newilb = @ \/ due, ![c].load = MaxLoad[c]]
  /\ pc' = [pc EXCEPT ![c] = "newidle"]
  /\ UNCHANGED << nohz, walk >>

\* do_idle(): nohz_run_idle_balance(), unless a kick will do the same.
RunIdleBalance(c) ==
  /\ pc[c] = "newidle"
  /\ rq' = [rq EXCEPT ![c].newilb = FALSE]
  /\ IF rq[c].newilb /\ ~rq[c].stats /\ ~rq[c].work THEN Starts(c) ELSE UNCHANGED << nohz, walk >>
  /\ pc' = [pc EXCEPT ![c] = "idle"]

\* Fault: a CPU that is on the mask already has nothing to do.
Quiet_EnterIdle(c) ==
  /\ pc[c] = "idle" /\ ~walk[c].on /\ ~rq[c].work
  /\ rq' = [rq EXCEPT ![c].has_blocked_load = TRUE]
  /\ pc' = [pc EXCEPT ![c] = IF rq[c].tick_stopped THEN "tickless" ELSE "mask"]
  /\ UNCHANGED << nohz, walk >>

\* nohz_balance_enter_idle() when the tick is stopped: rq->has_blocked_load, ...
EnterIdle(c) ==
  /\ pc[c] = "idle" /\ ~walk[c].on /\ ~rq[c].work
  /\ rq' = [rq EXCEPT ![c].has_blocked_load = TRUE]
  /\ pc' = [pc EXCEPT ![c] = IF rq[c].tick_stopped THEN "flag" ELSE "mask"]
  /\ UNCHANGED << nohz, walk >>

\* ... the mask, and after it ...
SetMask(c) ==
  /\ pc[c] = "mask"
  /\ rq' = [rq EXCEPT ![c].tick_stopped = TRUE]
  /\ nohz' = [nohz EXCEPT !.mask = @ \cup {c}, !.nr_cpus = @ + 1, !.nr_busy = @ - 1]
  /\ pc' = [pc EXCEPT ![c] = "flag"]
  /\ UNCHANGED walk

\* ... nohz.has_blocked
SetHasBlocked(c) ==
  /\ pc[c] = "flag"
  /\ nohz' = [nohz EXCEPT !.has_blocked = TRUE]
  /\ pc' = [pc EXCEPT ![c] = "tickless"]
  /\ UNCHANGED << rq, walk >>

\* The tick of a CPU that is idle: run_rebalance_domains() updates its own blocked load.
IdleTick(c) ==
  /\ pc[c] = "idle" /\ ~walk[c].on /\ ~rq[c].softirq
  /\ rq' = [rq EXCEPT ![c] = UpdateBlocked(@)]
  /\ UNCHANGED << nohz, pc, walk >>

\* A task is enqueued on an idle CPU.
Wake(c) ==
  /\ Idle(c)
  /\ rq' = [rq EXCEPT ![c].work = TRUE]
  /\ UNCHANGED << nohz, pc, walk >>

\* The idle loop sees it: the tick runs again, and looks after the load.
LeaveIdle(c) ==
  /\ pc[c] \in {"idle", "tickless"} /\ ~walk[c].on /\ rq[c].work
  /\ pc' = [pc EXCEPT ![c] = "busy"]
  /\ rq' = [rq EXCEPT ![c].load = 0]
  /\ UNCHANGED << nohz, walk >>

WalkStep(c) == Visit(c) \/ Abort(c) \/ Finish(c)
IdleStep(c) == RunIdleBalance(c) \/ SetMask(c) \/ SetHasBlocked(c) \/ LeaveIdle(c)

Next ==
  \/ \E c \in CPUs : \/ \E kick \in BOOLEAN : Tick(c, kick)
                     \/ Csd(c) \/ Softirq(c) \/ WalkStep(c) \/ IdleStep(c)
                     \/ \E due \in BOOLEAN : GoIdle(c, due)
                     \/ EnterIdle(c) \/ IdleTick(c) \/ Wake(c)

\* Of the CPUs that may kick themselves for a walk, and of the others, some take ticks at which
\* an update is due; a CPU's IPIs and softirqs are served, and its walk or idle loop goes on.
Fairness ==
  /\ SF_nVars(\E c \in Housekeeping : Tick(c, nohz.has_blocked))
  /\ SF_nVars(\E c \in CPUs \ Housekeeping : Tick(c, nohz.has_blocked))
  /\ \A c \in Housekeeping : /\ WF_nVars(Csd(c)) /\ WF_nVars(Softirq(c))
                             /\ WF_nVars(WalkStep(c) \/ IdleStep(c))

Spec == Init /\ [][Next]_nVars /\ Fairness

-----------------------------------------------------------------------------
(* Properties *)

Tickless(c) == pc[c] = "tickless" /\ ~rq[c].work

\* The blocked load of a CPU without a tick is not forgotten: has_blocked is set, or a walk
\* that cleared it comes by the CPU yet or has seen load ("we are sure to not clear the state
\* and not check the load of an idle cpu", fair.c:11099-11107).
BlockedLoadRemembered ==
  \A c \in CPUs :
    Tickless(c) /\ rq[c].load > 0 =>
      \/ nohz.has_blocked
      \/ \E i \in CPUs : walk[i].on /\ (c \in walk[i].todo \/ walk[i].blocked)

\* The blocked load of a CPU that stays idle decays though it has no tick, if another CPU
\* keeps ticking and the balancers are not interrupted for ever (fair.c:11088-11190). One
\* that may not balance itself also needs another that may and stays idle
\* (fair.c:10781-10802).
BlockedLoadDecays ==
  \/ <>[](\A c \in CPUs : pc[c] # "busy")
  \/ []<><<\E c \in CPUs : Abort(c)>>_nVars
  \/ \A c \in Housekeeping :
       \/ []<>(~Tickless(c) \/ rq[c].load = 0)
       \/ []<>(c \notin nohz.misc /\ \A i \in nohz.mask \cap nohz.misc : ~Idle(i))
=============================================================================
