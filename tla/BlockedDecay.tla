----------------------------- MODULE BlockedDecay -----------------------------
(***************************************************************************)
(* The load sum of one blocked task: what the ticks of its runqueue do to  *)
(* it while it stays blocked, next to what one call of decay_load() over   *)
(* the whole time makes of it.  Nothing is added to a blocked task's load  *)
(* (cfs_exact.c:157-161), so a tick is one decay by one period.            *)
(***************************************************************************)
EXTENDS SchedMath

CONSTANTS Starts,    \* Starts[m]: load sums at which a task blocks, in mode m
          MaxTicks   \* Bound on the ticks it stays blocked

DecayModes == DOMAIN Starts

ASSUME BlockedDecayAssumption ==
  Starts \in [DecayModes -> SUBSET Nat] /\ DecayModes \subseteq Logics /\ MaxTicks \in Nat \ {0}

VARIABLES approx_mode,   \* rq->approx_mode
          start,         \* load_sum when the task blocked
          load,          \* load_sum now
          blocked        \* Ticks since

blockedVars == << approx_mode, start, load, blocked >>

DecayInit == /\ approx_mode \in DecayModes
             /\ start \in Starts[approx_mode]
             /\ load = start
             /\ blocked = 0

\* One tick, in whatever state the controller is.
DecayTick == /\ blocked < MaxTicks
             /\ blocked' = blocked + 1
             /\ \E s \in ApafStates : load' = TickDecay(approx_mode, load, s)
             /\ UNCHANGED << approx_mode, start >>

-----------------------------------------------------------------------------

\* The periods after which no load is left.
Cutoff == PELT_MAX_PERIODS * LOAD_AVG_PERIOD

\* A task blocked for that long has no load but what the single ticks cannot decay
\* (cfs_exact.h:11-12, "Maximum periods before load = 0", approx_bsa.c:125).
LoadSettlesByCutoff == blocked >= Cutoff => load <= Residue(approx_mode)

\* CLTI's decay over the whole time is within p/100000 of the exact one, up to two
\* units: each side truncates the products and quotients it is computed from.
CltiWithin(p) ==
  LET e == exact_decay_load(start, blocked)
      c == clti_decay_load(start, blocked)
      d == IF c < e THEN e - c ELSE c - e
  IN  d <= (e \div 100000) * p + ((e % 100000) * p) \div 100000 + 2

\* The pieces of the decay functions fit together.  Exact: decaying tick by tick or all
\* at once is the same up to the truncations of the single ticks, each less than one unit
\* and decaying itself, so no more than 1/(1-y) = 47 units are ever missing; and more
\* time never leaves more load, at the seams between the 32 table entries, the half-life
\* shifts and the cutoff (cfs_exact.c:22-51).  CLTI: within the reach of its table, up to
\* 28 periods past a half-life, it keeps the 0.0938% of an interpolation step
\* (approx_clti.c:45) but for what its entries lose to their 15 bits, less than 0.006%.
DecayPiecesFit ==
  /\ approx_mode = EXACT =>
       LET at_once == exact_decay_load(start, blocked)
       IN  /\ load <= at_once + 1 /\ at_once <= load + 47
           /\ exact_decay_load(start, blocked + 1) <= at_once
  /\ approx_mode = CLTI /\ blocked % LOAD_AVG_PERIOD <= 28 => CltiWithin(100)
=============================================================================
