---------------------------- MODULE ApafHysteresis ----------------------------
(***************************************************************************)
(* The controller with a history of its last transition, and what          *)
(* fairness.c:66 and approx_apaf.c:166-167 claim of it: that the hysteresis *)
(* gaps keep it from oscillating.                                          *)
(***************************************************************************)
EXTENDS ApafController

VARIABLE last   \* The last transition: its tick, its direction and its index

hystVars == << tick, apaf_state, jain_index, last >>

\* Towards LOOSE is up, towards TIGHT is down.
Directions == {"none", "up", "down"}

Record == last' = IF apaf_state' = apaf_state THEN last
                  ELSE [at   |-> tick',
                        dir  |-> IF apaf_state' > apaf_state THEN "up" ELSE "down",
                        jain |-> jain_index']

HystInit == CtlInit /\ last = [at |-> 0, dir |-> "none", jain |-> One]
HystNext == CtlNext /\ Record
HystSpec == HystInit /\ [][HystNext]_hystVars

-----------------------------------------------------------------------------

\* b exceeds a by more than p/100
ExceedsBy(b, a, p) == 100 * (b.num * a.den - a.num * b.den) > p * (a.den * b.den)

Switches == apaf_state' # apaf_state

\* The controller never oscillates inside its dead bands (fairness.c:66,
\* approx_apaf.c:166): to undo its last switch, the index must have moved back
\* by more than 0.04.
ReversalNeedsGap ==
  [][ Switches =>
        /\ (last.dir = "up" /\ last'.dir = "down") => ExceedsBy(last.jain, jain_index', 4)
        /\ (last.dir = "down" /\ last'.dir = "up") => ExceedsBy(jain_index', last.jain, 4)
    ]_hystVars

\* Two switches are at least a monitor interval apart, and each moves a single
\* level (fairness.c:65, approx_apaf.c:169): LOOSE and TIGHT are eight ticks from
\* each other however steeply fairness falls.
SwitchesSpaced ==
  [][ Switches =>
        /\ last.dir # "none" => tick' >= last.at + APAF_MONITOR_INTERVAL
        /\ apaf_state' - apaf_state \in {-1, 1} ]_hystVars

HystTypeOK == /\ CtlTypeOK
              /\ last.at \in 0 .. tick
              /\ last.dir \in Directions
              /\ IsIndex(last.jain)
=============================================================================
