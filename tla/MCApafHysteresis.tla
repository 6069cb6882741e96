--------------------------- MODULE MCApafHysteresis ---------------------------
(***************************************************************************)
(* TLC instance of ApafHysteresis: indices on and on either side of every  *)
(* threshold, the extremes, and one that is not a whole percentage.        *)
(***************************************************************************)
EXTENDS ApafHysteresis

Percents == {0, 89, 90, 91, 92, 93, 94, 95, 96, 97, 98, 100}

MCJainValues == {[num |-> p, den |-> 100] : p \in Percents}
                  \cup {[num |-> 64, den |-> 66]}
=============================================================================
