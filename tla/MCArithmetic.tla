----------------------------- MODULE MCArithmetic -----------------------------
(***************************************************************************)
(* TLC instance of BlockedDecay and VruntimeScaling, which do not touch    *)
(* each other: a behaviour is one of either, with the other at rest.       *)
(*                                                                         *)
(* Loads go from one unit to the balance point of nice 0 and, where the    *)
(* decay is deterministic, of the heaviest weight of the nice table.       *)
(***************************************************************************)
EXTENDS BlockedDecay, VruntimeScaling

CONSTANT None

SmallStarts == {1, 15, 31, 32, 36, 37, 1024, 47788}
LargeStarts == SmallStarts \cup {333000, 4142181}

MCStarts == [m \in Logics |-> IF m = APAF THEN SmallStarts ELSE LargeStarts]

AtRest == nice = 0 /\ state = MEDIUM
Empty  == approx_mode = None /\ start = 0 /\ load = 0 /\ blocked = 0

Init == \/ DecayInit /\ AtRest
        \/ ScaleInit /\ Empty

Next == \/ approx_mode # None /\ DecayTick /\ UNCHANGED scaleVars
        \/ approx_mode = None /\ ScaleNext /\ UNCHANGED blockedVars

Spec == Init /\ [][Next]_<< blockedVars, scaleVars >>
=============================================================================
