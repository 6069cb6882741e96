----------------------------- MODULE MCNohzIdle -----------------------------
(* CPU 1 has load left after one update; CPU 3 always ticks. *)
EXTENDS NohzIdle

MCMaxLoad == <<2, 1>>

MCMiscSets == {{3}, {1, 3}, {1, 2, 3}}
=============================================================================
