---------------------------- MODULE MCHierarchy ----------------------------
(* A limited group a with groups b, limited, and c in it; two tasks, one idle *)
EXTENDS CfsHierarchy

CONSTANTS root, a, b, c

MCParent == a :> root @@ b :> a @@ c :> a
=============================================================================
