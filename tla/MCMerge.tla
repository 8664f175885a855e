------------------------------ MODULE MCMerge ------------------------------
(* Three ranges over five elements, with two pairs that compare equal. *)
EXTENDS MergeSorted, TLC

CONSTANTS E1, E2, E3, E4, E5

MCKey == (E1 :> 1) @@ (E2 :> 1) @@ (E3 :> 2) @@ (E4 :> 2) @@ (E5 :> 3)
=============================================================================
