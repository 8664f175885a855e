------------------------------ MODULE MCBlocks ------------------------------
(* Two code blocks and a data block that overlap in a small interval. *)
EXTENDS BlockIndex, TLC

CONSTANTS C1, C2, D1

MCRank == (C1 :> 1) @@ (C2 :> 2) @@ (D1 :> 3)
=============================================================================
