----------------------------- MODULE MCQueries -----------------------------
(* A small instance of Queries: two modules, two sections,
   two byte intervals and three blocks. *)
EXTENDS Queries

CONSTANTS I, M1, M2, S1, S2, B1, B2, C1, C2, D1

MCNode == {I, M1, M2, S1, S2, B1, B2, C1, C2, D1}

MCKind == [n \in MCNode |->
    CASE n = I -> "IR"
      [] n \in {M1, M2} -> "Module"
      [] n \in {S1, S2} -> "Section"
      [] n \in {B1, B2} -> "ByteInterval"
      [] n \in {C1, C2} -> "CodeBlock"
      [] n = D1 -> "DataBlock"]

MCHome == [n \in MCNode |->
    CASE n = I -> Null
      [] n \in {M1, M2} -> I
      [] n = S1 -> M1
      [] n = S2 -> M2
      [] n = B1 -> S1
      [] n = B2 -> S2
      [] n \in {C1, D1} -> B1
      [] n = C2 -> B2]

MCRank == [n \in MCNode |->
    CHOOSE k \in 1 .. 10 : <<D1, C1, C2, B2, B1, S2, S1, M1, M2, I>>[k] = n]

MCOffset    == [b \in {C1, C2, D1} |-> IF b = C1 THEN 0 ELSE 1]
MCBlockSize == [b \in {C1, C2, D1} |-> CASE b = C1 -> 2 [] b = C2 -> 0 [] b = D1 -> 1]
MCSymExprs  == [b \in {B1, B2} |-> IF b = B1 THEN {0, 1} ELSE {1}]
=============================================================================
