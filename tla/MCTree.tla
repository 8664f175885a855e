------------------------------- MODULE MCTree -------------------------------
(* Two IRs and two modules, so that whole modules move between graphs; one
   section and two byte intervals below them; a code block, a data block, a
   proxy block and a symbol. *)
EXTENDS GtirbTree, TLC

CONSTANTS IR1, IR2, M1, M2, S1, BI1, BI2, C1, D1, P1, P2, Y1

MCNode == {IR1, IR2, M1, M2, S1, BI1, BI2, C1, D1, P1, P2, Y1}

MCKind ==
    (IR1 :> "IR") @@ (IR2 :> "IR") @@ (M1 :> "Module") @@ (M2 :> "Module")
      @@ (S1 :> "Section") @@ (BI1 :> "ByteInterval") @@ (BI2 :> "ByteInterval")
      @@ (C1 :> "CodeBlock")
      @@ (D1 :> "DataBlock") @@ (P1 :> "ProxyBlock") @@ (P2 :> "ProxyBlock") @@ (Y1 :> "Symbol")

MCSymmetry == Permutations({IR1, IR2}) \cup Permutations({M1, M2})
                \cup Permutations({BI1, BI2})
=============================================================================
