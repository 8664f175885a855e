------------------------------- MODULE MCMaps -------------------------------
(* Two modules, one IR to move them in and out of, two sections and two byte
   intervals with a code block, in a small address space. *)
EXTENDS AddressMaps, TLC

CONSTANTS IR1, M1, M2, S1, S2, BI1, BI2, C1

MCNode == {IR1, M1, M2, S1, S2, BI1, BI2, C1}

MCKind ==
    (IR1 :> "IR") @@ (M1 :> "Module") @@ (M2 :> "Module")
      @@ (S1 :> "Section") @@ (S2 :> "Section")
      @@ (BI1 :> "ByteInterval") @@ (BI2 :> "ByteInterval") @@ (C1 :> "CodeBlock")

MCSymmetry == Permutations({M1, M2}) \cup Permutations({S1, S2})
                \cup Permutations({BI1, BI2})
=============================================================================
