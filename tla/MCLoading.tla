----------------------------- MODULE MCLoading -----------------------------
(* An IR with two modules, each with a section, a byte interval, a block and a
   symbol, the first with a proxy block too, and a code block F that is outside
   of the IR. *)
EXTENDS Loading, TLC

CONSTANTS I, M1, M2, P1, S1, S2, BI1, BI2, B1, B2, Y1, Y2, F

MCUuid == {I, M1, M2, P1, S1, S2, BI1, BI2, B1, B2, Y1, Y2, F}

MCKind ==
    (I :> "IR") @@ (M1 :> "Module") @@ (M2 :> "Module") @@ (P1 :> "ProxyBlock")
      @@ (S1 :> "Section") @@ (S2 :> "Section")
      @@ (BI1 :> "ByteInterval") @@ (BI2 :> "ByteInterval")
      @@ (B1 :> "CodeBlock") @@ (B2 :> "CodeBlock") @@ (F :> "CodeBlock")
      @@ (Y1 :> "Symbol") @@ (Y2 :> "Symbol")

MCChildren ==
    (I :> <<M1, M2>>) @@ (M1 :> <<P1, S1, Y1>>) @@ (M2 :> <<S2, Y2>>)
      @@ (S1 :> <<BI1>>) @@ (S2 :> <<BI2>>) @@ (BI1 :> <<B1>>) @@ (BI2 :> <<B2>>)
      @@ [u \in {P1, B1, B2, F, Y1, Y2} |-> <<>>]

(* Within a module, to the module before, to the module after, and out. *)
MCReferences ==
    {[u \in MCUuid |-> CASE u = Y1 -> y1 [] u = Y2 -> y2 [] u = BI1 -> b1
                         [] u = BI2 -> b2 [] u = M1 -> m1 [] OTHER -> {}] :
        y1 \in {{B1}, {B2}, {F}}, y2 \in {{B1}}, b1 \in {{Y1}, {Y1, Y2}},
        b2 \in {{Y1}}, m1 \in {{}, {B1}, {B2}}}

MCBuilt == <<I, M1, P1, S1, BI1, B1, Y1, M2, S2, BI2, B2, Y2, F>>

MCEdges == {{<<B1, B2>>, <<B2, P1>>}, {<<B1, F>>, <<B2, P1>>}}
=============================================================================
