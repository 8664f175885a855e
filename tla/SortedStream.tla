---------------------------- MODULE SortedStream ----------------------------
(***************************************************************************)
(* What an iteration over several sorted ranges promises: it yields each   *)
(* element once, in ascending order, and comes to an end.  Nothing is said *)
(* about the order of elements with equal keys.                            *)
(***************************************************************************)
EXTENDS Naturals, Sequences

CONSTANTS Element, Key   \* the elements and what they are ordered by

VARIABLES remaining,     \* the elements still to come
          emitted        \* the elements yielded so far

Init ==
    /\ remaining \subseteq Element
    /\ emitted = <<>>

Emit ==
    \E e \in remaining :
        /\ \A f \in remaining : Key[e] <= Key[f]
        /\ remaining' = remaining \ {e}
        /\ emitted' = Append(emitted, e)

Spec ==
    /\ Init
    /\ [][Emit]_<<remaining, emitted>>
    /\ WF_<<remaining, emitted>>(Emit)
=============================================================================
