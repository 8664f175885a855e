---------------------------- MODULE MergeSorted ----------------------------
(***************************************************************************)
(* MergeSortedIterator: one iteration over the union of several ranges, by *)
(* which sections, modules and IRs present the nodes of their children in  *)
(* one order.  The iterator keeps the ranges that are not used up in a     *)
(* heap, so that the one with the lowest first element is at the front.    *)
(*                                                                         *)
(* A range is the sequence of its elements from its current position to    *)
(* its end.  The heap functions of the C++ library are modelled by what    *)
(* they guarantee: some arrangement of the ranges with the heap property.  *)
(***************************************************************************)
EXTENDS Naturals, SequencesExt

CONSTANTS Element,    \* the nodes
          Key,        \* what Compare looks at
          MaxRanges   \* bound on the number of ranges that are merged

ASSUME MergeAssumption ==
    /\ IsFiniteSet(Element)
    /\ Key \in [Element -> Nat]
    /\ MaxRanges \in Nat \ {0}

VARIABLES Ranges,    \* the vector of ranges
          source,    \* the ranges the iterator was made from
          emitted    \* what dereferencing has yielded

vars == <<Ranges, source, emitted>>

-----------------------------------------------------------------------------

(* An empty range is greater than every other. *)
rangeGreaterThan(r1, r2) ==
    \/ r1 = <<>>
    \/ r2 # <<>> /\ Key[Head(r2)] < Key[Head(r1)]

(* The arrangements of a set of ranges that are heaps: no range is greater
   than the ones below it. *)
Heaps(R) ==
    {h \in SetToSeqs(R) : \A i \in 2 .. Len(h) : ~rangeGreaterThan(h[i \div 2], h[i])}

(* Mutant: the constructor keeps the empty ranges. *)
ConstructedWithEmpty(ranges) == Heaps(ToSet(ranges))

(* The constructor leaves out empty ranges and makes a heap of the others. *)
Constructed(ranges) == Heaps(ToSet(ranges) \ {<<>>})

dereference == Head(Head(Ranges))

(* Mutant: the advanced range goes back to the front without a new heap. *)
incrementInPlace ==
    LET top  == Head(Ranges)
        rest == Tail(Ranges)
    IN  Ranges' \in (IF Len(top) = 1 THEN Heaps(ToSet(rest)) ELSE {<<Tail(top)>> \o rest})

(* Mutant: a range is given up once its second element has been reached. *)
incrementDropping ==
    LET top  == Head(Ranges)
        rest == ToSet(Tail(Ranges))
    IN  Ranges' \in Heaps(rest \cup (IF Len(top) <= 2 THEN {} ELSE {Tail(top)}))

(* The first range is taken off the heap and advanced; it goes back unless
   that was its last element. *)
increment ==
    LET top  == Head(Ranges)
        rest == ToSet(Tail(Ranges))
    IN  Ranges' \in Heaps(rest \cup (IF Len(top) = 1 THEN {} ELSE {Tail(top)}))

-----------------------------------------------------------------------------

Ascending(seq) == \A i, j \in 1 .. Len(seq) : i < j => Key[seq[i]] <= Key[seq[j]]

(* The ranges given to the constructor are sorted, as it requires, and belong
   to different containers. *)
Sources ==
    {f \in [1 .. MaxRanges -> {s \in UNION {SetToSeqs(E) : E \in SUBSET Element} : Ascending(s)}] :
        \A i, j \in 1 .. MaxRanges : i # j => ToSet(f[i]) \cap ToSet(f[j]) = {}}

Init ==
    /\ source \in Sources
    /\ Ranges \in Constructed(source)
    /\ emitted = <<>>

(* One turn of a loop over the range: *It and ++It, until It is the end. *)
Next ==
    /\ Ranges # <<>>
    /\ emitted' = Append(emitted, dereference)
    /\ increment
    /\ UNCHANGED source

(* A loop runs until the end. *)
Spec == Init /\ [][Next]_vars /\ WF_vars(Next)

-----------------------------------------------------------------------------

(* Type correctness.  No range on the heap is used up, so that the first one
   can always be dereferenced. *)
TypeOK ==
    /\ Ranges \in Seq(Seq(Element) \ {<<>>})
    /\ emitted \in Seq(Element)

(* "Ranges is a heap ordered by rangeGreaterThan.  This ensures that the range
   with the lowest first element is always at the front" (Utility.hpp): no
   element that is still to come is below the one yielded next. *)
FrontIsLeast ==
    \A r \in ToSet(Ranges) : \A e \in ToSet(r) : Key[dereference] <= Key[e]

Remaining == UNION {ToSet(r) : r \in ToSet(Ranges)}

(* Whatever way the ranges interleave, every element of the source comes
   exactly once. *)
EachElementOnce ==
    /\ IsInjective(emitted)
    /\ ToSet(emitted) \cap Remaining = {}
    /\ ToSet(emitted) \cup Remaining = UNION {ToSet(source[i]) : i \in DOMAIN source}

Stream == INSTANCE SortedStream WITH remaining <- Remaining

(* The merge is a sorted stream of the elements of all ranges; in particular
   it comes to an end. *)
MergesSorted == Stream!Spec
=============================================================================
