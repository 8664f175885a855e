------------------------- MODULE MergeSortedProofs -------------------------
(***************************************************************************)
(* Proofs about MergeSorted: for all numbers of ranges, lengths and keys,  *)
(* and all arrangements the heap functions may choose, the iterator yields *)
(* every element once and in order.                                        *)
(***************************************************************************)
EXTENDS MergeSorted, CommonFacts

(* What holds of the ranges that are not used up. *)
Unfinished(R) ==
    /\ IsFiniteSet(R)
    /\ R \subseteq Seq(Element) \ {<<>>}
    /\ \A r \in R : Ascending(r) /\ IsInjective(r)
    /\ \A r, s \in R : r # s => ToSet(r) \cap ToSet(s) = {}

HeapOrdered(h) == \A i \in 2 .. Len(h) : ~rangeGreaterThan(h[i \div 2], h[i])

(* The elements of the ranges in R. *)
ElementsOf(R) == UNION {ToSet(r) : r \in R}

(* The inductive invariant: the vector is a heap of distinct unfinished ranges,
   and the elements of these are those that were not yielded. *)
MergeInv ==
    /\ Ranges \in Seq(Seq(Element) \ {<<>>}) /\ emitted \in Seq(Element)
    /\ IsInjective(Ranges) /\ HeapOrdered(Ranges)
    /\ Unfinished(ToSet(Ranges))
    /\ EachElementOnce

LEMMA HeapOfRanges ==
    ASSUME NEW R, Unfinished(R), NEW h \in Heaps(R)
    PROVE  /\ h \in Seq(Seq(Element) \ {<<>>})
           /\ IsInjective(h) /\ HeapOrdered(h) /\ ToSet(h) = R
  <1>1. h \in SetToSeqs(R) /\ HeapOrdered(h)
    BY DEF Heaps, HeapOrdered
  <1>2. h \in Seq(R) /\ ToSet(h) = R /\ IsInjective(h)
    BY <1>1, Arrangement DEF Unfinished
  <1>3. R \subseteq Seq(Element) \ {<<>>}
    BY DEF Unfinished
  <1>4. QED
    BY <1>1, <1>2, <1>3

(* The front of a heap is not greater than any other range: the parent of a
   range is nearer to the front. *)
LEMMA FrontOfHeap ==
    ASSUME NEW h \in Seq(Seq(Element) \ {<<>>}), HeapOrdered(h), NEW i \in 1 .. Len(h)
    PROVE  Key[Head(h[1])] <= Key[Head(h[i])]
  <1>1. \A j \in 1 .. Len(h) : h[j] # <<>> /\ Key[Head(h[j])] \in Nat
    <2> TAKE j \in 1 .. Len(h)
    <2>1. h[j] \in Seq(Element) /\ h[j] # <<>>
      OBVIOUS
    <2>2. Head(h[j]) \in Element
      BY <2>1
    <2>3. QED
      BY <2>1, <2>2, MergeAssumption
  <1> DEFINE F(j) == Key[Head(h[j])]
             S == {m \in Nat : \A j \in 1 .. Len(h) : j <= m + 1 => F(1) <= F(j)}
  <1>2. 0 \in S
    <2>1. \A j \in 1 .. Len(h) : j <= 0 + 1 => j = 1
      OBVIOUS
    <2>2. 1 \in 1 .. Len(h) => F(1) <= F(1)
      BY <1>1
    <2>3. QED
      BY <2>1, <2>2
  <1>3. \A m \in Nat : m \in S => m + 1 \in S
    <2> SUFFICES ASSUME NEW m \in Nat, m \in S
                 PROVE  m + 1 \in S
      OBVIOUS
    <2>1. ASSUME NEW j \in 1 .. Len(h), j <= (m + 1) + 1
          PROVE  F(1) <= F(j)
      <3>1. CASE j <= m + 1
        BY <3>1
      <3>2. CASE j = (m + 1) + 1
        <4> DEFINE k == j \div 2
        <4>1. k \in 1 .. Len(h) /\ k <= m + 1 /\ j \in 2 .. Len(h) /\ 1 \in 1 .. Len(h)
          BY <3>2
        <4> HIDE DEF k
        <4>2. F(1) <= F(k)
          BY <4>1
        <4>3. ~rangeGreaterThan(h[k], h[j])
          BY <4>1 DEF HeapOrdered, k
        <4>4. ~(F(j) < F(k))
          BY <1>1, <4>1, <4>3 DEF rangeGreaterThan
        <4>5. F(1) \in Nat /\ F(j) \in Nat /\ F(k) \in Nat
          BY <1>1, <4>1
        <4> HIDE DEF F
        <4>6. QED
          BY <4>2, <4>4, <4>5
      <3>3. QED
        BY <2>1, <3>1, <3>2
    <2>2. QED
      <3> HIDE DEF F
      <3> QED
        BY <2>1
  <1>4. Nat \subseteq S
    <2> HIDE DEF S
    <2> QED
      BY <1>2, <1>3, SetInduction
  <1>5. i \in Nat /\ i <= i + 1
    OBVIOUS
  <1>6. QED
    BY <1>4, <1>5

(* The front of a heap of ascending ranges has the least of all elements. *)
LEMMA LeastInFront ==
    ASSUME NEW h \in Seq(Seq(Element) \ {<<>>}), HeapOrdered(h), Unfinished(ToSet(h)),
           NEW r \in ToSet(h), NEW e \in ToSet(r)
    PROVE  h # <<>> /\ Key[Head(Head(h))] <= Key[e]
  <1>1. PICK i \in 1 .. Len(h) : r = h[i]
    BY DEF ToSet
  <1>2. h # <<>> /\ Head(h) = h[1] /\ 1 \in 1 .. Len(h)
    BY <1>1
  <1>3. r \in Seq(Element) /\ r # <<>> /\ Ascending(r) /\ h[1] \in Seq(Element) /\ h[1] # <<>>
    BY <1>1, <1>2 DEF Unfinished
  <1>4. PICK j \in 1 .. Len(r) : e = r[j]
    BY <1>3 DEF ToSet
  <1>5. Head(r) = r[1] /\ 1 \in 1 .. Len(r) /\ Head(r) \in Element /\ e \in Element
        /\ Head(h[1]) \in Element
    BY <1>3, <1>4
  <1>6. Key[Head(r)] \in Nat /\ Key[e] \in Nat /\ Key[Head(h[1])] \in Nat
    BY <1>5, MergeAssumption
  <1>7. Key[Head(r)] <= Key[e]
    <2>1. CASE j = 1
      BY <1>4, <1>5, <1>6, <2>1
    <2>2. CASE j # 1
      <3>1. 1 < j
        BY <1>3, <2>2
      <3>2. Key[r[1]] <= Key[r[j]]
        BY <1>3, <1>5, <3>1 DEF Ascending
      <3>3. QED
        BY <1>4, <1>5, <3>2
    <2>3. QED
      BY <2>1, <2>2
  <1>8. Key[Head(h[1])] <= Key[Head(r)]
    BY <1>1, FrontOfHeap
  <1>9. QED
    BY <1>2, <1>6, <1>7, <1>8

(* The front range is advanced, or dropped with its last element: what is left
   are again unfinished ranges, with one element less. *)
LEMMA AdvanceFront ==
    ASSUME NEW R, Unfinished(R), NEW top \in R, NEW Q,
           Q = (R \ {top}) \cup (IF Len(top) = 1 THEN {} ELSE {Tail(top)})
    PROVE  /\ Unfinished(Q)
           /\ Head(top) \in ElementsOf(R)
           /\ ElementsOf(Q) = ElementsOf(R) \ {Head(top)}
  <1>1. top \in Seq(Element) /\ top # <<>> /\ IsInjective(top) /\ Ascending(top)
    BY DEF Unfinished
  <1>2. /\ Head(top) \in Element /\ Len(top) \in Nat \ {0}
        /\ Tail(top) \in Seq(Element) /\ Len(Tail(top)) = Len(top) - 1
        /\ \A i \in 1 .. Len(top) - 1 : Tail(top)[i] = top[i + 1]
        /\ ToSet(top) = {Head(top)} \cup ToSet(Tail(top))
    BY <1>1, HeadAndTail
  <1>3. ToSet(Tail(top)) = ToSet(top) \ {Head(top)} /\ IsInjective(Tail(top))
    BY <1>1, TailWithoutRepetition
  <1>4. Ascending(Tail(top))
    <2> SUFFICES ASSUME NEW i \in 1 .. Len(top) - 1, NEW j \in 1 .. Len(top) - 1, i < j
                 PROVE  Key[Tail(top)[i]] <= Key[Tail(top)[j]]
      BY <1>2 DEF Ascending
    <2>1. i + 1 \in 1 .. Len(top) /\ j + 1 \in 1 .. Len(top) /\ i + 1 < j + 1
      BY <1>2
    <2>2. Key[top[i + 1]] <= Key[top[j + 1]]
      BY <1>1, <2>1 DEF Ascending
    <2>3. QED
      BY <1>2, <2>2
  <1>5. Len(top) = 1 => ToSet(Tail(top)) = {}
    <2> DEFINE t == Tail(top)
    <2>1. t \in Seq(Element) /\ (Len(top) = 1 => Len(t) = 0)
      BY <1>2
    <2> HIDE DEF t
    <2>2. Len(top) = 1 => DOMAIN t = {}
      BY <2>1
    <2>3. QED
      BY <2>2 DEF ToSet, t
  <1>6. Len(top) # 1 => Tail(top) # <<>>
    <2> DEFINE t == Tail(top)
    <2>1. t \in Seq(Element) /\ (Len(top) # 1 => Len(t) # 0)
      BY <1>2
    <2> HIDE DEF t
    <2>2. Len(top) # 1 => t # <<>>
      BY <2>1
    <2>3. QED
      BY <2>2 DEF t
  <1>7. \A r \in R \ {top} : ToSet(r) \cap ToSet(top) = {}
    BY DEF Unfinished
  <1>8. Q \subseteq Seq(Element) \ {<<>>}
    BY <1>2, <1>6 DEF Unfinished
  <1>9. IsFiniteSet(Q)
    <2>1. IsFiniteSet(R \ {top})
      <3>1. IsFiniteSet(R) /\ R \ {top} \in SUBSET R
        BY DEF Unfinished
      <3>2. QED
        BY <3>1, FS_Subset
    <2>2. IsFiniteSet((R \ {top}) \cup {Tail(top)})
      BY <2>1, FS_AddElement
    <2>3. (R \ {top}) \cup {} = R \ {top}
      OBVIOUS
    <2>4. QED
      BY <2>1, <2>2, <2>3
  <1>10. \A r \in Q : Ascending(r) /\ IsInjective(r)
    BY <1>3, <1>4 DEF Unfinished
  <1>11. \A r, s \in Q : r # s => ToSet(r) \cap ToSet(s) = {}
    <2> SUFFICES ASSUME NEW r \in Q, NEW s \in Q, r # s
                 PROVE  ToSet(r) \cap ToSet(s) = {}
      OBVIOUS
    <2>1. r \in R \ {top} \/ r = Tail(top)
      OBVIOUS
    <2>2. s \in R \ {top} \/ s = Tail(top)
      OBVIOUS
    <2>3. ToSet(Tail(top)) \subseteq ToSet(top)
      BY <1>3
    <2>4. CASE r \in R \ {top} /\ s \in R \ {top}
      BY <2>4 DEF Unfinished
    <2>5. CASE r \in R \ {top} /\ s = Tail(top)
      BY <1>7, <2>3, <2>5
    <2>6. CASE r = Tail(top) /\ s \in R \ {top}
      BY <1>7, <2>3, <2>6
    <2>7. QED
      BY <2>1, <2>2, <2>4, <2>5, <2>6
  <1>12. Unfinished(Q)
    BY <1>8, <1>9, <1>10, <1>11 DEF Unfinished
  <1>13. Head(top) \in ToSet(top) /\ ToSet(top) \subseteq ElementsOf(R)
    BY <1>2 DEF ElementsOf
  <1>14. ElementsOf(Q) = ElementsOf(R \ {top}) \cup ToSet(Tail(top))
    <2>1. CASE Len(top) = 1
      BY <1>5, <2>1 DEF ElementsOf
    <2>2. CASE Len(top) # 1
      BY <2>2 DEF ElementsOf
    <2>3. QED
      BY <2>1, <2>2
  <1>15. ElementsOf(R) = ElementsOf(R \ {top}) \cup ToSet(top)
    BY DEF ElementsOf
  <1>16. ElementsOf(R \ {top}) \cap ToSet(top) = {}
    BY <1>7 DEF ElementsOf
  <1>17. QED
    BY <1>3, <1>12, <1>13, <1>14, <1>15, <1>16


-----------------------------------------------------------------------------

(* The ranges given to the constructor, without the empty ones. *)
LEMMA SourceUnfinished ==
    ASSUME NEW f \in Sources
    PROVE  /\ Unfinished(ToSet(f) \ {<<>>})
           /\ ElementsOf(ToSet(f) \ {<<>>}) = UNION {ToSet(f[i]) : i \in DOMAIN f}
           /\ ElementsOf(ToSet(f) \ {<<>>}) \subseteq Element
  <1> DEFINE D == 1 .. MaxRanges
             G == {s \in UNION {SetToSeqs(E) : E \in SUBSET Element} : Ascending(s)}
             R == ToSet(f) \ {<<>>}
  <1>1. f \in [D -> G] /\ \A i, j \in D : i # j => ToSet(f[i]) \cap ToSet(f[j]) = {}
    BY DEF Sources
  <1>2. \A s \in G : s \in Seq(Element) /\ Ascending(s) /\ IsInjective(s)
    <2> SUFFICES ASSUME NEW E \in SUBSET Element, NEW s \in SetToSeqs(E)
                 PROVE  s \in Seq(Element) /\ IsInjective(s)
      OBVIOUS
    <2>1. IsFiniteSet(E)
      BY FS_Subset, MergeAssumption
    <2>2. s \in Seq(E) /\ IsInjective(s)
      BY <2>1, Arrangement
    <2>3. QED
      BY <2>2
  <1>3. IsFiniteSet(R)
    <2>1. MaxRanges \in Nat
      BY MergeAssumption
    <2>2. IsFiniteSet(ToSet(f))
      <3> HIDE DEF G
      <3> QED
        BY <1>1, <2>1, ToSetFinite
    <2>3. R \in SUBSET ToSet(f)
      OBVIOUS
    <2>4. QED
      BY <2>2, <2>3, FS_Subset
  <1> HIDE DEF G
  <1>4. ToSet(f) = {f[i] : i \in D} /\ DOMAIN f = D
    BY <1>1 DEF ToSet
  <1>5. \A r \in R : r \in Seq(Element) /\ r # <<>> /\ Ascending(r) /\ IsInjective(r)
    BY <1>1, <1>2, <1>4
  <1>6. \A r, s \in R : r # s => ToSet(r) \cap ToSet(s) = {}
    <2> SUFFICES ASSUME NEW r \in R, NEW s \in R, r # s
                 PROVE  ToSet(r) \cap ToSet(s) = {}
      OBVIOUS
    <2>1. PICK i \in D : r = f[i]
      BY <1>4
    <2>2. PICK j \in D : s = f[j]
      BY <1>4
    <2>3. QED
      BY <1>1, <2>1, <2>2
  <1>7. Unfinished(R)
    BY <1>3, <1>5, <1>6 DEF Unfinished
  <1>8. ToSet(<<>>) = {}
    BY DEF ToSet
  <1>9. ElementsOf(R) = UNION {ToSet(f[i]) : i \in DOMAIN f}
    <2>1. ElementsOf(R) = UNION {ToSet(r) : r \in ToSet(f)}
      BY <1>8 DEF ElementsOf
    <2>2. QED
      BY <1>4, <2>1
  <1>10. ElementsOf(R) \subseteq Element
    <2>1. \A r \in R : ToSet(r) \subseteq Element
      BY <1>5 DEF ToSet
    <2>2. QED
      BY <2>1 DEF ElementsOf
  <1>11. QED
    BY <1>7, <1>9, <1>10

LEMMA MergeInit ==
    ASSUME Init
    PROVE  MergeInv /\ Stream!Init
  <1> DEFINE R == ToSet(source) \ {<<>>}
  <1>1. source \in Sources /\ Ranges \in Heaps(R) /\ emitted = <<>>
    BY DEF Init, Constructed
  <1>2. Unfinished(R) /\ ElementsOf(R) = UNION {ToSet(source[i]) : i \in DOMAIN source}
        /\ ElementsOf(R) \subseteq Element
    BY <1>1, SourceUnfinished
  <1> HIDE DEF R
  <1>3. /\ Ranges \in Seq(Seq(Element) \ {<<>>})
        /\ IsInjective(Ranges) /\ HeapOrdered(Ranges) /\ ToSet(Ranges) = R
    BY <1>1, <1>2, HeapOfRanges
  <1>4. Remaining = ElementsOf(R)
    BY <1>3 DEF Remaining, ElementsOf
  <1>5. emitted \in Seq(Element) /\ ToSet(emitted) = {} /\ IsInjective(emitted)
    BY <1>1 DEF ToSet, IsInjective
  <1>6. EachElementOnce
    BY <1>2, <1>4, <1>5 DEF EachElementOnce
  <1>7. QED
    BY <1>1, <1>2, <1>3, <1>4, <1>5, <1>6 DEF MergeInv, Stream!Init

LEMMA MergeStep ==
    ASSUME MergeInv, Next
    PROVE  MergeInv' /\ Stream!Emit
  <1> DEFINE R == ToSet(Ranges)
             top == Head(Ranges)
             e == Head(top)
             Q == (R \ {top}) \cup (IF Len(top) = 1 THEN {} ELSE {Tail(top)})
  <1>1. /\ Ranges \in Seq(Seq(Element) \ {<<>>}) /\ Ranges # <<>> /\ emitted \in Seq(Element)
        /\ IsInjective(Ranges) /\ HeapOrdered(Ranges) /\ Unfinished(R) /\ EachElementOnce
    BY DEF MergeInv, Next
  <1>2. top \in R /\ ToSet(Tail(Ranges)) = R \ {top}
    <2>1. ToSet(Ranges) = {Head(Ranges)} \cup ToSet(Tail(Ranges))
      BY <1>1, HeadAndTail
    <2>2. ToSet(Tail(Ranges)) = ToSet(Ranges) \ {Head(Ranges)}
      BY <1>1, TailWithoutRepetition
    <2>3. QED
      BY <2>1, <2>2
  <1>3. Ranges' \in Heaps(Q) /\ emitted' = Append(emitted, e) /\ source' = source
    BY <1>2 DEF Next, increment, dereference
  <1>4. Remaining = ElementsOf(R)
    BY DEF Remaining, ElementsOf
  <1>5. e \in Element
    BY <1>1, <1>2 DEF Unfinished
  <1>6. \A f \in ElementsOf(R) : Key[e] <= Key[f]
    BY <1>1, LeastInFront DEF ElementsOf
  <1>7. Unfinished(Q) /\ e \in ElementsOf(R) /\ ElementsOf(Q) = ElementsOf(R) \ {e}
    <2> HIDE DEF R, top
    <2> QED
      BY <1>1, <1>2, AdvanceFront
  <1> HIDE DEF R, top, e, Q
  <1>8. /\ Ranges' \in Seq(Seq(Element) \ {<<>>})
        /\ IsInjective(Ranges') /\ HeapOrdered(Ranges') /\ ToSet(Ranges') = Q
    BY <1>3, <1>7, HeapOfRanges
  <1>9. Remaining' = ElementsOf(Q)
    BY <1>8 DEF Remaining, ElementsOf
  <1>10. /\ emitted' \in Seq(Element)
         /\ ToSet(emitted') = ToSet(emitted) \cup {e}
         /\ IsInjective(emitted')
    <2>1. IsInjective(emitted) /\ e \notin ToSet(emitted)
      BY <1>1, <1>4, <1>7 DEF EachElementOnce
    <2>2. QED
      BY <1>1, <1>3, <1>5, <2>1, AppendNew
  <1>11. EachElementOnce'
    <2>1. ToSet(emitted') \cap Remaining' = {}
      BY <1>1, <1>4, <1>7, <1>9, <1>10 DEF EachElementOnce
    <2>2. ToSet(emitted') \cup Remaining' = ToSet(emitted) \cup Remaining
      BY <1>4, <1>7, <1>9, <1>10
    <2>3. QED
      BY <1>1, <1>3, <1>10, <2>1, <2>2 DEF EachElementOnce
  <1>12. MergeInv'
    BY <1>7, <1>8, <1>10, <1>11 DEF MergeInv
  <1>13. Stream!Emit
    BY <1>3, <1>4, <1>6, <1>7, <1>9 DEF Stream!Emit
  <1>14. QED
    BY <1>12, <1>13

LEMMA MergeStutter ==
    ASSUME MergeInv, UNCHANGED vars
    PROVE  MergeInv' /\ UNCHANGED <<Remaining, emitted>>
  <1>1. Ranges' = Ranges /\ emitted' = emitted /\ source' = source
    BY DEF vars
  <1>2. Remaining' = Remaining
    BY <1>1 DEF Remaining
  <1>3. EachElementOnce'
    BY <1>1, <1>2 DEF MergeInv, EachElementOnce
  <1>4. QED
    BY <1>1, <1>2, <1>3 DEF MergeInv

-----------------------------------------------------------------------------

(* The iterator always holds a heap of distinct ranges that are not used up. *)
THEOREM MergeInvariant ==
    Spec => []MergeInv
  <1>1. Init => MergeInv
    BY MergeInit
  <1>2. MergeInv /\ [Next]_vars => MergeInv'
    BY MergeStep, MergeStutter
  <1>3. QED
    BY <1>1, <1>2, PTL DEF Spec

(* The range at the front can always be dereferenced: none is used up. *)
THEOREM MergeTypeCorrect ==
    Spec => []TypeOK
  <1>1. MergeInv => TypeOK
    BY DEF MergeInv, TypeOK
  <1>2. QED
    BY <1>1, MergeInvariant, PTL

(* The element yielded next is the least of all that are still to come, for any
   number of ranges: the comment on Ranges in MergeSortedIterator. *)
THEOREM FrontAlwaysLeast ==
    Spec => []FrontIsLeast
  <1>1. MergeInv => FrontIsLeast
    BY LeastInFront DEF MergeInv, FrontIsLeast, dereference
  <1>2. QED
    BY <1>1, MergeInvariant, PTL

(* Every element of the ranges comes exactly once. *)
THEOREM EveryElementOnce ==
    Spec => []EachElementOnce
  <1>1. MergeInv => EachElementOnce
    BY DEF MergeInv
  <1>2. QED
    BY <1>1, MergeInvariant, PTL

(* The merge behaves as a sorted stream of the elements of all ranges: the
   refinement MergesSorted without its fairness condition. *)
THEOREM MergeRefinesStream ==
    Spec => Stream!Init /\ [][Stream!Emit]_<<Remaining, emitted>>
  <1>1. Init => Stream!Init
    BY MergeInit
  <1>2. MergeInv /\ [Next]_vars => [Stream!Emit]_<<Remaining, emitted>>
    BY MergeStep, MergeStutter
  <1>3. QED
    BY <1>1, <1>2, MergeInvariant, PTL DEF Spec

=============================================================================
