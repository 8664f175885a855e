---------------------------- MODULE CommonFacts -----------------------------
(***************************************************************************)
(* Facts that the proofs about several components need.  About natural     *)
(* numbers: bounded sets have least and greatest elements, induction, and  *)
(* arithmetic in a fixed width.  About sequences: which elements they have *)
(* after one has been put in or taken out.  About finite sets: induction   *)
(* and images.                                                             *)
(*                                                                         *)
(* The library states induction with a predicate as parameter.  Here it is *)
(* stated about a set of numbers or of sets, which the provers can         *)
(* instantiate.                                                            *)
(***************************************************************************)
EXTENDS Integers, SequencesExt, FiniteSetTheorems, WellFoundedInduction, TLAPS

(* A set of natural numbers has a least element: the first key a search in an
   ordered container can stop at. *)
LEMMA LeastElement ==
    ASSUME NEW S, S \subseteq Nat, S # {}
    PROVE  \E x \in S : \A y \in S : x <= y
  <1> DEFINE R == {p \in Nat \X Nat : p[1] < p[2]}
  <1>1. IsWellFoundedOn(R, Nat)
    BY NatLessThanWellFounded, Zenon DEF OpToRel
  <1>2. \A x, y \in Nat : y < x => <<y, x>> \in R
    OBVIOUS
  <1> HIDE DEF R
  <1>3. PICK x \in S : \A y \in S : ~(<<y, x>> \in R)
    BY <1>1, WFMin
  <1>4. ASSUME NEW y \in S
        PROVE  x <= y
    <2>1. x \in Nat /\ y \in Nat
      OBVIOUS
    <2>2. ~(y < x)
      BY <1>2, <1>3, <2>1, Zenon
    <2>3. QED
      BY <2>1, <2>2
  <1>5. QED
    BY <1>4

(* A bounded set of natural numbers has a greatest element. *)
LEMMA GreatestElement ==
    ASSUME NEW S, S \subseteq Nat, S # {}, NEW n \in Nat, \A x \in S : x <= n
    PROVE  \E x \in S : \A y \in S : x >= y
  <1> DEFINE T == {n - x : x \in S}
  <1>1. T \subseteq Nat /\ T # {}
    <2>1. \A x \in S : n - x \in Nat
      OBVIOUS
    <2>2. QED
      BY <2>1
  <1>2. PICK t \in T : \A u \in T : t <= u
    <2> HIDE DEF T
    <2> QED
      BY <1>1, LeastElement
  <1>3. PICK x \in S : t = n - x
    OBVIOUS
  <1>4. \A y \in S : n - x <= n - y
    BY <1>2, <1>3
  <1>5. \A y \in S : x >= y
    <2> TAKE y \in S
    <2>1. x \in Nat /\ y \in Nat /\ n - x <= n - y
      BY <1>4
    <2>2. QED
      BY <2>1
  <1>6. QED
    BY <1>5

(* What Min chooses from a set of numbers, as for the first byte interval of a
   section. *)
LEMMA MinIsLeast ==
    ASSUME NEW S, S \subseteq Nat, S # {}
    PROVE  Min(S) \in S /\ \A x \in S : Min(S) <= x
  <1>1. \E x \in S : \A y \in S : x =< y
    BY LeastElement
  <1>2. QED
    BY <1>1 DEF Min

(* What Max chooses, as for the end of the last one. *)
LEMMA MaxIsGreatest ==
    ASSUME NEW S, S \subseteq Nat, S # {}, NEW n \in Nat, \A x \in S : x <= n
    PROVE  Max(S) \in S /\ \A x \in S : x <= Max(S)
  <1>1. \E x \in S : \A y \in S : x >= y
    BY GreatestElement
  <1>2. Max(S) \in S /\ \A y \in S : Max(S) >= y
    BY <1>1 DEF Max
  <1>3. QED
    BY <1>2

(* Induction: a set that contains 0 and with a number its successor contains
   every natural number. *)
LEMMA SetInduction ==
    ASSUME NEW S, 0 \in S, \A n \in Nat : n \in S => n + 1 \in S
    PROVE  Nat \subseteq S
  <1> DEFINE T == Nat \ S
  <1> SUFFICES ASSUME T # {}
               PROVE  FALSE
    OBVIOUS
  <1>1. PICK x \in T : \A y \in T : x <= y
    <2>1. T \subseteq Nat
      OBVIOUS
    <2> HIDE DEF T
    <2> QED
      BY <2>1, LeastElement
  <1>2. x \in Nat /\ x # 0 /\ x \notin S
    OBVIOUS
  <1>3. x - 1 \in Nat /\ x - 1 \notin T
    BY <1>1, <1>2
  <1>4. (x - 1) + 1 \in S
    BY <1>3
  <1>5. QED
    BY <1>2, <1>4

(* Induction over the turns of a loop. *)
LEMMA LoopInduction ==
    ASSUME NEW n \in Nat, NEW S, 0 \in S, \A k \in 1 .. n : k - 1 \in S => k \in S
    PROVE  0 .. n \subseteq S
  <1> DEFINE T == {k \in Nat : k <= n => k \in S}
  <1>1. 0 \in T /\ \A k \in Nat : k \in T => k + 1 \in T
    OBVIOUS
  <1>2. Nat \subseteq T
    <2> HIDE DEF T
    <2> QED
      BY <1>1, SetInduction
  <1>3. QED
    BY <1>2

(* Addition in the width of an address or an offset: the sum of two numbers
   below the limit wraps around at most once. *)
LEMMA SumInWidth ==
    ASSUME NEW limit \in Nat \ {0}, NEW x \in 0 .. limit - 1, NEW y \in 0 .. limit - 1
    PROVE  (x + y) % limit = IF x + y < limit THEN x + y ELSE x + y - limit
  OBVIOUS

(* The larger of two sizes. *)
LEMMA MaxOfTwo ==
    ASSUME NEW a \in Nat, NEW b \in Nat
    PROVE  Max({a, b}) = IF a >= b THEN a ELSE b
  <1>1. Max({a, b}) \in {a, b} /\ \A x \in {a, b} : x <= Max({a, b})
    <2>1. {a, b} \subseteq Nat /\ {a, b} # {} /\ a + b \in Nat
          /\ \A x \in {a, b} : x <= a + b
      OBVIOUS
    <2>2. QED
      BY <2>1, MaxIsGreatest
  <1>2. QED
    BY <1>1

(* The smaller of two sizes. *)
LEMMA MinOfTwo ==
    ASSUME NEW a \in Nat, NEW b \in Nat
    PROVE  Min({a, b}) = IF a <= b THEN a ELSE b
  <1>1. Min({a, b}) \in {a, b} /\ \A x \in {a, b} : Min({a, b}) <= x
    <2>1. {a, b} \subseteq Nat /\ {a, b} # {}
      OBVIOUS
    <2>2. QED
      BY <2>1, MinIsLeast
  <1>2. QED
    BY <1>1

(* Division with remainder: the element and the byte in it at a distance k. *)
LEMMA Division ==
    ASSUME NEW w \in Nat \ {0}, NEW k \in Nat
    PROVE  \E p \in Nat, q \in 0 .. w - 1 : k = p * w + q
  <1> DEFINE S == {n \in Nat : \E p \in Nat, q \in 0 .. w - 1 : n = p * w + q}
  <1>1. 0 \in S
    <2>1. 0 = 0 * w + 0
      OBVIOUS
    <2>2. QED
      BY <2>1
  <1>2. \A n \in Nat : n \in S => n + 1 \in S
    <2> SUFFICES ASSUME NEW n \in Nat, NEW p \in Nat, NEW q \in 0 .. w - 1, n = p * w + q
                 PROVE  n + 1 \in S
      OBVIOUS
    <2>1. CASE q + 1 < w
      <3>1. n + 1 = p * w + (q + 1) /\ q + 1 \in 0 .. w - 1
        BY <2>1
      <3>2. QED
        BY <3>1
    <2>2. CASE q + 1 = w
      <3>1. n + 1 = (p + 1) * w + 0 /\ p + 1 \in Nat /\ 0 \in 0 .. w - 1
        BY <2>2
      <3>2. \E r \in Nat, t \in 0 .. w - 1 : n + 1 = r * w + t
        BY <3>1, Zenon
      <3>3. QED
        BY <3>2
    <2>3. QED
      BY <2>1, <2>2
  <1>3. Nat \subseteq S
    <2> HIDE DEF S
    <2> QED
      BY <1>1, <1>2, SetInduction
  <1>4. QED
    BY <1>3

(* A natural number that is reached by steps of a width. *)
LEMMA ProductInNat ==
    ASSUME NEW i \in Nat, NEW a \in Nat, NEW b \in Nat
    PROVE  a * b \in Nat /\ i + a * b \in Nat
  <1>1. a * b \in Nat
    OBVIOUS
  <1>2. \A c \in Nat : i + c \in Nat
    OBVIOUS
  <1>3. QED
    BY <1>1, <1>2, Zenon

(* A loop with n turns: turn k is a function on the values V of what the loop
   changes.  g gives the values after each turn, beginning with v. *)
Turns(V, n) == [1 .. n -> [V -> V]]

Follows(g, v, F, n) == g[0] = v /\ \A k \in 1 .. n : g[k] = F[k][g[k - 1]]

(* Such a recursion has a solution. *)
LEMMA FiniteRecursion ==
    ASSUME NEW V, NEW v \in V, NEW n \in Nat, NEW F \in Turns(V, n)
    PROVE  \E g \in [0 .. n -> V] : Follows(g, v, F, n)
  <1> USE DEF Turns, Follows
  <1> DEFINE Solves(g, m) == /\ g[0] = v
                             /\ \A k \in 1 .. m : g[k] = F[k][g[k - 1]]
             S == {m \in Nat : m <= n => \E g \in [0 .. m -> V] : Solves(g, m)}
  <1>1. 0 \in S
    <2>1. [k \in 0 .. 0 |-> v] \in [0 .. 0 -> V] /\ Solves([k \in 0 .. 0 |-> v], 0)
      OBVIOUS
    <2>2. QED
      BY <2>1
  <1>2. \A m \in Nat : m \in S => m + 1 \in S
    <2> SUFFICES ASSUME NEW m \in Nat, m \in S, m + 1 <= n
                 PROVE  \E g \in [0 .. m + 1 -> V] : Solves(g, m + 1)
      <3> HIDE DEF Solves
      <3> QED
        OBVIOUS
    <2>1. PICK g \in [0 .. m -> V] : Solves(g, m)
      OBVIOUS
    <2> DEFINE h == [k \in 0 .. m + 1 |-> IF k <= m THEN g[k] ELSE F[m + 1][g[m]]]
    <2>2. F[m + 1] \in [V -> V] /\ g[m] \in V
      OBVIOUS
    <2>3. h \in [0 .. m + 1 -> V]
      BY <2>2
    <2>4. h[0] = v
      BY <2>1
    <2>5. ASSUME NEW k \in 1 .. m + 1
          PROVE  h[k] = F[k][h[k - 1]]
      <3>1. CASE k <= m
        BY <2>1, <3>1
      <3>2. CASE k = m + 1
        BY <3>2
      <3>3. QED
        BY <3>1, <3>2
    <2>6. QED
      BY <2>3, <2>4, <2>5
  <1>3. n \in S
    <2> HIDE DEF S
    <2> QED
      BY <1>1, <1>2, SetInduction
  <1>4. QED
    BY <1>3

(* Products are monotonic: a later element is at a higher position. *)
LEMMA ProductMonotonic ==
    ASSUME NEW a \in Nat, NEW b \in Nat, a <= b, NEW w \in Nat
    PROVE  a * w <= b * w
  <1>1. PICK c \in Nat : b = a + c
    <2>1. b - a \in Nat /\ b = a + (b - a)
      OBVIOUS
    <2>2. QED
      BY <2>1
  <1>2. c * w \in Nat /\ a * w \in Nat
    BY ProductInNat
  <1>3. b * w = a * w + c * w
    BY <1>1
  <1>4. QED
    BY <1>2, <1>3

(* The positions of element p of width w, of n that are stored from i on: they
   begin where the elements before end, and are before the end of all. *)
LEMMA ElementPositions ==
    ASSUME NEW i \in Nat, NEW w \in Nat, NEW n \in Nat, NEW p \in 1 .. n, NEW q \in 1 .. w
    PROVE  /\ (p - 1) * w \in Nat /\ n * w \in Nat
           /\ i + p * w = (i + (p - 1) * w) + w
           /\ i + (p - 1) * w + q \in i + 1 .. i + n * w
  <1>1. (p - 1) * w \in Nat /\ p * w \in Nat /\ n * w \in Nat
    <2>1. p - 1 \in Nat /\ p \in Nat
      OBVIOUS
    <2>2. QED
      BY <2>1, ProductInNat
  <1>2. p * w = (p - 1) * w + w
    OBVIOUS
  <1>3. p * w <= n * w
    BY ProductMonotonic
  <1> DEFINE a == (p - 1) * w
             b == p * w
             c == n * w
  <1>4. a \in Nat /\ b \in Nat /\ c \in Nat /\ b = a + w /\ b <= c
    BY <1>1, <1>2, <1>3
  <1> HIDE DEF a, b, c
  <1>5. i + b = (i + a) + w /\ i + a + q \in i + 1 .. i + c
    BY <1>4
  <1>6. QED
    BY <1>4, <1>5 DEF a, b, c

(* The same for elements that are stored from the beginning. *)
LEMMA PositionsFromZero ==
    ASSUME NEW w \in Nat, NEW n \in Nat, NEW p \in 1 .. n, NEW q \in 1 .. w
    PROVE  (p - 1) * w + q \in 1 .. n * w /\ (p - 1) * w \in Nat /\ n * w \in Nat
  <1> DEFINE a == (p - 1) * w
             c == n * w
  <1>1. a \in Nat /\ c \in Nat /\ 0 + a + q \in 0 + 1 .. 0 + c
    <2>1. 0 \in Nat
      OBVIOUS
    <2>2. QED
      BY <2>1, ElementPositions
  <1> HIDE DEF a, c
  <1>2. a + q \in 1 .. c
    BY <1>1
  <1>3. QED
    BY <1>1, <1>2 DEF a, c

(* Every position is in one of the elements. *)
LEMMA ElementAtPosition ==
    ASSUME NEW w \in Nat \ {0}, NEW n \in Nat, NEW k \in 1 .. n * w
    PROVE  \E p \in 1 .. n, q \in 1 .. w : k = (p - 1) * w + q
  <1>0. n * w \in Nat
    BY ProductInNat
  <1>1. PICK r \in Nat, t \in 0 .. w - 1 : k - 1 = r * w + t
    <2>1. k - 1 \in Nat
      BY <1>0
    <2>2. QED
      BY <2>1, Division
  <1>2. r < n
    <2> SUFFICES ASSUME n <= r
                 PROVE  FALSE
      OBVIOUS
    <2>1. n * w <= r * w
      BY ProductMonotonic
    <2> DEFINE a == n * w
               b == r * w
    <2>2. a \in Nat /\ b \in Nat /\ a <= b /\ k \in 1 .. a /\ k - 1 = b + t
      BY <1>0, <1>1, <2>1, ProductInNat
    <2> HIDE DEF a, b
    <2>3. QED
      BY <2>2
  <1>3. r + 1 \in 1 .. n /\ t + 1 \in 1 .. w
    BY <1>2
  <1>4. k = ((r + 1) - 1) * w + (t + 1)
    <2> DEFINE b == r * w
    <2>1. b \in Nat /\ k - 1 = b + t /\ k \in Nat
      BY <1>0, <1>1, ProductInNat
    <2>2. ((r + 1) - 1) * w = b
      OBVIOUS
    <2> HIDE DEF b
    <2>3. k = b + (t + 1)
      BY <2>1
    <2>4. QED
      BY <2>2, <2>3
  <1>5. QED
    BY <1>3, <1>4, Zenon

-----------------------------------------------------------------------------

(* The elements of a sequence are finitely many. *)
LEMMA ToSetFinite ==
    ASSUME NEW n \in Nat, NEW X, NEW s \in [1 .. n -> X]
    PROVE  IsFiniteSet(ToSet(s))
  <1>1. s \in Surjection(1 .. n, ToSet(s))
    BY DEF Surjection, ToSet
  <1>2. IsFiniteSet(1 .. n)
    BY FS_Interval
  <1>3. QED
    BY <1>1, <1>2, FS_Surjection

(* A sequence that arranges a finite set has the elements of the set, each
   once. *)
LEMMA Arrangement ==
    ASSUME NEW R, IsFiniteSet(R), NEW h \in SetToSeqs(R)
    PROVE  h \in Seq(R) /\ ToSet(h) = R /\ IsInjective(h)
  <1> DEFINE n == Cardinality(R)
  <1>1. n \in Nat
    BY FS_CardinalityType
  <1>2. h \in [1 .. n -> R] /\ \A i, j \in 1 .. n : i # j => h[i] # h[j]
    BY DEF SetToSeqs
  <1>3. h \in Injection(1 .. n, R)
    BY <1>2 DEF Injection, IsInjective
  <1>4. Cardinality(1 .. n) = n
    <2>1. 1 \in Int /\ n \in Int
      BY <1>1
    <2> HIDE DEF n
    <2>2. Cardinality(1 .. n) = IF 1 > n THEN 0 ELSE n - 1 + 1
      BY <2>1, FS_Interval
    <2>3. QED
      BY <1>1, <2>2
  <1>5. h \in Surjection(1 .. n, R)
    BY <1>3, <1>4, FS_Injection
  <1> HIDE DEF n
  <1>6. ToSet(h) = R
    BY <1>2, <1>5 DEF Surjection, ToSet
  <1>7. h \in Seq(R)
    BY <1>1, <1>2
  <1>8. QED
    BY <1>3, <1>6, <1>7 DEF Injection

(* Head, Tail and Append, by their elements. *)
LEMMA HeadAndTail ==
    ASSUME NEW X, NEW s \in Seq(X), s # <<>>
    PROVE  /\ Head(s) \in X /\ Head(s) = s[1] /\ Len(s) \in Nat \ {0}
           /\ Tail(s) \in Seq(X) /\ Len(Tail(s)) = Len(s) - 1
           /\ \A i \in 1 .. Len(s) - 1 : Tail(s)[i] = s[i + 1]
           /\ ToSet(s) = {Head(s)} \cup ToSet(Tail(s))
  <1>1. /\ Head(s) \in X /\ Head(s) = s[1] /\ Len(s) \in Nat \ {0}
        /\ Tail(s) \in Seq(X) /\ Len(Tail(s)) = Len(s) - 1
    OBVIOUS
  <1>2. \A i \in 1 .. Len(s) - 1 : Tail(s)[i] = s[i + 1]
    OBVIOUS
  <1>3. DOMAIN s = 1 .. Len(s) /\ DOMAIN Tail(s) = 1 .. Len(s) - 1
    BY <1>1
  <1>4. ASSUME NEW i \in DOMAIN s
        PROVE  s[i] \in {Head(s)} \cup ToSet(Tail(s))
    <2>1. CASE i = 1
      BY <1>1, <2>1
    <2>2. CASE i # 1
      <3>1. i - 1 \in 1 .. Len(s) - 1 /\ (i - 1) + 1 = i
        BY <1>1, <1>3, <2>2
      <3>2. Tail(s)[i - 1] = s[i]
        BY <1>2, <3>1
      <3>3. QED
        BY <1>3, <3>1, <3>2 DEF ToSet
    <2>3. QED
      BY <2>1, <2>2
  <1>5. ASSUME NEW i \in DOMAIN Tail(s)
        PROVE  Tail(s)[i] \in ToSet(s)
    <2>1. i \in 1 .. Len(s) - 1 /\ i + 1 \in DOMAIN s
      BY <1>1, <1>3
    <2>2. QED
      BY <1>2, <2>1 DEF ToSet
  <1>6. Head(s) \in ToSet(s)
    <2>1. 1 \in DOMAIN s
      BY <1>1, <1>3
    <2>2. QED
      BY <1>1, <2>1 DEF ToSet
  <1>7. ToSet(s) = {Head(s)} \cup ToSet(Tail(s))
    BY <1>4, <1>5, <1>6 DEF ToSet
  <1>8. QED
    BY <1>1, <1>2, <1>7

(* Without repetitions, the tail has the other elements and none twice. *)
LEMMA TailWithoutRepetition ==
    ASSUME NEW X, NEW s \in Seq(X), s # <<>>, IsInjective(s)
    PROVE  ToSet(Tail(s)) = ToSet(s) \ {Head(s)} /\ IsInjective(Tail(s))
  <1>1. /\ Head(s) = s[1] /\ Len(s) \in Nat \ {0}
        /\ Tail(s) \in Seq(X) /\ Len(Tail(s)) = Len(s) - 1
        /\ \A i \in 1 .. Len(s) - 1 : Tail(s)[i] = s[i + 1]
        /\ ToSet(s) = {Head(s)} \cup ToSet(Tail(s))
    BY HeadAndTail
  <1>2. DOMAIN s = 1 .. Len(s) /\ DOMAIN Tail(s) = 1 .. Len(s) - 1
    BY <1>1
  <1>3. ASSUME NEW i \in DOMAIN Tail(s)
        PROVE  Tail(s)[i] # Head(s)
    <2>1. i \in 1 .. Len(s) - 1 /\ i + 1 \in DOMAIN s /\ 1 \in DOMAIN s /\ i + 1 # 1
      BY <1>1, <1>2
    <2>2. s[i + 1] # s[1]
      BY <2>1 DEF IsInjective
    <2>3. QED
      BY <1>1, <2>1, <2>2
  <1>4. Head(s) \notin ToSet(Tail(s))
    BY <1>3 DEF ToSet
  <1>5. ASSUME NEW i \in DOMAIN Tail(s), NEW j \in DOMAIN Tail(s), Tail(s)[i] = Tail(s)[j]
        PROVE  i = j
    <2>1. i \in 1 .. Len(s) - 1 /\ j \in 1 .. Len(s) - 1
          /\ i + 1 \in DOMAIN s /\ j + 1 \in DOMAIN s
      BY <1>1, <1>2
    <2>2. s[i + 1] = s[j + 1]
      BY <1>1, <1>5, <2>1
    <2>3. i + 1 = j + 1
      BY <2>1, <2>2 DEF IsInjective
    <2>4. QED
      BY <1>1, <2>1, <2>3
  <1>6. QED
    BY <1>1, <1>4, <1>5 DEF IsInjective

LEMMA AppendNew ==
    ASSUME NEW X, NEW s \in Seq(X), NEW e \in X
    PROVE  /\ Append(s, e) \in Seq(X)
           /\ ToSet(Append(s, e)) = ToSet(s) \cup {e}
           /\ IsInjective(s) /\ e \notin ToSet(s) => IsInjective(Append(s, e))
  <1> DEFINE t == Append(s, e)
  <1>1. /\ t \in Seq(X) /\ Len(s) \in Nat /\ Len(t) = Len(s) + 1
        /\ \A i \in 1 .. Len(s) : t[i] = s[i]
        /\ t[Len(s) + 1] = e
    OBVIOUS
  <1> HIDE DEF t
  <1>2. DOMAIN s = 1 .. Len(s) /\ DOMAIN t = 1 .. Len(s) + 1
    BY <1>1
  <1>3. \A i \in DOMAIN t : i \in DOMAIN s \/ i = Len(s) + 1
    BY <1>1, <1>2
  <1>4. DOMAIN s \subseteq DOMAIN t /\ Len(s) + 1 \in DOMAIN t
    BY <1>1, <1>2
  <1>5. ToSet(t) = ToSet(s) \cup {e}
    BY <1>1, <1>2, <1>3, <1>4 DEF ToSet
  <1>6. ASSUME IsInjective(s), e \notin ToSet(s), NEW i \in DOMAIN t, NEW j \in DOMAIN t,
               t[i] = t[j]
        PROVE  i = j
    <2>1. \A k \in DOMAIN s : t[k] = s[k] /\ s[k] # e
      BY <1>1, <1>2, <1>6 DEF ToSet
    <2>2. QED
      BY <1>1, <1>3, <1>6, <2>1 DEF IsInjective
  <1>7. QED
    BY <1>1, <1>5, <1>6 DEF t, IsInjective

(* Putting an element into a sequence, by the elements of the result. *)
PutIn(e, s, g, x) ==
    /\ Len(e) = Len(s) + 1
    /\ \A k \in 1 .. Len(s) + 1 :
          e[k] = IF k < g THEN s[k] ELSE IF k = g THEN x ELSE s[k - 1]

LEMMA Insertion ==
    ASSUME NEW X, NEW s \in Seq(X), NEW x \in X, NEW g \in 1 .. Len(s) + 1
    PROVE  InsertAt(s, g, x) \in Seq(X) /\ PutIn(InsertAt(s, g, x), s, g, x)
  <1> DEFINE a == SubSeq(s, 1, g - 1)
             b == SubSeq(s, g, Len(s))
             n == Len(s)
             c == a \o <<x>>
  <1>1. n \in Nat /\ g \in Int
    OBVIOUS
  <1>2. a \in Seq(X) /\ Len(a) = g - 1 /\ \A k \in 1 .. g - 1 : a[k] = s[k]
    OBVIOUS
  <1>3. b \in Seq(X) /\ Len(b) = n + 1 - g /\ \A k \in 1 .. n + 1 - g : b[k] = s[g - 1 + k]
    OBVIOUS
  <1> HIDE DEF a, b
  <1>4. c \in Seq(X) /\ Len(c) = g /\ c[g] = x /\ \A k \in 1 .. g - 1 : c[k] = s[k]
    BY <1>2
  <1> HIDE DEF c
  <1>5. c \o b \in Seq(X) /\ Len(c \o b) = n + 1
    BY <1>1, <1>3, <1>4
  <1>6. ASSUME NEW k \in 1 .. n + 1
        PROVE  (c \o b)[k] = IF k < g THEN s[k] ELSE IF k = g THEN x ELSE s[k - 1]
    <2>1. CASE k < g
      BY <1>3, <1>4, <2>1
    <2>2. CASE k = g
      BY <1>3, <1>4, <2>2
    <2>3. CASE k > g
      <3>1. k - g \in 1 .. n + 1 - g /\ g - 1 + (k - g) = k - 1
        BY <1>1, <2>3
      <3>2. (c \o b)[k] = b[k - g]
        BY <1>3, <1>4, <2>3
      <3>3. QED
        BY <1>3, <2>3, <3>1, <3>2
    <2>4. k < g \/ k = g \/ k > g
      BY <1>1
    <2>5. QED
      BY <2>1, <2>2, <2>3, <2>4, Zenon
  <1>7. QED
    BY <1>5, <1>6 DEF a, b, c, InsertAt, PutIn

(* What is put in is the only new element. *)
LEMMA InsertionElements ==
    ASSUME NEW X, NEW s \in Seq(X), NEW x \in X, NEW g \in 1 .. Len(s) + 1
    PROVE  /\ ToSet(InsertAt(s, g, x)) = ToSet(s) \cup {x}
           /\ IsInjective(s) /\ x \notin ToSet(s) => IsInjective(InsertAt(s, g, x))
  <1> DEFINE e == InsertAt(s, g, x)
             n == Len(s)
             from(k) == IF k < g THEN k ELSE k - 1
             to(k)   == IF k < g THEN k ELSE k + 1
  <1>1. e \in Seq(X) /\ PutIn(e, s, g, x)
    BY Insertion
  <1> HIDE DEF e
  <1>2. n \in Nat /\ g \in 1 .. n + 1 /\ DOMAIN s = 1 .. n /\ DOMAIN e = 1 .. n + 1
    BY <1>1 DEF PutIn
  <1>3. \A k \in 1 .. n + 1 : k # g => from(k) \in 1 .. n /\ e[k] = s[from(k)]
    BY <1>1, <1>2 DEF PutIn
  <1>4. \A k \in 1 .. n : to(k) \in 1 .. n + 1 /\ e[to(k)] = s[k]
    BY <1>1, <1>2 DEF PutIn
  <1>5. e[g] = x
    BY <1>1, <1>2 DEF PutIn
  <1>6. \A k, l \in 1 .. n + 1 : k # g /\ l # g /\ from(k) = from(l) => k = l
    BY <1>2
  <1> HIDE DEF from, to, n
  <1>7. ToSet(e) = ToSet(s) \cup {x}
    <2>1. \A k \in 1 .. n + 1 : e[k] \in ToSet(s) \cup {x}
      BY <1>2, <1>3, <1>5 DEF ToSet
    <2>2. \A k \in 1 .. n : s[k] \in ToSet(e)
      BY <1>2, <1>4 DEF ToSet
    <2>3. x \in ToSet(e)
      BY <1>2, <1>5 DEF ToSet
    <2>4. QED
      BY <1>2, <2>1, <2>2, <2>3 DEF ToSet
  <1>8. ASSUME IsInjective(s), x \notin ToSet(s)
        PROVE  IsInjective(e)
    <2>1. \A k \in 1 .. n : s[k] # x
      BY <1>2, <1>8 DEF ToSet
    <2>2. QED
      BY <1>2, <1>3, <1>5, <1>6, <1>8, <2>1 DEF IsInjective
  <1>9. QED
    BY <1>7, <1>8 DEF e

-----------------------------------------------------------------------------

(* Finite sets are built element by element; P is a property of sets, as the
   set of the subsets of X that have it. *)
LEMMA FiniteInduction ==
    ASSUME NEW X, IsFiniteSet(X), NEW P, {} \in P,
           \A T \in SUBSET X : \A x \in X : T \in P /\ x \notin T => T \cup {x} \in P
    PROVE  X \in P
  <1> DEFINE S == {n \in Nat : \A T \in SUBSET X : Cardinality(T) = n => T \in P}
  <1>1. \A T \in SUBSET X : IsFiniteSet(T) /\ Cardinality(T) \in Nat
    BY FS_Subset, FS_CardinalityType
  <1>2. 0 \in S
    BY <1>1, FS_EmptySet
  <1>3. ASSUME NEW n \in Nat, n \in S
        PROVE  n + 1 \in S
    <2>1. ASSUME NEW T \in SUBSET X, Cardinality(T) = n + 1
          PROVE  T \in P
      <3>1. PICK x : x \in T
        BY <1>1, <2>1, FS_EmptySet
      <3> DEFINE U == T \ {x}
      <3>2. U \in SUBSET X /\ Cardinality(U) = n
        <4>1. Cardinality(U) = Cardinality(T) - 1
          BY <1>1, <3>1, FS_RemoveElement
        <4>2. QED
          BY <2>1, <4>1
      <3>3. U \in P
        BY <1>3, <3>2
      <3>4. U \cup {x} = T /\ x \notin U
        BY <3>1
      <3> HIDE DEF U
      <3>5. QED
        BY <3>1, <3>2, <3>3, <3>4
    <2>2. QED
      BY <2>1
  <1>4. Nat \subseteq S
    <2> HIDE DEF S
    <2> QED
      BY <1>2, <1>3, SetInduction
  <1>5. QED
    BY <1>1, <1>4

(* A set with as many members as a finite set has is finite. *)
LEMMA FiniteImage ==
    ASSUME NEW S, IsFiniteSet(S), NEW f, DOMAIN f = S
    PROVE  IsFiniteSet({f[x] : x \in S})
  <1> DEFINE T == {f[x] : x \in S}
             g == [x \in S |-> f[x]]
  <1>1. g \in Surjection(S, T)
    BY DEF Surjection
  <1> HIDE DEF g, T
  <1>2. QED
    BY <1>1, FS_Surjection DEF T
=============================================================================
