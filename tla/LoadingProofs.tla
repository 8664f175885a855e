---------------------------- MODULE LoadingProofs ----------------------------
(***************************************************************************)
(* Proofs about Loading, for trees of any size, any references and edges,  *)
(* any order in which the client created its nodes and any sequence of     *)
(* loads, failed or not, into any context.                                 *)
(***************************************************************************)
EXTENDS Loading, CommonFacts, TLAPS

-----------------------------------------------------------------------------

(* The order in sequences. *)

Before(s, x, y) == \E i, j \in 1 .. Len(s) : i < j /\ s[i] = x /\ s[j] = y

LEMMA ConcatByIndex ==
    ASSUME NEW X, NEW a \in Seq(X), NEW b \in Seq(X)
    PROVE  /\ a \o b \in Seq(X) /\ Len(a \o b) = Len(a) + Len(b)
           /\ \A i \in 1 .. Len(a) : i \in 1 .. Len(a \o b) /\ (a \o b)[i] = a[i]
           /\ \A i \in 1 .. Len(b) :
                 Len(a) + i \in 1 .. Len(a \o b) /\ (a \o b)[Len(a) + i] = b[i]
           /\ \A k \in 1 .. Len(a \o b) :
                 k \in 1 .. Len(a) \/ \E i \in 1 .. Len(b) : k = Len(a) + i
  <1>1. a \o b \in Seq(X) /\ Len(a \o b) = Len(a) + Len(b) /\ Len(a) \in Nat /\ Len(b) \in Nat
    OBVIOUS
  <1>2. \A i \in 1 .. Len(a) : i \in 1 .. Len(a \o b) /\ (a \o b)[i] = a[i]
    BY <1>1
  <1>3. \A i \in 1 .. Len(b) :
           Len(a) + i \in 1 .. Len(a \o b) /\ (a \o b)[Len(a) + i] = b[i]
    BY <1>1
  <1>4. ASSUME NEW k \in 1 .. Len(a \o b), k \notin 1 .. Len(a)
        PROVE  \E i \in 1 .. Len(b) : k = Len(a) + i
    <2>1. k - Len(a) \in 1 .. Len(b) /\ k = Len(a) + (k - Len(a))
      BY <1>1, <1>4
    <2>2. QED
      BY <2>1
  <1>5. QED
    BY <1>1, <1>2, <1>3, <1>4

LEMMA ElementsByIndex ==
    ASSUME NEW X, NEW s \in Seq(X), NEW x
    PROVE  x \in ToSet(s) <=> \E i \in 1 .. Len(s) : s[i] = x
  BY DEF ToSet

LEMMA ConcatElements ==
    ASSUME NEW X, NEW a \in Seq(X), NEW b \in Seq(X), NEW x
    PROVE  x \in ToSet(a \o b) <=> x \in ToSet(a) \/ x \in ToSet(b)
  <1>1. a \o b \in Seq(X)
    BY ConcatByIndex
  <1>2. ASSUME x \in ToSet(a)
        PROVE  x \in ToSet(a \o b)
    <2>1. PICK i \in 1 .. Len(a) : a[i] = x
      BY <1>2, ElementsByIndex
    <2>2. i \in 1 .. Len(a \o b) /\ (a \o b)[i] = x
      BY <2>1, ConcatByIndex
    <2>3. QED
      BY <1>1, <2>2, ElementsByIndex
  <1>3. ASSUME x \in ToSet(b)
        PROVE  x \in ToSet(a \o b)
    <2>1. PICK i \in 1 .. Len(b) : b[i] = x
      BY <1>3, ElementsByIndex
    <2>2. Len(a) + i \in 1 .. Len(a \o b) /\ (a \o b)[Len(a) + i] = x
      BY <2>1, ConcatByIndex
    <2>3. QED
      BY <1>1, <2>2, ElementsByIndex
  <1>4. ASSUME x \in ToSet(a \o b)
        PROVE  x \in ToSet(a) \/ x \in ToSet(b)
    <2>1. PICK k \in 1 .. Len(a \o b) : (a \o b)[k] = x
      BY <1>1, <1>4, ElementsByIndex
    <2>2. CASE k \in 1 .. Len(a)
      BY <2>1, <2>2, ConcatByIndex, ElementsByIndex
    <2>3. CASE \E i \in 1 .. Len(b) : k = Len(a) + i
      BY <2>1, <2>3, ConcatByIndex, ElementsByIndex
    <2>4. QED
      BY <2>2, <2>3, ConcatByIndex
  <1>5. QED
    BY <1>2, <1>3, <1>4

LEMMA ConcatOrder ==
    ASSUME NEW X, NEW a \in Seq(X), NEW b \in Seq(X), NEW x, NEW y,
           \/ Before(a, x, y)
           \/ Before(b, x, y)
           \/ x \in ToSet(a) /\ y \in ToSet(b)
    PROVE  Before(a \o b, x, y)
  <1>0. Len(a) \in Nat /\ Len(b) \in Nat
    OBVIOUS
  <1>1. CASE Before(a, x, y)
    <2>1. PICK i \in 1 .. Len(a), j \in 1 .. Len(a) : i < j /\ a[i] = x /\ a[j] = y
      BY <1>1 DEF Before
    <2>2. QED
      BY <2>1, ConcatByIndex DEF Before
  <1>2. CASE Before(b, x, y)
    <2>1. PICK i \in 1 .. Len(b), j \in 1 .. Len(b) : i < j /\ b[i] = x /\ b[j] = y
      BY <1>2 DEF Before
    <2>2. Len(a) + i < Len(a) + j
      BY <1>0, <2>1
    <2>3. /\ Len(a) + i \in 1 .. Len(a \o b) /\ (a \o b)[Len(a) + i] = x
          /\ Len(a) + j \in 1 .. Len(a \o b) /\ (a \o b)[Len(a) + j] = y
      BY <2>1, ConcatByIndex
    <2>4. QED
      BY <2>2, <2>3 DEF Before
  <1>3. CASE x \in ToSet(a) /\ y \in ToSet(b)
    <2>1. PICK i \in 1 .. Len(a), j \in 1 .. Len(b) : a[i] = x /\ b[j] = y
      BY <1>3, ElementsByIndex
    <2>2. i < Len(a) + j
      BY <1>0
    <2>3. /\ i \in 1 .. Len(a \o b) /\ (a \o b)[i] = x
          /\ Len(a) + j \in 1 .. Len(a \o b) /\ (a \o b)[Len(a) + j] = y
      BY <2>1, ConcatByIndex
    <2>4. QED
      BY <2>2, <2>3 DEF Before
  <1>4. QED
    BY <1>1, <1>2, <1>3

LEMMA ConcatInjective ==
    ASSUME NEW X, NEW a \in Seq(X), NEW b \in Seq(X), IsInjective(a), IsInjective(b),
           \A x \in ToSet(a) : x \notin ToSet(b)
    PROVE  IsInjective(a \o b)
  <1>0. Len(a) \in Nat /\ Len(b) \in Nat /\ a \o b \in Seq(X)
    OBVIOUS
  <1>1. DOMAIN (a \o b) = 1 .. Len(a \o b) /\ DOMAIN a = 1 .. Len(a) /\ DOMAIN b = 1 .. Len(b)
    BY <1>0
  <1>2. ASSUME NEW i \in 1 .. Len(a), NEW j \in 1 .. Len(b)
        PROVE  a[i] # b[j]
    <2>1. a[i] \in ToSet(a) /\ b[j] \in ToSet(b)
      BY ElementsByIndex
    <2>2. QED
      BY <2>1
  <1>3. ASSUME NEW k \in 1 .. Len(a \o b), NEW l \in 1 .. Len(a \o b), (a \o b)[k] = (a \o b)[l]
        PROVE  k = l
    <2>1. CASE k \in 1 .. Len(a) /\ l \in 1 .. Len(a)
      <3>1. a[k] = a[l]
        BY <1>3, <2>1, ConcatByIndex
      <3>2. QED
        BY <1>1, <2>1, <3>1 DEF IsInjective
    <2>2. ASSUME k \in 1 .. Len(a), NEW j \in 1 .. Len(b), l = Len(a) + j
          PROVE  FALSE
      <3>1. a[k] = b[j]
        BY <1>3, <2>2, ConcatByIndex
      <3>2. QED
        BY <1>2, <2>2, <3>1
    <2>3. ASSUME l \in 1 .. Len(a), NEW j \in 1 .. Len(b), k = Len(a) + j
          PROVE  FALSE
      <3>1. a[l] = b[j]
        BY <1>3, <2>3, ConcatByIndex
      <3>2. QED
        BY <1>2, <2>3, <3>1
    <2>4. CASE /\ \E i \in 1 .. Len(b) : k = Len(a) + i
               /\ \E j \in 1 .. Len(b) : l = Len(a) + j
      <3>1. PICK i \in 1 .. Len(b), j \in 1 .. Len(b) : k = Len(a) + i /\ l = Len(a) + j
        BY <2>4
      <3>2. b[i] = b[j]
        BY <1>3, <3>1, ConcatByIndex
      <3>3. QED
        BY <1>1, <3>1, <3>2 DEF IsInjective
    <2>5. QED
      BY <2>1, <2>2, <2>3, <2>4, ConcatByIndex
  <1>4. QED
    BY <1>1, <1>3 DEF IsInjective

(* In a sequence without repetitions the order is strict. *)
LEMMA OrderStrict ==
    ASSUME NEW X, NEW s \in Seq(X), IsInjective(s), NEW i \in 1 .. Len(s), NEW j \in 1 .. Len(s),
           Before(s, s[i], s[j])
    PROVE  i < j
  <1>1. PICK k \in 1 .. Len(s), l \in 1 .. Len(s) : k < l /\ s[k] = s[i] /\ s[l] = s[j]
    BY DEF Before
  <1>2. DOMAIN s = 1 .. Len(s)
    OBVIOUS
  <1>3. k = i /\ l = j
    BY <1>1, <1>2 DEF IsInjective
  <1>4. QED
    BY <1>1, <1>3

LEMMA OneElement ==
    ASSUME NEW X, NEW e \in X
    PROVE  /\ <<e>> \in Seq(X) /\ IsInjective(<<e>>)
           /\ \A x : x \in ToSet(<<e>>) <=> x = e
  BY DEF ToSet, IsInjective

LEMMA FunctionsAreSequences ==
    ASSUME NEW X, NEW n \in Nat, NEW s \in [1 .. n -> X]
    PROVE  s \in Seq(X) /\ Len(s) = n /\ DOMAIN s = 1 .. n
  OBVIOUS

(* The concatenations that FlattenSeq computes one after the other. *)
PartialSums(c, ss, n) == c[1] = ss[1] /\ \A k \in 1 .. n : k # 1 => c[k] = c[k - 1] \o ss[k]

LEMMA FlattenByParts ==
    ASSUME NEW X, NEW n \in Nat \ {0}, NEW ss \in [1 .. n -> Seq(X)]
    PROVE  \E c : PartialSums(c, ss, n) /\ FlattenSeq(ss) = c[n]
  <1>1. Len(ss) = n /\ ss \in Seq(Seq(X))
    BY FunctionsAreSequences
  <1> DEFINE Sol(f) == f = [i \in 1 .. Len(ss) |-> IF i = 1 THEN ss[i] ELSE f[i - 1] \o ss[i]]
             F == [k \in 1 .. n - 1 |-> [u \in Seq(X) |-> u \o ss[k + 1]]]
             c == CHOOSE f : Sol(f)
  <1>2. n - 1 \in Nat /\ 1 \in 1 .. n /\ \A k \in 1 .. n : ss[k] \in Seq(X)
    OBVIOUS
  <1>3. F \in Turns(Seq(X), n - 1)
    <2>1. \A k \in 1 .. n - 1 : ss[k + 1] \in Seq(X)
      BY <1>2
    <2>2. QED
      BY <2>1 DEF Turns
  <1>4. PICK g \in [0 .. n - 1 -> Seq(X)] : Follows(g, ss[1], F, n - 1)
    <2> HIDE DEF F
    <2> QED
      BY <1>2, <1>3, FiniteRecursion
  <1>5. \A k \in 1 .. n - 1 : g[k] = g[k - 1] \o ss[k + 1]
    <2>1. \A k \in 1 .. n - 1 : g[k] = F[k][g[k - 1]] /\ g[k - 1] \in Seq(X)
      <3> HIDE DEF F
      <3> QED
        BY <1>4 DEF Follows
    <2>2. QED
      BY <2>1
  <1> DEFINE f == [i \in 1 .. n |-> g[i - 1]]
  <1>6. Sol(f)
    <2>1. \A i \in 1 .. n : f[i] = IF i = 1 THEN ss[i] ELSE f[i - 1] \o ss[i]
      <3> TAKE i \in 1 .. n
      <3>1. CASE i = 1
        BY <1>4, <3>1 DEF Follows
      <3>2. CASE i # 1
        <4>1. i - 1 \in 1 .. n - 1 /\ i - 1 \in 1 .. n /\ (i - 1) + 1 = i
          BY <3>2
        <4>2. g[i - 1] = g[(i - 1) - 1] \o ss[(i - 1) + 1]
          BY <1>5, <4>1
        <4>3. f[i] = g[i - 1] /\ f[i - 1] = g[(i - 1) - 1]
          BY <4>1
        <4>4. QED
          BY <3>2, <4>1, <4>2, <4>3
      <3>3. QED
        BY <3>1, <3>2
    <2>2. DOMAIN f = 1 .. Len(ss) /\ f = [i \in 1 .. Len(ss) |-> f[i]]
      BY <1>1
    <2> HIDE DEF f
    <2>3. QED
      BY <1>1, <2>1, <2>2
  <1>7. Sol(c)
    <2> HIDE DEF f
    <2> QED
      BY <1>6, Zenon
  <1>8. FlattenSeq(ss) = c[n]
    BY <1>1 DEF FlattenSeq
  <1> HIDE DEF c
  <1>9. PartialSums(c, ss, n)
    BY <1>1, <1>2, <1>7 DEF PartialSums
  <1>10. QED
    BY <1>8, <1>9

(* s consists of the first k of the sequences ss, one after the other, where no
   two have an element in common. *)
Line(X, s) == s \in Seq(X) /\ IsInjective(s)

Follow(s, a, b) == \A x \in a, y \in b : Before(s, x, y)

Keeps(s, t) == \A x, y : Before(t, x, y) => Before(s, x, y)

Consists(X, s, ss, k) ==
    /\ Line(X, s)
    /\ \A x : x \in ToSet(s) <=> \E i \in 1 .. k : x \in ToSet(ss[i])
    /\ \A i \in 1 .. k : Keeps(s, ss[i])
    /\ \A i, j \in 1 .. k : i < j => Follow(s, ToSet(ss[i]), ToSet(ss[j]))

Disjoint(S, T) == \A x \in S : x \notin T

LEMMA EmptyLine ==
    ASSUME NEW X
    PROVE  Line(X, <<>>) /\ ToSet(<<>>) = {} /\ \A x, y : ~Before(<<>>, x, y)
  BY DEF Line, ToSet, Before, IsInjective

LEMMA ConcatLine ==
    ASSUME NEW X, NEW a, NEW b, Line(X, a), Line(X, b), Disjoint(ToSet(a), ToSet(b))
    PROVE  /\ Line(X, a \o b)
           /\ \A x : x \in ToSet(a \o b) <=> x \in ToSet(a) \/ x \in ToSet(b)
           /\ Keeps(a \o b, a) /\ Keeps(a \o b, b)
           /\ Follow(a \o b, ToSet(a), ToSet(b))
  <1>0. a \in Seq(X) /\ b \in Seq(X) /\ IsInjective(a) /\ IsInjective(b)
    BY DEF Line
  <1>1. a \o b \in Seq(X)
    BY <1>0
  <1>2. IsInjective(a \o b)
    BY <1>0, ConcatInjective DEF Disjoint
  <1>3. \A x : x \in ToSet(a \o b) <=> x \in ToSet(a) \/ x \in ToSet(b)
    BY <1>0, ConcatElements
  <1>4. Keeps(a \o b, a) /\ Keeps(a \o b, b) /\ Follow(a \o b, ToSet(a), ToSet(b))
    BY <1>0, ConcatOrder DEF Keeps, Follow
  <1>5. QED
    BY <1>1, <1>2, <1>3, <1>4 DEF Line

(* One more sequence is appended. *)
LEMMA ConsistsGrows ==
    ASSUME NEW X, NEW n \in Nat, NEW ss \in [1 .. n -> Seq(X)],
           \A i \in 1 .. n : IsInjective(ss[i]),
           \A i, j \in 1 .. n : i # j => Disjoint(ToSet(ss[i]), ToSet(ss[j])),
           NEW k \in 1 .. n, k + 1 \in 1 .. n, NEW s, Consists(X, s, ss, k)
    PROVE  Consists(X, s \o ss[k + 1], ss, k + 1)
  <1> DEFINE t == ss[k + 1]
  <1>0. \A i \in 1 .. k + 1 : i \in 1 .. n /\ (i \in 1 .. k \/ i = k + 1)
    OBVIOUS
  <1>1. Line(X, s) /\ Line(X, t)
    BY DEF Consists, Line
  <1>2. \A x : x \in ToSet(s) <=> \E i \in 1 .. k : x \in ToSet(ss[i])
    BY DEF Consists
  <1>3. Disjoint(ToSet(s), ToSet(t))
    <2>1. \A i \in 1 .. k : i \in 1 .. n /\ i # k + 1
      OBVIOUS
    <2>2. \A i \in 1 .. k : Disjoint(ToSet(ss[i]), ToSet(t))
      BY <2>1
    <2>3. QED
      BY <1>2, <2>2 DEF Disjoint
  <1> HIDE DEF t
  <1>4. /\ Line(X, s \o t)
        /\ \A x : x \in ToSet(s \o t) <=> x \in ToSet(s) \/ x \in ToSet(t)
        /\ Keeps(s \o t, s) /\ Keeps(s \o t, t)
        /\ Follow(s \o t, ToSet(s), ToSet(t))
    BY <1>1, <1>3, ConcatLine
  <1>5. \A x : x \in ToSet(s \o t) <=> \E i \in 1 .. k + 1 : x \in ToSet(ss[i])
    <2> TAKE x
    <2>1. ASSUME NEW i \in 1 .. k, x \in ToSet(ss[i])
          PROVE  \E j \in 1 .. k + 1 : x \in ToSet(ss[j])
      <3>1. i \in 1 .. k + 1
        OBVIOUS
      <3>2. QED
        BY <2>1, <3>1
    <2>2. ASSUME x \in ToSet(t)
          PROVE  \E j \in 1 .. k + 1 : x \in ToSet(ss[j])
      <3>1. k + 1 \in 1 .. k + 1
        OBVIOUS
      <3>2. QED
        BY <2>2, <3>1 DEF t
    <2>3. QED
      BY <1>0, <1>2, <1>4, <2>1, <2>2 DEF t
  <1>6. \A i \in 1 .. k + 1 : Keeps(s \o t, ss[i])
    <2> TAKE i \in 1 .. k + 1
    <2>1. CASE i \in 1 .. k
      <3>1. Keeps(s, ss[i])
        BY <2>1 DEF Consists
      <3>2. QED
        BY <1>4, <3>1 DEF Keeps
    <2>2. CASE i = k + 1
      BY <1>4, <2>2 DEF t
    <2>3. QED
      BY <1>0, <2>1, <2>2
  <1>7. ASSUME NEW i \in 1 .. k + 1, NEW j \in 1 .. k + 1, i < j
        PROVE  Follow(s \o t, ToSet(ss[i]), ToSet(ss[j]))
    <2>0. i \in 1 .. k
      BY <1>7
    <2>1. CASE j \in 1 .. k
      <3>1. Follow(s, ToSet(ss[i]), ToSet(ss[j]))
        BY <1>7, <2>0, <2>1 DEF Consists
      <3>2. QED
        BY <1>4, <3>1 DEF Keeps, Follow
    <2>2. CASE j = k + 1
      <3>1. \A x \in ToSet(ss[i]) : x \in ToSet(s)
        BY <1>2, <2>0
      <3>2. QED
        BY <1>4, <2>2, <3>1 DEF Follow, t
    <2>3. QED
      BY <1>0, <2>1, <2>2
  <1>8. QED
    BY <1>4, <1>5, <1>6, <1>7 DEF Consists, t

(* The order and the elements of a concatenation of many sequences. *)
LEMMA FlattenConsists ==
    ASSUME NEW X, NEW n \in Nat, NEW ss \in [1 .. n -> Seq(X)],
           \A i \in 1 .. n : IsInjective(ss[i]),
           \A i, j \in 1 .. n : i # j => Disjoint(ToSet(ss[i]), ToSet(ss[j]))
    PROVE  Consists(X, FlattenSeq(ss), ss, n)
  <1>1. CASE n = 0
    <2>1. ss = <<>> /\ Len(ss) = 0
      BY <1>1, FunctionsAreSequences
    <2>2. FlattenSeq(ss) = <<>>
      BY <2>1 DEF FlattenSeq
    <2>3. \A i \in 1 .. n : FALSE
      BY <1>1
    <2>4. QED
      BY <2>2, <2>3, EmptyLine DEF Consists
  <1>2. CASE n # 0
    <2>1. PICK c : PartialSums(c, ss, n) /\ FlattenSeq(ss) = c[n]
      BY <1>2, FlattenByParts
    <2> DEFINE S == {m \in Nat : m + 1 \in 1 .. n => Consists(X, c[m + 1], ss, m + 1)}
    <2>2. 0 \in S
      <3>1. 1 \in 1 .. n /\ c[1] = ss[1]
        BY <1>2, <2>1 DEF PartialSums
      <3>2. Line(X, ss[1])
        BY <3>1 DEF Line
      <3>3. Consists(X, ss[1], ss, 1)
        BY <3>2 DEF Consists, Keeps
      <3>4. QED
        BY <3>1, <3>3
    <2>3. ASSUME NEW m \in Nat, m \in S
          PROVE  m + 1 \in S
      <3> SUFFICES ASSUME (m + 1) + 1 \in 1 .. n
                   PROVE  Consists(X, c[(m + 1) + 1], ss, (m + 1) + 1)
        OBVIOUS
      <3>1. m + 1 \in 1 .. n
        OBVIOUS
      <3>2. Consists(X, c[m + 1], ss, m + 1)
        BY <2>3, <3>1
      <3>3. c[(m + 1) + 1] = c[m + 1] \o ss[(m + 1) + 1]
        <4> DEFINE l == (m + 1) + 1
        <4>1. l # 1 /\ l - 1 = m + 1 /\ l \in 1 .. n
          OBVIOUS
        <4> HIDE DEF l
        <4>2. c[l] = c[l - 1] \o ss[l]
          BY <2>1, <4>1 DEF PartialSums
        <4>3. QED
          BY <4>1, <4>2 DEF l
      <3>4. QED
        BY <3>1, <3>2, <3>3, ConsistsGrows
    <2>4. n - 1 \in S
      <3>1. n - 1 \in Nat
        BY <1>2
      <3> HIDE DEF S
      <3>2. QED
        BY <2>2, <2>3, <3>1, SetInduction
    <2>5. (n - 1) + 1 = n /\ n \in 1 .. n
      BY <1>2
    <2>6. QED
      BY <2>1, <2>4, <2>5
  <1>3. QED
    BY <1>1, <1>2

-----------------------------------------------------------------------------

(* The tree in a file.  How deep a node is follows from its kind. *)

Depth(u) ==
    CASE Kind[u] = "IR"                                -> 0
      [] Kind[u] = "Module"                            -> 1
      [] Kind[u] \in {"ProxyBlock", "Section", "Symbol"} -> 2
      [] Kind[u] = "ByteInterval"                      -> 3
      [] Kind[u] \in {"CodeBlock", "DataBlock"}        -> 4
      [] OTHER                                         -> 5

LEMMA NestedDeeper ==
    ASSUME NEW u, NEW v, Kind[u] \in Nestable(Kind[v])
    PROVE  Depth(v) \in 0 .. 3 /\ Depth(u) = Depth(v) + 1
  BY DEF Nestable, Depth

LEMMA ContainedNode ==
    ASSUME NEW v \in Uuid, NEW u \in ToSet(Children[v])
    PROVE  u \in Uuid /\ Kind[u] \in Nestable(Kind[v])
  <1>1. Children[v] \in Seq(Uuid)
    BY TreeAssumption
  <1>2. PICK i \in DOMAIN Children[v] : Children[v][i] = u
    BY DEF ToSet
  <1>3. Children[v][i] \in Uuid
    BY <1>1
  <1>4. QED
    BY <1>2, <1>3, TreeAssumption

LEMMA LevelElement ==
    ASSUME NEW U, NEW u
    PROVE  u \in Level(U) <=> \E v \in U : u \in ToSet(Children[v])
  BY DEF Level

(* The nodes of one depth. *)
Stratum(U, d) == U \subseteq Uuid /\ \A u \in U : Depth(u) = d

LEMMA NextStratum ==
    ASSUME NEW d \in Nat, NEW U, Stratum(U, d)
    PROVE  Stratum(Level(U), d + 1)
  <1> SUFFICES ASSUME NEW u \in Level(U)
               PROVE  u \in Uuid /\ Depth(u) = d + 1
    BY DEF Stratum
  <1>1. PICK v \in U : u \in ToSet(Children[v])
    BY LevelElement
  <1>2. v \in Uuid /\ Depth(v) = d
    BY DEF Stratum
  <1>3. QED
    BY <1>1, <1>2, ContainedNode, NestedDeeper

L1 == Level({Root})
L2 == Level(L1)
L3 == Level(L2)
L4 == Level(L3)

LEMMA TreeElement ==
    ASSUME NEW u
    PROVE  u \in Tree <=> u = Root \/ u \in L1 \/ u \in L2 \/ u \in L3 \/ u \in L4
  BY DEF Tree, L1, L2, L3, L4

LEMMA Strata ==
    /\ Stratum({Root}, 0) /\ Stratum(L1, 1) /\ Stratum(L2, 2)
    /\ Stratum(L3, 3) /\ Stratum(L4, 4)
  <1>1. Stratum({Root}, 0)
    BY TreeAssumption DEF Stratum, Depth
  <1>2. Stratum(L1, 1)
    BY <1>1, NextStratum DEF L1
  <1>3. Stratum(L2, 2)
    BY <1>2, NextStratum DEF L2
  <1>4. Stratum(L3, 3)
    BY <1>3, NextStratum DEF L3
  <1>5. Stratum(L4, 4)
    BY <1>4, NextStratum DEF L4
  <1>6. QED
    BY <1>1, <1>2, <1>3, <1>4, <1>5

LEMMA TreeNode ==
    ASSUME NEW u \in Tree
    PROVE  u \in Uuid /\ Depth(u) \in 0 .. 4 /\ (Depth(u) = 0 <=> u = Root)
  BY TreeElement, Strata DEF Stratum

LEMMA RootInTree == Root \in Tree /\ Depth(Root) = 0
  BY TreeElement, TreeAssumption DEF Depth

(* Two nodes of the tree do not contain the same node. *)
LEMMA OneOwner ==
    ASSUME NEW v \in Tree, NEW w \in Tree, NEW u \in ToSet(Children[v]), u \in ToSet(Children[w])
    PROVE  v = w
  <1>1. PICK i \in DOMAIN Children[v] : Children[v][i] = u
    BY DEF ToSet
  <1>2. PICK j \in DOMAIN Children[w] : Children[w][j] = u
    BY DEF ToSet
  <1>3. QED
    BY <1>1, <1>2, TreeAssumption

LEMMA ChildInTree ==
    ASSUME NEW v \in Tree, NEW u \in ToSet(Children[v])
    PROVE  /\ u \in Tree \ {Root} /\ OwnerOf(u) = v
           /\ Kind[u] \in Nestable(Kind[v]) /\ Depth(u) = Depth(v) + 1
  <1>1. v \in Uuid /\ Depth(v) \in 0 .. 4
    BY TreeNode
  <1>2. Kind[u] \in Nestable(Kind[v])
    BY <1>1, ContainedNode
  <1>3. Depth(v) \in 0 .. 3 /\ Depth(u) = Depth(v) + 1
    BY <1>2, NestedDeeper
  <1>4. u \in Tree
    <2>1. v \notin L4
      BY <1>3, Strata DEF Stratum
    <2>2. v = Root \/ v \in L1 \/ v \in L2 \/ v \in L3
      BY <2>1, TreeElement
    <2>3. u \in L1 \/ u \in L2 \/ u \in L3 \/ u \in L4
      BY <2>2, LevelElement DEF L1, L2, L3, L4
    <2>4. QED
      BY <2>3, TreeElement
  <1>5. u # Root
    BY <1>3, RootInTree
  <1>6. OwnerOf(u) = v
    <2>1. OwnerOf(u) \in Tree /\ u \in ToSet(Children[OwnerOf(u)])
      BY DEF OwnerOf
    <2>2. QED
      BY <2>1, OneOwner
  <1>7. QED
    BY <1>2, <1>3, <1>4, <1>5, <1>6

LEMMA OwnerInTree ==
    ASSUME NEW u \in Tree \ {Root}
    PROVE  /\ OwnerOf(u) \in Tree /\ u \in ToSet(Children[OwnerOf(u)])
           /\ Kind[u] \in Nestable(Kind[OwnerOf(u)])
           /\ Depth(OwnerOf(u)) \in Nat /\ Depth(u) = Depth(OwnerOf(u)) + 1
  <1>1. u \in L1 \/ u \in L2 \/ u \in L3 \/ u \in L4
    BY TreeElement
  <1>2. \E v : (v = Root \/ v \in L1 \/ v \in L2 \/ v \in L3) /\ u \in ToSet(Children[v])
    BY <1>1, LevelElement DEF L1, L2, L3, L4
  <1>3. \E v \in Tree : u \in ToSet(Children[v])
    BY <1>2, TreeElement
  <1>4. OwnerOf(u) \in Tree /\ u \in ToSet(Children[OwnerOf(u)])
    BY <1>3 DEF OwnerOf
  <1>5. QED
    BY <1>4, ChildInTree, TreeNode

(* The byte interval, the child of a module and the module that a node is in or
   is, as far as it is that deep. *)
Up3(u) == IF Depth(u) = 4 THEN OwnerOf(u) ELSE u
Up2(u) == IF Depth(Up3(u)) = 3 THEN OwnerOf(Up3(u)) ELSE Up3(u)
Up1(u) == IF Depth(Up2(u)) = 2 THEN OwnerOf(Up2(u)) ELSE Up2(u)

LEMMA UpInTree ==
    ASSUME NEW u \in Tree
    PROVE  /\ Up3(u) \in Tree /\ Depth(Up3(u)) = IF Depth(u) = 4 THEN 3 ELSE Depth(u)
           /\ Up2(u) \in Tree /\ Depth(Up2(u)) = IF Depth(u) >= 2 THEN 2 ELSE Depth(u)
           /\ Up1(u) \in Tree /\ Depth(Up1(u)) = IF Depth(u) >= 1 THEN 1 ELSE 0
  <1>0. Depth(u) \in 0 .. 4
    BY TreeNode
  <1>1. Up3(u) \in Tree /\ Depth(Up3(u)) = IF Depth(u) = 4 THEN 3 ELSE Depth(u)
    <2>1. CASE Depth(u) = 4
      <3>1. u # Root
        BY <2>1, TreeNode
      <3>2. QED
        BY <2>1, <3>1, OwnerInTree DEF Up3
    <2>2. CASE Depth(u) # 4
      BY <2>2 DEF Up3
    <2>3. QED
      BY <2>1, <2>2
  <1>2. Up2(u) \in Tree /\ Depth(Up2(u)) = IF Depth(u) >= 2 THEN 2 ELSE Depth(u)
    <2>1. CASE Depth(Up3(u)) = 3
      <3>1. Up3(u) # Root
        BY <1>1, <2>1, TreeNode
      <3>2. Up2(u) \in Tree /\ Depth(Up2(u)) = 2
        BY <1>1, <2>1, <3>1, OwnerInTree DEF Up2
      <3>3. QED
        BY <1>0, <1>1, <2>1, <3>2
    <2>2. CASE Depth(Up3(u)) # 3
      BY <1>0, <1>1, <2>2 DEF Up2
    <2>3. QED
      BY <2>1, <2>2
  <1>3. Up1(u) \in Tree /\ Depth(Up1(u)) = IF Depth(u) >= 1 THEN 1 ELSE 0
    <2>1. CASE Depth(Up2(u)) = 2
      <3>1. Up2(u) # Root
        BY <1>2, <2>1, TreeNode
      <3>2. Up1(u) \in Tree /\ Depth(Up1(u)) = 1
        BY <1>2, <2>1, <3>1, OwnerInTree DEF Up1
      <3>3. QED
        BY <1>0, <1>2, <2>1, <3>2
    <2>2. CASE Depth(Up2(u)) # 2
      BY <1>0, <1>2, <2>2 DEF Up1
    <2>3. QED
      BY <2>1, <2>2
  <1>4. QED
    BY <1>1, <1>2, <1>3

(* What is in a byte interval. *)
LEMMA InInterval ==
    ASSUME NEW v \in Tree, Depth(v) = 3, NEW u \in Tree
    PROVE  Up3(u) = v <=> u = v \/ u \in ToSet(Children[v])
  <1>0. Depth(u) \in 0 .. 4
    BY TreeNode
  <1>1. CASE Depth(u) = 4
    <2>1. u # Root
      BY <1>1, TreeNode
    <2>2. u \in ToSet(Children[OwnerOf(u)]) /\ Up3(u) = OwnerOf(u) /\ u # v
      BY <1>1, <2>1, OwnerInTree DEF Up3
    <2>3. u \in ToSet(Children[v]) => OwnerOf(u) = v
      BY ChildInTree
    <2>4. QED
      BY <2>2, <2>3
  <1>2. CASE Depth(u) # 4
    <2>1. u \notin ToSet(Children[v])
      BY <1>2, ChildInTree
    <2>2. QED
      BY <1>2, <2>1 DEF Up3
  <1>3. QED
    BY <1>1, <1>2

(* What is in a section, a symbol or a proxy block. *)
LEMMA InSection ==
    ASSUME NEW v \in Tree, Depth(v) = 2, NEW u \in Tree
    PROVE  Up2(u) = v <=> u = v \/ Up3(u) \in ToSet(Children[v])
  <1>0. /\ Depth(u) \in 0 .. 4 /\ Up3(u) \in Tree
        /\ Depth(Up3(u)) = IF Depth(u) = 4 THEN 3 ELSE Depth(u)
    BY TreeNode, UpInTree
  <1>1. CASE Depth(Up3(u)) = 3
    <2>1. Up3(u) # Root
      BY <1>0, <1>1, TreeNode
    <2>2. Up3(u) \in ToSet(Children[OwnerOf(Up3(u))]) /\ Up2(u) = OwnerOf(Up3(u)) /\ u # v
      BY <1>0, <1>1, <2>1, OwnerInTree DEF Up2
    <2>3. Up3(u) \in ToSet(Children[v]) => OwnerOf(Up3(u)) = v
      BY ChildInTree
    <2>4. QED
      BY <2>2, <2>3
  <1>2. CASE Depth(Up3(u)) # 3
    <2>1. Up3(u) \notin ToSet(Children[v])
      BY <1>2, ChildInTree
    <2>2. Up2(u) = u
      BY <1>0, <1>2 DEF Up2, Up3
    <2>3. QED
      BY <2>1, <2>2
  <1>3. QED
    BY <1>1, <1>2

(* What is in a module. *)
LEMMA InModule ==
    ASSUME NEW v \in Tree, Depth(v) = 1, NEW u \in Tree
    PROVE  Up1(u) = v <=> u = v \/ Up2(u) \in ToSet(Children[v])
  <1>0. /\ Depth(u) \in 0 .. 4 /\ Up2(u) \in Tree
        /\ Depth(Up2(u)) = IF Depth(u) >= 2 THEN 2 ELSE Depth(u)
        /\ Depth(Up3(u)) = IF Depth(u) = 4 THEN 3 ELSE Depth(u)
    BY TreeNode, UpInTree
  <1>1. CASE Depth(Up2(u)) = 2
    <2>1. Up2(u) # Root
      BY <1>0, <1>1, TreeNode
    <2>2. Up2(u) \in ToSet(Children[OwnerOf(Up2(u))]) /\ Up1(u) = OwnerOf(Up2(u)) /\ u # v
      BY <1>0, <1>1, <2>1, OwnerInTree DEF Up1
    <2>3. Up2(u) \in ToSet(Children[v]) => OwnerOf(Up2(u)) = v
      BY ChildInTree
    <2>4. QED
      BY <2>2, <2>3
  <1>2. CASE Depth(Up2(u)) # 2
    <2>1. Up2(u) \notin ToSet(Children[v])
      BY <1>2, ChildInTree
    <2>2. Up1(u) = u
      BY <1>0, <1>2 DEF Up1, Up2, Up3
    <2>3. QED
      BY <2>1, <2>2
  <1>3. QED
    BY <1>1, <1>2

(* What is in the IR. *)
LEMMA InRoot ==
    ASSUME NEW u \in Tree
    PROVE  u = Root \/ Up1(u) \in ToSet(Children[Root])
  <1> SUFFICES ASSUME u # Root
               PROVE  Up1(u) \in ToSet(Children[Root])
    OBVIOUS
  <1>1. Depth(u) \in 1 .. 4
    BY TreeNode
  <1>2. Up1(u) \in Tree /\ Depth(Up1(u)) = 1
    BY <1>1, UpInTree
  <1>3. Up1(u) # Root
    BY <1>2, TreeNode
  <1>4. OwnerOf(Up1(u)) \in Tree /\ Depth(OwnerOf(Up1(u))) = 0
        /\ Up1(u) \in ToSet(Children[OwnerOf(Up1(u))])
    BY <1>2, <1>3, OwnerInTree
  <1>5. OwnerOf(Up1(u)) = Root
    BY <1>4, TreeNode
  <1>6. QED
    BY <1>4, <1>5

-----------------------------------------------------------------------------

(* The steps of a load. *)

Steps ==
    [do : {"create", "attach", "referent", "symbolicExpressions", "entryPoint", "cfg", "version"},
     what : Uuid]

LEMMA StepFields ==
    ASSUME NEW d, NEW u
    PROVE  Step(d, u).do = d /\ Step(d, u).what = u
  BY DEF Step

(* The steps that create a node, fill in the referent if it is a symbol, and
   hand it to its owner. *)
OwnSteps(u) ==
    {Step("create", u), Step("attach", u)}
      \cup (IF Kind[u] = "Symbol" THEN {Step("referent", u)} ELSE {})

FamilySteps(U) == UNION {OwnSteps(u) : u \in U}

(* q has these steps for the nodes U, each once, and in an order in which a node
   is used when it has been created. *)
Family(q, U) ==
    /\ Line(Steps, q)
    /\ ToSet(q) = FamilySteps(U)
    /\ \A u \in U : Before(q, Step("create", u), Step("attach", u))
    /\ \A u \in U : Kind[u] = "Symbol" => Before(q, Step("create", u), Step("referent", u))
    /\ \A u \in U : OwnerOf(u) \in U => Before(q, Step("create", OwnerOf(u)), Step("attach", u))

LEMMA FamilyStep ==
    ASSUME NEW U, NEW x
    PROVE  x \in FamilySteps(U) <=> \E u \in U : x \in OwnSteps(u)
  BY DEF FamilySteps

LEMMA OwnStepsWhat ==
    ASSUME NEW u, NEW x \in OwnSteps(u)
    PROVE  x.what = u
  BY StepFields DEF OwnSteps

LEMMA DisjointFamilies ==
    ASSUME NEW U, NEW V, Disjoint(U, V)
    PROVE  Disjoint(FamilySteps(U), FamilySteps(V))
  <1> SUFFICES ASSUME NEW x \in FamilySteps(U), x \in FamilySteps(V)
               PROVE  FALSE
    BY DEF Disjoint
  <1>1. PICK u \in U : x \in OwnSteps(u)
    BY FamilyStep
  <1>2. PICK v \in V : x \in OwnSteps(v)
    BY FamilyStep
  <1>3. u = v
    BY <1>1, <1>2, OwnStepsWhat
  <1>4. QED
    BY <1>3 DEF Disjoint

LEMMA EmptyFamily == Family(<<>>, {})
  BY EmptyLine DEF Family, FamilySteps

LEMMA FamilyFlatten ==
    ASSUME NEW n \in Nat, NEW ss \in [1 .. n -> Seq(Steps)], NEW Us, NEW W,
           \A i \in 1 .. n : Family(ss[i], Us[i]),
           \A i, j \in 1 .. n : i # j => Disjoint(Us[i], Us[j]),
           \A u : u \in W <=> \E i \in 1 .. n : u \in Us[i],
           \A i \in 1 .. n : \A u \in Us[i] : OwnerOf(u) \in W => OwnerOf(u) \in Us[i]
    PROVE  Family(FlattenSeq(ss), W)
  <1> DEFINE q == FlattenSeq(ss)
  <1>1. \A i \in 1 .. n : IsInjective(ss[i]) /\ ToSet(ss[i]) = FamilySteps(Us[i])
    BY DEF Family, Line
  <1>2. \A i, j \in 1 .. n : i # j => Disjoint(ToSet(ss[i]), ToSet(ss[j]))
    BY <1>1, DisjointFamilies
  <1>3. Consists(Steps, q, ss, n)
    BY <1>1, <1>2, FlattenConsists
  <1> HIDE DEF q
  <1>4. ToSet(q) = FamilySteps(W)
    <2>1. \A x : x \in ToSet(q) <=> \E i \in 1 .. n : x \in FamilySteps(Us[i])
      BY <1>1, <1>3 DEF Consists
    <2>2. \A x : x \in ToSet(q) <=> x \in FamilySteps(W)
      BY <2>1, FamilyStep
    <2>3. QED
      BY <2>2
  <1>5. \A i \in 1 .. n : \A x, y : Before(ss[i], x, y) => Before(q, x, y)
    BY <1>3 DEF Consists, Keeps
  <1>6. ASSUME NEW u \in W
        PROVE  /\ Before(q, Step("create", u), Step("attach", u))
               /\ Kind[u] = "Symbol" => Before(q, Step("create", u), Step("referent", u))
               /\ OwnerOf(u) \in W => Before(q, Step("create", OwnerOf(u)), Step("attach", u))
    <2>1. PICK i \in 1 .. n : u \in Us[i]
      OBVIOUS
    <2>2. Family(ss[i], Us[i]) /\ (OwnerOf(u) \in W => OwnerOf(u) \in Us[i])
      BY <2>1
    <2>3. QED
      BY <1>5, <2>1, <2>2 DEF Family
  <1>7. QED
    BY <1>3, <1>4, <1>6 DEF Family, Consists, q

(* A sequence with one step more at its front or its end. *)
LEMMA WithFirst ==
    ASSUME NEW x \in Steps, NEW q, Line(Steps, q), x \notin ToSet(q)
    PROVE  /\ Line(Steps, <<x>> \o q)
           /\ \A y : y \in ToSet(<<x>> \o q) <=> y = x \/ y \in ToSet(q)
           /\ Keeps(<<x>> \o q, q)
           /\ \A y \in ToSet(q) : Before(<<x>> \o q, x, y)
  <1>1. Line(Steps, <<x>>) /\ \A y : y \in ToSet(<<x>>) <=> y = x
    BY OneElement DEF Line
  <1>2. Disjoint(ToSet(<<x>>), ToSet(q))
    BY <1>1 DEF Disjoint
  <1>3. QED
    BY <1>1, <1>2, ConcatLine DEF Follow

LEMMA WithLast ==
    ASSUME NEW x \in Steps, NEW q, Line(Steps, q), x \notin ToSet(q)
    PROVE  /\ Line(Steps, q \o <<x>>)
           /\ \A y : y \in ToSet(q \o <<x>>) <=> y = x \/ y \in ToSet(q)
           /\ Keeps(q \o <<x>>, q)
           /\ \A y \in ToSet(q) : Before(q \o <<x>>, y, x)
  <1>1. Line(Steps, <<x>>) /\ \A y : y \in ToSet(<<x>>) <=> y = x
    BY OneElement DEF Line
  <1>2. Disjoint(ToSet(q), ToSet(<<x>>))
    BY <1>1 DEF Disjoint
  <1>3. QED
    BY <1>1, <1>2, ConcatLine DEF Follow

(* A node with the steps for its contents in between. *)
LEMMA FamilyWrap ==
    ASSUME NEW U, NEW q, Family(q, U), NEW v \in Uuid, v \notin U, Kind[v] # "Symbol"
    PROVE  Family(<<Step("create", v)>> \o q \o <<Step("attach", v)>>, U \cup {v})
  <1> DEFINE c == Step("create", v)
             a == Step("attach", v)
             s == <<c>> \o q
             t == s \o <<a>>
             W == U \cup {v}
  <1>0. c \in Steps /\ a \in Steps /\ c # a /\ c.what = v /\ a.what = v
    <2>1. c.do = "create" /\ a.do = "attach" /\ c.what = v /\ a.what = v
      BY StepFields
    <2>2. c \in Steps /\ a \in Steps
      BY DEF Step, Steps
    <2> HIDE DEF c, a
    <2>3. QED
      BY <2>1, <2>2
  <1>1. Line(Steps, q) /\ ToSet(q) = FamilySteps(U)
    BY DEF Family
  <1>2. c \notin ToSet(q) /\ a \notin ToSet(q)
    <2> SUFFICES ASSUME NEW x \in ToSet(q), x.what = v
                 PROVE  FALSE
      BY <1>0
    <2>1. PICK u \in U : x \in OwnSteps(u)
      BY <1>1, FamilyStep
    <2>2. QED
      BY <2>1, OwnStepsWhat
  <1>w. OwnSteps(v) = {c, a}
    BY DEF OwnSteps
  <1> HIDE DEF c, a
  <1>3. /\ Line(Steps, s)
        /\ \A y : y \in ToSet(s) <=> y = c \/ y \in ToSet(q)
        /\ Keeps(s, q)
        /\ \A y \in ToSet(q) : Before(s, c, y)
    BY <1>0, <1>1, <1>2, WithFirst
  <1> HIDE DEF s
  <1>4. a \notin ToSet(s)
    BY <1>0, <1>2, <1>3
  <1>5. /\ Line(Steps, t)
        /\ \A y : y \in ToSet(t) <=> y = a \/ y \in ToSet(s)
        /\ Keeps(t, s)
        /\ \A y \in ToSet(s) : Before(t, y, a)
    BY <1>0, <1>3, <1>4, WithLast
  <1> HIDE DEF t
  <1>6. ToSet(t) = FamilySteps(W)
    <2>1. \A x : x \in FamilySteps(W) <=> x \in OwnSteps(v) \/ x \in FamilySteps(U)
      BY FamilyStep
    <2>2. \A x : x \in ToSet(t) <=> x \in FamilySteps(W)
      BY <1>1, <1>3, <1>5, <1>w, <2>1
    <2>3. QED
      BY <2>2
  <1>7. \A x, y : Before(q, x, y) => Before(t, x, y)
    BY <1>3, <1>5 DEF Keeps
  <1>8. ASSUME NEW u \in U
        PROVE  Step("create", u) \in ToSet(q) /\ Step("attach", u) \in ToSet(q)
    BY <1>1, FamilyStep DEF OwnSteps
  <1>9. ASSUME NEW u \in W
        PROVE  /\ Before(t, Step("create", u), Step("attach", u))
               /\ Kind[u] = "Symbol" => Before(t, Step("create", u), Step("referent", u))
               /\ OwnerOf(u) \in W => Before(t, Step("create", OwnerOf(u)), Step("attach", u))
    <2>1. CASE u = v
      <3>1. \A w \in W : Step("create", w) \in ToSet(s)
        BY <1>3, <1>8 DEF c
      <3>2. QED
        BY <1>5, <2>1, <3>1 DEF a
    <2>2. CASE u \in U
      <3>1. OwnerOf(u) = v => Before(t, Step("create", OwnerOf(u)), Step("attach", u))
        <4>1. Before(s, c, Step("attach", u))
          BY <1>3, <1>8, <2>2
        <4>2. QED
          BY <1>5, <4>1 DEF c, Keeps
      <3>2. QED
        BY <1>7, <2>2, <3>1 DEF Family
    <2>3. QED
      BY <2>1, <2>2
  <1>10. QED
    BY <1>5, <1>6, <1>9 DEF Family, t, s, c, a

(* The families of the children of some kinds of a node v, where up leads from
   a node to the child it is in. *)
ChildrenOf(v, kinds) == {c \in ToSet(Children[v]) : Kind[c] \in kinds}
Inside(up, C) == {u \in Tree : up[u] \in C}

Up4 == [u \in Tree |-> u]
U3  == [u \in Tree |-> Up3(u)]
U2  == [u \in Tree |-> Up2(u)]

(* Below the children of v, the owner of a node is in the same child. *)
Nested(up, v) ==
    \A u \in Tree : \A w \in Tree :
        /\ w = OwnerOf(u)
        /\ up[u] \in ToSet(Children[v])
        /\ up[w] \in ToSet(Children[v])
        => up[w] = up[u]

LEMMA ChildFamilies ==
    ASSUME NEW v \in Tree, NEW kinds, NEW up, Nested(up, v),
           NEW ss, DOMAIN ss = DOMAIN Children[v],
           \A i \in DOMAIN Children[v] :
              IF Kind[Children[v][i]] \in kinds
              THEN Family(ss[i], Inside(up, {Children[v][i]}))
              ELSE ss[i] = <<>>,
           ss = [i \in DOMAIN Children[v] |-> ss[i]]
    PROVE  Family(FlattenSeq(ss), Inside(up, ChildrenOf(v, kinds)))
  <1> DEFINE n == Len(Children[v])
             Us == [i \in 1 .. n |-> IF Kind[Children[v][i]] \in kinds
                                     THEN Inside(up, {Children[v][i]}) ELSE {}]
             W == Inside(up, ChildrenOf(v, kinds))
  <1>1. Children[v] \in Seq(Uuid) /\ n \in Nat /\ DOMAIN Children[v] = 1 .. n
    BY TreeNode, TreeAssumption
  <1>2. \A i \in 1 .. n : Family(ss[i], Us[i])
    <2> TAKE i \in 1 .. n
    <2>1. CASE Kind[Children[v][i]] \in kinds
      <3>1. Us[i] = Inside(up, {Children[v][i]})
        BY <2>1
      <3>2. QED
        BY <1>1, <2>1, <3>1
    <2>2. CASE Kind[Children[v][i]] \notin kinds
      <3>1. Us[i] = {}
        BY <2>2
      <3>2. QED
        BY <1>1, <2>2, <3>1, EmptyFamily
    <2>3. QED
      BY <2>1, <2>2
  <1>3. ss \in [1 .. n -> Seq(Steps)]
    <2>1. \A i \in 1 .. n : ss[i] \in Seq(Steps)
      BY <1>2 DEF Family, Line
    <2>2. QED
      BY <1>1, <2>1
  <1>4. ASSUME NEW i \in 1 .. n, NEW u
        PROVE  u \in Us[i] <=> u \in Tree /\ up[u] = Children[v][i] /\ Kind[Children[v][i]] \in kinds
    BY DEF Inside
  <1> HIDE DEF Us
  <1>5. \A i, j \in 1 .. n : i # j => Disjoint(Us[i], Us[j])
    <2> SUFFICES ASSUME NEW i \in 1 .. n, NEW j \in 1 .. n, NEW u \in Us[i], u \in Us[j]
                 PROVE  i = j
      BY DEF Disjoint
    <2>1. Children[v][i] = Children[v][j]
      BY <1>4
    <2>2. QED
      BY <1>1, <2>1, TreeAssumption
  <1>6. \A u : u \in W <=> \E i \in 1 .. n : u \in Us[i]
    <2>1. \A c : c \in ChildrenOf(v, kinds)
                    <=> \E i \in 1 .. n : c = Children[v][i] /\ Kind[Children[v][i]] \in kinds
      BY <1>1 DEF ChildrenOf, ToSet
    <2>2. \A u : u \in W <=> u \in Tree /\ up[u] \in ChildrenOf(v, kinds)
      BY DEF Inside
    <2> HIDE DEF W
    <2>3. QED
      BY <1>4, <2>1, <2>2
  <1>7. ASSUME NEW i \in 1 .. n, NEW u \in Us[i], OwnerOf(u) \in W
        PROVE  OwnerOf(u) \in Us[i]
    <2>1. u \in Tree /\ up[u] = Children[v][i] /\ Kind[Children[v][i]] \in kinds
      BY <1>4
    <2>2. OwnerOf(u) \in Tree /\ up[OwnerOf(u)] \in ToSet(Children[v])
      BY <1>7 DEF Inside, ChildrenOf
    <2>3. up[u] \in ToSet(Children[v])
      BY <1>1, <2>1 DEF ToSet
    <2>4. up[OwnerOf(u)] = up[u]
      BY <2>1, <2>2, <2>3 DEF Nested
    <2>5. QED
      BY <1>4, <2>1, <2>2, <2>4
  <1> HIDE DEF W, n
  <1>8. Family(FlattenSeq(ss), W)
    BY <1>1, <1>2, <1>3, <1>5, <1>6, <1>7, FamilyFlatten
  <1>9. QED
    BY <1>8 DEF W

LEMMA NestedUp ==
    ASSUME NEW v \in Tree
    PROVE  /\ Depth(v) = 3 => Nested(Up4, v)
           /\ Depth(v) = 2 => Nested(U3, v)
           /\ Depth(v) = 1 => Nested(U2, v)
  <1>0. ASSUME NEW u \in Tree, NEW w \in Tree, w = OwnerOf(u), u \in ToSet(Children[v])
        PROVE  w = v
    BY <1>0, ChildInTree
  <1>d. \A c \in ToSet(Children[v]) : Depth(c) = Depth(v) + 1
    BY ChildInTree
  <1>1. ASSUME Depth(v) = 3, NEW u \in Tree, NEW w \in Tree, w = OwnerOf(u),
               Up4[u] \in ToSet(Children[v]), Up4[w] \in ToSet(Children[v])
        PROVE  FALSE
    <2>1. w = v
      BY <1>0, <1>1 DEF Up4
    <2>2. QED
      BY <1>1, <1>d, <2>1 DEF Up4
  <1>2. ASSUME Depth(v) = 2, NEW u \in Tree, NEW w \in Tree, w = OwnerOf(u),
               Up3(u) \in ToSet(Children[v]), Up3(w) \in ToSet(Children[v])
        PROVE  Up3(w) = Up3(u)
    <2>1. CASE Depth(u) = 4
      <3>1. Up3(u) = w
        BY <1>2, <2>1 DEF Up3
      <3>2. Depth(w) = 3
        BY <1>2, <1>d, <3>1
      <3>3. QED
        BY <3>1, <3>2 DEF Up3
    <2>2. CASE Depth(u) # 4
      <3>1. Up3(u) = u
        BY <2>2 DEF Up3
      <3>2. w = v
        BY <1>0, <1>2, <3>1
      <3>3. Up3(w) = v
        BY <1>2, <3>2 DEF Up3
      <3>4. QED
        BY <1>2, <1>d, <3>3
    <2>3. QED
      BY <2>1, <2>2
  <1>3. ASSUME Depth(v) = 1, NEW u \in Tree, NEW w \in Tree, w = OwnerOf(u),
               Up2(u) \in ToSet(Children[v]), Up2(w) \in ToSet(Children[v])
        PROVE  Up2(w) = Up2(u)
    <2>0. Depth(u) \in 0 .. 4
      BY TreeNode
    <2>1. CASE Depth(u) = 4
      <3>1. Up3(u) = w /\ u # Root
        BY <1>3, <2>1, TreeNode DEF Up3
      <3>2. Depth(w) = 3
        BY <1>3, <2>1, <3>1, OwnerInTree
      <3>3. Up3(w) = w
        BY <3>2 DEF Up3
      <3>4. QED
        BY <3>1, <3>3 DEF Up2
    <2>2. CASE Depth(u) = 3
      <3>1. Up3(u) = u /\ Up2(u) = w /\ u # Root
        BY <1>3, <2>2, TreeNode DEF Up3, Up2
      <3>2. Depth(w) = 2
        BY <1>3, <2>2, <3>1, OwnerInTree
      <3>3. Up3(w) = w
        BY <3>2 DEF Up3
      <3>4. Up2(w) = w
        BY <3>2, <3>3 DEF Up2
      <3>5. QED
        BY <3>1, <3>4
    <2>3. CASE Depth(u) \in 0 .. 2
      <3>1. Up3(u) = u
        BY <2>3 DEF Up3
      <3>2. Up2(u) = u
        BY <2>3, <3>1 DEF Up2
      <3>3. w = v
        BY <1>0, <1>3, <3>2
      <3>4. Up3(w) = v
        BY <1>3, <3>3 DEF Up3
      <3>5. Up2(w) = v
        BY <1>3, <3>4 DEF Up2
      <3>6. QED
        BY <1>3, <1>d, <3>5
    <2>4. QED
      BY <2>0, <2>1, <2>2, <2>3
  <1>4. QED
    BY <1>1, <1>2, <1>3 DEF Nested, U3, U2

(* A node without contents. *)
LEMMA LeafFamily ==
    ASSUME NEW u \in Uuid, Kind[u] # "Symbol"
    PROVE  Family(Leaf(u), {u})
  <1>1. Family(<<Step("create", u)>> \o <<>> \o <<Step("attach", u)>>, {} \cup {u})
    BY EmptyFamily, FamilyWrap
  <1>2. <<Step("create", u)>> \o <<>> \o <<Step("attach", u)>> = Leaf(u)
    <2>1. ASSUME NEW x, NEW y
          PROVE  <<x>> \o <<>> \o <<y>> = <<x, y>>
      <3>1. <<x>> \in Seq({x, y}) /\ <<y>> \in Seq({x, y}) /\ <<>> \in Seq({x, y})
        OBVIOUS
      <3>2. <<x>> \o <<>> = <<x>>
        OBVIOUS
      <3>3. <<x>> \o <<y>> = <<x, y>>
        <4> DEFINE a == <<x>> \o <<y>>
                   b == <<x, y>>
        <4>1. a \in Seq({x, y}) /\ Len(a) = 2 /\ a[1] = x /\ a[2] = y
          BY <3>1
        <4>2. b \in Seq({x, y}) /\ Len(b) = 2 /\ b[1] = x /\ b[2] = y
          OBVIOUS
        <4> HIDE DEF a, b
        <4>3. a \in [1 .. 2 -> {x, y}] /\ b \in [1 .. 2 -> {x, y}]
          BY <4>1, <4>2
        <4>4. a = b
          BY <4>1, <4>2, <4>3
        <4>5. QED
          BY <4>4 DEF a, b
      <3>4. QED
        BY <3>2, <3>3
    <2>2. QED
      BY <2>1 DEF Leaf
  <1>3. {} \cup {u} = {u}
    OBVIOUS
  <1>4. QED
    BY <1>1, <1>2, <1>3

LEMMA SymbolFamily ==
    ASSUME NEW y \in Uuid, Kind[y] = "Symbol"
    PROVE  Family(SymbolSteps(y), {y})
  <1> DEFINE c == Step("create", y)
             r == Step("referent", y)
             a == Step("attach", y)
  <1>1. c \in Steps /\ r \in Steps /\ a \in Steps
    BY DEF Step, Steps
  <1>2. c # r /\ c # a /\ r # a
    <2>1. c.do = "create" /\ r.do = "referent" /\ a.do = "attach"
      BY StepFields
    <2> HIDE DEF c, r, a
    <2>2. QED
      BY <2>1
  <1>3. OwnSteps(y) = {c, a, r}
    BY DEF OwnSteps
  <1>4. SymbolSteps(y) = <<c, r, a>>
    BY DEF SymbolSteps
  <1> DEFINE q == <<c, r, a>>
  <1> HIDE DEF c, r, a
  <1>5. /\ q \in Seq(Steps) /\ Len(q) = 3 /\ DOMAIN q = 1 .. 3
        /\ q[1] = c /\ q[2] = r /\ q[3] = a
    BY <1>1
  <1> HIDE DEF q
  <1>6. IsInjective(q)
    BY <1>2, <1>5 DEF IsInjective
  <1>7. \A x : x \in ToSet(q) <=> x \in {c, a, r}
    <2> TAKE x
    <2>1. x \in ToSet(q) <=> \E i \in 1 .. 3 : q[i] = x
      BY <1>5, ElementsByIndex
    <2>2. QED
      BY <1>5, <2>1
  <1>8. Before(q, c, a) /\ Before(q, c, r)
    <2>1. 1 \in 1 .. Len(q) /\ 2 \in 1 .. Len(q) /\ 3 \in 1 .. Len(q) /\ 1 < 2 /\ 1 < 3
      BY <1>5
    <2>2. QED
      BY <1>5, <2>1 DEF Before
  <1>9. ToSet(q) = FamilySteps({y})
    <2>1. \A x : x \in FamilySteps({y}) <=> x \in {c, a, r}
      BY <1>3, FamilyStep
    <2>2. QED
      BY <1>7, <2>1
  <1>10. QED
    BY <1>4, <1>5, <1>6, <1>8, <1>9 DEF Family, Line, q, c, r, a

(* Children of a node by their kinds. *)
LEMMA ChildAt ==
    ASSUME NEW v \in Tree, NEW i \in DOMAIN Children[v]
    PROVE  /\ Children[v][i] \in ToSet(Children[v])
           /\ Children[v][i] \in Tree /\ Children[v][i] \in Uuid
           /\ Depth(Children[v][i]) = Depth(v) + 1
           /\ Kind[Children[v][i]] \in Nestable(Kind[v])
  <1>1. Children[v][i] \in ToSet(Children[v])
    BY DEF ToSet
  <1>2. QED
    BY <1>1, ChildInTree, TreeNode

LEMMA NoChildren ==
    ASSUME NEW v \in Tree, Kind[v] \in {"Symbol", "ProxyBlock", "CodeBlock", "DataBlock"}
    PROVE  ToSet(Children[v]) = {}
  BY ChildInTree DEF Nestable

(* The functions EachOf concatenates. *)
LEMMA EachOfIntervals ==
    ASSUME NEW bi \in Tree, Kind[bi] = "ByteInterval"
    PROVE  Family(EachOf(bi, {"CodeBlock", "DataBlock"}, Leaf), ToSet(Children[bi]))
  <1> DEFINE kinds == {"CodeBlock", "DataBlock"}
             ss == [i \in DOMAIN Children[bi] |->
                      IF Kind[Children[bi][i]] \in kinds THEN Leaf(Children[bi][i]) ELSE <<>>]
  <1>1. Depth(bi) = 3 /\ Nested(Up4, bi)
    BY NestedUp DEF Depth
  <1>2. ASSUME NEW i \in DOMAIN Children[bi]
        PROVE  IF Kind[Children[bi][i]] \in kinds
               THEN Family(ss[i], Inside(Up4, {Children[bi][i]}))
               ELSE ss[i] = <<>>
    <2>1. Children[bi][i] \in Tree /\ Children[bi][i] \in Uuid
      BY ChildAt
    <2>2. Inside(Up4, {Children[bi][i]}) = {Children[bi][i]}
      BY <2>1 DEF Inside, Up4
    <2>3. Kind[Children[bi][i]] \in kinds => Family(Leaf(Children[bi][i]), {Children[bi][i]})
      BY <2>1, LeafFamily
    <2>4. QED
      BY <2>2, <2>3
  <1>3. DOMAIN ss = DOMAIN Children[bi] /\ ss = [i \in DOMAIN Children[bi] |-> ss[i]]
    OBVIOUS
  <1>4. Inside(Up4, ChildrenOf(bi, kinds)) = ToSet(Children[bi])
    <2>1. \A c \in ToSet(Children[bi]) : c \in Tree /\ Kind[c] \in kinds
      BY ChildInTree DEF Nestable
    <2>2. QED
      BY <2>1 DEF Inside, Up4, ChildrenOf
  <1>5. EachOf(bi, kinds, Leaf) = FlattenSeq(ss)
    BY DEF EachOf
  <1> HIDE DEF ss, kinds
  <1>6. Family(FlattenSeq(ss), Inside(Up4, ChildrenOf(bi, kinds)))
    BY <1>1, <1>2, <1>3, ChildFamilies
  <1>7. QED
    BY <1>4, <1>5, <1>6 DEF kinds

LEMMA IntervalFamily ==
    ASSUME NEW bi \in Tree, Kind[bi] = "ByteInterval"
    PROVE  Family(IntervalSteps(bi), Inside(U3, {bi}))
  <1>1. Depth(bi) = 3 /\ bi \in Uuid
    BY TreeNode DEF Depth
  <1>2. bi \notin ToSet(Children[bi])
    BY <1>1, ChildInTree
  <1>3. Family(IntervalSteps(bi), ToSet(Children[bi]) \cup {bi})
    BY <1>1, <1>2, EachOfIntervals, FamilyWrap DEF IntervalSteps
  <1>4. \A u \in Tree : U3[u] = bi <=> u = bi \/ u \in ToSet(Children[bi])
    BY <1>1, InInterval DEF U3
  <1>5. \A u \in ToSet(Children[bi]) : u \in Tree
    BY ChildInTree
  <1>6. Inside(U3, {bi}) = ToSet(Children[bi]) \cup {bi}
    BY <1>4, <1>5 DEF Inside
  <1>7. QED
    BY <1>3, <1>6

LEMMA EachOfSections ==
    ASSUME NEW s \in Tree, Kind[s] = "Section"
    PROVE  Family(EachOf(s, {"ByteInterval"}, IntervalSteps), Inside(U3, ToSet(Children[s])))
  <1> DEFINE kinds == {"ByteInterval"}
             ss == [i \in DOMAIN Children[s] |->
                      IF Kind[Children[s][i]] \in kinds THEN IntervalSteps(Children[s][i]) ELSE <<>>]
  <1>1. Depth(s) = 2 /\ Nested(U3, s)
    BY NestedUp DEF Depth
  <1>2. ASSUME NEW i \in DOMAIN Children[s]
        PROVE  IF Kind[Children[s][i]] \in kinds
               THEN Family(ss[i], Inside(U3, {Children[s][i]}))
               ELSE ss[i] = <<>>
    BY ChildAt, IntervalFamily
  <1>3. DOMAIN ss = DOMAIN Children[s] /\ ss = [i \in DOMAIN Children[s] |-> ss[i]]
    OBVIOUS
  <1>4. ChildrenOf(s, kinds) = ToSet(Children[s])
    <2>1. \A c \in ToSet(Children[s]) : Kind[c] \in kinds
      BY ChildInTree DEF Nestable
    <2>2. QED
      BY <2>1 DEF ChildrenOf
  <1>5. EachOf(s, kinds, IntervalSteps) = FlattenSeq(ss)
    BY DEF EachOf
  <1> HIDE DEF ss, kinds
  <1>6. Family(FlattenSeq(ss), Inside(U3, ChildrenOf(s, kinds)))
    BY <1>1, <1>2, <1>3, ChildFamilies
  <1>7. QED
    BY <1>4, <1>5, <1>6 DEF kinds

LEMMA SectionFamily ==
    ASSUME NEW s \in Tree, Kind[s] = "Section"
    PROVE  Family(SectionSteps(s), Inside(U2, {s}))
  <1>1. Depth(s) = 2 /\ s \in Uuid
    BY TreeNode DEF Depth
  <1>2. s \notin Inside(U3, ToSet(Children[s]))
    <2>1. Up3(s) = s
      BY <1>1 DEF Up3
    <2>2. s \notin ToSet(Children[s])
      BY <1>1, ChildInTree
    <2>3. QED
      BY <2>1, <2>2 DEF Inside, U3
  <1>3. Family(SectionSteps(s), Inside(U3, ToSet(Children[s])) \cup {s})
    BY <1>1, <1>2, EachOfSections, FamilyWrap DEF SectionSteps
  <1>4. \A u \in Tree : U2[u] = s <=> u = s \/ U3[u] \in ToSet(Children[s])
    BY <1>1, InSection DEF U2, U3
  <1>5. Inside(U2, {s}) = Inside(U3, ToSet(Children[s])) \cup {s}
    BY <1>4 DEF Inside
  <1>6. QED
    BY <1>3, <1>5

(* The three parts of a module. *)
LEMMA LeafInside ==
    ASSUME NEW v \in Tree, Kind[v] \in {"Symbol", "ProxyBlock"}
    PROVE  Inside(U2, {v}) = {v}
  <1>1. Depth(v) = 2
    BY DEF Depth
  <1>2. \A u \in Tree : U2[u] = v <=> u = v
    BY <1>1, InSection, NoChildren DEF U2
  <1>3. QED
    BY <1>2 DEF Inside

LEMMA ModuleParts ==
    ASSUME NEW m \in Tree, Kind[m] = "Module"
    PROVE  /\ Family(EachOf(m, {"ProxyBlock"}, Leaf), Inside(U2, ChildrenOf(m, {"ProxyBlock"})))
           /\ Family(EachOf(m, {"Section"}, SectionSteps), Inside(U2, ChildrenOf(m, {"Section"})))
           /\ Family(EachOf(m, {"Symbol"}, SymbolSteps), Inside(U2, ChildrenOf(m, {"Symbol"})))
  <1> DEFINE C == Children[m]
             ps == [i \in DOMAIN C |-> IF Kind[C[i]] \in {"ProxyBlock"} THEN Leaf(C[i]) ELSE <<>>]
             ts == [i \in DOMAIN C |-> IF Kind[C[i]] \in {"Section"} THEN SectionSteps(C[i]) ELSE <<>>]
             ys == [i \in DOMAIN C |-> IF Kind[C[i]] \in {"Symbol"} THEN SymbolSteps(C[i]) ELSE <<>>]
  <1>1. Depth(m) = 1 /\ Nested(U2, m)
    BY NestedUp DEF Depth
  <1>2. ASSUME NEW i \in DOMAIN C
        PROVE  /\ C[i] \in Tree /\ C[i] \in Uuid
               /\ Kind[C[i]] \in {"ProxyBlock"} => Family(Leaf(C[i]), Inside(U2, {C[i]}))
               /\ Kind[C[i]] \in {"Section"} => Family(SectionSteps(C[i]), Inside(U2, {C[i]}))
               /\ Kind[C[i]] \in {"Symbol"} => Family(SymbolSteps(C[i]), Inside(U2, {C[i]}))
    <2>1. C[i] \in Tree /\ C[i] \in Uuid
      BY ChildAt
    <2>2. ASSUME Kind[C[i]] = "ProxyBlock"
          PROVE  Family(Leaf(C[i]), Inside(U2, {C[i]}))
      <3>1. Inside(U2, {C[i]}) = {C[i]} /\ Kind[C[i]] # "Symbol"
        BY <2>1, <2>2, LeafInside
      <3>2. QED
        BY <2>1, <3>1, LeafFamily
    <2>3. ASSUME Kind[C[i]] = "Symbol"
          PROVE  Family(SymbolSteps(C[i]), Inside(U2, {C[i]}))
      <3>1. Inside(U2, {C[i]}) = {C[i]}
        BY <2>1, <2>3, LeafInside
      <3>2. QED
        BY <2>1, <2>3, <3>1, SymbolFamily
    <2>4. QED
      BY <2>1, <2>2, <2>3, SectionFamily
  <1>3. Family(FlattenSeq(ps), Inside(U2, ChildrenOf(m, {"ProxyBlock"})))
    <2>1. DOMAIN ps = DOMAIN C /\ ps = [i \in DOMAIN C |-> ps[i]]
      OBVIOUS
    <2>2. \A i \in DOMAIN C : IF Kind[C[i]] \in {"ProxyBlock"}
                              THEN Family(ps[i], Inside(U2, {C[i]})) ELSE ps[i] = <<>>
      BY <1>2
    <2> HIDE DEF ps
    <2>3. QED
      BY <1>1, <2>1, <2>2, ChildFamilies
  <1>4. Family(FlattenSeq(ts), Inside(U2, ChildrenOf(m, {"Section"})))
    <2>1. DOMAIN ts = DOMAIN C /\ ts = [i \in DOMAIN C |-> ts[i]]
      OBVIOUS
    <2>2. \A i \in DOMAIN C : IF Kind[C[i]] \in {"Section"}
                              THEN Family(ts[i], Inside(U2, {C[i]})) ELSE ts[i] = <<>>
      BY <1>2
    <2> HIDE DEF ts
    <2>3. QED
      BY <1>1, <2>1, <2>2, ChildFamilies
  <1>5. Family(FlattenSeq(ys), Inside(U2, ChildrenOf(m, {"Symbol"})))
    <2>1. DOMAIN ys = DOMAIN C /\ ys = [i \in DOMAIN C |-> ys[i]]
      OBVIOUS
    <2>2. \A i \in DOMAIN C : IF Kind[C[i]] \in {"Symbol"}
                              THEN Family(ys[i], Inside(U2, {C[i]})) ELSE ys[i] = <<>>
      BY <1>2
    <2> HIDE DEF ys
    <2>3. QED
      BY <1>1, <2>1, <2>2, ChildFamilies
  <1>6. QED
    BY <1>3, <1>4, <1>5 DEF EachOf

(* The symbolic expressions of a module. *)
ExpressionSteps(B) == {Step("symbolicExpressions", b) : b \in B}

LEMMA SectionExpressions ==
    ASSUME NEW s \in Tree, Kind[s] = "Section"
    PROVE  /\ Line(Steps, SymbolicExpressionSteps(s))
           /\ ToSet(SymbolicExpressionSteps(s)) = ExpressionSteps(ToSet(Children[s]))
  <1> DEFINE C == Children[s]
             n == Len(C)
             ss == [i \in DOMAIN C |->
                      IF Kind[C[i]] \in {"ByteInterval"} THEN SymbolicExpressionStep(C[i]) ELSE <<>>]
             x(i) == Step("symbolicExpressions", C[i])
  <1>1. C \in Seq(Uuid) /\ n \in Nat /\ DOMAIN C = 1 .. n
    BY TreeNode, TreeAssumption
  <1>2. \A i \in 1 .. n : Kind[C[i]] = "ByteInterval" /\ C[i] \in Uuid
    BY <1>1, ChildAt DEF Nestable
  <1>3. \A i \in 1 .. n : x(i) \in Steps
    BY <1>2 DEF Step, Steps
  <1>4. \A i \in 1 .. n : ss[i] = <<x(i)>>
    BY <1>1, <1>2 DEF SymbolicExpressionStep
  <1>5. \A i, j \in 1 .. n : x(i) = x(j) => i = j
    <2> SUFFICES ASSUME NEW i \in 1 .. n, NEW j \in 1 .. n, x(i) = x(j)
                 PROVE  i = j
      OBVIOUS
    <2>1. C[i] = C[j]
      BY StepFields
    <2>2. QED
      BY <1>1, <2>1, TreeAssumption
  <1>6. SymbolicExpressionSteps(s) = FlattenSeq(ss)
    BY DEF SymbolicExpressionSteps, EachOf
  <1>7. ss = [i \in 1 .. n |-> ss[i]]
    BY <1>1
  <1> HIDE DEF ss, x
  <1>8. \A i \in 1 .. n : /\ ss[i] \in Seq(Steps) /\ IsInjective(ss[i])
                          /\ \A y : y \in ToSet(ss[i]) <=> y = x(i)
    BY <1>3, <1>4, OneElement
  <1>9. ss \in [1 .. n -> Seq(Steps)]
    BY <1>7, <1>8
  <1>10. \A i, j \in 1 .. n : i # j => Disjoint(ToSet(ss[i]), ToSet(ss[j]))
    BY <1>5, <1>8 DEF Disjoint
  <1>11. Consists(Steps, FlattenSeq(ss), ss, n)
    BY <1>1, <1>8, <1>9, <1>10, FlattenConsists
  <1>12. \A y : y \in ToSet(FlattenSeq(ss)) <=> \E i \in 1 .. n : y = x(i)
    BY <1>8, <1>11 DEF Consists
  <1>13. \A y : y \in ExpressionSteps(ToSet(C)) <=> \E i \in 1 .. n : y = x(i)
    BY <1>1 DEF ExpressionSteps, ToSet, x
  <1>14. ToSet(FlattenSeq(ss)) = ExpressionSteps(ToSet(C))
    BY <1>12, <1>13
  <1>15. QED
    BY <1>6, <1>11, <1>14 DEF Consists

(* The byte intervals of a module. *)
IntervalsOf(m) == UNION {ToSet(Children[s]) : s \in ChildrenOf(m, {"Section"})}

LEMMA ModuleExpressions ==
    ASSUME NEW m \in Tree, Kind[m] = "Module"
    PROVE  LET q == EachOf(m, {"Section"}, SymbolicExpressionSteps)
           IN  Line(Steps, q) /\ ToSet(q) = ExpressionSteps(IntervalsOf(m))
  <1> DEFINE C == Children[m]
             n == Len(C)
             ss == [i \in DOMAIN C |->
                      IF Kind[C[i]] \in {"Section"} THEN SymbolicExpressionSteps(C[i]) ELSE <<>>]
             B == [i \in 1 .. n |-> IF Kind[C[i]] = "Section" THEN ToSet(Children[C[i]]) ELSE {}]
  <1>1. C \in Seq(Uuid) /\ n \in Nat /\ DOMAIN C = 1 .. n
    BY TreeNode, TreeAssumption
  <1>2. \A i \in 1 .. n : Line(Steps, ss[i]) /\ ToSet(ss[i]) = ExpressionSteps(B[i])
    <2> TAKE i \in 1 .. n
    <2>1. C[i] \in Tree
      BY <1>1, ChildAt
    <2>2. CASE Kind[C[i]] = "Section"
      <3>1. ss[i] = SymbolicExpressionSteps(C[i]) /\ B[i] = ToSet(Children[C[i]])
        BY <1>1, <2>2
      <3> HIDE DEF ss, B
      <3>2. QED
        BY <2>1, <2>2, <3>1, SectionExpressions
    <2>3. CASE Kind[C[i]] # "Section"
      <3>1. ss[i] = <<>> /\ B[i] = {}
        BY <1>1, <2>3
      <3>2. ExpressionSteps({}) = {}
        BY DEF ExpressionSteps
      <3> HIDE DEF ss, B
      <3>3. QED
        BY <3>1, <3>2, EmptyLine
    <2>4. QED
      BY <2>2, <2>3
  <1>3. EachOf(m, {"Section"}, SymbolicExpressionSteps) = FlattenSeq(ss)
    BY DEF EachOf
  <1>4. ss = [i \in 1 .. n |-> ss[i]]
    BY <1>1
  <1>5. \A i, j \in 1 .. n : i # j => Disjoint(ToSet(ss[i]), ToSet(ss[j]))
    <2> SUFFICES ASSUME NEW i \in 1 .. n, NEW j \in 1 .. n,
                        NEW y \in ToSet(ss[i]), y \in ToSet(ss[j])
                 PROVE  i = j
      BY DEF Disjoint
    <2>1. PICK b \in B[i] : y = Step("symbolicExpressions", b)
      <3>1. y \in ExpressionSteps(B[i])
        <4> HIDE DEF ss, B
        <4> QED
          BY <1>2
      <3> HIDE DEF ss, B
      <3>2. QED
        BY <3>1 DEF ExpressionSteps
    <2>2. PICK d \in B[j] : y = Step("symbolicExpressions", d)
      <3>1. y \in ExpressionSteps(B[j])
        <4> HIDE DEF ss, B
        <4> QED
          BY <1>2
      <3> HIDE DEF ss, B
      <3>2. QED
        BY <3>1 DEF ExpressionSteps
    <2>3. b = d
      BY <2>1, <2>2, StepFields
    <2>4. b \in ToSet(Children[C[i]]) /\ b \in ToSet(Children[C[j]])
      BY <2>3
    <2>5. C[i] \in Tree /\ C[j] \in Tree
      BY <1>1, ChildAt
    <2>6. C[i] = C[j]
      BY <2>4, <2>5, OneOwner
    <2>7. QED
      BY <1>1, <2>6, TreeAssumption
  <1>6. \A b : b \in IntervalsOf(m) <=> \E i \in 1 .. n : b \in B[i]
    <2>1. \A c : c \in ChildrenOf(m, {"Section"}) <=> \E i \in 1 .. n : c = C[i] /\ Kind[C[i]] = "Section"
      BY <1>1 DEF ChildrenOf, ToSet
    <2>2. \A i \in 1 .. n : \A b : b \in B[i] <=> Kind[C[i]] = "Section" /\ b \in ToSet(Children[C[i]])
      OBVIOUS
    <2> HIDE DEF B, n, C
    <2>3. \A b : b \in IntervalsOf(m) <=> \E c \in ChildrenOf(m, {"Section"}) : b \in ToSet(Children[c])
      BY DEF IntervalsOf
    <2>4. QED
      BY <2>1, <2>2, <2>3
  <1> HIDE DEF ss, B
  <1>7. ss \in [1 .. n -> Seq(Steps)] /\ \A i \in 1 .. n : IsInjective(ss[i])
    BY <1>2, <1>4 DEF Line
  <1>8. Consists(Steps, FlattenSeq(ss), ss, n)
    BY <1>1, <1>5, <1>7, FlattenConsists
  <1>9. \A y : y \in ToSet(FlattenSeq(ss)) <=> \E i \in 1 .. n : y \in ExpressionSteps(B[i])
    BY <1>2, <1>8 DEF Consists
  <1>10. ToSet(FlattenSeq(ss)) = ExpressionSteps(IntervalsOf(m))
    BY <1>6, <1>9 DEF ExpressionSteps
  <1>11. QED
    BY <1>3, <1>8, <1>10 DEF Consists

-----------------------------------------------------------------------------

(* The steps of a module.  Besides the steps above, byte intervals and modules,
   as symbols, have one that looks up their references. *)

U1 == [u \in Tree |-> Up1(u)]

HasRef(u) == Kind[u] \in {"Symbol", "ByteInterval", "Module"}

RefStep(u) ==
    Step(CASE Kind[u] = "Symbol"       -> "referent"
           [] Kind[u] = "ByteInterval" -> "symbolicExpressions"
           [] OTHER                    -> "entryPoint", u)

AllSteps(u) == OwnSteps(u) \cup (IF HasRef(u) THEN {RefStep(u)} ELSE {})

NodeSteps(U) == UNION {AllSteps(u) : u \in U}

LEMMA NodeStep ==
    ASSUME NEW U, NEW x
    PROVE  x \in NodeSteps(U) <=> \E u \in U : x \in AllSteps(u)
  BY DEF NodeSteps

LEMMA AllStepsWhat ==
    ASSUME NEW u, NEW x \in AllSteps(u)
    PROVE  x.what = u
  <1>1. RefStep(u).what = u
    BY StepFields DEF RefStep
  <1>2. QED
    BY <1>1, OwnStepsWhat DEF AllSteps

(* The steps for the nodes U are done in an order that creates nodes before they
   are needed. *)
Sequel(q, U) ==
    /\ Line(Steps, q)
    /\ ToSet(q) = NodeSteps(U)
    /\ \A u \in U : Before(q, Step("create", u), Step("attach", u))
    /\ \A u \in U : HasRef(u) => Before(q, Step("create", u), RefStep(u))
    /\ \A u \in U : OwnerOf(u) \in U => Before(q, Step("create", OwnerOf(u)), Step("attach", u))
    /\ \A u, r \in U : Kind[r] \in Nameable(Kind[u]) => Before(q, Step("create", r), RefStep(u))

LEMMA SameSection ==
    ASSUME NEW u \in Tree, Depth(u) \in {3, 4}
    PROVE  OwnerOf(u) \in Tree /\ Up2(OwnerOf(u)) = Up2(u)
  <1> DEFINE w == OwnerOf(u)
  <1>0. u # Root
    BY TreeNode
  <1>1. w \in Tree /\ Depth(u) = Depth(w) + 1 /\ Depth(w) \in Nat
    BY <1>0, OwnerInTree
  <1>2. CASE Depth(u) = 4
    <2>1. Up3(u) = w
      BY <1>2 DEF Up3
    <2>2. Depth(w) = 3
      BY <1>1, <1>2
    <2>3. Up3(w) = w
      BY <2>2 DEF Up3
    <2>4. QED
      BY <1>1, <2>1, <2>3 DEF Up2
  <1>3. CASE Depth(u) = 3
    <2>1. Up3(u) = u
      BY <1>3 DEF Up3
    <2>2. Up2(u) = w /\ Depth(w) = 2
      BY <1>1, <1>3, <2>1 DEF Up2
    <2>3. Up3(w) = w
      BY <2>2 DEF Up3
    <2>4. Up2(w) = w
      BY <2>2, <2>3 DEF Up2
    <2>5. QED
      BY <1>1, <2>2, <2>4
  <1>4. QED
    BY <1>2, <1>3

(* Where the nodes of a module are. *)
PartOf(m, kind) == Inside(U2, ChildrenOf(m, {kind}))

LEMMA ModulePartition ==
    ASSUME NEW m \in Tree, Kind[m] = "Module"
    PROVE  /\ \A u : u \in Inside(U1, {m}) <=>
                 u = m \/ u \in PartOf(m, "ProxyBlock") \/ u \in PartOf(m, "Section")
                       \/ u \in PartOf(m, "Symbol")
           /\ m \notin PartOf(m, "ProxyBlock") /\ m \notin PartOf(m, "Section")
           /\ m \notin PartOf(m, "Symbol")
           /\ Disjoint(PartOf(m, "ProxyBlock"), PartOf(m, "Section"))
           /\ Disjoint(PartOf(m, "ProxyBlock"), PartOf(m, "Symbol"))
           /\ Disjoint(PartOf(m, "Section"), PartOf(m, "Symbol"))
  <1>1. Depth(m) = 1
    BY DEF Depth
  <1>2. \A c \in ToSet(Children[m]) :
           c \in Tree /\ Depth(c) = 2 /\ Kind[c] \in {"ProxyBlock", "Section", "Symbol"}
    BY <1>1, ChildInTree DEF Nestable
  <1>3. ASSUME NEW u \in Tree
        PROVE  U1[u] = m <=> u = m \/ U2[u] \in ToSet(Children[m])
    BY <1>1, InModule DEF U1, U2
  <1>4. ASSUME NEW u, NEW k
        PROVE  u \in PartOf(m, k) <=> u \in Tree /\ U2[u] \in ToSet(Children[m]) /\ Kind[U2[u]] = k
    BY DEF PartOf, Inside, ChildrenOf
  <1>5. U2[m] = m
    BY <1>1 DEF U2, Up2, Up3
  <1>6. m \notin ToSet(Children[m])
    BY <1>1, <1>2
  <1>7. \A u : u \in Inside(U1, {m}) <=> u \in Tree /\ U1[u] = m
    BY DEF Inside
  <1>8. QED
    BY <1>2, <1>3, <1>4, <1>5, <1>6, <1>7 DEF Disjoint

(* Kinds tell the parts of a module apart. *)
LEMMA PartKinds ==
    ASSUME NEW m \in Tree, Kind[m] = "Module", NEW u \in Inside(U1, {m})
    PROVE  /\ u \in Tree
           /\ Kind[u] = "Module" => u = m
           /\ Kind[u] = "Symbol" => u \in PartOf(m, "Symbol")
           /\ u \in PartOf(m, "Symbol") => Kind[u] = "Symbol"
           /\ u \in PartOf(m, "ProxyBlock") => Kind[u] = "ProxyBlock"
           /\ u \in PartOf(m, "Section") => Kind[u] \in {"Section", "ByteInterval", "CodeBlock", "DataBlock"}
           /\ Kind[u] = "ByteInterval" <=> u \in IntervalsOf(m)
  <1>0. u \in Tree /\ U1[u] = m /\ Depth(m) = 1 /\ m \in Uuid
    BY TreeNode DEF Inside, Depth
  <1>1. ASSUME NEW w, NEW k
        PROVE  w \in PartOf(m, k) <=> w \in Tree /\ Up2(w) \in ToSet(Children[m]) /\ Kind[Up2(w)] = k
    BY DEF PartOf, Inside, ChildrenOf, U2
  <1>2. \A c \in ToSet(Children[m]) :
           c \in Tree /\ Depth(c) = 2 /\ Kind[c] \in {"ProxyBlock", "Section", "Symbol"}
    BY <1>0, ChildInTree DEF Nestable
  <1>3. Depth(u) = 2 => Up2(u) = u
    BY DEF Up2, Up3
  <1>4. u = m \/ Up2(u) \in ToSet(Children[m])
    BY <1>0, InModule DEF U1
  <1>5. Kind[u] = "Module" => u = m
    <2> SUFFICES ASSUME Kind[u] = "Module", u # m
                 PROVE  FALSE
      OBVIOUS
    <2>1. Depth(u) = 1
      BY DEF Depth
    <2>2. Up2(u) = u
      BY <2>1 DEF Up2, Up3
    <2>3. QED
      BY <1>2, <1>4, <2>1, <2>2
  <1>6. Kind[u] = "Symbol" => u \in PartOf(m, "Symbol")
    <2> SUFFICES ASSUME Kind[u] = "Symbol"
                 PROVE  u \in PartOf(m, "Symbol")
      OBVIOUS
    <2>1. Depth(u) = 2 /\ u # m
      BY DEF Depth
    <2>2. QED
      BY <1>0, <1>1, <1>3, <1>4, <2>1
  <1>7. ASSUME NEW k \in {"Symbol", "ProxyBlock"}, u \in PartOf(m, k)
        PROVE  Kind[u] = k
    <2>1. Up2(u) \in Tree /\ Kind[Up2(u)] = k /\ Depth(Up2(u)) = 2
      BY <1>1, <1>2, <1>7
    <2>2. Inside(U2, {Up2(u)}) = {Up2(u)}
      BY <2>1, LeafInside
    <2>3. u \in Inside(U2, {Up2(u)})
      BY <1>0 DEF Inside, U2
    <2>4. QED
      BY <2>1, <2>2, <2>3
  <1>8. ASSUME u \in PartOf(m, "Section")
        PROVE  Kind[u] \in {"Section", "ByteInterval", "CodeBlock", "DataBlock"}
    <2>1. Up2(u) \in Tree /\ Kind[Up2(u)] = "Section" /\ Depth(Up2(u)) = 2
      BY <1>1, <1>2, <1>8
    <2>2. u = Up2(u) \/ Up3(u) \in ToSet(Children[Up2(u)])
      BY <1>0, <2>1, InSection
    <2>3. ASSUME Up3(u) \in ToSet(Children[Up2(u)])
          PROVE  Kind[u] \in {"ByteInterval", "CodeBlock", "DataBlock"}
      <3>1. Up3(u) \in Tree /\ Kind[Up3(u)] = "ByteInterval"
        BY <2>1, <2>3, ChildInTree DEF Nestable
      <3>2. Depth(Up3(u)) = 3
        BY <3>1 DEF Depth
      <3>3. u = Up3(u) \/ u \in ToSet(Children[Up3(u)])
        BY <1>0, <3>1, <3>2, InInterval
      <3>4. QED
        BY <3>1, <3>3, ChildInTree DEF Nestable
    <2>4. QED
      BY <2>1, <2>2, <2>3
  <1>9. Kind[u] = "ByteInterval" => u \in IntervalsOf(m)
    <2> SUFFICES ASSUME Kind[u] = "ByteInterval"
                 PROVE  u \in IntervalsOf(m)
      OBVIOUS
    <2>1. Depth(u) = 3 /\ u # m /\ u # Root
      BY RootInTree DEF Depth
    <2>2. Up3(u) = u
      BY <2>1 DEF Up3
    <2>3. Up2(u) = OwnerOf(u)
      BY <2>1, <2>2 DEF Up2
    <2>4. OwnerOf(u) \in ToSet(Children[m]) /\ u \in ToSet(Children[OwnerOf(u)])
      BY <1>0, <1>4, <2>1, <2>3, OwnerInTree
    <2>5. Kind[u] \in Nestable(Kind[OwnerOf(u)])
      BY <1>0, <2>1, OwnerInTree
    <2>6. Kind[OwnerOf(u)] = "Section"
      BY <1>2, <2>4, <2>5 DEF Nestable
    <2>7. QED
      BY <2>4, <2>6 DEF IntervalsOf, ChildrenOf
  <1>10. u \in IntervalsOf(m) => Kind[u] = "ByteInterval"
    <2> SUFFICES ASSUME NEW s \in ToSet(Children[m]), Kind[s] = "Section", u \in ToSet(Children[s])
                 PROVE  Kind[u] = "ByteInterval"
      BY DEF IntervalsOf, ChildrenOf
    <2>1. s \in Tree
      BY <1>2
    <2>2. QED
      BY <2>1, ChildInTree DEF Nestable
  <1>11. QED
    BY <1>0, <1>5, <1>6, <1>7, <1>8, <1>9, <1>10

LEMMA IntervalsInSections ==
    ASSUME NEW m \in Tree, Kind[m] = "Module", NEW b \in IntervalsOf(m)
    PROVE  b \in PartOf(m, "Section") /\ Kind[b] = "ByteInterval"
  <1>1. PICK s \in ChildrenOf(m, {"Section"}) : b \in ToSet(Children[s])
    BY DEF IntervalsOf
  <1>2. s \in ToSet(Children[m]) /\ Kind[s] = "Section" /\ s \in Tree
    BY ChildInTree DEF ChildrenOf
  <1>3. b \in Tree /\ Kind[b] = "ByteInterval" /\ OwnerOf(b) = s
    BY <1>1, <1>2, ChildInTree DEF Nestable
  <1>4. Depth(b) = 3
    BY <1>3 DEF Depth
  <1>5. Up3(b) = b
    BY <1>4 DEF Up3
  <1>6. Up2(b) = s
    BY <1>3, <1>4, <1>5 DEF Up2
  <1>7. QED
    BY <1>2, <1>3, <1>6 DEF PartOf, Inside, U2, ChildrenOf

(* Who owns the nodes of a module. *)
LEMMA PartOwners ==
    ASSUME NEW m \in Tree, Kind[m] = "Module", NEW k, NEW u \in PartOf(m, k)
    PROVE  OwnerOf(u) = m \/ OwnerOf(u) \in PartOf(m, k)
  <1>1. u \in Tree /\ Up2(u) \in ToSet(Children[m]) /\ Kind[Up2(u)] = k
    BY DEF PartOf, Inside, ChildrenOf, U2
  <1>2. Depth(Up2(u)) = 2
    <2>1. Depth(m) = 1
      BY DEF Depth
    <2>2. QED
      BY <1>1, <2>1, ChildInTree
  <1>3. Depth(u) \in 2 .. 4
    <2>1. Depth(u) \in 0 .. 4
      BY <1>1, TreeNode
    <2>2. Depth(Up2(u)) = IF Depth(u) >= 2 THEN 2 ELSE Depth(u)
      BY <1>1, UpInTree
    <2>3. QED
      BY <1>2, <2>1, <2>2
  <1>4. CASE Depth(u) = 2
    <2>1. Up2(u) = u
      BY <1>4 DEF Up2, Up3
    <2>2. QED
      BY <1>1, <2>1, ChildInTree
  <1>5. CASE Depth(u) \in {3, 4}
    <2>1. OwnerOf(u) \in Tree /\ Up2(OwnerOf(u)) = Up2(u)
      BY <1>1, <1>5, SameSection
    <2>2. QED
      BY <1>1, <2>1 DEF PartOf, Inside, ChildrenOf, U2
  <1>6. QED
    BY <1>3, <1>4, <1>5

(* The parts of ModuleSteps one after the other. *)
LEMMA ModuleSequel ==
    ASSUME NEW m \in Tree, Kind[m] = "Module"
    PROVE  Sequel(ModuleSteps(m), Inside(U1, {m}))
  <1> DEFINE c == Step("create", m)
             e == Step("entryPoint", m)
             a == Step("attach", m)
             P == EachOf(m, {"ProxyBlock"}, Leaf)
             S == EachOf(m, {"Section"}, SectionSteps)
             Y == EachOf(m, {"Symbol"}, SymbolSteps)
             E == EachOf(m, {"Section"}, SymbolicExpressionSteps)
             UP == PartOf(m, "ProxyBlock")
             US == PartOf(m, "Section")
             UY == PartOf(m, "Symbol")
             U == Inside(U1, {m})
             q1 == <<c>> \o P
             q2 == q1 \o S
             q3 == q2 \o Y
             q4 == q3 \o E
             q == q4 \o <<e, a>>
  <1>0. ModuleSteps(m) = q
    BY DEF ModuleSteps
  <1>1. m \in Uuid
    BY TreeNode
  <1>2. c \in Steps /\ e \in Steps /\ a \in Steps
    BY <1>1 DEF Step, Steps
  <1>3. /\ c.do = "create" /\ e.do = "entryPoint" /\ a.do = "attach"
        /\ c.what = m /\ e.what = m /\ a.what = m
    BY StepFields
  <1>4. /\ Family(P, UP) /\ Family(S, US) /\ Family(Y, UY)
        /\ Line(Steps, E) /\ ToSet(E) = ExpressionSteps(IntervalsOf(m))
    BY ModuleParts, ModuleExpressions DEF PartOf
  <1>5. OwnSteps(m) = {c, a} /\ AllSteps(m) = {c, a, e}
    BY DEF OwnSteps, AllSteps, RefStep, HasRef
  <1>6. RefStep(m) = e
    BY DEF RefStep
  <1> HIDE DEF c, e, a, P, S, Y, E, UP, US, UY
  <1>7. /\ Line(Steps, P) /\ ToSet(P) = FamilySteps(UP)
        /\ Line(Steps, S) /\ ToSet(S) = FamilySteps(US)
        /\ Line(Steps, Y) /\ ToSet(Y) = FamilySteps(UY)
    BY <1>4 DEF Family
  <1>8. /\ \A u : u \in U <=> u = m \/ u \in UP \/ u \in US \/ u \in UY
        /\ m \notin UP /\ m \notin US /\ m \notin UY
        /\ Disjoint(UP, US) /\ Disjoint(UP, UY) /\ Disjoint(US, UY)
    BY ModulePartition DEF UP, US, UY
  <1>9. \A x \in FamilySteps(UP) \cup FamilySteps(US) \cup FamilySteps(UY) : x.what # m
    BY <1>8, FamilyStep, OwnStepsWhat
  <1>10. \A x \in ToSet(E) : x.do = "symbolicExpressions" /\ x.what # m /\ x.what \in US
    <2> TAKE x \in ToSet(E)
    <2>1. PICK b \in IntervalsOf(m) : x = Step("symbolicExpressions", b)
      BY <1>4 DEF ExpressionSteps
    <2>2. b \in US
      BY IntervalsInSections DEF US
    <2>3. QED
      BY <1>8, <2>1, <2>2, StepFields
  <1>11. \A V : \A x \in FamilySteps(V) : x.do \in {"create", "attach", "referent"}
    <2> SUFFICES ASSUME NEW V, NEW v \in V, NEW x \in OwnSteps(v)
                 PROVE  x.do \in {"create", "attach", "referent"}
      BY FamilyStep
    <2>1. QED
      BY StepFields DEF OwnSteps
  <1>12. /\ Line(Steps, q1)
         /\ \A x : x \in ToSet(q1) <=> x = c \/ x \in ToSet(P)
         /\ Keeps(q1, P)
         /\ \A y \in ToSet(P) : Before(q1, c, y)
    <2>1. c \notin ToSet(P)
      BY <1>3, <1>7, <1>9
    <2>2. QED
      BY <1>2, <1>7, <2>1, WithFirst
  <1> HIDE DEF q1
  <1>13. /\ Line(Steps, q2)
         /\ \A x : x \in ToSet(q2) <=> x \in ToSet(q1) \/ x \in ToSet(S)
         /\ Keeps(q2, q1) /\ Keeps(q2, S) /\ Follow(q2, ToSet(q1), ToSet(S))
    <2>1. Disjoint(ToSet(q1), ToSet(S))
      <3>1. Disjoint(ToSet(P), ToSet(S))
        BY <1>7, <1>8, DisjointFamilies
      <3>2. c \notin ToSet(S)
        BY <1>3, <1>7, <1>9
      <3>3. QED
        BY <1>12, <3>1, <3>2 DEF Disjoint
    <2>2. QED
      BY <1>7, <1>12, <2>1, ConcatLine
  <1> HIDE DEF q2
  <1>14. /\ Line(Steps, q3)
         /\ \A x : x \in ToSet(q3) <=> x \in ToSet(q2) \/ x \in ToSet(Y)
         /\ Keeps(q3, q2) /\ Keeps(q3, Y) /\ Follow(q3, ToSet(q2), ToSet(Y))
    <2>1. Disjoint(ToSet(q2), ToSet(Y))
      <3>1. Disjoint(ToSet(P), ToSet(Y)) /\ Disjoint(ToSet(S), ToSet(Y))
        BY <1>7, <1>8, DisjointFamilies
      <3>2. c \notin ToSet(Y)
        BY <1>3, <1>7, <1>9
      <3>3. QED
        BY <1>12, <1>13, <3>1, <3>2 DEF Disjoint
    <2>2. QED
      BY <1>7, <1>13, <2>1, ConcatLine
  <1> HIDE DEF q3
  <1>15. \A x : x \in ToSet(q3) <=> x = c \/ x \in ToSet(P) \/ x \in ToSet(S) \/ x \in ToSet(Y)
    BY <1>12, <1>13, <1>14
  <1>16. /\ Line(Steps, q4)
         /\ \A x : x \in ToSet(q4) <=> x \in ToSet(q3) \/ x \in ToSet(E)
         /\ Keeps(q4, q3) /\ Keeps(q4, E) /\ Follow(q4, ToSet(q3), ToSet(E))
    <2>1. Disjoint(ToSet(q3), ToSet(E))
      <3>1. \A x \in ToSet(q3) : x.do \in {"create", "attach", "referent"}
        BY <1>3, <1>7, <1>11, <1>15
      <3>2. QED
        BY <1>10, <3>1 DEF Disjoint
    <2>2. QED
      BY <1>4, <1>14, <2>1, ConcatLine
  <1> HIDE DEF q4
  <1>17. /\ Line(Steps, <<e, a>>)
         /\ \A x : x \in ToSet(<<e, a>>) <=> x = e \/ x = a
    <2> DEFINE z == <<e, a>>
    <2>1. z \in Seq(Steps) /\ Len(z) = 2 /\ DOMAIN z = 1 .. 2 /\ z[1] = e /\ z[2] = a
      BY <1>2
    <2>2. e # a
      BY <1>3
    <2> HIDE DEF z
    <2>3. IsInjective(z)
      BY <2>1, <2>2 DEF IsInjective
    <2>4. \A x : x \in ToSet(z) <=> x = e \/ x = a
      <3> TAKE x
      <3>1. x \in ToSet(z) <=> \E i \in 1 .. 2 : z[i] = x
        BY <2>1, ElementsByIndex
      <3>2. QED
        BY <2>1, <3>1
    <2>5. QED
      BY <2>1, <2>3, <2>4 DEF Line, z
  <1>18. /\ Line(Steps, q)
         /\ \A x : x \in ToSet(q) <=> x \in ToSet(q4) \/ x = e \/ x = a
         /\ Keeps(q, q4)
         /\ \A x \in ToSet(q4) : Before(q, x, e) /\ Before(q, x, a)
    <2>1. Disjoint(ToSet(q4), ToSet(<<e, a>>))
      <3>1. \A x \in ToSet(q4) : x = c \/ x.what # m
        BY <1>7, <1>9, <1>10, <1>15, <1>16
      <3>2. c # e /\ c # a
        BY <1>3
      <3>3. QED
        BY <1>3, <1>17, <3>1, <3>2 DEF Disjoint
    <2> DEFINE z == <<e, a>>
    <2> HIDE DEF z
    <2>2. Line(Steps, z) /\ Disjoint(ToSet(q4), ToSet(z)) /\ \A x : x \in ToSet(z) <=> x = e \/ x = a
      BY <1>17, <2>1 DEF z
    <2>3. /\ Line(Steps, q4 \o z)
          /\ \A x : x \in ToSet(q4 \o z) <=> x \in ToSet(q4) \/ x \in ToSet(z)
          /\ Keeps(q4 \o z, q4) /\ Follow(q4 \o z, ToSet(q4), ToSet(z))
      BY <1>16, <2>2, ConcatLine
    <2>4. QED
      BY <2>2, <2>3 DEF z, Follow
  <1> HIDE DEF q, U
  <1>19. \A x : x \in ToSet(q) <=> \/ x = c \/ x = e \/ x = a
                                   \/ x \in FamilySteps(UP) \/ x \in FamilySteps(US)
                                   \/ x \in FamilySteps(UY)
                                   \/ x \in ExpressionSteps(IntervalsOf(m))
    BY <1>4, <1>7, <1>15, <1>16, <1>18
  <1>20. ASSUME NEW u \in U
         PROVE  /\ u \in Tree
                /\ Kind[u] = "Module" => u = m
                /\ Kind[u] = "Symbol" => u \in UY
                /\ u \in UY => Kind[u] = "Symbol"
                /\ u \in UP => Kind[u] = "ProxyBlock"
                /\ u \in US => Kind[u] \in {"Section", "ByteInterval", "CodeBlock", "DataBlock"}
                /\ Kind[u] = "ByteInterval" <=> u \in IntervalsOf(m)
    BY PartKinds DEF U, UP, US, UY
  <1>21. ToSet(q) = NodeSteps(U)
    <2>1. ASSUME NEW u \in UP \cup US \cup UY, NEW x
          PROVE  x \in AllSteps(u) <=>
                    x \in OwnSteps(u) \/ (u \in IntervalsOf(m) /\ x = Step("symbolicExpressions", u))
      <3>0. u \in U /\ u # m
        BY <1>8
      <3>1. CASE Kind[u] = "Symbol"
        <4>1. RefStep(u) \in OwnSteps(u) /\ u \notin IntervalsOf(m)
          BY <1>20, <3>0, <3>1 DEF RefStep, OwnSteps
        <4>2. QED
          BY <4>1 DEF AllSteps
      <3>2. CASE Kind[u] = "ByteInterval"
        <4>1. RefStep(u) = Step("symbolicExpressions", u) /\ u \in IntervalsOf(m) /\ HasRef(u)
          BY <1>20, <3>0, <3>2 DEF RefStep, HasRef
        <4>2. QED
          BY <4>1 DEF AllSteps
      <3>3. CASE Kind[u] \notin {"Symbol", "ByteInterval"}
        <4>1. ~HasRef(u) /\ u \notin IntervalsOf(m)
          BY <1>20, <3>0, <3>3 DEF HasRef
        <4>2. QED
          BY <4>1 DEF AllSteps
      <3>4. QED
        BY <3>1, <3>2, <3>3
    <2>2. \A b \in IntervalsOf(m) : b \in US
      BY IntervalsInSections DEF US
    <2>3. \A x : x \in NodeSteps(U) <=> \E u \in U : x \in AllSteps(u)
      BY NodeStep
    <2>4. \A x : x \in ExpressionSteps(IntervalsOf(m)) <=>
                   \E u \in IntervalsOf(m) : x = Step("symbolicExpressions", u)
      BY DEF ExpressionSteps
    <2>5. \A x : x \in NodeSteps(U) <=>
                   \/ x \in {c, a, e}
                   \/ \E u \in UP \cup US \cup UY : x \in AllSteps(u)
      BY <1>5, <1>8, <2>3
    <2>6. \A x : (\E u \in UP \cup US \cup UY : x \in AllSteps(u)) <=>
                   \/ \E u \in UP \cup US \cup UY : x \in OwnSteps(u)
                   \/ x \in ExpressionSteps(IntervalsOf(m))
      BY <2>1, <2>2, <2>4
    <2>7. \A x : (\E u \in UP \cup US \cup UY : x \in OwnSteps(u)) <=>
                   x \in FamilySteps(UP) \/ x \in FamilySteps(US) \/ x \in FamilySteps(UY)
      BY FamilyStep
    <2>8. \A x : x \in ToSet(q) <=> x \in NodeSteps(U)
      BY <1>19, <2>5, <2>6, <2>7
    <2>9. QED
      BY <2>8
  <1>22. \A x, y : Before(P, x, y) \/ Before(S, x, y) \/ Before(Y, x, y) => Before(q, x, y)
    BY <1>12, <1>13, <1>14, <1>16, <1>18 DEF Keeps
  <1>23. ASSUME NEW u \in U
         PROVE  Step("create", u) \in ToSet(q3) /\ Step("create", u) \in ToSet(q4)
    <2>1. Step("create", u) \in OwnSteps(u)
      BY DEF OwnSteps
    <2>2. CASE u = m
      BY <1>15, <1>16, <2>2 DEF c
    <2>3. CASE u \in UP \cup US \cup UY
      BY <1>7, <1>15, <1>16, <2>1, <2>3, FamilyStep
    <2>4. QED
      BY <1>8, <2>2, <2>3
  <1>24. ASSUME NEW x \in ToSet(q4), x # c
         PROVE  Before(q, c, x)
    <2>1. CASE x \in ToSet(P)
      BY <1>12, <1>13, <1>14, <1>16, <1>18, <2>1 DEF Keeps
    <2>2. CASE x \in ToSet(S)
      BY <1>12, <1>13, <1>14, <1>16, <1>18, <2>2 DEF Keeps, Follow
    <2>3. CASE x \in ToSet(Y)
      BY <1>12, <1>13, <1>14, <1>16, <1>18, <2>3 DEF Keeps, Follow
    <2>4. CASE x \in ToSet(E)
      BY <1>15, <1>16, <1>18, <2>4 DEF Keeps, Follow
    <2>5. QED
      BY <1>15, <1>16, <1>24, <2>1, <2>2, <2>3, <2>4
  <1>25. ASSUME NEW u \in U
         PROVE  Before(q, Step("create", u), Step("attach", u))
    <2>1. CASE u = m
      BY <1>18, <1>23, <2>1 DEF a
    <2>2. CASE u \in UP \cup US \cup UY
      BY <1>4, <1>22, <2>2 DEF Family
    <2>3. QED
      BY <1>8, <2>1, <2>2
  <1>26. ASSUME NEW u \in U, HasRef(u)
         PROVE  Before(q, Step("create", u), RefStep(u))
    <2>1. CASE Kind[u] = "Module"
      BY <1>6, <1>18, <1>20, <1>23, <2>1
    <2>2. CASE Kind[u] = "Symbol"
      <3>1. RefStep(u) = Step("referent", u)
        BY <2>2 DEF RefStep
      <3>2. u \in UY
        BY <1>20, <2>2
      <3>3. QED
        BY <1>4, <1>22, <2>2, <3>1, <3>2 DEF Family
    <2>3. CASE Kind[u] = "ByteInterval"
      <3>1. RefStep(u) = Step("symbolicExpressions", u)
        BY <2>3 DEF RefStep
      <3>2. u \in IntervalsOf(m)
        BY <1>20, <2>3
      <3>3. RefStep(u) \in ToSet(E)
        BY <1>4, <3>1, <3>2 DEF ExpressionSteps
      <3>4. QED
        BY <1>16, <1>18, <1>23, <3>3 DEF Follow, Keeps
    <2>4. QED
      BY <1>26, <2>1, <2>2, <2>3 DEF HasRef
  <1>27. ASSUME NEW u \in U, OwnerOf(u) \in U
         PROVE  Before(q, Step("create", OwnerOf(u)), Step("attach", u))
    <2>1. CASE u = m
      BY <1>18, <1>23, <1>27, <2>1 DEF a
    <2>2. CASE u \in UP \cup US \cup UY
      <3>1. CASE OwnerOf(u) = m
        <4>1. Step("attach", u) \in ToSet(q4)
          <5>1. Step("attach", u) \in OwnSteps(u)
            BY DEF OwnSteps
          <5>2. QED
            BY <1>7, <1>15, <1>16, <2>2, <5>1, FamilyStep
        <4>2. Step("attach", u) # c
          BY <1>3, StepFields
        <4>3. QED
          BY <1>24, <3>1, <4>1, <4>2 DEF c
      <3>2. CASE OwnerOf(u) # m
        <4>1. \/ u \in UP /\ OwnerOf(u) \in UP
              \/ u \in US /\ OwnerOf(u) \in US
              \/ u \in UY /\ OwnerOf(u) \in UY
          BY <2>2, <3>2, PartOwners DEF UP, US, UY
        <4>2. QED
          BY <1>4, <1>22, <4>1 DEF Family
      <3>3. QED
        BY <3>1, <3>2
    <2>3. QED
      BY <1>8, <2>1, <2>2
  <1>28. ASSUME NEW u \in U, NEW r \in U, Kind[r] \in Nameable(Kind[u])
         PROVE  Before(q, Step("create", r), RefStep(u))
    <2>0. Kind[u] \in {"Module", "ByteInterval", "Symbol"}
      BY <1>28 DEF Nameable
    <2>1. CASE Kind[u] = "Module"
      BY <1>6, <1>18, <1>20, <1>23, <2>1
    <2>2. CASE Kind[u] = "ByteInterval"
      <3>1. RefStep(u) = Step("symbolicExpressions", u)
        BY <2>2 DEF RefStep
      <3>2. u \in IntervalsOf(m)
        BY <1>20, <2>2
      <3>3. RefStep(u) \in ToSet(E)
        BY <1>4, <3>1, <3>2 DEF ExpressionSteps
      <3>4. QED
        BY <1>16, <1>18, <1>23, <3>3 DEF Follow, Keeps
    <2>3. CASE Kind[u] = "Symbol"
      <3>1. RefStep(u) = Step("referent", u)
        BY <2>3 DEF RefStep
      <3>2. u \in UY
        BY <1>20, <2>3
      <3>3. RefStep(u) \in ToSet(Y)
        BY <1>7, <2>3, <3>1, <3>2, FamilyStep DEF OwnSteps
      <3>4. Kind[r] \in {"CodeBlock", "DataBlock", "ProxyBlock"}
        BY <1>28, <2>3 DEF Nameable
      <3>5. r # m /\ r \notin UY
        BY <1>20, <3>4
      <3>6. Step("create", r) \in ToSet(q2)
        <4>1. Step("create", r) \in OwnSteps(r)
          BY DEF OwnSteps
        <4>2. QED
          BY <1>7, <1>8, <1>12, <1>13, <3>5, <4>1, FamilyStep
      <3>7. QED
        BY <1>14, <1>16, <1>18, <3>3, <3>6 DEF Follow, Keeps
    <2>4. QED
      BY <2>0, <2>1, <2>2, <2>3
  <1>29. QED
    BY <1>0, <1>18, <1>21, <1>25, <1>26, <1>27, <1>28 DEF Sequel, U

-----------------------------------------------------------------------------

(* The position of a module among the modules of the file. *)

LEMMA SameModule ==
    ASSUME NEW v \in Tree \ {Root}, NEW u \in ToSet(Children[v])
    PROVE  u \in Tree /\ Up1(u) = Up1(v)
  <1>1. u \in Tree /\ OwnerOf(u) = v /\ Depth(u) = Depth(v) + 1
    BY ChildInTree
  <1>2. Depth(v) \in 1 .. 4 /\ Depth(u) \in 0 .. 4
    BY <1>1, TreeNode
  <1>3. CASE Depth(u) \in {3, 4}
    BY <1>1, <1>3, SameSection DEF Up1
  <1>4. CASE Depth(u) = 2
    <2>1. Up2(u) = u
      BY <1>4 DEF Up2, Up3
    <2>2. Up1(u) = v
      BY <1>1, <1>4, <2>1 DEF Up1
    <2>3. Depth(v) = 1
      BY <1>1, <1>2, <1>4
    <2>4. Up2(v) = v
      BY <2>3 DEF Up2, Up3
    <2>5. Up1(v) = v
      BY <2>3, <2>4 DEF Up1
    <2>6. QED
      BY <1>1, <2>2, <2>5
  <1>5. QED
    BY <1>1, <1>2, <1>3, <1>4

LEMMA TopOfModule ==
    ASSUME NEW m \in Tree, Depth(m) = 1
    PROVE  Up1(m) = m
  <1>1. Up2(m) = m
    BY DEF Up2, Up3
  <1>2. QED
    BY <1>1 DEF Up1

(* What ModuleIndex looks for. *)
Below(m) == UNION {m, Level(m), Level(Level(m)), Level(Level(Level(m)))}

LEMMA BelowModule ==
    ASSUME NEW m \in Tree, Depth(m) = 1, NEW u \in Tree \ {Root}
    PROVE  u \in Below({m}) <=> Up1(u) = m
  <1> DEFINE A == Level({m})
             B == Level(A)
             C == Level(B)
  <1>0. \A x : x \in Below({m}) <=> x = m \/ x \in A \/ x \in B \/ x \in C
    BY DEF Below
  <1>1. m # Root /\ Up1(m) = m
    BY TopOfModule, TreeNode
  <1>2. \A x : x \in A <=> x \in ToSet(Children[m])
    BY LevelElement
  <1>3. \A x : x \in B <=> \E y \in A : x \in ToSet(Children[y])
    BY LevelElement
  <1>4. \A x : x \in C <=> \E y \in B : x \in ToSet(Children[y])
    BY LevelElement
  <1> HIDE DEF A, B, C
  <1>5. \A x \in A : x \in Tree \ {Root} /\ Up1(x) = m
    BY <1>1, <1>2, SameModule, ChildInTree
  <1>6. \A x \in B : x \in Tree \ {Root} /\ Up1(x) = m
    BY <1>3, <1>5, SameModule, ChildInTree
  <1>7. \A x \in C : x \in Tree \ {Root} /\ Up1(x) = m
    BY <1>4, <1>6, SameModule, ChildInTree
  <1>8. ASSUME NEW x \in Tree \ {Root}, Depth(x) # 1
        PROVE  /\ OwnerOf(x) \in Tree \ {Root} /\ x \in ToSet(Children[OwnerOf(x)])
               /\ Up1(OwnerOf(x)) = Up1(x) /\ Depth(x) = Depth(OwnerOf(x)) + 1
               /\ Depth(OwnerOf(x)) \in Nat
    <2>1. /\ OwnerOf(x) \in Tree /\ x \in ToSet(Children[OwnerOf(x)])
          /\ Depth(OwnerOf(x)) \in Nat /\ Depth(x) = Depth(OwnerOf(x)) + 1
      BY OwnerInTree
    <2>2. OwnerOf(x) # Root
      BY <1>8, <2>1, RootInTree
    <2>3. QED
      BY <2>1, <2>2, SameModule
  <1>9. ASSUME NEW x \in Tree \ {Root}, Up1(x) = m
        PROVE  /\ Depth(x) = 1 => x = m
               /\ Depth(x) = 2 => x \in A
    <2>1. ASSUME Depth(x) = 1
          PROVE  x = m
      BY <1>9, <2>1, TopOfModule
    <2>2. ASSUME Depth(x) = 2
          PROVE  x \in A
      <3>1. OwnerOf(x) \in Tree \ {Root} /\ Up1(OwnerOf(x)) = m /\ Depth(OwnerOf(x)) = 1
        BY <1>8, <1>9, <2>2
      <3>2. OwnerOf(x) = m
        BY <3>1, TopOfModule
      <3>3. QED
        BY <1>2, <1>8, <2>2, <3>2
    <2>3. QED
      BY <2>1, <2>2
  <1>10. ASSUME NEW x \in Tree \ {Root}, Up1(x) = m, Depth(x) = 3
         PROVE  x \in B
    <2>1. OwnerOf(x) \in Tree \ {Root} /\ Up1(OwnerOf(x)) = m /\ Depth(OwnerOf(x)) = 2
      BY <1>8, <1>10
    <2>2. OwnerOf(x) \in A
      BY <1>9, <2>1
    <2>3. QED
      BY <1>3, <1>8, <1>10, <2>2
  <1>11. ASSUME NEW x \in Tree \ {Root}, Up1(x) = m, Depth(x) = 4
         PROVE  x \in C
    <2>1. OwnerOf(x) \in Tree \ {Root} /\ Up1(OwnerOf(x)) = m /\ Depth(OwnerOf(x)) = 3
      BY <1>8, <1>11
    <2>2. OwnerOf(x) \in B
      BY <1>10, <2>1
    <2>3. QED
      BY <1>4, <1>8, <1>11, <2>2
  <1>12. Depth(u) \in 1 .. 4
    BY TreeNode
  <1>13. QED
    BY <1>0, <1>1, <1>5, <1>6, <1>7, <1>9, <1>10, <1>11, <1>12

LEMMA ModuleAt ==
    ASSUME NEW k \in DOMAIN Children[Root]
    PROVE  Children[Root][k] \in Tree \ {Root} /\ Depth(Children[Root][k]) = 1
           /\ Kind[Children[Root][k]] = "Module"
  <1>1. Children[Root][k] \in ToSet(Children[Root])
    BY DEF ToSet
  <1>2. Kind[Root] = "IR" /\ Nestable("IR") = {"Module"}
    BY TreeAssumption DEF Nestable
  <1>3. QED
    BY <1>1, <1>2, RootInTree, ChildInTree

LEMMA ModuleIndexOf ==
    ASSUME NEW u \in Tree \ {Root}
    PROVE  /\ ModuleIndex(u) \in DOMAIN Children[Root]
           /\ Children[Root][ModuleIndex(u)] = Up1(u)
  <1>1. PICK k \in DOMAIN Children[Root] : Children[Root][k] = Up1(u)
    BY InRoot DEF ToSet
  <1>2. \A j \in DOMAIN Children[Root] : u \in Below({Children[Root][j]}) <=> Up1(u) = Children[Root][j]
    BY ModuleAt, BelowModule
  <1>3. ModuleIndex(u) = CHOOSE j \in DOMAIN Children[Root] : u \in Below({Children[Root][j]})
    BY DEF ModuleIndex, Below
  <1>4. QED
    BY <1>1, <1>2, <1>3

(* The order of a whole load. *)

Cfg     == Step("cfg", Root)
Version == Step("version", Root)

Plan(q) ==
    /\ Line(Steps, q)
    /\ \A x : x \in ToSet(q) <=> x \in NodeSteps(Tree \ {Root})
                                   \/ x = Step("create", Root) \/ x = Cfg \/ x = Version
    /\ \A u \in Tree \ {Root} :
          /\ Before(q, Step("create", u), Step("attach", u))
          /\ Before(q, Step("create", OwnerOf(u)), Step("attach", u))
          /\ HasRef(u) => Before(q, Step("create", u), RefStep(u))
    /\ \A u, r \in Tree \ {Root} : Kind[r] \in Nameable(Kind[u]) =>
          IF Backward(u, r) THEN Before(q, Step("create", r), RefStep(u))
                            ELSE Before(q, RefStep(u), Step("create", r))
    /\ \A x \in ToSet(q) : x = Cfg \/ x = Version \/ Before(q, x, Cfg)
    /\ \A x \in ToSet(q) : x = Version \/ Before(q, x, Version)

LEMMA ModulesConsist ==
    LET C  == Children[Root]
        ss == [i \in 1 .. Len(C) |-> ModuleSteps(C[i])]
    IN  /\ Consists(Steps, EachOf(Root, {"Module"}, ModuleSteps), ss, Len(C))
        /\ \A i \in 1 .. Len(C) : Sequel(ss[i], Inside(U1, {C[i]}))
        /\ DOMAIN C = 1 .. Len(C) /\ Len(C) \in Nat
  <1> DEFINE C  == Children[Root]
             n  == Len(C)
             ss == [i \in 1 .. n |-> ModuleSteps(C[i])]
  <1>1. C \in Seq(Uuid) /\ n \in Nat /\ DOMAIN C = 1 .. n
    BY TreeAssumption
  <1>2. \A i \in 1 .. n : C[i] \in Tree /\ Kind[C[i]] = "Module"
    BY <1>1, ModuleAt
  <1>3. EachOf(Root, {"Module"}, ModuleSteps) = FlattenSeq(ss)
    <2>1. [i \in DOMAIN C |-> IF Kind[C[i]] \in {"Module"} THEN ModuleSteps(C[i]) ELSE <<>>] = ss
      BY <1>1, <1>2
    <2>2. QED
      BY <2>1 DEF EachOf
  <1>4. \A i \in 1 .. n : Sequel(ss[i], Inside(U1, {C[i]}))
    BY <1>2, ModuleSequel
  <1>5. ss = [i \in 1 .. n |-> ss[i]]
    OBVIOUS
  <1> HIDE DEF ss
  <1>6. \A i \in 1 .. n : ss[i] \in Seq(Steps) /\ IsInjective(ss[i])
                          /\ ToSet(ss[i]) = NodeSteps(Inside(U1, {C[i]}))
    BY <1>4 DEF Sequel, Line
  <1>7. ss \in [1 .. n -> Seq(Steps)]
    BY <1>5, <1>6
  <1>8. \A i, j \in 1 .. n : i # j => Disjoint(ToSet(ss[i]), ToSet(ss[j]))
    <2> SUFFICES ASSUME NEW i \in 1 .. n, NEW j \in 1 .. n,
                        NEW y \in ToSet(ss[i]), y \in ToSet(ss[j])
                 PROVE  i = j
      BY DEF Disjoint
    <2>1. PICK u \in Inside(U1, {C[i]}) : y \in AllSteps(u)
      BY <1>6, NodeStep
    <2>2. PICK v \in Inside(U1, {C[j]}) : y \in AllSteps(v)
      BY <1>6, NodeStep
    <2>3. u = v
      BY <2>1, <2>2, AllStepsWhat
    <2>4. C[i] = C[j]
      BY <2>3 DEF Inside
    <2>5. QED
      BY <1>1, <2>4, RootInTree, TreeAssumption
  <1>9. Consists(Steps, FlattenSeq(ss), ss, n)
    BY <1>1, <1>6, <1>7, <1>8, FlattenConsists
  <1>10. QED
    BY <1>1, <1>3, <1>4, <1>9 DEF ss

(* LoadSteps, the order in which the nested fromProtobuf functions work, creates
   every node once, before it is handed over or referred to as far as the order of
   the modules in the file permits, and ends with the graph and the version. *)
LEMMA LoadPlan == Plan(LoadSteps)
  <1> DEFINE C  == Children[Root]
             n  == Len(C)
             ss == [i \in 1 .. n |-> ModuleSteps(C[i])]
             c  == Step("create", Root)
             M  == EachOf(Root, {"Module"}, ModuleSteps)
             q1 == <<c>> \o M
             q  == q1 \o <<Cfg, Version>>
             T  == Tree \ {Root}
  <1>0. LoadSteps = q
    BY DEF LoadSteps, Cfg, Version
  <1>1. /\ Consists(Steps, M, ss, n)
        /\ \A i \in 1 .. n : Sequel(ss[i], Inside(U1, {C[i]}))
        /\ DOMAIN C = 1 .. n /\ n \in Nat
    BY ModulesConsist
  <1>2. c \in Steps /\ Cfg \in Steps /\ Version \in Steps
    BY RootInTree, TreeNode DEF Step, Steps, Cfg, Version
  <1>3. /\ c.do = "create" /\ Cfg.do = "cfg" /\ Version.do = "version"
        /\ c.what = Root /\ Cfg.what = Root /\ Version.what = Root
    BY StepFields DEF Cfg, Version
  <1> HIDE DEF M, ss, c
  <1>4. \A i \in 1 .. n : ToSet(ss[i]) = NodeSteps(Inside(U1, {C[i]}))
    BY <1>1 DEF Sequel
  <1>5. ASSUME NEW u \in T
        PROVE  /\ ModuleIndex(u) \in 1 .. n
               /\ \A i \in 1 .. n : u \in Inside(U1, {C[i]}) <=> i = ModuleIndex(u)
    <2>1. ModuleIndex(u) \in 1 .. n /\ C[ModuleIndex(u)] = Up1(u)
      BY <1>1, ModuleIndexOf
    <2>2. \A i \in 1 .. n : u \in Inside(U1, {C[i]}) <=> C[i] = Up1(u)
      BY DEF Inside, U1
    <2>3. \A i, j \in 1 .. n : C[i] = C[j] => i = j
      <3>1. DOMAIN C = 1 .. n /\ Root \in Tree
        BY <1>1, RootInTree
      <3>2. QED
        BY <3>1, TreeAssumption
    <2>4. QED
      BY <2>1, <2>2, <2>3
  <1>6. \A i \in 1 .. n : \A u \in Inside(U1, {C[i]}) : u \in T
    <2> SUFFICES ASSUME NEW i \in 1 .. n, NEW u \in Tree, Up1(u) = C[i]
                 PROVE  u # Root
      BY DEF Inside, U1
    <2>1. Depth(Up1(u)) = 1
      BY <1>1, ModuleAt
    <2>2. Depth(u) # 0
      BY <2>1, TreeNode, UpInTree
    <2>3. QED
      BY <2>2, RootInTree
  <1>7. \A x : x \in ToSet(M) <=> x \in NodeSteps(T)
    <2>1. \A x : x \in ToSet(M) <=> \E i \in 1 .. n : \E u \in Inside(U1, {C[i]}) : x \in AllSteps(u)
      <3>1. \A x : x \in ToSet(M) <=> \E i \in 1 .. n : x \in ToSet(ss[i])
        BY <1>1 DEF Consists
      <3>2. \A i \in 1 .. n : \A x : x \in ToSet(ss[i])
                                       <=> \E u \in Inside(U1, {C[i]}) : x \in AllSteps(u)
        BY <1>4, NodeStep
      <3>3. QED
        BY <3>1, <3>2
    <2>2. \A x : x \in NodeSteps(T) <=> \E u \in T : x \in AllSteps(u)
      BY NodeStep
    <2>3. QED
      BY <1>5, <1>6, <2>1, <2>2
  <1>8. \A x \in ToSet(M) : x.what # Root
    BY <1>7, NodeStep, AllStepsWhat
  <1>9. Line(Steps, M)
    BY <1>1 DEF Consists
  <1>10. /\ Line(Steps, q1)
         /\ \A x : x \in ToSet(q1) <=> x = c \/ x \in ToSet(M)
         /\ Keeps(q1, M)
         /\ \A y \in ToSet(M) : Before(q1, c, y)
    BY <1>2, <1>3, <1>8, <1>9, WithFirst
  <1> HIDE DEF q1
  <1> DEFINE z == <<Cfg, Version>>
  <1>11. /\ Line(Steps, z)
         /\ \A x : x \in ToSet(z) <=> x = Cfg \/ x = Version
         /\ Before(z, Cfg, Version)
    <2>1. /\ z \in Seq(Steps) /\ Len(z) = 2 /\ DOMAIN z = 1 .. 2
          /\ z[1] = Cfg /\ z[2] = Version
      BY <1>2
    <2>2. Cfg # Version
      BY <1>3
    <2> HIDE DEF z
    <2>3. IsInjective(z)
      BY <2>1, <2>2 DEF IsInjective
    <2>4. \A x : x \in ToSet(z) <=> x = Cfg \/ x = Version
      <3> TAKE x
      <3>1. x \in ToSet(z) <=> \E i \in 1 .. 2 : z[i] = x
        BY <2>1, ElementsByIndex
      <3>2. QED
        BY <2>1, <3>1
    <2>5. Before(z, Cfg, Version)
      <3>1. 1 \in 1 .. Len(z) /\ 2 \in 1 .. Len(z) /\ 1 < 2
        BY <2>1
      <3>2. QED
        BY <2>1, <3>1 DEF Before
    <2>6. QED
      BY <2>1, <2>3, <2>4, <2>5 DEF Line
  <1>12. Disjoint(ToSet(q1), ToSet(z))
    <2>1. c # Cfg /\ c # Version
      BY <1>3
    <2>2. QED
      BY <1>3, <1>8, <1>10, <1>11, <2>1 DEF Disjoint
  <1>13. q = q1 \o z
    OBVIOUS
  <1> HIDE DEF z, q
  <1>14. /\ Line(Steps, q)
         /\ \A x : x \in ToSet(q) <=> x \in ToSet(q1) \/ x \in ToSet(z)
         /\ Keeps(q, q1) /\ Keeps(q, z) /\ Follow(q, ToSet(q1), ToSet(z))
    BY <1>10, <1>11, <1>12, <1>13, ConcatLine
  <1>15. \A x, y : Before(M, x, y) => Before(q, x, y)
    BY <1>10, <1>14 DEF Keeps
  <1>16. \A i \in 1 .. n : \A x, y : Before(ss[i], x, y) => Before(q, x, y)
    BY <1>1, <1>15 DEF Consists, Keeps
  <1>17. \A i, j \in 1 .. n : i < j => \A x \in ToSet(ss[i]), y \in ToSet(ss[j]) : Before(q, x, y)
    BY <1>1, <1>15 DEF Consists, Follow
  <1>18. \A y \in ToSet(M) : Before(q, c, y)
    BY <1>10, <1>14 DEF Keeps
  <1>19. ASSUME NEW u \in T
         PROVE  /\ Before(q, Step("create", u), Step("attach", u))
                /\ Before(q, Step("create", OwnerOf(u)), Step("attach", u))
                /\ HasRef(u) => Before(q, Step("create", u), RefStep(u))
    <2> DEFINE i == ModuleIndex(u)
               V == Inside(U1, {C[i]})
    <2>1. i \in 1 .. n /\ u \in V
      BY <1>5
    <2>2. Sequel(ss[i], V)
      BY <1>1, <2>1
    <2>3. Step("attach", u) \in ToSet(M)
      <3>1. Step("attach", u) \in AllSteps(u)
        BY DEF AllSteps, OwnSteps
      <3>2. QED
        BY <1>7, <3>1, NodeStep
    <2>4. OwnerOf(u) = Root \/ OwnerOf(u) \in V
      <3> SUFFICES ASSUME OwnerOf(u) # Root
                   PROVE  OwnerOf(u) \in V
        OBVIOUS
      <3>1. OwnerOf(u) \in Tree \ {Root} /\ u \in ToSet(Children[OwnerOf(u)])
        BY OwnerInTree
      <3>2. Up1(u) = Up1(OwnerOf(u))
        BY <3>1, SameModule
      <3>3. QED
        BY <2>1, <3>1, <3>2 DEF Inside, U1
    <2> HIDE DEF V, i
    <2>5. QED
      BY <1>16, <1>18, <2>1, <2>2, <2>3, <2>4 DEF Sequel, c
  <1>20. ASSUME NEW u \in T, NEW r \in T, Kind[r] \in Nameable(Kind[u])
         PROVE  IF Backward(u, r) THEN Before(q, Step("create", r), RefStep(u))
                                  ELSE Before(q, RefStep(u), Step("create", r))
    <2> DEFINE i == ModuleIndex(u)
               j == ModuleIndex(r)
    <2>1. /\ i \in 1 .. n /\ u \in Inside(U1, {C[i]})
          /\ j \in 1 .. n /\ r \in Inside(U1, {C[j]})
      BY <1>5
    <2>2. HasRef(u)
      BY <1>20 DEF HasRef, Nameable
    <2>3. RefStep(u) \in ToSet(ss[i])
      <3>1. RefStep(u) \in AllSteps(u)
        BY <2>2 DEF AllSteps
      <3>2. QED
        BY <1>4, <2>1, <3>1, NodeStep
    <2>4. Step("create", r) \in ToSet(ss[j])
      <3>1. Step("create", r) \in AllSteps(r)
        BY DEF AllSteps, OwnSteps
      <3>2. QED
        BY <1>4, <2>1, <3>1, NodeStep
    <2>5. Backward(u, r) <=> j <= i
      BY DEF Backward
    <2> HIDE DEF i, j
    <2>6. CASE j = i
      <3>1. Before(ss[i], Step("create", r), RefStep(u))
        BY <1>1, <1>20, <2>1, <2>6 DEF Sequel
      <3>2. QED
        BY <1>16, <2>1, <2>5, <2>6, <3>1
    <2>7. CASE j < i
      BY <1>17, <2>1, <2>3, <2>4, <2>5, <2>7
    <2>8. CASE i < j
      BY <1>17, <2>1, <2>3, <2>4, <2>5, <2>8
    <2>9. QED
      BY <2>1, <2>6, <2>7, <2>8
  <1>21. \A x \in ToSet(q) : x = Cfg \/ x = Version \/ Before(q, x, Cfg)
    BY <1>11, <1>14 DEF Follow
  <1>22. \A x \in ToSet(q) : x = Version \/ Before(q, x, Version)
    BY <1>11, <1>14 DEF Follow, Keeps
  <1>23. \A x : x \in ToSet(q) <=> x \in NodeSteps(T) \/ x = c \/ x = Cfg \/ x = Version
    BY <1>7, <1>10, <1>11, <1>14
  <1>24. Plan(q)
    BY <1>14, <1>19, <1>20, <1>21, <1>22, <1>23 DEF Plan, c
  <1>25. QED
    BY <1>0, <1>24

-----------------------------------------------------------------------------

(* What is left of a load. *)

Rest(t) ==
    /\ t \in Seq(Steps)
    /\ \E p \in 0 .. Len(LoadSteps) :
          Len(t) = Len(LoadSteps) - p /\ \A k \in 1 .. Len(t) : t[k] = LoadSteps[p + k]

LEMMA AllIsLeft == Rest(LoadSteps) /\ LoadSteps # <<>>
  <1>1. LoadSteps \in Seq(Steps) /\ Version \in ToSet(LoadSteps)
    BY LoadPlan DEF Plan, Line
  <1>2. Len(LoadSteps) \in Nat /\ \A k \in 1 .. Len(LoadSteps) : 0 + k = k
    BY <1>1
  <1>3. 0 \in 0 .. Len(LoadSteps) /\ Len(LoadSteps) = Len(LoadSteps) - 0
    BY <1>2
  <1>4. LoadSteps # <<>>
    BY <1>1, EmptyLine
  <1>5. QED
    BY <1>1, <1>2, <1>3, <1>4 DEF Rest

LEMMA NextStep ==
    ASSUME NEW t, Rest(t), t # <<>>
    PROVE  /\ Rest(Tail(t))
           /\ Head(t) \in ToSet(LoadSteps) /\ Head(t) \in ToSet(t)
           /\ \A x : x \in ToSet(Tail(t)) <=> x \in ToSet(t) /\ x # Head(t)
           /\ \A x : Before(LoadSteps, x, Head(t)) => x \notin ToSet(t)
           /\ \A x : Before(LoadSteps, Head(t), x) => x \in ToSet(Tail(t))
  <1> DEFINE q == LoadSteps
             n == Len(q)
             m == Len(t)
  <1>1. q \in Seq(Steps) /\ IsInjective(q) /\ n \in Nat /\ DOMAIN q = 1 .. n
    BY LoadPlan DEF Plan, Line
  <1>2. t \in Seq(Steps) /\ m \in Nat /\ m # 0 /\ DOMAIN t = 1 .. m
    BY DEF Rest
  <1>3. PICK p \in 0 .. n : m = n - p /\ \A k \in 1 .. m : t[k] = q[p + k]
    BY DEF Rest
  <1>4. /\ Head(t) = t[1]
        /\ Tail(t) \in Seq(Steps)
        /\ Len(Tail(t)) = m - 1
        /\ \A k \in 1 .. m - 1 : Tail(t)[k] = t[k + 1]
    BY <1>2
  <1> HIDE DEF q, n, m
  <1>5. Head(t) = q[p + 1] /\ p + 1 \in 1 .. n
    <2>1. 1 \in 1 .. m /\ p + 1 \in 1 .. n
      BY <1>1, <1>2, <1>3
    <2>2. t[1] = q[p + 1]
      BY <1>3, <2>1
    <2>3. QED
      BY <1>4, <2>1, <2>2
  <1>6. \A k \in 1 .. m - 1 : Tail(t)[k] = q[(p + 1) + k]
    <2> TAKE k \in 1 .. m - 1
    <2>1. k + 1 \in 1 .. m /\ p + (k + 1) = (p + 1) + k
      BY <1>2, <1>3
    <2>2. t[k + 1] = q[p + (k + 1)]
      BY <1>3, <2>1
    <2>3. QED
      BY <1>4, <2>1, <2>2
  <1>7. Rest(Tail(t))
    <2>1. p + 1 \in 0 .. n /\ m - 1 = n - (p + 1)
      BY <1>1, <1>2, <1>3
    <2>2. QED
      BY <1>4, <1>6, <2>1 DEF Rest, m, n, q
  <1>8. \A x : x \in ToSet(t) <=> \E k \in p + 1 .. n : q[k] = x
    <2> TAKE x
    <2>1. x \in ToSet(t) <=> \E k \in 1 .. m : t[k] = x
      BY <1>2, ElementsByIndex
    <2>2. ASSUME NEW k \in 1 .. m, t[k] = x
          PROVE  \E j \in p + 1 .. n : q[j] = x
      <3>1. p + k \in p + 1 .. n /\ q[p + k] = x
        BY <1>1, <1>3, <2>2
      <3>2. QED
        BY <3>1
    <2>3. ASSUME NEW j \in p + 1 .. n, q[j] = x
          PROVE  \E k \in 1 .. m : t[k] = x
      <3>1. j - p \in 1 .. m /\ p + (j - p) = j
        BY <1>1, <1>3
      <3>2. t[j - p] = x
        BY <1>3, <2>3, <3>1
      <3>3. QED
        BY <3>1, <3>2
    <2>4. QED
      BY <2>1, <2>2, <2>3
  <1>9. \A x : x \in ToSet(Tail(t)) <=> \E k \in p + 2 .. n : q[k] = x
    <2> TAKE x
    <2>1. x \in ToSet(Tail(t)) <=> \E k \in 1 .. m - 1 : Tail(t)[k] = x
      <3> DEFINE z == Tail(t)
      <3>1. z \in Seq(Steps) /\ Len(z) = m - 1
        BY <1>4
      <3> HIDE DEF z
      <3>2. x \in ToSet(z) <=> \E k \in 1 .. m - 1 : z[k] = x
        BY <3>1, ElementsByIndex
      <3>3. QED
        BY <3>2 DEF z
    <2>2. ASSUME NEW k \in 1 .. m - 1, Tail(t)[k] = x
          PROVE  \E j \in p + 2 .. n : q[j] = x
      <3>1. (p + 1) + k \in p + 2 .. n
        BY <1>1, <1>2, <1>3
      <3>2. q[(p + 1) + k] = x
        BY <1>6, <2>2
      <3>3. QED
        BY <3>1, <3>2
    <2>3. ASSUME NEW j \in p + 2 .. n, q[j] = x
          PROVE  \E k \in 1 .. m - 1 : Tail(t)[k] = x
      <3>1. j - (p + 1) \in 1 .. m - 1 /\ (p + 1) + (j - (p + 1)) = j
        BY <1>1, <1>3
      <3>2. Tail(t)[j - (p + 1)] = x
        BY <1>6, <2>3, <3>1
      <3>3. QED
        BY <3>1, <3>2
    <2>4. QED
      BY <2>1, <2>2, <2>3
  <1>10. \A i, j \in 1 .. n : q[i] = q[j] => i = j
    BY <1>1 DEF IsInjective
  <1>11. Head(t) \in ToSet(q) /\ Head(t) \in ToSet(t)
    <2>1. Head(t) \in ToSet(q)
      BY <1>1, <1>5, ElementsByIndex
    <2>2. p + 1 \in p + 1 .. n
      BY <1>5
    <2>3. QED
      BY <1>5, <1>8, <2>1, <2>2
  <1>12. ASSUME NEW x
         PROVE  x \in ToSet(Tail(t)) <=> x \in ToSet(t) /\ x # Head(t)
    <2>1. \A k \in p + 2 .. n : k \in p + 1 .. n /\ k \in 1 .. n /\ k # p + 1
      BY <1>1, <1>3
    <2>2. \A k \in p + 1 .. n : k = p + 1 \/ k \in p + 2 .. n
      BY <1>1, <1>3
    <2>3. QED
      BY <1>5, <1>8, <1>9, <1>10, <2>1, <2>2
  <1>13. ASSUME NEW x, Before(q, x, Head(t))
         PROVE  x \notin ToSet(t)
    <2>1. PICK i \in 1 .. n, j \in 1 .. n : i < j /\ q[i] = x /\ q[j] = Head(t)
      BY <1>13 DEF Before, n
    <2>2. j = p + 1
      BY <1>5, <1>10, <2>1
    <2>3. \A k \in p + 1 .. n : k \in 1 .. n /\ k # i
      BY <1>1, <1>3, <2>1, <2>2
    <2>4. QED
      BY <1>8, <1>10, <2>1, <2>3
  <1>14. ASSUME NEW x, Before(q, Head(t), x)
         PROVE  x \in ToSet(Tail(t))
    <2>1. PICK i \in 1 .. n, j \in 1 .. n : i < j /\ q[i] = Head(t) /\ q[j] = x
      BY <1>14 DEF Before, n
    <2>2. i = p + 1
      BY <1>5, <1>10, <2>1
    <2>3. j \in p + 2 .. n
      BY <1>1, <1>3, <2>1, <2>2
    <2>4. QED
      BY <1>9, <2>1, <2>3
  <1>15. QED
    BY <1>7, <1>11, <1>12, <1>13, <1>14 DEF q

-----------------------------------------------------------------------------

(* The inductive invariant. *)

Nodes == [uuid : Uuid, owner : Nat, ref : SUBSET (Nat \cup (Nat \X Nat))]

(* The references of a node lead to nodes that it may name. *)
RefOK(h, i) ==
    IF h[i].uuid = Root
    THEN h[i].ref \subseteq (DOMAIN h) \X (DOMAIN h)
    ELSE \A r \in h[i].ref : r \in DOMAIN h /\ Kind[h[r].uuid] \in Nameable(Kind[h[i].uuid])

HeapOK(h) ==
    /\ h \in Seq(Nodes)
    /\ \A i \in DOMAIN h : h[i].owner \in {0} \cup DOMAIN h /\ RefOK(h, i)

MapOK(h, map) ==
    /\ map \in [Uuid -> Nat]
    /\ \A u \in Uuid : map[u] # 0 => map[u] \in DOMAIN h /\ h[map[u]].uuid = u

FileOK(f) ==
    /\ f \in [ref : [Tree \ {Root} -> SUBSET Uuid], edges : SUBSET (Uuid \X Uuid),
              vertices : SUBSET Uuid, bad : SUBSET Tree, current : BOOLEAN]
    /\ \A u \in Tree \ {Root} : \A r \in f.ref[u] : Kind[r] \in Nameable(Kind[u])

StartOK(st) ==
    /\ st \in [map : [Uuid -> Nat], len : Nat]
    /\ \A u \in Uuid : st.map[u] <= st.len

(* An IR is whole: the first l nodes contain one for each UUID of the tree. *)
UpOf(h, i)  == IF h[i].owner = 0 THEN i ELSE h[i].owner
TopOf(h, i) == UpOf(h, UpOf(h, UpOf(h, UpOf(h, i))))

Whole(h, i, l) ==
    /\ i \in 1 .. l /\ h[i].uuid = Root
    /\ \A u \in Tree : \E n \in 1 .. l : h[n].uuid = u /\ TopOf(h, n) = i

(* The first l nodes are owned by each other. *)
Closed(h, l) == l <= Len(h) /\ \A i \in 1 .. l : h[i].owner \in 0 .. l

(* The nodes that have been created when t is left. *)
Made(t) == {u \in Tree : Step("create", u) \notin ToSet(t)}

(* The new nodes are those that have been created; these, and no others, have
   been registered. *)
Fresh(h, map, t, st) ==
    /\ \A i \in DOMAIN h : i > st.len => h[i].uuid \in Made(t) /\ map[h[i].uuid] = i
    /\ \A u \in Uuid : IF u \in Made(t) THEN map[u] > st.len ELSE map[u] = st.map[u]

Owned(h, map, t) ==
    \A u \in Made(t) :
        h[map[u]].owner = IF u # Root /\ Step("attach", u) \notin ToSet(t)
                          THEN map[OwnerOf(u)] ELSE 0

(* What references should find, as Target has it. *)
Goal(map, st, u, R) ==
    {map[r] : r \in {x \in R : Backward(u, x)}}
      \cup ({st.map[r] : r \in {x \in R : ~Backward(u, x)}} \ {0})

GoalEdges(map, st, E) ==
    UNION {Goal(map, st, Root, {e[1]}) \X Goal(map, st, Root, {e[2]}) : e \in E}

(* The vertices the graph should have, as Vertices has them, and the edges of the
   file between these. *)
ListedIn(f) == f.vertices \cup {u \in Tree : IsCfgNode(u)}
Joinable(f) == f.edges \cap (ListedIn(f) \X ListedIn(f))

Resolved(t, u) == HasRef(u) /\ RefStep(u) \notin ToSet(t)

Referred(h, map, t, st, f) ==
    /\ \A u \in Made(t) \ {Root} :
          h[map[u]].ref = IF Resolved(t, u) THEN Goal(map, st, u, f.ref[u]) ELSE {}
    /\ Root \in Made(t) =>
          h[map[Root]].ref = IF Cfg \notin ToSet(t) THEN GoalEdges(map, st, Joinable(f)) ELSE {}

(* The references of u can be found. *)
Findable(st, u, R) == \A r \in R : Backward(u, r) \/ st.map[r] # 0

Passed(t, st, f) ==
    /\ \A u \in Made(t) : u \notin f.bad
    /\ \A u \in Tree \ {Root} :
          Resolved(t, u) /\ Kind[u] # "Symbol" => Findable(st, u, f.ref[u])
    /\ Cfg \notin ToSet(t) => Findable(st, Root, f.vertices)

(* How far the load has come when t is left. *)
Reached(h, map, t, st, f) ==
    /\ Closed(h, st.len)
    /\ Fresh(h, map, t, st)
    /\ Owned(h, map, t)
    /\ Referred(h, map, t, st, f)
    /\ Passed(t, st, f)

UnderWay == Reached(heap, uuidMap, task, start, file)

Sane(h, map, st, f) == HeapOK(h) /\ MapOK(h, map) /\ StartOK(st) /\ FileOK(f)

General ==
    /\ Sane(heap, uuidMap, start, file)
    /\ \A i \in irs : Whole(heap, i, Len(heap))

LoadInv ==
    /\ General
    /\ status \in {"idle", "loading", "loaded", "failed"}
    /\ status = "loading" <=> task # <<>>
    /\ status = "loading" => Rest(task) /\ \A i \in irs : Whole(heap, i, start.len)
    /\ status \in {"loading", "loaded"} => UnderWay
    /\ status = "loaded" => file.current
    /\ status = "failed" => ~Loadable

-----------------------------------------------------------------------------

(* The steps that occur in a load. *)

LEMMA StepsOfLoad ==
    ASSUME NEW d, NEW u, Step(d, u) \in ToSet(LoadSteps)
    PROVE  /\ u \in Tree
           /\ d = "attach" => u \in Tree \ {Root}
           /\ d \in {"referent", "symbolicExpressions", "entryPoint"} =>
                 u \in Tree \ {Root} /\ HasRef(u) /\ Step(d, u) = RefStep(u)
           /\ d = "referent" <=> HasRef(u) /\ Step(d, u) = RefStep(u) /\ Kind[u] = "Symbol"
  <1> DEFINE x == Step(d, u)
  <1>1. x.do = d /\ x.what = u
    BY StepFields
  <1>2. \/ \E v \in Tree \ {Root} : x \in AllSteps(v)
        \/ x = Step("create", Root) \/ x = Cfg \/ x = Version
    BY LoadPlan, NodeStep DEF Plan
  <1>3. CASE \E v \in Tree \ {Root} : x \in AllSteps(v)
    <2>1. PICK v \in Tree \ {Root} : x \in AllSteps(v)
      BY <1>3
    <2>2. v = u /\ u \in Tree \ {Root}
      BY <1>1, <2>1, AllStepsWhat
    <2>3. /\ Step("create", u).do = "create"
          /\ Step("attach", u).do = "attach"
          /\ Step("referent", u).do = "referent"
          /\ HasRef(u) => RefStep(u).do \in {"referent", "symbolicExpressions", "entryPoint"}
          /\ HasRef(u) => (RefStep(u).do = "referent" <=> Kind[u] = "Symbol")
      BY StepFields DEF RefStep
    <2>4. Kind[u] = "Symbol" => HasRef(u) /\ RefStep(u) = Step("referent", u)
      BY DEF HasRef, RefStep
    <2>5. \/ x = Step("create", u) \/ x = Step("attach", u)
          \/ HasRef(u) /\ x = RefStep(u)
      BY <2>1, <2>2, <2>4 DEF AllSteps, OwnSteps
    <2> HIDE DEF x
    <2>6. QED
      BY <1>1, <2>2, <2>3, <2>5 DEF x
  <1>4. CASE x = Step("create", Root) \/ x = Cfg \/ x = Version
    <2>1. /\ Step("create", Root).do = "create" /\ Step("create", Root).what = Root
          /\ Cfg.do = "cfg" /\ Cfg.what = Root
          /\ Version.do = "version" /\ Version.what = Root
      BY StepFields DEF Cfg, Version
    <2>2. u = Root /\ d \in {"create", "cfg", "version"} /\ Root \in Tree
      BY <1>1, <1>4, <2>1, RootInTree
    <2>3. ~HasRef(Root)
      BY TreeAssumption DEF HasRef
    <2>4. QED
      BY <2>2, <2>3
  <1>5. QED
    BY <1>2, <1>3, <1>4

LEMMA StepOfNode ==
    ASSUME NEW u \in Tree
    PROVE  /\ Step("create", u) \in ToSet(LoadSteps)
           /\ u # Root /\ HasRef(u) => RefStep(u) \in ToSet(LoadSteps)
           /\ Cfg \in ToSet(LoadSteps) /\ Version \in ToSet(LoadSteps)
  <1>1. u # Root => Step("create", u) \in AllSteps(u) /\ (HasRef(u) => RefStep(u) \in AllSteps(u))
    BY DEF AllSteps, OwnSteps
  <1>2. QED
    BY <1>1, LoadPlan, NodeStep DEF Plan

(* Steps that differ. *)
LEMMA StepsDiffer ==
    ASSUME NEW u, NEW v
    PROVE  /\ Step("create", u) = Step("create", v) <=> u = v
           /\ Step("attach", u) = Step("attach", v) <=> u = v
           /\ RefStep(u) = RefStep(v) <=> u = v
           /\ Step("create", u) # Step("attach", v)
           /\ Step("create", u) # RefStep(v)
           /\ Step("attach", u) # RefStep(v)
           /\ Step("create", u) # Cfg /\ Step("create", u) # Version
           /\ Step("attach", u) # Cfg /\ Step("attach", u) # Version
           /\ RefStep(u) # Cfg /\ RefStep(u) # Version
           /\ Cfg # Version
  <1>1. ASSUME NEW w
        PROVE  /\ Step("create", w).do = "create" /\ Step("create", w).what = w
               /\ Step("attach", w).do = "attach" /\ Step("attach", w).what = w
               /\ RefStep(w).do \in {"referent", "symbolicExpressions", "entryPoint"}
               /\ RefStep(w).what = w
    BY StepFields DEF RefStep
  <1>2. Cfg.do = "cfg" /\ Version.do = "version"
    BY StepFields DEF Cfg, Version
  <1>3. QED
    BY <1>1, <1>2

-----------------------------------------------------------------------------

(* Changes of the heap. *)

LEMMA HeapNode ==
    ASSUME NEW h, HeapOK(h)
    PROVE  /\ Len(h) \in Nat /\ DOMAIN h = 1 .. Len(h)
           /\ \A i \in 1 .. Len(h) : h[i] \in Nodes /\ h[i].uuid \in Uuid
                                       /\ h[i].owner \in 0 .. Len(h) /\ RefOK(h, i)
  <1>1. h \in Seq(Nodes) /\ Len(h) \in Nat /\ DOMAIN h = 1 .. Len(h)
    BY DEF HeapOK
  <1>2. ASSUME NEW i \in 1 .. Len(h)
        PROVE  /\ h[i] \in Nodes /\ h[i].uuid \in Uuid
               /\ h[i].owner \in 0 .. Len(h) /\ RefOK(h, i)
    <2>1. h[i] \in Nodes
      BY <1>1
    <2>2. h[i].uuid \in Uuid
      BY <2>1 DEF Nodes
    <2>3. h[i].owner \in {0} \cup 1 .. Len(h) /\ RefOK(h, i)
      BY <1>1 DEF HeapOK
    <2>4. QED
      BY <1>1, <2>1, <2>2, <2>3
  <1>3. QED
    BY <1>1, <1>2

(* h2 is h but for the node k, which keeps its UUID. *)
Changed(h, h2, k) ==
    /\ h2 \in Seq(Nodes) /\ Len(h2) = Len(h) /\ k \in 1 .. Len(h)
    /\ \A i \in 1 .. Len(h) : h2[i].uuid = h[i].uuid
    /\ \A i \in 1 .. Len(h) : i # k => h2[i] = h[i]

WithOwner(h, k, o) == [h EXCEPT ![k].owner = o]
WithRef(h, k, R)   == [h EXCEPT ![k].ref = R]

LEMMA ChangeOwner ==
    ASSUME NEW h \in Seq(Nodes), NEW k \in 1 .. Len(h), NEW o \in Nat, NEW h2,
           h2 = WithOwner(h, k, o)
    PROVE  Changed(h, h2, k) /\ h2[k].owner = o /\ h2[k].ref = h[k].ref
  <1>1. h[k] \in Nodes /\ Len(h) \in Nat /\ DOMAIN h = 1 .. Len(h)
    OBVIOUS
  <1> DEFINE n == [h[k] EXCEPT !.owner = o]
  <1>2. n \in Nodes /\ n.uuid = h[k].uuid /\ n.owner = o /\ n.ref = h[k].ref
    BY <1>1 DEF Nodes
  <1>3. h2 = [h EXCEPT ![k] = n]
    BY DEF WithOwner
  <1> HIDE DEF n
  <1>4. h2 \in Seq(Nodes) /\ Len(h2) = Len(h) /\ h2[k] = n
    BY <1>1, <1>2, <1>3
  <1>5. \A i \in 1 .. Len(h) : i # k => h2[i] = h[i]
    BY <1>1, <1>3
  <1>6. QED
    BY <1>2, <1>4, <1>5 DEF Changed

LEMMA ChangeRef ==
    ASSUME NEW h \in Seq(Nodes), NEW k \in 1 .. Len(h),
           NEW R \in SUBSET (Nat \cup (Nat \X Nat)), NEW h2,
           h2 = WithRef(h, k, R)
    PROVE  Changed(h, h2, k) /\ h2[k].ref = R /\ h2[k].owner = h[k].owner
  <1>1. h[k] \in Nodes /\ Len(h) \in Nat /\ DOMAIN h = 1 .. Len(h)
    OBVIOUS
  <1> DEFINE n == [h[k] EXCEPT !.ref = R]
  <1>2. n \in Nodes /\ n.uuid = h[k].uuid /\ n.ref = R /\ n.owner = h[k].owner
    BY <1>1 DEF Nodes
  <1>3. h2 = [h EXCEPT ![k] = n]
    BY DEF WithRef
  <1> HIDE DEF n
  <1>4. h2 \in Seq(Nodes) /\ Len(h2) = Len(h) /\ h2[k] = n
    BY <1>1, <1>2, <1>3
  <1>5. \A i \in 1 .. Len(h) : i # k => h2[i] = h[i]
    BY <1>1, <1>3
  <1>6. QED
    BY <1>2, <1>4, <1>5 DEF Changed

(* References stay good when no UUID changes. *)
LEMMA RefKept ==
    ASSUME NEW h, NEW h2, NEW i \in 1 .. Len(h), RefOK(h, i),
           DOMAIN h = 1 .. Len(h), DOMAIN h2 = 1 .. Len(h2),
           Len(h) \in Nat, Len(h2) \in Nat, Len(h) <= Len(h2),
           h2[i] = h[i], \A j \in 1 .. Len(h) : h2[j].uuid = h[j].uuid
    PROVE  RefOK(h2, i)
  <1>1. \A j \in DOMAIN h : j \in DOMAIN h2
    OBVIOUS
  <1>2. CASE h[i].uuid = Root
    BY <1>1, <1>2 DEF RefOK
  <1>3. CASE h[i].uuid # Root
    BY <1>1, <1>3 DEF RefOK
  <1>4. QED
    BY <1>2, <1>3

LEMMA ChangedHeapOK ==
    ASSUME NEW h, NEW h2, NEW k, HeapOK(h), Changed(h, h2, k),
           h2[k].owner \in 0 .. Len(h), RefOK(h2, k)
    PROVE  HeapOK(h2)
  <1>1. Len(h) \in Nat /\ DOMAIN h = 1 .. Len(h)
    BY HeapNode
  <1>2. h2 \in Seq(Nodes) /\ Len(h2) = Len(h) /\ DOMAIN h2 = 1 .. Len(h)
    BY DEF Changed
  <1>3. ASSUME NEW i \in 1 .. Len(h)
        PROVE  h2[i].owner \in {0} \cup 1 .. Len(h) /\ RefOK(h2, i)
    <2>1. CASE i = k
      BY <1>1, <2>1
    <2>2. CASE i # k
      <3>1. h2[i] = h[i]
        BY <2>2 DEF Changed
      <3>2. RefOK(h, i) /\ h[i].owner \in 0 .. Len(h)
        BY HeapNode
      <3>3. RefOK(h2, i)
        BY <1>1, <1>2, <3>1, <3>2, RefKept DEF Changed
      <3>4. QED
        BY <1>1, <3>1, <3>2, <3>3
    <2>3. QED
      BY <2>1, <2>2
  <1>4. QED
    BY <1>2, <1>3 DEF HeapOK

LEMMA ChangedMapOK ==
    ASSUME NEW h, NEW h2, NEW k, NEW map, HeapOK(h), MapOK(h, map), Changed(h, h2, k)
    PROVE  MapOK(h2, map)
  <1>1. DOMAIN h = 1 .. Len(h) /\ DOMAIN h2 = 1 .. Len(h)
    BY HeapNode DEF Changed
  <1>2. QED
    BY <1>1 DEF MapOK, Changed

LEMMA ChangedFresh ==
    ASSUME NEW h, NEW h2, NEW k, NEW map, NEW t, NEW st,
           HeapOK(h), Fresh(h, map, t, st), Changed(h, h2, k)
    PROVE  Fresh(h2, map, t, st)
  <1>1. DOMAIN h = 1 .. Len(h) /\ DOMAIN h2 = 1 .. Len(h)
    BY HeapNode DEF Changed
  <1>2. QED
    BY <1>1 DEF Fresh, Changed

-----------------------------------------------------------------------------

(* The first l nodes are the same in h and in h2. *)

Same(h, h2, l) == l <= Len(h2) /\ \A i \in 1 .. l : h2[i] = h[i]

LEMMA UpStays ==
    ASSUME NEW h, NEW h2, NEW l \in Nat, Closed(h, l), Same(h, h2, l), NEW i \in 1 .. l
    PROVE  UpOf(h, i) \in 1 .. l /\ UpOf(h2, i) = UpOf(h, i)
  <1>1. h[i].owner \in 0 .. l /\ h2[i] = h[i]
    BY DEF Closed, Same
  <1>2. CASE h[i].owner = 0
    BY <1>1, <1>2 DEF UpOf
  <1>3. CASE h[i].owner # 0
    BY <1>1, <1>3 DEF UpOf
  <1>4. QED
    BY <1>2, <1>3

LEMMA TopStays ==
    ASSUME NEW h, NEW h2, NEW l \in Nat, Closed(h, l), Same(h, h2, l), NEW i \in 1 .. l
    PROVE  TopOf(h2, i) = TopOf(h, i)
  <1> DEFINE a == UpOf(h, i)
             b == UpOf(h, a)
             c == UpOf(h, b)
  <1>1. a \in 1 .. l /\ UpOf(h2, i) = a
    BY UpStays
  <1> HIDE DEF a
  <1>2. b \in 1 .. l /\ UpOf(h2, a) = b
    BY <1>1, UpStays
  <1> HIDE DEF b
  <1>3. c \in 1 .. l /\ UpOf(h2, b) = c
    BY <1>2, UpStays
  <1> HIDE DEF c
  <1>4. UpOf(h2, c) = UpOf(h, c)
    BY <1>3, UpStays
  <1>5. TopOf(h, i) = UpOf(h, c)
    BY DEF TopOf, a, b, c
  <1>6. TopOf(h2, i) = UpOf(h2, c)
    BY <1>1, <1>2, <1>3 DEF TopOf
  <1>7. QED
    BY <1>4, <1>5, <1>6

LEMMA TopInside ==
    ASSUME NEW h, NEW l \in Nat, Closed(h, l), NEW i \in 1 .. l
    PROVE  TopOf(h, i) \in 1 .. l
  <1>1. Same(h, h, l)
    BY DEF Same, Closed
  <1>2. \A k \in 1 .. l : UpOf(h, k) \in 1 .. l
    BY <1>1, UpStays
  <1>3. QED
    BY <1>2, Zenon DEF TopOf

LEMMA WholeStays ==
    ASSUME NEW h, NEW h2, NEW l \in Nat, Closed(h, l), Same(h, h2, l)
    PROVE  Closed(h2, l) /\ \A i : Whole(h, i, l) => Whole(h2, i, l)
  <1>1. Closed(h2, l)
    BY DEF Closed, Same
  <1>2. ASSUME NEW i, Whole(h, i, l)
        PROVE  Whole(h2, i, l)
    <2>1. i \in 1 .. l /\ h2[i].uuid = Root
      BY <1>2 DEF Whole, Same
    <2>2. ASSUME NEW u \in Tree
          PROVE  \E n \in 1 .. l : h2[n].uuid = u /\ TopOf(h2, n) = i
      <3>1. PICK n \in 1 .. l : h[n].uuid = u /\ TopOf(h, n) = i
        BY <1>2, <2>2 DEF Whole
      <3>2. h2[n].uuid = u /\ TopOf(h2, n) = i
        BY <3>1, TopStays DEF Same
      <3>3. QED
        BY <3>2
    <2>3. QED
      BY <2>1, <2>2 DEF Whole
  <1>3. QED
    BY <1>1, <1>2

LEMMA WholeGrows ==
    ASSUME NEW h, NEW i, NEW l \in Nat, NEW n \in Nat, l <= n, Whole(h, i, l)
    PROVE  Whole(h, i, n)
  <1>1. \A k \in 1 .. l : k \in 1 .. n
    OBVIOUS
  <1>2. QED
    BY <1>1 DEF Whole

LEMMA ChangedSame ==
    ASSUME NEW h, NEW h2, NEW k, NEW l \in Nat, HeapOK(h), Closed(h, l), Changed(h, h2, k), k > l
    PROVE  Same(h, h2, l)
  <1>1. Len(h) \in Nat /\ l <= Len(h) /\ k \in 1 .. Len(h) /\ Len(h2) = Len(h)
    BY HeapNode DEF Closed, Changed
  <1>2. \A i \in 1 .. l : i \in 1 .. Len(h) /\ i # k
    BY <1>1
  <1>3. QED
    BY <1>1, <1>2 DEF Same, Changed

(* Where the owner of the node for u is the node for its owner, the uppermost
   owner is the node for the root. *)
LEMMA TopIsRoot ==
    ASSUME NEW h, NEW map, \A u \in Tree : map[u] # 0,
           h[map[Root]].owner = 0,
           \A u \in Tree \ {Root} : h[map[u]].owner = map[OwnerOf(u)],
           NEW u \in Tree
    PROVE  TopOf(h, map[u]) = map[Root]
  <1> DEFINE up(x) == IF x = Root THEN Root ELSE OwnerOf(x)
  <1>1. ASSUME NEW x \in Tree
        PROVE  /\ up(x) \in Tree /\ UpOf(h, map[x]) = map[up(x)]
               /\ Depth(x) = 0 \/ Depth(up(x)) = Depth(x) - 1
               /\ Depth(x) = 0 => up(x) = x
    <2>1. CASE x = Root
      BY <2>1, RootInTree DEF UpOf
    <2>2. CASE x # Root
      <3>1. OwnerOf(x) \in Tree /\ Depth(OwnerOf(x)) \in Nat /\ Depth(x) = Depth(OwnerOf(x)) + 1
        BY <2>2, OwnerInTree
      <3>2. h[map[x]].owner = map[OwnerOf(x)] /\ map[OwnerOf(x)] # 0
        BY <2>2, <3>1
      <3>3. UpOf(h, map[x]) = map[OwnerOf(x)]
        BY <3>2 DEF UpOf
      <3>4. QED
        BY <2>2, <3>1, <3>3
    <2>3. QED
      BY <2>1, <2>2
  <1> HIDE DEF up
  <1> DEFINE a == up(u)
             b == up(a)
             c == up(b)
             d == up(c)
  <1>2. /\ a \in Tree /\ UpOf(h, map[u]) = map[a]
        /\ Depth(u) = 0 \/ Depth(a) = Depth(u) - 1
        /\ Depth(u) = 0 => a = u
    BY <1>1
  <1> HIDE DEF a
  <1>3. /\ b \in Tree /\ UpOf(h, map[a]) = map[b]
        /\ Depth(a) = 0 \/ Depth(b) = Depth(a) - 1
        /\ Depth(a) = 0 => b = a
    BY <1>1, <1>2
  <1> HIDE DEF b
  <1>4. /\ c \in Tree /\ UpOf(h, map[b]) = map[c]
        /\ Depth(b) = 0 \/ Depth(c) = Depth(b) - 1
        /\ Depth(b) = 0 => c = b
    BY <1>1, <1>3
  <1> HIDE DEF c
  <1>5. /\ d \in Tree /\ UpOf(h, map[c]) = map[d]
        /\ Depth(c) = 0 \/ Depth(d) = Depth(c) - 1
        /\ Depth(c) = 0 => d = c
    BY <1>1, <1>4
  <1> HIDE DEF d
  <1>6. TopOf(h, map[u]) = map[d]
    BY <1>2, <1>3, <1>4, <1>5 DEF TopOf
  <1>7. Depth(d) = 0
    <2>1. Depth(u) \in 0 .. 4
      BY TreeNode
    <2>2. Depth(a) \in 0 .. 3
      BY <1>2, <2>1
    <2>3. Depth(b) \in 0 .. 2
      BY <1>3, <2>2
    <2>4. Depth(c) \in 0 .. 1
      BY <1>4, <2>3
    <2>5. QED
      BY <1>5, <2>4
  <1>8. QED
    BY <1>5, <1>6, <1>7, TreeNode

-----------------------------------------------------------------------------

(* The nodes made by the load that is under way. *)

LEMMA MadeNode ==
    ASSUME NEW h, NEW map, NEW t, NEW st,
           HeapOK(h), MapOK(h, map), StartOK(st), Fresh(h, map, t, st), NEW u \in Made(t)
    PROVE  /\ u \in Tree /\ u \in Uuid
           /\ map[u] \in 1 .. Len(h) /\ map[u] \in Nat /\ map[u] > st.len /\ map[u] # 0
           /\ h[map[u]].uuid = u
           /\ \A i \in DOMAIN h : i > st.len /\ h[i].uuid = u => i = map[u]
  <1>1. u \in Tree /\ u \in Uuid
    BY TreeNode DEF Made
  <1>2. map[u] > st.len /\ map[u] \in Nat /\ st.len \in Nat
    BY <1>1 DEF Fresh, MapOK, StartOK
  <1>3. map[u] # 0
    BY <1>2
  <1>4. map[u] \in DOMAIN h /\ h[map[u]].uuid = u
    BY <1>1, <1>3 DEF MapOK
  <1>5. \A i \in DOMAIN h : i > st.len /\ h[i].uuid = u => i = map[u]
    BY DEF Fresh
  <1>6. QED
    BY <1>1, <1>2, <1>3, <1>4, <1>5, HeapNode

LEMMA ObjIsNew ==
    ASSUME NEW t, HeapOK(heap), MapOK(heap, uuidMap), StartOK(start),
           Fresh(heap, uuidMap, t, start), NEW u \in Made(t)
    PROVE  Obj(u) = uuidMap[u] /\ New(u) = uuidMap[u]
  <1> DEFINE k == uuidMap[u]
  <1>1. /\ k \in DOMAIN heap /\ k \in Nat /\ k > start.len /\ heap[k].uuid = u
        /\ \A i \in DOMAIN heap : i > start.len /\ heap[i].uuid = u => i = k
    BY MadeNode, HeapNode
  <1>2. DOMAIN heap \subseteq Nat /\ start.len \in Nat
    BY HeapNode DEF StartOK
  <1> HIDE DEF k
  <1>3. \A j \in DOMAIN heap : heap[j].uuid = u => j <= k
    BY <1>1, <1>2
  <1>4. ASSUME NEW i \in DOMAIN heap, heap[i].uuid = u,
               \A j \in DOMAIN heap : heap[j].uuid = u => j <= i
        PROVE  i = k
    <2>1. k <= i /\ i <= k
      BY <1>1, <1>3, <1>4
    <2>2. QED
      BY <1>1, <1>2, <2>1
  <1>5. Obj(u) = k
    BY <1>1, <1>3, <1>4 DEF Obj
  <1>6. New(u) = k
    BY <1>1 DEF New
  <1>7. QED
    BY <1>5, <1>6 DEF k

-----------------------------------------------------------------------------

(* What references find. *)

LEMMA FoundIsGoal ==
    ASSUME NEW map, NEW st, NEW u, NEW R,
           \A r \in R : IF Backward(u, r) THEN map[r] # 0 ELSE map[r] = st.map[r]
    PROVE  /\ {map[r] : r \in R} \ {0} = Goal(map, st, u, R)
           /\ Findable(st, u, R) <=> \A r \in R : map[r] # 0
  <1>1. \A r \in R : Backward(u, r) => map[r] # 0
    OBVIOUS
  <1>2. \A r \in R : ~Backward(u, r) => map[r] = st.map[r]
    OBVIOUS
  <1>3. ASSUME NEW x
        PROVE  x \in {map[r] : r \in R} \ {0} <=> x \in Goal(map, st, u, R)
    <2>1. x \in Goal(map, st, u, R) <=>
            \/ \E r \in R : Backward(u, r) /\ x = map[r]
            \/ x # 0 /\ \E r \in R : ~Backward(u, r) /\ x = st.map[r]
      BY DEF Goal
    <2>2. x \in {map[r] : r \in R} \ {0} <=> x # 0 /\ \E r \in R : x = map[r]
      OBVIOUS
    <2>3. QED
      BY <1>1, <1>2, <2>1, <2>2
  <1>4. Findable(st, u, R) <=> \A r \in R : map[r] # 0
    BY <1>1, <1>2 DEF Findable
  <1>5. QED
    BY <1>3, <1>4

LEMMA GoalKept ==
    ASSUME NEW map, NEW map2, NEW st, NEW u, NEW R,
           \A r \in R : Backward(u, r) => map2[r] = map[r]
    PROVE  Goal(map2, st, u, R) = Goal(map, st, u, R)
  <1>1. ASSUME NEW x
        PROVE  x \in {map2[r] : r \in {y \in R : Backward(u, y)}} <=>
               x \in {map[r] : r \in {y \in R : Backward(u, y)}}
    OBVIOUS
  <1>2. {map2[r] : r \in {y \in R : Backward(u, y)}} = {map[r] : r \in {y \in R : Backward(u, y)}}
    BY <1>1
  <1>3. QED
    BY <1>2 DEF Goal

(* The names that a node may use are of nodes other than the root. *)
LEMMA NamedNode ==
    ASSUME NEW f, FileOK(f), NEW u \in Tree \ {Root}, NEW r \in f.ref[u]
    PROVE  /\ r \in Uuid /\ r # Root /\ Kind[r] \in Nameable(Kind[u]) /\ HasRef(u)
  <1>1. f.ref[u] \in SUBSET Uuid
    BY DEF FileOK
  <1>2. Kind[r] \in Nameable(Kind[u])
    BY DEF FileOK
  <1>3. r # Root /\ HasRef(u)
    BY <1>2, TreeAssumption DEF Nameable, HasRef
  <1>4. QED
    BY <1>1, <1>2, <1>3

LEMMA NameFound ==
    ASSUME NEW h, NEW map, NEW t, NEW st, NEW f, Sane(h, map, st, f), Fresh(h, map, t, st),
           Rest(t), t # <<>>, NEW u \in Tree \ {Root}, HasRef(u), Head(t) = RefStep(u),
           NEW r \in f.ref[u]
    PROVE  IF Backward(u, r) THEN map[r] # 0 ELSE map[r] = st.map[r]
  <1>1. r \in Uuid /\ r # Root /\ Kind[r] \in Nameable(Kind[u])
    BY NamedNode DEF Sane
  <1>2. CASE r \in Tree
    <2>1. IF Backward(u, r) THEN Before(LoadSteps, Step("create", r), RefStep(u))
                            ELSE Before(LoadSteps, RefStep(u), Step("create", r))
      BY <1>1, <1>2, LoadPlan DEF Plan
    <2>2. CASE Backward(u, r)
      <3>1. r \in Made(t)
        BY <1>2, <2>1, <2>2, NextStep DEF Made
      <3>2. QED
        BY <2>2, <3>1, MadeNode DEF Sane
    <2>3. CASE ~Backward(u, r)
      <3>1. r \notin Made(t)
        BY <2>1, <2>3, NextStep DEF Made
      <3>2. QED
        BY <1>1, <2>3, <3>1 DEF Fresh
    <2>4. QED
      BY <2>2, <2>3
  <1>3. CASE r \notin Tree
    <2>1. ~Backward(u, r) /\ r \notin Made(t)
      BY <1>3 DEF Backward, Made
    <2>2. QED
      BY <1>1, <2>1 DEF Fresh
  <1>4. QED
    BY <1>2, <1>3

LEMMA CreatedFirst ==
    ASSUME NEW t, Rest(t), t # <<>>, NEW u \in Tree \ {Root}, HasRef(u), Head(t) = RefStep(u)
    PROVE  u \in Made(t)
  <1>1. Before(LoadSteps, Step("create", u), RefStep(u))
    BY LoadPlan DEF Plan
  <1>2. QED
    BY <1>1, NextStep DEF Made

(* The nodes that the table has for names that u may use are good references. *)
LEMMA NamesRefOK ==
    ASSUME NEW h, NEW map, NEW st, NEW f, Sane(h, map, st, f), NEW u \in Tree \ {Root},
           NEW R, \A i \in R : i # 0 /\ \E r \in f.ref[u] : i = map[r]
    PROVE  /\ R \in SUBSET (Nat \cup (Nat \X Nat))
           /\ \A i \in R : i \in DOMAIN h /\ Kind[h[i].uuid] \in Nameable(Kind[u])
  <1>1. ASSUME NEW i \in R
        PROVE  i \in Nat /\ i \in DOMAIN h /\ Kind[h[i].uuid] \in Nameable(Kind[u])
    <2>1. PICK r \in f.ref[u] : i = map[r]
      OBVIOUS
    <2>2. r \in Uuid /\ Kind[r] \in Nameable(Kind[u])
      BY NamedNode DEF Sane
    <2>3. i # 0
      OBVIOUS
    <2>4. QED
      BY <2>1, <2>2, <2>3 DEF Sane, MapOK
  <1>2. QED
    BY <1>1

(* A change of the references of a node just made. *)
GoodRefs(h, u, R) ==
    /\ R \in SUBSET (Nat \cup (Nat \X Nat))
    /\ IF u = Root THEN R \subseteq (DOMAIN h) \X (DOMAIN h)
       ELSE \A i \in R : i \in DOMAIN h /\ Kind[h[i].uuid] \in Nameable(Kind[u])

LEMMA RefChange ==
    ASSUME NEW h, NEW map, NEW t, NEW st, NEW f,
           Sane(h, map, st, f), Reached(h, map, t, st, f), NEW u \in Made(t),
           NEW R, GoodRefs(h, u, R), NEW h2, h2 = WithRef(h, map[u], R)
    PROVE  /\ Sane(h2, map, st, f) /\ Closed(h2, st.len) /\ Same(h, h2, st.len)
           /\ Len(h2) = Len(h) /\ \A i : Whole(h, i, st.len) => Whole(h2, i, st.len)
           /\ Fresh(h2, map, t, st)
           /\ \A v \in Made(t) : h2[map[v]].owner = h[map[v]].owner
           /\ h2[map[u]].ref = R
           /\ \A v \in Made(t) : v # u => h2[map[v]].ref = h[map[v]].ref
  <1> DEFINE k == map[u]
  <1>1. HeapOK(h) /\ MapOK(h, map) /\ StartOK(st) /\ FileOK(f)
    BY DEF Sane
  <1>2. Closed(h, st.len) /\ Fresh(h, map, t, st) /\ st.len \in Nat
    BY <1>1 DEF Reached, StartOK
  <1>3. k \in 1 .. Len(h) /\ k \in Nat /\ k > st.len /\ h[k].uuid = u
    BY <1>1, <1>2, MadeNode
  <1>4. \A v \in Made(t) : map[v] \in 1 .. Len(h) /\ h[map[v]].uuid = v
    BY <1>1, <1>2, MadeNode
  <1>5. h2 = WithRef(h, k, R)
    OBVIOUS
  <1> HIDE DEF k
  <1>6. h \in Seq(Nodes)
    BY <1>1 DEF HeapOK
  <1>7. Changed(h, h2, k) /\ h2[k].ref = R /\ h2[k].owner = h[k].owner
    BY <1>3, <1>5, <1>6, ChangeRef DEF GoodRefs
  <1>8. RefOK(h2, k)
    <2>1. /\ DOMAIN h2 = DOMAIN h /\ DOMAIN h = 1 .. Len(h)
          /\ \A i \in 1 .. Len(h) : h2[i].uuid = h[i].uuid
      BY <1>1, <1>7, HeapNode DEF Changed
    <2>2. h2[k].uuid = u
      BY <1>3, <2>1
    <2>3. CASE u = Root
      BY <1>7, <2>1, <2>2, <2>3 DEF RefOK, GoodRefs
    <2>4. CASE u # Root
      BY <1>7, <2>1, <2>2, <2>4 DEF RefOK, GoodRefs
    <2>5. QED
      BY <2>3, <2>4
  <1>9. HeapOK(h2)
    BY <1>1, <1>3, <1>7, <1>8, ChangedHeapOK, HeapNode
  <1>10. MapOK(h2, map) /\ Fresh(h2, map, t, st)
    BY <1>1, <1>2, <1>7, ChangedMapOK, ChangedFresh
  <1>11. Same(h, h2, st.len)
    BY <1>1, <1>2, <1>3, <1>7, ChangedSame
  <1>12. Closed(h2, st.len) /\ \A i : Whole(h, i, st.len) => Whole(h2, i, st.len)
    BY <1>2, <1>11, WholeStays
  <1>13. \A v \in Made(t) : v # u => map[v] # k
    BY <1>3, <1>4
  <1>14. \A v \in Made(t) : v # u => h2[map[v]] = h[map[v]]
    BY <1>4, <1>7, <1>13 DEF Changed
  <1>15. \A v \in Made(t) : h2[map[v]].owner = h[map[v]].owner
    BY <1>7, <1>14 DEF k
  <1>16. Len(h2) = Len(h) /\ h2[map[u]].ref = R
    BY <1>7 DEF Changed, k
  <1>17. Sane(h2, map, st, f)
    BY <1>1, <1>9, <1>10 DEF Sane
  <1>18. QED
    BY <1>10, <1>11, <1>12, <1>14, <1>15, <1>16, <1>17

(* t2 is what is left after the step x. *)
Less(t, x, t2) == \A y : y \in ToSet(t2) <=> y \in ToSet(t) /\ y # x

LEMMA NothingMade ==
    ASSUME NEW t, NEW x, NEW t2, Less(t, x, t2), \A u : x # Step("create", u)
    PROVE  /\ Made(t2) = Made(t)
           /\ \A h, map, st : Fresh(h, map, t, st) => Fresh(h, map, t2, st)
  <1>1. Made(t2) = Made(t)
    BY DEF Less, Made
  <1>2. QED
    BY <1>1 DEF Fresh

LEMMA RefResolved ==
    ASSUME NEW h, NEW map, NEW t, NEW st, NEW f, NEW h2, NEW t2,
           Reached(h, map, t, st, f), NEW u \in Made(t), u # Root, HasRef(u),
           Less(t, RefStep(u), t2),
           Closed(h2, st.len), Fresh(h2, map, t, st),
           \A v \in Made(t) : h2[map[v]].owner = h[map[v]].owner,
           h2[map[u]].ref = Goal(map, st, u, f.ref[u]),
           \A v \in Made(t) : v # u => h2[map[v]].ref = h[map[v]].ref,
           Kind[u] # "Symbol" => Findable(st, u, f.ref[u])
    PROVE  Reached(h2, map, t2, st, f)
  <1>1. Made(t2) = Made(t) /\ Fresh(h2, map, t2, st)
    BY NothingMade, StepsDiffer
  <1>2. Owned(h2, map, t2)
    <2>1. Owned(h, map, t)
      BY DEF Reached
    <2>2. \A v : Step("attach", v) \in ToSet(t2) <=> Step("attach", v) \in ToSet(t)
      BY StepsDiffer DEF Less
    <2>3. ASSUME NEW v \in Made(t)
          PROVE  h2[map[v]].owner = IF v # Root /\ Step("attach", v) \notin ToSet(t2)
                                    THEN map[OwnerOf(v)] ELSE 0
      BY <2>1, <2>2 DEF Owned
    <2>4. QED
      BY <1>1, <2>3 DEF Owned
  <1>3. \A v : v # u => (Resolved(t2, v) <=> Resolved(t, v))
    BY StepsDiffer DEF Less, Resolved
  <1>4. Resolved(t2, u)
    BY DEF Less, Resolved
  <1>5. Cfg \in ToSet(t2) <=> Cfg \in ToSet(t)
    BY StepsDiffer DEF Less
  <1>6. Referred(h, map, t, st, f) /\ Passed(t, st, f)
    BY DEF Reached
  <1>7. Referred(h2, map, t2, st, f)
    <2>1. ASSUME NEW v \in Made(t) \ {Root}
          PROVE  h2[map[v]].ref = IF Resolved(t2, v) THEN Goal(map, st, v, f.ref[v]) ELSE {}
      <3>1. CASE v = u
        BY <1>4, <3>1
      <3>2. CASE v # u
        BY <1>3, <1>6, <3>2 DEF Referred
      <3>3. QED
        BY <3>1, <3>2
    <2>2. ASSUME Root \in Made(t)
          PROVE  h2[map[Root]].ref = IF Cfg \notin ToSet(t2) THEN GoalEdges(map, st, Joinable(f))
                                                             ELSE {}
      BY <1>5, <1>6, <2>2 DEF Referred
    <2>3. QED
      BY <1>1, <2>1, <2>2 DEF Referred
  <1>8. Passed(t2, st, f)
    <2>1. ASSUME NEW v \in Tree \ {Root}, Resolved(t2, v), Kind[v] # "Symbol"
          PROVE  Findable(st, v, f.ref[v])
      BY <1>3, <1>6, <2>1 DEF Passed
    <2>2. QED
      BY <1>1, <1>5, <1>6, <2>1 DEF Passed
  <1>9. QED
    BY <1>1, <1>2, <1>7, <1>8 DEF Reached

(* A node just made is handed to its owner. *)
LEMMA NodeAttached ==
    ASSUME NEW h, NEW map, NEW t, NEW st, NEW f, NEW h2, NEW t2,
           Sane(h, map, st, f), Reached(h, map, t, st, f),
           NEW u \in Made(t), u # Root, OwnerOf(u) \in Made(t), Less(t, Step("attach", u), t2),
           h2 = WithOwner(h, map[u], map[OwnerOf(u)])
    PROVE  /\ Sane(h2, map, st, f) /\ Same(h, h2, st.len) /\ Len(h2) = Len(h)
           /\ \A i : Whole(h, i, st.len) => Whole(h2, i, st.len)
           /\ Reached(h2, map, t2, st, f)
  <1> DEFINE k == map[u]
             o == map[OwnerOf(u)]
  <1>1. HeapOK(h) /\ MapOK(h, map) /\ StartOK(st) /\ FileOK(f)
    BY DEF Sane
  <1>2. Closed(h, st.len) /\ Fresh(h, map, t, st) /\ st.len \in Nat
    BY <1>1 DEF Reached, StartOK
  <1>3. /\ k \in 1 .. Len(h) /\ k \in Nat /\ k > st.len /\ h[k].uuid = u
        /\ o \in 1 .. Len(h) /\ o \in Nat
    BY <1>1, <1>2, MadeNode
  <1>4. \A v \in Made(t) : map[v] \in 1 .. Len(h) /\ h[map[v]].uuid = v
    BY <1>1, <1>2, MadeNode
  <1>5. h2 = WithOwner(h, k, o)
    OBVIOUS
  <1> HIDE DEF k, o
  <1>6. h \in Seq(Nodes) /\ Len(h) \in Nat
    BY <1>1, HeapNode DEF HeapOK
  <1>7. Changed(h, h2, k) /\ h2[k].owner = o /\ h2[k].ref = h[k].ref
    BY <1>3, <1>5, <1>6, ChangeOwner
  <1>8. RefOK(h2, k)
    <2>1. /\ DOMAIN h2 = DOMAIN h /\ DOMAIN h = 1 .. Len(h)
          /\ \A i \in 1 .. Len(h) : h2[i].uuid = h[i].uuid
      BY <1>1, <1>7, HeapNode DEF Changed
    <2>2. RefOK(h, k) /\ h2[k].uuid = h[k].uuid
      BY <1>1, <1>3, <2>1, HeapNode
    <2>3. CASE h[k].uuid = Root
      BY <1>7, <2>1, <2>2, <2>3 DEF RefOK
    <2>4. CASE h[k].uuid # Root
      BY <1>7, <2>1, <2>2, <2>4 DEF RefOK
    <2>5. QED
      BY <2>3, <2>4
  <1>9. HeapOK(h2)
    <2>1. h2[k].owner \in 0 .. Len(h)
      BY <1>3, <1>6, <1>7
    <2>2. QED
      BY <1>1, <1>7, <1>8, <2>1, ChangedHeapOK
  <1>10. MapOK(h2, map) /\ Fresh(h2, map, t, st)
    BY <1>1, <1>2, <1>7, ChangedMapOK, ChangedFresh
  <1>11. Same(h, h2, st.len)
    BY <1>1, <1>2, <1>3, <1>7, ChangedSame
  <1>12. Closed(h2, st.len) /\ \A i : Whole(h, i, st.len) => Whole(h2, i, st.len)
    BY <1>2, <1>11, WholeStays
  <1>13. \A v \in Made(t) : v # u => map[v] # k
    BY <1>3, <1>4
  <1>14. \A v \in Made(t) : v # u => h2[map[v]] = h[map[v]]
    BY <1>4, <1>7, <1>13 DEF Changed
  <1>15. \A v \in Made(t) : h2[map[v]].ref = h[map[v]].ref
    BY <1>7, <1>14 DEF k
  <1>16. Made(t2) = Made(t) /\ Fresh(h2, map, t2, st)
    BY <1>10, NothingMade, StepsDiffer
  <1>17. Owned(h2, map, t2)
    <2>1. Owned(h, map, t)
      BY DEF Reached
    <2>2. \A v : v # u => (Step("attach", v) \in ToSet(t2) <=> Step("attach", v) \in ToSet(t))
      BY StepsDiffer DEF Less
    <2>3. ASSUME NEW v \in Made(t)
          PROVE  h2[map[v]].owner = IF v # Root /\ Step("attach", v) \notin ToSet(t2)
                                    THEN map[OwnerOf(v)] ELSE 0
      <3>1. CASE v = u
        <4>1. Step("attach", u) \notin ToSet(t2)
          BY DEF Less
        <4>2. QED
          BY <1>7, <3>1, <4>1 DEF k, o
      <3>2. CASE v # u
        BY <1>14, <2>1, <2>2, <3>2 DEF Owned
      <3>3. QED
        BY <3>1, <3>2
    <2>4. QED
      BY <1>16, <2>3 DEF Owned
  <1>18. \A v : Resolved(t2, v) <=> Resolved(t, v)
    BY StepsDiffer DEF Less, Resolved
  <1>19. Cfg \in ToSet(t2) <=> Cfg \in ToSet(t)
    BY StepsDiffer DEF Less
  <1>20. Referred(h, map, t, st, f) /\ Passed(t, st, f)
    BY DEF Reached
  <1>21. Referred(h2, map, t2, st, f)
    BY <1>15, <1>16, <1>18, <1>19, <1>20 DEF Referred
  <1>22. Passed(t2, st, f)
    BY <1>16, <1>18, <1>19, <1>20 DEF Passed
  <1>23. Reached(h2, map, t2, st, f)
    BY <1>12, <1>16, <1>17, <1>21, <1>22 DEF Reached
  <1>24. Sane(h2, map, st, f)
    BY <1>1, <1>9, <1>10 DEF Sane
  <1>25. QED
    BY <1>7, <1>11, <1>12, <1>23, <1>24 DEF Changed

(* A node is made. *)
NewNode(u)             == [uuid |-> u, owner |-> 0, ref |-> {}]
WithNode(h, u)         == Append(h, NewNode(u))
Registered(map, u, k) == [map EXCEPT ![u] = k]

LEMMA AppendedNode ==
    ASSUME NEW h, HeapOK(h), NEW u \in Uuid, NEW h2,
           h2 = WithNode(h, u)
    PROVE  /\ HeapOK(h2) /\ Len(h2) = Len(h) + 1
           /\ \A i \in 1 .. Len(h) : h2[i] = h[i]
           /\ h2[Len(h) + 1].uuid = u /\ h2[Len(h) + 1].owner = 0 /\ h2[Len(h) + 1].ref = {}
  <1> DEFINE n == NewNode(u)
             l == Len(h)
  <1>1. n \in Nodes /\ n.uuid = u /\ n.owner = 0 /\ n.ref = {}
    BY DEF Nodes, NewNode
  <1>2. h \in Seq(Nodes) /\ l \in Nat /\ DOMAIN h = 1 .. l
    BY HeapNode DEF HeapOK
  <1>3. h2 = Append(h, n)
    BY DEF WithNode
  <1> HIDE DEF n
  <1>4. /\ h2 \in Seq(Nodes) /\ Len(h2) = l + 1 /\ h2[l + 1] = n
        /\ \A i \in 1 .. l : h2[i] = h[i]
    BY <1>1, <1>2, <1>3
  <1> HIDE DEF l
  <1>5. DOMAIN h2 = 1 .. l + 1 /\ Len(h2) \in Nat
    BY <1>2, <1>4
  <1>6. ASSUME NEW i \in 1 .. l + 1
        PROVE  h2[i].owner \in {0} \cup 1 .. l + 1 /\ RefOK(h2, i)
    <2>1. CASE i = l + 1
      BY <1>1, <1>4, <2>1 DEF RefOK
    <2>2. CASE i # l + 1
      <3>1. i \in 1 .. l /\ l <= Len(h2)
        BY <1>2, <1>4, <2>2
      <3>2. h[i].owner \in 0 .. l /\ RefOK(h, i)
        BY <3>1, HeapNode DEF l
      <3>3. RefOK(h2, i)
        BY <1>2, <1>4, <1>5, <3>1, <3>2, RefKept DEF l
      <3>4. QED
        BY <1>2, <1>4, <3>1, <3>2, <3>3
    <2>3. QED
      BY <2>1, <2>2
  <1>7. HeapOK(h2)
    BY <1>4, <1>5, <1>6 DEF HeapOK
  <1>8. QED
    BY <1>1, <1>4, <1>7 DEF l

Creates(h, map, t, st, f, u, h2, map2, t2) ==
    /\ Sane(h, map, st, f) /\ Reached(h, map, t, st, f)
    /\ Rest(t) /\ t # <<>> /\ u \in Tree /\ Head(t) = Step("create", u) /\ u \notin f.bad
    /\ t2 = Tail(t) /\ h2 = WithNode(h, u) /\ map2 = Registered(map, u, Len(h) + 1)

LEMMA NodeCreated ==
    ASSUME NEW h, NEW map, NEW t, NEW st, NEW f, NEW u, NEW h2, NEW map2, NEW t2,
           Creates(h, map, t, st, f, u, h2, map2, t2)
    PROVE  /\ Sane(h2, map2, st, f) /\ Same(h, h2, st.len)
           /\ \A i : Whole(h, i, st.len) => Whole(h2, i, st.len)
           /\ Reached(h2, map2, t2, st, f)
  <1>0. /\ Sane(h, map, st, f) /\ Reached(h, map, t, st, f)
        /\ Rest(t) /\ t # <<>> /\ u \in Tree /\ Head(t) = Step("create", u) /\ u \notin f.bad
        /\ t2 = Tail(t) /\ h2 = WithNode(h, u) /\ map2 = Registered(map, u, Len(h) + 1)
    BY DEF Creates
  <1> USE <1>0
  <1> DEFINE l == Len(h)
             k == l + 1
  <1>1. HeapOK(h) /\ MapOK(h, map) /\ StartOK(st) /\ FileOK(f) /\ u \in Uuid
    BY TreeNode DEF Sane
  <1>2. Closed(h, st.len) /\ Fresh(h, map, t, st) /\ st.len \in Nat
    BY <1>1 DEF Reached, StartOK
  <1>3. l \in Nat /\ DOMAIN h = 1 .. l /\ st.len <= l
    BY <1>1, <1>2, HeapNode DEF Closed
  <1>4. HeapOK(h2) /\ Len(h2) = k /\ \A i \in 1 .. l : h2[i] = h[i]
    BY <1>1, AppendedNode
  <1>5. h2[k].uuid = u /\ h2[k].owner = 0 /\ h2[k].ref = {}
    BY <1>1, AppendedNode
  <1>6. /\ map \in [Uuid -> Nat] /\ map2 \in [Uuid -> Nat] /\ map2[u] = k
        /\ \A v \in Uuid : v # u => map2[v] = map[v]
    BY <1>1, <1>3 DEF MapOK, Registered
  <1>7. DOMAIN h2 = 1 .. k
    BY <1>4, HeapNode
  <1> HIDE DEF l
  <1>8. k \in Nat /\ k > st.len /\ k # 0 /\ k \in 1 .. k /\ k \notin 1 .. l
        /\ l <= k /\ \A i \in 1 .. k : i = k \/ i \in 1 .. l
    BY <1>2, <1>3
  <1> HIDE DEF k
  <1>9. MapOK(h2, map2)
    <2>1. ASSUME NEW v \in Uuid, map2[v] # 0
          PROVE  map2[v] \in 1 .. k /\ h2[map2[v]].uuid = v
      <3>1. CASE v = u
        BY <1>5, <1>6, <1>8, <3>1
      <3>2. CASE v # u
        <4>1. map2[v] \in 1 .. l /\ h[map2[v]].uuid = v
          BY <1>1, <1>3, <1>6, <2>1, <3>2 DEF MapOK
        <4>2. map2[v] \in 1 .. k
          BY <1>3, <1>8, <4>1
        <4>3. QED
          BY <1>4, <4>1, <4>2
      <3>3. QED
        BY <3>1, <3>2
    <2>2. QED
      BY <1>6, <1>7, <2>1 DEF MapOK
  <1>10. Same(h, h2, st.len)
    <2>1. \A i \in 1 .. st.len : i \in 1 .. l
      BY <1>2, <1>3
    <2>2. st.len <= k
      BY <1>2, <1>8
    <2>3. QED
      BY <1>4, <2>1, <2>2 DEF Same
  <1>11. Closed(h2, st.len) /\ \A i : Whole(h, i, st.len) => Whole(h2, i, st.len)
    BY <1>2, <1>10, WholeStays
  <1>12. /\ Less(t, Step("create", u), t2)
         /\ \A x : Before(LoadSteps, Step("create", u), x) => x \in ToSet(t2)
         /\ Step("create", u) \in ToSet(t)
    BY NextStep DEF Less
  <1>13. u \notin Made(t) /\ \A v : v \in Made(t2) <=> v \in Made(t) \/ v = u
    BY <1>12, StepsDiffer DEF Less, Made
  <1>14. \A v \in Made(t) : /\ v \in Tree /\ v # u /\ map2[v] = map[v]
                            /\ h2[map2[v]] = h[map[v]]
    <2> TAKE v \in Made(t)
    <2>1. v \in Tree /\ v \in Uuid /\ map[v] \in 1 .. l
      BY <1>1, <1>2, MadeNode DEF l
    <2>2. v # u
      BY <1>13
    <2>3. QED
      BY <1>4, <1>6, <2>1, <2>2
  <1>15. Fresh(h2, map2, t2, st)
    <2>1. ASSUME NEW i \in 1 .. k, i > st.len
          PROVE  h2[i].uuid \in Made(t2) /\ map2[h2[i].uuid] = i
      <3>1. CASE i = k
        BY <1>5, <1>6, <1>13, <3>1
      <3>2. CASE i \in 1 .. l
        <4>1. h[i].uuid \in Made(t) /\ map[h[i].uuid] = i
          BY <1>2, <1>3, <2>1, <3>2 DEF Fresh
        <4>2. QED
          BY <1>4, <1>13, <1>14, <3>2, <4>1
      <3>3. QED
        BY <1>8, <3>1, <3>2
    <2>2. ASSUME NEW v \in Uuid
          PROVE  IF v \in Made(t2) THEN map2[v] > st.len ELSE map2[v] = st.map[v]
      <3>1. CASE v = u
        BY <1>6, <1>8, <1>13, <3>1
      <3>2. CASE v # u
        BY <1>2, <1>6, <1>13, <3>2 DEF Fresh
      <3>3. QED
        BY <3>1, <3>2
    <2>3. QED
      BY <1>7, <2>1, <2>2 DEF Fresh
  <1>16. Owned(h2, map2, t2)
    <2>1. Owned(h, map, t)
      BY DEF Reached
    <2>2. \A v : Step("attach", v) \in ToSet(t2) <=> Step("attach", v) \in ToSet(t)
      BY <1>12, StepsDiffer DEF Less
    <2>3. ASSUME NEW v \in Made(t2)
          PROVE  h2[map2[v]].owner = IF v # Root /\ Step("attach", v) \notin ToSet(t2)
                                     THEN map2[OwnerOf(v)] ELSE 0
      <3>1. CASE v = u
        <4>1. u # Root => Step("attach", u) \in ToSet(t2)
          BY <1>12, LoadPlan DEF Plan
        <4>2. QED
          BY <1>5, <1>6, <3>1, <4>1
      <3>2. CASE v # u
        <4>1. v \in Made(t) /\ v \in Tree /\ h2[map2[v]] = h[map[v]]
          BY <1>13, <1>14, <3>2
        <4>2. h[map[v]].owner = IF v # Root /\ Step("attach", v) \notin ToSet(t)
                                THEN map[OwnerOf(v)] ELSE 0
          BY <2>1, <4>1 DEF Owned
        <4>3. CASE v # Root /\ Step("attach", v) \notin ToSet(t2)
          <5>1. Before(LoadSteps, Step("create", OwnerOf(v)), Step("attach", v))
            BY <4>1, <4>3, LoadPlan DEF Plan
          <5>2. OwnerOf(v) # u
            BY <1>12, <4>3, <5>1
          <5>3. OwnerOf(v) \in Uuid
            BY <4>1, <4>3, OwnerInTree, TreeNode
          <5>4. map2[OwnerOf(v)] = map[OwnerOf(v)]
            BY <1>6, <5>2, <5>3
          <5>5. QED
            BY <2>2, <4>1, <4>2, <4>3, <5>4
        <4>4. CASE ~(v # Root /\ Step("attach", v) \notin ToSet(t2))
          BY <2>2, <4>1, <4>2, <4>4
        <4>5. QED
          BY <4>3, <4>4
      <3>3. QED
        BY <3>1, <3>2
    <2>4. QED
      BY <2>3 DEF Owned
  <1>17. \A v : Resolved(t2, v) <=> Resolved(t, v)
    BY <1>12, StepsDiffer DEF Less, Resolved
  <1>18. Cfg \in ToSet(t2) /\ Cfg \in ToSet(t)
    <2>1. Before(LoadSteps, Step("create", u), Cfg)
      BY LoadPlan, StepOfNode, StepsDiffer DEF Plan
    <2>2. QED
      BY <1>12, <2>1 DEF Less
  <1>19. Referred(h, map, t, st, f) /\ Passed(t, st, f)
    BY DEF Reached
  <1>20. Referred(h2, map2, t2, st, f)
    <2>1. ASSUME NEW v \in Made(t2) \ {Root}
          PROVE  h2[map2[v]].ref = IF Resolved(t2, v) THEN Goal(map2, st, v, f.ref[v]) ELSE {}
      <3>1. CASE v = u
        <4>1. ~Resolved(t2, u)
          BY <1>12, <2>1, <3>1, LoadPlan DEF Plan, Resolved
        <4>2. QED
          BY <1>5, <1>6, <3>1, <4>1
      <3>2. CASE v # u
        <4>1. v \in Made(t) \ {Root} /\ v \in Tree /\ h2[map2[v]] = h[map[v]]
          BY <1>13, <1>14, <2>1, <3>2
        <4>2. h[map[v]].ref = IF Resolved(t, v) THEN Goal(map, st, v, f.ref[v]) ELSE {}
          BY <1>19, <4>1 DEF Referred
        <4>3. CASE Resolved(t2, v)
          <5>1. ASSUME NEW r \in f.ref[v], Backward(v, r)
                PROVE  map2[r] = map[r]
            <6>1. r \in Uuid /\ r # Root /\ Kind[r] \in Nameable(Kind[v]) /\ r \in Tree
              BY <1>1, <4>1, <5>1, NamedNode DEF Backward
            <6>2. Before(LoadSteps, Step("create", r), RefStep(v))
              BY <4>1, <5>1, <6>1, LoadPlan DEF Plan
            <6>3. r # u
              BY <1>12, <4>3, <6>2 DEF Resolved
            <6>4. QED
              BY <1>6, <6>1, <6>3
          <5>2. Goal(map2, st, v, f.ref[v]) = Goal(map, st, v, f.ref[v])
            <6> DEFINE R == f.ref[v]
            <6>1. \A r \in R : Backward(v, r) => map2[r] = map[r]
              BY <5>1
            <6> HIDE DEF R
            <6>2. Goal(map2, st, v, R) = Goal(map, st, v, R)
              BY <6>1, GoalKept
            <6>3. QED
              BY <6>2 DEF R
          <5>3. QED
            BY <1>17, <4>1, <4>2, <4>3, <5>2
        <4>4. CASE ~Resolved(t2, v)
          BY <1>17, <4>1, <4>2, <4>4
        <4>5. QED
          BY <4>3, <4>4
      <3>3. QED
        BY <3>1, <3>2
    <2>2. ASSUME Root \in Made(t2)
          PROVE  h2[map2[Root]].ref = {}
      <3>1. CASE u = Root
        BY <1>5, <1>6, <3>1
      <3>2. CASE u # Root
        BY <1>13, <1>14, <1>18, <1>19, <2>2, <3>2 DEF Referred
      <3>3. QED
        BY <3>1, <3>2
    <2>3. QED
      BY <1>18, <2>1, <2>2 DEF Referred
  <1>21. Passed(t2, st, f)
    BY <1>13, <1>17, <1>18, <1>19 DEF Passed
  <1>22. Sane(h2, map2, st, f)
    BY <1>1, <1>4, <1>9 DEF Sane
  <1>23. Reached(h2, map2, t2, st, f)
    BY <1>11, <1>15, <1>16, <1>20, <1>21 DEF Reached
  <1>24. QED
    BY <1>4, <1>8, <1>10, <1>11, <1>22, <1>23 DEF l

-----------------------------------------------------------------------------

(* The steps of a load. *)

LEMMA LoadIsUnderWay ==
    ASSUME LoadInv, status = "loading"
    PROVE  /\ Sane(heap, uuidMap, start, file) /\ Rest(task) /\ task # <<>>
           /\ Reached(heap, uuidMap, task, start, file)
           /\ \A i \in irs : Whole(heap, i, start.len)
           /\ start.len \in Nat
  BY DEF LoadInv, General, UnderWay, Sane, StartOK

LEMMA AnotherStep ==
    ASSUME NEW t, Rest(t), t # <<>>, Head(t) # Version
    PROVE  Tail(t) # <<>>
  <1>1. Head(t) \in ToSet(LoadSteps)
    BY NextStep
  <1>2. Before(LoadSteps, Head(t), Version)
    BY <1>1, LoadPlan DEF Plan
  <1>3. Version \in ToSet(Tail(t))
    BY <1>2, NextStep
  <1>4. QED
    BY <1>3, EmptyLine

LEMMA Proceeds ==
    ASSUME LoadInv, status = "loading", Head(task) # Version, Proceed,
           UNCHANGED <<file, start, loads>>,
           Sane(heap', uuidMap', start, file),
           \A i : Whole(heap, i, start.len) => Whole(heap', i, start.len),
           Reached(heap', uuidMap', Tail(task), start, file)
    PROVE  LoadInv'
  <1>1. /\ task' = Tail(task) /\ status' = status /\ irs' = irs
        /\ file' = file /\ start' = start
    BY DEF Proceed
  <1>2. Rest(task) /\ task # <<>> /\ start.len \in Nat /\ \A i \in irs : Whole(heap, i, start.len)
    BY LoadIsUnderWay
  <1>3. Rest(task') /\ task' # <<>>
    BY <1>1, <1>2, AnotherStep, NextStep
  <1>4. \A i \in irs' : Whole(heap', i, start'.len)
    BY <1>1, <1>2
  <1>5. start.len <= Len(heap') /\ Len(heap') \in Nat
    BY HeapNode DEF Sane, Reached, Closed
  <1>6. \A i \in irs' : Whole(heap', i, Len(heap'))
    BY <1>1, <1>2, <1>4, <1>5, WholeGrows
  <1>7. General'
    BY <1>1, <1>6 DEF General
  <1>8. UnderWay'
    BY <1>1 DEF UnderWay
  <1>9. QED
    BY <1>1, <1>3, <1>4, <1>7, <1>8 DEF LoadInv

LEMMA Fails ==
    ASSUME LoadInv, status = "loading", Fail,
           UNCHANGED <<file, start, loads>>,
           Sane(heap', uuidMap', start, file), Closed(heap', start.len),
           \A i : Whole(heap, i, start.len) => Whole(heap', i, start.len),
           ~Loadable
    PROVE  LoadInv'
  <1>1. /\ task' = <<>> /\ status' = "failed" /\ irs' = irs
        /\ file' = file /\ start' = start
    BY DEF Fail
  <1>2. start.len \in Nat /\ \A i \in irs : Whole(heap, i, start.len)
    BY LoadIsUnderWay
  <1>3. start.len <= Len(heap') /\ Len(heap') \in Nat
    BY HeapNode DEF Sane, Closed
  <1>4. \A i \in irs' : Whole(heap', i, Len(heap'))
    BY <1>1, <1>2, <1>3, WholeGrows
  <1>5. General'
    BY <1>1, <1>4 DEF General
  <1>6. ~Loadable'
    BY <1>1 DEF Loadable
  <1>7. QED
    BY <1>1, <1>5, <1>6 DEF LoadInv

LEMMA CreateNodeStep ==
    ASSUME LoadInv, NEW u, CreateNode(u)
    PROVE  LoadInv' /\ Same(heap, heap', start.len)
  <1>1. /\ status = "loading" /\ Head(task) = Step("create", u)
        /\ UNCHANGED <<file, start, loads>>
    BY DEF CreateNode, Doing
  <1>2. /\ Sane(heap, uuidMap, start, file) /\ Rest(task) /\ task # <<>>
        /\ Reached(heap, uuidMap, task, start, file) /\ start.len \in Nat
    BY <1>1, LoadIsUnderWay
  <1>3. u \in Tree /\ Head(task) # Version
    <2>1. Step("create", u) \in ToSet(LoadSteps)
      BY <1>1, <1>2, NextStep
    <2>2. QED
      BY <1>1, <2>1, StepsOfLoad, StepsDiffer
  <1>4. CASE u \in file.bad
    <2>1. Fail /\ heap' = heap /\ uuidMap' = uuidMap
      BY <1>4 DEF CreateNode
    <2>2. ~Loadable
      BY <1>4 DEF Loadable
    <2>3. Closed(heap, start.len)
      BY <1>2 DEF Reached
    <2>4. Same(heap, heap', start.len)
      BY <2>1, <2>3 DEF Same, Closed
    <2>5. QED
      BY <1>1, <1>2, <2>1, <2>2, <2>3, <2>4, Fails
  <1>5. CASE u \notin file.bad
    <2>1. /\ heap' = WithNode(heap, u) /\ Proceed
          /\ uuidMap' = Registered(uuidMap, u, Len(heap) + 1)
      BY <1>5 DEF CreateNode, registerNode, WithNode, NewNode, Registered
    <2>2. /\ Sane(heap', uuidMap', start, file) /\ Same(heap, heap', start.len)
          /\ \A i : Whole(heap, i, start.len) => Whole(heap', i, start.len)
          /\ Reached(heap', uuidMap', Tail(task), start, file)
      <3>1. Creates(heap, uuidMap, task, start, file, u, heap', uuidMap', Tail(task))
        BY <1>1, <1>2, <1>3, <1>5, <2>1 DEF Creates
      <3>2. QED
        BY <3>1, NodeCreated
    <2>3. QED
      BY <1>1, <1>3, <2>1, <2>2, Proceeds
  <1>6. QED
    BY <1>4, <1>5

LEMMA AttachStep ==
    ASSUME LoadInv, NEW u, Attach(u)
    PROVE  LoadInv' /\ Same(heap, heap', start.len)
  <1>1. /\ status = "loading" /\ Head(task) = Step("attach", u)
        /\ UNCHANGED <<file, start, loads>> /\ Proceed /\ uuidMap' = uuidMap
        /\ heap' = WithOwner(heap, Obj(u), Obj(OwnerOf(u)))
    BY DEF Attach, Doing, WithOwner
  <1>2. /\ Sane(heap, uuidMap, start, file) /\ Rest(task) /\ task # <<>>
        /\ Reached(heap, uuidMap, task, start, file)
    BY <1>1, LoadIsUnderWay
  <1>3. u \in Tree \ {Root} /\ Head(task) # Version
    <2>1. Step("attach", u) \in ToSet(LoadSteps)
      BY <1>1, <1>2, NextStep
    <2>2. QED
      BY <1>1, <2>1, StepsOfLoad, StepsDiffer
  <1>4. u \in Made(task) /\ OwnerOf(u) \in Made(task)
    <2>1. /\ Before(LoadSteps, Step("create", u), Step("attach", u))
          /\ Before(LoadSteps, Step("create", OwnerOf(u)), Step("attach", u))
      BY <1>3, LoadPlan DEF Plan
    <2>2. OwnerOf(u) \in Tree
      BY <1>3, OwnerInTree
    <2>3. QED
      BY <1>1, <1>2, <1>3, <2>1, <2>2, NextStep DEF Made
  <1>5. Obj(u) = uuidMap[u] /\ Obj(OwnerOf(u)) = uuidMap[OwnerOf(u)]
    BY <1>2, <1>4, ObjIsNew DEF Sane, Reached
  <1>6. heap' = WithOwner(heap, uuidMap[u], uuidMap[OwnerOf(u)])
    BY <1>1, <1>5
  <1>7. Less(task, Step("attach", u), Tail(task))
    BY <1>1, <1>2, NextStep DEF Less
  <1>8. /\ Sane(heap', uuidMap, start, file) /\ Same(heap, heap', start.len)
        /\ \A i : Whole(heap, i, start.len) => Whole(heap', i, start.len)
        /\ Reached(heap', uuidMap, Tail(task), start, file)
    BY <1>2, <1>3, <1>4, <1>6, <1>7, NodeAttached
  <1>9. QED
    BY <1>1, <1>3, <1>8, Proceeds

(* The step that looks up the references of u. *)
RefDue(u) ==
    /\ status = "loading" /\ Head(task) = RefStep(u) /\ u \in Tree \ {Root} /\ HasRef(u)
    /\ UNCHANGED <<file, start, loads>> /\ uuidMap' = uuidMap

LEMMA RefDueFacts ==
    ASSUME LoadInv, NEW u, RefDue(u)
    PROVE  /\ Sane(heap, uuidMap, start, file) /\ Rest(task) /\ task # <<>>
           /\ Reached(heap, uuidMap, task, start, file) /\ u \in Made(task)
           /\ Obj(u) = uuidMap[u]
           /\ Found(file.ref[u]) = Goal(uuidMap, start, u, file.ref[u])
           /\ Findable(start, u, file.ref[u]) <=> \A r \in file.ref[u] : uuidMap[r] # 0
  <1>1. /\ status = "loading" /\ Head(task) = RefStep(u) /\ u \in Tree \ {Root} /\ HasRef(u)
    BY DEF RefDue
  <1>2. /\ Sane(heap, uuidMap, start, file) /\ Rest(task) /\ task # <<>>
        /\ Reached(heap, uuidMap, task, start, file)
        /\ Fresh(heap, uuidMap, task, start)
    BY <1>1, LoadIsUnderWay DEF Reached
  <1>3. u \in Made(task)
    BY <1>1, <1>2, CreatedFirst
  <1>4. Obj(u) = uuidMap[u]
    BY <1>2, <1>3, ObjIsNew DEF Sane
  <1> DEFINE R == file.ref[u]
  <1>5. \A r \in R : IF Backward(u, r) THEN uuidMap[r] # 0 ELSE uuidMap[r] = start.map[r]
    BY <1>1, <1>2, NameFound
  <1> HIDE DEF R
  <1>6. /\ {uuidMap[r] : r \in R} \ {0} = Goal(uuidMap, start, u, R)
        /\ Findable(start, u, R) <=> \A r \in R : uuidMap[r] # 0
    BY <1>5, FoundIsGoal
  <1>7. QED
    BY <1>2, <1>3, <1>4, <1>6 DEF Found, R

(* The references found, or some of them, are stored. *)
LEMMA RefsStored ==
    ASSUME LoadInv, NEW u, RefDue(u), NEW R \in SUBSET Found(file.ref[u]),
           heap' = WithRef(heap, uuidMap[u], R)
    PROVE  /\ Sane(heap', uuidMap, start, file) /\ Same(heap, heap', start.len)
           /\ Closed(heap', start.len)
           /\ \A i : Whole(heap, i, start.len) => Whole(heap', i, start.len)
           /\ R = Goal(uuidMap, start, u, file.ref[u])
                /\ (Kind[u] # "Symbol" => Findable(start, u, file.ref[u]))
              => Reached(heap', uuidMap, Tail(task), start, file)
  <1>1. /\ Sane(heap, uuidMap, start, file) /\ Rest(task) /\ task # <<>>
        /\ Reached(heap, uuidMap, task, start, file) /\ u \in Made(task)
    BY RefDueFacts
  <1>2. Head(task) = RefStep(u) /\ u \in Tree \ {Root} /\ u # Root /\ HasRef(u)
    BY DEF RefDue
  <1>3. \A i \in R : i # 0 /\ \E r \in file.ref[u] : i = uuidMap[r]
    BY DEF Found
  <1>4. /\ R \in SUBSET (Nat \cup (Nat \X Nat))
        /\ \A i \in R : i \in DOMAIN heap /\ Kind[heap[i].uuid] \in Nameable(Kind[u])
    BY <1>1, <1>2, <1>3, NamesRefOK
  <1>5. GoodRefs(heap, u, R)
    BY <1>2, <1>4 DEF GoodRefs
  <1>6. /\ Sane(heap', uuidMap, start, file) /\ Closed(heap', start.len)
        /\ Same(heap, heap', start.len)
        /\ \A i : Whole(heap, i, start.len) => Whole(heap', i, start.len)
        /\ Fresh(heap', uuidMap, task, start)
        /\ \A v \in Made(task) : heap'[uuidMap[v]].owner = heap[uuidMap[v]].owner
        /\ heap'[uuidMap[u]].ref = R
        /\ \A v \in Made(task) : v # u => heap'[uuidMap[v]].ref = heap[uuidMap[v]].ref
    BY <1>1, <1>5, RefChange
  <1>7. Less(task, RefStep(u), Tail(task))
    BY <1>1, <1>2, NextStep DEF Less
  <1>8. ASSUME R = Goal(uuidMap, start, u, file.ref[u]),
               Kind[u] # "Symbol" => Findable(start, u, file.ref[u])
        PROVE  Reached(heap', uuidMap, Tail(task), start, file)
    BY <1>1, <1>2, <1>6, <1>7, <1>8, RefResolved
  <1>9. QED
    BY <1>6, <1>8

LEMMA RefsProceed ==
    ASSUME LoadInv, NEW u, RefDue(u), heap' = WithRef(heap, uuidMap[u], Found(file.ref[u])),
           Proceed, Kind[u] # "Symbol" => \A r \in file.ref[u] : uuidMap[r] # 0
    PROVE  LoadInv' /\ Same(heap, heap', start.len)
  <1> DEFINE R == Found(file.ref[u])
  <1>1. /\ R = Goal(uuidMap, start, u, file.ref[u])
        /\ Kind[u] # "Symbol" => Findable(start, u, file.ref[u])
        /\ R \in SUBSET Found(file.ref[u])
        /\ heap' = WithRef(heap, uuidMap[u], R)
    BY RefDueFacts
  <1> HIDE DEF R
  <1>2. /\ Sane(heap', uuidMap, start, file) /\ Same(heap, heap', start.len)
        /\ \A i : Whole(heap, i, start.len) => Whole(heap', i, start.len)
        /\ Reached(heap', uuidMap, Tail(task), start, file)
    BY <1>1, RefsStored
  <1>3. /\ status = "loading" /\ Head(task) # Version
        /\ UNCHANGED <<file, start, loads>> /\ uuidMap' = uuidMap
    BY StepsDiffer DEF RefDue
  <1>4. QED
    BY <1>2, <1>3, Proceeds

LEMMA RefsFail ==
    ASSUME LoadInv, NEW u, RefDue(u), NEW R \in SUBSET Found(file.ref[u]),
           heap' = WithRef(heap, uuidMap[u], R), Fail,
           Kind[u] # "Symbol", ~ \A r \in file.ref[u] : uuidMap[r] # 0
    PROVE  LoadInv' /\ Same(heap, heap', start.len)
  <1>1. /\ Sane(heap', uuidMap, start, file) /\ Same(heap, heap', start.len)
        /\ Closed(heap', start.len)
        /\ \A i : Whole(heap, i, start.len) => Whole(heap', i, start.len)
    BY RefsStored
  <1>2. ~Loadable
    <2>1. ~Findable(start, u, file.ref[u]) /\ u \in Tree \ {Root}
      BY RefDueFacts DEF RefDue
    <2>2. QED
      BY <2>1 DEF Findable, Loadable
  <1>3. status = "loading" /\ UNCHANGED <<file, start, loads>> /\ uuidMap' = uuidMap
    BY DEF RefDue
  <1>4. QED
    BY <1>1, <1>2, <1>3, Fails

LEMMA StepIsRefDue ==
    ASSUME LoadInv, NEW u, NEW d \in {"referent", "symbolicExpressions", "entryPoint"},
           Doing(d, u), uuidMap' = uuidMap
    PROVE  RefDue(u) /\ (Kind[u] = "Symbol" <=> d = "referent")
  <1>1. status = "loading" /\ Head(task) = Step(d, u) /\ UNCHANGED <<file, start, loads>>
    BY DEF Doing
  <1>2. Step(d, u) \in ToSet(LoadSteps)
    BY <1>1, LoadIsUnderWay, NextStep
  <1>3. /\ u \in Tree \ {Root} /\ HasRef(u) /\ Step(d, u) = RefStep(u)
        /\ Kind[u] = "Symbol" <=> d = "referent"
    BY <1>2, StepsOfLoad
  <1>4. QED
    BY <1>1, <1>3 DEF RefDue

LEMMA LoadReferentStep ==
    ASSUME LoadInv, NEW y, LoadReferent(y)
    PROVE  LoadInv' /\ Same(heap, heap', start.len)
  <1>1. /\ Doing("referent", y) /\ uuidMap' = uuidMap /\ Proceed
        /\ heap' = WithRef(heap, Obj(y), Found(file.ref[y]))
    BY DEF LoadReferent, SetRef, WithRef
  <1>2. RefDue(y) /\ Kind[y] = "Symbol"
    BY <1>1, StepIsRefDue
  <1>3. Obj(y) = uuidMap[y]
    BY <1>2, RefDueFacts
  <1>4. QED
    BY <1>1, <1>2, <1>3, RefsProceed

LEMMA LoadSymbolicExpressionsStep ==
    ASSUME LoadInv, NEW bi, LoadSymbolicExpressions(bi)
    PROVE  LoadInv' /\ Same(heap, heap', start.len)
  <1>1. Doing("symbolicExpressions", bi) /\ uuidMap' = uuidMap
    BY DEF LoadSymbolicExpressions
  <1>2. RefDue(bi) /\ Kind[bi] # "Symbol"
    BY <1>1, StepIsRefDue
  <1>3. CASE \A y \in file.ref[bi] : uuidMap[y] # 0
    <2>1. heap' = WithRef(heap, uuidMap[bi], Found(file.ref[bi])) /\ Proceed
      BY <1>3 DEF LoadSymbolicExpressions, SetRef, WithRef
    <2>2. QED
      BY <1>2, <1>3, <2>1, RefsProceed
  <1>4. CASE ~ \A y \in file.ref[bi] : uuidMap[y] # 0
    <2>1. Fail /\ \E R \in SUBSET Found(file.ref[bi]) : heap' = WithRef(heap, uuidMap[bi], R)
      BY <1>4 DEF LoadSymbolicExpressions, SetRef, WithRef
    <2>2. PICK R \in SUBSET Found(file.ref[bi]) : heap' = WithRef(heap, uuidMap[bi], R)
      BY <2>1
    <2>3. QED
      BY <1>2, <1>4, <2>1, <2>2, RefsFail
  <1>5. QED
    BY <1>3, <1>4

LEMMA LoadEntryPointStep ==
    ASSUME LoadInv, NEW m, LoadEntryPoint(m)
    PROVE  LoadInv' /\ Same(heap, heap', start.len)
  <1>1. /\ Doing("entryPoint", m) /\ uuidMap' = uuidMap
        /\ heap' = WithRef(heap, Obj(m), Found(file.ref[m]))
        /\ IF \A r \in file.ref[m] : uuidMap[r] # 0 THEN Proceed ELSE Fail
    BY DEF LoadEntryPoint, SetRef, WithRef
  <1>2. RefDue(m) /\ Kind[m] # "Symbol"
    BY <1>1, StepIsRefDue
  <1>3. Obj(m) = uuidMap[m]
    BY <1>2, RefDueFacts
  <1>4. heap' = WithRef(heap, uuidMap[m], Found(file.ref[m]))
    BY <1>1, <1>3
  <1>5. CASE \A r \in file.ref[m] : uuidMap[r] # 0
    BY <1>1, <1>2, <1>4, <1>5, RefsProceed
  <1>6. CASE ~ \A r \in file.ref[m] : uuidMap[r] # 0
    <2>1. Found(file.ref[m]) \in SUBSET Found(file.ref[m])
      OBVIOUS
    <2>2. QED
      BY <1>1, <1>2, <1>4, <1>6, <2>1, RefsFail
  <1>7. QED
    BY <1>5, <1>6

(* When the graph and the version are due all nodes have been made. *)
LEMMA StepOfPlan ==
    ASSUME NEW t, Rest(t), t # <<>>, NEW x \in ToSet(t)
    PROVE  x \in ToSet(LoadSteps)
  <1>1. PICK k \in 1 .. Len(t) : t[k] = x
    BY ElementsByIndex DEF Rest
  <1>2. PICK p \in 0 .. Len(LoadSteps) :
           /\ Len(t) = Len(LoadSteps) - p
           /\ \A j \in 1 .. Len(t) : t[j] = LoadSteps[p + j]
    BY DEF Rest
  <1>3. LoadSteps \in Seq(Steps) /\ Len(LoadSteps) \in Nat
    BY LoadPlan DEF Plan, Line
  <1>4. p + k \in 1 .. Len(LoadSteps)
    BY <1>2, <1>3
  <1>5. LoadSteps[p + k] = x
    BY <1>1, <1>2
  <1>6. QED
    BY <1>3, <1>4, <1>5, ElementsByIndex

LEMMA AllMade ==
    ASSUME NEW t, Rest(t), t # <<>>, Head(t) \in {Cfg, Version}
    PROVE  /\ \A u : u \in Made(t) <=> u \in Tree
           /\ Head(t) = Version => \A x : x \in ToSet(t) <=> x = Version
           /\ Head(t) = Cfg => \A x : x \in ToSet(t) => x = Cfg \/ x = Version
  <1>1. ASSUME NEW u \in Tree
        PROVE  Step("create", u) \notin ToSet(t)
    <2>1. Step("create", u) \in ToSet(LoadSteps)
      BY StepOfNode
    <2>2. Step("create", u) # Cfg /\ Step("create", u) # Version
      BY StepsDiffer
    <2>3. /\ Before(LoadSteps, Step("create", u), Cfg)
          /\ Before(LoadSteps, Step("create", u), Version)
      BY <2>1, <2>2, LoadPlan DEF Plan
    <2>4. QED
      BY <2>3, NextStep
  <1>2. ASSUME Head(t) = Version, NEW x
        PROVE  x \in ToSet(t) <=> x = Version
    <2>1. Version \in ToSet(t)
      BY <1>2, NextStep
    <2>2. ASSUME x \in ToSet(t), x # Version
          PROVE  FALSE
      <3>1. x \in ToSet(LoadSteps)
        BY <2>2, StepOfPlan
      <3>2. Before(LoadSteps, x, Version)
        BY <2>2, <3>1, LoadPlan DEF Plan
      <3>3. QED
        BY <1>2, <2>2, <3>2, NextStep
    <2>3. QED
      BY <2>1, <2>2
  <1>3. ASSUME Head(t) = Cfg, NEW x \in ToSet(t)
        PROVE  x = Cfg \/ x = Version
    <2>1. x = Cfg \/ x = Version \/ Before(LoadSteps, x, Cfg)
      BY <1>3, StepOfPlan, LoadPlan DEF Plan
    <2>2. ~Before(LoadSteps, x, Cfg)
      BY <1>3, NextStep
    <2>3. QED
      BY <2>1, <2>2
  <1>4. QED
    BY <1>1, <1>2, <1>3 DEF Made

LEMMA NameInGraph ==
    ASSUME NEW h, NEW map, NEW t, NEW st, NEW f, Sane(h, map, st, f), Fresh(h, map, t, st),
           \A u : u \in Made(t) <=> u \in Tree, NEW r \in Uuid
    PROVE  IF Backward(Root, r) THEN map[r] # 0 ELSE map[r] = st.map[r]
  <1>1. Backward(Root, r) <=> r \in Made(t)
    BY DEF Backward
  <1>2. CASE r \in Made(t)
    BY <1>1, <1>2, MadeNode DEF Sane
  <1>3. CASE r \notin Made(t)
    BY <1>1, <1>3 DEF Fresh
  <1>4. QED
    BY <1>2, <1>3

LEMMA TopIs ==
    ASSUME NEW n
    PROVE  Top(n) = TopOf(heap, n)
  BY DEF Top, Owner, TopOf, UpOf

(* When all nodes have been made and handed over, the uppermost owner of each is the
   new IR, which no older node is below. *)
LEMMA BelowNewRoot ==
    ASSUME NEW h, NEW map, NEW t, NEW st, NEW f, Sane(h, map, st, f), Closed(h, st.len),
           Fresh(h, map, t, st), Owned(h, map, t), \A u : u \in Made(t) <=> u \in Tree,
           \A u : Step("attach", u) \notin ToSet(t)
    PROVE  /\ \A u \in Tree : TopOf(h, map[u]) = map[Root]
           /\ \A i \in DOMAIN h : TopOf(h, i) = map[Root] => h[i].uuid \in Tree
  <1>1. \A u \in Tree : map[u] # 0 /\ map[u] \in Nat /\ map[u] > st.len
    BY MadeNode DEF Sane
  <1>2. h[map[Root]].owner = 0
    BY RootInTree DEF Owned
  <1>3. \A u \in Tree \ {Root} : h[map[u]].owner = map[OwnerOf(u)]
    BY DEF Owned
  <1>4. \A u \in Tree : TopOf(h, map[u]) = map[Root]
    BY <1>1, <1>2, <1>3, TopIsRoot
  <1>5. ASSUME NEW i \in DOMAIN h, TopOf(h, i) = map[Root]
        PROVE  h[i].uuid \in Tree
    <2>1. st.len \in Nat /\ DOMAIN h \subseteq Nat \ {0}
      BY HeapNode DEF Sane, StartOK
    <2>2. map[Root] \notin 1 .. st.len
      BY <1>1, <2>1, RootInTree
    <2>3. i \notin 1 .. st.len
      BY <1>5, <2>1, <2>2, TopInside
    <2>4. i > st.len
      BY <2>1, <2>3
    <2>5. QED
      BY <2>4 DEF Fresh
  <1>6. QED
    BY <1>4, <1>5

(* A node found by its UUID is a vertex of the new graph if its UUID is listed or
   that of a block of the IR. *)
LEMMA VertexIsListed ==
    ASSUME Sane(heap, uuidMap, start, file), Obj(Root) = uuidMap[Root],
           \A u \in Tree : TopOf(heap, uuidMap[u]) = uuidMap[Root],
           \A i \in DOMAIN heap : TopOf(heap, i) = uuidMap[Root] => heap[i].uuid \in Tree,
           NEW r \in Uuid, uuidMap[r] # 0
    PROVE  uuidMap[r] \in GraphVertices <=> r \in ListedIn(file)
  <1> DEFINE i == uuidMap[r]
  <1>1. /\ i \in DOMAIN heap /\ heap[i].uuid = r
        /\ \A v \in file.vertices : uuidMap[v] # 0 => heap[uuidMap[v]].uuid = v
    BY DEF Sane, MapOK, FileOK
  <1>2. i \in Found(file.vertices) <=> r \in file.vertices
    BY <1>1 DEF Found
  <1>3. i \in {j \in DOMAIN heap : IsCfgNode(heap[j].uuid) /\ Top(j) = Obj(Root)}
          <=> r \in Tree /\ IsCfgNode(r)
    <2>1. Top(i) = TopOf(heap, i)
      BY TopIs
    <2>2. Top(i) = Obj(Root) <=> r \in Tree
      BY <1>1, <2>1
    <2>3. QED
      BY <1>1, <2>2
  <1> HIDE DEF i
  <1>4. i \in GraphVertices <=> r \in ListedIn(file)
    BY <1>2, <1>3 DEF GraphVertices, ListedIn
  <1>5. QED
    BY <1>4 DEF i

LEMMA EdgesFound ==
    ASSUME MapOK(heap, uuidMap), NEW E, E = file.edges, E \in SUBSET (Uuid \X Uuid),
           \A r \in Uuid : IF Backward(Root, r) THEN uuidMap[r] # 0 ELSE uuidMap[r] = start.map[r],
           \A r \in Uuid : uuidMap[r] # 0 => (uuidMap[r] \in GraphVertices <=> r \in ListedIn(file))
    PROVE  /\ FoundEdges(E) = GoalEdges(uuidMap, start, Joinable(file))
           /\ FoundEdges(E) \subseteq (DOMAIN heap) \X (DOMAIN heap)
  <1>1. ASSUME NEW r \in Uuid
        PROVE  /\ Found({r}) = Goal(uuidMap, start, Root, {r})
               /\ Found({r}) \subseteq DOMAIN heap
    <2> DEFINE R == {r}
    <2>1. \A x \in R : IF Backward(Root, x) THEN uuidMap[x] # 0 ELSE uuidMap[x] = start.map[x]
      OBVIOUS
    <2>2. \A x \in R : x \in Uuid
      OBVIOUS
    <2> HIDE DEF R
    <2>3. {uuidMap[x] : x \in R} \ {0} = Goal(uuidMap, start, Root, R)
      BY <2>1, FoundIsGoal
    <2>4. {uuidMap[x] : x \in R} \ {0} \subseteq DOMAIN heap
      BY <2>2 DEF MapOK
    <2>5. QED
      BY <2>3, <2>4 DEF Found, R
  <1>2. \A e \in E : e[1] \in Uuid /\ e[2] \in Uuid
    OBVIOUS
  <1>3. \A e \in E : Found({e[1]}) \X Found({e[2]}) =
                     Goal(uuidMap, start, Root, {e[1]}) \X Goal(uuidMap, start, Root, {e[2]})
    BY <1>1, <1>2
  <1> DEFINE V == ListedIn(file)
             G == GraphVertices
             join(e) == Found({e[1]}) \X Found({e[2]})
  <1>4. ASSUME NEW e \in E, NEW x \in join(e)
        PROVE  x \in G \X G <=> e \in V \X V
    <2>1. /\ x = <<x[1], x[2]>> /\ e = <<e[1], e[2]>>
          /\ x[1] = uuidMap[e[1]] /\ x[2] = uuidMap[e[2]]
          /\ uuidMap[e[1]] # 0 /\ uuidMap[e[2]] # 0
      BY <1>4 DEF Found
    <2>2. (x[1] \in G <=> e[1] \in V) /\ (x[2] \in G <=> e[2] \in V)
      BY <1>2, <2>1
    <2> HIDE DEF G, V
    <2>3. QED
      BY <2>1, <2>2
  <1>5. FoundEdges(E) = GoalEdges(uuidMap, start, Joinable(file))
    <2>1. FoundEdges(E) = (UNION {join(e) : e \in E}) \cap (G \X G)
      BY DEF FoundEdges
    <2>2. GoalEdges(uuidMap, start, Joinable(file)) = UNION {join(e) : e \in E \cap (V \X V)}
      <3> DEFINE J == E \cap (V \X V)
                 goal(e) == Goal(uuidMap, start, Root, {e[1]}) \X Goal(uuidMap, start, Root, {e[2]})
      <3>1. Joinable(file) = J
        BY DEF Joinable
      <3>2. GoalEdges(uuidMap, start, J) = UNION {goal(e) : e \in J}
        BY DEF GoalEdges
      <3>3. \A e \in J : goal(e) = join(e)
        BY <1>3
      <3> HIDE DEF J, goal, join
      <3>4. UNION {goal(e) : e \in J} = UNION {join(e) : e \in J}
        BY <3>3
      <3>5. QED
        BY <3>1, <3>2, <3>4 DEF J
    <2> HIDE DEF join, G, V
    <2>3. QED
      BY <1>4, <2>1, <2>2
  <1>6. ASSUME NEW x \in FoundEdges(E)
        PROVE  x \in (DOMAIN heap) \X (DOMAIN heap)
    <2>1. PICK e \in E : x \in Found({e[1]}) \X Found({e[2]})
      BY DEF FoundEdges
    <2>2. Found({e[1]}) \subseteq DOMAIN heap /\ Found({e[2]}) \subseteq DOMAIN heap
      BY <1>1, <1>2
    <2>3. QED
      BY <2>1, <2>2
  <1>7. QED
    BY <1>5, <1>6

LEMMA LoadCFGStep ==
    ASSUME LoadInv, LoadCFG
    PROVE  LoadInv' /\ Same(heap, heap', start.len)
  <1>1. /\ status = "loading" /\ Head(task) = Cfg /\ UNCHANGED <<file, start, loads>>
        /\ uuidMap' = uuidMap
    BY DEF LoadCFG, Doing, Cfg
  <1>2. /\ Sane(heap, uuidMap, start, file) /\ Rest(task) /\ task # <<>>
        /\ Reached(heap, uuidMap, task, start, file)
        /\ Fresh(heap, uuidMap, task, start) /\ Closed(heap, start.len)
    BY <1>1, LoadIsUnderWay DEF Reached
  <1>3. \A u : u \in Made(task) <=> u \in Tree
    BY <1>1, <1>2, AllMade
  <1>4. \A r \in Uuid : IF Backward(Root, r) THEN uuidMap[r] # 0 ELSE uuidMap[r] = start.map[r]
    BY <1>2, <1>3, NameInGraph
  <1>5. MapOK(heap, uuidMap) /\ file.edges \in SUBSET (Uuid \X Uuid) /\ file.vertices \subseteq Uuid
    BY <1>2 DEF Sane, FileOK
  <1>6. Findable(start, Root, file.vertices) <=> \A v \in file.vertices : uuidMap[v] # 0
    <2> DEFINE R == file.vertices
    <2>1. \A r \in R : IF Backward(Root, r) THEN uuidMap[r] # 0 ELSE uuidMap[r] = start.map[r]
      BY <1>4, <1>5
    <2> HIDE DEF R
    <2>2. Findable(start, Root, R) <=> \A r \in R : uuidMap[r] # 0
      BY <2>1, FoundIsGoal
    <2>3. QED
      BY <2>2 DEF R
  <1>7. CASE \A v \in file.vertices : uuidMap[v] # 0
    <2> DEFINE R == FoundEdges(file.edges)
    <2>1. Root \in Made(task) /\ Obj(Root) = uuidMap[Root]
      <3>1. Root \in Made(task)
        BY <1>3, RootInTree
      <3>2. QED
        BY <1>2, <3>1, ObjIsNew DEF Sane
    <2>2. heap' = WithRef(heap, uuidMap[Root], R) /\ Proceed
      BY <1>7, <2>1 DEF LoadCFG, SetRef, WithRef
    <2>3. R = GoalEdges(uuidMap, start, Joinable(file)) /\ GoodRefs(heap, Root, R)
      <3>1. /\ R = GoalEdges(uuidMap, start, Joinable(file))
            /\ R \subseteq (DOMAIN heap) \X (DOMAIN heap)
        <4>1. \A u : Step("attach", u) \notin ToSet(task)
          BY <1>1, <1>2, AllMade, StepsDiffer
        <4>2. /\ \A u \in Tree : TopOf(heap, uuidMap[u]) = uuidMap[Root]
              /\ \A i \in DOMAIN heap : TopOf(heap, i) = uuidMap[Root] => heap[i].uuid \in Tree
          BY <1>2, <1>3, <4>1, BelowNewRoot DEF Reached
        <4>3. \A r \in Uuid : uuidMap[r] # 0 =>
                 (uuidMap[r] \in GraphVertices <=> r \in ListedIn(file))
          BY <1>2, <2>1, <4>2, VertexIsListed
        <4>4. QED
          BY <1>4, <1>5, <4>3, EdgesFound
      <3>2. DOMAIN heap \subseteq Nat
        BY <1>2, HeapNode DEF Sane
      <3> HIDE DEF R
      <3>3. R \in SUBSET (Nat \cup (Nat \X Nat))
        BY <3>1, <3>2
      <3>4. QED
        BY <3>1, <3>3 DEF GoodRefs
    <2> HIDE DEF R
    <2>4. /\ Sane(heap', uuidMap, start, file) /\ Closed(heap', start.len)
          /\ Same(heap, heap', start.len)
          /\ \A i : Whole(heap, i, start.len) => Whole(heap', i, start.len)
          /\ Fresh(heap', uuidMap, task, start)
          /\ \A v \in Made(task) : heap'[uuidMap[v]].owner = heap[uuidMap[v]].owner
          /\ heap'[uuidMap[Root]].ref = R
          /\ \A v \in Made(task) : v # Root => heap'[uuidMap[v]].ref = heap[uuidMap[v]].ref
      BY <1>2, <2>1, <2>2, <2>3, RefChange
    <2> DEFINE t2 == Tail(task)
    <2>5. Less(task, Cfg, t2)
      BY <1>1, <1>2, NextStep DEF Less
    <2> HIDE DEF t2
    <2>6. Made(t2) = Made(task) /\ Fresh(heap', uuidMap, t2, start)
      BY <2>4, <2>5, NothingMade, StepsDiffer
    <2>7. /\ \A v : Step("attach", v) \in ToSet(t2) <=> Step("attach", v) \in ToSet(task)
          /\ \A v : Resolved(t2, v) <=> Resolved(task, v)
          /\ Cfg \notin ToSet(t2)
      BY <2>5, StepsDiffer DEF Less, Resolved
    <2>8. Owned(heap, uuidMap, task) /\ Referred(heap, uuidMap, task, start, file)
            /\ Passed(task, start, file)
      BY <1>2 DEF Reached
    <2>9. Owned(heap', uuidMap, t2)
      BY <2>4, <2>6, <2>7, <2>8 DEF Owned
    <2>10. Referred(heap', uuidMap, t2, start, file)
      <3>1. ASSUME NEW v \in Made(t2) \ {Root}
            PROVE  heap'[uuidMap[v]].ref =
                     IF Resolved(t2, v) THEN Goal(uuidMap, start, v, file.ref[v]) ELSE {}
        BY <2>4, <2>6, <2>7, <2>8 DEF Referred
      <3>2. heap'[uuidMap[Root]].ref = GoalEdges(uuidMap, start, Joinable(file))
        BY <2>3, <2>4
      <3>3. QED
        BY <2>7, <3>1, <3>2 DEF Referred
    <2>11. Passed(t2, start, file)
      BY <1>6, <1>7, <2>6, <2>7, <2>8 DEF Passed
    <2>12. Reached(heap', uuidMap, t2, start, file)
      BY <2>4, <2>6, <2>9, <2>10, <2>11 DEF Reached
    <2>13. Head(task) # Version
      BY <1>1, StepsDiffer
    <2>14. QED
      BY <1>1, <2>2, <2>4, <2>12, <2>13, Proceeds DEF t2
  <1>8. CASE ~ \A v \in file.vertices : uuidMap[v] # 0
    <2>1. Fail /\ heap' = heap
      BY <1>8 DEF LoadCFG
    <2>2. ~Loadable
      BY <1>6, <1>8 DEF Findable, Loadable
    <2>3. Same(heap, heap', start.len)
      BY <1>2, <2>1 DEF Same, Closed
    <2>4. QED
      BY <1>1, <1>2, <2>1, <2>2, <2>3, Fails
  <1>9. QED
    BY <1>7, <1>8

LEMMA NewIRIsWhole ==
    ASSUME NEW h, NEW map, NEW t, NEW st, NEW f, Sane(h, map, st, f), Fresh(h, map, t, st),
           Owned(h, map, t), \A u : u \in Made(t) <=> u \in Tree,
           \A u : Step("attach", u) \notin ToSet(t)
    PROVE  Whole(h, map[Root], Len(h))
  <1>1. \A u \in Tree : map[u] # 0 /\ map[u] \in 1 .. Len(h) /\ h[map[u]].uuid = u
    BY MadeNode DEF Sane
  <1>2. h[map[Root]].owner = 0
    BY RootInTree DEF Owned
  <1>3. \A u \in Tree \ {Root} : h[map[u]].owner = map[OwnerOf(u)]
    BY DEF Owned
  <1>4. \A u \in Tree : TopOf(h, map[u]) = map[Root]
    BY <1>1, <1>2, <1>3, TopIsRoot
  <1>5. QED
    BY <1>1, <1>4, RootInTree DEF Whole

LEMMA CheckVersionStep ==
    ASSUME LoadInv, CheckVersion
    PROVE  LoadInv' /\ Same(heap, heap', start.len)
  <1>1. /\ status = "loading" /\ Head(task) = Version /\ UNCHANGED <<file, start, loads>>
        /\ uuidMap' = uuidMap /\ heap' = heap
    BY DEF CheckVersion, Doing, Version
  <1>2. /\ Sane(heap, uuidMap, start, file) /\ Rest(task) /\ task # <<>>
        /\ Reached(heap, uuidMap, task, start, file)
        /\ Fresh(heap, uuidMap, task, start) /\ Closed(heap, start.len)
        /\ start.len \in Nat /\ \A i \in irs : Whole(heap, i, start.len)
    BY <1>1, LoadIsUnderWay DEF Reached
  <1>3. Same(heap, heap', start.len)
    BY <1>1, <1>2 DEF Same, Closed
  <1>4. CASE file.current
    <2>1. task' = <<>> /\ status' = "loaded" /\ irs' = irs \cup {Obj(Root)}
      BY <1>4 DEF CheckVersion
    <2>2. /\ \A u : u \in Made(task) <=> u \in Tree
          /\ \A x : x \in ToSet(task) <=> x = Version
      BY <1>1, <1>2, AllMade
    <2>3. Less(task, Version, <<>>)
      BY <2>2, EmptyLine DEF Less
    <2>4. Reached(heap, uuidMap, <<>>, start, file)
      <3> DEFINE t2 == <<>>
      <3>1. Less(task, Version, t2)
        BY <2>3
      <3> HIDE DEF t2
      <3>2. Made(t2) = Made(task) /\ Fresh(heap, uuidMap, t2, start)
        BY <1>2, <3>1, NothingMade, StepsDiffer
      <3>3. /\ \A v : Step("attach", v) \in ToSet(t2) <=> Step("attach", v) \in ToSet(task)
            /\ \A v : Resolved(t2, v) <=> Resolved(task, v)
            /\ Cfg \in ToSet(t2) <=> Cfg \in ToSet(task)
        BY <3>1, StepsDiffer DEF Less, Resolved
      <3>4. /\ Owned(heap, uuidMap, task) /\ Referred(heap, uuidMap, task, start, file)
            /\ Passed(task, start, file)
        BY <1>2 DEF Reached
      <3>5. Owned(heap, uuidMap, t2)
        BY <3>2, <3>3, <3>4 DEF Owned
      <3>6. Referred(heap, uuidMap, t2, start, file)
        BY <3>2, <3>3, <3>4 DEF Referred
      <3>7. Passed(t2, start, file)
        BY <3>2, <3>3, <3>4 DEF Passed
      <3>8. Reached(heap, uuidMap, t2, start, file)
        BY <1>2, <3>2, <3>5, <3>6, <3>7 DEF Reached
      <3>9. QED
        BY <3>8 DEF t2
    <2>5. Whole(heap, Obj(Root), Len(heap))
      <3>1. Root \in Made(task)
        BY <2>2, RootInTree
      <3>2. Obj(Root) = uuidMap[Root]
        BY <1>2, <3>1, ObjIsNew DEF Sane
      <3>3. \A u : Step("attach", u) \notin ToSet(task)
        BY <2>2, StepsDiffer
      <3>4. Owned(heap, uuidMap, task)
        BY <1>2 DEF Reached
      <3>5. QED
        BY <1>2, <2>2, <3>2, <3>3, <3>4, NewIRIsWhole
    <2>6. start.len <= Len(heap) /\ Len(heap) \in Nat
      BY <1>2, HeapNode DEF Sane, Closed
    <2>7. \A i \in irs' : Whole(heap, i, Len(heap))
      BY <1>2, <2>1, <2>5, <2>6, WholeGrows
    <2>8. General'
      BY <1>1, <1>2, <2>7 DEF General
    <2>9. UnderWay'
      BY <1>1, <2>1, <2>4 DEF UnderWay
    <2>10. QED
      BY <1>1, <1>3, <1>4, <2>1, <2>8, <2>9 DEF LoadInv
  <1>5. CASE ~file.current
    <2>1. Fail
      BY <1>5 DEF CheckVersion
    <2>2. ~Loadable
      BY <1>5 DEF Loadable
    <2>3. QED
      BY <1>1, <1>2, <1>3, <2>1, <2>2, Fails
  <1>6. QED
    BY <1>4, <1>5

-----------------------------------------------------------------------------

(* What the client does. *)

LEMMA NoLoadIsUnderWay ==
    ASSUME LoadInv, Between
    PROVE  /\ Sane(heap, uuidMap, start, file) /\ task = <<>>
           /\ \A i \in irs : Whole(heap, i, Len(heap))
  BY DEF LoadInv, General, Between

LEMMA LoadStarts ==
    ASSUME NEW h, NEW map, NEW f, NEW st, HeapOK(h), MapOK(h, map), FileOK(f),
           st = [map |-> map, len |-> Len(h)]
    PROVE  Sane(h, map, st, f) /\ Reached(h, map, LoadSteps, st, f)
  <1>1. /\ st.map = map /\ st.len = Len(h) /\ Len(h) \in Nat /\ DOMAIN h = 1 .. Len(h)
        /\ map \in [Uuid -> Nat]
    BY HeapNode DEF MapOK
  <1>2. \A u \in Uuid : map[u] <= Len(h)
    <2> TAKE u \in Uuid
    <2>1. CASE map[u] = 0
      BY <1>1, <2>1
    <2>2. CASE map[u] # 0
      <3>1. map[u] \in 1 .. Len(h)
        BY <1>1, <2>2 DEF MapOK
      <3>2. QED
        BY <1>1, <3>1
    <2>3. QED
      BY <2>1, <2>2
  <1>3. StartOK(st)
    BY <1>1, <1>2 DEF StartOK
  <1>4. \A u : u \notin Made(LoadSteps)
    BY StepOfNode DEF Made
  <1>5. \A u \in Tree \ {Root} : ~Resolved(LoadSteps, u)
    BY StepOfNode DEF Resolved
  <1>6. Cfg \in ToSet(LoadSteps)
    BY StepOfNode, RootInTree
  <1>7. Closed(h, st.len)
    BY <1>1, HeapNode DEF Closed
  <1>8. Fresh(h, map, LoadSteps, st)
    <2>1. \A i \in DOMAIN h : ~(i > st.len)
      BY <1>1
    <2>2. QED
      BY <1>1, <1>4, <2>1 DEF Fresh
  <1>9. Owned(h, map, LoadSteps) /\ Referred(h, map, LoadSteps, st, f)
    BY <1>4 DEF Owned, Referred
  <1>10. Passed(LoadSteps, st, f)
    BY <1>4, <1>5, <1>6 DEF Passed
  <1>11. QED
    BY <1>3, <1>7, <1>8, <1>9, <1>10 DEF Sane, Reached

LEMMA LoadCallStep ==
    ASSUME LoadInv, NEW json, Load(json)
    PROVE  LoadInv'
  <1>1. /\ Between /\ start' = [map |-> uuidMap, len |-> Len(heap)]
        /\ heap' = heap /\ uuidMap' = uuidMap /\ irs' = irs /\ file' = file
    BY DEF Load
  <1>2. /\ HeapOK(heap) /\ MapOK(heap, uuidMap) /\ FileOK(file)
        /\ \A i \in irs : Whole(heap, i, Len(heap))
    BY <1>1, NoLoadIsUnderWay DEF Sane
  <1>3. /\ Sane(heap, uuidMap, start', file)
        /\ Reached(heap, uuidMap, LoadSteps, start', file)
    BY <1>1, <1>2, LoadStarts
  <1>4. General'
    BY <1>1, <1>2, <1>3 DEF General
  <1>5. CASE json \/ file.current
    <2>1. status' = "loading" /\ task' = LoadSteps
      BY <1>5 DEF Load
    <2>2. Rest(task') /\ task' # <<>>
      BY <2>1, AllIsLeft
    <2>3. UnderWay'
      BY <1>1, <1>3, <2>1 DEF UnderWay
    <2>4. start'.len = Len(heap)
      BY <1>1
    <2>5. \A i \in irs' : Whole(heap', i, start'.len)
      BY <1>1, <1>2, <2>4
    <2>6. QED
      BY <1>4, <2>1, <2>2, <2>3, <2>5 DEF LoadInv
  <1>6. CASE ~(json \/ file.current)
    <2>1. status' = "failed" /\ task' = <<>>
      BY <1>6 DEF Load
    <2>2. ~Loadable'
      BY <1>1, <1>6 DEF Loadable
    <2>3. QED
      BY <1>4, <2>1, <2>2 DEF LoadInv
  <1>7. QED
    BY <1>5, <1>6

(* A new file, between loads. *)
LEMMA ReplaceStep ==
    ASSUME LoadInv, NEW f, Replace(f), FileOK(f)
    PROVE  LoadInv'
  <1>1. /\ Between /\ status' = "idle" /\ file' = f
        /\ heap' = heap /\ uuidMap' = uuidMap /\ irs' = irs /\ task' = task /\ start' = start
    BY DEF Replace
  <1>2. /\ Sane(heap, uuidMap, start, file) /\ task = <<>>
        /\ \A i \in irs : Whole(heap, i, Len(heap))
    BY <1>1, NoLoadIsUnderWay
  <1>3. Sane(heap, uuidMap, start, f)
    BY <1>2 DEF Sane
  <1>4. General'
    BY <1>1, <1>2, <1>3 DEF General
  <1>5. QED
    BY <1>1, <1>2, <1>4 DEF LoadInv

FileType ==
    [ref : [Tree \ {Root} -> SUBSET Uuid], edges : SUBSET (Uuid \X Uuid),
     vertices : SUBSET Uuid, bad : SUBSET Tree, current : BOOLEAN]

LEMMA FileParts ==
    ASSUME NEW f
    PROVE  FileOK(f) <=> /\ f \in FileType
                         /\ \A u \in Tree \ {Root} : \A r \in f.ref[u] : Kind[r] \in Nameable(Kind[u])
  BY DEF FileOK, FileType

LEMMA ClientFileStep ==
    ASSUME LoadInv, \/ \E u \in Damageable : Damage(u)
                    \/ Unlist
                    \/ WrittenElsewhere
    PROVE  LoadInv'
  <1>1. Between
    BY DEF Damage, Unlist, WrittenElsewhere, Replace
  <1>2. FileOK(file)
    BY <1>1, NoLoadIsUnderWay DEF Sane
  <1>3. file \in FileType /\ \A u \in Tree \ {Root} : \A r \in file.ref[u] : Kind[r] \in Nameable(Kind[u])
    BY <1>2, FileParts
  <1>4. ASSUME NEW f, Replace(f), f \in FileType, f.ref = file.ref
        PROVE  LoadInv'
    BY <1>3, <1>4, FileParts, ReplaceStep
  <1>5. ASSUME NEW u \in Damageable, Damage(u)
        PROVE  LoadInv'
    <2> DEFINE f == [file EXCEPT !.bad = {u}]
    <2>1. u \in Tree
      BY ClientAssumption
    <2>2. f \in FileType /\ f.ref = file.ref
      BY <1>3, <2>1 DEF FileType
    <2>3. Replace(f)
      BY <1>5 DEF Damage
    <2> HIDE DEF f
    <2>4. QED
      BY <1>4, <2>2, <2>3
  <1>6. ASSUME Unlist
        PROVE  LoadInv'
    <2> DEFINE f == [file EXCEPT !.vertices = {}]
    <2>1. f \in FileType /\ f.ref = file.ref
      BY <1>3 DEF FileType
    <2>2. Replace(f)
      BY <1>6 DEF Unlist
    <2> HIDE DEF f
    <2>3. QED
      BY <1>4, <2>1, <2>2
  <1>7. ASSUME WrittenElsewhere
        PROVE  LoadInv'
    <2> DEFINE f == [file EXCEPT !.current = FALSE]
    <2>1. f \in FileType /\ f.ref = file.ref
      BY <1>3 DEF FileType
    <2>2. Replace(f)
      BY <1>7 DEF WrittenElsewhere
    <2> HIDE DEF f
    <2>3. QED
      BY <1>4, <2>1, <2>2
  <1>8. QED
    BY <1>5, <1>6, <1>7

LEMMA NewContextStep ==
    ASSUME LoadInv, NewContext
    PROVE  LoadInv'
  <1>1. /\ Between /\ status' = "idle" /\ heap' = <<>> /\ uuidMap' = [u \in Uuid |-> 0] /\ irs' = {}
        /\ file' = file /\ task' = task /\ start' = start
    BY DEF NewContext
  <1>2. StartOK(start) /\ FileOK(file) /\ task = <<>>
    BY <1>1, NoLoadIsUnderWay DEF Sane
  <1>3. HeapOK(heap') /\ MapOK(heap', uuidMap')
    BY <1>1 DEF HeapOK, MapOK
  <1>4. General'
    BY <1>1, <1>2, <1>3 DEF General, Sane
  <1>5. QED
    BY <1>1, <1>2, <1>4 DEF LoadInv

(* The vertices of the graph that a file lists. *)
LEMMA VerticesAreUuids ==
    ASSUME NEW E \in SUBSET (Uuid \X Uuid)
    PROVE  {u \in Tree : IsCfgNode(u)} \cup {e[1] : e \in E} \cup {e[2] : e \in E} \in SUBSET Uuid
  <1>1. \A e \in E : e[1] \in Uuid /\ e[2] \in Uuid
    OBVIOUS
  <1>2. QED
    BY <1>1, TreeNode

LEMMA SaveStep ==
    ASSUME LoadInv, NEW i \in irs, Save(i)
    PROVE  LoadInv'
  <1> DEFINE node(u) == CHOOSE n \in DOMAIN heap : heap[n].uuid = u /\ Top(n) = i
             names(u) == {heap[r].uuid : r \in heap[node(u)].ref}
             edges == {<<heap[e[1]].uuid, heap[e[2]].uuid>> : e \in heap[i].ref}
             refs  == [u \in Tree \ {Root} |-> names(u)]
             verts == {u \in Tree : IsCfgNode(u)} \cup {e[1] : e \in edges} \cup {e[2] : e \in edges}
             f     == [ref |-> refs, edges |-> edges, vertices |-> verts, bad |-> {}, current |-> TRUE]
  <1>1. Replace(f)
    BY DEF Save, Replace
  <1>2. HeapOK(heap) /\ Whole(heap, i, Len(heap))
    BY <1>1, NoLoadIsUnderWay DEF Sane, Replace
  <1>3. /\ Len(heap) \in Nat /\ DOMAIN heap = 1 .. Len(heap)
        /\ \A n \in DOMAIN heap : heap[n].uuid \in Uuid /\ RefOK(heap, n)
    BY <1>2, HeapNode
  <1>4. ASSUME NEW u \in Tree \ {Root}
        PROVE  names(u) \in SUBSET Uuid /\ \A r \in names(u) : Kind[r] \in Nameable(Kind[u])
    <2>1. \E n \in DOMAIN heap : heap[n].uuid = u /\ Top(n) = i
      BY <1>2, <1>3, TopIs DEF Whole
    <2>2. node(u) \in DOMAIN heap /\ heap[node(u)].uuid = u
      BY <2>1
    <2> HIDE DEF node
    <2>3. \A r \in heap[node(u)].ref : r \in DOMAIN heap /\ Kind[heap[r].uuid] \in Nameable(Kind[u])
      BY <1>3, <2>2 DEF RefOK
    <2>4. QED
      BY <1>3, <2>3
  <1>5. edges \in SUBSET (Uuid \X Uuid)
    <2>1. i \in DOMAIN heap /\ heap[i].uuid = Root
      BY <1>2, <1>3 DEF Whole
    <2>2. \A e \in heap[i].ref : e[1] \in DOMAIN heap /\ e[2] \in DOMAIN heap
      BY <1>3, <2>1 DEF RefOK
    <2>3. QED
      BY <1>3, <2>2
  <1> HIDE DEF edges, names
  <1>6. verts \in SUBSET Uuid
    BY <1>5, VerticesAreUuids
  <1>7. refs \in [Tree \ {Root} -> SUBSET Uuid] /\ \A u \in Tree \ {Root} : refs[u] = names(u)
    BY <1>4
  <1> HIDE DEF verts, refs
  <1>8. f \in FileType /\ f.ref = refs
    BY <1>5, <1>6, <1>7 DEF FileType
  <1>9. FileOK(f)
    <2> HIDE DEF f
    <2>1. \A u \in Tree \ {Root} : \A r \in f.ref[u] : Kind[r] \in Nameable(Kind[u])
      BY <1>4, <1>7, <1>8
    <2>2. QED
      BY <1>8, <2>1, FileParts
  <1> HIDE DEF f
  <1>10. QED
    BY <1>1, <1>9, ReplaceStep

-----------------------------------------------------------------------------

(* The IR the client has built. *)

LEMMA PositionOf ==
    ASSUME NEW u \in Uuid
    PROVE  /\ Position(u) \in 1 .. Len(Built) /\ Position(u) \in Nat /\ Position(u) # 0
           /\ Built[Position(u)] = u
  <1>1. Built \in Seq(Uuid) /\ ToSet(Built) = Uuid
    BY ClientAssumption
  <1>2. DOMAIN Built = 1 .. Len(Built) /\ Len(Built) \in Nat
    BY <1>1
  <1>3. \E i \in 1 .. Len(Built) : Built[i] = u
    BY <1>1, ElementsByIndex
  <1>4. Position(u) \in 1 .. Len(Built) /\ Built[Position(u)] = u
    BY <1>2, <1>3 DEF Position
  <1>5. QED
    BY <1>2, <1>4

BuiltOwner(u)     == IF u \in Tree \ {Root} THEN Position(OwnerOf(u)) ELSE 0
BuiltRef(ref, E, u) ==
    IF u = Root THEN {<<Position(e[1]), Position(e[2])>> : e \in E} ELSE {Position(r) : r \in ref[u]}
BuiltNode(ref, E, u) == [uuid |-> u, owner |-> BuiltOwner(u), ref |-> BuiltRef(ref, E, u)]
BuiltNodes(ref, E)   == [i \in 1 .. Len(Built) |-> BuiltNode(ref, E, Built[i])]
BuiltMap             == [u \in Uuid |-> Position(u)]

LEMMA BuiltNodeIs ==
    ASSUME NEW ref \in References, NEW E \in Edges, NEW u \in Uuid
    PROVE  /\ BuiltNode(ref, E, u) \in Nodes /\ BuiltNode(ref, E, u).uuid = u
           /\ BuiltNode(ref, E, u).owner = BuiltOwner(u)
           /\ BuiltNode(ref, E, u).ref = BuiltRef(ref, E, u)
           /\ BuiltOwner(u) \in {0} \cup 1 .. Len(Built)
  <1>1. E \subseteq Uuid \X Uuid /\ ref \in [Uuid -> SUBSET Uuid]
    BY ClientAssumption
  <1>2. BuiltOwner(u) \in {0} \cup 1 .. Len(Built) /\ BuiltOwner(u) \in Nat
    <2>1. CASE u \in Tree \ {Root}
      <3>1. OwnerOf(u) \in Uuid
        BY <2>1, OwnerInTree, TreeNode
      <3>2. QED
        BY <2>1, <3>1, PositionOf DEF BuiltOwner
    <2>2. CASE u \notin Tree \ {Root}
      BY <2>2 DEF BuiltOwner
    <2>3. QED
      BY <2>1, <2>2
  <1>3. BuiltRef(ref, E, u) \in SUBSET (Nat \cup (Nat \X Nat))
    <2>1. CASE u = Root
      <3>1. \A e \in E : Position(e[1]) \in Nat /\ Position(e[2]) \in Nat
        BY <1>1, PositionOf
      <3>2. \A e \in E : <<Position(e[1]), Position(e[2])>> \in Nat \X Nat
        BY <3>1
      <3>3. QED
        BY <2>1, <3>2 DEF BuiltRef
    <2>2. CASE u # Root
      <3>1. \A r \in ref[u] : Position(r) \in Nat
        BY <1>1, PositionOf
      <3>2. QED
        BY <2>2, <3>1 DEF BuiltRef
    <2>3. QED
      BY <2>1, <2>2
  <1>4. QED
    BY <1>2, <1>3 DEF BuiltNode, Nodes

LEMMA BuiltHeap ==
    ASSUME NEW ref \in References, NEW E \in Edges, NEW h, NEW map,
           h = BuiltNodes(ref, E), map = BuiltMap
    PROVE  /\ HeapOK(h) /\ MapOK(h, map) /\ Len(h) = Len(Built)
           /\ Whole(h, Position(Root), Len(h))
  <1> DEFINE n == Len(Built)
  <1>1. n \in Nat /\ \A i \in 1 .. n : Built[i] \in Uuid
    BY ClientAssumption
  <1>2. \A i \in 1 .. n : h[i] = BuiltNode(ref, E, Built[i])
    BY DEF BuiltNodes
  <1>3. \A i \in 1 .. n : h[i] \in Nodes
    BY <1>1, <1>2, BuiltNodeIs
  <1>4. h = [i \in 1 .. n |-> h[i]] /\ DOMAIN h = 1 .. n
    BY DEF BuiltNodes
  <1> HIDE DEF n
  <1>5. h \in Seq(Nodes) /\ Len(h) = n
    BY <1>1, <1>3, <1>4, FunctionsAreSequences
  <1>6. \A i \in 1 .. n : /\ h[i].uuid = Built[i] /\ h[i].owner = BuiltOwner(Built[i])
                          /\ h[i].ref = BuiltRef(ref, E, Built[i])
                          /\ h[i].owner \in {0} \cup 1 .. n
    BY <1>1, <1>2, BuiltNodeIs DEF n
  <1>7. \A u \in Uuid : /\ map[u] = Position(u) /\ Position(u) \in 1 .. n /\ Position(u) # 0
                        /\ Position(u) \in Nat
                        /\ Built[Position(u)] = u /\ h[Position(u)].uuid = u
    BY <1>6, PositionOf DEF n, BuiltMap
  <1>8. ASSUME NEW i \in 1 .. n
        PROVE  RefOK(h, i)
    <2>1. CASE Built[i] = Root
      <3>1. \A e \in E : e[1] \in Uuid /\ e[2] \in Uuid
        BY ClientAssumption
      <3>2. \A e \in E : <<Position(e[1]), Position(e[2])>> \in (1 .. n) \X (1 .. n)
        BY <1>7, <3>1
      <3>3. h[i].ref \subseteq (1 .. n) \X (1 .. n)
        <4>1. h[i].ref = BuiltRef(ref, E, Root)
          BY <1>6, <2>1
        <4>2. BuiltRef(ref, E, Root) = {<<Position(e[1]), Position(e[2])>> : e \in E}
          BY DEF BuiltRef
        <4>3. QED
          BY <3>2, <4>1, <4>2
      <3>4. QED
        BY <1>4, <1>6, <2>1, <3>3 DEF RefOK
    <2>2. CASE Built[i] # Root
      <3>1. Built[i] \in Uuid
        BY <1>1
      <3>2. \A r \in ref[Built[i]] : r \in Uuid /\ Kind[r] \in Nameable(Kind[Built[i]])
        BY <3>1, ClientAssumption
      <3>3. h[i].ref = {Position(r) : r \in ref[Built[i]]}
        BY <1>6, <2>2 DEF BuiltRef
      <3>4. \A x \in h[i].ref : x \in 1 .. n /\ Kind[h[x].uuid] \in Nameable(Kind[Built[i]])
        BY <1>7, <3>2, <3>3
      <3>5. QED
        BY <1>4, <1>6, <2>2, <3>4 DEF RefOK
    <2>3. QED
      BY <2>1, <2>2
  <1>9. HeapOK(h)
    BY <1>4, <1>5, <1>6, <1>8 DEF HeapOK
  <1>10. map \in [Uuid -> Nat]
    BY <1>7 DEF BuiltMap
  <1>11. MapOK(h, map)
    BY <1>4, <1>7, <1>10 DEF MapOK
  <1>12. Whole(h, map[Root], n)
    <2>1. \A u \in Tree : u \in Uuid
      BY TreeNode
    <2>2. \A u \in Tree : map[u] # 0 /\ map[u] \in 1 .. n /\ h[map[u]].uuid = u
      BY <1>7, <2>1
    <2>3. \A u \in Tree : h[map[u]].owner = BuiltOwner(u)
      BY <1>6, <1>7, <2>1
    <2>4. h[map[Root]].owner = 0
      BY <2>3, RootInTree DEF BuiltOwner
    <2>5. \A u \in Tree \ {Root} : h[map[u]].owner = map[OwnerOf(u)]
      BY <1>7, <2>1, <2>3, OwnerInTree DEF BuiltOwner
    <2>6. \A u \in Tree : TopOf(h, map[u]) = map[Root]
      <3>1. \A u \in Tree : map[u] # 0
        BY <2>2
      <3>2. QED
        BY <2>4, <2>5, <3>1, TopIsRoot
    <2>7. QED
      BY <2>2, <2>6, RootInTree DEF Whole
  <1>13. QED
    BY <1>5, <1>7, <1>9, <1>11, <1>12, TreeAssumption DEF n

LEMMA InitLoadInv ==
    ASSUME Init
    PROVE  LoadInv
  <1>1. PICK ref \in References, E \in Edges :
        /\ heap = [i \in DOMAIN Built |->
              LET u == Built[i]
              IN  [uuid  |-> u,
                   owner |-> IF u \in Tree \ {Root} THEN Position(OwnerOf(u)) ELSE 0,
                   ref   |-> IF u = Root
                             THEN {<<Position(e[1]), Position(e[2])>> : e \in E}
                             ELSE {Position(r) : r \in ref[u]}]]
        /\ uuidMap = [u \in Uuid |-> Position(u)]
        /\ irs = {Position(Root)}
        /\ file = [ref      |-> [u \in Tree \ {Root} |-> ref[u]],
                   edges    |-> E,
                   vertices |-> {u \in Tree : IsCfgNode(u)}
                                   \cup {e[1] : e \in E} \cup {e[2] : e \in E},
                   bad      |-> {},
                   current  |-> TRUE]
        /\ task = <<>>
        /\ status = "idle"
        /\ start = [map |-> uuidMap, len |-> Len(heap)]
        /\ loads = 0
    BY DEF Init
  <1>2. DOMAIN Built = 1 .. Len(Built)
    BY ClientAssumption
  <1>3. heap = BuiltNodes(ref, E)
    BY <1>1, <1>2 DEF BuiltNodes, BuiltNode, BuiltOwner, BuiltRef
  <1>4. uuidMap = BuiltMap /\ irs = {Position(Root)}
    BY <1>1 DEF BuiltMap
  <1>5. HeapOK(heap) /\ MapOK(heap, uuidMap) /\ Whole(heap, Position(Root), Len(heap))
    BY <1>3, <1>4, BuiltHeap
  <1>6. FileOK(file)
    <2> DEFINE refs  == [u \in Tree \ {Root} |-> ref[u]]
               verts == {u \in Tree : IsCfgNode(u)} \cup {e[1] : e \in E} \cup {e[2] : e \in E}
    <2>1. file = [ref |-> refs, edges |-> E, vertices |-> verts, bad |-> {}, current |-> TRUE]
      BY <1>1
    <2>2. E \in SUBSET (Uuid \X Uuid) /\ ref \in [Uuid -> SUBSET Uuid]
      BY ClientAssumption
    <2>3. verts \in SUBSET Uuid
      BY <2>2, VerticesAreUuids
    <2>4. \A u \in Tree \ {Root} : refs[u] = ref[u] /\ ref[u] \in SUBSET Uuid
      BY <2>2, TreeNode
    <2>5. refs \in [Tree \ {Root} -> SUBSET Uuid]
      BY <2>4
    <2> HIDE DEF refs, verts
    <2>6. file \in FileType /\ file.ref = refs
      BY <2>1, <2>2, <2>3, <2>5 DEF FileType
    <2>7. \A u \in Tree \ {Root} : \A r \in refs[u] : Kind[r] \in Nameable(Kind[u])
      BY <2>4, ClientAssumption, TreeNode
    <2>8. QED
      BY <2>6, <2>7, FileParts
  <1>7. Sane(heap, uuidMap, start, file)
    <2>1. start = [map |-> uuidMap, len |-> Len(heap)]
      BY <1>1
    <2>2. QED
      BY <1>5, <1>6, <2>1, LoadStarts
  <1>8. task = <<>> /\ status = "idle"
    BY <1>1
  <1>9. QED
    BY <1>4, <1>5, <1>7, <1>8 DEF LoadInv, General

-----------------------------------------------------------------------------

(* The theorems. *)

LEMMA NextLoadInv ==
    ASSUME LoadInv, Next
    PROVE  LoadInv'
  <1>1. CASE LoadStep
    BY <1>1, CreateNodeStep, AttachStep, LoadReferentStep, LoadSymbolicExpressionsStep,
       LoadEntryPointStep, LoadCFGStep, CheckVersionStep DEF LoadStep
  <1>2. CASE \E json \in BOOLEAN : Load(json)
    BY <1>2, LoadCallStep
  <1>3. CASE \E i \in irs : Save(i)
    BY <1>3, SaveStep
  <1>4. CASE (\E u \in Damageable : Damage(u)) \/ Unlist \/ WrittenElsewhere
    BY <1>4, ClientFileStep
  <1>5. CASE NewContext
    BY <1>5, NewContextStep
  <1>6. QED
    BY <1>1, <1>2, <1>3, <1>4, <1>5 DEF Next

LEMMA StutterLoadInv ==
    ASSUME LoadInv, UNCHANGED vars
    PROVE  LoadInv'
  <1>1. /\ heap' = heap /\ uuidMap' = uuidMap /\ irs' = irs /\ file' = file
        /\ task' = task /\ status' = status /\ start' = start
    BY DEF vars
  <1>2. Loadable' <=> Loadable
    BY <1>1 DEF Loadable
  <1>3. QED
    BY <1>1, <1>2 DEF LoadInv, General, UnderWay

(* Whatever a context holds, a load has at every step created, registered, handed
   over and linked exactly the nodes that the fromProtobuf functions have come to,
   and the IRs that the client has stay whole. *)
THEOREM LoadInvariant == Spec => []LoadInv
  <1>1. Init => LoadInv
    BY InitLoadInv
  <1>2. LoadInv /\ [Next]_vars => LoadInv'
    BY NextLoadInv, StutterLoadInv
  <1>3. QED
    BY <1>1, <1>2, PTL DEF Spec

(* Node::getByUUID never returns a node that is gone or has another UUID, and
   owners and IRs are nodes of the context. *)
THEOREM LoadTypeCorrect == Spec => []TypeOK
  <1>1. ASSUME LoadInv
        PROVE  TypeOK
    <2>1. HeapOK(heap) /\ MapOK(heap, uuidMap) /\ \A i \in irs : Whole(heap, i, Len(heap))
      BY <1>1 DEF LoadInv, General, Sane
    <2>2. DOMAIN heap = 1 .. Len(heap)
      BY <2>1, HeapNode
    <2>3. irs \subseteq DOMAIN heap
      BY <2>1, <2>2 DEF Whole
    <2>4. QED
      BY <1>1, <2>1, <2>3 DEF TypeOK, HeapOK, MapOK, LoadInv
  <1>2. LoadInv => TypeOK
    BY <1>1
  <1>3. QED
    BY <1>2, LoadInvariant, PTL

LEMMA Loaded ==
    ASSUME LoadInv, status = "loaded"
    PROVE  /\ Sane(heap, uuidMap, start, file) /\ Reached(heap, uuidMap, <<>>, start, file)
           /\ \A u : u \in Made(<<>>) <=> u \in Tree
           /\ \A x : x \notin ToSet(<<>>)
           /\ \A u \in Tree : New(u) = uuidMap[u]
  <1>1. task = <<>> /\ Sane(heap, uuidMap, start, file) /\ UnderWay
    BY DEF LoadInv, General
  <1>2. Reached(heap, uuidMap, <<>>, start, file)
    BY <1>1 DEF UnderWay
  <1>3. \A x : x \notin ToSet(<<>>)
    BY EmptyLine
  <1>4. \A u : u \in Made(<<>>) <=> u \in Tree
    BY <1>3 DEF Made
  <1>5. \A u \in Tree : New(u) = uuidMap[u]
    BY <1>1, <1>2, <1>4, ObjIsNew DEF Sane, Reached
  <1>6. QED
    BY <1>1, <1>2, <1>3, <1>4, <1>5

(* When IR::load succeeds, each node of the file has been created once and is in
   its owner, whatever the context held before. *)
THEOREM LoadedTreesComplete == Spec => []LoadedTree
  <1>1. ASSUME LoadInv, status = "loaded", NEW u \in Tree
        PROVE  /\ \E i \in DOMAIN heap :
                     {j \in DOMAIN heap : j > start.len /\ heap[j].uuid = u} = {i}
               /\ heap[New(u)].owner = IF u = Root THEN 0 ELSE New(OwnerOf(u))
    <2> DEFINE t == <<>>
    <2>1. /\ HeapOK(heap) /\ MapOK(heap, uuidMap) /\ StartOK(start)
          /\ Fresh(heap, uuidMap, t, start) /\ Owned(heap, uuidMap, t)
          /\ u \in Made(t) /\ Step("attach", u) \notin ToSet(t) /\ New(u) = uuidMap[u]
      BY <1>1, Loaded DEF Sane, Reached
    <2> HIDE DEF t
    <2>2. /\ uuidMap[u] \in 1 .. Len(heap) /\ uuidMap[u] > start.len /\ heap[uuidMap[u]].uuid = u
          /\ \A i \in DOMAIN heap : i > start.len /\ heap[i].uuid = u => i = uuidMap[u]
      BY <2>1, MadeNode
    <2>3. DOMAIN heap = 1 .. Len(heap)
      BY <2>1, HeapNode
    <2>4. {j \in DOMAIN heap : j > start.len /\ heap[j].uuid = u} = {uuidMap[u]}
      BY <2>2, <2>3
    <2>5. heap[uuidMap[u]].owner = IF u # Root THEN uuidMap[OwnerOf(u)] ELSE 0
      BY <2>1 DEF Owned
    <2>6. u # Root => New(OwnerOf(u)) = uuidMap[OwnerOf(u)]
      BY <1>1, Loaded, OwnerInTree
    <2>7. heap[New(u)].owner = IF u = Root THEN 0 ELSE New(OwnerOf(u))
      BY <2>1, <2>5, <2>6
    <2>8. QED
      BY <2>2, <2>3, <2>4, <2>7
  <1>2. LoadInv => LoadedTree
    BY <1>1 DEF LoadedTree
  <1>3. QED
    BY <1>2, LoadInvariant, PTL

LEMMA TargetIsGoal ==
    ASSUME NEW u, NEW R, \A r \in Tree : New(r) = uuidMap[r]
    PROVE  Target(u, R) = Goal(uuidMap, start, u, R)
  <1>1. \A r \in R : Backward(u, r) => New(r) = uuidMap[r]
    BY DEF Backward
  <1>2. \A x : x \in {New(r) : r \in {y \in R : Backward(u, y)}} <=>
               x \in {uuidMap[r] : r \in {y \in R : Backward(u, y)}}
    BY <1>1
  <1>3. {New(r) : r \in {y \in R : Backward(u, y)}} = {uuidMap[r] : r \in {y \in R : Backward(u, y)}}
    BY <1>2
  <1>4. QED
    BY <1>3 DEF Target, Goal

(* When IR::load succeeds, each referent, symbolic expression, entry point and edge
   leads to the new node, unless it names a node of a later module or one outside
   of the IR; then it leads to what getByUUID found in the context before.  The new
   graph has the edges of the file whose two ends are vertices of it, that is, blocks
   of the IR or listed: addEdge drops the others, also where the context holds the
   nodes they name. *)
THEOREM LoadedReferencesExact == Spec => []LoadedReferences
  <1>1. ASSUME LoadInv, status = "loaded"
        PROVE  /\ \A u \in Tree \ {Root} : heap[New(u)].ref = Target(u, file.ref[u])
               /\ heap[New(Root)].ref =
                     UNION {Target(Root, {e[1]}) \X Target(Root, {e[2]}) :
                                e \in file.edges \cap (Vertices \X Vertices)}
    <2> DEFINE t == <<>>
    <2>1. /\ Sane(heap, uuidMap, start, file) /\ Referred(heap, uuidMap, t, start, file)
          /\ \A u : u \in Made(t) <=> u \in Tree
          /\ \A x : x \notin ToSet(t)
          /\ \A u \in Tree : New(u) = uuidMap[u]
      BY <1>1, Loaded DEF Reached
    <2> HIDE DEF t
    <2>2. ASSUME NEW u \in Tree \ {Root}
          PROVE  heap[New(u)].ref = Target(u, file.ref[u])
      <3>1. heap[New(u)].ref = IF HasRef(u) THEN Goal(uuidMap, start, u, file.ref[u]) ELSE {}
        BY <2>1 DEF Referred, Resolved
      <3>2. Target(u, file.ref[u]) = Goal(uuidMap, start, u, file.ref[u])
        BY <2>1, TargetIsGoal
      <3>3. CASE HasRef(u)
        BY <3>1, <3>2, <3>3
      <3>4. CASE ~HasRef(u)
        <4>1. \A r : r \notin file.ref[u]
          BY <2>1, <3>4, NamedNode DEF Sane
        <4>2. Goal(uuidMap, start, u, file.ref[u]) = {}
          BY <4>1 DEF Goal
        <4>3. QED
          BY <3>1, <3>2, <3>4, <4>2
      <3>5. QED
        BY <3>3, <3>4
    <2>3. heap[New(Root)].ref =
            UNION {Target(Root, {e[1]}) \X Target(Root, {e[2]}) :
                       e \in file.edges \cap (Vertices \X Vertices)}
      <3>1. heap[New(Root)].ref = GoalEdges(uuidMap, start, Joinable(file))
        BY <2>1, RootInTree DEF Referred
      <3>2. Joinable(file) = file.edges \cap (Vertices \X Vertices)
        BY DEF Joinable, ListedIn, Vertices
      <3>3. \A e \in Joinable(file) :
              /\ Target(Root, {e[1]}) = Goal(uuidMap, start, Root, {e[1]})
              /\ Target(Root, {e[2]}) = Goal(uuidMap, start, Root, {e[2]})
        BY <2>1, TargetIsGoal
      <3>4. QED
        BY <3>1, <3>2, <3>3 DEF GoalEdges
    <2>4. QED
      BY <2>2, <2>3
  <1>2. LoadInv => LoadedReferences
    BY <1>1 DEF LoadedReferences
  <1>3. QED
    BY <1>2, LoadInvariant, PTL

(* IR::load succeeds only if the file can be loaded into the context, and fails
   only if it cannot. *)
THEOREM LoadOutcomeExact == Spec => []LoadOutcome
  <1>1. ASSUME LoadInv, status = "loaded"
        PROVE  Loadable
    <2> DEFINE t == <<>>
    <2>1. /\ FileOK(file) /\ Passed(t, start, file)
          /\ \A u : u \in Made(t) <=> u \in Tree
          /\ \A x : x \notin ToSet(t)
      BY <1>1, Loaded DEF Sane, Reached
    <2> HIDE DEF t
    <2>2. file.current
      BY <1>1 DEF LoadInv
    <2>3. file.bad = {}
      <3>1. file.bad \subseteq Tree
        BY <2>1 DEF FileOK
      <3>2. \A u \in Tree : u \notin file.bad
        BY <2>1 DEF Passed
      <3>3. QED
        BY <3>1, <3>2
    <2>4. ASSUME NEW u \in Tree \ {Root}, Kind[u] # "Symbol", NEW r \in file.ref[u]
          PROVE  Backward(u, r) \/ start.map[r] # 0
      <3>1. HasRef(u)
        BY <2>1, NamedNode
      <3>2. Resolved(t, u)
        BY <2>1, <3>1 DEF Resolved
      <3>3. QED
        BY <2>1, <2>4, <3>2 DEF Passed, Findable
    <2>5. \A v \in file.vertices : Backward(Root, v) \/ start.map[v] # 0
      BY <2>1 DEF Passed, Findable
    <2>6. QED
      BY <2>2, <2>3, <2>4, <2>5 DEF Loadable
  <1>2. LoadInv => LoadOutcome
    BY <1>1 DEF LoadOutcome, LoadInv
  <1>3. QED
    BY <1>2, LoadInvariant, PTL

(* No fromProtobuf function changes a node that was in the context before the load,
   also when that node has a UUID of the file, and also when the load fails. *)
THEOREM OldNodesSurvive == Spec => OldNodesUntouched
  <1>1. ASSUME LoadInv, [Next]_vars, status = "loading", NEW i \in 1 .. start.len
        PROVE  heap'[i] = heap[i]
    <2>1. CASE LoadStep
      <3>1. Same(heap, heap', start.len)
        BY <1>1, <2>1, CreateNodeStep, AttachStep, LoadReferentStep, LoadSymbolicExpressionsStep,
           LoadEntryPointStep, LoadCFGStep, CheckVersionStep DEF LoadStep
      <3>2. QED
        BY <3>1 DEF Same
    <2>2. CASE ~LoadStep
      <3>1. heap' = heap
        BY <1>1, <2>2 DEF Next, vars, Load, Save, Damage, Unlist, WrittenElsewhere, Replace,
           NewContext, Between
      <3>2. QED
        BY <3>1
    <2>3. QED
      BY <2>1, <2>2
  <1>2. LoadInv /\ [Next]_vars =>
          [status = "loading" => \A i \in 1 .. start.len : heap'[i] = heap[i]]_vars
    BY <1>1
  <1>3. QED
    BY <1>2, LoadInvariant, PTL DEF OldNodesUntouched, Spec

=============================================================================
