-------------------------- MODULE BlockIndexProofs --------------------------
(***************************************************************************)
(* Proofs about BlockIndex: for all sets of blocks, offsets and sizes, and *)
(* wherever searches end, the index of a byte interval is exact and in     *)
(* order as long as no change of a block's size or decode mode reorders    *)
(* it among the blocks at its offset.                                      *)
(***************************************************************************)
EXTENDS BlockIndex, CommonFacts, TLAPS

-----------------------------------------------------------------------------

(* Keys are compared component by component; the last one is the UUID. *)

KeyTuple == [1 .. 5 -> Int]

Keyed(K) ==
    /\ K \in [Block -> KeyTuple]
    /\ \A b, c \in Block : b # c => K[b][5] # K[c][5]

InOrder(s, K) == \A i, j \in 1 .. Len(s) : i < j => Less(K[s[i]], K[s[j]])

(* BlockOffsetPairLess is a strict order. *)
LEMMA LessIrreflexive ==
    ASSUME NEW k \in KeyTuple
    PROVE  ~Less(k, k)
  BY DEF Less, KeyTuple

LEMMA LessTransitive ==
    ASSUME NEW k \in KeyTuple, NEW l \in KeyTuple, NEW m \in KeyTuple,
           Less(k, l), Less(l, m)
    PROVE  Less(k, m)
  <1>1. PICK i \in 1 .. 5 : k[i] < l[i] /\ \A h \in 1 .. i - 1 : k[h] = l[h]
    BY DEF Less, KeyTuple
  <1>2. PICK j \in 1 .. 5 : l[j] < m[j] /\ \A h \in 1 .. j - 1 : l[h] = m[h]
    BY DEF Less, KeyTuple
  <1>3. \A h \in 1 .. 5 : k[h] \in Int /\ l[h] \in Int /\ m[h] \in Int
    BY DEF KeyTuple
  <1>4. CASE i < j
    <2>1. k[i] < m[i] /\ \A h \in 1 .. i - 1 : k[h] = m[h]
      BY <1>1, <1>2, <1>3, <1>4
    <2>2. QED
      BY <2>1 DEF Less, KeyTuple
  <1>5. CASE i >= j
    <2>1. k[j] < m[j] /\ \A h \in 1 .. j - 1 : k[h] = m[h]
      BY <1>1, <1>2, <1>3, <1>5
    <2>2. QED
      BY <2>1 DEF Less, KeyTuple
  <1>6. QED
    BY <1>4, <1>5

LEMMA LessTotal ==
    ASSUME NEW k \in KeyTuple, NEW l \in KeyTuple, k[5] # l[5]
    PROVE  Less(k, l) \/ Less(l, k)
  <1> DEFINE D == {i \in 1 .. 5 : k[i] # l[i]}
  <1>1. PICK i \in D : \A j \in D : i <= j
    <2>1. D \subseteq Nat /\ D # {}
      OBVIOUS
    <2> HIDE DEF D
    <2>2. QED
      BY <2>1, LeastElement
  <1>2. i \in 1 .. 5 /\ \A j \in 1 .. i - 1 : k[j] = l[j]
    BY <1>1
  <1>3. k[i] < l[i] \/ l[i] < k[i]
    BY <1>1 DEF KeyTuple
  <1>4. QED
    BY <1>2, <1>3 DEF Less, KeyTuple

(* The same of the blocks with these keys. *)
LEMMA KeysOrdered ==
    ASSUME NEW K, Keyed(K)
    PROVE  /\ \A b \in Block : ~Less(K[b], K[b])
           /\ \A b, c \in Block : b # c => Less(K[b], K[c]) \/ Less(K[c], K[b])
           /\ \A b, c, d \in Block : Less(K[b], K[c]) /\ Less(K[c], K[d]) => Less(K[b], K[d])
  <1>1. \A b \in Block : K[b] \in KeyTuple
    BY DEF Keyed
  <1>2. QED
    BY <1>1, LessIrreflexive, LessTotal, LessTransitive DEF Keyed

(* A sequence of blocks in order has each of them once. *)
LEMMA InOrderInjective ==
    ASSUME NEW K, Keyed(K), NEW s \in Seq(Block), InOrder(s, K)
    PROVE  IsInjective(s)
  <1>1. DOMAIN s = 1 .. Len(s) /\ Len(s) \in Nat /\ \A i \in 1 .. Len(s) : s[i] \in Block
    OBVIOUS
  <1>2. ASSUME NEW i \in DOMAIN s, NEW j \in DOMAIN s, s[i] = s[j]
        PROVE  i = j
    <2>1. ~Less(K[s[i]], K[s[j]]) /\ ~Less(K[s[j]], K[s[i]])
      BY <1>1, <1>2, KeysOrdered
    <2>2. QED
      BY <1>1, <2>1 DEF InOrder
  <1>3. QED
    BY <1>2 DEF IsInjective

-----------------------------------------------------------------------------

(* Taking an element out of a sequence. *)

LEMMA Cut ==
    ASSUME NEW X, NEW s \in Seq(X), NEW p \in 1 .. Len(s)
    PROVE  LET e == SubSeq(s, 1, p - 1) \o SubSeq(s, p + 1, Len(s))
           IN  /\ e \in Seq(X) /\ Len(e) = Len(s) - 1
               /\ \A k \in 1 .. Len(s) - 1 : e[k] = IF k < p THEN s[k] ELSE s[k + 1]
  <1> DEFINE a == SubSeq(s, 1, p - 1)
             b == SubSeq(s, p + 1, Len(s))
             n == Len(s)
  <1>1. n \in Nat /\ p \in Int
    OBVIOUS
  <1>2. a \in Seq(X) /\ Len(a) = p - 1 /\ \A k \in 1 .. p - 1 : a[k] = s[k]
    OBVIOUS
  <1>3. b \in Seq(X) /\ Len(b) = n - p /\ \A k \in 1 .. n - p : b[k] = s[p + k]
    OBVIOUS
  <1> HIDE DEF a, b
  <1>4. a \o b \in Seq(X) /\ Len(a \o b) = n - 1
    <2>1. a \in Seq(X) /\ b \in Seq(X)
      BY <1>2, <1>3
    <2>2. a \o b \in Seq(X) /\ Len(a \o b) = Len(a) + Len(b)
      BY <2>1
    <2>3. QED
      BY <1>1, <1>2, <1>3, <2>2
  <1>5. ASSUME NEW k \in 1 .. n - 1
        PROVE  (a \o b)[k] = IF k < p THEN s[k] ELSE s[k + 1]
    <2>1. CASE k < p
      BY <1>2, <1>3, <2>1
    <2>2. CASE k >= p
      <3>1. k - (p - 1) \in 1 .. n - p /\ p + (k - (p - 1)) = k + 1
        BY <1>1, <2>2
      <3>2. (a \o b)[k] = b[k - (p - 1)]
        BY <1>2, <1>3, <2>2
      <3>3. QED
        BY <1>3, <2>2, <3>1, <3>2
    <2>3. k < p \/ k >= p
      BY <1>1
    <2>4. QED
      BY <2>1, <2>2, <2>3, Zenon
  <1>6. QED
    BY <1>4, <1>5 DEF a, b

-----------------------------------------------------------------------------

(* Erasing a block that is in a multiset in order: both searches end next to
   it, so it goes and nothing else does. *)
LEMMA Erased ==
    ASSUME NEW K, Keyed(K), NEW s \in Seq(Block), InOrder(s, K),
           NEW b \in ToSet(s), NEW e \in Erasures(s, b, K)
    PROVE  e \in Seq(Block) /\ InOrder(e, K) /\ ToSet(e) = ToSet(s) \ {b}
  <1> DEFINE n == Len(s)
  <1>1. n \in Nat /\ DOMAIN s = 1 .. n /\ \A k \in 1 .. n : s[k] \in Block
    OBVIOUS
  <1>2. PICK p \in 1 .. n : s[p] = b
    BY <1>1 DEF ToSet
  <1>3. PICK q \in LowerBounds(s, K[b], K) \X UpperBounds(s, K[b], K) :
               e = SubSeq(s, 1, q[1] - 1) \o SubSeq(s, q[2], n)
    BY DEF Erasures
  <1>4. \A k \in 1 .. n : k < p => Less(K[s[k]], K[b]) /\ ~Less(K[b], K[s[k]])
    BY <1>1, <1>2, KeysOrdered DEF InOrder
  <1>5. \A k \in 1 .. n : k > p => Less(K[b], K[s[k]]) /\ ~Less(K[s[k]], K[b])
    BY <1>1, <1>2, KeysOrdered DEF InOrder
  <1>6. ~Less(K[b], K[b])
    BY <1>1, <1>2, KeysOrdered
  <1>7. q[1] = p
    <2> DEFINE i == q[1]
    <2>1. /\ i \in 1 .. n + 1
          /\ i > 1 => Less(K[s[i - 1]], K[b])
          /\ i <= n => ~Less(K[s[i]], K[b])
      BY <1>3 DEF LowerBounds
    <2> HIDE DEF i, n
    <2>2. ~(i < p)
      BY <1>1, <1>4, <2>1
    <2>3. ~(i > p)
      <3>1. SUFFICES ASSUME i > p
                     PROVE  FALSE
        OBVIOUS
      <3>2. i - 1 \in 1 .. n /\ i - 1 >= p /\ i > 1
        BY <1>1, <2>1, <3>1
      <3>3. CASE i - 1 = p
        BY <1>2, <1>6, <2>1, <3>2, <3>3
      <3>4. CASE i - 1 > p
        BY <1>5, <2>1, <3>2, <3>4
      <3>5. QED
        BY <3>2, <3>3, <3>4
    <2>4. QED
      BY <1>1, <2>1, <2>2, <2>3 DEF i
  <1>8. q[2] = p + 1
    <2> DEFINE j == q[2]
    <2>1. /\ j \in 1 .. n + 1
          /\ j > 1 => ~Less(K[b], K[s[j - 1]])
          /\ j <= n => Less(K[b], K[s[j]])
      BY <1>3 DEF UpperBounds
    <2> HIDE DEF j, n
    <2>2. ~(j < p)
      BY <1>1, <1>4, <2>1
    <2>3. j # p
      BY <1>1, <1>2, <1>6, <2>1
    <2>4. ~(j > p + 1)
      <3>1. SUFFICES ASSUME j > p + 1
                     PROVE  FALSE
        OBVIOUS
      <3>2. j - 1 \in 1 .. n /\ j - 1 > p /\ j > 1
        BY <1>1, <2>1, <3>1
      <3>3. QED
        BY <1>5, <2>1, <3>2
    <2>5. QED
      BY <1>1, <2>1, <2>2, <2>3, <2>4 DEF j
  <1>9. e = SubSeq(s, 1, p - 1) \o SubSeq(s, p + 1, n)
    BY <1>3, <1>7, <1>8
  <1>10. /\ e \in Seq(Block) /\ Len(e) = n - 1
         /\ \A k \in 1 .. n - 1 : e[k] = IF k < p THEN s[k] ELSE s[k + 1]
    BY <1>9, Cut
  <1> HIDE DEF n
  <1>11. DOMAIN e = 1 .. n - 1
    BY <1>1, <1>10
  <1>12. InOrder(e, K)
    <2> SUFFICES ASSUME NEW i \in 1 .. n - 1, NEW j \in 1 .. n - 1, i < j
                 PROVE  Less(K[e[i]], K[e[j]])
      BY <1>10 DEF InOrder
    <2> DEFINE i1 == IF i < p THEN i ELSE i + 1
               j1 == IF j < p THEN j ELSE j + 1
    <2>1. i1 \in 1 .. n /\ j1 \in 1 .. n /\ i1 < j1
      BY <1>1
    <2>2. e[i] = s[i1] /\ e[j] = s[j1]
      BY <1>10
    <2> HIDE DEF i1, j1
    <2>3. QED
      BY <2>1, <2>2 DEF InOrder, n
  <1>13. ASSUME NEW c
         PROVE  c \in ToSet(e) <=> c \in ToSet(s) \ {b}
    <2>1. ASSUME NEW k \in 1 .. n - 1, c = e[k]
          PROVE  c \in ToSet(s) \ {b}
      <3> DEFINE k1 == IF k < p THEN k ELSE k + 1
      <3>1. k1 \in 1 .. n /\ k1 # p
        BY <1>1
      <3>2. c = s[k1]
        BY <1>10, <2>1
      <3> HIDE DEF k1
      <3>3. s[k1] # s[p]
        <4>1. IsInjective(s)
          BY InOrderInjective
        <4>2. QED
          BY <1>1, <3>1, <4>1 DEF IsInjective
      <3>4. QED
        BY <1>1, <1>2, <3>1, <3>2, <3>3 DEF ToSet
    <2>2. ASSUME NEW k \in 1 .. n, c = s[k], c # b
          PROVE  c \in ToSet(e)
      <3>1. k # p
        BY <1>2, <2>2
      <3>2. CASE k < p
        <4>1. k \in 1 .. n - 1 /\ e[k] = s[k]
          BY <1>1, <1>10, <3>2
        <4>2. QED
          BY <1>11, <2>2, <4>1 DEF ToSet
      <3>3. CASE k > p
        <4>1. k - 1 \in 1 .. n - 1 /\ e[k - 1] = s[k]
          BY <1>1, <1>10, <3>3
        <4>2. QED
          BY <1>11, <2>2, <4>1 DEF ToSet
      <3>4. QED
        BY <1>1, <3>1, <3>2, <3>3
    <2>3. QED
      BY <1>1, <1>11, <2>1, <2>2 DEF ToSet
  <1>14. QED
    BY <1>10, <1>12, <1>13

(* Inserting a block that is not there: the neighbours of the place where the
   search ends are in order with it, hence everything is. *)
LEMMA Inserted ==
    ASSUME NEW K, Keyed(K), NEW s \in Seq(Block), InOrder(s, K),
           NEW b \in Block, b \notin ToSet(s), NEW e \in Insertions(s, b, K)
    PROVE  e \in Seq(Block) /\ InOrder(e, K) /\ ToSet(e) = ToSet(s) \cup {b}
  <1> DEFINE n == Len(s)
  <1>1. n \in Nat /\ DOMAIN s = 1 .. n /\ \A k \in 1 .. n : s[k] \in Block /\ s[k] # b
    BY DEF ToSet
  <1>2. PICK g \in 1 .. n + 1 :
               /\ g > 1 => ~Less(K[b], K[s[g - 1]])
               /\ g <= n => ~Less(K[s[g]], K[b])
               /\ e = InsertAt(s, g, b)
    BY DEF Insertions
  <1>3. /\ e \in Seq(Block) /\ Len(e) = n + 1
        /\ \A k \in 1 .. n + 1 :
              e[k] = IF k < g THEN s[k] ELSE IF k = g THEN b ELSE s[k - 1]
    <2>1. g \in 1 .. Len(s) + 1 /\ e = InsertAt(s, g, b)
      BY <1>2
    <2>2. e \in Seq(Block) /\ PutIn(e, s, g, b)
      BY <2>1, Insertion
    <2>3. QED
      BY <2>2 DEF PutIn
  <1> HIDE DEF n
  <1>4. DOMAIN e = 1 .. n + 1
    BY <1>1, <1>3
  <1>5. \A k \in 1 .. n : k < g => Less(K[s[k]], K[b])
    <2> SUFFICES ASSUME NEW k \in 1 .. n, k < g
                 PROVE  Less(K[s[k]], K[b])
      OBVIOUS
    <2>1. g > 1 /\ g - 1 \in 1 .. n /\ k <= g - 1
      BY <1>1, <1>2
    <2>2. Less(K[s[g - 1]], K[b])
      BY <1>1, <1>2, <2>1, KeysOrdered
    <2>3. CASE k = g - 1
      BY <2>2, <2>3
    <2>4. CASE k < g - 1
      <3>1. Less(K[s[k]], K[s[g - 1]])
        BY <2>1, <2>4 DEF InOrder, n
      <3>2. QED
        BY <1>1, <2>1, <2>2, <3>1, KeysOrdered
    <2>5. QED
      BY <2>1, <2>3, <2>4
  <1>6. \A k \in 1 .. n : k >= g => Less(K[b], K[s[k]])
    <2> SUFFICES ASSUME NEW k \in 1 .. n, k >= g
                 PROVE  Less(K[b], K[s[k]])
      OBVIOUS
    <2>1. g <= n /\ g \in 1 .. n
      BY <1>1, <1>2
    <2>2. Less(K[b], K[s[g]])
      BY <1>1, <1>2, <2>1, KeysOrdered
    <2>3. CASE k = g
      BY <2>2, <2>3
    <2>4. CASE k > g
      <3>1. Less(K[s[g]], K[s[k]])
        BY <2>1, <2>4 DEF InOrder, n
      <3>2. QED
        BY <1>1, <2>1, <2>2, <3>1, KeysOrdered
    <2>5. QED
      BY <2>1, <2>3, <2>4
  <1>7. InOrder(e, K)
    <2> SUFFICES ASSUME NEW i \in 1 .. n + 1, NEW j \in 1 .. n + 1, i < j
                 PROVE  Less(K[e[i]], K[e[j]])
      BY <1>3 DEF InOrder
    <2>1. CASE i = g
      <3>1. j - 1 \in 1 .. n /\ j - 1 >= g /\ e[i] = b /\ e[j] = s[j - 1]
        BY <1>1, <1>3, <2>1
      <3>2. QED
        BY <1>6, <3>1
    <2>2. CASE j = g
      <3>1. i \in 1 .. n /\ i < g /\ e[i] = s[i] /\ e[j] = b
        BY <1>1, <1>3, <2>2
      <3>2. QED
        BY <1>5, <3>1
    <2>3. CASE i # g /\ j # g
      <3> DEFINE i1 == IF i < g THEN i ELSE i - 1
                 j1 == IF j < g THEN j ELSE j - 1
      <3>1. i1 \in 1 .. n /\ j1 \in 1 .. n /\ i1 < j1
        BY <1>1, <2>3
      <3>2. e[i] = s[i1] /\ e[j] = s[j1]
        BY <1>3, <2>3
      <3> HIDE DEF i1, j1
      <3>3. QED
        BY <3>1, <3>2 DEF InOrder, n
    <2>4. QED
      BY <2>1, <2>2, <2>3
  <1>8. ASSUME NEW c
        PROVE  c \in ToSet(e) <=> c \in ToSet(s) \cup {b}
    <2>1. ASSUME NEW k \in 1 .. n + 1, c = e[k]
          PROVE  c \in ToSet(s) \cup {b}
      <3>1. CASE k = g
        BY <1>3, <2>1, <3>1
      <3>2. CASE k # g
        <4> DEFINE k1 == IF k < g THEN k ELSE k - 1
        <4>1. k1 \in 1 .. n
          BY <1>1, <3>2
        <4>2. c = s[k1]
          BY <1>3, <2>1, <3>2
        <4> HIDE DEF k1
        <4>3. QED
          BY <1>1, <4>1, <4>2 DEF ToSet
      <3>3. QED
        BY <3>1, <3>2
    <2>2. ASSUME NEW k \in 1 .. n, c = s[k]
          PROVE  c \in ToSet(e)
      <3>1. CASE k < g
        <4>1. k \in 1 .. n + 1 /\ e[k] = s[k]
          BY <1>1, <1>3, <3>1
        <4>2. QED
          BY <1>4, <2>2, <4>1 DEF ToSet
      <3>2. CASE k >= g
        <4>1. k + 1 \in 1 .. n + 1 /\ e[k + 1] = s[k]
          BY <1>1, <1>3, <3>2
        <4>2. QED
          BY <1>4, <2>2, <4>1 DEF ToSet
      <3>3. QED
        BY <1>1, <3>1, <3>2
    <2>3. b \in ToSet(e)
      <3>1. e[g] = b
        BY <1>3
      <3>2. QED
        BY <1>4, <3>1 DEF ToSet
    <2>4. QED
      BY <1>1, <1>4, <2>1, <2>2, <2>3 DEF ToSet
  <1>9. QED
    BY <1>3, <1>7, <1>8

-----------------------------------------------------------------------------

(* The whole index.  A map indexes C if at every offset its multiset is in
   order and holds the blocks that C gives there. *)

Points == 0 .. Limit - 1

Indexes(map, C, K) ==
    /\ map \in [Points -> Seq(Block)]
    /\ \A o \in Points : InOrder(map[o], K) /\ ToSet(map[o]) = C[o]

Minus(C, b)         == [o \in Points |-> C[o] \ {b}]
Plus(C, points, b)  == [o \in Points |-> IF o \in points THEN C[o] \cup {b} ELSE C[o]]

(* Subtracting a block from the points where it is takes it out of the index. *)
LEMMA SubtractedExact ==
    ASSUME NEW K, Keyed(K), NEW map, NEW C, Indexes(map, C, K),
           NEW b \in Block, NEW points,
           \A o \in Points : b \in C[o] <=> o \in points,
           NEW m \in Subtracted(map, points, b, K)
    PROVE  Indexes(m, Minus(C, b), K)
  <1>1. DOMAIN map = Points
    BY DEF Indexes
  <1>2. PICK f : /\ m = [o \in Points |-> IF o \in points THEN f[o] ELSE map[o]]
                 /\ \A o \in points : f[o] \in Erasures(map[o], b, K)
    BY <1>1 DEF Subtracted, Updates
  <1>3. ASSUME NEW o \in Points
        PROVE  m[o] \in Seq(Block) /\ InOrder(m[o], K) /\ ToSet(m[o]) = C[o] \ {b}
    <2>1. map[o] \in Seq(Block) /\ InOrder(map[o], K) /\ ToSet(map[o]) = C[o]
      BY DEF Indexes
    <2>2. CASE o \in points
      <3>1. m[o] \in Erasures(map[o], b, K) /\ b \in ToSet(map[o])
        BY <1>2, <2>1, <2>2
      <3>2. QED
        BY <2>1, <3>1, Erased
    <2>3. CASE o \notin points
      <3>1. m[o] = map[o] /\ b \notin C[o]
        BY <1>2, <2>3
      <3>2. QED
        BY <2>1, <3>1
    <2>4. QED
      BY <2>2, <2>3
  <1>4. m \in [Points -> Seq(Block)]
    BY <1>2, <1>3
  <1>5. QED
    BY <1>3, <1>4 DEF Indexes, Minus

(* Adding a block that is nowhere in the index to some points. *)
LEMMA AddedExact ==
    ASSUME NEW K, Keyed(K), NEW map, NEW C, Indexes(map, C, K),
           NEW b \in Block, NEW points,
           \A o \in Points : b \notin C[o],
           NEW m \in Added(map, points, b, K)
    PROVE  Indexes(m, Plus(C, points, b), K)
  <1>1. DOMAIN map = Points
    BY DEF Indexes
  <1>2. PICK f : /\ m = [o \in Points |-> IF o \in points THEN f[o] ELSE map[o]]
                 /\ \A o \in points : f[o] \in Insertions(map[o], b, K)
    BY <1>1 DEF Added, Updates
  <1>3. ASSUME NEW o \in Points
        PROVE  /\ m[o] \in Seq(Block) /\ InOrder(m[o], K)
               /\ ToSet(m[o]) = IF o \in points THEN C[o] \cup {b} ELSE C[o]
    <2>1. map[o] \in Seq(Block) /\ InOrder(map[o], K) /\ ToSet(map[o]) = C[o]
      BY DEF Indexes
    <2>2. CASE o \in points
      <3>1. m[o] \in Insertions(map[o], b, K) /\ b \notin ToSet(map[o])
        BY <1>2, <2>1, <2>2
      <3>2. QED
        BY <2>1, <2>2, <3>1, Inserted
    <2>3. CASE o \notin points
      <3>1. m[o] = map[o]
        BY <1>2, <2>3
      <3>2. QED
        BY <2>1, <2>3, <3>1
    <2>4. QED
      BY <2>2, <2>3
  <1>4. m \in [Points -> Seq(Block)]
    BY <1>2, <1>3
  <1>5. QED
    BY <1>3, <1>4 DEF Indexes, Plus

(* Keys may change while the blocks are in the index as long as they compare
   as before. *)
LEMMA Rekeyed ==
    ASSUME NEW K, NEW L, NEW map, NEW C, Indexes(map, C, K),
           \A o \in Points : \A c, d \in C[o] : Less(K[c], K[d]) => Less(L[c], L[d])
    PROVE  Indexes(map, C, L)
  <1>1. ASSUME NEW o \in Points
        PROVE  InOrder(map[o], L)
    <2>1. map[o] \in Seq(Block) /\ InOrder(map[o], K) /\ ToSet(map[o]) = C[o]
      BY DEF Indexes
    <2>2. \A i \in 1 .. Len(map[o]) : map[o][i] \in C[o]
      BY <2>1 DEF ToSet
    <2>3. QED
      BY <2>1, <2>2 DEF InOrder
  <1>2. QED
    BY <1>1 DEF Indexes

-----------------------------------------------------------------------------

(* The keys and the covered offsets as functions of the state. *)

KeysOf(off, sz, md) ==
    [b \in Block |-> <<IF off[b] = Null THEN -1 ELSE off[b], sz[b],
                       IF b \in CodeBlock THEN 0 ELSE 1, md[b], Rank[b]>>]

Covers(off, sz) ==
    [o \in Points |-> {b \in Block : off[b] # Null /\ o \in Span(off[b], sz[b])}]

LEMMA KeysKeyed ==
    ASSUME NEW off \in [Block -> Offset \cup {Null}], NEW sz \in [Block -> Size],
           NEW md \in [Block -> Mode]
    PROVE  Keyed(KeysOf(off, sz, md))
  <1> DEFINE K == KeysOf(off, sz, md)
  <1>1. ASSUME NEW b \in Block
        PROVE  K[b] \in KeyTuple /\ K[b][5] = Rank[b]
    <2> DEFINE v == IF off[b] = Null THEN -1 ELSE off[b]
               w == IF b \in CodeBlock THEN 0 ELSE 1
    <2>1. v \in Int /\ sz[b] \in Int /\ w \in Int /\ md[b] \in Int /\ Rank[b] \in Int
      <3>1. Offset \subseteq Int /\ Size \subseteq Int /\ Mode \subseteq Int
        BY BlockAssumption
      <3>2. Rank \in [Block -> Nat]
        BY BlockAssumption
      <3>3. v \in Int
        <4>1. off[b] = Null \/ off[b] \in Int
          BY <3>1
        <4>2. CASE off[b] = Null
          <5>1. v = -1
            BY <4>2
          <5>2. QED
            BY <5>1
        <4>3. CASE off[b] # Null
          <5>1. v = off[b]
            BY <4>3
          <5>2. QED
            BY <4>1, <4>3, <5>1
        <4>4. QED
          BY <4>2, <4>3
      <3>4. sz[b] \in Int /\ md[b] \in Int
        BY <3>1
      <3>5. QED
        BY <3>2, <3>3, <3>4
    <2>2. K[b] = <<v, sz[b], w, md[b], Rank[b]>>
      BY DEF KeysOf
    <2> HIDE DEF v, w, K
    <2>3. QED
      BY <2>1, <2>2 DEF KeyTuple
  <1>2. DOMAIN K = Block
    BY DEF KeysOf
  <1>3. \A b, c \in Block : b # c => Rank[b] # Rank[c]
    BY BlockAssumption DEF IsInjective
  <1> HIDE DEF K
  <1>4. K \in [Block -> KeyTuple]
    <2>1. K = [b \in Block |-> K[b]]
      BY <1>2 DEF K, KeysOf
    <2>2. QED
      BY <1>1, <2>1
  <1>5. QED
    BY <1>1, <1>3, <1>4 DEF Keyed, K

(* Blocks at different offsets are ordered by their offsets. *)
LEMMA OffsetDecides ==
    ASSUME NEW k \in KeyTuple, NEW l \in KeyTuple, k[1] # l[1]
    PROVE  Less(k, l) <=> k[1] < l[1]
  <1>1. k[1] \in Int /\ l[1] \in Int /\ DOMAIN k = 1 .. 5
    BY DEF KeyTuple
  <1>2. ASSUME k[1] < l[1]
        PROVE  Less(k, l)
    BY <1>1, <1>2 DEF Less
  <1>3. ASSUME Less(k, l)
        PROVE  k[1] < l[1]
    <2>1. PICK i \in 1 .. 5 : k[i] < l[i] /\ \A j \in 1 .. i - 1 : k[j] = l[j]
      BY <1>1, <1>3 DEF Less
    <2>2. i = 1
      BY <2>1
    <2>3. QED
      BY <2>1, <2>2
  <1>4. QED
    BY <1>2, <1>3

-----------------------------------------------------------------------------

(* The inductive invariant: the index is exact and every pair of blocks in it,
   not only neighbours, is in order. *)
IndexInv ==
    /\ offset \in [Block -> Offset \cup {Null}]
    /\ size \in [Block -> Size]
    /\ mode \in [Block -> Mode]
    /\ Indexes(at, Covers(offset, size), Key)

(* Only what C gives at the offsets matters. *)
LEMMA SameBlocks ==
    ASSUME NEW map, NEW C, NEW D, NEW K, Indexes(map, C, K),
           \A o \in Points : C[o] = D[o]
    PROVE  Indexes(map, D, K)
  BY DEF Indexes

LEMMA CoversByPoint ==
    ASSUME NEW off, NEW sz, NEW o \in Points, NEW c
    PROVE  /\ c \in Covers(off, sz)[o] <=> c \in Block /\ off[c] # Null /\ o \in Span(off[c], sz[c])
  BY DEF Covers

(* A block whose attributes are not changed keeps its key. *)
LEMMA KeysSame ==
    ASSUME NEW off, NEW sz, NEW md, NEW off2, NEW sz2, NEW md2, NEW c \in Block,
           off[c] = off2[c], sz[c] = sz2[c], md[c] = md2[c]
    PROVE  KeysOf(off, sz, md)[c] = KeysOf(off2, sz2, md2)[c]
  BY DEF KeysOf

LEMMA KeyIsKeysOf == Key = KeysOf(offset, size, mode) /\ Key' = KeysOf(offset', size', mode')
  BY DEF Key, KeysOf

(* Taking a block out of the index, under keys that give the same order. *)
LEMMA TakenOut ==
    ASSUME NEW K, Keyed(K), NEW map, NEW off, NEW sz, Indexes(map, Covers(off, sz), K),
           NEW b \in Block, off[b] # Null, NEW m \in Subtracted(map, Span(off[b], sz[b]), b, K)
    PROVE  Indexes(m, Minus(Covers(off, sz), b), K)
  <1>1. \A o \in Points : b \in Covers(off, sz)[o] <=> o \in Span(off[b], sz[b])
    BY CoversByPoint
  <1>2. QED
    BY <1>1, SubtractedExact

(* Putting a block in at an offset. *)
LEMMA BroughtIn ==
    ASSUME NEW K, Keyed(K), NEW map, NEW off, NEW sz, NEW off2, NEW sz2, NEW b \in Block,
           \A c \in Block : c # b => off[c] = off2[c] /\ sz[c] = sz2[c],
           Indexes(map, Minus(Covers(off, sz), b), K), off2[b] # Null,
           NEW m \in Added(map, Span(off2[b], sz2[b]), b, K)
    PROVE  Indexes(m, Covers(off2, sz2), K)
  <1> DEFINE C == Minus(Covers(off, sz), b)
             P == Plus(C, Span(off2[b], sz2[b]), b)
  <1>1. \A o \in Points : b \notin C[o]
    BY DEF Minus
  <1>2. Indexes(m, P, K)
    <2> HIDE DEF C
    <2> QED
      BY <1>1, AddedExact DEF C
  <1>3. ASSUME NEW o \in Points
        PROVE  P[o] = Covers(off2, sz2)[o]
    <2>1. C[o] = Covers(off, sz)[o] \ {b}
      BY DEF Minus
    <2>2. P[o] = IF o \in Span(off2[b], sz2[b]) THEN C[o] \cup {b} ELSE C[o]
      BY DEF Plus
    <2>3. ASSUME NEW c
          PROVE  c \in P[o] <=> c \in Covers(off2, sz2)[o]
      <3>1. CASE c = b
        BY <2>1, <2>2, <3>1, CoversByPoint
      <3>2. CASE c # b
        <4>1. c \in P[o] <=> c \in Covers(off, sz)[o]
          BY <2>1, <2>2, <3>2
        <4>2. c \in Block => off[c] = off2[c] /\ sz[c] = sz2[c]
          BY <3>2
        <4>3. QED
          BY <4>1, <4>2, CoversByPoint
      <3>3. QED
        BY <3>1, <3>2
    <2>4. QED
      BY <2>3
  <1> HIDE DEF P
  <1>4. QED
    BY <1>2, <1>3, SameBlocks

(* addBlock takes the block out under its old key and puts it in under its new
   key. *)
LEMMA AddStep ==
    ASSUME IndexInv, NEW b \in Block, NEW o \in Offset, addBlock(b, o)
    PROVE  IndexInv'
  <1> DEFINE C == Covers(offset, size)
             span == Span(o, size[b])
  <1>1. /\ offset' \in [Block -> Offset \cup {Null}] /\ offset'[b] = o
        /\ \A c \in Block : c # b => offset[c] = offset'[c]
        /\ size' = size /\ mode' = mode
    BY DEF addBlock, IndexInv
  <1>2. Keyed(Key) /\ Keyed(Key')
    BY <1>1, KeyIsKeysOf, KeysKeyed DEF IndexInv
  <1>3. PICK m : /\ IF offset[b] = Null THEN m = at
                    ELSE m \in Subtracted(at, Span(offset[b], size[b]), b, Key)
                 /\ at' \in Added(m, span, b, Key')
    BY DEF addBlock
  <1>4. Indexes(m, Minus(C, b), Key)
    <2>1. CASE offset[b] = Null
      <3>1. \A p \in Points : C[p] = Minus(C, b)[p]
        <4>1. \A p \in Points : b \notin C[p]
          BY <2>1, CoversByPoint
        <4>2. QED
          BY <4>1 DEF Minus
      <3>2. Indexes(m, C, Key)
        BY <1>3, <2>1 DEF IndexInv
      <3> HIDE DEF C
      <3>3. QED
        BY <3>1, <3>2, SameBlocks
    <2>2. CASE offset[b] # Null
      BY <1>2, <1>3, <2>2, TakenOut DEF IndexInv
    <2>3. QED
      BY <2>1, <2>2
  <1>5. Indexes(m, Minus(C, b), Key')
    <2>1. ASSUME NEW p \in Points, NEW c \in Minus(C, b)[p]
          PROVE  Key[c] = Key'[c]
      <3>1. c \in Block /\ c # b
        BY CoversByPoint DEF Minus
      <3>2. QED
        BY <1>1, <3>1, KeyIsKeysOf, KeysSame
    <2> HIDE DEF C
    <2>2. QED
      BY <1>4, <2>1, Rekeyed
  <1>6. offset'[b] # Null
    BY <1>1, BlockAssumption
  <1>7. Indexes(at', Covers(offset', size'), Key')
    BY <1>1, <1>2, <1>3, <1>5, <1>6, BroughtIn
  <1>8. QED
    BY <1>1, <1>7 DEF IndexInv

LEMMA RemoveStep ==
    ASSUME IndexInv, NEW b \in Block, removeBlock(b)
    PROVE  IndexInv'
  <1> DEFINE C == Covers(offset, size)
  <1>1. /\ offset' \in [Block -> Offset \cup {Null}] /\ offset'[b] = Null
        /\ \A c \in Block : c # b => offset[c] = offset'[c]
        /\ size' = size /\ mode' = mode /\ offset[b] # Null
        /\ at' \in Subtracted(at, Span(offset[b], size[b]), b, Key)
    BY DEF removeBlock, IndexInv
  <1>2. Keyed(Key)
    BY KeyIsKeysOf, KeysKeyed DEF IndexInv
  <1>3. Indexes(at', Minus(C, b), Key)
    BY <1>1, <1>2, TakenOut DEF IndexInv
  <1>4. Indexes(at', Minus(C, b), Key')
    <2>1. ASSUME NEW p \in Points, NEW c \in Minus(C, b)[p]
          PROVE  Key[c] = Key'[c]
      <3>1. c \in Block /\ c # b
        BY CoversByPoint DEF Minus
      <3>2. QED
        BY <1>1, <3>1, KeyIsKeysOf, KeysSame
    <2> HIDE DEF C
    <2>2. QED
      BY <1>3, <2>1, Rekeyed
  <1>5. ASSUME NEW p \in Points
        PROVE  Minus(C, b)[p] = Covers(offset', size')[p]
    <2>1. ASSUME NEW c
          PROVE  c \in C[p] \ {b} <=> c \in Covers(offset', size')[p]
      BY <1>1, CoversByPoint
    <2>2. QED
      BY <2>1 DEF Minus
  <1>6. Indexes(at', Covers(offset', size'), Key')
    <2> DEFINE M == Minus(C, b)
    <2> HIDE DEF M
    <2>1. QED
      BY <1>4, <1>5, SameBlocks DEF M
  <1>7. QED
    BY <1>1, <1>6 DEF IndexInv

(* The offset of a block is the first component of its key. *)
LEMMA FirstIsOffset ==
    ASSUME NEW off, NEW sz, NEW md, NEW c \in Block, off[c] # Null
    PROVE  KeysOf(off, sz, md)[c][1] = off[c]
  BY DEF KeysOf

(* A change of the size or mode of a block that does not reorder it among the
   blocks at its offset leaves the whole index in order: the blocks at other
   offsets are ordered by their offsets. *)
LEMMA StillInOrder ==
    ASSUME IndexInv, NEW b \in Block, offset' = offset,
           size' \in [Block -> Size], mode' \in [Block -> Mode],
           \A c \in Block : c # b => size[c] = size'[c] /\ mode[c] = mode'[c],
           ~Reorders(b)
    PROVE  Indexes(at, Covers(offset, size), Key')
  <1> DEFINE C == Covers(offset, size)
  <1>1. Keyed(Key) /\ Keyed(Key')
    BY KeyIsKeysOf, KeysKeyed DEF IndexInv
  <1>2. \A c \in Block : c # b => Key[c] = Key'[c]
    BY KeyIsKeysOf, KeysSame
  <1>3. ASSUME NEW c \in Block, c # b, offset[b] # Null, offset[c] # Null
        PROVE  Less(Key[b], Key[c]) <=> Less(Key'[b], Key'[c])
    <2>1. CASE offset[c] = offset[b]
      <3>1. ~(Less(Key[b], Key[c]) # Less(Key[b], Key[c])')
        BY <1>3, <2>1 DEF Reorders
      <3>2. Less(Key[b], Key[c])' <=> Less(Key'[b], Key'[c])
        OBVIOUS
      <3>3. Less(Key[b], Key[c]) \in BOOLEAN /\ Less(Key[b], Key[c])' \in BOOLEAN
        BY DEF Less
      <3>4. QED
        BY <3>1, <3>2, <3>3, Zenon
    <2>2. CASE offset[c] # offset[b]
      <3>1. /\ Key[b][1] = offset[b] /\ Key[c][1] = offset[c]
            /\ Key'[b][1] = offset[b] /\ Key'[c][1] = offset[c]
        BY <1>3, KeyIsKeysOf, FirstIsOffset
      <3>2. /\ Key[b] \in KeyTuple /\ Key[c] \in KeyTuple
            /\ Key'[b] \in KeyTuple /\ Key'[c] \in KeyTuple
        BY <1>1 DEF Keyed
      <3>3. /\ Less(Key[b], Key[c]) <=> offset[b] < offset[c]
            /\ Less(Key'[b], Key'[c]) <=> offset[b] < offset[c]
        BY <2>2, <3>1, <3>2, OffsetDecides
      <3>4. QED
        BY <3>3
    <2>3. QED
      BY <2>1, <2>2
  <1>4. ASSUME NEW o \in Points, NEW c \in C[o], NEW d \in C[o], Less(Key[c], Key[d])
        PROVE  Less(Key'[c], Key'[d])
    <2>1. c \in Block /\ d \in Block /\ offset[c] # Null /\ offset[d] # Null
      BY CoversByPoint
    <2>2. CASE c # b /\ d # b
      BY <1>2, <1>4, <2>1, <2>2
    <2>3. CASE c = b /\ d = b
      BY <1>1, <1>4, <2>3, KeysOrdered
    <2>4. CASE c = b /\ d # b
      BY <1>3, <1>4, <2>1, <2>4
    <2>5. CASE c # b /\ d = b
      <3>1. ~Less(Key[b], Key[c])
        BY <1>1, <1>4, <2>1, <2>5, KeysOrdered
      <3>2. ~Less(Key'[b], Key'[c])
        BY <1>3, <2>1, <2>5, <3>1
      <3>3. QED
        BY <1>1, <2>1, <2>5, <3>2, KeysOrdered
    <2>6. QED
      BY <2>2, <2>3, <2>4, <2>5
  <1>5. Indexes(at, C, Key)
    BY DEF IndexInv
  <1> HIDE DEF C
  <1>6. Indexes(at, C, Key')
    BY <1>4, <1>5, Rekeyed
  <1>7. QED
    BY <1>6 DEF C

LEMMA SizeStep ==
    ASSUME IndexInv, ~Reordering, NEW b \in Block, NEW sz \in Size, setSize(b, sz)
    PROVE  IndexInv'
  <1>1. /\ size' \in [Block -> Size] /\ size'[b] = sz
        /\ \A c \in Block : c # b => size[c] = size'[c]
        /\ offset' = offset /\ mode' = mode
        /\ ~Reorders(b)
    BY DEF setSize, IndexInv
  <1>2. Keyed(Key')
    BY <1>1, KeyIsKeysOf, KeysKeyed DEF IndexInv
  <1>3. Indexes(at, Covers(offset, size), Key')
    BY <1>1, StillInOrder DEF IndexInv
  <1>4. CASE offset[b] = Null
    <2>1. at' = at
      BY <1>4 DEF setSize
    <2>2. ASSUME NEW o \in Points
          PROVE  Covers(offset, size)[o] = Covers(offset', size')[o]
      <3>1. \A c : c \in Covers(offset, size)[o] <=> c \in Covers(offset', size')[o]
        BY <1>1, <1>4, CoversByPoint
      <3>2. QED
        BY <3>1
    <2>3. Indexes(at', Covers(offset', size'), Key')
      BY <1>3, <2>1, <2>2, SameBlocks
    <2>4. QED
      BY <1>1, <2>3 DEF IndexInv
  <1>5. CASE offset[b] # Null
    <2>1. PICK m \in Subtracted(at, Span(offset[b], size[b]), b, Key') :
                 at' \in Added(m, Span(offset[b], sz), b, Key')
      BY <1>5 DEF setSize
    <2>2. Indexes(m, Minus(Covers(offset, size), b), Key')
      BY <1>2, <1>3, <1>5, <2>1, TakenOut
    <2>3. Indexes(at', Covers(offset', size'), Key')
      BY <1>1, <1>2, <1>5, <2>1, <2>2, BroughtIn
    <2>4. QED
      BY <1>1, <2>3 DEF IndexInv
  <1>6. QED
    BY <1>4, <1>5

LEMMA ModeStep ==
    ASSUME IndexInv, ~Reordering, NEW b \in CodeBlock, NEW md \in Mode, setDecodeMode(b, md)
    PROVE  IndexInv'
  <1>1. /\ b \in Block /\ mode' \in [Block -> Mode]
        /\ \A c \in Block : c # b => mode[c] = mode'[c]
        /\ offset' = offset /\ size' = size /\ at' = at
        /\ ~Reorders(b)
    BY DEF setDecodeMode, IndexInv, Block
  <1>2. Indexes(at, Covers(offset, size), Key')
    BY <1>1, StillInOrder DEF IndexInv
  <1>3. QED
    BY <1>1, <1>2 DEF IndexInv

-----------------------------------------------------------------------------

LEMMA InitialIndex == Init => IndexInv
  <1> SUFFICES ASSUME Init
               PROVE  IndexInv
    OBVIOUS
  <1>1. offset \in [Block -> Offset \cup {Null}] /\ size \in [Block -> Size]
        /\ mode \in [Block -> Mode]
    BY DEF Init
  <1>2. at \in [Points -> Seq(Block)]
    BY DEF Init, Points
  <1>3. ASSUME NEW o \in Points
        PROVE  InOrder(at[o], Key) /\ ToSet(at[o]) = Covers(offset, size)[o]
    <2>1. at[o] = <<>>
      BY DEF Init, Points
    <2>2. \A c : c \notin Covers(offset, size)[o]
      BY CoversByPoint DEF Init
    <2>3. QED
      BY <2>1, <2>2 DEF InOrder, ToSet
  <1>4. QED
    BY <1>1, <1>2, <1>3 DEF IndexInv, Indexes

(* The index is exact and in order as long as clients do not reorder a block
   that is in it, wherever the searches of the tree end. *)
THEOREM IndexInvariant ==
    ASSUME ~Reordering
    PROVE  Spec => []IndexInv
  <1>1. IndexInv /\ [Next]_vars => IndexInv'
    <2> SUFFICES ASSUME IndexInv, [Next]_vars
                 PROVE  IndexInv'
      OBVIOUS
    <2>1. ASSUME NEW b \in Block, NEW off \in Offset, addBlock(b, off)
          PROVE  IndexInv'
      BY <2>1, AddStep
    <2>2. ASSUME NEW b \in Block, removeBlock(b)
          PROVE  IndexInv'
      BY <2>2, RemoveStep
    <2>3. ASSUME NEW b \in Block, NEW sz \in Size, setSize(b, sz)
          PROVE  IndexInv'
      BY <2>3, SizeStep
    <2>4. ASSUME NEW b \in CodeBlock, NEW md \in Mode, setDecodeMode(b, md)
          PROVE  IndexInv'
      BY <2>4, ModeStep
    <2>5. CASE UNCHANGED vars
      BY <2>5 DEF vars, IndexInv, Key
    <2>6. QED
      BY <2>1, <2>2, <2>3, <2>4, <2>5 DEF Next
  <1>2. QED
    BY <1>1, InitialIndex, PTL DEF Spec

(* No pointer in the index dangles: every block in it is in the interval. *)
THEOREM IndexTypeCorrect ==
    ASSUME ~Reordering
    PROVE  Spec => []TypeOK
  <1>1. IndexInv => TypeOK
    <2> SUFFICES ASSUME IndexInv
                 PROVE  TypeOK
      OBVIOUS
    <2> DEFINE S == {b \in Block : offset[b] # Null}
    <2>1. DOMAIN at = Points
      BY DEF IndexInv, Indexes
    <2>2. ASSUME NEW o \in Points
          PROVE  at[o] \in Seq(S)
      <3>1. at[o] \in Seq(Block) /\ ToSet(at[o]) = Covers(offset, size)[o]
        BY DEF IndexInv, Indexes
      <3>2. \A i \in 1 .. Len(at[o]) : at[o][i] \in S
        <4>1. \A i \in 1 .. Len(at[o]) : at[o][i] \in ToSet(at[o])
          BY <3>1 DEF ToSet
        <4>2. QED
          BY <3>1, <4>1, CoversByPoint
      <3> HIDE DEF S
      <3>3. QED
        BY <3>1, <3>2
    <2>3. QED
      BY <2>1, <2>2 DEF TypeOK, IndexInv
  <1>2. QED
    BY <1>1, IndexInvariant, PTL

(* findBlocksOnOffset yields the blocks that have a byte at the offset, each
   once. *)
THEOREM BlocksOnOffsetExact ==
    ASSUME ~Reordering
    PROVE  Spec => []FindsBlocksOnOffset
  <1>1. IndexInv => FindsBlocksOnOffset
    <2> SUFFICES ASSUME IndexInv, NEW o \in Points
                 PROVE  ToSet(at[o]) = Covering(o) /\ IsInjective(at[o])
      BY DEF IndexInv, Indexes, FindsBlocksOnOffset
    <2>1. at[o] \in Seq(Block) /\ InOrder(at[o], Key) /\ ToSet(at[o]) = Covers(offset, size)[o]
      BY DEF IndexInv, Indexes
    <2>2. Keyed(Key)
      BY KeyIsKeysOf, KeysKeyed DEF IndexInv
    <2>3. QED
      BY <2>1, <2>2, InOrderInjective DEF Covering, Covers
  <1>2. QED
    BY <1>1, IndexInvariant, PTL

(* They come in the order that is documented. *)
THEOREM BlocksOnOffsetOrdered ==
    ASSUME ~Reordering
    PROVE  Spec => []BlocksOnOffsetInOrder
  <1>1. IndexInv => BlocksOnOffsetInOrder
    <2> SUFFICES ASSUME IndexInv, NEW o \in Points, NEW i \in 1 .. Len(at[o]) - 1
                 PROVE  Less(Key[at[o][i]], Key[at[o][i + 1]])
      BY DEF IndexInv, Indexes, BlocksOnOffsetInOrder
    <2>1. at[o] \in Seq(Block) /\ InOrder(at[o], Key)
      BY DEF IndexInv, Indexes
    <2>2. Len(at[o]) \in Nat
      BY <2>1
    <2>3. i \in 1 .. Len(at[o]) /\ i + 1 \in 1 .. Len(at[o]) /\ i < i + 1
      BY <2>2
    <2>4. QED
      BY <2>1, <2>3 DEF InOrder
  <1>2. QED
    BY <1>1, IndexInvariant, PTL

=============================================================================
