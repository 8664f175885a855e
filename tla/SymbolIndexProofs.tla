------------------------- MODULE SymbolIndexProofs -------------------------
(***************************************************************************)
(* Proofs about SymbolIndex: for all symbols, blocks and addresses, and    *)
(* all shapes of the tree that represents the index.                       *)
(***************************************************************************)
EXTENDS SymbolIndex, CommonFacts

(* The order of the keys. *)

Keys == {Null} \cup (0 .. AddrLimit - 1)

LEMMA AtMostOrder ==
    /\ \A k \in Keys : AtMost(k, k)
    /\ \A k, l \in Keys : AtMost(k, l) \/ AtMost(l, k)
    /\ \A k, l, m \in Keys : AtMost(k, l) /\ AtMost(l, m) => AtMost(k, m)
  BY SymbolAssumption DEF AtMost, Keys

Ordered(seq, K) == \A i, j \in DOMAIN seq : i < j => AtMost(K[seq[i]], K[seq[j]])

(* A symbol that is put where it fits is in order with all the others. *)
LEMMA OrderedInsertion ==
    ASSUME NEW K \in [Symbol -> Keys], NEW s \in Seq(Symbol), NEW x \in Symbol,
           Ordered(s, K), NEW g \in 1 .. Len(s) + 1, Fits(s, g, x, K),
           NEW e \in Seq(Symbol), PutIn(e, s, g, x)
    PROVE  Ordered(e, K)
  <1> DEFINE n == Len(s)
             from(k) == IF k < g THEN k ELSE k - 1
  <1>2. n \in Nat /\ g \in 1 .. n + 1 /\ DOMAIN s = 1 .. n /\ DOMAIN e = 1 .. n + 1
        /\ \A k \in 1 .. n : s[k] \in Symbol
    BY DEF PutIn
  <1>3. \A k \in 1 .. n + 1 : k # g => from(k) \in 1 .. n /\ e[k] = s[from(k)]
    BY <1>2 DEF PutIn
  <1>4. e[g] = x
    BY <1>2 DEF PutIn
  <1>5. \A k \in 1 .. n : K[s[k]] \in Keys
    BY <1>2
  <1>6. K[x] \in Keys
    OBVIOUS
  <1>7. ASSUME NEW k \in 1 .. n, k < g
        PROVE  AtMost(K[s[k]], K[x])
    <2>1. g - 1 \in 1 .. n /\ g > 1 /\ (k = g - 1 \/ k < g - 1)
      BY <1>2, <1>7
    <2>2. AtMost(K[s[g - 1]], K[x])
      BY <2>1 DEF Fits
    <2>3. k < g - 1 => AtMost(K[s[k]], K[s[g - 1]])
      BY <1>2, <2>1 DEF Ordered
    <2>4. QED
      BY <1>5, <1>6, <2>1, <2>2, <2>3, AtMostOrder
  <1>8. ASSUME NEW k \in 1 .. n, k >= g
        PROVE  AtMost(K[x], K[s[k]])
    <2>1. g \in 1 .. n /\ g <= n /\ (k = g \/ g < k)
      BY <1>2, <1>8
    <2>2. AtMost(K[x], K[s[g]])
      BY <2>1 DEF Fits
    <2>3. g < k => AtMost(K[s[g]], K[s[k]])
      BY <1>2, <2>1 DEF Ordered
    <2>4. QED
      BY <1>5, <1>6, <2>1, <2>2, <2>3, AtMostOrder
  <1>9. ASSUME NEW i \in 1 .. n + 1, NEW j \in 1 .. n + 1, i < j
        PROVE  AtMost(K[e[i]], K[e[j]])
    <2>1. CASE i = g
      <3>1. j # g /\ from(j) \in 1 .. n /\ from(j) >= g /\ e[j] = s[from(j)]
        BY <1>2, <1>3, <1>9, <2>1
      <3>2. QED
        BY <1>4, <1>8, <2>1, <3>1
    <2>2. CASE j = g
      <3>1. i # g /\ from(i) \in 1 .. n /\ from(i) < g /\ e[i] = s[from(i)]
        BY <1>2, <1>3, <1>9, <2>2
      <3>2. QED
        BY <1>4, <1>7, <2>2, <3>1
    <2>3. CASE i # g /\ j # g
      <3>1. from(i) < from(j)
        BY <1>2, <1>9, <2>3
      <3>2. from(i) \in 1 .. n /\ from(j) \in 1 .. n /\ e[i] = s[from(i)] /\ e[j] = s[from(j)]
        BY <1>3, <2>3
      <3> HIDE DEF from
      <3>3. QED
        BY <1>2, <3>1, <3>2 DEF Ordered
    <2>4. QED
      BY <2>1, <2>2, <2>3
  <1>10. QED
    BY <1>2, <1>9 DEF Ordered

-----------------------------------------------------------------------------

(* Taking elements out of a sequence.  Without(s, S) is the end of a recursion
   over the positions of s; the element at i of the result comes from the
   position from[i] of s. *)

(* Keeps(t, from, s, S, k): t has the elements of the first k positions of s that
   are not in S, in the same order. *)
Keeps(t, from, s, S, k) ==
    /\ from \in [1 .. Len(t) -> 1 .. k]
    /\ \A i, j \in 1 .. Len(t) : i < j => from[i] < from[j]
    /\ \A i \in 1 .. Len(t) : t[i] = s[from[i]] /\ t[i] \notin S
    /\ \A p \in 1 .. k : s[p] \notin S => \E i \in 1 .. Len(t) : from[i] = p

(* Passing one more position. *)
Passed(t, x, S) == IF x \in S THEN t ELSE Append(t, x)

LEMMA KeepOne ==
    ASSUME NEW X, NEW s \in Seq(X), NEW S, NEW k \in 1 .. Len(s), NEW t \in Seq(X),
           NEW from, Keeps(t, from, s, S, k - 1)
    PROVE  \E to : Keeps(Passed(t, s[k], S), to, s, S, k)
  <1> DEFINE n == Len(t)
  <1>1. n \in Nat /\ k \in Nat \ {0} /\ 1 .. k = (1 .. k - 1) \cup {k} /\ s[k] \in X
    OBVIOUS
  <1>2. CASE s[k] \in S
    <2>1. from \in [1 .. n -> 1 .. k]
      BY <1>1 DEF Keeps
    <2>2. Keeps(t, from, s, S, k)
      BY <1>1, <1>2, <2>1 DEF Keeps
    <2>3. QED
      BY <1>2, <2>2 DEF Passed
  <1>3. CASE s[k] \notin S
    <2> DEFINE u == Append(t, s[k])
               to == [i \in 1 .. n + 1 |-> IF i <= n THEN from[i] ELSE k]
    <2>1. Len(u) = n + 1 /\ u[n + 1] = s[k] /\ \A i \in 1 .. n : u[i] = t[i]
      BY <1>1
    <2>2. 1 .. n + 1 = (1 .. n) \cup {n + 1}
      BY <1>1
    <2> HIDE DEF u
    <2>3. \A i \in 1 .. n : to[i] = from[i] /\ from[i] \in 1 .. k - 1
      BY <1>1 DEF Keeps
    <2>4. to[n + 1] = k
      BY <1>1
    <2>5. to \in [1 .. n + 1 -> 1 .. k]
      <3>1. \A i \in 1 .. n + 1 : to[i] \in 1 .. k
        <4> HIDE DEF to
        <4> QED
          BY <1>1, <2>2, <2>3, <2>4
      <3>2. QED
        BY <3>1
    <2> HIDE DEF to
    <2>6. \A i, j \in 1 .. n + 1 : i < j => to[i] < to[j]
      <3> SUFFICES ASSUME NEW i \in 1 .. n + 1, NEW j \in 1 .. n + 1, i < j
                   PROVE  to[i] < to[j]
        OBVIOUS
      <3>1. i \in 1 .. n
        BY <1>1
      <3>2. CASE j = n + 1
        BY <1>1, <2>3, <2>4, <3>1, <3>2
      <3>3. CASE j \in 1 .. n
        BY <2>3, <3>1, <3>3 DEF Keeps
      <3>4. QED
        BY <2>2, <3>2, <3>3
    <2>7. \A i \in 1 .. n + 1 : u[i] = s[to[i]] /\ u[i] \notin S
      BY <1>3, <2>1, <2>2, <2>3, <2>4 DEF Keeps
    <2>8. ASSUME NEW p \in 1 .. k, s[p] \notin S
          PROVE  \E i \in 1 .. n + 1 : to[i] = p
      <3>1. CASE p = k
        BY <2>2, <2>4, <3>1
      <3>2. CASE p \in 1 .. k - 1
        <4>1. PICK i \in 1 .. n : from[i] = p
          BY <2>8, <3>2 DEF Keeps
        <4>2. QED
          BY <2>2, <2>3, <4>1
      <3>3. QED
        BY <1>1, <3>1, <3>2
    <2>9. Keeps(u, to, s, S, k)
      BY <2>1, <2>5, <2>6, <2>7, <2>8 DEF Keeps
    <2>10. QED
      BY <1>3, <2>9 DEF Passed, u
  <1>4. QED
    BY <1>2, <1>3

(* The recursion that Without makes has a solution. *)
LEMMA WithoutRecursion ==
    ASSUME NEW X, NEW s \in Seq(X), NEW S
    PROVE  \E kept : /\ kept[0] = <<>>
                     /\ \A k \in 1 .. Len(s) : kept[k] = Passed(kept[k - 1], s[k], S)
                     /\ Without(s, S) = kept[Len(s)]
  <1> DEFINE n == Len(s)
             V == Seq(X)
             F == [k \in 1 .. n |-> [t \in V |-> Passed(t, s[k], S)]]
  <1>1. n \in Nat /\ <<>> \in V
    OBVIOUS
  <1>2. F \in Turns(V, n)
    <2>1. \A k \in 1 .. n : \A t \in V : Passed(t, s[k], S) \in V
      BY DEF Passed
    <2>2. QED
      BY <2>1 DEF Turns
  <1>3. PICK g \in [0 .. n -> V] : Follows(g, <<>>, F, n)
    <2> HIDE DEF V, F, n
    <2> QED
      BY <1>1, <1>2, FiniteRecursion
  <1>4. g[0] = <<>> /\ \A k \in 1 .. n : g[k] = Passed(g[k - 1], s[k], S)
    <2>1. \A k \in 1 .. n : k - 1 \in 0 .. n
      BY <1>1
    <2>2. QED
      BY <1>3, <2>1 DEF Follows
  <1> DEFINE Sol(f) == f = [k \in 0 .. Len(s) |-> IF k = 0 THEN <<>>
                             ELSE IF s[k] \in S THEN f[k - 1] ELSE Append(f[k - 1], s[k])]
             c == CHOOSE f : Sol(f)
  <1>5. Sol(g)
    <2>1. \A k \in 0 .. n : g[k] = IF k = 0 THEN <<>>
                             ELSE IF s[k] \in S THEN g[k - 1] ELSE Append(g[k - 1], s[k])
      <3> TAKE k \in 0 .. n
      <3>1. CASE k = 0
        BY <1>4, <3>1
      <3>2. CASE k # 0
        <4>1. k \in 1 .. n
          BY <1>1, <3>2
        <4>2. g[k] = Passed(g[k - 1], s[k], S)
          BY <1>4, <4>1
        <4>3. CASE s[k] \in S
          BY <3>2, <4>2, <4>3 DEF Passed
        <4>4. CASE s[k] \notin S
          BY <3>2, <4>2, <4>4 DEF Passed
        <4>5. QED
          BY <4>3, <4>4
      <3>3. QED
        BY <3>1, <3>2
    <2>2. g = [k \in 0 .. Len(s) |-> g[k]]
      OBVIOUS
    <2>3. QED
      BY <2>1, <2>2
  <1>6. Sol(c)
    BY <1>5, Zenon
  <1>7. Without(s, S) = c[n]
    BY DEF Without
  <1> HIDE DEF c
  <1>8. c[0] = <<>> /\ \A k \in 1 .. n : c[k] = Passed(c[k - 1], s[k], S)
    <2>1. 0 \in 0 .. n
      BY <1>1
    <2>2. c[0] = <<>>
      BY <1>6, <2>1
    <2>3. ASSUME NEW k \in 1 .. n
          PROVE  c[k] = Passed(c[k - 1], s[k], S)
      <3>1. k \in 0 .. n /\ k # 0
        BY <1>1
      <3>2. CASE s[k] \in S
        BY <1>6, <3>1, <3>2 DEF Passed
      <3>3. CASE s[k] \notin S
        BY <1>6, <3>1, <3>3 DEF Passed
      <3>4. QED
        BY <3>2, <3>3
    <2>4. QED
      BY <2>2, <2>3
  <1>9. QED
    BY <1>7, <1>8

(* Without(s, S) has the elements of s that are not in S, in the same order. *)
LEMMA WithoutKeeps ==
    ASSUME NEW X, NEW s \in Seq(X), NEW S
    PROVE  Without(s, S) \in Seq(X) /\ \E from : Keeps(Without(s, S), from, s, S, Len(s))
  <1> DEFINE n == Len(s)
  <1>1. n \in Nat
    OBVIOUS
  <1>2. PICK kept : /\ kept[0] = <<>>
                    /\ \A k \in 1 .. n : kept[k] = Passed(kept[k - 1], s[k], S)
                    /\ Without(s, S) = kept[n]
    BY WithoutRecursion
  <1> DEFINE P == {k \in 0 .. n : kept[k] \in Seq(X) /\ \E from : Keeps(kept[k], from, s, S, k)}
  <1>3. 0 \in P
    <2>1. Keeps(<<>>, <<>>, s, S, 0)
      BY DEF Keeps
    <2>2. <<>> \in Seq(X) /\ 0 \in 0 .. n
      BY <1>1
    <2>3. QED
      BY <1>2, <2>1, <2>2
  <1>4. ASSUME NEW k \in 1 .. n, k - 1 \in P
        PROVE  k \in P
    <2>1. k \in 0 .. n /\ s[k] \in X
      OBVIOUS
    <2>2. PICK from : Keeps(kept[k - 1], from, s, S, k - 1)
      BY <1>4
    <2>3. kept[k - 1] \in Seq(X)
      BY <1>4
    <2>4. \E to : Keeps(Passed(kept[k - 1], s[k], S), to, s, S, k)
      BY <2>2, <2>3, KeepOne
    <2>5. Passed(kept[k - 1], s[k], S) \in Seq(X)
      BY <2>1, <2>3 DEF Passed
    <2>6. QED
      BY <1>2, <2>1, <2>4, <2>5
  <1>5. n \in P
    <2> HIDE DEF P, n
    <2>1. 0 .. n \subseteq P
      BY <1>1, <1>3, <1>4, LoopInduction
    <2>2. QED
      BY <1>1, <2>1
  <1>6. QED
    BY <1>2, <1>5

LEMMA WithoutElements ==
    ASSUME NEW X, NEW s \in Seq(X), NEW S
    PROVE  /\ Without(s, S) \in Seq(X)
           /\ ToSet(Without(s, S)) = ToSet(s) \ S
           /\ IsInjective(s) => IsInjective(Without(s, S))
  <1> DEFINE t == Without(s, S)
             n == Len(s)
             m == Len(t)
  <1>1. PICK from : t \in Seq(X) /\ Keeps(t, from, s, S, n)
    BY WithoutKeeps
  <1> HIDE DEF t
  <1>2. DOMAIN s = 1 .. n /\ DOMAIN t = 1 .. m /\ m \in Nat
    BY <1>1
  <1>3. from \in [1 .. m -> 1 .. n] /\ \A i \in 1 .. m : t[i] = s[from[i]] /\ t[i] \notin S
    BY <1>1 DEF Keeps
  <1>4. \A i, j \in 1 .. m : i < j => from[i] < from[j]
    BY <1>1 DEF Keeps
  <1>5. \A p \in 1 .. n : s[p] \notin S => \E i \in 1 .. m : from[i] = p
    BY <1>1 DEF Keeps
  <1> HIDE DEF n, m
  <1>6. ToSet(t) = ToSet(s) \ S
    <2>1. \A i \in 1 .. m : t[i] \in ToSet(s) \ S
      BY <1>2, <1>3 DEF ToSet
    <2>2. \A p \in 1 .. n : s[p] \notin S => s[p] \in ToSet(t)
      BY <1>2, <1>3, <1>5 DEF ToSet
    <2>3. QED
      BY <1>2, <2>1, <2>2 DEF ToSet
  <1>7. ASSUME IsInjective(s), NEW i \in 1 .. m, NEW j \in 1 .. m, t[i] = t[j]
        PROVE  i = j
    <2>1. from[i] = from[j]
      BY <1>2, <1>3, <1>7 DEF IsInjective
    <2>2. from[i] \in 1 .. n
      BY <1>3
    <2>3. ~(from[i] < from[i])
      BY <2>2
    <2>4. ~(i < j) /\ ~(j < i)
      BY <1>4, <2>1, <2>3
    <2>5. QED
      BY <1>2, <2>4
  <1>8. QED
    BY <1>1, <1>2, <1>6, <1>7 DEF t, IsInjective

(* The symbols outside of S are in order with each other. *)
OrderedOutside(s, S, K) ==
    \A i, j \in DOMAIN s : i < j /\ s[i] \notin S /\ s[j] \notin S => AtMost(K[s[i]], K[s[j]])

LEMMA WithoutOrdered ==
    ASSUME NEW X, NEW s \in Seq(X), NEW S, NEW T, NEW K, OrderedOutside(s, S \cup T, K)
    PROVE  OrderedOutside(Without(s, S), T, K)
  <1> DEFINE t == Without(s, S)
             n == Len(s)
             m == Len(t)
  <1>1. PICK from : t \in Seq(X) /\ Keeps(t, from, s, S, n)
    BY WithoutKeeps
  <1> HIDE DEF t
  <1>2. DOMAIN s = 1 .. n /\ DOMAIN t = 1 .. m
    BY <1>1
  <1>3. from \in [1 .. m -> 1 .. n] /\ \A i \in 1 .. m : t[i] = s[from[i]] /\ t[i] \notin S
    BY <1>1 DEF Keeps
  <1>4. \A i, j \in 1 .. m : i < j => from[i] < from[j]
    BY <1>1 DEF Keeps
  <1> HIDE DEF n, m
  <1>5. ASSUME NEW i \in 1 .. m, NEW j \in 1 .. m, i < j, t[i] \notin T, t[j] \notin T
        PROVE  AtMost(K[t[i]], K[t[j]])
    <2>1. from[i] \in DOMAIN s /\ from[j] \in DOMAIN s /\ from[i] < from[j]
      BY <1>2, <1>3, <1>4, <1>5
    <2>2. t[i] = s[from[i]] /\ t[i] \notin S /\ t[j] = s[from[j]] /\ t[j] \notin S
      BY <1>3
    <2>3. QED
      BY <1>5, <2>1, <2>2 DEF OrderedOutside
  <1>6. QED
    BY <1>2, <1>5 DEF OrderedOutside, t

(* Being in order is being in order outside of the empty set. *)
LEMMA OrderedOutsideNothing ==
    ASSUME NEW s, NEW K
    PROVE  Ordered(s, K) <=> OrderedOutside(s, {}, K)
  BY DEF Ordered, OrderedOutside

(* Taking out the only occurrence of x: putting it back gives s again. *)
LEMMA WithoutOne ==
    ASSUME NEW X, NEW s \in Seq(X), IsInjective(s), NEW i \in 1 .. Len(s)
    PROVE  i <= Len(Without(s, {s[i]})) + 1 /\ PutIn(s, Without(s, {s[i]}), i, s[i])
  <1> DEFINE n == Len(s)
             S == {s[i]}
  <1>1. n \in Nat /\ i \in 1 .. n /\ DOMAIN s = 1 .. n
    OBVIOUS
  <1>2. PICK kept : /\ kept[0] = <<>>
                    /\ \A k \in 1 .. n : kept[k] = Passed(kept[k - 1], s[k], S)
                    /\ Without(s, S) = kept[n]
    BY WithoutRecursion
  <1> DEFINE len(k) == IF k < i THEN k ELSE k - 1
             Half(t, k) == /\ t \in Seq(X) /\ Len(t) = len(k)
                           /\ \A j \in 1 .. len(k) : t[j] = IF j < i THEN s[j] ELSE s[j + 1]
             P == {k \in 0 .. n : Half(kept[k], k)}
  <1>3. 0 \in P
    <2>1. len(0) = 0 /\ 0 \in 0 .. n
      BY <1>1
    <2>2. <<>> \in Seq(X) /\ Len(<<>>) = 0 /\ \A j \in 1 .. 0 : FALSE
      OBVIOUS
    <2> HIDE DEF len
    <2>3. QED
      BY <1>2, <2>1, <2>2
  <1>4. ASSUME NEW k \in 1 .. n, Half(kept[k - 1], k - 1)
        PROVE  Half(kept[k], k)
    <2>0. k \in Int /\ i \in Int
      BY <1>1
    <2> DEFINE t == kept[k - 1]
    <2>1. kept[k] = Passed(t, s[k], S) /\ s[k] \in X
      <3> HIDE DEF S, Half, P
      <3> QED
        BY <1>1, <1>2
    <2>2. t \in Seq(X) /\ Len(t) = len(k - 1)
          /\ \A j \in 1 .. len(k - 1) : t[j] = IF j < i THEN s[j] ELSE s[j + 1]
      BY <1>4
    <2> HIDE DEF t
    <2>3. CASE k = i
      <3>1. kept[k] = t
        BY <2>1, <2>3 DEF Passed
      <3>2. len(k) = len(k - 1)
        BY <2>0, <2>3
      <3>3. QED
        BY <2>2, <3>1, <3>2
    <2>4. CASE k # i
      <3>1. kept[k] = Append(t, s[k])
        BY <1>1, <2>1, <2>4 DEF Passed, IsInjective
      <3>2. len(k) = len(k - 1) + 1 /\ len(k) \in Nat /\ len(k - 1) \in Nat
            /\ s[k] = IF len(k) < i THEN s[len(k)] ELSE s[len(k) + 1]
        BY <2>0, <1>1, <2>4
      <3> HIDE DEF len
      <3>3. /\ kept[k] \in Seq(X) /\ Len(kept[k]) = len(k)
            /\ kept[k][len(k)] = s[k] /\ \A j \in 1 .. len(k - 1) : kept[k][j] = t[j]
        <4>1. t \in Seq(X) /\ Len(t) = len(k - 1) /\ s[k] \in X
          BY <2>1, <2>2
        <4>2. /\ Append(t, s[k]) \in Seq(X) /\ Len(Append(t, s[k])) = Len(t) + 1
              /\ Append(t, s[k])[Len(t) + 1] = s[k]
              /\ \A j \in 1 .. Len(t) : Append(t, s[k])[j] = t[j]
          BY <4>1
        <4>3. QED
          BY <3>1, <3>2, <4>1, <4>2
      <3>4. ASSUME NEW j \in 1 .. len(k)
            PROVE  kept[k][j] = IF j < i THEN s[j] ELSE s[j + 1]
        <4>1. CASE j = len(k)
          <5>1. kept[k][j] = s[k]
            BY <3>3, <4>1
          <5>2. QED
            BY <3>2, <4>1, <5>1
        <4>2. CASE j \in 1 .. len(k - 1)
          <5>1. kept[k][j] = t[j]
            BY <3>3, <4>2
          <5>2. QED
            BY <2>2, <4>2, <5>1
        <4>3. QED
          BY <3>2, <3>4, <4>1, <4>2
      <3>5. QED
        BY <3>3, <3>4
    <2>5. QED
      BY <2>3, <2>4
  <1>5. Half(kept[n], n)
    <2> HIDE DEF Half
    <2>1. \A k \in 1 .. n : k - 1 \in P => k \in P
      BY <1>1, <1>4
    <2> HIDE DEF P, n
    <2>2. 0 .. n \subseteq P
      BY <1>1, <1>3, <2>1, LoopInduction
    <2>3. n \in P
      BY <1>1, <2>2
    <2>4. QED
      BY <2>3 DEF P
  <1> DEFINE t == kept[n]
  <1>6. t \in Seq(X) /\ Len(t) = n - 1
        /\ \A j \in 1 .. n - 1 : t[j] = IF j < i THEN s[j] ELSE s[j + 1]
    <2>1. len(n) = n - 1
      <3>1. n \in Int /\ i \in Int /\ ~(n < i)
        BY <1>1
      <3> HIDE DEF n
      <3>2. QED
        BY <3>1
    <2> HIDE DEF len
    <2>2. QED
      BY <1>5, <2>1
  <1> HIDE DEF t
  <1>7. \A j \in 1 .. n : s[j] = IF j < i THEN t[j] ELSE IF j = i THEN s[i] ELSE t[j - 1]
    BY <1>1, <1>6
  <1>8. i <= Len(t) + 1 /\ PutIn(s, t, i, s[i])
    BY <1>1, <1>6, <1>7 DEF PutIn
  <1>9. QED
    BY <1>2, <1>8 DEF t

-----------------------------------------------------------------------------

(* Inserting symbols.  The lemmas have two parts: whatever the keys are, the
   result holds the right symbols, each once; and if the symbols were in order
   before, all are in order afterwards. *)

(* e holds the symbols of s and those of N, each once. *)
Gains(e, s, N) == e \in Seq(Symbol) /\ IsInjective(e) /\ ToSet(e) = ToSet(s) \cup N

LEMMA Placed ==
    ASSUME NEW s \in Seq(Symbol), IsInjective(s), NEW x \in Symbol, x \notin ToSet(s),
           NEW g \in 1 .. Len(s) + 1
    PROVE  /\ Gains(InsertAt(s, g, x), s, {x}) /\ Len(InsertAt(s, g, x)) = Len(s) + 1
           /\ \A K \in [Symbol -> Keys] :
                 Ordered(s, K) /\ Fits(s, g, x, K) => Ordered(InsertAt(s, g, x), K)
  <1> DEFINE e == InsertAt(s, g, x)
  <1>1. e \in Seq(Symbol) /\ PutIn(e, s, g, x)
    BY Insertion
  <1>2. ToSet(e) = ToSet(s) \cup {x} /\ IsInjective(e)
    BY InsertionElements
  <1> HIDE DEF e
  <1>3. \A K \in [Symbol -> Keys] : Ordered(s, K) /\ Fits(s, g, x, K) => Ordered(e, K)
    BY <1>1, OrderedInsertion
  <1>4. Len(e) = Len(s) + 1
    BY <1>1 DEF PutIn
  <1>5. QED
    BY <1>1, <1>2, <1>3, <1>4 DEF e, Gains

LEMMA InsertedOne ==
    ASSUME NEW s \in Seq(Symbol), IsInjective(s), NEW x \in Symbol, x \notin ToSet(s),
           NEW K \in [Symbol -> Keys], NEW e \in Insertions(s, x, K)
    PROVE  Gains(e, s, {x}) /\ (Ordered(s, K) => Ordered(e, K))
  <1>1. PICK g \in 1 .. Len(s) + 1 : Fits(s, g, x, K) /\ e = InsertAt(s, g, x)
    BY DEF Insertions, Gaps
  <1>2. QED
    BY <1>1, Placed

(* The states of inserting a range. *)
States == {o \in [seq : Seq(Symbol), hint : Nat] : o.hint \in 1 .. Len(o.seq) + 1}

LEMMA InsertedWithHint ==
    ASSUME NEW o \in States, NEW x \in Symbol, NEW K, NEW p \in HintedInsertions(o, x, K)
    PROVE  /\ p \in States
           /\ IsInjective(o.seq) /\ x \notin ToSet(o.seq) => Gains(p.seq, o.seq, {x})
           /\ IsInjective(o.seq) /\ x \notin ToSet(o.seq) /\ K \in [Symbol -> Keys] =>
                 (Ordered(o.seq, K) => Ordered(p.seq, K))
  <1> DEFINE s == o.seq
  <1>1. s \in Seq(Symbol) /\ o.hint \in 1 .. Len(s) + 1 /\ Len(s) \in Nat
    BY DEF States
  <1>2. PICK g \in 1 .. Len(s) + 1 :
               Fits(s, g, x, K) /\ p = [seq |-> InsertAt(s, g, x), hint |-> g + 1]
    <2>1. CASE Fits(s, o.hint, x, K)
      <3>1. p \in {[seq |-> InsertAt(s, i, x), hint |-> i + 1] : i \in {o.hint}}
        BY <2>1 DEF HintedInsertions
      <3> HIDE DEF s
      <3>2. QED
        BY <1>1, <2>1, <3>1
    <2>2. CASE ~Fits(s, o.hint, x, K)
      <3>1. p \in {[seq |-> InsertAt(s, i, x), hint |-> i + 1] : i \in Gaps(s, x, K)}
        BY <2>2 DEF HintedInsertions
      <3> HIDE DEF s
      <3>2. QED
        BY <3>1 DEF Gaps
    <2>3. QED
      BY <2>1, <2>2
  <1> HIDE DEF s
  <1>3. InsertAt(s, g, x) \in Seq(Symbol) /\ Len(InsertAt(s, g, x)) = Len(s) + 1
    BY <1>1, Insertion DEF PutIn
  <1>4. p.seq = InsertAt(s, g, x) /\ p.hint = g + 1
    BY <1>2
  <1>5. p \in [seq : Seq(Symbol), hint : Nat]
    BY <1>1, <1>2, <1>3
  <1>6. g + 1 \in 1 .. (Len(s) + 1) + 1
    BY <1>1
  <1>7. p \in States
    BY <1>3, <1>4, <1>5, <1>6 DEF States
  <1>8. IsInjective(s) /\ x \notin ToSet(s) => Gains(p.seq, s, {x})
    BY <1>1, <1>4, Placed
  <1>9. IsInjective(s) /\ x \notin ToSet(s) /\ K \in [Symbol -> Keys] =>
           (Ordered(s, K) => Ordered(p.seq, K))
    BY <1>1, <1>2, <1>4, Placed
  <1>10. QED
    BY <1>7, <1>8, <1>9 DEF s

(* Inserting one more symbol of the range. *)
After(O, x, K) == UNION {HintedInsertions(o, x, K) : o \in O}

Begin(s) == {[seq |-> s, hint |-> Len(s) + 1]}

(* outcomes[k] are the states after k symbols of the range. *)
Inserts(outcomes, s, new, K) ==
    /\ outcomes[0] = Begin(s)
    /\ \A k \in 1 .. Len(new) : outcomes[k] = After(outcomes[k - 1], new[k], K)
    /\ InsertAll(s, new, K) = {o.seq : o \in outcomes[Len(new)]}

LEMMA InsertAllRecursion ==
    ASSUME NEW s \in Seq(Symbol), NEW new \in Seq(Symbol), NEW K
    PROVE  \E outcomes : Inserts(outcomes, s, new, K)
  <1> DEFINE n == Len(new)
             V == SUBSET States
             F == [k \in 1 .. n |-> [O \in V |-> After(O, new[k], K)]]
  <1>1. n \in Nat /\ \A k \in 1 .. n : new[k] \in Symbol
    OBVIOUS
  <1>2. Begin(s) \in V
    BY DEF Begin, States
  <1>3. F \in Turns(V, n)
    <2>1. ASSUME NEW k \in 1 .. n, NEW O \in V
          PROVE  After(O, new[k], K) \in V
      <3>1. new[k] \in Symbol
        BY <1>1
      <3>2. \A o \in O : \A p \in HintedInsertions(o, new[k], K) : p \in States
        BY <3>1, InsertedWithHint
      <3>3. QED
        BY <3>2 DEF After
    <2> HIDE DEF V, n
    <2>2. QED
      BY <2>1 DEF Turns
  <1>4. PICK g \in [0 .. n -> V] : Follows(g, Begin(s), F, n)
    <2> HIDE DEF V, F, n
    <2> QED
      BY <1>1, <1>2, <1>3, FiniteRecursion
  <1>5. g[0] = Begin(s) /\ \A k \in 1 .. n : g[k] = After(g[k - 1], new[k], K)
    <2>1. \A k \in 1 .. n : k - 1 \in 0 .. n
      BY <1>1
    <2> HIDE DEF V, n
    <2>2. QED
      BY <1>4, <2>1 DEF Follows
  <1> DEFINE Sol(f) == f = [k \in 0 .. Len(new) |->
                             IF k = 0 THEN {[seq |-> s, hint |-> Len(s) + 1]}
                             ELSE UNION {HintedInsertions(o, new[k], K) : o \in f[k - 1]}]
             c == CHOOSE f : Sol(f)
  <1>6. Sol(g)
    <2>1. ASSUME NEW k \in 0 .. n
          PROVE  g[k] = IF k = 0 THEN {[seq |-> s, hint |-> Len(s) + 1]}
                        ELSE UNION {HintedInsertions(o, new[k], K) : o \in g[k - 1]}
      <3>1. CASE k = 0
        BY <1>5, <3>1 DEF Begin
      <3>2. CASE k # 0
        <4>1. k \in 1 .. n
          BY <1>1, <3>2
        <4>2. g[k] = After(g[k - 1], new[k], K)
          BY <1>5, <4>1
        <4>3. QED
          BY <3>2, <4>2 DEF After
      <3>3. QED
        BY <3>1, <3>2
    <2>2. g = [k \in 0 .. Len(new) |-> g[k]]
      OBVIOUS
    <2>3. QED
      BY <2>1, <2>2
  <1>7. Sol(c)
    BY <1>6, Zenon
  <1>8. InsertAll(s, new, K) = {o.seq : o \in c[n]}
    BY DEF InsertAll
  <1> HIDE DEF c
  <1>9. c[0] = Begin(s)
    <2>1. 0 \in 0 .. n
      BY <1>1
    <2>2. QED
      BY <1>7, <2>1 DEF Begin
  <1>10. ASSUME NEW k \in 1 .. n
         PROVE  c[k] = After(c[k - 1], new[k], K)
    <2>1. k \in 0 .. n /\ k # 0
      BY <1>1
    <2>2. QED
      BY <1>7, <2>1 DEF After
  <1>11. QED
    BY <1>8, <1>9, <1>10 DEF Inserts

(* The first k of a sequence. *)
FirstOf(new, k) == {new[i] : i \in 1 .. k}

LEMMA InsertedAll ==
    ASSUME NEW s \in Seq(Symbol), IsInjective(s), NEW new \in Seq(Symbol), IsInjective(new),
           \A x \in ToSet(new) : x \notin ToSet(s), NEW K \in [Symbol -> Keys],
           NEW e \in InsertAll(s, new, K)
    PROVE  Gains(e, s, ToSet(new)) /\ (Ordered(s, K) => Ordered(e, K))
  <1> DEFINE n == Len(new)
  <1>1. n \in Nat /\ DOMAIN new = 1 .. n /\ \A k \in 1 .. n : new[k] \in Symbol
    OBVIOUS
  <1>2. PICK out : /\ out[0] = Begin(s)
                   /\ \A k \in 1 .. n : out[k] = After(out[k - 1], new[k], K)
                   /\ InsertAll(s, new, K) = {o.seq : o \in out[n]}
    BY InsertAllRecursion DEF Inserts
  <1> DEFINE Right(o, k) == /\ o \in States /\ Gains(o.seq, s, FirstOf(new, k))
                            /\ Ordered(s, K) => Ordered(o.seq, K)
             P == {k \in 0 .. n : \A o \in out[k] : Right(o, k)}
  <1>3. 0 \in P
    <2>1. FirstOf(new, 0) = {} /\ 0 \in 0 .. n
      BY <1>1 DEF FirstOf
    <2> DEFINE b == [seq |-> s, hint |-> Len(s) + 1]
    <2>2. b \in States /\ b.seq = s
      BY DEF States
    <2> HIDE DEF b
    <2>3. Right(b, 0)
      BY <2>1, <2>2 DEF Gains
    <2>4. \A o \in out[0] : o = b
      BY <1>2 DEF Begin, b
    <2>5. QED
      BY <2>1, <2>3, <2>4
  <1>4. ASSUME NEW k \in 1 .. n, k - 1 \in P, NEW p \in out[k]
        PROVE  Right(p, k)
    <2>1. PICK o \in out[k - 1] : p \in HintedInsertions(o, new[k], K)
      BY <1>2 DEF After
    <2>2. Right(o, k - 1)
      BY <1>4, <2>1
    <2>3. new[k] \in Symbol /\ new[k] \in ToSet(new)
      BY <1>1 DEF ToSet
    <2>4. new[k] \notin FirstOf(new, k - 1)
      <3>1. \A i \in 1 .. k - 1 : i \in 1 .. n /\ i # k
        BY <1>1
      <3>2. QED
        BY <1>1, <3>1 DEF FirstOf, IsInjective
    <2>5. new[k] \notin ToSet(o.seq) /\ IsInjective(o.seq) /\ o \in States
      BY <2>2, <2>3, <2>4 DEF Gains
    <2>6. /\ p \in States /\ Gains(p.seq, o.seq, {new[k]})
          /\ Ordered(o.seq, K) => Ordered(p.seq, K)
      BY <2>1, <2>3, <2>5, InsertedWithHint
    <2>7. FirstOf(new, k) = FirstOf(new, k - 1) \cup {new[k]}
      <3>1. 1 .. k = (1 .. k - 1) \cup {k}
        BY <1>1
      <3>2. QED
        BY <3>1 DEF FirstOf
    <2>8. Gains(p.seq, s, FirstOf(new, k))
      BY <2>2, <2>6, <2>7 DEF Gains
    <2>9. QED
      BY <2>2, <2>6, <2>8
  <1>5. n \in P
    <2>1. \A k \in 1 .. n : k - 1 \in P => k \in P
      <3> SUFFICES ASSUME NEW k \in 1 .. n, k - 1 \in P
                   PROVE  k \in P
        OBVIOUS
      <3>1. k \in 0 .. n
        BY <1>1
      <3>2. \A p \in out[k] : Right(p, k)
        BY <1>4
      <3> HIDE DEF Right
      <3>3. QED
        BY <3>1, <3>2
    <2> HIDE DEF P, n
    <2>2. 0 .. n \subseteq P
      BY <1>1, <1>3, <2>1, LoopInduction
    <2>3. QED
      BY <1>1, <2>2
  <1>6. PICK o \in out[n] : e = o.seq
    BY <1>2
  <1>7. Right(o, n)
    <2> HIDE DEF Right
    <2> QED
      BY <1>5, <1>6
  <1>8. FirstOf(new, n) = ToSet(new)
    BY <1>1 DEF FirstOf, ToSet
  <1>9. QED
    BY <1>6, <1>7, <1>8

-----------------------------------------------------------------------------

(* Re-filing symbols. *)

(* The symbols of the index that refer to one of the blocks B. *)
Moved(s, B) == {x \in ToSet(s) : payload[x] \in B}

(* Re-filing the symbols of B: the module keeps its symbols, and if the others
   were in order with each other then all are in order. *)
LEMMA Refiled ==
    ASSUME NEW s \in Seq(Symbol), IsInjective(s), NEW B, NEW K \in [Symbol -> Keys],
           NEW e \in Refile(s, B, K)
    PROVE  Gains(e, s, {}) /\ (OrderedOutside(s, Moved(s, B), K) => Ordered(e, K))
  <1> DEFINE M == Moved(s, B)
             t == Without(s, M)
  <1>1. PICK new \in SetToSeqs(M) : e \in InsertAll(t, new, K)
    BY DEF Refile, Moved
  <1>2. M \subseteq ToSet(s) /\ ToSet(s) \subseteq Symbol
    BY DEF Moved, ToSet
  <1> HIDE DEF M
  <1>3. IsFiniteSet(M)
    <2>1. Len(s) \in Nat /\ s \in [1 .. Len(s) -> Symbol]
      OBVIOUS
    <2>2. QED
      BY <1>2, <2>1, ToSetFinite, FS_Subset
  <1>4. new \in Seq(M) /\ ToSet(new) = M /\ IsInjective(new)
    BY <1>1, <1>3, Arrangement
  <1>5. new \in Seq(Symbol)
    BY <1>2, <1>4
  <1>6. t \in Seq(Symbol) /\ ToSet(t) = ToSet(s) \ M /\ IsInjective(t)
    BY WithoutElements
  <1>7. OrderedOutside(s, M, K) => Ordered(t, K)
    <2>1. M \cup {} = M
      OBVIOUS
    <2>2. QED
      BY <2>1, WithoutOrdered, OrderedOutsideNothing
  <1> HIDE DEF t
  <1>8. \A x \in ToSet(new) : x \notin ToSet(t)
    BY <1>4, <1>6
  <1>9. Gains(e, t, ToSet(new)) /\ (Ordered(t, K) => Ordered(e, K))
    BY <1>1, <1>4, <1>5, <1>6, <1>8, InsertedAll
  <1>10. Gains(e, s, {})
    BY <1>2, <1>4, <1>6, <1>9 DEF Gains
  <1>11. QED
    BY <1>7, <1>9, <1>10 DEF M

(* Re-filing when no symbol refers to the blocks. *)
LEMMA RefiledNothing ==
    ASSUME NEW s \in Seq(Symbol), NEW B, Moved(s, B) = {}, NEW K, NEW T,
           OrderedOutside(s, T, K), NEW e \in Refile(s, B, K)
    PROVE  OrderedOutside(e, T, K)
  <1> DEFINE t == Without(s, {})
  <1>1. PICK new \in SetToSeqs({}) : e \in InsertAll(t, new, K)
    BY DEF Refile, Moved
  <1>2. new \in Seq({}) /\ ToSet(new) = {}
    BY <1>1, FS_EmptySet, Arrangement
  <1>3. new \in Seq(Symbol) /\ Len(new) = 0
    BY <1>2
  <1>4. t \in Seq(Symbol)
    BY WithoutElements
  <1>5. OrderedOutside(t, T, K)
    <2>1. {} \cup T = T
      OBVIOUS
    <2>2. QED
      BY <2>1, WithoutOrdered
  <1> HIDE DEF t
  <1>6. PICK out : Inserts(out, t, new, K)
    BY <1>3, <1>4, InsertAllRecursion
  <1>7. e = t
    <2>1. out[0] = Begin(t) /\ InsertAll(t, new, K) = {o.seq : o \in out[Len(new)]}
      BY <1>6 DEF Inserts
    <2>2. QED
      BY <1>1, <1>3, <2>1 DEF Begin
  <1>8. QED
    BY <1>5, <1>7

(* An index in order is in order outside of any set of symbols. *)
LEMMA OrderedAnyOutside ==
    ASSUME NEW s, NEW S, NEW K, Ordered(s, K)
    PROVE  OrderedOutside(s, S, K)
  BY DEF Ordered, OrderedOutside

(* Synchronising the index with one symbol. *)
LEMMA Resynced ==
    ASSUME NEW s \in Seq(Symbol), IsInjective(s), NEW x \in ToSet(s),
           NEW K \in [Symbol -> Keys], NEW e \in Resync(s, x, K)
    PROVE  Gains(e, s, {}) /\ (OrderedOutside(s, {x}, K) => Ordered(e, K))
  <1> DEFINE t == Without(s, {x})
  <1>1. t \in Seq(Symbol) /\ ToSet(t) = ToSet(s) \ {x} /\ IsInjective(t)
    BY WithoutElements
  <1>2. OrderedOutside(s, {x}, K) => Ordered(t, K)
    <2>1. {x} \cup {} = {x}
      OBVIOUS
    <2>2. QED
      BY <2>1, WithoutOrdered, OrderedOutsideNothing
  <1>3. x \in Symbol
    BY DEF ToSet
  <1>4. CASE \E i \in DOMAIN s : s[i] = x /\ Fits(t, i, x, K)
    <2>1. PICK i \in 1 .. Len(s) : s[i] = x /\ Fits(t, i, x, K)
      BY <1>4
    <2>2. e = s
      BY <1>4 DEF Resync
    <2>3. i <= Len(t) + 1 /\ PutIn(s, t, i, x)
      BY <2>1, WithoutOne
    <2> HIDE DEF t
    <2>4. i \in 1 .. Len(t) + 1
      BY <1>1, <2>3
    <2>5. Ordered(t, K) => Ordered(s, K)
      BY <1>1, <1>3, <2>1, <2>3, <2>4, OrderedInsertion
    <2>6. QED
      BY <1>2, <2>2, <2>5 DEF Gains
  <1>5. CASE ~\E i \in DOMAIN s : s[i] = x /\ Fits(t, i, x, K)
    <2>1. e \in Insertions(t, x, K)
      BY <1>5 DEF Resync
    <2> HIDE DEF t
    <2>2. Gains(e, t, {x}) /\ (Ordered(t, K) => Ordered(e, K))
      BY <1>1, <1>3, <2>1, InsertedOne
    <2>3. QED
      BY <1>1, <1>2, <2>2 DEF Gains
  <1>6. QED
    BY <1>4, <1>5

-----------------------------------------------------------------------------

(* The keys. *)

LEMMA ModInWidth ==
    ASSUME NEW x \in Nat
    PROVE  x % AddrLimit \in 0 .. AddrLimit - 1
  BY SymbolAssumption

(* TypeOK without the index. *)
ObjectsOK ==
    /\ payload \in [Symbol -> Payload]
    /\ atEnd \in [Symbol -> BOOLEAN]
    /\ offset \in [Block -> Offset \cup {Null}]
    /\ blockSize \in [Block -> BlockSize]
    /\ address \in BaseAddr \cup {Null}
    /\ inSection \in BOOLEAN /\ inModule \in BOOLEAN

LEMMA TypeOKParts == TypeOK <=> ObjectsOK /\ index \in Seq(Symbol) /\ IsInjective(index)
  BY DEF TypeOK, ObjectsOK

(* A block has no address or one that fits the width; a symbol too. *)
LEMMA BlockAddressType ==
    ASSUME ObjectsOK, NEW b \in Block
    PROVE  blockAddress(b) \in Keys
  <1>1. CASE offset[b] = Null \/ address = Null
    BY <1>1 DEF blockAddress, Keys
  <1>2. CASE ~(offset[b] = Null \/ address = Null)
    <2>1. offset[b] \in Offset /\ address \in BaseAddr
      BY <1>2 DEF ObjectsOK
    <2>2. offset[b] \in Nat /\ address \in Nat
      <3>1. \A x \in BaseAddr : x \in Nat
        BY SymbolAssumption
      <3>2. \A x \in Offset : x \in Nat
        BY SymbolAssumption
      <3>3. QED
        BY <2>1, <3>1, <3>2
    <2>3. (address + offset[b]) % AddrLimit \in Keys
      BY <2>2, ModInWidth DEF Keys
    <2>4. QED
      BY <1>2, <2>3 DEF blockAddress
  <1>3. QED
    BY <1>1, <1>2

LEMMA KeyType ==
    ASSUME ObjectsOK
    PROVE  Key \in [Symbol -> Keys]
  <1>1. ASSUME NEW s \in Symbol
        PROVE  getAddress(s) \in Keys
    <2>1. payload[s] \in Payload
      BY DEF ObjectsOK
    <2>2. CASE payload[s] \notin Block
      <3>1. payload[s] \in {Null} \cup SymbolAddr
        BY <2>1, <2>2 DEF Payload
      <3>2. payload[s] \in Keys
        BY <3>1, SymbolAssumption DEF Keys
      <3>3. QED
        BY <2>2, <3>2 DEF getAddress
    <2>3. CASE payload[s] \in Block
      <3> DEFINE b == payload[s]
                 a == blockAddress(b)
                 d == IF atEnd[s] THEN blockSize[b] ELSE 0
      <3>1. a \in Keys
        BY <2>3, BlockAddressType
      <3>2. d \in Nat
        BY <2>3, SymbolAssumption DEF ObjectsOK
      <3>3. getAddress(s) = IF a = Null THEN Null ELSE (a + d) % AddrLimit
        BY <2>3 DEF getAddress
      <3> HIDE DEF a, d
      <3>4. CASE a = Null
        BY <3>3, <3>4 DEF Keys
      <3>5. CASE a # Null
        <4>1. a \in Nat
          BY <3>1, <3>5, SymbolAssumption DEF Keys
        <4>2. (a + d) % AddrLimit \in Keys
          BY <3>2, <4>1, ModInWidth DEF Keys
        <4>3. QED
          BY <3>3, <3>5, <4>2
      <3>6. QED
        BY <3>4, <3>5
    <2>4. QED
      BY <2>2, <2>3
  <1>2. QED
    BY <1>1 DEF Key

LEMMA KeyTypeNext == (ObjectsOK => Key \in [Symbol -> Keys])'
  <1>1. ObjectsOK => Key \in [Symbol -> Keys]
    BY KeyType
  <1>2. QED
    BY <1>1, PTL

-----------------------------------------------------------------------------

(* What every step does to the objects and to the index, apart from the order
   of the index. *)

LEMMA ObjectsStep ==
    ASSUME ObjectsOK, Next
    PROVE  ObjectsOK'
  <1> USE DEF ObjectsOK
  <1>1. ASSUME NEW s \in Symbol, SymbolStep(s)
        PROVE  ObjectsOK'
    <2>1. CASE addSymbol(s) \/ removeSymbol(s) \/ setName(s)
      BY <2>1 DEF addSymbol, removeSymbol, setName, symVars, blockVars, placeVars
    <2>2. ASSUME NEW p \in Payload, setPayload(s, p)
          PROVE  ObjectsOK'
      BY <2>2 DEF setPayload, blockVars, placeVars
    <2>3. ASSUME NEW end \in BOOLEAN, setAtEnd(s, end)
          PROVE  ObjectsOK'
      BY <2>3 DEF setAtEnd, blockVars, placeVars
    <2>4. QED
      BY <1>1, <2>1, <2>2, <2>3 DEF SymbolStep
  <1>2. ASSUME NEW b \in Block, BlockStep(b)
        PROVE  ObjectsOK'
    <2>1. ASSUME NEW sz \in BlockSize, setBlockSize(b, sz)
          PROVE  ObjectsOK'
      BY <2>1 DEF setBlockSize, symVars, placeVars
    <2>2. ASSUME NEW off \in Offset, addBlock(b, off)
          PROVE  ObjectsOK'
      BY <2>2 DEF addBlock, symVars, placeVars
    <2>3. CASE removeBlock(b)
      BY <2>3 DEF removeBlock, symVars, placeVars
    <2>4. QED
      BY <1>2, <2>1, <2>2, <2>3 DEF BlockStep
  <1>3. ASSUME NEW a \in BaseAddr \cup {Null}, setAddress(a)
        PROVE  ObjectsOK'
    BY <1>3 DEF setAddress, symVars, blockVars
  <1>4. ASSUME NEW in \in BOOLEAN, attachByteInterval(in) \/ attachSection(in)
        PROVE  ObjectsOK'
    BY <1>4 DEF attachByteInterval, attachSection, symVars, blockVars
  <1>5. QED
    BY <1>1, <1>2, <1>3, <1>4 DEF Next

IndexOK(ix) == ix \in Seq(Symbol) /\ IsInjective(ix)

LEMMA GainsIndexOK ==
    ASSUME NEW e, NEW s, NEW N, Gains(e, s, N)
    PROVE  IndexOK(e)
  BY DEF Gains, IndexOK

LEMMA IndexStep ==
    ASSUME ObjectsOK, ObjectsOK', IndexOK(index), Next
    PROVE  IndexOK(index')
  <1>1. Key \in [Symbol -> Keys] /\ Key' \in [Symbol -> Keys]
    BY KeyType, KeyTypeNext
  <1> DEFINE K == Key
             L == Key'
  <1>2. K \in [Symbol -> Keys] /\ L \in [Symbol -> Keys]
    BY <1>1
  <1>3. index \in Seq(Symbol) /\ IsInjective(index)
    BY DEF IndexOK
  <1> HIDE DEF K, L
  <1>4. \A B : \A e \in Refile(index, B, K) \cup Refile(index, B, L) : IndexOK(e)
    BY <1>2, <1>3, Refiled, GainsIndexOK
  <1>5. ASSUME NEW s \in Symbol, SymbolStep(s)
        PROVE  IndexOK(index')
    <2> DEFINE t == Without(index, {s})
    <2>1. t \in Seq(Symbol) /\ IsInjective(t) /\ s \notin ToSet(t)
      BY <1>3, WithoutElements
    <2> HIDE DEF t
    <2>2. CASE addSymbol(s)
      <3>1. index' \in Insertions(t, s, K)
        BY <2>2 DEF addSymbol, t, K
      <3>2. QED
        BY <1>2, <2>1, <3>1, InsertedOne, GainsIndexOK
    <2>3. CASE removeSymbol(s)
      BY <2>1, <2>3 DEF removeSymbol, t, IndexOK
    <2>4. \A e \in Resync(index, s, K) \cup Resync(index, s, L) : s \in ToSet(index) => IndexOK(e)
      BY <1>2, <1>3, Resynced, GainsIndexOK
    <2>5. CASE setName(s)
      BY <2>4, <2>5 DEF setName, K
    <2>6. ASSUME NEW p \in Payload, setPayload(s, p)
          PROVE  IndexOK(index')
      <3>1. CASE s \in ToSet(index)
        BY <2>4, <2>6, <3>1 DEF setPayload, L
      <3>2. CASE s \notin ToSet(index)
        BY <2>6, <3>2 DEF setPayload
      <3>3. QED
        BY <3>1, <3>2
    <2>7. ASSUME NEW end \in BOOLEAN, setAtEnd(s, end)
          PROVE  IndexOK(index')
      BY <2>7 DEF setAtEnd
    <2>8. QED
      BY <1>5, <2>2, <2>3, <2>5, <2>6, <2>7 DEF SymbolStep
  <1>6. ASSUME NEW b \in Block, BlockStep(b)
        PROVE  IndexOK(index')
    <2>1. ASSUME NEW sz \in BlockSize, setBlockSize(b, sz)
          PROVE  IndexOK(index')
      BY <2>1 DEF setBlockSize
    <2>2. ASSUME NEW off \in Offset, addBlock(b, off)
          PROVE  IndexOK(index')
      <3>1. CASE Attached
        BY <1>4, <2>2, <3>1 DEF addBlock, L
      <3>2. CASE ~Attached
        BY <2>2, <3>2 DEF addBlock
      <3>3. QED
        BY <3>1, <3>2
    <2>3. CASE removeBlock(b)
      <3>1. CASE Attached
        BY <1>4, <2>3, <3>1 DEF removeBlock, K
      <3>2. CASE ~Attached
        BY <2>3, <3>2 DEF removeBlock
      <3>3. QED
        BY <3>1, <3>2
    <2>4. QED
      BY <1>6, <2>1, <2>2, <2>3 DEF BlockStep
  <1>7. ASSUME NEW a \in BaseAddr \cup {Null}, setAddress(a)
        PROVE  IndexOK(index')
    <2>1. CASE Attached
      <3>1. PICK e \in Refile(index, Inside(CodeBlock), L) :
                   index' \in Refile(e, Inside(DataBlock), L)
        BY <1>7, <2>1 DEF setAddress, L
      <3>2. e \in Seq(Symbol) /\ IsInjective(e)
        BY <1>4, <3>1 DEF IndexOK
      <3>3. QED
        BY <1>2, <3>1, <3>2, Refiled, GainsIndexOK
    <2>2. CASE ~Attached
      BY <1>7, <2>2 DEF setAddress
    <2>3. QED
      BY <2>1, <2>2
  <1>8. ASSUME NEW in \in BOOLEAN, attachByteInterval(in) \/ attachSection(in)
        PROVE  IndexOK(index')
    <2>1. CASE inModule /\ attachByteInterval(in)
      BY <1>4, <2>1 DEF attachByteInterval, K
    <2>2. CASE ~inModule /\ attachByteInterval(in)
      BY <2>2 DEF attachByteInterval
    <2>3. CASE attachSection(in)
      BY <2>3 DEF attachSection
    <2>4. QED
      BY <1>8, <2>1, <2>2, <2>3
  <1>9. QED
    BY <1>5, <1>6, <1>7, <1>8 DEF Next

(* The index of a module holds sequences of symbols without repetition, whatever
   operations on symbols, blocks, byte intervals and sections are made and
   wherever the searches in a tree out of order end. *)
THEOREM SymbolIndexTypeCorrect == Spec => []TypeOK
  <1>1. Init => TypeOK
    <2> SUFFICES ASSUME Init
                 PROVE  TypeOK
      OBVIOUS
    <2>1. ObjectsOK
      BY DEF Init, ObjectsOK
    <2>2. index \in Seq(Symbol) /\ IsInjective(index)
      BY DEF Init, IsInjective
    <2>3. QED
      BY <2>1, <2>2, TypeOKParts
  <1>2. TypeOK /\ [Next]_vars => TypeOK'
    <2> SUFFICES ASSUME TypeOK, [Next]_vars
                 PROVE  TypeOK'
      OBVIOUS
    <2>1. ObjectsOK /\ IndexOK(index)
      BY TypeOKParts DEF IndexOK
    <2>2. CASE Next
      <3>1. ObjectsOK'
        BY <2>1, <2>2, ObjectsStep
      <3>2. IndexOK(index')
        BY <2>1, <2>2, <3>1, IndexStep
      <3>3. QED
        BY <3>1, <3>2 DEF TypeOK, ObjectsOK, IndexOK
    <2>3. CASE UNCHANGED vars
      BY <2>3 DEF TypeOK, vars, symVars, blockVars, placeVars
    <2>4. QED
      BY <2>2, <2>3
  <1>3. QED
    BY <1>1, <1>2, PTL DEF Spec

-----------------------------------------------------------------------------

(* The order of the index.  Symbols whose keys stay the same stay in order with
   each other. *)

LEMMA UnchangedKeysOrdered ==
    ASSUME NEW ix, NEW S, NEW K, NEW L, Ordered(ix, K),
           \A s \in ToSet(ix) : s \notin S => L[s] = K[s]
    PROVE  OrderedOutside(ix, S, L)
  <1>1. \A i \in DOMAIN ix : ix[i] \in ToSet(ix)
    BY DEF ToSet
  <1>2. QED
    BY <1>1 DEF Ordered, OrderedOutside

LEMMA SymbolsOfIndex ==
    ASSUME NEW ix \in Seq(Symbol)
    PROVE  ToSet(ix) \subseteq Symbol
  BY DEF ToSet

LEMMA KeyStays ==
    ASSUME NEW s \in Symbol, payload'[s] = payload[s], atEnd'[s] = atEnd[s],
           payload[s] \in Block =>
              /\ blockAddress(payload[s])' = blockAddress(payload[s])
              /\ atEnd[s] => blockSize'[payload[s]] = blockSize[payload[s]]
    PROVE  Key'[s] = Key[s]
  <1>1. Key[s] = getAddress(s) /\ Key'[s] = getAddress(s)'
    BY DEF Key
  <1> DEFINE b == payload[s]
             d == IF atEnd[s] THEN blockSize[b] ELSE 0
             e == IF atEnd[s] THEN blockSize'[b] ELSE 0
  <1>2. CASE b \notin Block
    BY <1>1, <1>2 DEF getAddress
  <1>3. CASE b \in Block
    <2>1. blockAddress(payload[s])' = blockAddress(b)
      BY <1>3
    <2>2. d = e
      <3>1. CASE atEnd[s]
        BY <1>3, <3>1
      <3>2. CASE ~atEnd[s]
        BY <3>2
      <3>3. QED
        BY <3>1, <3>2
    <2>3. getAddress(s) = IF blockAddress(b) = Null THEN Null
                          ELSE (blockAddress(b) + d) % AddrLimit
      BY <1>3 DEF getAddress
    <2>4. getAddress(s)' = IF blockAddress(payload[s])' = Null THEN Null
                           ELSE (blockAddress(payload[s])' + e) % AddrLimit
      BY <1>3 DEF getAddress
    <2>5. QED
      BY <1>1, <2>1, <2>2, <2>3, <2>4
  <1>4. QED
    BY <1>2, <1>3

LEMMA BlockStays ==
    ASSUME NEW b \in Block, offset'[b] = offset[b], address' = address \/ offset[b] = Null
    PROVE  blockAddress(b)' = blockAddress(b)
  BY DEF blockAddress

LEMMA SameObjectsSameKeys ==
    ASSUME UNCHANGED <<payload, atEnd, offset, address>>,
           blockSize' = blockSize \/ \A s \in Symbol : ~atEnd[s]
    PROVE  Key' = Key
  <1>1. \A b \in Block : blockAddress(b)' = blockAddress(b)
    BY BlockStays
  <1>2. \A s \in Symbol : Key'[s] = Key[s]
    BY <1>1, KeyStays
  <1>3. QED
    BY <1>2 DEF Key

(* The situation in which a step is made: everything has its type before and
   after it, the index is in order, and the step is announced. *)
InOrderBefore ==
    /\ ObjectsOK /\ ObjectsOK' /\ IndexOK(index)
    /\ Ordered(index, Key) /\ ~Unannounced

LEMMA KeysTyped ==
    ASSUME InOrderBefore
    PROVE  /\ Key \in [Symbol -> Keys] /\ Key' \in [Symbol -> Keys]
           /\ index \in Seq(Symbol) /\ IsInjective(index)
  BY KeyType, KeyTypeNext DEF InOrderBefore, IndexOK

(* Operations on symbols. *)
LEMMA SymbolStepOrdered ==
    ASSUME InOrderBefore, NEW s \in Symbol, SymbolStep(s)
    PROVE  Ordered(index', Key')
  <1> DEFINE K == Key
             L == Key'
  <1>1. K \in [Symbol -> Keys] /\ L \in [Symbol -> Keys]
        /\ index \in Seq(Symbol) /\ IsInjective(index) /\ Ordered(index, K)
    BY KeysTyped DEF InOrderBefore
  <1> HIDE DEF K, L
  <1>2. CASE addSymbol(s)
    <2> DEFINE t == Without(index, {s})
    <2>1. t \in Seq(Symbol) /\ IsInjective(t) /\ s \notin ToSet(t)
      BY <1>1, WithoutElements
    <2>2. Ordered(t, K)
      BY <1>1, WithoutOrdered, OrderedAnyOutside, OrderedOutsideNothing
    <2>3. index' \in Insertions(t, s, K)
      BY <1>2 DEF addSymbol, K
    <2> HIDE DEF t
    <2>4. Ordered(index', K)
      BY <1>1, <2>1, <2>2, <2>3, InsertedOne
    <2>5. L = K
      BY <1>2, SameObjectsSameKeys DEF addSymbol, symVars, blockVars, placeVars, K, L
    <2>6. QED
      BY <2>4, <2>5 DEF L
  <1>3. CASE removeSymbol(s)
    <2>1. index' = Without(index, {s})
      BY <1>3 DEF removeSymbol
    <2>2. Ordered(index', K)
      BY <1>1, <2>1, WithoutOrdered, OrderedAnyOutside, OrderedOutsideNothing
    <2>3. L = K
      BY <1>3, SameObjectsSameKeys DEF removeSymbol, symVars, blockVars, placeVars, K, L
    <2>4. QED
      BY <2>2, <2>3 DEF L
  <1>4. CASE setName(s)
    <2>1. s \in ToSet(index) /\ index' \in Resync(index, s, K)
      BY <1>4 DEF setName, K
    <2>2. Ordered(index', K)
      BY <1>1, <2>1, Resynced, OrderedAnyOutside
    <2>3. L = K
      BY <1>4, SameObjectsSameKeys DEF setName, symVars, blockVars, placeVars, K, L
    <2>4. QED
      BY <2>2, <2>3 DEF L
  <1>5. ASSUME NEW p \in Payload, setPayload(s, p)
        PROVE  Ordered(index', L)
    <2>1. /\ UNCHANGED <<atEnd, offset, blockSize, address>>
          /\ \A u \in Symbol : u # s => payload'[u] = payload[u]
      BY <1>5 DEF setPayload, blockVars, placeVars, InOrderBefore, ObjectsOK
    <2>2. \A b \in Block : blockAddress(b)' = blockAddress(b)
      BY <2>1, BlockStays
    <2>3. \A u \in Symbol : u # s => Key'[u] = Key[u]
      BY <2>1, <2>2, KeyStays
    <2>4. OrderedOutside(index, {s}, L)
      <3>1. \A u \in ToSet(index) : u \notin {s} => L[u] = K[u]
        BY <1>1, <2>3, SymbolsOfIndex DEF K, L
      <3>2. QED
        BY <1>1, <3>1, UnchangedKeysOrdered
    <2>5. CASE s \in ToSet(index)
      <3>1. index' \in Resync(index, s, L)
        BY <1>5, <2>5 DEF setPayload, L
      <3>2. QED
        BY <1>1, <2>4, <2>5, <3>1, Resynced
    <2>6. CASE s \notin ToSet(index)
      <3>1. index' = index
        BY <1>5, <2>6 DEF setPayload
      <3>2. Ordered(index, L)
        BY <2>4, <2>6 DEF Ordered, OrderedOutside, ToSet
      <3>3. QED
        BY <3>1, <3>2
    <2>7. QED
      BY <2>5, <2>6
  <1>6. ASSUME NEW end \in BOOLEAN, setAtEnd(s, end)
        PROVE  Ordered(index', L)
    <2>1. atEnd' = atEnd
      BY DEF InOrderBefore, Unannounced
    <2>2. L = K /\ index' = index
      BY <1>6, <2>1, SameObjectsSameKeys DEF setAtEnd, blockVars, placeVars, K, L
    <2>3. QED
      BY <1>1, <2>2
  <1>7. QED
    BY <1>2, <1>3, <1>4, <1>5, <1>6 DEF SymbolStep, L

(* Operations on blocks. *)
LEMMA BlockStepOrdered ==
    ASSUME InOrderBefore, NEW b \in Block, BlockStep(b)
    PROVE  Ordered(index', Key')
  <1> DEFINE K == Key
             L == Key'
  <1>1. K \in [Symbol -> Keys] /\ L \in [Symbol -> Keys]
        /\ index \in Seq(Symbol) /\ IsInjective(index) /\ Ordered(index, K)
    BY KeysTyped DEF InOrderBefore
  <1>2. offset \in [Block -> Offset \cup {Null}] /\ ~Unannounced
    BY DEF InOrderBefore, ObjectsOK
  <1> HIDE DEF K, L
  <1>3. ASSUME NEW sz \in BlockSize, setBlockSize(b, sz)
        PROVE  Ordered(index', L)
    <2>1. blockSize' = blockSize \/ \A s \in Symbol : ~atEnd[s]
      BY <1>2 DEF Unannounced
    <2>2. L = K /\ index' = index
      BY <1>3, <2>1, SameObjectsSameKeys DEF setBlockSize, symVars, placeVars, K, L
    <2>3. QED
      BY <1>1, <2>2
  <1>4. ASSUME NEW off \in Offset, addBlock(b, off)
        PROVE  Ordered(index', L)
    <2>1. /\ UNCHANGED <<payload, atEnd, blockSize, address>>
          /\ \A c \in Block : c # b => offset'[c] = offset[c]
          /\ offset' # offset
      BY <1>2, <1>4 DEF addBlock, symVars, placeVars
    <2>2. Attached
      BY <1>2, <2>1 DEF Unannounced
    <2>3. \A c \in Block : c # b => blockAddress(c)' = blockAddress(c)
      BY <2>1, BlockStays
    <2>4. \A s \in Symbol : payload[s] # b => Key'[s] = Key[s]
      BY <2>1, <2>3, KeyStays
    <2> DEFINE M == Moved(index, {b})
    <2>5. index' \in Refile(index, {b}, L)
      BY <1>4, <2>2 DEF addBlock, L
    <2>6. OrderedOutside(index, M, L)
      <3>1. \A s \in ToSet(index) : s \notin M => L[s] = K[s]
        BY <1>1, <2>4, SymbolsOfIndex DEF Moved, K, L
      <3>2. QED
        BY <1>1, <3>1, UnchangedKeysOrdered
    <2>7. QED
      BY <1>1, <2>5, <2>6, Refiled
  <1>5. ~removeBlock(b)
    BY <1>2 DEF removeBlock, Unannounced
  <1>6. QED
    BY <1>3, <1>4, <1>5 DEF BlockStep, L

(* A new address of the byte interval.  Its code blocks and its data blocks are
   re-filed one after the other; if there are only blocks of one kind, all
   symbols whose keys change leave the index before any is inserted. *)
LEMMA AddressStepOrdered ==
    ASSUME InOrderBefore, NEW a \in BaseAddr \cup {Null}, setAddress(a)
    PROVE  Ordered(index', Key')
  <1> DEFINE K == Key
             L == Key'
             C == Inside(CodeBlock)
             D == Inside(DataBlock)
  <1>1. K \in [Symbol -> Keys] /\ L \in [Symbol -> Keys]
        /\ index \in Seq(Symbol) /\ IsInjective(index) /\ Ordered(index, K)
    BY KeysTyped DEF InOrderBefore
  <1>2. UNCHANGED <<payload, atEnd, offset, blockSize>> /\ ~Unannounced
    BY DEF InOrderBefore, setAddress, symVars, blockVars
  <1>3. \A b \in Block : b \notin C \cup D => blockAddress(b)' = blockAddress(b)
    <2>1. \A b \in Block : b \notin C \cup D => offset[b] = Null
      BY DEF Inside, Block
    <2>2. QED
      BY <1>2, <2>1, BlockStays
  <1>4. \A s \in Symbol : payload[s] \notin C \cup D => L[s] = K[s]
    BY <1>2, <1>3, KeyStays
  <1>5. address' = address => L = K
    BY <1>2, SameObjectsSameKeys
  <1>6. address' = address \/ C = {} \/ D = {}
    BY <1>2 DEF Unannounced, Mixed
  <1>7. ~Attached => address' = address /\ index' = index
    BY <1>2 DEF Unannounced, setAddress
  <1>8. Attached => \E e \in Refile(index, C, L) : index' \in Refile(e, D, L)
    BY DEF setAddress
  <1> HIDE DEF K, L, C, D
  <1>9. CASE ~Attached
    BY <1>1, <1>5, <1>7, <1>9 DEF L
  <1>10. CASE Attached
    <2>1. PICK e \in Refile(index, C, L) : index' \in Refile(e, D, L)
      BY <1>8, <1>10
    <2>2. Gains(e, index, {}) /\ (OrderedOutside(index, Moved(index, C), L) => Ordered(e, L))
      BY <1>1, <2>1, Refiled
    <2>3. e \in Seq(Symbol) /\ IsInjective(e) /\ ToSet(e) = ToSet(index)
      BY <2>2 DEF Gains
    <2>4. OrderedOutside(e, Moved(e, D), L) => Ordered(index', L)
      BY <1>1, <2>1, <2>3, Refiled
    <2>5. Ordered(e, L) => Ordered(index', L)
      BY <2>4, OrderedAnyOutside
    <2>6. CASE address' = address
      <3>1. OrderedOutside(index, Moved(index, C), L)
        BY <1>1, <1>5, <2>6, OrderedAnyOutside
      <3>2. QED
        BY <2>2, <2>5, <3>1 DEF L
    <2>7. CASE D = {}
      <3>1. \A s \in ToSet(index) : s \notin Moved(index, C) => L[s] = K[s]
        BY <1>1, <1>4, <2>7, SymbolsOfIndex DEF Moved
      <3>2. OrderedOutside(index, Moved(index, C), L)
        BY <1>1, <3>1, UnchangedKeysOrdered
      <3>3. QED
        BY <2>2, <2>5, <3>2 DEF L
    <2>8. CASE C = {}
      <3>1. Moved(index, C) = {}
        BY <2>8 DEF Moved
      <3> DEFINE M == Moved(index, D)
      <3>2. \A s \in ToSet(index) : s \notin M => L[s] = K[s]
        BY <1>1, <1>4, <2>8, SymbolsOfIndex DEF Moved
      <3>3. M = Moved(e, D)
        BY <2>3 DEF Moved
      <3> HIDE DEF M
      <3>4. OrderedOutside(index, M, L)
        BY <1>1, <3>2, UnchangedKeysOrdered
      <3>5. OrderedOutside(e, M, L)
        BY <1>1, <2>1, <3>1, <3>4, RefiledNothing
      <3>6. QED
        BY <2>4, <3>3, <3>5 DEF L
    <2>9. QED
      BY <1>6, <2>6, <2>7, <2>8
  <1>11. QED
    BY <1>9, <1>10

(* Attaching and detaching the byte interval and the section. *)
LEMMA AttachStepOrdered ==
    ASSUME InOrderBefore, NEW in \in BOOLEAN, attachByteInterval(in) \/ attachSection(in)
    PROVE  Ordered(index', Key')
  <1> DEFINE K == Key
             L == Key'
  <1>1. K \in [Symbol -> Keys] /\ index \in Seq(Symbol) /\ IsInjective(index)
        /\ Ordered(index, K)
    BY KeysTyped DEF InOrderBefore
  <1>2. L = K
    BY SameObjectsSameKeys DEF attachByteInterval, attachSection, symVars, blockVars
  <1>3. index' = index \/ index' \in Refile(index, Inside(CodeBlock), K)
    BY DEF attachByteInterval, attachSection
  <1> HIDE DEF K, L
  <1>4. Ordered(index', K)
    BY <1>1, <1>3, Refiled, OrderedAnyOutside
  <1>5. QED
    BY <1>2, <1>4 DEF L

(* From an index in order, every step that the module is told of at the right
   time leads to an index in order: the symbols whose addresses change are all
   taken out before any is inserted, so that each search runs in a tree that is
   in order under the new addresses. *)
THEOREM AnnouncedOrder == Spec => AnnouncedChangesKeepOrder
  <1>1. TypeOK /\ TypeOK' /\ [Next]_vars =>
           [SymbolsInAddressOrder /\ ~Unannounced => SymbolsInAddressOrder']_vars
    <2> SUFFICES ASSUME TypeOK, TypeOK', [Next]_vars, SymbolsInAddressOrder, ~Unannounced,
                        ~UNCHANGED vars
                 PROVE  SymbolsInAddressOrder'
      OBVIOUS
    <2>1. Next
      OBVIOUS
    <2>2. ObjectsOK' /\ ObjectsOK /\ IndexOK(index)
      BY DEF TypeOK, ObjectsOK, IndexOK
    <2>3. InOrderBefore
      BY <2>2 DEF SymbolsInAddressOrder, Ordered, InOrderBefore
    <2>4. Ordered(index', Key')
      BY <2>1, <2>3, SymbolStepOrdered, BlockStepOrdered, AddressStepOrdered,
         AttachStepOrdered DEF Next
    <2>5. QED
      BY <2>4 DEF SymbolsInAddressOrder, Ordered
  <1>2. QED
    BY <1>1, SymbolIndexTypeCorrect, PTL DEF Spec, AnnouncedChangesKeepOrder

=============================================================================
