-------------------------- MODULE ByteVectorProofs --------------------------
(***************************************************************************)
(* Proofs about ByteVector: for every type and size, the vector of         *)
(* initialised bytes and the size together behave as an array of bytes.    *)
(*                                                                         *)
(* A sequence is described by its length and its elements.  The two loops  *)
(* of the model, the copying of elements and the concatenation it is       *)
(* compared with, are recursive functions; what they compute is shown by   *)
(* induction over the number of elements.                                  *)
(***************************************************************************)
EXTENDS ByteVector, CommonFacts, TLAPS

(* Sequences of n bytes are functions on 1 .. n. *)
LEMMA BytesByIndex ==
    ASSUME NEW B, NEW n \in Nat, NEW s \in [1 .. n -> B]
    PROVE  s \in Seq(B) /\ Len(s) = n /\ DOMAIN s = 1 .. n
  OBVIOUS

LEMMA SameBytes ==
    ASSUME NEW B, NEW n \in Nat, NEW s \in [1 .. n -> B], NEW t \in [1 .. n -> B],
           \A k \in 1 .. n : s[k] = t[k]
    PROVE  s = t
  OBVIOUS

(* resize yields the length it is given. *)
LEMMA ResizeType ==
    ASSUME NEW v \in Seq(Byte), NEW n \in Nat
    PROVE  /\ resize(v, n) \in [1 .. n -> Byte]
           /\ resize(v, n) \in Seq(Byte)
           /\ Len(resize(v, n)) = n
           /\ \A k \in 1 .. n : resize(v, n)[k] = IF k <= Len(v) THEN v[k] ELSE 0
  <1>1. resize(v, n) \in [1 .. n -> Byte]
    BY ByteAssumption DEF resize
  <1>2. \A k \in 1 .. n : resize(v, n)[k] = IF k <= Len(v) THEN v[k] ELSE 0
    BY DEF resize
  <1>3. QED
    BY <1>1, <1>2, BytesByIndex

(* The conversion of the byte order keeps the length, and it is its own
   inverse. *)
LEMMA FlipType ==
    ASSUME NEW w \in Nat, NEW x \in [1 .. w -> Byte], NEW flip \in BOOLEAN
    PROVE  /\ endian_flip(x, flip) \in [1 .. w -> Byte]
           /\ endian_flip(endian_flip(x, flip), flip) = x
  <1>1. x \in Seq(Byte) /\ Len(x) = w
    BY BytesByIndex
  <1>2. Reverse(x) \in [1 .. w -> Byte] /\ \A k \in 1 .. w : Reverse(x)[k] = x[(w - k) + 1]
    BY <1>1 DEF Reverse
  <1>3. Reverse(x) \in Seq(Byte) /\ Len(Reverse(x)) = w
    BY <1>2, BytesByIndex
  <1>4. Reverse(Reverse(x)) = [k \in 1 .. w |-> Reverse(x)[(w - k) + 1]]
    BY <1>3 DEF Reverse
  <1>5. \A k \in 1 .. w : Reverse(x)[(w - k) + 1] = x[k]
    BY <1>2
  <1>6. Reverse(Reverse(x)) = x
    BY <1>4, <1>5
  <1>7. QED
    BY <1>2, <1>6 DEF endian_flip

GrownLen(v, i, w) == IF Len(v) >= i + w THEN Len(v) ELSE i + w

(* Storing an element of w bytes at i: the vector grows to hold it, and what is
   not covered by it stays. *)
LEMMA StoredType ==
    ASSUME NEW v \in Seq(Byte), NEW i \in Nat, NEW w \in Nat, NEW x \in Element(w),
           NEW flip \in BOOLEAN
    PROVE  /\ stored(v, i, x, flip) \in [1 .. GrownLen(v, i, w) -> Byte]
           /\ \A k \in 1 .. GrownLen(v, i, w) : stored(v, i, x, flip)[k] =
                 IF k > i /\ k <= i + w THEN endian_flip(x, flip)[k - i]
                 ELSE IF k <= Len(v) THEN v[k] ELSE 0
  <1> USE DEF Element
  <1> DEFINE l == GrownLen(v, i, w)
             grown == resize(v, l)
             y     == endian_flip(x, flip)
  <1>1. l \in Nat /\ Max({Len(v), i + Len(x)}) = l /\ Len(x) = w
    <2>1. Len(x) = w
      BY BytesByIndex
    <2>2. QED
      BY <2>1, MaxOfTwo DEF GrownLen
  <1>2. grown \in [1 .. l -> Byte]
        /\ \A k \in 1 .. l : grown[k] = IF k <= Len(v) THEN v[k] ELSE 0
    BY <1>1, ResizeType
  <1>3. y \in [1 .. w -> Byte]
    BY FlipType
  <1>4. stored(v, i, x, flip) =
            [k \in DOMAIN grown |-> IF k > i /\ k <= i + w THEN y[k - i] ELSE grown[k]]
    BY <1>1 DEF stored
  <1> HIDE DEF grown, y, l
  <1>5. stored(v, i, x, flip) =
            [k \in 1 .. l |-> IF k > i /\ k <= i + w THEN y[k - i] ELSE grown[k]]
    BY <1>2, <1>4
  <1>6. \A k \in 1 .. l : k > i /\ k <= i + w => k - i \in 1 .. w
    BY <1>1
  <1>7. stored(v, i, x, flip) \in [1 .. l -> Byte]
    BY <1>2, <1>3, <1>5, <1>6
  <1>8. \A k \in 1 .. l : stored(v, i, x, flip)[k] =
            IF k > i /\ k <= i + w THEN y[k - i] ELSE IF k <= Len(v) THEN v[k] ELSE 0
    BY <1>2, <1>5
  <1>9. QED
    BY <1>7, <1>8 DEF y, l

(* The vector after each turn of the copying of n elements. *)
Turn(a, i, xs, w, flip, k) == a[k] = stored(a[k - 1], i + (k - 1) * w, xs[k], flip)

Copies(a, v, i, xs, w, flip, n) ==
    /\ a[0] = v
    /\ \A k \in 1 .. n : Turn(a, i, xs, w, flip, k)
    /\ copied(v, i, xs, w, flip) = a[n]

(* The copying of elements is a recursion with a solution. *)
LEMMA CopiedRecursion ==
    ASSUME NEW v \in Seq(Byte), NEW i \in Nat, NEW w \in Nat, NEW n \in Nat,
           NEW xs \in [1 .. n -> Element(w)], NEW flip \in BOOLEAN
    PROVE  \E a \in [0 .. n -> Seq(Byte)] : Copies(a, v, i, xs, w, flip, n)
  <1> USE DEF Element
  <1> DEFINE Sol(a) == a = [k \in 0 .. n |-> IF k = 0 THEN v
                               ELSE stored(a[k - 1], i + (k - 1) * w, xs[k], flip)]
             F == [k \in 1 .. n |-> [u \in Seq(Byte) |-> stored(u, i + (k - 1) * w, xs[k], flip)]]
             c == CHOOSE a : Sol(a)
  <1>1. \A k \in 1 .. n, u \in Seq(Byte) : stored(u, i + (k - 1) * w, xs[k], flip) \in Seq(Byte)
    <2> TAKE k \in 1 .. n, u \in Seq(Byte)
    <2> DEFINE p == i + (k - 1) * w
               l == GrownLen(u, p, w)
    <2>1. p \in Nat /\ l \in Nat
      <3>1. k - 1 \in Nat
        OBVIOUS
      <3>2. p \in Nat
        BY <3>1, ProductInNat
      <3> HIDE DEF p
      <3>3. QED
        BY <3>2 DEF GrownLen
    <2> HIDE DEF p, l
    <2>2. xs[k] \in [1 .. w -> Byte]
      OBVIOUS
    <2>3. stored(u, p, xs[k], flip) \in [1 .. l -> Byte]
      BY <2>1, <2>2, StoredType DEF l
    <2>4. QED
      BY <2>1, <2>3, BytesByIndex DEF p
  <1>2. F \in [1 .. n -> [Seq(Byte) -> Seq(Byte)]]
    BY <1>1
  <1>3. PICK g \in [0 .. n -> Seq(Byte)] :
            g[0] = v /\ \A k \in 1 .. n : g[k] = F[k][g[k - 1]]
    <2>1. F \in Turns(Seq(Byte), n)
      BY <1>2 DEF Turns
    <2> HIDE DEF F
    <2>2. \E g \in [0 .. n -> Seq(Byte)] : Follows(g, v, F, n)
      BY <2>1, FiniteRecursion
    <2>3. QED
      BY <2>2 DEF Follows
  <1>4. \A k \in 1 .. n : F[k][g[k - 1]] = stored(g[k - 1], i + (k - 1) * w, xs[k], flip)
    OBVIOUS
  <1>5. Sol(g)
    <2> HIDE DEF F
    <2>1. \A k \in 0 .. n : k # 0 => k \in 1 .. n
      OBVIOUS
    <2>2. \A k \in 0 .. n : g[k] = IF k = 0 THEN v
                                   ELSE stored(g[k - 1], i + (k - 1) * w, xs[k], flip)
      BY <1>3, <1>4, <2>1, Zenon
    <2>3. QED
      BY <2>2
  <1>6. Sol(c)
    BY <1>5, Zenon
  <1>7. copied(v, i, xs, w, flip) = c[n]
    <2>1. Len(xs) = n
      BY BytesByIndex
    <2>2. QED
      BY <2>1 DEF copied
  <1> HIDE DEF c
  <1>8. c[0] = v /\ \A k \in 1 .. n : c[k] = stored(c[k - 1], i + (k - 1) * w, xs[k], flip)
    BY <1>6
  <1>9. c \in [0 .. n -> Seq(Byte)]
    <2> DEFINE S == {m \in Nat : m <= n => c[m] \in Seq(Byte)}
    <2>1. 0 \in S
      BY <1>8
    <2>2. \A m \in Nat : m \in S => m + 1 \in S
      <3> SUFFICES ASSUME NEW m \in Nat, m \in S, m + 1 <= n
                   PROVE  c[m + 1] \in Seq(Byte)
        OBVIOUS
      <3>1. c[m] \in Seq(Byte) /\ m + 1 \in 1 .. n /\ (m + 1) - 1 = m
        OBVIOUS
      <3>2. c[m + 1] = stored(c[m], i + ((m + 1) - 1) * w, xs[m + 1], flip)
        BY <1>8, <3>1
      <3>3. QED
        BY <1>1, <3>1, <3>2
    <2>3. Nat \subseteq S
      <3> HIDE DEF S
      <3> QED
        BY <2>1, <2>2, SetInduction
    <2>4. \A m \in 0 .. n : c[m] \in Seq(Byte)
      BY <2>3
    <2>5. DOMAIN c = 0 .. n
      BY <1>6
    <2>6. c = [k \in DOMAIN c |-> c[k]]
      BY <1>6
    <2>7. QED
      BY <2>4, <2>5, <2>6
  <1>10. QED
    BY <1>7, <1>8, <1>9 DEF Copies, Turn


(* u has l bytes; they are those of v except between i and e. *)
CopiedUpTo(u, l, v, i, e) ==
    /\ u \in [1 .. l -> Byte]
    /\ \A k \in 1 .. l : k <= i \/ k > e => u[k] = IF k <= Len(v) THEN v[k] ELSE 0

(* s has the bytes of u up to e, then those of y. *)
Continues(s, u, l, e, y, w) ==
    /\ \A q \in 1 .. w : s[e + q] = y[q]
    /\ \A k \in 1 .. l : k <= e => s[k] = u[k]

(* One turn: behind what was copied to i .. e, an element is stored at e.  l and
   n are the lengths before and after; at the beginning nothing was copied, and
   the vector may end before i. *)
LEMMA CopyTurn ==
    ASSUME NEW v \in Seq(Byte), NEW i \in Nat, NEW w \in Nat, NEW e \in Nat, e >= i,
           NEW l, l = Len(v) \/ (l = e /\ l >= Len(v)),
           NEW u \in Seq(Byte), CopiedUpTo(u, l, v, i, e),
           NEW x \in Element(w), NEW flip \in BOOLEAN
    PROVE  /\ CopiedUpTo(stored(u, e, x, flip), GrownLen(v, e, w), v, i, e + w)
           /\ Continues(stored(u, e, x, flip), u, l, e, endian_flip(x, flip), w)
  <1> DEFINE n == GrownLen(v, e, w)
  <1> USE DEF CopiedUpTo
  <1> DEFINE s == stored(u, e, x, flip)
  <1>1. l \in Nat /\ n \in Nat /\ Len(u) = l /\ l >= Len(v) /\ n >= l /\ n >= e + w
    <2>1. l \in Nat /\ n \in Nat /\ l >= Len(v) /\ n >= l /\ n >= e + w
      BY DEF GrownLen
    <2>2. QED
      BY <2>1, BytesByIndex
  <1>2. n = GrownLen(u, e, w)
    BY <1>1 DEF GrownLen
  <1>3. /\ s \in [1 .. n -> Byte]
        /\ \A k \in 1 .. n : s[k] =
              IF k > e /\ k <= e + w THEN endian_flip(x, flip)[k - e]
              ELSE IF k <= Len(u) THEN u[k] ELSE 0
    BY <1>2, StoredType
  <1> HIDE DEF s, n
  <1>4. ASSUME NEW q \in 1 .. w
        PROVE  s[e + q] = endian_flip(x, flip)[q]
    <2>1. e + q \in 1 .. n /\ e + q > e /\ e + q <= e + w /\ (e + q) - e = q
      BY <1>1
    <2>2. QED
      BY <1>3, <2>1
  <1>5. ASSUME NEW k \in 1 .. l, k <= e
        PROVE  s[k] = u[k]
    BY <1>1, <1>3, <1>5
  <1>6. ASSUME NEW k \in 1 .. n, k <= i \/ k > e + w
        PROVE  s[k] = IF k <= Len(v) THEN v[k] ELSE 0
    <2>1. s[k] = IF k <= l THEN u[k] ELSE 0
      BY <1>1, <1>3, <1>6
    <2>2. CASE k <= l
      <3>1. k \in 1 .. l /\ (k <= i \/ k > e)
        BY <1>1, <1>6, <2>2
      <3>2. u[k] = IF k <= Len(v) THEN v[k] ELSE 0
        BY <3>1
      <3>3. QED
        BY <2>1, <2>2, <3>2
    <2>3. CASE k > l
      BY <1>1, <2>1, <2>3
    <2>4. QED
      BY <1>1, <2>2, <2>3
  <1>7. QED
    BY <1>3, <1>4, <1>5, <1>6 DEF s, n, Continues

(* The length of the vector after n elements of width w were copied to i. *)
CopiedLen(v, i, n, w) == IF n = 0 \/ Len(v) >= i + n * w THEN Len(v) ELSE i + n * w

(* s has the n elements xs one behind the other from i on. *)
Placed(s, i, xs, w, flip, n) ==
    \A p \in 1 .. n, q \in 1 .. w : s[i + (p - 1) * w + q] = endian_flip(xs[p], flip)[q]

(* Copying n elements of width w to i stores them one behind the other and
   leaves the bytes before and behind as they are. *)
LEMMA CopiedBytes ==
    ASSUME NEW v \in Seq(Byte), NEW i \in Nat, NEW w \in Nat, NEW n \in Nat,
           NEW xs \in [1 .. n -> Element(w)], NEW flip \in BOOLEAN
    PROVE  /\ CopiedUpTo(copied(v, i, xs, w, flip), CopiedLen(v, i, n, w), v, i, i + n * w)
           /\ Placed(copied(v, i, xs, w, flip), i, xs, w, flip, n)
  <1>1. PICK a \in [0 .. n -> Seq(Byte)] : Copies(a, v, i, xs, w, flip, n)
    BY CopiedRecursion
  <1> DEFINE L(m) == CopiedLen(v, i, m, w)
             Good(m) ==
                /\ a[m] \in [1 .. L(m) -> Byte]
                /\ \A p \in 1 .. m, q \in 1 .. w :
                      a[m][i + (p - 1) * w + q] = endian_flip(xs[p], flip)[q]
                /\ \A k \in 1 .. L(m) : k <= i \/ k > i + m * w =>
                      a[m][k] = IF k <= Len(v) THEN v[k] ELSE 0
             S == {m \in Nat : m <= n => Good(m)}
  <1>2. 0 \in S
    BY <1>1 DEF Copies, CopiedLen
  <1>3. \A m \in Nat : m \in S => m + 1 \in S
    <2> SUFFICES ASSUME NEW m \in Nat, m + 1 <= n, Good(m)
                 PROVE  Good(m + 1)
      <3> HIDE DEF Good
      <3> QED
        OBVIOUS
    <2> DEFINE e == i + m * w
               u == a[m]
               d == IF Len(u) >= e + w THEN Len(u) ELSE e + w
               y == endian_flip(xs[m + 1], flip)
    <2>1. e \in Nat /\ e >= i /\ m \in 0 .. n /\ m + 1 \in 1 .. n
      <3>1. m * w \in Nat /\ i + m * w \in Nat
        BY ProductInNat
      <3>2. QED
        BY <3>1
    <2>0. i + (m + 1) * w = e + w
      OBVIOUS
    <2>2. a[m + 1] = stored(u, e, xs[m + 1], flip)
      <3>1. m + 1 \in 1 .. n /\ (m + 1) - 1 = m
        OBVIOUS
      <3>2. QED
        BY <1>1, <3>1 DEF Copies, Turn
    <2>3. L(m) = IF m = 0 \/ Len(v) >= e THEN Len(v) ELSE e
      BY DEF CopiedLen
    <2>4. L(m + 1) = GrownLen(v, e, w)
      BY <2>0 DEF CopiedLen, GrownLen
    <2>5. /\ u \in Seq(Byte) /\ CopiedUpTo(u, L(m), v, i, e)
          /\ \A p \in 1 .. m, q \in 1 .. w :
                u[i + (p - 1) * w + q] = endian_flip(xs[p], flip)[q]
      BY <2>1 DEF CopiedUpTo
    <2>6. xs[m + 1] \in Element(w)
      BY <2>1
    <2> HIDE DEF e, u, L, Good
    <2>7. /\ CopiedUpTo(a[m + 1], L(m + 1), v, i, e + w)
          /\ Continues(a[m + 1], u, L(m), e, endian_flip(xs[m + 1], flip), w)
      <3>1. L(m) = Len(v) \/ (L(m) = e /\ L(m) >= Len(v))
        BY <2>1, <2>3
      <3>2. e \in Nat /\ e >= i /\ u \in Seq(Byte) /\ CopiedUpTo(u, L(m), v, i, e)
        BY <2>1, <2>5
      <3>3. /\ CopiedUpTo(stored(u, e, xs[m + 1], flip), GrownLen(v, e, w), v, i, e + w)
            /\ Continues(stored(u, e, xs[m + 1], flip), u, L(m), e,
                         endian_flip(xs[m + 1], flip), w)
        BY <2>6, <3>1, <3>2, CopyTurn
      <3>4. QED
        BY <2>2, <2>4, <3>3
    <2>8. ASSUME NEW p \in 1 .. m + 1, NEW q \in 1 .. w
          PROVE  a[m + 1][i + (p - 1) * w + q] = endian_flip(xs[p], flip)[q]
      <3>1. CASE p = m + 1
        <4>1. i + (p - 1) * w + q = e + q
          BY <3>1 DEF e
        <4>2. QED
          BY <2>7, <3>1, <4>1 DEF Continues
      <3>2. CASE p <= m
        <4>1. p \in 1 .. m
          BY <3>2
        <4>2. i + (p - 1) * w + q \in i + 1 .. e
          BY <4>1, ElementPositions DEF e
        <4> DEFINE k == i + (p - 1) * w + q
        <4>3. u[k] = endian_flip(xs[p], flip)[q]
          BY <2>5, <4>1
        <4> HIDE DEF k
        <4>4. k \in 1 .. L(m) /\ k <= e
          BY <2>1, <2>3, <3>2, <4>2 DEF k
        <4>5. a[m + 1][k] = u[k]
          BY <2>7, <4>4 DEF Continues
        <4>6. QED
          BY <4>3, <4>5 DEF k
      <3>3. p = m + 1 \/ p <= m
        OBVIOUS
      <3>4. QED
        BY <3>1, <3>2, <3>3, Zenon
    <2>9. QED
      BY <2>0, <2>7, <2>8 DEF Good, CopiedUpTo
  <1>4. Good(n)
    <2>1. n \in S
      <3> HIDE DEF S
      <3> QED
        BY <1>2, <1>3, SetInduction
    <2> HIDE DEF Good
    <2>2. QED
      BY <2>1
  <1>5. QED
    BY <1>1, <1>4 DEF Copies, CopiedUpTo, Placed


-----------------------------------------------------------------------------

(* The bytes of the elements ys, one behind the other. *)
InRow(s, ys, w, n) ==
    /\ s \in [1 .. n * w -> Byte]
    /\ \A p \in 1 .. n, q \in 1 .. w : s[(p - 1) * w + q] = ys[p][q]

(* They determine the sequence. *)
LEMMA InRowUnique ==
    ASSUME NEW w \in Nat \ {0}, NEW n \in Nat, NEW ys, NEW s, NEW t,
           InRow(s, ys, w, n), InRow(t, ys, w, n)
    PROVE  s = t
  <1>1. \A k \in 1 .. n * w : s[k] = t[k]
    <2> TAKE k \in 1 .. n * w
    <2>1. PICK p \in 1 .. n, q \in 1 .. w : k = (p - 1) * w + q
      BY ElementAtPosition
    <2>2. s[(p - 1) * w + q] = ys[p][q] /\ t[(p - 1) * w + q] = ys[p][q]
      BY Zenon DEF InRow
    <2>3. QED
      BY <2>1, <2>2, Zenon
  <1>2. n * w \in Nat
    BY ProductInNat
  <1>3. QED
    BY <1>1, <1>2, SameBytes DEF InRow

LEMMA ConcatContinues ==
    ASSUME NEW e \in Nat, NEW w \in Nat, NEW u \in [1 .. e -> Byte], NEW x \in Element(w)
    PROVE  u \o x \in [1 .. e + w -> Byte] /\ Continues(u \o x, u, e, e, x, w)
  <1>1. u \in Seq(Byte) /\ Len(u) = e /\ x \in Seq(Byte) /\ Len(x) = w
    BY BytesByIndex DEF Element
  <1>2. u \o x \in Seq(Byte) /\ Len(u \o x) = e + w
    BY <1>1
  <1>3. u \o x \in [1 .. e + w -> Byte]
    <2> DEFINE s == u \o x
    <2>1. s \in Seq(Byte) /\ Len(s) = e + w
      BY <1>2
    <2> HIDE DEF s
    <2>2. s \in [1 .. e + w -> Byte]
      BY <2>1
    <2>3. QED
      BY <2>2 DEF s
  <1>4. \A k \in 1 .. e : (u \o x)[k] = u[k]
    BY <1>1
  <1>5. \A q \in 1 .. w : (u \o x)[e + q] = x[q]
    BY <1>1
  <1>6. QED
    BY <1>3, <1>4, <1>5 DEF Continues

(* FlattenSeq puts elements in a row. *)
LEMMA FlattenInRow ==
    ASSUME NEW w \in Nat, NEW n \in Nat, NEW ys \in [1 .. n -> Element(w)]
    PROVE  InRow(FlattenSeq(ys), ys, w, n)
  <1>1. Len(ys) = n /\ ys \in Seq(Element(w))
    BY BytesByIndex
  <1>2. CASE n = 0
    <2>1. FlattenSeq(ys) = ys
      BY <1>1, <1>2 DEF FlattenSeq
    <2>2. ys \in [1 .. 0 -> Byte] /\ n * w = 0
      BY <1>2
    <2>3. QED
      BY <1>2, <2>1, <2>2 DEF InRow
  <1>3. CASE n # 0
    <2> DEFINE Sol(f) == f = [i \in 1 .. Len(ys) |-> IF i = 1 THEN ys[i] ELSE f[i - 1] \o ys[i]]
               F == [k \in 1 .. n - 1 |-> [u \in Seq(Byte) |-> u \o ys[k + 1]]]
               c == CHOOSE f : Sol(f)
    <2>0. n - 1 \in Nat /\ 1 \in 1 .. n
      BY <1>3
    <2>1. \A k \in 1 .. n : ys[k] \in Seq(Byte)
      BY BytesByIndex DEF Element
    <2>2. F \in Turns(Seq(Byte), n - 1)
      <3>1. \A k \in 1 .. n - 1 : ys[k + 1] \in Seq(Byte)
        BY <2>1
      <3>2. QED
        BY <3>1 DEF Turns
    <2>3. PICK g \in [0 .. n - 1 -> Seq(Byte)] : Follows(g, ys[1], F, n - 1)
      <3> HIDE DEF F
      <3> QED
        BY <2>0, <2>1, <2>2, FiniteRecursion
    <2>4. \A k \in 1 .. n - 1 : g[k] = g[k - 1] \o ys[k + 1]
      <3>1. \A k \in 1 .. n - 1 : g[k] = F[k][g[k - 1]] /\ g[k - 1] \in Seq(Byte)
        <4> HIDE DEF F
        <4> QED
          BY <2>3 DEF Follows
      <3>2. QED
        BY <3>1
    <2> DEFINE f == [i \in 1 .. n |-> g[i - 1]]
    <2>5. Sol(f)
      <3>1. \A i \in 1 .. n : f[i] = IF i = 1 THEN ys[i] ELSE f[i - 1] \o ys[i]
        <4> TAKE i \in 1 .. n
        <4>1. CASE i = 1
          BY <2>3, <4>1 DEF Follows
        <4>2. CASE i # 1
          <5>1. i - 1 \in 1 .. n - 1 /\ i - 1 \in 1 .. n /\ (i - 1) + 1 = i
            BY <4>2
          <5>2. g[i - 1] = g[(i - 1) - 1] \o ys[(i - 1) + 1]
            BY <2>4, <5>1
          <5>3. f[i] = g[i - 1] /\ f[i - 1] = g[(i - 1) - 1]
            BY <5>1
          <5>4. QED
            BY <4>2, <5>1, <5>2, <5>3
        <4>3. QED
          BY <4>1, <4>2
      <3>2. DOMAIN f = 1 .. Len(ys) /\ f = [i \in 1 .. Len(ys) |-> f[i]]
        BY <1>1
      <3> HIDE DEF f
      <3>3. QED
        BY <1>1, <3>1, <3>2
    <2>6. Sol(c)
      <3> HIDE DEF f
      <3> QED
        BY <2>5, Zenon
    <2>7. FlattenSeq(ys) = c[n]
      BY <1>1, <1>3 DEF FlattenSeq
    <2> HIDE DEF c
    <2>8. c[1] = ys[1] /\ \A k \in 1 .. n : k # 1 => c[k] = c[k - 1] \o ys[k]
      BY <1>1, <2>0, <2>6
    <2> HIDE DEF Sol, F, f
    <2> DEFINE S == {m \in Nat : m + 1 <= n => InRow(c[m + 1], ys, w, m + 1)}
    <2>9. 0 \in S
      <3>1. c[1] \in [1 .. w -> Byte]
        BY <2>0, <2>8 DEF Element
      <3>2. 1 * w = w /\ \A q \in 1 .. w : (1 - 1) * w + q = q
        OBVIOUS
      <3>3. InRow(c[1], ys, w, 1)
        BY <2>8, <3>1, <3>2 DEF InRow
      <3>4. QED
        BY <3>3
    <2>10. \A m \in Nat : m \in S => m + 1 \in S
      <3> SUFFICES ASSUME NEW m \in Nat, InRow(c[m + 1], ys, w, m + 1), (m + 1) + 1 <= n
                   PROVE  InRow(c[(m + 1) + 1], ys, w, (m + 1) + 1)
        OBVIOUS
      <3> DEFINE j == m + 1
                 e == j * w
                 u == c[j]
                 x == ys[j + 1]
                 s == c[j + 1]
      <3>1. j \in Nat /\ j + 1 \in 1 .. n /\ j + 1 # 1 /\ (j + 1) - 1 = j
        OBVIOUS
      <3>2. e \in Nat
        BY <3>1, ProductInNat
      <3>3. (j + 1) * w = e + w
        OBVIOUS
      <3>4. u \in [1 .. e -> Byte] /\ \A p \in 1 .. j, q \in 1 .. w : u[(p - 1) * w + q] = ys[p][q]
        BY DEF InRow
      <3>5. s = u \o x
        BY <2>8, <3>1
      <3>6. x \in Element(w)
        BY <3>1
      <3> HIDE DEF j, e, u, x, s
      <3>7. s \in [1 .. e + w -> Byte] /\ Continues(s, u, e, e, x, w)
        BY <3>2, <3>4, <3>5, <3>6, ConcatContinues
      <3>8. ASSUME NEW p \in 1 .. j + 1, NEW q \in 1 .. w
            PROVE  s[(p - 1) * w + q] = ys[p][q]
        <4>1. CASE p = j + 1
          <5>1. (p - 1) * w + q = e + q
            BY <3>1, <4>1 DEF e
          <5>2. s[e + q] = x[q]
            BY <3>7 DEF Continues
          <5>3. QED
            BY <4>1, <5>1, <5>2 DEF x
        <4>2. CASE p \in 1 .. j
          <5> DEFINE k == (p - 1) * w + q
          <5>1. k \in 1 .. e
            BY <3>1, <4>2, PositionsFromZero DEF e
          <5>2. u[k] = ys[p][q]
            BY <3>4, <4>2
          <5> HIDE DEF k
          <5>3. s[k] = u[k]
            <6>1. k <= e
              BY <3>2, <5>1
            <6>2. QED
              BY <3>7, <5>1, <6>1, Zenon DEF Continues
          <5>4. QED
            BY <5>2, <5>3 DEF k
        <4>3. p = j + 1 \/ p \in 1 .. j
          BY <3>1
        <4>4. QED
          BY <4>1, <4>2, <4>3, Zenon
      <3>9. InRow(s, ys, w, j + 1)
        BY <3>3, <3>7, <3>8 DEF InRow
      <3>10. QED
        BY <3>9 DEF s, j
    <2>11. n - 1 \in S
      <3> HIDE DEF S
      <3> QED
        BY <2>0, <2>9, <2>10, SetInduction
    <2>12. (n - 1) + 1 = n
      OBVIOUS
    <2>13. QED
      BY <2>7, <2>11, <2>12
  <1>4. QED
    BY <1>2, <1>3


-----------------------------------------------------------------------------

(* Sequences that are made of others, by index. *)

LEMMA ConcatByIndex ==
    ASSUME NEW m \in Nat, NEW n \in Nat, NEW s \in [1 .. m -> Byte], NEW t \in [1 .. n -> Byte]
    PROVE  /\ s \o t \in [1 .. m + n -> Byte]
           /\ \A k \in 1 .. m + n : (s \o t)[k] = IF k <= m THEN s[k] ELSE t[k - m]
  <1>1. s \in Seq(Byte) /\ Len(s) = m /\ t \in Seq(Byte) /\ Len(t) = n
    BY BytesByIndex
  <1>2. s \o t \in Seq(Byte) /\ Len(s \o t) = m + n
    BY <1>1
  <1>3. \A k \in 1 .. m + n : (s \o t)[k] = IF k <= m THEN s[k] ELSE t[k - m]
    BY <1>1
  <1> DEFINE u == s \o t
  <1>4. u \in Seq(Byte) /\ Len(u) = m + n
    BY <1>2
  <1> HIDE DEF u
  <1>5. u \in [1 .. m + n -> Byte]
    BY <1>4
  <1>6. QED
    BY <1>3, <1>5 DEF u

LEMMA PartByIndex ==
    ASSUME NEW n \in Nat, NEW s \in [1 .. n -> Byte], NEW i \in 0 .. n, NEW j \in i .. n
    PROVE  /\ SubSeq(s, i + 1, j) \in [1 .. j - i -> Byte]
           /\ \A k \in 1 .. j - i : SubSeq(s, i + 1, j)[k] = s[i + k]
  <1>1. s \in Seq(Byte) /\ Len(s) = n
    BY BytesByIndex
  <1> DEFINE u == SubSeq(s, i + 1, j)
  <1>2. u \in Seq(Byte) /\ Len(u) = j - i
    BY <1>1
  <1>3. \A k \in 1 .. j - i : u[k] = s[i + k]
    BY <1>1
  <1> HIDE DEF u
  <1>4. u \in [1 .. j - i -> Byte]
    BY <1>2
  <1>5. QED
    BY <1>3, <1>4 DEF u

(* The sequence with y in the place of its part from i to j. *)
Spliced(s, i, j, n, y) == SubSeq(s, 1, i) \o y \o SubSeq(s, j + 1, n)

LEMMA SplicedByIndex ==
    ASSUME NEW n \in Nat, NEW s \in [1 .. n -> Byte], NEW i \in 0 .. n, NEW j \in i .. n,
           NEW m \in Nat, NEW y \in [1 .. m -> Byte]
    PROVE  LET t == Spliced(s, i, j, n, y)
           IN  /\ t \in [1 .. i + m + (n - j) -> Byte]
               /\ \A k \in 1 .. i + m + (n - j) :
                     t[k] = IF k <= i THEN s[k] ELSE IF k <= i + m THEN y[k - i]
                            ELSE s[(k - (i + m)) + j]
  <1> DEFINE a == SubSeq(s, 1, i)
             b == SubSeq(s, j + 1, n)
             d == a \o y
  <1>1. a \in [1 .. i -> Byte] /\ \A k \in 1 .. i : a[k] = s[k]
    <2>1. 0 \in 0 .. n /\ i \in 0 .. n /\ 0 + 1 = 1 /\ i - 0 = i /\ \A k \in 1 .. i : 0 + k = k
      OBVIOUS
    <2>2. SubSeq(s, 0 + 1, i) \in [1 .. i - 0 -> Byte]
          /\ \A k \in 1 .. i - 0 : SubSeq(s, 0 + 1, i)[k] = s[0 + k]
      BY <2>1, PartByIndex
    <2>3. QED
      BY <2>1, <2>2
  <1>2. b \in [1 .. n - j -> Byte] /\ \A k \in 1 .. n - j : b[k] = s[j + k]
    <2>1. j \in 0 .. n /\ n \in j .. n
      OBVIOUS
    <2>2. QED
      BY <2>1, PartByIndex
  <1> HIDE DEF a, b
  <1>3. d \in [1 .. i + m -> Byte]
        /\ \A k \in 1 .. i + m : d[k] = IF k <= i THEN a[k] ELSE y[k - i]
    <2>1. i \in Nat
      OBVIOUS
    <2>2. QED
      BY <1>1, <2>1, ConcatByIndex
  <1> HIDE DEF d
  <1>4. /\ d \o b \in [1 .. (i + m) + (n - j) -> Byte]
        /\ \A k \in 1 .. (i + m) + (n - j) :
              (d \o b)[k] = IF k <= i + m THEN d[k] ELSE b[k - (i + m)]
    <2>1. i + m \in Nat /\ n - j \in Nat
      OBVIOUS
    <2>2. QED
      BY <1>2, <1>3, <2>1, ConcatByIndex
  <1> DEFINE t == d \o b
  <1>5. Spliced(s, i, j, n, y) = t
    BY DEF Spliced, a, b, d
  <1> HIDE DEF t
  <1>6. ASSUME NEW k \in 1 .. i + m + (n - j)
        PROVE  t[k] = IF k <= i THEN s[k] ELSE IF k <= i + m THEN y[k - i]
                      ELSE s[(k - (i + m)) + j]
    <2>1. t[k] = IF k <= i + m THEN d[k] ELSE b[k - (i + m)]
      BY <1>4 DEF t
    <2>2. CASE k <= i + m
      <3>1. k \in 1 .. i + m
        BY <2>2
      <3>2. d[k] = IF k <= i THEN a[k] ELSE y[k - i]
        BY <1>3, <3>1
      <3>3. k <= i => a[k] = s[k]
        BY <1>1
      <3>4. QED
        BY <2>1, <2>2, <3>2, <3>3
    <2>3. CASE k > i + m
      <3>1. k - (i + m) \in 1 .. n - j /\ j + (k - (i + m)) = (k - (i + m)) + j
        BY <2>3
      <3>2. b[k - (i + m)] = s[j + (k - (i + m))]
        BY <1>2, <3>1
      <3>3. ~(k <= i) /\ ~(k <= i + m)
        BY <2>3
      <3>4. QED
        BY <2>1, <3>1, <3>2, <3>3
    <2>4. QED
      BY <2>2, <2>3
  <1>7. QED
    BY <1>4, <1>5, <1>6 DEF t


-----------------------------------------------------------------------------

(* The operations, on a vector v of an interval of S bytes.  Each one leaves a
   vector that is no longer than the interval, and the array it stands for is
   the one the operation promises. *)

Fits(v, S) == v \in Seq(Byte) /\ S \in Nat /\ Len(v) <= S

LEMMA ShortenedFits ==
    ASSUME NEW v \in Seq(Byte), NEW n \in Nat
    PROVE  /\ Fits(shortened(v, n), n)
           /\ Len(v) <= n => shortened(v, n) = v
  BY ResizeType DEF shortened, Fits

LEMMA SetSizeResizes ==
    ASSUME NEW v, NEW S, Fits(v, S), NEW n \in Nat
    PROVE  resize(shortened(v, n), n) =
               [k \in 1 .. n |-> IF k <= Len(resize(v, S)) THEN resize(v, S)[k] ELSE 0]
  <1> USE DEF Fits
  <1> DEFINE c == resize(v, S)
             u == shortened(v, n)
  <1>1. Len(c) = S /\ \A k \in 1 .. S : c[k] = IF k <= Len(v) THEN v[k] ELSE 0
    BY ResizeType
  <1>2. u \in Seq(Byte) /\ u = IF n < Len(v) THEN resize(v, n) ELSE v
    BY ShortenedFits DEF shortened
  <1> HIDE DEF c, u
  <1>3. \A k \in 1 .. n : (IF k <= Len(u) THEN u[k] ELSE 0) = IF k <= Len(c) THEN c[k] ELSE 0
    <2> TAKE k \in 1 .. n
    <2>1. CASE n < Len(v)
      <3>1. Len(u) = n /\ u[k] = IF k <= Len(v) THEN v[k] ELSE 0
        BY <1>2, <2>1, ResizeType
      <3>2. k <= S /\ k <= Len(v) /\ k \in 1 .. S
        BY <2>1
      <3>3. QED
        BY <1>1, <3>1, <3>2
    <2>2. CASE ~(n < Len(v))
      BY <1>1, <1>2, <2>2
    <2>3. QED
      BY <2>1, <2>2
  <1>4. QED
    BY <1>3 DEF c, u, resize

LEMMA SetInitializedSizeForgets ==
    ASSUME NEW v, NEW S, Fits(v, S), NEW n \in Nat
    PROVE  /\ Fits(resize(v, n), Max({S, n}))
           /\ resize(resize(v, n), Max({S, n})) =
                 [k \in 1 .. (IF n > Len(resize(v, S)) THEN n ELSE Len(resize(v, S))) |->
                     IF k <= n /\ k <= Len(resize(v, S)) THEN resize(v, S)[k] ELSE 0]
  <1> USE DEF Fits
  <1> DEFINE c == resize(v, S)
             u == resize(v, n)
             l == IF n > S THEN n ELSE S
  <1>1. Len(c) = S /\ \A k \in 1 .. S : c[k] = IF k <= Len(v) THEN v[k] ELSE 0
    BY ResizeType
  <1>2. u \in Seq(Byte) /\ Len(u) = n
        /\ \A k \in 1 .. n : u[k] = IF k <= Len(v) THEN v[k] ELSE 0
    BY ResizeType
  <1>3. Max({S, n}) = l
    BY MaxOfTwo
  <1> HIDE DEF c, u
  <1>4. \A k \in 1 .. l : (IF k <= Len(u) THEN u[k] ELSE 0)
                              = IF k <= n /\ k <= Len(c) THEN c[k] ELSE 0
    <2> TAKE k \in 1 .. l
    <2>1. CASE k <= n
      <3>1. k \in 1 .. n /\ (k <= S => k \in 1 .. S)
        BY <2>1
      <3>2. QED
        BY <1>1, <1>2, <2>1, <3>1
    <2>2. CASE ~(k <= n)
      BY <1>2, <2>2
    <2>3. QED
      BY <2>1, <2>2
  <1>5. Len(u) <= l /\ l \in Nat
    BY <1>2
  <1>6. resize(u, l) = [k \in 1 .. l |-> IF k <= n /\ k <= Len(c) THEN c[k] ELSE 0]
    BY <1>4 DEF resize
  <1>7. QED
    BY <1>1, <1>2, <1>3, <1>5, <1>6 DEF c, u

LEMMA WriteOverwrites ==
    ASSUME NEW v, NEW S, Fits(v, S), NEW i \in Nat, NEW w \in Nat, i + w <= S,
           NEW x \in Element(w), NEW flip \in BOOLEAN
    PROVE  /\ Fits(stored(v, i, x, flip), S)
           /\ resize(stored(v, i, x, flip), S) =
                 Spliced(resize(v, S), i, i + w, S, endian_flip(x, flip))
  <1> USE DEF Fits
  <1> DEFINE c == resize(v, S)
             u == stored(v, i, x, flip)
             l == GrownLen(v, i, w)
             y == endian_flip(x, flip)
             t == Spliced(c, i, i + w, S, y)
  <1>1. c \in [1 .. S -> Byte] /\ \A k \in 1 .. S : c[k] = IF k <= Len(v) THEN v[k] ELSE 0
    BY ResizeType
  <1>2. l \in Nat /\ l <= S /\ l >= i + w /\ l >= Len(v)
    BY DEF GrownLen
  <1>3. /\ u \in [1 .. l -> Byte]
        /\ \A k \in 1 .. l : u[k] = IF k > i /\ k <= i + w THEN y[k - i]
                                    ELSE IF k <= Len(v) THEN v[k] ELSE 0
    BY StoredType
  <1>4. y \in [1 .. w -> Byte]
    BY FlipType DEF Element
  <1> HIDE DEF c, u, l, y
  <1>5. u \in Seq(Byte) /\ Len(u) = l
    BY <1>2, <1>3, BytesByIndex
  <1>6. /\ t \in [1 .. S -> Byte]
        /\ \A k \in 1 .. S : t[k] = IF k <= i THEN c[k] ELSE IF k <= i + w THEN y[k - i] ELSE c[k]
    <2>1. i \in 0 .. S /\ i + w \in i .. S /\ i + w + (S - (i + w)) = S
          /\ \A k \in 1 .. S : (k - (i + w)) + (i + w) = k
      OBVIOUS
    <2>2. /\ t \in [1 .. i + w + (S - (i + w)) -> Byte]
          /\ \A k \in 1 .. i + w + (S - (i + w)) :
                t[k] = IF k <= i THEN c[k] ELSE IF k <= i + w THEN y[k - i]
                       ELSE c[(k - (i + w)) + (i + w)]
      BY <1>1, <1>4, <2>1, SplicedByIndex
    <2> HIDE DEF t
    <2>3. QED
      BY <2>1, <2>2
  <1> HIDE DEF t
  <1>7. resize(u, S) \in [1 .. S -> Byte]
        /\ \A k \in 1 .. S : resize(u, S)[k] = IF k <= l THEN u[k] ELSE 0
    BY <1>5, ResizeType
  <1>8. \A k \in 1 .. S : resize(u, S)[k] = t[k]
    <2> TAKE k \in 1 .. S
    <2>1. CASE k <= l
      <3>1. k \in 1 .. l
        BY <2>1, <1>2
      <3>2. u[k] = IF k > i /\ k <= i + w THEN y[k - i] ELSE IF k <= Len(v) THEN v[k] ELSE 0
        BY <1>3, <3>1
      <3>3. QED
        BY <1>1, <1>6, <1>7, <2>1, <3>2
    <2>2. CASE ~(k <= l)
      BY <1>1, <1>2, <1>6, <1>7, <2>2
    <2>3. QED
      BY <2>1, <2>2
  <1>9. resize(u, S) = t
    BY <1>6, <1>7, <1>8, SameBytes
  <1>10. QED
    BY <1>2, <1>5, <1>9 DEF c, u, t, y


(* What insertBytes copies the elements into: the vector with room for N bytes
   at i, if that is before its end. *)
Opened(v, i, N) ==
    IF i < Len(v) THEN SubSeq(v, 1, i) \o Zeros(N) \o SubSeq(v, i + 1, Len(v)) ELSE v

LEMMA OpenedByIndex ==
    ASSUME NEW v \in Seq(Byte), NEW i \in Nat, NEW N \in Nat
    PROVE  /\ Opened(v, i, N) \in Seq(Byte)
           /\ Len(Opened(v, i, N)) = IF i < Len(v) THEN Len(v) + N ELSE Len(v)
           /\ \A k \in 1 .. Len(v) : k <= i => Opened(v, i, N)[k] = v[k]
           /\ \A k \in 1 .. Len(v) : k > i => Opened(v, i, N)[k + N] = v[k]
  <1> DEFINE t == Opened(v, i, N)
  <1>1. CASE i < Len(v)
    <2>1. Zeros(N) \in [1 .. N -> Byte]
      BY ByteAssumption DEF Zeros
    <2>2. t = Spliced(v, i, i, Len(v), Zeros(N))
      BY <1>1 DEF Opened, Spliced
    <2>3. Len(v) \in Nat /\ v \in [1 .. Len(v) -> Byte] /\ i \in 0 .. Len(v) /\ i \in i .. Len(v)
      BY <1>1
    <2>4. /\ t \in [1 .. i + N + (Len(v) - i) -> Byte]
          /\ \A k \in 1 .. i + N + (Len(v) - i) :
                t[k] = IF k <= i THEN v[k] ELSE IF k <= i + N THEN Zeros(N)[k - i]
                       ELSE v[(k - (i + N)) + i]
      BY <2>1, <2>2, <2>3, SplicedByIndex
    <2> HIDE DEF t
    <2>5. i + N + (Len(v) - i) = Len(v) + N
      BY <2>3
    <2>6. t \in Seq(Byte) /\ Len(t) = Len(v) + N
      <3>1. t \in [1 .. Len(v) + N -> Byte] /\ Len(v) + N \in Nat
        BY <2>3, <2>4, <2>5
      <3>2. QED
        BY <3>1, BytesByIndex
    <2>7. ASSUME NEW k \in 1 .. Len(v), k <= i
          PROVE  t[k] = v[k]
      <3>1. k \in 1 .. i + N + (Len(v) - i)
        BY <2>3, <2>5
      <3>2. QED
        BY <2>4, <2>7, <3>1
    <2>8. ASSUME NEW k \in 1 .. Len(v), k > i
          PROVE  t[k + N] = v[k]
      <3>1. k + N \in 1 .. i + N + (Len(v) - i) /\ ~(k + N <= i) /\ ~(k + N <= i + N)
            /\ ((k + N) - (i + N)) + i = k
        BY <2>3, <2>5, <2>8
      <3>2. QED
        BY <2>4, <3>1
    <2>9. QED
      BY <1>1, <2>6, <2>7, <2>8 DEF t
  <1>2. CASE ~(i < Len(v))
    BY <1>2 DEF Opened
  <1>3. QED
    BY <1>1, <1>2

Flipped(xs, flip, n) == [k \in 1 .. n |-> endian_flip(xs[k], flip)]

LEMMA FlippedType ==
    ASSUME NEW w \in Nat, NEW n \in Nat, NEW xs \in [1 .. n -> Element(w)], NEW flip \in BOOLEAN
    PROVE  Flipped(xs, flip, n) \in [1 .. n -> Element(w)]
  <1>1. \A k \in 1 .. n : endian_flip(xs[k], flip) \in Element(w)
    <2> TAKE k \in 1 .. n
    <2>1. xs[k] \in Element(w)
      OBVIOUS
    <2>2. QED
      BY <2>1, FlipType DEF Element
  <1>2. QED
    BY <1>1 DEF Flipped

(* The bytes behind i are those of the elements, in a row. *)
LEMMA CopiedRow ==
    ASSUME NEW v \in Seq(Byte), NEW i \in Nat, NEW w \in Nat \ {0}, NEW n \in Nat,
           NEW xs \in [1 .. n -> Element(w)], NEW flip \in BOOLEAN, NEW k \in 1 .. n * w
    PROVE  copied(v, i, xs, w, flip)[i + k] = FlattenSeq(Flipped(xs, flip, n))[k]
  <1>1. PICK p \in 1 .. n, q \in 1 .. w : k = (p - 1) * w + q
    BY ElementAtPosition
  <1>2. copied(v, i, xs, w, flip)[i + (p - 1) * w + q] = endian_flip(xs[p], flip)[q]
    <2>1. Placed(copied(v, i, xs, w, flip), i, xs, w, flip, n)
      BY CopiedBytes
    <2>2. QED
      BY <2>1, Zenon DEF Placed
  <1>3. FlattenSeq(Flipped(xs, flip, n))[(p - 1) * w + q] = Flipped(xs, flip, n)[p][q]
    <2>1. InRow(FlattenSeq(Flipped(xs, flip, n)), Flipped(xs, flip, n), w, n)
      BY FlippedType, FlattenInRow
    <2>2. QED
      BY <2>1, Zenon DEF InRow
  <1>4. Flipped(xs, flip, n)[p] = endian_flip(xs[p], flip)
    BY DEF Flipped
  <1>5. i + (p - 1) * w + q = i + k
    <2> DEFINE a == (p - 1) * w
    <2>1. a \in Nat
      BY PositionsFromZero
    <2>2. k = a + q
      BY <1>1
    <2> HIDE DEF a
    <2>3. i + a + q = i + k
      BY <2>1, <2>2
    <2>4. QED
      BY <2>3 DEF a
  <1>6. QED
    BY <1>1, <1>2, <1>3, <1>4, <1>5, Zenon


LEMMA InsertInserts ==
    ASSUME NEW v, NEW S, Fits(v, S), NEW i \in Nat, i <= S, NEW w \in Nat \ {0}, NEW n \in Nat,
           NEW xs \in [1 .. n -> Element(w)], NEW flip \in BOOLEAN
    PROVE  LET N == n * w
               u == copied(Opened(v, i, N), i, xs, w, flip)
               y == FlattenSeq(Flipped(xs, flip, n))
           IN  /\ Fits(u, S + N)
               /\ y \in [1 .. N -> Byte]
               /\ resize(u, S + N) = Spliced(resize(v, S), i, i, S, y)
  <1> DEFINE N == n * w
             o == Opened(v, i, N)
             u == copied(o, i, xs, w, flip)
             y == FlattenSeq(Flipped(xs, flip, n))
             c == resize(v, S)
             t == Spliced(c, i, i, S, y)
             l == CopiedLen(o, i, n, w)
  <1>0. v \in Seq(Byte) /\ S \in Nat /\ Len(v) \in Nat /\ Len(v) <= S
    BY DEF Fits
  <1>1. N \in Nat /\ (n = 0 => N = 0)
    BY ProductInNat
  <1>2. y \in [1 .. N -> Byte]
    BY FlippedType, FlattenInRow DEF InRow
  <1>3. l = IF n = 0 \/ Len(o) >= i + N THEN Len(o) ELSE i + N
    BY DEF CopiedLen
  <1>4. /\ u \in [1 .. l -> Byte]
        /\ \A k \in 1 .. l : k <= i \/ k > i + N => u[k] = IF k <= Len(o) THEN o[k] ELSE 0
    <2>1. o \in Seq(Byte) /\ w \in Nat
      BY <1>0, <1>1, OpenedByIndex
    <2> HIDE DEF o
    <2>2. CopiedUpTo(u, l, o, i, i + n * w)
      BY <2>1, CopiedBytes
    <2> HIDE DEF u, l
    <2>3. QED
      BY <2>2 DEF CopiedUpTo
  <1>5. \A k \in 1 .. N : u[i + k] = y[k]
    <2>1. o \in Seq(Byte)
      BY <1>0, <1>1, OpenedByIndex
    <2> HIDE DEF o
    <2>2. QED
      BY <2>1, CopiedRow
  <1> HIDE DEF N
  <1>6. /\ o \in Seq(Byte)
        /\ Len(o) = IF i < Len(v) THEN Len(v) + N ELSE Len(v)
        /\ \A k \in 1 .. Len(v) : k <= i => o[k] = v[k]
        /\ \A k \in 1 .. Len(v) : k > i => o[k + N] = v[k]
    BY <1>0, <1>1, OpenedByIndex
  <1>7. c \in [1 .. S -> Byte] /\ \A k \in 1 .. S : c[k] = IF k <= Len(v) THEN v[k] ELSE 0
    BY <1>0, ResizeType
  <1> HIDE DEF o, u, y, c, l
  <1>8. l \in Nat /\ l <= S + N /\ l >= Len(o) /\ (N > 0 => l >= i + N)
    <2>1. Len(o) \in Nat /\ Len(o) <= S + N
      BY <1>0, <1>1, <1>6
    <2>2. QED
      BY <1>0, <1>1, <1>3, <2>1
  <1>9. u \in Seq(Byte) /\ Len(u) = l
    BY <1>4, <1>8, BytesByIndex
  <1>10. /\ t \in [1 .. S + N -> Byte]
         /\ \A k \in 1 .. S + N :
               t[k] = IF k <= i THEN c[k] ELSE IF k <= i + N THEN y[k - i] ELSE c[k - N]
    <2>0. i \in 0 .. S /\ i \in i .. S /\ S \in Nat /\ N \in Nat /\ c \in [1 .. S -> Byte]
      BY <1>0, <1>1, <1>7
    <2>1. i + N + (S - i) = S + N /\ \A k \in 1 .. S + N : (k - (i + N)) + i = k - N
      BY <1>0, <1>1
    <2>2. /\ t \in [1 .. i + N + (S - i) -> Byte]
          /\ \A k \in 1 .. i + N + (S - i) :
                t[k] = IF k <= i THEN c[k] ELSE IF k <= i + N THEN y[k - i]
                       ELSE c[(k - (i + N)) + i]
      BY <1>2, <2>0, SplicedByIndex
    <2> HIDE DEF t
    <2>3. QED
      BY <2>1, <2>2
  <1> HIDE DEF t
  <1>11. S + N \in Nat /\ resize(u, S + N) \in [1 .. S + N -> Byte]
         /\ \A k \in 1 .. S + N : resize(u, S + N)[k] = IF k <= l THEN u[k] ELSE 0
    <2>1. S + N \in Nat
      BY <1>0, <1>1
    <2>2. QED
      BY <1>9, <2>1, ResizeType
  <1>12. ASSUME NEW k \in 1 .. S + N
         PROVE  resize(u, S + N)[k] = t[k]
    <2>1. CASE k <= i
      <3>1. k \in 1 .. S /\ Len(o) \in Nat /\ (k <= Len(o) <=> k <= Len(v))
        BY <1>0, <1>1, <1>6, <2>1
      <3>2. k <= l => u[k] = IF k <= Len(o) THEN o[k] ELSE 0
        BY <1>4, <1>8, <2>1
      <3>3. k <= Len(v) => o[k] = v[k] /\ k <= l
        BY <1>0, <1>6, <1>8, <2>1, <3>1
      <3>4. t[k] = IF k <= Len(v) THEN v[k] ELSE 0
        BY <1>7, <1>10, <2>1, <3>1
      <3>5. QED
        BY <1>11, <3>1, <3>2, <3>3, <3>4
    <2>2. CASE k > i /\ k <= i + N
      <3>1. k - i \in 1 .. N /\ i + (k - i) = k /\ N > 0 /\ ~(k <= i)
        BY <1>1, <2>2
      <3>2. u[k] = y[k - i]
        BY <1>5, <3>1
      <3>3. k <= l
        BY <1>0, <1>1, <1>8, <2>2, <3>1
      <3>4. QED
        BY <1>10, <1>11, <2>2, <3>1, <3>2, <3>3
    <2>3. CASE k > i + N
      <3>1. ~(k <= i) /\ ~(k <= i + N) /\ k - N \in 1 .. S /\ k - N > i /\ (k - N) + N = k
        BY <1>0, <1>1, <2>3
      <3>2. t[k] = IF k - N <= Len(v) THEN v[k - N] ELSE 0
        BY <1>7, <1>10, <3>1
      <3>3. k <= l => u[k] = IF k <= Len(o) THEN o[k] ELSE 0
        BY <1>4, <1>8, <2>3
      <3>4. k <= Len(o) <=> k - N <= Len(v)
        BY <1>0, <1>1, <1>6, <3>1
      <3>5. k - N <= Len(v) => o[k] = v[k - N]
        <4>1. k - N <= Len(v) => k - N \in 1 .. Len(v)
          BY <1>0, <1>1, <3>1
        <4>2. QED
          BY <1>6, <3>1, <4>1
      <3>6. k <= Len(o) => k <= l
        BY <1>0, <1>1, <1>6, <1>8
      <3>7. QED
        BY <1>11, <3>2, <3>3, <3>4, <3>5, <3>6
    <2>4. QED
      BY <1>0, <1>1, <2>1, <2>2, <2>3
  <1>13. resize(u, S + N) = t
    BY <1>10, <1>11, <1>12, SameBytes
  <1>14. Fits(u, S + N)
    BY <1>8, <1>9, <1>11 DEF Fits
  <1>15. QED
    BY <1>2, <1>13, <1>14 DEF N, o, u, y, c, t


(* Cutting out the part from i to j. *)
Cut(s, i, j, n) == SubSeq(s, 1, i) \o SubSeq(s, j + 1, n)

LEMMA CutByIndex ==
    ASSUME NEW n \in Nat, NEW s \in [1 .. n -> Byte], NEW i \in 0 .. n, NEW j \in i .. n
    PROVE  /\ Cut(s, i, j, n) \in [1 .. n - (j - i) -> Byte]
           /\ \A k \in 1 .. n - (j - i) :
                 Cut(s, i, j, n)[k] = IF k <= i THEN s[k] ELSE s[k + (j - i)]
  <1> DEFINE t == Spliced(s, i, j, n, <<>>)
  <1>1. 0 \in Nat /\ <<>> \in [1 .. 0 -> Byte]
    OBVIOUS
  <1>2. /\ t \in [1 .. i + 0 + (n - j) -> Byte]
        /\ \A k \in 1 .. i + 0 + (n - j) :
              t[k] = IF k <= i THEN s[k] ELSE IF k <= i + 0 THEN <<>>[k - i]
                     ELSE s[(k - (i + 0)) + j]
    BY <1>1, SplicedByIndex
  <1>3. Cut(s, i, j, n) = t
    <2> DEFINE a == SubSeq(s, 1, i)
    <2>1. s \in Seq(Byte) /\ Len(s) = n
      BY BytesByIndex
    <2>2. a \in Seq(Byte)
      BY <2>1
    <2> HIDE DEF a
    <2>3. a \o <<>> = a
      BY <2>2
    <2>4. QED
      BY <2>3 DEF a, Cut, Spliced
  <1> HIDE DEF t
  <1>4. i + 0 + (n - j) = n - (j - i)
    OBVIOUS
  <1>5. \A k \in 1 .. n - (j - i) : (k - (i + 0)) + j = k + (j - i) /\ (k <= i + 0 <=> k <= i)
    OBVIOUS
  <1>6. QED
    BY <1>2, <1>3, <1>4, <1>5

LEMMA EraseErases ==
    ASSUME NEW v, NEW S, Fits(v, S), NEW i \in Nat, NEW j \in Nat, i <= j, j <= S
    PROVE  LET u == IF i < Len(v)
                    THEN SubSeq(v, 1, i) \o SubSeq(v, Min({j, Len(v)}) + 1, Len(v))
                    ELSE v
           IN  /\ u \in Seq(Byte)
               /\ Fits(shortened(u, S - (j - i)), S - (j - i))
               /\ resize(shortened(u, S - (j - i)), S - (j - i)) = Cut(resize(v, S), i, j, S)
  <1> DEFINE h == IF j <= Len(v) THEN j ELSE Len(v)
             u == IF i < Len(v) THEN SubSeq(v, 1, i) \o SubSeq(v, Min({j, Len(v)}) + 1, Len(v))
                                ELSE v
             R == S - (j - i)
             c == resize(v, S)
             t == Cut(c, i, j, S)
  <1>0. v \in Seq(Byte) /\ v \in [1 .. Len(v) -> Byte] /\ S \in Nat /\ Len(v) \in Nat
        /\ Len(v) <= S /\ R \in Nat /\ i <= R
    BY DEF Fits
  <1>1. Min({j, Len(v)}) = h
    BY <1>0, MinOfTwo
  <1>2. i < Len(v) => h \in i .. Len(v) /\ i \in 0 .. Len(v)
    BY <1>0
  <1>3. i < Len(v) => u = Cut(v, i, h, Len(v))
    BY <1>1 DEF Cut
  <1>4. ~(i < Len(v)) => u = v
    OBVIOUS
  <1> HIDE DEF u
  <1>5. i < Len(v) => /\ u \in [1 .. Len(v) - (h - i) -> Byte]
                      /\ \A k \in 1 .. Len(v) - (h - i) :
                            u[k] = IF k <= i THEN v[k] ELSE v[k + (h - i)]
    <2> SUFFICES ASSUME i < Len(v)
                 PROVE  /\ u \in [1 .. Len(v) - (h - i) -> Byte]
                        /\ \A k \in 1 .. Len(v) - (h - i) :
                              u[k] = IF k <= i THEN v[k] ELSE v[k + (h - i)]
      OBVIOUS
    <2>1. Len(v) \in Nat /\ v \in [1 .. Len(v) -> Byte] /\ h \in i .. Len(v) /\ i \in 0 .. Len(v)
      BY <1>0, <1>2
    <2>2. u = Cut(v, i, h, Len(v))
      BY <1>3
    <2> HIDE DEF h
    <2>3. QED
      BY <2>1, <2>2, CutByIndex
  <1>6. u \in Seq(Byte) /\ Len(u) = IF i < Len(v) THEN Len(v) - (h - i) ELSE Len(v)
    <2>1. i < Len(v) => Len(v) - (h - i) \in Nat
      BY <1>0, <1>2
    <2> HIDE DEF h
    <2>2. QED
      BY <1>0, <1>4, <1>5, <2>1, BytesByIndex
  <1>7. Len(u) <= R
    <2>1. CASE i < Len(v) /\ j <= Len(v)
      BY <1>0, <1>6, <2>1
    <2>2. CASE i < Len(v) /\ ~(j <= Len(v))
      <3>1. Len(u) = i
        BY <1>0, <1>6, <2>2
      <3>2. QED
        BY <1>0, <3>1
    <2>3. CASE ~(i < Len(v))
      <3>1. Len(u) = Len(v) /\ Len(v) <= i
        BY <1>0, <1>6, <2>3
      <3>2. QED
        BY <1>0, <3>1
    <2>4. QED
      BY <2>1, <2>2, <2>3
  <1>8. shortened(u, R) = u
    <2> HIDE DEF R
    <2> QED
      BY <1>0, <1>6, <1>7, ShortenedFits
  <1>9. c \in [1 .. S -> Byte] /\ \A k \in 1 .. S : c[k] = IF k <= Len(v) THEN v[k] ELSE 0
    BY <1>0, ResizeType
  <1>10. resize(u, R) \in [1 .. R -> Byte]
         /\ \A k \in 1 .. R : resize(u, R)[k] = IF k <= Len(u) THEN u[k] ELSE 0
    <2> HIDE DEF R
    <2> QED
      BY <1>0, <1>6, ResizeType
  <1> HIDE DEF c
  <1>11. /\ t \in [1 .. R -> Byte]
         /\ \A k \in 1 .. R : t[k] = IF k <= i THEN c[k] ELSE c[k + (j - i)]
    <2>1. i \in 0 .. S /\ j \in i .. S /\ S \in Nat /\ c \in [1 .. S -> Byte]
      BY <1>0, <1>9
    <2>2. QED
      BY <2>1, CutByIndex
  <1> HIDE DEF t
  <1>12. ASSUME NEW k \in 1 .. R
         PROVE  resize(u, R)[k] = t[k]
    <2>0. k \in Nat /\ k <= R /\ k >= 1
      BY <1>0
    <2>1. CASE k <= i
      <3>1. k \in 1 .. S /\ (k <= Len(u) <=> k <= Len(v))
        BY <1>0, <1>2, <1>6, <2>0, <2>1
      <3>2. k <= Len(u) => u[k] = v[k]
        <4>1. CASE i < Len(v)
          <5>1. k <= Len(u) => k \in 1 .. Len(v) - (h - i)
            BY <1>0, <1>6, <4>1, <2>0
          <5>2. QED
            BY <1>5, <2>1, <4>1, <5>1
        <4>2. CASE ~(i < Len(v))
          BY <1>4, <4>2
        <4>3. QED
          BY <4>1, <4>2
      <3>3. t[k] = IF k <= Len(v) THEN v[k] ELSE 0
        BY <1>9, <1>11, <2>1, <3>1
      <3>4. QED
        BY <1>10, <3>1, <3>2, <3>3
    <2>2. CASE k > i
      <3>1. k + (j - i) \in 1 .. S /\ ~(k <= i)
        BY <1>0, <2>0, <2>2
      <3>2. t[k] = IF k + (j - i) <= Len(v) THEN v[k + (j - i)] ELSE 0
        BY <1>9, <1>11, <3>1
      <3>3. k <= Len(u) <=> k + (j - i) <= Len(v)
        BY <1>0, <1>2, <1>6, <2>0, <2>2
      <3>4. k <= Len(u) => u[k] = v[k + (j - i)]
        <4> SUFFICES ASSUME k <= Len(u)
                     PROVE  u[k] = v[k + (j - i)]
          OBVIOUS
        <4>0. k + (j - i) <= Len(v)
          BY <3>3
        <4>1. i < Len(v) /\ j <= Len(v)
          BY <1>0, <2>0, <2>2, <4>0
        <4>2. h = j /\ k \in 1 .. Len(v) - (h - i)
          BY <1>0, <2>0, <4>0, <4>1
        <4> HIDE DEF h
        <4>3. QED
          BY <1>5, <3>1, <4>1, <4>2
      <3>5. QED
        BY <1>10, <3>2, <3>3, <3>4
    <2>3. QED
      BY <2>0, <2>1, <2>2
  <1>13. resize(u, R) = t
    <2> HIDE DEF R
    <2> QED
      BY <1>0, <1>10, <1>11, <1>12, SameBytes
  <1>14. Fits(u, R)
    BY <1>0, <1>6, <1>7 DEF Fits
  <1>15. QED
    BY <1>6, <1>8, <1>13, <1>14 DEF u, c, t


-----------------------------------------------------------------------------

(* Reading. *)

LEMMA FlippedZeros ==
    ASSUME NEW w \in Nat, NEW flip \in BOOLEAN
    PROVE  endian_flip(Zeros(w), flip) = Zeros(w)
  <1>1. Zeros(w) \in Seq({0}) /\ Len(Zeros(w)) = w
    <2>1. Zeros(w) \in [1 .. w -> {0}]
      BY DEF Zeros
    <2>2. QED
      BY <2>1, BytesByIndex
  <1>2. Reverse(Zeros(w)) = [k \in 1 .. w |-> Zeros(w)[(w - k) + 1]]
    BY <1>1 DEF Reverse
  <1>3. \A k \in 1 .. w : Zeros(w)[(w - k) + 1] = 0
    BY DEF Zeros
  <1>4. Reverse(Zeros(w)) = Zeros(w)
    BY <1>2, <1>3 DEF Zeros
  <1>5. QED
    BY <1>4 DEF endian_flip

(* The three cases of a read see the same array. *)
LEMMA ReadSeesTheArray ==
    ASSUME TypeOK, NEW w \in Nat, NEW flip \in BOOLEAN, NEW i \in Nat, i + w <= Size
    PROVE  /\ SubSeq(Content, i + 1, i + w) \in [1 .. w -> Byte]
           /\ \A k \in 1 .. w : SubSeq(Content, i + 1, i + w)[k] = Content[i + k]
           /\ read(i, w, flip) = endian_flip(SubSeq(Content, i + 1, i + w), flip)
  <1> DEFINE v == Bytes
             c == Content
             part == SubSeq(c, i + 1, i + w)
  <1>1. v \in Seq(Byte) /\ Len(v) \in Nat /\ v \in [1 .. Len(v) -> Byte] /\ Size \in Nat
        /\ Len(v) <= Size
    BY ByteAssumption DEF TypeOK
  <1>2. c \in [1 .. Size -> Byte]
        /\ \A k \in 1 .. Size : c[k] = IF k <= Len(v) THEN v[k] ELSE 0
    BY <1>1, ResizeType DEF Content
  <1>3. part \in [1 .. w -> Byte] /\ \A k \in 1 .. w : part[k] = c[i + k]
    <2>1. i \in 0 .. Size /\ i + w \in i .. Size /\ (i + w) - i = w
      BY <1>1
    <2> HIDE DEF c
    <2>2. QED
      BY <1>1, <1>2, <2>1, PartByIndex
  <1>4. \A k \in 1 .. w : part[k] = IF i + k <= Len(v) THEN v[i + k] ELSE 0
    <2>1. \A k \in 1 .. w : i + k \in 1 .. Size
      BY <1>1
    <2> HIDE DEF c, part
    <2>2. QED
      BY <1>2, <1>3, <2>1
  <1> HIDE DEF part, v, c
  <1>5. CASE i >= Len(v)
    <2>1. \A k \in 1 .. w : ~(i + k <= Len(v))
      BY <1>1, <1>5
    <2>2. part = Zeros(w)
      BY <1>3, <1>4, <2>1 DEF Zeros
    <2>3. read(i, w, flip) = Zeros(w)
      BY <1>5 DEF read, v
    <2>4. QED
      BY <1>3, <2>2, <2>3, FlippedZeros DEF part, c
  <1>6. CASE ~(i >= Len(v)) /\ w > Len(v) - i
    <2> DEFINE m == Len(v) - i
               a == SubSeq(v, i + 1, Len(v))
               b == Zeros(w - m)
               s == a \o b
    <2>1. i \in 0 .. Len(v) /\ Len(v) \in i .. Len(v) /\ m \in Nat /\ w - m \in Nat
          /\ m + (w - m) = w /\ i + m = Len(v)
      BY <1>1, <1>6
    <2>2. a \in [1 .. m -> Byte] /\ \A k \in 1 .. m : a[k] = v[i + k]
      BY <1>1, <2>1, PartByIndex
    <2>3. b \in [1 .. w - m -> Byte] /\ \A k \in 1 .. w - m : b[k] = 0
      BY ByteAssumption DEF Zeros
    <2> HIDE DEF m, a, b
    <2>4. s \in [1 .. m + (w - m) -> Byte]
          /\ \A k \in 1 .. m + (w - m) : s[k] = IF k <= m THEN a[k] ELSE b[k - m]
      <3> DEFINE r == w - m
      <3>1. m \in Nat /\ r \in Nat /\ a \in [1 .. m -> Byte] /\ b \in [1 .. r -> Byte]
        BY <2>1, <2>2, <2>3
      <3> HIDE DEF r
      <3>2. s \in [1 .. m + r -> Byte]
            /\ \A k \in 1 .. m + r : s[k] = IF k <= m THEN a[k] ELSE b[k - m]
        BY <3>1, ConcatByIndex
      <3>3. QED
        BY <3>2 DEF r
    <2> HIDE DEF s
    <2>5. \A k \in 1 .. w : s[k] = part[k]
      <3> TAKE k \in 1 .. w
      <3>1. CASE k <= m
        <4>1. k \in 1 .. m /\ k \in 1 .. m + (w - m) /\ i + k <= Len(v)
          BY <1>1, <2>1, <3>1
        <4>2. QED
          BY <1>4, <2>2, <2>4, <3>1, <4>1
      <3>2. CASE ~(k <= m)
        <4>1. k - m \in 1 .. w - m /\ k \in 1 .. m + (w - m) /\ ~(i + k <= Len(v))
          BY <1>1, <2>1, <3>2
        <4>2. QED
          BY <1>4, <2>3, <2>4, <3>2, <4>1
      <3>3. QED
        BY <3>1, <3>2
    <2>6. s = part
      <3>1. s \in [1 .. w -> Byte]
        BY <2>1, <2>4
      <3>2. QED
        BY <1>3, <2>5, <3>1, SameBytes
    <2>7. read(i, w, flip) = endian_flip(s, flip)
      BY <1>6 DEF read, v, s, a, b, m
    <2>8. QED
      BY <1>3, <2>6, <2>7 DEF part, c
  <1>7. CASE ~(i >= Len(v)) /\ ~(w > Len(v) - i)
    <2> DEFINE s == SubSeq(v, i + 1, i + w)
    <2>1. i \in 0 .. Len(v) /\ i + w \in i .. Len(v) /\ (i + w) - i = w
      BY <1>1, <1>7
    <2>2. s \in [1 .. (i + w) - i -> Byte] /\ \A k \in 1 .. (i + w) - i : s[k] = v[i + k]
      BY <1>1, <2>1, PartByIndex
    <2> HIDE DEF s
    <2>3. \A k \in 1 .. w : i + k <= Len(v)
      BY <1>1, <2>1
    <2>4. s = part
      <3>1. s \in [1 .. w -> Byte] /\ \A k \in 1 .. w : s[k] = part[k]
        BY <1>4, <2>1, <2>2, <2>3
      <3>2. QED
        BY <1>3, <3>1, SameBytes
    <2>5. read(i, w, flip) = endian_flip(s, flip)
      BY <1>7 DEF read, v, s
    <2>6. QED
      BY <1>3, <2>4, <2>5 DEF part, c
  <1>8. QED
    BY <1>5, <1>6, <1>7

(* A size that is a multiple of the width is that many elements. *)
LEMMA WholeElements ==
    ASSUME NEW S \in Nat, NEW w \in Nat \ {0}, S % w = 0
    PROVE  S \div w \in Nat /\ (S \div w) * w = S
  OBVIOUS

LEMMA IterationSeesTheArray ==
    ASSUME TypeOK, NEW w \in Nat \ {0}, NEW flip \in BOOLEAN, Size % w = 0
    PROVE  FlattenSeq([k \in 1 .. Size \div w |-> endian_flip(bytes(w, flip)[k], flip)]) = Content
  <1> DEFINE n == Size \div w
             ys == [k \in 1 .. n |-> endian_flip(bytes(w, flip)[k], flip)]
  <1>1. Size \in Nat /\ Content \in [1 .. Size -> Byte]
    BY ByteAssumption, ResizeType DEF TypeOK, Content
  <1>2. n \in Nat /\ n * w = Size
    BY <1>1, WholeElements
  <1>3. bytes(w, flip) = [k \in 1 .. n |-> read((k - 1) * w, w, flip)]
    BY DEF bytes
  <1> HIDE DEF n
  <1>4. ASSUME NEW k \in 1 .. n
        PROVE  ys[k] \in Element(w) /\ \A q \in 1 .. w : ys[k][q] = Content[(k - 1) * w + q]
    <2> DEFINE i == (k - 1) * w
               part == SubSeq(Content, i + 1, i + w)
    <2>1. i \in Nat /\ i + w <= Size
      <3>1. w \in 1 .. w /\ w \in Nat
        OBVIOUS
      <3>2. (k - 1) * w + w \in 1 .. n * w /\ (k - 1) * w \in Nat
        BY <1>2, <3>1, PositionsFromZero
      <3>3. i + w \in 1 .. Size
        BY <1>2, <3>2
      <3>4. QED
        BY <1>1, <3>2, <3>3
    <2>2. ys[k] = endian_flip(read(i, w, flip), flip)
      BY <1>3
    <2> HIDE DEF i, ys
    <2>3. part \in [1 .. w -> Byte] /\ (\A q \in 1 .. w : part[q] = Content[i + q])
          /\ read(i, w, flip) = endian_flip(part, flip)
      BY <2>1, ReadSeesTheArray
    <2> HIDE DEF part
    <2>4. ys[k] = part
      BY <2>2, <2>3, FlipType
    <2>5. QED
      BY <2>3, <2>4 DEF Element, i
  <1>5. ys \in [1 .. n -> Element(w)]
    <2>1. \A k \in 1 .. n : ys[k] \in Element(w)
      BY <1>4
    <2>2. QED
      BY <2>1
  <1> HIDE DEF ys
  <1>6. InRow(FlattenSeq(ys), ys, w, n)
    BY <1>2, <1>5, FlattenInRow
  <1>7. InRow(Content, ys, w, n)
    BY <1>1, <1>2, <1>4 DEF InRow
  <1>8. FlattenSeq(ys) = Content
    BY <1>2, <1>6, <1>7, InRowUnique
  <1>9. QED
    BY <1>8 DEF ys, n


-----------------------------------------------------------------------------

(* The steps of the specification. *)

LEMMA TypeFits ==
    ASSUME TypeOK
    PROVE  Fits(Bytes, Size) /\ Content \in [1 .. Size -> Byte] /\ Len(Content) = Size
  <1>1. Fits(Bytes, Size)
    BY ByteAssumption DEF TypeOK, Fits
  <1>2. QED
    BY <1>1, ResizeType DEF Fits, Content

LEMMA SetSizeStep ==
    ASSUME TypeOK, NEW n \in 0 .. MaxSize, setSize(n)
    PROVE  TypeOK' /\ Array!Resize(n)
  <1>1. n \in Nat /\ Size' = n /\ Bytes' = shortened(Bytes, n) /\ Bytes \in Seq(Byte)
    BY ByteAssumption DEF setSize, TypeOK
  <1>2. Fits(Bytes', Size')
    BY <1>1, ShortenedFits
  <1>3. TypeOK'
    BY <1>1, <1>2 DEF TypeOK, Fits
  <1>4. resize(Bytes', Size') =
            [k \in 1 .. n |-> IF k <= Len(Content) THEN Content[k] ELSE 0]
    BY <1>1, TypeFits, SetSizeResizes DEF Content
  <1>5. QED
    BY <1>3, <1>4 DEF Array!Resize, Array!Resized, Content

LEMMA SetInitializedSizeStep ==
    ASSUME TypeOK, NEW n \in 0 .. MaxSize, setInitializedSize(n)
    PROVE  TypeOK' /\ Array!Forget(n)
  <1>1. n \in Nat /\ Size' = Max({Size, n}) /\ Bytes' = resize(Bytes, n) /\ Size \in Nat
    BY ByteAssumption DEF setInitializedSize, TypeOK
  <1>2. /\ Fits(Bytes', Size')
        /\ resize(Bytes', Size') =
              [k \in 1 .. (IF n > Len(Content) THEN n ELSE Len(Content)) |->
                  IF k <= n /\ k <= Len(Content) THEN Content[k] ELSE 0]
    BY <1>1, TypeFits, SetInitializedSizeForgets DEF Content
  <1>3. Size' \in 0 .. MaxSize
    BY <1>1, MaxOfTwo DEF TypeOK
  <1>4. QED
    BY <1>2, <1>3 DEF TypeOK, Fits, Array!Forget, Content

LEMMA WriteStep ==
    ASSUME TypeOK, NEW w \in Width, NEW flip \in BOOLEAN, NEW i \in 0 .. MaxSize,
           NEW x \in Element(w), write(i, x, flip)
    PROVE  TypeOK' /\ endian_flip(x, flip) \in [1 .. w -> Byte]
           /\ Array!Overwrite(i, endian_flip(x, flip))
  <1> DEFINE y == endian_flip(x, flip)
  <1>1. w \in Nat /\ i \in Nat /\ Size \in Nat
    BY ByteAssumption DEF TypeOK
  <1>2. Len(x) = w /\ y \in [1 .. w -> Byte] /\ Len(y) = w
    BY <1>1, FlipType, BytesByIndex DEF Element
  <1>3. i + w <= Size /\ Bytes' = stored(Bytes, i, x, flip) /\ Size' = Size
    BY <1>2 DEF write
  <1>4. Fits(Bytes', Size') /\ resize(Bytes', Size') = Spliced(Content, i, i + w, Size, y)
    BY <1>1, <1>3, TypeFits, WriteOverwrites DEF Content
  <1>5. TypeOK'
    BY <1>3, <1>4 DEF TypeOK, Fits
  <1> HIDE DEF y
  <1>6. Array!Overwrite(i, y)
    <2>1. Len(Content) = Size
      BY TypeFits
    <2>2. QED
      BY <1>2, <1>3, <1>4, <2>1 DEF Array!Overwrite, Spliced, Content
  <1>7. QED
    BY <1>2, <1>5, <1>6 DEF y

LEMMA InsertStep ==
    ASSUME TypeOK, NEW w \in Width, NEW flip \in BOOLEAN, NEW i \in 0 .. MaxSize,
           NEW n \in 0 .. MaxElements, NEW xs \in [1 .. n -> Element(w)],
           insertBytes(i, xs, w, flip)
    PROVE  /\ TypeOK'
           /\ Array!Insert(i, FlattenSeq(Flipped(xs, flip, n)))
  <1> DEFINE N == n * w
             y == FlattenSeq(Flipped(xs, flip, n))
  <1>1. w \in Nat \ {0} /\ i \in Nat /\ Size \in Nat /\ n \in Nat
    BY ByteAssumption DEF TypeOK
  <1>2. Len(xs) = n /\ N \in Nat
    <2>1. Len(xs) = n
      BY <1>1, BytesByIndex
    <2>2. QED
      BY <1>1, <2>1, ProductInNat
  <1>3. Fits(Bytes, Size) /\ Len(Content) = Size
    BY TypeFits
  <1>4. i <= Size /\ Size + N <= MaxSize /\ Size' = Size + N
    BY <1>2 DEF insertBytes
  <1>5. shortened(Bytes, Size + N) = Bytes
    <2> HIDE DEF N
    <2>1. Size + N \in Nat /\ Bytes \in Seq(Byte) /\ Len(Bytes) <= Size + N
      BY <1>1, <1>2, <1>3 DEF Fits
    <2>2. QED
      BY <2>1, ShortenedFits
  <1>6. Bytes' = copied(Opened(Bytes, i, N), i, xs, w, flip)
    BY <1>2, <1>5 DEF insertBytes, Opened
  <1>7. Fits(Bytes', Size') /\ y \in [1 .. N -> Byte]
        /\ resize(Bytes', Size') = Spliced(Content, i, i, Size, y)
    BY <1>1, <1>3, <1>4, <1>6, InsertInserts DEF Content
  <1> HIDE DEF N
  <1>8. TypeOK' /\ N \in 0 .. MaxSize
    BY <1>1, <1>2, <1>4, <1>7, ByteAssumption DEF TypeOK, Fits
  <1> HIDE DEF y
  <1>9. Len(y) = N
    BY <1>2, <1>7, BytesByIndex
  <1>10. Array!Insert(i, y)
    BY <1>3, <1>4, <1>7, <1>9 DEF Array!Insert, Spliced, Content
  <1>11. QED
    BY <1>8, <1>10 DEF y

LEMMA EraseStep ==
    ASSUME TypeOK, NEW i \in 0 .. MaxSize, NEW j \in 0 .. MaxSize, eraseBytes(i, j)
    PROVE  TypeOK' /\ Array!Erase(i, j)
  <1> DEFINE u == IF i < Len(Bytes)
                  THEN SubSeq(Bytes, 1, i) \o SubSeq(Bytes, Min({j, Len(Bytes)}) + 1, Len(Bytes))
                  ELSE Bytes
  <1>1. i \in Nat /\ j \in Nat /\ Size \in Nat /\ i <= j /\ j <= Size
    BY ByteAssumption DEF TypeOK, eraseBytes
  <1>2. Size' = Size - (j - i) /\ Bytes' = shortened(u, Size - (j - i))
    BY DEF eraseBytes
  <1>3. Fits(Bytes, Size) /\ Len(Content) = Size
    BY TypeFits
  <1>4. /\ Fits(shortened(u, Size - (j - i)), Size - (j - i))
        /\ resize(shortened(u, Size - (j - i)), Size - (j - i)) = Cut(Content, i, j, Size)
    BY <1>1, <1>3, EraseErases DEF Content
  <1> HIDE DEF u
  <1>5. Fits(Bytes', Size') /\ resize(Bytes', Size') = Cut(Content, i, j, Size)
    BY <1>2, <1>4
  <1>6. Size' \in 0 .. MaxSize
    BY <1>1, <1>2, ByteAssumption DEF TypeOK
  <1>7. QED
    BY <1>1, <1>3, <1>5, <1>6 DEF TypeOK, Fits, Array!Erase, Cut, Content


(* The two ways of making an interval. *)
LEMMA InitTypeOK ==
    ASSUME Init, ~Oversized
    PROVE  TypeOK
  <1>1. Len(Bytes) > Size => FALSE
    BY DEF Init
  <1>2. ASSUME NEW s \in Nat
        PROVE  Min({s}) = s
    <2>1. {s} \subseteq Nat /\ {s} # {}
      OBVIOUS
    <2>2. QED
      BY <2>1, MinIsLeast
  <1>3. \A X \in Optional(0 .. MaxSize) : X # {} => Min(X) \in 0 .. MaxSize
    BY <1>2 DEF Optional
  <1>4. ASSUME NEW n \in 0 .. MaxSize, NEW given \in Element(n),
               NEW S \in Optional(0 .. MaxSize), NEW InitSize \in Optional(0 .. MaxSize),
               Create(given, S, InitSize)
        PROVE  Size \in 0 .. MaxSize /\ Bytes \in Seq(Byte)
    <2>1. n \in Nat /\ given \in Seq(Byte) /\ Len(given) = n
      BY BytesByIndex DEF Element
    <2>2. Size \in 0 .. MaxSize
      BY <1>3, <1>4, <2>1 DEF Create
    <2> DEFINE m == IF InitSize = {} THEN Len(given) ELSE Min(InitSize)
    <2>3. m \in Nat
      BY <1>3, <2>1
    <2>4. Bytes = resize(given, m)
      BY <1>4 DEF Create
    <2> HIDE DEF m
    <2>5. QED
      BY <2>1, <2>2, <2>3, <2>4, ResizeType
  <1>5. ASSUME NEW S \in 0 .. MaxSize, NEW InitSize \in Optional(0 .. MaxSize),
               CreateZero(S, InitSize)
        PROVE  Size \in 0 .. MaxSize /\ Bytes \in Seq(Byte)
    <2> DEFINE m == IF InitSize = {} THEN S ELSE Min(InitSize)
    <2>1. m \in Nat
      BY <1>3
    <2>2. Bytes = Zeros(m) /\ Size = S
      BY <1>5 DEF CreateZero
    <2> HIDE DEF m
    <2>3. Zeros(m) \in [1 .. m -> Byte]
      BY ByteAssumption DEF Zeros
    <2>4. QED
      BY <2>1, <2>2, <2>3, BytesByIndex
  <1>6. Size \in 0 .. MaxSize /\ Bytes \in Seq(Byte)
    BY <1>4, <1>5 DEF Init
  <1>7. QED
    BY <1>1, <1>6, ByteAssumption DEF TypeOK

(* What the operations do, each with its parameters. *)
LEMMA StepsOfTheArray ==
    ASSUME TypeOK
    PROVE  /\ \A S \in 0 .. MaxSize : /\ setSize(S) => Array!Resize(S) /\ TypeOK'
                                      /\ setInitializedSize(S) => Array!Forget(S) /\ TypeOK'
           /\ \A w \in Width, flip \in BOOLEAN, i \in 0 .. MaxSize :
                 /\ \A x \in Element(w) :
                       write(i, x, flip) => Array!Overwrite(i, endian_flip(x, flip)) /\ TypeOK'
                 /\ \A n \in 0 .. MaxElements : \A xs \in [1 .. n -> Element(w)] :
                       insertBytes(i, xs, w, flip) =>
                          /\ Array!Insert(i, FlattenSeq([k \in 1 .. n |-> endian_flip(xs[k], flip)]))
                          /\ TypeOK'
           /\ \A i, j \in 0 .. MaxSize : eraseBytes(i, j) => Array!Erase(i, j) /\ TypeOK'
  <1>1. \A S \in 0 .. MaxSize : /\ setSize(S) => Array!Resize(S) /\ TypeOK'
                                /\ setInitializedSize(S) => Array!Forget(S) /\ TypeOK'
    BY SetSizeStep, SetInitializedSizeStep
  <1>2. \A w \in Width, flip \in BOOLEAN, i \in 0 .. MaxSize : \A x \in Element(w) :
            write(i, x, flip) => Array!Overwrite(i, endian_flip(x, flip)) /\ TypeOK'
    BY WriteStep
  <1>3. \A w \in Width, flip \in BOOLEAN, i \in 0 .. MaxSize :
        \A n \in 0 .. MaxElements : \A xs \in [1 .. n -> Element(w)] :
            insertBytes(i, xs, w, flip) =>
               /\ Array!Insert(i, FlattenSeq([k \in 1 .. n |-> endian_flip(xs[k], flip)]))
               /\ TypeOK'
    <2>1. \A w \in Width, flip \in BOOLEAN, i \in 0 .. MaxSize :
          \A n \in 0 .. MaxElements : \A xs \in [1 .. n -> Element(w)] :
              insertBytes(i, xs, w, flip) =>
                 Array!Insert(i, FlattenSeq(Flipped(xs, flip, n))) /\ TypeOK'
      BY InsertStep
    <2>2. QED
      BY <2>1, Zenon DEF Flipped
  <1>4. \A i, j \in 0 .. MaxSize : eraseBytes(i, j) => Array!Erase(i, j) /\ TypeOK'
    BY EraseStep
  <1>5. QED
    BY <1>1, <1>2, <1>3, <1>4, Zenon

(* Every step keeps the types. *)
LEMMA NextTypeOK ==
    ASSUME TypeOK, Next
    PROVE  TypeOK'
  <1>1. ASSUME NEW S \in 0 .. MaxSize, setSize(S) \/ setInitializedSize(S)
        PROVE  TypeOK'
    BY <1>1, SetSizeStep, SetInitializedSizeStep
  <1>2. ASSUME NEW w \in Width, NEW flip \in BOOLEAN, NEW i \in 0 .. MaxSize,
               NEW x \in Element(w), write(i, x, flip)
        PROVE  TypeOK'
    BY <1>2, WriteStep
  <1>3. ASSUME NEW w \in Width, NEW flip \in BOOLEAN, NEW i \in 0 .. MaxSize,
               NEW n \in 0 .. MaxElements, NEW xs \in [1 .. n -> Element(w)],
               insertBytes(i, xs, w, flip)
        PROVE  TypeOK'
    BY <1>3, InsertStep
  <1>4. ASSUME NEW i \in 0 .. MaxSize, NEW j \in 0 .. MaxSize, eraseBytes(i, j)
        PROVE  TypeOK'
    BY <1>4, EraseStep
  <1>5. QED
    BY <1>1, <1>2, <1>3, <1>4 DEF Next

-----------------------------------------------------------------------------

(* The vector of initialised bytes is never longer than the interval ("This
   number will never be larger than the value returned by getSize"), for all
   types and sizes, provided that it is not so when the interval is created. *)
THEOREM BytesTypeCorrect ==
    ASSUME ~Oversized
    PROVE  Spec => []TypeOK
  <1>1. Init => TypeOK
    BY InitTypeOK
  <1>2. TypeOK /\ [Next]_vars => TypeOK'
    <2>1. ASSUME TypeOK, Next
          PROVE  TypeOK'
      BY <2>1, NextTypeOK
    <2>2. ASSUME TypeOK, UNCHANGED vars
          PROVE  TypeOK'
      BY <2>2 DEF TypeOK, vars
    <2>3. QED
      BY <2>1, <2>2
  <1>3. QED
    BY <1>1, <1>2, PTL DEF Spec

(* Reads and iterations see the array, whichever part of it is initialised and
   whatever the byte orders: BytesReference::operator T and the iterators. *)
THEOREM ReadsAreExact ==
    ASSUME ~Oversized
    PROVE  Spec => []ReadsSeeTheArray
  <1>1. TypeOK => ReadsSeeTheArray
    <2> SUFFICES ASSUME TypeOK, NEW w \in Width, NEW flip \in BOOLEAN
                 PROVE  /\ \A i \in 0 .. Size : i + w <= Size =>
                              read(i, w, flip) =
                                  endian_flip(SubSeq(Content, i + 1, i + w), flip)
                        /\ Size % w = 0 =>
                              FlattenSeq([k \in 1 .. Size \div w |->
                                  endian_flip(bytes(w, flip)[k], flip)]) = Content
      BY DEF ReadsSeeTheArray
    <2>1. w \in Nat \ {0}
      BY ByteAssumption
    <2>2. ASSUME NEW i \in 0 .. Size, i + w <= Size
          PROVE  read(i, w, flip) = endian_flip(SubSeq(Content, i + 1, i + w), flip)
      <3>1. i \in Nat /\ w \in Nat
        BY <2>1
      <3>2. QED
        BY <2>2, <3>1, ReadSeesTheArray
    <2>3. QED
      BY <2>1, <2>2, IterationSeesTheArray
  <1>2. QED
    BY <1>1, BytesTypeCorrect, PTL

(* Each operation of the interval is the one on the array that its name
   promises: setSize, setInitializedSize, assignment through a reference,
   insertBytes and eraseBytes. *)
THEOREM OperationsAreExact ==
    ASSUME ~Oversized
    PROVE  Spec => OperationsAreTheArrays
  <1> DEFINE Op ==
        /\ \A S \in 0 .. MaxSize : /\ setSize(S) => Array!Resize(S)
                                   /\ setInitializedSize(S) => Array!Forget(S)
        /\ \A w \in Width, flip \in BOOLEAN, i \in 0 .. MaxSize :
              /\ \A x \in Element(w) :
                    write(i, x, flip) => Array!Overwrite(i, endian_flip(x, flip))
              /\ \A n \in 0 .. MaxElements : \A xs \in [1 .. n -> Element(w)] :
                    insertBytes(i, xs, w, flip) =>
                        Array!Insert(i, FlattenSeq([k \in 1 .. n |-> endian_flip(xs[k], flip)]))
        /\ \A i, j \in 0 .. MaxSize : eraseBytes(i, j) => Array!Erase(i, j)
  <1>1. TypeOK => [Op]_vars
    BY StepsOfTheArray, Zenon
  <1>2. [][Op]_vars => OperationsAreTheArrays
    BY DEF OperationsAreTheArrays
  <1> HIDE DEF Op
  <1>3. QED
    BY <1>1, <1>2, BytesTypeCorrect, PTL

=============================================================================
