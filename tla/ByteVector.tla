----------------------------- MODULE ByteVector -----------------------------
(***************************************************************************)
(* The bytes of a byte interval.  The interval has a Size and a vector     *)
(* Bytes that holds its initialised bytes, at most Size of them; the bytes *)
(* behind count as zero until they are written, and the operations grow,   *)
(* shrink and shift the vector as needed.  Clients see the bytes as        *)
(* elements of a type T, converted between the byte order of the interval  *)
(* and their own.                                                          *)
(*                                                                         *)
(* An element of T is the sequence of its bytes in the order of the        *)
(* client; w is sizeof(T), and flip says that the two orders differ.       *)
(***************************************************************************)
EXTENDS Naturals, SequencesExt, FiniteSetsExt

CONSTANTS Byte,        \* the values of a byte, among them 0
          Width,       \* the sizes of the types clients use
          MaxSize,     \* bound on the size of an interval
          MaxElements, \* bound on the elements inserted by one call
          Oversized    \* may a client create an interval with more initialised
                       \* bytes than its size?

ASSUME ByteAssumption ==
    /\ 0 \in Byte
    /\ Width \subseteq Nat \ {0}
    /\ MaxSize \in Nat
    /\ Oversized \in BOOLEAN

VARIABLES Size, Bytes

vars == <<Size, Bytes>>

Zeros(n) == [k \in 1 .. n |-> 0]

(* std::vector::resize: truncate or pad with zeros. *)
resize(v, n) == [k \in 1 .. n |-> IF k <= Len(v) THEN v[k] ELSE 0]

endian_flip(x, flip) == IF flip THEN Reverse(x) ELSE x

-----------------------------------------------------------------------------

(* Create with a given range of bytes; S and InitSize are optional. *)
Create(given, S, InitSize) ==
    /\ Size = (IF S = {} THEN Len(given) ELSE Min(S))
    /\ Bytes = resize(given, IF InitSize = {} THEN Len(given) ELSE Min(InitSize))

(* Create with a size only: InitSize is the size unless it is given. *)
CreateZero(S, InitSize) ==
    /\ Size = S
    /\ Bytes = Zeros(IF InitSize = {} THEN S ELSE Min(InitSize))

Optional(S) == {{}} \cup {{s} : s \in S}

(* setSize calls setInitializedSize if the vector is too long; that does not
   call setSize again. *)
shortened(v, S) == IF S < Len(v) THEN resize(v, S) ELSE v

(* Mutant: the vector is left as it is. *)
setSizeOnly(S) ==
    /\ Size' = S
    /\ UNCHANGED Bytes

setSize(S) ==
    /\ Size' = S
    /\ Bytes' = shortened(Bytes, S)

setInitializedSize(S) ==
    /\ Bytes' = resize(Bytes, S)
    /\ Size' = Max({Size, S})

-----------------------------------------------------------------------------

(* Mutant: a partly initialised element is padded after the conversion. *)
readPaddedLate(i, w, flip) ==
    IF i >= Len(Bytes) THEN Zeros(w)
    ELSE IF w > Len(Bytes) - i
    THEN resize(endian_flip(SubSeq(Bytes, i + 1, Len(Bytes)), flip), w)
    ELSE endian_flip(SubSeq(Bytes, i + 1, i + w), flip)

(* BytesReference::operator T: an element behind the initialised bytes, one
   that is partly behind them, and one of initialised bytes. *)
read(i, w, flip) ==
    IF i >= Len(Bytes) THEN Zeros(w)
    ELSE IF w > Len(Bytes) - i
    THEN endian_flip(SubSeq(Bytes, i + 1, Len(Bytes)) \o Zeros(w - (Len(Bytes) - i)), flip)
    ELSE endian_flip(SubSeq(Bytes, i + 1, i + w), flip)

(* The vector v after BytesReference::operator= stored x at i: it grows to
   hold the element. *)
stored(v, i, x, flip) ==
    LET grown == resize(v, Max({Len(v), i + Len(x)}))
        y     == endian_flip(x, flip)
    IN  [k \in DOMAIN grown |-> IF k > i /\ k <= i + Len(x) THEN y[k - i] ELSE grown[k]]

write(i, x, flip) ==
    /\ i + Len(x) <= Size
    /\ Bytes' = stored(Bytes, i, x, flip)
    /\ UNCHANGED Size

(* std::copy of the elements xs of width w to an iterator at i. *)
copied(v, i, xs, w, flip) ==
    LET after[k \in 0 .. Len(xs)] ==
            IF k = 0 THEN v ELSE stored(after[k - 1], i + (k - 1) * w, xs[k], flip)
    IN  after[Len(xs)]

(* insertByteVec: setSize is called, zeros are inserted if the position is
   inside the initialised bytes, and the elements are copied over them. *)
insertBytes(i, xs, w, flip) ==
    LET N == Len(xs) * w
        v == shortened(Bytes, Size + N)
        u == IF i < Len(v) THEN SubSeq(v, 1, i) \o Zeros(N) \o SubSeq(v, i + 1, Len(v))
                           ELSE v
    IN  /\ i <= Size /\ Size + N <= MaxSize
        /\ Size' = Size + N
        /\ Bytes' = copied(u, i, xs, w, flip)

(* Mutant: the vector is shortened by setSize alone. *)
eraseBytesAtEnd(i, j) ==
    /\ i <= j /\ j <= Size
    /\ LET v == IF i < Len(Bytes) /\ j < Len(Bytes)
                THEN SubSeq(Bytes, 1, i) \o SubSeq(Bytes, j + 1, Len(Bytes))
                ELSE Bytes
       IN  /\ Size' = Size - (j - i)
           /\ Bytes' = shortened(v, Size - (j - i))

(* eraseBytes: the part inside the vector is erased, then setSize is called. *)
eraseBytes(i, j) ==
    /\ i <= j /\ j <= Size
    /\ LET v == IF i < Len(Bytes)
                THEN SubSeq(Bytes, 1, i) \o SubSeq(Bytes, Min({j, Len(Bytes)}) + 1, Len(Bytes))
                ELSE Bytes
       IN  /\ Size' = Size - (j - i)
           /\ Bytes' = shortened(v, Size - (j - i))

(* The elements an iteration from bytes_begin to bytes_end reads.  It steps by
   the width and stops where its index is the size, so the size has to be a
   multiple of the width. *)
bytes(w, flip) == [k \in 1 .. Size \div w |-> read((k - 1) * w, w, flip)]

-----------------------------------------------------------------------------

Element(w) == [1 .. w -> Byte]

Init ==
    /\ \/ \E given \in UNION {Element(n) : n \in 0 .. MaxSize},
             S, InitSize \in Optional(0 .. MaxSize) : Create(given, S, InitSize)
       \/ \E S \in 0 .. MaxSize, InitSize \in Optional(0 .. MaxSize) :
             CreateZero(S, InitSize)
    /\ Len(Bytes) > Size => Oversized

Next ==
    \/ \E S \in 0 .. MaxSize : setSize(S) \/ setInitializedSize(S)
    \/ \E w \in Width, flip \in BOOLEAN, i \in 0 .. MaxSize :
          \/ \E x \in Element(w) : write(i, x, flip)
          \/ \E n \in 0 .. MaxElements : \E xs \in [1 .. n -> Element(w)] :
                insertBytes(i, xs, w, flip)
    \/ \E i, j \in 0 .. MaxSize : eraseBytes(i, j)

Spec == Init /\ [][Next]_vars

-----------------------------------------------------------------------------

(* Type correctness.  ByteInterval.hpp on getInitializedSize: "This number will
   never be larger than the value returned by getSize." *)
TypeOK ==
    /\ Size \in 0 .. MaxSize
    /\ Bytes \in Seq(Byte) /\ Len(Bytes) <= Size

(* What clients see of Size and Bytes. *)
Content == resize(Bytes, Size)

Array == INSTANCE Contents WITH content <- Content

(* Reading an element yields the bytes of the array in the client's order, also
   where they are partly or not initialised, and an iteration over elements
   reads the whole array if its size is a multiple of theirs. *)
ReadsSeeTheArray ==
    \A w \in Width, flip \in BOOLEAN :
        /\ \A i \in 0 .. Size : i + w <= Size =>
              read(i, w, flip) = endian_flip(SubSeq(Content, i + 1, i + w), flip)
        /\ Size % w = 0 =>
              FlattenSeq([k \in 1 .. Size \div w |-> endian_flip(bytes(w, flip)[k], flip)]) = Content

(* Whatever part of the array is stored, each call does to it what the operation
   promises for its arguments and nothing else: setSize and setInitializedSize
   append or leave behind zeros, so bytes that come back after the interval was
   shortened are zero; assignment, insertBytes and eraseBytes at, before and
   behind the end of the initialised bytes overwrite or shift exactly the rest
   of the array, with the elements converted to the interval's byte order. *)
OperationsAreTheArrays ==
    [][/\ \A S \in 0 .. MaxSize : /\ setSize(S) => Array!Resize(S)
                                  /\ setInitializedSize(S) => Array!Forget(S)
       /\ \A w \in Width, flip \in BOOLEAN, i \in 0 .. MaxSize :
             /\ \A x \in Element(w) :
                   write(i, x, flip) => Array!Overwrite(i, endian_flip(x, flip))
             /\ \A n \in 0 .. MaxElements : \A xs \in [1 .. n -> Element(w)] :
                   insertBytes(i, xs, w, flip) =>
                       Array!Insert(i, FlattenSeq([k \in 1 .. n |-> endian_flip(xs[k], flip)]))
       /\ \A i, j \in 0 .. MaxSize : eraseBytes(i, j) => Array!Erase(i, j)]_vars
=============================================================================
