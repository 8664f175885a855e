------------------------------ MODULE AuxCodec ------------------------------
(***************************************************************************)
(* The serialisation of auxiliary data: auxdata_traits<T>::toBytes and     *)
(* fromBytes for every kind of type T.  A type is known by its type_name;  *)
(* Desc says what it is made of.                                           *)
(*                                                                         *)
(* A fixed-size value is a number and is stored in little-endian order.    *)
(* A set is stored in the order of some iteration over it.                 *)
(***************************************************************************)
EXTENDS Naturals, SequencesExt

CONSTANTS Desc,        \* the description of each type
          Base,        \* the number of values of a byte, 256 in the code
          CountWidth   \* sizeof(uint64_t)

ASSUME CodecAssumption ==
    /\ Base \in Nat \ {0, 1}
    /\ CountWidth \in Nat \ {0}

-----------------------------------------------------------------------------

LittleEndian(x, width) == [k \in 1 .. width |-> (x \div Base ^ (k - 1)) % Base]

FromLittleEndian(b) == FoldLeftDomain(LAMBDA sum, k : sum + b[k] * Base ^ (k - 1), 0, b)

RECURSIVE toBytes(_, _)

(* The elements of a container follow their number, the value of a variant
   follows its index, the fields of a tuple follow each other. *)
toBytes(T, x) ==
    LET d         == Desc[T]
        Count(n)  == LittleEndian(n, CountWidth)
        elements  == IF d.kind = "set" THEN SetToSeq(x) ELSE x
        keys      == SetToSeq(DOMAIN x)
    IN  CASE d.kind = "fixed"    -> LittleEndian(x, d.width)
          [] d.kind \in {"sequence", "set"} ->
                 Count(Len(elements)) \o
                 FlattenSeq([k \in DOMAIN elements |-> toBytes(d.of, elements[k])])
          [] d.kind = "mapping"  ->
                 Count(Len(keys)) \o
                 FlattenSeq([k \in DOMAIN keys |->
                                toBytes(d.entry, <<keys[k], x[keys[k]]>>)])
          [] d.kind = "tuple"    ->
                 FlattenSeq([k \in DOMAIN d.of |-> toBytes(d.of[k], x[k])])
          [] d.kind = "variant"  -> Count(x[1]) \o toBytes(d.of[x[1] + 1], x[2])

(* A reading is a value and the bytes behind it.  What a function that reads
   yields is a set: with one reading, or none if the bytes are no value. *)
Reading(x, rest) == [value |-> x, rest |-> rest]

(* FromByteRange::read, for the bytes of a fixed-size value. *)
readFixed(width, b) ==
    {Reading(FromLittleEndian(SubSeq(b, 1, n)), SubSeq(b, n + 1, Len(b))) :
        n \in {width} \cap 0 .. Len(b)}

RECURSIVE fromBytes(_, _)
RECURSIVE fromBytesEach(_, _)

(* Mutant: there has to be a byte behind the elements. *)
readCountStrict(b) == {c \in readFixed(CountWidth, b) : c.value < Len(c.rest)}

(* The number of elements.  It must not exceed the bytes that are left. *)
readCount(b) == {c \in readFixed(CountWidth, b) : c.value <= Len(c.rest)}

(* One value of each of the types Ts. *)
fromBytesEach(Ts, b) ==
    IF Ts = <<>> THEN {Reading(<<>>, b)}
    ELSE UNION {{Reading(<<h.value>> \o t.value, t.rest) : t \in fromBytesEach(Tail(Ts), h.rest)} :
                h \in fromBytes(Head(Ts), b)}

(* emplace: of several entries with one key the first counts. *)
MapOf(entries) ==
    [key \in {e[1] : e \in ToSet(entries)} |-> entries[SelectInSeq(entries, LAMBDA e : e[1] = key)][2]]

(* The index of a variant is held against the bytes that are left, like a number
   of elements.  An entry of a mapping is read like a tuple. *)
fromBytes(T, b) ==
    LET d == Desc[T]
        elements(T1) == UNION {fromBytesEach([k \in 1 .. c.value |-> T1], c.rest) : c \in readCount(b)}
    IN  CASE d.kind = "fixed"    -> readFixed(d.width, b)
          [] d.kind = "tuple"    -> fromBytesEach(d.of, b)
          [] d.kind = "sequence" -> elements(d.of)
          [] d.kind = "set"      -> {Reading(ToSet(r.value), r.rest) : r \in elements(d.of)}
          [] d.kind = "mapping"  -> {Reading(MapOf(r.value), r.rest) : r \in elements(d.entry)}
          [] d.kind = "variant"  ->
                 UNION {{Reading(<<c.value, r.value>>, r.rest) :
                            r \in fromBytes(d.of[c.value + 1], c.rest)} :
                        c \in {c \in readCount(b) : c.value < Len(d.of)}}
=============================================================================
