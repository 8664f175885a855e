----------------------------- MODULE BlockIndex -----------------------------
(***************************************************************************)
(* The index of a byte interval from offsets to the blocks that cover them *)
(* (ByteInterval::BlockOffsets).                                           *)
(*                                                                         *)
(* It is an interval map whose values are multisets of pointers to the     *)
(* blocks' entries, ordered by offset, size, kind, decode mode and UUID of *)
(* the block.  These keys are read through the pointers at every           *)
(* comparison, and CodeBlock::setSize, DataBlock::setSize and              *)
(* CodeBlock::setDecodeMode change them while the pointers are inside.     *)
(*                                                                         *)
(* A multiset is represented by its in-order sequence, the interval map by *)
(* the multiset at each offset.  Where a search ends in a tree whose keys  *)
(* are out of order depends on the shape of the tree; the model allows     *)
(* every outcome that is consistent with the comparisons at both sides of  *)
(* the gap where the search ends.                                          *)
(***************************************************************************)
EXTENDS Integers, SequencesExt

CONSTANTS CodeBlock, DataBlock,
          Rank,         \* the order of the UUIDs
          Null,         \* no offset: the block is not in the interval
          Limit,        \* the number of offsets, 2^64 in the code
          Offset,       \* the offsets blocks are put at
          Size,         \* the sizes blocks are given
          Mode,         \* the decode modes
          Reordering    \* may a client change the size or mode of a block so
                        \* that its order relative to a block at the same
                        \* offset changes?

Block == CodeBlock \cup DataBlock

ASSUME BlockAssumption ==
    /\ CodeBlock \cap DataBlock = {}
    /\ Limit \in Nat \ {0}
    /\ Offset \cup Size \subseteq 0 .. Limit - 1
    /\ Null \notin Offset
    /\ Mode \subseteq Nat /\ 0 \in Mode
    /\ Rank \in [Block -> Nat] /\ IsInjective(Rank)
    /\ Reordering \in BOOLEAN

VARIABLES offset,   \* Blocks: the offset of each block, Null outside
          size,     \* Size of each block
          mode,     \* DecodeMode of each block, 0 for data blocks
          at        \* BlockOffsets: the blocks at each offset

vars == <<offset, size, mode, at>>

-----------------------------------------------------------------------------

(* BlockOffsetPairLess compares these tuples. *)
Key == [b \in Block |->
          <<IF offset[b] = Null THEN -1 ELSE offset[b], size[b],
            IF b \in CodeBlock THEN 0 ELSE 1, mode[b], Rank[b]>>]

Less(k, l) == \E i \in DOMAIN k : k[i] < l[i] /\ \A j \in 1 .. i - 1 : k[j] = l[j]

(* Gap i of seq is the place before its element i.  A search for the first
   element not below k may end in the gaps LowerBounds, a search for the first
   element above k in the gaps UpperBounds; K gives the current keys. *)
LowerBounds(seq, k, K) ==
    {i \in 1 .. Len(seq) + 1 : /\ i > 1 => Less(K[seq[i - 1]], k)
                               /\ i <= Len(seq) => ~Less(K[seq[i]], k)}

UpperBounds(seq, k, K) ==
    {i \in 1 .. Len(seq) + 1 : /\ i > 1 => ~Less(k, K[seq[i - 1]])
                               /\ i <= Len(seq) => Less(k, K[seq[i]])}

(* Erasing by key removes everything between the two bounds. *)
Erasures(seq, b, K) ==
    LET between == {p \in LowerBounds(seq, K[b], K) \X UpperBounds(seq, K[b], K) :
                       p[1] <= p[2]}
    IN  {SubSeq(seq, 1, p[1] - 1) \o SubSeq(seq, p[2], Len(seq)) : p \in between}

(* An insertion may also use a hint; the neighbours are in order with b. *)
Insertions(seq, b, K) ==
    {InsertAt(seq, i, b) : i \in {g \in 1 .. Len(seq) + 1 :
        /\ g > 1 => ~Less(K[b], K[seq[g - 1]])
        /\ g <= Len(seq) => ~Less(K[seq[g]], K[b])}}

(* The interval a block of size sz at off covers, with the upper bound computed
   in the width of an offset: empty if that is not above the lower bound. *)
Span(off, sz) == off .. (((off + sz) % Limit) - 1)

(* The interval maps that result from updating the multiset at each of some
   points in one of the ways F allows. *)
Updates(map, points, F(_)) ==
    {[o \in DOMAIN map |-> IF o \in points THEN f[o] ELSE map[o]] :
        f \in {g \in [points -> UNION {F(o) : o \in points}] :
                 \A o \in points : g[o] \in F(o)}}

Subtracted(map, points, b, K) == Updates(map, points, LAMBDA o : Erasures(map[o], b, K))

Added(map, points, b, K) == Updates(map, points, LAMBDA o : Insertions(map[o], b, K))

(* b and a block at the same offset change places in the order of the keys. *)
Reorders(b) ==
    \E c \in Block \ {b} :
        /\ offset[b] # Null /\ offset[c] = offset[b]
        /\ Less(Key[b], Key[c]) # Less(Key[b], Key[c])'

-----------------------------------------------------------------------------

(* Mutant: the block is looked up at its new offset only. *)
addBlockLate(b, off) ==
    /\ offset[b] # off
    /\ offset' = [offset EXCEPT ![b] = off]
    /\ UNCHANGED <<size, mode>>
    /\ \E m \in (IF offset[b] = Null THEN {at}
                 ELSE Subtracted(at, Span(off, size[b]), b, Key')) :
          at' \in Added(m, Span(off, size[b]), b, Key')

(* Mutant: the block enters the index before its entry has the new offset. *)
addBlockEarly(b, off) ==
    /\ offset[b] # off
    /\ offset' = [offset EXCEPT ![b] = off]
    /\ UNCHANGED <<size, mode>>
    /\ \E m \in (IF offset[b] = Null THEN {at}
                 ELSE Subtracted(at, Span(offset[b], size[b]), b, Key)) :
          at' \in Added(m, Span(off, size[b]), b, Key)

(* addBlock puts b into the interval or moves it to another offset.  It leaves
   the index under its old offset and enters it under the new one. *)
addBlock(b, off) ==
    /\ offset[b] # off
    /\ offset' = [offset EXCEPT ![b] = off]
    /\ UNCHANGED <<size, mode>>
    /\ \E m \in (IF offset[b] = Null THEN {at}
                 ELSE Subtracted(at, Span(offset[b], size[b]), b, Key)) :
          at' \in Added(m, Span(off, size[b]), b, Key')

(* Mutant: the index is not told. *)
removeBlockOnly(b) ==
    /\ offset[b] # Null
    /\ offset' = [offset EXCEPT ![b] = Null]
    /\ UNCHANGED <<size, mode, at>>

removeBlock(b) ==
    /\ offset[b] # Null
    /\ at' \in Subtracted(at, Span(offset[b], size[b]), b, Key)
    /\ offset' = [offset EXCEPT ![b] = Null]
    /\ UNCHANGED <<size, mode>>

(* setSize of a block: the size is swapped first, then the observer subtracts
   the block over its old extent and adds it over the new one, both times with
   the new size as part of the key. *)
setSize(b, sz) ==
    /\ size' = [size EXCEPT ![b] = sz]
    /\ UNCHANGED <<offset, mode>>
    /\ Reorders(b) => Reordering
    /\ IF offset[b] = Null THEN UNCHANGED at
       ELSE \E m \in Subtracted(at, Span(offset[b], size[b]), b, Key') :
               at' \in Added(m, Span(offset[b], sz), b, Key')

(* setDecodeMode: the observer updates the order of the blocks, not that of
   the index. *)
setDecodeMode(b, md) ==
    /\ mode' = [mode EXCEPT ![b] = md]
    /\ UNCHANGED <<offset, size, at>>
    /\ Reorders(b) => Reordering

Init ==
    /\ offset = [b \in Block |-> Null]
    /\ size \in [Block -> Size]
    /\ mode \in [Block -> Mode] /\ \A b \in DataBlock : mode[b] = 0
    /\ at = [o \in 0 .. Limit - 1 |-> <<>>]

Next ==
    \/ \E b \in Block : \/ \E off \in Offset : addBlock(b, off)
                        \/ removeBlock(b)
                        \/ \E sz \in Size : setSize(b, sz)
    \/ \E b \in CodeBlock : \E md \in Mode : setDecodeMode(b, md)

Spec == Init /\ [][Next]_vars

-----------------------------------------------------------------------------

(* The index holds blocks of the interval only: an entry for a block that has
   been removed would be a dangling pointer. *)
TypeOK ==
    /\ offset \in [Block -> Offset \cup {Null}]
    /\ size \in [Block -> Size]
    /\ mode \in [Block -> Mode]
    /\ \A o \in DOMAIN at : at[o] \in Seq({b \in Block : offset[b] # Null})

Covering(o) == {b \in Block : offset[b] # Null /\ o \in Span(offset[b], size[b])}

(* ByteInterval.hpp on findBlocksOnOffset: "Find all the blocks that have a
   byte at the specified offset."  At every offset the index holds the blocks
   that cover it, each once. *)
FindsBlocksOnOffset ==
    \A o \in DOMAIN at : ToSet(at[o]) = Covering(o) /\ IsInjective(at[o])

(* They come in the documented iteration order: by offset, size, kind, decode
   mode and UUID. *)
BlocksOnOffsetInOrder ==
    \A o \in DOMAIN at : \A i \in 1 .. Len(at[o]) - 1 :
        Less(Key[at[o][i]], Key[at[o][i + 1]])
=============================================================================
