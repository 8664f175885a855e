------------------------------ MODULE Queries ------------------------------
(***************************************************************************)
(* The iterations and address queries of byte intervals, sections, modules *)
(* and IRs: all children of a kind, those on an address, those that start  *)
(* at an address or in a range of addresses.  A byte interval answers from *)
(* its own containers; the others choose the children that may contribute, *)
(* by their own address maps, ask them and merge the answers.              *)
(*                                                                         *)
(* An answer is the sequence of nodes an iteration over it yields.         *)
(* MergeSorted models the iterator that merges; BlockIndex shows when the  *)
(* index of an interval holds what findBlocksOnOffset reads from it here.  *)
(* The families of queries for blocks, code blocks and data blocks differ  *)
(* in the blocks they let through, the parameter K.                        *)
(*                                                                         *)
(* Blocks and symbolic expressions stay at the offset they were added at.  *)
(***************************************************************************)
EXTENDS AddressMaps, Integers, SequencesExt

CONSTANTS Home,       \* the parent of each node at the start
          Movable,    \* the nodes that clients move
          Rank,       \* the order of the UUIDs
          Offset,     \* the offset of each block in its interval
          BlockSize,  \* the size of each block
          SymExprs    \* the offsets of the symbolic expressions of each interval

ASSUME QueryAssumption ==
    /\ Home \in [Node -> Node \cup {Null}]
    /\ \A n \in Node : Home[n] # Null => CanOwn(Home[n], n)
    /\ Movable \subseteq Node
    /\ Rank \in [Node -> Nat] /\ IsInjective(Rank)
    /\ Offset \in [Blocks -> Addr] /\ BlockSize \in [Blocks -> Addr]
    /\ \A b \in Blocks : Offset[b] + BlockSize[b] < AddrLimit
    /\ SymExprs \in [ByteIntervals -> SUBSET Addr]
    /\ (Node \cup {Null}) \cap (ByteIntervals \X Addr) = {}
    /\ IsFiniteSet(Node)

-----------------------------------------------------------------------------

(* Iterating from an iterator that lies behind the end iterator is undefined. *)
Undefined == <<Null>>

Less(k, l) == \E i \in DOMAIN k : k[i] < l[i] /\ \A j \in 1 .. i - 1 : k[j] = l[j]

(* getAddress of a node; an absent address is below every other. *)
startOf(n) ==
    CASE n \in Sections /\ extent[n] # Null           -> extent[n].lower
      [] n \in ByteIntervals /\ address[n] # Null     -> address[n]
      [] n \in Blocks /\ address[parent[n]] # Null    ->
             (address[parent[n]] + Offset[n]) % AddrLimit
      [] OTHER                                        -> -1

sizeOf(n) ==
    CASE n \in Sections      -> IF extent[n] = Null THEN -1 ELSE extent[n].size
      [] n \in ByteIntervals -> size[n]
      [] n \in Blocks        -> BlockSize[n]

(* Blocks are ordered by an address or an offset, then by size, kind and UUID. *)
blockKey(first, b) == <<first, BlockSize[b], IF b \in CodeBlocks THEN 0 ELSE 1, Rank[b]>>

(* AddressLess and BlockAddressLess compare these.  A symbolic expression is a
   pair of its interval and its offset and is compared by its address only. *)
addressKey(x) ==
    CASE x \notin Node -> <<IF address[x[1]] = Null THEN -1
                            ELSE (address[x[1]] + x[2]) % AddrLimit>>
      [] x \in Blocks  -> blockKey(startOf(x), x)
      [] OTHER         -> <<startOf(x), sizeOf(x), Rank[x]>>

(* Mutant: blocks are kept in the order of their sizes. *)
offsetKeyBySize(b) == blockKey(BlockSize[b], b)

offsetKey(b) == blockKey(Offset[b], b)

(* The elements of S, in the order of their keys. *)
ByKey(S, key) ==
    CHOOSE q \in SetToSeqs(S) :
        \A i, j \in DOMAIN q : i < j => ~Less(key[q[j]], key[q[i]])

InAddressOrder(S) == ByKey(S, [x \in S |-> addressKey(x)])
InOffsetOrder(S)  == ByKey(S, [x \in S |-> offsetKey(x)])

(* An increment of a MergeSortedIterator with the ranges left before it takes
   the least first element. *)
MergeStep(s) ==
    LET N == {i \in DOMAIN s.left : s.left[i] # <<>>}
        i == CHOOSE i \in N : \A j \in N :
                ~Less(addressKey(Head(s.left[j])), addressKey(Head(s.left[i])))
    IN  [left |-> [s.left EXCEPT ![i] = Tail(@)],
         out  |-> Append(s.out, Head(s.left[i]))]

(* What an iteration over ranges yields. *)
Merge(ranges) ==
    LET total == Cardinality(UNION {{i} \X DOMAIN ranges[i] : i \in DOMAIN ranges})
        step[k \in 0 .. total] ==
            IF k = 0 THEN [left |-> ranges, out |-> <<>>] ELSE MergeStep(step[k - 1])
    IN  IF \E i \in DOMAIN ranges : ranges[i] = Undefined THEN Undefined
        ELSE step[total].out

(* The queries of all nodes in C, merged. *)
MergeOver(C, Q(_)) == Merge([c \in C |-> Q(c)])

(* A query for a range of addresses asks the children on its first address and
   those that start behind it. *)
MergeNear(on, behind, Q(_)) ==
    IF behind = Undefined THEN Undefined
    ELSE Merge([x \in ({1} \X on) \cup ({2} \X ToSet(behind)) |-> Q(x[2])])

Next1(a) == (a + 1) % AddrLimit

-----------------------------------------------------------------------------

(* Blocks of a byte interval.  The interval keeps its blocks in the order of
   their offsets; the queries for one kind of block filter. *)
intervalBlocks(K, b) == InOffsetOrder(children[b] \cap K)

intervalFindBlocksOnOffset(K, b, off) ==
    InOffsetOrder({c \in children[b] \cap K : off - Offset[c] \in 0 .. BlockSize[c] - 1})

intervalFindBlocksOn(K, b, a) ==
    IF address[b] = Null THEN <<>>
    ELSE intervalFindBlocksOnOffset(K, b, (a - address[b]) % AddrLimit)

intervalFindBlocksAtOffset(K, b, off) ==
    InOffsetOrder({c \in children[b] \cap K : Offset[c] = off})

(* High is raised to Low, so the iterators are never behind each other. *)
intervalFindBlocksBetweenOffsets(K, b, low, high) ==
    InOffsetOrder({c \in children[b] \cap K :
                       low <= Offset[c] /\ Offset[c] < Max({low, high})})

intervalFindBlocksAt(K, b, a) ==
    IF address[b] = Null \/ a < address[b] THEN <<>>
    ELSE intervalFindBlocksAtOffset(K, b, a - address[b])

intervalFindBlocksBetween(K, b, low, high) ==
    IF address[b] = Null THEN <<>>
    ELSE intervalFindBlocksBetweenOffsets(K, b, low - Min({address[b], low}),
                                                high - Min({address[b], high}))

intervalCodeBlocks(b)                   == intervalBlocks(CodeBlocks, b)
intervalFindCodeBlocksOn(b, a)          == intervalFindBlocksOn(CodeBlocks, b, a)
intervalFindCodeBlocksAt(b, a)          == intervalFindBlocksAt(CodeBlocks, b, a)
intervalFindCodeBlocksBetween(b, l, h)  == intervalFindBlocksBetween(CodeBlocks, b, l, h)

intervalDataBlocks(b)                   == intervalBlocks(DataBlocks, b)
intervalFindDataBlocksOn(b, a)          == intervalFindBlocksOn(DataBlocks, b, a)
intervalFindDataBlocksAt(b, a)          == intervalFindBlocksAt(DataBlocks, b, a)
intervalFindDataBlocksBetween(b, l, h)  == intervalFindBlocksBetween(DataBlocks, b, l, h)

-----------------------------------------------------------------------------

(* Byte intervals of a section, a module and an IR.  Iterators into the index
   by address: an interval without address is below every address. *)
sectionByteIntervals(s) == InAddressOrder(children[s])

sectionFindByteIntervalsBetween(s, low, high) ==
    InAddressOrder({b \in children[s] : low <= startOf(b) /\ startOf(b) < high})

moduleSections(m) == InAddressOrder(children[m] \cap Sections)

moduleFindSectionsAt(m, a) ==
    InAddressOrder({s \in children[m] \cap Sections : startOf(s) = a})

(* There is no check that High is not below Low: with a section between them
   the first iterator is behind the second. *)
moduleFindSectionsBetween(m, low, high) ==
    IF \E s \in children[m] \cap Sections : high <= startOf(s) /\ startOf(s) < low
    THEN Undefined
    ELSE InAddressOrder({s \in children[m] \cap Sections :
                             low <= startOf(s) /\ startOf(s) < high})

moduleByteIntervals(m) ==
    MergeOver(children[m] \cap Sections, sectionByteIntervals)

moduleByteIntervalsOn(m, a) ==
    MergeOver(moduleFindSectionsOn(m, a),
              LAMBDA s : InAddressOrder(sectionFindByteIntervalsOn(s, a)))

moduleFindByteIntervalsAt(m, a) ==
    MergeOver(moduleFindSectionsOn(m, a),
              LAMBDA s : InAddressOrder(sectionFindByteIntervalsAt(s, a)))

(* Mutant: a section that starts before the range is not asked. *)
moduleFindByteIntervalsBetweenStarts(m, low, high) ==
    MergeNear({}, moduleFindSectionsBetween(m, low, high),
              LAMBDA s : sectionFindByteIntervalsBetween(s, low, high))

moduleFindByteIntervalsBetween(m, low, high) ==
    MergeNear(moduleFindSectionsOn(m, low), moduleFindSectionsBetween(m, Next1(low), high),
              LAMBDA s : sectionFindByteIntervalsBetween(s, low, high))

irSections(i)             == MergeOver(children[i], moduleSections)
irFindSectionsOn(i, a)    ==
    MergeOver(children[i], LAMBDA m : InAddressOrder(moduleFindSectionsOn(m, a)))
irFindSectionsAt(i, a)    == MergeOver(children[i], LAMBDA m : moduleFindSectionsAt(m, a))
irFindSectionsBetween(i, low, high) ==
    MergeOver(children[i], LAMBDA m : moduleFindSectionsBetween(m, low, high))

irByteIntervals(i)          == MergeOver(children[i], moduleByteIntervals)
irFindByteIntervalsOn(i, a) == MergeOver(children[i], LAMBDA m : moduleByteIntervalsOn(m, a))
irFindByteIntervalsAt(i, a) == MergeOver(children[i], LAMBDA m : moduleFindByteIntervalsAt(m, a))
irFindByteIntervalsBetween(i, low, high) ==
    MergeOver(children[i], LAMBDA m : moduleFindByteIntervalsBetween(m, low, high))

-----------------------------------------------------------------------------

(* Blocks of a section. *)
sectionBlocks(K, s) == MergeOver(children[s], LAMBDA b : intervalBlocks(K, b))

sectionFindBlocksOn(K, s, a) ==
    MergeOver(sectionFindByteIntervalsOn(s, a), LAMBDA b : intervalFindBlocksOn(K, b, a))

(* Mutant: only intervals that start at the address are asked. *)
sectionFindBlocksAtStart(K, s, a) ==
    MergeOver(sectionFindByteIntervalsAt(s, a), LAMBDA b : intervalFindBlocksAt(K, b, a))

sectionFindBlocksAt(K, s, a) ==
    MergeOver(sectionFindByteIntervalsOn(s, a), LAMBDA b : intervalFindBlocksAt(K, b, a))

(* Mutant: an interval that starts at the first address is asked twice. *)
sectionFindBlocksBetweenTwice(K, s, low, high) ==
    MergeNear(sectionFindByteIntervalsOn(s, low),
              sectionFindByteIntervalsBetween(s, low, high),
              LAMBDA b : intervalFindBlocksBetween(K, b, low, high))

sectionFindBlocksBetween(K, s, low, high) ==
    MergeNear(sectionFindByteIntervalsOn(s, low),
              sectionFindByteIntervalsBetween(s, Next1(low), high),
              LAMBDA b : intervalFindBlocksBetween(K, b, low, high))

sectionCodeBlocks(s)                   == sectionBlocks(CodeBlocks, s)
sectionFindCodeBlocksOn(s, a)          == sectionFindBlocksOn(CodeBlocks, s, a)
sectionFindCodeBlocksAt(s, a)          == sectionFindBlocksAt(CodeBlocks, s, a)
sectionFindCodeBlocksBetween(s, l, h)  == sectionFindBlocksBetween(CodeBlocks, s, l, h)

sectionDataBlocks(s)                   == sectionBlocks(DataBlocks, s)
sectionFindDataBlocksOn(s, a)          == sectionFindBlocksOn(DataBlocks, s, a)
sectionFindDataBlocksAt(s, a)          == sectionFindBlocksAt(DataBlocks, s, a)
sectionFindDataBlocksBetween(s, l, h)  == sectionFindBlocksBetween(DataBlocks, s, l, h)

(* Blocks of a module. *)
moduleBlocks(K, m) ==
    MergeOver(children[m] \cap Sections, LAMBDA s : sectionBlocks(K, s))

moduleFindBlocksOn(K, m, a) ==
    MergeOver(moduleFindSectionsOn(m, a), LAMBDA s : sectionFindBlocksOn(K, s, a))

moduleFindBlocksAt(K, m, a) ==
    MergeOver(moduleFindSectionsOn(m, a), LAMBDA s : sectionFindBlocksAt(K, s, a))

moduleFindBlocksBetween(K, m, low, high) ==
    MergeNear(moduleFindSectionsOn(m, low), moduleFindSectionsBetween(m, Next1(low), high),
              LAMBDA s : sectionFindBlocksBetween(K, s, low, high))

moduleCodeBlocks(m)                   == moduleBlocks(CodeBlocks, m)
moduleFindCodeBlocksOn(m, a)          == moduleFindBlocksOn(CodeBlocks, m, a)
moduleFindCodeBlocksAt(m, a)          == moduleFindBlocksAt(CodeBlocks, m, a)
moduleFindCodeBlocksBetween(m, l, h)  == moduleFindBlocksBetween(CodeBlocks, m, l, h)

moduleDataBlocks(m)                   == moduleBlocks(DataBlocks, m)
moduleFindDataBlocksOn(m, a)          == moduleFindBlocksOn(DataBlocks, m, a)
moduleFindDataBlocksAt(m, a)          == moduleFindBlocksAt(DataBlocks, m, a)
moduleFindDataBlocksBetween(m, l, h)  == moduleFindBlocksBetween(DataBlocks, m, l, h)

(* Blocks of an IR, which asks all of its modules. *)
irBlocks(K, i)          == MergeOver(children[i], LAMBDA m : moduleBlocks(K, m))
irFindBlocksOn(K, i, a) == MergeOver(children[i], LAMBDA m : moduleFindBlocksOn(K, m, a))
irFindBlocksAt(K, i, a) == MergeOver(children[i], LAMBDA m : moduleFindBlocksAt(K, m, a))
irFindBlocksBetween(K, i, low, high) ==
    MergeOver(children[i], LAMBDA m : moduleFindBlocksBetween(K, m, low, high))

irCodeBlocks(i)                   == irBlocks(CodeBlocks, i)
irFindCodeBlocksOn(i, a)          == irFindBlocksOn(CodeBlocks, i, a)
irFindCodeBlocksAt(i, a)          == irFindBlocksAt(CodeBlocks, i, a)
irFindCodeBlocksBetween(i, l, h)  == irFindBlocksBetween(CodeBlocks, i, l, h)

irDataBlocks(i)                   == irBlocks(DataBlocks, i)
irFindDataBlocksOn(i, a)          == irFindBlocksOn(DataBlocks, i, a)
irFindDataBlocksAt(i, a)          == irFindBlocksAt(DataBlocks, i, a)
irFindDataBlocksBetween(i, l, h)  == irFindBlocksBetween(DataBlocks, i, l, h)

-----------------------------------------------------------------------------

(* Symbolic expressions of a byte interval, in the order of their offsets. *)
SymExprsInOrder(E) == ByKey(E, [e \in E |-> <<e[2]>>])

intervalSymbolicExpressions(b) == SymExprsInOrder({b} \X SymExprs[b])

intervalFindSymbolicExpressionsAtOffset(b, off) ==
    SymExprsInOrder({b} \X (SymExprs[b] \cap {off}))

(* Neither here nor in the conversion of the addresses to offsets is there a
   check that the first iterator is not behind the second. *)
intervalFindSymbolicExpressionsBetweenOffsets(b, low, high) ==
    IF \E off \in SymExprs[b] : high <= off /\ off < low THEN Undefined
    ELSE SymExprsInOrder({b} \X {off \in SymExprs[b] : low <= off /\ off < high})

intervalFindSymbolicExpressionsAt(b, a) ==
    IF address[b] = Null THEN <<>>
    ELSE intervalFindSymbolicExpressionsAtOffset(b, (a - address[b]) % AddrLimit)

intervalFindSymbolicExpressionsBetween(b, low, high) ==
    IF address[b] = Null THEN <<>>
    ELSE intervalFindSymbolicExpressionsBetweenOffsets(
             b, (low - address[b]) % AddrLimit, (high - address[b]) % AddrLimit)

(* Sections, modules and IRs ask all of their children. *)
sectionSymbolicExpressions(s) == MergeOver(children[s], intervalSymbolicExpressions)
(* Mutant: only the intervals on the address are asked, as for blocks. *)
sectionFindSymbolicExpressionsOn(s, a) ==
    MergeOver(sectionFindByteIntervalsOn(s, a),
              LAMBDA b : intervalFindSymbolicExpressionsAt(b, a))

sectionFindSymbolicExpressionsAt(s, a) ==
    MergeOver(children[s], LAMBDA b : intervalFindSymbolicExpressionsAt(b, a))
sectionFindSymbolicExpressionsBetween(s, low, high) ==
    MergeOver(children[s], LAMBDA b : intervalFindSymbolicExpressionsBetween(b, low, high))

moduleSymbolicExpressions(m) ==
    MergeOver(children[m] \cap Sections, sectionSymbolicExpressions)
moduleFindSymbolicExpressionsAt(m, a) ==
    MergeOver(children[m] \cap Sections, LAMBDA s : sectionFindSymbolicExpressionsAt(s, a))
moduleFindSymbolicExpressionsBetween(m, low, high) ==
    MergeOver(children[m] \cap Sections,
              LAMBDA s : sectionFindSymbolicExpressionsBetween(s, low, high))

irSymbolicExpressions(i) == MergeOver(children[i], moduleSymbolicExpressions)
irFindSymbolicExpressionsAt(i, a) ==
    MergeOver(children[i], LAMBDA m : moduleFindSymbolicExpressionsAt(m, a))
irFindSymbolicExpressionsBetween(i, low, high) ==
    MergeOver(children[i], LAMBDA m : moduleFindSymbolicExpressionsBetween(m, low, high))

-----------------------------------------------------------------------------

(* The tree has been built from nodes without addresses. *)
QInit ==
    /\ parent = Home
    /\ children = [c \in Node |-> {n \in Node : Home[n] = c}]
    /\ cfg = [i \in IRs |-> AddVertices(EmptyGraph, {n \in CfgNode : HomeIR(n) = i})]
    /\ address = [b \in ByteIntervals |-> Null]
    /\ size \in [ByteIntervals -> Size]
    /\ intervalsOn = [s \in Sections |-> [a \in Addr |-> {}]]
    /\ extent = [s \in Sections |-> Null]
    /\ sectionsOn = [m \in Modules |-> [a \in Addr |-> {}]]

QNext ==
    \/ \E b \in ByteIntervals : \E addr \in Addr \cup {Null} : setAddress(b, addr)
    \/ \E b \in ByteIntervals : \E sz \in Size : setSize(b, sz)
    \/ \E m \in Modules, s \in Sections \cap Movable : addSection(m, s)
    \/ \E s \in Sections, b \in ByteIntervals \cap Movable : addByteInterval(s, b)
    \/ \E bi \in ByteIntervals, b \in Blocks \cap Movable :
          AddBlock(bi, b) /\ UNCHANGED mapVars

QSpec == QInit /\ [][QNext]_vars

-----------------------------------------------------------------------------

(* seq yields each element of S once, in address order.  Symbolic expressions
   at one address may come in any order. *)
Yields(seq, S) ==
    /\ ToSet(seq) = S /\ Len(seq) = Cardinality(S)
    /\ \A k \in 1 .. Len(seq) - 1 : ~Less(addressKey(seq[k + 1]), addressKey(seq[k]))

(* The three queries of a family yield the blocks of their kind in S. *)
FamilyYields(all, code, data, S) ==
    /\ Yields(all, S)
    /\ Yields(code, S \cap CodeBlocks)
    /\ Yields(data, S \cap DataBlocks)

Mapped(b) == address[b] # Null /\ ~Wraps(b)

(* Blocks below a section and below a module; those that a module can see are
   in sections that have an extent. *)
BlocksIn(s)      == UNION {children[b] : b \in children[s]}
BlocksBelow(m)   == UNION {BlocksIn(s) : s \in children[m] \cap Sections}
BlocksSeen(m)    == UNION {BlocksIn(s) : s \in {t \in children[m] \cap Sections : extent[t] # Null}}
BlocksOfIR(i, F(_)) == UNION {F(m) : m \in children[i]}

(* No block is at a lower address than one before it in its interval. *)
InOrder(B) == \A b \in B : /\ address[parent[b]] # Null
                           /\ address[parent[b]] + Offset[b] < AddrLimit

IsOn(b, a) ==
    /\ Mapped(parent[b]) /\ Covers(parent[b], a)
    /\ startOf(b) <= a /\ a < startOf(b) + BlockSize[b]

IsAt(b, a) == Mapped(parent[b]) /\ Covers(parent[b], a) /\ startOf(b) = a

(* findBlocksOn, findCodeBlocksOn and findDataBlocksOn of byte intervals yield
   exactly the blocks with a byte at the address, those of sections, modules and
   IRs the ones where that byte also lies inside the block's interval, in the
   documented order, whichever containers overlap and whatever was moved or
   resized before; a module looks only into sections that have an extent. *)
FindBlocksOnExact ==
    \A a \in Addr :
        LET On(B) == {b \in B : IsOn(b, a)}
        IN  /\ \A b \in {x \in ByteIntervals : InOrder(children[x])} :
                 FamilyYields(intervalFindBlocksOn(Blocks, b, a), intervalFindCodeBlocksOn(b, a),
                              intervalFindDataBlocksOn(b, a),
                              {c \in children[b] : \E k \in 0 .. BlockSize[c] - 1 :
                                   (startOf(c) + k) % AddrLimit = a})
            /\ \A s \in Sections :
                 FamilyYields(sectionFindBlocksOn(Blocks, s, a), sectionFindCodeBlocksOn(s, a),
                              sectionFindDataBlocksOn(s, a), On(BlocksIn(s)))
            /\ \A m \in Modules :
                 FamilyYields(moduleFindBlocksOn(Blocks, m, a), moduleFindCodeBlocksOn(m, a),
                              moduleFindDataBlocksOn(m, a), On(BlocksSeen(m)))
            /\ \A i \in IRs :
                 FamilyYields(irFindBlocksOn(Blocks, i, a), irFindCodeBlocksOn(i, a),
                              irFindDataBlocksOn(i, a), On(BlocksOfIR(i, BlocksSeen)))

(* The same for findBlocksAt with one address. *)
FindBlocksAtExact ==
    \A a \in Addr :
        LET At(B) == {b \in B : IsAt(b, a)}
        IN  /\ \A b \in {x \in ByteIntervals : InOrder(children[x])} :
                 FamilyYields(intervalFindBlocksAt(Blocks, b, a), intervalFindCodeBlocksAt(b, a),
                              intervalFindDataBlocksAt(b, a),
                              {c \in children[b] : startOf(c) = a})
            /\ \A s \in Sections :
                 FamilyYields(sectionFindBlocksAt(Blocks, s, a), sectionFindCodeBlocksAt(s, a),
                              sectionFindDataBlocksAt(s, a), At(BlocksIn(s)))
            /\ \A m \in Modules :
                 FamilyYields(moduleFindBlocksAt(Blocks, m, a), moduleFindCodeBlocksAt(m, a),
                              moduleFindDataBlocksAt(m, a), At(BlocksSeen(m)))
            /\ \A i \in IRs :
                 FamilyYields(irFindBlocksAt(Blocks, i, a), irFindCodeBlocksAt(i, a),
                              irFindDataBlocksAt(i, a), At(BlocksOfIR(i, BlocksSeen)))

(* The answer to a query for a range holds every block of B that starts inside
   its interval and in the range, and nothing that starts outside the range. *)
RangeOf(seq, B, low, high) ==
    /\ {b \in B : \E a \in low .. high - 1 : IsAt(b, a)} \subseteq ToSet(seq)
    /\ ToSet(seq) \subseteq {b \in B : low <= startOf(b) /\ startOf(b) < high}
    /\ Yields(seq, ToSet(seq))

FamilyRangeOf(all, code, data, B, low, high) ==
    /\ RangeOf(all, B, low, high)
    /\ RangeOf(code, B \cap CodeBlocks, low, high)
    /\ RangeOf(data, B \cap DataBlocks, low, high)

(* The ranges that a module and an IR can be asked for.  Behind the highest address
   the search for sections starts at the lowest one again. *)
Forward(low, high) == low < high \/ low = AddrLimit - 1

(* findBlocksAt with two addresses, low below high, finds the blocks that
   findBlocksAt finds at the addresses between, although the two parts of the
   query, the children on the first address and the children that start behind
   it, come from different indexes.  It finds nothing when low is the highest
   address, behind which the second part starts again at the lowest.  In a byte
   interval and a section it also holds for other ranges that are empty or upside
   down. *)
FindBlocksBetweenExact ==
    \A low, high \in Addr :
        /\ \A b \in {x \in ByteIntervals : ~Wraps(x)} :
             FamilyRangeOf(intervalFindBlocksBetween(Blocks, b, low, high),
                           intervalFindCodeBlocksBetween(b, low, high),
                           intervalFindDataBlocksBetween(b, low, high),
                           children[b], low, high)
        /\ \A s \in Sections :
             FamilyRangeOf(sectionFindBlocksBetween(Blocks, s, low, high),
                           sectionFindCodeBlocksBetween(s, low, high),
                           sectionFindDataBlocksBetween(s, low, high),
                           BlocksIn(s), low, high)
        /\ Forward(low, high) =>
             /\ \A m \in Modules :
                  FamilyRangeOf(moduleFindBlocksBetween(Blocks, m, low, high),
                                moduleFindCodeBlocksBetween(m, low, high),
                                moduleFindDataBlocksBetween(m, low, high),
                                BlocksSeen(m), low, high)
             /\ \A i \in IRs :
                  FamilyRangeOf(irFindBlocksBetween(Blocks, i, low, high),
                                irFindCodeBlocksBetween(i, low, high),
                                irFindDataBlocksBetween(i, low, high),
                                BlocksOfIR(i, BlocksSeen), low, high)

(* Iterating over the blocks of a section, a module or an IR meets each block
   below it once; it meets them in the documented order if every interval has
   an address and no block is behind the end of the address space. *)
Meets(seq, B) ==
    IF InOrder(B) THEN Yields(seq, B) ELSE ToSet(seq) = B /\ IsInjective(seq)

BlockIterationComplete ==
    LET FamilyMeets(all, code, data, B) ==
            Meets(all, B) /\ Meets(code, B \cap CodeBlocks) /\ Meets(data, B \cap DataBlocks)
    IN  /\ \A b \in ByteIntervals :
             FamilyMeets(intervalBlocks(Blocks, b), intervalCodeBlocks(b),
                         intervalDataBlocks(b), children[b])
        /\ \A s \in Sections :
             FamilyMeets(sectionBlocks(Blocks, s), sectionCodeBlocks(s),
                         sectionDataBlocks(s), BlocksIn(s))
        /\ \A m \in Modules :
             FamilyMeets(moduleBlocks(Blocks, m), moduleCodeBlocks(m),
                         moduleDataBlocks(m), BlocksBelow(m))
        /\ \A i \in IRs :
             FamilyMeets(irBlocks(Blocks, i), irCodeBlocks(i),
                         irDataBlocks(i), BlocksOfIR(i, BlocksBelow))

IntervalsOf(m) == UNION {children[s] : s \in children[m] \cap Sections}

(* seq yields, each once and in address order, all of surely and otherwise only
   elements of possibly. *)
YieldsWithin(seq, surely, possibly) ==
    surely \subseteq ToSet(seq) /\ ToSet(seq) \subseteq possibly /\ Yields(seq, ToSet(seq))

(* The intervals of B that have bytes in the map of their section and only
   siblings with an address. *)
Findable(B) ==
    {b \in B : Mapped(b) /\ size[b] > 0 /\ \A c \in children[parent[b]] : address[c] # Null}

(* The iterations over the sections and byte intervals of modules and IRs meet
   each of them, and the queries of an IR for sections find those that are there.
   What the queries for byte intervals find is right, whatever has no address; and
   no interval with bytes is missed, unless it reaches the top of the address space
   or it or a sibling of it has no address.  Module.hpp:961 and 995, "Find all the
   intervals", do not mention these exceptions. *)
ContainerQueriesExact ==
    \A i \in IRs :
        LET M == children[i]
            S == UNION {children[m] \cap Sections : m \in M}
            T == {s \in S : extent[s] # Null}
            B == UNION {children[s] : s \in S}
        IN  /\ Yields(irSections(i), S)
            /\ Yields(irByteIntervals(i), B)
            /\ \A m \in M : Yields(moduleByteIntervals(m), IntervalsOf(m))
            /\ \A a \in Addr :
                 /\ Yields(irFindSectionsOn(i, a), {s \in T : a \in Points(extent[s])})
                 /\ Yields(irFindSectionsAt(i, a), {s \in T : extent[s].lower = a})
                 /\ YieldsWithin(irFindByteIntervalsOn(i, a),
                                 {b \in Findable(B) : Covers(b, a)},
                                 {b \in B : Mapped(b) /\ Covers(b, a)})
                 /\ YieldsWithin(irFindByteIntervalsAt(i, a),
                                 {b \in Findable(B) : address[b] = a},
                                 {b \in B : address[b] = a})
            /\ \A low, high \in Addr :
                 LET In(C) == {b \in C : low <= startOf(b) /\ startOf(b) < high}
                 IN  /\ low <= high =>
                          Yields(irFindSectionsBetween(i, low, high),
                                 {s \in T : low <= extent[s].lower /\ extent[s].lower < high})
                     /\ Forward(low, high) =>
                          /\ \A m \in M :
                               YieldsWithin(moduleFindByteIntervalsBetween(m, low, high),
                                            In(Findable(IntervalsOf(m))), In(IntervalsOf(m)))
                          /\ YieldsWithin(irFindByteIntervalsBetween(i, low, high),
                                          In(Findable(B)), In(B))

SymExprsOf(B) == {e \in B \X Addr : e[2] \in SymExprs[e[1]]}

(* findSymbolicExpressionsAt with one address is exact at every level, whether
   or not the sections have extents; the iterations meet every expression. *)
SymbolicExpressionsAtExact ==
    \A i \in IRs :
        LET B == UNION {IntervalsOf(m) : m \in children[i]}
            At(C, a) == {e \in SymExprsOf(C) : addressKey(e) = <<a>>}
        IN  /\ ToSet(irSymbolicExpressions(i)) = SymExprsOf(B)
            /\ IsInjective(irSymbolicExpressions(i))
            /\ \A a \in Addr :
                 /\ Yields(irFindSymbolicExpressionsAt(i, a), At(B, a))
                 /\ \A m \in children[i] :
                      Yields(moduleFindSymbolicExpressionsAt(m, a), At(IntervalsOf(m), a))

-----------------------------------------------------------------------------

(* ByteInterval.hpp on findSymbolicExpressionsAt(Low, High): "A range of
   SymbolicExpression objects that are between the addresses."  Intervals whose
   addresses do not wrap are enough to refute it. *)
SymbolicExpressionsInRange ==
    \A b \in ByteIntervals : \A low, high \in Addr :
        Mapped(b) /\ low < high =>
            Yields(intervalFindSymbolicExpressionsBetween(b, low, high),
                   {e \in SymExprsOf({b}) : /\ address[b] + e[2] < AddrLimit
                                            /\ low <= address[b] + e[2]
                                            /\ address[b] + e[2] < high})
=============================================================================
