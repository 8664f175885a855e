# GTIRB in TLA+

GTIRB is an intermediate representation for binaries: a library (C++ first, with
Python, Java and Common Lisp versions) that keeps a tree of nodes for a binary, a
control-flow graph over some of them, a number of indices derived from both, and a
file format. This directory holds TLA+ models of the C++ library (`src/include/gtirb`
and `src/src`), TLC configurations that check them on small instances, and proofs
that TLAPS checks.

The library is sequential: it starts no thread, waits for nothing and retries
nothing by itself. What is hard in it is that almost every operation changes several
pieces of derived state, in containers of several nodes, through chains of
callbacks, and that the keys of its ordered indices are *computed* from nodes that
clients can change at any time and in any order. So the models are about long
sequences of legal calls, the order of steps inside one call, edits of parts that are
attached to nothing at the moment, loads that fail half-way, and values at the end of
their range.

## Inventory

| Component | State | Operations | Interaction |
|---|---|---|---|
| Ownership tree (`IR`, `Module`, `Section`, `ByteInterval`, blocks, `ProxyBlock`, `Symbol`) | parent pointers, containers, observer pointers | `addX` and `removeX` at each level | a child reports to the observer of its parent, in a chain that ends at the IR |
| CFG (`CFG.cpp`) | vertices, labelled edges, node table | add and remove vertices and edges | vertices are added and removed by the IR's observer, and by clients |
| Address maps (`Section`, `Module`) | `ByteIntervalAddrs`, `Extent`, `SectionAddrs` | updated by moves, `setAddress`, `setSize` | an interval tells its section, a section its module |
| Symbols (`Symbol`, `Module::Symbols`) | payload, `AtEnd`, four indices | `setName`, `setAddress`, `setReferent`, `setAtEnd`, `addSymbol`, `removeSymbol` | moves of blocks make the module re-file symbols |
| Byte intervals (`ByteInterval`) | `Blocks`, `BlockOffsets`, symbolic expressions | `addBlock`, `removeBlock`, size and decode mode of blocks | a block reports changes of size and mode to its interval |
| Serialization (`toProtobuf`, `fromProtobuf`, `save`, `load`) and `Context` | UUID table | save, load, JSON | a load creates nodes and resolves references through the UUID table |
| Queries (`find...On`, `find...At`, iterations, `MergeSortedIterator`) | the heap of an iterator | | read the maps above; a container asks its children and merges their answers |
| Bytes (`ByteInterval`) | `Size`, `Bytes`, of which only a prefix of the interval is stored | `setSize`, `setInitializedSize`, read and write through references, insert, erase | `setSize` also changes the address maps |
| AuxData | typed tables, type registry, codecs | register, add, get, remove, save, load | saved with IRs and modules; tools with other registrations read the file |
| Python, Java, Common Lisp APIs | trees, UUID caches, lazy interval trees of their own | as above | share only the file format |

What makes each of them correct: containers and pointers agree; the graph of an IR has
exactly the vertices it should and loses no edge it should keep; a map or an index
answers what a search through all nodes would; the bytes of an interval are an array;
a loaded IR is the saved one, and loading does not disturb what was there; a table
survives the tools that do not know it. `PROJECT.json` lists the hazards line by
line, with the properties that would notice.

## Modules

| Module | Models | Run by |
|---|---|---|
| `Cfg` | `CFG.cpp`: operators on a graph value | with `GtirbTree` |
| `GtirbTree` | the tree, the observer chain and the graphs of the IRs | `MCTree` |
| `CommonFacts` | lemmas the proofs share: induction, least elements, sums in a width, sequences, finite sets | TLAPS |
| `QueriesProofs` | theorems about `GtirbTree`, `AddressMaps` and `Queries`, each on top of the one before | TLAPS |
| `SymbolIndexProofs`, `BlockIndexProofs`, `LoadingProofs`, `MergeSortedProofs`, `ByteVectorProofs`, `AuxDataProofs` | theorems about the modules they are named after | TLAPS |
| `AddressMaps` | extends `GtirbTree` with addresses, sizes, extents and interval maps | `MCMaps` |
| `SymbolIndex` | the by-address index of a module's symbols | `MCSymbols` |
| `BlockIndex` | `ByteInterval::BlockOffsets` | `MCBlocks` |
| `Loading` | save, load and the UUID table | `MCLoading` |
| `MergeSorted` | `MergeSortedIterator`, step by step; implements `SortedStream` | `MCMerge` |
| `Queries` | extends `AddressMaps`: the find and iteration functions of all levels | `MCQueries` |
| `ByteVector` | size, initialised bytes and their operations, each compared with that of `Contents` | `MCBytes` |
| `AuxData` | type registry, tables, files; implements `AuxTables` | `MCAuxData` |
| `AuxCodec` | `auxdata_traits`: the bytes of a value and back; `MCAuxData` puts it into `AuxData` | `MCAuxData` |

`SortedStream`, `Contents` and `AuxTables` say what an iteration, the bytes of an
interval and auxiliary data promise to a client who does not know how they are kept.
`SortedStream` and `AuxTables` are specifications, each a `PROPERTY` of the run of the
module that implements it. `Contents` has the operations of an array without a
next-state relation: that *some* operation explains a step would say little, since a
suitable insertion explains almost any; `OperationsAreTheArrays` compares each call
with its counterpart.

### Cfg and GtirbTree

`parent`, `children` and `cfg` are the parent pointers, all the containers, and the
graphs. A node gets its observer in the same `setParent` call as its parent, so the
chain of observers is the chain of parents, and `ModuleIR`, `SectionIR` and
`ByteIntervalIR` say who hears of a change. Each `add` and `remove` operation is one
action: it reports the code blocks and proxy blocks that come or go
(`MoveCfgNodes`) and changes pointers and containers (`Reparent`). Calls that return
`NoChange` are stuttering steps. `AddModule` has no check for the present owner
because `IR::addModule` has none: adding a module to the IR it is in takes its
vertices, and with them their edges, out of the graph and puts the vertices back.
Clients edit edges through `IR::getCFG`, and vertices too for the nodes in
`HandEdited`.

How often a parallel edge occurs is left out: each removal removes all edges it
matches. Setting a label on one of several parallel edges is therefore a choice
between two outcomes.

### AddressMaps

The interval maps are the functions they denote. Addresses are `0 .. AddrLimit - 1`
and the upper bound of a range is taken modulo `AddrLimit`, as in the code, where
`First + Size` is a 64-bit sum: a range that ends at the top is empty. Sections are
told of a change of address or size around the change; the extent follows, and around
that the module's map. The order in which a section without observer, a detached
interval and an attached one are updated is that of `changeExtent` and
`updateExtent`. Symbols, and the graph edits, do not touch this state and are left
out of `Next`.

### SymbolIndex

The by-address index is a balanced tree; the model has its in-order sequence. Its key
is `Symbol::getAddress`, computed at every comparison. Inserting into a sequence that
is out of order may end in every gap whose two neighbours are in order with the new
key: which one depends on the shape of the tree. `Refile` is
`moveCodeBlocks`/`moveDataBlocks` (erase the symbols of the blocks, insert them again
as a range, for which Boost uses a hint); `Resync` is `modify` with an empty callback.
`Without` and `InsertAll` are recursive functions over positions rather than folds, so
that they can be reasoned about. Some practices of clients leave the index out of
order (see Observations); the model has them all, and `Unannounced` names them in the
property. One module, section and interval suffice, as the notification chain is
`GtirbTree`'s subject.

### BlockIndex

`BlockOffsets` maps offsets to multisets of pointers ordered by offset, size, kind,
decode mode and UUID, read through the pointers. `setSize` stores the new size first
and then has the interval subtract and add the block, so both searches compare with a
key that the tree was not ordered by; `setDecodeMode` does not update the multisets at
all. Erasing by key removes what lies between a lower and an upper bound; the model
allows each pair of bounds that is consistent with the comparisons at the gaps where
the searches end. `Reordering` says whether a client may make changes that swap two
blocks at one offset.

### Loading

`heap` is the list of nodes of a context in the order of creation, `uuidMap` the UUID
table, `file` the saved message, `task` what a load has still to do. `LoadSteps`
spells out the order in which the nested `fromProtobuf` functions create, fill and
attach nodes and resolve references: proxy blocks, sections with intervals and blocks,
symbols with their referents, symbolic expressions, entry point, module by module;
then the graph, and last the version. The graph gets an edge if both ends are found in
the context and are vertices of this graph (`GraphVertices`): blocks of the new IR,
which `addModule` has made vertices, or nodes in the list of vertices of the file. A
step that fails ends the load and leaves what it has created in the context. Between
loads the client saves an IR, gets a damaged file, one of another version or one
without a list of vertices (`Unlist`), so that an end of an edge that lies outside of
the IR can be in the context and still be no vertex, or starts with a new context. The
file's tree is fixed by the constants, its references vary; `Nestable` and `Nameable`
say which kinds of nodes a node may contain and refer to, and `Built` is the order in
which the client created the nodes of the original IR. Where the code asserts that a
vertex of the graph is known, the model has the outcome of a build without assertions:
the load fails. AuxData, bytes, names and referents with malformed UUIDs are left out.

### MergeSorted and SortedStream

`Ranges` is the vector of the iterator; a range is what is left of it. The heap
functions of the standard library are modelled by what they guarantee, some
arrangement with the heap property (`Heaps`), so every shape of heap is explored. The
initial states are all ways to distribute elements, some with equal keys, over sorted
ranges, some empty. The refinement maps `remaining` to the union of the ranges.

### Queries

The functions are operators over the state of `AddressMaps`; an answer is the sequence
of nodes an iteration over it yields. `ByKey` is the order of a container, `MergeStep`
one increment of a merged iteration, `MergeOver` a merged iteration over the
answers of all children, `MergeNear` the form that range queries have: children on the
low address, and children that start behind it, by `Low + 1`. A pair of iterators in
the wrong order is `Undefined`. The three families for blocks, code blocks and data
blocks share their code in the model (the parameter `K`) as they do, up to a filter,
in the headers; each function of the headers has an operator of its own. The steps are
those of `AddressMaps`: intervals get, change and lose addresses and sizes, and
sections, intervals and blocks move.

The properties compare each function with the set a full search finds and with the
documented order. They say what the functions do at the edges too: a section only
finds blocks where the byte asked for lies inside their interval, and the queries for
blocks skip sections without an extent (`BlocksSeen`). `ContainerQueriesExact` has two
bounds for the queries for byte intervals. What they yield is right: only intervals
that are on or at the address or in the range, whatever has an address and whatever has
none. And they miss no interval with bytes, unless it reaches the top of the address
space or it or a sibling has no address (`Findable`). Intervals outside of `Findable`
may be missed, against the documentation ("all the intervals"); the property neither
demands them nor rules them out. Range queries of modules and IRs are compared for
`Forward` ranges, which are the non-empty ones and those that begin at the highest
address, where `Low + 1` is zero; for other empty ranges see Observations.

### ByteVector and Contents

`Bytes` is the stored prefix, `Size` the size of the interval. A reference reads and
writes an element of several bytes, which may lie behind the prefix or across its end;
`endian_flip` is the conversion between the byte orders of vector and elements.
Insertion is modelled as the code does it: `setSize`, zeros if the position is inside
the prefix, then one assignment per element. The array that clients see is `Content`,
`resize(Bytes, Size)`. `OperationsAreTheArrays` says for each operation and all its
arguments what it does to that array, with the operations of `Contents`: in particular,
what an extension adds is zero. `ReadsSeeTheArray` relates what a reference and an
iteration yield to it.

### AuxData, AuxCodec and AuxTables

Several tools, each with its registry and one container, exchange a file. An entry is
raw bytes or a typed object; `loaded` decides which, by registration, type name and
whether the bytes can be read. The assertions about registration are taken as the
contract of tools. A file may also come from another producer (`Foreign`): with too
few bytes, with a key twice, with bytes left over. In the refinement a table is the
value its bytes stand for with its type name, and the bytes themselves if they stand
for none. `call` is a history variable: the last call that sets, empties, saves or
loads tables, with its arguments. It is a variable of `AuxTables` too, so that a load
in the model can only be the load of `AuxTables`, after which the tool holds exactly
what is in the file, and a save only its save; neither can pass for a tool's own
change of a table. Bytes behind the value are not part of its meaning: a typed load
ignores them and the next save drops them.

`AuxCodec` describes types by `Desc` and has one case per kind of
`auxdata_traits`: fixed-size values in little-endian order, sequences, sets, mappings,
tuples and variants, with the checks on counts and indices. A byte has `Base` values
and a count `CountWidth` bytes. It is recursive, so it is only model-checked.

## Runs

Deadlock is checked in all runs but `merge`; the library always accepts another call,
so there is none.

| Run | Distinct states | Shows |
|---|---|---|
| `tree` | 120672 | `TreeTypeOK`, `OwnershipAgrees`, `CfgMirrorsTree`, `EdgesJoinVertices`, `UnmovedEdgesSurvive` for 2 IRs, 2 modules, 1 section, 2 intervals, 1 code block, 1 data block, 2 proxy blocks (one edited by hand), 1 symbol, at most 2 edges in a graph |
| `maps` | 30690 | `SectionMapExact`, `ExtentIsHull`, `ModuleMapExact`, `ModuleQueryWhenAllAddressed` for 2 modules, 2 sections, 2 intervals, 4 addresses, sizes 0 to 2 |
| `symbols` | 412416 | `AnnouncedChangesKeepOrder` for 3 symbols, a code and a data block, 2 offsets, 2 sizes |
| `blocks` | 16384 | `FindsBlocksOnOffset`, `BlocksOnOffsetInOrder` for 3 blocks, 5 offsets, sizes 0 to 3, 2 modes, with changes that keep the order of blocks at one offset |
| `blocks_resize` | — | violation of `FindsBlocksOnOffset` once a resize may swap two blocks at one offset |
| `loading` | 99805 | `LoadedTree`, `LoadedReferences`, `LoadOutcome`, `OldNodesUntouched`, `LoadableLoads` for an IR with two modules and up to two loads |
| `merge` | 13183 | `FrontIsLeast`, `EachElementOnce` and the refinement `MergesSorted` for 5 elements with 3 keys in up to 3 ranges |
| `queries` | 2592 | `FindBlocksOnExact`, `FindBlocksAtExact`, `FindBlocksBetweenExact`, `BlockIterationComplete`, `ContainerQueriesExact`, `SymbolicExpressionsAtExact` for 2 modules, 2 sections, 2 intervals, 3 blocks, 5 addresses; one section, one interval and one block move |
| `queries_symexprs` | — | violation: a range that begins below the interval misses symbolic expressions |
| `bytes` | 247 | `ReadsSeeTheArray` and `OperationsAreTheArrays` for up to 6 bytes, elements of 1 and 2 bytes, insertions of up to 2 elements |
| `auxdata` | 21268 | `TypedAccess`, `ObjectsReadBack` and the refinement `TablesSurvive` for 2 tools, one name and 3 schemata: two C++ types with one type name, and another type |
| `auxdata_variant` | — | violation of `ObjectsReadBack` for a variant whose index exceeds the bytes of its value |

Why the bounds are enough for the interesting cases. In `tree` modules, sections,
proxy blocks, symbols and blocks can each move between two owners, byte intervals in and
out of one; an edge can join two nodes that move independently. In `maps` two intervals
can overlap, touch, lie apart, have size zero, lack an address and reach the top of
the address space; two sections can swap them, and two modules the sections. In
`symbols` a symbol that moves, one that does not and one in between are needed to put
an index out of order. In `blocks` two blocks share an offset and a third overlaps
them. In `loading` the two modules give references backward, forward and out of the
IR, and two loads give a retry after a failure and a second copy. In `merge` three
ranges are the least for which the heap has a shape. In `queries` both intervals can
overlap across sections and modules, a block can lie across the end of its interval,
and 5 addresses let an interval and a block reach the top. In `bytes` a two-byte
element can lie before, across and behind the end of the initialised bytes, on both
sides of an insertion. In `auxdata` a table can pass from a tool that knows its type
through one that does not, knows another, or knows the same type as another C++ class,
and back.

Symmetry is used for nodes of one kind that no constant tells apart, in runs without
liveness properties.

Fairness. `Loading` has weak fairness of `LoadStep`: a load is one call, which runs
until it returns. `MergeSorted` has weak fairness of a step of the iteration: the
specification is of a loop over the merged range, which goes on until the end; that it
ends is part of `SortedStream`. No client is obliged to do anything else. `merge` does
not check deadlock, since an iteration stops when it is through.

### What the violations mean

Each is a disagreement between the code and the documentation in its headers, quoted
in `PROJECT.json`. The passing runs state what does hold instead: `blocks` for changes
that keep the order of the blocks at one offset, `SymbolicExpressionsAtExact` for
single addresses, and `auxdata` for variants whose index is at most the size of their
smallest value.

### Observations

These came up while modelling. The models behave as the code does; the passing
properties are stated so that they hold, and the cases are recorded here.

* `removeEdge(From, To, Label)` (`src/src/CFG.cpp:155`) compares labels of all edges
  that leave `From` and ignores `To`; `src/include/gtirb/CFG.hpp:262` says "between
  the source and target nodes".
* A section with one interval without address has no extent, so every query of a
  module or IR that starts from `findSectionsOn` misses all its intervals and blocks.
  `ModuleQueryWhenAllAddressed`, `BlocksSeen` and `Findable` state the limit.
  `src/include/gtirb/Module.hpp:961` says "Find all the intervals that contain the
  address specified".
* An interval of size zero may lie at an address its section's extent does not
  contain; `Module::findByteIntervalsAt` then misses it at its own address,
  although `src/include/gtirb/Module.hpp:995` says "Find all the intervals that start at
  an address".
* The upper bound of a range that ends at the top of the address space wraps to zero
  (`src/include/gtirb/Addr.hpp:240`); such an interval is in no map.
  `Mapped` excludes it.
* `ByteInterval::setAddress` on an interval with code and data blocks re-files the
  symbols in two passes, the first into an index that is out of order, and can leave
  it so; `Symbol::setAtEnd`, resizing a block that a symbol marks the end of, removing
  a block and edits of detached parts change keys without telling the module.
* `Module::findSectionsAt(Low, High)` does not raise `High` to `Low` as the interval's
  and the section's functions do, so an empty range gives two iterators in the wrong
  order, also in the queries of modules and IRs built on it for `[Low, Low)`, where
  `Low + 1` exceeds `High`.
* The blocks of intervals without addresses come in the order of their offsets and not
  in address order, which a merge over several such intervals does not repair.
* `ByteInterval::Create` accepts more initialised bytes than the size
  (`src/include/gtirb/ByteInterval.hpp:272`), although `getInitializedSize` says it
  "will never be larger". The constant `Oversized` lets such states in; with it the type invariant fails initially.
* An iteration over `bytes<T>()` ends where its index equals the size, which it never
  does if the size is not a multiple of `sizeof(T)`.

## Proofs

A theorem holds for every value of the constants that the named assumptions of its
module admit; TLC evaluates the assumptions on every run.

### QueriesProofs, part I: the tree

For every set of nodes, every assignment of kinds, every set of labels, of hand-edited
nodes and every bound on edges:

| Theorem | Statement |
|---|---|
| `TreeInvariant` | `TreeSpec => []TreeInv` |
| `TreeTypeCorrect` | `TreeSpec => []TreeTypeOK` |
| `TreeOwnership` | `TreeSpec => []OwnershipAgrees` |
| `CfgFollowsTree` | `TreeSpec => []CfgMirrorsTree` |
| `EdgesNeverDangle` | `TreeSpec => []EdgesJoinVertices` |
| `MovesDropOnlyMovedEdges` | `TreeSpec => UnmovedEdgesSurvive` |

The assumptions are `LabelAssumption` (the empty label is a label) and
`NodeAssumption` (the null pointer is not a node, every node has a kind).

The inductive invariant `TreeInv` is the conjunction of the four invariants. None of
the interesting ones is inductive alone: the blocks a removal reports are collected
from the containers, while a block's home is read off the parent pointers, so
`CfgMirrorsTree` needs `OwnershipAgrees`, which needs the kinds of parents from
`TreeTypeOK`. The argument goes through one lemma, `RestructureMoves`: each of the
twelve operations moves one node `n` from its owner to another or to none, reports
exactly the CFG nodes at or below `n`, and reports them to the IRs above the old
and the new owner. What moves of that form do to the pointers, the graphs and the
edges is then proved once instead of per operation; the hand edits are treated
separately.

### QueriesProofs, part II: the address maps

For every number of nodes and every width of addresses:

| Theorem | Statement |
|---|---|
| `MapsRunOnTheTree` | `Spec => TreeSpec` |
| `MapInvariant` | `Spec => []MapInv` |
| `MapsTypeCorrect` | `Spec => []TypeOK` |
| `SectionMapsExact` | `Spec => []SectionMapExact` |
| `ExtentsAreHulls` | `Spec => []ExtentIsHull` |
| `ModuleMapsExact` | `Spec => []ModuleMapExact` |
| `ModuleQueriesExact` | `Spec => []ModuleQueryWhenAllAddressed` |

`AddrAssumption` says that sizes are below the number of addresses and that no address
and no extent is the null value. The first theorem is a refinement: the steps of the
maps are, seen from the tree, steps of the tree, so that `TreeInv` is available here.
The inductive invariant `MapInv` is `TreeInv` and the invariants of the table, where
each needs those before it: what an operation takes out of a map is what the parent
pointers, addresses and extents say is in it, and an extent is computed from the map of
the intervals. The order of the updates inside `changeExtent` matters here: the map of
the module is only exact again after the last of them.

### QueriesProofs, part III: the queries

For every finite set of nodes, every tree to start from, every width of addresses and
every choice of offsets, sizes and symbolic expressions:

| Theorem | Statement |
|---|---|
| `MapsOfQueries` | `QSpec => []MapInv` |
| `BlocksOnAddress` | `QSpec => []FindBlocksOnExact` |
| `BlocksAtAddress` | `QSpec => []FindBlocksAtExact` |
| `BlocksInRange` | `QSpec => []FindBlocksBetweenExact` |
| `EveryBlockIterated` | `QSpec => []BlockIterationComplete` |
| `ContainersFound` | `QSpec => []ContainerQueriesExact` |
| `ExpressionsAtAddress` | `QSpec => []SymbolicExpressionsAtExact` |

To the assumptions of parts I and II comes `QueryAssumption`: nodes are finitely many
and no node is a pair of an interval and an offset, UUIDs are distinct, and a block
ends at an offset that is a number of the address width.

The queries change nothing, so `MapInv` is the only inductive invariant needed; the
work is in what the queries compute from a state that satisfies it. There are three
steps.

1. A merge. Each `MergeStep` moves one element from the ranges to the answer. It keeps
   the elements, that each occurs once, and the order, if the ranges have no element in
   common and are in order themselves; and `Merge` takes as many steps as there are
   elements. A container in the order of its keys exists for every finite set, by
   induction over the set.
2. What a child answers. The blocks of an interval are in the order of their offsets.
   That is the order of their addresses as long as none wraps. Iterations say so
   (`InOrder`); a query for addresses only yields blocks at offsets where none does.
3. Which children are asked. A node has one parent, so the answers of two children are
   disjoint. `SectionMapExact` and `ModuleMapExact` say that the children on an address
   are those that the maps hold, and `ExtentIsHull` that a section whose interval covers
   the address is among them. For a range that is not empty, a block that starts in it
   is in a child that is on the first address or in one that starts behind it, and no
   child is both: that the second search begins at `Low + 1` leaves out nothing and
   repeats nothing. For the highest `Low`, where `Low + 1` is zero, nothing is in the
   range, and the children, asked for it, answer nothing.

### ByteVectorProofs

For every byte type, size, element width and both byte orders, under the condition
`~Oversized`, without which the type invariant is false initially (see Observations):

| Theorem | Statement |
|---|---|
| `BytesTypeCorrect` | `Spec => []TypeOK` |
| `ReadsAreExact` | `Spec => []ReadsSeeTheArray` |
| `OperationsAreExact` | `Spec => OperationsAreTheArrays` |

`TypeOK` is inductive here. The work is in the loops: an insertion copies elements one
by one into a vector it has moved before, and is compared with a concatenation. Each
operation has a lemma (`SetSizeStep` to `EraseStep`) that gives both its effect on the
array and the type of what it leaves.

### BlockIndexProofs

For every set of blocks, offsets, sizes and modes, and wherever a search in a multiset
that is compared with changed keys may end, under the condition `~Reordering`: no change
of size or decode mode swaps two blocks at one offset. Run `blocks_resize` shows that
the condition is needed.

| Theorem | Statement |
|---|---|
| `IndexInvariant` | `Spec => []IndexInv` |
| `IndexTypeCorrect` | `Spec => []TypeOK` |
| `BlocksOnOffsetExact` | `Spec => []FindsBlocksOnOffset` |
| `BlocksOnOffsetOrdered` | `Spec => []BlocksOnOffsetInOrder` |

`IndexInv` says of every offset that its multiset holds exactly the blocks that cover it
and that *every* pair in it is in order. Order of neighbours alone is not enough: while
one key has changed, the erasure searches with comparisons on both sides of the
block, and that it finds it and nothing else needs the order of blocks that are not
neighbours.

### SymbolIndexProofs

For every set of symbols and blocks, every width of addresses, and wherever the
searches in the tree of the index may end:

| Theorem | Statement |
|---|---|
| `SymbolIndexTypeCorrect` | `Spec => []TypeOK`: among others, no symbol is in the index twice |
| `AnnouncedOrder` | `Spec => AnnouncedChangesKeepOrder` |

`TypeOK` is inductive. The argument for the order: all symbols whose keys an announced
change affects leave the index before the first is inserted again, so what is left is in
order under the new keys as well as the old ones, and each insertion, with a hint or
without, searches a tree that is in order. A gap whose neighbours are in order with
the new key is then in order with everything (`OrderedInsertion`). A second pass over
other blocks (`setAddress`) breaks the argument, since the first pass inserts into an
index where the symbols of the second are out of order; `Mixed` excludes it.

### LoadingProofs

For trees of every size, every set of references and edges, every order in which the
client has created its nodes, and every sequence of saves, loads, failed loads, damaged
files and new contexts:

| Theorem | Statement |
|---|---|
| `LoadInvariant` | `Spec => []LoadInv` |
| `LoadTypeCorrect` | `Spec => []TypeOK` |
| `LoadedTreesComplete` | `Spec => []LoadedTree` |
| `LoadedReferencesExact` | `Spec => []LoadedReferences` |
| `LoadOutcomeExact` | `Spec => []LoadOutcome` |
| `OldNodesSurvive` | `Spec => OldNodesUntouched` |

`TreeAssumption` says that messages are nested by kind and that no UUID occurs twice in
a file, `ClientAssumption` that references are to nodes of the kinds they may name and
that every node has been created.

The proof has two halves. The first is about the order of work alone. `LoadSteps` is
built from five levels of nested loops; the lemma `LoadPlan` says in one place what
matters of it: which steps it contains, each once; that a node and its owner are created
before the node is handed over; that the references of `u` are looked up after the node
that they name has been created if that node is in the same module or in an earlier one,
and before it if it is in a later one; that the graph and then the version come last.
It is proved level by level (`FamilyFlatten`, `ModuleSequel`) with one lemma on
concatenation. The second half is the invariant. `LoadInv` describes a load in the
middle in terms of the *set* of steps that are left: the nodes above `start.len` are those
created so far, the UUID table leads to them and for other UUIDs to what it led to at the
start; owners and references are those of the steps done; no check has failed. The four
invariants follow from it when no step is left. That owners and old IRs stay
whole (`Whole`, `Closed`) is part of it because `Save` writes the nodes it finds below an
IR, which have to be there, also after a load that has failed half-way. Which edges the
graph gets needs one more fact: when it is read, the blocks below the new IR are exactly
those of the file's tree, so that with the listed nodes they are the vertices
(`VertexIsListed`, `EdgesFound`).

### MergeSortedProofs

For every finite set of elements, every key function and every number of ranges:

| Theorem | Statement |
|---|---|
| `MergeInvariant` | `Spec => []MergeInv` |
| `MergeTypeCorrect` | `Spec => []TypeOK` |
| `FrontAlwaysLeast` | `Spec => []FrontIsLeast` |
| `EveryElementOnce` | `Spec => []EachElementOnce` |
| `MergeRefinesStream` | every step is a step of `SortedStream` |

`FrontIsLeast` is not inductive: `MergeInv` adds that the whole vector has the heap
property, that ranges are sorted, not empty and have no element in common. From the heap
property of parent and child it follows by induction along the path to the root that the
first range has the least front.

### AuxDataProofs

For every number of tools, names and schemata:

| Theorem | Statement |
|---|---|
| `AuxInvariant` | `Spec => []AuxInv` |
| `AuxTypeCorrect` | `Spec => []TypeOK` |
| `TypedAccessExact` | `Spec => []TypedAccess` |
| `TablesPassUnharmed` | `Spec => TablesSurvive`, the refinement of `AuxTables` |

All are under the condition `CodecFaithful`: what is written for one value is read
back as that value, with nothing left over. `ObjectsReadBack` says the same of the
objects that tools hold: run `auxdata` checks it for the codec of `AuxCodec`, and
`auxdata_variant` shows a type for which it is false. `NullAssumption` says that the
null value is neither a table nor a meaning. `AuxInv` adds that a registration comes
before every entry, as `locked` has it, and that an entry is raw only if its
registered type cannot read it; without this a raw entry might be one whose typed
access should succeed.

### How induction is done

The library's induction theorems take a predicate as an argument, which the provers here
cannot instantiate. `CommonFacts` states induction about a *set* of numbers
(`SetInduction`) or of finite sets (`FiniteInduction`), and the existence of recursively
defined functions on `0 .. n` (`FiniteRecursion`); the loops of `ByteVector`, the paths
in the heap of `MergeSorted`, the nested loops of `Loading`, the re-filing of symbols,
sorting and merging in `Queries` and the folds are dealt with in this way.

### Only model-checked

* Liveness: `LoadableLoads`, and that the stream of `MergesSorted` ends.
* `ObjectsReadBack`: the codec is recursive over types, and the theorems about
  `AuxData` take what it says of a codec as the condition `CodecFaithful`.

All other properties of the passing runs are theorems.

## Not modelled

* Queries by name (`findSections(Name)`, `findSymbols`) and iterations over symbols,
  proxy blocks and modules, which no address map serves.
* Editing the map of symbolic expressions of an interval, which is plain `std::map`;
  the kinds and attributes of symbolic expressions, which are plain data.
* The name and referent indices; their keys are stored in the symbol, apart from
  which the same `modify` calls keep them.
* Allocation, casting, error values, build files, generated protobuf code.
* The Python, Java and Common Lisp APIs, which are implementations of their own and
  share only the file format.
* Threads: the library leaves synchronisation to its clients
  (`src/src/Node.cpp:21`).

## Plan

Done: all modules above, and the proofs about all of them but the codec. Next: the
Python API, with its UUID cache and its lazy interval trees.
