---------------------------- MODULE SymbolIndex ----------------------------
(***************************************************************************)
(* The by_address index of a module's symbols.                             *)
(*                                                                         *)
(* Module::Symbols is a multi-index container whose by_address index is a  *)
(* balanced tree ordered by Symbol::getAddress.  That key is not stored:   *)
(* it is computed, at every comparison, from the symbol's payload, from    *)
(* the block it refers to, and from the byte interval that holds the       *)
(* block.  The index is in order only if somebody re-files a symbol        *)
(* whenever one of these changes, which is the job of the observers.       *)
(*                                                                         *)
(* The tree is represented by its in-order sequence.  A descent that looks *)
(* for the place of a key ends at a gap whose two neighbours are in order  *)
(* with the key.  When the sequence is in order that gap is unique up to   *)
(* equal keys; when it is not, the gap depends on the shape of the tree,   *)
(* and the model allows each.                                              *)
(*                                                                         *)
(* One module, one section, one byte interval.                             *)
(***************************************************************************)
EXTENDS Integers, Sequences, SequencesExt

CONSTANTS Symbol, CodeBlock, DataBlock,
          Null,         \* std::nullopt, the null referent
          AddrLimit,    \* the number of addresses, 2^64 in the code
          SymbolAddr,   \* the addresses symbols are given
          BaseAddr,     \* the addresses the byte interval is given
          Offset,       \* the offsets blocks are put at
          BlockSize     \* the sizes blocks are given

ASSUME SymbolAssumption ==
    /\ AddrLimit \in Nat \ {0}
    /\ SymbolAddr \cup BaseAddr \subseteq 0 .. AddrLimit - 1
    /\ Offset \subseteq Nat /\ BlockSize \subseteq Nat

Block == CodeBlock \cup DataBlock

VARIABLES payload,     \* Symbol::Payload: Null, an address or a block
          atEnd,       \* Symbol::AtEnd
          index,       \* the by_address index of Module::Symbols
          offset,      \* the offset of a block in the byte interval, Null outside
          blockSize,   \* Size of a block
          address,     \* ByteInterval::Address
          inSection,   \* the byte interval is in the section
          inModule     \* the section is in the module

symVars   == <<payload, atEnd>>
blockVars == <<offset, blockSize>>
placeVars == <<address, inSection, inModule>>
vars      == <<symVars, index, blockVars, placeVars>>

-----------------------------------------------------------------------------

(* CodeBlock::getAddress and DataBlock::getAddress. *)
blockAddress(b) ==
    IF offset[b] = Null \/ address = Null THEN Null
    ELSE (address + offset[b]) % AddrLimit

(* Symbol::getAddress. *)
getAddress(s) ==
    IF payload[s] \notin Block THEN payload[s]
    ELSE IF blockAddress(payload[s]) = Null THEN Null
    ELSE (blockAddress(payload[s]) + (IF atEnd[s] THEN blockSize[payload[s]] ELSE 0))
             % AddrLimit

(* The order of std::optional<Addr>: nothing before any address. *)
AtMost(k, l) == k = Null \/ (l # Null /\ k <= l)

Key == [s \in Symbol |-> getAddress(s)]

(* Gap i of seq is before element i.  A symbol may be linked there if it is in
   order with both neighbours; K gives the keys. *)
Fits(seq, i, s, K) ==
    /\ i > 1 => AtMost(K[seq[i - 1]], K[s])
    /\ i <= Len(seq) => AtMost(K[s], K[seq[i]])

Gaps(seq, s, K) == {i \in 1 .. Len(seq) + 1 : Fits(seq, i, s, K)}

Without(seq, S) ==
    LET kept[k \in 0 .. Len(seq)] ==
            IF k = 0 THEN <<>>
            ELSE IF seq[k] \in S THEN kept[k - 1] ELSE Append(kept[k - 1], seq[k])
    IN  kept[Len(seq)]

(* Inserting one symbol: it goes behind those with an equal key. *)
Insertions(seq, s, K) ==
    {InsertAt(seq, i, s) : i \in {g \in Gaps(seq, s, K) :
                                     g <= Len(seq) => ~AtMost(K[seq[g]], K[s])}}

(* Inserting a range: the gap behind the symbol inserted last, at first the
   end of the index, serves as a hint that is taken if it fits. *)
HintedInsertions(state, s, K) ==
    LET seq  == state.seq
        gaps == IF Fits(seq, state.hint, s, K) THEN {state.hint} ELSE Gaps(seq, s, K)
    IN  {[seq |-> InsertAt(seq, i, s), hint |-> i + 1] : i \in gaps}

InsertAll(seq, new, K) ==
    LET outcomes[k \in 0 .. Len(new)] ==
            IF k = 0 THEN {[seq |-> seq, hint |-> Len(seq) + 1]}
            ELSE UNION {HintedInsertions(o, new[k], K) : o \in outcomes[k - 1]}
    IN  {o.seq : o \in outcomes[Len(new)]}

(* modify() with a callback that does nothing: s stays if it is in order with
   its neighbours, otherwise it is taken out and inserted again. *)
Resync(seq, s, K) ==
    IF \E i \in DOMAIN seq : seq[i] = s /\ Fits(Without(seq, {s}), i, s, K)
    THEN {seq}
    ELSE Insertions(Without(seq, {s}), s, K)

(* Mutant: symbols are re-filed one by one with modify(). *)
RefileInPlace(seq, B, K) ==
    LET moved == {s \in ToSet(seq) : payload[s] \in B}
    IN  UNION {FoldSeq(LAMBDA s, outcomes : UNION {Resync(q, s, K) : q \in outcomes},
                       {seq}, new) : new \in SetToSeqs(moved)}

(* moveCodeBlocks and moveDataBlocks for the blocks B: erase the symbols that
   refer to them, then insert these again, in the order of the hashed index. *)
Refile(seq, B, K) ==
    LET moved == {s \in ToSet(seq) : payload[s] \in B}
    IN  UNION {InsertAll(Without(seq, moved), new, K) : new \in SetToSeqs(moved)}

-----------------------------------------------------------------------------

(* Operations on symbols. *)

(* Mutant: a symbol that is in the module already is not removed first. *)
addSymbolAgain(s) ==
    /\ index' \in Insertions(index, s, Key)
    /\ UNCHANGED <<symVars, blockVars, placeVars>>

addSymbol(s) ==
    /\ index' \in Insertions(Without(index, {s}), s, Key)
    /\ UNCHANGED <<symVars, blockVars, placeVars>>

removeSymbol(s) ==
    /\ s \in ToSet(index)
    /\ index' = Without(index, {s})
    /\ UNCHANGED <<symVars, blockVars, placeVars>>

(* setAddress and setReferent: if the symbol is in the module, its observer
   synchronises the indices after the change. *)
setPayload(s, p) ==
    /\ payload' = [payload EXCEPT ![s] = p]
    /\ UNCHANGED <<atEnd, blockVars, placeVars>>
    /\ IF s \in ToSet(index) THEN index' \in Resync(index, s, Key') ELSE UNCHANGED index

(* setName: the observer synchronises all the indices, by_address too. *)
setName(s) ==
    /\ s \in ToSet(index)
    /\ index' \in Resync(index, s, Key)
    /\ UNCHANGED <<symVars, blockVars, placeVars>>

(* setAtEnd assigns the flag and tells nobody. *)
setAtEnd(s, end) ==
    /\ atEnd' = [atEnd EXCEPT ![s] = end]
    /\ UNCHANGED <<payload, index, blockVars, placeVars>>

-----------------------------------------------------------------------------

(* Operations on blocks.  The module hears of them when the byte interval is
   in the section and the section in the module. *)

Attached == inSection /\ inModule

(* CodeBlock::setSize and DataBlock::setSize: the byte interval updates its
   own indices and does not pass the change on. *)
setBlockSize(b, sz) ==
    /\ blockSize' = [blockSize EXCEPT ![b] = sz]
    /\ UNCHANGED <<symVars, index, offset, placeVars>>

(* addBlock puts a block into the byte interval or moves it to another offset.
   The notification comes after the change. *)
addBlock(b, off) ==
    /\ offset[b] # off
    /\ offset' = [offset EXCEPT ![b] = off]
    /\ UNCHANGED <<symVars, blockSize, placeVars>>
    /\ IF Attached THEN index' \in Refile(index, {b}, Key') ELSE UNCHANGED index

(* removeBlock notifies while the block still has its address. *)
removeBlock(b) ==
    /\ offset[b] # Null
    /\ IF Attached THEN index' \in Refile(index, {b}, Key) ELSE UNCHANGED index
    /\ offset' = [offset EXCEPT ![b] = Null]
    /\ UNCHANGED <<symVars, blockSize, placeVars>>

Inside(B) == {b \in B : offset[b] # Null}

Mixed == Inside(CodeBlock) # {} /\ Inside(DataBlock) # {}

(* ByteInterval::setAddress: first the address, then the symbols of the code
   blocks, then those of the data blocks. *)
setAddress(a) ==
    /\ address' = a
    /\ UNCHANGED <<symVars, blockVars, inSection, inModule>>
    /\ IF Attached
       THEN \E refiled \in Refile(index, Inside(CodeBlock), Key') :
                index' \in Refile(refiled, Inside(DataBlock), Key')
       ELSE UNCHANGED index

(* addByteInterval and removeByteInterval of the section report the code
   blocks only. *)
attachByteInterval(in) ==
    /\ inSection # in
    /\ inSection' = in
    /\ IF inModule THEN index' \in Refile(index, Inside(CodeBlock), Key) ELSE UNCHANGED index
    /\ UNCHANGED <<symVars, blockVars, address, inModule>>

(* addSection and removeSection of the module report to the IR only. *)
attachSection(in) ==
    /\ inModule # in
    /\ inModule' = in
    /\ UNCHANGED <<symVars, index, blockVars, address, inSection>>

-----------------------------------------------------------------------------

Payload == {Null} \cup SymbolAddr \cup Block

(* Symbols are created with a payload and outside of the module. *)
Init ==
    /\ payload \in [Symbol -> Payload]
    /\ atEnd = [s \in Symbol |-> FALSE]
    /\ index = <<>>
    /\ offset = [b \in Block |-> Null]
    /\ blockSize \in [Block -> BlockSize]
    /\ address \in BaseAddr \cup {Null}
    /\ inSection = FALSE
    /\ inModule = FALSE

SymbolStep(s) ==
    \/ addSymbol(s) \/ removeSymbol(s) \/ setName(s)
    \/ \E p \in Payload : setPayload(s, p)
    \/ \E end \in BOOLEAN : setAtEnd(s, end)

BlockStep(b) ==
    \/ \E sz \in BlockSize : setBlockSize(b, sz)
    \/ \E off \in Offset : addBlock(b, off)
    \/ removeBlock(b)

Next ==
    \/ \E s \in Symbol : SymbolStep(s)
    \/ \E b \in Block : BlockStep(b)
    \/ \E a \in BaseAddr \cup {Null} : setAddress(a)
    \/ \E in \in BOOLEAN : attachByteInterval(in) \/ attachSection(in)

Spec == Init /\ [][Next]_vars

-----------------------------------------------------------------------------

(* The index holds each symbol of the module once. *)
TypeOK ==
    /\ payload \in [Symbol -> Payload]
    /\ atEnd \in [Symbol -> BOOLEAN]
    /\ index \in Seq(Symbol) /\ IsInjective(index)
    /\ offset \in [Block -> Offset \cup {Null}]
    /\ blockSize \in [Block -> BlockSize]
    /\ address \in BaseAddr \cup {Null}
    /\ inSection \in BOOLEAN /\ inModule \in BOOLEAN

(* Module.hpp:526 on symbols_by_addr: "Return a range of the symbols (Symbol),
   ordered by address."  findSymbols(Addr) and findSymbols(Addr, Addr) search the index
   and miss symbols when it is out of order. *)
SymbolsInAddressOrder ==
    \A i, j \in DOMAIN index : i < j => AtMost(Key[index[i]], Key[index[j]])

(* The changes of a symbol's key that the module does not hear of, or hears of
   at the wrong time. *)
Unannounced ==
    \/ ~Attached /\ <<address, offset>>' # <<address, offset>>
    \/ \E b \in Block : offset[b] # Null /\ offset'[b] = Null
    \/ Mixed /\ address' # address
    \/ atEnd' # atEnd
    \/ blockSize' # blockSize /\ \E s \in Symbol : atEnd[s]

(* From an index in order every other step leads to an index in order: the
   symbols an announced change affects are all re-filed, whether the change is
   to a symbol, to the offset of a block, or to the address of the byte
   interval, which moves the symbols of all its blocks at once. *)
AnnouncedChangesKeepOrder ==
    [][SymbolsInAddressOrder /\ ~Unannounced => SymbolsInAddressOrder']_vars
=============================================================================
