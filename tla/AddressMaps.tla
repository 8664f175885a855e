---------------------------- MODULE AddressMaps ----------------------------
(***************************************************************************)
(* The address bookkeeping above the byte intervals.  A section keeps an   *)
(* interval map from addresses to the byte intervals that cover them       *)
(* (ByteIntervalAddrs) and its own address range (Extent), computed from   *)
(* its byte intervals.  A module keeps an interval map from addresses to   *)
(* sections (SectionAddrs), computed from the extents.  All of them are    *)
(* derived data, updated step by step while nodes move in the tree and     *)
(* byte intervals change their address or size.                            *)
(*                                                                         *)
(* A boost::icl::interval_map is represented by the function it denotes,   *)
(* from addresses to sets.                                                 *)
(***************************************************************************)
EXTENDS GtirbTree, FiniteSetsExt

CONSTANTS AddrLimit,   \* the number of addresses, 2^64 in the code
          Size         \* the sizes a byte interval is given

ASSUME AddrAssumption ==
    /\ AddrLimit \in Nat \ {0}
    /\ Size \subseteq 0 .. AddrLimit - 1
    /\ Null \notin 0 .. AddrLimit - 1
    /\ Null \notin [lower : 0 .. AddrLimit - 1, size : 0 .. AddrLimit - 1]

Addr == 0 .. AddrLimit - 1

VARIABLES address,       \* ByteInterval::Address, Null when there is none
          size,          \* ByteInterval::Size
          intervalsOn,   \* Section::ByteIntervalAddrs
          extent,        \* Section::Extent, Null when there is none
          sectionsOn     \* Module::SectionAddrs

mapVars == <<address, size, intervalsOn, extent, sectionsOn>>
vars    == <<treeVars, mapVars>>

AddrRange == [lower : Addr, size : Addr]

-----------------------------------------------------------------------------

(* Mutant: the upper bound is computed in unbounded integers. *)
PointsUnbounded(range) ==
    IF range = Null THEN {} ELSE range.lower .. (range.lower + range.size - 1)

(* The right-open interval of a range.  upper() is computed in the width of
   an address; when it does not exceed the lower bound the interval is empty. *)
Points(range) ==
    IF range = Null THEN {}
    ELSE range.lower .. (((range.lower + range.size) % AddrLimit) - 1)

addressRange(b) ==
    IF address[b] = Null THEN Null ELSE [lower |-> address[b], size |-> size[b]]

Insert(map, points, x)   == [a \in Addr |-> IF a \in points THEN map[a] \cup {x} ELSE map[a]]
Subtract(map, points, x) == [a \in Addr |-> IF a \in points THEN map[a] \ {x} ELSE map[a]]

(* Mutant: a last byte interval of size zero does not count. *)
NewExtentOfMapped(B, addr, map) ==
    IF B = {} \/ \E b \in B : addr[b] = Null THEN Null
    ELSE LET lower == Min({addr[b] : b \in B})
             upper == Max({lower} \cup {a + 1 : a \in {x \in Addr : map[x] # {}}})
         IN  [lower |-> lower, size |-> upper - lower]

(* The extent updateExtent computes for a section from its byte intervals B,
   their addresses and the section's interval map.  The byte intervals are in
   address order, those without address first. *)
NewExtent(B, addr, map) ==
    IF B = {} \/ \E b \in B : addr[b] = Null THEN Null
    ELSE LET starts == {addr[b] : b \in B}
             mapped == {a \in Addr : map[a] # {}}
             upper  == Max(starts \cup {a + 1 : a \in mapped})
         IN  [lower |-> Min(starts), size |-> upper - Min(starts)]

(* Mutant: the old extent stays in the module's map. *)
UpdateExtentsAddOnly(S) ==
    /\ extent' = [s \in Sections |->
            IF s \in S THEN NewExtent(children'[s], address', intervalsOn'[s])
                       ELSE extent[s]]
    /\ sectionsOn' = [m \in Modules |-> [a \in Addr |->
            sectionsOn[m][a] \cup {s \in S : parent[s] = m /\ a \in Points(extent'[s])}]]

(* updateExtent for the sections S, after the byte intervals changed: a new
   extent replaces the old one in the map of the section's module. *)
UpdateExtents(S) ==
    /\ extent' = [s \in Sections |->
            IF s \in S THEN NewExtent(children'[s], address', intervalsOn'[s])
                       ELSE extent[s]]
    /\ sectionsOn' = [m \in Modules |-> [a \in Addr |->
            LET changed == {s \in S : parent[s] = m /\ extent'[s] # extent[s]}
            IN  (sectionsOn[m][a] \ {s \in changed : a \in Points(extent[s])})
                   \cup {s \in changed : a \in Points(extent'[s])}]]

(* Mutant: the section stays in the map of its former module. *)
MoveSectionAddrsInsertOnly(s, old, new) ==
    /\ sectionsOn' = [m \in Modules |->
            IF m = new THEN Insert(sectionsOn[m], Points(extent[s]), s)
                       ELSE sectionsOn[m]]
    /\ UNCHANGED <<address, size, intervalsOn, extent>>

(* A section leaves the map of module old and enters the map of module new. *)
MoveSectionAddrs(s, old, new) ==
    /\ sectionsOn' = [m \in Modules |->
            LET map == IF m = old THEN Subtract(sectionsOn[m], Points(extent[s]), s)
                                  ELSE sectionsOn[m]
            IN  IF m = new THEN Insert(map, Points(extent[s]), s) ELSE map]
    /\ UNCHANGED <<address, size, intervalsOn, extent>>

(* A byte interval leaves the map of section old and enters that of new. *)
MoveByteIntervalAddrs(b, old, new) ==
    /\ intervalsOn' = [s \in Sections |->
            LET pts == Points(addressRange(b))
                map == IF s = old THEN Subtract(intervalsOn[s], pts, b)
                                  ELSE intervalsOn[s]
            IN  IF s = new THEN Insert(map, pts, b) ELSE map]
    /\ UNCHANGED <<address, size>>
    /\ UpdateExtents({old, new} \cap Sections)

(* Mutant: the old range is looked up after the change was made. *)
ChangeExtentSubtractLate(b, addr, sz) ==
    /\ address' = [address EXCEPT ![b] = addr]
    /\ size' = [size EXCEPT ![b] = sz]
    /\ intervalsOn' = [s \in Sections |->
            IF s = parent[b]
            THEN Insert(Subtract(intervalsOn[s], Points(addressRange(b)'), b),
                        Points(addressRange(b)'), b)
            ELSE intervalsOn[s]]
    /\ UNCHANGED treeVars
    /\ UpdateExtents({parent[b]} \cap Sections)

(* A change of address or size of a byte interval.  If it has an owner, the
   owner's map is updated around the change and the extent after it. *)
ChangeExtent(b, addr, sz) ==
    /\ address' = [address EXCEPT ![b] = addr]
    /\ size' = [size EXCEPT ![b] = sz]
    /\ intervalsOn' = [s \in Sections |->
            IF s = parent[b]
            THEN Insert(Subtract(intervalsOn[s], Points(addressRange(b)), b),
                        Points(addressRange(b)'), b)
            ELSE intervalsOn[s]]
    /\ UNCHANGED treeVars
    /\ UpdateExtents({parent[b]} \cap Sections)

-----------------------------------------------------------------------------

removeSection(m, s) == RemoveSection(m, s) /\ MoveSectionAddrs(s, m, Null)

addSection(m, s) == AddSection(m, s) /\ MoveSectionAddrs(s, parent[s], m)

removeByteInterval(s, b) ==
    RemoveByteInterval(s, b) /\ MoveByteIntervalAddrs(b, s, Null)

addByteInterval(s, b) ==
    AddByteInterval(s, b) /\ MoveByteIntervalAddrs(b, parent[b], s)

setAddress(b, addr) == ChangeExtent(b, addr, size[b])

setSize(b, sz) == ChangeExtent(b, address[b], sz)

(* Operations on the other nodes leave addresses alone. *)
Elsewhere ==
    /\ \/ \E i \in IRs, m \in Modules : RemoveModule(i, m) \/ AddModule(i, m)
       \/ \E bi \in ByteIntervals, b \in Blocks : RemoveBlock(bi, b) \/ AddBlock(bi, b)
    /\ UNCHANGED mapVars

(* A byte interval is created with any address and size, a section without
   extent. *)
Init ==
    /\ TreeInit
    /\ address \in [ByteIntervals -> Addr \cup {Null}]
    /\ size \in [ByteIntervals -> Size]
    /\ intervalsOn = [s \in Sections |-> [a \in Addr |-> {}]]
    /\ extent = [s \in Sections |-> Null]
    /\ sectionsOn = [m \in Modules |-> [a \in Addr |-> {}]]

Next ==
    \/ \E m \in Modules, s \in Sections : removeSection(m, s) \/ addSection(m, s)
    \/ \E s \in Sections, b \in ByteIntervals :
          removeByteInterval(s, b) \/ addByteInterval(s, b)
    \/ \E b \in ByteIntervals : \E addr \in Addr \cup {Null} : setAddress(b, addr)
    \/ \E b \in ByteIntervals : \E sz \in Size : setSize(b, sz)
    \/ Elsewhere

Spec == Init /\ [][Next]_vars

-----------------------------------------------------------------------------

(* The queries. *)
sectionFindByteIntervalsOn(s, a) == intervalsOn[s][a]

sectionFindByteIntervalsAt(s, a) == {b \in children[s] : address[b] = a}

moduleFindSectionsOn(m, a) == sectionsOn[m][a]

moduleFindByteIntervalsOn(m, a) ==
    UNION {sectionFindByteIntervalsOn(s, a) : s \in moduleFindSectionsOn(m, a)}

-----------------------------------------------------------------------------

(* Type correctness: the maps hold nodes of the right kind and an extent is a
   range whose bounds are addresses, computed without leaving their width. *)
TypeOK ==
    /\ TreeTypeOK
    /\ address \in [ByteIntervals -> Addr \cup {Null}]
    /\ size \in [ByteIntervals -> Size]
    /\ intervalsOn \in [Sections -> [Addr -> SUBSET ByteIntervals]]
    /\ extent \in [Sections -> AddrRange \cup {Null}]
    /\ sectionsOn \in [Modules -> [Addr -> SUBSET Sections]]

(* An interval that reaches the end of the address space: its exclusive upper
   bound is not an address. *)
Wraps(b) == address[b] # Null /\ address[b] + size[b] >= AddrLimit

Covers(b, a) == address[b] # Null /\ address[b] <= a /\ a < address[b] + size[b]

(* Section::findByteIntervalsOn is exact for intervals that end below the top
   of the address space, and never returns another: no stale entry survives a
   move, a resize or a change of address made while the interval was detached,
   and none is missing. *)
SectionMapExact ==
    \A s \in Sections : \A a \in Addr :
        sectionFindByteIntervalsOn(s, a) =
            {b \in children[s] : Covers(b, a) /\ ~Wraps(b)}

UpperEnd(b) == IF Wraps(b) THEN address[b] ELSE address[b] + size[b]

(* The cached extent of a section is the hull of its byte intervals, and is
   absent exactly when there are none or one of them has no address. *)
ExtentIsHull ==
    \A s \in Sections :
        LET B == children[s]
        IN  IF B = {} \/ \E b \in B : address[b] = Null
            THEN extent[s] = Null
            ELSE /\ extent[s] # Null
                 /\ \A b \in B : extent[s].lower <= address[b]
                 /\ \E b \in B : extent[s].lower = address[b]
                 /\ \A b \in B : UpperEnd(b) <= extent[s].lower + extent[s].size
                 /\ \E b \in B : UpperEnd(b) = extent[s].lower + extent[s].size

(* Module::findSectionsOn agrees with the current extents of the sections the
   module owns, whether an extent changed before, after or during the time the
   section was in the module. *)
ModuleMapExact ==
    \A m \in Modules : \A a \in Addr :
        moduleFindSectionsOn(m, a) =
            {s \in children[m] \cap Sections : a \in Points(extent[s])}

(* What Module::findByteIntervalsOn does return is right, and it is complete
   for sections whose byte intervals all have addresses. *)
ModuleQueryWhenAllAddressed ==
    \A m \in Modules : \A a \in Addr :
        LET S == {s \in children[m] \cap Sections :
                     \A b \in children[s] : address[b] # Null}
        IN  moduleFindByteIntervalsOn(m, a) =
               UNION {{b \in children[s] : Covers(b, a) /\ ~Wraps(b)} : s \in S}
=============================================================================
