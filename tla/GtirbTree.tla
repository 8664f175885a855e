----------------------------- MODULE GtirbTree -----------------------------
(***************************************************************************)
(* The ownership tree of a GTIRB context and the control-flow graphs that  *)
(* follow it:                                                              *)
(*                                                                         *)
(*   IR - Module - Section - ByteInterval - CodeBlock / DataBlock          *)
(*                Module - ProxyBlock, Symbol                              *)
(*                                                                         *)
(* Every node has a parent pointer and every parent a container of         *)
(* children.  A child also gets its parent's observer, in the same         *)
(* setParent call, so "n has an observer" is "n has a parent".  The        *)
(* observers form a chain that reports code blocks and proxy blocks that   *)
(* come and go up to the IR, which keeps one CFG vertex for each of them.  *)
(* Clients may edit the graph of an IR directly as well.                   *)
(*                                                                         *)
(* Operations that return NoChange are stuttering steps.                   *)
(***************************************************************************)
EXTENDS Cfg, Naturals, FiniteSets

CONSTANTS Node,        \* every node the context holds
          Kind,        \* Node::Kind of each
          Null,        \* the null pointer
          HandEdited,  \* CFG nodes that clients add to or remove from a graph
                       \* by calling addVertex and removeVertex themselves
          MaxEdges     \* bound on the edges of one graph

KindName == {"IR", "Module", "Section", "ByteInterval",
             "CodeBlock", "DataBlock", "ProxyBlock", "Symbol"}

ASSUME NodeAssumption ==
    /\ Null \notin Node
    /\ Kind \in [Node -> KindName]

NodesOf(k) == {n \in Node : Kind[n] = k}

IRs           == NodesOf("IR")
Modules       == NodesOf("Module")
Sections      == NodesOf("Section")
ByteIntervals == NodesOf("ByteInterval")
CodeBlocks    == NodesOf("CodeBlock")
DataBlocks    == NodesOf("DataBlock")
Blocks        == CodeBlocks \cup DataBlocks
ProxyBlocks   == NodesOf("ProxyBlock")
Symbols       == NodesOf("Symbol")
CfgNode       == CodeBlocks \cup ProxyBlocks

VARIABLES parent,    \* the Parent pointer of each node
          children,  \* the containers: Modules, Sections, ProxyBlocks, Symbols,
                     \* ByteIntervals and Blocks
          cfg        \* the graph of each IR

treeVars == <<parent, children, cfg>>

-----------------------------------------------------------------------------

(* Which containers hold which nodes. *)
CanOwn(c, n) ==
    \/ Kind[c] = "IR"           /\ Kind[n] = "Module"
    \/ Kind[c] = "Module"       /\ Kind[n] \in {"Section", "ProxyBlock", "Symbol"}
    \/ Kind[c] = "Section"      /\ Kind[n] = "ByteInterval"
    \/ Kind[c] = "ByteInterval" /\ Kind[n] \in {"CodeBlock", "DataBlock"}

Up(n) == IF n = Null THEN Null ELSE parent[n]

(* The IR that hears of blocks added to or removed from a container: each
   link of the observer chain forwards to the next if it has an observer. *)
ModuleIR(m)        == Up(m)
SectionIR(s)       == ModuleIR(Up(s))
ByteIntervalIR(bi) == SectionIR(Up(bi))

(* The code_block and proxy_block ranges of the containers. *)
ByteIntervalBlocks(b) == children[b] \cap CodeBlocks
SectionBlocks(s)      == UNION {ByteIntervalBlocks(b) : b \in children[s]}
ModuleBlocks(m)       == UNION {SectionBlocks(s) : s \in children[m] \cap Sections}
ModuleCfgNodes(m)     == ModuleBlocks(m) \cup (children[m] \cap ProxyBlocks)

-----------------------------------------------------------------------------

(* Mutant: the node is not erased from its former owner. *)
ReparentKeepingOld(n, c) ==
    /\ parent' = [parent EXCEPT ![n] = c]
    /\ children' = [x \in Node |->
            children[x] \cup (IF x = c THEN {n} ELSE {})]

(* Erase n from its owner's container, set its parent and insert it into the
   container of c. *)
Reparent(n, c) ==
    /\ parent' = [parent EXCEPT ![n] = c]
    /\ children' = [x \in Node |->
            (IF x = parent[n] THEN children[x] \ {n} ELSE children[x])
              \cup (IF x = c THEN {n} ELSE {})]

(* The IR old is told to remove the vertices N and the IR new to add them;
   either may be absent. *)
MoveCfgNodes(N, old, new) ==
    cfg' = [i \in IRs |->
        LET g == IF i = old THEN RemoveVertices(cfg[i], N) ELSE cfg[i]
        IN  IF i = new THEN AddVertices(g, N) ELSE g]

RemoveModule(i, m) ==
    /\ m \in children[i]
    /\ MoveCfgNodes(ModuleCfgNodes(m), i, Null)
    /\ Reparent(m, Null)

(* Unlike the other add operations there is no check for i being the owner
   already: the module is removed and added again. *)
AddModule(i, m) ==
    /\ MoveCfgNodes(ModuleCfgNodes(m), ModuleIR(m), i)
    /\ Reparent(m, i)

RemoveSection(m, s) ==
    /\ s \in children[m]
    /\ MoveCfgNodes(SectionBlocks(s), ModuleIR(m), Null)
    /\ Reparent(s, Null)

(* Mutant: the former owner's IR is not told. *)
AddSectionSilently(m, s) ==
    /\ parent[s] # m
    /\ MoveCfgNodes(SectionBlocks(s), Null, ModuleIR(m))
    /\ Reparent(s, m)

AddSection(m, s) ==
    /\ parent[s] # m
    /\ MoveCfgNodes(SectionBlocks(s), SectionIR(s), ModuleIR(m))
    /\ Reparent(s, m)

RemoveProxyBlock(m, b) ==
    /\ b \in children[m]
    /\ MoveCfgNodes({b}, ModuleIR(m), Null)
    /\ Reparent(b, Null)

AddProxyBlock(m, b) ==
    /\ parent[b] # m
    /\ MoveCfgNodes({b}, ModuleIR(parent[b]), ModuleIR(m))
    /\ Reparent(b, m)

RemoveSymbol(m, s) ==
    /\ s \in children[m]
    /\ Reparent(s, Null)
    /\ UNCHANGED cfg

AddSymbol(m, s) ==
    /\ Reparent(s, m)
    /\ UNCHANGED cfg

(* Mutant: the reported range covers every byte interval of the section. *)
RemoveByteIntervalWideRange(s, b) ==
    /\ b \in children[s]
    /\ MoveCfgNodes(SectionBlocks(s), SectionIR(s), Null)
    /\ Reparent(b, Null)

RemoveByteInterval(s, b) ==
    /\ b \in children[s]
    /\ MoveCfgNodes(ByteIntervalBlocks(b), SectionIR(s), Null)
    /\ Reparent(b, Null)

AddByteInterval(s, b) ==
    /\ parent[b] # s
    /\ MoveCfgNodes(ByteIntervalBlocks(b), ByteIntervalIR(b), SectionIR(s))
    /\ Reparent(b, s)

(* Only code blocks reach the graph; the notifications about data blocks end
   at the module. *)
RemoveBlock(bi, b) ==
    /\ b \in children[bi]
    /\ MoveCfgNodes({b} \cap CodeBlocks, ByteIntervalIR(bi), Null)
    /\ Reparent(b, Null)

(* Mutant: data blocks are reported like code blocks. *)
AddBlockOfAnyKind(bi, b) ==
    /\ parent[b] # bi
    /\ MoveCfgNodes({b}, ByteIntervalIR(parent[b]), ByteIntervalIR(bi))
    /\ Reparent(b, bi)

AddBlock(bi, b) ==
    /\ parent[b] # bi
    /\ MoveCfgNodes({b} \cap CodeBlocks, ByteIntervalIR(parent[b]), ByteIntervalIR(bi))
    /\ Reparent(b, bi)

-----------------------------------------------------------------------------

(* What a client does to the graph of an IR through IR::getCFG. *)
EditGraph(i, g) ==
    /\ cfg' = [cfg EXCEPT ![i] = g]
    /\ UNCHANGED <<parent, children>>

AddVertexByHand(i, n)    == EditGraph(i, AddVertices(cfg[i], {n}))

RemoveVertexByHand(i, n) == EditGraph(i, RemoveVertices(cfg[i], {n}))

AddEdgeByHand(i, from, to) ==
    /\ Cardinality(cfg[i].edges) < MaxEdges
    /\ EditGraph(i, AddEdge(cfg[i], from, to))

LabelEdgeByHand(i, e, label) ==
    /\ Cardinality(cfg[i].edges) < MaxEdges
    /\ \E g \in SetLabel(cfg[i], e, label) : EditGraph(i, g)

RemoveEdgeByHand(i, from, to) == EditGraph(i, RemoveEdge(cfg[i], from, to))

RemoveLabelledEdgeByHand(i, from, to, label) ==
    EditGraph(i, RemoveLabelledEdge(cfg[i], from, to, label))

-----------------------------------------------------------------------------

(* The context creates nodes without parents and IRs with empty graphs. *)
TreeInit ==
    /\ parent = [n \in Node |-> Null]
    /\ children = [n \in Node |-> {}]
    /\ cfg = [i \in IRs |-> EmptyGraph]

Restructure ==
    \/ \E i \in IRs, m \in Modules : RemoveModule(i, m) \/ AddModule(i, m)
    \/ \E m \in Modules :
          \/ \E s \in Sections    : RemoveSection(m, s) \/ AddSection(m, s)
          \/ \E b \in ProxyBlocks : RemoveProxyBlock(m, b) \/ AddProxyBlock(m, b)
          \/ \E s \in Symbols     : RemoveSymbol(m, s) \/ AddSymbol(m, s)
    \/ \E s \in Sections, b \in ByteIntervals :
          RemoveByteInterval(s, b) \/ AddByteInterval(s, b)
    \/ \E bi \in ByteIntervals, b \in Blocks : RemoveBlock(bi, b) \/ AddBlock(bi, b)

EditByHand ==
    \E i \in IRs :
        \/ \E n \in HandEdited \cap CfgNode :
              AddVertexByHand(i, n) \/ RemoveVertexByHand(i, n)
        \/ \E from, to \in CfgNode :
              \/ AddEdgeByHand(i, from, to)
              \/ RemoveEdgeByHand(i, from, to)
              \/ \E label \in Label : RemoveLabelledEdgeByHand(i, from, to, label)
        \/ \E e \in cfg[i].edges : \E label \in Label : LabelEdgeByHand(i, e, label)

TreeNext == Restructure \/ EditByHand

TreeSpec == TreeInit /\ [][TreeNext]_treeVars

-----------------------------------------------------------------------------

(* Type correctness: pointers and containers join nodes of the right kinds,
   graphs are made of CFG nodes. *)
TreeTypeOK ==
    /\ parent \in [Node -> Node \cup {Null}]
    /\ children \in [Node -> SUBSET Node]
    /\ cfg \in [IRs -> Graph(CfgNode)]
    /\ \A n \in Node : parent[n] # Null => CanOwn(parent[n], n)

(* A node is in the container of exactly the node its Parent pointer names:
   every add and remove keeps pointer and container together, including when
   the node is taken from another owner. *)
OwnershipAgrees ==
    \A c, n \in Node : n \in children[c] <=> parent[n] = c

(* The IR a code block or proxy block belongs to, by its parent pointers. *)
HomeIR(n) ==
    IF Kind[n] = "CodeBlock" THEN ByteIntervalIR(Up(n)) ELSE ModuleIR(Up(n))

(* The graph of an IR has a vertex for exactly the code blocks and proxy
   blocks below the IR, whichever level of the tree was moved to bring them
   there or take them away, except for nodes a client edits by hand. *)
CfgMirrorsTree ==
    \A i \in IRs : \A n \in CfgNode \ HandEdited :
        n \in cfg[i].nodes <=> HomeIR(n) = i

(* No edge outlives a vertex at either end, whatever sequence of moves and
   hand edits removed the vertex. *)
EdgesJoinVertices ==
    \A i \in IRs : \A e \in cfg[i].edges : {e.src, e.dst} \subseteq cfg[i].nodes

Path(n) == <<Up(n), Up(Up(n)), Up(Up(Up(n))), Up(Up(Up(Up(n))))>>

(* Moving one part of the tree costs no other part its edges: an edge that a
   restructuring step drops has an end whose chain of owners changed. *)
UnmovedEdgesSurvive ==
    [][parent' # parent =>
          \A i \in IRs : \A e \in cfg[i].edges \ cfg'[i].edges :
              Path(e.src)' # Path(e.src) \/ Path(e.dst)' # Path(e.dst)]_treeVars
=============================================================================
