--------------------------- MODULE QueriesProofs ---------------------------
(***************************************************************************)
(* Proofs about the ownership tree, the address maps that are kept on it   *)
(* and the queries that read them, for any set of nodes, any assignment of *)
(* kinds to them, any set of labels and any width of addresses.  Only the  *)
(* queries need the set of nodes to be finite.                             *)
(*                                                                         *)
(* Part I, the tree and its control-flow graphs.  The inductive invariant  *)
(* is                                                                      *)
(*                                                                         *)
(*   TreeInv == TreeTypeOK /\ OwnershipAgrees /\ CfgMirrorsTree            *)
(*                /\ EdgesJoinVertices                                     *)
(*                                                                         *)
(* CfgMirrorsTree alone is not inductive: the ranges of blocks an action   *)
(* reports are read from the containers, the IR they are reported to from  *)
(* the parent pointers, and only OwnershipAgrees ties the two together.    *)
(* The proofs rest on one observation: every restructuring action hangs    *)
(* one node x under c and moves, between two graphs, exactly the CFG nodes *)
(* whose chain of owners passes through x.  Moves states it,               *)
(* RestructureMoves shows it for each action, and every property follows   *)
(* from it.                                                                *)
(*                                                                         *)
(* Part II, the address maps of sections and modules.  A step of that      *)
(* specification is a step of the tree, so the invariants of the tree hold *)
(* there too.  The inductive invariant is                                  *)
(*                                                                         *)
(*   MapInv == TreeInv /\ TypeOK /\ SectionMapExact /\ ExtentIsHull        *)
(*               /\ ModuleMapExact                                         *)
(*                                                                         *)
(* No conjunct can be proved without the ones before it: what an operation *)
(* takes out of a map is what the parent pointers, addresses and extents   *)
(* say is in it, and an extent is computed from the interval map.          *)
(*                                                                         *)
(* Part III, the queries.  A merge yields what its ranges hold: each step  *)
(* moves one element from the ranges to the answer, so the elements, their *)
(* being distinct and the order are kept (Elements, Distinct, InSequence), *)
(* and as many steps are taken as there are elements.  The ranges that a   *)
(* query merges have no element in common because a node has one parent.   *)
(* What a child answers and which children are asked follows from MapInv.  *)
(* Lists says that a sequence holds each element of a set once, Ascending  *)
(* that it is in the order of addresses.                                   *)
(***************************************************************************)
EXTENDS Queries, CommonFacts

-----------------------------------------------------------------------------

(***************************************************************************)
(* Part I: the ownership tree and its control-flow graphs.                 *)
(***************************************************************************)

(* Operators on graphs. *)

GraphOK(g) ==
    /\ g \in Graph(CfgNode)
    /\ \A e \in g.edges : {e.src, e.dst} \subseteq g.nodes

(* Removing vertices, with their edges, keeps a graph well formed, takes away
   exactly those vertices, and drops only edges with an end among them. *)
LEMMA RemoveVerticesFacts ==
    ASSUME NEW g, GraphOK(g), NEW N
    PROVE  /\ GraphOK(RemoveVertices(g, N))
           /\ RemoveVertices(g, N).nodes = g.nodes \ N
           /\ \A e \in g.edges \ RemoveVertices(g, N).edges : e.src \in N \/ e.dst \in N
  BY DEF GraphOK, Graph, RemoveVertices

(* Adding vertices keeps a graph well formed and its edges as they are. *)
LEMMA AddVerticesFacts ==
    ASSUME NEW g, GraphOK(g), NEW N, N \subseteq CfgNode
    PROVE  /\ GraphOK(AddVertices(g, N))
           /\ AddVertices(g, N).nodes = g.nodes \cup N
           /\ AddVertices(g, N).edges = g.edges
  BY DEF GraphOK, Graph, AddVertices

(* The edits of edges keep a graph well formed and its vertices as they are. *)
LEMMA EdgeEditFacts ==
    ASSUME NEW g, GraphOK(g), NEW from \in CfgNode, NEW to \in CfgNode,
           NEW label \in Label
    PROVE  /\ GraphOK(AddEdge(g, from, to)) /\ AddEdge(g, from, to).nodes = g.nodes
           /\ GraphOK(RemoveEdge(g, from, to)) /\ RemoveEdge(g, from, to).nodes = g.nodes
           /\ GraphOK(RemoveLabelledEdge(g, from, to, label))
           /\ RemoveLabelledEdge(g, from, to, label).nodes = g.nodes
  <1>1. g.nodes \in SUBSET CfgNode /\ g.edges \in SUBSET Edge(CfgNode)
    BY DEF GraphOK, Graph
  <1>2. GraphOK(AddEdge(g, from, to)) /\ AddEdge(g, from, to).nodes = g.nodes
    <2>1. [src |-> from, dst |-> to, label |-> NoLabel] \in Edge(CfgNode)
      BY LabelAssumption DEF Edge
    <2>2. QED
      BY <1>1, <2>1 DEF GraphOK, Graph, AddEdge
  <1>3. GraphOK(RemoveEdge(g, from, to)) /\ RemoveEdge(g, from, to).nodes = g.nodes
    BY <1>1 DEF GraphOK, Graph, RemoveEdge
  <1>4. /\ GraphOK(RemoveLabelledEdge(g, from, to, label))
        /\ RemoveLabelledEdge(g, from, to, label).nodes = g.nodes
    BY <1>1 DEF GraphOK, Graph, RemoveLabelledEdge
  <1>5. QED
    BY <1>2, <1>3, <1>4

(* So does setting the label of an edge. *)
LEMMA SetLabelFacts ==
    ASSUME NEW g, GraphOK(g), NEW e \in g.edges, NEW label \in Label,
           NEW h \in SetLabel(g, e, label)
    PROVE  GraphOK(h) /\ h.nodes = g.nodes
  <1> DEFINE r == [e EXCEPT !.label = label]
  <1>1. g.nodes \in SUBSET CfgNode /\ g.edges \in SUBSET Edge(CfgNode)
    BY DEF GraphOK, Graph
  <1>2. r \in Edge(CfgNode) /\ r.src = e.src /\ r.dst = e.dst
    BY <1>1 DEF Edge
  <1>3. \/ h = [g EXCEPT !.edges = (@ \ {e}) \cup {r}]
        \/ h = [g EXCEPT !.edges = @ \cup {r}]
    BY DEF SetLabel
  <1> HIDE DEF r
  <1>4. QED
    BY <1>1, <1>2, <1>3 DEF GraphOK, Graph

-----------------------------------------------------------------------------

(* Chains of owners. *)

(* One link of a chain under the parent function p. *)
Link(p, n) == IF n = Null THEN Null ELSE p[n]

(* Following a link from a node of a kind leads to the kind that owns it. *)
LEMMA OwnerKinds ==
    ASSUME TreeTypeOK
    PROVE  /\ \A n \in Blocks \cup {Null} : Link(parent, n) \in ByteIntervals \cup {Null}
           /\ \A n \in ByteIntervals \cup {Null} : Link(parent, n) \in Sections \cup {Null}
           /\ \A n \in Sections \cup ProxyBlocks \cup Symbols \cup {Null} :
                 Link(parent, n) \in Modules \cup {Null}
           /\ \A n \in Modules \cup {Null} : Link(parent, n) \in IRs \cup {Null}
  BY NodeAssumption
  DEF TreeTypeOK, CanOwn, Link, NodesOf, Blocks, CodeBlocks, DataBlocks, ByteIntervals,
      Sections, ProxyBlocks, Symbols, Modules, IRs

(* The kinds are disjoint sets of nodes. *)
LEMMA KindsDisjoint ==
    /\ IRs \cup Modules \cup Sections \cup ByteIntervals \cup Blocks
         \cup ProxyBlocks \cup Symbols \subseteq Node
    /\ CodeBlocks \subseteq Blocks
    /\ Null \notin Node
    /\ \A n \in Node :
          /\ n \in IRs => n \notin Modules \cup Sections \cup ByteIntervals \cup Blocks
                                     \cup ProxyBlocks \cup Symbols
          /\ n \in Modules => n \notin Sections \cup ByteIntervals \cup Blocks
                                     \cup ProxyBlocks \cup Symbols
          /\ n \in Sections => n \notin ByteIntervals \cup Blocks \cup ProxyBlocks \cup Symbols
          /\ n \in ByteIntervals => n \notin Blocks \cup ProxyBlocks \cup Symbols
          /\ n \in Blocks => n \notin ProxyBlocks \cup Symbols
          /\ n \in ProxyBlocks => n \notin Symbols
          /\ n \in CodeBlocks => n \notin DataBlocks
  BY NodeAssumption
  DEF NodesOf, Blocks, CodeBlocks, DataBlocks, ByteIntervals,
      Sections, ProxyBlocks, Symbols, Modules, IRs

(* Hanging x under c redirects the link of x and no other. *)
LEMMA Rehang ==
    ASSUME TreeTypeOK, NEW x \in Node, NEW c \in Node \cup {Null}, Reparent(x, c)
    PROVE  \A n \in Node \cup {Null} :
              Link(parent', n) = IF n = x THEN c ELSE Link(parent, n)
  BY NodeAssumption DEF TreeTypeOK, Reparent, Link

(* HomeIR and Path in terms of links. *)
LEMMA HomeByLinks ==
    ASSUME NEW n \in CfgNode
    PROVE  /\ n \in CodeBlocks =>
                 /\ HomeIR(n) =
                      Link(parent, Link(parent, Link(parent, Link(parent, n))))
                 /\ HomeIR(n)' =
                      Link(parent', Link(parent', Link(parent', Link(parent', n))))
           /\ n \in ProxyBlocks =>
                 /\ HomeIR(n) = Link(parent, Link(parent, n))
                 /\ HomeIR(n)' = Link(parent', Link(parent', n))
  BY NodeAssumption DEF HomeIR, ByteIntervalIR, SectionIR, ModuleIR, Up, Link, CfgNode, CodeBlocks, ProxyBlocks, NodesOf

(* Two paths differ when they differ in one place. *)
LEMMA PathByLinks ==
    ASSUME NEW n
    PROVE  LET L(p, k) == CASE k = 1 -> Link(p, n)
                            [] k = 2 -> Link(p, Link(p, n))
                            [] k = 3 -> Link(p, Link(p, Link(p, n)))
                            [] k = 4 -> Link(p, Link(p, Link(p, Link(p, n))))
           IN  (\E k \in 1 .. 4 : L(parent, k) # L(parent', k)) => Path(n)' # Path(n)
  BY DEF Path, Up, Link

-----------------------------------------------------------------------------

(* Moves(x, c, N, old, new): the step hangs x under c, or detaches it when c
   is Null, and moves the CFG nodes N from the graph of old to that of new.
   N is right: its members are the nodes whose home was old and is new, and no
   other node changes its home. *)
Moves(x, c, N, old, new) ==
    /\ x \in Node /\ c \in Node \cup {Null}
    /\ c # Null => CanOwn(c, x)
    /\ Reparent(x, c)
    /\ MoveCfgNodes(N, old, new)
    /\ N \subseteq CfgNode
    /\ \A n \in N : HomeIR(n) = old /\ HomeIR(n)' = new
    /\ \A n \in CfgNode \ N : HomeIR(n)' = HomeIR(n)
    /\ c # parent[x] => \A n \in N : Path(n)' # Path(n)

(* The containers and the parent pointers name the same blocks. *)
LEMMA BlocksByLinks ==
    ASSUME TreeTypeOK, OwnershipAgrees
    PROVE  /\ \A x \in ByteIntervals : \A n :
                 n \in ByteIntervalBlocks(x) <=> n \in CodeBlocks /\ Link(parent, n) = x
           /\ \A x \in Sections : \A n :
                 n \in SectionBlocks(x) <=>
                    n \in CodeBlocks /\ Link(parent, Link(parent, n)) = x
           /\ \A x \in Modules : \A n :
                 n \in ModuleCfgNodes(x) <=>
                    \/ n \in CodeBlocks /\ Link(parent, Link(parent, Link(parent, n))) = x
                    \/ n \in ProxyBlocks /\ Link(parent, n) = x
  <1>1. \A x, n \in Node : n \in children[x] <=> Link(parent, n) = x
    BY KindsDisjoint DEF OwnershipAgrees, Link
  <1>2. CodeBlocks \subseteq Node /\ ProxyBlocks \subseteq Node
    BY KindsDisjoint
  <1>3. \A x \in ByteIntervals : \A n :
           n \in ByteIntervalBlocks(x) <=> n \in CodeBlocks /\ Link(parent, n) = x
    BY <1>1, <1>2, KindsDisjoint DEF ByteIntervalBlocks
  <1>4. \A x \in Sections : \A n :
           n \in SectionBlocks(x) <=>
              n \in CodeBlocks /\ Link(parent, Link(parent, n)) = x
    <2> TAKE x \in Sections
    <2> TAKE n
    <2>1. children[x] \subseteq ByteIntervals
      BY <1>1, NodeAssumption, KindsDisjoint
      DEF TreeTypeOK, CanOwn, Link, Sections, ByteIntervals, NodesOf
    <2>2. n \in SectionBlocks(x) <=> \E b \in children[x] : n \in ByteIntervalBlocks(b)
      BY DEF SectionBlocks
    <2>3. \A b \in children[x] :
             n \in ByteIntervalBlocks(b) <=> n \in CodeBlocks /\ Link(parent, n) = b
      BY <1>3, <2>1
    <2>4. \A b \in ByteIntervals : b \in children[x] <=> Link(parent, b) = x
      BY <1>1, KindsDisjoint
    <2>5. Link(parent, Null) = Null /\ x # Null
      BY KindsDisjoint DEF Link
    <2>6. n \in CodeBlocks => Link(parent, n) \in ByteIntervals \cup {Null}
      BY OwnerKinds, KindsDisjoint
    <2>7. QED
      BY <2>1, <2>2, <2>3, <2>4, <2>5, <2>6
  <1>5. \A x \in Modules : \A n :
           n \in ModuleBlocks(x) <=>
              n \in CodeBlocks /\ Link(parent, Link(parent, Link(parent, n))) = x
    <2> TAKE x \in Modules
    <2> TAKE n
    <2>1. n \in ModuleBlocks(x) <=>
             \E s \in children[x] \cap Sections : n \in SectionBlocks(s)
      BY DEF ModuleBlocks
    <2>2. \A s \in Sections : s \in children[x] <=> Link(parent, s) = x
      BY <1>1, KindsDisjoint
    <2>3. Link(parent, Null) = Null /\ x # Null
      BY KindsDisjoint DEF Link
    <2>4. n \in CodeBlocks => Link(parent, Link(parent, n)) \in Sections \cup {Null}
      BY OwnerKinds, KindsDisjoint
    <2>5. QED
      BY <1>4, <2>1, <2>2, <2>3, <2>4
  <1>6. \A x \in Modules : \A n :
           n \in children[x] \cap ProxyBlocks <=> n \in ProxyBlocks /\ Link(parent, n) = x
    BY <1>1, <1>2, KindsDisjoint
  <1>7. QED
    BY <1>3, <1>4, <1>5, <1>6 DEF ModuleCfgNodes

(* What Moves says of homes and paths, when x is a node of a kind and N the
   blocks below it.  One lemma for each kind of node. *)

(* IR::addModule and IR::removeModule carry the code and proxy blocks of the
   module, and only these, to another IR or to none. *)
LEMMA ModuleMoves ==
    ASSUME TreeTypeOK, OwnershipAgrees,
           NEW x \in Modules, NEW c \in IRs \cup {Null},
           Reparent(x, c), MoveCfgNodes(ModuleCfgNodes(x), Link(parent, x), c)
    PROVE  Moves(x, c, ModuleCfgNodes(x), Link(parent, x), c)
  <1> DEFINE N == ModuleCfgNodes(x)
  <1>1. x \in Node /\ c \in Node \cup {Null} /\ (c # Null => CanOwn(c, x))
    BY KindsDisjoint DEF CanOwn, Modules, IRs, NodesOf
  <1>2. \A n \in Node \cup {Null} :
           Link(parent', n) = IF n = x THEN c ELSE Link(parent, n)
    BY <1>1, Rehang
  <1>3. \A n : n \in N <=>
           \/ n \in CodeBlocks /\ Link(parent, Link(parent, Link(parent, n))) = x
           \/ n \in ProxyBlocks /\ Link(parent, n) = x
    BY BlocksByLinks
  <1>4. ASSUME NEW n \in CodeBlocks
        PROVE  /\ n \in N => /\ HomeIR(n) = Link(parent, x) /\ HomeIR(n)' = c
                             /\ c # parent[x] => Path(n)' # Path(n)
               /\ n \notin N => HomeIR(n)' = HomeIR(n)
    <2> DEFINE b == Link(parent, n)
               s == Link(parent, b)
               m == Link(parent, s)
    <2>1. /\ n \in Blocks /\ b \in ByteIntervals \cup {Null}
          /\ s \in Sections \cup {Null} /\ m \in Modules \cup {Null}
      BY KindsDisjoint, OwnerKinds
    <2>2. Link(parent', n) = b
      BY <1>2, <2>1, KindsDisjoint
    <2>3. Link(parent', b) = s
      BY <1>2, <2>1, KindsDisjoint
    <2>4. Link(parent', s) = m
      BY <1>2, <2>1, KindsDisjoint
    <2>5. Link(parent', m) = IF m = x THEN c ELSE Link(parent, m)
      BY <1>2, <2>1, KindsDisjoint
    <2>6. HomeIR(n) = Link(parent, m) /\ HomeIR(n)' = Link(parent', m)
      BY <2>2, <2>3, <2>4, HomeByLinks DEF CfgNode
    <2>7. Link(parent', m) # Link(parent, m) => Path(n)' # Path(n)
      BY <2>2, <2>3, <2>4, PathByLinks
    <2>8. Link(parent, x) = parent[x]
      BY KindsDisjoint DEF Link
    <2>9. n \in N <=> m = x
      BY <1>3, KindsDisjoint
    <2> HIDE DEF N, b, s, m
    <2>10. QED
      BY <2>5, <2>6, <2>7, <2>8, <2>9
  <1>5. ASSUME NEW n \in ProxyBlocks
        PROVE  /\ n \in N => /\ HomeIR(n) = Link(parent, x) /\ HomeIR(n)' = c
                             /\ c # parent[x] => Path(n)' # Path(n)
               /\ n \notin N => HomeIR(n)' = HomeIR(n)
    <2> DEFINE m == Link(parent, n)
    <2>1. m \in Modules \cup {Null}
      BY OwnerKinds
    <2>2. Link(parent', n) = m
      BY <1>2, KindsDisjoint
    <2>3. Link(parent', m) = IF m = x THEN c ELSE Link(parent, m)
      BY <1>2, <2>1, KindsDisjoint
    <2>4. HomeIR(n) = Link(parent, m) /\ HomeIR(n)' = Link(parent', m)
      BY <2>2, HomeByLinks DEF CfgNode
    <2>5. Link(parent', m) # Link(parent, m) => Path(n)' # Path(n)
      BY <2>2, PathByLinks
    <2>6. Link(parent, x) = parent[x]
      BY KindsDisjoint DEF Link
    <2>7. n \in N <=> m = x
      BY <1>3, KindsDisjoint
    <2> HIDE DEF N, m
    <2>8. QED
      BY <2>3, <2>4, <2>5, <2>6, <2>7
  <1>6. N \subseteq CfgNode
    BY <1>3 DEF CfgNode
  <1> HIDE DEF N
  <1>7. Moves(x, c, N, Link(parent, x), c)
    BY <1>1, <1>4, <1>5, <1>6 DEF Moves, CfgNode, N
  <1>8. QED
    BY <1>7 DEF N

(* Module::addSection and Module::removeSection carry the code blocks of the
   section. *)
LEMMA SectionMoves ==
    ASSUME TreeTypeOK, OwnershipAgrees,
           NEW x \in Sections, NEW c \in Modules \cup {Null},
           Reparent(x, c),
           MoveCfgNodes(SectionBlocks(x), Link(parent, Link(parent, x)), Link(parent, c))
    PROVE  Moves(x, c, SectionBlocks(x), Link(parent, Link(parent, x)), Link(parent, c))
  <1> DEFINE N == SectionBlocks(x)
             old == Link(parent, Link(parent, x))
             new == Link(parent, c)
  <1>1. x \in Node /\ c \in Node \cup {Null} /\ (c # Null => CanOwn(c, x))
    BY KindsDisjoint DEF CanOwn, Modules, Sections, NodesOf
  <1>2. \A n \in Node \cup {Null} :
           Link(parent', n) = IF n = x THEN c ELSE Link(parent, n)
    BY <1>1, Rehang
  <1>3. \A n : n \in N <=> n \in CodeBlocks /\ Link(parent, Link(parent, n)) = x
    BY BlocksByLinks
  <1>4. ASSUME NEW n \in CodeBlocks
        PROVE  /\ n \in N => /\ HomeIR(n) = old /\ HomeIR(n)' = new
                             /\ c # parent[x] => Path(n)' # Path(n)
               /\ n \notin N => HomeIR(n)' = HomeIR(n)
    <2> DEFINE b == Link(parent, n)
               s == Link(parent, b)
               m == Link(parent, s)
               mm == IF s = x THEN c ELSE m
    <2>1. /\ n \in Blocks /\ b \in ByteIntervals \cup {Null}
          /\ s \in Sections \cup {Null} /\ m \in Modules \cup {Null}
          /\ mm \in Modules \cup {Null}
      BY KindsDisjoint, OwnerKinds
    <2>2. Link(parent', n) = b
      BY <1>2, <2>1, KindsDisjoint
    <2>3. Link(parent', b) = s
      BY <1>2, <2>1, KindsDisjoint
    <2>4. Link(parent', s) = mm
      BY <1>2, <2>1, KindsDisjoint
    <2>5. Link(parent', mm) = Link(parent, mm)
      BY <1>2, <2>1, KindsDisjoint
    <2>6. HomeIR(n) = Link(parent, m) /\ HomeIR(n)' = Link(parent, mm)
      BY <2>2, <2>3, <2>4, <2>5, HomeByLinks DEF CfgNode
    <2>7. mm # m => Path(n)' # Path(n)
      BY <2>2, <2>3, <2>4, PathByLinks
    <2>8. Link(parent, x) = parent[x]
      BY KindsDisjoint DEF Link
    <2>9. n \in N <=> s = x
      BY <1>3
    <2>10. s = x => m = parent[x] /\ Link(parent, m) = old
      BY <2>8
    <2> HIDE DEF N, b, s, m, old
    <2>11. QED
      BY <2>6, <2>7, <2>9, <2>10
  <1>5. ASSUME NEW n \in ProxyBlocks
        PROVE  n \notin N /\ HomeIR(n)' = HomeIR(n)
    <2> DEFINE m == Link(parent, n)
    <2>1. m \in Modules \cup {Null}
      BY OwnerKinds
    <2>2. Link(parent', n) = m /\ Link(parent', m) = Link(parent, m)
      BY <1>2, <2>1, KindsDisjoint
    <2>3. n \notin CodeBlocks
      BY KindsDisjoint
    <2>4. QED
      BY <1>3, <2>2, <2>3, HomeByLinks DEF CfgNode
  <1>6. N \subseteq CfgNode
    BY <1>3 DEF CfgNode
  <1> HIDE DEF N, old, new
  <1>7. Moves(x, c, N, old, new)
    BY <1>1, <1>4, <1>5, <1>6 DEF Moves, CfgNode, N, old, new
  <1>8. QED
    BY <1>7 DEF N, old, new

(* Section::addByteInterval and Section::removeByteInterval carry the code
   blocks of the byte interval. *)
LEMMA ByteIntervalMoves ==
    ASSUME TreeTypeOK, OwnershipAgrees,
           NEW x \in ByteIntervals, NEW c \in Sections \cup {Null},
           NEW old, old = Link(parent, Link(parent, Link(parent, x))),
           NEW new, new = Link(parent, Link(parent, c)),
           Reparent(x, c), MoveCfgNodes(ByteIntervalBlocks(x), old, new)
    PROVE  Moves(x, c, ByteIntervalBlocks(x), old, new)
  <1> DEFINE N == ByteIntervalBlocks(x)
  <1>1. x \in Node /\ c \in Node \cup {Null} /\ (c # Null => CanOwn(c, x))
    BY KindsDisjoint DEF CanOwn, ByteIntervals, Sections, NodesOf
  <1>2. \A n \in Node \cup {Null} :
           Link(parent', n) = IF n = x THEN c ELSE Link(parent, n)
    BY <1>1, Rehang
  <1>3. \A n : n \in N <=> n \in CodeBlocks /\ Link(parent, n) = x
    BY BlocksByLinks
  <1>4. ASSUME NEW n \in CodeBlocks
        PROVE  /\ n \in N => /\ HomeIR(n) = old /\ HomeIR(n)' = new
                             /\ c # parent[x] => Path(n)' # Path(n)
               /\ n \notin N => HomeIR(n)' = HomeIR(n)
    <2> DEFINE b == Link(parent, n)
               s == Link(parent, b)
               ss == IF b = x THEN c ELSE s
               mm == Link(parent, ss)
    <2>1. /\ n \in Blocks /\ b \in ByteIntervals \cup {Null}
          /\ s \in Sections \cup {Null} /\ ss \in Sections \cup {Null}
      BY KindsDisjoint, OwnerKinds
    <2>2. Link(parent', n) = b
      BY <1>2, <2>1, KindsDisjoint
    <2>3. Link(parent', b) = ss
      BY <1>2, <2>1, KindsDisjoint
    <2>4. mm \in Modules \cup {Null}
      BY <2>1, OwnerKinds
    <2>5. Link(parent', ss) = mm /\ Link(parent', mm) = Link(parent, mm)
      BY <1>2, <2>1, <2>4, KindsDisjoint
    <2>6. HomeIR(n) = Link(parent, Link(parent, s)) /\ HomeIR(n)' = Link(parent, mm)
      BY <2>2, <2>3, <2>5, HomeByLinks DEF CfgNode
    <2>7. ss # s => Path(n)' # Path(n)
      BY <2>2, <2>3, PathByLinks
    <2>8. Link(parent, x) = parent[x]
      BY KindsDisjoint DEF Link
    <2>9. n \in N <=> b = x
      BY <1>3
    <2>10. b = x => s = parent[x] /\ Link(parent, Link(parent, s)) = old
      BY <2>8
    <2> HIDE DEF N, b, s
    <2>11. QED
      BY <2>6, <2>7, <2>9, <2>10
  <1>5. ASSUME NEW n \in ProxyBlocks
        PROVE  n \notin N /\ HomeIR(n)' = HomeIR(n)
    <2> DEFINE m == Link(parent, n)
    <2>1. m \in Modules \cup {Null}
      BY OwnerKinds
    <2>2. Link(parent', n) = m /\ Link(parent', m) = Link(parent, m)
      BY <1>2, <2>1, KindsDisjoint
    <2>3. n \notin CodeBlocks
      BY KindsDisjoint
    <2>4. QED
      BY <1>3, <2>2, <2>3, HomeByLinks DEF CfgNode
  <1>6. N \subseteq CfgNode
    BY <1>3 DEF CfgNode
  <1> HIDE DEF N
  <1>7. Moves(x, c, N, old, new)
    BY <1>1, <1>4, <1>5, <1>6 DEF Moves, CfgNode, N
  <1>8. QED
    BY <1>7 DEF N

(* ByteInterval::addBlock and ByteInterval::removeBlock carry the block itself
   if it is a code block, and nothing if it is a data block. *)
LEMMA BlockMoves ==
    ASSUME TreeTypeOK, OwnershipAgrees,
           NEW x \in Blocks, NEW c \in ByteIntervals \cup {Null},
           NEW old, old = Link(parent, Link(parent, Link(parent, Link(parent, x)))),
           NEW new, new = Link(parent, Link(parent, Link(parent, c))),
           Reparent(x, c), MoveCfgNodes({x} \cap CodeBlocks, old, new)
    PROVE  Moves(x, c, {x} \cap CodeBlocks, old, new)
  <1> DEFINE N == {x} \cap CodeBlocks
  <1>1. x \in Node /\ c \in Node \cup {Null} /\ (c # Null => CanOwn(c, x))
    BY KindsDisjoint DEF CanOwn, ByteIntervals, Blocks, CodeBlocks, DataBlocks, NodesOf
  <1>2. \A n \in Node \cup {Null} :
           Link(parent', n) = IF n = x THEN c ELSE Link(parent, n)
    BY <1>1, Rehang
  <1>3. ASSUME NEW n \in CodeBlocks
        PROVE  /\ n \in N => /\ HomeIR(n) = old /\ HomeIR(n)' = new
                             /\ c # parent[x] => Path(n)' # Path(n)
               /\ n \notin N => HomeIR(n)' = HomeIR(n)
    <2> DEFINE b == Link(parent, n)
               bb == IF n = x THEN c ELSE b
               ss == Link(parent, bb)
               mm == Link(parent, ss)
    <2>1. n \in Blocks /\ b \in ByteIntervals \cup {Null} /\ bb \in ByteIntervals \cup {Null}
      BY KindsDisjoint, OwnerKinds
    <2>2. Link(parent', n) = bb
      BY <1>2, <2>1, KindsDisjoint
    <2>3. ss \in Sections \cup {Null}
      BY <2>1, OwnerKinds
    <2>4. mm \in Modules \cup {Null}
      BY <2>3, OwnerKinds
    <2>5. /\ Link(parent', bb) = ss /\ Link(parent', ss) = mm
          /\ Link(parent', mm) = Link(parent, mm)
      BY <1>2, <2>1, <2>3, <2>4, KindsDisjoint
    <2>6. /\ HomeIR(n) = Link(parent, Link(parent, Link(parent, b)))
          /\ HomeIR(n)' = Link(parent, mm)
      BY <2>2, <2>5, HomeByLinks DEF CfgNode
    <2>7. bb # b => Path(n)' # Path(n)
      BY <2>2, PathByLinks
    <2>8. n = x => b = parent[x]
      BY KindsDisjoint DEF Link
    <2>9. n \in N <=> n = x
      OBVIOUS
    <2> HIDE DEF N, b
    <2>10. QED
      BY <2>6, <2>7, <2>8, <2>9 DEF b
  <1>4. ASSUME NEW n \in ProxyBlocks
        PROVE  n \notin N /\ HomeIR(n)' = HomeIR(n)
    <2> DEFINE m == Link(parent, n)
    <2>1. m \in Modules \cup {Null}
      BY OwnerKinds
    <2>2. Link(parent', n) = m /\ Link(parent', m) = Link(parent, m)
      BY <1>2, <2>1, KindsDisjoint
    <2>3. n \notin CodeBlocks
      BY KindsDisjoint
    <2>4. QED
      BY <2>2, <2>3, HomeByLinks DEF CfgNode
  <1>5. N \subseteq CfgNode
    BY DEF CfgNode
  <1> HIDE DEF N
  <1>6. Moves(x, c, N, old, new)
    BY <1>1, <1>3, <1>4, <1>5 DEF Moves, CfgNode, N
  <1>7. QED
    BY <1>6 DEF N

(* Module::addProxyBlock and Module::removeProxyBlock carry the proxy block. *)
LEMMA ProxyBlockMoves ==
    ASSUME TreeTypeOK, OwnershipAgrees,
           NEW x \in ProxyBlocks, NEW c \in Modules \cup {Null},
           NEW old, old = Link(parent, Link(parent, x)),
           NEW new, new = Link(parent, c),
           Reparent(x, c), MoveCfgNodes({x}, old, new)
    PROVE  Moves(x, c, {x}, old, new)
  <1>1. x \in Node /\ c \in Node \cup {Null} /\ (c # Null => CanOwn(c, x))
    BY KindsDisjoint DEF CanOwn, Modules, ProxyBlocks, NodesOf
  <1>2. \A n \in Node \cup {Null} :
           Link(parent', n) = IF n = x THEN c ELSE Link(parent, n)
    BY <1>1, Rehang
  <1>3. ASSUME NEW n \in CodeBlocks
        PROVE  n # x /\ HomeIR(n)' = HomeIR(n)
    <2> DEFINE b == Link(parent, n)
               s == Link(parent, b)
               m == Link(parent, s)
    <2>1. /\ n \in Blocks /\ b \in ByteIntervals \cup {Null}
          /\ s \in Sections \cup {Null} /\ m \in Modules \cup {Null}
      BY KindsDisjoint, OwnerKinds
    <2>2. /\ Link(parent', n) = b /\ Link(parent', b) = s
          /\ Link(parent', s) = m /\ Link(parent', m) = Link(parent, m)
      BY <1>2, <2>1, KindsDisjoint
    <2>3. QED
      BY <2>1, <2>2, HomeByLinks, KindsDisjoint DEF CfgNode
  <1>4. ASSUME NEW n \in ProxyBlocks
        PROVE  /\ n = x => /\ HomeIR(n) = old /\ HomeIR(n)' = new
                           /\ c # parent[x] => Path(n)' # Path(n)
               /\ n # x => HomeIR(n)' = HomeIR(n)
    <2> DEFINE m == Link(parent, n)
               mm == IF n = x THEN c ELSE m
    <2>1. m \in Modules \cup {Null} /\ mm \in Modules \cup {Null}
      BY OwnerKinds
    <2>2. Link(parent', n) = mm /\ Link(parent', mm) = Link(parent, mm)
      BY <1>2, <2>1, KindsDisjoint
    <2>3. HomeIR(n) = Link(parent, m) /\ HomeIR(n)' = Link(parent, mm)
      BY <2>2, HomeByLinks DEF CfgNode
    <2>4. mm # m => Path(n)' # Path(n)
      BY <2>2, PathByLinks
    <2>5. n = x => m = parent[x]
      BY KindsDisjoint DEF Link
    <2>6. QED
      BY <2>3, <2>4, <2>5
  <1>5. QED
    BY <1>1, <1>3, <1>4 DEF Moves, CfgNode

(* Moving a symbol moves no block: no graph has to change. *)
LEMMA SymbolMoves ==
    ASSUME TreeTypeOK, OwnershipAgrees,
           NEW x \in Symbols, NEW c \in Modules \cup {Null},
           Reparent(x, c), UNCHANGED cfg
    PROVE  Moves(x, c, {}, Null, Null)
  <1>1. x \in Node /\ c \in Node \cup {Null} /\ (c # Null => CanOwn(c, x))
    BY KindsDisjoint DEF CanOwn, Modules, Symbols, NodesOf
  <1>2. \A n \in Node \cup {Null} :
           Link(parent', n) = IF n = x THEN c ELSE Link(parent, n)
    BY <1>1, Rehang
  <1>3. ASSUME NEW n \in CodeBlocks
        PROVE  HomeIR(n)' = HomeIR(n)
    <2> DEFINE b == Link(parent, n)
               s == Link(parent, b)
               m == Link(parent, s)
    <2>1. /\ n \in Blocks /\ b \in ByteIntervals \cup {Null}
          /\ s \in Sections \cup {Null} /\ m \in Modules \cup {Null}
      BY KindsDisjoint, OwnerKinds
    <2>2. /\ Link(parent', n) = b /\ Link(parent', b) = s
          /\ Link(parent', s) = m /\ Link(parent', m) = Link(parent, m)
      BY <1>2, <2>1, KindsDisjoint
    <2>3. QED
      BY <2>2, HomeByLinks DEF CfgNode
  <1>4. ASSUME NEW n \in ProxyBlocks
        PROVE  HomeIR(n)' = HomeIR(n)
    <2> DEFINE m == Link(parent, n)
    <2>1. m \in Modules \cup {Null}
      BY OwnerKinds
    <2>2. Link(parent', n) = m /\ Link(parent', m) = Link(parent, m)
      BY <1>2, <2>1, KindsDisjoint
    <2>3. QED
      BY <2>2, HomeByLinks DEF CfgNode
  <1>5. MoveCfgNodes({}, Null, Null)
    BY KindsDisjoint DEF TreeTypeOK, MoveCfgNodes
  <1>6. QED
    BY <1>1, <1>3, <1>4, <1>5 DEF Moves, CfgNode

(* Every restructuring action moves the right nodes. *)
LEMMA RestructureMoves ==
    ASSUME TreeTypeOK, OwnershipAgrees, Restructure
    PROVE  \E x, c, N, old, new : Moves(x, c, N, old, new)
  <1>1. ASSUME NEW i \in IRs, NEW m \in Modules, RemoveModule(i, m)
        PROVE  \E x, c, N, old, new : Moves(x, c, N, old, new)
    <2>1. i = Link(parent, m)
      BY <1>1, KindsDisjoint DEF RemoveModule, OwnershipAgrees, Link
    <2>2. QED
      BY <1>1, <2>1, ModuleMoves DEF RemoveModule
  <1>2. ASSUME NEW i \in IRs, NEW m \in Modules, AddModule(i, m)
        PROVE  \E x, c, N, old, new : Moves(x, c, N, old, new)
    BY <1>2, ModuleMoves DEF AddModule, ModuleIR, Up, Link
  <1>3. ASSUME NEW m \in Modules, NEW s \in Sections, RemoveSection(m, s)
        PROVE  \E x, c, N, old, new : Moves(x, c, N, old, new)
    <2>1. ModuleIR(m) = Link(parent, Link(parent, s)) /\ Null = Link(parent, Null)
      BY <1>3, KindsDisjoint DEF RemoveSection, OwnershipAgrees, Link, ModuleIR, Up
    <2>2. QED
      BY <1>3, <2>1, SectionMoves DEF RemoveSection
  <1>4. ASSUME NEW m \in Modules, NEW s \in Sections, AddSection(m, s)
        PROVE  \E x, c, N, old, new : Moves(x, c, N, old, new)
    <2>1. SectionIR(s) = Link(parent, Link(parent, s)) /\ ModuleIR(m) = Link(parent, m)
      BY DEF Link, ModuleIR, SectionIR, Up
    <2>2. QED
      BY <1>4, <2>1, SectionMoves DEF AddSection
  <1>5. ASSUME NEW m \in Modules, NEW b \in ProxyBlocks, RemoveProxyBlock(m, b)
        PROVE  \E x, c, N, old, new : Moves(x, c, N, old, new)
    <2>1. ModuleIR(m) = Link(parent, Link(parent, b)) /\ Null = Link(parent, Null)
      BY <1>5, KindsDisjoint DEF RemoveProxyBlock, OwnershipAgrees, Link, ModuleIR, Up
    <2>2. QED
      BY <1>5, <2>1, ProxyBlockMoves DEF RemoveProxyBlock
  <1>6. ASSUME NEW m \in Modules, NEW b \in ProxyBlocks, AddProxyBlock(m, b)
        PROVE  \E x, c, N, old, new : Moves(x, c, N, old, new)
    <2>1. /\ ModuleIR(parent[b]) = Link(parent, Link(parent, b))
          /\ ModuleIR(m) = Link(parent, m)
      BY KindsDisjoint DEF Link, ModuleIR, Up
    <2>2. QED
      BY <1>6, <2>1, ProxyBlockMoves DEF AddProxyBlock
  <1>7. ASSUME NEW m \in Modules, NEW s \in Symbols, RemoveSymbol(m, s)
        PROVE  \E x, c, N, old, new : Moves(x, c, N, old, new)
    BY <1>7, SymbolMoves DEF RemoveSymbol
  <1>8. ASSUME NEW m \in Modules, NEW s \in Symbols, AddSymbol(m, s)
        PROVE  \E x, c, N, old, new : Moves(x, c, N, old, new)
    BY <1>8, SymbolMoves DEF AddSymbol
  <1>9. ASSUME NEW s \in Sections, NEW b \in ByteIntervals, RemoveByteInterval(s, b)
        PROVE  \E x, c, N, old, new : Moves(x, c, N, old, new)
    <2>1. /\ SectionIR(s) = Link(parent, Link(parent, Link(parent, b)))
          /\ Null = Link(parent, Link(parent, Null))
      BY <1>9, KindsDisjoint
      DEF RemoveByteInterval, OwnershipAgrees, Link, SectionIR, ModuleIR, Up
    <2>2. QED
      BY <1>9, <2>1, ByteIntervalMoves DEF RemoveByteInterval
  <1>10. ASSUME NEW s \in Sections, NEW b \in ByteIntervals, AddByteInterval(s, b)
         PROVE  \E x, c, N, old, new : Moves(x, c, N, old, new)
    <2>1. /\ ByteIntervalIR(b) = Link(parent, Link(parent, Link(parent, b)))
          /\ SectionIR(s) = Link(parent, Link(parent, s))
      BY DEF Link, ByteIntervalIR, SectionIR, ModuleIR, Up
    <2>2. QED
      BY <1>10, <2>1, ByteIntervalMoves DEF AddByteInterval
  <1>11. ASSUME NEW bi \in ByteIntervals, NEW b \in Blocks, RemoveBlock(bi, b)
         PROVE  \E x, c, N, old, new : Moves(x, c, N, old, new)
    <2>1. bi = Link(parent, b)
      BY <1>11, KindsDisjoint DEF RemoveBlock, OwnershipAgrees, Link
    <2>2. /\ ByteIntervalIR(bi) = Link(parent, Link(parent, Link(parent, bi)))
          /\ Null = Link(parent, Link(parent, Link(parent, Null)))
      BY DEF Link, ByteIntervalIR, SectionIR, ModuleIR, Up
    <2>3. QED
      BY <1>11, <2>1, <2>2, BlockMoves DEF RemoveBlock
  <1>12. ASSUME NEW bi \in ByteIntervals, NEW b \in Blocks, AddBlock(bi, b)
         PROVE  \E x, c, N, old, new : Moves(x, c, N, old, new)
    <2>1. /\ ByteIntervalIR(parent[b]) =
               Link(parent, Link(parent, Link(parent, Link(parent, b))))
          /\ ByteIntervalIR(bi) = Link(parent, Link(parent, Link(parent, bi)))
      BY KindsDisjoint DEF Link, ByteIntervalIR, SectionIR, ModuleIR, Up
    <2>2. QED
      BY <1>12, <2>1, BlockMoves DEF AddBlock
  <1>13. QED
    BY <1>1, <1>2, <1>3, <1>4, <1>5, <1>6, <1>7, <1>8, <1>9, <1>10, <1>11, <1>12
    DEF Restructure

-----------------------------------------------------------------------------

(* The steps of the induction. *)

TreeInv ==
    /\ TreeTypeOK
    /\ OwnershipAgrees
    /\ CfgMirrorsTree
    /\ EdgesJoinVertices

(* The inductive invariant makes every graph well formed. *)
LEMMA TreeInvGraphs ==
    ASSUME TreeInv
    PROVE  \A i \in IRs : GraphOK(cfg[i])
  BY DEF TreeInv, TreeTypeOK, EdgesJoinVertices, GraphOK

(* Moving vertices between two graphs acts on each graph as RemoveVertices and
   AddVertices do. *)
LEMMA MovedGraphs ==
    ASSUME NEW N, N \subseteq CfgNode, NEW old, NEW new, MoveCfgNodes(N, old, new),
           \A i \in IRs : GraphOK(cfg[i])
    PROVE  /\ cfg' \in [IRs -> Graph(CfgNode)]
           /\ \A i \in IRs :
                 /\ GraphOK(cfg'[i])
                 /\ cfg'[i].nodes = (cfg[i].nodes \ (IF i = old THEN N ELSE {}))
                                       \cup (IF i = new THEN N ELSE {})
                 /\ \A e \in cfg[i].edges \ cfg'[i].edges : e.src \in N \/ e.dst \in N
  <1> DEFINE G(i) == IF i = old THEN RemoveVertices(cfg[i], N) ELSE cfg[i]
             H(i) == IF i = new THEN AddVertices(G(i), N) ELSE G(i)
  <1>1. cfg' = [i \in IRs |-> H(i)]
    BY DEF MoveCfgNodes
  <1>2. ASSUME NEW i \in IRs
        PROVE  /\ GraphOK(G(i))
               /\ G(i).nodes = cfg[i].nodes \ (IF i = old THEN N ELSE {})
               /\ \A e \in cfg[i].edges \ G(i).edges : e.src \in N \/ e.dst \in N
    BY RemoveVerticesFacts
  <1> HIDE DEF G
  <1>3. ASSUME NEW i \in IRs
        PROVE  /\ GraphOK(H(i))
               /\ H(i).nodes = G(i).nodes \cup (IF i = new THEN N ELSE {})
               /\ H(i).edges = G(i).edges
    BY <1>2, AddVerticesFacts
  <1> HIDE DEF H
  <1>4. \A i \in IRs : cfg'[i] = H(i)
    BY <1>1
  <1>5. \A i \in IRs : H(i) \in Graph(CfgNode)
    BY <1>3 DEF GraphOK
  <1>6. QED
    BY <1>1, <1>2, <1>3, <1>4, <1>5

(* A restructuring step that moves what it should, as Moves says, keeps the
   inductive invariant. *)
LEMMA MovesKeepInv ==
    ASSUME TreeInv, NEW x, NEW c, NEW N, NEW old, NEW new, Moves(x, c, N, old, new)
    PROVE  TreeInv'
  <1>1. /\ x \in Node /\ c \in Node \cup {Null}
        /\ c # Null => CanOwn(c, x)
        /\ Reparent(x, c)
        /\ MoveCfgNodes(N, old, new)
        /\ N \subseteq CfgNode
    BY DEF Moves
  <1>2. /\ cfg' \in [IRs -> Graph(CfgNode)]
        /\ \A i \in IRs :
              /\ GraphOK(cfg'[i])
              /\ cfg'[i].nodes = (cfg[i].nodes \ (IF i = old THEN N ELSE {}))
                                    \cup (IF i = new THEN N ELSE {})
              /\ \A e \in cfg[i].edges \ cfg'[i].edges : e.src \in N \/ e.dst \in N
    <2>1. \A i \in IRs : GraphOK(cfg[i])
      BY TreeInvGraphs
    <2>2. QED
      BY <1>1, <2>1, MovedGraphs, Zenon
  <1>3. TreeTypeOK'
    <2>1. parent' \in [Node -> Node \cup {Null}]
      BY <1>1 DEF TreeInv, TreeTypeOK, Reparent
    <2>2. children' \in [Node -> SUBSET Node]
      BY <1>1 DEF TreeInv, TreeTypeOK, Reparent
    <2>3. \A n \in Node : parent'[n] # Null => CanOwn(parent'[n], n)
      BY <1>1 DEF TreeInv, TreeTypeOK, Reparent
    <2>4. QED
      BY <1>2, <2>1, <2>2, <2>3 DEF TreeTypeOK, CanOwn
  <1>4. OwnershipAgrees'
    <2> SUFFICES ASSUME NEW d \in Node, NEW n \in Node
                 PROVE  n \in children'[d] <=> parent'[n] = d
      BY DEF OwnershipAgrees
    <2>1. n \in children[d] <=> parent[n] = d
      BY DEF TreeInv, OwnershipAgrees
    <2>2. parent'[n] = IF n = x THEN c ELSE parent[n]
      BY <1>1 DEF TreeInv, TreeTypeOK, Reparent
    <2>3. children'[d] = (IF d = parent[x] THEN children[d] \ {x} ELSE children[d])
                            \cup (IF d = c THEN {x} ELSE {})
      BY <1>1 DEF Reparent
    <2>4. x \in children[d] <=> parent[x] = d
      BY <1>1 DEF TreeInv, OwnershipAgrees
    <2>5. QED
      BY <2>1, <2>2, <2>3, <2>4
  <1>5. CfgMirrorsTree'
    <2> SUFFICES ASSUME NEW i \in IRs, NEW n \in CfgNode \ HandEdited
                 PROVE  n \in cfg'[i].nodes <=> HomeIR(n)' = i
      BY DEF CfgMirrorsTree
    <2>1. n \in cfg[i].nodes <=> HomeIR(n) = i
      BY DEF TreeInv, CfgMirrorsTree
    <2>2. n \in N => HomeIR(n) = old /\ HomeIR(n)' = new
      BY DEF Moves
    <2>3. n \notin N => HomeIR(n)' = HomeIR(n)
      BY DEF Moves
    <2>4. QED
      BY <1>2, <2>1, <2>2, <2>3
  <1>6. EdgesJoinVertices'
    BY <1>2 DEF EdgesJoinVertices, GraphOK
  <1>7. QED
    BY <1>3, <1>4, <1>5, <1>6 DEF TreeInv

(* A client's edit of a graph, if it keeps the graph well formed and the
   vertices that are not edited by hand, keeps the invariant. *)
LEMMA EditKeepsInv ==
    ASSUME TreeInv, NEW i \in IRs, NEW g, EditGraph(i, g), GraphOK(g),
           \A n \in CfgNode \ HandEdited : n \in g.nodes <=> n \in cfg[i].nodes
    PROVE  TreeInv'
  <1>1. parent' = parent /\ children' = children /\ cfg' = [cfg EXCEPT ![i] = g]
    BY DEF EditGraph
  <1>2. \A j \in IRs : cfg'[j] = IF j = i THEN g ELSE cfg[j]
    BY <1>1 DEF TreeInv, TreeTypeOK
  <1>3. TreeTypeOK'
    BY <1>1 DEF TreeInv, TreeTypeOK, GraphOK, CanOwn
  <1>4. OwnershipAgrees'
    BY <1>1 DEF TreeInv, OwnershipAgrees
  <1>5. \A n \in CfgNode : HomeIR(n)' = HomeIR(n)
    BY <1>1 DEF HomeIR, ByteIntervalIR, SectionIR, ModuleIR, Up
  <1>6. CfgMirrorsTree'
    BY <1>2, <1>5 DEF TreeInv, CfgMirrorsTree
  <1>7. EdgesJoinVertices'
    BY <1>2 DEF TreeInv, EdgesJoinVertices, GraphOK
  <1>8. QED
    BY <1>3, <1>4, <1>6, <1>7 DEF TreeInv

(* Each of the edits a client makes through IR::getCFG keeps the invariant. *)
LEMMA HandEditsKeepInv ==
    ASSUME TreeInv, EditByHand
    PROVE  TreeInv' /\ UNCHANGED parent
  <1>1. PICK i \in IRs :
           \/ \E n \in HandEdited \cap CfgNode :
                 AddVertexByHand(i, n) \/ RemoveVertexByHand(i, n)
           \/ \E from, to \in CfgNode :
                 \/ AddEdgeByHand(i, from, to)
                 \/ RemoveEdgeByHand(i, from, to)
                 \/ \E label \in Label : RemoveLabelledEdgeByHand(i, from, to, label)
           \/ \E e \in cfg[i].edges : \E label \in Label : LabelEdgeByHand(i, e, label)
    BY DEF EditByHand
  <1>2. GraphOK(cfg[i])
    BY TreeInvGraphs
  <1>3. ASSUME NEW n \in HandEdited \cap CfgNode,
               AddVertexByHand(i, n) \/ RemoveVertexByHand(i, n)
        PROVE  TreeInv' /\ UNCHANGED parent
    <2>1. CASE AddVertexByHand(i, n)
      <3>1. GraphOK(AddVertices(cfg[i], {n}))
        BY <1>2, AddVerticesFacts
      <3>2. AddVertices(cfg[i], {n}).nodes = cfg[i].nodes \cup {n}
        BY <1>2, AddVerticesFacts
      <3>3. QED
        BY <2>1, <3>1, <3>2, EditKeepsInv DEF AddVertexByHand, EditGraph
    <2>2. CASE RemoveVertexByHand(i, n)
      <3>1. GraphOK(RemoveVertices(cfg[i], {n}))
        BY <1>2, RemoveVerticesFacts
      <3>2. RemoveVertices(cfg[i], {n}).nodes = cfg[i].nodes \ {n}
        BY <1>2, RemoveVerticesFacts
      <3>3. QED
        BY <2>2, <3>1, <3>2, EditKeepsInv DEF RemoveVertexByHand, EditGraph
    <2>3. QED
      BY <1>3, <2>1, <2>2
  <1>4. ASSUME NEW from \in CfgNode, NEW to \in CfgNode, AddEdgeByHand(i, from, to)
        PROVE  TreeInv' /\ UNCHANGED parent
    <2>1. /\ GraphOK(AddEdge(cfg[i], from, to))
          /\ AddEdge(cfg[i], from, to).nodes = cfg[i].nodes
      BY <1>2, EdgeEditFacts, LabelAssumption
    <2>2. QED
      BY <1>4, <2>1, EditKeepsInv DEF AddEdgeByHand, EditGraph
  <1>5. ASSUME NEW from \in CfgNode, NEW to \in CfgNode, RemoveEdgeByHand(i, from, to)
        PROVE  TreeInv' /\ UNCHANGED parent
    <2>1. /\ GraphOK(RemoveEdge(cfg[i], from, to))
          /\ RemoveEdge(cfg[i], from, to).nodes = cfg[i].nodes
      BY <1>2, EdgeEditFacts, LabelAssumption
    <2>2. QED
      BY <1>5, <2>1, EditKeepsInv DEF RemoveEdgeByHand, EditGraph
  <1>6. ASSUME NEW from \in CfgNode, NEW to \in CfgNode, NEW label \in Label,
               RemoveLabelledEdgeByHand(i, from, to, label)
        PROVE  TreeInv' /\ UNCHANGED parent
    <2>1. /\ GraphOK(RemoveLabelledEdge(cfg[i], from, to, label))
          /\ RemoveLabelledEdge(cfg[i], from, to, label).nodes = cfg[i].nodes
      BY <1>2, EdgeEditFacts
    <2>2. QED
      BY <1>6, <2>1, EditKeepsInv DEF RemoveLabelledEdgeByHand, EditGraph
  <1>7. ASSUME NEW e \in cfg[i].edges, NEW label \in Label, LabelEdgeByHand(i, e, label)
        PROVE  TreeInv' /\ UNCHANGED parent
    <2>1. PICK g \in SetLabel(cfg[i], e, label) : EditGraph(i, g)
      BY <1>7 DEF LabelEdgeByHand
    <2>2. GraphOK(g) /\ g.nodes = cfg[i].nodes
      BY <1>2, SetLabelFacts
    <2>3. QED
      BY <2>1, <2>2, EditKeepsInv DEF EditGraph
  <1>8. QED
    BY <1>1, <1>3, <1>4, <1>5, <1>6, <1>7

(* A context without parents and edges satisfies the invariant. *)
LEMMA TreeInvInit ==
    ASSUME TreeInit
    PROVE  TreeInv
  <1>1. EmptyGraph \in Graph(CfgNode)
    BY DEF EmptyGraph, Graph
  <1>2. TreeTypeOK
    BY <1>1 DEF TreeInit, TreeTypeOK
  <1>3. OwnershipAgrees
    BY NodeAssumption DEF TreeInit, OwnershipAgrees
  <1>4. \A n \in CfgNode : HomeIR(n) = Null
    BY KindsDisjoint
    DEF TreeInit, HomeIR, ByteIntervalIR, SectionIR, ModuleIR, Up, CfgNode
  <1>5. CfgMirrorsTree
    BY <1>4, KindsDisjoint DEF TreeInit, CfgMirrorsTree, EmptyGraph
  <1>6. EdgesJoinVertices
    BY DEF TreeInit, EdgesJoinVertices, EmptyGraph
  <1>7. QED
    BY <1>2, <1>3, <1>5, <1>6 DEF TreeInv

(* Every step of the context keeps the invariant. *)
LEMMA TreeInvNext ==
    ASSUME TreeInv, [TreeNext]_treeVars
    PROVE  TreeInv'
  <1>1. CASE Restructure
    <2>1. PICK x, c, N, old, new : Moves(x, c, N, old, new)
      BY <1>1, RestructureMoves DEF TreeInv
    <2>2. QED
      BY <2>1, MovesKeepInv
  <1>2. CASE EditByHand
    BY <1>2, HandEditsKeepInv
  <1>3. CASE UNCHANGED treeVars
    BY <1>3
    DEF treeVars, TreeInv, TreeTypeOK, OwnershipAgrees, CfgMirrorsTree, EdgesJoinVertices,
        HomeIR, ByteIntervalIR, SectionIR, ModuleIR, Up, CanOwn
  <1>4. QED
    BY <1>1, <1>2, <1>3 DEF TreeNext

(* The inductive invariant holds throughout: types, the agreement of pointers
   with containers, of graphs with the tree and of edges with vertices, which
   no action keeps one without the others. *)
THEOREM TreeInvariant == TreeSpec => []TreeInv
  <1>1. TreeInit => TreeInv
    BY TreeInvInit
  <1>2. TreeInv /\ [TreeNext]_treeVars => TreeInv'
    BY TreeInvNext
  <1>3. QED
    BY <1>1, <1>2, PTL DEF TreeSpec

-----------------------------------------------------------------------------

(* Pointers and containers only ever join nodes of the right kinds, and graphs
   consist of CFG nodes: no sequence of IR, Module, Section and ByteInterval
   calls mixes kinds up. *)
THEOREM TreeTypeCorrect == TreeSpec => []TreeTypeOK
  <1>1. TreeInv => TreeTypeOK
    BY DEF TreeInv
  <1>2. QED
    BY <1>1, TreeInvariant, PTL

(* The Parent pointer of a node and the containers agree at all times: the add
   operations, which take a node away from any former owner, never leave it in
   two containers or in none. *)
THEOREM TreeOwnership == TreeSpec => []OwnershipAgrees
  <1>1. TreeInv => OwnershipAgrees
    BY DEF TreeInv
  <1>2. QED
    BY <1>1, TreeInvariant, PTL

(* The observer chain keeps the graph of every IR in step with the tree, for
   trees of any size: a vertex for each code block and proxy block below the
   IR and for no other node that clients leave alone. *)
THEOREM CfgFollowsTree == TreeSpec => []CfgMirrorsTree
  <1>1. TreeInv => CfgMirrorsTree
    BY DEF TreeInv
  <1>2. QED
    BY <1>1, TreeInvariant, PTL

(* No graph ever has an edge without one of its vertices. *)
THEOREM EdgesNeverDangle == TreeSpec => []EdgesJoinVertices
  <1>1. TreeInv => EdgesJoinVertices
    BY DEF TreeInv
  <1>2. QED
    BY <1>1, TreeInvariant, PTL

(* A step that restructures the tree drops an edge only if an end of it was
   below the node that moved. *)
THEOREM MovesDropOnlyMovedEdges == TreeSpec => UnmovedEdgesSurvive
  <1> DEFINE Survive ==
         parent' # parent =>
            \A i \in IRs : \A e \in cfg[i].edges \ cfg'[i].edges :
                Path(e.src)' # Path(e.src) \/ Path(e.dst)' # Path(e.dst)
  <1>1. ASSUME TreeInv, [TreeNext]_treeVars
        PROVE  [Survive]_treeVars
    <2>1. CASE Restructure
      <3>1. PICK x, c, N, old, new : Moves(x, c, N, old, new)
        BY <1>1, <2>1, RestructureMoves DEF TreeInv
      <3>2. \A i \in IRs : GraphOK(cfg[i])
        BY <1>1, TreeInvGraphs
      <3>3. \A i \in IRs : \A e \in cfg[i].edges \ cfg'[i].edges : e.src \in N \/ e.dst \in N
        BY <3>1, <3>2, MovedGraphs DEF Moves
      <3>4. c = parent[x] => parent' = parent
        BY <1>1, <3>1 DEF Moves, Reparent, TreeInv, TreeTypeOK
      <3>5. c # parent[x] => \A n \in N : Path(n)' # Path(n)
        BY <3>1 DEF Moves
      <3>6. QED
        BY <3>3, <3>4, <3>5
    <2>2. CASE EditByHand
      BY <1>1, <2>2, HandEditsKeepInv
    <2>3. CASE UNCHANGED treeVars
      BY <2>3
    <2>4. QED
      BY <1>1, <2>1, <2>2, <2>3 DEF TreeNext
  <1>2. TreeSpec => [][Survive]_treeVars
    BY <1>1, TreeInvariant, PTL DEF TreeSpec
  <1>3. QED
    BY <1>2 DEF UnmovedEdgesSurvive

-----------------------------------------------------------------------------

(***************************************************************************)
(* Part II: the address maps.                                              *)
(***************************************************************************)

MapInv ==
    /\ TreeInv
    /\ TypeOK
    /\ SectionMapExact
    /\ ExtentIsHull
    /\ ModuleMapExact

-----------------------------------------------------------------------------

(* The maps run on the tree. *)

(* Every operation is one on the tree, or leaves the tree alone. *)
LEMMA MapStepsAreTreeSteps ==
    ASSUME [Next]_vars
    PROVE  [TreeNext]_treeVars
  <1>1. ASSUME NEW m \in Modules, NEW s \in Sections,
               removeSection(m, s) \/ addSection(m, s)
        PROVE  Restructure
    BY <1>1 DEF removeSection, addSection, Restructure
  <1>2. ASSUME NEW s \in Sections, NEW b \in ByteIntervals,
               removeByteInterval(s, b) \/ addByteInterval(s, b)
        PROVE  Restructure
    BY <1>2 DEF removeByteInterval, addByteInterval, Restructure
  <1>3. ASSUME NEW b \in ByteIntervals, NEW addr, NEW sz, ChangeExtent(b, addr, sz)
        PROVE  UNCHANGED treeVars
    BY <1>3 DEF ChangeExtent
  <1>4. ASSUME Elsewhere
        PROVE  Restructure
    BY <1>4 DEF Elsewhere, Restructure
  <1>5. ASSUME UNCHANGED vars
        PROVE  UNCHANGED treeVars
    BY <1>5 DEF vars
  <1>6. QED
    BY <1>1, <1>2, <1>3, <1>4, <1>5 DEF Next, setAddress, setSize, TreeNext

(* Keeping the address maps up to date does not interfere with the tree: what
   is proved of the ownership tree and the CFGs holds for a context whose
   byte intervals have addresses. *)
THEOREM MapsRunOnTheTree == Spec => TreeSpec
  <1>1. Init => TreeInit
    BY DEF Init
  <1>2. [Next]_vars => [TreeNext]_treeVars
    BY MapStepsAreTreeSteps
  <1>3. QED
    BY <1>1, <1>2, PTL DEF Spec, TreeSpec

-----------------------------------------------------------------------------

(* Ranges, in terms of the values of the variables. *)

(* A byte interval b at addr[b] of size sz[b] is mapped at address a. *)
MapsTo(addr, sz, b, a) ==
    /\ addr[b] # Null /\ addr[b] <= a /\ a < addr[b] + sz[b]
    /\ ~(addr[b] # Null /\ addr[b] + sz[b] >= AddrLimit)

EndOf(addr, sz, b) ==
    IF addr[b] # Null /\ addr[b] + sz[b] >= AddrLimit THEN addr[b] ELSE addr[b] + sz[b]

(* e is the hull of the byte intervals B. *)
IsHull(e, B, addr, sz) ==
    IF B = {} \/ \E b \in B : addr[b] = Null
    THEN e = Null
    ELSE /\ e # Null
         /\ \A b \in B : e.lower <= addr[b]
         /\ \E b \in B : e.lower = addr[b]
         /\ \A b \in B : EndOf(addr, sz, b) <= e.lower + e.size
         /\ \E b \in B : EndOf(addr, sz, b) = e.lower + e.size

(* The points of an interval whose upper bound is computed in the width of an
   address: those of the range, or none if it reaches the top. *)
LEMMA PointsOfRange ==
    ASSUME NEW l \in Addr, NEW n \in Addr
    PROVE  /\ [lower |-> l, size |-> n] # Null
           /\ \A a \in Addr : a \in Points([lower |-> l, size |-> n]) <=>
                 l <= a /\ a < l + n /\ l + n < AddrLimit
  <1> DEFINE r == [lower |-> l, size |-> n]
  <1>1. AddrLimit \in Nat \ {0} /\ l \in 0 .. AddrLimit - 1 /\ n \in 0 .. AddrLimit - 1
    BY AddrAssumption DEF Addr
  <1>2. r # Null
    <2>1. r \in [lower : 0 .. AddrLimit - 1, size : 0 .. AddrLimit - 1]
      BY <1>1
    <2>2. QED
      BY <2>1, AddrAssumption
  <1>3. (l + n) % AddrLimit = IF l + n < AddrLimit THEN l + n ELSE l + n - AddrLimit
    BY <1>1, SumInWidth
  <1>4. Points(r) = l .. (((l + n) % AddrLimit) - 1)
    BY <1>2 DEF Points
  <1>5. ASSUME NEW a \in Addr
        PROVE  a \in Points(r) <=> l <= a /\ a < l + n /\ l + n < AddrLimit
    <2>1. a \in 0 .. AddrLimit - 1
      BY DEF Addr
    <2>2. QED
      BY <1>1, <1>3, <1>4, <2>1
  <1>6. QED
    BY <1>2, <1>5

(* Nothing is on a range that is absent. *)
LEMMA PointsOfNull == Points(Null) = {}
  BY DEF Points

(* The points over which a byte interval is inserted into a map, or taken out
   of it, are those where the map should have it. *)
LEMMA PointsAreMapped ==
    ASSUME NEW addr \in [ByteIntervals -> Addr \cup {Null}],
           NEW sz \in [ByteIntervals -> Size],
           NEW b \in ByteIntervals, NEW a \in Addr
    PROVE  MapsTo(addr, sz, b, a) <=>
             a \in Points(IF addr[b] = Null THEN Null
                          ELSE [lower |-> addr[b], size |-> sz[b]])
  <1>1. CASE addr[b] = Null
    BY <1>1, PointsOfNull DEF MapsTo
  <1>2. CASE addr[b] # Null
    <2>1. addr[b] \in Addr /\ sz[b] \in Addr
      BY <1>2, AddrAssumption DEF Addr
    <2>2. addr[b] \in Int /\ sz[b] \in Int /\ AddrLimit \in Int
      BY <2>1, AddrAssumption DEF Addr
    <2>3. a \in Points([lower |-> addr[b], size |-> sz[b]]) <=>
             addr[b] <= a /\ a < addr[b] + sz[b] /\ addr[b] + sz[b] < AddrLimit
      BY <2>1, PointsOfRange
    <2>4. QED
      BY <1>2, <2>2, <2>3 DEF MapsTo
  <1>3. QED
    BY <1>1, <1>2

(* updateExtent computes the hull of the byte intervals of a section, if the
   section's interval map is exact; the hull ends inside the address space, so
   its size fits into the width of an address. *)
LEMMA NewExtentIsHull ==
    ASSUME NEW addr \in [ByteIntervals -> Addr \cup {Null}],
           NEW sz \in [ByteIntervals -> Size],
           NEW B, B \subseteq ByteIntervals,
           NEW map, \A a \in Addr : map[a] = {b \in B : MapsTo(addr, sz, b, a)}
    PROVE  /\ IsHull(NewExtent(B, addr, map), B, addr, sz)
           /\ NewExtent(B, addr, map) \in AddrRange \cup {Null}
  <1> DEFINE e == NewExtent(B, addr, map)
  <1>1. CASE B = {} \/ \E b \in B : addr[b] = Null
    <2>1. e = Null
      BY <1>1 DEF NewExtent
    <2>2. QED
      BY <1>1, <2>1 DEF IsHull
  <1>2. CASE ~(B = {} \/ \E b \in B : addr[b] = Null)
    <2> DEFINE starts == {addr[b] : b \in B}
               mapped == {a \in Addr : map[a] # {}}
               ends   == starts \cup {a + 1 : a \in mapped}
               lower  == Min(starts)
               upper  == Max(ends)
    <2>1. e = [lower |-> lower, size |-> upper - lower]
      BY <1>2 DEF NewExtent
    <2>2. AddrLimit \in Nat \ {0} /\ Addr = 0 .. AddrLimit - 1
      BY AddrAssumption DEF Addr
    <2>3. \A b \in B : addr[b] \in Addr /\ sz[b] \in Addr
      BY <1>2, AddrAssumption DEF Addr
    <2>4. \A b \in B : \A a \in Addr : MapsTo(addr, sz, b, a) <=>
             addr[b] <= a /\ a < addr[b] + sz[b] /\ addr[b] + sz[b] < AddrLimit
      BY <1>2, <2>2, <2>3 DEF MapsTo
    <2>5. \A b \in B : EndOf(addr, sz, b) =
             IF addr[b] + sz[b] < AddrLimit THEN addr[b] + sz[b] ELSE addr[b]
      BY <1>2, <2>2, <2>3 DEF EndOf
    <2>6. starts \subseteq Addr /\ starts # {}
      BY <1>2, <2>3
    <2>7. lower \in starts /\ \A x \in starts : lower <= x
      <3>1. starts \subseteq Nat
        BY <2>2, <2>6
      <3> HIDE DEF starts
      <3>2. QED
        BY <2>6, <3>1, MinIsLeast
    <2>8. \A a \in mapped : \E b \in B : MapsTo(addr, sz, b, a)
      OBVIOUS
    <2>9. ends \subseteq Addr
      <3>1. ASSUME NEW a \in mapped
            PROVE  a + 1 \in Addr
        <4>1. PICK b \in B : MapsTo(addr, sz, b, a)
          BY <2>8
        <4>2. addr[b] <= a /\ a < addr[b] + sz[b] /\ addr[b] + sz[b] < AddrLimit
          BY <2>4, <4>1
        <4>3. a \in Addr /\ addr[b] \in Addr /\ sz[b] \in Addr
          BY <2>3
        <4>4. QED
          BY <2>2, <4>2, <4>3
      <3>2. QED
        BY <2>6, <3>1
    <2>10. upper \in ends /\ \A x \in ends : x <= upper
      <3>1. ends \subseteq Nat /\ ends # {} /\ \A x \in ends : x <= AddrLimit
        BY <2>2, <2>6, <2>9
      <3> HIDE DEF ends
      <3>2. QED
        BY <2>2, <3>1, MaxIsGreatest
    <2>11. ASSUME NEW b \in B
           PROVE  EndOf(addr, sz, b) \in ends /\ addr[b] <= EndOf(addr, sz, b)
      <3>1. addr[b] \in ends
        OBVIOUS
      <3>2. CASE addr[b] + sz[b] < AddrLimit /\ sz[b] # 0
        <4> DEFINE a == addr[b] + sz[b] - 1
        <4>1. a \in Addr /\ addr[b] <= a /\ a < addr[b] + sz[b] /\ a + 1 = addr[b] + sz[b]
          BY <2>2, <2>3, <3>2
        <4>2. a \in mapped
          BY <2>4, <3>2, <4>1
        <4>3. a + 1 \in ends
          BY <4>2
        <4>4. QED
          BY <2>2, <2>3, <2>5, <3>2, <4>1, <4>3
      <3>3. CASE addr[b] + sz[b] < AddrLimit /\ sz[b] = 0
        <4>1. addr[b] + sz[b] = addr[b]
          BY <2>2, <2>3, <3>3
        <4>2. QED
          BY <2>2, <2>3, <2>5, <3>1, <3>3, <4>1
      <3>4. CASE ~(addr[b] + sz[b] < AddrLimit)
        BY <2>2, <2>3, <2>5, <3>1, <3>4
      <3>5. QED
        BY <3>2, <3>3, <3>4
    <2>12. \A b \in B : EndOf(addr, sz, b) <= upper /\ EndOf(addr, sz, b) \in Nat
      <3>1. \A x \in ends : x <= upper /\ x \in Nat
        BY <2>2, <2>9, <2>10
      <3> HIDE DEF ends, upper
      <3>2. QED
        BY <2>11, <3>1
    <2>13. \E b \in B : EndOf(addr, sz, b) = upper
      <3>1. CASE upper \in starts
        <4>1. PICK b \in B : upper = addr[b]
          BY <3>1
        <4>2. EndOf(addr, sz, b) <= upper /\ EndOf(addr, sz, b) \in Nat
          BY <2>12
        <4>3. upper <= EndOf(addr, sz, b) /\ upper \in Nat
          BY <2>2, <2>3, <2>11, <4>1
        <4>4. EndOf(addr, sz, b) = upper
          BY <4>2, <4>3
        <4>5. QED
          BY <4>4
      <3>2. ASSUME NEW a \in mapped, upper = a + 1
            PROVE  \E b \in B : EndOf(addr, sz, b) = upper
        <4>1. PICK b \in B : MapsTo(addr, sz, b, a)
          BY <2>8
        <4>2. a < addr[b] + sz[b] /\ EndOf(addr, sz, b) = addr[b] + sz[b]
          BY <2>4, <2>5, <4>1
        <4>3. EndOf(addr, sz, b) <= upper /\ EndOf(addr, sz, b) \in Nat
          BY <2>12
        <4>4. EndOf(addr, sz, b) = upper
          BY <2>2, <2>3, <3>2, <4>2, <4>3
        <4>5. QED
          BY <4>4
      <3>3. QED
        BY <2>10, <3>1, <3>2
    <2>14. lower \in Addr /\ upper \in Addr /\ lower <= upper
      BY <2>6, <2>7, <2>9, <2>10
    <2>15. /\ \A b \in B : lower <= addr[b]
           /\ \E b \in B : lower = addr[b]
           /\ \A b \in B : EndOf(addr, sz, b) <= upper
      BY <2>7, <2>12
    <2> HIDE DEF lower, upper
    <2>16. upper - lower \in Addr /\ lower + (upper - lower) = upper
      BY <2>2, <2>14
    <2>17. e \in AddrRange /\ e # Null
      BY <2>1, <2>14, <2>16, PointsOfRange DEF AddrRange
    <2>18. e.lower = lower /\ e.lower + e.size = upper
      BY <2>1, <2>16
    <2> HIDE DEF e
    <2>19. IsHull(e, B, addr, sz)
      BY <1>2, <2>13, <2>15, <2>17, <2>18 DEF IsHull
    <2>20. QED
      BY <2>17, <2>19 DEF e
  <1>3. QED
    BY <1>1, <1>2

-----------------------------------------------------------------------------

(* The parts of the invariant in terms of values, before and after a step. *)

(* The invariants about maps and extents are statements about the byte intervals
   of each section, those of each module about its sections. *)
LEMMA MapsByValue ==
    /\ SectionMapExact <=>
          \A s \in Sections : \A a \in Addr :
              intervalsOn[s][a] = {b \in children[s] : MapsTo(address, size, b, a)}
    /\ SectionMapExact' <=>
          \A s \in Sections : \A a \in Addr :
              intervalsOn'[s][a] = {b \in children'[s] : MapsTo(address', size', b, a)}
    /\ ExtentIsHull <=>
          \A s \in Sections : IsHull(extent[s], children[s], address, size)
    /\ ExtentIsHull' <=>
          \A s \in Sections : IsHull(extent'[s], children'[s], address', size')
  <1>1. \A b, a : Covers(b, a) /\ ~Wraps(b) <=> MapsTo(address, size, b, a)
    BY DEF Covers, Wraps, MapsTo
  <1>2. \A b, a : (Covers(b, a) /\ ~Wraps(b))' <=> MapsTo(address', size', b, a)
    BY DEF Covers, Wraps, MapsTo
  <1>3. \A b : UpperEnd(b) = EndOf(address, size, b)
    BY DEF UpperEnd, Wraps, EndOf
  <1>4. \A b : UpperEnd(b)' = EndOf(address', size', b)
    BY DEF UpperEnd, Wraps, EndOf
  <1>5. ExtentIsHull <=>
           \A s \in Sections : IsHull(extent[s], children[s], address, size)
    BY <1>3 DEF ExtentIsHull, IsHull
  <1>6. ExtentIsHull' <=>
           \A s \in Sections : IsHull(extent'[s], children'[s], address', size')
    BY <1>4 DEF ExtentIsHull, IsHull
  <1>7. QED
    BY <1>1, <1>2, <1>5, <1>6 DEF SectionMapExact, sectionFindByteIntervalsOn

(* In the tree, a section holds byte intervals only, and the sections of a
   module are those whose parent it is. *)
LEMMA SectionsInTree ==
    ASSUME TreeInv
    PROVE  /\ \A s \in Sections : children[s] \subseteq ByteIntervals
           /\ \A s \in Sections, b \in ByteIntervals : b \in children[s] <=> parent[b] = s
           /\ \A m \in Modules, s \in Sections : s \in children[m] <=> parent[s] = m
  BY NodeAssumption
  DEF TreeInv, TreeTypeOK, OwnershipAgrees, CanOwn, Sections, ByteIntervals, Modules, NodesOf

(* The same after a step. *)
LEMMA SectionsInTreeNext ==
    ASSUME TreeInv'
    PROVE  /\ \A s \in Sections : children'[s] \subseteq ByteIntervals
           /\ \A s \in Sections, b \in ByteIntervals : b \in children'[s] <=> parent'[b] = s
           /\ \A m \in Modules, s \in Sections : s \in children'[m] <=> parent'[s] = m
  BY NodeAssumption
  DEF TreeInv, TreeTypeOK, OwnershipAgrees, CanOwn, Sections, ByteIntervals, Modules, NodesOf

(* Who owns a section follows from the parent pointers alone. *)
LEMMA ModuleMapByValue ==
    /\ TreeInv => (ModuleMapExact <=>
          \A m \in Modules : \A a \in Addr :
              sectionsOn[m][a] = {s \in Sections : parent[s] = m /\ a \in Points(extent[s])})
    /\ TreeInv' => (ModuleMapExact' <=>
          \A m \in Modules : \A a \in Addr :
              sectionsOn'[m][a] = {s \in Sections : parent'[s] = m /\ a \in Points(extent'[s])})
  <1>1. ASSUME TreeInv
        PROVE  \A m \in Modules, a \in Addr :
                  {s \in children[m] \cap Sections : a \in Points(extent[s])} =
                  {s \in Sections : parent[s] = m /\ a \in Points(extent[s])}
    BY <1>1, SectionsInTree
  <1>2. ASSUME TreeInv'
        PROVE  \A m \in Modules, a \in Addr :
                  {s \in children'[m] \cap Sections : a \in Points(extent'[s])} =
                  {s \in Sections : parent'[s] = m /\ a \in Points(extent'[s])}
    BY <1>2, SectionsInTreeNext
  <1>3. \A x : Points(x)' = Points(x)
    BY DEF Points
  <1>4. QED
    BY <1>1, <1>2, <1>3 DEF ModuleMapExact, moduleFindSectionsOn

(* A step that updates byte intervals and then the extents of the sections S,
   where the interval maps are exact afterwards and the sections outside S keep
   their byte intervals as they were, leaves extents and module maps exact. *)
LEMMA ExtentsFollow ==
    ASSUME MapInv, TreeInv', SectionMapExact',
           address' \in [ByteIntervals -> Addr \cup {Null}],
           size' \in [ByteIntervals -> Size],
           NEW S, S \subseteq Sections, UpdateExtents(S),
           \A s \in Sections : parent'[s] = parent[s],
           \A s \in Sections \ S :
              /\ children'[s] = children[s]
              /\ \A b \in children[s] : address'[b] = address[b] /\ size'[b] = size[b]
    PROVE  /\ extent' \in [Sections -> AddrRange \cup {Null}]
           /\ sectionsOn' \in [Modules -> [Addr -> SUBSET Sections]]
           /\ ExtentIsHull'
           /\ ModuleMapExact'
  <1>1. /\ extent \in [Sections -> AddrRange \cup {Null}]
        /\ sectionsOn \in [Modules -> [Addr -> SUBSET Sections]]
    BY DEF MapInv, TypeOK
  <1>2. \A s \in S :
           /\ IsHull(extent'[s], children'[s], address', size')
           /\ extent'[s] \in AddrRange \cup {Null}
    <2> TAKE s \in S
    <2>1. extent'[s] = NewExtent(children'[s], address', intervalsOn'[s])
      BY DEF UpdateExtents
    <2>2. \A a \in Addr :
             intervalsOn'[s][a] = {b \in children'[s] : MapsTo(address', size', b, a)}
      BY MapsByValue
    <2>3. children'[s] \subseteq ByteIntervals
      BY SectionsInTreeNext
    <2>4. QED
      BY <2>1, <2>2, <2>3, NewExtentIsHull
  <1>3. \A s \in Sections \ S :
           extent'[s] = extent[s] /\ IsHull(extent'[s], children'[s], address', size')
    <2> TAKE s \in Sections \ S
    <2>1. extent'[s] = extent[s]
      BY DEF UpdateExtents
    <2>2. IsHull(extent[s], children[s], address, size)
      BY MapsByValue DEF MapInv
    <2>3. \A b \in children[s] : address'[b] = address[b] /\
             EndOf(address', size', b) = EndOf(address, size, b)
      BY DEF EndOf
    <2>4. IsHull(extent[s], children[s], address', size')
      BY <2>2, <2>3 DEF IsHull
    <2>5. QED
      BY <2>1, <2>4
  <1>4. ExtentIsHull'
    BY <1>2, <1>3, MapsByValue
  <1>5. extent' \in [Sections -> AddrRange \cup {Null}]
    BY <1>1, <1>2, <1>3 DEF UpdateExtents
  <1>6. \A m \in Modules : \A a \in Addr :
           sectionsOn'[m][a] = {s \in Sections : parent'[s] = m /\ a \in Points(extent'[s])}
    <2> TAKE m \in Modules
    <2> TAKE a \in Addr
    <2> DEFINE changed == {s \in S : parent[s] = m /\ extent'[s] # extent[s]}
    <2>1. sectionsOn'[m][a] = (sectionsOn[m][a] \ {s \in changed : a \in Points(extent[s])})
                                 \cup {s \in changed : a \in Points(extent'[s])}
      BY DEF UpdateExtents
    <2>2. sectionsOn[m][a] = {s \in Sections : parent[s] = m /\ a \in Points(extent[s])}
      BY ModuleMapByValue DEF MapInv
    <2>3. QED
      BY <1>3, <2>1, <2>2
  <1>7. ModuleMapExact'
    BY <1>6, ModuleMapByValue
  <1>8. sectionsOn' \in [Modules -> [Addr -> SUBSET Sections]]
    <2>1. sectionsOn' = [m \in Modules |-> [a \in Addr |-> sectionsOn'[m][a]]]
      BY DEF UpdateExtents
    <2>2. \A m \in Modules : \A a \in Addr : sectionsOn'[m][a] \subseteq Sections
      BY <1>6
    <2>3. QED
      BY <2>1, <2>2
  <1>9. QED
    BY <1>4, <1>5, <1>7, <1>8

-----------------------------------------------------------------------------

(* One lemma for each kind of operation. *)

(* Section::addByteInterval and Section::removeByteInterval: the byte interval
   leaves the map of its section, enters that of another if there is one, and
   the extents of both follow. *)
LEMMA ByteIntervalMoveKeepsMaps ==
    ASSUME MapInv, TreeInv', NEW b \in ByteIntervals, NEW c \in Sections \cup {Null},
           c # parent[b], Reparent(b, c), MoveByteIntervalAddrs(b, parent[b], c)
    PROVE  MapInv'
  <1> DEFINE old == parent[b]
             pts == Points(addressRange(b))
  <1>1. /\ address' = address /\ size' = size
        /\ UpdateExtents({old, c} \cap Sections)
    BY DEF MoveByteIntervalAddrs
  <1>2. /\ address \in [ByteIntervals -> Addr \cup {Null}]
        /\ size \in [ByteIntervals -> Size]
        /\ intervalsOn \in [Sections -> [Addr -> SUBSET ByteIntervals]]
    BY DEF MapInv, TypeOK
  <1>3. \A n \in Node : parent'[n] = IF n = b THEN c ELSE parent[n]
    BY DEF Reparent, MapInv, TreeInv, TreeTypeOK
  <1>4. b \in Node /\ Sections \subseteq Node /\ b \notin Sections
    BY KindsDisjoint
  <1>5. \A s \in Sections : children'[s] =
           (IF s = old THEN children[s] \ {b} ELSE children[s])
              \cup (IF s = c THEN {b} ELSE {})
    BY <1>4 DEF Reparent
  <1>6. \A s \in Sections : b \in children[s] <=> old = s
    BY SectionsInTree DEF MapInv
  <1>7. \A a \in Addr : a \in pts <=> MapsTo(address, size, b, a)
    BY <1>2, PointsAreMapped DEF addressRange
  <1>8. \A s \in Sections : \A a \in Addr :
           intervalsOn'[s][a] =
              ((IF s = old /\ a \in pts THEN intervalsOn[s][a] \ {b} ELSE intervalsOn[s][a])
                 \cup (IF s = c /\ a \in pts THEN {b} ELSE {}))
    BY DEF MoveByteIntervalAddrs, Insert, Subtract
  <1>9. \A s \in Sections : \A a \in Addr :
           intervalsOn'[s][a] = {x \in children'[s] : MapsTo(address', size', x, a)}
    <2> TAKE s \in Sections
    <2> TAKE a \in Addr
    <2>1. intervalsOn[s][a] = {x \in children[s] : MapsTo(address, size, x, a)}
      BY MapsByValue DEF MapInv
    <2> HIDE DEF pts
    <2>2. QED
      BY <1>1, <1>5, <1>6, <1>7, <1>8, <2>1
  <1>10. SectionMapExact'
    BY <1>9, MapsByValue
  <1>11. \A s \in Sections : parent'[s] = parent[s]
    BY <1>3, <1>4
  <1>12. \A s \in Sections \ ({old, c} \cap Sections) : children'[s] = children[s]
    BY <1>5
  <1>13. /\ extent' \in [Sections -> AddrRange \cup {Null}]
         /\ sectionsOn' \in [Modules -> [Addr -> SUBSET Sections]]
         /\ ExtentIsHull'
         /\ ModuleMapExact'
    <2>1. \A s \in Sections \ ({old, c} \cap Sections) :
             /\ children'[s] = children[s]
             /\ \A x \in children[s] : address'[x] = address[x] /\ size'[x] = size[x]
      BY <1>1, <1>12
    <2>2. {old, c} \cap Sections \subseteq Sections
      OBVIOUS
    <2>3. address' \in [ByteIntervals -> Addr \cup {Null}] /\ size' \in [ByteIntervals -> Size]
      BY <1>1, <1>2
    <2>4. QED
      BY <1>1, <1>10, <1>11, <2>1, <2>2, <2>3, ExtentsFollow
  <1>14. intervalsOn' \in [Sections -> [Addr -> SUBSET ByteIntervals]]
    <2>1. \A s \in Sections : \A a \in Addr : intervalsOn'[s][a] \subseteq ByteIntervals
      BY <1>9, SectionsInTreeNext
    <2>2. intervalsOn' = [s \in Sections |-> [a \in Addr |-> intervalsOn'[s][a]]]
      BY <1>2 DEF MoveByteIntervalAddrs, Insert, Subtract
    <2>3. QED
      BY <2>1, <2>2
  <1>15. QED
    BY <1>1, <1>2, <1>10, <1>13, <1>14 DEF MapInv, TypeOK, TreeInv

(* ByteInterval::setAddress and ByteInterval::setSize: the owner's map is updated
   around the change, its extent after it. *)
LEMMA RangeChangeKeepsMaps ==
    ASSUME MapInv, TreeInv', NEW b \in ByteIntervals,
           NEW addr \in Addr \cup {Null}, NEW sz \in Size, ChangeExtent(b, addr, sz)
    PROVE  MapInv'
  <1> DEFINE old == Points(addressRange(b))
             new == Points(addressRange(b)')
             S   == {parent[b]} \cap Sections
  <1>1. /\ address' = [address EXCEPT ![b] = addr]
        /\ size' = [size EXCEPT ![b] = sz]
        /\ parent' = parent /\ children' = children
        /\ UpdateExtents(S)
    BY DEF ChangeExtent, treeVars
  <1>2. /\ address \in [ByteIntervals -> Addr \cup {Null}]
        /\ size \in [ByteIntervals -> Size]
        /\ intervalsOn \in [Sections -> [Addr -> SUBSET ByteIntervals]]
    BY DEF MapInv, TypeOK
  <1>3. /\ address' \in [ByteIntervals -> Addr \cup {Null}]
        /\ size' \in [ByteIntervals -> Size]
        /\ \A x \in ByteIntervals \ {b} : address'[x] = address[x] /\ size'[x] = size[x]
    BY <1>1, <1>2
  <1>4. \A s \in Sections : children[s] \subseteq ByteIntervals /\ (b \in children[s] <=> parent[b] = s)
    BY SectionsInTree DEF MapInv
  <1>5. \A a \in Addr : a \in old <=> MapsTo(address, size, b, a)
    BY <1>2, PointsAreMapped DEF addressRange
  <1>6. \A a \in Addr : a \in new <=> MapsTo(address', size', b, a)
    <2>1. addressRange(b)' = IF address'[b] = Null THEN Null
                             ELSE [lower |-> address'[b], size |-> size'[b]]
      BY DEF addressRange
    <2>2. QED
      BY <1>3, <2>1, PointsAreMapped
  <1>7. \A s \in Sections : \A a \in Addr :
           intervalsOn'[s][a] =
              IF s = parent[b]
              THEN (IF a \in old THEN intervalsOn[s][a] \ {b} ELSE intervalsOn[s][a])
                      \cup (IF a \in new THEN {b} ELSE {})
              ELSE intervalsOn[s][a]
    BY DEF ChangeExtent, Insert, Subtract
  <1>8. \A s \in Sections : \A a \in Addr :
           intervalsOn'[s][a] = {x \in children'[s] : MapsTo(address', size', x, a)}
    <2> TAKE s \in Sections
    <2> TAKE a \in Addr
    <2>1. intervalsOn[s][a] = {x \in children[s] : MapsTo(address, size, x, a)}
      BY MapsByValue DEF MapInv
    <2>2. \A x \in children[s] \ {b} : MapsTo(address', size', x, a) <=> MapsTo(address, size, x, a)
      BY <1>3, <1>4 DEF MapsTo
    <2> HIDE DEF old, new
    <2>3. children'[s] = children[s]
      BY <1>1
    <2>4. CASE s = parent[b]
      <3>1. b \in children[s]
        BY <1>4, <2>4
      <3>2. intervalsOn'[s][a] =
               (IF a \in old THEN intervalsOn[s][a] \ {b} ELSE intervalsOn[s][a])
                  \cup (IF a \in new THEN {b} ELSE {})
        BY <1>7, <2>4
      <3>3. (a \in old <=> MapsTo(address, size, b, a)) /\ (a \in new <=> MapsTo(address', size', b, a))
        BY <1>5, <1>6
      <3>4. QED
        BY <2>1, <2>2, <2>3, <3>1, <3>2, <3>3
    <2>5. CASE s # parent[b]
      <3>1. b \notin children[s] /\ intervalsOn'[s][a] = intervalsOn[s][a]
        BY <1>4, <1>7, <2>5
      <3>2. QED
        BY <2>1, <2>2, <2>3, <3>1
    <2>6. QED
      BY <2>4, <2>5
  <1>9. SectionMapExact'
    BY <1>8, MapsByValue
  <1>10. \A s \in Sections \ S : \A x \in children[s] : x \in ByteIntervals \ {b}
    BY <1>4
  <1>11. /\ extent' \in [Sections -> AddrRange \cup {Null}]
         /\ sectionsOn' \in [Modules -> [Addr -> SUBSET Sections]]
         /\ ExtentIsHull'
         /\ ModuleMapExact'
    <2>1. S \subseteq Sections
      OBVIOUS
    <2>2. \A s \in Sections \ S :
             /\ children'[s] = children[s]
             /\ \A x \in children[s] : address'[x] = address[x] /\ size'[x] = size[x]
      BY <1>1, <1>3, <1>10
    <2>3. \A s \in Sections : parent'[s] = parent[s]
      BY <1>1
    <2> HIDE DEF S
    <2>4. QED
      BY <1>1, <1>3, <1>9, <2>1, <2>2, <2>3, ExtentsFollow
  <1>12. intervalsOn' \in [Sections -> [Addr -> SUBSET ByteIntervals]]
    <2>1. \A s \in Sections : \A a \in Addr : intervalsOn'[s][a] \subseteq ByteIntervals
      BY <1>8, SectionsInTreeNext
    <2>2. intervalsOn' = [s \in Sections |-> [a \in Addr |-> intervalsOn'[s][a]]]
      BY <1>2 DEF ChangeExtent, Insert, Subtract
    <2>3. QED
      BY <2>1, <2>2
  <1>13. QED
    BY <1>3, <1>9, <1>11, <1>12 DEF MapInv, TypeOK, TreeInv

(* Module::addSection and Module::removeSection: the section, with its extent as
   it is, leaves the map of its module and enters that of another if there is
   one. *)
LEMMA SectionMoveKeepsMaps ==
    ASSUME MapInv, TreeInv', NEW s \in Sections, NEW c \in Modules \cup {Null},
           c # parent[s], Reparent(s, c), MoveSectionAddrs(s, parent[s], c)
    PROVE  MapInv'
  <1> DEFINE pts == Points(extent[s])
  <1>1. UNCHANGED <<address, size, intervalsOn, extent>>
    BY DEF MoveSectionAddrs
  <1>2. \A n \in Node : parent'[n] = IF n = s THEN c ELSE parent[n]
    BY DEF Reparent, MapInv, TreeInv, TreeTypeOK
  <1>3. /\ s \in Node /\ Sections \subseteq Node
        /\ parent[s] \in Modules \cup {Null}
        /\ \A x \in Sections : x \notin Modules /\ x # Null
    <2>1. Link(parent, s) = parent[s]
      BY KindsDisjoint DEF Link
    <2>2. QED
      BY <2>1, KindsDisjoint, OwnerKinds DEF MapInv, TreeInv
  <1>4. \A x \in Sections : children'[x] = children[x]
    BY <1>3 DEF Reparent
  <1>5. SectionMapExact' /\ ExtentIsHull'
    BY <1>1, <1>4, MapsByValue DEF MapInv
  <1>6. \A m \in Modules : \A a \in Addr :
           sectionsOn'[m][a] =
              ((IF m = parent[s] /\ a \in pts THEN sectionsOn[m][a] \ {s} ELSE sectionsOn[m][a])
                 \cup (IF m = c /\ a \in pts THEN {s} ELSE {}))
    BY DEF MoveSectionAddrs, Insert, Subtract
  <1>7. \A m \in Modules : \A a \in Addr :
           sectionsOn'[m][a] = {x \in Sections : parent'[x] = m /\ a \in Points(extent'[x])}
    <2> TAKE m \in Modules
    <2> TAKE a \in Addr
    <2>1. sectionsOn[m][a] = {x \in Sections : parent[x] = m /\ a \in Points(extent[x])}
      BY ModuleMapByValue DEF MapInv
    <2>2. \A x \in Sections : parent'[x] = IF x = s THEN c ELSE parent[x]
      BY <1>2, <1>3
    <2>3. QED
      BY <1>1, <1>6, <2>1, <2>2
  <1>8. ModuleMapExact'
    BY <1>7, ModuleMapByValue
  <1>9. sectionsOn' \in [Modules -> [Addr -> SUBSET Sections]]
    <2>1. \A m \in Modules : \A a \in Addr : sectionsOn'[m][a] \subseteq Sections
      BY <1>7
    <2>2. sectionsOn \in [Modules -> [Addr -> SUBSET Sections]]
      BY DEF MapInv, TypeOK
    <2>3. sectionsOn' = [m \in Modules |-> [a \in Addr |-> sectionsOn'[m][a]]]
      BY <2>2 DEF MoveSectionAddrs, Insert, Subtract
    <2>4. QED
      BY <2>1, <2>3
  <1>10. QED
    BY <1>1, <1>5, <1>8, <1>9 DEF MapInv, TypeOK, TreeInv

(* A step that leaves the addresses, the maps, the byte intervals of the sections
   and the owners of the sections alone keeps the invariant. *)
LEMMA UntouchedMaps ==
    ASSUME MapInv, TreeInv', UNCHANGED mapVars,
           \A s \in Sections : children'[s] = children[s] /\ parent'[s] = parent[s]
    PROVE  MapInv'
  <1>1. UNCHANGED <<address, size, intervalsOn, extent, sectionsOn>>
    BY DEF mapVars
  <1>2. SectionMapExact' /\ ExtentIsHull'
    BY <1>1, MapsByValue DEF MapInv
  <1>3. ModuleMapExact'
    <2>1. \A m \in Modules : \A a \in Addr :
             sectionsOn[m][a] = {x \in Sections : parent[x] = m /\ a \in Points(extent[x])}
      BY ModuleMapByValue DEF MapInv
    <2>2. \A m \in Modules : \A a \in Addr :
             sectionsOn'[m][a] = {x \in Sections : parent'[x] = m /\ a \in Points(extent'[x])}
      BY <1>1, <2>1
    <2>3. QED
      BY <2>2, ModuleMapByValue
  <1>4. QED
    BY <1>1, <1>2, <1>3 DEF MapInv, TypeOK, TreeInv

(* Operations on modules and blocks do not concern the maps. *)
LEMMA ElsewhereKeepsMaps ==
    ASSUME MapInv, TreeInv', Elsewhere
    PROVE  MapInv'
  <1>1. \E n \in Modules \cup Blocks : \E c \in IRs \cup ByteIntervals \cup {Null} :
           Reparent(n, c)
    BY DEF Elsewhere, RemoveModule, AddModule, RemoveBlock, AddBlock
  <1>2. PICK n \in Modules \cup Blocks, c \in IRs \cup ByteIntervals \cup {Null} :
           Reparent(n, c)
    BY <1>1
  <1>3. /\ n \in Node /\ n \notin Sections
        /\ c \notin Sections
        /\ Sections \subseteq Node
    BY KindsDisjoint
  <1>4. parent[n] \notin Sections
    <2>1. Link(parent, n) = parent[n]
      BY KindsDisjoint DEF Link
    <2>2. Link(parent, n) \in IRs \cup ByteIntervals \cup {Null}
      BY OwnerKinds DEF MapInv, TreeInv
    <2>3. QED
      BY <2>1, <2>2, KindsDisjoint
  <1>5. \A s \in Sections : children'[s] = children[s]
    BY <1>2, <1>3, <1>4 DEF Reparent
  <1>6. \A s \in Sections : parent'[s] = parent[s]
    BY <1>2, <1>3 DEF Reparent, MapInv, TreeInv, TreeTypeOK
  <1>7. QED
    BY <1>5, <1>6, UntouchedMaps DEF Elsewhere

-----------------------------------------------------------------------------

(* Nodes without parents have empty maps. *)
LEMMA MapInvInit ==
    ASSUME Init
    PROVE  MapInv
  <1>1. TreeInv
    BY TreeInvInit DEF Init
  <1>2. TypeOK
    BY <1>1 DEF Init, TypeOK, TreeInv
  <1>3. \A n \in Node : children[n] = {}
    BY DEF Init, TreeInit
  <1>4. Sections \subseteq Node /\ Modules \subseteq Node
    BY KindsDisjoint
  <1>5. SectionMapExact
    BY <1>3, <1>4 DEF Init, SectionMapExact, sectionFindByteIntervalsOn
  <1>6. ExtentIsHull
    BY <1>3, <1>4 DEF Init, ExtentIsHull
  <1>7. ModuleMapExact
    BY <1>3, <1>4 DEF Init, ModuleMapExact, moduleFindSectionsOn
  <1>8. QED
    BY <1>1, <1>2, <1>5, <1>6, <1>7 DEF MapInv

(* Every operation keeps the invariant. *)
LEMMA MapInvNext ==
    ASSUME MapInv, [Next]_vars
    PROVE  MapInv'
  <1>1. TreeInv'
    BY MapStepsAreTreeSteps, TreeInvNext DEF MapInv
  <1>2. ASSUME NEW m \in Modules, NEW s \in Sections, removeSection(m, s)
        PROVE  MapInv'
    <2>1. parent[s] = m /\ m # Null
      BY <1>2, SectionsInTree, KindsDisjoint DEF removeSection, RemoveSection, MapInv
    <2>2. Reparent(s, Null) /\ MoveSectionAddrs(s, parent[s], Null)
      BY <1>2, <2>1 DEF removeSection, RemoveSection
    <2>3. QED
      BY <1>1, <2>1, <2>2, SectionMoveKeepsMaps
  <1>3. ASSUME NEW m \in Modules, NEW s \in Sections, addSection(m, s)
        PROVE  MapInv'
    <2>1. m # parent[s] /\ Reparent(s, m) /\ MoveSectionAddrs(s, parent[s], m)
      BY <1>3 DEF addSection, AddSection
    <2>2. QED
      BY <1>1, <2>1, SectionMoveKeepsMaps
  <1>4. ASSUME NEW s \in Sections, NEW b \in ByteIntervals, removeByteInterval(s, b)
        PROVE  MapInv'
    <2>1. parent[b] = s /\ s # Null
      BY <1>4, SectionsInTree, KindsDisjoint DEF removeByteInterval, RemoveByteInterval, MapInv
    <2>2. Reparent(b, Null) /\ MoveByteIntervalAddrs(b, parent[b], Null)
      BY <1>4, <2>1 DEF removeByteInterval, RemoveByteInterval
    <2>3. QED
      BY <1>1, <2>1, <2>2, ByteIntervalMoveKeepsMaps
  <1>5. ASSUME NEW s \in Sections, NEW b \in ByteIntervals, addByteInterval(s, b)
        PROVE  MapInv'
    <2>1. s # parent[b] /\ Reparent(b, s) /\ MoveByteIntervalAddrs(b, parent[b], s)
      BY <1>5 DEF addByteInterval, AddByteInterval
    <2>2. QED
      BY <1>1, <2>1, ByteIntervalMoveKeepsMaps
  <1>6. ASSUME NEW b \in ByteIntervals, NEW addr \in Addr \cup {Null}, setAddress(b, addr)
        PROVE  MapInv'
    <2>1. size[b] \in Size
      BY DEF MapInv, TypeOK
    <2>2. QED
      BY <1>1, <1>6, <2>1, RangeChangeKeepsMaps DEF setAddress
  <1>7. ASSUME NEW b \in ByteIntervals, NEW sz \in Size, setSize(b, sz)
        PROVE  MapInv'
    <2>1. address[b] \in Addr \cup {Null}
      BY DEF MapInv, TypeOK
    <2>2. QED
      BY <1>1, <1>7, <2>1, RangeChangeKeepsMaps DEF setSize
  <1>8. CASE Elsewhere
    BY <1>1, <1>8, ElsewhereKeepsMaps
  <1>9. CASE UNCHANGED vars
    BY <1>1, <1>9, UntouchedMaps DEF vars, treeVars
  <1>10. QED
    BY <1>2, <1>3, <1>4, <1>5, <1>6, <1>7, <1>8, <1>9 DEF Next

(* The inductive invariant: tree, types, interval maps, extents and section maps
   are right together after every operation. *)
THEOREM MapInvariant == Spec => []MapInv
  <1>1. Init => MapInv
    BY MapInvInit
  <1>2. MapInv /\ [Next]_vars => MapInv'
    BY MapInvNext
  <1>3. QED
    BY <1>1, <1>2, PTL DEF Spec

-----------------------------------------------------------------------------

(* The maps hold nodes of the right kind, and the extent of a section is a range
   of addresses whose size did not overflow. *)
THEOREM MapsTypeCorrect == Spec => []TypeOK
  <1>1. MapInv => TypeOK
    BY DEF MapInv
  <1>2. QED
    BY <1>1, MapInvariant, PTL

(* Section::findByteIntervalsOn is exact whatever moves, resizes and changes of
   address have taken place, attached or detached. *)
THEOREM SectionMapsExact == Spec => []SectionMapExact
  <1>1. MapInv => SectionMapExact
    BY DEF MapInv
  <1>2. QED
    BY <1>1, MapInvariant, PTL

(* The cached extent of every section is the hull of its byte intervals. *)
THEOREM ExtentsAreHulls == Spec => []ExtentIsHull
  <1>1. MapInv => ExtentIsHull
    BY DEF MapInv
  <1>2. QED
    BY <1>1, MapInvariant, PTL

(* Module::findSectionsOn agrees with the current extents of its sections. *)
THEOREM ModuleMapsExact == Spec => []ModuleMapExact
  <1>1. MapInv => ModuleMapExact
    BY DEF MapInv
  <1>2. QED
    BY <1>1, MapInvariant, PTL

(* An address that a byte interval of a section with an extent is mapped at is
   a point of the extent: asking only the sections on an address loses none. *)
LEMMA HullContainsMapped ==
    ASSUME MapInv, NEW s \in Sections, NEW b \in children[s], NEW a \in Addr,
           MapsTo(address, size, b, a), \A x \in children[s] : address[x] # Null
    PROVE  a \in Points(extent[s])
  <1>1. IsHull(extent[s], children[s], address, size)
    BY MapsByValue DEF MapInv
  <1>2. extent[s] \in AddrRange
    BY <1>1 DEF IsHull, MapInv, TypeOK
  <1>3. AddrLimit \in Nat \ {0} /\ Addr = 0 .. AddrLimit - 1
    BY AddrAssumption DEF Addr
  <1>4. \A x \in children[s] : address[x] \in Addr /\ size[x] \in Addr
    <2>1. children[s] \subseteq ByteIntervals
      BY SectionsInTree DEF MapInv
    <2>2. /\ address \in [ByteIntervals -> Addr \cup {Null}]
          /\ size \in [ByteIntervals -> Size]
      BY DEF MapInv, TypeOK
    <2>3. QED
      BY <2>1, <2>2, AddrAssumption DEF Addr
  <1>5. PICK l \in Addr, n \in Addr : extent[s] = [lower |-> l, size |-> n]
    BY <1>2 DEF AddrRange
  <1>6. /\ l <= address[b]
        /\ EndOf(address, size, b) <= l + n
        /\ \E x \in children[s] : EndOf(address, size, x) = l + n
    BY <1>1, <1>5 DEF IsHull
  <1>7. address[b] <= a /\ a < address[b] + size[b] /\ address[b] + size[b] < AddrLimit
    BY <1>3, <1>4 DEF MapsTo
  <1>8. EndOf(address, size, b) = address[b] + size[b]
    BY <1>3, <1>4, <1>7 DEF EndOf
  <1>9. l + n < AddrLimit
    <2>1. PICK x \in children[s] : EndOf(address, size, x) = l + n
      BY <1>6
    <2>2. EndOf(address, size, x) < AddrLimit
      BY <1>3, <1>4 DEF EndOf
    <2>3. QED
      BY <2>1, <2>2
  <1>10. l <= a /\ a < l + n
    BY <1>3, <1>4, <1>6, <1>7, <1>8
  <1>11. QED
    BY <1>5, <1>9, <1>10, PointsOfRange

(* Module::findByteIntervalsOn, which asks the sections on the address only, is
   exact for the sections whose byte intervals all have addresses, and returns
   nothing of the others. *)
THEOREM ModuleQueriesExact == Spec => []ModuleQueryWhenAllAddressed
  <1>1. ASSUME MapInv
        PROVE  ModuleQueryWhenAllAddressed
    <2> SUFFICES ASSUME NEW m \in Modules, NEW a \in Addr
                 PROVE  LET S == {s \in children[m] \cap Sections :
                                     \A b \in children[s] : address[b] # Null}
                        IN  moduleFindByteIntervalsOn(m, a) =
                              UNION {{b \in children[s] : Covers(b, a) /\ ~Wraps(b)} : s \in S}
      BY DEF ModuleQueryWhenAllAddressed
    <2> DEFINE S == {s \in children[m] \cap Sections :
                        \A b \in children[s] : address[b] # Null}
               B(s) == {b \in children[s] : MapsTo(address, size, b, a)}
    <2>1. \A b : Covers(b, a) /\ ~Wraps(b) <=> MapsTo(address, size, b, a)
      BY DEF Covers, Wraps, MapsTo
    <2>2. \A s \in Sections : intervalsOn[s][a] = B(s)
      BY <1>1, MapsByValue DEF MapInv
    <2>3. sectionsOn[m][a] = {s \in children[m] \cap Sections : a \in Points(extent[s])}
      BY <1>1 DEF MapInv, ModuleMapExact, moduleFindSectionsOn
    <2>4. ASSUME NEW s \in sectionsOn[m][a]
          PROVE  s \in S
      <3>1. extent[s] # Null
        BY <2>3, PointsOfNull
      <3>2. IsHull(extent[s], children[s], address, size)
        BY <1>1, <2>3, MapsByValue DEF MapInv
      <3>3. QED
        BY <2>3, <3>1, <3>2 DEF IsHull
    <2>5. ASSUME NEW s \in S, NEW b \in B(s)
          PROVE  s \in sectionsOn[m][a]
      BY <1>1, <2>3, HullContainsMapped
    <2> HIDE DEF S
    <2>6. S \subseteq Sections
      BY DEF S
    <2>7. UNION {intervalsOn[s][a] : s \in sectionsOn[m][a]} = UNION {B(s) : s \in S}
      BY <2>2, <2>4, <2>5, <2>6
    <2>8. UNION {{b \in children[s] : Covers(b, a) /\ ~Wraps(b)} : s \in S} =
             UNION {B(s) : s \in S}
      BY <2>1
    <2>9. QED
      BY <2>7, <2>8
      DEF moduleFindByteIntervalsOn, moduleFindSectionsOn, sectionFindByteIntervalsOn, S
  <1>2. QED
    BY <1>1, MapInvariant, PTL

-----------------------------------------------------------------------------

(***************************************************************************)
(* Part III: the queries.                                                  *)
(***************************************************************************)

(* The order of keys of one length. *)
Key(w) == [1 .. w -> Int]

LEMMA LessIsOrder ==
    ASSUME NEW w \in Nat, NEW k \in Key(w), NEW l \in Key(w), NEW m \in Key(w)
    PROVE  /\ ~Less(k, k)
           /\ Less(k, l) /\ Less(l, m) => Less(k, m)
           /\ Less(k, l) \/ Less(l, k) \/ k = l
  <1>1. ~Less(k, k)
    BY DEF Less, Key
  <1>2. ASSUME Less(k, l), Less(l, m)
        PROVE  Less(k, m)
    <2>1. PICK i \in 1 .. w : k[i] < l[i] /\ \A j \in 1 .. i - 1 : k[j] = l[j]
      BY <1>2 DEF Less, Key
    <2>2. PICK h \in 1 .. w : l[h] < m[h] /\ \A j \in 1 .. h - 1 : l[j] = m[j]
      BY <1>2 DEF Less, Key
    <2>3. \A j \in 1 .. w : k[j] \in Int /\ l[j] \in Int /\ m[j] \in Int
      BY DEF Key
    <2> DEFINE o == IF i <= h THEN i ELSE h
    <2>4. o \in 1 .. w /\ k[o] < m[o]
      <3>1. CASE i < h
        BY <2>1, <2>2, <2>3, <3>1
      <3>2. CASE i = h
        BY <2>1, <2>2, <2>3, <3>2
      <3>3. CASE i > h
        BY <2>1, <2>2, <2>3, <3>3
      <3>4. QED
        BY <3>1, <3>2, <3>3
    <2>5. \A j \in 1 .. o - 1 : j \in 1 .. i - 1 /\ j \in 1 .. h - 1
      OBVIOUS
    <2> HIDE DEF o
    <2>6. \A j \in 1 .. o - 1 : k[j] = m[j]
      BY <2>1, <2>2, <2>5
    <2>7. QED
      BY <2>4, <2>6 DEF Less, Key
  <1>3. ASSUME k # l
        PROVE  Less(k, l) \/ Less(l, k)
    <2> DEFINE D == {j \in 1 .. w : k[j] # l[j]}
    <2>1. D # {}
      <3>1. k = [j \in 1 .. w |-> k[j]] /\ l = [j \in 1 .. w |-> l[j]]
        BY DEF Key
      <3>2. QED
        BY <1>3, <3>1
    <2>2. D \subseteq Nat
      OBVIOUS
    <2>3. PICK i \in D : \A j \in D : i <= j
      <3> HIDE DEF D
      <3> QED
        BY <2>1, <2>2, LeastElement
    <2>4. i \in 1 .. w /\ \A j \in 1 .. i - 1 : k[j] = l[j]
      BY <2>3
    <2>5. k[i] < l[i] \/ l[i] < k[i]
      BY <2>3, <2>4 DEF Key
    <2>6. QED
      BY <2>4, <2>5 DEF Less, Key
  <1>4. QED
    BY <1>1, <1>2, <1>3

(* A key that is not above another is at most the other. *)
AtMost(k, l) == ~Less(l, k)

LEMMA AtMostIsOrder ==
    ASSUME NEW w \in Nat, NEW k \in Key(w), NEW l \in Key(w), NEW m \in Key(w)
    PROVE  /\ AtMost(k, k)
           /\ AtMost(k, l) \/ AtMost(l, k)
           /\ AtMost(k, l) /\ AtMost(l, m) => AtMost(k, m)
  <1>1. AtMost(k, k)
    BY LessIsOrder DEF AtMost
  <1>2. ASSUME Less(k, l), Less(l, k)
        PROVE  FALSE
    BY <1>2, LessIsOrder
  <1>3. ASSUME ~Less(l, k), ~Less(m, l), Less(m, k)
        PROVE  FALSE
    <2>1. Less(k, l) \/ k = l
      BY <1>3, LessIsOrder
    <2>2. CASE k = l
      BY <1>3, <2>2
    <2>3. CASE Less(k, l)
      <3>1. Less(m, l)
        BY <1>3, <2>3, LessIsOrder
      <3>2. QED
        BY <1>3, <3>1
    <2>4. QED
      BY <2>1, <2>2, <2>3
  <1>4. QED
    BY <1>1, <1>2, <1>3 DEF AtMost

(* Finitely many keys have a greatest and a least. *)
LEMMA ExtremeKeys ==
    ASSUME NEW w \in Nat, NEW S, IsFiniteSet(S), S # {}, NEW K, \A x \in S : K[x] \in Key(w)
    PROVE  /\ \E x \in S : \A y \in S : AtMost(K[y], K[x])
           /\ \E x \in S : \A y \in S : AtMost(K[x], K[y])
  <1> DEFINE P == {T \in SUBSET S : T # {} =>
                      /\ \E x \in T : \A y \in T : AtMost(K[y], K[x])
                      /\ \E x \in T : \A y \in T : AtMost(K[x], K[y])}
  <1>1. {} \in P
    OBVIOUS
  <1>2. ASSUME NEW T \in SUBSET S, NEW x \in S, T \in P, x \notin T
        PROVE  T \cup {x} \in P
    <2>0. AtMost(K[x], K[x])
      BY AtMostIsOrder
    <2>1. CASE T = {}
      BY <2>0, <2>1
    <2>2. CASE T # {}
      <3>1. PICK y \in T : \A z \in T : AtMost(K[z], K[y])
        BY <1>2, <2>2
      <3>2. PICK v \in T : \A z \in T : AtMost(K[v], K[z])
        BY <1>2, <2>2
      <3>3. \E u \in T \cup {x} : \A z \in T \cup {x} : AtMost(K[z], K[u])
        <4>1. CASE AtMost(K[x], K[y])
          BY <3>1, <4>1
        <4>2. CASE AtMost(K[y], K[x])
          <5>1. \A z \in T : AtMost(K[z], K[x])
            BY <1>2, <3>1, <4>2, AtMostIsOrder
          <5>2. QED
            BY <2>0, <5>1
        <4>3. QED
          BY <1>2, <4>1, <4>2, AtMostIsOrder
      <3>4. \E u \in T \cup {x} : \A z \in T \cup {x} : AtMost(K[u], K[z])
        <4>1. CASE AtMost(K[v], K[x])
          BY <3>2, <4>1
        <4>2. CASE AtMost(K[x], K[v])
          <5>1. \A z \in T : AtMost(K[x], K[z])
            BY <1>2, <3>2, <4>2, AtMostIsOrder
          <5>2. QED
            BY <2>0, <5>1
        <4>3. QED
          BY <1>2, <4>1, <4>2, AtMostIsOrder
      <3>5. QED
        BY <1>2, <3>3, <3>4
    <2>3. QED
      BY <2>1, <2>2
  <1>3. S \in P
    <2> HIDE DEF P
    <2> QED
      BY <1>1, <1>2, FiniteInduction
  <1>4. QED
    BY <1>3

-----------------------------------------------------------------------------

(* Sequences without repetition, and sequences in the order of keys. *)
Lists(q, S) == q \in Seq(S) /\ ToSet(q) = S /\ IsInjective(q)

SortedBy(q, K) == \A i, j \in DOMAIN q : i < j => AtMost(K[q[i]], K[q[j]])

(* A sequence that lists a set is as long as the set is large. *)
LEMMA ListLength ==
    ASSUME NEW S, NEW q, Lists(q, S)
    PROVE  IsFiniteSet(S) /\ Len(q) = Cardinality(S) /\ q \in SetToSeqs(S)
  <1>1. q \in Bijection(1 .. Len(q), S)
    BY DEF Lists, ToSet, IsInjective, Bijection, Injection, Surjection
  <1>2. Len(q) \in Nat /\ IsFiniteSet(1 .. Len(q)) /\ Cardinality(1 .. Len(q)) = Len(q)
    <2>1. Len(q) \in Nat
      BY DEF Lists
    <2>2. IsFiniteSet(1 .. Len(q))
          /\ Cardinality(1 .. Len(q)) = IF 1 > Len(q) THEN 0 ELSE Len(q) - 1 + 1
      BY <2>1, FS_Interval
    <2>3. QED
      BY <2>1, <2>2
  <1>3. ExistsBijection(1 .. Len(q), S)
    BY <1>1 DEF ExistsBijection
  <1>4. IsFiniteSet(S) /\ Cardinality(S) = Len(q)
    BY <1>2, <1>3, FS_Bijection
  <1>5. q \in [1 .. Cardinality(S) -> S]
        /\ \A i, j \in 1 .. Cardinality(S) : i # j => q[i] # q[j]
    BY <1>4 DEF Lists, IsInjective
  <1>6. QED
    BY <1>4, <1>5 DEF SetToSeqs

(* A greatest element comes last. *)
LEMMA SortedAppend ==
    ASSUME NEW X, NEW q \in Seq(X), NEW x \in X, NEW K, SortedBy(q, K),
           \A y \in ToSet(q) : AtMost(K[y], K[x])
    PROVE  SortedBy(Append(q, x), K)
  <1> DEFINE t == Append(q, x)
  <1>1. DOMAIN q = 1 .. Len(q) /\ DOMAIN t = 1 .. Len(q) + 1 /\ t[Len(q) + 1] = x
        /\ Len(q) \in Nat /\ \A i \in 1 .. Len(q) : t[i] = q[i]
    OBVIOUS
  <1>2. \A i \in 1 .. Len(q) : q[i] \in ToSet(q)
    BY <1>1 DEF ToSet
  <1> HIDE DEF t
  <1>3. ASSUME NEW i \in DOMAIN t, NEW j \in DOMAIN t, i < j
        PROVE  AtMost(K[t[i]], K[t[j]])
    <2>1. i \in 1 .. Len(q) /\ (j \in 1 .. Len(q) \/ j = Len(q) + 1)
      BY <1>1, <1>3
    <2>2. QED
      BY <1>1, <1>2, <1>3, <2>1 DEF SortedBy
  <1>4. QED
    BY <1>3 DEF SortedBy, t

(* A least element is the first. *)
LEMMA SortedTail ==
    ASSUME NEW X, NEW q \in Seq(X), q # <<>>, NEW K, SortedBy(q, K)
    PROVE  /\ SortedBy(Tail(q), K)
           /\ \A y \in ToSet(Tail(q)) : AtMost(K[Head(q)], K[y])
  <1> DEFINE t == Tail(q)
  <1>1. t \in Seq(X) /\ Len(t) = Len(q) - 1 /\ Len(q) \in Nat \ {0} /\ Head(q) = q[1]
        /\ \A i \in 1 .. Len(q) - 1 : t[i] = q[i + 1]
    BY HeadAndTail
  <1>2. DOMAIN t = 1 .. Len(q) - 1 /\ DOMAIN q = 1 .. Len(q)
    BY <1>1
  <1> HIDE DEF t
  <1>3. SortedBy(t, K)
    <2>1. ASSUME NEW i \in DOMAIN t, NEW j \in DOMAIN t, i < j
          PROVE  AtMost(K[t[i]], K[t[j]])
      <3>1. i + 1 \in DOMAIN q /\ j + 1 \in DOMAIN q /\ i + 1 < j + 1
            /\ t[i] = q[i + 1] /\ t[j] = q[j + 1]
        BY <1>1, <1>2, <2>1
      <3>2. QED
        BY <3>1 DEF SortedBy
    <2>2. QED
      BY <2>1 DEF SortedBy
  <1>4. \A i \in DOMAIN t : AtMost(K[q[1]], K[t[i]])
    BY <1>1, <1>2 DEF SortedBy
  <1>5. QED
    BY <1>1, <1>3, <1>4 DEF t, ToSet

(* Finitely many elements can be listed in the order of their keys. *)
LEMMA SortedList ==
    ASSUME NEW w \in Nat, NEW S, IsFiniteSet(S), NEW K, \A x \in S : K[x] \in Key(w)
    PROVE  \E q : Lists(q, S) /\ SortedBy(q, K)
  <1> DEFINE P == {n \in Nat : \A T \in SUBSET S : Cardinality(T) = n =>
                                  \E q : Lists(q, T) /\ SortedBy(q, K)}
  <1>1. \A T \in SUBSET S : IsFiniteSet(T) /\ Cardinality(T) \in Nat
    BY FS_Subset, FS_CardinalityType
  <1>2. 0 \in P
    <2>1. Lists(<<>>, {}) /\ SortedBy(<<>>, K)
      BY DEF Lists, SortedBy, ToSet, IsInjective
    <2>2. QED
      BY <1>1, <2>1, FS_EmptySet
  <1>3. ASSUME NEW n \in Nat, n \in P
        PROVE  n + 1 \in P
    <2>1. ASSUME NEW T \in SUBSET S, Cardinality(T) = n + 1
          PROVE  \E q : Lists(q, T) /\ SortedBy(q, K)
      <3>0. T # {}
        BY <1>1, <2>1, FS_EmptySet
      <3>1. PICK x \in T : \A y \in T : AtMost(K[y], K[x])
        BY <1>1, <3>0, ExtremeKeys
      <3> DEFINE U == T \ {x}
      <3>2. U \in SUBSET S /\ Cardinality(U) = n
        <4>1. Cardinality(U) = Cardinality(T) - 1
          BY <1>1, <3>1, FS_RemoveElement
        <4>2. QED
          BY <2>1, <4>1
      <3>3. PICK q : Lists(q, U) /\ SortedBy(q, K)
        BY <1>3, <3>2
      <3>4. U \cup {x} = T /\ x \notin U /\ \A y \in U : AtMost(K[y], K[x])
        BY <3>1
      <3> HIDE DEF U
      <3>5. q \in Seq(T) /\ x \in T /\ ToSet(q) = U /\ IsInjective(q)
        BY <3>3, <3>4 DEF Lists
      <3>6. Lists(Append(q, x), T)
        <4>1. Append(q, x) \in Seq(T) /\ ToSet(Append(q, x)) = U \cup {x}
              /\ IsInjective(Append(q, x))
          BY <3>4, <3>5, AppendNew
        <4>2. QED
          BY <3>4, <4>1 DEF Lists
      <3>7. SortedBy(Append(q, x), K)
        BY <3>3, <3>4, <3>5, SortedAppend
      <3>8. QED
        BY <3>6, <3>7
    <2>2. QED
      BY <2>1
  <1>4. Nat \subseteq P
    <2> HIDE DEF P
    <2> QED
      BY <1>2, <1>3, SetInduction
  <1>5. Cardinality(S) \in P
    BY <1>1, <1>4
  <1>6. QED
    BY <1>5

(* A container that keeps its elements by keys lists them in that order. *)
LEMMA ByKeySorted ==
    ASSUME NEW w \in Nat, NEW S, IsFiniteSet(S), NEW K, \A x \in S : K[x] \in Key(w)
    PROVE  Lists(ByKey(S, K), S) /\ SortedBy(ByKey(S, K), K)
  <1>1. PICK q : Lists(q, S) /\ SortedBy(q, K)
    BY SortedList
  <1>2. q \in SetToSeqs(S) /\ \A i, j \in DOMAIN q : i < j => ~Less(K[q[j]], K[q[i]])
    BY <1>1, ListLength DEF SortedBy, AtMost
  <1> DEFINE r == ByKey(S, K)
  <1>3. r \in SetToSeqs(S) /\ \A i, j \in DOMAIN r : i < j => ~Less(K[r[j]], K[r[i]])
    BY <1>2 DEF ByKey
  <1> HIDE DEF r
  <1>4. Lists(r, S)
    BY <1>3, Arrangement DEF Lists
  <1>5. SortedBy(r, K)
    BY <1>3 DEF SortedBy, AtMost
  <1>6. QED
    BY <1>4, <1>5 DEF r

-----------------------------------------------------------------------------

(* Merging.  A state of the merge holds what is left of the ranges and what
   the iteration has yielded. *)
MergeStates(I, X) == [left : [I -> Seq(X)], out : Seq(X)]

Places(left) == UNION {{i} \X DOMAIN left[i] : i \in DOMAIN left}

Comparable(X, K) ==
    /\ \E w \in Nat : \A x \in X : K[x] \in Key(w)
    /\ \A x \in X : addressKey(x) = K[x]

(* The merge takes the first element of range i, a least one. *)
Takes(s, t, i, K) ==
    /\ i \in DOMAIN s.left /\ s.left[i] # <<>>
    /\ t.left = [s.left EXCEPT ![i] = Tail(s.left[i])]
    /\ t.out = Append(s.out, Head(s.left[i]))
    /\ \A j \in DOMAIN s.left : s.left[j] # <<>> =>
          AtMost(K[Head(s.left[i])], K[Head(s.left[j])])

LEMMA MergeStepTakes ==
    ASSUME NEW I, IsFiniteSet(I), NEW X, NEW K, Comparable(X, K),
           NEW s \in MergeStates(I, X), \E i \in I : s.left[i] # <<>>
    PROVE  MergeStep(s) \in MergeStates(I, X) /\ \E i \in I : Takes(s, MergeStep(s), i, K)
  <1> DEFINE N == {i \in DOMAIN s.left : s.left[i] # <<>>}
             Least(i) == \A j \in N :
                ~Less(addressKey(Head(s.left[j])), addressKey(Head(s.left[i])))
             c == CHOOSE i \in N : Least(i)
             H == [i \in N |-> K[Head(s.left[i])]]
  <1>1. DOMAIN s.left = I /\ s.out \in Seq(X) /\ \A i \in I : s.left[i] \in Seq(X)
    BY DEF MergeStates
  <1>2. \A i \in N : i \in I /\ Head(s.left[i]) \in X /\ Tail(s.left[i]) \in Seq(X)
    BY <1>1, HeadAndTail
  <1>3. N # {} /\ IsFiniteSet(N)
    BY <1>1, FS_Subset
  <1>4. PICK w \in Nat : \A x \in X : K[x] \in Key(w)
    BY DEF Comparable
  <1>5. \A i \in N : H[i] \in Key(w)
    BY <1>2, <1>4
  <1>6. \E i \in N : \A j \in N : AtMost(H[i], H[j])
    <2> HIDE DEF N, H
    <2> QED
      BY <1>3, <1>5, ExtremeKeys
  <1>7. \A i \in N : addressKey(Head(s.left[i])) = H[i]
    BY <1>2 DEF Comparable
  <1>8. \A i \in N : Least(i) <=> \A j \in N : AtMost(H[i], H[j])
    <2> HIDE DEF H, N
    <2> QED
      BY <1>7 DEF AtMost
  <1>9. c \in N /\ Least(c)
    <2>1. \E i \in N : Least(i)
      BY <1>6, <1>8, Zenon
    <2> HIDE DEF N, Least
    <2>2. QED
      BY <2>1
  <1>10. MergeStep(s) = [left |-> [s.left EXCEPT ![c] = Tail(s.left[c])],
                         out  |-> Append(s.out, Head(s.left[c]))]
    BY DEF MergeStep
  <1>11. \A j \in N : AtMost(K[Head(s.left[c])], K[Head(s.left[j])])
    BY <1>8, <1>9
  <1> HIDE DEF c, Least, H
  <1>12. Takes(s, MergeStep(s), c, K)
    BY <1>1, <1>9, <1>10, <1>11 DEF Takes
  <1>13. MergeStep(s) \in MergeStates(I, X)
    <2>1. c \in I /\ Head(s.left[c]) \in X /\ Tail(s.left[c]) \in Seq(X)
      BY <1>2, <1>9
    <2>2. [s.left EXCEPT ![c] = Tail(s.left[c])] \in [I -> Seq(X)]
      BY <1>1, <2>1 DEF MergeStates
    <2>3. Append(s.out, Head(s.left[c])) \in Seq(X)
      BY <1>1, <2>1
    <2>4. QED
      BY <1>10, <2>2, <2>3 DEF MergeStates
  <1>14. QED
    BY <1>2, <1>9, <1>12, <1>13

(* What a step does to the ranges. *)
Taken(s, t, i, X) ==
    /\ \A j \in DOMAIN s.left : t.left[j] = IF j = i THEN Tail(s.left[i]) ELSE s.left[j]
    /\ Head(s.left[i]) \in X /\ Tail(s.left[i]) \in Seq(X)
    /\ ToSet(s.left[i]) = {Head(s.left[i])} \cup ToSet(Tail(s.left[i]))
    /\ ToSet(t.out) = ToSet(s.out) \cup {Head(s.left[i])}

LEMMA TakenRanges ==
    ASSUME NEW I, NEW X, NEW K, NEW s \in MergeStates(I, X), NEW t \in MergeStates(I, X),
           NEW i \in I, Takes(s, t, i, K)
    PROVE  Taken(s, t, i, X)
  <1>1. s.left \in [I -> Seq(X)] /\ s.left[i] \in Seq(X) /\ s.left[i] # <<>> /\ s.out \in Seq(X)
    BY DEF MergeStates, Takes
  <1>2. \A j \in I : t.left[j] = IF j = i THEN Tail(s.left[i]) ELSE s.left[j]
    BY <1>1 DEF Takes
  <1>3. Head(s.left[i]) \in X /\ Tail(s.left[i]) \in Seq(X)
        /\ ToSet(s.left[i]) = {Head(s.left[i])} \cup ToSet(Tail(s.left[i]))
    BY <1>1, HeadAndTail
  <1>4. ToSet(t.out) = ToSet(s.out) \cup {Head(s.left[i])}
    BY <1>1, <1>3, AppendNew DEF Takes
  <1>5. QED
    BY <1>1, <1>2, <1>3, <1>4 DEF Taken

(* Every step takes one element. *)
LEMMA TakenPlace ==
    ASSUME NEW I, NEW X, NEW K, NEW s \in MergeStates(I, X), NEW t \in MergeStates(I, X),
           NEW i \in I, Takes(s, t, i, K), IsFiniteSet(Places(s.left))
    PROVE  /\ IsFiniteSet(Places(t.left))
           /\ Cardinality(Places(t.left)) = Cardinality(Places(s.left)) - 1
  <1> DEFINE n == Len(s.left[i])
             p == <<i, n>>
  <1>0. Taken(s, t, i, X)
    BY TakenRanges, Zenon
  <1>dom. DOMAIN s.left = I
    BY DEF MergeStates
  <1>1. \A j \in I : t.left[j] = IF j = i THEN Tail(s.left[i]) ELSE s.left[j]
    BY <1>0, <1>dom DEF Taken
  <1>2. s.left[i] \in Seq(X) /\ s.left[i] # <<>> /\ DOMAIN s.left = I /\ DOMAIN t.left = I
    BY DEF MergeStates, Takes
  <1>3. n \in Nat \ {0} /\ DOMAIN s.left[i] = 1 .. n /\ DOMAIN Tail(s.left[i]) = 1 .. n - 1
    BY <1>2, HeadAndTail
  <1>4. DOMAIN t.left[i] = DOMAIN s.left[i] \ {n} /\ n \in DOMAIN s.left[i]
    <2>1. t.left[i] = Tail(s.left[i])
      BY <1>1
    <2> HIDE DEF n
    <2>2. 1 .. n - 1 = (1 .. n) \ {n} /\ n \in 1 .. n
      BY <1>3
    <2>3. QED
      BY <1>3, <2>1, <2>2
  <1>5. \A j \in I : j # i => DOMAIN t.left[j] = DOMAIN s.left[j]
    BY <1>1
  <1>6. p \in Places(s.left)
    BY <1>2, <1>4 DEF Places
  <1>7. Places(t.left) = Places(s.left) \ {p}
    <2> HIDE DEF n
    <2> QED
      BY <1>2, <1>4, <1>5 DEF Places
  <1>8. QED
    <2> HIDE DEF p
    <2> QED
      BY <1>6, <1>7, FS_RemoveElement

(* The elements of the ranges that are left. *)
Remaining(s) == UNION {ToSet(s.left[i]) : i \in DOMAIN s.left}

Elements(s) == ToSet(s.out) \cup Remaining(s)

LEMMA TakenElements ==
    ASSUME NEW I, NEW X, NEW K, NEW s \in MergeStates(I, X), NEW t \in MergeStates(I, X),
           NEW i \in I, Takes(s, t, i, K)
    PROVE  Elements(t) = Elements(s)
  <1> DEFINE h == Head(s.left[i])
  <1>0. Taken(s, t, i, X)
    BY TakenRanges, Zenon
  <1>dom. DOMAIN s.left = I
    BY DEF MergeStates
  <1>1. DOMAIN s.left = I /\ DOMAIN t.left = I
    BY DEF MergeStates
  <1>2. \A j \in I : j # i => ToSet(t.left[j]) = ToSet(s.left[j])
    BY <1>0, <1>dom DEF Taken
  <1>3. ToSet(s.left[i]) = {h} \cup ToSet(t.left[i]) /\ ToSet(t.out) = ToSet(s.out) \cup {h}
    BY <1>0, <1>dom DEF Taken
  <1> HIDE DEF h
  <1>4. QED
    BY <1>1, <1>2, <1>3 DEF Elements, Remaining

(* No element comes twice. *)
Distinct(s) ==
    /\ IsInjective(s.out)
    /\ \A i \in DOMAIN s.left : IsInjective(s.left[i]) /\ ToSet(s.out) \cap ToSet(s.left[i]) = {}
    /\ \A i, j \in DOMAIN s.left : i # j => ToSet(s.left[i]) \cap ToSet(s.left[j]) = {}

LEMMA TakenDistinct ==
    ASSUME NEW I, NEW X, NEW K, NEW s \in MergeStates(I, X), NEW t \in MergeStates(I, X),
           NEW i \in I, Takes(s, t, i, K), Distinct(s)
    PROVE  Distinct(t)
  <1> DEFINE h == Head(s.left[i])
  <1>0. Taken(s, t, i, X)
    BY TakenRanges, Zenon
  <1>dom. DOMAIN s.left = I
    BY DEF MergeStates
  <1>1. DOMAIN s.left = I /\ DOMAIN t.left = I
    BY DEF MergeStates
  <1>2. s.left[i] \in Seq(X) /\ s.left[i] # <<>> /\ s.out \in Seq(X) /\ t.out = Append(s.out, h)
    BY DEF MergeStates, Takes
  <1>3. \A j \in I : j # i => t.left[j] = s.left[j]
    BY <1>0, <1>dom DEF Taken
  <1>4. ToSet(t.out) = ToSet(s.out) \cup {h} /\ h \in ToSet(s.left[i]) /\ h \in X
        /\ t.left[i] = Tail(s.left[i])
    BY <1>0, <1>dom DEF Taken
  <1>5. ToSet(t.left[i]) = ToSet(s.left[i]) \ {h} /\ IsInjective(t.left[i])
    BY <1>1, <1>2, <1>4, TailWithoutRepetition DEF Distinct
  <1>6. IsInjective(t.out)
    BY <1>1, <1>2, <1>4, AppendNew DEF Distinct
  <1> HIDE DEF h
  <1>7. QED
    BY <1>1, <1>3, <1>4, <1>5, <1>6 DEF Distinct

(* What is left is not below what was yielded. *)
InSequence(s, K) ==
    /\ SortedBy(s.out, K)
    /\ \A i \in DOMAIN s.left :
          /\ SortedBy(s.left[i], K)
          /\ \A x \in ToSet(s.out) : \A y \in ToSet(s.left[i]) : AtMost(K[x], K[y])

LEMMA TakenInSequence ==
    ASSUME NEW I, NEW X, NEW K, Comparable(X, K), NEW s \in MergeStates(I, X),
           NEW t \in MergeStates(I, X), NEW i \in I, Takes(s, t, i, K), InSequence(s, K)
    PROVE  InSequence(t, K)
  <1> DEFINE h == Head(s.left[i])
  <1>0. Taken(s, t, i, X)
    BY TakenRanges, Zenon
  <1>dom. DOMAIN s.left = I
    BY DEF MergeStates
  <1>1. DOMAIN s.left = I /\ DOMAIN t.left = I /\ \A j \in I : s.left[j] \in Seq(X)
    BY DEF MergeStates
  <1>2. s.left[i] \in Seq(X) /\ s.left[i] # <<>> /\ s.out \in Seq(X) /\ t.out = Append(s.out, h)
    BY DEF MergeStates, Takes
  <1>3. \A j \in I : j # i => t.left[j] = s.left[j]
    BY <1>0, <1>dom DEF Taken
  <1>4. ToSet(t.out) = ToSet(s.out) \cup {h} /\ h \in ToSet(s.left[i]) /\ h \in X
        /\ t.left[i] = Tail(s.left[i]) /\ ToSet(t.left[i]) \subseteq ToSet(s.left[i])
    BY <1>0, <1>dom DEF Taken
  <1>5. SortedBy(t.left[i], K) /\ \A y \in ToSet(t.left[i]) : AtMost(K[h], K[y])
    BY <1>1, <1>2, <1>4, SortedTail DEF InSequence
  <1>6. SortedBy(t.out, K)
    <2>1. \A x \in ToSet(s.out) : AtMost(K[x], K[h])
      BY <1>1, <1>4 DEF InSequence
    <2>2. QED
      BY <1>1, <1>2, <1>4, <2>1, SortedAppend DEF InSequence
  <1>7. PICK w \in Nat : \A x \in X : K[x] \in Key(w)
    BY DEF Comparable
  <1>8. ASSUME NEW j \in I, j # i, NEW y \in ToSet(s.left[j])
        PROVE  AtMost(K[h], K[y])
    <2> DEFINE g == Head(s.left[j])
    <2>1. s.left[j] \in Seq(X) /\ s.left[j] # <<>>
      BY <1>1, <1>8 DEF ToSet
    <2>2. g \in X /\ ToSet(s.left[j]) = {g} \cup ToSet(Tail(s.left[j]))
      BY <2>1, HeadAndTail
    <2>2a. ToSet(s.left[j]) \subseteq X
      BY <2>1 DEF ToSet
    <2>3. AtMost(K[h], K[g])
      BY <1>1, <2>1 DEF Takes
    <2>4. CASE y = g
      BY <2>3, <2>4
    <2>5. CASE y \in ToSet(Tail(s.left[j]))
      <3>1. AtMost(K[g], K[y]) /\ y \in X
        BY <1>1, <1>8, <2>1, <2>2a, <2>5, SortedTail DEF InSequence
      <3> HIDE DEF g, h
      <3>2. QED
        BY <1>4, <1>7, <2>2, <2>3, <3>1, AtMostIsOrder
    <2>6. QED
      BY <1>8, <2>2, <2>4, <2>5
  <1> HIDE DEF h
  <1>9. QED
    BY <1>1, <1>3, <1>4, <1>5, <1>6, <1>8 DEF InSequence

(* The state of the merge of ranges after k steps. *)
Begun(ranges) == [left |-> ranges, out |-> <<>>]

Total(ranges) == Cardinality(Places(ranges))

Progress(s, k, ranges, X, K) ==
    /\ s \in MergeStates(DOMAIN ranges, X)
    /\ IsFiniteSet(Places(s.left)) /\ Cardinality(Places(s.left)) = Total(ranges) - k
    /\ Elements(s) = Remaining(Begun(ranges))
    /\ Distinct(Begun(ranges)) => Distinct(s)
    /\ InSequence(Begun(ranges), K) => InSequence(s, K)

Family(ranges, X) ==
    /\ IsFiniteSet(DOMAIN ranges)
    /\ ranges \in [DOMAIN ranges -> Seq(X)]

(* There are finitely many elements to merge. *)
LEMMA FinitePlaces ==
    ASSUME NEW X, NEW ranges, Family(ranges, X)
    PROVE  IsFiniteSet(Places(ranges)) /\ Total(ranges) \in Nat
  <1> DEFINE I == DOMAIN ranges
             f == [i \in I |-> {i} \X DOMAIN ranges[i]]
  <1>1. IsFiniteSet({f[i] : i \in I})
    <2>1. IsFiniteSet(I) /\ DOMAIN f = I
      BY DEF Family
    <2> HIDE DEF f, I
    <2>2. QED
      BY <2>1, FiniteImage
  <1>2. ASSUME NEW i \in I
        PROVE  IsFiniteSet(f[i])
    <2>1. ranges[i] \in Seq(X)
      BY DEF Family
    <2>2. Len(ranges[i]) \in Nat /\ DOMAIN ranges[i] = 1 .. Len(ranges[i])
      BY <2>1
    <2>3. IsFiniteSet(DOMAIN ranges[i])
      BY <2>2, FS_Interval
    <2>4. IsFiniteSet({i})
      BY FS_Singleton
    <2>5. QED
      BY <2>3, <2>4, FS_Product
  <1>3. Places(ranges) = UNION {f[i] : i \in I}
    BY DEF Places
  <1> HIDE DEF f
  <1>4. IsFiniteSet(Places(ranges))
    BY <1>1, <1>2, <1>3, FS_UNION
  <1>5. QED
    BY <1>4, FS_CardinalityType DEF Total

LEMMA ProgressBegins ==
    ASSUME NEW X, NEW ranges, Family(ranges, X), NEW K
    PROVE  Progress(Begun(ranges), 0, ranges, X, K)
  <1>1. Begun(ranges) \in MergeStates(DOMAIN ranges, X)
    BY DEF Family, MergeStates, Begun
  <1>2. IsFiniteSet(Places(ranges)) /\ Total(ranges) \in Nat
    BY FinitePlaces
  <1>3. ToSet(<<>>) = {}
    BY DEF ToSet
  <1>4. QED
    BY <1>1, <1>2, <1>3 DEF Progress, Begun, Total, Elements

LEMMA ProgressGoesOn ==
    ASSUME NEW X, NEW ranges, Family(ranges, X), NEW K, Comparable(X, K),
           NEW k \in 1 .. Total(ranges), NEW s, Progress(s, k - 1, ranges, X, K)
    PROVE  /\ \E i \in DOMAIN ranges : s.left[i] # <<>>
           /\ Progress(MergeStep(s), k, ranges, X, K)
  <1> DEFINE I == DOMAIN ranges
             t == MergeStep(s)
             n == Total(ranges)
  <1>1. n \in Nat /\ IsFiniteSet(I)
    BY FinitePlaces DEF Family
  <1>2. s \in MergeStates(I, X) /\ DOMAIN s.left = I
    BY DEF Progress, MergeStates
  <1>3. \E i \in I : s.left[i] # <<>>
    <2>1. Cardinality(Places(s.left)) # 0
      BY <1>1 DEF Progress
    <2>2. Places(s.left) # {}
      BY <2>1, FS_EmptySet
    <2>3. PICK i \in I : DOMAIN s.left[i] # {}
      BY <1>2, <2>2 DEF Places
    <2>4. s.left[i] # <<>>
      BY <2>3
    <2>5. QED
      BY <2>4
  <1>4. t \in MergeStates(I, X) /\ \E i \in I : Takes(s, t, i, K)
    BY <1>1, <1>2, <1>3, MergeStepTakes
  <1> HIDE DEF t, I
  <1>5. PICK i \in I : Takes(s, t, i, K)
    BY <1>4
  <1>6. IsFiniteSet(Places(s.left))
    BY DEF Progress
  <1>7. IsFiniteSet(Places(t.left)) /\ Cardinality(Places(t.left)) = Cardinality(Places(s.left)) - 1
    BY <1>2, <1>4, <1>5, <1>6, TakenPlace
  <1>8. Cardinality(Places(t.left)) = n - k
    <2>1. Cardinality(Places(s.left)) = n - (k - 1)
      BY DEF Progress
    <2>2. QED
      BY <1>1, <1>7, <2>1
  <1>9. Elements(t) = Elements(s)
    BY <1>2, <1>4, <1>5, TakenElements
  <1>10. Distinct(s) => Distinct(t)
    BY <1>2, <1>4, <1>5, TakenDistinct
  <1>11. InSequence(s, K) => InSequence(t, K)
    BY <1>2, <1>4, <1>5, TakenInSequence
  <1>12. Progress(t, k, ranges, X, K)
    BY <1>4, <1>7, <1>8, <1>9, <1>10, <1>11 DEF Progress, I
  <1>13. QED
    BY <1>3, <1>12 DEF t, I

(* The iteration takes the steps. *)
LEMMA MergeRecursion ==
    ASSUME NEW X, NEW ranges, Family(ranges, X), NEW K, Comparable(X, K),
           \A i \in DOMAIN ranges : ranges[i] # Undefined
    PROVE  \E step : /\ step[0] = Begun(ranges)
                     /\ \A k \in 1 .. Total(ranges) : step[k] = MergeStep(step[k - 1])
                     /\ Merge(ranges) = step[Total(ranges)].out
  <1> DEFINE I == DOMAIN ranges
             n == Total(ranges)
             V == MergeStates(I, X)
             More(v) == \E i \in I : v.left[i] # <<>>
             F == [k \in 1 .. n |-> [v \in V |-> IF More(v) THEN MergeStep(v) ELSE v]]
             P(g) == {k \in 0 .. n : Progress(g[k], k, ranges, X, K)}
  <1>1. n \in Nat /\ IsFiniteSet(I) /\ Begun(ranges) \in V
    BY FinitePlaces DEF Family, Begun, MergeStates
  <1>2. F \in Turns(V, n)
    <2>1. ASSUME NEW v \in V, More(v)
          PROVE  MergeStep(v) \in V
      <3> HIDE DEF I, n
      <3> QED
        BY <1>1, <2>1, MergeStepTakes
    <2>2. QED
      BY <2>1 DEF Turns
  <1>3. PICK g \in [0 .. n -> V] : Follows(g, Begun(ranges), F, n)
    <2> HIDE DEF V, F, n
    <2> QED
      BY <1>1, <1>2, FiniteRecursion
  <1>4. 0 \in P(g)
    BY <1>1, <1>3, ProgressBegins DEF Follows
  <1>5. ASSUME NEW k \in 1 .. n, k - 1 \in P(g)
        PROVE  k \in P(g) /\ g[k] = MergeStep(g[k - 1])
    <2>1. More(g[k - 1]) /\ Progress(MergeStep(g[k - 1]), k, ranges, X, K)
      BY <1>5, ProgressGoesOn
    <2>2. k - 1 \in 0 .. n /\ k \in 0 .. n
      BY <1>1
    <2>3. g[k] = F[k][g[k - 1]] /\ g[k - 1] \in V
      BY <1>3, <2>2 DEF Follows
    <2> HIDE DEF n, V, More
    <2>4. g[k] = MergeStep(g[k - 1])
      BY <2>1, <2>3
    <2>5. QED
      BY <2>1, <2>2, <2>4
  <1>6. 0 .. n \subseteq P(g)
    <2> HIDE DEF P, n
    <2> QED
      BY <1>1, <1>4, <1>5, LoopInduction
  <1>7. g[0] = Begun(ranges) /\ \A k \in 1 .. n : g[k] = MergeStep(g[k - 1])
    <2>1. \A k \in 1 .. n : k - 1 \in 0 .. n
      BY <1>1
    <2> HIDE DEF P
    <2>2. QED
      BY <1>3, <1>5, <1>6, <2>1 DEF Follows
  <1> DEFINE Sol(f) == f = [k \in 0 .. n |-> IF k = 0 THEN Begun(ranges) ELSE MergeStep(f[k - 1])]
             c == CHOOSE f : Sol(f)
  <1> HIDE DEF F, P, V, More
  <1>8. Sol(g)
    <2> HIDE DEF n
    <2>1. \A k \in 0 .. n : g[k] = IF k = 0 THEN Begun(ranges) ELSE MergeStep(g[k - 1])
      BY <1>1, <1>7
    <2>2. g = [k \in 0 .. n |-> g[k]]
      OBVIOUS
    <2>3. QED
      BY <2>1, <2>2
  <1>9. Sol(c)
    BY <1>8, Zenon
  <1>10. Merge(ranges) = c[n].out
    BY DEF Merge, Begun, Total, Places
  <1> HIDE DEF c, n
  <1>11. c[0] = Begun(ranges)
    <2>1. 0 \in 0 .. n
      BY <1>1
    <2>2. QED
      BY <1>9, <2>1
  <1>12. ASSUME NEW k \in 1 .. n
         PROVE  c[k] = MergeStep(c[k - 1])
    <2>1. k \in 0 .. n /\ k # 0
      BY <1>1
    <2>2. QED
      BY <1>9, <2>1
  <1>13. QED
    BY <1>10, <1>11, <1>12 DEF n

(* It yields the elements of the ranges, and as they are distinct and in order
   there, so are they here. *)
LEMMA MergeYields ==
    ASSUME NEW X, NEW ranges, Family(ranges, X), NEW K, Comparable(X, K),
           \A i \in DOMAIN ranges : ranges[i] # Undefined
    PROVE  /\ Merge(ranges) \in Seq(X)
           /\ ToSet(Merge(ranges)) = Remaining(Begun(ranges))
           /\ Distinct(Begun(ranges)) => IsInjective(Merge(ranges))
           /\ InSequence(Begun(ranges), K) => SortedBy(Merge(ranges), K)
  <1> DEFINE n == Total(ranges)
  <1>1. PICK step : /\ step[0] = Begun(ranges)
                    /\ \A k \in 1 .. n : step[k] = MergeStep(step[k - 1])
                    /\ Merge(ranges) = step[n].out
    BY MergeRecursion
  <1> DEFINE P == {k \in 0 .. n : Progress(step[k], k, ranges, X, K)}
             e == step[n]
  <1>2. n \in Nat
    BY FinitePlaces
  <1>3. 0 \in P
    BY <1>1, <1>2, ProgressBegins
  <1>4. ASSUME NEW k \in 1 .. n, k - 1 \in P
        PROVE  k \in P
    <2>1. Progress(MergeStep(step[k - 1]), k, ranges, X, K)
      BY <1>4, ProgressGoesOn
    <2>2. k \in 0 .. n
      BY <1>2
    <2>3. QED
      BY <1>1, <2>1, <2>2
  <1>5. n \in P
    <2>1. n \in 0 .. n
      BY <1>2
    <2> HIDE DEF n, P
    <2>2. QED
      BY <1>2, <1>3, <1>4, <2>1, LoopInduction
  <1>6. Progress(e, n, ranges, X, K) /\ Merge(ranges) = e.out
    BY <1>1, <1>5
  <1> HIDE DEF e, P
  <1>7. Places(e.left) = {}
    <2>1. Cardinality(Places(e.left)) = n - n /\ IsFiniteSet(Places(e.left))
      BY <1>6 DEF Progress
    <2> HIDE DEF n
    <2>2. n - n = 0
      BY <1>2
    <2>3. QED
      BY <2>1, <2>2, FS_EmptySet
  <1>8. \A i \in DOMAIN e.left : DOMAIN e.left[i] = {}
    <2>1. \A i \in DOMAIN e.left : \A k \in DOMAIN e.left[i] : <<i, k>> \in Places(e.left)
      BY DEF Places
    <2>2. QED
      BY <1>7, <2>1
  <1>9. Remaining(e) = {}
    BY <1>8 DEF Remaining, ToSet
  <1>10. e.out \in Seq(X)
    BY <1>6 DEF Progress, MergeStates
  <1>11. QED
    BY <1>6, <1>9, <1>10 DEF Progress, Elements, Distinct, InSequence

-----------------------------------------------------------------------------

(* Merging ranges that list disjoint sets. *)
Keyed(X) ==
    /\ Null \notin X
    /\ \E w \in Nat : \A x \in X : addressKey(x) \in Key(w)

Ascending(q) ==
    \A i, j \in DOMAIN q : i < j => AtMost(addressKey(q[i]), addressKey(q[j]))

(* Range c lists the part T[c] of X. *)
Parts(ranges, T, C, X) ==
    /\ IsFiniteSet(C) /\ ranges = [c \in C |-> ranges[c]]
    /\ \A c \in C : T[c] \subseteq X /\ Lists(ranges[c], T[c])
    /\ \A c, d \in C : c # d => T[c] \cap T[d] = {}

(* A list of elements is never the undefined answer. *)
LEMMA ListDefined ==
    ASSUME NEW S, NEW q, Lists(q, S), Null \notin S
    PROVE  q # Undefined
  <1>1. SUFFICES ASSUME q = <<Null>>
                 PROVE  FALSE
    BY DEF Undefined
  <1>2. 1 \in DOMAIN <<Null>> /\ <<Null>>[1] = Null
    OBVIOUS
  <1>3. <<Null>> \in Seq(S)
    BY <1>1 DEF Lists
  <1>4. Null \in S
    BY <1>2, <1>3
  <1>5. QED
    BY <1>4

LEMMA MergeLists ==
    ASSUME NEW X, Keyed(X), NEW C, NEW ranges, NEW T, Parts(ranges, T, C, X)
    PROVE  /\ Lists(Merge(ranges), UNION {T[c] : c \in C})
           /\ (\A c \in C : Ascending(ranges[c])) => Ascending(Merge(ranges))
  <1> DEFINE K == [x \in X |-> addressKey(x)]
             U == UNION {T[c] : c \in C}
             q == Merge(ranges)
  <1>1. Comparable(X, K)
    <2>1. PICK w \in Nat : \A x \in X : addressKey(x) \in Key(w)
      BY DEF Keyed
    <2>2. \A x \in X : K[x] = addressKey(x)
      OBVIOUS
    <2> HIDE DEF K
    <2>3. QED
      BY <2>1, <2>2 DEF Comparable
  <1>2. DOMAIN ranges = C /\ \A c \in C : /\ ranges[c] \in Seq(X) /\ ToSet(ranges[c]) = T[c]
                                          /\ IsInjective(ranges[c])
    BY DEF Parts, Lists
  <1>3. Family(ranges, X)
    BY <1>2 DEF Parts, Family
  <1>4. \A c \in C : ranges[c] # Undefined
    <2>1. \A c \in C : Null \notin T[c] /\ Lists(ranges[c], T[c])
      BY DEF Parts, Keyed
    <2>2. QED
      BY <2>1, ListDefined
  <1>5. Remaining(Begun(ranges)) = U
    BY <1>2 DEF Remaining, Begun
  <1>6. Distinct(Begun(ranges))
    <2>1. IsInjective(<<>>) /\ ToSet(<<>>) = {}
      BY DEF IsInjective, ToSet
    <2>2. QED
      BY <1>2, <2>1 DEF Distinct, Begun, Parts
  <1> HIDE DEF U, K
  <1>7. q \in Seq(X) /\ ToSet(q) = U /\ IsInjective(q)
        /\ (InSequence(Begun(ranges), K) => SortedBy(q, K))
    BY <1>1, <1>2, <1>3, <1>4, <1>5, <1>6, MergeYields
  <1> HIDE DEF q
  <1>8. q \in Seq(U)
    <2>1. DOMAIN q = 1 .. Len(q) /\ Len(q) \in Nat
      BY <1>7
    <2>2. \A i \in 1 .. Len(q) : q[i] \in U
      BY <1>7, <2>1 DEF ToSet
    <2>3. q = [i \in 1 .. Len(q) |-> q[i]]
      BY <1>7, <2>1
    <2>4. QED
      BY <2>1, <2>2, <2>3
  <1>9. ASSUME \A c \in C : Ascending(ranges[c])
        PROVE  Ascending(q)
    <2>1. \A x \in X : K[x] = addressKey(x)
      BY DEF K
    <2>2. \A c \in C : SortedBy(ranges[c], K)
      <3>1. \A c \in C : \A i \in DOMAIN ranges[c] : ranges[c][i] \in X
        BY <1>2
      <3>2. QED
        BY <1>9, <2>1, <3>1 DEF SortedBy, Ascending
    <2>3. InSequence(Begun(ranges), K)
      <3>1. SortedBy(<<>>, K) /\ ToSet(<<>>) = {}
        BY DEF SortedBy, ToSet
      <3>2. QED
        BY <1>2, <2>2, <3>1 DEF InSequence, Begun
    <2>4. SortedBy(q, K) /\ \A i \in DOMAIN q : q[i] \in X
      BY <1>7, <2>3
    <2>5. QED
      BY <2>1, <2>4 DEF SortedBy, Ascending
  <1>10. QED
    BY <1>7, <1>8, <1>9 DEF Lists, q, U

(* A sequence that lists a set in order yields it. *)
LEMMA ListYields ==
    ASSUME NEW S, NEW q, Lists(q, S), Ascending(q)
    PROVE  Yields(q, S)
  <1>1. Len(q) = Cardinality(S)
    BY ListLength
  <1>2. DOMAIN q = 1 .. Len(q) /\ Len(q) \in Nat
    BY DEF Lists
  <1>3. ASSUME NEW k \in 1 .. Len(q) - 1
        PROVE  ~Less(addressKey(q[k + 1]), addressKey(q[k]))
    <2>1. k \in DOMAIN q /\ k + 1 \in DOMAIN q /\ k < k + 1
      BY <1>2
    <2>2. QED
      BY <2>1 DEF Ascending, AtMost
  <1>4. QED
    BY <1>1, <1>3 DEF Yields, Lists

-----------------------------------------------------------------------------

(* The tree below a node. *)
LEMMA TreeShape ==
    ASSUME MapInv
    PROVE  /\ \A c \in Node : children[c] \subseteq Node /\ IsFiniteSet(children[c])
           /\ \A c \in Node : \A n \in children[c] : parent[n] = c
           /\ \A n \in Node : parent[n] # Null => n \in children[parent[n]]
           /\ \A i \in IRs : children[i] \subseteq Modules
           /\ \A s \in Sections : children[s] \subseteq ByteIntervals
           /\ \A b \in ByteIntervals : children[b] \subseteq Blocks
  <1>1. TreeTypeOK /\ OwnershipAgrees
    BY DEF MapInv, TreeInv
  <1>2. \A c \in Node : children[c] \subseteq Node
    BY <1>1 DEF TreeTypeOK
  <1>3. \A c \in Node : IsFiniteSet(children[c])
    BY <1>2, FS_Subset, QueryAssumption
  <1>4. \A c \in Node : \A n \in children[c] : parent[n] = c /\ CanOwn(c, n)
    BY <1>1, <1>2, NodeAssumption DEF TreeTypeOK, OwnershipAgrees
  <1>5. \A n \in Node : parent[n] # Null => n \in children[parent[n]]
    BY <1>1 DEF TreeTypeOK, OwnershipAgrees
  <1>6. \A i \in IRs : children[i] \subseteq Modules
    BY <1>2, <1>4 DEF CanOwn, IRs, Modules, NodesOf
  <1>7. \A s \in Sections : children[s] \subseteq ByteIntervals
    BY <1>2, <1>4 DEF CanOwn, Sections, ByteIntervals, NodesOf
  <1>8. \A b \in ByteIntervals : children[b] \subseteq Blocks
    BY <1>2, <1>4 DEF CanOwn, ByteIntervals, Blocks, CodeBlocks, DataBlocks, NodesOf
  <1>9. QED
    BY <1>2, <1>3, <1>4, <1>5, <1>6, <1>7, <1>8

(* Keys of the nodes that are compared with each other. *)
AttachedBlocks == {b \in Blocks : parent[b] \in ByteIntervals}

LEMMA StartIsInt ==
    ASSUME MapInv
    PROVE  \A n \in Sections \cup ByteIntervals \cup AttachedBlocks : startOf(n) \in Int
  <1>1. AddrLimit \in Nat \ {0} /\ Null \notin Addr /\ Addr \subseteq Int
    BY AddrAssumption DEF Addr
  <1>2. ASSUME NEW s \in Sections
        PROVE  startOf(s) \in Int
    <2>1. extent[s] # Null => extent[s].lower \in Addr
      BY DEF MapInv, TypeOK, AddrRange
    <2>2. s \notin ByteIntervals /\ s \notin Blocks
      BY KindsDisjoint
    <2>3. QED
      BY <1>1, <2>1, <2>2 DEF startOf
  <1>3. ASSUME NEW b \in ByteIntervals
        PROVE  startOf(b) \in Int
    <2>1. address[b] # Null => address[b] \in Addr
      BY DEF MapInv, TypeOK
    <2>2. b \notin Sections /\ b \notin Blocks
      BY KindsDisjoint
    <2>3. QED
      BY <1>1, <2>1, <2>2 DEF startOf
  <1>4. ASSUME NEW c \in AttachedBlocks
        PROVE  startOf(c) \in Int
    <2>1. address[parent[c]] # Null => address[parent[c]] \in Addr /\ Offset[c] \in Addr
      BY QueryAssumption DEF MapInv, TypeOK, AttachedBlocks
    <2>2. c \notin Sections /\ c \notin ByteIntervals /\ c \in Blocks
      BY KindsDisjoint DEF AttachedBlocks
    <2>3. address[parent[c]] # Null => (address[parent[c]] + Offset[c]) % AddrLimit \in Int
      BY <1>1, <2>1, SumInWidth DEF Addr
    <2>4. QED
      BY <2>2, <2>3 DEF startOf
  <1>5. QED
    BY <1>2, <1>3, <1>4

LEMMA BlockKeys ==
    ASSUME MapInv
    PROVE  /\ Keyed(AttachedBlocks)
           /\ \A c \in AttachedBlocks : addressKey(c) \in Key(4) /\ addressKey(c)[1] = startOf(c)
           /\ \A c \in Blocks : offsetKey(c) \in Key(4) /\ offsetKey(c)[1] = Offset[c]
           /\ \A c \in AttachedBlocks : \A k \in 2 .. 4 : addressKey(c)[k] = offsetKey(c)[k]
  <1>1. \A c \in Blocks : /\ Offset[c] \in Int /\ BlockSize[c] \in Int /\ Rank[c] \in Int
                          /\ c \in Node
    BY QueryAssumption, AddrAssumption, KindsDisjoint DEF Addr
  <1> DEFINE kind(c) == IF c \in CodeBlocks THEN 0 ELSE 1
  <1>2. \A c \in Blocks : /\ kind(c) \in Int
                          /\ \A first : blockKey(first, c) = <<first, BlockSize[c], kind(c), Rank[c]>>
    BY DEF blockKey
  <1> HIDE DEF kind
  <1>3. \A c \in Blocks : offsetKey(c) = <<Offset[c], BlockSize[c], kind(c), Rank[c]>>
    BY <1>2 DEF offsetKey
  <1>4. \A c \in AttachedBlocks : startOf(c) \in Int /\ c \in Blocks
    BY StartIsInt DEF AttachedBlocks
  <1>5. \A c \in AttachedBlocks : addressKey(c) = blockKey(startOf(c), c)
    BY <1>1, <1>4 DEF addressKey
  <1>6. \A c \in AttachedBlocks : addressKey(c) = <<startOf(c), BlockSize[c], kind(c), Rank[c]>>
    BY <1>2, <1>4, <1>5
  <1>7. \A c \in Blocks : offsetKey(c) \in Key(4) /\ offsetKey(c)[1] = Offset[c]
    BY <1>1, <1>2, <1>3 DEF Key
  <1>8. \A c \in AttachedBlocks : addressKey(c) \in Key(4) /\ addressKey(c)[1] = startOf(c)
    BY <1>1, <1>2, <1>4, <1>6 DEF Key
  <1>9. ASSUME NEW c \in AttachedBlocks, NEW k \in 2 .. 4
        PROVE  addressKey(c)[k] = offsetKey(c)[k]
    <2>1. k = 2 \/ k = 3 \/ k = 4
      OBVIOUS
    <2>2. addressKey(c) = <<startOf(c), BlockSize[c], kind(c), Rank[c]>>
          /\ offsetKey(c) = <<Offset[c], BlockSize[c], kind(c), Rank[c]>>
      BY <1>3, <1>4, <1>6
    <2>3. QED
      BY <2>1, <2>2
  <1>10. Null \notin AttachedBlocks
    BY KindsDisjoint DEF AttachedBlocks
  <1>11. QED
    BY <1>7, <1>8, <1>9, <1>10 DEF Keyed

LEMMA ContainerKeys ==
    ASSUME MapInv
    PROVE  /\ Keyed(Sections) /\ Keyed(ByteIntervals)
           /\ \A n \in Sections \cup ByteIntervals : addressKey(n) \in Key(3)
  <1>1. ASSUME NEW n \in Sections \cup ByteIntervals
        PROVE  addressKey(n) \in Key(3)
    <2>1. n \in Node /\ n \notin Blocks /\ Rank[n] \in Int /\ startOf(n) \in Int
      BY QueryAssumption, KindsDisjoint, StartIsInt
    <2>2. sizeOf(n) \in Int
      <3>1. Addr \subseteq Int /\ Size \subseteq Int
        BY AddrAssumption DEF Addr
      <3>2. CASE n \in Sections
        <4>0. n \notin ByteIntervals
          BY <3>2, KindsDisjoint
        <4>1. extent[n] # Null => extent[n].size \in Addr
          BY <3>2 DEF MapInv, TypeOK, AddrRange
        <4>2. QED
          BY <2>1, <3>1, <3>2, <4>0, <4>1 DEF sizeOf
      <3>3. CASE n \in ByteIntervals /\ n \notin Sections
        <4>1. size[n] \in Int
          BY <3>1, <3>3 DEF MapInv, TypeOK
        <4>2. QED
          BY <2>1, <3>3, <4>1 DEF sizeOf
      <3>4. QED
        BY <3>2, <3>3
    <2>3. addressKey(n) = <<startOf(n), sizeOf(n), Rank[n]>>
      BY <2>1 DEF addressKey
    <2>4. QED
      BY <2>1, <2>2, <2>3 DEF Key
  <1>2. Null \notin Sections /\ Null \notin ByteIntervals
    BY KindsDisjoint
  <1>3. QED
    BY <1>1, <1>2 DEF Keyed

-----------------------------------------------------------------------------

(* Orders that the containers keep. *)

(* Adding to the first components of two keys does not change their order. *)
Shifted(i, k, d, w) == i[1] = k[1] + d /\ \A n \in 2 .. w : i[n] = k[n]

LEMMA ShiftedKeys ==
    ASSUME NEW w \in Nat, NEW k \in Key(w), NEW l \in Key(w), NEW i \in Key(w), NEW j \in Key(w),
           NEW d \in Int, Shifted(i, k, d, w), Shifted(j, l, d, w), AtMost(k, l)
    PROVE  AtMost(i, j)
  <1> SUFFICES ASSUME Less(j, i)
               PROVE  Less(l, k)
    BY DEF AtMost
  <1>0. /\ i[1] = k[1] + d /\ j[1] = l[1] + d
        /\ \A n \in 2 .. w : i[n] = k[n] /\ j[n] = l[n]
    BY DEF Shifted
  <1>1. PICK n \in 1 .. w : j[n] < i[n] /\ \A m \in 1 .. n - 1 : j[m] = i[m]
    BY DEF Less, Key
  <1>2. \A m \in 1 .. w : k[m] \in Int /\ l[m] \in Int
    BY DEF Key
  <1>3. \A m \in 1 .. w : (j[m] < i[m] <=> l[m] < k[m]) /\ (j[m] = i[m] <=> l[m] = k[m])
    <2> TAKE m \in 1 .. w
    <2>1. CASE m = 1
      BY <1>0, <1>2, <2>1
    <2>2. CASE m \in 2 .. w
      BY <1>0, <1>2, <2>2
    <2>3. QED
      BY <2>1, <2>2
  <1>4. l[n] < k[n] /\ \A m \in 1 .. n - 1 : l[m] = k[m]
    BY <1>1, <1>3
  <1>5. QED
    BY <1>4 DEF Less, Key

(* The blocks of an interval are listed by offset, which is the order of their
   addresses unless an address wraps. *)
LEMMA OffsetOrder ==
    ASSUME MapInv, NEW b \in ByteIntervals, NEW S, S \subseteq children[b]
    PROVE  /\ Lists(InOffsetOrder(S), S)
           /\ address[b] # Null /\ (\A c \in S : address[b] + Offset[c] < AddrLimit)
                 => Ascending(InOffsetOrder(S))
  <1> DEFINE K == [c \in S |-> offsetKey(c)]
             q == InOffsetOrder(S)
  <1>1. b \in Node /\ S \subseteq Blocks /\ IsFiniteSet(S) /\ \A c \in S : parent[c] = b
    BY TreeShape, KindsDisjoint, FS_Subset
  <1>2. \A c \in S : K[c] \in Key(4) /\ K[c] = offsetKey(c)
    BY <1>1, BlockKeys
  <1> HIDE DEF K
  <1>3. Lists(ByKey(S, K), S) /\ SortedBy(ByKey(S, K), K)
    BY <1>1, <1>2, ByKeySorted
  <1>4. q = ByKey(S, K)
    BY DEF K, InOffsetOrder
  <1> HIDE DEF q
  <1>5. ASSUME address[b] # Null, \A c \in S : address[b] + Offset[c] < AddrLimit,
               NEW i \in DOMAIN q, NEW j \in DOMAIN q, i < j
        PROVE  AtMost(addressKey(q[i]), addressKey(q[j]))
    <2>1. \A c \in S : c \in AttachedBlocks /\ c \in Blocks
      BY <1>1 DEF AttachedBlocks
    <2>2. address[b] \in Addr /\ \A c \in S : Offset[c] \in Addr
      BY <1>1, <1>5, QueryAssumption DEF MapInv, TypeOK
    <2>3. address[b] \in Int /\ \A c \in S : Offset[c] \in Int
      BY <2>2, AddrAssumption DEF Addr
    <2>4. \A c \in S : startOf(c) = Offset[c] + address[b]
      <3> TAKE c \in S
      <3>1. startOf(c) = (address[b] + Offset[c]) % AddrLimit
        BY <1>1, <1>5, <2>1, KindsDisjoint DEF startOf
      <3>2. (address[b] + Offset[c]) % AddrLimit = address[b] + Offset[c]
        BY <1>5, <2>2, AddrAssumption, SumInWidth DEF Addr
      <3>3. QED
        BY <2>3, <3>1, <3>2
    <2>5. q[i] \in S /\ q[j] \in S
      BY <1>3, <1>4 DEF Lists
    <2>6. AtMost(offsetKey(q[i]), offsetKey(q[j]))
      BY <1>2, <1>3, <1>4, <1>5, <2>5 DEF SortedBy
    <2>7. \A c \in S : /\ addressKey(c) \in Key(4) /\ offsetKey(c) \in Key(4)
                       /\ addressKey(c)[1] = offsetKey(c)[1] + address[b]
                       /\ \A k \in 2 .. 4 : addressKey(c)[k] = offsetKey(c)[k]
      BY <2>1, <2>4, BlockKeys
    <2>8. ASSUME NEW x \in S, NEW y \in S, AtMost(offsetKey(x), offsetKey(y))
          PROVE  AtMost(addressKey(x), addressKey(y))
      <3>1. Shifted(addressKey(x), offsetKey(x), address[b], 4)
            /\ Shifted(addressKey(y), offsetKey(y), address[b], 4)
        BY <2>7 DEF Shifted
      <3>2. 4 \in Nat
        OBVIOUS
      <3>3. QED
        BY <2>3, <2>7, <2>8, <3>1, <3>2, ShiftedKeys
    <2>9. QED
      BY <2>5, <2>6, <2>8
  <1>6. QED
    BY <1>3, <1>4, <1>5 DEF Ascending, q

(* Sections and byte intervals are listed by address. *)
LEMMA AddressOrder ==
    ASSUME MapInv, NEW S, S \subseteq Sections \/ S \subseteq ByteIntervals
    PROVE  Lists(InAddressOrder(S), S) /\ Ascending(InAddressOrder(S))
  <1> DEFINE K == [x \in S |-> addressKey(x)]
             q == InAddressOrder(S)
  <1>1. S \subseteq Node /\ IsFiniteSet(S)
    BY KindsDisjoint, QueryAssumption, FS_Subset
  <1>2. \A x \in S : K[x] \in Key(3) /\ K[x] = addressKey(x)
    BY ContainerKeys
  <1> HIDE DEF K
  <1>3. Lists(ByKey(S, K), S) /\ SortedBy(ByKey(S, K), K)
    BY <1>1, <1>2, ByKeySorted
  <1>4. q = ByKey(S, K)
    BY DEF K, InAddressOrder
  <1> HIDE DEF q
  <1>5. \A i \in DOMAIN q : q[i] \in S
    BY <1>3, <1>4 DEF Lists
  <1>6. QED
    BY <1>2, <1>3, <1>4, <1>5 DEF SortedBy, Ascending, q

-----------------------------------------------------------------------------

(* A query of a container asks some of its children and merges the answers.
   own[x] is the child that is to answer with x; Q[c] is the answer of child c. *)
Answered(Q, C, U, own) ==
    /\ IsFiniteSet(C) /\ Q = [c \in C |-> Q[c]]
    /\ \A x \in U : own[x] \in C
    /\ \A c \in C : Lists(Q[c], {x \in U : own[x] = c})

LEMMA Merged ==
    ASSUME NEW X, Keyed(X), NEW U, U \subseteq X, NEW C, NEW Q, NEW own, Answered(Q, C, U, own)
    PROVE  /\ Lists(Merge(Q), U)
           /\ (\A c \in C : Ascending(Q[c])) => Ascending(Merge(Q))
  <1> DEFINE T == [c \in C |-> {x \in U : own[x] = c}]
  <1>1. Parts(Q, T, C, X)
    <2>1. \A c \in C : T[c] \subseteq X /\ Lists(Q[c], T[c])
      BY DEF Answered
    <2>2. \A c, d \in C : c # d => T[c] \cap T[d] = {}
      OBVIOUS
    <2> HIDE DEF T
    <2>3. QED
      BY <2>1, <2>2 DEF Parts, Answered
  <1>2. UNION {T[c] : c \in C} = U
    BY DEF Answered
  <1> HIDE DEF T
  <1>3. /\ Lists(Merge(Q), UNION {T[c] : c \in C})
        /\ (\A c \in C : Ascending(Q[c])) => Ascending(Merge(Q))
    BY <1>1, MergeLists, Zenon
  <1>4. QED
    BY <1>2, <1>3

(* The empty answer. *)
LEMMA NoAnswer == Lists(<<>>, {}) /\ Ascending(<<>>)
  BY DEF Lists, Ascending, ToSet, IsInjective

-----------------------------------------------------------------------------

(* Addresses and offsets. *)

LEMMA DifferenceInWidth ==
    ASSUME NEW limit \in Nat \ {0}, NEW x \in 0 .. limit - 1, NEW y \in 0 .. limit - 1
    PROVE  (x - y) % limit = IF x >= y THEN x - y ELSE x - y + limit
  OBVIOUS

(* A byte of a block at offset o is at an address when the offset of the address
   is in the block. *)
ByteAt(limit, a, d, o, z) ==
    ((a - d) % limit) - o \in 0 .. z - 1 <=> \E k \in 0 .. z - 1 : ((d + o) + k) % limit = a

LEMMA OffsetInBlock ==
    ASSUME NEW limit \in Nat \ {0}, NEW a \in 0 .. limit - 1, NEW d \in 0 .. limit - 1,
           NEW o \in 0 .. limit - 1, NEW z \in 0 .. limit - 1, o + z < limit, d + o < limit
    PROVE  ByteAt(limit, a, d, o, z)
  <1> DEFINE r == (a - d) % limit
             at(k) == ((d + o) + k) % limit
  <1>1. r = IF a >= d THEN a - d ELSE a - d + limit
    BY DifferenceInWidth
  <1>2. ASSUME NEW k \in 0 .. z - 1
        PROVE  at(k) = IF d + o + k < limit THEN d + o + k ELSE d + o + k - limit
    <2>1. d + o \in 0 .. limit - 1 /\ k \in 0 .. limit - 1
      OBVIOUS
    <2>2. QED
      BY <2>1, SumInWidth
  <1> HIDE DEF r, at
  <1>3. ASSUME r - o \in 0 .. z - 1
        PROVE  \E k \in 0 .. z - 1 : at(k) = a
    <2>1. at(r - o) = a
      <3>1. at(r - o) = IF d + o + (r - o) < limit THEN d + o + (r - o) ELSE d + o + (r - o) - limit
        BY <1>2, <1>3
      <3>2. QED
        BY <1>1, <3>1
    <2>2. QED
      BY <1>3, <2>1
  <1>4. ASSUME NEW k \in 0 .. z - 1, at(k) = a
        PROVE  r - o \in 0 .. z - 1
    <2>1. a = IF d + o + k < limit THEN d + o + k ELSE d + o + k - limit
      BY <1>2, <1>4
    <2>2. QED
      BY <1>1, <2>1
  <1>5. QED
    BY <1>3, <1>4 DEF r, at, ByteAt

-----------------------------------------------------------------------------

(* The owners of a block. *)
Grandparent(c) == parent[parent[c]]

LEMMA Owners ==
    ASSUME MapInv
    PROVE  /\ \A c \in AttachedBlocks : c \in Node /\ c \in Blocks /\ parent[c] \in ByteIntervals
           /\ \A b \in ByteIntervals : parent[b] \in Sections \cup {Null}
           /\ \A s \in Sections : parent[s] \in Modules \cup {Null}
           /\ \A m \in Modules : parent[m] \in IRs \cup {Null}
           /\ \A b \in ByteIntervals : children[b] = {c \in AttachedBlocks : parent[c] = b}
           /\ \A s \in Sections : children[s] = {b \in ByteIntervals : parent[b] = s}
           /\ \A m \in Modules : children[m] \cap Sections = {s \in Sections : parent[s] = m}
           /\ \A i \in IRs : children[i] = {m \in Modules : parent[m] = i}
  <1>1. IRs \cup Modules \cup Sections \cup ByteIntervals \cup Blocks \subseteq Node /\ Null \notin Node
    BY KindsDisjoint
  <1>2. TreeTypeOK /\ OwnershipAgrees
    BY DEF MapInv, TreeInv
  <1>3. /\ \A b \in ByteIntervals : parent[b] \in Sections \cup {Null}
        /\ \A s \in Sections : parent[s] \in Modules \cup {Null}
        /\ \A m \in Modules : parent[m] \in IRs \cup {Null}
    BY <1>1, <1>2, OwnerKinds DEF Link
  <1>4. \A b \in ByteIntervals : children[b] = {c \in AttachedBlocks : parent[c] = b}
    BY <1>1, <1>2, TreeShape DEF OwnershipAgrees, AttachedBlocks
  <1>5. \A s \in Sections : children[s] = {b \in ByteIntervals : parent[b] = s}
    BY <1>1, <1>2, TreeShape DEF OwnershipAgrees
  <1>6. \A m \in Modules : children[m] \cap Sections = {s \in Sections : parent[s] = m}
    BY <1>1, <1>2, TreeShape DEF OwnershipAgrees
  <1>7. \A i \in IRs : children[i] = {m \in Modules : parent[m] = i}
    BY <1>1, <1>2, TreeShape DEF OwnershipAgrees
  <1>8. QED
    BY <1>1, <1>3, <1>4, <1>5, <1>6, <1>7 DEF AttachedBlocks

LEMMA BlocksByOwner ==
    ASSUME MapInv
    PROVE  /\ \A s \in Sections : BlocksIn(s) = {c \in AttachedBlocks : Grandparent(c) = s}
           /\ \A m \in Modules :
                 BlocksBelow(m) = {c \in AttachedBlocks : /\ Grandparent(c) \in Sections
                                                          /\ parent[Grandparent(c)] = m}
           /\ \A m \in Modules :
                 BlocksSeen(m) = {c \in BlocksBelow(m) : extent[Grandparent(c)] # Null}
           /\ \A i \in IRs : /\ BlocksOfIR(i, BlocksBelow) \subseteq AttachedBlocks
                             /\ BlocksOfIR(i, BlocksSeen) \subseteq AttachedBlocks
  <1>1. \A s \in Sections : BlocksIn(s) = {c \in AttachedBlocks : Grandparent(c) = s}
    <2> TAKE s \in Sections
    <2>1. children[s] = {b \in ByteIntervals : parent[b] = s}
      BY Owners
    <2>2. \A b \in children[s] : children[b] = {c \in AttachedBlocks : parent[c] = b}
      BY <2>1, Owners
    <2>3. \A c \in AttachedBlocks : parent[c] \in ByteIntervals
      BY DEF AttachedBlocks
    <2>4. QED
      BY <2>1, <2>2, <2>3 DEF BlocksIn, Grandparent
  <1>2. ASSUME NEW m \in Modules
        PROVE  /\ BlocksBelow(m) = {c \in AttachedBlocks : /\ Grandparent(c) \in Sections
                                                           /\ parent[Grandparent(c)] = m}
               /\ BlocksSeen(m) = {c \in BlocksBelow(m) : extent[Grandparent(c)] # Null}
    <2>1. children[m] \cap Sections = {s \in Sections : parent[s] = m}
      BY Owners
    <2>2. BlocksBelow(m) = {c \in AttachedBlocks : /\ Grandparent(c) \in Sections
                                                   /\ parent[Grandparent(c)] = m}
      BY <1>1, <2>1 DEF BlocksBelow
    <2>3. BlocksSeen(m) = {c \in BlocksBelow(m) : extent[Grandparent(c)] # Null}
      BY <1>1, <2>1, <2>2 DEF BlocksSeen
    <2>4. QED
      BY <2>2, <2>3
  <1>3. ASSUME NEW i \in IRs
        PROVE  /\ BlocksOfIR(i, BlocksBelow) \subseteq AttachedBlocks
               /\ BlocksOfIR(i, BlocksSeen) \subseteq AttachedBlocks
    <2>1. children[i] \subseteq Modules
      BY Owners
    <2>2. QED
      BY <1>2, <2>1 DEF BlocksOfIR
  <1>4. QED
    BY <1>1, <1>2, <1>3

(* Where a block of an interval starts. *)
LEMMA BlockStart ==
    ASSUME MapInv, NEW b \in ByteIntervals, NEW c \in children[b]
    PROVE  /\ c \in AttachedBlocks /\ parent[c] = b
           /\ Offset[c] \in Addr /\ BlockSize[c] \in Addr /\ Offset[c] + BlockSize[c] < AddrLimit
           /\ address[b] # Null =>
                 /\ address[b] \in Addr
                 /\ startOf(c) = IF address[b] + Offset[c] < AddrLimit THEN address[b] + Offset[c]
                                 ELSE address[b] + Offset[c] - AddrLimit
  <1>1. c \in AttachedBlocks /\ parent[c] = b /\ c \in Blocks
    BY Owners
  <1>2. Offset[c] \in Addr /\ BlockSize[c] \in Addr /\ Offset[c] + BlockSize[c] < AddrLimit
    BY <1>1, QueryAssumption
  <1>3. ASSUME address[b] # Null
        PROVE  /\ address[b] \in Addr
               /\ startOf(c) = IF address[b] + Offset[c] < AddrLimit THEN address[b] + Offset[c]
                               ELSE address[b] + Offset[c] - AddrLimit
    <2>1. address[b] \in Addr
      BY <1>3 DEF MapInv, TypeOK
    <2>2. startOf(c) = (address[b] + Offset[c]) % AddrLimit
      BY <1>1, <1>3, KindsDisjoint DEF startOf
    <2>3. QED
      BY <1>2, <2>1, <2>2, AddrAssumption, SumInWidth DEF Addr
  <1>4. QED
    BY <1>1, <1>2, <1>3

-----------------------------------------------------------------------------

(* findBlocksOn. *)

(* An interval that covers the address finds the blocks that do. *)
LEMMA MappedIntervalOn ==
    ASSUME MapInv, NEW K, NEW a \in Addr, NEW b \in ByteIntervals, Mapped(b), Covers(b, a)
    PROVE  /\ Lists(intervalFindBlocksOn(K, b, a), {c \in children[b] \cap K : IsOn(c, a)})
           /\ Ascending(intervalFindBlocksOn(K, b, a))
  <1> DEFINE off == (a - address[b]) % AddrLimit
             S == {c \in children[b] \cap K : off - Offset[c] \in 0 .. BlockSize[c] - 1}
  <1>1. address[b] # Null /\ address[b] \in Addr /\ address[b] <= a /\ AddrLimit \in Nat \ {0}
    BY AddrAssumption DEF Covers, MapInv, TypeOK
  <1>2. off = a - address[b]
    BY <1>1, DifferenceInWidth DEF Addr
  <1>3. intervalFindBlocksOn(K, b, a) = InOffsetOrder(S)
    BY <1>1 DEF intervalFindBlocksOn, intervalFindBlocksOnOffset
  <1>4. ASSUME NEW c \in children[b]
        PROVE  /\ off - Offset[c] \in 0 .. BlockSize[c] - 1 <=> IsOn(c, a)
               /\ off - Offset[c] \in 0 .. BlockSize[c] - 1 => address[b] + Offset[c] < AddrLimit
    <2>1. /\ parent[c] = b /\ Offset[c] \in Addr /\ BlockSize[c] \in Addr
          /\ Offset[c] + BlockSize[c] < AddrLimit
          /\ startOf(c) = IF address[b] + Offset[c] < AddrLimit THEN address[b] + Offset[c]
                          ELSE address[b] + Offset[c] - AddrLimit
      BY <1>1, BlockStart
    <2>2. IsOn(c, a) <=> startOf(c) <= a /\ a < startOf(c) + BlockSize[c]
      BY <2>1 DEF IsOn
    <2> HIDE DEF off
    <2>3. QED
      BY <1>1, <1>2, <2>1, <2>2 DEF Addr
  <1>5. S = {c \in children[b] \cap K : IsOn(c, a)} /\ S \subseteq children[b]
        /\ \A c \in S : address[b] + Offset[c] < AddrLimit
    <2> HIDE DEF off
    <2> QED
      BY <1>4
  <1> HIDE DEF S
  <1>6. Lists(InOffsetOrder(S), S) /\ Ascending(InOffsetOrder(S))
    BY <1>1, <1>5, OffsetOrder
  <1>7. QED
    BY <1>3, <1>5, <1>6

(* An interval whose blocks do not wrap finds those with a byte at the address. *)
LEMMA IntervalOn ==
    ASSUME MapInv, NEW K, NEW a \in Addr, NEW b \in ByteIntervals, InOrder(children[b])
    PROVE  LET S == {c \in children[b] \cap K : \E k \in 0 .. BlockSize[c] - 1 :
                         (startOf(c) + k) % AddrLimit = a}
           IN  Lists(intervalFindBlocksOn(K, b, a), S) /\ Ascending(intervalFindBlocksOn(K, b, a))
  <1> DEFINE off == (a - address[b]) % AddrLimit
             S == {c \in children[b] \cap K : \E k \in 0 .. BlockSize[c] - 1 :
                         (startOf(c) + k) % AddrLimit = a}
             R == {c \in children[b] \cap K : off - Offset[c] \in 0 .. BlockSize[c] - 1}
  <1>1. \A c \in children[b] : parent[c] = b /\ address[b] # Null /\ address[b] + Offset[c] < AddrLimit
    BY BlockStart DEF InOrder
  <1>2. CASE address[b] = Null
    <2>1. children[b] = {} /\ intervalFindBlocksOn(K, b, a) = <<>>
      BY <1>1, <1>2 DEF intervalFindBlocksOn
    <2>2. S = {}
      BY <2>1
    <2> HIDE DEF S
    <2>3. QED
      BY <2>1, <2>2, NoAnswer DEF S
  <1>3. CASE address[b] # Null
    <2>1. intervalFindBlocksOn(K, b, a) = InOffsetOrder(R)
      BY <1>3 DEF intervalFindBlocksOn, intervalFindBlocksOnOffset
    <2>2. ASSUME NEW c \in children[b]
          PROVE  off - Offset[c] \in 0 .. BlockSize[c] - 1
                    <=> \E k \in 0 .. BlockSize[c] - 1 : (startOf(c) + k) % AddrLimit = a
      <3>1. /\ Offset[c] \in Addr /\ BlockSize[c] \in Addr /\ Offset[c] + BlockSize[c] < AddrLimit
            /\ address[b] \in Addr /\ startOf(c) = address[b] + Offset[c]
            /\ address[b] + Offset[c] < AddrLimit
        BY <1>1, <1>3, BlockStart
      <3>2. AddrLimit \in Nat \ {0}
        BY AddrAssumption
      <3>3. ((a - address[b]) % AddrLimit) - Offset[c] \in 0 .. BlockSize[c] - 1
               <=> \E k \in 0 .. BlockSize[c] - 1 : ((address[b] + Offset[c]) + k) % AddrLimit = a
        <4>1. /\ a \in 0 .. AddrLimit - 1 /\ address[b] \in 0 .. AddrLimit - 1
              /\ Offset[c] \in 0 .. AddrLimit - 1 /\ BlockSize[c] \in 0 .. AddrLimit - 1
          BY <3>1 DEF Addr
        <4>2. ByteAt(AddrLimit, a, address[b], Offset[c], BlockSize[c])
          BY <3>1, <3>2, <4>1, OffsetInBlock
        <4>3. QED
          BY <4>2, Zenon DEF ByteAt
      <3>4. QED
        BY <3>1, <3>3, Zenon
    <2>3. R = S /\ R \subseteq children[b]
      <3> HIDE DEF off
      <3> QED
        BY <2>2
    <2> HIDE DEF R, S
    <2>4. Lists(InOffsetOrder(R), R) /\ Ascending(InOffsetOrder(R))
      BY <1>1, <1>3, <2>3, OffsetOrder
    <2>5. QED
      BY <2>1, <2>3, <2>4 DEF S
  <1>4. QED
    BY <1>2, <1>3

(* A section asks the intervals on the address. *)
LEMMA SectionOn ==
    ASSUME MapInv, NEW K, NEW a \in Addr, NEW s \in Sections
    PROVE  /\ Lists(sectionFindBlocksOn(K, s, a), {c \in BlocksIn(s) \cap K : IsOn(c, a)})
           /\ Ascending(sectionFindBlocksOn(K, s, a))
  <1> DEFINE C == sectionFindByteIntervalsOn(s, a)
             Q == [b \in C |-> intervalFindBlocksOn(K, b, a)]
             U == {c \in BlocksIn(s) \cap K : IsOn(c, a)}
             own == [c \in AttachedBlocks |-> parent[c]]
  <1>1. C = {b \in children[s] : Mapped(b) /\ Covers(b, a)}
    BY DEF MapInv, SectionMapExact, Mapped, Covers
  <1>2. C \subseteq ByteIntervals /\ C \subseteq children[s]
    BY <1>1, Owners
  <1>3. IsFiniteSet(C)
    BY <1>2, TreeShape, KindsDisjoint, FS_Subset
  <1>4. BlocksIn(s) = {c \in AttachedBlocks : Grandparent(c) = s}
    BY BlocksByOwner
  <1>5. \A c \in U : own[c] \in C
    <2>1. ASSUME NEW c \in U
          PROVE  own[c] \in C
      <3>1. c \in AttachedBlocks /\ parent[parent[c]] = s /\ Mapped(parent[c]) /\ Covers(parent[c], a)
        BY <1>4 DEF IsOn, Grandparent
      <3>2. parent[c] \in children[s]
        BY <3>1, Owners
      <3>3. QED
        BY <1>1, <3>1, <3>2
    <2>2. QED
      BY <2>1
  <1>6. ASSUME NEW b \in C
        PROVE  Lists(Q[b], {c \in U : own[c] = b}) /\ Ascending(Q[b])
    <2>1. b \in ByteIntervals /\ Mapped(b) /\ Covers(b, a) /\ parent[b] = s
      BY <1>1, <1>2, Owners
    <2>2. {c \in U : own[c] = b} = {c \in children[b] \cap K : IsOn(c, a)}
      <3>1. children[b] = {c \in AttachedBlocks : parent[c] = b}
        BY <2>1, Owners
      <3>2. QED
        BY <1>4, <2>1, <3>1 DEF Grandparent
    <2>3. QED
      BY <2>1, <2>2, MappedIntervalOn
  <1>7. Keyed(AttachedBlocks) /\ U \subseteq AttachedBlocks
    BY <1>4, BlockKeys
  <1>8. Q = [b \in C |-> Q[b]]
    OBVIOUS
  <1>9. sectionFindBlocksOn(K, s, a) = Merge(Q)
    BY DEF sectionFindBlocksOn, MergeOver
  <1> HIDE DEF C, Q, U, own
  <1>10. Answered(Q, C, U, own)
    BY <1>3, <1>5, <1>6, <1>8 DEF Answered
  <1>11. Lists(Merge(Q), U) /\ Ascending(Merge(Q))
    BY <1>6, <1>7, <1>10, Merged
  <1>12. QED
    BY <1>9, <1>11 DEF U

(* A module asks the sections on the address; they have an extent. *)
LEMMA SectionsOnAddress ==
    ASSUME MapInv, NEW a \in Addr, NEW m \in Modules
    PROVE  /\ moduleFindSectionsOn(m, a) \subseteq children[m] \cap Sections
           /\ \A s \in moduleFindSectionsOn(m, a) : extent[s] # Null
           /\ \A s \in children[m] \cap Sections : \A b \in children[s] :
                 extent[s] # Null /\ Mapped(b) /\ Covers(b, a) => s \in moduleFindSectionsOn(m, a)
           /\ IsFiniteSet(moduleFindSectionsOn(m, a))
  <1>1. moduleFindSectionsOn(m, a) = {s \in children[m] \cap Sections : a \in Points(extent[s])}
    BY DEF MapInv, ModuleMapExact
  <1>2. \A s \in moduleFindSectionsOn(m, a) : extent[s] # Null
    BY <1>1, PointsOfNull
  <1>3. ASSUME NEW s \in children[m] \cap Sections, NEW b \in children[s],
               extent[s] # Null, Mapped(b), Covers(b, a)
        PROVE  s \in moduleFindSectionsOn(m, a)
    <2>1. a \in Points(extent[s])
      <3>1. \A x \in children[s] : address[x] # Null
        BY <1>3 DEF MapInv, ExtentIsHull
      <3>2. MapsTo(address, size, b, a)
        BY <1>3, AddrAssumption DEF MapsTo, Mapped, Covers, Wraps, Addr
      <3>3. QED
        BY <1>3, <3>1, <3>2, HullContainsMapped
    <2>2. QED
      BY <1>1, <1>3, <2>1
  <1>4. IsFiniteSet(moduleFindSectionsOn(m, a))
    BY <1>1, KindsDisjoint, QueryAssumption, FS_Subset
  <1>5. QED
    BY <1>1, <1>2, <1>3, <1>4

LEMMA ModuleOn ==
    ASSUME MapInv, NEW K, NEW a \in Addr, NEW m \in Modules
    PROVE  /\ Lists(moduleFindBlocksOn(K, m, a), {c \in BlocksSeen(m) \cap K : IsOn(c, a)})
           /\ Ascending(moduleFindBlocksOn(K, m, a))
  <1> DEFINE C == moduleFindSectionsOn(m, a)
             Q == [s \in C |-> sectionFindBlocksOn(K, s, a)]
             U == {c \in BlocksSeen(m) \cap K : IsOn(c, a)}
             own == [c \in AttachedBlocks |-> Grandparent(c)]
  <1>1. /\ IsFiniteSet(C)
        /\ \A s \in C : s \in children[m] /\ s \in Sections /\ parent[s] = m /\ extent[s] # Null
    BY SectionsOnAddress, Owners
  <1>2. BlocksSeen(m) = {c \in AttachedBlocks : /\ Grandparent(c) \in Sections
                                                /\ parent[Grandparent(c)] = m
                                                /\ extent[Grandparent(c)] # Null}
    BY BlocksByOwner
  <1>3. ASSUME NEW c \in U
        PROVE  own[c] \in C
    <2> DEFINE s == Grandparent(c)
    <2>1. c \in AttachedBlocks /\ s \in Sections /\ parent[s] = m /\ extent[s] # Null
          /\ Mapped(parent[c]) /\ Covers(parent[c], a)
      BY <1>2 DEF IsOn
    <2>2. parent[c] \in children[s] /\ s \in children[m] \cap Sections
      BY <2>1, Owners DEF Grandparent
    <2> HIDE DEF s
    <2>3. s \in C
      BY <2>1, <2>2, SectionsOnAddress
    <2>4. QED
      BY <2>1, <2>3 DEF s
  <1>4. ASSUME NEW s \in C
        PROVE  Lists(Q[s], {c \in U : own[c] = s}) /\ Ascending(Q[s])
    <2>1. BlocksIn(s) = {c \in AttachedBlocks : Grandparent(c) = s}
      BY <1>1, BlocksByOwner
    <2>2. {c \in U : own[c] = s} = {c \in BlocksIn(s) \cap K : IsOn(c, a)}
      BY <1>1, <1>2, <2>1
    <2>3. QED
      BY <1>1, <2>2, SectionOn
  <1>5. Keyed(AttachedBlocks) /\ U \subseteq AttachedBlocks
    BY <1>2, BlockKeys
  <1>6. Q = [s \in C |-> Q[s]]
    OBVIOUS
  <1>7. moduleFindBlocksOn(K, m, a) = Merge(Q)
    BY DEF moduleFindBlocksOn, MergeOver
  <1> HIDE DEF C, Q, U, own
  <1>8. Answered(Q, C, U, own)
    BY <1>1, <1>3, <1>4, <1>6 DEF Answered
  <1>9. Lists(Merge(Q), U) /\ Ascending(Merge(Q))
    BY <1>4, <1>5, <1>8, Merged
  <1>10. QED
    BY <1>7, <1>9 DEF U

(* An IR asks its modules, which have no block in common. *)
LEMMA ModulesOfIR ==
    ASSUME MapInv, NEW i \in IRs
    PROVE  /\ IsFiniteSet(children[i]) /\ \A m \in children[i] : m \in Modules
           /\ \A c \in BlocksOfIR(i, BlocksBelow) : parent[Grandparent(c)] \in children[i]
           /\ \A c \in BlocksOfIR(i, BlocksSeen) : parent[Grandparent(c)] \in children[i]
           /\ \A m \in children[i] :
                 /\ {c \in BlocksOfIR(i, BlocksBelow) : parent[Grandparent(c)] = m} = BlocksBelow(m)
                 /\ {c \in BlocksOfIR(i, BlocksSeen) : parent[Grandparent(c)] = m} = BlocksSeen(m)
  <1>1. IsFiniteSet(children[i]) /\ \A m \in children[i] : m \in Modules
    BY TreeShape, KindsDisjoint
  <1>2. \A m \in children[i] : \A c \in BlocksBelow(m) : parent[Grandparent(c)] = m
    BY <1>1, BlocksByOwner
  <1>3. \A m \in children[i] : \A c \in BlocksSeen(m) : parent[Grandparent(c)] = m
    BY <1>1, <1>2, BlocksByOwner
  <1>4. QED
    BY <1>1, <1>2, <1>3 DEF BlocksOfIR

LEMMA IROn ==
    ASSUME MapInv, NEW K, NEW a \in Addr, NEW i \in IRs
    PROVE  /\ Lists(irFindBlocksOn(K, i, a),
                    {c \in BlocksOfIR(i, BlocksSeen) \cap K : IsOn(c, a)})
           /\ Ascending(irFindBlocksOn(K, i, a))
  <1> DEFINE C == children[i]
             Q == [m \in C |-> moduleFindBlocksOn(K, m, a)]
             U == {c \in BlocksOfIR(i, BlocksSeen) \cap K : IsOn(c, a)}
             own == [c \in AttachedBlocks |-> parent[Grandparent(c)]]
  <1>1. BlocksOfIR(i, BlocksSeen) \subseteq AttachedBlocks
    BY BlocksByOwner
  <1>2. \A c \in U : own[c] \in C
    BY <1>1, ModulesOfIR
  <1>3. ASSUME NEW m \in C
        PROVE  Lists(Q[m], {c \in U : own[c] = m}) /\ Ascending(Q[m])
    <2>1. {c \in BlocksOfIR(i, BlocksSeen) : parent[Grandparent(c)] = m} = BlocksSeen(m)
      BY ModulesOfIR
    <2>2. {c \in U : own[c] = m} = {c \in BlocksSeen(m) \cap K : IsOn(c, a)}
      BY <1>1, <2>1
    <2>3. m \in Modules
      BY ModulesOfIR
    <2>4. QED
      BY <2>2, <2>3, ModuleOn
  <1>4. Keyed(AttachedBlocks) /\ U \subseteq AttachedBlocks
    BY <1>1, BlockKeys
  <1>5. Q = [m \in C |-> Q[m]] /\ IsFiniteSet(C)
    BY ModulesOfIR
  <1>6. irFindBlocksOn(K, i, a) = Merge(Q)
    BY DEF irFindBlocksOn, MergeOver
  <1> HIDE DEF C, Q, U, own
  <1>7. Answered(Q, C, U, own)
    BY <1>2, <1>3, <1>5 DEF Answered
  <1>8. Lists(Merge(Q), U) /\ Ascending(Merge(Q))
    BY <1>3, <1>4, <1>7, Merged
  <1>9. QED
    BY <1>6, <1>8 DEF U

(* The families: what a query with a kind K of blocks lists. *)
LEMMA FamilyOf ==
    ASSUME NEW all, NEW code, NEW data, NEW S, S \subseteq Blocks,
           Lists(all, S \cap Blocks) /\ Ascending(all),
           Lists(code, S \cap CodeBlocks) /\ Ascending(code),
           Lists(data, S \cap DataBlocks) /\ Ascending(data)
    PROVE  FamilyYields(all, code, data, S)
  <1>1. S \cap Blocks = S
    OBVIOUS
  <1>2. QED
    BY <1>1, ListYields DEF FamilyYields

(* So the property holds wherever the maps are right. *)
LEMMA FindBlocksOnHolds ==
    ASSUME MapInv
    PROVE  FindBlocksOnExact
  <1> SUFFICES ASSUME NEW a \in Addr
               PROVE  LET On(B) == {b \in B : IsOn(b, a)}
                      IN  /\ \A b \in {x \in ByteIntervals : InOrder(children[x])} :
                               FamilyYields(intervalFindBlocksOn(Blocks, b, a),
                                            intervalFindCodeBlocksOn(b, a),
                                            intervalFindDataBlocksOn(b, a),
                                            {c \in children[b] : \E k \in 0 .. BlockSize[c] - 1 :
                                                 (startOf(c) + k) % AddrLimit = a})
                          /\ \A s \in Sections :
                               FamilyYields(sectionFindBlocksOn(Blocks, s, a),
                                            sectionFindCodeBlocksOn(s, a),
                                            sectionFindDataBlocksOn(s, a), On(BlocksIn(s)))
                          /\ \A m \in Modules :
                               FamilyYields(moduleFindBlocksOn(Blocks, m, a),
                                            moduleFindCodeBlocksOn(m, a),
                                            moduleFindDataBlocksOn(m, a), On(BlocksSeen(m)))
                          /\ \A i \in IRs :
                               FamilyYields(irFindBlocksOn(Blocks, i, a),
                                            irFindCodeBlocksOn(i, a), irFindDataBlocksOn(i, a),
                                            On(BlocksOfIR(i, BlocksSeen)))
    BY Zenon DEF FindBlocksOnExact
  <1> DEFINE On(B) == {b \in B : IsOn(b, a)}
             Hit(c) == \E k \in 0 .. BlockSize[c] - 1 : (startOf(c) + k) % AddrLimit = a
  <1>1. ASSUME NEW b \in ByteIntervals, InOrder(children[b])
        PROVE  FamilyYields(intervalFindBlocksOn(Blocks, b, a), intervalFindCodeBlocksOn(b, a),
                            intervalFindDataBlocksOn(b, a), {c \in children[b] : Hit(c)})
    <2> DEFINE S == {c \in children[b] : Hit(c)}
    <2>1. ASSUME NEW K
          PROVE  Lists(intervalFindBlocksOn(K, b, a), S \cap K) /\ Ascending(intervalFindBlocksOn(K, b, a))
      <3>1. Lists(intervalFindBlocksOn(K, b, a), {c \in children[b] \cap K : Hit(c)})
            /\ Ascending(intervalFindBlocksOn(K, b, a))
        BY <1>1, IntervalOn
      <3> HIDE DEF Hit
      <3>2. {c \in children[b] \cap K : Hit(c)} = S \cap K
        OBVIOUS
      <3>3. QED
        BY <3>1, <3>2
    <2>2. S \subseteq Blocks
      BY TreeShape
    <2> HIDE DEF S
    <2>3. QED
      BY <2>1, <2>2, FamilyOf DEF S, intervalFindCodeBlocksOn, intervalFindDataBlocksOn
  <1>2. ASSUME NEW s \in Sections
        PROVE  FamilyYields(sectionFindBlocksOn(Blocks, s, a), sectionFindCodeBlocksOn(s, a),
                            sectionFindDataBlocksOn(s, a), On(BlocksIn(s)))
    <2>1. ASSUME NEW K
          PROVE  Lists(sectionFindBlocksOn(K, s, a), On(BlocksIn(s)) \cap K)
                 /\ Ascending(sectionFindBlocksOn(K, s, a))
      <3>1. {c \in BlocksIn(s) \cap K : IsOn(c, a)} = On(BlocksIn(s)) \cap K
        OBVIOUS
      <3>2. QED
        BY <3>1, SectionOn
    <2>2. On(BlocksIn(s)) \subseteq Blocks
      BY BlocksByOwner DEF AttachedBlocks
    <2> HIDE DEF On
    <2>3. QED
      BY <2>1, <2>2, FamilyOf DEF sectionFindCodeBlocksOn, sectionFindDataBlocksOn
  <1>3. ASSUME NEW m \in Modules
        PROVE  FamilyYields(moduleFindBlocksOn(Blocks, m, a), moduleFindCodeBlocksOn(m, a),
                            moduleFindDataBlocksOn(m, a), On(BlocksSeen(m)))
    <2>1. ASSUME NEW K
          PROVE  Lists(moduleFindBlocksOn(K, m, a), On(BlocksSeen(m)) \cap K)
                 /\ Ascending(moduleFindBlocksOn(K, m, a))
      <3>1. {c \in BlocksSeen(m) \cap K : IsOn(c, a)} = On(BlocksSeen(m)) \cap K
        OBVIOUS
      <3>2. QED
        BY <3>1, ModuleOn
    <2>2. On(BlocksSeen(m)) \subseteq Blocks
      BY BlocksByOwner DEF AttachedBlocks
    <2> HIDE DEF On
    <2>3. QED
      BY <2>1, <2>2, FamilyOf DEF moduleFindCodeBlocksOn, moduleFindDataBlocksOn
  <1>4. ASSUME NEW i \in IRs
        PROVE  FamilyYields(irFindBlocksOn(Blocks, i, a), irFindCodeBlocksOn(i, a),
                            irFindDataBlocksOn(i, a), On(BlocksOfIR(i, BlocksSeen)))
    <2> DEFINE B == BlocksOfIR(i, BlocksSeen)
    <2>0. B \subseteq AttachedBlocks
      BY BlocksByOwner
    <2>1. ASSUME NEW K
          PROVE  Lists(irFindBlocksOn(K, i, a), On(B) \cap K) /\ Ascending(irFindBlocksOn(K, i, a))
      <3>1. Lists(irFindBlocksOn(K, i, a), {c \in B \cap K : IsOn(c, a)})
            /\ Ascending(irFindBlocksOn(K, i, a))
        BY IROn
      <3> HIDE DEF B
      <3>2. {c \in B \cap K : IsOn(c, a)} = On(B) \cap K
        OBVIOUS
      <3>3. QED
        BY <3>1, <3>2
    <2> HIDE DEF B
    <2>2. On(B) \subseteq Blocks
      BY <2>0 DEF AttachedBlocks
    <2> HIDE DEF On
    <2>3. FamilyYields(irFindBlocksOn(Blocks, i, a), irFindCodeBlocksOn(i, a),
                       irFindDataBlocksOn(i, a), On(B))
      BY <2>1, <2>2, FamilyOf DEF irFindCodeBlocksOn, irFindDataBlocksOn
    <2>4. QED
      BY <2>3 DEF B
  <1>5. QED
    BY <1>1, <1>2, <1>3, <1>4, Zenon

-----------------------------------------------------------------------------

(* findBlocksAt with one address. *)

(* An interval that covers the address finds the blocks that start there. *)
LEMMA MappedIntervalAt ==
    ASSUME MapInv, NEW K, NEW a \in Addr, NEW b \in ByteIntervals, Mapped(b), Covers(b, a)
    PROVE  /\ Lists(intervalFindBlocksAt(K, b, a), {c \in children[b] \cap K : IsAt(c, a)})
           /\ Ascending(intervalFindBlocksAt(K, b, a))
  <1> DEFINE S == {c \in children[b] \cap K : Offset[c] = a - address[b]}
  <1>1. address[b] # Null /\ address[b] \in Addr /\ address[b] <= a /\ AddrLimit \in Nat \ {0}
    BY AddrAssumption DEF Covers, MapInv, TypeOK
  <1>2. ~(a < address[b])
    BY <1>1 DEF Addr
  <1>3. intervalFindBlocksAt(K, b, a) = InOffsetOrder(S)
    BY <1>1, <1>2 DEF intervalFindBlocksAt, intervalFindBlocksAtOffset
  <1>4. ASSUME NEW c \in children[b]
        PROVE  /\ Offset[c] = a - address[b] <=> IsAt(c, a)
               /\ Offset[c] = a - address[b] => address[b] + Offset[c] < AddrLimit
    <2>1. /\ parent[c] = b /\ Offset[c] \in Addr
          /\ startOf(c) = IF address[b] + Offset[c] < AddrLimit THEN address[b] + Offset[c]
                          ELSE address[b] + Offset[c] - AddrLimit
      BY <1>1, BlockStart
    <2>2. IsAt(c, a) <=> startOf(c) = a
      BY <2>1 DEF IsAt
    <2>3. QED
      BY <1>1, <2>1, <2>2 DEF Addr
  <1>5. S = {c \in children[b] \cap K : IsAt(c, a)} /\ S \subseteq children[b]
        /\ \A c \in S : address[b] + Offset[c] < AddrLimit
    BY <1>4
  <1> HIDE DEF S
  <1>6. Lists(InOffsetOrder(S), S) /\ Ascending(InOffsetOrder(S))
    BY <1>1, <1>5, OffsetOrder
  <1>7. QED
    BY <1>3, <1>5, <1>6

(* An interval whose blocks do not wrap finds all that start at the address. *)
LEMMA IntervalAt ==
    ASSUME MapInv, NEW K, NEW a \in Addr, NEW b \in ByteIntervals, InOrder(children[b])
    PROVE  /\ Lists(intervalFindBlocksAt(K, b, a), {c \in children[b] \cap K : startOf(c) = a})
           /\ Ascending(intervalFindBlocksAt(K, b, a))
  <1> DEFINE S == {c \in children[b] \cap K : startOf(c) = a}
             R == {c \in children[b] \cap K : Offset[c] = a - address[b]}
  <1>1. \A c \in children[b] : parent[c] = b /\ address[b] # Null /\ address[b] + Offset[c] < AddrLimit
    BY BlockStart DEF InOrder
  <1>2. \A c \in children[b] : address[b] \in Addr /\ Offset[c] \in Addr
                               /\ startOf(c) = address[b] + Offset[c]
    BY <1>1, BlockStart
  <1>3. CASE address[b] = Null \/ a < address[b]
    <2>1. intervalFindBlocksAt(K, b, a) = <<>>
      BY <1>3 DEF intervalFindBlocksAt
    <2>2. S = {}
      BY <1>1, <1>2, <1>3 DEF Addr
    <2>3. QED
      BY <2>1, <2>2, NoAnswer
  <1>4. CASE ~(address[b] = Null \/ a < address[b])
    <2>1. intervalFindBlocksAt(K, b, a) = InOffsetOrder(R)
      BY <1>4 DEF intervalFindBlocksAt, intervalFindBlocksAtOffset
    <2>2. R = S /\ R \subseteq children[b]
      BY <1>2 DEF Addr
    <2> HIDE DEF R, S
    <2>3. Lists(InOffsetOrder(R), R) /\ Ascending(InOffsetOrder(R))
      BY <1>1, <1>4, <2>2, OffsetOrder
    <2>4. QED
      BY <2>1, <2>2, <2>3 DEF S
  <1>5. QED
    BY <1>3, <1>4

(* A section asks the intervals on the address. *)
LEMMA SectionAt ==
    ASSUME MapInv, NEW K, NEW a \in Addr, NEW s \in Sections
    PROVE  /\ Lists(sectionFindBlocksAt(K, s, a), {c \in BlocksIn(s) \cap K : IsAt(c, a)})
           /\ Ascending(sectionFindBlocksAt(K, s, a))
  <1> DEFINE C == sectionFindByteIntervalsOn(s, a)
             Q == [b \in C |-> intervalFindBlocksAt(K, b, a)]
             U == {c \in BlocksIn(s) \cap K : IsAt(c, a)}
             own == [c \in AttachedBlocks |-> parent[c]]
  <1>1. C = {b \in children[s] : Mapped(b) /\ Covers(b, a)}
    BY DEF MapInv, SectionMapExact, Mapped, Covers
  <1>2. C \subseteq ByteIntervals /\ C \subseteq children[s]
    BY <1>1, Owners
  <1>3. IsFiniteSet(C)
    BY <1>2, TreeShape, KindsDisjoint, FS_Subset
  <1>4. BlocksIn(s) = {c \in AttachedBlocks : Grandparent(c) = s}
    BY BlocksByOwner
  <1>5. \A c \in U : own[c] \in C
    <2>1. ASSUME NEW c \in U
          PROVE  own[c] \in C
      <3>1. c \in AttachedBlocks /\ parent[parent[c]] = s /\ Mapped(parent[c]) /\ Covers(parent[c], a)
        BY <1>4 DEF IsAt, Grandparent
      <3>2. parent[c] \in children[s]
        BY <3>1, Owners
      <3>3. QED
        BY <1>1, <3>1, <3>2
    <2>2. QED
      BY <2>1
  <1>6. ASSUME NEW b \in C
        PROVE  Lists(Q[b], {c \in U : own[c] = b}) /\ Ascending(Q[b])
    <2>1. b \in ByteIntervals /\ Mapped(b) /\ Covers(b, a) /\ parent[b] = s
      BY <1>1, <1>2, Owners
    <2>2. {c \in U : own[c] = b} = {c \in children[b] \cap K : IsAt(c, a)}
      <3>1. children[b] = {c \in AttachedBlocks : parent[c] = b}
        BY <2>1, Owners
      <3>2. QED
        BY <1>4, <2>1, <3>1 DEF Grandparent
    <2>3. QED
      BY <2>1, <2>2, MappedIntervalAt
  <1>7. Keyed(AttachedBlocks) /\ U \subseteq AttachedBlocks
    BY <1>4, BlockKeys
  <1>8. Q = [b \in C |-> Q[b]]
    OBVIOUS
  <1>9. sectionFindBlocksAt(K, s, a) = Merge(Q)
    BY DEF sectionFindBlocksAt, MergeOver
  <1> HIDE DEF C, Q, U, own
  <1>10. Answered(Q, C, U, own)
    BY <1>3, <1>5, <1>6, <1>8 DEF Answered
  <1>11. Lists(Merge(Q), U) /\ Ascending(Merge(Q))
    BY <1>6, <1>7, <1>10, Merged
  <1>12. QED
    BY <1>9, <1>11 DEF U

LEMMA ModuleAt ==
    ASSUME MapInv, NEW K, NEW a \in Addr, NEW m \in Modules
    PROVE  /\ Lists(moduleFindBlocksAt(K, m, a), {c \in BlocksSeen(m) \cap K : IsAt(c, a)})
           /\ Ascending(moduleFindBlocksAt(K, m, a))
  <1> DEFINE C == moduleFindSectionsOn(m, a)
             Q == [s \in C |-> sectionFindBlocksAt(K, s, a)]
             U == {c \in BlocksSeen(m) \cap K : IsAt(c, a)}
             own == [c \in AttachedBlocks |-> Grandparent(c)]
  <1>1. /\ IsFiniteSet(C)
        /\ \A s \in C : s \in children[m] /\ s \in Sections /\ parent[s] = m /\ extent[s] # Null
    BY SectionsOnAddress, Owners
  <1>2. BlocksSeen(m) = {c \in AttachedBlocks : /\ Grandparent(c) \in Sections
                                                /\ parent[Grandparent(c)] = m
                                                /\ extent[Grandparent(c)] # Null}
    BY BlocksByOwner
  <1>3. ASSUME NEW c \in U
        PROVE  own[c] \in C
    <2> DEFINE s == Grandparent(c)
    <2>1. c \in AttachedBlocks /\ s \in Sections /\ parent[s] = m /\ extent[s] # Null
          /\ Mapped(parent[c]) /\ Covers(parent[c], a)
      BY <1>2 DEF IsAt
    <2>2. parent[c] \in children[s] /\ s \in children[m] \cap Sections
      BY <2>1, Owners DEF Grandparent
    <2> HIDE DEF s
    <2>3. s \in C
      BY <2>1, <2>2, SectionsOnAddress
    <2>4. QED
      BY <2>1, <2>3 DEF s
  <1>4. ASSUME NEW s \in C
        PROVE  Lists(Q[s], {c \in U : own[c] = s}) /\ Ascending(Q[s])
    <2>1. BlocksIn(s) = {c \in AttachedBlocks : Grandparent(c) = s}
      BY <1>1, BlocksByOwner
    <2>2. {c \in U : own[c] = s} = {c \in BlocksIn(s) \cap K : IsAt(c, a)}
      BY <1>1, <1>2, <2>1
    <2>3. QED
      BY <1>1, <2>2, SectionAt
  <1>5. Keyed(AttachedBlocks) /\ U \subseteq AttachedBlocks
    BY <1>2, BlockKeys
  <1>6. Q = [s \in C |-> Q[s]]
    OBVIOUS
  <1>7. moduleFindBlocksAt(K, m, a) = Merge(Q)
    BY DEF moduleFindBlocksAt, MergeOver
  <1> HIDE DEF C, Q, U, own
  <1>8. Answered(Q, C, U, own)
    BY <1>1, <1>3, <1>4, <1>6 DEF Answered
  <1>9. Lists(Merge(Q), U) /\ Ascending(Merge(Q))
    BY <1>4, <1>5, <1>8, Merged
  <1>10. QED
    BY <1>7, <1>9 DEF U

LEMMA IRAt ==
    ASSUME MapInv, NEW K, NEW a \in Addr, NEW i \in IRs
    PROVE  /\ Lists(irFindBlocksAt(K, i, a),
                    {c \in BlocksOfIR(i, BlocksSeen) \cap K : IsAt(c, a)})
           /\ Ascending(irFindBlocksAt(K, i, a))
  <1> DEFINE C == children[i]
             Q == [m \in C |-> moduleFindBlocksAt(K, m, a)]
             U == {c \in BlocksOfIR(i, BlocksSeen) \cap K : IsAt(c, a)}
             own == [c \in AttachedBlocks |-> parent[Grandparent(c)]]
  <1>1. BlocksOfIR(i, BlocksSeen) \subseteq AttachedBlocks
    BY BlocksByOwner
  <1>2. \A c \in U : own[c] \in C
    BY <1>1, ModulesOfIR
  <1>3. ASSUME NEW m \in C
        PROVE  Lists(Q[m], {c \in U : own[c] = m}) /\ Ascending(Q[m])
    <2>1. {c \in BlocksOfIR(i, BlocksSeen) : parent[Grandparent(c)] = m} = BlocksSeen(m)
      BY ModulesOfIR
    <2>2. {c \in U : own[c] = m} = {c \in BlocksSeen(m) \cap K : IsAt(c, a)}
      BY <1>1, <2>1
    <2>3. m \in Modules
      BY ModulesOfIR
    <2>4. QED
      BY <2>2, <2>3, ModuleAt
  <1>4. Keyed(AttachedBlocks) /\ U \subseteq AttachedBlocks
    BY <1>1, BlockKeys
  <1>5. Q = [m \in C |-> Q[m]] /\ IsFiniteSet(C)
    BY ModulesOfIR
  <1>6. irFindBlocksAt(K, i, a) = Merge(Q)
    BY DEF irFindBlocksAt, MergeOver
  <1> HIDE DEF C, Q, U, own
  <1>7. Answered(Q, C, U, own)
    BY <1>2, <1>3, <1>5 DEF Answered
  <1>8. Lists(Merge(Q), U) /\ Ascending(Merge(Q))
    BY <1>3, <1>4, <1>7, Merged
  <1>9. QED
    BY <1>6, <1>8 DEF U

(* So the property holds wherever the maps are right. *)
LEMMA FindBlocksAtHolds ==
    ASSUME MapInv
    PROVE  FindBlocksAtExact
  <1> SUFFICES ASSUME NEW a \in Addr
               PROVE  LET At(B) == {b \in B : IsAt(b, a)}
                      IN  /\ \A b \in {x \in ByteIntervals : InOrder(children[x])} :
                               FamilyYields(intervalFindBlocksAt(Blocks, b, a),
                                            intervalFindCodeBlocksAt(b, a),
                                            intervalFindDataBlocksAt(b, a),
                                            {c \in children[b] : startOf(c) = a})
                          /\ \A s \in Sections :
                               FamilyYields(sectionFindBlocksAt(Blocks, s, a),
                                            sectionFindCodeBlocksAt(s, a),
                                            sectionFindDataBlocksAt(s, a), At(BlocksIn(s)))
                          /\ \A m \in Modules :
                               FamilyYields(moduleFindBlocksAt(Blocks, m, a),
                                            moduleFindCodeBlocksAt(m, a),
                                            moduleFindDataBlocksAt(m, a), At(BlocksSeen(m)))
                          /\ \A i \in IRs :
                               FamilyYields(irFindBlocksAt(Blocks, i, a),
                                            irFindCodeBlocksAt(i, a), irFindDataBlocksAt(i, a),
                                            At(BlocksOfIR(i, BlocksSeen)))
    BY Zenon DEF FindBlocksAtExact
  <1> DEFINE At(B) == {b \in B : IsAt(b, a)}
             Hit(c) == startOf(c) = a
  <1>1. ASSUME NEW b \in ByteIntervals, InOrder(children[b])
        PROVE  FamilyYields(intervalFindBlocksAt(Blocks, b, a), intervalFindCodeBlocksAt(b, a),
                            intervalFindDataBlocksAt(b, a), {c \in children[b] : Hit(c)})
    <2> DEFINE S == {c \in children[b] : Hit(c)}
    <2>1. ASSUME NEW K
          PROVE  Lists(intervalFindBlocksAt(K, b, a), S \cap K) /\ Ascending(intervalFindBlocksAt(K, b, a))
      <3>1. Lists(intervalFindBlocksAt(K, b, a), {c \in children[b] \cap K : Hit(c)})
            /\ Ascending(intervalFindBlocksAt(K, b, a))
        BY <1>1, IntervalAt
      <3> HIDE DEF Hit
      <3>2. {c \in children[b] \cap K : Hit(c)} = S \cap K
        OBVIOUS
      <3>3. QED
        BY <3>1, <3>2
    <2>2. S \subseteq Blocks
      BY TreeShape
    <2> HIDE DEF S
    <2>3. QED
      BY <2>1, <2>2, FamilyOf DEF S, intervalFindCodeBlocksAt, intervalFindDataBlocksAt
  <1>2. ASSUME NEW s \in Sections
        PROVE  FamilyYields(sectionFindBlocksAt(Blocks, s, a), sectionFindCodeBlocksAt(s, a),
                            sectionFindDataBlocksAt(s, a), At(BlocksIn(s)))
    <2>1. ASSUME NEW K
          PROVE  Lists(sectionFindBlocksAt(K, s, a), At(BlocksIn(s)) \cap K)
                 /\ Ascending(sectionFindBlocksAt(K, s, a))
      <3>1. {c \in BlocksIn(s) \cap K : IsAt(c, a)} = At(BlocksIn(s)) \cap K
        OBVIOUS
      <3>2. QED
        BY <3>1, SectionAt
    <2>2. At(BlocksIn(s)) \subseteq Blocks
      BY BlocksByOwner DEF AttachedBlocks
    <2> HIDE DEF At
    <2>3. QED
      BY <2>1, <2>2, FamilyOf DEF sectionFindCodeBlocksAt, sectionFindDataBlocksAt
  <1>3. ASSUME NEW m \in Modules
        PROVE  FamilyYields(moduleFindBlocksAt(Blocks, m, a), moduleFindCodeBlocksAt(m, a),
                            moduleFindDataBlocksAt(m, a), At(BlocksSeen(m)))
    <2>1. ASSUME NEW K
          PROVE  Lists(moduleFindBlocksAt(K, m, a), At(BlocksSeen(m)) \cap K)
                 /\ Ascending(moduleFindBlocksAt(K, m, a))
      <3>1. {c \in BlocksSeen(m) \cap K : IsAt(c, a)} = At(BlocksSeen(m)) \cap K
        OBVIOUS
      <3>2. QED
        BY <3>1, ModuleAt
    <2>2. At(BlocksSeen(m)) \subseteq Blocks
      BY BlocksByOwner DEF AttachedBlocks
    <2> HIDE DEF At
    <2>3. QED
      BY <2>1, <2>2, FamilyOf DEF moduleFindCodeBlocksAt, moduleFindDataBlocksAt
  <1>4. ASSUME NEW i \in IRs
        PROVE  FamilyYields(irFindBlocksAt(Blocks, i, a), irFindCodeBlocksAt(i, a),
                            irFindDataBlocksAt(i, a), At(BlocksOfIR(i, BlocksSeen)))
    <2> DEFINE B == BlocksOfIR(i, BlocksSeen)
    <2>0. B \subseteq AttachedBlocks
      BY BlocksByOwner
    <2>1. ASSUME NEW K
          PROVE  Lists(irFindBlocksAt(K, i, a), At(B) \cap K) /\ Ascending(irFindBlocksAt(K, i, a))
      <3>1. Lists(irFindBlocksAt(K, i, a), {c \in B \cap K : IsAt(c, a)})
            /\ Ascending(irFindBlocksAt(K, i, a))
        BY IRAt
      <3> HIDE DEF B
      <3>2. {c \in B \cap K : IsAt(c, a)} = At(B) \cap K
        OBVIOUS
      <3>3. QED
        BY <3>1, <3>2
    <2> HIDE DEF B
    <2>2. At(B) \subseteq Blocks
      BY <2>0 DEF AttachedBlocks
    <2> HIDE DEF At
    <2>3. FamilyYields(irFindBlocksAt(Blocks, i, a), irFindCodeBlocksAt(i, a),
                       irFindDataBlocksAt(i, a), At(B))
      BY <2>1, <2>2, FamilyOf DEF irFindCodeBlocksAt, irFindDataBlocksAt
    <2>4. QED
      BY <2>3 DEF B
  <1>5. QED
    BY <1>1, <1>2, <1>3, <1>4, Zenon

-----------------------------------------------------------------------------

(* findBlocksAt with two addresses. *)

(* Merging the answers of the children on the first address and of those that
   start behind it. *)
Near(on, behind) == ({1} \X on) \cup ({2} \X ToSet(behind))

LEMMA MergedNear ==
    ASSUME NEW X, Keyed(X), NEW U, U \subseteq X, NEW on, IsFiniteSet(on),
           NEW behind, IsFiniteSet(ToSet(behind)), NEW own, NEW Q,
           \A x \in U : own[x] \in on \cup ToSet(behind),
           \A b \in on \cup ToSet(behind) : Lists(Q[b], {x \in U : own[x] = b}) /\ Ascending(Q[b]),
           \A b \in on \cap ToSet(behind) : \A x \in U : own[x] # b
    PROVE  LET R == Merge([x \in Near(on, behind) |-> Q[x[2]]])
           IN  Lists(R, U) /\ Ascending(R)
  <1> DEFINE B == ToSet(behind)
             C == Near(on, behind)
             P == [x \in C |-> Q[x[2]]]
             o == [x \in U |-> IF own[x] \in on THEN <<1, own[x]>> ELSE <<2, own[x]>>]
  <1>1. IsFiniteSet(C)
    <2>1. IsFiniteSet({1}) /\ IsFiniteSet({2})
      BY FS_Singleton
    <2>2. IsFiniteSet({1} \X on) /\ IsFiniteSet({2} \X B)
      BY <2>1, FS_Product
    <2>3. QED
      BY <2>2, FS_Union DEF Near
  <1>2. \A x \in U : o[x] \in C
    BY DEF Near
  <1>3. ASSUME NEW z \in C
        PROVE  Lists(P[z], {x \in U : o[x] = z}) /\ Ascending(P[z])
    <2>1. CASE z \in {1} \X on
      <3>1. PICK b \in on : z = <<1, b>>
        BY <2>1
      <3>2. P[z] = Q[b]
        BY <3>1
      <3>3. {x \in U : o[x] = z} = {x \in U : own[x] = b}
        BY <3>1
      <3>4. QED
        BY <3>1, <3>2, <3>3
    <2>2. CASE z \in {2} \X B
      <3>1. PICK b \in B : z = <<2, b>>
        BY <2>2
      <3>2. P[z] = Q[b]
        BY <3>1
      <3>3. {x \in U : o[x] = z} = {x \in U : own[x] = b}
        BY <3>1
      <3>4. QED
        BY <3>1, <3>2, <3>3
    <2>3. QED
      BY <2>1, <2>2 DEF Near
  <1>4. P = [z \in C |-> P[z]]
    OBVIOUS
  <1> HIDE DEF C, P, o
  <1>5. Answered(P, C, U, o)
    BY <1>1, <1>2, <1>3, <1>4 DEF Answered
  <1>6. Lists(Merge(P), U) /\ Ascending(Merge(P))
    BY <1>3, <1>5, Merged
  <1>7. QED
    BY <1>6 DEF P, C

(* The address of a block, in unbounded integers, is in the range. *)
Between(c, low, high) ==
    /\ address[parent[c]] # Null
    /\ low <= address[parent[c]] + Offset[c] /\ address[parent[c]] + Offset[c] < high

(* An address in the range did not wrap. *)
LEMMA BetweenStart ==
    ASSUME MapInv, NEW c \in AttachedBlocks, NEW low \in Addr, NEW high \in Addr,
           Between(c, low, high)
    PROVE  low <= startOf(c) /\ startOf(c) < high
  <1> DEFINE b == parent[c]
  <1>1. b \in ByteIntervals /\ c \in children[b]
    BY Owners
  <1>2. /\ address[b] \in Addr /\ Offset[c] \in Addr
        /\ startOf(c) = IF address[b] + Offset[c] < AddrLimit THEN address[b] + Offset[c]
                        ELSE address[b] + Offset[c] - AddrLimit
    BY <1>1, BlockStart DEF Between
  <1>3. AddrLimit \in Nat \ {0}
    BY AddrAssumption
  <1>4. QED
    BY <1>2, <1>3 DEF Between, Addr

(* A block that starts at an address of the range and inside its interval. *)
LEMMA AtIsBetween ==
    ASSUME MapInv, NEW c \in AttachedBlocks, NEW low \in Addr, NEW high \in Addr,
           NEW a \in low .. high - 1, IsAt(c, a)
    PROVE  Between(c, low, high) /\ a \in Addr
  <1> DEFINE b == parent[c]
  <1>1. b \in ByteIntervals /\ c \in children[b]
    BY Owners
  <1>2. AddrLimit \in Nat \ {0}
    BY AddrAssumption
  <1>3. address[b] # Null /\ address[b] <= a /\ startOf(c) = a
    BY DEF IsAt, Covers
  <1>4. /\ address[b] \in Addr /\ Offset[c] \in Addr
        /\ startOf(c) = IF address[b] + Offset[c] < AddrLimit THEN address[b] + Offset[c]
                        ELSE address[b] + Offset[c] - AddrLimit
    BY <1>1, <1>3, BlockStart
  <1>5. address[b] + Offset[c] = a
    BY <1>2, <1>3, <1>4 DEF Addr
  <1>6. QED
    BY <1>2, <1>3, <1>5 DEF Between, Addr

LEMMA IntervalBetween ==
    ASSUME MapInv, NEW K, NEW low \in Addr, NEW high \in Addr, NEW b \in ByteIntervals
    PROVE  /\ Lists(intervalFindBlocksBetween(K, b, low, high),
                    {c \in children[b] \cap K : Between(c, low, high)})
           /\ Ascending(intervalFindBlocksBetween(K, b, low, high))
  <1> DEFINE S == {c \in children[b] \cap K : Between(c, low, high)}
             l == low - Min({address[b], low})
             h == high - Min({address[b], high})
             R == {c \in children[b] \cap K : l <= Offset[c] /\ Offset[c] < Max({l, h})}
  <1>1. \A c \in children[b] : parent[c] = b
    BY BlockStart
  <1>2. CASE address[b] = Null
    <2>1. intervalFindBlocksBetween(K, b, low, high) = <<>>
      BY <1>2 DEF intervalFindBlocksBetween
    <2>2. S = {}
      BY <1>1, <1>2 DEF Between
    <2>3. QED
      BY <2>1, <2>2, NoAnswer
  <1>3. CASE address[b] # Null
    <2>1. address[b] \in Addr /\ Addr \subseteq Nat /\ AddrLimit \in Nat
      BY <1>3, AddrAssumption DEF MapInv, TypeOK, Addr
    <2>2. address[b] \in Nat /\ low \in Nat /\ high \in Nat
      BY <2>1
    <2>3. l = (IF address[b] <= low THEN low - address[b] ELSE 0)
          /\ h = (IF address[b] <= high THEN high - address[b] ELSE 0)
      BY <2>2, MinOfTwo
    <2> HIDE DEF l, h
    <2>4. l \in Nat /\ h \in Nat
      BY <2>2, <2>3
    <2>5. Max({l, h}) = IF l >= h THEN l ELSE h
      BY <2>4, MaxOfTwo
    <2>6. ASSUME NEW c \in children[b]
          PROVE  /\ l <= Offset[c] /\ Offset[c] < Max({l, h}) <=> Between(c, low, high)
                 /\ Between(c, low, high) => address[b] + Offset[c] < AddrLimit
      <3>1. Offset[c] \in Nat
        BY <2>1, BlockStart
      <3>2. parent[c] = b
        BY <1>1
      <3>3. high < AddrLimit
        BY <2>1 DEF Addr
      <3>4. Between(c, low, high) <=> low <= address[b] + Offset[c] /\ address[b] + Offset[c] < high
        BY <1>3, <3>2 DEF Between
      <3>5. QED
        BY <2>1, <2>2, <2>3, <2>4, <2>5, <3>1, <3>3, <3>4
    <2>7. R = S /\ R \subseteq children[b] /\ \A c \in R : address[b] + Offset[c] < AddrLimit
      BY <2>6
    <2>8. intervalFindBlocksBetween(K, b, low, high) = InOffsetOrder(R)
      BY <1>3 DEF intervalFindBlocksBetween, intervalFindBlocksBetweenOffsets, l, h
    <2> HIDE DEF R, S
    <2>9. Lists(InOffsetOrder(R), R) /\ Ascending(InOffsetOrder(R))
      BY <1>3, <2>7, OffsetOrder
    <2>10. QED
      BY <2>7, <2>8, <2>9 DEF S
  <1>4. QED
    BY <1>2, <1>3

(* The address that the second part of a query for a range starts at. *)
LEMMA NextAddress ==
    ASSUME NEW a \in Addr
    PROVE  Next1(a) = IF a + 1 < AddrLimit THEN a + 1 ELSE 0
  <1>1. AddrLimit \in Nat \ {0} /\ a \in 0 .. AddrLimit - 1
    BY AddrAssumption DEF Addr
  <1>2. QED
    BY <1>1 DEF Next1

(* getAddress of a byte interval. *)
LEMMA IntervalStart ==
    ASSUME MapInv, NEW b \in ByteIntervals
    PROVE  /\ address[b] = Null => startOf(b) = -1
           /\ address[b] # Null => startOf(b) = address[b] /\ address[b] \in Addr
           /\ size[b] \in Addr
  <1>1. b \notin Sections /\ b \notin Blocks
    BY KindsDisjoint
  <1>2. /\ address[b] \in Addr \cup {Null} /\ size[b] \in Addr
    BY AddrAssumption DEF MapInv, TypeOK, Addr
  <1>3. QED
    BY <1>1, <1>2 DEF startOf

(* The intervals that a section asks, and the blocks it finds in them. *)
AskedInterval(b, low, high) ==
    \/ Mapped(b) /\ Covers(b, low)
    \/ Next1(low) <= startOf(b) /\ startOf(b) < high

InRange(c, low, high) == Between(c, low, high) /\ AskedInterval(parent[c], low, high)

(* A section asks the intervals on the first address and those behind it. *)
LEMMA SectionBetween ==
    ASSUME MapInv, NEW K, NEW low \in Addr, NEW high \in Addr, NEW s \in Sections
    PROVE  /\ Lists(sectionFindBlocksBetween(K, s, low, high),
                    {c \in BlocksIn(s) \cap K : InRange(c, low, high)})
           /\ Ascending(sectionFindBlocksBetween(K, s, low, high))
  <1> DEFINE on == sectionFindByteIntervalsOn(s, low)
             behind == sectionFindByteIntervalsBetween(s, Next1(low), high)
             D == {b \in children[s] : Next1(low) <= startOf(b) /\ startOf(b) < high}
             Q == [b \in on \cup ToSet(behind) |-> intervalFindBlocksBetween(K, b, low, high)]
             U == {c \in BlocksIn(s) \cap K : InRange(c, low, high)}
             own == [c \in AttachedBlocks |-> parent[c]]
             R == Merge([x \in Near(on, behind) |-> Q[x[2]]])
  <1>1. on = {b \in children[s] : Mapped(b) /\ Covers(b, low)}
    BY DEF MapInv, SectionMapExact, Mapped, Covers
  <1>2. children[s] \subseteq ByteIntervals /\ s \in Node /\ Null \notin ByteIntervals
    BY Owners, KindsDisjoint
  <1>3. Lists(behind, D)
    <2>1. D \subseteq ByteIntervals
      BY <1>2
    <2>2. behind = InAddressOrder(D)
      BY DEF sectionFindByteIntervalsBetween
    <2> HIDE DEF D, behind
    <2>3. QED
      BY <2>1, <2>2, AddressOrder
  <1>4. ToSet(behind) = D /\ behind # Undefined
    <2>1. Null \notin D
      BY <1>2
    <2> HIDE DEF D, behind
    <2>2. QED
      BY <1>3, <2>1, ListDefined DEF Lists
  <1>5. IsFiniteSet(on) /\ IsFiniteSet(ToSet(behind))
    BY <1>1, <1>2, <1>4, TreeShape, FS_Subset
  <1>6. BlocksIn(s) = {c \in AttachedBlocks : Grandparent(c) = s}
    BY BlocksByOwner
  <1> HIDE DEF on, behind
  <1>7. ASSUME NEW c \in U
        PROVE  own[c] \in on \cup ToSet(behind)
    <2>1. c \in AttachedBlocks /\ parent[parent[c]] = s /\ AskedInterval(parent[c], low, high)
      BY <1>6 DEF InRange, Grandparent
    <2>2. parent[c] \in children[s]
      BY <2>1, Owners
    <2>3. QED
      BY <1>1, <1>4, <2>1, <2>2 DEF AskedInterval
  <1>8. ASSUME NEW b \in on \cup ToSet(behind)
        PROVE  Lists(Q[b], {c \in U : own[c] = b}) /\ Ascending(Q[b])
    <2>1. b \in ByteIntervals /\ b \in children[s] /\ parent[b] = s /\ AskedInterval(b, low, high)
      BY <1>1, <1>2, <1>4, Owners DEF AskedInterval
    <2>2. {c \in U : own[c] = b} = {c \in children[b] \cap K : Between(c, low, high)}
      <3>1. children[b] = {c \in AttachedBlocks : parent[c] = b}
        BY <2>1, Owners
      <3>2. QED
        BY <1>6, <2>1, <3>1 DEF Grandparent, InRange
    <2>3. Q[b] = intervalFindBlocksBetween(K, b, low, high)
      OBVIOUS
    <2> HIDE DEF Q, U, own
    <2>4. QED
      BY <2>1, <2>2, <2>3, IntervalBetween
  <1>9. ASSUME NEW b \in on \cap ToSet(behind), NEW c \in U, own[c] = b
        PROVE  FALSE
    <2>1. b \in ByteIntervals /\ address[b] # Null /\ address[b] <= low /\ Next1(low) <= startOf(b)
      BY <1>1, <1>2, <1>4, <1>9 DEF Covers
    <2>2. startOf(b) = address[b] /\ address[b] \in Addr
      BY <2>1, IntervalStart
    <2>3. c \in AttachedBlocks /\ Between(c, low, high)
      BY <1>6 DEF InRange
    <2>4. low <= startOf(c) /\ startOf(c) < high /\ startOf(c) \in Int
      BY <2>3, BetweenStart, StartIsInt
    <2>5. Next1(low) = IF low + 1 < AddrLimit THEN low + 1 ELSE 0
      BY NextAddress
    <2>6. AddrLimit \in Nat
      BY AddrAssumption
    <2>7. QED
      BY <2>1, <2>2, <2>4, <2>5, <2>6 DEF Addr
  <1>10. Keyed(AttachedBlocks) /\ U \subseteq AttachedBlocks
    BY <1>6, BlockKeys
  <1>11. sectionFindBlocksBetween(K, s, low, high) = R
    <2>1. sectionFindBlocksBetween(K, s, low, high) =
             Merge([x \in Near(on, behind) |-> intervalFindBlocksBetween(K, x[2], low, high)])
      BY <1>4 DEF sectionFindBlocksBetween, MergeNear, Near, on, behind
    <2>2. \A x \in Near(on, behind) : Q[x[2]] = intervalFindBlocksBetween(K, x[2], low, high)
      BY DEF Near
    <2> HIDE DEF Q
    <2>3. QED
      BY <2>1, <2>2
  <1> HIDE DEF Q, U, own, R
  <1>12. Lists(R, U) /\ Ascending(R)
    BY <1>5, <1>7, <1>8, <1>9, <1>10, MergedNear DEF R
  <1>13. QED
    BY <1>11, <1>12 DEF U

(* getAddress of a section, and the addresses a module maps it at. *)
LEMMA SectionStart ==
    ASSUME MapInv, NEW s \in Sections
    PROVE  /\ extent[s] = Null => startOf(s) = -1 /\ Points(extent[s]) = {}
           /\ extent[s] # Null =>
                 /\ startOf(s) = extent[s].lower /\ extent[s].lower \in Addr /\ extent[s].size \in Addr
                 /\ \A a \in Addr : a \in Points(extent[s]) <=>
                       /\ extent[s].lower <= a /\ a < extent[s].lower + extent[s].size
                       /\ extent[s].lower + extent[s].size < AddrLimit
  <1>1. s \notin ByteIntervals /\ s \notin Blocks
    BY KindsDisjoint
  <1>2. CASE extent[s] = Null
    BY <1>1, <1>2, PointsOfNull DEF startOf
  <1>3. CASE extent[s] # Null
    <2>1. extent[s] \in AddrRange
      BY <1>3 DEF MapInv, TypeOK
    <2>2. PICK l \in Addr, n \in Addr : extent[s] = [lower |-> l, size |-> n]
      BY <2>1 DEF AddrRange
    <2>3. extent[s].lower = l /\ extent[s].size = n
      BY <2>2
    <2>4. startOf(s) = extent[s].lower
      BY <1>1, <1>3 DEF startOf
    <2>5. \A a \in Addr : a \in Points(extent[s]) <=> l <= a /\ a < l + n /\ l + n < AddrLimit
      BY <2>2, PointsOfRange
    <2>6. QED
      BY <1>3, <2>3, <2>4, <2>5
  <1>4. QED
    BY <1>2, <1>3

(* The sections that a module asks. *)
AskedSection(s, low, high) ==
    \/ low \in Points(extent[s])
    \/ Next1(low) <= startOf(s) /\ startOf(s) < high

(* A section without extent is not asked. *)
LEMMA AskedSectionsHaveExtents ==
    ASSUME MapInv, NEW low \in Addr, NEW high \in Addr, NEW s \in Sections,
           AskedSection(s, low, high)
    PROVE  extent[s] # Null
  <1>1. Next1(low) \in Nat
    BY NextAddress, AddrAssumption DEF Addr
  <1>2. QED
    BY <1>1, SectionStart DEF AskedSection

(* The two parts of a module's answer. *)
LEMMA SectionsNear ==
    ASSUME MapInv, NEW low \in Addr, NEW high \in Addr, Forward(low, high), NEW m \in Modules
    PROVE  LET on == moduleFindSectionsOn(m, low)
               behind == moduleFindSectionsBetween(m, Next1(low), high)
           IN  /\ behind # Undefined /\ (low < high => on \cap ToSet(behind) = {})
               /\ IsFiniteSet(on) /\ IsFiniteSet(ToSet(behind))
               /\ on \cup ToSet(behind) = {s \in Sections : parent[s] = m /\ AskedSection(s, low, high)}
  <1> DEFINE on == moduleFindSectionsOn(m, low)
             behind == moduleFindSectionsBetween(m, Next1(low), high)
             D == {s \in children[m] \cap Sections : Next1(low) <= startOf(s) /\ startOf(s) < high}
  <1>1. on = {s \in children[m] \cap Sections : low \in Points(extent[s])}
    BY DEF MapInv, ModuleMapExact
  <1>2. children[m] \cap Sections = {s \in Sections : parent[s] = m}
    BY Owners
  <1>3. /\ low \in Int /\ high \in Int /\ Next1(low) \in Int
        /\ Next1(low) <= high /\ (low < high => Next1(low) = low + 1)
    BY NextAddress, AddrAssumption DEF Addr, Forward
  <1>4. \A s \in Sections : startOf(s) \in Int
    BY StartIsInt
  <1>5. behind = InAddressOrder(D)
    BY <1>3, <1>4 DEF moduleFindSectionsBetween
  <1>6. D \subseteq Sections /\ Null \notin D /\ on \subseteq Sections
    BY <1>1, KindsDisjoint
  <1>7. IsFiniteSet(on) /\ IsFiniteSet(D)
    BY <1>6, KindsDisjoint, QueryAssumption, FS_Subset
  <1>8. ASSUME low < high, NEW s \in on, s \in D
        PROVE  FALSE
    <2>1. s \in Sections /\ low \in Points(extent[s]) /\ low + 1 <= startOf(s)
      BY <1>1, <1>3, <1>8
    <2>2. extent[s] # Null
      BY <2>1, PointsOfNull
    <2>3. startOf(s) <= low
      BY <2>1, <2>2, SectionStart
    <2>4. QED
      BY <1>3, <1>4, <2>1, <2>3
  <1>9. on \cup D = {s \in Sections : parent[s] = m /\ AskedSection(s, low, high)}
    BY <1>1, <1>2 DEF AskedSection
  <1> HIDE DEF D, on, behind
  <1>10. Lists(behind, D)
    BY <1>5, <1>6, AddressOrder
  <1>11. ToSet(behind) = D /\ behind # Undefined
    BY <1>6, <1>10, ListDefined DEF Lists
  <1>12. QED
    BY <1>7, <1>8, <1>9, <1>11 DEF on, behind

(* The blocks that a module finds. *)
SeenInRange(c, low, high) ==
    InRange(c, low, high) /\ AskedSection(Grandparent(c), low, high)

(* A module asks the sections on the first address and those behind it. *)
LEMMA ModuleBetween ==
    ASSUME MapInv, NEW K, NEW low \in Addr, NEW high \in Addr, Forward(low, high), NEW m \in Modules
    PROVE  /\ Lists(moduleFindBlocksBetween(K, m, low, high),
                    {c \in BlocksSeen(m) \cap K : SeenInRange(c, low, high)})
           /\ Ascending(moduleFindBlocksBetween(K, m, low, high))
  <1> DEFINE on == moduleFindSectionsOn(m, low)
             behind == moduleFindSectionsBetween(m, Next1(low), high)
             Q == [s \in on \cup ToSet(behind) |-> sectionFindBlocksBetween(K, s, low, high)]
             U == {c \in BlocksSeen(m) \cap K : SeenInRange(c, low, high)}
             own == [c \in AttachedBlocks |-> Grandparent(c)]
             R == Merge([x \in Near(on, behind) |-> Q[x[2]]])
  <1>1. /\ behind # Undefined /\ (low < high => on \cap ToSet(behind) = {})
        /\ IsFiniteSet(on) /\ IsFiniteSet(ToSet(behind))
        /\ on \cup ToSet(behind) = {s \in Sections : parent[s] = m /\ AskedSection(s, low, high)}
    BY SectionsNear
  <1>2. BlocksSeen(m) = {c \in AttachedBlocks : /\ Grandparent(c) \in Sections
                                                /\ parent[Grandparent(c)] = m
                                                /\ extent[Grandparent(c)] # Null}
    BY BlocksByOwner
  <1> HIDE DEF on, behind
  <1>3. ASSUME NEW c \in U
        PROVE  own[c] \in on \cup ToSet(behind)
    BY <1>1, <1>2 DEF SeenInRange
  <1>4. ASSUME NEW s \in on \cup ToSet(behind)
        PROVE  Lists(Q[s], {c \in U : own[c] = s}) /\ Ascending(Q[s])
    <2>1. s \in Sections /\ parent[s] = m /\ AskedSection(s, low, high)
      BY <1>1
    <2>2. extent[s] # Null
      BY <2>1, AskedSectionsHaveExtents
    <2>3. BlocksIn(s) = {c \in AttachedBlocks : Grandparent(c) = s}
      BY <2>1, BlocksByOwner
    <2>4. {c \in U : own[c] = s} = {c \in BlocksIn(s) \cap K : InRange(c, low, high)}
      BY <1>2, <2>1, <2>2, <2>3 DEF SeenInRange
    <2>5. Q[s] = sectionFindBlocksBetween(K, s, low, high)
      OBVIOUS
    <2> HIDE DEF Q, U, own
    <2>6. QED
      BY <2>1, <2>4, <2>5, SectionBetween
  <1>5. Keyed(AttachedBlocks) /\ U \subseteq AttachedBlocks
    BY <1>2, BlockKeys
  <1>6. moduleFindBlocksBetween(K, m, low, high) = R
    <2>1. moduleFindBlocksBetween(K, m, low, high) =
             Merge([x \in Near(on, behind) |-> sectionFindBlocksBetween(K, x[2], low, high)])
      BY <1>1 DEF moduleFindBlocksBetween, MergeNear, Near, on, behind
    <2>2. \A x \in Near(on, behind) : Q[x[2]] = sectionFindBlocksBetween(K, x[2], low, high)
      BY DEF Near
    <2> HIDE DEF Q
    <2>3. QED
      BY <2>1, <2>2
  <1>7. \A c \in U : low < high
    <2>1. \A c \in U : c \in AttachedBlocks /\ Between(c, low, high)
      BY <1>5 DEF SeenInRange, InRange
    <2>2. \A c \in U : low <= startOf(c) /\ startOf(c) < high /\ startOf(c) \in Int
      BY <2>1, BetweenStart, StartIsInt
    <2>3. low \in Int /\ high \in Int
      BY AddrAssumption DEF Addr
    <2> HIDE DEF U
    <2>4. QED
      BY <2>2, <2>3
  <1> HIDE DEF Q, U, own, R
  <1>8. /\ \A s \in on \cap ToSet(behind) : \A c \in U : own[c] # s
        /\ IsFiniteSet(on) /\ IsFiniteSet(ToSet(behind))
    BY <1>1, <1>7
  <1>9. Lists(R, U) /\ Ascending(R)
    BY <1>3, <1>4, <1>5, <1>8, MergedNear DEF R
  <1>10. QED
    BY <1>6, <1>9 DEF U

(* An IR asks all of its modules. *)
LEMMA IRBetween ==
    ASSUME MapInv, NEW K, NEW low \in Addr, NEW high \in Addr, Forward(low, high), NEW i \in IRs
    PROVE  /\ Lists(irFindBlocksBetween(K, i, low, high),
                    {c \in BlocksOfIR(i, BlocksSeen) \cap K : SeenInRange(c, low, high)})
           /\ Ascending(irFindBlocksBetween(K, i, low, high))
  <1> DEFINE C == children[i]
             Q == [m \in C |-> moduleFindBlocksBetween(K, m, low, high)]
             U == {c \in BlocksOfIR(i, BlocksSeen) \cap K : SeenInRange(c, low, high)}
             own == [c \in AttachedBlocks |-> parent[Grandparent(c)]]
  <1>1. BlocksOfIR(i, BlocksSeen) \subseteq AttachedBlocks
    BY BlocksByOwner
  <1>2. \A c \in U : own[c] \in C
    BY <1>1, ModulesOfIR
  <1>3. ASSUME NEW m \in C
        PROVE  Lists(Q[m], {c \in U : own[c] = m}) /\ Ascending(Q[m])
    <2>1. {c \in BlocksOfIR(i, BlocksSeen) : parent[Grandparent(c)] = m} = BlocksSeen(m)
      BY ModulesOfIR
    <2>2. {c \in U : own[c] = m} = {c \in BlocksSeen(m) \cap K : SeenInRange(c, low, high)}
      BY <1>1, <2>1
    <2>3. m \in Modules
      BY ModulesOfIR
    <2>4. Q[m] = moduleFindBlocksBetween(K, m, low, high)
      OBVIOUS
    <2> HIDE DEF Q, U, own, C
    <2>5. QED
      BY <2>2, <2>3, <2>4, ModuleBetween
  <1>4. Keyed(AttachedBlocks) /\ U \subseteq AttachedBlocks
    BY <1>1, BlockKeys
  <1>5. Q = [m \in C |-> Q[m]] /\ IsFiniteSet(C)
    BY ModulesOfIR
  <1>6. irFindBlocksBetween(K, i, low, high) = Merge(Q)
    BY DEF irFindBlocksBetween, MergeOver
  <1> HIDE DEF C, Q, U, own
  <1>7. Answered(Q, C, U, own)
    BY <1>2, <1>3, <1>5 DEF Answered
  <1>8. Lists(Merge(Q), U) /\ Ascending(Merge(Q))
    BY <1>3, <1>4, <1>7, Merged
  <1>9. QED
    BY <1>6, <1>8 DEF U

(* No block that starts in the range, inside its interval, is missed. *)
LEMMA IntervalIsAsked ==
    ASSUME MapInv, NEW c \in AttachedBlocks, NEW low \in Addr, NEW high \in Addr,
           NEW a \in low .. high - 1, IsAt(c, a)
    PROVE  InRange(c, low, high)
  <1> DEFINE b == parent[c]
  <1>1. Between(c, low, high) /\ a \in Addr
    BY AtIsBetween
  <1>2. b \in ByteIntervals /\ Mapped(b) /\ address[b] # Null /\ address[b] <= a /\ a < address[b] + size[b]
    BY DEF AttachedBlocks, IsAt, Covers
  <1>3. startOf(b) = address[b] /\ address[b] \in Addr /\ size[b] \in Addr
    BY <1>2, IntervalStart
  <1>4. AddrLimit \in Nat \ {0}
    BY AddrAssumption
  <1>5. CASE address[b] <= low
    <2>1. Covers(b, low)
      BY <1>2, <1>3, <1>4, <1>5 DEF Covers, Addr
    <2>2. QED
      BY <1>1, <1>2, <2>1 DEF InRange, AskedInterval
  <1>6. CASE ~(address[b] <= low)
    <2>1. Next1(low) <= startOf(b) /\ startOf(b) < high
      BY <1>2, <1>3, <1>4, <1>6, NextAddress DEF Addr
    <2>2. QED
      BY <1>1, <2>1 DEF InRange, AskedInterval
  <1>7. QED
    BY <1>5, <1>6

(* A section with an interval on an address of the range is asked. *)
LEMMA SectionIsAsked ==
    ASSUME MapInv, NEW s \in Sections, NEW b \in children[s], extent[s] # Null,
           NEW low \in Addr, NEW high \in Addr, NEW a \in low .. high - 1, Mapped(b), Covers(b, a)
    PROVE  AskedSection(s, low, high)
  <1>0. AddrLimit \in Nat \ {0}
    BY AddrAssumption
  <1>1. a \in Addr
    BY <1>0 DEF Addr
  <1>2. a \in Points(extent[s])
    <2>1. \A x \in children[s] : address[x] # Null
      BY DEF MapInv, ExtentIsHull
    <2>2. MapsTo(address, size, b, a)
      BY <1>1, AddrAssumption DEF MapsTo, Mapped, Covers, Wraps, Addr
    <2>3. QED
      BY <1>1, <2>1, <2>2, HullContainsMapped
  <1>3. /\ startOf(s) = extent[s].lower /\ extent[s].lower \in Addr /\ extent[s].size \in Addr
        /\ \A x \in Addr : x \in Points(extent[s]) <=>
              /\ extent[s].lower <= x /\ x < extent[s].lower + extent[s].size
              /\ extent[s].lower + extent[s].size < AddrLimit
    BY SectionStart
  <1>4. extent[s].lower <= a /\ a < extent[s].lower + extent[s].size
        /\ extent[s].lower + extent[s].size < AddrLimit
    BY <1>1, <1>2, <1>3
  <1>5. CASE extent[s].lower <= low
    <2>1. low < extent[s].lower + extent[s].size
      BY <1>0, <1>3, <1>4 DEF Addr
    <2>2. low \in Points(extent[s])
      BY <1>3, <1>4, <1>5, <2>1
    <2>3. QED
      BY <2>2 DEF AskedSection
  <1>6. CASE ~(extent[s].lower <= low)
    <2>1. Next1(low) <= startOf(s) /\ startOf(s) < high
      BY <1>0, <1>3, <1>4, <1>6, NextAddress DEF Addr
    <2>2. QED
      BY <2>1 DEF AskedSection
  <1>7. QED
    BY <1>5, <1>6

(* A list of blocks that are in the range, with all those that must be. *)
LEMMA ListIsRange ==
    ASSUME MapInv, NEW q, NEW B, B \subseteq AttachedBlocks, NEW low \in Addr, NEW high \in Addr,
           NEW S, Lists(q, S), Ascending(q), S \subseteq B,
           \A c \in S : Between(c, low, high),
           \A c \in B : \A a \in low .. high - 1 : IsAt(c, a) => c \in S
    PROVE  RangeOf(q, B, low, high)
  <1>1. ToSet(q) = S
    BY DEF Lists
  <1>2. Yields(q, ToSet(q))
    BY <1>1, ListYields
  <1>3. S \subseteq {c \in B : low <= startOf(c) /\ startOf(c) < high}
    BY BetweenStart
  <1>4. QED
    BY <1>1, <1>2, <1>3 DEF RangeOf

(* The answer of an interval for a kind K of blocks is a range of those of K. *)
LEMMA IntervalRange ==
    ASSUME MapInv, NEW K, NEW low \in Addr, NEW high \in Addr, NEW b \in ByteIntervals
    PROVE  RangeOf(intervalFindBlocksBetween(K, b, low, high), children[b] \cap K, low, high)
  <1> DEFINE B == children[b] \cap K
             S == {c \in B : Between(c, low, high)}
             q == intervalFindBlocksBetween(K, b, low, high)
  <1>1. B \subseteq AttachedBlocks /\ S \subseteq B
    BY Owners
  <1>2. Lists(q, S) /\ Ascending(q)
    BY IntervalBetween
  <1>3. \A c \in B : \A a \in low .. high - 1 : IsAt(c, a) => c \in S
    BY <1>1, AtIsBetween
  <1>4. \A c \in S : Between(c, low, high)
    OBVIOUS
  <1> HIDE DEF B, S, q
  <1>5. RangeOf(q, B, low, high)
    BY <1>1, <1>2, <1>3, <1>4, ListIsRange
  <1>6. QED
    BY <1>5 DEF B, q

(* The same for a section. *)
LEMMA SectionRange ==
    ASSUME MapInv, NEW K, NEW low \in Addr, NEW high \in Addr, NEW s \in Sections
    PROVE  RangeOf(sectionFindBlocksBetween(K, s, low, high), BlocksIn(s) \cap K, low, high)
  <1> DEFINE B == BlocksIn(s) \cap K
             S == {c \in B : InRange(c, low, high)}
             q == sectionFindBlocksBetween(K, s, low, high)
  <1>1. B \subseteq AttachedBlocks /\ S \subseteq B
    BY BlocksByOwner
  <1>2. Lists(q, S) /\ Ascending(q)
    BY SectionBetween
  <1>3. \A c \in B : \A a \in low .. high - 1 : IsAt(c, a) => c \in S
    BY <1>1, IntervalIsAsked
  <1>4. \A c \in S : Between(c, low, high)
    BY DEF InRange
  <1> HIDE DEF B, S, q
  <1>5. RangeOf(q, B, low, high)
    BY <1>1, <1>2, <1>3, <1>4, ListIsRange
  <1>6. QED
    BY <1>5 DEF B, q

(* No block of a section with an extent is missed by a module. *)
LEMMA SeenBlocksAreAsked ==
    ASSUME MapInv, NEW low \in Addr, NEW high \in Addr, NEW m \in Modules, NEW c \in BlocksSeen(m),
           NEW a \in low .. high - 1, IsAt(c, a)
    PROVE  SeenInRange(c, low, high)
  <1>1. c \in AttachedBlocks /\ Grandparent(c) \in Sections /\ extent[Grandparent(c)] # Null
    BY BlocksByOwner
  <1>2. parent[c] \in children[Grandparent(c)]
    BY <1>1, Owners DEF Grandparent
  <1>3. Mapped(parent[c]) /\ Covers(parent[c], a)
    BY DEF IsAt
  <1>4. InRange(c, low, high)
    BY <1>1, IntervalIsAsked
  <1>5. AskedSection(Grandparent(c), low, high)
    BY <1>1, <1>2, <1>3, SectionIsAsked
  <1>6. QED
    BY <1>4, <1>5 DEF SeenInRange

(* The same for a module. *)
LEMMA ModuleRange ==
    ASSUME MapInv, NEW K, NEW low \in Addr, NEW high \in Addr, Forward(low, high), NEW m \in Modules
    PROVE  RangeOf(moduleFindBlocksBetween(K, m, low, high), BlocksSeen(m) \cap K, low, high)
  <1> DEFINE B == BlocksSeen(m) \cap K
             S == {c \in B : SeenInRange(c, low, high)}
             q == moduleFindBlocksBetween(K, m, low, high)
  <1>1. B \subseteq AttachedBlocks /\ S \subseteq B
    BY BlocksByOwner
  <1>2. Lists(q, S) /\ Ascending(q)
    BY ModuleBetween
  <1>3. \A c \in B : \A a \in low .. high - 1 : IsAt(c, a) => c \in S
    BY SeenBlocksAreAsked
  <1>4. \A c \in S : Between(c, low, high)
    BY DEF InRange, SeenInRange
  <1> HIDE DEF B, S, q
  <1>5. RangeOf(q, B, low, high)
    BY <1>1, <1>2, <1>3, <1>4, ListIsRange
  <1>6. QED
    BY <1>5 DEF B, q

(* The same for an IR. *)
LEMMA IRRange ==
    ASSUME MapInv, NEW K, NEW low \in Addr, NEW high \in Addr, Forward(low, high), NEW i \in IRs
    PROVE  RangeOf(irFindBlocksBetween(K, i, low, high), BlocksOfIR(i, BlocksSeen) \cap K, low, high)
  <1> DEFINE A == BlocksOfIR(i, BlocksSeen)
             B == A \cap K
             S == {c \in B : SeenInRange(c, low, high)}
             q == irFindBlocksBetween(K, i, low, high)
  <1>1. A \subseteq AttachedBlocks
    BY BlocksByOwner
  <1>2. \A c \in A : \E m \in Modules : c \in BlocksSeen(m)
    BY Owners DEF BlocksOfIR
  <1>3. Lists(q, S) /\ Ascending(q)
    BY IRBetween
  <1> HIDE DEF A
  <1>4. \A c \in B : \A a \in low .. high - 1 : IsAt(c, a) => c \in S
    BY <1>2, SeenBlocksAreAsked
  <1>5. B \subseteq AttachedBlocks /\ S \subseteq B /\ \A c \in S : Between(c, low, high)
    BY <1>1 DEF InRange, SeenInRange
  <1> HIDE DEF B, S, q
  <1>6. RangeOf(q, B, low, high)
    BY <1>3, <1>4, <1>5, ListIsRange
  <1>7. QED
    BY <1>6 DEF A, B, q

(* The three queries of a family. *)
LEMMA FamilyRange ==
    ASSUME NEW all, NEW code, NEW data, NEW B, B \subseteq Blocks, NEW low, NEW high,
           RangeOf(all, B \cap Blocks, low, high), RangeOf(code, B \cap CodeBlocks, low, high),
           RangeOf(data, B \cap DataBlocks, low, high)
    PROVE  FamilyRangeOf(all, code, data, B, low, high)
  <1>1. B \cap Blocks = B
    OBVIOUS
  <1>2. QED
    BY <1>1 DEF FamilyRangeOf

(* So the property holds wherever the maps are right. *)
LEMMA FindBlocksBetweenHolds ==
    ASSUME MapInv
    PROVE  FindBlocksBetweenExact
  <1>1. ASSUME NEW low \in Addr, NEW high \in Addr, NEW b \in ByteIntervals
        PROVE  FamilyRangeOf(intervalFindBlocksBetween(Blocks, b, low, high),
                             intervalFindCodeBlocksBetween(b, low, high),
                             intervalFindDataBlocksBetween(b, low, high), children[b], low, high)
    <2>1. children[b] \subseteq Blocks
      BY TreeShape
    <2>2. QED
      BY <2>1, IntervalRange, FamilyRange
      DEF intervalFindCodeBlocksBetween, intervalFindDataBlocksBetween
  <1>2. ASSUME NEW low \in Addr, NEW high \in Addr, NEW s \in Sections
        PROVE  FamilyRangeOf(sectionFindBlocksBetween(Blocks, s, low, high),
                             sectionFindCodeBlocksBetween(s, low, high),
                             sectionFindDataBlocksBetween(s, low, high), BlocksIn(s), low, high)
    <2>1. BlocksIn(s) \subseteq Blocks
      BY BlocksByOwner DEF AttachedBlocks
    <2>2. QED
      BY <2>1, SectionRange, FamilyRange
      DEF sectionFindCodeBlocksBetween, sectionFindDataBlocksBetween
  <1>3. ASSUME NEW low \in Addr, NEW high \in Addr, Forward(low, high), NEW m \in Modules
        PROVE  FamilyRangeOf(moduleFindBlocksBetween(Blocks, m, low, high),
                             moduleFindCodeBlocksBetween(m, low, high),
                             moduleFindDataBlocksBetween(m, low, high), BlocksSeen(m), low, high)
    <2>1. BlocksSeen(m) \subseteq Blocks
      BY BlocksByOwner DEF AttachedBlocks
    <2>2. QED
      BY <1>3, <2>1, ModuleRange, FamilyRange
      DEF moduleFindCodeBlocksBetween, moduleFindDataBlocksBetween
  <1>4. ASSUME NEW low \in Addr, NEW high \in Addr, Forward(low, high), NEW i \in IRs
        PROVE  FamilyRangeOf(irFindBlocksBetween(Blocks, i, low, high),
                             irFindCodeBlocksBetween(i, low, high),
                             irFindDataBlocksBetween(i, low, high),
                             BlocksOfIR(i, BlocksSeen), low, high)
    <2> DEFINE B == BlocksOfIR(i, BlocksSeen)
    <2>1. B \subseteq Blocks
      BY BlocksByOwner DEF AttachedBlocks
    <2>2. ASSUME NEW K
          PROVE  RangeOf(irFindBlocksBetween(K, i, low, high), B \cap K, low, high)
      BY <1>4, IRRange
    <2> HIDE DEF B
    <2>3. FamilyRangeOf(irFindBlocksBetween(Blocks, i, low, high),
                        irFindCodeBlocksBetween(i, low, high),
                        irFindDataBlocksBetween(i, low, high), B, low, high)
      BY <2>1, <2>2, FamilyRange DEF irFindCodeBlocksBetween, irFindDataBlocksBetween
    <2>4. QED
      BY <2>3 DEF B
  <1>5. QED
    BY <1>1, <1>2, <1>3, <1>4, Zenon DEF FindBlocksBetweenExact

-----------------------------------------------------------------------------

(* Iterations over blocks.  They list every block; in the order of addresses if
   that is the order of offsets. *)
ListsInOrder(q, B) == Lists(q, B) /\ (InOrder(B) => Ascending(q))

(* A list that is ascending where it can be meets the blocks as documented. *)
LEMMA MeetsList ==
    ASSUME NEW q, NEW B, ListsInOrder(q, B)
    PROVE  Meets(q, B)
  <1>1. CASE InOrder(B)
    BY <1>1, ListYields DEF ListsInOrder, Meets
  <1>2. CASE ~InOrder(B)
    BY <1>2 DEF ListsInOrder, Lists, Meets
  <1>3. QED
    BY <1>1, <1>2

(* An iteration over a container merges those over its children. *)
IteratesOver(Q, C, U, own) ==
    /\ U \subseteq AttachedBlocks /\ IsFiniteSet(C) /\ Q = [c \in C |-> Q[c]]
    /\ \A x \in U : own[x] \in C
    /\ \A c \in C : ListsInOrder(Q[c], {x \in U : own[x] = c})

LEMMA MergedInOrder ==
    ASSUME MapInv, NEW U, NEW C, NEW Q, NEW own, IteratesOver(Q, C, U, own)
    PROVE  ListsInOrder(Merge(Q), U)
  <1>1. Answered(Q, C, U, own) /\ U \subseteq AttachedBlocks
    BY DEF Answered, ListsInOrder, IteratesOver
  <1>2. Keyed(AttachedBlocks)
    BY BlockKeys
  <1>3. Lists(Merge(Q), U) /\ ((\A c \in C : Ascending(Q[c])) => Ascending(Merge(Q)))
    BY <1>1, <1>2, Merged
  <1>4. ASSUME InOrder(U), NEW c \in C
        PROVE  Ascending(Q[c])
    <2>1. InOrder({x \in U : own[x] = c})
      BY <1>4 DEF InOrder
    <2>2. QED
      BY <2>1 DEF ListsInOrder, IteratesOver
  <1>5. QED
    BY <1>3, <1>4 DEF ListsInOrder

(* An interval iterates over its blocks by offset. *)
LEMMA IntervalIteration ==
    ASSUME MapInv, NEW K, NEW b \in ByteIntervals
    PROVE  ListsInOrder(intervalBlocks(K, b), children[b] \cap K)
  <1> DEFINE S == children[b] \cap K
             q == intervalBlocks(K, b)
  <1>1. S \subseteq children[b] /\ q = InOffsetOrder(S)
    BY DEF intervalBlocks
  <1>2. \A c \in S : parent[c] = b
    BY BlockStart
  <1> HIDE DEF S, q
  <1>3. Lists(q, S) /\ (address[b] # Null /\ (\A c \in S : address[b] + Offset[c] < AddrLimit)
                           => Ascending(q))
    BY <1>1, OffsetOrder
  <1>4. CASE S = {}
    <2>1. DOMAIN q = {}
      BY <1>3, <1>4 DEF Lists
    <2>2. QED
      BY <1>3, <2>1 DEF ListsInOrder, Ascending, S, q
  <1>5. CASE S # {}
    <2>1. InOrder(S) => address[b] # Null /\ \A c \in S : address[b] + Offset[c] < AddrLimit
      BY <1>2, <1>5 DEF InOrder
    <2>2. QED
      BY <1>3, <2>1 DEF ListsInOrder, S, q
  <1>6. QED
    BY <1>4, <1>5

(* A section merges the iterations over its intervals. *)
LEMMA SectionIteration ==
    ASSUME MapInv, NEW K, NEW s \in Sections
    PROVE  ListsInOrder(sectionBlocks(K, s), BlocksIn(s) \cap K)
  <1> DEFINE C == children[s]
             Q == [b \in C |-> intervalBlocks(K, b)]
             U == BlocksIn(s) \cap K
             own == [c \in AttachedBlocks |-> parent[c]]
  <1>1. C = {b \in ByteIntervals : parent[b] = s}
    BY Owners
  <1>2. IsFiniteSet(C)
    BY TreeShape, KindsDisjoint
  <1>3. BlocksIn(s) = {c \in AttachedBlocks : Grandparent(c) = s}
    BY BlocksByOwner
  <1>4. \A c \in U : own[c] \in C
    BY <1>1, <1>3 DEF Grandparent, AttachedBlocks
  <1>5. ASSUME NEW b \in C
        PROVE  ListsInOrder(Q[b], {c \in U : own[c] = b})
    <2>1. b \in ByteIntervals /\ parent[b] = s
      BY <1>1
    <2>2. children[b] = {c \in AttachedBlocks : parent[c] = b}
      BY <2>1, Owners
    <2>3. {c \in U : own[c] = b} = children[b] \cap K
      BY <1>3, <2>1, <2>2 DEF Grandparent
    <2>4. Q[b] = intervalBlocks(K, b)
      OBVIOUS
    <2> HIDE DEF Q, U, own, C
    <2>5. QED
      BY <2>1, <2>3, <2>4, IntervalIteration
  <1>6. U \subseteq AttachedBlocks /\ Q = [b \in C |-> Q[b]]
    BY <1>3
  <1>7. sectionBlocks(K, s) = Merge(Q)
    BY DEF sectionBlocks, MergeOver
  <1> HIDE DEF C, Q, U, own
  <1>8. IteratesOver(Q, C, U, own)
    BY <1>2, <1>4, <1>5, <1>6 DEF IteratesOver
  <1>9. ListsInOrder(Merge(Q), U)
    BY <1>8, MergedInOrder
  <1>10. QED
    BY <1>7, <1>9 DEF U

(* A module merges the iterations over its sections. *)
LEMMA ModuleIteration ==
    ASSUME MapInv, NEW K, NEW m \in Modules
    PROVE  ListsInOrder(moduleBlocks(K, m), BlocksBelow(m) \cap K)
  <1> DEFINE C == children[m] \cap Sections
             Q == [s \in C |-> sectionBlocks(K, s)]
             U == BlocksBelow(m) \cap K
             own == [c \in AttachedBlocks |-> Grandparent(c)]
  <1>1. C = {s \in Sections : parent[s] = m}
    BY Owners
  <1>2. IsFiniteSet(C)
    BY KindsDisjoint, QueryAssumption, FS_Subset
  <1>3. BlocksBelow(m) = {c \in AttachedBlocks : /\ Grandparent(c) \in Sections
                                                 /\ parent[Grandparent(c)] = m}
    BY BlocksByOwner
  <1>4. \A c \in U : own[c] \in C
    BY <1>1, <1>3
  <1>5. ASSUME NEW s \in C
        PROVE  ListsInOrder(Q[s], {c \in U : own[c] = s})
    <2>1. s \in Sections /\ parent[s] = m
      BY <1>1
    <2>2. BlocksIn(s) = {c \in AttachedBlocks : Grandparent(c) = s}
      BY <2>1, BlocksByOwner
    <2>3. {c \in U : own[c] = s} = BlocksIn(s) \cap K
      BY <1>3, <2>1, <2>2
    <2>4. Q[s] = sectionBlocks(K, s)
      OBVIOUS
    <2> HIDE DEF Q, U, own, C
    <2>5. QED
      BY <2>1, <2>3, <2>4, SectionIteration
  <1>6. U \subseteq AttachedBlocks /\ Q = [s \in C |-> Q[s]]
    BY <1>3
  <1>7. moduleBlocks(K, m) = Merge(Q)
    BY DEF moduleBlocks, MergeOver
  <1> HIDE DEF C, Q, U, own
  <1>8. IteratesOver(Q, C, U, own)
    BY <1>2, <1>4, <1>5, <1>6 DEF IteratesOver
  <1>9. ListsInOrder(Merge(Q), U)
    BY <1>8, MergedInOrder
  <1>10. QED
    BY <1>7, <1>9 DEF U

(* An IR merges the iterations over its modules. *)
LEMMA IRIteration ==
    ASSUME MapInv, NEW K, NEW i \in IRs
    PROVE  ListsInOrder(irBlocks(K, i), BlocksOfIR(i, BlocksBelow) \cap K)
  <1> DEFINE C == children[i]
             Q == [m \in C |-> moduleBlocks(K, m)]
             U == BlocksOfIR(i, BlocksBelow) \cap K
             own == [c \in AttachedBlocks |-> parent[Grandparent(c)]]
  <1>1. BlocksOfIR(i, BlocksBelow) \subseteq AttachedBlocks
    BY BlocksByOwner
  <1>2. \A c \in U : own[c] \in C
    BY <1>1, ModulesOfIR
  <1>3. ASSUME NEW m \in C
        PROVE  ListsInOrder(Q[m], {c \in U : own[c] = m})
    <2>1. {c \in BlocksOfIR(i, BlocksBelow) : parent[Grandparent(c)] = m} = BlocksBelow(m)
      BY ModulesOfIR
    <2>2. {c \in U : own[c] = m} = BlocksBelow(m) \cap K
      BY <1>1, <2>1
    <2>3. m \in Modules
      BY ModulesOfIR
    <2>4. Q[m] = moduleBlocks(K, m)
      OBVIOUS
    <2> HIDE DEF Q, U, own, C
    <2>5. QED
      BY <2>2, <2>3, <2>4, ModuleIteration
  <1>4. U \subseteq AttachedBlocks /\ Q = [m \in C |-> Q[m]]
    BY <1>1
  <1>5. IsFiniteSet(C)
    BY ModulesOfIR
  <1>6. irBlocks(K, i) = Merge(Q)
    BY DEF irBlocks, MergeOver
  <1> HIDE DEF C, Q, U, own
  <1>7. IteratesOver(Q, C, U, own)
    BY <1>2, <1>3, <1>4, <1>5 DEF IteratesOver
  <1>8. ListsInOrder(Merge(Q), U)
    BY <1>7, MergedInOrder
  <1>9. QED
    BY <1>6, <1>8 DEF U

(* The iterations over all blocks, code blocks and data blocks. *)
FamilyMeetsAll(all, code, data, B) ==
    Meets(all, B) /\ Meets(code, B \cap CodeBlocks) /\ Meets(data, B \cap DataBlocks)

(* The three iterations of a family. *)
LEMMA FamilyIteration ==
    ASSUME NEW all, NEW code, NEW data, NEW B, B \subseteq Blocks,
           ListsInOrder(all, B \cap Blocks), ListsInOrder(code, B \cap CodeBlocks),
           ListsInOrder(data, B \cap DataBlocks)
    PROVE  FamilyMeetsAll(all, code, data, B)
  <1>1. B \cap Blocks = B
    OBVIOUS
  <1>2. QED
    BY <1>1, MeetsList DEF FamilyMeetsAll

(* So the property holds wherever the maps are right. *)
LEMMA BlockIterationHolds ==
    ASSUME MapInv
    PROVE  BlockIterationComplete
  <1>1. ASSUME NEW b \in ByteIntervals
        PROVE  FamilyMeetsAll(intervalBlocks(Blocks, b), intervalCodeBlocks(b),
                              intervalDataBlocks(b), children[b])
    <2>1. children[b] \subseteq Blocks
      BY TreeShape
    <2>2. QED
      BY <2>1, IntervalIteration, FamilyIteration DEF intervalCodeBlocks, intervalDataBlocks
  <1>2. ASSUME NEW s \in Sections
        PROVE  FamilyMeetsAll(sectionBlocks(Blocks, s), sectionCodeBlocks(s),
                              sectionDataBlocks(s), BlocksIn(s))
    <2>1. BlocksIn(s) \subseteq Blocks
      BY BlocksByOwner DEF AttachedBlocks
    <2>2. QED
      BY <2>1, SectionIteration, FamilyIteration DEF sectionCodeBlocks, sectionDataBlocks
  <1>3. ASSUME NEW m \in Modules
        PROVE  FamilyMeetsAll(moduleBlocks(Blocks, m), moduleCodeBlocks(m),
                              moduleDataBlocks(m), BlocksBelow(m))
    <2>1. BlocksBelow(m) \subseteq Blocks
      BY BlocksByOwner DEF AttachedBlocks
    <2>2. QED
      BY <2>1, ModuleIteration, FamilyIteration DEF moduleCodeBlocks, moduleDataBlocks
  <1>4. ASSUME NEW i \in IRs
        PROVE  FamilyMeetsAll(irBlocks(Blocks, i), irCodeBlocks(i), irDataBlocks(i),
                              BlocksOfIR(i, BlocksBelow))
    <2> DEFINE B == BlocksOfIR(i, BlocksBelow)
    <2>1. B \subseteq Blocks
      BY BlocksByOwner DEF AttachedBlocks
    <2>2. ASSUME NEW K
          PROVE  ListsInOrder(irBlocks(K, i), B \cap K)
      BY IRIteration
    <2> HIDE DEF B
    <2>3. FamilyMeetsAll(irBlocks(Blocks, i), irCodeBlocks(i), irDataBlocks(i), B)
      BY <2>1, <2>2, FamilyIteration DEF irCodeBlocks, irDataBlocks
    <2>4. QED
      BY <2>3 DEF B
  <1>5. QED
    BY <1>1, <1>2, <1>3, <1>4, Zenon DEF BlockIterationComplete, FamilyMeetsAll

-----------------------------------------------------------------------------

(* Queries for sections and byte intervals. *)
Ordered(q, S) == Lists(q, S) /\ Ascending(q)

(* Child c answers with the part of U that it owns, in order. *)
OrderedParts(Q, C, U, own) ==
    /\ IsFiniteSet(C) /\ Q = [c \in C |-> Q[c]]
    /\ \A x \in U : own[x] \in C
    /\ \A c \in C : Ordered(Q[c], {x \in U : own[x] = c})

(* Merging ordered answers. *)
LEMMA MergedOrdered ==
    ASSUME NEW X, Keyed(X), NEW U, U \subseteq X, NEW C, NEW Q, NEW own, OrderedParts(Q, C, U, own)
    PROVE  Ordered(Merge(Q), U)
  <1>1. Answered(Q, C, U, own) /\ \A c \in C : Ascending(Q[c])
    BY DEF Answered, OrderedParts, Ordered
  <1>2. QED
    BY <1>1, Merged DEF Ordered

(* The sections of an IR. *)
SectionsOf(i) == {s \in Sections : parent[s] \in children[i]}

(* An IR lists those of its sections that are in W. *)
LEMMA SectionsInIR ==
    ASSUME MapInv, NEW i \in IRs, NEW W, NEW Q,
           Q = [m \in children[i] |-> InAddressOrder((children[m] \cap Sections) \cap W)]
    PROVE  Ordered(Merge(Q), SectionsOf(i) \cap W)
  <1> DEFINE C == children[i]
             U == SectionsOf(i) \cap W
             own == [s \in Sections |-> parent[s]]
  <1>1. IsFiniteSet(C) /\ \A m \in C : m \in Modules
    BY ModulesOfIR
  <1>2. U \subseteq Sections /\ \A s \in U : own[s] \in C
    BY DEF SectionsOf
  <1>3. ASSUME NEW m \in C
        PROVE  Ordered(Q[m], {s \in U : own[s] = m})
    <2> DEFINE V == {s \in U : own[s] = m}
    <2>1. children[m] \cap Sections = {s \in Sections : parent[s] = m}
      BY <1>1, Owners
    <2>2. (children[m] \cap Sections) \cap W = V /\ V \subseteq Sections
      BY <2>1 DEF SectionsOf
    <2>3. Q[m] = InAddressOrder(V)
      BY <2>2
    <2> HIDE DEF V
    <2>4. Ordered(InAddressOrder(V), V)
      BY <2>2, AddressOrder DEF Ordered
    <2>5. QED
      BY <2>3, <2>4 DEF V
  <1>4. Q = [m \in C |-> Q[m]]
    OBVIOUS
  <1>5. Keyed(Sections)
    BY ContainerKeys
  <1> HIDE DEF C, U, own
  <1>6. OrderedParts(Q, C, U, own)
    BY <1>1, <1>2, <1>3, <1>4 DEF OrderedParts
  <1>7. Ordered(Merge(Q), U)
    BY <1>2, <1>5, <1>6, MergedOrdered
  <1>8. QED
    BY <1>7 DEF U

(* The queries of an IR for sections. *)
LEMMA SectionQueries ==
    ASSUME MapInv, NEW i \in IRs
    PROVE  LET S == SectionsOf(i)
               T == {s \in S : extent[s] # Null}
           IN  /\ Ordered(irSections(i), S)
               /\ \A a \in Addr :
                    /\ Ordered(irFindSectionsOn(i, a), {s \in T : a \in Points(extent[s])})
                    /\ Ordered(irFindSectionsAt(i, a), {s \in T : extent[s].lower = a})
               /\ \A low, high \in Addr : low <= high =>
                    Ordered(irFindSectionsBetween(i, low, high),
                            {s \in T : low <= extent[s].lower /\ extent[s].lower < high})
  <1> DEFINE S == SectionsOf(i)
             T == {s \in S : extent[s] # Null}
  <1>1. \A s \in Sections : startOf(s) \in Int
    BY StartIsInt
  <1>2. ASSUME NEW s \in Sections
        PROVE  /\ extent[s] = Null => startOf(s) = -1 /\ Points(extent[s]) = {}
               /\ extent[s] # Null => startOf(s) = extent[s].lower
    BY SectionStart
  <1>3. S \subseteq Sections /\ Addr \subseteq Nat
    BY AddrAssumption DEF SectionsOf, Addr
  <1>4. Ordered(irSections(i), S)
    <2> DEFINE Q == [m \in children[i] |-> InAddressOrder((children[m] \cap Sections) \cap Sections)]
    <2>1. irSections(i) = Merge([m \in children[i] |-> InAddressOrder(children[m] \cap Sections)])
      BY DEF irSections, MergeOver, moduleSections
    <2>2. \A m \in children[i] : (children[m] \cap Sections) \cap Sections = children[m] \cap Sections
      OBVIOUS
    <2>3. irSections(i) = Merge(Q)
      BY <2>1, <2>2
    <2>4. S \cap Sections = S
      BY <1>3
    <2>5. Ordered(Merge(Q), S \cap Sections)
      BY SectionsInIR
    <2>6. QED
      BY <2>3, <2>4, <2>5
  <1>5. ASSUME NEW a \in Addr
        PROVE  Ordered(irFindSectionsOn(i, a), {s \in T : a \in Points(extent[s])})
    <2> DEFINE W == {s \in Sections : a \in Points(extent[s])}
               Q == [m \in children[i] |-> InAddressOrder((children[m] \cap Sections) \cap W)]
    <2>1. irFindSectionsOn(i, a) = Merge([m \in children[i] |-> InAddressOrder(moduleFindSectionsOn(m, a))])
      BY DEF irFindSectionsOn, MergeOver
    <2>2. \A m \in children[i] : moduleFindSectionsOn(m, a) = (children[m] \cap Sections) \cap W
      <3>1. \A m \in children[i] : m \in Modules
        BY ModulesOfIR
      <3>2. \A m \in children[i] : moduleFindSectionsOn(m, a)
                = {s \in children[m] \cap Sections : a \in Points(extent[s])}
        BY <3>1 DEF MapInv, ModuleMapExact
      <3>3. QED
        BY <3>2
    <2>3. irFindSectionsOn(i, a) = Merge(Q)
      BY <2>1, <2>2
    <2>4. S \cap W = {s \in T : a \in Points(extent[s])}
      BY <1>2, <1>3
    <2> HIDE DEF W
    <2>5. Ordered(Merge(Q), S \cap W)
      BY SectionsInIR
    <2>6. QED
      BY <2>3, <2>4, <2>5
  <1>6. ASSUME NEW a \in Addr
        PROVE  Ordered(irFindSectionsAt(i, a), {s \in T : extent[s].lower = a})
    <2> DEFINE W == {s \in Sections : startOf(s) = a}
               Q == [m \in children[i] |-> InAddressOrder((children[m] \cap Sections) \cap W)]
    <2>1. irFindSectionsAt(i, a) = Merge([m \in children[i] |->
              InAddressOrder({s \in children[m] \cap Sections : startOf(s) = a})])
      BY DEF irFindSectionsAt, MergeOver, moduleFindSectionsAt
    <2>2. \A m \in children[i] : {s \in children[m] \cap Sections : startOf(s) = a}
                                    = (children[m] \cap Sections) \cap W
      OBVIOUS
    <2>3. irFindSectionsAt(i, a) = Merge(Q)
      BY <2>1, <2>2
    <2>4. S \cap W = {s \in T : extent[s].lower = a}
      <3>1. a # -1
        BY <1>3
      <3>2. QED
        BY <1>2, <1>3, <3>1
    <2> HIDE DEF W
    <2>5. Ordered(Merge(Q), S \cap W)
      BY SectionsInIR
    <2>6. QED
      BY <2>3, <2>4, <2>5
  <1>7. ASSUME NEW low \in Addr, NEW high \in Addr, low <= high
        PROVE  Ordered(irFindSectionsBetween(i, low, high),
                       {s \in T : low <= extent[s].lower /\ extent[s].lower < high})
    <2> DEFINE In(s) == low <= startOf(s) /\ startOf(s) < high
               W == {s \in Sections : In(s)}
               Q == [m \in children[i] |-> InAddressOrder((children[m] \cap Sections) \cap W)]
    <2>1. low \in Int /\ high \in Int /\ 0 <= low
      BY <1>3
    <2>2. \A m \in children[i] : moduleFindSectionsBetween(m, low, high)
              = InAddressOrder({s \in children[m] \cap Sections : In(s)})
      BY <1>1, <1>7, <2>1 DEF moduleFindSectionsBetween
    <2>3. irFindSectionsBetween(i, low, high) =
              Merge([m \in children[i] |-> moduleFindSectionsBetween(m, low, high)])
      BY DEF irFindSectionsBetween, MergeOver
    <2>4. S \cap W = {s \in T : low <= extent[s].lower /\ extent[s].lower < high}
      <3>1. \A s \in Sections : In(s) => startOf(s) # -1
        BY <1>1, <2>1
      <3>2. QED
        BY <1>2, <1>3, <3>1
    <2> HIDE DEF In
    <2>5. \A m \in children[i] : {s \in children[m] \cap Sections : In(s)}
                                    = (children[m] \cap Sections) \cap W
      OBVIOUS
    <2>6. irFindSectionsBetween(i, low, high) = Merge(Q)
      BY <2>2, <2>3, <2>5
    <2> HIDE DEF W
    <2>7. Ordered(Merge(Q), S \cap W)
      BY SectionsInIR
    <2>8. QED
      BY <2>4, <2>6, <2>7
  <1>8. QED
    BY <1>4, <1>5, <1>6, <1>7

(* The sections D of a module list those of their byte intervals that are in W. *)
IntervalsFrom(D, W) == {b \in ByteIntervals : parent[b] \in D} \cap W

(* One section lists its intervals that are in W. *)
LEMMA SectionIntervals ==
    ASSUME MapInv, NEW s \in Sections, NEW W
    PROVE  Ordered(InAddressOrder(children[s] \cap W), IntervalsFrom({s}, W))
  <1>1. children[s] = {b \in ByteIntervals : parent[b] = s}
    BY Owners
  <1>2. children[s] \cap W = IntervalsFrom({s}, W) /\ children[s] \cap W \subseteq ByteIntervals
    BY <1>1 DEF IntervalsFrom
  <1>3. QED
    BY <1>2, AddressOrder DEF Ordered

(* A module merges what the sections it asks list. *)
LEMMA IntervalsInSections ==
    ASSUME MapInv, NEW D, D \subseteq Sections, NEW W, NEW Q,
           Q = [s \in D |-> InAddressOrder(children[s] \cap W)]
    PROVE  Ordered(Merge(Q), IntervalsFrom(D, W))
  <1> DEFINE U == IntervalsFrom(D, W)
             own == [b \in ByteIntervals |-> parent[b]]
  <1>1. IsFiniteSet(D)
    BY KindsDisjoint, QueryAssumption, FS_Subset
  <1>2. U \subseteq ByteIntervals /\ \A b \in U : own[b] \in D
    BY DEF IntervalsFrom
  <1>3. ASSUME NEW s \in D
        PROVE  Ordered(Q[s], {b \in U : own[b] = s})
    <2>1. {b \in U : own[b] = s} = IntervalsFrom({s}, W)
      BY DEF IntervalsFrom
    <2>2. Q[s] = InAddressOrder(children[s] \cap W)
      OBVIOUS
    <2>3. QED
      BY <2>1, <2>2, SectionIntervals
  <1>4. Q = [s \in D |-> Q[s]]
    OBVIOUS
  <1>5. Keyed(ByteIntervals)
    BY ContainerKeys
  <1> HIDE DEF U, own
  <1>6. OrderedParts(Q, D, U, own)
    BY <1>1, <1>2, <1>3, <1>4 DEF OrderedParts
  <1>7. Ordered(Merge(Q), U)
    BY <1>2, <1>5, <1>6, MergedOrdered
  <1>8. QED
    BY <1>7 DEF U

(* The queries of a module for byte intervals. *)
LEMMA ModuleIntervals ==
    ASSUME MapInv, NEW m \in Modules
    PROVE  Ordered(moduleByteIntervals(m), IntervalsOf(m))
  <1> DEFINE D == children[m] \cap Sections
             Q == [s \in D |-> InAddressOrder(children[s] \cap ByteIntervals)]
  <1>1. moduleByteIntervals(m) = Merge([s \in D |-> InAddressOrder(children[s])])
    BY DEF moduleByteIntervals, MergeOver, sectionByteIntervals
  <1>2. \A s \in D : children[s] = {b \in ByteIntervals : parent[b] = s}
    BY Owners
  <1>3. \A s \in D : children[s] \cap ByteIntervals = children[s]
    BY <1>2
  <1>4. IntervalsFrom(D, ByteIntervals) = IntervalsOf(m)
    BY <1>2 DEF IntervalsOf, IntervalsFrom
  <1>5. moduleByteIntervals(m) = Merge(Q)
    BY <1>1, <1>3
  <1>6. D \subseteq Sections
    OBVIOUS
  <1> HIDE DEF D
  <1>7. Ordered(Merge(Q), IntervalsFrom(D, ByteIntervals))
    BY <1>6, IntervalsInSections
  <1>8. QED
    BY <1>4, <1>5, <1>7

(* The queries of a module for byte intervals on or at an address. *)
LEMMA ModuleIntervalsOn ==
    ASSUME MapInv, NEW m \in Modules, NEW a \in Addr
    PROVE  /\ Ordered(moduleByteIntervalsOn(m, a),
                      IntervalsFrom(moduleFindSectionsOn(m, a),
                                    {b \in ByteIntervals : Mapped(b) /\ Covers(b, a)}))
           /\ Ordered(moduleFindByteIntervalsAt(m, a),
                      IntervalsFrom(moduleFindSectionsOn(m, a), {b \in ByteIntervals : address[b] = a}))
  <1> DEFINE D == moduleFindSectionsOn(m, a)
             V == {b \in ByteIntervals : Mapped(b) /\ Covers(b, a)}
             W == {b \in ByteIntervals : address[b] = a}
             P == [s \in D |-> InAddressOrder(children[s] \cap V)]
             Q == [s \in D |-> InAddressOrder(children[s] \cap W)]
  <1>1. D \subseteq Sections
    BY SectionsOnAddress
  <1>2. \A s \in D : children[s] \subseteq ByteIntervals
    BY <1>1, Owners
  <1>3. \A s \in D : sectionFindByteIntervalsOn(s, a) = children[s] \cap V
    <2>1. \A s \in D : sectionFindByteIntervalsOn(s, a) = {b \in children[s] : Covers(b, a) /\ ~Wraps(b)}
      BY <1>1 DEF MapInv, SectionMapExact
    <2>2. \A b : Covers(b, a) => address[b] # Null
      BY DEF Covers
    <2>3. QED
      BY <1>2, <2>1, <2>2 DEF Mapped
  <1>4. \A s \in D : sectionFindByteIntervalsAt(s, a) = children[s] \cap W
    BY <1>2 DEF sectionFindByteIntervalsAt
  <1>5. moduleByteIntervalsOn(m, a) = Merge(P)
    <2>1. moduleByteIntervalsOn(m, a) = Merge([s \in D |-> InAddressOrder(sectionFindByteIntervalsOn(s, a))])
      BY DEF moduleByteIntervalsOn, MergeOver
    <2> HIDE DEF D, V
    <2>2. QED
      BY <1>3, <2>1
  <1>6. moduleFindByteIntervalsAt(m, a) = Merge(Q)
    <2>1. moduleFindByteIntervalsAt(m, a) = Merge([s \in D |-> InAddressOrder(sectionFindByteIntervalsAt(s, a))])
      BY DEF moduleFindByteIntervalsAt, MergeOver
    <2> HIDE DEF D, W
    <2>2. QED
      BY <1>4, <2>1
  <1> HIDE DEF D, V, W
  <1>7. Ordered(Merge(P), IntervalsFrom(D, V)) /\ Ordered(Merge(Q), IntervalsFrom(D, W))
    BY <1>1, IntervalsInSections
  <1> HIDE DEF P, Q
  <1>8. QED
    BY <1>5, <1>6, <1>7 DEF D, V, W

(* The query of a module for byte intervals in a range. *)
LEMMA ModuleIntervalsBetween ==
    ASSUME MapInv, NEW m \in Modules, NEW low \in Addr, NEW high \in Addr, Forward(low, high)
    PROVE  Ordered(moduleFindByteIntervalsBetween(m, low, high),
                   {b \in ByteIntervals : /\ parent[b] \in Sections /\ parent[parent[b]] = m
                                          /\ AskedSection(parent[b], low, high)
                                          /\ low <= startOf(b) /\ startOf(b) < high})
  <1> DEFINE on == moduleFindSectionsOn(m, low)
             behind == moduleFindSectionsBetween(m, Next1(low), high)
             W == {b \in ByteIntervals : low <= startOf(b) /\ startOf(b) < high}
             D == {s \in Sections : parent[s] = m /\ AskedSection(s, low, high)}
             Q == [s \in on \cup ToSet(behind) |-> sectionFindByteIntervalsBetween(s, low, high)]
             U == IntervalsFrom(D, W)
             own == [b \in ByteIntervals |-> parent[b]]
             R == Merge([x \in Near(on, behind) |-> Q[x[2]]])
  <1>1. /\ behind # Undefined /\ (low < high => on \cap ToSet(behind) = {})
        /\ IsFiniteSet(on) /\ IsFiniteSet(ToSet(behind))
        /\ on \cup ToSet(behind) = D
    BY SectionsNear
  <1> HIDE DEF on, behind
  <1>2. \A b \in U : own[b] \in on \cup ToSet(behind)
    BY <1>1 DEF IntervalsFrom
  <1>3. ASSUME NEW s \in on \cup ToSet(behind)
        PROVE  Lists(Q[s], {b \in U : own[b] = s}) /\ Ascending(Q[s])
    <2>1. s \in D /\ s \in Sections
      BY <1>1
    <2>2. {b \in U : own[b] = s} = IntervalsFrom({s}, W)
      BY <2>1 DEF IntervalsFrom
    <2>3. children[s] \subseteq ByteIntervals
      BY <2>1, Owners
    <2>4. {b \in children[s] : low <= startOf(b) /\ startOf(b) < high} = children[s] \cap W
      BY <2>3
    <2>5. Q[s] = InAddressOrder(children[s] \cap W)
      BY <2>4 DEF sectionFindByteIntervalsBetween
    <2> HIDE DEF Q, U, own, W
    <2>6. Ordered(Q[s], {b \in U : own[b] = s})
      BY <2>1, <2>2, <2>5, SectionIntervals
    <2>7. QED
      BY <2>6 DEF Ordered
  <1>4. Keyed(ByteIntervals) /\ U \subseteq ByteIntervals
    BY ContainerKeys DEF IntervalsFrom
  <1>5. moduleFindByteIntervalsBetween(m, low, high) = R
    <2>1. moduleFindByteIntervalsBetween(m, low, high) =
             Merge([x \in Near(on, behind) |-> sectionFindByteIntervalsBetween(x[2], low, high)])
      BY <1>1 DEF moduleFindByteIntervalsBetween, MergeNear, Near, on, behind
    <2>2. \A x \in Near(on, behind) : Q[x[2]] = sectionFindByteIntervalsBetween(x[2], low, high)
      BY DEF Near
    <2> HIDE DEF Q
    <2>3. QED
      BY <2>1, <2>2
  <1>6. U = {b \in ByteIntervals : /\ parent[b] \in Sections /\ parent[parent[b]] = m
                                   /\ AskedSection(parent[b], low, high)
                                   /\ low <= startOf(b) /\ startOf(b) < high}
    BY DEF IntervalsFrom
  <1>7. IsFiniteSet(on) /\ IsFiniteSet(ToSet(behind))
    BY <1>1
  <1>8. \A s \in on \cap ToSet(behind) : \A b \in U : own[b] # s
    <2>1. low \in Int /\ high \in Int /\ \A b \in ByteIntervals : startOf(b) \in Int
      BY StartIsInt, AddrAssumption DEF Addr
    <2>2. \A b \in U : low < high
      BY <1>6, <2>1
    <2> HIDE DEF U, own
    <2>3. QED
      BY <1>1, <2>2
  <1> HIDE DEF Q, U, own, R, D, W
  <1>9. Lists(R, U) /\ Ascending(R)
    BY <1>2, <1>3, <1>4, <1>7, <1>8, MergedNear DEF R
  <1>10. QED
    BY <1>5, <1>6, <1>9 DEF Ordered

(* The byte intervals below the sections D, and those of an IR. *)
Under(D) == {b \in ByteIntervals : parent[b] \in D}

(* What is below an IR, by containers and by parents. *)
LEMMA ContentsOfIR ==
    ASSUME MapInv, NEW i \in IRs
    PROVE  /\ UNION {children[m] \cap Sections : m \in children[i]} = SectionsOf(i)
           /\ \A D \in SUBSET Sections : UNION {children[s] : s \in D} = Under(D)
           /\ \A m \in Modules : IntervalsOf(m) = Under({s \in Sections : parent[s] = m})
           /\ \A m \in children[i] : m \in Modules /\ IntervalsOf(m) \subseteq Under(SectionsOf(i))
  <1>1. \A m \in children[i] : m \in Modules
    BY ModulesOfIR
  <1>2. \A m \in Modules : children[m] \cap Sections = {s \in Sections : parent[s] = m}
    BY Owners
  <1>3. \A s \in Sections : children[s] = {b \in ByteIntervals : parent[b] = s}
    BY Owners
  <1>4. UNION {children[m] \cap Sections : m \in children[i]} = SectionsOf(i)
    BY <1>1, <1>2 DEF SectionsOf
  <1>5. \A D \in SUBSET Sections : UNION {children[s] : s \in D} = Under(D)
    BY <1>3 DEF Under
  <1>6. ASSUME NEW m \in Modules
        PROVE  IntervalsOf(m) = Under({s \in Sections : parent[s] = m})
    <2> DEFINE D == {s \in Sections : parent[s] = m}
    <2>1. IntervalsOf(m) = UNION {children[s] : s \in D}
      BY <1>2 DEF IntervalsOf
    <2>2. D \in SUBSET Sections
      OBVIOUS
    <2> HIDE DEF D
    <2>3. IntervalsOf(m) = Under(D)
      BY <1>5, <2>1, <2>2
    <2>4. QED
      BY <2>3 DEF D
  <1>7. ASSUME NEW m \in children[i]
        PROVE  IntervalsOf(m) \subseteq Under(SectionsOf(i))
    BY <1>1, <1>6 DEF Under, SectionsOf
  <1>8. QED
    BY <1>1, <1>4, <1>5, <1>6, <1>7

(* An IR merges the byte intervals its modules list. *)
LEMMA IntervalsInIR ==
    ASSUME MapInv, NEW i \in IRs, NEW U, U \subseteq Under(SectionsOf(i)), NEW Q,
           Q = [m \in children[i] |-> Q[m]],
           \A m \in children[i] : Ordered(Q[m], {b \in U : parent[parent[b]] = m})
    PROVE  Ordered(Merge(Q), U)
  <1> DEFINE C == children[i]
             own == [b \in ByteIntervals |-> parent[parent[b]]]
  <1>1. U \subseteq ByteIntervals /\ \A b \in U : own[b] \in C
    BY DEF Under, SectionsOf
  <1>2. IsFiniteSet(C)
    BY ModulesOfIR
  <1>3. ASSUME NEW m \in C
        PROVE  Ordered(Q[m], {b \in U : own[b] = m})
    <2>1. {b \in U : own[b] = m} = {b \in U : parent[parent[b]] = m}
      BY <1>1
    <2>2. QED
      BY <2>1
  <1>4. Keyed(ByteIntervals)
    BY ContainerKeys
  <1>5. Q = [m \in C |-> Q[m]]
    OBVIOUS
  <1> HIDE DEF C, own
  <1>6. OrderedParts(Q, C, U, own)
    BY <1>1, <1>2, <1>3, <1>5 DEF OrderedParts
  <1>7. QED
    BY <1>1, <1>4, <1>6, MergedOrdered

(* The iteration of an IR over its byte intervals. *)
LEMMA IRIntervals ==
    ASSUME MapInv, NEW i \in IRs
    PROVE  Ordered(irByteIntervals(i), Under(SectionsOf(i)))
  <1> DEFINE U == Under(SectionsOf(i))
             Q == [m \in children[i] |-> moduleByteIntervals(m)]
  <1>1. irByteIntervals(i) = Merge(Q)
    BY DEF irByteIntervals, MergeOver
  <1>2. ASSUME NEW m \in children[i]
        PROVE  Ordered(Q[m], {b \in U : parent[parent[b]] = m})
    <2>1. m \in Modules
      BY ModulesOfIR
    <2>2. IntervalsOf(m) = Under({s \in Sections : parent[s] = m})
      BY <2>1, ContentsOfIR
    <2>3. {b \in U : parent[parent[b]] = m} = IntervalsOf(m)
      BY <2>2 DEF Under, SectionsOf
    <2>4. QED
      BY <2>1, <2>3, ModuleIntervals
  <1>3. Q = [m \in children[i] |-> Q[m]] /\ U \subseteq Under(SectionsOf(i))
    OBVIOUS
  <1> HIDE DEF Q, U
  <1>4. Ordered(Merge(Q), U)
    BY <1>2, <1>3, IntervalsInIR
  <1>5. QED
    BY <1>1, <1>4 DEF U

(* The intervals of an IR in sections on an address. *)
LEMMA IRIntervalsOn ==
    ASSUME MapInv, NEW i \in IRs, NEW a \in Addr
    PROVE  /\ Ordered(irFindByteIntervalsOn(i, a),
                      {b \in Under({s \in SectionsOf(i) : a \in Points(extent[s])}) :
                           Mapped(b) /\ Covers(b, a)})
           /\ Ordered(irFindByteIntervalsAt(i, a),
                      {b \in Under({s \in SectionsOf(i) : a \in Points(extent[s])}) : address[b] = a})
  <1> DEFINE E == Under({s \in SectionsOf(i) : a \in Points(extent[s])})
             U == {b \in E : Mapped(b) /\ Covers(b, a)}
             V == {b \in E : address[b] = a}
             P == [m \in children[i] |-> moduleByteIntervalsOn(m, a)]
             Q == [m \in children[i] |-> moduleFindByteIntervalsAt(m, a)]
  <1>1. irFindByteIntervalsOn(i, a) = Merge(P) /\ irFindByteIntervalsAt(i, a) = Merge(Q)
    BY DEF irFindByteIntervalsOn, irFindByteIntervalsAt, MergeOver
  <1>2. ASSUME NEW m \in children[i]
        PROVE  /\ Ordered(P[m], {b \in U : parent[parent[b]] = m})
               /\ Ordered(Q[m], {b \in V : parent[parent[b]] = m})
    <2> DEFINE D == moduleFindSectionsOn(m, a)
    <2>1. m \in Modules
      BY ModulesOfIR
    <2>2. D = {s \in Sections : parent[s] = m /\ a \in Points(extent[s])}
      <3>1. D = {s \in children[m] \cap Sections : a \in Points(extent[s])}
        BY <2>1 DEF MapInv, ModuleMapExact
      <3>2. children[m] \cap Sections = {s \in Sections : parent[s] = m}
        BY <2>1, Owners
      <3>3. QED
        BY <3>1, <3>2
    <2> HIDE DEF D
    <2>3. {b \in E : parent[parent[b]] = m} = {b \in ByteIntervals : parent[b] \in D}
      BY <2>2 DEF Under, SectionsOf
    <2>4. {b \in U : parent[parent[b]] = m}
             = IntervalsFrom(D, {b \in ByteIntervals : Mapped(b) /\ Covers(b, a)})
      <3> HIDE DEF E
      <3> QED
        BY <2>3 DEF IntervalsFrom
    <2>5. {b \in V : parent[parent[b]] = m} = IntervalsFrom(D, {b \in ByteIntervals : address[b] = a})
      <3> HIDE DEF E
      <3> QED
        BY <2>3 DEF IntervalsFrom
    <2> HIDE DEF E, U, V
    <2>6. /\ Ordered(moduleByteIntervalsOn(m, a),
                     IntervalsFrom(D, {b \in ByteIntervals : Mapped(b) /\ Covers(b, a)}))
          /\ Ordered(moduleFindByteIntervalsAt(m, a),
                     IntervalsFrom(D, {b \in ByteIntervals : address[b] = a}))
      BY <2>1, ModuleIntervalsOn DEF D
    <2>7. QED
      BY <2>4, <2>5, <2>6
  <1>3. P = [m \in children[i] |-> P[m]] /\ Q = [m \in children[i] |-> Q[m]]
    OBVIOUS
  <1>4. U \subseteq Under(SectionsOf(i)) /\ V \subseteq Under(SectionsOf(i))
    BY DEF Under
  <1> HIDE DEF P, Q, U, V, E
  <1>5. Ordered(Merge(P), U)
    BY <1>2, <1>3, <1>4, IntervalsInIR
  <1>6. Ordered(Merge(Q), V)
    BY <1>2, <1>3, <1>4, IntervalsInIR
  <1>7. QED
    BY <1>1, <1>5, <1>6 DEF U, V, E

(* Asking the sections on an address misses no interval of a section that has
   an extent. *)
LEMMA CoveringIntervals ==
    ASSUME MapInv, NEW i \in IRs, NEW a \in Addr
    PROVE  LET T == {s \in SectionsOf(i) : extent[s] # Null}
               E == {s \in SectionsOf(i) : a \in Points(extent[s])}
           IN  \A b \in ByteIntervals : Mapped(b) /\ Covers(b, a) => (b \in Under(T) <=> b \in Under(E))
  <1> DEFINE T == {s \in SectionsOf(i) : extent[s] # Null}
             E == {s \in SectionsOf(i) : a \in Points(extent[s])}
  <1>1. E \subseteq T
    BY PointsOfNull
  <1>2. ASSUME NEW b \in ByteIntervals, Mapped(b), Covers(b, a), b \in Under(T)
        PROVE  b \in Under(E)
    <2> DEFINE s == parent[b]
    <2>1. s \in Sections /\ s \in SectionsOf(i) /\ extent[s] # Null /\ b \in children[s]
      BY <1>2, Owners DEF Under, SectionsOf
    <2>2. \A x \in children[s] : address[x] # Null
      BY <2>1 DEF MapInv, ExtentIsHull
    <2>3. MapsTo(address, size, b, a)
      BY <1>2, AddrAssumption DEF MapsTo, Mapped, Covers, Wraps, Addr
    <2>4. a \in Points(extent[s])
      BY <2>1, <2>2, <2>3, HullContainsMapped
    <2>5. QED
      BY <2>1, <2>4 DEF Under
  <1>3. QED
    BY <1>1, <1>2 DEF Under

(* An ordered answer yields its set. *)
LEMMA OrderedYields ==
    ASSUME NEW q, NEW S, Ordered(q, S)
    PROVE  Yields(q, S) /\ ToSet(q) = S
  BY ListYields DEF Ordered, Lists

(* An interval with bytes whose siblings have addresses is in a section with an
   extent. *)
LEMMA FindableSeen ==
    ASSUME MapInv, NEW D, D \subseteq Sections, NEW b \in Findable(Under(D))
    PROVE  /\ b \in Under({s \in D : extent[s] # Null}) /\ b \in children[parent[b]]
           /\ Mapped(b) /\ size[b] > 0 /\ b \in ByteIntervals /\ parent[b] \in D
  <1> DEFINE s == parent[b]
  <1>1. b \in ByteIntervals /\ s \in D /\ s \in Sections /\ Mapped(b) /\ size[b] > 0
        /\ \A c \in children[s] : address[c] # Null
    BY DEF Findable, Under
  <1>2. b \in children[s]
    BY <1>1, Owners
  <1>3. extent[s] # Null
    BY <1>1, <1>2 DEF MapInv, ExtentIsHull
  <1>4. QED
    BY <1>1, <1>2, <1>3 DEF Under

(* An interval with bytes is on its own address. *)
LEMMA CoversItsAddress ==
    ASSUME MapInv, NEW b \in ByteIntervals, Mapped(b), size[b] > 0
    PROVE  Covers(b, address[b]) /\ startOf(b) = address[b] /\ address[b] \in Nat
  <1>1. address[b] # Null
    BY DEF Mapped
  <1>2. startOf(b) = address[b] /\ address[b] \in Addr /\ size[b] \in Addr
    BY <1>1, IntervalStart
  <1>3. address[b] \in Nat /\ size[b] \in Nat
    BY <1>2, AddrAssumption DEF Addr
  <1>4. QED
    BY <1>1, <1>2, <1>3 DEF Covers

LEMMA OrderedWithin ==
    ASSUME NEW q, NEW U, Ordered(q, U), NEW surely, surely \subseteq U, NEW possibly, U \subseteq possibly
    PROVE  YieldsWithin(q, surely, possibly)
  BY OrderedYields DEF YieldsWithin

(* The queries of an IR for byte intervals on or at an address. *)
LEMMA IntervalQueriesOn ==
    ASSUME MapInv, NEW i \in IRs, NEW a \in Addr
    PROVE  LET B == Under(SectionsOf(i))
           IN  /\ YieldsWithin(irFindByteIntervalsOn(i, a), {b \in Findable(B) : Covers(b, a)},
                               {b \in B : Mapped(b) /\ Covers(b, a)})
               /\ YieldsWithin(irFindByteIntervalsAt(i, a), {b \in Findable(B) : address[b] = a},
                               {b \in B : address[b] = a})
  <1> DEFINE T == {s \in SectionsOf(i) : extent[s] # Null}
             E == {s \in SectionsOf(i) : a \in Points(extent[s])}
             B == Under(SectionsOf(i))
             U == {b \in Under(E) : Mapped(b) /\ Covers(b, a)}
             V == {b \in Under(E) : address[b] = a}
  <1>1. \A b \in ByteIntervals : Mapped(b) /\ Covers(b, a) => (b \in Under(T) <=> b \in Under(E))
    BY CoveringIntervals
  <1>2. Ordered(irFindByteIntervalsOn(i, a), U) /\ Ordered(irFindByteIntervalsAt(i, a), V)
    BY IRIntervalsOn
  <1>3. Under(E) \subseteq B
    BY DEF Under
  <1>4. SectionsOf(i) \subseteq Sections
    BY DEF SectionsOf
  <1>5. \A b \in Findable(B) : b \in Under(T) /\ Mapped(b) /\ size[b] > 0 /\ b \in ByteIntervals
    BY <1>4, FindableSeen
  <1>6. \A b \in Findable(B) : Covers(b, address[b])
    BY <1>5, CoversItsAddress
  <1> HIDE DEF T, E, B
  <1>7. /\ {b \in Findable(B) : Covers(b, a)} \subseteq U
        /\ U \subseteq {b \in B : Mapped(b) /\ Covers(b, a)}
    BY <1>1, <1>3, <1>5
  <1>8. {b \in Findable(B) : address[b] = a} \subseteq V /\ V \subseteq {b \in B : address[b] = a}
    BY <1>1, <1>3, <1>5, <1>6
  <1> HIDE DEF U, V
  <1>9. QED
    BY <1>2, <1>7, <1>8, OrderedWithin DEF B

(* The intervals in a range, in the sections that a module asks. *)
InAskedSection(b, low, high) ==
    /\ parent[b] \in Sections /\ AskedSection(parent[b], low, high)
    /\ low <= startOf(b) /\ startOf(b) < high

(* The query of an IR for byte intervals in a range. *)
LEMMA IRIntervalsBetween ==
    ASSUME MapInv, NEW i \in IRs, NEW low \in Addr, NEW high \in Addr, Forward(low, high)
    PROVE  Ordered(irFindByteIntervalsBetween(i, low, high),
                   {b \in Under(SectionsOf(i)) : InAskedSection(b, low, high)})
  <1> DEFINE U == {b \in Under(SectionsOf(i)) : InAskedSection(b, low, high)}
             Q == [m \in children[i] |-> moduleFindByteIntervalsBetween(m, low, high)]
  <1>1. irFindByteIntervalsBetween(i, low, high) = Merge(Q)
    BY DEF irFindByteIntervalsBetween, MergeOver
  <1>2. ASSUME NEW m \in children[i]
        PROVE  Ordered(Q[m], {b \in U : parent[parent[b]] = m})
    <2>1. m \in Modules
      BY ModulesOfIR
    <2>2. {b \in U : parent[parent[b]] = m} =
             {b \in ByteIntervals : /\ parent[b] \in Sections /\ parent[parent[b]] = m
                                    /\ AskedSection(parent[b], low, high)
                                    /\ low <= startOf(b) /\ startOf(b) < high}
      BY DEF Under, SectionsOf, InAskedSection
    <2>3. Q[m] = moduleFindByteIntervalsBetween(m, low, high)
      OBVIOUS
    <2> HIDE DEF Q, U
    <2>4. QED
      BY <2>1, <2>2, <2>3, ModuleIntervalsBetween
  <1>3. Q = [m \in children[i] |-> Q[m]] /\ U \subseteq Under(SectionsOf(i))
    OBVIOUS
  <1> HIDE DEF Q, U
  <1>4. Ordered(Merge(Q), U)
    BY <1>2, <1>3, IntervalsInIR
  <1>5. QED
    BY <1>1, <1>4 DEF U

(* Those that a query for a range must find, below the sections D. *)
LEMMA FindableAsked ==
    ASSUME MapInv, NEW D, D \subseteq Sections, NEW b \in Findable(Under(D)),
           NEW low \in Addr, NEW high \in Addr, low <= startOf(b), startOf(b) < high
    PROVE  b \in Under(D) /\ InAskedSection(b, low, high)
  <1> DEFINE s == parent[b]
  <1>1. /\ b \in ByteIntervals /\ s \in D /\ s \in Sections /\ extent[s] # Null /\ b \in children[s]
        /\ Mapped(b) /\ size[b] > 0
    BY FindableSeen DEF Under
  <1>2. Covers(b, address[b]) /\ startOf(b) = address[b] /\ address[b] \in Nat
    BY <1>1, CoversItsAddress
  <1>3. address[b] \in low .. high - 1
    BY <1>2, AddrAssumption DEF Addr
  <1>4. AskedSection(s, low, high)
    BY <1>1, <1>2, <1>3, SectionIsAsked
  <1>5. QED
    BY <1>1, <1>4 DEF Under, InAskedSection

(* The queries of an IR and of its modules for byte intervals in a range. *)
LEMMA IntervalQueriesBetween ==
    ASSUME MapInv, NEW i \in IRs, NEW low \in Addr, NEW high \in Addr, Forward(low, high)
    PROVE  LET In(C) == {b \in C : low <= startOf(b) /\ startOf(b) < high}
               B == Under(SectionsOf(i))
           IN  /\ \A m \in children[i] :
                    YieldsWithin(moduleFindByteIntervalsBetween(m, low, high),
                                 In(Findable(IntervalsOf(m))), In(IntervalsOf(m)))
               /\ YieldsWithin(irFindByteIntervalsBetween(i, low, high), In(Findable(B)), In(B))
  <1> DEFINE In(C) == {b \in C : low <= startOf(b) /\ startOf(b) < high}
  <1>1. ASSUME NEW D, D \subseteq Sections, NEW q,
               Ordered(q, {b \in Under(D) : InAskedSection(b, low, high)})
        PROVE  YieldsWithin(q, In(Findable(Under(D))), In(Under(D)))
    <2> DEFINE U == {b \in Under(D) : InAskedSection(b, low, high)}
    <2>1. In(Findable(Under(D))) \subseteq U
      BY <1>1, FindableAsked
    <2>2. U \subseteq In(Under(D))
      BY DEF InAskedSection
    <2> HIDE DEF U, In
    <2>3. QED
      BY <1>1, <2>1, <2>2, OrderedWithin DEF U
  <1>2. ASSUME NEW m \in children[i]
        PROVE  YieldsWithin(moduleFindByteIntervalsBetween(m, low, high),
                            In(Findable(IntervalsOf(m))), In(IntervalsOf(m)))
    <2> DEFINE D == {s \in Sections : parent[s] = m}
    <2>1. m \in Modules /\ IntervalsOf(m) = Under(D)
      BY ContentsOfIR
    <2>2. {b \in ByteIntervals : /\ parent[b] \in Sections /\ parent[parent[b]] = m
                                 /\ AskedSection(parent[b], low, high)
                                 /\ low <= startOf(b) /\ startOf(b) < high}
             = {b \in Under(D) : InAskedSection(b, low, high)}
      BY DEF Under, InAskedSection
    <2>3. D \subseteq Sections
      OBVIOUS
    <2> HIDE DEF D, In
    <2>4. Ordered(moduleFindByteIntervalsBetween(m, low, high),
                  {b \in Under(D) : InAskedSection(b, low, high)})
      BY <2>1, <2>2, ModuleIntervalsBetween
    <2>5. QED
      BY <1>1, <2>1, <2>3, <2>4
  <1>3. YieldsWithin(irFindByteIntervalsBetween(i, low, high), In(Findable(Under(SectionsOf(i)))),
                     In(Under(SectionsOf(i))))
    <2>1. SectionsOf(i) \subseteq Sections
      BY DEF SectionsOf
    <2> HIDE DEF In
    <2>2. QED
      BY <1>1, <2>1, IRIntervalsBetween
  <1>4. QED
    BY <1>2, <1>3

(* What is asked of the queries of an IR with the sections S and the byte intervals
   B, where T are the sections with an extent. *)
Answers(i, S, T, B) ==
    /\ Yields(irSections(i), S)
    /\ Yields(irByteIntervals(i), B)
    /\ \A m \in children[i] : Yields(moduleByteIntervals(m), IntervalsOf(m))
    /\ \A a \in Addr :
         /\ Yields(irFindSectionsOn(i, a), {s \in T : a \in Points(extent[s])})
         /\ Yields(irFindSectionsAt(i, a), {s \in T : extent[s].lower = a})
         /\ YieldsWithin(irFindByteIntervalsOn(i, a), {b \in Findable(B) : Covers(b, a)},
                         {b \in B : Mapped(b) /\ Covers(b, a)})
         /\ YieldsWithin(irFindByteIntervalsAt(i, a), {b \in Findable(B) : address[b] = a},
                         {b \in B : address[b] = a})
    /\ \A low, high \in Addr :
         LET In(C) == {b \in C : low <= startOf(b) /\ startOf(b) < high}
         IN  /\ low <= high =>
                  Yields(irFindSectionsBetween(i, low, high),
                         {s \in T : low <= extent[s].lower /\ extent[s].lower < high})
             /\ Forward(low, high) =>
                  /\ \A m \in children[i] :
                       YieldsWithin(moduleFindByteIntervalsBetween(m, low, high),
                                    In(Findable(IntervalsOf(m))), In(IntervalsOf(m)))
                  /\ YieldsWithin(irFindByteIntervalsBetween(i, low, high), In(Findable(B)), In(B))

(* So the property holds wherever the maps are right. *)
LEMMA ContainerQueriesHold ==
    ASSUME MapInv
    PROVE  ContainerQueriesExact
  <1>1. ASSUME NEW i \in IRs
        PROVE  LET S == SectionsOf(i)
                   T == {s \in S : extent[s] # Null}
               IN  Answers(i, S, T, Under(S))
    <2> DEFINE S == SectionsOf(i)
               T == {s \in S : extent[s] # Null}
    <2>1. Yields(irSections(i), S) /\ Yields(irByteIntervals(i), Under(S))
      BY SectionQueries, IRIntervals, OrderedYields
    <2>2. \A m \in children[i] : Yields(moduleByteIntervals(m), IntervalsOf(m))
      BY ModulesOfIR, ModuleIntervals, OrderedYields
    <2>3. ASSUME NEW a \in Addr
          PROVE  /\ Yields(irFindSectionsOn(i, a), {s \in T : a \in Points(extent[s])})
                 /\ Yields(irFindSectionsAt(i, a), {s \in T : extent[s].lower = a})
      BY SectionQueries, OrderedYields
    <2>4. ASSUME NEW low \in Addr, NEW high \in Addr, low <= high
          PROVE  Yields(irFindSectionsBetween(i, low, high),
                        {s \in T : low <= extent[s].lower /\ extent[s].lower < high})
      BY <2>4, SectionQueries, OrderedYields
    <2>5. QED
      BY <2>1, <2>2, <2>3, <2>4, IntervalQueriesOn, IntervalQueriesBetween, Zenon DEF Answers
  <1>2. ASSUME NEW i \in IRs
        PROVE  LET M == children[i]
                   S == UNION {children[m] \cap Sections : m \in M}
                   T == {s \in S : extent[s] # Null}
                   B == UNION {children[s] : s \in S}
               IN  Answers(i, S, T, B)
    <2> DEFINE S == UNION {children[m] \cap Sections : m \in children[i]}
               T == {s \in S : extent[s] # Null}
    <2>1. S = SectionsOf(i) /\ T = {s \in SectionsOf(i) : extent[s] # Null}
      BY ContentsOfIR
    <2>2. S \in SUBSET Sections
      OBVIOUS
    <2> HIDE DEF S, T
    <2>3. UNION {children[s] : s \in S} = Under(S)
      BY <2>2, ContentsOfIR
    <2>4. Answers(i, S, T, Under(S))
      BY <1>1, <2>1
    <2>5. Answers(i, S, T, UNION {children[s] : s \in S})
      BY <2>3, <2>4
    <2>6. QED
      BY <2>5 DEF S, T
  <1>3. QED
    BY <1>2, Zenon DEF ContainerQueriesExact, Answers

-----------------------------------------------------------------------------

(* Symbolic expressions: pairs of an interval and an offset. *)
Expressions == ByteIntervals \X Addr

(* Symbolic expressions are compared by their addresses. *)
LEMMA ExpressionKeys ==
    ASSUME MapInv
    PROVE  /\ Keyed(Expressions)
           /\ \A b \in ByteIntervals : \A o \in Addr :
                 addressKey(<<b, o>>) = <<IF address[b] = Null THEN -1 ELSE (address[b] + o) % AddrLimit>>
  <1>1. ASSUME NEW b \in ByteIntervals, NEW o \in Addr
        PROVE  /\ <<b, o>> \notin Node
               /\ addressKey(<<b, o>>) = <<IF address[b] = Null THEN -1 ELSE (address[b] + o) % AddrLimit>>
    <2>1. <<b, o>> \in ByteIntervals \X Addr
      OBVIOUS
    <2>2. <<b, o>> \notin Node
      BY <2>1, QueryAssumption
    <2>3. <<b, o>>[1] = b /\ <<b, o>>[2] = o
      OBVIOUS
    <2>4. <<b, o>> \notin Blocks
      BY <2>2, KindsDisjoint
    <2> DEFINE e == <<b, o>>
    <2> HIDE DEF e
    <2>5. e \notin Node /\ e \notin Blocks /\ e[1] = b /\ e[2] = o
      BY <2>2, <2>3, <2>4 DEF e
    <2>6. addressKey(e) = <<IF address[b] = Null THEN -1 ELSE (address[b] + o) % AddrLimit>>
      BY <2>5 DEF addressKey
    <2>7. QED
      BY <2>2, <2>6 DEF e
  <1>2. ASSUME NEW b \in ByteIntervals, NEW o \in Addr
        PROVE  addressKey(<<b, o>>) \in Key(1)
    <2> DEFINE k == IF address[b] = Null THEN -1 ELSE (address[b] + o) % AddrLimit
    <2>1. k \in Int
      <3>1. address[b] # Null => address[b] \in Addr
        BY DEF MapInv, TypeOK
      <3>2. address[b] # Null => (address[b] + o) % AddrLimit \in Int
        BY <3>1, AddrAssumption, SumInWidth DEF Addr
      <3>3. QED
        BY <3>2
    <2> HIDE DEF k
    <2>2. <<k>> \in Key(1)
      BY <2>1 DEF Key
    <2>3. QED
      BY <1>1, <2>2 DEF k
  <1>3. \A e \in Expressions : addressKey(e) \in Key(1)
    BY <1>2 DEF Expressions
  <1>4. Null \notin Expressions
    BY QueryAssumption DEF Expressions
  <1>5. QED
    BY <1>1, <1>3, <1>4 DEF Keyed

(* An interval lists its expressions by offset. *)
LEMMA ExpressionOrder ==
    ASSUME MapInv, NEW b \in ByteIntervals, NEW F, F \subseteq Addr
    PROVE  /\ Lists(SymExprsInOrder({b} \X F), {b} \X F)
           /\ (\A o, p \in F : o = p) => Ascending(SymExprsInOrder({b} \X F))
  <1> DEFINE E == {b} \X F
             K == [e \in E |-> <<e[2]>>]
             q == SymExprsInOrder(E)
  <1>1. IsFiniteSet(E)
    <2>1. AddrLimit - 1 \in Int
      BY AddrAssumption
    <2>2. IsFiniteSet(Addr)
      BY <2>1, FS_Interval DEF Addr
    <2>3. IsFiniteSet(F) /\ IsFiniteSet({b})
      BY <2>2, FS_Subset, FS_Singleton
    <2>4. QED
      BY <2>3, FS_Product
  <1>2. \A e \in E : K[e] \in Key(1)
    <2>1. ASSUME NEW e \in E
          PROVE  K[e] \in Key(1)
      <3>1. e[2] \in F /\ Addr \subseteq Int
        BY AddrAssumption DEF Addr
      <3>2. e[2] \in Int
        BY <3>1
      <3>3. <<e[2]>> \in [1 .. 1 -> Int]
        BY <3>2
      <3>4. QED
        BY <3>3 DEF Key
    <2>2. QED
      BY <2>1
  <1>3. q = ByKey(E, K)
    BY DEF SymExprsInOrder
  <1>4. \A d, e \in E : (\A o, p \in F : o = p) => d = e
    OBVIOUS
  <1> HIDE DEF E, K, q
  <1>5. Lists(q, E)
    <2>1. 1 \in Nat
      OBVIOUS
    <2>2. QED
      BY <1>1, <1>2, <1>3, <2>1, ByKeySorted
  <1>6. ASSUME \A o, p \in F : o = p
        PROVE  Ascending(q)
    <2>1. \A i, j \in DOMAIN q : q[i] = q[j]
      BY <1>4, <1>5, <1>6 DEF Lists
    <2>2. \A i, j \in DOMAIN q : i = j
      BY <1>5, <2>1 DEF Lists, IsInjective
    <2>3. \A i \in DOMAIN q : i \in Nat
      BY <1>5 DEF Lists
    <2>4. \A i, j \in DOMAIN q : ~(i < j)
      BY <2>2, <2>3
    <2>5. QED
      BY <2>4 DEF Ascending
  <1>7. QED
    BY <1>5, <1>6 DEF q, E

(* The expressions of the intervals B that are at an address. *)
ExprsAt(B, a) == {e \in SymExprsOf(B) : addressKey(e) = <<a>>}

(* An interval iterates over its expressions. *)
LEMMA IntervalExpressions ==
    ASSUME MapInv, NEW b \in ByteIntervals
    PROVE  Lists(intervalSymbolicExpressions(b), SymExprsOf({b}))
  <1>1. SymExprs[b] \subseteq Addr
    BY QueryAssumption
  <1>2. SymExprsOf({b}) = {b} \X SymExprs[b]
    BY <1>1 DEF SymExprsOf
  <1>3. QED
    BY <1>1, <1>2, ExpressionOrder DEF intervalSymbolicExpressions

(* The offset of an address is the one that is at the address. *)
IsOffset(limit, x, y, a) == (x + y) % limit = a <=> y = (a - x) % limit

LEMMA OffsetOfAddress ==
    ASSUME NEW limit \in Nat \ {0}, NEW x \in 0 .. limit - 1, NEW y \in 0 .. limit - 1,
           NEW a \in 0 .. limit - 1
    PROVE  IsOffset(limit, x, y, a)
  <1> DEFINE s == (x + y) % limit
             d == (a - x) % limit
  <1>1. s = IF x + y < limit THEN x + y ELSE x + y - limit
    BY SumInWidth
  <1>2. d = IF a >= x THEN a - x ELSE a - x + limit
    BY DifferenceInWidth
  <1> HIDE DEF s, d
  <1>3. s = a <=> y = d
    BY <1>1, <1>2
  <1>4. QED
    BY <1>3 DEF s, d, IsOffset

(* An interval finds its expressions at an address. *)
LEMMA IntervalExpressionsAt ==
    ASSUME MapInv, NEW b \in ByteIntervals, NEW a \in Addr
    PROVE  Ordered(intervalFindSymbolicExpressionsAt(b, a), ExprsAt({b}, a))
  <1>1. SymExprs[b] \subseteq Addr
    BY QueryAssumption
  <1>2. AddrLimit \in Nat \ {0} /\ Addr = 0 .. AddrLimit - 1
    BY AddrAssumption DEF Addr
  <1>3. CASE address[b] = Null
    <2>1. ASSUME NEW e \in SymExprsOf({b})
          PROVE  addressKey(e) # <<a>>
      <3>1. PICK o \in Addr : e = <<b, o>>
        BY DEF SymExprsOf
      <3>2. addressKey(e) = <<-1>>
        BY <1>3, <3>1, ExpressionKeys
      <3>3. a # -1
        BY <1>2
      <3>4. QED
        BY <3>2, <3>3
    <2>2. ExprsAt({b}, a) = {}
      BY <2>1 DEF ExprsAt
    <2>3. intervalFindSymbolicExpressionsAt(b, a) = <<>>
      BY <1>3 DEF intervalFindSymbolicExpressionsAt
    <2>4. QED
      BY <2>2, <2>3, NoAnswer DEF Ordered
  <1>4. CASE address[b] # Null
    <2> DEFINE off == (a - address[b]) % AddrLimit
               F == SymExprs[b] \cap {off}
    <2>1. address[b] \in Addr
      BY <1>4 DEF MapInv, TypeOK
    <2>2. \A o \in Addr : (address[b] + o) % AddrLimit = a <=> o = off
      <3> TAKE o \in Addr
      <3>1. /\ address[b] \in 0 .. AddrLimit - 1 /\ o \in 0 .. AddrLimit - 1
            /\ a \in 0 .. AddrLimit - 1 /\ AddrLimit \in Nat \ {0}
        BY <1>2, <2>1
      <3>2. IsOffset(AddrLimit, address[b], o, a)
        BY <3>1, OffsetOfAddress
      <3>3. QED
        BY <3>2, Zenon DEF IsOffset
    <2> HIDE DEF off
    <2>3. \A o \in Addr : addressKey(<<b, o>>) = <<a>> <=> o = off
      <3> TAKE o \in Addr
      <3>1. addressKey(<<b, o>>) = <<(address[b] + o) % AddrLimit>>
        BY <1>4, ExpressionKeys
      <3>2. QED
        BY <2>2, <3>1
    <2>4. ExprsAt({b}, a) = {b} \X F
      BY <1>1, <2>3 DEF ExprsAt, SymExprsOf
    <2>5. F \subseteq Addr /\ \A o, p \in F : o = p
      BY <1>1
    <2>6. intervalFindSymbolicExpressionsAt(b, a) = SymExprsInOrder({b} \X F)
      BY <1>4 DEF intervalFindSymbolicExpressionsAt, intervalFindSymbolicExpressionsAtOffset, off
    <2> HIDE DEF F
    <2>7. QED
      BY <2>4, <2>5, <2>6, ExpressionOrder DEF Ordered
  <1>5. QED
    BY <1>3, <1>4

(* An expression belongs to the interval it names. *)
LEMMA ExpressionsByOwner ==
    ASSUME NEW B, B \subseteq ByteIntervals
    PROVE  /\ SymExprsOf(B) \subseteq Expressions
           /\ \A e \in SymExprsOf(B) : e[1] \in B
           /\ \A C : SymExprsOf(B \cap C) = {e \in SymExprsOf(B) : e[1] \in C}
  BY DEF SymExprsOf, Expressions

(* A section asks all of its intervals. *)
LEMMA SectionExpressions ==
    ASSUME MapInv, NEW s \in Sections, NEW a \in Addr
    PROVE  /\ Lists(sectionSymbolicExpressions(s), SymExprsOf(Under({s})))
           /\ Ordered(sectionFindSymbolicExpressionsAt(s, a), ExprsAt(Under({s}), a))
  <1> DEFINE C == children[s]
             P == [b \in C |-> intervalSymbolicExpressions(b)]
             Q == [b \in C |-> intervalFindSymbolicExpressionsAt(b, a)]
             U == SymExprsOf(Under({s}))
             V == ExprsAt(Under({s}), a)
             own == [e \in Expressions |-> e[1]]
  <1>1. C = Under({s}) /\ C \subseteq ByteIntervals
    <2>1. C = {b \in ByteIntervals : parent[b] = s}
      BY Owners
    <2>2. QED
      BY <2>1 DEF Under
  <1>2. IsFiniteSet(C)
    BY TreeShape, KindsDisjoint
  <1>3. U \subseteq Expressions /\ V \subseteq U /\ \A e \in U : own[e] \in C
    BY <1>1, ExpressionsByOwner DEF ExprsAt
  <1>4. ASSUME NEW b \in C
        PROVE  /\ Lists(P[b], {e \in U : own[e] = b})
               /\ Ordered(Q[b], {e \in V : own[e] = b})
    <2>1. {e \in U : own[e] = b} = SymExprsOf({b})
      BY <1>1, <1>3 DEF SymExprsOf
    <2>2. {e \in V : own[e] = b} = ExprsAt({b}, a)
      BY <1>3, <2>1 DEF ExprsAt
    <2>3. P[b] = intervalSymbolicExpressions(b) /\ Q[b] = intervalFindSymbolicExpressionsAt(b, a)
      OBVIOUS
    <2>4. b \in ByteIntervals
      BY <1>1
    <2> HIDE DEF P, Q, U, V, own
    <2>5. QED
      BY <2>1, <2>2, <2>3, <2>4, IntervalExpressions, IntervalExpressionsAt
  <1>5. P = [b \in C |-> P[b]] /\ Q = [b \in C |-> Q[b]]
    OBVIOUS
  <1>6. sectionSymbolicExpressions(s) = Merge(P) /\ sectionFindSymbolicExpressionsAt(s, a) = Merge(Q)
    BY DEF sectionSymbolicExpressions, sectionFindSymbolicExpressionsAt, MergeOver
  <1>7. Keyed(Expressions)
    BY ExpressionKeys
  <1> HIDE DEF C, P, Q, U, V, own
  <1>8. Answered(P, C, U, own)
    BY <1>2, <1>3, <1>4, <1>5 DEF Answered
  <1>9. OrderedParts(Q, C, V, own)
    BY <1>2, <1>3, <1>4, <1>5 DEF OrderedParts
  <1>10. Lists(Merge(P), U)
    BY <1>3, <1>7, <1>8, Merged
  <1>11. V \subseteq Expressions
    BY <1>3
  <1>12. Ordered(Merge(Q), V)
    BY <1>7, <1>9, <1>11, MergedOrdered
  <1>13. QED
    BY <1>6, <1>10, <1>12 DEF U, V

(* A module asks all of its sections. *)
LEMMA ModuleExpressions ==
    ASSUME MapInv, NEW m \in Modules, NEW a \in Addr
    PROVE  /\ Lists(moduleSymbolicExpressions(m), SymExprsOf(IntervalsOf(m)))
           /\ Ordered(moduleFindSymbolicExpressionsAt(m, a), ExprsAt(IntervalsOf(m), a))
  <1> DEFINE C == children[m] \cap Sections
             B == IntervalsOf(m)
             P == [s \in C |-> sectionSymbolicExpressions(s)]
             Q == [s \in C |-> sectionFindSymbolicExpressionsAt(s, a)]
             U == SymExprsOf(B)
             V == ExprsAt(B, a)
             own == [e \in Expressions |-> parent[e[1]]]
  <1>1. C = {s \in Sections : parent[s] = m}
    BY Owners
  <1>2. B = Under(C) /\ B \subseteq ByteIntervals
    <2>1. \A s \in Sections : children[s] = {b \in ByteIntervals : parent[b] = s}
      BY Owners
    <2>2. QED
      BY <2>1 DEF IntervalsOf, Under
  <1>3. IsFiniteSet(C)
    BY KindsDisjoint, QueryAssumption, FS_Subset
  <1> HIDE DEF B, C
  <1>4. U \subseteq Expressions /\ V \subseteq U /\ \A e \in U : e[1] \in B
    BY <1>2, ExpressionsByOwner DEF ExprsAt
  <1>5. \A e \in U : own[e] \in C
    BY <1>2, <1>4 DEF Under
  <1>6. ASSUME NEW s \in C
        PROVE  /\ Lists(P[s], {e \in U : own[e] = s})
               /\ Ordered(Q[s], {e \in V : own[e] = s})
    <2>1. s \in Sections /\ Under({s}) \subseteq B
      BY <1>1, <1>2, <1>6 DEF Under
    <2>2. {e \in U : own[e] = s} = SymExprsOf(Under({s}))
      BY <1>2, <1>4, <2>1 DEF SymExprsOf, Under
    <2>3. {e \in V : own[e] = s} = ExprsAt(Under({s}), a)
      <3> HIDE DEF own, U
      <3> QED
        BY <2>2 DEF ExprsAt, U
    <2>4. P[s] = sectionSymbolicExpressions(s) /\ Q[s] = sectionFindSymbolicExpressionsAt(s, a)
      OBVIOUS
    <2> HIDE DEF P, Q, U, V, own
    <2>5. QED
      BY <2>1, <2>2, <2>3, <2>4, SectionExpressions
  <1>7. P = [s \in C |-> P[s]] /\ Q = [s \in C |-> Q[s]]
    OBVIOUS
  <1>8. moduleSymbolicExpressions(m) = Merge(P) /\ moduleFindSymbolicExpressionsAt(m, a) = Merge(Q)
    BY DEF moduleSymbolicExpressions, moduleFindSymbolicExpressionsAt, MergeOver, C
  <1>9. Keyed(Expressions)
    BY ExpressionKeys
  <1> HIDE DEF P, Q, U, V, own
  <1>10. Answered(P, C, U, own)
    BY <1>3, <1>5, <1>6, <1>7 DEF Answered
  <1>11. OrderedParts(Q, C, V, own)
    BY <1>3, <1>4, <1>5, <1>6, <1>7 DEF OrderedParts
  <1>12. Lists(Merge(P), U)
    BY <1>4, <1>9, <1>10, Merged
  <1>13. V \subseteq Expressions
    BY <1>4
  <1>14. Ordered(Merge(Q), V)
    BY <1>9, <1>11, <1>13, MergedOrdered
  <1>15. QED
    BY <1>8, <1>12, <1>14 DEF U, V, B

(* An IR asks all of its modules. *)
LEMMA IRExpressions ==
    ASSUME MapInv, NEW i \in IRs, NEW a \in Addr
    PROVE  LET B == UNION {IntervalsOf(m) : m \in children[i]}
           IN  /\ Lists(irSymbolicExpressions(i), SymExprsOf(B))
               /\ Ordered(irFindSymbolicExpressionsAt(i, a), ExprsAt(B, a))
  <1> DEFINE C == children[i]
             B == UNION {IntervalsOf(m) : m \in C}
             P == [m \in C |-> moduleSymbolicExpressions(m)]
             Q == [m \in C |-> moduleFindSymbolicExpressionsAt(m, a)]
             U == SymExprsOf(B)
             V == ExprsAt(B, a)
             own == [e \in Expressions |-> parent[parent[e[1]]]]
  <1>1. IsFiniteSet(C) /\ \A m \in C : m \in Modules
    BY ModulesOfIR
  <1>2. \A m \in C : IntervalsOf(m) = {b \in ByteIntervals : parent[b] \in Sections /\ parent[parent[b]] = m}
    <2>1. \A m \in C : IntervalsOf(m) = Under({s \in Sections : parent[s] = m})
      BY <1>1, ContentsOfIR
    <2>2. QED
      BY <2>1 DEF Under
  <1>3. B = {b \in ByteIntervals : parent[b] \in Sections /\ parent[parent[b]] \in C}
    BY <1>2
  <1>4. B \subseteq ByteIntervals
    BY <1>3
  <1> HIDE DEF B, C
  <1>5. U \subseteq Expressions /\ V \subseteq U /\ \A e \in U : e[1] \in B
    BY <1>4, ExpressionsByOwner DEF ExprsAt
  <1>6. \A e \in U : own[e] \in C
    BY <1>3, <1>5
  <1>7. ASSUME NEW m \in C
        PROVE  /\ Lists(P[m], {e \in U : own[e] = m})
               /\ Ordered(Q[m], {e \in V : own[e] = m})
    <2>1. m \in Modules
      BY <1>1
    <2>2. IntervalsOf(m) = {b \in B : parent[parent[b]] = m}
      BY <1>2, <1>3
    <2>3. {e \in U : own[e] = m} = SymExprsOf(IntervalsOf(m))
      BY <1>4, <1>5, <2>2 DEF SymExprsOf
    <2>4. {e \in V : own[e] = m} = ExprsAt(IntervalsOf(m), a)
      <3> HIDE DEF own, U
      <3> QED
        BY <2>3 DEF ExprsAt, U
    <2>5. P[m] = moduleSymbolicExpressions(m) /\ Q[m] = moduleFindSymbolicExpressionsAt(m, a)
      OBVIOUS
    <2> HIDE DEF P, Q, U, V, own
    <2>6. QED
      BY <2>1, <2>3, <2>4, <2>5, ModuleExpressions
  <1>8. P = [m \in C |-> P[m]] /\ Q = [m \in C |-> Q[m]]
    OBVIOUS
  <1>9. irSymbolicExpressions(i) = Merge(P) /\ irFindSymbolicExpressionsAt(i, a) = Merge(Q)
    BY DEF irSymbolicExpressions, irFindSymbolicExpressionsAt, MergeOver, C
  <1>10. Keyed(Expressions)
    BY ExpressionKeys
  <1> HIDE DEF P, Q, U, V, own
  <1>11. Answered(P, C, U, own)
    BY <1>1, <1>6, <1>7, <1>8 DEF Answered
  <1>12. OrderedParts(Q, C, V, own)
    BY <1>1, <1>5, <1>6, <1>7, <1>8 DEF OrderedParts
  <1>13. Lists(Merge(P), U)
    BY <1>5, <1>10, <1>11, Merged
  <1>14. V \subseteq Expressions
    BY <1>5
  <1>15. Ordered(Merge(Q), V)
    BY <1>10, <1>12, <1>14, MergedOrdered
  <1>16. QED
    BY <1>9, <1>13, <1>15 DEF U, V, B, C

(* So the property holds wherever the maps are right. *)
LEMMA SymbolicExpressionsHold ==
    ASSUME MapInv
    PROVE  SymbolicExpressionsAtExact
  <1>1. ASSUME NEW i \in IRs
        PROVE  LET B == UNION {IntervalsOf(m) : m \in children[i]}
               IN  /\ ToSet(irSymbolicExpressions(i)) = SymExprsOf(B)
                   /\ IsInjective(irSymbolicExpressions(i))
                   /\ \A a \in Addr : Yields(irFindSymbolicExpressionsAt(i, a), ExprsAt(B, a))
    <2> DEFINE B == UNION {IntervalsOf(m) : m \in children[i]}
    <2>1. \A a \in Addr : /\ Lists(irSymbolicExpressions(i), SymExprsOf(B))
                          /\ Ordered(irFindSymbolicExpressionsAt(i, a), ExprsAt(B, a))
      BY IRExpressions
    <2>2. 0 \in Addr
      BY AddrAssumption DEF Addr
    <2> HIDE DEF B
    <2>3. ToSet(irSymbolicExpressions(i)) = SymExprsOf(B) /\ IsInjective(irSymbolicExpressions(i))
      BY <2>1, <2>2 DEF Lists
    <2>4. \A a \in Addr : Yields(irFindSymbolicExpressionsAt(i, a), ExprsAt(B, a))
      BY <2>1, OrderedYields
    <2>5. QED
      BY <2>3, <2>4 DEF B
  <1>2. ASSUME NEW i \in IRs, NEW a \in Addr, NEW m \in children[i]
        PROVE  Yields(moduleFindSymbolicExpressionsAt(m, a), ExprsAt(IntervalsOf(m), a))
    <2>1. m \in Modules
      BY ModulesOfIR
    <2>2. QED
      BY <2>1, ModuleExpressions, OrderedYields
  <1>3. QED
    BY <1>1, <1>2, Zenon DEF SymbolicExpressionsAtExact, ExprsAt

-----------------------------------------------------------------------------

(* The start: a tree of nodes without addresses. *)
LEMMA QueryInit ==
    ASSUME QInit
    PROVE  MapInv
  <1>1. /\ parent \in [Node -> Node \cup {Null}]
        /\ children \in [Node -> SUBSET Node]
        /\ \A n \in Node : parent[n] # Null => CanOwn(parent[n], n)
    BY QueryAssumption DEF QInit
  <1>2. OwnershipAgrees
    BY DEF QInit, OwnershipAgrees
  <1>3. ASSUME NEW i \in IRs
        PROVE  /\ cfg[i] \in Graph(CfgNode)
               /\ cfg[i].nodes = {n \in CfgNode : HomeIR(n) = i} /\ cfg[i].edges = {}
    <2> DEFINE N == {n \in CfgNode : HomeIR(n) = i}
    <2>1. cfg[i] = AddVertices(EmptyGraph, N)
      BY DEF QInit
    <2>2. N \subseteq CfgNode /\ GraphOK(EmptyGraph)
      BY DEF GraphOK, EmptyGraph, Graph
    <2> HIDE DEF N
    <2>3. /\ GraphOK(AddVertices(EmptyGraph, N))
          /\ AddVertices(EmptyGraph, N).nodes = EmptyGraph.nodes \cup N
          /\ AddVertices(EmptyGraph, N).edges = EmptyGraph.edges
      BY <2>2, AddVerticesFacts
    <2>4. EmptyGraph.nodes = {} /\ EmptyGraph.edges = {}
      BY DEF EmptyGraph
    <2>5. QED
      BY <2>1, <2>3, <2>4 DEF N, GraphOK
  <1>4. cfg = [i \in IRs |-> cfg[i]]
    BY DEF QInit
  <1>5. TreeTypeOK
    BY <1>1, <1>3, <1>4 DEF TreeTypeOK
  <1>6. CfgMirrorsTree /\ EdgesJoinVertices
    BY <1>3 DEF CfgMirrorsTree, EdgesJoinVertices
  <1>7. TreeInv
    BY <1>2, <1>5, <1>6 DEF TreeInv
  <1>8. TypeOK
    BY <1>5 DEF QInit, TypeOK
  <1>9. \A s \in Sections : children[s] \subseteq ByteIntervals
    BY <1>7, SectionsInTree
  <1>10. \A b \in ByteIntervals : address[b] = Null
    BY DEF QInit
  <1>11. SectionMapExact
    BY <1>9, <1>10 DEF QInit, SectionMapExact, sectionFindByteIntervalsOn, Covers
  <1>12. ExtentIsHull
    BY <1>9, <1>10 DEF QInit, ExtentIsHull
  <1>13. ModuleMapExact
    BY PointsOfNull DEF QInit, ModuleMapExact, moduleFindSectionsOn
  <1>14. QED
    BY <1>7, <1>8, <1>11, <1>12, <1>13 DEF MapInv

(* The steps are among those of the address maps. *)
LEMMA QueryNext ==
    ASSUME MapInv, [QNext]_vars
    PROVE  MapInv'
  <1>1. QNext => Next
    BY DEF QNext, Next, Elsewhere
  <1>2. QED
    BY <1>1, MapInvNext

(* The tree and the maps that the queries read are right in every state in which
   a query may be asked, whatever was moved, resized or given an address. *)
THEOREM MapsOfQueries == QSpec => []MapInv
  <1>1. QInit => MapInv
    BY QueryInit
  <1>2. MapInv /\ [QNext]_vars => MapInv'
    BY QueryNext
  <1>3. QED
    BY <1>1, <1>2, PTL DEF QSpec

(* findBlocksOn and its variants for code and data blocks are exact at every
   level: each block with a byte at the address and inside its interval is
   found, once, in the documented order, and no other. *)
THEOREM BlocksOnAddress == QSpec => []FindBlocksOnExact
  <1>1. MapInv => FindBlocksOnExact
    BY FindBlocksOnHolds
  <1>2. QED
    BY <1>1, MapsOfQueries, PTL

(* The same for findBlocksAt with one address. *)
THEOREM BlocksAtAddress == QSpec => []FindBlocksAtExact
  <1>1. MapInv => FindBlocksAtExact
    BY FindBlocksAtHolds
  <1>2. QED
    BY <1>1, MapsOfQueries, PTL

(* findBlocksAt with two addresses finds the blocks that start inside their
   intervals at the addresses between, none twice and none outside the range,
   although the children it asks come from two different indexes. *)
THEOREM BlocksInRange == QSpec => []FindBlocksBetweenExact
  <1>1. MapInv => FindBlocksBetweenExact
    BY FindBlocksBetweenHolds
  <1>2. QED
    BY <1>1, MapsOfQueries, PTL

(* Iterating over the blocks of a container meets each block below it once, and
   in the documented order if no address of a block is absent or wraps. *)
THEOREM EveryBlockIterated == QSpec => []BlockIterationComplete
  <1>1. MapInv => BlockIterationComplete
    BY BlockIterationHolds
  <1>2. QED
    BY <1>1, MapsOfQueries, PTL

(* The iterations over sections and byte intervals, and the queries of IRs for
   sections, yield what a search through all nodes finds.  What findByteIntervalsOn
   and findByteIntervalsAt of modules and IRs yield is among what such a search
   finds, each once and in order, and they miss no interval with bytes, unless it
   reaches the top of the address space or it or another interval of its section has
   no address. *)
THEOREM ContainersFound == QSpec => []ContainerQueriesExact
  <1>1. MapInv => ContainerQueriesExact
    BY ContainerQueriesHold
  <1>2. QED
    BY <1>1, MapsOfQueries, PTL

(* findSymbolicExpressionsAt with one address is exact in modules and IRs, and the
   iteration over an IR meets every symbolic expression once. *)
THEOREM ExpressionsAtAddress == QSpec => []SymbolicExpressionsAtExact
  <1>1. MapInv => SymbolicExpressionsAtExact
    BY SymbolicExpressionsHold
  <1>2. QED
    BY <1>1, MapsOfQueries, PTL
=============================================================================
