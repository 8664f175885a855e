------------------------------ MODULE Loading ------------------------------
(***************************************************************************)
(* Saving an IR and loading it into a context.                             *)
(*                                                                         *)
(* A file names nodes by UUID.  Loading creates the nodes one after the    *)
(* other and registers each in the UUID table of the context; references   *)
(* between nodes (the referent of a symbol, the symbols of a symbolic      *)
(* expression, the entry point of a module, the ends of CFG edges) are     *)
(* looked up in that table while the load is under way.  Which node a      *)
(* reference finds therefore depends on the order of creation, and on what *)
(* the context held before: the original IR, another copy of it, or what   *)
(* an earlier load that failed has left behind.                            *)
(*                                                                         *)
(* The tree in the file is fixed by the constants; references vary.        *)
(***************************************************************************)
EXTENDS Naturals, SequencesExt

CONSTANTS Uuid,         \* the UUIDs in use
          Kind,         \* the kind of the node a UUID stands for
          Root,         \* the UUID of the IR
          Children,     \* what each node contains, in the order of the file
          References,   \* the references between nodes a client sets up: from
                        \* a UUID to a set of UUIDs
          Edges,        \* the sets of CFG edges a client sets up
          Built,        \* the UUIDs in the order the client created the nodes
          Damageable,   \* UUIDs that may be malformed in a file
          MaxLoads      \* bound on the number of loads

(* Everything below a node of the tree, level by level. *)
Level(U) == UNION {ToSet(Children[u]) : u \in U}
Tree     == UNION {{Root}, Level({Root}), Level(Level({Root})),
                   Level(Level(Level({Root}))), Level(Level(Level(Level({Root}))))}

OwnerOf(u) == CHOOSE o \in Tree : u \in ToSet(Children[o])

IsCfgNode(u) == Kind[u] \in {"CodeBlock", "ProxyBlock"}

(* The kinds of the nodes that a node of a kind may contain. *)
Nestable(kind) ==
    CASE kind = "IR"           -> {"Module"}
      [] kind = "Module"       -> {"ProxyBlock", "Section", "Symbol"}
      [] kind = "Section"      -> {"ByteInterval"}
      [] kind = "ByteInterval" -> {"CodeBlock", "DataBlock"}
      [] OTHER                 -> {}

(* The kinds of the nodes that a reference of a node of a kind may name: the
   entry point of a module, the symbols of the symbolic expressions of a byte
   interval, the referent of a symbol. *)
Nameable(kind) ==
    CASE kind = "Module"       -> {"CodeBlock"}
      [] kind = "ByteInterval" -> {"Symbol"}
      [] kind = "Symbol"       -> {"CodeBlock", "DataBlock", "ProxyBlock"}
      [] OTHER                 -> {}

(* The messages in a file are nested by kind, and no UUID occurs twice. *)
ASSUME TreeAssumption ==
    /\ Root \in Uuid /\ Kind[Root] = "IR"
    /\ Children \in [Uuid -> Seq(Uuid)]
    /\ \A u \in Uuid : \A i \in DOMAIN Children[u] : Kind[Children[u][i]] \in Nestable(Kind[u])
    /\ \A u, v \in Tree : \A i \in DOMAIN Children[u], j \in DOMAIN Children[v] :
          Children[u][i] = Children[v][j] => u = v /\ i = j

(* References are to nodes that they may name, and the client has created
   every node. *)
ASSUME ClientAssumption ==
    /\ \A ref \in References :
          /\ ref \in [Uuid -> SUBSET Uuid]
          /\ \A u \in Uuid : \A r \in ref[u] : Kind[r] \in Nameable(Kind[u])
    /\ \A E \in Edges :
          E \subseteq Uuid \X Uuid /\ \A e \in E : IsCfgNode(e[1]) /\ IsCfgNode(e[2])
    /\ Built \in Seq(Uuid) /\ IsInjective(Built) /\ ToSet(Built) = Uuid
    /\ Damageable \subseteq Tree
    /\ MaxLoads \in Nat

VARIABLES heap,      \* the nodes of the context in the order of creation
          uuidMap,   \* Context::UuidMap: an index into heap, 0 for none
          irs,       \* the IRs the client has
          file,      \* the file
          task,      \* what is left of the load under way
          status,    \* "idle", "loading", "loaded" or "failed"
          start,     \* uuidMap and the size of heap when the load began
          loads      \* the number of loads so far

vars == <<heap, uuidMap, irs, file, task, status, start, loads>>

-----------------------------------------------------------------------------

(* The steps of a load, in the order the nested fromProtobuf functions make
   them.  A node is created first and handed to its owner when its own
   contents are complete. *)

Step(do, u) == [do |-> do, what |-> u]

(* The steps F of each of the nodes of some kinds that u contains. *)
EachOf(u, kinds, F(_)) ==
    FlattenSeq([i \in DOMAIN Children[u] |->
                  IF Kind[Children[u][i]] \in kinds THEN F(Children[u][i]) ELSE <<>>])

Leaf(u) == <<Step("create", u), Step("attach", u)>>

(* Mutant: the byte interval is not added to the section. *)
IntervalStepsLost(bi) == <<Step("create", bi)>> \o EachOf(bi, {"CodeBlock", "DataBlock"}, Leaf)

IntervalSteps(bi) ==
    <<Step("create", bi)>> \o EachOf(bi, {"CodeBlock", "DataBlock"}, Leaf) \o <<Step("attach", bi)>>

SectionSteps(s) ==
    <<Step("create", s)>> \o EachOf(s, {"ByteInterval"}, IntervalSteps) \o <<Step("attach", s)>>

SymbolSteps(y) == <<Step("create", y), Step("referent", y), Step("attach", y)>>

SymbolicExpressionStep(bi) == <<Step("symbolicExpressions", bi)>>

SymbolicExpressionSteps(s) == EachOf(s, {"ByteInterval"}, SymbolicExpressionStep)

(* Mutant: symbolic expressions are read together with their section. *)
ModuleStepsEager(m) ==
    <<Step("create", m)>>
      \o EachOf(m, {"ProxyBlock"}, Leaf)
      \o EachOf(m, {"Section"}, SectionSteps)
      \o EachOf(m, {"Section"}, SymbolicExpressionSteps)
      \o EachOf(m, {"Symbol"}, SymbolSteps)
      \o <<Step("entryPoint", m), Step("attach", m)>>

ModuleSteps(m) ==
    <<Step("create", m)>>
      \o EachOf(m, {"ProxyBlock"}, Leaf)
      \o EachOf(m, {"Section"}, SectionSteps)
      \o EachOf(m, {"Symbol"}, SymbolSteps)
      \o EachOf(m, {"Section"}, SymbolicExpressionSteps)
      \o <<Step("entryPoint", m), Step("attach", m)>>

(* Mutant: the graph is read before the modules. *)
LoadStepsGraphFirst ==
    <<Step("create", Root), Step("cfg", Root)>> \o EachOf(Root, {"Module"}, ModuleSteps)
      \o <<Step("version", Root)>>

LoadSteps ==
    <<Step("create", Root)>> \o EachOf(Root, {"Module"}, ModuleSteps)
      \o <<Step("cfg", Root), Step("version", Root)>>

-----------------------------------------------------------------------------

(* Node::getByUUID for several UUIDs. *)
Found(U) == {uuidMap[u] : u \in U} \ {0}

(* The node most recently created for u: what the local pointers of the
   functions that are loading it and its contents hold. *)
Obj(u) == CHOOSE i \in DOMAIN heap :
              heap[i].uuid = u /\ \A j \in DOMAIN heap : heap[j].uuid = u => j <= i

(* The IR a node is in, or the uppermost of its owners. *)
Owner(i) == IF heap[i].owner = 0 THEN i ELSE heap[i].owner
Top(i)   == Owner(Owner(Owner(Owner(i))))

(* Mutant: a UUID that is registered keeps its node. *)
RegisterOnce(u) ==
    uuidMap' = [uuidMap EXCEPT ![u] = IF @ = 0 THEN Len(heap) + 1 ELSE @]

registerNode(u) == uuidMap' = [uuidMap EXCEPT ![u] = Len(heap) + 1]

Doing(do, u) ==
    /\ status = "loading"
    /\ Head(task) = Step(do, u)
    /\ UNCHANGED <<file, start, loads>>

Proceed ==
    /\ task' = Tail(task)
    /\ UNCHANGED <<status, irs>>

Fail ==
    /\ task' = <<>>
    /\ status' = "failed"
    /\ UNCHANGED irs

SetRef(i, R) == heap' = [heap EXCEPT ![i].ref = R]

(* The Create call of each fromProtobuf, after a check of the UUID's length. *)
CreateNode(u) ==
    /\ Doing("create", u)
    /\ IF u \in file.bad
       THEN Fail /\ UNCHANGED <<heap, uuidMap>>
       ELSE /\ heap' = Append(heap, [uuid |-> u, owner |-> 0, ref |-> {}])
            /\ registerNode(u)
            /\ Proceed

(* addBlock, addByteInterval, addSection, addProxyBlock, addSymbol and
   addModule of the owner. *)
Attach(u) ==
    /\ Doing("attach", u)
    /\ heap' = [heap EXCEPT ![Obj(u)].owner = Obj(OwnerOf(u))]
    /\ Proceed
    /\ UNCHANGED uuidMap

(* A symbol whose referent is not found is left without one. *)
LoadReferent(y) ==
    /\ Doing("referent", y)
    /\ SetRef(Obj(y), Found(file.ref[y]))
    /\ Proceed
    /\ UNCHANGED uuidMap

(* The byte interval itself is looked up by UUID here.  A symbolic expression
   with a missing symbol ends the load; those before it, in no particular
   order, have been stored. *)
LoadSymbolicExpressions(bi) ==
    /\ Doing("symbolicExpressions", bi)
    /\ IF \A y \in file.ref[bi] : uuidMap[y] # 0
       THEN SetRef(uuidMap[bi], Found(file.ref[bi])) /\ Proceed
       ELSE (\E R \in SUBSET Found(file.ref[bi]) : SetRef(uuidMap[bi], R)) /\ Fail
    /\ UNCHANGED uuidMap

LoadEntryPoint(m) ==
    /\ Doing("entryPoint", m)
    /\ SetRef(Obj(m), Found(file.ref[m]))
    /\ IF \A r \in file.ref[m] : uuidMap[r] # 0 THEN Proceed ELSE Fail
    /\ UNCHANGED uuidMap

(* The vertices of the graph before the edges are read: addModule has added the
   code blocks and proxy blocks of each module, and the listed ones follow. *)
GraphVertices ==
    Found(file.vertices)
      \cup {i \in DOMAIN heap : IsCfgNode(heap[i].uuid) /\ Top(i) = Obj(Root)}

(* Mutant: an edge is added between nodes that are not vertices of the graph. *)
FoundEdgesAnywhere(E) == UNION {Found({e[1]}) \X Found({e[2]}) : e \in E}

(* The edges with both ends found, which addEdge adds if both are vertices of
   this graph; the others are passed over. *)
FoundEdges(E) ==
    (UNION {Found({e[1]}) \X Found({e[2]}) : e \in E}) \cap (GraphVertices \X GraphVertices)

(* Every listed vertex has to be found.  Then the edges are added. *)
LoadCFG ==
    /\ Doing("cfg", Root)
    /\ IF \A v \in file.vertices : uuidMap[v] # 0
       THEN SetRef(Obj(Root), FoundEdges(file.edges)) /\ Proceed
       ELSE Fail /\ UNCHANGED heap
    /\ UNCHANGED uuidMap

(* The version is checked last, and the IR handed to the client. *)
CheckVersion ==
    /\ Doing("version", Root)
    /\ IF file.current
       THEN /\ task' = <<>>
            /\ status' = "loaded"
            /\ irs' = irs \cup {Obj(Root)}
       ELSE Fail
    /\ UNCHANGED <<heap, uuidMap>>

LoadStep ==
    \/ \E u \in Tree :
          \/ CreateNode(u) \/ Attach(u) \/ LoadReferent(u)
          \/ LoadSymbolicExpressions(u) \/ LoadEntryPoint(u)
    \/ LoadCFG \/ CheckVersion

-----------------------------------------------------------------------------

(* What the client does between loads. *)

Between == status # "loading"

(* IR::load checks the version in the header of the file before anything else;
   IR::loadJSON has no header to check. *)
Load(json) ==
    /\ Between
    /\ loads < MaxLoads
    /\ loads' = loads + 1
    /\ start' = [map |-> uuidMap, len |-> Len(heap)]
    /\ IF json \/ file.current
       THEN status' = "loading" /\ task' = LoadSteps
       ELSE status' = "failed" /\ task' = <<>>
    /\ UNCHANGED <<heap, uuidMap, irs, file>>

(* IR::save and IR::saveJSON write the tree below the IR, references by UUID,
   and all vertices of the graph. *)
Save(i) ==
    LET node(u) == CHOOSE n \in DOMAIN heap : heap[n].uuid = u /\ Top(n) = i
        edges   == {<<heap[e[1]].uuid, heap[e[2]].uuid>> : e \in heap[i].ref}
    IN  /\ Between
        /\ status' = "idle"
        /\ file' = [ref      |-> [u \in Tree \ {Root} |-> {heap[r].uuid : r \in heap[node(u)].ref}],
                    edges    |-> edges,
                    vertices |-> {u \in Tree : IsCfgNode(u)}
                                    \cup {e[1] : e \in edges} \cup {e[2] : e \in edges},
                    bad      |-> {},
                    current  |-> TRUE]
        /\ UNCHANGED <<heap, uuidMap, irs, task, start, loads>>

(* The file is replaced by one with a malformed UUID, one whose list of vertices
   is empty, or one that another version of the library has written. *)
Replace(newFile) ==
    /\ Between
    /\ status' = "idle"
    /\ file' = newFile
    /\ UNCHANGED <<heap, uuidMap, irs, task, start, loads>>

Damage(u) == Replace([file EXCEPT !.bad = {u}])

Unlist == Replace([file EXCEPT !.vertices = {}])

WrittenElsewhere == Replace([file EXCEPT !.current = FALSE])

(* Mutant: the nodes are freed without being unregistered. *)
NewContextDangling ==
    /\ Between
    /\ status' = "idle"
    /\ heap' = <<>>
    /\ irs' = {}
    /\ UNCHANGED <<uuidMap, file, task, start, loads>>

(* The client goes on with another context, or is another program. *)
NewContext ==
    /\ Between
    /\ status' = "idle"
    /\ heap' = <<>>
    /\ uuidMap' = [u \in Uuid |-> 0]
    /\ irs' = {}
    /\ UNCHANGED <<file, task, start, loads>>

-----------------------------------------------------------------------------

Position(u) == CHOOSE i \in DOMAIN Built : Built[i] = u

(* The client has built an IR with some references and has saved it. *)
Init ==
    \E ref \in References, E \in Edges :
        /\ heap = [i \in DOMAIN Built |->
              LET u == Built[i]
              IN  [uuid  |-> u,
                   owner |-> IF u \in Tree \ {Root} THEN Position(OwnerOf(u)) ELSE 0,
                   ref   |-> IF u = Root
                             THEN {<<Position(e[1]), Position(e[2])>> : e \in E}
                             ELSE {Position(r) : r \in ref[u]}]]
        /\ uuidMap = [u \in Uuid |-> Position(u)]
        /\ irs = {Position(Root)}
        /\ file = [ref      |-> [u \in Tree \ {Root} |-> ref[u]],
                   edges    |-> E,
                   vertices |-> {u \in Tree : IsCfgNode(u)}
                                   \cup {e[1] : e \in E} \cup {e[2] : e \in E},
                   bad      |-> {},
                   current  |-> TRUE]
        /\ task = <<>>
        /\ status = "idle"
        /\ start = [map |-> uuidMap, len |-> Len(heap)]
        /\ loads = 0

Next ==
    \/ LoadStep
    \/ \E json \in BOOLEAN : Load(json)
    \/ \E i \in irs : Save(i)
    \/ \E u \in Damageable : Damage(u)
    \/ Unlist
    \/ WrittenElsewhere
    \/ NewContext

(* A load is one call, which runs until it returns. *)
Spec == Init /\ [][Next]_vars /\ WF_vars(LoadStep)

-----------------------------------------------------------------------------

(* A registered UUID leads to a node of the context that has this UUID, and
   owners and IRs are nodes of the context. *)
TypeOK ==
    /\ \A u \in Uuid : uuidMap[u] # 0 =>
          uuidMap[u] \in DOMAIN heap /\ heap[uuidMap[u]].uuid = u
    /\ \A i \in DOMAIN heap : heap[i].owner \in {0} \cup DOMAIN heap
    /\ irs \subseteq DOMAIN heap
    /\ status \in {"idle", "loading", "loaded", "failed"}
    /\ status = "loading" <=> task # <<>>

(* The node the last load created for u. *)
New(u) == CHOOSE i \in DOMAIN heap : i > start.len /\ heap[i].uuid = u

(* A load that succeeds has created each node of the file once and put it
   where it was, whatever else the context contains. *)
LoadedTree ==
    status = "loaded" =>
        \A u \in Tree :
            /\ \E i \in DOMAIN heap :
                  {j \in DOMAIN heap : j > start.len /\ heap[j].uuid = u} = {i}
            /\ heap[New(u)].owner = IF u = Root THEN 0 ELSE New(OwnerOf(u))

(* The position of the module that u is in. *)
ModuleIndex(u) ==
    CHOOSE k \in DOMAIN Children[Root] :
        LET m == {Children[Root][k]}
        IN  u \in UNION {m, Level(m), Level(Level(m)), Level(Level(Level(m)))}

(* The node that r names is created before references of u are looked up. *)
Backward(u, r) == r \in Tree /\ (u = Root \/ ModuleIndex(r) <= ModuleIndex(u))

(* The nodes that references R of u should find: those just created where the
   order of the file permits, and otherwise what the context held before. *)
Target(u, R) ==
    {New(r) : r \in {x \in R : Backward(u, x)}}
      \cup ({start.map[r] : r \in {x \in R : ~Backward(u, x)}} \ {0})

(* The UUIDs of the vertices that the graph of the new IR should have. *)
Vertices == file.vertices \cup {u \in Tree : IsCfgNode(u)}

(* After a load the references of the new nodes lead to new nodes, also when
   the context holds older nodes with the same UUIDs.  The exceptions are
   references to a later module or out of the IR: these lead to an older node,
   or, for a symbol, are lost.  The graph has exactly the edges of the file whose
   ends are in the IR or listed as vertices: an edge to another node is lost,
   also if the context holds that node. *)
LoadedReferences ==
    status = "loaded" =>
        /\ \A u \in Tree \ {Root} : heap[New(u)].ref = Target(u, file.ref[u])
        /\ heap[New(Root)].ref =
              UNION {Target(Root, {e[1]}) \X Target(Root, {e[2]}) :
                         e \in file.edges \cap (Vertices \X Vertices)}

(* The conditions under which the file can be loaded. *)
Loadable ==
    /\ file.bad = {} /\ file.current
    /\ \A u \in Tree \ {Root} : Kind[u] # "Symbol" =>
          \A r \in file.ref[u] : Backward(u, r) \/ start.map[r] # 0
    /\ \A v \in file.vertices : Backward(Root, v) \/ start.map[v] # 0

(* A load fails exactly if the file is damaged, of another version, or needs a
   node that is neither in the file, early enough, nor in the context. *)
LoadOutcome ==
    /\ status = "loaded" => Loadable
    /\ status = "failed" => ~Loadable

(* A load, successful or not, changes no node that was there before it. *)
OldNodesUntouched ==
    [][status = "loading" => \A i \in 1 .. start.len : heap'[i] = heap[i]]_vars

(* The load of a file that can be loaded ends, and with success. *)
LoadableLoads == (status = "loading" /\ Loadable) ~> (status = "loaded")
=============================================================================
