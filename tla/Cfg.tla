-------------------------------- MODULE Cfg --------------------------------
(***************************************************************************)
(* The interprocedural control-flow graph of src/src/CFG.cpp, as operators *)
(* on a graph value.                                                       *)
(*                                                                         *)
(* A CFG is a boost::adjacency_list, a multigraph whose vertices carry     *)
(* CfgNode pointers and whose edges carry an optional label, with a table  *)
(* from nodes to vertices (IdTable).  A graph is represented by the domain *)
(* of that table and by the set of labelled edges that occur in it.  How   *)
(* often an edge occurs is left out: every removal in the code removes all *)
(* the parallel edges it matches, so nothing below depends on the count    *)
(* except SetLabel, which therefore allows both outcomes.                  *)
(***************************************************************************)

CONSTANTS Label,      \* edge labels, the empty label (std::nullopt) included
          NoLabel     \* the label of a freshly added edge

ASSUME LabelAssumption == NoLabel \in Label

Edge(N) == [src : N, dst : N, label : Label]

Graph(N) == [nodes : SUBSET N, edges : SUBSET Edge(N)]

EmptyGraph == [nodes |-> {}, edges |-> {}]

-----------------------------------------------------------------------------

(* addVertex for each node of N; one already present is left alone. *)
AddVertices(g, N) == [g EXCEPT !.nodes = @ \cup N]

(* Mutant: the vertex is removed without clearing its edges first. *)
RemoveVerticesOnly(g, N) == [g EXCEPT !.nodes = @ \ N]

(* removeVertex for each node of N: clear_vertex drops the edges in and out
   of the vertex, then the vertex and its table entry go. *)
RemoveVertices(g, N) ==
    [nodes |-> g.nodes \ N,
     edges |-> {e \in g.edges : e.src \notin N /\ e.dst \notin N}]

(* addEdge: nothing happens unless both ends are in the table. *)
AddEdge(g, from, to) ==
    IF {from, to} \subseteq g.nodes
    THEN [g EXCEPT !.edges = @ \cup {[src |-> from, dst |-> to, label |-> NoLabel]}]
    ELSE g

(* Cfg[E] = Label on one edge descriptor.  A parallel edge with the old label
   may or may not remain. *)
SetLabel(g, e, label) ==
    LET relabelled == [e EXCEPT !.label = label]
    IN  {[g EXCEPT !.edges = (@ \ {e}) \cup {relabelled}],
         [g EXCEPT !.edges = @ \cup {relabelled}]}

(* removeEdge(From, To): every edge between the two, whatever its label. *)
RemoveEdge(g, from, to) ==
    IF {from, to} \subseteq g.nodes
    THEN [g EXCEPT !.edges = {e \in @ : ~(e.src = from /\ e.dst = to)}]
    ELSE g

(* removeEdge(From, To, Label): the loop walks the out-edges of From and
   compares labels only; To is looked up but never compared with the target. *)
RemoveLabelledEdge(g, from, to, label) ==
    IF {from, to} \subseteq g.nodes
    THEN [g EXCEPT !.edges = {e \in @ : ~(e.src = from /\ e.label = label)}]
    ELSE g
=============================================================================
