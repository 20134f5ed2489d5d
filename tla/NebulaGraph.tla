----------------------------- MODULE NebulaGraph -----------------------------
(***************************************************************************)
(* The graph store of nebula_graph (core/storage.py).  Every operation     *)
(* that writes holds the lock of the store from end to end, so each is one *)
(* step here; NebulaScan adds the readers, which take no lock.  The two    *)
(* adjacency maps are kept beside the edges by hand, and the presence of a *)
(* key in them is what delete_node decides by.                             *)
(*                                                                         *)
(* An adjacency list is the set of its edges: edges are appended in the    *)
(* order of their ids and never moved, so the set and the ids say all.     *)
(* Calls that raise before they change anything are not steps.             *)
(***************************************************************************)
EXTENDS Naturals, FiniteSets

CONSTANTS
    Capacity,  \* capacity_limit
    MaxNode,   \* bound: ids given to nodes
    MaxEdge    \* bound: ids given to edges

ASSUME ConstantsOK == {Capacity, MaxNode, MaxEdge} \subseteq Nat

NodeId == 1 .. MaxNode
Edge   == [id : 1 .. MaxEdge, src : NodeId, dst : NodeId]

VARIABLES
    nodes,              \* keys of _nodes
    edges,              \* values of _edges
    outEdges, inEdges,  \* the lists of _out_edges and _in_edges
    outKeys, inKeys,    \* the keys these two maps have
    nodeSeq, edgeSeq

vars == <<nodes, edges, outEdges, inEdges, outKeys, inKeys, nodeSeq, edgeSeq>>

Init ==
    /\ nodes = {} /\ edges = {}
    /\ outEdges = [n \in NodeId |-> {}] /\ inEdges = [n \in NodeId |-> {}]
    /\ outKeys = {} /\ inKeys = {}
    /\ nodeSeq = 0 /\ edgeSeq = 0

-----------------------------------------------------------------------------

Room == Cardinality(nodes) < Capacity

AddNode ==
    /\ nodeSeq < MaxNode
    /\ Room
    /\ nodeSeq' = nodeSeq + 1
    /\ nodes' = nodes \cup {nodeSeq + 1}
    /\ UNCHANGED <<edges, outEdges, inEdges, outKeys, inKeys, edgeSeq>>

\* _add_to_adj_list.
Appended(adj, k, e) == [adj EXCEPT ![k] = @ \cup {e}]

AddEdge(s, d) ==
    /\ edgeSeq < MaxEdge
    /\ s \in nodes /\ d \in nodes
    /\ edgeSeq' = edgeSeq + 1
    /\ LET e == [id |-> edgeSeq + 1, src |-> s, dst |-> d]
       IN  /\ edges' = edges \cup {e}
           /\ outEdges' = Appended(outEdges, s, e)
           /\ inEdges' = Appended(inEdges, d, e)
    /\ outKeys' = outKeys \cup {s}
    /\ inKeys' = inKeys \cup {d}
    /\ UNCHANGED <<nodes, nodeSeq>>

\* The lists after _remove_inverse_edge_ref for each edge of gone, which touches
\* the lists that have a key only.
Removed(adj, keys, gone) ==
    [n \in NodeId |-> IF n \in keys THEN adj[n] \ gone ELSE adj[n]]

\* (An operator that precedes another and is not used is a plausible bug of the
\* next one, put in its place to test the properties.)
AllKeysStay(adj, keys, gone, ends) == keys

\* A list that becomes empty loses its key; ends are the nodes whose lists were
\* touched.
KeysLeft(adj, keys, gone, ends) == {n \in keys : n \notin ends \/ adj[n] \ gone # {}}

HasOutEdges(n) == n \in outKeys
HasEdges(n) == n \in outKeys \/ n \in inKeys

\* delete_node of a node without edges: the maps are not touched.
DeleteBare(n) ==
    /\ n \in nodes
    /\ ~HasEdges(n)
    /\ nodes' = nodes \ {n}
    /\ UNCHANGED <<edges, outEdges, inEdges, outKeys, inKeys, nodeSeq, edgeSeq>>

Pop(adj, n) == [adj EXCEPT ![n] = {}]

OutOnly(out, in) == out
Cut(out, in) == out \cup in

\* delete_node with cascade: pop the outgoing list and take its edges out of the
\* lists of their targets; then, a loop being gone by now, the same with the
\* incoming list.
DeleteCascade(n) ==
    /\ n \in nodes
    /\ HasEdges(n)
    /\ LET out  == outEdges[n]
           in1  == Removed(inEdges, inKeys, out)
           ink1 == KeysLeft(inEdges, inKeys, out, {e.dst : e \in out})
           in   == in1[n]
           out1 == Pop(outEdges, n)
           outk1 == outKeys \ {n}
       IN  /\ edges' = edges \ Cut(out, in)
           /\ outEdges' = Removed(out1, outk1, in)
           /\ outKeys' = KeysLeft(out1, outk1, in, {e.src : e \in in})
           /\ inEdges' = Pop(in1, n)
           /\ inKeys' = ink1 \ {n}
    /\ nodes' = nodes \ {n}
    /\ UNCHANGED <<nodeSeq, edgeSeq>>

Next ==
    \/ AddNode
    \/ \E s, d \in NodeId : AddEdge(s, d)
    \/ \E n \in NodeId : DeleteBare(n) \/ DeleteCascade(n)

Spec == Init /\ [][Next]_vars

-----------------------------------------------------------------------------

\* Every variable has its type.
TypeOK ==
    /\ nodes \in SUBSET NodeId
    /\ edges \in SUBSET Edge
    /\ outEdges \in [NodeId -> SUBSET Edge] /\ inEdges \in [NodeId -> SUBSET Edge]
    /\ outKeys \in SUBSET NodeId /\ inKeys \in SUBSET NodeId
    /\ nodeSeq \in 0 .. MaxNode /\ edgeSeq \in 0 .. MaxEdge

\* Every edge of the store is in the outgoing list of its source and in the
\* incoming list of its target, and these lists hold nothing else: a deletion
\* leaves no edge behind in the list of the other end, self-loops included.
ListsMatchEdges ==
    \A n \in NodeId :
        /\ outEdges[n] = {e \in edges : e.src = n}
        /\ inEdges[n] = {e \in edges : e.dst = n}

\* A map has a key exactly for the nodes with a list that is not empty: the test
\* of delete_node neither refuses a node without edges nor passes one with some.
KeysMatchLists ==
    \A n \in NodeId : /\ n \in outKeys <=> outEdges[n] # {}
                      /\ n \in inKeys <=> inEdges[n] # {}

\* No edge outlives an end: iter_out_edges leads to nodes that get_node finds.
NoDanglingEdge == \A e \in edges : e.src \in nodes /\ e.dst \in nodes

\* The store never holds more nodes than its capacity, whatever was deleted.
WithinCapacity == Cardinality(nodes) <= Capacity

\* The nodes and edges behave as a plain graph.
Graph == INSTANCE PropertyGraph

\* Every operation is one of a plain graph: the lists and keys decide nothing
\* that the graph itself would not (PropertyGraph).
GraphImplemented == Graph!Spec

=============================================================================
