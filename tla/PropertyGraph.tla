---------------------------- MODULE PropertyGraph ----------------------------
(***************************************************************************)
(* What a graph store promises: a set of nodes and a set of directed edges *)
(* between present nodes.  A node leaves only together with its edges.     *)
(* NebulaGraph implements it.                                              *)
(***************************************************************************)
CONSTANTS
    NodeId,
    Edge      \* records with fields src and dst in NodeId

VARIABLES nodes, edges

vars == <<nodes, edges>>

Incident(n) == {e \in edges : e.src = n \/ e.dst = n}

Init == nodes = {} /\ edges = {}

AddNode(n) ==
    /\ n \notin nodes
    /\ nodes' = nodes \cup {n}
    /\ UNCHANGED edges

AddEdge(e) ==
    /\ e \notin edges
    /\ {e.src, e.dst} \subseteq nodes
    /\ edges' = edges \cup {e}
    /\ UNCHANGED nodes

DeleteNode(n) ==
    /\ n \in nodes
    /\ nodes' = nodes \ {n}
    /\ edges' = edges \ Incident(n)

Next ==
    \/ \E n \in NodeId : AddNode(n) \/ DeleteNode(n)
    \/ \E e \in Edge : AddEdge(e)

Spec == Init /\ [][Next]_vars

=============================================================================
