-------------------------- MODULE NebulaGraphProofs --------------------------
(***************************************************************************)
(* The adjacency maps of NebulaGraph always mirror its edges, and with     *)
(* them the store implements a plain graph, for any capacity and bounds.   *)
(* A traversal of NebulaScan yields the nodes breadth first, whatever is   *)
(* written under it, misses no edge but by a list that shrinks, and gives  *)
(* each node a depth that is a distance.  A search of NebulaPaths finds a  *)
(* cheapest way, for any weights that are not negative.                    *)
(***************************************************************************)
EXTENDS NebulaPaths, FiniteSetTheorems, WellFoundedInduction, TLAPS

\* Ids are given out in increasing order and not twice.
IdsFresh ==
    /\ \A n \in nodes : n <= nodeSeq
    /\ \A e \in edges : e.id <= edgeSeq

Inv ==
    /\ TypeOK
    /\ ListsMatchEdges
    /\ KeysMatchLists
    /\ NoDanglingEdge
    /\ IdsFresh

\* An empty store satisfies the invariant.
LEMMA InvInit == Init => Inv
    BY ConstantsOK DEF Init, Inv, TypeOK, ListsMatchEdges, KeysMatchLists,
        NoDanglingEdge, IdsFresh

\* Adding a node disturbs no edge.
LEMMA AddNodeInv == Inv /\ AddNode => Inv'
<1>. SUFFICES ASSUME Inv, AddNode PROVE Inv'
    OBVIOUS
<1>. USE ConstantsOK DEF Inv, AddNode
<1>1. TypeOK'
    BY DEF TypeOK, NodeId
<1>2. ListsMatchEdges' /\ KeysMatchLists' /\ NoDanglingEdge'
    BY DEF ListsMatchEdges, KeysMatchLists, NoDanglingEdge
<1>3. IdsFresh'
    BY DEF IdsFresh, TypeOK, NodeId
<1>. QED
    BY <1>1, <1>2, <1>3

\* A new edge enters both maps under the keys of its ends.
LEMMA AddEdgeInv ==
    ASSUME Inv, NEW s \in NodeId, NEW d \in NodeId, AddEdge(s, d)
    PROVE  Inv'
<1>. DEFINE e == [id |-> edgeSeq + 1, src |-> s, dst |-> d]
<1>0. /\ e \in Edge /\ e.src = s /\ e.dst = d
      /\ edges' = edges \cup {e}
      /\ outEdges' = [outEdges EXCEPT ![s] = @ \cup {e}]
      /\ inEdges' = [inEdges EXCEPT ![d] = @ \cup {e}]
      /\ outKeys' = outKeys \cup {s} /\ inKeys' = inKeys \cup {d}
      /\ edgeSeq' = edgeSeq + 1 /\ edgeSeq' \in 0 .. MaxEdge
      /\ s \in nodes /\ d \in nodes /\ UNCHANGED <<nodes, nodeSeq>>
    BY ConstantsOK DEF AddEdge, Appended, Inv, TypeOK, Edge
<1>. HIDE DEF e
<1>1. TypeOK'
    BY <1>0 DEF Inv, TypeOK
<1>2. ListsMatchEdges'
    BY <1>0 DEF Inv, TypeOK, ListsMatchEdges
<1>3. KeysMatchLists'
    BY <1>0 DEF Inv, TypeOK, KeysMatchLists
<1>4. NoDanglingEdge'
    BY <1>0 DEF Inv, NoDanglingEdge
<1>5. IdsFresh'
    <2>1. e.id = edgeSeq + 1
        BY DEF e
    <2>. QED
        BY <1>0, <2>1, ConstantsOK DEF Inv, TypeOK, IdsFresh, Edge
<1>. QED
    BY <1>1, <1>2, <1>3, <1>4, <1>5 DEF Inv

\* A node that no map has a key for has no edges.
LEMMA DeleteBareInv ==
    ASSUME Inv, NEW n \in NodeId, DeleteBare(n)
    PROVE  /\ Inv'
           /\ \A e \in edges : e.src # n /\ e.dst # n
<1>1. \A e \in edges : e.src # n /\ e.dst # n
    BY DEF Inv, DeleteBare, HasEdges, KeysMatchLists, ListsMatchEdges
<1>. QED
    BY <1>1 DEF Inv, DeleteBare, TypeOK, KeysMatchLists, ListsMatchEdges,
        NoDanglingEdge, IdsFresh

\* A cascade removes the edges of the node, from every list, and their keys.
LEMMA CascadeEffect ==
    ASSUME Inv, NEW n \in NodeId, DeleteCascade(n)
    PROVE  /\ nodes' = nodes \ {n}
           /\ edges' = {e \in edges : e.src # n /\ e.dst # n}
           /\ outEdges' = [k \in NodeId |-> {e \in edges' : e.src = k}]
           /\ inEdges' = [k \in NodeId |-> {e \in edges' : e.dst = k}]
           /\ outKeys' = {k \in NodeId : outEdges'[k] # {}}
           /\ inKeys' = {k \in NodeId : inEdges'[k] # {}}
           /\ UNCHANGED <<nodeSeq, edgeSeq>>
<1>. DEFINE out   == outEdges[n]
            in1   == Removed(inEdges, inKeys, out)
            ink1  == KeysLeft(inEdges, inKeys, out, {e.dst : e \in out})
            in    == in1[n]
            out1  == Pop(outEdges, n)
            outk1 == outKeys \ {n}
<1>1. /\ out = {e \in edges : e.src = n}
      /\ \A k \in NodeId : in1[k] = {e \in edges : e.dst = k /\ e.src # n}
    BY DEF Inv, ListsMatchEdges, KeysMatchLists, Removed
<1>2. in = {e \in edges : e.dst = n /\ e.src # n}
    BY <1>1
<1>3. \A k \in NodeId : k \in ink1 <=> in1[k] # {}
    BY <1>1 DEF Inv, KeysLeft, KeysMatchLists, ListsMatchEdges, Removed
<1>4. /\ edges' = edges \ (out \cup in)
      /\ outEdges' = Removed(out1, outk1, in)
      /\ outKeys' = KeysLeft(out1, outk1, in, {e.src : e \in in})
      /\ inEdges' = Pop(in1, n)
      /\ inKeys' = ink1 \ {n}
      /\ nodes' = nodes \ {n} /\ UNCHANGED <<nodeSeq, edgeSeq>>
    BY DEF DeleteCascade, Cut
<1>5. \A e \in edges : e.src \in NodeId /\ e.dst \in NodeId
    BY DEF Inv, TypeOK, Edge
<1>6. /\ \A k \in NodeId : out1[k] = IF k = n THEN {} ELSE {e \in edges : e.src = k}
      /\ outk1 = {k \in NodeId : k # n /\ outEdges[k] # {}}
      /\ \A k \in NodeId : outEdges[k] = {e \in edges : e.src = k}
    BY DEF Inv, TypeOK, Pop, ListsMatchEdges, KeysMatchLists
<1>7. in1 \in [NodeId -> SUBSET edges]
    BY <1>1 DEF Removed
<1>. HIDE DEF out, in1, ink1, in, out1, outk1
<1>8. edges' = {e \in edges : e.src # n /\ e.dst # n}
    BY <1>1, <1>2, <1>4
<1>9. /\ outEdges' = [k \in NodeId |-> {e \in edges' : e.src = k}]
      /\ \A k \in NodeId : k \in outKeys' <=> outEdges'[k] # {}
    <2>1. outEdges' = [k \in NodeId |-> IF k \in outk1 THEN out1[k] \ in ELSE out1[k]]
        BY <1>4 DEF Removed
    <2>2. \A k \in NodeId : outEdges'[k] = {e \in edges' : e.src = k}
        BY <2>1, <1>2, <1>6, <1>8
    <2>3. \A k \in NodeId : k \in outk1 =>
            (k \in outKeys' <=> k \notin {e.src : e \in in} \/ out1[k] \ in # {})
        BY <1>4 DEF KeysLeft
    <2>4. \A k \in outk1 : out1[k] \ in = outEdges'[k]
        BY <2>1, <1>6
    <2>5. \A k \in outk1 : k \notin {e.src : e \in in} => outEdges'[k] # {}
        BY <1>2, <1>6, <2>4
    <2>6. \A k \in NodeId : k \notin outk1 => k \notin outKeys' /\ outEdges'[k] = {}
        BY <1>4, <1>6, <2>1 DEF KeysLeft
    <2>. QED
        BY <2>1, <2>2, <2>3, <2>4, <2>5, <2>6
<1>10. /\ inEdges' = [k \in NodeId |-> {e \in edges' : e.dst = k}]
       /\ \A k \in NodeId : k \in inKeys' <=> inEdges'[k] # {}
    <2>1. inEdges' = [k \in NodeId |-> IF k = n THEN {} ELSE in1[k]]
        BY <1>4, <1>7 DEF Pop
    <2>2. \A k \in NodeId : inEdges'[k] = {e \in edges' : e.dst = k}
        BY <2>1, <1>1, <1>8
    <2>3. \A k \in NodeId : k \in inKeys' <=> inEdges'[k] # {}
        BY <2>1, <1>3, <1>4
    <2>. QED
        BY <2>1, <2>2, <2>3
<1>11. outKeys' \subseteq NodeId /\ inKeys' \subseteq NodeId
    BY <1>4, <1>6 DEF KeysLeft, Inv, TypeOK, ink1
<1>. QED
    BY <1>4, <1>8, <1>9, <1>10, <1>11

\* Therefore the cascade preserves the invariant.
LEMMA DeleteCascadeInv ==
    ASSUME Inv, NEW n \in NodeId, DeleteCascade(n)
    PROVE  Inv'
<1>1. /\ edges' \subseteq edges
      /\ nodes' \subseteq nodes
      /\ \A k \in NodeId : outEdges'[k] \subseteq edges /\ inEdges'[k] \subseteq edges
    BY CascadeEffect
<1>2. TypeOK'
    BY <1>1, CascadeEffect DEF Inv, TypeOK
<1>3. ListsMatchEdges' /\ KeysMatchLists'
    BY CascadeEffect DEF ListsMatchEdges, KeysMatchLists
<1>4. NoDanglingEdge'
    BY CascadeEffect DEF Inv, NoDanglingEdge
<1>5. IdsFresh'
    BY <1>1, CascadeEffect DEF Inv, IdsFresh
<1>. QED
    BY <1>2, <1>3, <1>4, <1>5 DEF Inv

\* No step breaks the invariant.
LEMMA InvNext == Inv /\ [Next]_vars => Inv'
<1>1. ASSUME Inv, UNCHANGED vars PROVE Inv'
    BY <1>1 DEF vars, Inv, TypeOK, ListsMatchEdges, KeysMatchLists, NoDanglingEdge, IdsFresh
<1>. QED
    BY <1>1, AddNodeInv, AddEdgeInv, DeleteBareInv, DeleteCascadeInv DEF Next

\* The invariant holds in every state of every behaviour.
THEOREM InvHolds == Spec => []Inv
    BY InvInit, InvNext, PTL DEF Spec

\* Both adjacency maps mirror the edges of the store after any operations
\* (_add_to_adj_list, _remove_inverse_edge_ref and the pops of delete_node).
THEOREM ListsMirrorEdges == Spec => []ListsMatchEdges
<1>1. Inv => ListsMatchEdges
    BY DEF Inv
<1>. QED
    BY <1>1, InvHolds, PTL

\* The presence of a key tells whether a node has edges, which is what
\* delete_node takes it for.
THEOREM KeysTellEdges == Spec => []KeysMatchLists
<1>1. Inv => KeysMatchLists
    BY DEF Inv
<1>. QED
    BY <1>1, InvHolds, PTL

\* delete_node never leaves an edge to or from a node that is gone.
THEOREM NothingDangles == Spec => []NoDanglingEdge
<1>1. Inv => NoDanglingEdge
    BY DEF Inv
<1>. QED
    BY <1>1, InvHolds, PTL

-----------------------------------------------------------------------------

\* The capacity counts nodes that are present, and a deletion frees a place.
THEOREM CapacityKept == Spec => []WithinCapacity
<1>. DEFINE Bounded == IsFiniteSet(nodes) /\ WithinCapacity
<1>1. Init => Bounded
    BY FS_EmptySet, ConstantsOK DEF Init, WithinCapacity
<1>2. Bounded /\ [Next]_vars => Bounded'
    <2>. SUFFICES ASSUME Bounded, [Next]_vars PROVE Bounded'
        OBVIOUS
    <2>1. CASE AddNode
        <3>1. /\ IsFiniteSet(nodes')
              /\ Cardinality(nodes') <= Cardinality(nodes) + 1
            <4>1. nodes' = nodes \cup {nodeSeq + 1} /\ IsFiniteSet(nodes)
                BY <2>1 DEF AddNode
            <4>2. /\ IsFiniteSet(nodes \cup {nodeSeq + 1})
                  /\ \/ Cardinality(nodes \cup {nodeSeq + 1}) = Cardinality(nodes)
                     \/ Cardinality(nodes \cup {nodeSeq + 1}) = Cardinality(nodes) + 1
                BY <4>1, FS_AddElement
            <4>. QED
                BY <4>1, <4>2, FS_CardinalityType
        <3>. QED
            BY <2>1, <3>1, FS_CardinalityType, ConstantsOK
                DEF AddNode, Room, WithinCapacity
    <2>2. CASE nodes' \subseteq nodes
        <3>1. IsFiniteSet(nodes') /\ Cardinality(nodes') <= Cardinality(nodes)
            BY <2>2, FS_Subset
        <3>. QED
            BY <3>1, <2>2, FS_CardinalityType, ConstantsOK DEF WithinCapacity
    <2>. QED
        BY <2>1, <2>2 DEF Next, AddEdge, DeleteBare, DeleteCascade, vars
<1>3. Bounded => WithinCapacity
    OBVIOUS
<1>. QED
    BY <1>1, <1>2, <1>3, PTL DEF Spec

\* The store implements a plain graph: each operation, taken with the adjacency
\* maps it keeps, changes nodes and edges as PropertyGraph does.
THEOREM ImplementsGraph == Spec => GraphImplemented
<1>1. Init => Graph!Init
    BY DEF Init, Graph!Init
<1>2. Inv /\ [Next]_vars => [Graph!Next]_(Graph!vars)
    <2>. SUFFICES ASSUME Inv, [Next]_vars PROVE [Graph!Next]_(Graph!vars)
        OBVIOUS
    <2>1. ASSUME AddNode PROVE Graph!Next
        <3>1. nodeSeq + 1 \in NodeId /\ nodeSeq + 1 \notin nodes
            BY <2>1, ConstantsOK DEF AddNode, Inv, TypeOK, NodeId, IdsFresh
        <3>. QED
            BY <2>1, <3>1 DEF AddNode, Graph!Next, Graph!AddNode
    <2>2. ASSUME NEW s \in NodeId, NEW d \in NodeId, AddEdge(s, d) PROVE Graph!Next
        <3>. DEFINE e == [id |-> edgeSeq + 1, src |-> s, dst |-> d]
        <3>1. e \in Edge /\ e \notin edges
            BY <2>2, ConstantsOK DEF AddEdge, Inv, TypeOK, Edge, IdsFresh
        <3>2. Graph!AddEdge(e)
            BY <2>2, <3>1 DEF AddEdge, Graph!AddEdge
        <3>. QED
            BY <3>1, <3>2 DEF Graph!Next
    <2>3. ASSUME NEW n \in NodeId, DeleteBare(n) PROVE Graph!Next
        BY <2>3, DeleteBareInv DEF DeleteBare, Graph!Next, Graph!DeleteNode, Graph!Incident
    <2>4. ASSUME NEW n \in NodeId, DeleteCascade(n) PROVE Graph!Next
        <3>1. n \in nodes
            BY <2>4 DEF DeleteCascade
        <3>. QED
            BY <2>4, <3>1, CascadeEffect DEF Graph!Next, Graph!DeleteNode, Graph!Incident
    <2>5. CASE UNCHANGED vars
        BY <2>5 DEF vars, Graph!vars
    <2>. QED
        BY <2>1, <2>2, <2>3, <2>4, <2>5 DEF Next
<1>. QED
    BY <1>1, <1>2, InvHolds, PTL DEF Spec, GraphImplemented, Graph!Spec

-----------------------------------------------------------------------------
(* The store under a traversal. *)

Once(E) == \A e, f \in E : e.id = f.id => e = f

\* What NebulaScan needs to know of the store: its ids are given once.
Store == Inv /\ Once(edges) /\ IsFiniteSet(edges)

\* A write deletes edges, or adds one whose id is beyond all.
LEMMA WriteEffect ==
    ASSUME Store, Next
    PROVE  /\ Store' /\ edgeSeq' >= edgeSeq
           /\ \A e \in edges' : e \in edges \/ (e \in Edge /\ e.id = edgeSeq + 1)
           /\ \A e \in edges' \ edges : edgeSeq' = edgeSeq + 1
           /\ Once(edges' \ edges)
<1>1. Inv' /\ edgeSeq \in Nat
    BY InvNext DEF Store, Inv, TypeOK
<1>2. CASE edges' \subseteq edges /\ edgeSeq' = edgeSeq
  <2>1. IsFiniteSet(edges')
      BY <1>2, FS_Subset DEF Store
  <2>. QED
      BY <1>1, <1>2, <2>1 DEF Store, Once
<1>3. ASSUME NEW s \in NodeId, NEW d \in NodeId, AddEdge(s, d)
      PROVE  \E e \in Edge : e.id = edgeSeq + 1 /\ edges' = edges \cup {e}
                             /\ edgeSeq' = edgeSeq + 1
  <2>1. edgeSeq + 1 \in 1 .. MaxEdge
      BY <1>1, <1>3, ConstantsOK DEF AddEdge
  <2>. QED
      BY <1>3, <2>1 DEF AddEdge, Edge
<1>4. ASSUME NEW e \in Edge, e.id = edgeSeq + 1, edges' = edges \cup {e},
             edgeSeq' = edgeSeq + 1
      PROVE  /\ Store' /\ edgeSeq' >= edgeSeq
             /\ \A f \in edges' : f \in edges \/ (f \in Edge /\ f.id = edgeSeq + 1)
             /\ \A f \in edges' \ edges : edgeSeq' = edgeSeq + 1
             /\ Once(edges' \ edges)
  <2>1. IsFiniteSet(edges')
      BY <1>4, FS_AddElement DEF Store
  <2>2. \A f \in edges : f.id <= edgeSeq /\ f.id \in Nat
      BY DEF Store, Inv, IdsFresh, TypeOK, Edge
  <2>3. Once(edges')
      BY <1>1, <1>4, <2>2 DEF Store, Once
  <2>. QED
      BY <1>1, <1>4, <2>1, <2>3 DEF Store, Once
<1>5. CASE AddNode
    BY <1>2, <1>5 DEF AddNode
<1>6. ASSUME NEW n \in NodeId, DeleteBare(n) \/ DeleteCascade(n)
      PROVE  edges' \subseteq edges /\ edgeSeq' = edgeSeq
    BY <1>6 DEF DeleteBare, DeleteCascade
<1>. QED
    BY <1>2, <1>3, <1>4, <1>5, <1>6 DEF Next

-----------------------------------------------------------------------------
(* The queue. *)

Seen == [node : Nat, depth : Nat]

\* Rising(q): depths rise and nodes differ along q.
Rising(q) ==
    \A i, j \in 1 .. Len(q) : i < j => q[i].depth <= q[j].depth /\ q[i].node # q[j].node

\* What is queued is a hop beyond what was yielded at most, and a node is in one
\* of both places, once.
Breadth ==
    /\ yielded \in Seq(Seen) /\ queue \in Seq(Seen) /\ current \in Seen
    /\ visited \subseteq NodeId
    /\ phase = "none" => yielded = << >> /\ current.depth = 0
    /\ phase \in {"none", "pop", "yielded", "walk"}
    /\ phase \in {"yielded", "walk"} => current.node \in visited
    /\ Rising(yielded) /\ Rising(queue)
    /\ \A i \in 1 .. Len(yielded) :
          yielded[i].node \in visited /\ yielded[i].depth <= current.depth
    /\ \A j \in 1 .. Len(queue) :
          /\ queue[j].node \in visited
          /\ current.depth <= queue[j].depth /\ queue[j].depth <= current.depth + 1
    /\ \A i \in 1 .. Len(yielded) : \A j \in 1 .. Len(queue) :
          yielded[i].node # queue[j].node

LEMMA YieldBreadth == ASSUME Breadth, Yield PROVE Breadth'
<1>1. /\ phase' = "yielded" /\ current' = Head(queue) /\ queue' = Tail(queue)
      /\ yielded' = Append(yielded, Head(queue)) /\ visited' = visited
      /\ queue # << >>
    BY DEF Yield
<1>2. /\ yielded \in Seq(Seen) /\ queue \in Seq(Seen) /\ Len(queue) \in Nat
      /\ Len(yielded) \in Nat /\ Len(queue) > 0 /\ queue[1] \in Seen
      /\ Head(queue) = queue[1]
    BY <1>1 DEF Breadth
<1>3. /\ queue' \in Seq(Seen) /\ Len(queue') = Len(queue) - 1
      /\ \A j \in 1 .. Len(queue') : j + 1 \in 1 .. Len(queue) /\ queue'[j] = queue[j + 1]
    BY <1>1, <1>2
<1>4. /\ yielded' \in Seq(Seen) /\ Len(yielded') = Len(yielded) + 1
      /\ \A i \in 1 .. Len(yielded) : yielded'[i] = yielded[i]
      /\ yielded'[Len(yielded) + 1] = queue[1]
      /\ \A i \in 1 .. Len(yielded') : i \in 1 .. Len(yielded) \/ i = Len(yielded) + 1
    BY <1>1, <1>2
<1>5. /\ \A i \in 1 .. Len(yielded) : yielded[i] \in Seen
      /\ \A j \in 1 .. Len(queue) : queue[j] \in Seen
    BY <1>2
<1>6. /\ 1 \in 1 .. Len(queue) /\ current.depth \in Nat /\ queue[1].depth \in Nat
      /\ queue[1].node \in visited
      /\ current.depth <= queue[1].depth /\ queue[1].depth <= current.depth + 1
    BY <1>2 DEF Breadth, Seen
<1>7. /\ \A i \in 1 .. Len(yielded) : yielded[i].depth \in Nat
      /\ \A j \in 1 .. Len(queue) : queue[j].depth \in Nat
    BY <1>5 DEF Seen
<1>8. Rising(queue')
  <2>1. ASSUME NEW i \in 1 .. Len(queue'), NEW j \in 1 .. Len(queue'), i < j
        PROVE  queue'[i].depth <= queue'[j].depth /\ queue'[i].node # queue'[j].node
    <3>1. i + 1 \in 1 .. Len(queue) /\ j + 1 \in 1 .. Len(queue) /\ i + 1 < j + 1
        BY <1>3, <2>1
    <3>2. queue[i + 1].depth <= queue[j + 1].depth /\ queue[i + 1].node # queue[j + 1].node
        BY <3>1 DEF Breadth, Rising
    <3>. QED
        BY <1>3, <3>2
  <2>. QED
      BY <2>1 DEF Rising
<1>9. \A i \in 1 .. Len(yielded') :
          yielded'[i].node \in visited /\ yielded'[i].depth <= queue[1].depth
  <2>1. ASSUME NEW i \in 1 .. Len(yielded)
        PROVE  yielded[i].node \in visited /\ yielded[i].depth <= queue[1].depth
    <3>1. yielded[i].node \in visited /\ yielded[i].depth <= current.depth
        BY DEF Breadth
    <3>. QED
        BY <1>6, <1>7, <3>1
  <2>. QED
      BY <1>4, <1>6, <2>1
<1>10. Rising(yielded')
  <2>1. ASSUME NEW i \in 1 .. Len(yielded'), NEW j \in 1 .. Len(yielded'), i < j
        PROVE  yielded'[i].depth <= yielded'[j].depth /\ yielded'[i].node # yielded'[j].node
    <3>1. i \in 1 .. Len(yielded)
        BY <1>2, <1>4, <2>1
    <3>2. CASE j \in 1 .. Len(yielded)
        BY <1>4, <2>1, <3>1, <3>2 DEF Breadth, Rising
    <3>3. CASE j = Len(yielded) + 1
      <4>1. yielded[i].node # queue[1].node
          BY <1>6, <3>1 DEF Breadth
      <4>. QED
          BY <1>4, <1>9, <3>1, <3>3, <4>1
    <3>. QED
        BY <1>4, <3>2, <3>3
  <2>. QED
      BY <2>1 DEF Rising
<1>11. \A j \in 1 .. Len(queue') :
          /\ queue'[j].node \in visited
          /\ queue[1].depth <= queue'[j].depth /\ queue'[j].depth <= queue[1].depth + 1
          /\ queue'[j].node # queue[1].node
  <2>1. ASSUME NEW j \in 1 .. Len(queue')
        PROVE  /\ queue[j + 1].node \in visited
               /\ queue[1].depth <= queue[j + 1].depth
               /\ queue[j + 1].depth <= queue[1].depth + 1
               /\ queue[j + 1].node # queue[1].node
    <3>1. j + 1 \in 1 .. Len(queue) /\ 1 < j + 1
        BY <1>3
    <3>2. queue[j + 1].node \in visited /\ queue[j + 1].depth <= current.depth + 1
        BY <3>1 DEF Breadth
    <3>3. queue[1].depth <= queue[j + 1].depth /\ queue[j + 1].node # queue[1].node
        BY <1>6, <3>1 DEF Breadth, Rising
    <3>4. queue[j + 1].depth \in Nat
        BY <1>7, <3>1
    <3>. DEFINE d == queue[j + 1].depth  e == queue[1].depth  f == current.depth
    <3>5. d \in Nat /\ e \in Nat /\ f \in Nat /\ f <= e /\ d <= f + 1
        BY <1>6, <3>2, <3>4
    <3>. HIDE DEF d, e, f
    <3>6. d <= e + 1
        BY <3>5
    <3>. QED
        BY <3>2, <3>3, <3>6 DEF d, e
  <2>2. \A j \in 1 .. Len(queue') : queue'[j] = queue[j + 1]
      BY <1>3, Zenon
  <2>. QED
      BY <2>1, <2>2, Zenon
<1>12. ASSUME NEW i \in 1 .. Len(yielded'), NEW j \in 1 .. Len(queue')
       PROVE  yielded'[i].node # queue'[j].node
  <2>1. CASE i \in 1 .. Len(yielded)
    <3>1. yielded[i].node # queue[j + 1].node
        BY <1>3, <2>1 DEF Breadth
    <3>. QED
        BY <1>3, <1>4, <2>1, <3>1
  <2>2. CASE i = Len(yielded) + 1
      BY <1>4, <1>11, <2>2
  <2>. QED
      BY <1>4, <2>1, <2>2
<1>. QED
  <2>1. current' = queue[1] /\ current' \in Seen /\ visited' \subseteq NodeId
      BY <1>1, <1>2 DEF Breadth
  <2>. QED
      BY <1>1, <1>3, <1>4, <1>6, <1>8, <1>9, <1>10, <1>11, <1>12, <2>1 DEF Breadth

\* The end of an edge is queued last and deepest, unless it has been before.
LEMMA WalkBreadth ==
    ASSUME Breadth, Walk, list \subseteq Edge PROVE Breadth'
<1>1. PICK e \in list :
          /\ visited' = visited \cup {e.dst}
          /\ queue' = IF e.dst \in visited THEN queue
                      ELSE Append(queue, Visit(e.dst, current.depth + 1))
    BY DEF Walk, QueuedUp, Deeper
<1>2. /\ phase = "walk" /\ UNCHANGED <<phase, current, yielded>>
    BY DEF Walk
<1>3. /\ e.dst \in NodeId /\ e.dst \in Nat /\ current.depth \in Nat
      /\ current.depth + 1 \in Nat
    BY DEF Edge, NodeId, Breadth, Seen
<1>4. visited' \subseteq NodeId /\ visited \subseteq visited'
    BY <1>1, <1>3 DEF Breadth
<1>5. CASE e.dst \in visited
  <2>1. queue' = queue /\ visited' = visited
      BY <1>1, <1>5
  <2>. QED
      BY <1>2, <2>1 DEF Breadth, Rising
<1>6. CASE e.dst \notin visited
  <2>. DEFINE v == Visit(e.dst, current.depth + 1)
  <2>1. v \in Seen /\ v.node = e.dst /\ v.depth = current.depth + 1
      BY <1>3 DEF Visit, Seen
  <2>2. queue' = Append(queue, v)
      BY <1>1, <1>6
  <2>. HIDE DEF v
  <2>3. /\ queue \in Seq(Seen) /\ Len(queue) \in Nat
        /\ \A j \in 1 .. Len(queue) : queue[j].depth \in Nat
    <3>1. queue \in Seq(Seen) /\ Len(queue) \in Nat
        BY DEF Breadth
    <3>2. \A j \in 1 .. Len(queue) : queue[j] \in Seen
        BY <3>1
    <3>. QED
        BY <3>1, <3>2 DEF Seen
  <2>4. /\ queue' \in Seq(Seen) /\ Len(queue') = Len(queue) + 1
        /\ \A j \in 1 .. Len(queue) : queue'[j] = queue[j]
        /\ queue'[Len(queue) + 1] = v
        /\ \A j \in 1 .. Len(queue') : j \in 1 .. Len(queue) \/ j = Len(queue) + 1
      BY <2>1, <2>2, <2>3
  <2>5. Rising(queue')
    <3>1. ASSUME NEW i \in 1 .. Len(queue'), NEW j \in 1 .. Len(queue'), i < j
          PROVE  queue'[i].depth <= queue'[j].depth /\ queue'[i].node # queue'[j].node
      <4>1. i \in 1 .. Len(queue)
          BY <2>3, <2>4, <3>1
      <4>2. CASE j \in 1 .. Len(queue)
          BY <2>4, <3>1, <4>1, <4>2 DEF Breadth, Rising
      <4>3. CASE j = Len(queue) + 1
          BY <1>6, <2>1, <2>4, <4>1, <4>3 DEF Breadth
      <4>. QED
          BY <2>4, <4>2, <4>3
    <3>. QED
        BY <3>1 DEF Rising
  <2>6. \A j \in 1 .. Len(queue') :
            /\ queue'[j].node \in visited'
            /\ current.depth <= queue'[j].depth /\ queue'[j].depth <= current.depth + 1
    <3>1. ASSUME NEW j \in 1 .. Len(queue)
          PROVE  /\ queue'[j].node \in visited'
                 /\ current.depth <= queue'[j].depth
                 /\ queue'[j].depth <= current.depth + 1
        BY <1>4, <2>4 DEF Breadth
    <3>2. /\ v.node \in visited' /\ current.depth <= v.depth
          /\ v.depth <= current.depth + 1
        BY <1>1, <1>3, <2>1
    <3>. QED
        BY <2>4, <3>1, <3>2
  <2>7. ASSUME NEW i \in 1 .. Len(yielded), NEW j \in 1 .. Len(queue')
        PROVE  yielded[i].node # queue'[j].node
    <3>1. CASE j \in 1 .. Len(queue)
        BY <2>4, <3>1 DEF Breadth
    <3>2. CASE j = Len(queue) + 1
      <4>1. yielded[i].node \in visited
          BY DEF Breadth
      <4>. QED
          BY <1>6, <2>1, <2>4, <3>2, <4>1
    <3>. QED
        BY <2>4, <3>1, <3>2
  <2>8. \A i \in 1 .. Len(yielded) :
            yielded[i].node \in visited' /\ yielded[i].depth <= current.depth
      BY <1>4 DEF Breadth
  <2>. QED
      BY <1>2, <1>4, <2>4, <2>5, <2>6, <2>7, <2>8 DEF Breadth, Rising
<1>. QED
    BY <1>5, <1>6

LEMMA OtherBreadth ==
    ASSUME Breadth, Write \/ (\E s \in NodeId : Call(s)) \/ Open \/ Exhaust
    PROVE  Breadth'
<1>1. ASSUME NEW s \in NodeId, Call(s) PROVE Breadth'
  <2>1. /\ phase' = "pop" /\ visited' = {s} /\ queue' = <<Visit(s, 0)>>
        /\ UNCHANGED <<yielded, current>>
        /\ yielded = << >> /\ current \in Seen /\ current.depth = 0
      BY <1>1 DEF Call, Breadth
  <2>2. Visit(s, 0) \in Seen /\ Visit(s, 0).node = s /\ Visit(s, 0).depth = 0
      BY DEF Visit, Seen, NodeId
  <2>3. /\ queue' \in Seq(Seen) /\ Len(queue') = 1 /\ queue'[1] = Visit(s, 0)
        /\ yielded' \in Seq(Seen) /\ Len(yielded') = 0
      BY <2>1, <2>2
  <2>4. Rising(queue') /\ Rising(yielded')
      BY <2>3 DEF Rising
  <2>. QED
      BY <2>1, <2>2, <2>3, <2>4 DEF Breadth, Rising
<1>2. CASE Write
  <2>1. UNCHANGED <<phase, visited, queue, current, yielded>>
      BY <1>2 DEF Write
  <2>. QED
      BY <2>1 DEF Breadth, Rising
<1>3. CASE Open \/ Exhaust
  <2>1. /\ UNCHANGED <<visited, queue, current, yielded>>
        /\ phase' \in {"pop", "walk"} /\ phase \in {"yielded", "walk"}
      BY <1>3 DEF Open, Exhaust
  <2>. QED
      BY <2>1 DEF Breadth, Rising
<1>. QED
    BY <1>1, <1>2, <1>3

-----------------------------------------------------------------------------
(* The list. *)

\* The position of an edge in a list.
Rank(l, e) == Cardinality({f \in l : f.id < e.id})

LEMMA Ranks ==
    ASSUME NEW l \in SUBSET Edge, IsFiniteSet(l), NEW e \in l
    PROVE  /\ Rank(l, e) \in Nat /\ Cardinality(l) \in Nat
           /\ Rank(l, e) < Cardinality(l)
           /\ \A f \in l : e.id < f.id => Rank(l, e) < Rank(l, f)
<1>1. e.id \in Nat /\ \A f \in l : f.id \in Nat
    BY DEF Edge
<1>2. ASSUME NEW T \in SUBSET l, e \in T, \A f \in l : f.id < e.id => f \in T
      PROVE  /\ Rank(l, e) \in Nat /\ Cardinality(T) \in Nat
             /\ Rank(l, e) < Cardinality(T)
  <2>. DEFINE S == {f \in l : f.id < e.id}
  <2>1. IsFiniteSet(T) /\ S \subseteq T /\ S # T
      BY <1>1, <1>2, FS_Subset
  <2>2. IsFiniteSet(S) /\ Cardinality(S) <= Cardinality(T)
        /\ (Cardinality(S) = Cardinality(T) => S = T)
      BY <2>1, FS_Subset
  <2>3. Cardinality(S) \in Nat /\ Cardinality(T) \in Nat
      BY <2>1, <2>2, FS_CardinalityType
  <2>. QED
      BY <2>1, <2>2, <2>3 DEF Rank
<1>3. Rank(l, e) \in Nat /\ Cardinality(l) \in Nat /\ Rank(l, e) < Cardinality(l)
    BY <1>2
<1>4. ASSUME NEW f \in l, e.id < f.id PROVE Rank(l, e) < Rank(l, f)
  <2>. DEFINE T == {g \in l : g.id < f.id}
  <2>1. T \in SUBSET l /\ e \in T /\ \A g \in l : g.id < e.id => g \in T
      BY <1>1, <1>4
  <2>2. Rank(l, e) < Cardinality(T)
      BY <1>2, <2>1
  <2>. QED
      BY <2>2 DEF Rank
<1>. QED
    BY <1>3, <1>4

\* A list that only grows at its end leaves the edges before a position there.
LEMMA Grown ==
    ASSUME NEW m \in SUBSET Edge, IsFiniteSet(m), NEW l \in SUBSET m,
           \A e \in m \ l : \A f \in l : f.id < e.id,
           NEW k \in Nat, k <= Cardinality(l), NEW e \in m, Rank(m, e) < k
    PROVE  e \in l /\ Rank(l, e) < k
<1>. DEFINE S == {f \in l : f.id < e.id}
            T == {f \in m : f.id < e.id}
<1>1. IsFiniteSet(T) /\ IsFiniteSet(l) /\ S \subseteq T
    BY FS_Subset
<1>2. IsFiniteSet(S) /\ Cardinality(S) <= Cardinality(T)
    BY <1>1, FS_Subset
<1>3. /\ Cardinality(S) \in Nat /\ Cardinality(T) \in Nat /\ Cardinality(l) \in Nat
      /\ Cardinality(T) < k
    BY <1>1, <1>2, FS_CardinalityType DEF Rank
<1>4. e \in l
  <2>1. CASE l \subseteq T
    <3>1. Cardinality(l) <= Cardinality(T)
        BY <1>1, <2>1, FS_Subset
    <3>. QED
        BY <1>3, <3>1
  <2>. QED
      BY <2>1
<1>. QED
    BY <1>2, <1>3, <1>4 DEF Rank

-----------------------------------------------------------------------------
(* What a traversal finds. *)

\* Every edge since the call has been seen, and the ids since are new.
History ==
    phase # "none" =>
        /\ edges \subseteq seen /\ seen \subseteq Edge /\ IsFiniteSet(seen) /\ Once(seen)
        /\ mark \in Nat /\ mark <= edgeSeq
        /\ \A e \in seen : e.id <= edgeSeq

Own(n) == {e \in seen : e.src = n}

\* If no edge of n is gone, the ends of those of the call have been visited.
Settled(n) == Own(n) \subseteq edges => \A e \in Own(n) \cap AtCall : e.dst \in visited

\* The list is that of the current node as long as this has it and, if no edge of
\* the node is gone, the ends of the edges before the position have been visited.
Walking ==
    phase = "walk" =>
        /\ list \subseteq seen /\ next \in Nat
        /\ live => list = outEdges[current.node]
        /\ Own(current.node) \subseteq edges =>
              /\ Own(current.node) \cap AtCall \subseteq list
              /\ next <= Cardinality(list)
              /\ \A e \in list : Rank(list, e) < next => e.dst \in visited

LeftBehind ==
    \A i \in 1 .. Len(yielded) :
        /\ yielded[i].depth < MaxDepth
        /\ yielded[i] # current \/ phase = "pop"
        => Settled(yielded[i].node)

NotLive == phase \in {"none", "pop", "yielded"} => live = FALSE

ScanInv == Store /\ Breadth /\ History /\ Walking /\ LeftBehind /\ NotLive

\* A write: what is not gone afterwards was not gone before.
LEMMA WriteHistory ==
    ASSUME ScanInv, Write, phase # "none"
    PROVE  /\ Store' /\ History' /\ seen' = seen \cup edges' /\ AtCall' = AtCall
           /\ \A e \in edges' \ edges : e \in Edge /\ e.id = edgeSeq + 1
           /\ \A n \in NodeId : Own(n)' \subseteq edges' => Own(n) \subseteq edges
           /\ edgeSeq \in Nat
           /\ UNCHANGED <<phase, visited, queue, current, next, yielded, mark>>
<1>1. /\ Next /\ seen' = seen \cup edges'
      /\ UNCHANGED <<phase, visited, queue, current, next, yielded, mark>>
    BY DEF Write
<1>2. /\ Store' /\ edgeSeq' >= edgeSeq
      /\ \A e \in edges' : e \in edges \/ (e \in Edge /\ e.id = edgeSeq + 1)
      /\ \A e \in edges' \ edges : edgeSeq' = edgeSeq + 1
      /\ Once(edges' \ edges)
    BY <1>1, WriteEffect DEF ScanInv
<1>3. /\ edges \subseteq seen /\ seen \subseteq Edge /\ IsFiniteSet(seen) /\ Once(seen)
      /\ mark \in Nat /\ mark <= edgeSeq
      /\ \A e \in seen : e.id <= edgeSeq
    BY DEF ScanInv, History
<1>4. edgeSeq \in Nat /\ edgeSeq' \in Nat
    BY <1>2 DEF ScanInv, Store, Inv, TypeOK
<1>5. \A e \in edges' \ edges : e \in Edge /\ e.id = edgeSeq + 1
    BY <1>2
<1>6. \A e \in Edge : e.id \in Nat
    BY DEF Edge
<1>7. \A e \in seen' : e \in seen \/ e \in edges' \ edges
    BY <1>1, <1>3
<1>8. \A e \in edges' \ edges : e \notin seen
    BY <1>3, <1>4, <1>5, <1>6
<1>9. Once(seen')
    BY <1>2, <1>3, <1>4, <1>5, <1>6, <1>7 DEF Once
<1>10. History'
  <2>1. IsFiniteSet(seen')
    <3>1. IsFiniteSet(edges')
        BY <1>2 DEF Store
    <3>. QED
        BY <1>1, <1>3, <3>1, FS_Union
  <2>2. \A e \in seen' : e.id <= edgeSeq'
      BY <1>2, <1>3, <1>4, <1>5, <1>6, <1>7
  <2>3. edges' \subseteq seen' /\ seen' \subseteq Edge /\ mark' \in Nat /\ mark' <= edgeSeq'
      BY <1>1, <1>2, <1>3, <1>4, <1>5, <1>7
  <2>. QED
      BY <1>9, <2>1, <2>2, <2>3 DEF History
<1>11. AtCall' = AtCall
  <2>1. \A e \in edges' \ edges : ~ (e.id <= mark)
      BY <1>3, <1>4, <1>5
  <2>. QED
      BY <1>1, <1>7, <2>1 DEF AtCall
<1>12. ASSUME NEW n \in NodeId, Own(n)' \subseteq edges' PROVE Own(n) \subseteq edges
  <2>1. \A e \in Own(n) : e \in seen /\ e \in edges'
      BY <1>1, <1>12 DEF Own
  <2>. QED
      BY <1>8, <2>1
<1>. QED
    BY <1>1, <1>2, <1>4, <1>5, <1>10, <1>11, <1>12

LEMMA WriteScanInv == ASSUME ScanInv, Write, phase # "none" PROVE ScanInv'
<1>1. /\ Store' /\ History' /\ seen' = seen \cup edges' /\ AtCall' = AtCall
      /\ \A e \in edges' \ edges : e \in Edge /\ e.id = edgeSeq + 1
      /\ \A n \in NodeId : Own(n)' \subseteq edges' => Own(n) \subseteq edges
      /\ edgeSeq \in Nat
      /\ UNCHANGED <<phase, visited, queue, current, next, yielded, mark>>
    BY WriteHistory
<1>2. Breadth'
    BY OtherBreadth DEF ScanInv
<1>3. /\ edges \subseteq seen /\ seen \subseteq Edge /\ IsFiniteSet(seen)
      /\ \A e \in seen : e.id <= edgeSeq
    BY DEF ScanInv, History
<1>4. ASSUME NEW n \in NodeId, Settled(n) PROVE Settled(n)'
  <2>1. ASSUME Own(n)' \subseteq edges', NEW e \in Own(n)', e \in AtCall' PROVE e.dst \in visited'
    <3>1. Own(n) \subseteq edges /\ e \in AtCall /\ e \in Own(n)
        BY <1>1, <2>1 DEF AtCall, Own
    <3>. QED
        BY <1>1, <1>4, <3>1 DEF Settled
  <2>. QED
      BY <2>1 DEF Settled
<1>5. LeftBehind'
  <2>1. ASSUME NEW i \in 1 .. Len(yielded') PROVE yielded[i].node \in NodeId
      BY <1>1 DEF ScanInv, Breadth
  <2>. QED
      BY <1>1, <1>4, <2>1 DEF ScanInv, LeftBehind
<1>6. NotLive'
    BY <1>1 DEF Write, ScanInv, NotLive
<1>7. Walking'
  <2>. SUFFICES ASSUME phase = "walk" PROVE Walking'
      BY <1>1 DEF Walking
  <2>n. PICK n : n = current.node
      OBVIOUS
  <2>1. /\ list \subseteq seen /\ next \in Nat
        /\ live => list = outEdges[n]
        /\ n \in NodeId
      BY <2>n DEF ScanInv, Walking, Breadth
  <2>2. /\ outEdges[n] = {e \in edges : e.src = n}
        /\ outEdges'[n] = {e \in edges' : e.src = n}
      BY <1>1, <2>1 DEF ScanInv, Store, Inv, ListsMatchEdges
  <2>3. /\ list' = IF live /\ n \in nodes' THEN outEdges'[n] ELSE list
        /\ live' = (live /\ n \in outKeys')
      BY <2>n DEF Write
  <2>4. live' => live /\ n \in nodes'
    <3>1. n \in outKeys' => outEdges'[n] # {}
        BY <1>1, <2>1 DEF Store, Inv, KeysMatchLists
    <3>2. \A e \in edges' : e.src \in nodes'
        BY <1>1 DEF Store, Inv, NoDanglingEdge
    <3>. QED
        BY <2>2, <2>3, <3>1, <3>2
  <2>5. list' \subseteq seen' /\ (live' => list' = outEdges'[n])
      BY <1>1, <2>1, <2>2, <2>3, <2>4
  <2>6. ASSUME Own(n)' \subseteq edges'
        PROVE  /\ Own(n)' \cap AtCall' \subseteq list'
               /\ next <= Cardinality(list')
               /\ \A e \in list' : Rank(list', e) < next => e.dst \in visited
    <3>1. /\ Own(n) \subseteq edges
          /\ Own(n) \cap AtCall \subseteq list
          /\ next <= Cardinality(list)
          /\ \A e \in list : Rank(list, e) < next => e.dst \in visited
        BY <1>1, <2>n, <2>1, <2>6 DEF ScanInv, Walking
    <3>2. CASE ~ (live /\ n \in nodes')
      <4>1. list' = list
          BY <2>3, <3>2
      <4>2. Own(n)' \cap AtCall' \subseteq Own(n) \cap AtCall
          BY <1>1 DEF Own, AtCall
      <4>. QED
          BY <3>1, <4>1, <4>2
    <3>3. CASE live /\ n \in nodes'
      <4>1. list = {e \in edges : e.src = n} /\ list' = {e \in edges' : e.src = n}
          BY <2>1, <2>2, <2>3, <3>3
      <4>2. list \subseteq list'
          BY <1>1, <1>3, <2>6, <4>1 DEF Own
      <4>3. Own(n)' \cap AtCall' \subseteq list'
          BY <2>6, <4>1 DEF Own
      <4>4. list' \in SUBSET Edge /\ IsFiniteSet(list')
          BY <1>1, <4>1, FS_Subset DEF Store, Inv, TypeOK
      <4>5. \A e \in list' \ list : \A f \in list : f.id < e.id
        <5>1. \A e \in list' \ list : e.id = edgeSeq + 1
            BY <1>1, <4>1
        <5>2. \A f \in list : f.id <= edgeSeq /\ f.id \in Nat
            BY <1>3, <2>1 DEF Edge
        <5>. QED
            BY <1>1, <5>1, <5>2
      <4>6. Cardinality(list) \in Nat /\ Cardinality(list') \in Nat
            /\ Cardinality(list) <= Cardinality(list')
          BY <4>2, <4>4, FS_Subset, FS_CardinalityType
      <4>7. ASSUME NEW e \in list', Rank(list', e) < next PROVE e.dst \in visited
          BY <2>1, <3>1, <4>2, <4>4, <4>5, <4>7, Grown
      <4>. QED
          BY <2>1, <3>1, <4>3, <4>6, <4>7
    <3>. QED
        BY <3>2, <3>3
  <2>7. current'.node = n
      BY <1>1, <2>n
  <2>. QED
      BY <1>1, <2>1, <2>5, <2>6, <2>7 DEF Walking
<1>. QED
    BY <1>1, <1>2, <1>5, <1>6, <1>7 DEF ScanInv

\* A write before the call.
LEMMA EarlyWriteScanInv == ASSUME ScanInv, Write, phase = "none" PROVE ScanInv'
<1>1. /\ Next /\ phase' = "none" /\ yielded' = yielded /\ yielded = << >>
      /\ live = FALSE /\ live' = FALSE
    BY DEF Write, ScanInv, Breadth, NotLive
<1>2. Store' /\ Breadth'
    BY <1>1, WriteEffect, OtherBreadth DEF ScanInv
<1>. QED
    BY <1>1, <1>2 DEF ScanInv, History, Walking, LeftBehind, NotLive

\* The other steps leave the store alone, and what there has been.
LEMMA StoreStays ==
    ASSUME Store, UNCHANGED store
    PROVE  Store' /\ edges' = edges /\ edgeSeq' = edgeSeq /\ outEdges' = outEdges
    BY DEF store, Store, Inv, Once, TypeOK, ListsMatchEdges, KeysMatchLists,
        NoDanglingEdge, IdsFresh

LEMMA HistoryStays ==
    ASSUME History, phase # "none", UNCHANGED <<edges, edgeSeq, seen, mark>>
    PROVE  /\ History' /\ AtCall' = AtCall
           /\ \A n \in NodeId : Own(n)' = Own(n)
           /\ \A n \in NodeId : visited \subseteq visited' /\ Settled(n) => Settled(n)'
<1>1. AtCall' = AtCall /\ \A n \in NodeId : Own(n)' = Own(n)
    BY DEF AtCall, Own
<1>2. History'
    BY DEF History, Once
<1>3. ASSUME NEW n \in NodeId, visited \subseteq visited', Settled(n) PROVE Settled(n)'
    BY <1>1, <1>3 DEF Settled
<1>. QED
    BY <1>1, <1>2, <1>3

LEMMA CallScanInv ==
    ASSUME ScanInv, NEW s \in NodeId, Call(s) PROVE ScanInv'
<1>1. /\ phase = "none" /\ phase' = "pop" /\ seen' = edges /\ mark' = edgeSeq
      /\ UNCHANGED store /\ live' = live /\ yielded' = yielded /\ yielded = << >>
    BY DEF Call, ScanInv, Breadth
<1>2. /\ Store' /\ edges' = edges /\ edgeSeq' = edgeSeq
    BY <1>1, StoreStays DEF ScanInv
<1>3. History'
  <2>1. /\ edges \subseteq Edge /\ IsFiniteSet(edges) /\ Once(edges) /\ edgeSeq \in Nat
        /\ \A e \in edges : e.id <= edgeSeq
      BY DEF ScanInv, Store, Inv, TypeOK, IdsFresh
  <2>. QED
      BY <1>1, <1>2, <2>1 DEF History, Once
<1>. QED
    BY <1>1, <1>2, <1>3, OtherBreadth DEF ScanInv, Walking, LeftBehind, NotLive

LEMMA YieldScanInv == ASSUME ScanInv, Yield PROVE ScanInv'
<1>1. /\ phase = "pop" /\ phase' = "yielded" /\ UNCHANGED store
      /\ UNCHANGED <<visited, live, seen, mark>> /\ current' = Head(queue)
      /\ yielded' = Append(yielded, Head(queue)) /\ queue # << >>
    BY DEF Yield
<1>2. Store' /\ edges' = edges /\ edgeSeq' = edgeSeq
    BY <1>1, StoreStays DEF ScanInv
<1>3. History' /\ \A n \in NodeId : Settled(n) => Settled(n)'
    BY <1>1, <1>2, HistoryStays DEF ScanInv
<1>4. /\ yielded \in Seq(Seen) /\ Head(queue) \in Seen
    BY <1>1 DEF ScanInv, Breadth
<1>5. ASSUME NEW i \in 1 .. Len(yielded'), yielded'[i].depth < MaxDepth,
             yielded'[i] # current'
      PROVE  Settled(yielded[i].node)'
  <2>1. i \in 1 .. Len(yielded) /\ yielded'[i] = yielded[i]
      BY <1>1, <1>4, <1>5
  <2>2. PICK n \in NodeId : n = yielded[i].node
      BY <2>1 DEF ScanInv, Breadth
  <2>3. Settled(n)
      BY <1>1, <1>5, <2>1, <2>2 DEF ScanInv, LeftBehind
  <2>. QED
      BY <1>3, <2>1, <2>2, <2>3
<1>6. LeftBehind'
    BY <1>1, <1>5 DEF LeftBehind
<1>7. NotLive' /\ Walking'
    BY <1>1 DEF ScanInv, NotLive, Walking
<1>. QED
    BY <1>2, <1>3, <1>6, <1>7, YieldBreadth DEF ScanInv

LEMMA OpenScanInv == ASSUME ScanInv, Open PROVE ScanInv'
<1>1. /\ phase = "yielded" /\ phase' \in {"walk", "pop"} /\ UNCHANGED store
      /\ UNCHANGED <<visited, current, yielded, seen, mark>> /\ next' = 0
      /\ phase' = "walk" => list' = outEdges[current.node]
      /\ phase' = "pop" => ~ (current.depth < MaxDepth) /\ live' = live
    BY DEF Open
<1>2. Store' /\ edges' = edges /\ edgeSeq' = edgeSeq /\ outEdges' = outEdges
    BY <1>1, StoreStays DEF ScanInv
<1>3. /\ History' /\ AtCall' = AtCall
      /\ \A n \in NodeId : Own(n)' = Own(n)
      /\ \A n \in NodeId : Settled(n) => Settled(n)'
    BY <1>1, <1>2, HistoryStays DEF ScanInv
<1>4. ASSUME NEW i \in 1 .. Len(yielded'), yielded'[i].depth < MaxDepth,
             yielded'[i] # current' \/ phase' = "pop"
      PROVE  Settled(yielded[i].node)'
  <2>1. i \in 1 .. Len(yielded) /\ yielded'[i] = yielded[i] /\ yielded[i] # current
      BY <1>1, <1>4
  <2>2. PICK n \in NodeId : n = yielded[i].node
      BY <2>1 DEF ScanInv, Breadth
  <2>3. Settled(n)
      BY <1>1, <1>4, <2>1, <2>2 DEF ScanInv, LeftBehind
  <2>. QED
      BY <1>3, <2>1, <2>2, <2>3
<1>5. LeftBehind'
    BY <1>4 DEF LeftBehind
<1>6. NotLive'
    BY <1>1 DEF ScanInv, NotLive
<1>7. ASSUME phase' = "walk" PROVE Walking'
  <2>1. PICK n : n = current.node
      OBVIOUS
  <2>2. n \in NodeId /\ current'.node = n
      BY <1>1, <2>1 DEF ScanInv, Breadth
  <2>3. list' = outEdges'[n] /\ list' = {e \in edges : e.src = n}
      BY <1>1, <1>2, <1>7, <2>1, <2>2 DEF ScanInv, Store, Inv, ListsMatchEdges
  <2>4. list' \subseteq seen' /\ list' \in SUBSET Edge /\ IsFiniteSet(list')
      BY <1>1, <2>3, FS_Subset DEF ScanInv, History, Store
  <2>5. next' \in Nat /\ next' <= Cardinality(list')
      BY <1>1, <2>4, FS_CardinalityType
  <2>6. \A e \in list' : ~ (Rank(list', e) < next')
    <3>1. ASSUME NEW e \in list' PROVE Rank(list', e) \in Nat
        BY <2>4, Ranks
    <3>. QED
        BY <1>1, <3>1
  <2>7. Own(n)' \subseteq edges' => Own(n)' \cap AtCall' \subseteq list'
      BY <1>2, <1>3, <2>2, <2>3 DEF Own
  <2>. QED
      BY <2>2, <2>3, <2>4, <2>5, <2>6, <2>7 DEF Walking
<1>8. Walking'
    BY <1>7 DEF Walking
<1>. QED
    BY <1>2, <1>3, <1>5, <1>6, <1>8, OtherBreadth DEF ScanInv

\* The edge at the position is the only one of its rank: the position moves by one.
LEMMA WalkScanInv == ASSUME ScanInv, Walk PROVE ScanInv'
<1>1. /\ phase = "walk" /\ phase' = "walk" /\ UNCHANGED store /\ next' = next + 1
      /\ UNCHANGED <<current, list, live, yielded, seen, mark>>
    BY DEF Walk
<1>2. PICK edge \in list : Rank(list, edge) = next /\ visited' = visited \cup {edge.dst}
    BY DEF Walk, At, Rank
<1>3. /\ Store' /\ edges' = edges /\ edgeSeq' = edgeSeq /\ outEdges' = outEdges
    BY <1>1, StoreStays DEF ScanInv
<1>4. /\ History' /\ AtCall' = AtCall
      /\ \A n \in NodeId : Own(n)' = Own(n)
      /\ \A n \in NodeId : Settled(n) => Settled(n)'
    BY <1>1, <1>2, <1>3, HistoryStays DEF ScanInv
<1>5. PICK n : n = current.node
    OBVIOUS
<1>6. /\ n \in NodeId /\ current'.node = n
      /\ list \subseteq seen /\ next \in Nat /\ (live => list = outEdges[n])
    BY <1>1, <1>5 DEF ScanInv, Breadth, Walking
<1>7. /\ list \in SUBSET Edge /\ IsFiniteSet(list) /\ Once(list)
    BY <1>1, <1>6, FS_Subset DEF ScanInv, History, Once
<1>8. Breadth'
    BY <1>7, WalkBreadth DEF ScanInv
<1>9. next + 1 <= Cardinality(list)
    BY <1>2, <1>6, <1>7, Ranks
<1>10. ASSUME NEW e \in list, Rank(list, e) < next + 1, Rank(list, e) >= next
       PROVE  e = edge
  <2>1. /\ Rank(list, e) \in Nat /\ Rank(list, e) = next
        /\ e.id < edge.id => Rank(list, e) < Rank(list, edge)
      BY <1>6, <1>7, <1>10, Ranks
  <2>2. edge.id < e.id => Rank(list, edge) < Rank(list, e)
      BY <1>7, Ranks
  <2>3. e.id \in Nat /\ edge.id \in Nat
      BY <1>7 DEF Edge
  <2>4. e.id = edge.id
      BY <1>2, <1>6, <2>1, <2>2, <2>3
  <2>. QED
      BY <1>7, <2>4 DEF Once
<1>11. ASSUME Own(n) \subseteq edges
       PROVE  /\ Own(n) \cap AtCall \subseteq list
              /\ \A e \in list : Rank(list, e) < next + 1 => e.dst \in visited'
  <2>1. /\ Own(n) \cap AtCall \subseteq list
        /\ \A e \in list : Rank(list, e) < next => e.dst \in visited
      BY <1>1, <1>5, <1>11 DEF ScanInv, Walking
  <2>2. ASSUME NEW e \in list, Rank(list, e) < next + 1 PROVE e.dst \in visited'
    <3>1. CASE Rank(list, e) < next
        BY <1>2, <2>1, <3>1
    <3>2. CASE ~ (Rank(list, e) < next)
      <4>1. Rank(list, e) \in Nat
          BY <1>7, Ranks
      <4>2. e = edge
          BY <1>6, <1>10, <2>2, <3>2, <4>1
      <4>. QED
          BY <1>2, <4>2
    <3>. QED
        BY <3>1, <3>2
  <2>. QED
      BY <2>1, <2>2
<1>12. Walking'
  <2>1. Own(n)' = Own(n)
      BY <1>4, <1>6
  <2>. QED
      BY <1>1, <1>3, <1>4, <1>6, <1>9, <1>11, <2>1 DEF Walking
<1>13. ASSUME NEW i \in 1 .. Len(yielded'), yielded'[i].depth < MaxDepth,
              yielded'[i] # current'
       PROVE  Settled(yielded[i].node)'
  <2>1. i \in 1 .. Len(yielded) /\ yielded'[i] = yielded[i] /\ yielded[i] # current
      BY <1>1, <1>13
  <2>2. PICK m \in NodeId : m = yielded[i].node
      BY <2>1 DEF ScanInv, Breadth
  <2>3. Settled(m)
      BY <1>1, <1>13, <2>1, <2>2 DEF ScanInv, LeftBehind
  <2>. QED
      BY <1>4, <2>1, <2>2, <2>3
<1>14. LeftBehind' /\ NotLive'
    BY <1>1, <1>13 DEF LeftBehind, NotLive
<1>. QED
    BY <1>3, <1>4, <1>8, <1>12, <1>14 DEF ScanInv

\* An iterator at the end has passed the whole list.
LEMMA ExhaustScanInv == ASSUME ScanInv, Exhaust PROVE ScanInv'
<1>1. /\ phase = "walk" /\ phase' = "pop" /\ UNCHANGED store /\ live' = FALSE
      /\ next >= Cardinality(list)
      /\ UNCHANGED <<visited, current, yielded, seen, mark>>
    BY DEF Exhaust, AtEnd
<1>2. Store' /\ edges' = edges /\ edgeSeq' = edgeSeq
    BY <1>1, StoreStays DEF ScanInv
<1>3. /\ History' /\ \A n \in NodeId : Settled(n) => Settled(n)'
    BY <1>1, <1>2, HistoryStays DEF ScanInv
<1>4. PICK n : n = current.node
    OBVIOUS
<1>5. /\ n \in NodeId /\ list \subseteq seen /\ next \in Nat
      /\ list \in SUBSET Edge /\ IsFiniteSet(list)
    BY <1>1, <1>4, FS_Subset DEF ScanInv, Breadth, Walking, History
<1>6. Settled(n)
  <2>1. ASSUME Own(n) \subseteq edges, NEW e \in Own(n) \cap AtCall
        PROVE  e.dst \in visited
    <3>1. e \in list /\ (Rank(list, e) < next => e.dst \in visited)
        BY <1>1, <1>4, <2>1 DEF ScanInv, Walking
    <3>2. Rank(list, e) \in Nat /\ Cardinality(list) \in Nat
          /\ Rank(list, e) < Cardinality(list)
        BY <1>5, <3>1, Ranks
    <3>. QED
        BY <1>1, <1>5, <3>1, <3>2
  <2>. QED
      BY <2>1 DEF Settled
<1>7. ASSUME NEW i \in 1 .. Len(yielded'), yielded'[i].depth < MaxDepth
      PROVE  Settled(yielded[i].node)'
  <2>1. i \in 1 .. Len(yielded) /\ yielded'[i] = yielded[i]
      BY <1>1
  <2>2. PICK m \in NodeId : m = yielded[i].node
      BY <2>1 DEF ScanInv, Breadth
  <2>3. Settled(m)
    <3>1. CASE yielded[i] = current
        BY <1>4, <1>6, <2>2, <3>1
    <3>2. CASE yielded[i] # current
        BY <1>7, <2>1, <2>2, <3>2 DEF ScanInv, LeftBehind
    <3>. QED
        BY <3>1, <3>2
  <2>. QED
      BY <1>3, <2>1, <2>2, <2>3
<1>8. LeftBehind' /\ NotLive' /\ Walking'
    BY <1>1, <1>7 DEF LeftBehind, NotLive, Walking
<1>. QED
    BY <1>2, <1>3, <1>8, OtherBreadth DEF ScanInv

LEMMA ScanInvHolds == ScanSpec => []ScanInv
<1>1. ScanInit => ScanInv
  <2>. SUFFICES ASSUME ScanInit PROVE ScanInv
      OBVIOUS
  <2>1. Store
    <3>1. edges = {} /\ IsFiniteSet({}) /\ Inv
        BY InvInit, FS_EmptySet DEF ScanInit, Init
    <3>. QED
        BY <3>1 DEF Store, Once
  <2>2. /\ phase = "none" /\ yielded = << >> /\ queue = << >> /\ visited = {}
        /\ current = Visit(0, 0) /\ live = FALSE
      BY DEF ScanInit
  <2>3. current \in Seen /\ current.depth = 0
      BY <2>2 DEF Visit, Seen
  <2>. QED
      BY <2>1, <2>2, <2>3
      DEF ScanInv, Breadth, Rising, History, Walking, LeftBehind, NotLive
<1>2. ScanInv /\ [ScanNext]_<<vars, scan>> => ScanInv'
  <2>. SUFFICES ASSUME ScanInv, [ScanNext]_<<vars, scan>> PROVE ScanInv'
      OBVIOUS
  <2>1. CASE Write
      BY <2>1, EarlyWriteScanInv, WriteScanInv
  <2>2. ASSUME NEW s \in NodeId, Call(s) PROVE ScanInv'
      BY <2>2, CallScanInv
  <2>3. CASE Yield
      BY <2>3, YieldScanInv
  <2>4. CASE Open
      BY <2>4, OpenScanInv
  <2>5. CASE Walk
      BY <2>5, WalkScanInv
  <2>6. CASE Exhaust
      BY <2>6, ExhaustScanInv
  <2>7. CASE UNCHANGED <<vars, scan>>
    <3>1. Store'
        BY <2>7, StoreStays DEF vars, store, ScanInv
    <3>2. Breadth'
        BY <2>7 DEF scan, ScanInv, Breadth, Rising
    <3>3. History' /\ NotLive'
        BY <2>7 DEF vars, scan, ScanInv, History, Once, NotLive
    <3>4. Walking'
        BY <2>7 DEF vars, scan, ScanInv, Walking, Own, AtCall, Rank
    <3>5. LeftBehind'
        BY <2>7 DEF vars, scan, ScanInv, LeftBehind, Settled, Own, AtCall
    <3>. QED
        BY <3>1, <3>2, <3>3, <3>4, <3>5 DEF ScanInv
  <2>. QED
      BY <2>1, <2>2, <2>3, <2>4, <2>5, <2>6, <2>7 DEF ScanNext
<1>. QED
    BY <1>1, <1>2, PTL DEF ScanSpec

\* Whatever is written under a traversal, and however it is interleaved with it,
\* the nodes come in the order of their depths and none comes twice (the queue and
\* the visited set of GraphTraversal.bfs), for any max_depth and any store.
THEOREM DepthsAlwaysAscend == ScanSpec => []DepthsAscend
<1>1. ScanInv => DepthsAscend
  <2>. SUFFICES ASSUME ScanInv PROVE DepthsAscend
      OBVIOUS
  <2>1. DOMAIN yielded = 1 .. Len(yielded)
      BY DEF ScanInv, Breadth
  <2>. QED
      BY <2>1 DEF ScanInv, Breadth, Rising, DepthsAscend
<1>. QED
    BY <1>1, ScanInvHolds, PTL

\* An edge that was there all the time is only missed by a traversal when another
\* edge of its own list was deleted, which shifts that list under the iterator of
\* iter_out_edges: no other write makes GraphTraversal.bfs lose a node.
THEOREM OnlyShiftedMissed == ScanSpec => []MissesOnlyShifted
<1>1. ScanInv => MissesOnlyShifted
  <2>. SUFFICES ASSUME ScanInv, NEW i \in DOMAIN yielded,
                       yielded[i].depth < MaxDepth,
                       yielded[i] # current \/ phase = "pop",
                       {e \in seen : e.src = yielded[i].node} \subseteq edges,
                       NEW e \in seen, e.src = yielded[i].node, e \in AtCall
                PROVE  e.dst \in visited
      BY DEF MissesOnlyShifted
  <2>1. i \in 1 .. Len(yielded)
      BY DEF ScanInv, Breadth
  <2>2. Settled(yielded[i].node)
      BY <2>1 DEF ScanInv, LeftBehind
  <2>. QED
      BY <2>2 DEF Settled, Own
<1>. QED
    BY <1>1, ScanInvHolds, PTL

-----------------------------------------------------------------------------
(* Distances. *)

\* A set of numbers that is not empty has a least one.
LEMMA Least ==
    ASSUME NEW T \in SUBSET Nat, T # {}
    PROVE  \E x \in T : \A y \in T : x <= y
<1>. DEFINE R == {p \in Nat \X Nat : p[1] < p[2]}
<1>1. IsWellFoundedOn(R, Nat)
    BY NatLessThanWellFounded DEF OpToRel
<1>2. PICK x \in T : \A y \in T : <<y, x>> \notin R
    BY <1>1, WFMin, Zenon
<1>3. \A y \in T : <<y, x>> \in R <=> y < x
    OBVIOUS
<1>4. x \in Nat /\ \A y \in T : y \in Nat
    OBVIOUS
<1>5. ASSUME NEW y \in T PROVE x <= y
  <2>1. ~ (y < x) /\ x \in Nat /\ y \in Nat
      BY <1>2, <1>3, <1>4
  <2>. QED
      BY <2>1
<1>. QED
    BY <1>5

\* The nodes of B and those a hop beyond, over the edges E.
Beyond(E, B) == B \cup {e.dst : e \in {f \in E : f.src \in B}}

\* A ball is what the recursion of Balls makes of the one before, up to depth n.
IsBall(b, n, s, E) ==
    b = [k \in 0 .. n |-> IF k = 0 THEN {s} ELSE Beyond(E, b[k - 1])]

\* Balls around a start that does not change with the state.
BallsFrom(s, E) == CHOOSE b : IsBall(b, MaxDepth, s, E)

\* The recursion of Balls has a solution, up to any depth.
LEMMA BallsExist ==
    ASSUME NEW s, NEW E, NEW n \in Nat
    PROVE  \E b : IsBall(b, n, s, E)
<1>. DEFINE T == {m \in Nat : ~ \E b : IsBall(b, m, s, E)}
<1>. SUFFICES ASSUME T # {} PROVE FALSE
    OBVIOUS
<1>1. PICK m \in T : \A k \in T : m <= k
    BY Least
<1>2. CASE m = 0
  <2>. DEFINE b == [k \in 0 .. 0 |-> {s}]
  <2>1. IsBall(b, 0, s, E)
      BY DEF IsBall
  <2>. QED
      BY <1>1, <1>2, <2>1
<1>3. CASE m # 0
  <2>1. m - 1 \in Nat /\ m - 1 \notin T /\ m \in Nat
      BY <1>1, <1>3
  <2>2. PICK c : IsBall(c, m - 1, s, E)
      BY <2>1
  <2>. DEFINE b == [k \in 0 .. m |-> IF k = m THEN Beyond(E, c[m - 1]) ELSE c[k]]
  <2>3. \A k \in 0 .. m - 1 : c[k] = IF k = 0 THEN {s} ELSE Beyond(E, c[k - 1])
      BY <2>2 DEF IsBall
  <2>4. ASSUME NEW k \in 0 .. m
        PROVE  b[k] = IF k = 0 THEN {s} ELSE Beyond(E, b[k - 1])
    <3>1. CASE k = m
      <4>1. k # 0 /\ m - 1 \in 0 .. m /\ m - 1 # m
          BY <1>3, <2>1, <3>1
      <4>2. b[k] = Beyond(E, c[m - 1]) /\ b[m - 1] = c[m - 1]
          BY <3>1, <4>1
      <4>. HIDE DEF b
      <4>. QED
          BY <3>1, <4>1, <4>2
    <3>2. CASE k # m
      <4>1. k \in 0 .. m - 1 /\ b[k] = c[k]
          BY <2>1, <3>2
      <4>2. CASE k = 0
          BY <2>3, <4>1, <4>2
      <4>3. CASE k # 0
        <5>1. k - 1 \in 0 .. m /\ k - 1 # m
            BY <2>1, <4>1, <4>3
        <5>2. b[k - 1] = c[k - 1]
            BY <5>1
        <5>. HIDE DEF b
        <5>. QED
            BY <2>3, <4>1, <4>3, <5>2
      <4>. QED
          BY <4>2, <4>3
    <3>. QED
        BY <3>1, <3>2
  <2>5. b = [k \in 0 .. m |-> b[k]]
      OBVIOUS
  <2>. HIDE DEF b
  <2>6. IsBall(b, m, s, E)
      BY <2>4, <2>5 DEF IsBall
  <2>. QED
      BY <1>1, <2>6
<1>. QED
    BY <1>2, <1>3

\* Therefore each ball is what lies a hop beyond the one before.
LEMMA BallsGrow ==
    ASSUME NEW s, NEW E
    PROVE  /\ BallsFrom(s, E)[0] = {s}
           /\ \A k \in 1 .. MaxDepth :
                 BallsFrom(s, E)[k] = Beyond(E, BallsFrom(s, E)[k - 1])
<1>. DEFINE b == BallsFrom(s, E)
<1>1. MaxDepth \in Nat
    BY ScanConstantsOK
<1>2. \E c : IsBall(c, MaxDepth, s, E)
    BY <1>1, BallsExist, Zenon
<1>3. IsBall(b, MaxDepth, s, E)
    BY <1>2, Zenon DEF BallsFrom
<1>. HIDE DEF b
<1>4. \A k \in 0 .. MaxDepth : b[k] = IF k = 0 THEN {s} ELSE Beyond(E, b[k - 1])
    BY <1>3 DEF IsBall
<1>5. 0 \in 0 .. MaxDepth /\ \A k \in 1 .. MaxDepth : k \in 0 .. MaxDepth /\ k # 0
    BY <1>1
<1>6. b[0] = {s} /\ \A k \in 1 .. MaxDepth : b[k] = Beyond(E, b[k - 1])
    BY <1>4, <1>5
<1>. QED
    BY <1>6 DEF b

\* More edges reach more nodes in as many hops.
LEMMA BallsMonotone ==
    ASSUME NEW s, NEW E, NEW F, E \subseteq F, NEW k \in 0 .. MaxDepth
    PROVE  BallsFrom(s, E)[k] \subseteq BallsFrom(s, F)[k]
<1>. DEFINE b == BallsFrom(s, E)
            c == BallsFrom(s, F)
            T == {m \in 0 .. MaxDepth : ~ (b[m] \subseteq c[m])}
<1>. SUFFICES ASSUME T # {} PROVE FALSE
    OBVIOUS
<1>1. PICK m \in T : \A j \in T : m <= j
  <2>1. T \in SUBSET Nat
      OBVIOUS
  <2>. HIDE DEF T
  <2>. QED
      BY <2>1, Least
<1>2. /\ b[0] = {s} /\ c[0] = {s}
      /\ \A j \in 1 .. MaxDepth : b[j] = Beyond(E, b[j - 1]) /\ c[j] = Beyond(F, c[j - 1])
    BY BallsGrow
<1>. HIDE DEF b, c
<1>3. m # 0 /\ m \in 1 .. MaxDepth /\ m - 1 \in 0 .. MaxDepth /\ ~ (m <= m - 1)
    BY <1>1, <1>2, ScanConstantsOK
<1>4. b[m - 1] \subseteq c[m - 1]
    BY <1>1, <1>3
<1>5. Beyond(E, b[m - 1]) \subseteq Beyond(F, c[m - 1])
    BY <1>4 DEF Beyond
<1>. QED
    BY <1>1, <1>2, <1>3, <1>5

\* Balls is the ball around the first node of the traversal.
LEMMA BallsAround == \A E : Balls(E) = BallsFrom(yielded[1].node, E)
    BY Zenon DEF Balls, BallsFrom, IsBall, Beyond

-----------------------------------------------------------------------------
(* What the traversal has reached. *)

\* What is yielded and what is queued.
Visits == {yielded[i] : i \in 1 .. Len(yielded)} \cup {queue[j] : j \in 1 .. Len(queue)}

\* Every visit lies in the ball of its depth around s, where the traversal starts.
Around(s) ==
    /\ visited \subseteq {v.node : v \in Visits}
    /\ \A v \in Visits : v.depth \in 0 .. MaxDepth /\ v.node \in BallsFrom(s, seen)[v.depth]
    /\ Visit(s, 0) \in Visits
    /\ yielded # << >> => yielded[1].node = s
    /\ yielded = << >> => phase = "pop" /\ queue = <<Visit(s, 0)>>
    /\ phase \in {"yielded", "walk"} => current \in Visits
    /\ phase = "walk" => current.depth < MaxDepth /\ list \subseteq Own(current.node)

Reach == phase # "none" => \E s : Around(s)

\* If no edge of n is gone, the ends of those of the call have been visited no more
\* than a hop beyond d.
NoFarther(n, d) ==
    Own(n) \subseteq edges =>
        \A e \in Own(n) \cap AtCall : \E v \in Visits : v.node = e.dst /\ v.depth <= d + 1

Near ==
    \A i \in 1 .. Len(yielded) :
        /\ yielded[i].depth < MaxDepth
        /\ yielded[i] # current \/ phase = "pop"
        => NoFarther(yielded[i].node, yielded[i].depth)

\* What is yielded was queued, and nothing else moves.
LEMMA YieldVisits ==
    ASSUME Breadth, Yield PROVE Visits' = Visits /\ current' \in Visits
<1>1. /\ queue' = Tail(queue) /\ yielded' = Append(yielded, Head(queue))
      /\ queue # << >> /\ current' = Head(queue)
    BY DEF Yield
<1>2. /\ yielded \in Seq(Seen) /\ queue \in Seq(Seen) /\ Len(queue) \in Nat
      /\ Len(yielded) \in Nat /\ Len(queue) > 0 /\ Head(queue) = queue[1]
    BY <1>1 DEF Breadth
<1>3. /\ Len(queue') = Len(queue) - 1
      /\ \A j \in 1 .. Len(queue') : j + 1 \in 1 .. Len(queue) /\ queue'[j] = queue[j + 1]
    BY <1>1, <1>2
<1>4. /\ Len(yielded') = Len(yielded) + 1
      /\ \A i \in 1 .. Len(yielded) : i \in 1 .. Len(yielded') /\ yielded'[i] = yielded[i]
      /\ yielded'[Len(yielded) + 1] = queue[1]
      /\ \A i \in 1 .. Len(yielded') : i \in 1 .. Len(yielded) \/ i = Len(yielded) + 1
    BY <1>1, <1>2
<1>5. 1 \in 1 .. Len(queue) /\ Len(yielded) + 1 \in 1 .. Len(yielded')
    BY <1>2, <1>4
<1>6. ASSUME NEW v \in Visits' PROVE v \in Visits
  <2>1. CASE \E i \in 1 .. Len(yielded') : v = yielded'[i]
    <3>1. PICK i \in 1 .. Len(yielded') : v = yielded'[i]
        BY <2>1
    <3>. QED
        BY <1>4, <1>5, <3>1 DEF Visits
  <2>2. CASE \E j \in 1 .. Len(queue') : v = queue'[j]
    <3>1. PICK j \in 1 .. Len(queue') : v = queue'[j]
        BY <2>2
    <3>. QED
        BY <1>3, <3>1 DEF Visits
  <2>. QED
      BY <1>6, <2>1, <2>2 DEF Visits
<1>7. ASSUME NEW v \in Visits PROVE v \in Visits'
  <2>1. CASE \E i \in 1 .. Len(yielded) : v = yielded[i]
    <3>1. PICK i \in 1 .. Len(yielded) : v = yielded[i]
        BY <2>1
    <3>. QED
        BY <1>4, <3>1 DEF Visits
  <2>2. CASE \E j \in 1 .. Len(queue) : v = queue[j]
    <3>1. PICK j \in 1 .. Len(queue) : v = queue[j]
        BY <2>2
    <3>2. CASE j = 1
      <4>1. v = yielded'[Len(yielded) + 1]
          BY <1>4, <3>1, <3>2
      <4>. QED
          BY <1>5, <4>1 DEF Visits
    <3>3. CASE j # 1
      <4>1. j - 1 \in 1 .. Len(queue') /\ (j - 1) + 1 = j
          BY <1>2, <1>3, <3>3
      <4>2. v = queue'[j - 1]
          BY <1>3, <3>1, <4>1
      <4>. QED
          BY <4>1, <4>2 DEF Visits
    <3>. QED
        BY <3>2, <3>3
  <2>. QED
      BY <1>7, <2>1, <2>2 DEF Visits
<1>8. current' \in Visits
    BY <1>1, <1>2, <1>5 DEF Visits
<1>. QED
    BY <1>6, <1>7, <1>8

\* The end of an edge becomes a visit, unless it has been visited.
LEMMA WalkVisits ==
    ASSUME Breadth, Walk
    PROVE  \E e \in list :
              /\ visited' = visited \cup {e.dst}
              /\ Visits' = IF e.dst \in visited THEN Visits
                           ELSE Visits \cup {Visit(e.dst, current.depth + 1)}
<1>1. PICK e \in list :
          /\ visited' = visited \cup {e.dst}
          /\ queue' = IF e.dst \in visited THEN queue
                      ELSE Append(queue, Visit(e.dst, current.depth + 1))
    BY DEF Walk, QueuedUp, Deeper
<1>2. yielded' = yielded
    BY DEF Walk
<1>3. CASE e.dst \in visited
  <2>1. queue' = queue
      BY <1>1, <1>3
  <2>2. Visits' = Visits
      BY <1>2, <2>1 DEF Visits
  <2>. QED
      BY <1>1, <1>3, <2>2
<1>4. CASE e.dst \notin visited
  <2>. DEFINE v == Visit(e.dst, current.depth + 1)
  <2>1. queue' = Append(queue, v) /\ queue \in Seq(Seen)
      BY <1>1, <1>4 DEF Breadth
  <2>. HIDE DEF v
  <2>2. /\ Len(queue') = Len(queue) + 1 /\ Len(queue) \in Nat
        /\ \A j \in 1 .. Len(queue) : queue'[j] = queue[j] /\ j \in 1 .. Len(queue')
        /\ queue'[Len(queue) + 1] = v /\ Len(queue) + 1 \in 1 .. Len(queue')
        /\ \A j \in 1 .. Len(queue') : j \in 1 .. Len(queue) \/ j = Len(queue) + 1
      BY <2>1
  <2>3. {queue'[j] : j \in 1 .. Len(queue')} = {queue[j] : j \in 1 .. Len(queue)} \cup {v}
    <3>1. ASSUME NEW w \in {queue'[j] : j \in 1 .. Len(queue')}
          PROVE  w \in {queue[j] : j \in 1 .. Len(queue)} \cup {v}
      <4>1. PICK j \in 1 .. Len(queue') : w = queue'[j]
          BY <3>1
      <4>. QED
          BY <2>2, <4>1
    <3>2. \A j \in 1 .. Len(queue) : queue[j] \in {queue'[m] : m \in 1 .. Len(queue')}
        BY <2>2
    <3>3. v \in {queue'[m] : m \in 1 .. Len(queue')}
        BY <2>2
    <3>. QED
        BY <3>1, <3>2, <3>3
  <2>4. Visits' = Visits \cup {v}
      BY <1>2, <2>3 DEF Visits
  <2>. QED
      BY <1>1, <1>4, <2>4 DEF v
<1>. QED
    BY <1>3, <1>4

\* Visits that stay, over edges that grow.
LEMMA AroundStays ==
    ASSUME NEW s, Around(s), seen \subseteq seen', Visits' = Visits, visited' = visited,
           \/ UNCHANGED <<yielded, queue, phase>>
           \/ yielded # << >> /\ yielded' # << >> /\ yielded'[1] = yielded[1],
           phase' \in {"yielded", "walk"} => current' \in Visits,
           phase' = "walk" => current'.depth < MaxDepth /\ list' \subseteq Own(current.node)'
    PROVE  Around(s)'
<1>1. \A k \in 0 .. MaxDepth : BallsFrom(s, seen)[k] \subseteq BallsFrom(s, seen')[k]
    BY BallsMonotone
<1>2. \A v \in Visits' : v.depth \in 0 .. MaxDepth /\ v.node \in BallsFrom(s, seen')[v.depth]
    BY <1>1 DEF Around
<1>3. /\ yielded' # << >> => yielded'[1].node = s
      /\ yielded' = << >> => phase' = "pop" /\ queue' = <<Visit(s, 0)>>
    BY DEF Around
<1>. QED
    BY <1>2, <1>3 DEF Around

\* Nor are fewer visits found than before while edges are only added.
LEMMA NearStays ==
    ASSUME NEW n, NEW d, NoFarther(n, d), Visits \subseteq Visits', AtCall' = AtCall,
           seen \subseteq seen', Own(n)' \subseteq edges' => Own(n) \subseteq edges,
           \A e \in seen' \ seen : e \notin AtCall'
    PROVE  NoFarther(n, d)'
<1>1. ASSUME Own(n)' \subseteq edges', NEW e \in Own(n)', e \in AtCall'
      PROVE  \E v \in Visits' : v.node = e.dst /\ v.depth <= d + 1
  <2>1. Own(n) \subseteq edges /\ e \in Own(n) \cap AtCall
      BY <1>1 DEF Own
  <2>. QED
      BY <2>1 DEF NoFarther
<1>. QED
    BY <1>1 DEF NoFarther

\* A write adds edges since the call, and deletes some.
LEMMA WriteReach ==
    ASSUME ScanInv, Reach, Near, Write PROVE Reach' /\ Near'
<1>1. /\ UNCHANGED <<phase, visited, queue, current, next, yielded, mark>>
      /\ Next
      /\ list' = IF live /\ current.node \in nodes' THEN outEdges'[current.node] ELSE list
    BY DEF Write
<1>2. CASE phase = "none"
    BY <1>1, <1>2 DEF Reach, Near, ScanInv, Breadth
<1>3. CASE phase # "none"
  <2>1. /\ Store' /\ seen' = seen \cup edges' /\ AtCall' = AtCall
        /\ \A e \in edges' \ edges : e \in Edge /\ e.id = edgeSeq + 1
        /\ \A n \in NodeId : Own(n)' \subseteq edges' => Own(n) \subseteq edges
      BY <1>3, WriteHistory
  <2>2. Visits' = Visits
      BY <1>1 DEF Visits
  <2>3. PICK s : Around(s)
      BY <1>3 DEF Reach
  <2>4. ASSUME phase' = "walk"
        PROVE  current'.depth < MaxDepth /\ list' \subseteq Own(current.node)'
    <3>1. current.depth < MaxDepth /\ list \subseteq Own(current.node)
        BY <1>1, <2>3, <2>4 DEF Around
    <3>2. PICK n \in NodeId : n = current.node
        BY <1>1, <2>4 DEF ScanInv, Breadth
    <3>3. outEdges'[n] = {e \in edges' : e.src = n}
        BY <2>1, <3>2 DEF Store, Inv, ListsMatchEdges
    <3>4. list' \subseteq Own(n)'
        BY <1>1, <2>1, <3>1, <3>2, <3>3 DEF Own
    <3>5. current' = current
        BY <1>1
    <3>. QED
        BY <3>1, <3>2, <3>4, <3>5
  <2>5. Around(s)'
    <3>1. phase' \in {"yielded", "walk"} => current' \in Visits
        BY <1>1, <2>3 DEF Around
    <3>. QED
        BY <1>1, <2>1, <2>2, <2>3, <2>4, <3>1, AroundStays
  <2>6. ASSUME NEW e \in seen' \ seen PROVE e \notin AtCall'
      BY <2>1 DEF AtCall
  <2>7. ASSUME NEW i \in 1 .. Len(yielded'), yielded'[i].depth < MaxDepth,
               yielded'[i] # current' \/ phase' = "pop"
        PROVE  NoFarther(yielded[i].node, yielded[i].depth)'
    <3>1. PICK n, d : n = yielded[i].node /\ d = yielded[i].depth
        OBVIOUS
    <3>2. n \in NodeId /\ NoFarther(n, d) /\ yielded' = yielded
        BY <1>1, <2>7, <3>1 DEF Near, ScanInv, Breadth
    <3>3. NoFarther(n, d)'
        BY <2>1, <2>2, <2>6, <3>2, NearStays
    <3>. QED
        BY <3>1, <3>2, <3>3
  <2>. QED
      BY <2>5, <2>7 DEF Reach, Near
<1>. QED
    BY <1>2, <1>3

LEMMA CallReach ==
    ASSUME ScanInv, NEW s \in NodeId, Call(s) PROVE Reach' /\ Near'
<1>1. /\ phase' = "pop" /\ visited' = {s} /\ queue' = <<Visit(s, 0)>>
      /\ yielded' = << >>
    BY DEF Call, ScanInv, Breadth
<1>2. Visits' = {Visit(s, 0)}
  <2>1. Len(queue') = 1 /\ queue'[1] = Visit(s, 0) /\ Len(yielded') = 0
      BY <1>1
  <2>2. 1 .. 1 = {1} /\ 1 .. 0 = {}
      OBVIOUS
  <2>. QED
      BY <2>1, <2>2 DEF Visits
<1>3. Visit(s, 0).node = s /\ Visit(s, 0).depth = 0 /\ 0 \in 0 .. MaxDepth
    BY ScanConstantsOK DEF Visit
<1>4. s \in BallsFrom(s, seen')[0]
    BY BallsGrow
<1>5. Around(s)'
    BY <1>1, <1>2, <1>3, <1>4 DEF Around
<1>. QED
    BY <1>1, <1>5 DEF Reach, Near

\* The head of the queue that is yielded first is the start.
LEMMA YieldReach ==
    ASSUME ScanInv, Reach, Near, Yield PROVE Reach' /\ Near'
<1>1. /\ phase = "pop" /\ phase' = "yielded" /\ UNCHANGED store
      /\ UNCHANGED <<visited, seen, mark>> /\ current' = Head(queue)
      /\ yielded' = Append(yielded, Head(queue)) /\ queue # << >>
    BY DEF Yield
<1>2. yielded \in Seq(Seen) /\ Head(queue) \in Seen
    BY <1>1 DEF ScanInv, Breadth
<1>3. Visits' = Visits /\ current' \in Visits
    BY YieldVisits DEF ScanInv
<1>4. PICK s : Around(s)
    BY <1>1 DEF Reach
<1>5. Around(s)'
  <2>1. CASE yielded = << >>
    <3>1. Head(queue) = Visit(s, 0) /\ yielded' = <<Visit(s, 0)>>
        BY <1>1, <1>4, <2>1 DEF Around
    <3>2. yielded' # << >> /\ yielded'[1].node = s
        BY <3>1 DEF Visit
    <3>. QED
        BY <1>1, <1>3, <1>4, <3>2 DEF Around
  <2>2. CASE yielded # << >>
    <3>1. yielded' # << >> /\ yielded'[1] = yielded[1]
        BY <1>1, <1>2, <2>2
    <3>. QED
        BY <1>1, <1>3, <1>4, <2>2, <3>1, AroundStays
  <2>. QED
      BY <2>1, <2>2
<1>6. ASSUME NEW i \in 1 .. Len(yielded'), yielded'[i].depth < MaxDepth,
             yielded'[i] # current'
      PROVE  NoFarther(yielded[i].node, yielded[i].depth)'
  <2>1. i \in 1 .. Len(yielded) /\ yielded'[i] = yielded[i]
      BY <1>1, <1>2, <1>6
  <2>2. PICK n, d : n = yielded[i].node /\ d = yielded[i].depth
      OBVIOUS
  <2>3. NoFarther(n, d)
      BY <1>1, <1>6, <2>1, <2>2 DEF Near
  <2>4. AtCall' = AtCall /\ Own(n)' = Own(n) /\ edges' = edges
      BY <1>1 DEF AtCall, Own, store
  <2>5. NoFarther(n, d)'
      BY <1>1, <1>3, <2>3, <2>4, NearStays
  <2>. QED
      BY <2>1, <2>2, <2>5
<1>. QED
    BY <1>1, <1>5, <1>6 DEF Reach, Near

\* A list that is looked up holds edges of its node.
LEMMA OpenReach ==
    ASSUME ScanInv, Reach, Near, Open PROVE Reach' /\ Near'
<1>1. /\ phase = "yielded" /\ phase' \in {"walk", "pop"} /\ UNCHANGED store
      /\ UNCHANGED <<visited, queue, current, yielded, seen, mark>>
      /\ phase' = "walk" => list' = outEdges[current.node] /\ current.depth < MaxDepth
      /\ phase' = "pop" => ~ (current.depth < MaxDepth)
    BY DEF Open
<1>2. Visits' = Visits /\ edges' = edges
    BY <1>1 DEF Visits, store
<1>3. PICK s : Around(s)
    BY <1>1 DEF Reach
<1>4. ASSUME phase' = "walk" PROVE list' \subseteq Own(current.node)'
  <2>1. PICK n \in NodeId : n = current.node
      BY <1>1 DEF ScanInv, Breadth
  <2>2. list' = {e \in edges : e.src = n} /\ edges \subseteq seen
      BY <1>1, <1>4, <2>1 DEF ScanInv, Store, Inv, ListsMatchEdges, History
  <2>3. list' \subseteq Own(n)' /\ current' = current
      BY <1>1, <2>2 DEF Own
  <2>. QED
      BY <2>1, <2>3
<1>5. Around(s)'
  <2>1. yielded # << >> /\ current \in Visits
      BY <1>1, <1>3 DEF Around
  <2>. QED
      BY <1>1, <1>2, <1>3, <1>4, <2>1, AroundStays
<1>6. ASSUME NEW i \in 1 .. Len(yielded'), yielded'[i].depth < MaxDepth,
             yielded'[i] # current' \/ phase' = "pop"
      PROVE  NoFarther(yielded[i].node, yielded[i].depth)'
  <2>1. i \in 1 .. Len(yielded) /\ yielded' = yielded /\ yielded[i] # current
      BY <1>1, <1>6
  <2>2. PICK n, d : n = yielded[i].node /\ d = yielded[i].depth
      OBVIOUS
  <2>3. NoFarther(n, d)
      BY <1>1, <1>6, <2>1, <2>2 DEF Near
  <2>4. AtCall' = AtCall /\ Own(n)' = Own(n)
      BY <1>1 DEF AtCall, Own
  <2>5. NoFarther(n, d)'
      BY <1>1, <1>2, <2>3, <2>4, NearStays
  <2>. QED
      BY <2>1, <2>2, <2>5
<1>. QED
    BY <1>1, <1>5, <1>6 DEF Reach, Near

\* The end of an edge lies a hop beyond the node of the list.
LEMMA WalkReach ==
    ASSUME ScanInv, Reach, Near, Walk PROVE Reach' /\ Near'
<1>1. /\ phase = "walk" /\ phase' = "walk" /\ UNCHANGED store
      /\ UNCHANGED <<current, list, yielded, seen, mark>>
    BY DEF Walk
<1>2. PICK e \in list :
          /\ visited' = visited \cup {e.dst}
          /\ Visits' = IF e.dst \in visited THEN Visits
                       ELSE Visits \cup {Visit(e.dst, current.depth + 1)}
    BY WalkVisits DEF ScanInv
<1>3. PICK s : Around(s)
    BY <1>1 DEF Reach
<1>4. PICK n, d : n = current.node /\ d = current.depth
    OBVIOUS
<1>5. /\ current \in Visits /\ d < MaxDepth /\ list \subseteq Own(n) /\ yielded # << >>
      /\ d \in 0 .. MaxDepth /\ n \in BallsFrom(s, seen)[d]
      /\ d + 1 \in 1 .. MaxDepth /\ d + 1 \in 0 .. MaxDepth
  <2>1. /\ current \in Visits /\ d < MaxDepth /\ list \subseteq Own(n) /\ yielded # << >>
        /\ d \in 0 .. MaxDepth /\ n \in BallsFrom(s, seen)[d]
      BY <1>1, <1>3, <1>4 DEF Around
  <2>2. d + 1 \in 1 .. MaxDepth /\ d + 1 \in 0 .. MaxDepth
      BY <2>1, ScanConstantsOK
  <2>. QED
      BY <2>1, <2>2
<1>6. e.dst \in BallsFrom(s, seen)[d + 1]
  <2>1. e \in seen /\ e.src = n /\ (d + 1) - 1 = d
      BY <1>5 DEF Own
  <2>2. BallsFrom(s, seen)[d + 1] = Beyond(seen, BallsFrom(s, seen)[(d + 1) - 1])
      BY <1>5, BallsGrow
  <2>3. e.dst \in Beyond(seen, BallsFrom(s, seen)[d])
      BY <1>5, <2>1 DEF Beyond
  <2>. QED
      BY <2>1, <2>2, <2>3
<1>7. PICK v : v = Visit(e.dst, d + 1)
    OBVIOUS
<1>8. v.node = e.dst /\ v.depth = d + 1
    BY <1>7 DEF Visit
<1>9. /\ Visits' = IF e.dst \in visited THEN Visits ELSE Visits \cup {v}
      /\ Visits \subseteq Visits'
    BY <1>2, <1>4, <1>7
<1>10. visited' \subseteq {w.node : w \in Visits'}
  <2>1. visited \subseteq {w.node : w \in Visits'}
      BY <1>3, <1>9 DEF Around
  <2>2. e.dst \in {w.node : w \in Visits'}
      BY <1>8, <1>9, <2>1
  <2>. QED
      BY <1>2, <2>1, <2>2
<1>11. \A w \in Visits' : w.depth \in 0 .. MaxDepth /\ w.node \in BallsFrom(s, seen)[w.depth]
    BY <1>3, <1>5, <1>6, <1>8, <1>9 DEF Around
<1>12. Around(s)'
  <2>1. Own(current.node)' = Own(current.node)
      BY <1>1 DEF Own
  <2>2. Visit(s, 0) \in Visits' /\ yielded[1].node = s
      BY <1>3, <1>5, <1>9 DEF Around
  <2>3. current.depth < MaxDepth /\ list \subseteq Own(current.node)
      BY <1>1, <1>3 DEF Around
  <2>. QED
      BY <1>1, <1>5, <1>9, <1>10, <1>11, <2>1, <2>2, <2>3 DEF Around
<1>13. ASSUME NEW i \in 1 .. Len(yielded'), yielded'[i].depth < MaxDepth,
              yielded'[i] # current' \/ phase' = "pop"
       PROVE  NoFarther(yielded[i].node, yielded[i].depth)'
  <2>1. i \in 1 .. Len(yielded) /\ yielded' = yielded /\ yielded[i] # current
      BY <1>1, <1>13
  <2>2. PICK m, k : m = yielded[i].node /\ k = yielded[i].depth
      OBVIOUS
  <2>3. NoFarther(m, k)
      BY <1>1, <1>13, <2>1, <2>2 DEF Near
  <2>4. AtCall' = AtCall /\ Own(m)' = Own(m) /\ edges' = edges
      BY <1>1 DEF AtCall, Own, store
  <2>5. NoFarther(m, k)'
      BY <1>1, <1>9, <2>3, <2>4, NearStays
  <2>. QED
      BY <2>1, <2>2, <2>5
<1>. QED
    BY <1>1, <1>12, <1>13 DEF Reach, Near

\* No visit is more than a hop beyond the current one.
LEMMA VisitsNear ==
    ASSUME Breadth, NEW v \in Visits PROVE v.depth <= current.depth + 1
<1>1. current.depth \in Nat
    BY DEF Breadth, Seen
<1>2. ASSUME NEW i \in 1 .. Len(yielded), v = yielded[i] PROVE v.depth <= current.depth + 1
  <2>1. yielded[i] \in Seen /\ yielded[i].depth <= current.depth
      BY DEF Breadth
  <2>. QED
      BY <1>1, <1>2, <2>1 DEF Seen
<1>3. ASSUME NEW j \in 1 .. Len(queue), v = queue[j] PROVE v.depth <= current.depth + 1
    BY <1>3 DEF Breadth
<1>. QED
    BY <1>2, <1>3 DEF Visits

\* A node whose list is exhausted has its ends among the visits.
LEMMA ExhaustReach ==
    ASSUME ScanInv, Reach, Near, Exhaust PROVE Reach' /\ Near'
<1>1. /\ phase = "walk" /\ phase' = "pop" /\ UNCHANGED store
      /\ UNCHANGED <<visited, queue, current, yielded, seen, mark>>
    BY DEF Exhaust
<1>2. Visits' = Visits /\ edges' = edges
    BY <1>1 DEF Visits, store
<1>3. PICK s : Around(s)
    BY <1>1 DEF Reach
<1>4. Around(s)'
  <2>1. yielded # << >>
      BY <1>1, <1>3 DEF Around
  <2>. QED
      BY <1>1, <1>2, <1>3, <2>1, AroundStays
<1>5. ASSUME NEW i \in 1 .. Len(yielded'), yielded'[i].depth < MaxDepth
      PROVE  NoFarther(yielded[i].node, yielded[i].depth)'
  <2>1. i \in 1 .. Len(yielded) /\ yielded' = yielded
      BY <1>1, <1>5
  <2>2. PICK n, d : n = yielded[i].node /\ d = yielded[i].depth
      OBVIOUS
  <2>3. AtCall' = AtCall /\ Own(n)' = Own(n)
      BY <1>1 DEF AtCall, Own
  <2>4. NoFarther(n, d)
    <3>1. CASE yielded[i] # current
        BY <1>5, <2>1, <2>2, <3>1 DEF Near
    <3>2. CASE yielded[i] = current
      <4>1. Settled(n)
        <5>1. (yielded[i].depth < MaxDepth => Settled(yielded[i].node))'
            BY <1>1, <2>1, ExhaustScanInv DEF ScanInv, LeftBehind
        <5>. QED
            BY <1>1, <1>2, <1>5, <2>1, <2>2, <2>3, <5>1 DEF Settled
      <4>2. ASSUME NEW e \in Own(n) \cap AtCall, Own(n) \subseteq edges
            PROVE  \E v \in Visits : v.node = e.dst /\ v.depth <= d + 1
        <5>1. e.dst \in visited
            BY <4>1, <4>2 DEF Settled
        <5>2. PICK v \in Visits : v.node = e.dst
            BY <1>3, <5>1 DEF Around
        <5>3. v.depth <= d + 1
            BY <2>2, <3>2, VisitsNear DEF ScanInv
        <5>. QED
            BY <5>2, <5>3
      <4>. QED
          BY <4>2 DEF NoFarther
    <3>. QED
        BY <3>1, <3>2
  <2>5. NoFarther(n, d)'
      BY <1>1, <1>2, <2>3, <2>4, NearStays
  <2>. QED
      BY <2>1, <2>2, <2>5
<1>. QED
    BY <1>1, <1>4, <1>5 DEF Reach, Near

LEMMA ReachHolds == ScanSpec => [](ScanInv /\ Reach /\ Near)
<1>1. ScanInit => Reach /\ Near
    BY DEF ScanInit, Reach, Near
<1>2. ScanInv /\ Reach /\ Near /\ [ScanNext]_<<vars, scan>> => Reach' /\ Near'
  <2>. SUFFICES ASSUME ScanInv, Reach, Near, [ScanNext]_<<vars, scan>> PROVE Reach' /\ Near'
      OBVIOUS
  <2>1. CASE UNCHANGED <<vars, scan>>
    <3>1. /\ UNCHANGED <<phase, visited, queue, current, list, yielded, seen, mark, edges>>
          /\ Visits' = Visits /\ AtCall' = AtCall
        BY <2>1 DEF vars, scan, Visits, AtCall
    <3>2. Reach'
        BY <3>1 DEF Reach, Around, Own
    <3>3. Near'
        BY <3>1 DEF Near, NoFarther, Own
    <3>. QED
        BY <3>2, <3>3
  <2>. QED
      BY <2>1, WriteReach, CallReach, YieldReach, OpenReach, WalkReach, ExhaustReach
      DEF ScanNext
<1>. QED
    BY <1>1, <1>2, ScanInvHolds, PTL DEF ScanSpec

\* A traversal that is left with nothing deleted has found each ball of the call.
LEMMA BallsFound ==
    ASSUME ScanInv, Near, NEW s, Around(s), Done, NothingDeleted, yielded # << >>,
           NEW k \in 0 .. MaxDepth
    PROVE  \A n \in BallsFrom(s, AtCall)[k] : \E v \in Visits : v.node = n /\ v.depth <= k
<1>. DEFINE b == BallsFrom(s, AtCall)
            Found(m) == \A n \in b[m] : \E v \in Visits : v.node = n /\ v.depth <= m
            T == {m \in 0 .. MaxDepth : ~ Found(m)}
<1>1. /\ b[0] = {s}
      /\ \A m \in 1 .. MaxDepth : b[m] = Beyond(AtCall, b[m - 1])
    BY BallsGrow
<1>. SUFFICES ASSUME T # {} PROVE FALSE
    OBVIOUS
<1>. HIDE DEF b
<1>2. PICK m \in T : \A j \in T : m <= j
  <2>1. T \in SUBSET Nat
      OBVIOUS
  <2>. HIDE DEF T
  <2>. QED
      BY <2>1, Least
<1>3. m \in 0 .. MaxDepth /\ ~ Found(m)
    OBVIOUS
<1>4. m # 0
    BY <1>1, <1>3 DEF Around, Visit
<1>5. m \in 1 .. MaxDepth /\ m - 1 \in 0 .. MaxDepth /\ ~ (m <= m - 1)
    BY <1>3, <1>4, ScanConstantsOK
<1>6. Found(m - 1)
    BY <1>2, <1>5
<1>7. ASSUME NEW n \in b[m] PROVE \E v \in Visits : v.node = n /\ v.depth <= m
  <2>1. \A v \in Visits : v.depth \in Nat
      BY DEF Around
  <2>2. CASE n \in b[m - 1]
    <3>1. PICK v \in Visits : v.node = n /\ v.depth <= m - 1
        BY <1>6, <2>2
    <3>2. v.depth <= m
        BY <1>5, <2>1, <3>1
    <3>. QED
        BY <3>1, <3>2
  <2>3. CASE n \notin b[m - 1]
    <3>1. PICK e \in AtCall : e.src \in b[m - 1] /\ e.dst = n
        BY <1>1, <1>5, <2>3 DEF Beyond
    <3>2. PICK v \in Visits : v.node = e.src /\ v.depth <= m - 1
        BY <1>6, <3>1
    <3>3. PICK i \in 1 .. Len(yielded) : v = yielded[i]
      <4>1. 1 .. Len(queue) = {}
          BY DEF Done
      <4>. QED
          BY <4>1 DEF Visits
    <3>4. v.depth < MaxDepth
        BY <1>5, <2>1, <3>2, ScanConstantsOK
    <3>5. NoFarther(e.src, v.depth)
        BY <3>2, <3>3, <3>4 DEF Near, Done
    <3>6. Own(e.src) \subseteq edges /\ e \in Own(e.src) \cap AtCall
        BY <3>1 DEF Own, NothingDeleted, AtCall
    <3>7. PICK w \in Visits : w.node = e.dst /\ w.depth <= v.depth + 1
        BY <3>5, <3>6 DEF NoFarther
    <3>8. w.depth <= m
      <4>1. v.depth \in Nat /\ w.depth \in Nat
          BY <2>1
      <4>. QED
          BY <1>5, <3>2, <3>7, <4>1
    <3>. QED
        BY <3>1, <3>7, <3>8
  <2>. QED
      BY <2>2, <2>3
<1>. QED
    BY <1>3, <1>7

\* The depth of a node that GraphTraversal.bfs yields is a number of hops from the
\* start over edges that there have been since the call, whatever was written
\* meanwhile; and unless an edge was deleted the traversal yields every node within
\* max_depth at the call, at no more than its distance then.  For any store, any
\* max_depth and any number of writes.
THEOREM DepthsAlwaysDistances == ScanSpec => []DepthsAreDistances
<1>1. ScanInv /\ Reach /\ Near => DepthsAreDistances
  <2>. SUFFICES ASSUME ScanInv, Reach, Near, yielded # << >>
                PROVE  DepthsAreDistances
      BY DEF DepthsAreDistances
  <2>1. phase # "none" /\ DOMAIN yielded = 1 .. Len(yielded)
      BY DEF ScanInv, Breadth
  <2>2. PICK s : Around(s)
      BY <2>1 DEF Reach
  <2>3. yielded[1].node = s
      BY <2>2 DEF Around
  <2>4. \A E : Balls(E) = BallsFrom(s, E)
      BY <2>3, BallsAround, Zenon
  <2>5. ASSUME NEW i \in DOMAIN yielded
        PROVE  yielded[i].node \in Balls(seen)[yielded[i].depth]
    <3>1. yielded[i] \in Visits
        BY <2>1 DEF Visits
    <3>. QED
        BY <2>2, <2>4, <3>1 DEF Around
  <2>6. ASSUME Done, NothingDeleted, NEW k \in 0 .. MaxDepth, NEW n \in Balls(AtCall)[k]
        PROVE  \E i \in DOMAIN yielded : yielded[i].node = n /\ yielded[i].depth <= k
    <3>1. PICK v \in Visits : v.node = n /\ v.depth <= k
        BY <2>2, <2>4, <2>6, BallsFound
    <3>2. 1 .. Len(queue) = {}
        BY <2>6 DEF Done
    <3>3. PICK i \in 1 .. Len(yielded) : v = yielded[i]
        BY <3>2 DEF Visits
    <3>. QED
        BY <2>1, <3>1, <3>3
  <2>. QED
      BY <2>5, <2>6 DEF DepthsAreDistances
<1>. QED
    BY <1>1, ReachHolds, PTL

-----------------------------------------------------------------------------
\* A set with 0 and with the successor of each of its numbers has all numbers.
LEMMA Induction ==
    ASSUME NEW n \in Nat, NEW H, 0 \in H, \A k \in 0 .. n - 1 : k \in H => k + 1 \in H
    PROVE  \A k \in 0 .. n : k \in H
<1>. DEFINE T == {k \in 0 .. n : k \notin H}
<1>. SUFFICES ASSUME T # {} PROVE FALSE
    OBVIOUS
<1>1. PICK m \in T : \A k \in T : m <= k
  <2>1. T \in SUBSET Nat
      OBVIOUS
  <2>. HIDE DEF T
  <2>. QED
      BY <2>1, Least
<1>2. m \in Nat /\ m # 0 /\ m <= n
    BY <1>1
<1>3. m - 1 \in 0 .. n - 1 /\ m - 1 \notin T /\ m - 1 + 1 = m
    BY <1>1, <1>2
<1>4. m - 1 \in H
    BY <1>3
<1>. QED
    BY <1>1, <1>3, <1>4

\* The loops of the search: over a list of edges, over the heap, back from the
\* target; over the edges of a path; and walks that grow by an edge.
Listed(x, i, l, c) ==
    IF \E e \in l : e.id = i THEN Relaxed(x, CHOOSE e \in l : e.id = i, c) ELSE x

First(x, t) == IF x = << >> THEN t ELSE Head(x).src
Before(x, back, s, t) ==
    IF First(x, t) = s THEN x ELSE <<back[First(x, t)]>> \o x

Longer(x) ==
    x \cup {<<we[2].dst, we[1][2] + Weight[we[2].id]>> :
                we \in {y \in x \X edges : y[1][1] = y[2].src}}

Move(w, i, x) ==
    CASE w.of = "edges" -> Listed(x, i, w.list, w.popped)
      [] w.of = "turns" -> Turn(x, w.target)
      [] w.of = "back"  -> Before(x, w.back, w.start, w.target)
      [] w.of = "cost"  -> x + Weight[w.path[i].id]
      [] w.of = "walks" -> Longer(x)

Iterates(f, w, n, base) ==
    f = [i \in 0 .. n |-> IF i = 0 THEN base ELSE Move(w, i, f[i - 1])]

\* Any number of turns has an outcome.
LEMMA Recursion ==
    ASSUME NEW n \in Nat, NEW w, NEW base
    PROVE  \E f : Iterates(f, w, n, base)
<1>. DEFINE H == {m \in 0 .. n : \E f : Iterates(f, w, m, base)}
<1>1. 0 \in H
  <2>. DEFINE f == [i \in 0 .. 0 |-> base]
  <2>1. Iterates(f, w, 0, base)
      BY DEF Iterates
  <2>. QED
      BY <2>1
<1>2. ASSUME NEW k \in 0 .. n - 1, k \in H PROVE k + 1 \in H
  <2>. DEFINE m == k + 1
  <2>1. PICK g : Iterates(g, w, k, base)
      BY <1>2
  <2>2. m \in Nat /\ m # 0 /\ m - 1 = k /\ m \in 0 .. n
      OBVIOUS
  <2>. HIDE DEF m
  <2>. DEFINE f == [i \in 0 .. m |-> IF i = m THEN Move(w, m, g[m - 1]) ELSE g[i]]
  <2>3. \A i \in 0 .. k : g[i] = IF i = 0 THEN base ELSE Move(w, i, g[i - 1])
      BY <2>1, Zenon DEF Iterates
  <2>4. ASSUME NEW i \in 0 .. m
        PROVE  f[i] = IF i = 0 THEN base ELSE Move(w, i, f[i - 1])
    <3>1. CASE i = m
      <4>1. i # 0 /\ m - 1 \in 0 .. m /\ m - 1 # m
          BY <2>2, <3>1
      <4>2. f[i] = Move(w, m, g[m - 1]) /\ f[m - 1] = g[m - 1]
          BY <3>1, <4>1
      <4>. HIDE DEF f
      <4>. QED
          BY <3>1, <4>1, <4>2
    <3>2. CASE i # m
      <4>1. i \in 0 .. k /\ f[i] = g[i]
          BY <2>2, <3>2
      <4>2. CASE i = 0
          BY <2>3, <4>1, <4>2
      <4>3. CASE i # 0
        <5>1. i - 1 \in 0 .. m /\ i - 1 # m
            BY <2>2, <4>1, <4>3
        <5>2. f[i - 1] = g[i - 1]
            BY <5>1
        <5>. HIDE DEF f
        <5>. QED
            BY <2>3, <4>1, <4>3, <5>2
      <4>. QED
          BY <4>2, <4>3
    <3>. QED
        BY <3>1, <3>2
  <2>5. f = [i \in 0 .. m |-> f[i]]
      OBVIOUS
  <2>. HIDE DEF f
  <2>6. Iterates(f, w, m, base)
      BY <2>4, <2>5 DEF Iterates
  <2>. QED
      BY <2>2, <2>6 DEF m
<1>3. n \in 0 .. n
    OBVIOUS
<1>. HIDE DEF H
<1>4. n \in H
    BY <1>1, <1>2, <1>3, Induction
<1>. QED
    BY <1>4 DEF H

\* The outcomes before the first turn and after each.
LEMMA Moves ==
    ASSUME NEW n \in Nat, NEW w, NEW base, NEW f, Iterates(f, w, n, base)
    PROVE  f[0] = base /\ \A k \in 1 .. n : f[k] = Move(w, k, f[k - 1])
<1>1. \A i \in 0 .. n : f[i] = IF i = 0 THEN base ELSE Move(w, i, f[i - 1])
    BY Zenon DEF Iterates
<1>2. 0 \in 0 .. n
    OBVIOUS
<1>3. ASSUME NEW k \in 1 .. n PROVE f[k] = Move(w, k, f[k - 1])
  <2>1. k \in 0 .. n /\ k # 0
      OBVIOUS
  <2>. QED
      BY <1>1, <2>1, Zenon
<1>. QED
    BY <1>1, <1>2, <1>3

-----------------------------------------------------------------------------
\* The relaxation of a list, edge by edge.
Relaxes(f, w0, l, c) ==
    /\ f[0] = w0
    /\ \A k \in 1 .. MaxEdge : f[k] = Listed(f[k - 1], k, l, c)
    /\ AllRelaxed(w0, l, c) = f[MaxEdge]

\* There is such a sequence of states.
LEMMA RelaxesIn ==
    ASSUME NEW w0, NEW l, NEW c
    PROVE  \E f : Relaxes(f, w0, l, c)
<1>. DEFINE w == [of |-> "edges", list |-> l, popped |-> c]
            Solves(f) ==
               f = [i \in 0 .. MaxEdge |->
                      IF i = 0 THEN w0
                      ELSE Listed(f[i - 1], i, l, c)]
<1>1. \A k, x : Move(w, k, x) = Listed(x, k, l, c)
    BY DEF Move
<1>2. MaxEdge \in Nat
    BY ConstantsOK DEF ConstantsOK
<1>. HIDE DEF w
<1>3. \A f : Iterates(f, w, MaxEdge, w0) <=> Solves(f)
    BY <1>1, ZenonT(40) DEF Iterates
<1>4. \E f : Solves(f)
    BY <1>2, <1>3, Recursion, Zenon
<1>5. PICK f : Solves(f) /\ AllRelaxed(w0, l, c) = f[MaxEdge]
    BY <1>4, Zenon DEF AllRelaxed, Listed
<1>6. Iterates(f, w, MaxEdge, w0)
    BY <1>3, <1>5, Zenon
<1>7. f[0] = w0 /\ \A k \in 1 .. MaxEdge : f[k] = Move(w, k, f[k - 1])
    BY <1>2, <1>6, Moves
<1>8. Relaxes(f, w0, l, c)
    BY <1>1, <1>5, <1>7, Zenon DEF Relaxes
<1>. QED
    BY <1>8, Zenon

\* A search, turn by turn.
Searches(f, s, t) ==
    /\ f[0] = Started(s)
    /\ \A k \in 1 .. MaxEdge + 2 : f[k] = Turn(f[k - 1], t)
    /\ ShortestPath(s, t) = IF f[MaxEdge + 2].found
                            THEN {Backtracked(f[MaxEdge + 2].back, s, t)} ELSE {}

\* There is such a sequence of states.
LEMMA SearchesIn ==
    ASSUME NEW s, NEW t
    PROVE  \E f : Searches(f, s, t)
<1>. DEFINE w == [of |-> "turns", target |-> t]
            Solves(f) ==
               f = [i \in 0 .. MaxEdge + 2 |->
                      IF i = 0 THEN Started(s)
                      ELSE Turn(f[i - 1], t)]
<1>1. \A k, x : Move(w, k, x) = Turn(x, t)
    BY DEF Move
<1>2. MaxEdge + 2 \in Nat
    BY ConstantsOK DEF ConstantsOK
<1>. HIDE DEF w
<1>3. \A f : Iterates(f, w, MaxEdge + 2, Started(s)) <=> Solves(f)
    BY <1>1, ZenonT(40) DEF Iterates
<1>4. \E f : Solves(f)
    BY <1>2, <1>3, Recursion, Zenon
<1>5. PICK f : Solves(f) /\ ShortestPath(s, t) = IF f[MaxEdge + 2].found
                                                 THEN {Backtracked(f[MaxEdge + 2].back, s, t)} ELSE {}
    BY <1>4, Zenon DEF ShortestPath
<1>6. Iterates(f, w, MaxEdge + 2, Started(s))
    BY <1>3, <1>5, Zenon
<1>7. f[0] = Started(s) /\ \A k \in 1 .. MaxEdge + 2 : f[k] = Move(w, k, f[k - 1])
    BY <1>2, <1>6, Moves
<1>8. Searches(f, s, t)
    BY <1>1, <1>5, <1>7, Zenon DEF Searches
<1>. QED
    BY <1>8, Zenon

\* The way back, edge by edge.
Returns(f, back, s, t) ==
    /\ f[0] = << >>
    /\ \A k \in 1 .. MaxNode : f[k] = Before(f[k - 1], back, s, t)
    /\ Backtracked(back, s, t) = f[MaxNode]

\* There is such a sequence of edges found.
LEMMA ReturnsIn ==
    ASSUME NEW back, NEW s, NEW t
    PROVE  \E f : Returns(f, back, s, t)
<1>. DEFINE w == [of |-> "back", back |-> back, start |-> s, target |-> t]
            Solves(f) ==
               f = [i \in 0 .. MaxNode |->
                      IF i = 0 THEN << >>
                      ELSE Before(f[i - 1], back, s, t)]
<1>1. \A k, x : Move(w, k, x) = Before(x, back, s, t)
    BY DEF Move
<1>2. MaxNode \in Nat
    BY ConstantsOK DEF ConstantsOK
<1>. HIDE DEF w
<1>3. \A f : Iterates(f, w, MaxNode, << >>) <=> Solves(f)
    BY <1>1, ZenonT(40) DEF Iterates
<1>4. \E f : Solves(f)
    BY <1>2, <1>3, Recursion, Zenon
<1>5. PICK f : Solves(f) /\ Backtracked(back, s, t) = f[MaxNode]
    BY <1>4, Zenon DEF Backtracked, Before, First
<1>6. Iterates(f, w, MaxNode, << >>)
    BY <1>3, <1>5, Zenon
<1>7. f[0] = << >> /\ \A k \in 1 .. MaxNode : f[k] = Move(w, k, f[k - 1])
    BY <1>2, <1>6, Moves
<1>8. Returns(f, back, s, t)
    BY <1>1, <1>5, <1>7, Zenon DEF Returns
<1>. QED
    BY <1>8, Zenon

\* Walks of up to k steps.
Wanders(f, s) ==
    /\ f[0] = {<<s, 0>>}
    /\ \A k \in 1 .. MaxNode : f[k] = Longer(f[k - 1])
    /\ Walks(s) = f[MaxNode]

\* There are such sets of walks.
LEMMA WandersIn ==
    ASSUME NEW s
    PROVE  \E f : Wanders(f, s)
<1>. DEFINE w == [of |-> "walks"]
            Solves(f) ==
               f = [k \in 0 .. MaxNode |->
                      IF k = 0 THEN {<<s, 0>>}
                      ELSE Longer(f[k - 1])]
<1>1. \A k, x : Move(w, k, x) = Longer(x)
    BY DEF Move
<1>2. MaxNode \in Nat
    BY ConstantsOK DEF ConstantsOK
<1>. HIDE DEF w
<1>3. \A f : Iterates(f, w, MaxNode, {<<s, 0>>}) <=> Solves(f)
    BY <1>1, ZenonT(40) DEF Iterates
<1>4. \E f : Solves(f)
    BY <1>2, <1>3, Recursion, Zenon
<1>5. PICK f : Solves(f) /\ Walks(s) = f[MaxNode]
    BY <1>4, Zenon DEF Walks, Longer
<1>6. Iterates(f, w, MaxNode, {<<s, 0>>})
    BY <1>3, <1>5, Zenon
<1>7. f[0] = {<<s, 0>>} /\ \A k \in 1 .. MaxNode : f[k] = Move(w, k, f[k - 1])
    BY <1>2, <1>6, Moves
<1>8. Wanders(f, s)
    BY <1>1, <1>5, <1>7, Zenon DEF Wanders
<1>. QED
    BY <1>8, Zenon

\* The costs of the beginnings of a path.
Sums(f, path) ==
    /\ f[0] = 0
    /\ \A k \in 1 .. Len(path) : f[k] = f[k - 1] + Weight[path[k].id]
    /\ Cost(path) = f[Len(path)]

\* There are such sums.
LEMMA SumsIn ==
    ASSUME NEW path, Len(path) \in Nat
    PROVE  \E f : Sums(f, path)
<1>. DEFINE w == [of |-> "cost", path |-> path]
            Solves(f) ==
               f = [i \in 0 .. Len(path) |->
                      IF i = 0 THEN 0
                      ELSE f[i - 1] + Weight[path[i].id]]
<1>1. \A k, x : Move(w, k, x) = x + Weight[path[k].id]
    BY DEF Move
<1>2. Len(path) \in Nat
    BY Zenon
<1>. HIDE DEF w
<1>3. \A f : Iterates(f, w, Len(path), 0) <=> Solves(f)
    BY <1>1, ZenonT(40) DEF Iterates
<1>4. \E f : Solves(f)
    BY <1>2, <1>3, Recursion, Zenon
<1>5. PICK f : Solves(f) /\ Cost(path) = f[Len(path)]
    BY <1>4, Zenon DEF Cost
<1>6. Iterates(f, w, Len(path), 0)
    BY <1>3, <1>5, Zenon
<1>7. f[0] = 0 /\ \A k \in 1 .. Len(path) : f[k] = Move(w, k, f[k - 1])
    BY <1>2, <1>6, Moves
<1>8. Sums(f, path)
    BY <1>1, <1>5, <1>7, Zenon DEF Sums
<1>. QED
    BY <1>8, Zenon

-----------------------------------------------------------------------------
(* The heap, and the costs of the nodes found. *)

\* No pair in the heap costs less than its top.
LEMMA TopIsLeast ==
    ASSUME NEW pq \in SUBSET (Nat \X NodeId), pq # {}
    PROVE  HeapTop(pq) \in pq /\ \A q \in pq : HeapTop(pq)[1] <= q[1]
<1>. DEFINE costs == {q[1] : q \in pq}
<1>1. PICK c \in costs : \A d \in costs : c <= d
  <2>1. costs \in SUBSET Nat /\ costs # {}
      OBVIOUS
  <2>. HIDE DEF costs
  <2>. QED
      BY <2>1, Least
<1>. DEFINE ends == {q[2] : q \in {r \in pq : r[1] = c}}
<1>2. PICK n \in ends : \A m \in ends : n <= m
  <2>1. ends \in SUBSET Nat /\ ends # {}
      BY <1>1 DEF NodeId
  <2>. HIDE DEF ends
  <2>. QED
      BY <2>1, Least
<1>3. PICK p \in pq : p[1] = c /\ p[2] = n
    BY <1>2
<1>4. ASSUME NEW q \in pq PROVE p[1] < q[1] \/ (p[1] = q[1] /\ p[2] <= q[2])
  <2>1. c <= q[1] /\ c \in Nat /\ q[1] \in Nat
      BY <1>1
  <2>2. q[1] = c => n <= q[2]
      BY <1>2
  <2>. QED
      BY <1>3, <2>1, <2>2
<1>5. /\ HeapTop(pq) \in pq
      /\ \A q \in pq : \/ HeapTop(pq)[1] < q[1]
                       \/ HeapTop(pq)[1] = q[1] /\ HeapTop(pq)[2] <= q[2]
    BY <1>4, Zenon DEF HeapTop
<1>6. \A q \in pq : q[1] \in Nat
    OBVIOUS
<1>. QED
    BY <1>5, <1>6

\* Edges have weights, and lead from node to node.
LEMMA Weighs ==
    ASSUME TypeOK, NEW e \in edges
    PROVE  Weight[e.id] \in Nat /\ e.id \in 1 .. MaxEdge /\ e.src \in NodeId /\ e.dst \in NodeId
BY WeightOK DEF TypeOK, Edge

\* The costs of the nodes found, of which those in V have been popped and the edges
\* in D have been relaxed.
Priced(pq, costs, V, D, s) ==
    /\ s \in DOMAIN costs /\ costs[s] = 0
    /\ \A n \in DOMAIN costs : n \in NodeId /\ costs[n] \in Nat
    /\ V \subseteq DOMAIN costs
    /\ \A e \in D : /\ e.src \in V /\ e.dst \in DOMAIN costs
                    /\ costs[e.dst] <= costs[e.src] + Weight[e.id]
    /\ \A n \in DOMAIN costs \ V : <<costs[n], n>> \in pq
    /\ \A q \in pq : q \in Nat \X NodeId /\ q[2] \in DOMAIN costs /\ costs[q[2]] <= q[1]
    /\ \A v \in V : \A q \in pq : costs[v] <= q[1]

\* The cost of going on from u by the edge e.
Reaches(c, costs, u, e) == e.src = u /\ c = costs[u] + Weight[e.id]

\* An edge that improves is never one to a node that has been popped: the new cost
\* disturbs nothing that has been relaxed.
LEMMA RelaxPrices ==
    ASSUME TypeOK, NEW pq, NEW costs, NEW V, NEW D \in SUBSET edges, NEW s,
           Priced(pq, costs, V, D, s), NEW u \in V, \A v \in V : costs[v] <= costs[u],
           NEW e \in edges, NEW c, Reaches(c, costs, u, e),
           Improves(costs, e.dst, c)
    PROVE  /\ Priced(pq \cup {<<c, e.dst>>}, Put(costs, e.dst, c), V, D \cup {e}, s)
           /\ e.dst \notin V /\ e.dst # s
<1>0. e.src = u /\ c = costs[u] + Weight[e.id]
    BY DEF Reaches
<1>1. /\ costs[u] \in Nat /\ c \in Nat /\ costs[u] <= c /\ e.dst \in NodeId
    BY <1>0, Weighs DEF Priced
<1>2. e.dst \in DOMAIN costs => c < costs[e.dst] /\ costs[e.dst] \in Nat
    BY DEF Improves, Priced
<1>3. e.dst \notin V
    BY <1>1, <1>2 DEF Priced
<1>4. e.dst # s
    BY <1>1, <1>2 DEF Priced
<1>5. PICK g : g = Put(costs, e.dst, c)
    OBVIOUS
<1>6. /\ DOMAIN g = DOMAIN costs \cup {e.dst} /\ g[e.dst] = c
      /\ \A n \in DOMAIN costs : n # e.dst => g[n] = costs[n]
    BY <1>5 DEF Put
<1>7. \A n \in DOMAIN costs : g[n] <= costs[n] /\ g[n] \in Nat /\ costs[n] \in Nat
    BY <1>1, <1>2, <1>6 DEF Priced
<1>8. \A v \in V : g[v] = costs[v] /\ v \in DOMAIN costs
    BY <1>3, <1>6 DEF Priced
<1>9. s \in DOMAIN g /\ g[s] = 0
    BY <1>4, <1>6 DEF Priced
<1>10. \A n \in DOMAIN g : n \in NodeId /\ g[n] \in Nat
    BY <1>1, <1>6, <1>7 DEF Priced
<1>11. V \subseteq DOMAIN g
    BY <1>6, <1>8
<1>12. ASSUME NEW f \in D \cup {e}
       PROVE  /\ f.src \in V /\ f.dst \in DOMAIN g
              /\ g[f.dst] <= g[f.src] + Weight[f.id]
  <2>1. CASE f = e
    <3>1. g[f.src] + Weight[f.id] = c
      <4>1. g[u] = costs[u]
          BY <1>8, Zenon
      <4>. QED
          BY <1>0, <2>1, <4>1, Zenon
    <3>. QED
        BY <1>0, <1>1, <1>6, <2>1, <3>1
  <2>2. CASE f # e
    <3>1. f \in D /\ f \in edges
        BY <2>2
    <3>2. /\ f.src \in V /\ f.dst \in DOMAIN costs
          /\ costs[f.dst] <= costs[f.src] + Weight[f.id]
        BY <3>1 DEF Priced
    <3>3. Weight[f.id] \in Nat
        BY <3>1, Weighs
    <3>4. /\ g[f.dst] <= costs[f.dst] /\ g[f.dst] \in Nat /\ costs[f.dst] \in Nat
          /\ g[f.src] = costs[f.src] /\ costs[f.src] \in Nat
        BY <1>7, <1>8, <3>2
    <3>5. f.dst \in DOMAIN g
        BY <1>6, <3>2
    <3>6. g[f.dst] <= g[f.src] + Weight[f.id]
      <4>1. PICK a \in Nat, b \in Nat, d \in Nat, h \in Nat :
                a = g[f.dst] /\ b = costs[f.dst] /\ d = costs[f.src] /\ h = Weight[f.id]
          BY <3>3, <3>4
      <4>2. a <= b /\ b <= d + h
          BY <3>2, <3>4, <4>1, Zenon
      <4>3. a <= d + h
          BY <4>2
      <4>. QED
          BY <3>4, <4>1, <4>3, Zenon
    <3>. QED
        BY <3>2, <3>5, <3>6
  <2>. QED
      BY <2>1, <2>2
<1>13. ASSUME NEW n \in DOMAIN g \ V PROVE <<g[n], n>> \in pq \cup {<<c, e.dst>>}
    BY <1>6 DEF Priced
<1>14. ASSUME NEW q \in pq \cup {<<c, e.dst>>}
       PROVE  q \in Nat \X NodeId /\ q[2] \in DOMAIN g /\ g[q[2]] <= q[1]
  <2>1. CASE q \in pq
    <3>1. q \in Nat \X NodeId /\ q[2] \in DOMAIN costs /\ costs[q[2]] <= q[1] /\ q[1] \in Nat
        BY <2>1 DEF Priced
    <3>2. g[q[2]] <= q[1]
        BY <1>7, <3>1
    <3>. QED
        BY <1>6, <3>1, <3>2
  <2>2. CASE q = <<c, e.dst>>
      BY <1>1, <1>6, <2>2
  <2>. QED
      BY <2>1, <2>2
<1>15. ASSUME NEW v \in V, NEW q \in pq \cup {<<c, e.dst>>} PROVE g[v] <= q[1]
  <2>1. CASE q \in pq
      BY <1>8, <2>1 DEF Priced
  <2>2. CASE q = <<c, e.dst>>
      BY <1>1, <1>7, <1>8, <2>2
  <2>. QED
      BY <2>1, <2>2
<1>16. Priced(pq \cup {<<c, e.dst>>}, g, V, D \cup {e}, s)
    BY <1>9, <1>10, <1>11, <1>12, <1>13, <1>14, <1>15, Zenon DEF Priced
<1>. QED
    BY <1>3, <1>4, <1>5, <1>16, Zenon

\* An edge that does not improve is relaxed as it is.
LEMMA KeepsPrices ==
    ASSUME NEW pq, NEW costs, NEW V, NEW D, NEW s, Priced(pq, costs, V, D, s),
           NEW e, e.src \in V, TypeOK, e \in edges,
           ~ Improves(costs, e.dst, costs[e.src] + Weight[e.id])
    PROVE  Priced(pq, costs, V, D \cup {e}, s)
<1>1. e.dst \in DOMAIN costs /\ ~ (costs[e.src] + Weight[e.id] < costs[e.dst])
    BY DEF Improves
<1>2. costs[e.src] \in Nat /\ costs[e.dst] \in Nat /\ Weight[e.id] \in Nat
    BY <1>1, Weighs DEF Priced
<1>3. costs[e.dst] <= costs[e.src] + Weight[e.id]
    BY <1>1, <1>2
<1>. QED
    BY <1>1, <1>3 DEF Priced

\* An edge makes a walk longer.
LEMMA WalkOn ==
    ASSUME NEW W, NEW s, Wanders(W, s), NEW k \in 0 .. MaxNode, k # MaxNode,
           NEW e \in edges, NEW c, <<e.src, c>> \in W[k]
    PROVE  <<e.dst, c + Weight[e.id]>> \in W[k + 1]
<1>1. PICK l \in 1 .. MaxNode : l = k + 1 /\ l - 1 = k
    BY ConstantsOK DEF ConstantsOK
<1>2. W[l] = Longer(W[k])
    BY <1>1, Zenon DEF Wanders
<1>3. PICK we : we = <<<<e.src, c>>, e>>
    OBVIOUS
<1>4. we \in W[k] \X edges /\ we[1][1] = we[2].src /\ we[1][2] = c /\ we[2] = e
    BY <1>3
<1>5. <<we[2].dst, we[1][2] + Weight[we[2].id]>> \in Longer(W[k])
    BY <1>4, Zenon DEF Longer
<1>. QED
    BY <1>1, <1>2, <1>4, <1>5, Zenon

\* The way to each node found: the edge it was found by, out of a node that has been
\* popped, and a walk of no more steps than m.
Led(costs, back, V, m, s, depth, W) ==
    /\ DOMAIN depth = DOMAIN costs /\ depth[s] = 0
    /\ \A n \in DOMAIN costs : depth[n] \in 0 .. m /\ <<n, costs[n]>> \in W[depth[n]]
    /\ DOMAIN back = DOMAIN costs \ {s}
    /\ \A n \in DOMAIN back :
          /\ back[n] \in edges /\ back[n].dst = n /\ back[n].src \in V
          /\ costs[n] = costs[back[n].src] + Weight[back[n].id]
          /\ depth[n] = depth[back[n].src] + 1

\* With the edge that improves, the way to its end.
LEMMA RelaxLeads ==
    ASSUME NEW costs, NEW back, NEW V, V \subseteq DOMAIN costs,
           NEW m \in 0 .. MaxNode, NEW s, NEW depth, NEW W, Wanders(W, s), Led(costs, back, V, m, s, depth, W), s \in DOMAIN costs,
           NEW u \in V, depth[u] < m, NEW e \in edges, NEW c, Reaches(c, costs, u, e),
           e.dst \notin V, e.dst # s
    PROVE  Led(Put(costs, e.dst, c), Put(back, e.dst, e), V, m, s,
               Put(depth, e.dst, depth[u] + 1), W)
<1>1. PICK g, b, d : /\ g = Put(costs, e.dst, c) /\ b = Put(back, e.dst, e)
                     /\ d = Put(depth, e.dst, depth[u] + 1)
    OBVIOUS
<1>2. /\ DOMAIN g = DOMAIN costs \cup {e.dst} /\ g[e.dst] = c
      /\ \A n \in DOMAIN costs : n # e.dst => g[n] = costs[n]
    BY <1>1 DEF Put
<1>3. /\ DOMAIN b = DOMAIN back \cup {e.dst} /\ b[e.dst] = e
      /\ \A n \in DOMAIN back : n # e.dst => b[n] = back[n]
    BY <1>1 DEF Put
<1>4. /\ DOMAIN d = DOMAIN depth \cup {e.dst} /\ d[e.dst] = depth[u] + 1
      /\ \A n \in DOMAIN depth : n # e.dst => d[n] = depth[n]
    BY <1>1 DEF Put
<1>5. DOMAIN d = DOMAIN g /\ d[s] = 0
    BY <1>2, <1>4 DEF Led
<1>6. \A v \in V : v \in DOMAIN costs /\ v # e.dst /\ g[v] = costs[v] /\ d[v] = depth[v]
    BY <1>2, <1>4 DEF Led
<1>7. depth[u] \in 0 .. m /\ <<u, costs[u]>> \in W[depth[u]] /\ m \in Nat
    BY <1>6 DEF Led
<1>8. <<e.dst, c>> \in W[depth[u] + 1]
  <2>1. depth[u] \in 0 .. MaxNode /\ depth[u] # MaxNode
      BY <1>7, ConstantsOK DEF ConstantsOK
  <2>. QED
    <3>1. e.src = u /\ c = costs[u] + Weight[e.id]
        BY DEF Reaches
    <3>2. <<e.src, costs[u]>> \in W[depth[u]]
        BY <1>7, <3>1, Zenon
    <3>3. <<e.dst, costs[u] + Weight[e.id]>> \in W[depth[u] + 1]
        BY <2>1, <3>2, WalkOn, Zenon
    <3>. QED
        BY <3>1, <3>3, Zenon
<1>9. ASSUME NEW n \in DOMAIN g PROVE d[n] \in 0 .. m /\ <<n, g[n]>> \in W[d[n]]
  <2>1. CASE n = e.dst
    <3>1. depth[u] + 1 \in 0 .. m
        BY <1>7
    <3>. QED
        BY <1>2, <1>4, <1>8, <2>1, <3>1, Zenon
  <2>2. CASE n # e.dst
    <3>1. n \in DOMAIN costs /\ n \in DOMAIN depth
        BY <1>2, <2>2 DEF Led
    <3>2. g[n] = costs[n] /\ d[n] = depth[n]
        BY <1>2, <1>4, <2>2, <3>1
    <3>. QED
        BY <3>1, <3>2, Zenon DEF Led
  <2>. QED
      BY <2>1, <2>2
<1>10. DOMAIN b = DOMAIN g \ {s}
    BY <1>2, <1>3 DEF Led
<1>11. ASSUME NEW n \in DOMAIN b
       PROVE  /\ b[n] \in edges /\ b[n].dst = n /\ b[n].src \in V
              /\ g[n] = g[b[n].src] + Weight[b[n].id]
              /\ d[n] = d[b[n].src] + 1
  <2>1. CASE n = e.dst
      BY <1>2, <1>3, <1>4, <1>6, <2>1 DEF Reaches
  <2>2. CASE n # e.dst
    <3>1. n \in DOMAIN back /\ b[n] = back[n]
        BY <1>3, <2>2
    <3>2. /\ back[n] \in edges /\ back[n].dst = n /\ back[n].src \in V
          /\ costs[n] = costs[back[n].src] + Weight[back[n].id]
          /\ depth[n] = depth[back[n].src] + 1
        BY <3>1, Zenon DEF Led
    <3>3. n \in DOMAIN costs /\ n \in DOMAIN depth
        BY <3>1 DEF Led
    <3>4. g[n] = costs[n] /\ d[n] = depth[n]
        BY <1>2, <1>4, <2>2, <3>3
    <3>. QED
        BY <1>6, <3>1, <3>2, <3>4, Zenon
  <2>. QED
      BY <2>1, <2>2
<1>12. Led(g, b, V, m, s, d, W)
    BY <1>5, <1>9, <1>10, <1>11, Zenon DEF Led
<1>. QED
    BY <1>1, <1>12, Zenon

\* The state of a search, of which the edges in D have been relaxed.
Search(pq, costs, back, V, found) ==
    [pq |-> pq, costs |-> costs, back |-> back, visited |-> V, found |-> found]

Sound(x, D, m, s, W) ==
    /\ x = Search(x.pq, x.costs, x.back, x.visited, FALSE)
    /\ IsFiniteSet(x.pq) /\ Priced(x.pq, x.costs, x.visited, D, s)
    /\ \E depth : /\ Led(x.costs, x.back, x.visited, m, s, depth, W)
                  /\ \A v \in x.visited : depth[v] < m

\* A turn pops a node at the cost of u; what has been relaxed since.
Since(x, y, u) ==
    /\ y.visited = x.visited /\ u \in x.visited /\ y.costs[u] = x.costs[u]
    /\ \A v \in x.visited : y.costs[v] <= y.costs[u]

Grew(x, y, k) == Cardinality(y.pq) <= Cardinality(x.pq) + k

\* The relaxation of an edge out of the node popped, improving or not.
LEMMA Relaxing ==
    ASSUME TypeOK, NEW D \in SUBSET edges, NEW m \in 0 .. MaxNode, NEW s, NEW W, Wanders(W, s),
           NEW x, NEW u, NEW y, Sound(y, D, m, s, W), Since(x, y, u),
           NEW e \in edges, e.src = u
    PROVE  /\ Sound(Relaxed(y, e, x.costs[u]), D \cup {e}, m, s, W)
           /\ Since(x, Relaxed(y, e, x.costs[u]), u)
           /\ Grew(y, Relaxed(y, e, x.costs[u]), 1)
<1>. SUFFICES ASSUME NEW z, z = Relaxed(y, e, x.costs[u])
              PROVE  /\ Sound(z, D \cup {e}, m, s, W) /\ Since(x, z, u)
                     /\ Cardinality(z.pq) <= Cardinality(y.pq) + 1
    BY DEF Grew
<1>1. PICK pq, costs, back, V :
          /\ y = Search(pq, costs, back, V, FALSE)
          /\ pq = y.pq /\ costs = y.costs /\ back = y.back /\ V = y.visited
    BY Zenon DEF Sound
<1>2. /\ IsFiniteSet(pq) /\ Priced(pq, costs, V, D, s)
    BY <1>1, Zenon DEF Sound
<1>3. PICK depth : /\ Led(costs, back, V, m, s, depth, W)
                   /\ \A v \in V : depth[v] < m
    BY <1>1, Zenon DEF Sound
<1>4. /\ V = x.visited /\ u \in V /\ costs[u] = x.costs[u] /\ \A v \in V : costs[v] <= costs[u]
    BY <1>1, Zenon DEF Since
<1>5. PICK c : c = costs[u] + Weight[e.id]
    OBVIOUS
<1>6. V \subseteq DOMAIN costs /\ s \in DOMAIN costs
    BY <1>2 DEF Priced
<1>7. CASE Improves(costs, e.dst, c)
  <2>0. Reaches(c, costs, u, e)
      BY <1>5 DEF Reaches
  <2>1. z = [y EXCEPT !.costs = Put(y.costs, e.dst, c), !.back = Put(y.back, e.dst, e),
                      !.pq = y.pq \cup {<<c, e.dst>>}]
      BY <1>1, <1>4, <1>5, <1>7, Zenon DEF Relaxed
  <2>2. PICK pq2, costs2, back2 :
            pq2 = pq \cup {<<c, e.dst>>} /\ costs2 = Put(costs, e.dst, c) /\ back2 = Put(back, e.dst, e)
      OBVIOUS
  <2>3. z = [Search(pq, costs, back, V, FALSE) EXCEPT !.costs = costs2, !.back = back2, !.pq = pq2]
      BY <1>1, <2>1, <2>2, Zenon
  <2>4. z = Search(pq2, costs2, back2, V, FALSE)
      BY <2>3 DEF Search
  <2>5. z.pq = pq2 /\ z.costs = costs2 /\ z.back = back2 /\ z.visited = V
      BY <2>4 DEF Search
  <2>6. Priced(pq2, costs2, V, D \cup {e}, s) /\ e.dst \notin V /\ e.dst # s
    <3>1. /\ Priced(pq \cup {<<c, e.dst>>}, Put(costs, e.dst, c), V, D \cup {e}, s)
          /\ e.dst \notin V /\ e.dst # s
      <4>1. Priced(pq, costs, V, D, s) /\ u \in V /\ \A v \in V : costs[v] <= costs[u]
          BY <1>2, <1>4, Zenon
      <4>. QED
          BY <1>7, <2>0, <4>1, RelaxPrices, Zenon
    <3>. QED
        BY <2>2, <3>1, Zenon
  <2>7. PICK depth2 : depth2 = Put(depth, e.dst, depth[u] + 1)
      OBVIOUS
  <2>8. Led(costs2, back2, V, m, s, depth2, W)
    <3>1. Led(Put(costs, e.dst, c), Put(back, e.dst, e), V, m, s, Put(depth, e.dst, depth[u] + 1), W)
        BY <1>3, <1>4, <1>6, <2>0, <2>6, RelaxLeads, Zenon
    <3>. QED
        BY <2>2, <2>7, <3>1, Zenon
  <2>9. \A v \in V : depth2[v] = depth[v] /\ costs2[v] = costs[v]
    <3>1. \A v \in V : v # e.dst /\ v \in DOMAIN costs /\ v \in DOMAIN depth
        BY <1>3, <1>6, <2>6 DEF Led
    <3>. QED
        BY <2>2, <2>7, <3>1 DEF Put
  <2>10. IsFiniteSet(pq2) /\ Cardinality(pq2) <= Cardinality(pq) + 1
    <3>1. IsFiniteSet(pq2) /\ Cardinality(pq) \in Nat
          /\ Cardinality(pq2) = IF <<c, e.dst>> \in pq THEN Cardinality(pq) ELSE Cardinality(pq) + 1
        BY <1>2, <2>2, FS_AddElement, FS_CardinalityType
    <3>. QED
        BY <3>1
  <2>11. Sound(z, D \cup {e}, m, s, W)
    <3>1. \A v \in V : depth2[v] < m
        BY <1>3, <2>9
    <3>. QED
        BY <2>4, <2>5, <2>6, <2>8, <2>10, <3>1, Zenon DEF Sound
  <2>12. Since(x, z, u)
      BY <1>4, <2>5, <2>9 DEF Since
  <2>. QED
      BY <1>1, <2>5, <2>10, <2>11, <2>12, Zenon
<1>8. CASE ~ Improves(costs, e.dst, c)
  <2>1. z = y
      BY <1>1, <1>4, <1>5, <1>8, Zenon DEF Relaxed
  <2>2. Priced(pq, costs, V, D \cup {e}, s)
      BY <1>2, <1>4, <1>5, <1>8, KeepsPrices
  <2>3. Sound(z, D \cup {e}, m, s, W)
      BY <1>1, <1>2, <1>3, <2>1, <2>2, Zenon DEF Sound
  <2>4. Cardinality(pq) \in Nat
      BY <1>2, FS_CardinalityType
  <2>5. Cardinality(z.pq) <= Cardinality(y.pq) + 1
    <3>1. Cardinality(pq) <= Cardinality(pq) + 1
        BY <2>4
    <3>. QED
        BY <1>1, <2>1, <3>1, Zenon
  <2>. QED
      BY <2>1, <2>3, <2>5
<1>. QED
    BY <1>7, <1>8

\* A list is relaxed in the order of the ids.
Upto(l, k) == {e \in l : e.id <= k}

NextOf(l, k, e) ==
    /\ e \in l /\ e.id = k + 1
    /\ e = CHOOSE x \in l : x.id = k + 1
    /\ e \notin Upto(l, k)
    /\ Upto(l, k + 1) = Upto(l, k) \cup {e}

\* The edge with the next id, if the list has it.
LEMMA NextListed ==
    ASSUME NEW l, Once(l), l \subseteq Edge, NEW k \in Nat
    PROVE  \/ /\ ~ \E e \in l : e.id = k + 1
              /\ Upto(l, k + 1) = Upto(l, k)
           \/ \E e : NextOf(l, k, e)
<1>1. \A e \in l : e.id \in Nat
    BY DEF Edge
<1>2. CASE ~ \E e \in l : e.id = k + 1
    BY <1>1, <1>2 DEF Upto
<1>3. CASE \E e \in l : e.id = k + 1
  <2>1. PICK e : e \in l /\ e.id = k + 1 /\ e = CHOOSE x \in l : x.id = k + 1
      BY <1>3
  <2>2. \A x \in l : x.id = k + 1 => x = e
      BY <2>1 DEF Once
  <2>3. e \notin Upto(l, k) /\ Upto(l, k + 1) = Upto(l, k) \cup {e}
      BY <1>1, <2>1, <2>2 DEF Upto
  <2>. QED
      BY <2>1, <2>3, Zenon DEF NextOf
<1>. QED
    BY <1>2, <1>3

\* The relaxation of all edges out of the node popped.
LEMMA RelaxingAll ==
    ASSUME TypeOK, Once(edges), IsFiniteSet(edges), NEW D \in SUBSET edges,
           NEW m \in 0 .. MaxNode, NEW s, NEW W, Wanders(W, s),
           NEW x, NEW u, Sound(x, D, m, s, W), Since(x, x, u),
           NEW l \in SUBSET edges, \A e \in l : e.src = u
    PROVE  /\ Sound(AllRelaxed(x, l, x.costs[u]), D \cup l, m, s, W)
           /\ Since(x, AllRelaxed(x, l, x.costs[u]), u)
           /\ Grew(x, AllRelaxed(x, l, x.costs[u]), Cardinality(l))
<1>. SUFFICES ASSUME NEW z, z = AllRelaxed(x, l, x.costs[u])
              PROVE  /\ Sound(z, D \cup l, m, s, W) /\ Since(x, z, u)
                     /\ Cardinality(z.pq) <= Cardinality(x.pq) + Cardinality(l)
    BY Zenon DEF Grew
<1>1. PICK f : Relaxes(f, x, l, x.costs[u])
    BY RelaxesIn
<1>2. /\ f[0] = x /\ z = f[MaxEdge]
      /\ \A k \in 1 .. MaxEdge : f[k] = Listed(f[k - 1], k, l, x.costs[u])
    BY <1>1, Zenon DEF Relaxes
<1>. DEFINE P(k) == /\ Sound(f[k], D \cup Upto(l, k), m, s, W) /\ Since(x, f[k], u)
                    /\ Cardinality(f[k].pq) <= Cardinality(x.pq) + Cardinality(Upto(l, k))
            H == {k \in 0 .. MaxEdge : P(k)}
<1>3. l \subseteq Edge /\ Once(l) /\ IsFiniteSet(l)
    BY FS_Subset DEF TypeOK, Once
<1>4. \A k : IsFiniteSet(Upto(l, k)) /\ Cardinality(Upto(l, k)) \in Nat /\ Upto(l, k) \subseteq l
    BY <1>3, FS_Subset, FS_CardinalityType DEF Upto
<1>5. Cardinality(x.pq) \in Nat
    BY FS_CardinalityType DEF Sound
<1>6. 0 \in H
  <2>1. Upto(l, 0) = {}
      BY <1>3 DEF Upto, Edge
  <2>2. 0 \in 0 .. MaxEdge
      BY ConstantsOK DEF ConstantsOK
  <2>3. Cardinality({}) = 0
      BY FS_EmptySet
  <2>4. Cardinality(x.pq) <= Cardinality(x.pq) + Cardinality(Upto(l, 0))
      BY <1>5, <2>1, <2>3
  <2>5. D \cup Upto(l, 0) = D
      BY <2>1
  <2>6. P(0)
      BY <1>2, <2>4, <2>5, Zenon
  <2>. QED
      BY <2>2, <2>6
<1>7. ASSUME NEW k \in 0 .. MaxEdge - 1, k \in H PROVE k + 1 \in H
  <2>1. PICK y : y = f[k]
      OBVIOUS
  <2>2. /\ Sound(y, D \cup Upto(l, k), m, s, W) /\ Since(x, y, u)
        /\ Cardinality(y.pq) <= Cardinality(x.pq) + Cardinality(Upto(l, k))
      BY <1>7, <2>1
  <2>3. k + 1 \in 0 .. MaxEdge /\ k \in Nat
      BY ConstantsOK DEF ConstantsOK
  <2>4. f[k + 1] = Listed(y, k + 1, l, x.costs[u])
    <3>1. PICK j : j = k + 1 /\ j - 1 = k /\ j \in 1 .. MaxEdge
        BY <2>3
    <3>. QED
        BY <1>2, <2>1, <3>1, Zenon
  <2>5. CASE /\ ~ \E e \in l : e.id = k + 1
             /\ Upto(l, k + 1) = Upto(l, k)
    <3>1. f[k + 1] = y
        BY <2>4, <2>5, Zenon DEF Listed
    <3>2. P(k + 1)
        BY <2>2, <2>5, <3>1
    <3>. QED
        BY <2>3, <3>2
  <2>6. CASE \E e : NextOf(l, k, e)
    <3>1. PICK e : /\ e \in l /\ e.id = k + 1
                   /\ e = CHOOSE d \in l : d.id = k + 1
                   /\ e \notin Upto(l, k)
                   /\ Upto(l, k + 1) = Upto(l, k) \cup {e}
        BY <2>6, Zenon DEF NextOf
    <3>2. \E d \in l : d.id = k + 1
        BY <3>1, Zenon
    <3>3. f[k + 1] = Relaxed(y, e, x.costs[u])
        BY <2>4, <3>1, <3>2, Zenon DEF Listed
    <3>4. PICK q : q = f[k + 1]
        OBVIOUS
    <3>5. e \in edges /\ e.src = u /\ D \cup Upto(l, k) \in SUBSET edges
        BY <1>4, <3>1
    <3>6. /\ Sound(q, (D \cup Upto(l, k)) \cup {e}, m, s, W) /\ Since(x, q, u)
          /\ Cardinality(q.pq) <= Cardinality(y.pq) + 1
      <4>1. q = Relaxed(y, e, x.costs[u])
          BY <3>3, <3>4, Zenon
      <4>2. PICK C : C = D \cup Upto(l, k)
          OBVIOUS
      <4>3. /\ C \in SUBSET edges /\ Sound(y, C, m, s, W) /\ Since(x, y, u)
            /\ e \in edges /\ e.src = u
          BY <2>2, <3>5, <4>2, Zenon
      <4>. HIDE <1>7, <2>6
      <4>4. /\ Sound(Relaxed(y, e, x.costs[u]), C \cup {e}, m, s, W)
            /\ Since(x, Relaxed(y, e, x.costs[u]), u)
            /\ Grew(y, Relaxed(y, e, x.costs[u]), 1)
          BY <4>3, Relaxing, Zenon
      <4>. QED
          BY <4>1, <4>2, <4>4, Zenon DEF Grew
    <3>7. (D \cup Upto(l, k)) \cup {e} = D \cup Upto(l, k + 1)
        BY <3>1
    <3>8. Cardinality(Upto(l, k + 1)) = Cardinality(Upto(l, k)) + 1
        BY <1>4, <3>1, FS_AddElement
    <3>9. Cardinality(q.pq) <= Cardinality(x.pq) + Cardinality(Upto(l, k + 1))
      <4>1. Cardinality(q.pq) \in Nat /\ Cardinality(y.pq) \in Nat
          BY <2>2, <3>6, FS_CardinalityType DEF Sound
      <4>2. PICK a \in Nat, b \in Nat, c \in Nat, d \in Nat :
                /\ a = Cardinality(q.pq) /\ b = Cardinality(y.pq)
                /\ c = Cardinality(x.pq) /\ d = Cardinality(Upto(l, k))
          BY <1>4, <1>5, <4>1
      <4>3. a <= b + 1 /\ b <= c + d
          BY <2>2, <3>6, <4>2, Zenon
      <4>4. a <= c + (d + 1)
          BY <4>3
      <4>. QED
          BY <3>8, <4>2, <4>4, Zenon
    <3>10. P(k + 1)
        BY <3>4, <3>6, <3>7, <3>9, Zenon
    <3>. QED
        BY <2>3, <3>10
  <2>. HIDE DEF H
  <2>. QED
      BY <1>3, <2>3, <2>5, <2>6, NextListed
<1>8. MaxEdge \in Nat /\ MaxEdge \in 0 .. MaxEdge
    BY ConstantsOK DEF ConstantsOK
<1>9. MaxEdge \in H
  <2>. HIDE DEF H
  <2>. QED
      BY <1>6, <1>7, <1>8, Induction
<1>10. Upto(l, MaxEdge) = l
    BY <1>3, <1>8 DEF Upto, Edge
<1>. QED
    BY <1>2, <1>9, <1>10

-----------------------------------------------------------------------------
(* A turn of the search. *)

OutOf(V) == {e \in edges : e.src \in V}

\* A search that has not come to the target t: what it has popped, it has relaxed.
Going(x, s, t, W) ==
    /\ Sound(x, OutOf(x.visited), Cardinality(x.visited), s, W)
    /\ x.visited \subseteq NodeId /\ t \notin x.visited

\* Each turn pops, and an edge pushes but once.
Left(x) == Cardinality(x.pq) + Cardinality(edges \ OutOf(x.visited))

\* Without a top that has been popped before, the prices stay as they are.
LEMMA PopAgain ==
    ASSUME NEW pq, NEW costs, NEW V, NEW D, NEW s, Priced(pq, costs, V, D, s),
           NEW p \in pq, p[2] \in V
    PROVE  Priced(pq \ {p}, costs, V, D, s)
<1>1. ASSUME NEW n \in DOMAIN costs \ V PROVE <<costs[n], n>> \in pq \ {p}
  <2>1. <<costs[n], n>> \in pq
      BY DEF Priced
  <2>2. <<costs[n], n>> # p
      OBVIOUS
  <2>. QED
      BY <2>1, <2>2
<1>. QED
    BY <1>1 DEF Priced

\* A node is popped at its cost, which none of those popped before exceeds.
LEMMA PopFirst ==
    ASSUME NEW pq, NEW costs, NEW V, NEW D, NEW s, Priced(pq, costs, V, D, s),
           NEW p \in pq, \A q \in pq : p[1] <= q[1], p[2] \notin V
    PROVE  /\ Priced(pq \ {p}, costs, V \cup {p[2]}, D, s)
           /\ p[1] = costs[p[2]] /\ p[2] \in DOMAIN costs
           /\ \A v \in V \cup {p[2]} : costs[v] <= costs[p[2]]
<1>1. PICK u : u = p[2]
    OBVIOUS
<1>2. /\ p[1] \in Nat /\ p = <<p[1], u>> /\ u \in DOMAIN costs /\ costs[u] <= p[1] /\ costs[u] \in Nat
    BY <1>1 DEF Priced
<1>3. <<costs[u], u>> \in pq
    BY <1>1, <1>2 DEF Priced
<1>4. p[1] <= costs[u]
    BY <1>3
<1>5. p[1] = costs[u]
    BY <1>2, <1>4
<1>6. \A v \in V \cup {u} : costs[v] <= costs[u]
    BY <1>2, <1>5 DEF Priced
<1>7. ASSUME NEW n \in DOMAIN costs \ (V \cup {u}) PROVE <<costs[n], n>> \in pq \ {p}
  <2>1. <<costs[n], n>> \in pq
      BY DEF Priced
  <2>2. <<costs[n], n>> # p
      BY <1>2
  <2>. QED
      BY <2>1, <2>2
<1>8. ASSUME NEW v \in V \cup {u}, NEW q \in pq \ {p} PROVE costs[v] <= q[1]
  <2>1. CASE v \in V
      BY <2>1 DEF Priced
  <2>2. CASE v = u
      BY <1>5, <2>2
  <2>. QED
      BY <2>1, <2>2
<1>9. \A q \in pq \ {p} : q \in Nat \X NodeId /\ q[2] \in DOMAIN costs /\ costs[q[2]] <= q[1]
    BY DEF Priced
<1>10. \A e \in D : /\ e.src \in V \cup {u} /\ e.dst \in DOMAIN costs
                    /\ costs[e.dst] <= costs[e.src] + Weight[e.id]
    BY DEF Priced
<1>11. /\ s \in DOMAIN costs /\ costs[s] = 0
       /\ \A n \in DOMAIN costs : n \in NodeId /\ costs[n] \in Nat
       /\ V \cup {u} \subseteq DOMAIN costs
    BY <1>2 DEF Priced
<1>12. Priced(pq \ {p}, costs, V \cup {u}, D, s)
    BY <1>7, <1>8, <1>9, <1>10, <1>11, Zenon DEF Priced
<1>. QED
    BY <1>1, <1>2, <1>5, <1>6, <1>12, Zenon

\* The ways found stay, with more popped and more steps allowed.
LEMMA LedOn ==
    ASSUME NEW costs, NEW back, NEW V, NEW U, V \subseteq U, NEW m \in Nat, NEW n \in Nat, m <= n,
           NEW s, NEW depth, NEW W, Led(costs, back, V, m, s, depth, W)
    PROVE  Led(costs, back, U, n, s, depth, W)
<1>1. 0 .. m \subseteq 0 .. n
    OBVIOUS
<1>2. \A k \in DOMAIN costs : depth[k] \in 0 .. m
    BY Zenon DEF Led
<1>3. \A k \in DOMAIN costs : depth[k] \in 0 .. n
    BY <1>1, <1>2, Zenon
<1>4. \A k \in DOMAIN back : back[k].src \in U
    BY Zenon DEF Led
<1>. QED
    BY <1>3, <1>4, Zenon DEF Led

Found(x) == [x EXCEPT !.found = TRUE]

\* A turn comes to the target, or pops and goes on.
LEMMA Turning ==
    ASSUME Store, NEW s, NEW t \in NodeId, NEW W, Wanders(W, s),
           NEW x, Going(x, s, t, W), x.pq # {}
    PROVE  \/ HeapTop(x.pq)[2] = t /\ Turn(x, t) = Found(x)
           \/ Going(Turn(x, t), s, t, W) /\ Left(Turn(x, t)) + 1 <= Left(x)
<1>1. PICK pq, costs, back, V :
          /\ x = Search(pq, costs, back, V, FALSE)
          /\ pq = x.pq /\ costs = x.costs /\ back = x.back /\ V = x.visited
    BY Zenon DEF Sound, Going
<1>2. PICK m : m = Cardinality(V)
    OBVIOUS
<1>3. /\ IsFiniteSet(pq) /\ Priced(pq, costs, V, OutOf(V), s) /\ V \subseteq NodeId /\ t \notin V
    BY <1>1, Zenon DEF Sound, Going
<1>4. PICK depth : /\ Led(costs, back, V, m, s, depth, W)
                   /\ \A v \in V : depth[v] < m
    BY <1>1, <1>2, Zenon DEF Sound, Going
<1>5. PICK p, u : p = HeapTop(pq) /\ u = p[2]
    OBVIOUS
<1>6. p \in pq /\ \A q \in pq : p[1] <= q[1]
  <2>1. pq \in SUBSET (Nat \X NodeId)
      BY <1>3 DEF Priced
  <2>. QED
      BY <1>1, <1>5, <2>1, TopIsLeast
<1>7. PICK rest : rest = [x EXCEPT !.pq = x.pq \ {p}, !.visited = x.visited \cup {u}]
    OBVIOUS
<1>8. PICK pq2, V2 : pq2 = pq \ {p} /\ V2 = V \cup {u}
    OBVIOUS
<1>9. rest = Search(pq2, costs, back, V2, FALSE)
  <2>1. rest = [Search(pq, costs, back, V, FALSE) EXCEPT !.pq = pq2, !.visited = V2]
      BY <1>1, <1>7, <1>8, Zenon
  <2>. QED
      BY <2>1 DEF Search
<1>10. rest.pq = pq2 /\ rest.costs = costs /\ rest.back = back /\ rest.visited = V2
    BY <1>9 DEF Search
<1>11. x.found = FALSE
    BY <1>1 DEF Search
<1>12. Turn(x, t) = IF u = t THEN Found(x)
                    ELSE IF u \in V THEN rest
                    ELSE AllRelaxed(rest, outEdges[u], p[1])
    BY <1>1, <1>5, <1>7, <1>11, Zenon DEF Turn, Found
<1>13. /\ IsFiniteSet(pq2) /\ Cardinality(pq) \in Nat /\ Cardinality(pq2) \in Nat
       /\ Cardinality(pq2) + 1 = Cardinality(pq)
  <2>1. /\ IsFiniteSet(pq2) /\ Cardinality(pq2) = Cardinality(pq) - 1
      BY <1>3, <1>6, <1>8, FS_RemoveElement
  <2>2. Cardinality(pq) \in Nat /\ Cardinality(pq2) \in Nat
      BY <1>3, <2>1, FS_CardinalityType
  <2>. QED
      BY <2>1, <2>2
<1>14. IsFiniteSet(V) /\ IsFiniteSet(NodeId) /\ Cardinality(NodeId) = MaxNode /\ m \in Nat
  <2>1. IsFiniteSet(1 .. MaxNode) /\ Cardinality(1 .. MaxNode) = MaxNode
      BY ConstantsOK, FS_Interval DEF ConstantsOK
  <2>2. IsFiniteSet(NodeId) /\ Cardinality(NodeId) = MaxNode
      BY <2>1 DEF NodeId
  <2>. QED
      BY <1>2, <1>3, <2>2, FS_Subset, FS_CardinalityType
<1>15. \A U : IsFiniteSet(edges \ OutOf(U)) /\ Cardinality(edges \ OutOf(U)) \in Nat
  <2>1. ASSUME NEW U PROVE IsFiniteSet(edges \ OutOf(U)) /\ Cardinality(edges \ OutOf(U)) \in Nat
      BY FS_Subset, FS_CardinalityType DEF Store
  <2>. QED
      BY <2>1
<1>16. CASE u = t
    BY <1>1, <1>5, <1>12, <1>16, Zenon
<1>17. CASE u # t /\ u \in V
  <2>1. V2 = V /\ Turn(x, t) = rest
      BY <1>8, <1>12, <1>17
  <2>2. Priced(pq2, costs, V2, OutOf(V2), s)
    <3>1. Priced(pq \ {p}, costs, V, OutOf(V), s)
        BY <1>3, <1>5, <1>6, <1>17, PopAgain, Zenon
    <3>. QED
        BY <1>8, <2>1, <3>1, Zenon
  <2>3. Going(rest, s, t, W)
      BY <1>2, <1>3, <1>4, <1>9, <1>10, <1>13, <2>1, <2>2, Zenon DEF Going, Sound
  <2>4. Left(rest) + 1 <= Left(x)
    <3>1. Left(rest) = Cardinality(pq2) + Cardinality(edges \ OutOf(V))
        BY <1>10, <2>1, Zenon DEF Left
    <3>2. Left(x) = Cardinality(pq) + Cardinality(edges \ OutOf(V))
        BY <1>1, Zenon DEF Left
    <3>. QED
        BY <1>13, <1>15, <3>1, <3>2
  <2>. QED
      BY <2>1, <2>3, <2>4
<1>18. CASE u # t /\ u \notin V
  <2>1. /\ Priced(pq2, costs, V2, OutOf(V), s)
        /\ p[1] = costs[u] /\ u \in DOMAIN costs
        /\ \A v \in V2 : costs[v] <= costs[u]
    <3>1. /\ Priced(pq \ {p}, costs, V \cup {p[2]}, OutOf(V), s)
          /\ p[1] = costs[p[2]] /\ p[2] \in DOMAIN costs
          /\ \A v \in V \cup {p[2]} : costs[v] <= costs[p[2]]
        BY <1>3, <1>5, <1>6, <1>18, PopFirst
    <3>. QED
        BY <1>5, <1>8, <3>1, Zenon
  <2>2. u \in NodeId
      BY <2>1 DEF Priced
  <2>3. /\ V2 \subseteq NodeId /\ t \notin V2 /\ IsFiniteSet(V2) /\ Cardinality(V2) = m + 1
        /\ m + 1 \in 0 .. MaxNode
    <3>1. V2 \subseteq NodeId /\ t \notin V2
        BY <1>3, <1>8, <1>18, <2>2
    <3>2. IsFiniteSet(V2) /\ Cardinality(V2) = m + 1
        BY <1>2, <1>8, <1>14, <1>18, FS_AddElement
    <3>3. Cardinality(V2) <= Cardinality(NodeId)
        BY <1>14, <3>1, FS_Subset
    <3>4. m + 1 \in 0 .. MaxNode
        BY <1>14, <3>2, <3>3, ConstantsOK DEF ConstantsOK
    <3>. QED
        BY <3>1, <3>2, <3>4
  <2>4. Led(costs, back, V2, m + 1, s, depth, W)
      BY <1>4, <1>8, <1>14, LedOn
  <2>5. \A v \in V2 : depth[v] < m + 1
    <3>1. V2 \subseteq DOMAIN costs
        BY <2>1 DEF Priced
    <3>2. \A v \in DOMAIN costs : depth[v] \in 0 .. m
        BY <1>4 DEF Led
    <3>. QED
        BY <1>14, <3>1, <3>2
  <2>6. Sound(rest, OutOf(V), m + 1, s, W)
      BY <1>9, <1>10, <1>13, <2>1, <2>4, <2>5, Zenon DEF Sound
  <2>7. u \in V2
      BY <1>8
  <2>8. Since(rest, rest, u)
      BY <1>10, <2>1, <2>7, Zenon DEF Since
  <2>9. PICK l : l = {e \in edges : e.src = u}
      OBVIOUS
  <2>10. outEdges[u] = l /\ l \in SUBSET edges /\ \A e \in l : e.src = u
      BY <2>2, <2>9 DEF Store, Inv, ListsMatchEdges
  <2>11. PICK z : z = AllRelaxed(rest, l, rest.costs[u])
      OBVIOUS
  <2>12. Turn(x, t) = z
      BY <1>10, <1>12, <1>18, <2>1, <2>10, <2>11, Zenon
  <2>13. /\ Sound(z, OutOf(V) \cup l, m + 1, s, W) /\ Since(rest, z, u)
         /\ Grew(rest, z, Cardinality(l))
    <3>1. TypeOK /\ Once(edges) /\ IsFiniteSet(edges) /\ OutOf(V) \in SUBSET edges
        BY DEF Store, Inv, OutOf
    <3>2. PICK n, D : n = m + 1 /\ D = OutOf(V)
        OBVIOUS
    <3>3. n \in 0 .. MaxNode /\ D \in SUBSET edges /\ Sound(rest, D, n, s, W)
        BY <2>3, <2>6, <3>1, <3>2, Zenon
    <3>. HIDE <1>16, <1>17, <1>18
    <3>4. /\ Sound(AllRelaxed(rest, l, rest.costs[u]), D \cup l, n, s, W)
          /\ Since(rest, AllRelaxed(rest, l, rest.costs[u]), u)
          /\ Grew(rest, AllRelaxed(rest, l, rest.costs[u]), Cardinality(l))
        BY <2>8, <2>10, <3>1, <3>3, RelaxingAll, Zenon
    <3>. QED
        BY <2>11, <3>2, <3>4, Zenon
  <2>14. OutOf(V) \cup l = OutOf(V2)
      BY <1>8, <2>9 DEF OutOf
  <2>15. z.visited = V2
      BY <1>10, <2>13 DEF Since
  <2>16. Going(z, s, t, W)
      BY <2>3, <2>13, <2>14, <2>15, Zenon DEF Going
  <2>17. Left(z) + 1 <= Left(x)
    <3>1. Left(z) = Cardinality(z.pq) + Cardinality(edges \ OutOf(V2))
        BY <2>15, Zenon DEF Left
    <3>2. Left(x) = Cardinality(pq) + Cardinality(edges \ OutOf(V))
        BY <1>1, Zenon DEF Left
    <3>3. Cardinality(z.pq) <= Cardinality(pq2) + Cardinality(l)
        BY <1>10, <2>13, Zenon DEF Grew
    <3>4. /\ edges \ OutOf(V) = (edges \ OutOf(V2)) \cup l
          /\ (edges \ OutOf(V2)) \cap l = {}
        BY <1>18, <2>9, <2>14 DEF OutOf
    <3>5. IsFiniteSet(l) /\ Cardinality(l) \in Nat
        BY <2>10, FS_Subset, FS_CardinalityType DEF Store
    <3>6. Cardinality(edges \ OutOf(V)) = Cardinality(edges \ OutOf(V2)) + Cardinality(l)
      <4>1. PICK A : A = edges \ OutOf(V2)
          OBVIOUS
      <4>2. /\ Cardinality(A \cup l) = Cardinality(A) + Cardinality(l) - Cardinality(A \cap l)
            /\ Cardinality(A) \in Nat
          BY <1>15, <3>5, <4>1, FS_Union
      <4>3. Cardinality(A \cap l) = 0
          BY <3>4, <4>1, FS_EmptySet
      <4>4. Cardinality(A \cup l) = Cardinality(A) + Cardinality(l)
          BY <3>5, <4>2, <4>3
      <4>. QED
          BY <3>4, <4>1, <4>4, Zenon
    <3>7. Cardinality(z.pq) \in Nat
        BY <2>13, FS_CardinalityType DEF Sound
    <3>8. PICK a \in Nat, b \in Nat, c \in Nat, d \in Nat, e \in Nat, g \in Nat :
              /\ a = Cardinality(z.pq) /\ b = Cardinality(pq2) /\ c = Cardinality(l)
              /\ d = Cardinality(edges \ OutOf(V2)) /\ e = Cardinality(edges \ OutOf(V))
              /\ g = Cardinality(pq)
        BY <1>13, <1>15, <3>5, <3>7
    <3>9. a <= b + c /\ b + 1 = g /\ e = d + c
        BY <1>13, <3>3, <3>6, <3>8, Zenon
    <3>10. a + d + 1 <= g + e
        BY <3>9
    <3>. QED
        BY <3>1, <3>2, <3>8, <3>10, Zenon
  <2>. QED
      BY <2>12, <2>16, <2>17, Zenon
<1>. QED
    BY <1>16, <1>17, <1>18

\* As many edges as ids.
LEMMA EdgesCounted ==
    ASSUME Store
    PROVE  Cardinality(edges) \in Nat /\ Cardinality(edges) <= MaxEdge
<1>1. edges \subseteq Edge /\ Once(edges) /\ MaxEdge \in Nat
    BY ConstantsOK DEF Store, Inv, TypeOK, ConstantsOK
<1>2. IsFiniteSet(1 .. MaxEdge) /\ Cardinality(1 .. MaxEdge) = MaxEdge
    BY <1>1, FS_Interval
<1>3. PICK f : f = [e \in edges |-> e.id]
    OBVIOUS
<1>4. f \in Injection(edges, 1 .. MaxEdge)
  <2>1. f \in [edges -> 1 .. MaxEdge]
      BY <1>1, <1>3 DEF Edge
  <2>2. \A a, b \in edges : f[a] = f[b] => a = b
      BY <1>1, <1>3 DEF Once
  <2>. QED
      BY <2>1, <2>2 DEF Injection, IsInjective
<1>. QED
    BY <1>2, <1>4, FS_Injection, FS_CardinalityType

\* A search starts with nothing popped.
LEMMA Starting ==
    ASSUME Store, NEW s \in NodeId, NEW t, NEW W, Wanders(W, s)
    PROVE  /\ Going(Started(s), s, t, W) /\ Left(Started(s)) <= MaxEdge + 1
           /\ <<0, s>> \in Started(s).pq
<1>1. PICK pq, costs, back, depth :
          /\ pq = {<<0, s>>} /\ costs = [n \in {s} |-> 0] /\ back = [n \in {} |-> 0]
          /\ depth = [n \in {s} |-> 0]
    OBVIOUS
<1>2. PICK x : x = Started(s)
    OBVIOUS
<1>3. x = Search(pq, costs, back, {}, FALSE)
    BY <1>1, <1>2 DEF Started, Search
<1>4. x.pq = pq /\ x.costs = costs /\ x.back = back /\ x.visited = {}
    BY <1>3 DEF Search
<1>5. IsFiniteSet(pq) /\ Cardinality(pq) = 1
    BY <1>1, FS_Singleton
<1>6. Cardinality({}) = 0
    BY FS_EmptySet
<1>7. Priced(pq, costs, {}, OutOf({}), s)
    BY <1>1 DEF Priced, OutOf
<1>8. Led(costs, back, {}, 0, s, depth, W)
  <2>1. <<s, 0>> \in W[0]
      BY DEF Wanders
  <2>2. DOMAIN depth = DOMAIN costs /\ depth[s] = 0 /\ DOMAIN back = {} /\ DOMAIN costs = {s}
        /\ costs[s] = 0
      BY <1>1
  <2>3. \A n \in DOMAIN costs : depth[n] \in 0 .. 0 /\ <<n, costs[n]>> \in W[depth[n]]
      BY <2>1, <2>2
  <2>. QED
      BY <2>2, <2>3 DEF Led
<1>9. Going(x, s, t, W)
  <2>1. Sound(x, OutOf({}), 0, s, W)
      BY <1>3, <1>4, <1>5, <1>7, <1>8 DEF Sound
  <2>2. {} \subseteq NodeId /\ t \notin {}
      OBVIOUS
  <2>. QED
      BY <1>4, <1>6, <2>1, <2>2, Zenon DEF Going
<1>10. Left(x) <= MaxEdge + 1
  <2>1. edges \ OutOf({}) = edges
      BY DEF OutOf
  <2>2. Left(x) = Cardinality(pq) + Cardinality(edges)
      BY <1>4, <2>1, Zenon DEF Left
  <2>. QED
      BY <1>5, <2>2, EdgesCounted, ConstantsOK DEF ConstantsOK
<1>. QED
    BY <1>1, <1>2, <1>4, <1>9, <1>10

\* A search ends: at the target, or when the heap is empty.
LEMMA Searching ==
    ASSUME Store, NEW s \in NodeId, NEW t \in NodeId, NEW W, Wanders(W, s)
    PROVE  \E y : /\ Going(y, s, t, W)
                  /\ IF y.pq = {} THEN ShortestPath(s, t) = {}
                     ELSE /\ HeapTop(y.pq)[2] = t
                          /\ ShortestPath(s, t) = {Backtracked(y.back, s, t)}
<1>1. PICK f : Searches(f, s, t)
    BY SearchesIn
<1>2. /\ f[0] = Started(s)
      /\ \A k \in 1 .. MaxEdge + 2 : f[k] = Turn(f[k - 1], t)
      /\ ShortestPath(s, t) = IF f[MaxEdge + 2].found
                              THEN {Backtracked(f[MaxEdge + 2].back, s, t)} ELSE {}
    BY <1>1, Zenon DEF Searches
<1>. DEFINE Goes(x, k) == Going(x, s, t, W) /\ Left(x) + k <= MaxEdge + 1
            Dry(x)     == Going(x, s, t, W) /\ x.pq = {}
            Ended(x)   == \E y : /\ Going(y, s, t, W) /\ y.pq # {}
                                 /\ HeapTop(y.pq)[2] = t /\ x = Found(y)
            H == {k \in 0 .. MaxEdge + 2 : Goes(f[k], k) \/ Dry(f[k]) \/ Ended(f[k])}
<1>3. MaxEdge \in Nat
    BY ConstantsOK DEF ConstantsOK
<1>4. ASSUME NEW x, Going(x, s, t, W) PROVE Left(x) \in Nat
  <2>1. IsFiniteSet(x.pq)
      BY <1>4, Zenon DEF Going, Sound
  <2>2. IsFiniteSet(edges \ OutOf(x.visited))
      BY FS_Subset DEF Store
  <2>. QED
      BY <2>1, <2>2, FS_CardinalityType DEF Left
<1>5. ASSUME NEW x, Going(x, s, t, W)
      PROVE  x.found = FALSE
  <2>1. x = Search(x.pq, x.costs, x.back, x.visited, FALSE)
      BY <1>5, Zenon DEF Going, Sound
  <2>. QED
      BY <2>1 DEF Search
<1>6. ASSUME NEW x, Going(x, s, t, W)
      PROVE  Found(x).found /\ Found(x).back = x.back
  <2>1. PICK pq, costs, back, V : x = Search(pq, costs, back, V, FALSE)
      BY <1>6, Zenon DEF Going, Sound
  <2>2. Found(x) = [Search(pq, costs, back, V, FALSE) EXCEPT !.found = TRUE]
      BY <2>1, Zenon DEF Found
  <2>. QED
      BY <2>1, <2>2 DEF Search
<1>7. 0 \in H
  <2>1. Going(f[0], s, t, W) /\ Left(f[0]) <= MaxEdge + 1 /\ 0 \in 0 .. MaxEdge + 2
    <3>1. Going(Started(s), s, t, W) /\ Left(Started(s)) <= MaxEdge + 1
        BY Starting
    <3>2. 0 \in 0 .. MaxEdge + 2
        BY <1>3
    <3>. QED
        BY <1>2, <3>1, <3>2, Zenon
  <2>2. Left(f[0]) \in Nat
      BY <1>4, <2>1
  <2>3. Goes(f[0], 0)
      BY <2>1, <2>2
  <2>. QED
      BY <2>1, <2>3
<1>8. ASSUME NEW k \in 0 .. (MaxEdge + 2) - 1, k \in H PROVE k + 1 \in H
  <2>1. k + 1 \in 0 .. MaxEdge + 2 /\ k \in Nat
      BY <1>3
  <2>2. PICK x : x = f[k]
      OBVIOUS
  <2>3. f[k + 1] = Turn(x, t)
    <3>1. PICK j : j = k + 1 /\ j - 1 = k /\ j \in 1 .. MaxEdge + 2
        BY <1>3, <2>1
    <3>. QED
        BY <1>2, <2>2, <3>1, Zenon
  <2>4. Goes(x, k) \/ Dry(x) \/ Ended(x)
      BY <1>8, <2>2
  <2>5. CASE Dry(x)
    <3>1. Turn(x, t) = x
        BY <2>5, Zenon DEF Turn
    <3>. QED
        BY <2>1, <2>3, <2>5, <3>1
  <2>6. CASE Ended(x)
    <3>1. x.found
        BY <1>6, <2>6, Zenon
    <3>2. Turn(x, t) = x
        BY <3>1, Zenon DEF Turn
    <3>. QED
        BY <2>1, <2>3, <2>6, <3>2
  <2>7. CASE Goes(x, k) /\ x.pq # {}
    <3>1. PICK z : z = Turn(x, t)
        OBVIOUS
    <3>2. \/ HeapTop(x.pq)[2] = t /\ z = Found(x)
          \/ Going(z, s, t, W) /\ Left(z) + 1 <= Left(x)
        BY <2>7, <3>1, Turning
    <3>3. CASE HeapTop(x.pq)[2] = t /\ z = Found(x)
      <4>1. Ended(z)
          BY <2>7, <3>3, Zenon
      <4>. QED
          BY <2>1, <2>3, <3>1, <4>1
    <3>4. CASE Going(z, s, t, W) /\ Left(z) + 1 <= Left(x)
      <4>1. Left(z) \in Nat /\ Left(x) \in Nat
          BY <1>4, <2>7, <3>4
      <4>2. PICK a \in Nat, b \in Nat : a = Left(z) /\ b = Left(x)
          BY <4>1
      <4>3. a + 1 <= b /\ b + k <= MaxEdge + 1
          BY <2>7, <3>4, <4>2, Zenon
      <4>4. a + (k + 1) <= MaxEdge + 1
          BY <1>3, <2>1, <4>3
      <4>5. Goes(z, k + 1)
          BY <3>4, <4>2, <4>4, Zenon
      <4>. QED
          BY <2>1, <2>3, <3>1, <4>5
    <3>. QED
        BY <3>2, <3>3, <3>4
  <2>. QED
    <3>1. Goes(x, k) /\ x.pq = {} => Dry(x)
        BY Zenon
    <3>. HIDE DEF Goes, Dry, Ended, H
    <3>. QED
        BY <2>4, <2>5, <2>6, <2>7, <3>1, Zenon
<1>9. MaxEdge + 2 \in H
  <2>1. MaxEdge + 2 \in Nat /\ MaxEdge + 2 \in 0 .. MaxEdge + 2
      BY <1>3
  <2>. HIDE DEF H
  <2>. QED
      BY <1>7, <1>8, <2>1, Induction
<1>10. PICK x : x = f[MaxEdge + 2]
    OBVIOUS
<1>11. ~ Goes(x, MaxEdge + 2)
    BY <1>3, <1>4
<1>12. CASE Dry(x)
    BY <1>2, <1>5, <1>10, <1>12, Zenon
<1>13. CASE Ended(x)
  <2>1. PICK y : /\ Going(y, s, t, W) /\ y.pq # {}
                 /\ HeapTop(y.pq)[2] = t /\ x = Found(y)
      BY <1>13, Zenon
  <2>2. x.found /\ x.back = y.back
      BY <1>6, <2>1, Zenon
  <2>3. ShortestPath(s, t) = {Backtracked(y.back, s, t)}
      BY <1>2, <1>10, <2>2, Zenon
  <2>. QED
      BY <2>1, <2>3, Zenon
<1>. QED
    BY <1>9, <1>10, <1>11, <1>12, <1>13

-----------------------------------------------------------------------------
(* No walk is cheaper. *)

\* A walk is as long as before, or longer by an edge.
LEMMA LongerBy ==
    ASSUME NEW x, NEW y \in Longer(x)
    PROVE  \/ y \in x
           \/ \E p \in x, e \in edges : p[1] = e.src /\ y = <<e.dst, p[2] + Weight[e.id]>>
BY DEF Longer

\* Walks of fewer steps are among the walks.
LEMMA WalksGrow ==
    ASSUME NEW W, NEW s, Wanders(W, s)
    PROVE  \A k \in 0 .. MaxNode : W[k] \subseteq Walks(s)
<1>1. MaxNode \in Nat
    BY ConstantsOK DEF ConstantsOK
<1>. DEFINE H == {j \in 0 .. MaxNode : \A i \in 0 .. j : W[i] \subseteq W[j]}
<1>2. 0 \in H
    BY <1>1
<1>3. ASSUME NEW k \in 0 .. MaxNode - 1, k \in H PROVE k + 1 \in H
  <2>1. PICK j : j = k + 1 /\ j - 1 = k /\ j \in 1 .. MaxNode
      BY <1>1
  <2>2. W[j] = Longer(W[k])
      BY <2>1, Zenon DEF Wanders
  <2>3. W[k] \subseteq W[j]
      BY <2>2 DEF Longer
  <2>4. ASSUME NEW i \in 0 .. j PROVE W[i] \subseteq W[j]
    <3>1. CASE i = j
        BY <3>1
    <3>2. CASE i # j
      <4>1. i \in 0 .. k
          BY <1>1, <2>1, <3>2
      <4>2. W[i] \subseteq W[k]
          BY <1>3, <4>1
      <4>. QED
          BY <2>3, <4>2
    <3>. QED
        BY <3>1, <3>2
  <2>. QED
      BY <2>1, <2>4
<1>4. MaxNode \in H
  <2>1. MaxNode \in 0 .. MaxNode
      BY <1>1
  <2>. HIDE DEF H
  <2>. QED
      BY <1>1, <1>2, <1>3, <2>1, Induction
<1>. QED
    BY <1>4, Zenon DEF Wanders

\* Every walk leads to a node popped for no more, or costs no less than some pair in
\* the heap.
LEMMA WalksBounded ==
    ASSUME Store, NEW s \in NodeId, NEW W, Wanders(W, s),
           NEW pq, NEW costs, NEW V, Priced(pq, costs, V, OutOf(V), s)
    PROVE  \A x \in Walks(s) : /\ x \in NodeId \X Nat
                               /\ \/ x[1] \in V
                                  \/ \E q \in pq : q[1] <= x[2]
<1>1. MaxNode \in Nat
    BY ConstantsOK DEF ConstantsOK
<1>. DEFINE Meets(x) == /\ x \in NodeId \X Nat
                        /\ \/ x[1] \in V /\ costs[x[1]] <= x[2]
                           \/ \E q \in pq : q[1] <= x[2]
            H == {k \in 0 .. MaxNode : \A x \in W[k] : Meets(x)}
<1>2. \A n \in DOMAIN costs : n \in NodeId /\ costs[n] \in Nat
    BY DEF Priced
<1>3. \A q \in pq : q[1] \in Nat
    BY DEF Priced
<1>4. ASSUME NEW n \in DOMAIN costs, NEW c \in Nat, costs[n] <= c PROVE Meets(<<n, c>>)
  <2>1. CASE n \in V
      BY <1>2, <1>4, <2>1
  <2>2. CASE n \notin V
    <3>1. <<costs[n], n>> \in pq
        BY <2>2 DEF Priced
    <3>. QED
        BY <1>2, <1>4, <3>1
  <2>. QED
      BY <2>1, <2>2
<1>5. 0 \in H
  <2>1. W[0] = {<<s, 0>>} /\ 0 \in 0 .. MaxNode
      BY <1>1 DEF Wanders
  <2>2. s \in DOMAIN costs /\ costs[s] <= 0
      BY DEF Priced
  <2>. QED
      BY <1>4, <2>1, <2>2
<1>6. ASSUME NEW k \in 0 .. MaxNode - 1, k \in H PROVE k + 1 \in H
  <2>1. PICK j : j = k + 1 /\ j - 1 = k /\ j \in 1 .. MaxNode
      BY <1>1
  <2>2. W[j] = Longer(W[k])
      BY <2>1, Zenon DEF Wanders
  <2>3. \A x \in W[k] : Meets(x)
      BY <1>6
  <2>4. ASSUME NEW y \in W[j] PROVE Meets(y)
    <3>1. CASE y \in W[k]
        BY <2>3, <3>1, Zenon
    <3>2. CASE \E p \in W[k], e \in edges : p[1] = e.src /\ y = <<e.dst, p[2] + Weight[e.id]>>
      <4>1. PICK p \in W[k], e \in edges : p[1] = e.src /\ y = <<e.dst, p[2] + Weight[e.id]>>
          BY <3>2, Zenon
      <4>2. Meets(p)
          BY <2>3, Zenon
      <4>3. PICK w : w = Weight[e.id]
          OBVIOUS
      <4>4. w \in Nat /\ e.dst \in NodeId
          BY <4>3, Weighs DEF Store, Inv
      <4>5. PICK c : c = p[2]
          OBVIOUS
      <4>6. c \in Nat /\ c + w \in Nat /\ y = <<e.dst, c + w>>
          BY <4>1, <4>2, <4>3, <4>4, <4>5
      <4>7. CASE e.src \in V /\ costs[e.src] <= c
        <5>1. e \in OutOf(V)
            BY <4>7 DEF OutOf
        <5>2. /\ e.dst \in DOMAIN costs /\ e.src \in DOMAIN costs
              /\ costs[e.dst] <= costs[e.src] + w
            BY <4>3, <4>7, <5>1 DEF Priced
        <5>3. costs[e.dst] \in Nat /\ costs[e.src] \in Nat
            BY <1>2, <5>2
        <5>4. PICK a \in Nat, b \in Nat : a = costs[e.dst] /\ b = costs[e.src]
            BY <5>3
        <5>5. a <= b + w /\ b <= c
            BY <4>7, <5>2, <5>4, Zenon
        <5>6. a <= c + w
            BY <4>4, <4>6, <5>5
        <5>7. costs[e.dst] <= c + w
            BY <5>4, <5>6, Zenon
        <5>. HIDE DEF Meets
        <5>. QED
            BY <1>4, <4>6, <5>2, <5>7, Zenon
      <4>8. CASE \E q \in pq : q[1] <= c
        <5>1. PICK q \in pq : q[1] <= c
            BY <4>8, Zenon
        <5>2. q[1] <= c + w
            BY <1>3, <4>4, <4>6, <5>1
        <5>. QED
            BY <4>4, <4>6, <5>2
      <4>. QED
          BY <4>1, <4>2, <4>5, <4>7, <4>8, Zenon
    <3>. HIDE DEF Meets
    <3>3. y \in Longer(W[k])
        BY <2>2, Zenon
    <3>. QED
        BY <3>1, <3>2, <3>3, LongerBy
  <2>. QED
      BY <2>1, <2>4
<1>7. MaxNode \in H
  <2>1. MaxNode \in 0 .. MaxNode
      BY <1>1
  <2>. HIDE DEF H
  <2>. QED
      BY <1>1, <1>5, <1>6, <2>1, Induction
<1>8. Walks(s) = W[MaxNode]
    BY Zenon DEF Wanders
<1>. QED
    BY <1>7, <1>8

-----------------------------------------------------------------------------
(* The way back. *)

\* What a path costs with an edge before it.
LEMMA CostBefore ==
    ASSUME Store, NEW path \in Seq(edges), NEW e \in edges
    PROVE  Cost(path) \in Nat /\ Cost(<<e>> \o path) = Weight[e.id] + Cost(path)
<1>1. PICK q : q = <<e>> \o path
    OBVIOUS
<1>2. PICK n : n = Len(path)
    OBVIOUS
<1>3. /\ n \in Nat /\ Len(q) = n + 1 /\ Len(q) \in Nat /\ q[1] = e
      /\ \A k \in 1 .. n : q[k + 1] = path[k] /\ path[k] \in edges
    BY <1>1, <1>2
<1>4. PICK f : Sums(f, path)
    BY <1>2, <1>3, SumsIn, Zenon
<1>5. PICK g : Sums(g, q)
    BY <1>3, SumsIn, Zenon
<1>6. /\ f[0] = 0 /\ Cost(path) = f[n]
      /\ \A k \in 1 .. n : f[k] = f[k - 1] + Weight[path[k].id]
    BY <1>2, <1>4, Zenon DEF Sums
<1>7. /\ g[0] = 0 /\ Cost(q) = g[n + 1]
      /\ \A k \in 1 .. n + 1 : g[k] = g[k - 1] + Weight[q[k].id]
    BY <1>3, <1>5, Zenon DEF Sums
<1>8. PICK w : w = Weight[e.id]
    OBVIOUS
<1>9. \A d \in edges : Weight[d.id] \in Nat
    BY Weighs DEF Store, Inv
<1>. DEFINE H == {k \in 0 .. n : f[k] \in Nat /\ g[k + 1] = w + f[k]}
<1>10. 0 \in H
  <2>1. PICK j : j = 1 /\ j - 1 = 0 /\ j \in 1 .. n + 1
      BY <1>3
  <2>2. g[j] = g[0] + Weight[q[j].id]
      BY <1>7, <2>1, Zenon
  <2>3. g[1] = w
      BY <1>3, <1>7, <1>8, <1>9, <2>1, <2>2
  <2>. QED
      BY <1>3, <1>6, <1>8, <1>9, <2>3
<1>11. ASSUME NEW k \in 0 .. n - 1, k \in H PROVE k + 1 \in H
  <2>1. PICK j : j = k + 1 /\ j - 1 = k /\ j \in 1 .. n
      BY <1>3
  <2>2. PICK i : i = j + 1 /\ i - 1 = j /\ i \in 1 .. n + 1
      BY <1>3, <2>1
  <2>3. f[j] = f[k] + Weight[path[j].id]
      BY <1>6, <2>1, Zenon
  <2>4. g[i] = g[j] + Weight[q[i].id]
      BY <1>7, <2>2, Zenon
  <2>5. q[i] = path[j] /\ path[j] \in edges
      BY <1>3, <2>1, <2>2
  <2>6. PICK v : v = Weight[path[j].id] /\ v \in Nat
      BY <1>9, <2>5
  <2>7. f[k] \in Nat /\ g[j] = w + f[k]
      BY <1>11, <2>1
  <2>8. f[j] = f[k] + v /\ g[i] = g[j] + v
      BY <2>3, <2>4, <2>5, <2>6, Zenon
  <2>9. PICK a \in Nat, b \in Nat : a = f[k] /\ b = w
      BY <1>8, <1>9, <2>7
  <2>10. a + v \in Nat /\ (b + a) + v = b + (a + v)
      BY <2>6
  <2>11. f[j] = a + v /\ g[i] = (b + a) + v
      BY <2>7, <2>8, <2>9, Zenon
  <2>12. f[j] \in Nat /\ g[i] = w + f[j]
      BY <2>9, <2>10, <2>11, Zenon
  <2>. QED
      BY <2>1, <2>2, <2>12
<1>12. n \in H
  <2>1. n \in 0 .. n
      BY <1>3
  <2>. HIDE DEF H
  <2>. QED
      BY <1>3, <1>10, <1>11, <2>1, Induction
<1>. QED
    BY <1>1, <1>6, <1>7, <1>8, <1>12

\* A path of no edges costs nothing.
LEMMA CostNothing == Cost(<< >>) = 0
<1>1. Len(<< >>) = 0 /\ Len(<< >>) \in Nat
    OBVIOUS
<1>2. PICK f : Sums(f, << >>)
    BY <1>1, SumsIn, Zenon
<1>. QED
    BY <1>1, <1>2, Zenon DEF Sums

\* The edges found so far, from the target back: they are chained, and what they cost
\* is what the target costs beyond their first node.
Way(x, costs, t) ==
    /\ x \in Seq(edges) /\ First(x, t) \in DOMAIN costs
    /\ x # << >> => x[Len(x)].dst = t
    /\ \A j \in 1 .. Len(x) - 1 : x[j].dst = x[j + 1].src
    /\ Cost(x) + costs[First(x, t)] = costs[t]

\* The way back grows by the edge its first node was found by.
LEMMA WayBefore ==
    ASSUME Store, NEW costs, NEW t, NEW x, Way(x, costs, t),
           NEW e \in edges, e.dst = First(x, t), e.src \in DOMAIN costs,
           costs[e.src] \in Nat, costs[First(x, t)] = costs[e.src] + Weight[e.id]
    PROVE  Way(<<e>> \o x, costs, t) /\ First(<<e>> \o x, t) = e.src
<1>1. PICK y : y = <<e>> \o x
    OBVIOUS
<1>2. PICK n : n = Len(x)
    OBVIOUS
<1>3. x \in Seq(edges)
    BY DEF Way
<1>4. /\ y \in Seq(edges) /\ y # << >> /\ Head(y) = e /\ n \in Nat /\ Len(y) = n + 1 /\ y[1] = e
      /\ \A k \in 1 .. n : y[k + 1] = x[k]
    BY <1>1, <1>2, <1>3
<1>5. First(y, t) = e.src
    BY <1>4, Zenon DEF First
<1>6. /\ y # << >> => y[Len(y)].dst = t
      /\ \A j \in 1 .. Len(y) - 1 : y[j].dst = y[j + 1].src
  <2>1. CASE x = << >>
    <3>1. n = 0 /\ First(x, t) = t
        BY <1>2, <2>1 DEF First
    <3>. QED
        BY <1>4, <3>1
  <2>2. CASE x # << >>
    <3>1. n \in 1 .. n /\ Head(x) = x[1] /\ First(x, t) = x[1].src
        BY <1>2, <1>3, <2>2 DEF First
    <3>2. x[n].dst = t
        BY <1>2, <2>2 DEF Way
    <3>3. y[Len(y)].dst = t
        BY <1>4, <3>1, <3>2
    <3>4. ASSUME NEW j \in 1 .. Len(y) - 1 PROVE y[j].dst = y[j + 1].src
      <4>1. CASE j = 1
          BY <1>4, <3>1, <4>1
      <4>2. CASE j # 1
        <5>1. PICK k : k = j - 1 /\ k + 1 = j /\ k \in 1 .. n - 1 /\ j \in 1 .. n
            BY <1>4, <4>2
        <5>2. x[k].dst = x[k + 1].src
            BY <1>2, <5>1, Zenon DEF Way
        <5>3. y[k + 1] = x[k] /\ y[j + 1] = x[j]
            BY <1>4, <5>1
        <5>. QED
            BY <5>1, <5>2, <5>3, Zenon
      <4>. QED
          BY <4>1, <4>2
    <3>. QED
        BY <3>3, <3>4
  <2>. QED
      BY <2>1, <2>2
<1>7. Cost(y) + costs[First(y, t)] = costs[t]
  <2>1. Cost(x) \in Nat /\ Cost(y) = Weight[e.id] + Cost(x)
      BY <1>1, <1>3, CostBefore
  <2>2. Weight[e.id] \in Nat
      BY Weighs DEF Store, Inv
  <2>3. Cost(x) + costs[First(x, t)] = costs[t]
      BY Zenon DEF Way
  <2>4. PICK a \in Nat, b \in Nat, c \in Nat : a = Cost(x) /\ b = Weight[e.id] /\ c = costs[e.src]
      BY <2>1, <2>2
  <2>5. costs[t] = a + (c + b) /\ Cost(y) = b + a
      BY <2>1, <2>3, <2>4, Zenon
  <2>6. (b + a) + c = a + (c + b)
      OBVIOUS
  <2>. QED
      BY <1>5, <2>4, <2>5, <2>6, Zenon
<1>8. Way(y, costs, t)
    BY <1>4, <1>5, <1>6, <1>7, Zenon DEF Way
<1>. QED
    BY <1>1, <1>5, <1>8, Zenon

\* The edges from s to t, of which there are fewer than nodes.
LEMMA WayFound ==
    ASSUME Store, NEW s, NEW t, NEW W, NEW costs, NEW back, NEW V, NEW m \in Nat, m < MaxNode,
           NEW pq, NEW D, Priced(pq, costs, V, D, s), NEW depth,
           Led(costs, back, V, m, s, depth, W), t \in DOMAIN costs
    PROVE  /\ Way(Backtracked(back, s, t), costs, t)
           /\ First(Backtracked(back, s, t), t) = s
<1>1. PICK f : Returns(f, back, s, t)
    BY ReturnsIn
<1>2. /\ f[0] = << >> /\ Backtracked(back, s, t) = f[MaxNode]
      /\ \A k \in 1 .. MaxNode : f[k] = Before(f[k - 1], back, s, t)
    BY <1>1, Zenon DEF Returns
<1>3. MaxNode \in Nat
    BY ConstantsOK DEF ConstantsOK
<1>4. /\ \A n \in DOMAIN costs : costs[n] \in Nat
      /\ V \subseteq DOMAIN costs
    BY DEF Priced
<1>5. /\ DOMAIN back = DOMAIN costs \ {s}
      /\ \A n \in DOMAIN back :
            /\ back[n] \in edges /\ back[n].dst = n /\ back[n].src \in V
            /\ costs[n] = costs[back[n].src] + Weight[back[n].id]
            /\ depth[n] = depth[back[n].src] + 1
    BY Zenon DEF Led
<1>6. \A n \in DOMAIN costs : depth[n] \in 0 .. m
    BY Zenon DEF Led
<1>. DEFINE Stands(x, k) == First(x, t) = s \/ depth[First(x, t)] + k = depth[t]
            H == {k \in 0 .. MaxNode : Way(f[k], costs, t) /\ Stands(f[k], k)}
<1>7. 0 \in H
  <2>1. First(<< >>, t) = t
      BY DEF First
  <2>2. << >> \in Seq(edges) /\ Len(<< >>) = 0 /\ \A j \in 1 .. 0 - 1 : FALSE
      OBVIOUS
  <2>3. Cost(<< >>) + costs[t] = costs[t]
      BY <1>4, CostNothing
  <2>4. \A j \in 1 .. Len(<< >>) - 1 : FALSE
      BY <2>2, Zenon
  <2>5. Way(<< >>, costs, t)
      BY <2>1, <2>2, <2>3, <2>4, Zenon DEF Way
  <2>6. depth[t] + 0 = depth[t]
      BY <1>6
  <2>7. Stands(<< >>, 0)
      BY <2>1, <2>6, Zenon
  <2>. QED
      BY <1>2, <1>3, <2>5, <2>7
<1>8. ASSUME NEW k \in 0 .. MaxNode - 1, k \in H PROVE k + 1 \in H
  <2>1. PICK j : j = k + 1 /\ j - 1 = k /\ j \in 1 .. MaxNode
      BY <1>3
  <2>2. PICK x : x = f[k]
      OBVIOUS
  <2>3. Way(x, costs, t) /\ Stands(x, k)
      BY <1>8, <2>2
  <2>4. f[j] = Before(x, back, s, t)
      BY <1>2, <2>1, <2>2, Zenon
  <2>5. PICK n : n = First(x, t)
      OBVIOUS
  <2>6. CASE n = s
    <3>1. f[j] = x
        BY <2>4, <2>5, <2>6, Zenon DEF Before
    <3>2. Stands(x, j)
        BY <2>5, <2>6, Zenon
    <3>. QED
        BY <2>1, <2>3, <3>1, <3>2
  <2>7. CASE n # s
    <3>1. n \in DOMAIN costs
        BY <2>3, <2>5, Zenon DEF Way
    <3>2. PICK e : e = back[n]
        OBVIOUS
    <3>3. /\ e \in edges /\ e.dst = n /\ e.src \in DOMAIN costs
          /\ costs[n] = costs[e.src] + Weight[e.id]
          /\ depth[n] = depth[e.src] + 1
        BY <1>4, <1>5, <2>7, <3>1, <3>2
    <3>4. f[j] = <<e>> \o x
        BY <2>4, <2>5, <2>7, <3>2, Zenon DEF Before
    <3>5. Way(<<e>> \o x, costs, t) /\ First(<<e>> \o x, t) = e.src
      <4>1. costs[e.src] \in Nat /\ costs[First(x, t)] = costs[e.src] + Weight[e.id]
            /\ e.dst = First(x, t)
          BY <1>4, <2>5, <3>3
      <4>. QED
          BY <2>3, <3>3, <4>1, WayBefore
    <3>6. depth[e.src] + j = depth[t]
      <4>1. depth[n] + k = depth[t] /\ depth[e.src] \in Nat
          BY <1>6, <2>3, <2>5, <2>7, <3>3
      <4>. QED
          BY <2>1, <3>3, <4>1
    <3>7. Stands(<<e>> \o x, j)
        BY <3>5, <3>6, Zenon
    <3>8. Way(f[j], costs, t) /\ Stands(f[j], j)
        BY <3>4, <3>5, <3>7, Zenon
    <3>9. j \in 0 .. MaxNode
        BY <2>1
    <3>10. j \in H
        BY <3>8, <3>9
    <3>. QED
        BY <2>1, <3>10, Zenon
  <2>. QED
      BY <2>6, <2>7
<1>9. MaxNode \in H
  <2>1. MaxNode \in 0 .. MaxNode
      BY <1>3
  <2>. HIDE DEF H
  <2>. QED
      BY <1>3, <1>7, <1>8, <2>1, Induction
<1>10. PICK x : x = Backtracked(back, s, t)
    OBVIOUS
<1>11. Way(x, costs, t) /\ Stands(x, MaxNode)
    BY <1>2, <1>9, <1>10
<1>12. First(x, t) \in DOMAIN costs
    BY <1>11, Zenon DEF Way
<1>13. depth[First(x, t)] + MaxNode # depth[t]
  <2>1. depth[First(x, t)] \in 0 .. m /\ depth[t] \in 0 .. m
      BY <1>6, <1>12
  <2>. QED
      BY <1>3, <2>1
<1>. QED
    BY <1>10, <1>11, <1>13, Zenon

-----------------------------------------------------------------------------
(* The shortest of all. *)

CostsTo(s, t) == {x[2] : x \in {y \in Walks(s) : y[1] = t}}

IsShortest(path, s, t) ==
    /\ \A i \in 1 .. Len(path) : path[i] \in edges
    /\ IsChain(path, s, t)
    /\ Cost(path) \in CostsTo(s, t)
    /\ \A c \in CostsTo(s, t) : Cost(path) <= c

\* The outcome of a search in any store.
LEMMA Shortest ==
    ASSUME Store, NEW s \in NodeId, NEW t \in NodeId
    PROVE  /\ ShortestPath(s, t) = {} <=> CostsTo(s, t) = {}
           /\ \A path \in ShortestPath(s, t) : IsShortest(path, s, t)
<1>1. PICK W : Wanders(W, s)
    BY WandersIn
<1>2. PICK y : /\ Going(y, s, t, W)
               /\ IF y.pq = {} THEN ShortestPath(s, t) = {}
                  ELSE /\ HeapTop(y.pq)[2] = t
                       /\ ShortestPath(s, t) = {Backtracked(y.back, s, t)}
    BY <1>1, Searching
<1>3. PICK pq, costs, back, V, m :
          /\ pq = y.pq /\ costs = y.costs /\ back = y.back /\ V = y.visited
          /\ m = Cardinality(V)
    OBVIOUS
<1>4. /\ IsFiniteSet(pq) /\ Priced(pq, costs, V, OutOf(V), s) /\ V \subseteq NodeId /\ t \notin V
      /\ \E depth : Led(costs, back, V, m, s, depth, W)
    BY <1>2, <1>3, Zenon DEF Going, Sound
<1>5. \A x \in Walks(s) : /\ x \in NodeId \X Nat
                          /\ \/ x[1] \in V
                             \/ \E q \in pq : q[1] <= x[2]
    BY <1>1, <1>4, WalksBounded
<1>6. \A c \in CostsTo(s, t) : c \in Nat /\ \E q \in pq : q[1] <= c
    BY <1>4, <1>5 DEF CostsTo
<1>7. CASE pq = {}
  <2>1. CostsTo(s, t) = {}
      BY <1>6, <1>7
  <2>. QED
      BY <1>2, <1>3, <1>7, <2>1
<1>8. CASE pq # {}
  <2>1. PICK path : path = Backtracked(back, s, t)
      OBVIOUS
  <2>2. HeapTop(pq)[2] = t /\ ShortestPath(s, t) = {path}
      BY <1>2, <1>3, <1>8, <2>1
  <2>3. HeapTop(pq) \in pq /\ \A q \in pq : HeapTop(pq)[1] <= q[1]
    <3>1. pq \in SUBSET (Nat \X NodeId)
        BY <1>4 DEF Priced
    <3>. QED
        BY <1>8, <3>1, TopIsLeast
  <2>4. HeapTop(pq)[1] = costs[t] /\ t \in DOMAIN costs
    <3>1. PICK p : p = HeapTop(pq)
        OBVIOUS
    <3>2. p \in pq /\ (\A q \in pq : p[1] <= q[1]) /\ p[2] = t
        BY <2>2, <2>3, <3>1
    <3>3. p[1] = costs[p[2]] /\ p[2] \in DOMAIN costs
      <4>1. p[2] \notin V
          BY <1>4, <3>2
      <4>2. PICK D : D = OutOf(V)
          OBVIOUS
      <4>3. Priced(pq, costs, V, D, s)
          BY <1>4, <4>2, Zenon
      <4>. QED
          BY <3>2, <4>1, <4>3, PopFirst
    <3>. QED
        BY <3>1, <3>2, <3>3
  <2>5. PICK depth : Led(costs, back, V, m, s, depth, W)
      BY <1>4
  <2>6. m \in Nat /\ m < MaxNode
    <3>1. IsFiniteSet(1 .. MaxNode) /\ Cardinality(1 .. MaxNode) = MaxNode /\ MaxNode \in Nat
        BY ConstantsOK, FS_Interval DEF ConstantsOK
    <3>2. IsFiniteSet(V) /\ IsFiniteSet(V \cup {t})
        BY <1>4, <3>1, FS_Subset, FS_AddElement DEF NodeId
    <3>3. m \in Nat /\ Cardinality(V \cup {t}) = m + 1
        BY <1>3, <1>4, <3>2, FS_AddElement, FS_CardinalityType
    <3>4. V \cup {t} \in SUBSET (1 .. MaxNode)
        BY <1>4 DEF NodeId
    <3>5. Cardinality(V \cup {t}) <= MaxNode
        BY <3>1, <3>4, FS_Subset
    <3>. QED
        BY <3>1, <3>3, <3>5
  <2>7. Way(path, costs, t) /\ First(path, t) = s
    <3>1. PICK D : D = OutOf(V)
        OBVIOUS
    <3>2. Priced(pq, costs, V, D, s)
        BY <1>4, <3>1, Zenon
    <3>3. /\ Way(Backtracked(back, s, t), costs, t)
          /\ First(Backtracked(back, s, t), t) = s
        BY <2>4, <2>5, <2>6, <3>2, WayFound
    <3>. QED
        BY <2>1, <3>3, Zenon
  <2>8. path \in Seq(edges) /\ \A i \in 1 .. Len(path) : path[i] \in edges
      BY <2>7 DEF Way
  <2>9. IsChain(path, s, t)
    <3>1. path = << >> => s = t
        BY <2>7, Zenon DEF First
    <3>2. path # << >> => path[1].src = s
        BY <2>7, <2>8 DEF First
    <3>. QED
        BY <2>7, <3>1, <3>2, Zenon DEF IsChain, Way
  <2>10. Cost(path) = costs[t] /\ costs[t] \in Nat
    <3>1. Cost(path) \in Nat
      <4>1. CASE path = << >>
          BY <4>1, CostNothing
      <4>2. CASE path # << >>
        <5>1. path[1] \in edges
            BY <2>8, <4>2
        <5>. QED
            BY <2>8, <5>1, CostBefore
      <4>. QED
          BY <4>1, <4>2
    <3>2. costs[s] = 0 /\ costs[t] \in Nat
        BY <1>4, <2>4 DEF Priced
    <3>3. Cost(path) + costs[s] = costs[t]
        BY <2>7, Zenon DEF Way
    <3>. QED
        BY <3>1, <3>2, <3>3
  <2>11. costs[t] \in CostsTo(s, t)
    <3>1. depth[t] \in 0 .. MaxNode /\ <<t, costs[t]>> \in W[depth[t]]
      <4>1. depth[t] \in 0 .. m /\ <<t, costs[t]>> \in W[depth[t]]
          BY <2>4, <2>5, Zenon DEF Led
      <4>. QED
          BY <2>6, <4>1, ConstantsOK DEF ConstantsOK
    <3>2. <<t, costs[t]>> \in Walks(s)
        BY <1>1, <3>1, WalksGrow
    <3>. QED
        BY <3>2 DEF CostsTo
  <2>12. \A c \in CostsTo(s, t) : costs[t] <= c
    <3>1. \A q \in pq : q[1] \in Nat
        BY <1>4 DEF Priced
    <3>. QED
        BY <1>6, <2>3, <2>4, <2>10, <3>1
  <2>13. IsShortest(path, s, t)
      BY <2>8, <2>9, <2>10, <2>11, <2>12, Zenon DEF IsShortest
  <2>. QED
      BY <2>2, <2>11, <2>13
<1>. QED
    BY <1>7, <1>8

\* In every store that a sequence of writes leads to, Dijkstra's search returns a
\* way of the least cost of all, and None exactly if there is no way.
THEOREM PathsAlwaysShortest == ScanSpec => []PathsAreShortest
<1>1. Store => PathsAreShortest
  <2>. SUFFICES ASSUME Store, NEW s \in nodes, NEW t \in nodes
                PROVE  /\ ShortestPath(s, t) = {} <=> CostsTo(s, t) = {}
                       /\ \A path \in ShortestPath(s, t) : IsShortest(path, s, t)
      BY Zenon DEF PathsAreShortest, CostsTo, IsShortest
  <2>1. s \in NodeId /\ t \in NodeId
      BY DEF Store, Inv, TypeOK
  <2>. QED
      BY <2>1, Shortest
<1>2. ScanInv => Store
    BY DEF ScanInv
<1>. QED
    BY <1>1, <1>2, ScanInvHolds, PTL

=============================================================================
