------------------------------ MODULE NebulaScan ------------------------------
(***************************************************************************)
(* A breadth-first traversal of the store (GraphTraversal.bfs in           *)
(* core/algorithms.py over iter_out_edges of core/storage.py) while others *)
(* write.  bfs is a generator and iter_out_edges walks the live list of a  *)
(* node without the lock, so the store may change between any two steps.   *)
(*                                                                         *)
(* A list iterator is a position in a list that shrinks and grows under    *)
(* it.  A list that loses its key in _out_edges stays with its reader: as  *)
(* it was when its node is deleted, empty when its last edge is.           *)
(***************************************************************************)
EXTENDS NebulaGraph, Sequences

CONSTANTS
    MaxDepth,  \* max_depth
    MaxWrites  \* bound: writes between the call and the end of the traversal

ASSUME ScanConstantsOK == {MaxDepth, MaxWrites} \subseteq Nat

VARIABLES
    phase,    \* where the generator is: "none" is not called yet
    visited, queue,
    current,  \* current_id and depth
    list,     \* the list that is being walked
    live,     \* whether it still is the list of the current node
    next,     \* the position of the iterator in it
    yielded,  \* history: what the generator has yielded
    seen,     \* history: the edges there have been since the call
    mark,     \* history: edgeSeq at the call
    writes    \* writes since the call

scan  == <<phase, visited, queue, current, list, live, next, yielded, seen, mark, writes>>
store == <<nodes, edges, outEdges, inEdges, outKeys, inKeys, nodeSeq, edgeSeq>>

Visit(n, d) == [node |-> n, depth |-> d]

ScanInit ==
    /\ Init
    /\ phase = "none"
    /\ visited = {} /\ queue = << >> /\ current = Visit(0, 0)
    /\ list = {} /\ live = FALSE /\ next = 0
    /\ yielded = << >> /\ seen = {} /\ mark = 0 /\ writes = 0

\* A writer, and what it does to the list under the reader.
Write ==
    /\ Next
    /\ list' = IF live /\ current.node \in nodes' THEN outEdges'[current.node] ELSE list
    /\ live' = (live /\ current.node \in outKeys')
    /\ IF phase = "none"
       THEN UNCHANGED <<seen, writes>>
       ELSE /\ writes < MaxWrites
            /\ writes' = writes + 1
            /\ seen' = seen \cup edges'
    /\ UNCHANGED <<phase, visited, queue, current, next, yielded, mark>>

\* bfs is called.
Call(s) ==
    /\ phase = "none"
    /\ s \in nodes
    /\ phase' = "pop"
    /\ visited' = {s}
    /\ queue' = <<Visit(s, 0)>>
    /\ seen' = edges /\ mark' = edgeSeq
    /\ UNCHANGED <<store, current, list, live, next, yielded, writes>>

\* popleft and yield.
Yield ==
    /\ phase = "pop"
    /\ queue # << >>
    /\ phase' = "yielded"
    /\ current' = Head(queue)
    /\ queue' = Tail(queue)
    /\ yielded' = Append(yielded, Head(queue))
    /\ UNCHANGED <<store, visited, list, live, next, seen, mark, writes>>

\* The consumer asks for more: the list of the node is looked up, and a node
\* without one gets a list of its own that stays empty.
Open ==
    /\ phase = "yielded"
    /\ IF current.depth < MaxDepth
       THEN /\ phase' = "walk"
            /\ list' = outEdges[current.node]
            /\ live' = (current.node \in outKeys)
       ELSE phase' = "pop" /\ UNCHANGED <<list, live>>
    /\ next' = 0
    /\ UNCHANGED <<store, visited, queue, current, yielded, seen, mark, writes>>

\* The edge at the position of the iterator.
At(edge) == Cardinality({e \in list : e.id < edge.id}) = next

\* (An operator that precedes another and is not used is a plausible bug of the
\* next one, put in its place to test the properties.)
StackedUp(q, v) == <<v>> \o q
QueuedUp(q, v) == Append(q, v)

SameDepth(d) == d
Deeper(d) == d + 1

\* The next edge, whose end is queued unless it has been before.
Walk ==
    /\ phase = "walk"
    /\ \E edge \in list :
          /\ At(edge)
          /\ visited' = visited \cup {edge.dst}
          /\ queue' = IF edge.dst \in visited THEN queue
                      ELSE QueuedUp(queue, Visit(edge.dst, Deeper(current.depth)))
    /\ next' = next + 1
    /\ UNCHANGED <<store, phase, current, list, live, yielded, seen, mark, writes>>

AtLast == next + 1 >= Cardinality(list)
AtEnd == next >= Cardinality(list)

\* The list has no edge at the position: the iterator is exhausted.
Exhaust ==
    /\ phase = "walk"
    /\ AtEnd
    /\ phase' = "pop"
    /\ list' = {} /\ live' = FALSE /\ next' = 0
    /\ UNCHANGED <<store, visited, queue, current, yielded, seen, mark, writes>>

ScanNext ==
    \/ Write
    \/ \E s \in NodeId : Call(s)
    \/ Yield \/ Open \/ Walk \/ Exhaust

ScanSpec == ScanInit /\ [][ScanNext]_<<vars, scan>>

-----------------------------------------------------------------------------

\* The nodes within k hops of the start over the edges E, for k up to MaxDepth.
Balls(E) ==
    LET ball[k \in 0 .. MaxDepth] ==
            IF k = 0 THEN {yielded[1].node}
            ELSE ball[k - 1] \cup {e.dst : e \in {f \in E : f.src \in ball[k - 1]}}
    IN  ball

\* The edges there were at the call, and whether all edges since are still there.
AtCall == {e \in seen : e.id <= mark}
NothingDeleted == seen \subseteq edges

Done == phase = "pop" /\ queue = << >>

\* Nodes come in the order of their depths and none comes twice, whatever is
\* written meanwhile.
DepthsAscend ==
    \A i, j \in DOMAIN yielded :
        i < j => /\ yielded[i].depth <= yielded[j].depth
                 /\ yielded[i].node # yielded[j].node

\* A depth is a number of hops over edges that there have been, and unless one is
\* deleted the traversal finds every node that was within MaxDepth at the call, at
\* no more than its distance then: edges added under it hide nothing.
DepthsAreDistances ==
    yielded # << >> =>
        /\ \A i \in DOMAIN yielded : yielded[i].node \in Balls(seen)[yielded[i].depth]
        /\ Done /\ NothingDeleted =>
              \A k \in 0 .. MaxDepth : \A n \in Balls(AtCall)[k] :
                  \E i \in DOMAIN yielded : yielded[i].node = n /\ yielded[i].depth <= k

\* An edge that was there all the time is only missed when another of its own list
\* is deleted, which shifts the list under the iterator: whatever else is deleted,
\* the ends of all edges of a node left behind have been queued.
MissesOnlyShifted ==
    \A i \in DOMAIN yielded :
        LET v == yielded[i]
            own == {e \in seen : e.src = v.node}
        IN  /\ v.depth < MaxDepth
            /\ v # current \/ phase = "pop"
            /\ own \subseteq edges
            => {e.dst : e \in own \cap AtCall} \subseteq visited

=============================================================================
