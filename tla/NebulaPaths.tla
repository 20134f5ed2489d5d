------------------------------ MODULE NebulaPaths ------------------------------
(***************************************************************************)
(* Weighted shortest paths in the store (find_shortest_path_dijkstra in    *)
(* core/algorithms.py), as a function of the store it finds: the call has  *)
(* no yield, and this module lets nobody write under it.                   *)
(***************************************************************************)
EXTENDS NebulaScan

\* The weights that edges are made with.  The module is about weights that are
\* not negative, as all of the repository are (see the README for others).
CONSTANT Weight

ASSUME WeightOK == Weight \in [1 .. MaxEdge -> Nat]

\* The dictionary f with f[k] = v.
Put(f, k, v) == [x \in DOMAIN f \cup {k} |-> IF x = k THEN v ELSE f[x]]

\* The state of the search: pq and costs, backtrack and visited.
Started(s) ==
    [pq |-> {<<0, s>>}, costs |-> [n \in {s} |-> 0], back |-> [n \in {} |-> 0],
     visited |-> {}, found |-> FALSE]

\* (An operator that precedes another and is not used is a plausible bug of the
\* next one, put in its place to test the properties.)
ReachesFirst(costs, v, cost) == v \notin DOMAIN costs
Improves(costs, v, cost) == IF v \in DOMAIN costs THEN cost < costs[v] ELSE TRUE

\* Relaxation of an edge out of a node that was popped at the given cost.
Relaxed(w, edge, popped) ==
    LET cost == popped + Weight[edge.id]
    IN  IF Improves(w.costs, edge.dst, cost)
        THEN [w EXCEPT !.costs = Put(@, edge.dst, cost),
                       !.back = Put(@, edge.dst, edge),
                       !.pq = @ \cup {<<cost, edge.dst>>}]
        ELSE w

\* Relaxation of a list of edges, which is in the order of the ids.
AllRelaxed(w, edgeList, popped) ==
    LET after[i \in 0 .. MaxEdge] ==
            IF i = 0 THEN w
            ELSE IF \E e \in edgeList : e.id = i
            THEN Relaxed(after[i - 1], CHOOSE e \in edgeList : e.id = i, popped)
            ELSE after[i - 1]
    IN  after[MaxEdge]

\* heappop: the least cost, and of equal costs the least node.
HeapTop(pq) ==
    CHOOSE p \in pq : \A q \in pq : p[1] < q[1] \/ (p[1] = q[1] /\ p[2] <= q[2])

\* A turn of the loop.
Turn(w, t) ==
    LET p    == HeapTop(w.pq)
        rest == [w EXCEPT !.pq = @ \ {p}, !.visited = @ \cup {p[2]}]
    IN  IF w.found \/ w.pq = {} THEN w
        ELSE IF p[2] = t THEN [w EXCEPT !.found = TRUE]
        ELSE IF p[2] \in w.visited THEN rest
        ELSE AllRelaxed(rest, outEdges[p[2]], p[1])

\* The edges from s to t along backtrack.
Backtracked(back, s, t) ==
    LET way[i \in 0 .. MaxNode] ==
            IF i = 0 THEN << >>
            ELSE LET at == IF way[i - 1] = << >> THEN t ELSE Head(way[i - 1]).src
                 IN  IF at = s THEN way[i - 1] ELSE <<back[at]>> \o way[i - 1]
    IN  way[MaxNode]

\* Nothing is pushed twice for one edge, so the heap is empty after MaxEdge + 1
\* turns at the latest.  (The set is empty for None.)
ShortestPath(s, t) ==
    LET w[i \in 0 .. MaxEdge + 2] ==
            IF i = 0 THEN Started(s) ELSE Turn(w[i - 1], t)
        end == w[MaxEdge + 2]
    IN  IF end.found THEN {Backtracked(end.back, s, t)} ELSE {}

-----------------------------------------------------------------------------

\* The nodes that walks of up to k steps from s lead to, each with what such a walk
\* costs: a walk to a node and an edge out of it make a longer one.
Walks(s) ==
    LET walk[k \in 0 .. MaxNode] ==
            IF k = 0 THEN {<<s, 0>>}
            ELSE walk[k - 1] \cup
                 {<<we[2].dst, we[1][2] + Weight[we[2].id]>> :
                     we \in {x \in walk[k - 1] \X edges : x[1][1] = x[2].src}}
    IN  walk[MaxNode]

IsChain(path, s, t) ==
    /\ path = << >> => s = t
    /\ path # << >> =>
          /\ path[1].src = s /\ path[Len(path)].dst = t
          /\ \A i \in 1 .. Len(path) - 1 : path[i].dst = path[i + 1].src

Cost(path) ==
    LET sum[i \in 0 .. Len(path)] == IF i = 0 THEN 0 ELSE sum[i - 1] + Weight[path[i].id]
    IN  sum[Len(path)]

\* In every store, after whatever was added and deleted, the edges returned lead
\* from the start to the target at the least cost there is, and None is returned
\* exactly when there is no way: several edges between two nodes, loops, cycles
\* and edges of no weight included.
PathsAreShortest ==
    phase = "none" =>
        \A s, t \in nodes :
            LET found == ShortestPath(s, t)
                costs == {x[2] : x \in {y \in Walks(s) : y[1] = t}}
            IN  /\ found = {} <=> costs = {}
                /\ \A path \in found :
                      /\ \A i \in 1 .. Len(path) : path[i] \in edges
                      /\ IsChain(path, s, t)
                      /\ Cost(path) \in costs
                      /\ \A c \in costs : Cost(path) <= c

===============================================================================
