-------------------------- MODULE NebulaQueryProofs --------------------------
(***************************************************************************)
(* Proofs about queries (NebulaQuery), for any readers, texts, labels and  *)
(* values.  An index holds only nodes with its values, and knows every     *)
(* node that neither waits for its hook nor was missed; a query has in     *)
(* hand, or still before it, every node that it should find.  The parser   *)
(* accepts the sentences of its syntax, with their trees, and no other.    *)
(***************************************************************************)
EXTENDS NebulaQuery, FiniteSetTheorems, SequenceTheorems, TLAPS

Errors == {"SyntaxError", "RuntimeError", "NodeNotFoundError"}

Pc == {"idle", "plan", "scan", "fetch", "done"} \cup Errors

Query ==
    [pc : Pc,
     label : Label \cup {None}, value : Value \cup {None},
     at : Nat, size : Nat, left : Int,
     candidates : SUBSET NodeId, results : SUBSET NodeId,
     due : SUBSET NodeId, late : SUBSET NodeId, skipped : SUBSET NodeId, cut : BOOLEAN]

TypeOK ==
    /\ nodeSeq \in 0 .. MaxNode
    /\ nodes \in SUBSET (1 .. nodeSeq)
    /\ place \in [NodeId -> Nat] /\ filled \in Nat
    /\ pending \in SUBSET (1 .. nodeSeq) /\ missed \in SUBSET (1 .. nodeSeq)
    /\ label \in [NodeId -> Label \cup {None}]
    /\ name \in [NodeId -> Value \cup {None}]
    /\ \A n \in 1 .. nodeSeq : name[n] \in Value
    /\ hasIndex \in BOOLEAN
    /\ items \in [Value -> SUBSET NodeId]
    /\ query \in [Reader -> Query]

\* Every node has an entry of the dictionary to itself.
Placed ==
    /\ \A n \in nodes : place[n] > 0 /\ place[n] <= filled
    /\ \A n, k \in nodes : place[n] = place[k] => n = k

\* The index has a node under its own value only.
ItemsRight == \A v \in Value : \A n \in items[v] : n <= nodeSeq /\ name[n] = v

\* The index has every node that its hook was called for in time.
Indexed ==
    \A n \in 1 .. nodeSeq :
        n \notin pending /\ n \notin missed => hasIndex /\ n \in items[name[n]]

\* What a query has in hand has the value; what it should find fits, and is there
\* while it runs.
InHand(q) ==
    /\ \A n \in q.candidates \cup q.results :
          n <= nodeSeq /\ q.value \in {None, name[n]}
    /\ \A n \in q.due : n <= nodeSeq /\ Fits(q, n)
    /\ q.pc \in {"plan", "scan", "fetch"} => q.due \subseteq nodes

\* What it should find and has not in hand was skipped or is still ahead of the scan; of
\* the nodes that the index knows none else is left out once there is no scan to come.
InSight(q) ==
    /\ q.pc = "plan" => q.at = 0
    /\ q.pc \in {"plan", "scan"} =>
           \A n \in q.due : n \in q.candidates \/ n \in q.skipped \/ place[n] > q.at
    /\ q.pc \in {"fetch", "done"} =>
           q.due \ q.late \subseteq q.candidates \cup q.results \cup q.skipped
    /\ q.pc = "done" => q.candidates = {}

\* As long as no node is deleted under the scan the dictionary grows, and it has grown
\* if nodes were skipped; so there is no end of a scan with skipped nodes then.
Grows(q) ==
    /\ q.pc = "plan" => q.skipped = {}
    /\ q.pc = "scan" /\ ~q.cut =>
           /\ q.size <= Cardinality(nodes)
           /\ q.skipped # {} => q.size < Cardinality(nodes)
    /\ q.pc \in {"fetch", "done"} => (q.skipped # {} => q.cut)

\* The inductive invariant.
Inv ==
    /\ TypeOK
    /\ Placed
    /\ ItemsRight
    /\ Indexed
    /\ \A r \in Reader : InHand(query[r]) /\ InSight(query[r]) /\ Grows(query[r])

-----------------------------------------------------------------------------

\* The nodes can be counted.
LEMMA Counted ==
    ASSUME Inv
    PROVE  IsFiniteSet(nodes) /\ Cardinality(nodes) \in Nat
<1>1. nodeSeq \in Nat /\ nodes \subseteq 1 .. nodeSeq
    BY MaxNodeOK DEF MaxNodeOK, Inv, TypeOK
<1>2. IsFiniteSet(1 .. nodeSeq)
    BY <1>1, FS_Interval
<1>. QED
    BY <1>1, <1>2, FS_Subset, FS_CardinalityType

\* An idle query is in order.
LEMMA Idle ==
    ASSUME NEW pc \in {"idle"} \cup Errors
    PROVE  /\ Blank(pc) \in Query
           /\ InHand(Blank(pc)) /\ InSight(Blank(pc)) /\ Grows(Blank(pc))
<1>. DEFINE q == Blank(pc)
<1>1. pc \in Pc
    BY DEF Pc
<1>2. q \in Query
  <2>1. /\ None \in Label \cup {None} /\ None \in Value \cup {None} /\ 0 \in Nat /\ 0 \in Int
        /\ {} \in SUBSET NodeId /\ FALSE \in BOOLEAN
      OBVIOUS
  <2>. QED
      BY <1>1, <2>1, Zenon DEF Query, Blank
<1>3. q.pc = pc /\ q.candidates = {} /\ q.results = {} /\ q.due = {}
    BY DEF Blank
<1>4. pc \notin {"plan", "scan", "fetch", "done"}
    BY DEF Errors
<1>. HIDE DEF q
<1>5. InHand(q)
    BY <1>3, <1>4, Zenon DEF InHand
<1>6. InSight(q)
    BY <1>3, <1>4, Zenon DEF InSight
<1>7. Grows(q)
    BY <1>3, <1>4, Zenon DEF Grows
<1>. QED
    BY <1>2, <1>5, <1>6, <1>7 DEF q

LEMMA InvInit == Init => Inv
<1>. SUFFICES ASSUME Init PROVE Inv
    OBVIOUS
<1>2. NoQuery \in Query /\ InHand(NoQuery) /\ InSight(NoQuery) /\ Grows(NoQuery)
    BY Idle DEF NoQuery
<1>3. query \in [Reader -> Query]
    BY <1>2 DEF Init
<1>4. nodeSeq \in 0 .. MaxNode
    BY MaxNodeOK DEF MaxNodeOK, Init
<1>5. label \in [NodeId -> Label \cup {None}] /\ name \in [NodeId -> Value \cup {None}]
    BY DEF Init
<1>6. items \in [Value -> SUBSET NodeId]
    BY DEF Init, NoItems
<1>7. TypeOK
  <2>1. /\ nodes \in SUBSET (1 .. nodeSeq)
        /\ place \in [NodeId -> Nat] /\ filled \in Nat
        /\ pending \in SUBSET (1 .. nodeSeq) /\ missed \in SUBSET (1 .. nodeSeq)
      BY DEF Init
  <2>2. \A n \in 1 .. nodeSeq : name[n] \in Value
      BY DEF Init
  <2>3. hasIndex \in BOOLEAN
      BY DEF Init
  <2>. QED
      BY <1>3, <1>4, <1>5, <1>6, <2>1, <2>2, <2>3 DEF TypeOK
<1>8. \A r \in Reader : InHand(query[r]) /\ InSight(query[r]) /\ Grows(query[r])
    BY <1>2 DEF Init
<1>9. ItemsRight
    BY DEF Init, ItemsRight, NoItems
<1>10. Indexed
    BY DEF Init, Indexed
<1>11. Placed
    BY DEF Init, Placed
<1>. QED
    BY <1>7, <1>8, <1>9, <1>10, <1>11 DEF Inv

\* A step of a reader keeps the invariant if it leaves its query in order.
LEMMA ReaderKeeps ==
    ASSUME Inv, UNCHANGED <<store, index>>,
           NEW r \in Reader, NEW q \in Query,
           query' = [query EXCEPT ![r] = q], InHand(q), InSight(q), Grows(q)
    PROVE  Inv'
<1>1. TypeOK' /\ Placed' /\ ItemsRight' /\ Indexed'
    BY DEF Inv, TypeOK, Placed, ItemsRight, Indexed, store, index
<1>2. \A s \in Reader : query'[s] = IF s = r THEN q ELSE query[s]
    BY DEF Inv, TypeOK
<1>3. ASSUME NEW s \in Reader
      PROVE  InHand(query[s])' /\ InSight(query[s])' /\ Grows(query[s])'
  <2>1. InHand(query'[s]) /\ InSight(query'[s]) /\ Grows(query'[s])
      BY <1>2 DEF Inv
  <2>2. /\ nodeSeq' = nodeSeq /\ nodes' = nodes /\ label' = label /\ name' = name
        /\ place' = place
      BY DEF store
  <2>. QED
      BY <2>1, <2>2 DEF InHand, InSight, Grows, Fits, LabelFits
<1>. QED
    BY <1>1, <1>3 DEF Inv

-----------------------------------------------------------------------------
(* The store and the index. *)

\* A change of the store leaves the nodes of a query in order, if its labels and values
\* stay and what the query should find is not deleted.
LEMMA InHandKept ==
    ASSUME Inv, NEW q \in Query, NEW p \in Query, InHand(q),
           p.pc = q.pc, p.label = q.label, p.value = q.value,
           p.candidates = q.candidates, p.results = q.results, p.due \subseteq q.due,
           p.pc \in {"plan", "scan", "fetch"} => p.due \subseteq nodes',
           nodeSeq' \in Nat, nodeSeq <= nodeSeq',
           \A n \in 1 .. nodeSeq : label'[n] = label[n] /\ name'[n] = name[n]
    PROVE  /\ \A n \in p.candidates \cup p.results :
                  n <= nodeSeq' /\ p.value \in {None, name'[n]}
           /\ \A n \in p.due : /\ n <= nodeSeq' /\ p.label \in {None, label'[n]}
                               /\ p.value \in {None, name'[n]}
<1>1. q.candidates \subseteq NodeId /\ q.results \subseteq NodeId /\ q.due \subseteq NodeId
    BY DEF Query
<1>2. \A n \in NodeId : n <= nodeSeq =>
          n <= nodeSeq' /\ label'[n] = label[n] /\ name'[n] = name[n]
    BY DEF Inv, TypeOK, NodeId
<1>3. ASSUME NEW n \in p.candidates \cup p.results
      PROVE  n <= nodeSeq' /\ p.value \in {None, name'[n]}
  <2>1. n \in NodeId /\ n <= nodeSeq /\ q.value \in {None, name[n]}
      BY <1>1 DEF InHand
  <2>. QED
      BY <1>2, <2>1
<1>4. \A n \in p.due : n <= nodeSeq' /\ p.label \in {None, label'[n]}
                              /\ p.value \in {None, name'[n]}
    BY <1>1, <1>2 DEF InHand, Fits, LabelFits
<1>. QED
    BY <1>3, <1>4

\* A node more in the store, the others moved to places that do not bring a node from
\* behind the scan to before it unless it is told of, keeps the queries in order.
LEMMA MovedKeeps ==
    ASSUME Inv, nodeSeq' \in Nat, nodeSeq <= nodeSeq', nodes \subseteq nodes',
           Cardinality(nodes') = Cardinality(nodes) + 1,
           \A n \in 1 .. nodeSeq : label'[n] = label[n] /\ name'[n] = name[n],
           \A n \in nodes : place'[n] > 0,
           NEW r \in Reader, NEW skipped \in SUBSET NodeId, query[r].skipped \subseteq skipped,
           query'[r] = [query[r] EXCEPT !.skipped = skipped],
           query[r].pc = "scan" =>
               \A n \in query[r].due \cap nodes :
                  place[n] > query[r].at => place'[n] > query[r].at \/ n \in skipped,
           query[r].pc # "scan" => skipped = query[r].skipped
    PROVE  /\ query'[r] \in Query
           /\ InHand(query[r])' /\ InSight(query[r])' /\ Grows(query[r])'
<1>. DEFINE q == query[r]  p == query'[r]
<1>1. q \in Query /\ InHand(q) /\ InSight(q) /\ Grows(q)
    BY DEF Inv, TypeOK
<1>2. /\ p \in Query /\ p.pc = q.pc /\ p.label = q.label /\ p.value = q.value
      /\ p.at = q.at /\ p.size = q.size /\ p.candidates = q.candidates
      /\ p.results = q.results /\ p.due = q.due /\ p.late = q.late
      /\ p.skipped = skipped /\ p.cut = q.cut
    BY <1>1 DEF Query
<1>3. Cardinality(nodes) \in Nat
    BY Counted
<1>4. q.at \in Nat /\ q.size \in Nat
    BY <1>1 DEF Query
<1>. HIDE DEF q, p
<1>5. q.pc \in {"plan", "scan", "fetch"} => q.due \subseteq nodes
    BY <1>1 DEF InHand
<1>6. InHand(query[r])'
  <2>1. p.pc \in {"plan", "scan", "fetch"} => p.due \subseteq nodes'
      BY <1>2, <1>5
  <2>2. /\ \A n \in p.candidates \cup p.results :
               n <= nodeSeq' /\ p.value \in {None, name'[n]}
        /\ \A n \in p.due : /\ n <= nodeSeq' /\ p.label \in {None, label'[n]}
                            /\ p.value \in {None, name'[n]}
      BY <1>1, <1>2, <2>1, InHandKept
  <2>. QED
      BY <2>1, <2>2 DEF InHand, Fits, LabelFits, p
<1>7. InSight(query[r])'
  <2>1. ASSUME p.pc \in {"plan", "scan"}, NEW n \in p.due
        PROVE  n \in p.candidates \/ n \in p.skipped \/ place'[n] > p.at
    <3>1. n \in nodes /\ place'[n] > 0
        BY <1>2, <1>5, <2>1
    <3>2. CASE q.pc = "plan"
        BY <1>1, <1>2, <3>1, <3>2 DEF InSight
    <3>3. CASE q.pc = "scan"
      <4>1. n \in q.candidates \/ n \in q.skipped \/ place[n] > q.at
          BY <1>1, <1>2, <2>1, <3>3 DEF InSight
      <4>2. place[n] > q.at => place'[n] > q.at \/ n \in skipped
          BY <1>2, <2>1, <3>1, <3>3 DEF q
      <4>3. q.skipped \subseteq skipped
          BY DEF q
      <4>. QED
          BY <1>2, <4>1, <4>2, <4>3
    <3>. QED
        BY <1>2, <2>1, <3>2, <3>3
  <2>2. p.pc \in {"fetch", "done"} =>
            p.due \ p.late \subseteq p.candidates \cup p.results \cup p.skipped
    <3>1. q.skipped \subseteq p.skipped
        BY <1>2 DEF q
    <3>. QED
        BY <1>1, <1>2, <3>1 DEF InSight
  <2>3. (p.pc = "plan" => p.at = 0) /\ (p.pc = "done" => p.candidates = {})
      BY <1>1, <1>2 DEF InSight
  <2>. QED
      BY <2>1, <2>2, <2>3 DEF InSight, p
<1>8. Grows(query[r])'
  <2>1. p.pc # "scan" => p.skipped = q.skipped
      BY <1>2 DEF q
  <2>2. q.pc = "scan" /\ ~q.cut => q.size < Cardinality(nodes')
      BY <1>1, <1>3, <1>4 DEF Grows
  <2>3. p.pc = "plan" => p.skipped = {}
      BY <1>1, <1>2, <2>1 DEF Grows
  <2>4. p.pc = "scan" /\ ~p.cut =>
            /\ p.size <= Cardinality(nodes')
            /\ p.skipped # {} => p.size < Cardinality(nodes')
      BY <1>2, <1>3, <1>4, <2>2
  <2>5. p.pc \in {"fetch", "done"} => (p.skipped # {} => p.cut)
      BY <1>1, <1>2, <2>1 DEF Grows
  <2>. QED
      BY <2>3, <2>4, <2>5 DEF Grows, p
<1>. QED
    BY <1>2, <1>6, <1>7, <1>8 DEF p

\* A node deleted keeps the queries in order.
LEMMA WithoutKeeps ==
    ASSUME Inv, NEW n \in NodeId, DeleteNode(n), NEW r \in Reader
    PROVE  /\ query'[r] \in Query
           /\ InHand(query[r])' /\ InSight(query[r])' /\ Grows(query[r])'
<1>. DEFINE q == query[r]  p == query'[r]
<1>1. q \in Query /\ InHand(q) /\ InSight(q) /\ Grows(q)
    BY DEF Inv, TypeOK
<1>2. p = IF q.pc \in {"plan", "scan", "fetch"}
          THEN [q EXCEPT !.due = @ \ {n}, !.late = @ \ {n}, !.skipped = @ \ {n},
                         !.cut = @ \/ q.pc = "scan"]
          ELSE q
    BY DEF DeleteNode, Without, Running
<1>3. /\ nodes' = nodes \ {n} /\ nodeSeq' = nodeSeq /\ label' = label /\ name' = name
      /\ \A k \in NodeId : k # n => place'[k] = place[k]
    BY DEF DeleteNode, Inv, TypeOK
<1>4. /\ p \in Query /\ p.pc = q.pc /\ p.label = q.label /\ p.value = q.value
      /\ p.at = q.at /\ p.candidates = q.candidates /\ p.results = q.results
      /\ p.pc \in {"plan", "scan", "fetch"} =>
             /\ p.due = q.due \ {n} /\ p.late = q.late \ {n} /\ p.skipped = q.skipped \ {n}
             /\ p.pc = "scan" => p.cut
             /\ p.pc # "scan" => p.cut = q.cut
      /\ p.pc \notin {"plan", "scan", "fetch"} => p = q
  <2>. HIDE DEF q, p
  <2>1. CASE q.pc \in {"plan", "scan", "fetch"}
    <3>1. p = [q EXCEPT !.due = q.due \ {n}, !.late = q.late \ {n},
                        !.skipped = q.skipped \ {n}, !.cut = q.cut \/ q.pc = "scan"]
        BY <1>2, <2>1
    <3>. QED
        BY <1>1, <2>1, <3>1 DEF Query
  <2>2. CASE q.pc \notin {"plan", "scan", "fetch"}
      BY <1>1, <1>2, <2>2
  <2>. QED
      BY <2>1, <2>2
<1>5. q.due \subseteq NodeId
    BY <1>1 DEF Query
<1>. HIDE DEF q, p
<1>6. InHand(query[r])'
  <2>1. p.pc \in {"plan", "scan", "fetch"} => p.due \subseteq nodes'
      BY <1>1, <1>3, <1>4 DEF InHand
  <2>2. nodeSeq \in Nat /\ p.due \subseteq q.due
      BY <1>4, MaxNodeOK DEF MaxNodeOK, Inv, TypeOK
  <2>3. /\ \A k \in p.candidates \cup p.results :
               k <= nodeSeq' /\ p.value \in {None, name'[k]}
        /\ \A k \in p.due : /\ k <= nodeSeq' /\ p.label \in {None, label'[k]}
                            /\ p.value \in {None, name'[k]}
      BY <1>1, <1>3, <1>4, <2>1, <2>2, InHandKept
  <2>. QED
      BY <2>1, <2>3 DEF InHand, Fits, LabelFits, p
<1>7. InSight(query[r])'
  <2>1. ASSUME p.pc \in {"plan", "scan"}, NEW k \in p.due
        PROVE  k \in p.candidates \/ k \in p.skipped \/ place'[k] > p.at
    <3>1. k \in q.due /\ k # n /\ k \in NodeId
        BY <1>4, <1>5, <2>1
    <3>2. k \in q.candidates \/ k \in q.skipped \/ place[k] > q.at
        BY <1>1, <1>4, <2>1, <3>1 DEF InSight
    <3>. QED
        BY <1>3, <1>4, <2>1, <3>1, <3>2
  <2>2. p.pc \in {"fetch", "done"} =>
            p.due \ p.late \subseteq p.candidates \cup p.results \cup p.skipped
      BY <1>1, <1>4 DEF InSight
  <2>3. (p.pc = "plan" => p.at = 0) /\ (p.pc = "done" => p.candidates = {})
      BY <1>1, <1>4 DEF InSight
  <2>. QED
      BY <2>1, <2>2, <2>3 DEF InSight, p
<1>8. Grows(query[r])'
  <2>1. p.pc = "plan" => p.skipped = {}
      BY <1>1, <1>4 DEF Grows
  <2>2. p.pc = "scan" => p.cut
      BY <1>4
  <2>3. p.pc \in {"fetch", "done"} => (p.skipped # {} => p.cut)
      BY <1>1, <1>4 DEF Grows
  <2>. QED
      BY <2>1, <2>2, <2>3 DEF Grows, p
<1>. QED
    BY <1>4, <1>6, <1>7, <1>8 DEF p

\* Packing the entries leaves the nodes apart, each in the place of its rank.
LEMMA Ranked ==
    ASSUME Inv
    PROVE  /\ \A n \in nodes : Packed[n] \in 1 .. Cardinality(nodes)
           /\ \A n, k \in nodes : Packed[n] = Packed[k] => n = k
<1>. DEFINE Upto(n) == {k \in nodes : k <= n}
<1>1. IsFiniteSet(nodes) /\ Cardinality(nodes) \in Nat
    BY Counted
<1>2. nodes \subseteq Int /\ nodes \subseteq NodeId
    BY MaxNodeOK DEF MaxNodeOK, Inv, TypeOK, NodeId
<1>3. ASSUME NEW n \in nodes
      PROVE  /\ Packed[n] = Cardinality(Upto(n)) /\ IsFiniteSet(Upto(n))
             /\ Cardinality(Upto(n)) \in 1 .. Cardinality(nodes)
  <2>1. Packed[n] = Cardinality(Upto(n))
      BY <1>2 DEF Packed
  <2>2. /\ IsFiniteSet(Upto(n)) /\ Cardinality(Upto(n)) \in Nat
        /\ Cardinality(Upto(n)) <= Cardinality(nodes)
      BY <1>1, FS_Subset, FS_CardinalityType
  <2>3. Cardinality(Upto(n)) # 0
    <3>1. n \in Upto(n)
        BY <1>2
    <3>. QED
        BY <2>2, <3>1, FS_EmptySet
  <2>. HIDE DEF Upto
  <2>. QED
      BY <1>1, <2>1, <2>2, <2>3
<1>4. ASSUME NEW n \in nodes, NEW k \in nodes, k < n
      PROVE  Packed[k] # Packed[n]
  <2>1. Upto(k) \subseteq Upto(n) /\ n \in Upto(n) /\ n \notin Upto(k)
    <3>1. n \in Int /\ k \in Int /\ ~ (n <= k) /\ n <= n
        BY <1>2, <1>4
    <3>2. \A m \in nodes : m <= k => m <= n
        BY <1>2, <1>4, <3>1
    <3>. QED
        BY <3>1, <3>2
  <2>2. Upto(k) # Upto(n)
      BY <2>1
  <2>. HIDE DEF Upto
  <2>3. Cardinality(Upto(k)) # Cardinality(Upto(n))
      BY <1>3, <2>1, <2>2, FS_Subset
  <2>. QED
      BY <1>3, <2>3
<1>5. \A n, k \in nodes : n = k \/ n < k \/ k < n
    BY <1>2
<1>. HIDE DEF Upto
<1>6. \A n \in nodes : Packed[n] \in 1 .. Cardinality(nodes)
    BY <1>3
<1>7. ASSUME NEW n \in nodes, NEW k \in nodes, Packed[n] = Packed[k]
      PROVE  n = k
    BY <1>4, <1>5, <1>7
<1>. QED
    BY <1>6, <1>7

LEMMA AddNodeInv ==
    ASSUME Inv, NEW l \in Label, NEW v \in Value, AddNode(l, v)
    PROVE  Inv'
<1>1. /\ nodeSeq \in 0 .. MaxNode /\ nodeSeq' = nodeSeq + 1
      /\ nodeSeq' \in 0 .. MaxNode /\ nodeSeq' \in NodeId
    BY MaxNodeOK DEF MaxNodeOK, Inv, TypeOK, AddNode, NodeId
<1>2. /\ label' = [label EXCEPT ![nodeSeq'] = l]
      /\ name' = [name EXCEPT ![nodeSeq'] = v]
    BY <1>1 DEF AddNode
<1>3. /\ label' \in [NodeId -> Label \cup {None}]
      /\ name' \in [NodeId -> Value \cup {None}]
    BY <1>2 DEF Inv, TypeOK
<1>4. \A n \in 1 .. nodeSeq : label'[n] = label[n] /\ name'[n] = name[n]
    BY <1>1, <1>2 DEF Inv, TypeOK, NodeId
<1>5. name'[nodeSeq'] = v
    BY <1>1, <1>2 DEF Inv, TypeOK
<1>6. /\ nodes' \in SUBSET (1 .. nodeSeq') /\ pending' \in SUBSET (1 .. nodeSeq')
      /\ missed' \in SUBSET (1 .. nodeSeq')
    BY <1>1 DEF Inv, TypeOK, AddNode
<1>7. \A n \in 1 .. nodeSeq' : n = nodeSeq' \/ n \in 1 .. nodeSeq
    BY <1>1
<1>8. \A n \in 1 .. nodeSeq' : name'[n] \in Value
    BY <1>4, <1>5, <1>7 DEF Inv, TypeOK
<1>13. nodes' = nodes \cup {nodeSeq'} /\ nodes \subseteq NodeId /\ nodeSeq' \notin nodes
  <2>1. nodes \subseteq 1 .. nodeSeq /\ nodes' = nodes \cup {nodeSeq + 1}
      BY DEF Inv, TypeOK, AddNode
  <2>. QED
      BY <1>1, <2>1, MaxNodeOK DEF MaxNodeOK, NodeId
<1>14. /\ Cardinality(nodes) \in Nat
       /\ Cardinality(nodes') = Cardinality(nodes) + 1
    BY <1>13, Counted, FS_AddElement
<1>15. /\ place' \in [NodeId -> Nat] /\ filled' \in Nat /\ Placed'
       /\ query' = [s \in Reader |-> query'[s]]
       /\ \A s \in Reader : query'[s] = query[s]
              \/ (query[s].pc = "scan" /\ query' = Moved(Packed)
                    /\ \A n \in nodes : place'[n] = Packed[n])
       /\ \A s \in Reader : query[s].pc = "scan" /\ query'[s] = query[s] =>
              (\A n \in nodes : place'[n] = place[n])
              \/ (query' = Moved(Packed) /\ \A n \in nodes : place'[n] = Packed[n])
  <2>1. CASE /\ filled' = filled + 1
             /\ place' = [place EXCEPT ![nodeSeq + 1] = filled + 1]
             /\ UNCHANGED query
    <3>1. /\ place' \in [NodeId -> Nat] /\ filled' \in Nat
          /\ place'[nodeSeq'] = filled'
          /\ \A n \in nodes : place'[n] = place[n]
        BY <1>1, <1>13, <2>1 DEF Inv, TypeOK
    <3>2. Placed'
      <4>1. \A n \in nodes : place'[n] > 0 /\ place'[n] < filled' /\ place'[n] <= filled'
          BY <1>13, <2>1, <3>1 DEF Inv, TypeOK, Placed
      <4>2. filled' > 0
          BY <2>1 DEF Inv, TypeOK
      <4>3. \A n \in nodes' : place'[n] > 0 /\ place'[n] <= filled'
          BY <1>13, <3>1, <4>1, <4>2
      <4>4. \A n, k \in nodes' : place'[n] = place'[k] => n = k
          BY <1>13, <3>1, <4>1 DEF Inv, Placed
      <4>. QED
          BY <4>3, <4>4 DEF Placed
    <3>. QED
        BY <2>1, <3>1, <3>2 DEF Inv, TypeOK
  <2>2. CASE /\ filled' = Cardinality(nodes) + 1
             /\ place' = [Packed EXCEPT ![nodeSeq + 1] = Cardinality(nodes) + 1]
             /\ query' = Moved(Packed)
    <3>1. \A n \in NodeId : place'[n] = IF n = nodeSeq' THEN filled' ELSE Packed[n]
        BY <1>1, <2>2 DEF Packed
    <3>2. \A n \in nodes : place'[n] = Packed[n] /\ place'[n] > 0 /\ place'[n] < filled'
        BY <1>13, <1>14, <2>2, <3>1, Ranked
    <3>3. place'[nodeSeq'] = filled' /\ filled' \in Nat /\ filled' > 0
        BY <1>1, <1>14, <2>2, <3>1
    <3>4. place' \in [NodeId -> Nat]
      <4>1. place' = [n \in NodeId |-> place'[n]]
          BY <2>2 DEF Packed
      <4>2. ASSUME NEW n \in NodeId PROVE place'[n] \in Nat
        <5>1. CASE n \in nodes
            BY <1>14, <3>2, <5>1, Ranked
        <5>2. CASE n = nodeSeq'
            BY <3>3, <5>2
        <5>3. CASE n \notin nodes /\ n # nodeSeq'
          <6>1. place'[n] = 0
              BY <3>1, <5>3, Zenon DEF Packed
          <6>. QED
              BY <6>1
        <5>. QED
            BY <5>1, <5>2, <5>3
      <4>. QED
          BY <4>1, <4>2
    <3>5. Placed'
      <4>1. \A n \in nodes' : place'[n] > 0 /\ place'[n] <= filled'
          BY <1>13, <3>2, <3>3, <3>4
      <4>2. \A n, k \in nodes' : place'[n] = place'[k] => n = k
          BY <1>13, <3>2, <3>3, <3>4, Ranked
      <4>. QED
          BY <4>1, <4>2 DEF Placed
    <3>6. \A s \in Reader : query[s].pc # "scan" => query'[s] = query[s]
        BY <2>2 DEF Moved
    <3>7. query' = [s \in Reader |-> query'[s]]
        BY <2>2 DEF Moved
    <3>. QED
        BY <2>2, <3>2, <3>3, <3>4, <3>5, <3>6, <3>7
  <2>. QED
      BY <2>1, <2>2 DEF AddNode
<1>9. ASSUME NEW r \in Reader
      PROVE  /\ query'[r] \in Query
             /\ InHand(query[r])' /\ InSight(query[r])' /\ Grows(query[r])'
  <2>. DEFINE q == query[r]
              back == {n \in q.due \cap Ahead(r) : Packed[n] <= q.at}
  <2>1. q \in Query
      BY DEF Inv, TypeOK
  <2>2. \A n \in nodes : place'[n] > 0
      BY <1>13, <1>15 DEF Placed
  <2>3. nodeSeq' \in Nat /\ nodeSeq <= nodeSeq' /\ nodes \subseteq nodes'
      BY <1>1, <1>13
  <2>4. CASE /\ q.pc = "scan" /\ query' = Moved(Packed)
             /\ \A n \in nodes : place'[n] = Packed[n]
    <3>1. query'[r] = [q EXCEPT !.skipped = q.skipped \cup back]
        BY <2>4 DEF Moved
    <3>2. q.skipped \cup back \in SUBSET NodeId /\ q.skipped \subseteq q.skipped \cup back
        BY <1>13, <2>1 DEF Query, Ahead
    <3>3. ASSUME NEW n \in q.due \cap nodes, place[n] > q.at
          PROVE  place'[n] > q.at \/ n \in q.skipped \cup back
      <4>1. n \in Ahead(r)
          BY <3>3 DEF Ahead
      <4>2. place'[n] \in Nat /\ q.at \in Nat
          BY <1>13, <1>15, <2>1 DEF Query
      <4>3. place'[n] > q.at \/ Packed[n] <= q.at
          BY <2>4, <4>2
      <4>. QED
          BY <4>1, <4>3
    <3>. HIDE DEF back
    <3>. QED
        BY <1>4, <1>14, <2>2, <2>3, <2>4, <3>1, <3>2, <3>3, MovedKeeps
  <2>5. CASE /\ query'[r] = q
             /\ q.pc = "scan" => \A n \in nodes : place'[n] = place[n]
    <3>1. query'[r] = [q EXCEPT !.skipped = q.skipped]
        BY <2>1, <2>5 DEF Query
    <3>2. q.skipped \in SUBSET NodeId
        BY <2>1 DEF Query
    <3>3. q.pc = "scan" =>
              \A n \in q.due \cap nodes :
                 place[n] > q.at => place'[n] > q.at \/ n \in q.skipped
        BY <2>5
    <3>. QED
        BY <1>4, <1>14, <2>2, <2>3, <3>1, <3>2, <3>3, MovedKeeps
  <2>. QED
      BY <1>15, <2>4, <2>5
<1>16. /\ query' \in [Reader -> Query]
       /\ \A r \in Reader : InHand(query[r])' /\ InSight(query[r])' /\ Grows(query[r])'
    BY <1>9, <1>15
<1>10. TypeOK'
    BY <1>1, <1>3, <1>6, <1>8, <1>15, <1>16 DEF Inv, TypeOK, AddNode
<1>11. ItemsRight'
  <2>1. ASSUME NEW w \in Value, NEW n \in items[w]
        PROVE  n <= nodeSeq' /\ name'[n] = w
    <3>1. n \in NodeId /\ n <= nodeSeq /\ name[n] = w
        BY DEF Inv, TypeOK, ItemsRight
    <3>2. n \in 1 .. nodeSeq
        BY <1>1, <3>1 DEF NodeId
    <3>. QED
        BY <1>1, <1>4, <3>1, <3>2
  <2>. QED
      BY <2>1 DEF ItemsRight, AddNode
<1>12. Indexed'
  <2>1. ASSUME NEW n \in 1 .. nodeSeq', n \notin pending', n \notin missed'
        PROVE  hasIndex /\ n \in items[name'[n]]
    <3>1. n # nodeSeq'
        BY <1>1, <2>1 DEF AddNode
    <3>2. n \in 1 .. nodeSeq /\ n \notin pending /\ n \notin missed
        BY <1>7, <2>1, <3>1 DEF AddNode
    <3>. QED
        BY <1>4, <3>2 DEF Inv, Indexed
  <2>. QED
      BY <2>1 DEF Indexed, AddNode
<1>. QED
    BY <1>10, <1>11, <1>12, <1>15, <1>16 DEF Inv

LEMMA DeleteNodeInv ==
    ASSUME Inv, NEW n \in NodeId, DeleteNode(n)
    PROVE  Inv'
<1>1. /\ query' \in [Reader -> Query]
      /\ \A r \in Reader : InHand(query[r])' /\ InSight(query[r])' /\ Grows(query[r])'
  <2>1. query' = [r \in Reader |-> query'[r]]
      BY DEF DeleteNode, Without
  <2>. QED
      BY <2>1, WithoutKeeps
<1>2. TypeOK'
  <2>1. place' \in [NodeId -> Nat]
      BY DEF DeleteNode, Inv, TypeOK
  <2>. QED
      BY <1>1, <2>1 DEF Inv, TypeOK, DeleteNode, index
<1>3. ItemsRight' /\ Indexed'
    BY DEF Inv, ItemsRight, Indexed, DeleteNode, index
<1>4. Placed'
  <2>1. \A k \in nodes' : k \in nodes /\ place'[k] = place[k]
      BY DEF DeleteNode, Inv, TypeOK, NodeId
  <2>. QED
      BY <2>1 DEF Inv, Placed, DeleteNode
<1>. QED
    BY <1>1, <1>2, <1>3, <1>4 DEF Inv

\* A step of the index alone leaves the queries in order.
LEMMA IndexKeeps ==
    ASSUME Inv, UNCHANGED <<store, query>>,
           pending' \in SUBSET (1 .. nodeSeq), missed' \in SUBSET (1 .. nodeSeq),
           hasIndex' \in BOOLEAN, items' \in [Value -> SUBSET NodeId],
           ItemsRight', Indexed'
    PROVE  Inv'
<1>1. TypeOK' /\ Placed'
    BY DEF Inv, TypeOK, Placed, store
<1>2. \A r \in Reader : InHand(query[r])' /\ InSight(query[r])' /\ Grows(query[r])'
    BY DEF Inv, InHand, InSight, Grows, Fits, LabelFits, store
<1>. QED
    BY <1>1, <1>2 DEF Inv

LEMMA OnNodeCreatedInv ==
    ASSUME Inv, NEW n \in NodeId, OnNodeCreated(n)
    PROVE  Inv'
<1>1. /\ n \in pending /\ pending' = pending \ {n}
      /\ n \in 1 .. nodeSeq /\ n <= nodeSeq /\ name[n] \in Value
      /\ hasIndex' = hasIndex /\ UNCHANGED <<store, query>>
    BY MaxNodeOK DEF MaxNodeOK, Inv, TypeOK, OnNodeCreated
<1>2. nodeSeq' = nodeSeq /\ name' = name
    BY <1>1 DEF store
<1>3. CASE hasIndex
  <2>1. items' = [items EXCEPT ![name[n]] = @ \cup {n}] /\ missed' = missed
      BY <1>3 DEF OnNodeCreated, Added
  <2>2. \A v \in Value :
            items'[v] = IF v = name[n] THEN items[v] \cup {n} ELSE items[v]
      BY <2>1 DEF Inv, TypeOK
  <2>3. items' \in [Value -> SUBSET NodeId]
      BY <1>1, <2>1 DEF Inv, TypeOK
  <2>4. ItemsRight'
    <3>1. ASSUME NEW v \in Value, NEW k \in items'[v]
          PROVE  k <= nodeSeq /\ name[k] = v
      <4>1. k \in items[v] \/ (k = n /\ v = name[n])
          BY <2>2, <3>1
      <4>. QED
          BY <1>1, <4>1 DEF Inv, ItemsRight
    <3>. QED
        BY <1>2, <3>1 DEF ItemsRight
  <2>5. Indexed'
    <3>1. ASSUME NEW k \in 1 .. nodeSeq, k \notin pending', k \notin missed'
          PROVE  hasIndex' /\ k \in items'[name[k]]
      <4>1. name[k] \in Value
          BY DEF Inv, TypeOK
      <4>2. CASE k = n
          BY <1>1, <1>3, <2>2, <4>2
      <4>3. CASE k # n
        <5>1. k \in items[name[k]]
            BY <1>1, <2>1, <3>1, <4>3 DEF Inv, Indexed
        <5>. QED
            BY <1>1, <1>3, <2>2, <4>1, <5>1
      <4>. QED
          BY <4>2, <4>3
    <3>. QED
        BY <1>2, <3>1 DEF Indexed
  <2>. QED
      BY <1>1, <2>1, <2>3, <2>4, <2>5, IndexKeeps DEF Inv, TypeOK
<1>4. CASE ~hasIndex
  <2>1. items' = items /\ missed' = missed \cup {n}
      BY <1>4 DEF OnNodeCreated
  <2>2. ItemsRight'
      BY <1>2, <2>1 DEF Inv, ItemsRight
  <2>3. \A k \in 1 .. nodeSeq : k \in pending \/ k \in missed
      BY <1>4 DEF Inv, Indexed
  <2>4. Indexed'
      BY <1>1, <1>2, <2>1, <2>3 DEF Indexed
  <2>5. missed' \in SUBSET (1 .. nodeSeq)
      BY <1>1, <2>1 DEF Inv, TypeOK
  <2>. QED
      BY <1>1, <2>1, <2>2, <2>4, <2>5, IndexKeeps DEF Inv, TypeOK
<1>. QED
    BY <1>3, <1>4

LEMMA CreateIndexInv == Inv /\ CreateIndex => Inv'
<1>. SUFFICES ASSUME Inv, CreateIndex PROVE Inv'
    OBVIOUS
<1>1. nodeSeq' = nodeSeq /\ name' = name /\ UNCHANGED <<store, query>>
    BY DEF CreateIndex, store
<1>2. items' \in [Value -> SUBSET NodeId] /\ hasIndex' \in BOOLEAN
    BY DEF CreateIndex, NoItems
<1>3. ItemsRight'
    BY DEF CreateIndex, NoItems, ItemsRight
<1>4. Indexed'
    BY <1>1 DEF CreateIndex, Inv, Indexed
<1>. QED
    BY <1>1, <1>2, <1>3, <1>4, IndexKeeps DEF CreateIndex, Inv, TypeOK

LEMMA DropIndexInv == Inv /\ DropIndex => Inv'
<1>. SUFFICES ASSUME Inv, DropIndex PROVE Inv'
    OBVIOUS
<1>1. nodeSeq' = nodeSeq /\ name' = name /\ UNCHANGED <<store, query>>
    BY DEF DropIndex, store
<1>2. items' \in [Value -> SUBSET NodeId] /\ hasIndex' \in BOOLEAN
    BY DEF DropIndex, NoItems
<1>3. ItemsRight'
    BY DEF DropIndex, NoItems, ItemsRight
<1>4. missed' \in SUBSET (1 .. nodeSeq)
    BY DEF DropIndex
<1>5. Indexed'
    BY <1>1 DEF DropIndex, Indexed
<1>. QED
    BY <1>1, <1>2, <1>3, <1>4, <1>5, IndexKeeps DEF DropIndex, Inv, TypeOK

-----------------------------------------------------------------------------
(* The steps of a reader. *)

LEMMA RefuseInv ==
    ASSUME Inv, NEW r \in Reader, Refuse(r)
    PROVE  Inv'
<1>. DEFINE q == [query[r] EXCEPT !.pc = "SyntaxError"]
<1>1. query[r] \in Query /\ InHand(query[r])
    BY DEF Inv, TypeOK
<1>2. query' = [query EXCEPT ![r] = q] /\ UNCHANGED <<store, index>>
    BY DEF Refuse
<1>3. q \in Query
    BY <1>1 DEF Query, Pc, Errors
<1>4. /\ q.pc = "SyntaxError" /\ q.label = query[r].label /\ q.value = query[r].value
      /\ q.candidates = query[r].candidates /\ q.results = query[r].results
      /\ q.due = query[r].due
    BY <1>1 DEF Query
<1>. HIDE DEF q
<1>5. InHand(q)
    BY <1>1, <1>4 DEF InHand, Fits, LabelFits
<1>6. InSight(q) /\ Grows(q)
    BY <1>4 DEF InSight, Grows
<1>. QED
    BY <1>2, <1>3, <1>5, <1>6, ReaderKeeps

LEMMA SearchInv ==
    ASSUME Inv, NEW r \in Reader, NEW ask \in Understood, Search(r, ask)
    PROVE  Inv'
<1>. DEFINE asked == hasIndex /\ ask.value # None /\ ask.of = ask.variable
            hits  == IF asked THEN items[ask.value] ELSE {}
            p     == [NoQuery EXCEPT !.label = ask.label, !.value = ask.value]
            due   == {n \in nodes \ pending : Fits(p, n)}
            late  == IF hasIndex THEN due \cap missed ELSE {}
            pc    == IF hits = {} THEN "plan" ELSE "fetch"
            q     == [p EXCEPT !.pc = pc, !.candidates = hits, !.due = due, !.late = late]
<1>1. query' = [query EXCEPT ![r] = q] /\ UNCHANGED <<store, index>>
    BY DEF Search
<1>2. ask.label \in Label \cup {None} /\ ask.value \in Value \cup {None}
    BY TextsOK DEF TextsOK
<1>0. /\ p \in Query /\ p.label = ask.label /\ p.value = ask.value
      /\ p.at = 0 /\ p.results = {} /\ p.skipped = {}
  <2>2. NoQuery \in Query
      BY Idle DEF NoQuery
  <2>3. NoQuery.at = 0 /\ NoQuery.results = {} /\ NoQuery.skipped = {}
      BY DEF NoQuery, Blank
  <2>. QED
      BY <1>2, <2>2, <2>3 DEF Query
<1>3. \A n \in due : /\ n \in nodes /\ n \notin pending
                     /\ ask.label \in {None, label[n]} /\ ask.value \in {None, name[n]}
    BY <1>0 DEF Fits, LabelFits
<1>4. nodes \subseteq NodeId /\ nodes \subseteq 1 .. nodeSeq /\ nodeSeq \in Nat
    BY MaxNodeOK DEF MaxNodeOK, Inv, TypeOK, NodeId
<1>5. hits # {} => asked /\ hits = items[ask.value] /\ ask.value \in Value
    BY <1>2
<1>6. hits \in SUBSET NodeId
    BY <1>5 DEF Inv, TypeOK
<1>7. due \in SUBSET NodeId /\ late \in SUBSET NodeId
    BY <1>4
<1>8. pc \in Pc /\ 0 \in Nat /\ {} \in SUBSET NodeId
    BY DEF Pc
<1>9. asked => hasIndex /\ late = due \cap missed
    OBVIOUS
<1>10. pc \in {"plan", "fetch"} /\ (pc = "plan" <=> hits = {})
    OBVIOUS
<1>14. \A n \in due : n \in 1 .. nodeSeq /\ n <= nodeSeq /\ place[n] > 0
    BY <1>4 DEF Inv, Placed
<1>. HIDE DEF asked, hits, due, late, pc, p
<1>11. /\ q \in Query /\ q.pc = pc /\ q.label = ask.label /\ q.value = ask.value
       /\ q.at = 0 /\ q.candidates = hits /\ q.results = {} /\ q.due = due
       /\ q.late = late /\ q.skipped = {}
    BY <1>0, <1>6, <1>7, <1>8 DEF Query
<1>. HIDE DEF q
<1>12. InHand(q)
  <2>1. ASSUME NEW n \in hits PROVE n <= nodeSeq /\ ask.value = name[n]
      BY <1>5 DEF Inv, ItemsRight
  <2>2. ASSUME NEW n \in due
        PROVE  /\ n <= nodeSeq /\ ask.label \in {None, label[n]}
               /\ ask.value \in {None, name[n]}
      BY <1>3, <1>14
  <2>3. due \subseteq nodes
      BY <1>3
  <2>. QED
      BY <1>11, <2>1, <2>2, <2>3 DEF InHand, Fits, LabelFits
<1>13. InSight(q)
  <2>1. \A n \in due : place[n] > 0
      BY <1>14
  <2>2. ASSUME pc = "fetch", NEW n \in due \ late
        PROVE  n \in hits
    <3>1. asked /\ hits = items[ask.value] /\ ask.value \in Value
        BY <1>5, <1>10, <2>2
    <3>2. n \in 1 .. nodeSeq /\ n \notin pending /\ n \notin missed
        BY <1>3, <1>4, <1>9, <2>2, <3>1
    <3>3. n \in items[name[n]]
        BY <3>2 DEF Inv, Indexed
    <3>4. ask.value = name[n]
        BY <1>3, <2>2, <3>1, TokensOK DEF TokensOK
    <3>. QED
        BY <3>1, <3>3, <3>4
  <2>. QED
      BY <1>10, <1>11, <2>1, <2>2 DEF InSight
<1>15. Grows(q)
    BY <1>10, <1>11 DEF Grows
<1>. QED
    BY <1>1, <1>11, <1>12, <1>13, <1>15, ReaderKeeps

LEMMA StartScanInv ==
    ASSUME Inv, NEW r \in Reader, StartScan(r)
    PROVE  Inv'
<1>. DEFINE q == [query[r] EXCEPT !.pc = "scan", !.size = Cardinality(nodes),
                                  !.left = Cardinality(nodes)]
<1>1. query[r] \in Query /\ InHand(query[r]) /\ InSight(query[r]) /\ Grows(query[r])
    BY DEF Inv, TypeOK
<1>2. /\ query' = [query EXCEPT ![r] = q] /\ UNCHANGED <<store, index>>
      /\ query[r].pc = "plan"
    BY <1>1 DEF StartScan, Inv, TypeOK
<1>3. Cardinality(nodes) \in Nat /\ Cardinality(nodes) \in Int
    BY Counted
<1>4. q \in Query
    BY <1>1, <1>3 DEF Query, Pc
<1>5. /\ q.pc = "scan" /\ q.label = query[r].label /\ q.value = query[r].value
      /\ q.candidates = query[r].candidates /\ q.results = query[r].results
      /\ q.due = query[r].due /\ q.at = query[r].at
      /\ q.skipped = query[r].skipped /\ q.size = Cardinality(nodes)
    BY <1>1 DEF Query
<1>. HIDE DEF q
<1>6. InHand(q) /\ InSight(q)
    BY <1>1, <1>2, <1>5 DEF InHand, InSight, Fits, LabelFits
<1>7. Grows(q)
    BY <1>1, <1>2, <1>3, <1>5 DEF Grows
<1>. QED
    BY <1>2, <1>4, <1>6, <1>7, ReaderKeeps

LEMMA ScanNodeInv ==
    ASSUME Inv, NEW r \in Reader, ScanNode(r)
    PROVE  Inv'
<1>1. query[r] \in Query /\ InHand(query[r]) /\ InSight(query[r]) /\ Grows(query[r])
    BY DEF Inv, TypeOK
<1>2. PICK n \in Ahead(r) :
          /\ \A k \in Ahead(r) : place[n] <= place[k]
          /\ query' = [query EXCEPT
                          ![r].at = place[n],
                          ![r].left = @ - 1,
                          ![r].candidates =
                              IF Fits(query[r], n) THEN @ \cup {n} ELSE @]
    BY DEF ScanNode
<1>. DEFINE found == IF Fits(query[r], n) THEN query[r].candidates \cup {n}
                     ELSE query[r].candidates
            q     == [query[r] EXCEPT !.at = place[n], !.left = query[r].left - 1,
                                      !.candidates = found]
<1>3. /\ n \in nodes /\ n \in NodeId /\ n <= nodeSeq /\ nodes \subseteq NodeId
      /\ place[n] \in Nat
    BY MaxNodeOK DEF MaxNodeOK, Ahead, Inv, TypeOK, NodeId
<1>4. query' = [query EXCEPT ![r] = q] /\ UNCHANGED <<store, index>>
      /\ query[r].pc = "scan"
    BY <1>1, <1>2 DEF ScanNode, Inv, TypeOK
<1>5. found \in SUBSET NodeId /\ query[r].left - 1 \in Int
    BY <1>1, <1>3 DEF Query
<1>6. \A m \in found : m \in query[r].candidates \/ (m = n /\ Fits(query[r], n))
    OBVIOUS
<1>7. query[r].candidates \subseteq found /\ (Fits(query[r], n) => n \in found)
    OBVIOUS
<1>. HIDE DEF found
<1>8. /\ q \in Query /\ q.pc = "scan" /\ q.label = query[r].label
      /\ q.value = query[r].value /\ q.results = query[r].results
      /\ q.candidates = found /\ q.due = query[r].due /\ q.at = place[n]
      /\ q.size = query[r].size /\ q.skipped = query[r].skipped /\ q.cut = query[r].cut
    BY <1>1, <1>3, <1>4, <1>5 DEF Query
<1>. HIDE DEF q
<1>9. InHand(q)
  <2>1. ASSUME NEW m \in found PROVE m <= nodeSeq /\ query[r].value \in {None, name[m]}
      BY <1>1, <1>3, <1>6 DEF InHand, Fits
  <2>. QED
      BY <1>1, <1>4, <1>8, <2>1 DEF InHand, Fits, LabelFits
<1>10. InSight(q)
  <2>1. ASSUME NEW m \in query[r].due
        PROVE  m \in found \/ m \in query[r].skipped \/ place[m] > place[n]
    <3>1. m \in nodes /\ Fits(query[r], m) /\ place[m] \in Nat
        BY <1>1, <1>3, <1>4 DEF InHand, Inv, TypeOK
    <3>2. m \in query[r].candidates \/ m \in query[r].skipped \/ m \in Ahead(r)
        BY <1>1, <1>4, <3>1 DEF InSight, Ahead
    <3>3. m \in query[r].candidates \/ m \in query[r].skipped \/ place[n] <= place[m]
        BY <1>2, <3>2
    <3>4. place[m] = place[n] => m = n
        BY <1>3, <3>1 DEF Inv, Placed
    <3>. QED
        BY <1>3, <1>7, <3>1, <3>3, <3>4
  <2>. QED
      BY <1>8, <2>1 DEF InSight
<1>11. Grows(q)
    BY <1>1, <1>4, <1>8 DEF Grows
<1>. QED
    BY <1>4, <1>8, <1>9, <1>10, <1>11, ReaderKeeps

LEMMA EndScanInv ==
    ASSUME Inv, NEW r \in Reader, EndScan(r)
    PROVE  Inv'
<1>. DEFINE q == [query[r] EXCEPT !.pc = "fetch", !.at = 0, !.size = 0, !.left = 0]
<1>1. query[r] \in Query /\ InHand(query[r]) /\ InSight(query[r]) /\ Grows(query[r])
    BY DEF Inv, TypeOK
<1>2. /\ query' = [query EXCEPT ![r] = q] /\ UNCHANGED <<store, index>>
      /\ query[r].pc = "scan" /\ Ahead(r) = {} /\ Cardinality(nodes) = query[r].size
    BY <1>1 DEF EndScan, Unchanged, Inv, TypeOK
<1>3. /\ q \in Query /\ q.pc = "fetch" /\ q.label = query[r].label
      /\ q.value = query[r].value /\ q.results = query[r].results
      /\ q.candidates = query[r].candidates /\ q.due = query[r].due
      /\ q.skipped = query[r].skipped /\ q.cut = query[r].cut
  <2>1. "fetch" \in Pc /\ 0 \in Nat /\ 0 \in Int
      BY DEF Pc
  <2>. QED
      BY <1>1, <2>1 DEF Query
<1>. HIDE DEF q
<1>4. InHand(q)
    BY <1>1, <1>2, <1>3 DEF InHand, Fits, LabelFits
<1>5. InSight(q)
  <2>1. ASSUME NEW m \in query[r].due
        PROVE  m \in query[r].candidates \/ m \in query[r].skipped
    <3>1. m \in nodes
        BY <1>1, <1>2 DEF InHand
    <3>. QED
        BY <1>1, <1>2, <3>1 DEF InSight, Ahead
  <2>. QED
      BY <1>3, <2>1 DEF InSight
<1>6. Grows(q)
  <2>1. ~ (query[r].size < Cardinality(nodes))
      BY <1>2, Counted
  <2>. QED
      BY <1>1, <1>2, <1>3, <2>1 DEF Grows
<1>. QED
    BY <1>2, <1>3, <1>4, <1>5, <1>6, ReaderKeeps

\* An error, or the next query, leaves nothing of the query behind.
LEMMA IdleInv ==
    ASSUME Inv, UNCHANGED <<store, index>>, NEW r \in Reader,
           NEW pc \in {"idle"} \cup Errors,
           query' = [query EXCEPT ![r] = Blank(pc)]
    PROVE  Inv'
<1>. DEFINE q == Blank(pc)
<1>1. q \in Query /\ InHand(q) /\ InSight(q) /\ Grows(q)
    BY Idle
<1>2. query' = [query EXCEPT ![r] = q]
    OBVIOUS
<1>. HIDE DEF q
<1>. QED
    BY <1>1, <1>2, ReaderKeeps

LEMMA ScanRaisesInv ==
    ASSUME Inv, NEW r \in Reader, ScanRaises(r)
    PROVE  Inv'
BY IdleInv DEF ScanRaises, Errors

LEMMA ResetInv ==
    ASSUME Inv, NEW r \in Reader, Reset(r)
    PROVE  Inv'
BY IdleInv DEF Reset, NoQuery

LEMMA FetchInv ==
    ASSUME Inv, NEW r \in Reader, Fetch(r)
    PROVE  Inv'
<1>1. query[r] \in Query /\ InHand(query[r]) /\ InSight(query[r]) /\ Grows(query[r])
    BY DEF Inv, TypeOK
<1>2. PICK n \in query[r].candidates :
          query' = [query EXCEPT ![r] =
              IF n \in nodes
              THEN [query[r] EXCEPT !.candidates = @ \ {n}, !.results = @ \cup {n}]
              ELSE Blank("NodeNotFoundError")]
    BY DEF Fetch
<1>3. UNCHANGED <<store, index>> /\ query[r].pc = "fetch"
    BY DEF Fetch
<1>4. CASE n \in nodes
  <2>. DEFINE q == [query[r] EXCEPT !.candidates = query[r].candidates \ {n},
                                    !.results = query[r].results \cup {n}]
  <2>1. query' = [query EXCEPT ![r] = q]
    <3>1. query' = [query EXCEPT ![r] =
                       IF n \in nodes THEN q ELSE Blank("NodeNotFoundError")]
        BY <1>2
    <3>. HIDE DEF q
    <3>. QED
        BY <1>4, <3>1
  <2>2. n \in NodeId
      BY <1>1 DEF Query
  <2>3. /\ q \in Query /\ q.pc = "fetch" /\ q.label = query[r].label
        /\ q.value = query[r].value /\ q.due = query[r].due /\ q.late = query[r].late
        /\ q.candidates \cup q.results = query[r].candidates \cup query[r].results
        /\ q.skipped = query[r].skipped /\ q.cut = query[r].cut
      BY <1>1, <1>3, <2>2 DEF Query
  <2>. HIDE DEF q
  <2>4. InHand(q)
      BY <1>1, <1>3, <2>3 DEF InHand, Fits, LabelFits
  <2>5. InSight(q) /\ Grows(q)
      BY <1>1, <1>3, <2>3 DEF InSight, Grows
  <2>. QED
      BY <1>3, <2>1, <2>3, <2>4, <2>5, ReaderKeeps
<1>5. CASE n \notin nodes
    BY <1>2, <1>3, <1>5, IdleInv DEF Errors
<1>. QED
    BY <1>4, <1>5

LEMMA ReturnInv ==
    ASSUME Inv, NEW r \in Reader, Return(r)
    PROVE  Inv'
<1>. DEFINE q == [query[r] EXCEPT !.pc = "done"]
<1>1. query[r] \in Query /\ InHand(query[r]) /\ InSight(query[r]) /\ Grows(query[r])
    BY DEF Inv, TypeOK
<1>2. /\ query' = [query EXCEPT ![r] = q] /\ UNCHANGED <<store, index>>
      /\ query[r].pc = "fetch" /\ query[r].candidates = {}
    BY <1>1 DEF Return, Inv, TypeOK
<1>3. /\ q \in Query /\ q.pc = "done" /\ q.label = query[r].label
      /\ q.value = query[r].value /\ q.results = query[r].results /\ q.candidates = {}
      /\ q.due = query[r].due /\ q.late = query[r].late
      /\ q.skipped = query[r].skipped /\ q.cut = query[r].cut
    BY <1>1, <1>2 DEF Query, Pc
<1>. HIDE DEF q
<1>4. InHand(q)
    BY <1>1, <1>2, <1>3 DEF InHand, Fits, LabelFits
<1>5. InSight(q) /\ Grows(q)
    BY <1>1, <1>2, <1>3 DEF InSight, Grows
<1>. QED
    BY <1>2, <1>3, <1>4, <1>5, ReaderKeeps

-----------------------------------------------------------------------------

LEMMA InvNext == Inv /\ [Next]_vars => Inv'
<1>. SUFFICES ASSUME Inv, [Next]_vars PROVE Inv'
    OBVIOUS
<1>1. CASE \E l \in Label, v \in Value : AddNode(l, v)
    BY <1>1, AddNodeInv
<1>2. CASE \E n \in NodeId : DeleteNode(n) \/ OnNodeCreated(n)
    BY <1>2, DeleteNodeInv, OnNodeCreatedInv
<1>3. CASE CreateIndex \/ DropIndex
    BY <1>3, CreateIndexInv, DropIndexInv
<1>4. CASE \E r \in Reader : Execute(r)
  <2>. SUFFICES ASSUME NEW r \in Reader, Execute(r) PROVE Inv'
      BY <1>4
  <2>1. CASE \E ask \in Understood : Search(r, ask)
      BY <2>1, SearchInv
  <2>2. CASE Refuse(r) \/ StartScan(r) \/ ScanNode(r)
      BY <2>2, RefuseInv, StartScanInv, ScanNodeInv
  <2>3. CASE EndScan(r) \/ ScanRaises(r) \/ Reset(r)
      BY <2>3, EndScanInv, ScanRaisesInv, ResetInv
  <2>4. CASE Fetch(r) \/ Return(r)
      BY <2>4, FetchInv, ReturnInv
  <2>. QED
      BY <2>1, <2>2, <2>3, <2>4 DEF Execute
<1>5. CASE UNCHANGED vars
  <2>1. UNCHANGED <<store, query>> /\ UNCHANGED <<pending, hasIndex, items, missed>>
      BY <1>5 DEF vars, index
  <2>4. /\ pending \in SUBSET (1 .. nodeSeq) /\ missed \in SUBSET (1 .. nodeSeq)
        /\ hasIndex \in BOOLEAN /\ items \in [Value -> SUBSET NodeId]
      BY DEF Inv, TypeOK
  <2>2. nodeSeq' = nodeSeq /\ name' = name
      BY <2>1 DEF store
  <2>3. ItemsRight' /\ Indexed'
      BY <2>1, <2>2 DEF Inv, ItemsRight, Indexed
  <2>. QED
      BY <2>1, <2>3, <2>4, IndexKeeps
<1>. QED
    BY <1>1, <1>2, <1>3, <1>4, <1>5 DEF Next

LEMMA InvHolds == Spec => []Inv
<1>1. Init => Inv
    BY InvInit
<1>2. Inv /\ [Next]_vars => Inv'
    BY InvNext
<1>. QED
    BY <1>1, <1>2, PTL DEF Spec

\* A query that returns has every node that fits it and was in the store from its
\* start to its end: by the index, or by the scan that no hits lead to.  Left out are
\* only those the index was told of before it was there, and those that were ahead of
\* the scan when the dictionary was laid out anew and behind it afterwards, after
\* another node had been deleted under the scan (ExecutionEngine.execute over
\* GraphStorage.iter_nodes).
THEOREM IndexedFound == Spec => []FindsWhatIndexKnows
<1>1. ASSUME Inv, NEW r \in Reader, Done(r)
      PROVE  /\ query[r].due \ query[r].late \subseteq query[r].results \cup query[r].skipped
             /\ query[r].skipped # {} => query[r].cut
  <2>1. InSight(query[r]) /\ Grows(query[r]) /\ query[r].pc = "done"
      BY <1>1 DEF Inv, Done
  <2>. QED
      BY <2>1 DEF InSight, Grows
<1>2. Inv => FindsWhatIndexKnows
    BY <1>1 DEF FindsWhatIndexKnows
<1>. QED
    BY <1>2, InvHolds, PTL

\* Every node of an answer has the value that was asked for, whatever the writers
\* did to the store and to the index while the query ran.
THEOREM AnswersRight == Spec => []AnswersFitValue
<1>1. Inv => AnswersFitValue
    BY DEF Inv, InHand, AnswersFitValue, Done
<1>. QED
    BY <1>1, InvHolds, PTL

-----------------------------------------------------------------------------
(* The parser. *)

\* Two sequences, one behind the other.
LEMMA TwoParts ==
    ASSUME NEW S, NEW a \in Seq(S), NEW b \in Seq(S)
    PROVE  /\ a \o b \in Seq(S) /\ Len(a \o b) = Len(a) + Len(b)
           /\ \A i \in 1 .. Len(a) : (a \o b)[i] = a[i]
           /\ \A i \in 1 .. Len(b) : (a \o b)[Len(a) + i] = b[i]
<1>1. /\ a \o b \in Seq(S) /\ Len(a \o b) = Len(a) + Len(b)
      /\ \A i \in 1 .. Len(a) + Len(b) :
            (a \o b)[i] = IF i <= Len(a) THEN a[i] ELSE b[i - Len(a)]
    BY ConcatProperties, Zenon
<1>2. PICK w : w = a \o b
    OBVIOUS
<1>3. PICK m \in Nat, n \in Nat : m = Len(a) /\ n = Len(b)
    OBVIOUS
<1>4. \A i \in 1 .. m + n : w[i] = IF i <= m THEN a[i] ELSE b[i - m]
    BY <1>1, <1>2, <1>3, Zenon
<1>5. \A i \in 1 .. m : w[i] = a[i]
    BY <1>4
<1>6. ASSUME NEW i \in 1 .. n PROVE w[m + i] = b[i]
  <2>1. m + i \in 1 .. m + n /\ ~ (m + i <= m) /\ (m + i) - m = i
      OBVIOUS
  <2>2. w[m + i] = b[(m + i) - m]
      BY <1>4, <2>1, Zenon
  <2>. QED
      BY <2>1, <2>2
<1>. QED
    BY <1>1, <1>2, <1>3, <1>5, <1>6, Zenon

\* Five parts lie one behind the other.
HasParts(w, a, b, c, d, e, ab, abc, abcd) ==
    /\ Len(w) = abcd + Len(e)
    /\ \A i \in 1 .. Len(a) : w[i] = a[i]
    /\ \A i \in 1 .. Len(b) : w[Len(a) + i] = b[i]
    /\ \A i \in 1 .. Len(c) : w[ab + i] = c[i]
    /\ \A i \in 1 .. Len(d) : w[abc + i] = d[i]
    /\ \A i \in 1 .. Len(e) : w[abcd + i] = e[i]

LEMMA Concatenated ==
    ASSUME NEW S, NEW a \in Seq(S), NEW b \in Seq(S), NEW c \in Seq(S), NEW d \in Seq(S),
           NEW e \in Seq(S), NEW ab \in Nat, ab = Len(a) + Len(b),
           NEW abc \in Nat, abc = ab + Len(c), NEW abcd \in Nat, abcd = abc + Len(d)
    PROVE  /\ a \o b \o c \o d \o e \in Seq(S)
           /\ HasParts(a \o b \o c \o d \o e, a, b, c, d, e, ab, abc, abcd)
<1>1. PICK p \in Seq(S) : p = a \o b
    BY TwoParts
<1>2. PICK q \in Seq(S) : q = p \o c
    BY TwoParts
<1>3. PICK r \in Seq(S) : r = q \o d
    BY TwoParts
<1>4. PICK w \in Seq(S) : w = r \o e
    BY TwoParts
<1>5. /\ p \in Seq(S) /\ Len(p) = Len(a) + Len(b)
      /\ \A i \in 1 .. Len(a) : p[i] = a[i]
      /\ \A i \in 1 .. Len(b) : p[Len(a) + i] = b[i]
    BY <1>1, TwoParts
<1>6. /\ q \in Seq(S) /\ Len(q) = Len(p) + Len(c)
      /\ \A i \in 1 .. Len(p) : q[i] = p[i]
      /\ \A i \in 1 .. Len(c) : q[Len(p) + i] = c[i]
    BY <1>2, TwoParts
<1>7. /\ r \in Seq(S) /\ Len(r) = Len(q) + Len(d)
      /\ \A i \in 1 .. Len(q) : r[i] = q[i]
      /\ \A i \in 1 .. Len(d) : r[Len(q) + i] = d[i]
    BY <1>3, TwoParts
<1>8. /\ w \in Seq(S) /\ Len(w) = Len(r) + Len(e)
      /\ \A i \in 1 .. Len(r) : w[i] = r[i]
      /\ \A i \in 1 .. Len(e) : w[Len(r) + i] = e[i]
    BY <1>4, TwoParts
<1>9. Len(p) = ab /\ Len(q) = abc /\ Len(r) = abcd
    BY <1>5, <1>6, <1>7
<1>10. /\ Len(a) \in Nat /\ Len(b) \in Nat /\ Len(c) \in Nat /\ Len(d) \in Nat /\ Len(e) \in Nat
    OBVIOUS
<1>11. \A i \in 1 .. Len(a) : w[i] = a[i]
  <2>. SUFFICES ASSUME NEW i \in 1 .. Len(a) PROVE w[i] = a[i]
      OBVIOUS
  <2>1. i \in 1 .. Len(p) /\ i \in 1 .. Len(q) /\ i \in 1 .. Len(r)
      BY <1>9, <1>10
  <2>2. w[i] = r[i] /\ r[i] = q[i]
      BY <1>7, <1>8, <2>1, Zenon
  <2>3. q[i] = p[i] /\ p[i] = a[i]
      BY <1>5, <1>6, <2>1, Zenon
  <2>. QED
      BY <2>2, <2>3, Zenon
<1>12. \A i \in 1 .. Len(b) : w[Len(a) + i] = b[i]
  <2>. SUFFICES ASSUME NEW i \in 1 .. Len(b) PROVE w[Len(a) + i] = b[i]
      OBVIOUS
  <2>1. /\ Len(a) + i \in 1 .. Len(p) /\ Len(a) + i \in 1 .. Len(q)
        /\ Len(a) + i \in 1 .. Len(r)
      BY <1>9, <1>10
  <2>2. w[Len(a) + i] = r[Len(a) + i] /\ r[Len(a) + i] = q[Len(a) + i]
      BY <1>7, <1>8, <2>1, Zenon
  <2>3. q[Len(a) + i] = p[Len(a) + i] /\ p[Len(a) + i] = b[i]
      BY <1>5, <1>6, <2>1, Zenon
  <2>. QED
      BY <2>2, <2>3, Zenon
<1>13. \A i \in 1 .. Len(c) : w[ab + i] = c[i]
  <2>. SUFFICES ASSUME NEW i \in 1 .. Len(c) PROVE w[ab + i] = c[i]
      OBVIOUS
  <2>1. ab + i \in 1 .. Len(q) /\ ab + i \in 1 .. Len(r) /\ Len(p) = ab
      BY <1>9, <1>10
  <2>2. w[ab + i] = r[ab + i] /\ r[ab + i] = q[ab + i]
      BY <1>7, <1>8, <2>1, Zenon
  <2>3. q[ab + i] = c[i]
      BY <1>6, <2>1, Zenon
  <2>. QED
      BY <2>2, <2>3, Zenon
<1>14. \A i \in 1 .. Len(d) : w[abc + i] = d[i]
  <2>. SUFFICES ASSUME NEW i \in 1 .. Len(d) PROVE w[abc + i] = d[i]
      OBVIOUS
  <2>1. abc + i \in 1 .. Len(r) /\ Len(q) = abc
      BY <1>9, <1>10
  <2>. QED
      BY <1>7, <1>8, <2>1, Zenon
<1>15. \A i \in 1 .. Len(e) : w[abcd + i] = e[i]
    BY <1>8, <1>9
<1>16. w = a \o b \o c \o d \o e
    BY <1>1, <1>2, <1>3, <1>4, Zenon
<1>17. Len(w) = abcd + Len(e)
    BY <1>8, <1>9
<1>18. HasParts(w, a, b, c, d, e, ab, abc, abcd)
    BY <1>11, <1>12, <1>13, <1>14, <1>15, <1>17, Zenon DEF HasParts
<1>. QED
    BY <1>16, <1>18, Zenon

\* A prefix, token by token.
LEMMA Prefix ==
    ASSUME NEW w \in Seq(Tokens), NEW s \in Seq(Tokens)
    PROVE  IsPrefix(w, s) <=> /\ Len(w) <= Len(s)
                              /\ \A i \in 1 .. Len(w) : s[i] = w[i]
<1>. SUFFICES ASSUME Len(w) <= Len(s)
              PROVE  SubSeq(w, 1, Len(w)) = SubSeq(s, 1, Len(w))
                        <=> \A i \in 1 .. Len(w) : s[i] = w[i]
    BY Zenon DEF IsPrefix
<1>1. SubSeq(w, 1, Len(w)) = w
    BY SubSeqFull, Zenon
<1>2. PICK n \in Nat : n = Len(w)
    OBVIOUS
<1>3. PICK t : t = SubSeq(s, 1, n)
    OBVIOUS
<1>4. /\ t \in Seq(Tokens) /\ Len(t) = n
      /\ \A i \in 1 .. n : t[i] = s[i]
    BY <1>2, <1>3
<1>5. w = t <=> \A i \in 1 .. n : w[i] = t[i]
    BY <1>2, <1>4
<1>. QED
    BY <1>1, <1>2, <1>3, <1>4, <1>5

\* s begins as the sentence of t does: the bracket that closes the pattern is at
\* close, and RETURN at ret.
Says(s, t) ==
    LET close == IF t.label = None THEN 4 ELSE 6
        ret   == IF t.value = None THEN close + 1 ELSE close + 7
    IN  /\ ret + 1 <= Len(s)
        /\ s[1] = Token("KEYWORD", "MATCH") /\ s[2] = Token("SYMBOL", "(")
        /\ s[3] = Token("ID", t.variable)
        /\ t.label # None => s[4] = Token("SYMBOL", ":") /\ s[5] = Token("ID", t.label)
        /\ s[close] = Token("SYMBOL", ")")
        /\ t.value # None =>
              /\ s[close + 1] = Token("KEYWORD", "WHERE") /\ s[close + 2] = Token("ID", t.of)
              /\ s[close + 3] = Token("SYMBOL", ".") /\ s[close + 4] = Token("ID", t.property)
              /\ s[close + 5] = Token("SYMBOL", "=") /\ s[close + 6] = Token("LITERAL", t.value)
        /\ s[ret] = Token("KEYWORD", "RETURN") /\ s[ret + 1] = Token("ID", t.returned)

\* The tokens of a sentence.
LEMMA SentenceSays ==
    ASSUME NEW t \in Trees
    PROVE  /\ Sentence(t) \in Seq(Tokens) /\ Says(Sentence(t), t)
           /\ Len(Sentence(t)) = IF t.label = None THEN IF t.value = None THEN 6 ELSE 12
                                 ELSE IF t.value = None THEN 8 ELSE 14
<1>1. /\ t.variable \in Variable /\ t.returned \in Variable /\ t.label \in Label \cup {None}
      /\ t.value \in Value \cup {None}
      /\ t.value # None => t.of \in Variable /\ t.property = Property
    BY TokensOK DEF TokensOK, Trees
<1>. DEFINE colon == <<Token("SYMBOL", ":"), Token("ID", t.label)>>
            where == <<Token("KEYWORD", "WHERE"), Token("ID", t.of), Token("SYMBOL", "."),
                       Token("ID", t.property), Token("SYMBOL", "="),
                       Token("LITERAL", t.value)>>
            a == <<Token("KEYWORD", "MATCH"), Token("SYMBOL", "("), Token("ID", t.variable)>>
            b == IF t.label = None THEN << >> ELSE colon
            c == <<Token("SYMBOL", ")")>>
            d == IF t.value = None THEN << >> ELSE where
            e == <<Token("KEYWORD", "RETURN"), Token("ID", t.returned)>>
            w == a \o b \o c \o d \o e
<1>2. /\ \A v \in Variable \cup Label \cup {Property} : Token("ID", v) \in Tokens
      /\ \A v \in Value : Token("LITERAL", v) \in Tokens
      /\ \A v \in {"(", ")", ":", ".", "="} : Token("SYMBOL", v) \in Tokens
      /\ \A v \in {"MATCH", "WHERE", "RETURN"} : Token("KEYWORD", v) \in Tokens
    BY DEF Token, Tokens
<1>3. /\ a \in Seq(Tokens) /\ Len(a) = 3
      /\ a[1] = Token("KEYWORD", "MATCH") /\ a[2] = Token("SYMBOL", "(")
      /\ a[3] = Token("ID", t.variable)
  <2>1. /\ Token("KEYWORD", "MATCH") \in Tokens /\ Token("SYMBOL", "(") \in Tokens
        /\ Token("ID", t.variable) \in Tokens
      BY <1>1, <1>2
  <2>. QED
      BY <2>1
<1>4. /\ b \in Seq(Tokens) /\ Len(b) = IF t.label = None THEN 0 ELSE 2
      /\ t.label # None => b[1] = Token("SYMBOL", ":") /\ b[2] = Token("ID", t.label)
  <2>1. CASE t.label = None
      BY <2>1
  <2>2. CASE t.label # None
    <3>1. Token("SYMBOL", ":") \in Tokens /\ Token("ID", t.label) \in Tokens
        BY <1>1, <1>2, <2>2
    <3>2. /\ colon \in Seq(Tokens) /\ Len(colon) = 2
          /\ colon[1] = Token("SYMBOL", ":") /\ colon[2] = Token("ID", t.label)
        BY <3>1
    <3>. HIDE DEF colon
    <3>. QED
        BY <2>2, <3>2
  <2>. QED
      BY <2>1, <2>2
<1>5. c \in Seq(Tokens) /\ Len(c) = 1 /\ c[1] = Token("SYMBOL", ")")
  <2>1. Token("SYMBOL", ")") \in Tokens
      BY <1>2
  <2>. QED
      BY <2>1
<1>6. /\ d \in Seq(Tokens) /\ Len(d) = IF t.value = None THEN 0 ELSE 6
      /\ t.value # None =>
            /\ d[1] = Token("KEYWORD", "WHERE") /\ d[2] = Token("ID", t.of)
            /\ d[3] = Token("SYMBOL", ".") /\ d[4] = Token("ID", t.property)
            /\ d[5] = Token("SYMBOL", "=") /\ d[6] = Token("LITERAL", t.value)
  <2>1. CASE t.value = None
      BY <2>1
  <2>2. CASE t.value # None
    <3>1. /\ Token("KEYWORD", "WHERE") \in Tokens /\ Token("ID", t.of) \in Tokens
          /\ Token("SYMBOL", ".") \in Tokens /\ Token("ID", t.property) \in Tokens
          /\ Token("SYMBOL", "=") \in Tokens /\ Token("LITERAL", t.value) \in Tokens
        BY <1>1, <1>2, <2>2
    <3>2. /\ where \in Seq(Tokens) /\ Len(where) = 6
          /\ where[1] = Token("KEYWORD", "WHERE") /\ where[2] = Token("ID", t.of)
          /\ where[3] = Token("SYMBOL", ".") /\ where[4] = Token("ID", t.property)
          /\ where[5] = Token("SYMBOL", "=") /\ where[6] = Token("LITERAL", t.value)
        BY <3>1
    <3>. HIDE DEF where
    <3>. QED
        BY <2>2, <3>2
  <2>. QED
      BY <2>1, <2>2
<1>7. /\ e \in Seq(Tokens) /\ Len(e) = 2
      /\ e[1] = Token("KEYWORD", "RETURN") /\ e[2] = Token("ID", t.returned)
  <2>1. Token("KEYWORD", "RETURN") \in Tokens /\ Token("ID", t.returned) \in Tokens
      BY <1>1, <1>2
  <2>. QED
      BY <2>1
<1>8. Sentence(t) = w
    BY Zenon DEF Sentence
<1>. HIDE DEF a, b, c, d, e, colon, where
<1>9. Len(b) \in Nat /\ Len(d) \in Nat
    BY <1>4, <1>6
<1>10. PICK ab \in Nat, abc \in Nat, abcd \in Nat :
          ab = 3 + Len(b) /\ abc = ab + 1 /\ abcd = abc + Len(d)
  <2>. HIDE DEF w
  <2>1. PICK ab \in Nat : ab = 3 + Len(b)
      BY <1>9
  <2>2. PICK abc \in Nat : abc = ab + 1
      OBVIOUS
  <2>3. PICK abcd \in Nat : abcd = abc + Len(d)
      BY <1>9
  <2>. QED
      BY <2>1, <2>2, <2>3, Zenon
<1>11. /\ w \in Seq(Tokens) /\ Len(w) = abcd + 2
       /\ \A i \in 1 .. 3 : w[i] = a[i]
       /\ \A i \in 1 .. Len(b) : w[3 + i] = b[i]
       /\ \A i \in 1 .. 1 : w[ab + i] = c[i]
       /\ \A i \in 1 .. Len(d) : w[abc + i] = d[i]
       /\ \A i \in 1 .. 2 : w[abcd + i] = e[i]
  <2>1. Len(a) = 3 /\ Len(c) = 1 /\ Len(e) = 2
      BY <1>3, <1>5, <1>7
  <2>2. /\ ab = Len(a) + Len(b) /\ abc = ab + Len(c) /\ abcd = abc + Len(d)
        /\ a \in Seq(Tokens) /\ b \in Seq(Tokens) /\ c \in Seq(Tokens)
        /\ d \in Seq(Tokens) /\ e \in Seq(Tokens)
      BY <1>3, <1>4, <1>5, <1>6, <1>7, <1>10, <2>1
  <2>3. w \in Seq(Tokens) /\ HasParts(w, a, b, c, d, e, ab, abc, abcd)
      BY <2>2, Concatenated, Zenon
  <2>. HIDE DEF w
  <2>. QED
      BY <2>1, <2>3 DEF HasParts
<1>. HIDE DEF w
<1>12. /\ w[1] = Token("KEYWORD", "MATCH") /\ w[2] = Token("SYMBOL", "(")
       /\ w[3] = Token("ID", t.variable) /\ w[ab + 1] = Token("SYMBOL", ")")
       /\ w[abcd + 1] = Token("KEYWORD", "RETURN") /\ w[abcd + 2] = Token("ID", t.returned)
    BY <1>3, <1>5, <1>7, <1>11
<1>13. t.label # None => w[4] = Token("SYMBOL", ":") /\ w[5] = Token("ID", t.label)
  <2>. SUFFICES ASSUME t.label # None
                PROVE  w[4] = Token("SYMBOL", ":") /\ w[5] = Token("ID", t.label)
      OBVIOUS
  <2>1. 1 \in 1 .. Len(b) /\ 2 \in 1 .. Len(b) /\ 3 + 1 = 4 /\ 3 + 2 = 5
      BY <1>4
  <2>2. w[4] = b[1] /\ w[5] = b[2]
      BY <1>11, <2>1
  <2>. QED
      BY <1>4, <2>2
<1>14. t.value # None =>
           /\ w[abc + 1] = Token("KEYWORD", "WHERE") /\ w[abc + 2] = Token("ID", t.of)
           /\ w[abc + 3] = Token("SYMBOL", ".") /\ w[abc + 4] = Token("ID", t.property)
           /\ w[abc + 5] = Token("SYMBOL", "=") /\ w[abc + 6] = Token("LITERAL", t.value)
    BY <1>6, <1>11
<1>15. CASE t.label = None /\ t.value = None
  <2>1. ab = 3 /\ abc = 4 /\ abcd = 4 /\ Len(w) = 6
      BY <1>4, <1>6, <1>10, <1>11, <1>15
  <2>. QED
      BY <1>8, <1>11, <1>12, <1>15, <2>1 DEF Says
<1>16. CASE t.label # None /\ t.value = None
  <2>1. ab = 5 /\ abc = 6 /\ abcd = 6 /\ Len(w) = 8
      BY <1>4, <1>6, <1>10, <1>11, <1>16
  <2>. QED
      BY <1>8, <1>11, <1>12, <1>13, <1>16, <2>1 DEF Says
<1>17. CASE t.label = None /\ t.value # None
  <2>1. ab = 3 /\ abc = 4 /\ abcd = 10 /\ Len(w) = 12
      BY <1>4, <1>6, <1>10, <1>11, <1>17
  <2>. QED
      BY <1>8, <1>11, <1>12, <1>14, <1>17, <2>1 DEF Says
<1>18. CASE t.label # None /\ t.value # None
  <2>1. ab = 5 /\ abc = 6 /\ abcd = 12 /\ Len(w) = 14
      BY <1>4, <1>6, <1>10, <1>11, <1>18
  <2>. QED
      BY <1>8, <1>11, <1>12, <1>13, <1>14, <1>18, <2>1 DEF Says
<1>. QED
    BY <1>15, <1>16, <1>17, <1>18

\* s begins with the sentence of t.
LEMMA PrefixSays ==
    ASSUME NEW t \in Trees, NEW s \in Seq(Tokens)
    PROVE  IsPrefix(Sentence(t), s) <=> Says(s, t)
<1>1. PICK w \in Seq(Tokens) :
          /\ w = Sentence(t) /\ Says(w, t)
          /\ Len(w) = IF t.label = None THEN IF t.value = None THEN 6 ELSE 12
                      ELSE IF t.value = None THEN 8 ELSE 14
    BY SentenceSays
<1>2. IsPrefix(w, s) <=> Len(w) <= Len(s) /\ \A i \in 1 .. Len(w) : s[i] = w[i]
    BY Prefix
<1>3. PICK n \in Nat : n = Len(s)
    OBVIOUS
<1>4. Says(s, t) <=> Len(w) <= n /\ \A i \in 1 .. Len(w) : s[i] = w[i]
  <2>1. CASE t.label = None /\ t.value = None
    <3>1. Len(w) = 6 /\ \A i \in 1 .. 6 : i \in {1, 2, 3, 4, 5, 6}
        BY <1>1, <2>1
    <3>. QED
        BY <1>1, <1>3, <2>1, <3>1 DEF Says
  <2>2. CASE t.label # None /\ t.value = None
    <3>1. Len(w) = 8 /\ \A i \in 1 .. 8 : i \in {1, 2, 3, 4, 5, 6, 7, 8}
        BY <1>1, <2>2
    <3>. QED
        BY <1>1, <1>3, <2>2, <3>1 DEF Says
  <2>3. CASE t.label = None /\ t.value # None
    <3>1. /\ Len(w) = 12
          /\ \A i \in 1 .. 12 : i \in {1, 2, 3, 4, 5, 6, 7, 8, 9, 10, 11, 12}
        BY <1>1, <2>3
    <3>. QED
        BY <1>1, <1>3, <2>3, <3>1 DEF Says
  <2>4. CASE t.label # None /\ t.value # None
    <3>1. /\ Len(w) = 14
          /\ \A i \in 1 .. 14 : i \in {1, 2, 3, 4, 5, 6, 7, 8, 9, 10, 11, 12, 13, 14}
        BY <1>1, <2>4
    <3>. QED
        BY <1>1, <1>3, <2>4, <3>1 DEF Says
  <2>. QED
      BY <2>1, <2>2, <2>3, <2>4
<1>. QED
    BY <1>1, <1>2, <1>3, <1>4

\* The two parts of a token.
LEMMA Words ==
    ASSUME NEW type, NEW value
    PROVE  Token(type, value).type = type /\ Token(type, value).value = value
BY DEF Token

\* An identifier, or a literal, is a word.
LEMMA WordOf ==
    ASSUME NEW x \in Tokens, x.type \in {"ID", "LITERAL"}
    PROVE  x = Token(x.type, x.value) /\ x.value # None
<1>1. CASE x \in [type : {"ID"}, value : Variable \cup Label \cup {Property}]
    BY <1>1, TokensOK DEF TokensOK, Token
<1>2. CASE x \in [type : {"LITERAL"}, value : Value]
    BY <1>2, TokensOK DEF TokensOK, Token
<1>3. CASE x \in [type : {"KEYWORD"}, value : {"MATCH", "WHERE", "RETURN", "AND", "OR"}]
    BY <1>3
<1>4. ASSUME NEW symbols, x \in [type : {"SYMBOL"}, value : symbols] PROVE FALSE
    BY <1>4
<1>5. CASE x = Illegal
    BY <1>5 DEF Illegal, Token
<1>. QED
    BY <1>1, <1>2, <1>3, <1>4, <1>5, Zenon DEF Tokens

LEMMA WordAt ==
    ASSUME NEW s \in Seq(Tokens), NEW i \in Nat \ {0}, NEW type \in {"ID", "LITERAL"},
           IsA(s, i, type)
    PROVE  s[i] = Token(type, s[i].value) /\ s[i].value # None /\ i <= Len(s)
<1>1. i <= Len(s) /\ s[i].type = type
    BY DEF IsA
<1>2. s[i] \in Tokens
    BY <1>1
<1>. QED
    BY <1>1, <1>2, WordOf, Zenon

\* What is accepted is a sentence of the syntax, and its tree is that of the sentence.
LEMMA ParsedSays ==
    ASSUME NEW s \in Texts, NEW t \in Parsed(s)
    PROVE  Illegal \notin ToSet(s) /\ t \in Trees /\ Says(s, t)
<1>. DEFINE i == AfterPattern(s)
            filtered == IsFiltered(s, i)
            j == IF filtered THEN i + 6 ELSE i
            sort == IF Labelled(s) THEN s[5].value ELSE None
            of == IF filtered THEN s[i + 1].value ELSE None
            property == IF filtered THEN s[i + 3].value ELSE None
            value == IF filtered THEN s[i + 5].value ELSE None
<1>1. s \in Seq(Tokens)
    BY TokensOK DEF TokensOK
<1>2. /\ Illegal \notin ToSet(s) /\ Is(s, 1, "KEYWORD", "MATCH") /\ Pattern(s)
      /\ filtered => Where(s, i)
      /\ Is(s, j, "KEYWORD", "RETURN") /\ IsA(s, j + 1, "ID")
      /\ t = [variable |-> s[3].value, label |-> sort, of |-> of, property |-> property,
              value |-> value, returned |-> s[j + 1].value]
    BY DEF Parsed
<1>3. /\ t.variable \in Variable /\ t.returned \in Variable
      /\ t.of \in Variable \cup {None} /\ t.property \in {Property, None}
      /\ t.label \in Label \cup {None} /\ t.value \in Value \cup {None}
  <2>1. t \in Understood
      BY DEF Understood
  <2>. QED
      BY <2>1, TextsOK DEF TextsOK
<1>4. i \in {5, 7} /\ (Labelled(s) <=> i = 7)
    BY DEF AfterPattern
<1>5. /\ t.variable = s[3].value /\ t.label = sort /\ t.of = of /\ t.property = property
      /\ t.value = value /\ t.returned = s[j + 1].value
    BY <1>2
<1>6. s[3] = Token("ID", s[3].value)
  <2>1. IsA(s, 3, "ID")
      BY <1>2 DEF Pattern
  <2>. QED
      BY <1>1, <2>1, WordAt
<1>7. Labelled(s) => s[5] = Token("ID", s[5].value) /\ s[5].value # None
  <2>. SUFFICES ASSUME Labelled(s)
                PROVE  s[5] = Token("ID", s[5].value) /\ s[5].value # None
      OBVIOUS
  <2>1. IsA(s, 5, "ID")
      BY <1>2 DEF Pattern
  <2>. QED
      BY <1>1, <2>1, WordAt
<1>. HIDE DEF i
<1>8. filtered => /\ s[i + 1] = Token("ID", s[i + 1].value) /\ s[i + 1].value # None
                  /\ s[i + 3] = Token("ID", s[i + 3].value) /\ s[i + 3].value # None
                  /\ s[i + 5] = Token("LITERAL", s[i + 5].value) /\ s[i + 5].value # None
  <2>. SUFFICES ASSUME filtered
                PROVE  /\ s[i + 1] = Token("ID", s[i + 1].value) /\ s[i + 1].value # None
                       /\ s[i + 3] = Token("ID", s[i + 3].value) /\ s[i + 3].value # None
                       /\ s[i + 5] = Token("LITERAL", s[i + 5].value) /\ s[i + 5].value # None
      OBVIOUS
  <2>1. IsA(s, i + 1, "ID") /\ IsA(s, i + 3, "ID") /\ IsA(s, i + 5, "LITERAL")
      BY <1>2 DEF Where
  <2>2. i + 1 \in Nat \ {0} /\ i + 3 \in Nat \ {0} /\ i + 5 \in Nat \ {0}
      BY <1>4
  <2>. HIDE DEF filtered
  <2>. QED
      BY <1>1, <2>1, <2>2, WordAt
<1>9. s[j + 1] = Token("ID", s[j + 1].value) /\ j + 1 <= Len(s) /\ j \in Nat
  <2>1. j \in Nat /\ j + 1 \in Nat \ {0}
      BY <1>4
  <2>2. IsA(s, j + 1, "ID")
      BY <1>2
  <2>. HIDE DEF j
  <2>. QED
      BY <1>1, <2>1, <2>2, WordAt
<1>10. /\ t.label = None <=> ~ Labelled(s)
       /\ t.value = None <=> ~ filtered
       /\ t.of = None <=> ~ filtered
       /\ t.property = None <=> ~ filtered
    BY <1>5, <1>7, <1>8
<1>11. t \in Trees
  <2>1. t \in [variable : Variable, label : Label \cup {None}, of : Variable \cup {None},
               property : {Property, None}, value : Value \cup {None}, returned : Variable]
    <3>. HIDE DEF sort, of, property, value, j
    <3>1. /\ s[3].value \in Variable /\ s[j + 1].value \in Variable
          /\ of \in Variable \cup {None} /\ property \in {Property, None}
          /\ sort \in Label \cup {None} /\ value \in Value \cup {None}
        BY <1>3, <1>5
    <3>. QED
        BY <1>2, <3>1
  <2>. QED
      BY <1>10, <2>1 DEF Trees
<1>12. /\ s[1] = Token("KEYWORD", "MATCH") /\ s[2] = Token("SYMBOL", "(")
       /\ Labelled(s) => s[4] = Token("SYMBOL", ":")
       /\ s[IF Labelled(s) THEN 6 ELSE 4] = Token("SYMBOL", ")")
    BY <1>2 DEF Is, Pattern, Labelled
<1>13. filtered => /\ s[i] = Token("KEYWORD", "WHERE") /\ s[i + 2] = Token("SYMBOL", ".")
                   /\ s[i + 4] = Token("SYMBOL", "=")
    BY <1>2 DEF Is, IsFiltered, Where
<1>14. s[j] = Token("KEYWORD", "RETURN")
    BY <1>2 DEF Is
<1>15. Says(s, t)
  <2>. DEFINE close == IF t.label = None THEN 4 ELSE 6
  <2>1. close + 1 = i /\ close = IF Labelled(s) THEN 6 ELSE 4
      BY <1>4, <1>10
  <2>2. j = IF t.value = None THEN close + 1 ELSE close + 7
      BY <1>4, <1>10, <2>1
  <2>3. /\ close + 2 = i + 1 /\ close + 3 = i + 2 /\ close + 4 = i + 3 /\ close + 5 = i + 4
        /\ close + 6 = i + 5
      BY <1>4, <2>1
  <2>4. t.label # None => s[4] = Token("SYMBOL", ":") /\ s[5] = Token("ID", t.label)
      BY <1>5, <1>7, <1>10, <1>12
  <2>5. t.value # None =>
            /\ s[i] = Token("KEYWORD", "WHERE") /\ s[i + 1] = Token("ID", t.of)
            /\ s[i + 2] = Token("SYMBOL", ".") /\ s[i + 3] = Token("ID", t.property)
            /\ s[i + 4] = Token("SYMBOL", "=") /\ s[i + 5] = Token("LITERAL", t.value)
      BY <1>5, <1>8, <1>10, <1>13
  <2>6. s[3] = Token("ID", t.variable) /\ s[j + 1] = Token("ID", t.returned)
      BY <1>5, <1>6, <1>9
  <2>7. j + 1 <= Len(s) /\ s[j] = Token("KEYWORD", "RETURN")
      BY <1>9, <1>14
  <2>8. s[close] = Token("SYMBOL", ")")
      BY <1>12, <2>1
  <2>. HIDE DEF close, j, filtered, sort, of, property, value
  <2>9. t.value # None =>
            /\ s[close + 1] = Token("KEYWORD", "WHERE") /\ s[close + 2] = Token("ID", t.of)
            /\ s[close + 3] = Token("SYMBOL", ".") /\ s[close + 4] = Token("ID", t.property)
            /\ s[close + 5] = Token("SYMBOL", "=") /\ s[close + 6] = Token("LITERAL", t.value)
      BY <2>1, <2>3, <2>5, Zenon
  <2>. QED
      BY <1>12, <2>2, <2>4, <2>6, <2>7, <2>8, <2>9, Zenon DEF Says, close
<1>. QED
    BY <1>2, <1>11, <1>15

\* A sentence of the syntax is accepted, with its tree, if no character behind it is
\* illegal.
LEMMA SaysParsed ==
    ASSUME NEW s \in Texts, NEW t \in Trees, Illegal \notin ToSet(s), Says(s, t)
    PROVE  t \in Parsed(s)
<1>. DEFINE close == IF t.label = None THEN 4 ELSE 6
            ret == IF t.value = None THEN close + 1 ELSE close + 7
<1>1. PICK n \in Nat : n = Len(s)
  <2>1. s \in Seq(Tokens)
      BY TokensOK DEF TokensOK
  <2>. QED
      BY <2>1
<1>2. /\ ret + 1 <= n
      /\ s[1] = Token("KEYWORD", "MATCH") /\ s[2] = Token("SYMBOL", "(")
      /\ s[3] = Token("ID", t.variable)
      /\ t.label # None => s[4] = Token("SYMBOL", ":") /\ s[5] = Token("ID", t.label)
      /\ s[close] = Token("SYMBOL", ")")
      /\ t.value # None =>
            /\ s[close + 1] = Token("KEYWORD", "WHERE") /\ s[close + 2] = Token("ID", t.of)
            /\ s[close + 3] = Token("SYMBOL", ".") /\ s[close + 4] = Token("ID", t.property)
            /\ s[close + 5] = Token("SYMBOL", "=") /\ s[close + 6] = Token("LITERAL", t.value)
      /\ s[ret] = Token("KEYWORD", "RETURN") /\ s[ret + 1] = Token("ID", t.returned)
    BY <1>1 DEF Says
<1>3. /\ close \in {4, 6} /\ (close = 6 <=> t.label # None)
      /\ ret \in Nat /\ ret > close /\ (t.value # None => ret = close + 7)
      /\ (t.value = None => ret = close + 1)
    OBVIOUS
<1>. HIDE DEF close, ret
<1>4. Labelled(s) <=> t.label # None
  <2>1. t.label = None => s[4] = Token("SYMBOL", ")")
      BY <1>2, <1>3
  <2>2. Token("SYMBOL", ")") # Token("SYMBOL", ":")
      BY DEF Token
  <2>3. 4 <= n
      BY <1>2, <1>3
  <2>. QED
      BY <1>1, <1>2, <2>1, <2>2, <2>3 DEF Labelled, Is
<1>5. AfterPattern(s) = close + 1
    BY <1>3, <1>4 DEF AfterPattern
<1>6. IsFiltered(s, close + 1) <=> t.value # None
  <2>1. t.value = None => s[close + 1] = Token("KEYWORD", "RETURN")
      BY <1>2, <1>3
  <2>2. Token("KEYWORD", "RETURN") # Token("KEYWORD", "WHERE")
      BY DEF Token
  <2>3. close + 1 <= n
      BY <1>2, <1>3
  <2>. QED
      BY <1>1, <1>2, <2>1, <2>2, <2>3 DEF IsFiltered, Is
<1>7. Is(s, 1, "KEYWORD", "MATCH") /\ Is(s, ret, "KEYWORD", "RETURN") /\ IsA(s, ret + 1, "ID")
  <2>1. 1 <= n /\ ret <= n
      BY <1>2, <1>3
  <2>. QED
      BY <1>1, <1>2, <2>1, Words DEF Is, IsA
<1>8. Pattern(s)
  <2>1. 2 <= n /\ 3 <= n /\ close <= n /\ (t.label # None => 5 <= n)
      BY <1>2, <1>3
  <2>2. close = IF Labelled(s) THEN 6 ELSE 4
      BY <1>3, <1>4
  <2>3. Is(s, 2, "SYMBOL", "(") /\ IsA(s, 3, "ID") /\ Is(s, close, "SYMBOL", ")")
      BY <1>1, <1>2, <2>1, Words DEF Is, IsA
  <2>4. Labelled(s) => IsA(s, 5, "ID")
      BY <1>1, <1>2, <1>4, <2>1, Words DEF IsA
  <2>. QED
      BY <2>2, <2>3, <2>4 DEF Pattern
<1>9. ASSUME t.value # None PROVE Where(s, close + 1)
  <2>1. /\ close + 1 + 1 = close + 2 /\ close + 1 + 2 = close + 3 /\ close + 1 + 3 = close + 4
        /\ close + 1 + 4 = close + 5 /\ close + 1 + 5 = close + 6
      BY <1>3
  <2>2. /\ close + 2 <= n /\ close + 3 <= n /\ close + 4 <= n /\ close + 5 <= n
        /\ close + 6 <= n
      BY <1>2, <1>3, <1>9
  <2>3. /\ IsA(s, close + 2, "ID") /\ Is(s, close + 3, "SYMBOL", ".")
        /\ IsA(s, close + 4, "ID") /\ Is(s, close + 5, "SYMBOL", "=")
        /\ IsA(s, close + 6, "LITERAL")
      BY <1>1, <1>2, <1>9, <2>2, Words DEF Is, IsA
  <2>. QED
      BY <2>1, <2>3 DEF Where
<1>10. ret = IF t.value # None THEN close + 1 + 6 ELSE close + 1
    BY <1>3
<1>. DEFINE tree == [variable |-> s[3].value,
                     label    |-> IF Labelled(s) THEN s[5].value ELSE None,
                     of       |-> IF t.value # None THEN s[close + 1 + 1].value ELSE None,
                     property |-> IF t.value # None THEN s[close + 1 + 3].value ELSE None,
                     value    |-> IF t.value # None THEN s[close + 1 + 5].value ELSE None,
                     returned |-> s[ret + 1].value]
<1>11. Parsed(s) = {tree}
    BY <1>5, <1>6, <1>7, <1>8, <1>9, <1>10 DEF Parsed
<1>12. t = tree
  <2>1. /\ close + 1 + 1 = close + 2 /\ close + 1 + 3 = close + 4
        /\ close + 1 + 5 = close + 6
      BY <1>3
  <2>2. /\ s[3].value = t.variable /\ s[ret + 1].value = t.returned
        /\ t.label # None => s[5].value = t.label
        /\ t.value # None => /\ s[close + 2].value = t.of /\ s[close + 4].value = t.property
                             /\ s[close + 6].value = t.value
      BY <1>2, Words
  <2>3. t.of = None <=> t.value = None
      BY DEF Trees
  <2>4. t.property = None <=> t.value = None
      BY DEF Trees
  <2>5. tree = [variable |-> t.variable, label |-> t.label, of |-> t.of,
                property |-> t.property, value |-> t.value, returned |-> t.returned]
      BY <1>4, <2>1, <2>2, <2>3, <2>4
  <2>6. t = [variable |-> t.variable, label |-> t.label, of |-> t.of,
             property |-> t.property, value |-> t.value, returned |-> t.returned]
      BY DEF Trees
  <2>. QED
      BY <2>5, <2>6, Zenon
<1>. QED
    BY <1>11, <1>12

\* A text is accepted exactly when it begins with a sentence of the syntax and has no
\* illegal character, and its tree is that of the sentence (QueryParser.parse), for
\* texts of any tokens.
THEOREM ParsesWhatIsWritten == Spec => []UnderstoodAsWritten
<1>1. ASSUME NEW s \in Texts PROVE ReadAsWritten(s)
  <2>1. s \in Seq(Tokens)
      BY TokensOK DEF TokensOK
  <2>2. \A t : t \in Parsed(s) <=>
            Illegal \notin ToSet(s) /\ t \in Trees /\ IsPrefix(Sentence(t), s)
      BY <2>1, ParsedSays, SaysParsed, PrefixSays
  <2>. QED
      BY <2>2 DEF ReadAsWritten
<1>2. UnderstoodAsWritten
    BY <1>1 DEF UnderstoodAsWritten
<1>. QED
    BY <1>2, PTL DEF Spec

=============================================================================
