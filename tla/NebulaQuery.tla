----------------------------- MODULE NebulaQuery -----------------------------
(***************************************************************************)
(* Queries of nebula_graph (main.py, ExecutionEngine.execute) over the     *)
(* node store and one property index (index/inverted.py), from several     *)
(* threads.  The index is told of a node by whoever created it, in a call  *)
(* of its own; nobody tells it of a deletion.  A query takes no lock       *)
(* between its steps.                                                      *)
(*                                                                         *)
(* Queries are those that NebulaParser accepts.  One property is modelled, *)
(* and one label per node.  Edges do not matter here: NebulaGraph has      *)
(* them.                                                                   *)
(***************************************************************************)
EXTENDS NebulaParser, FiniteSets

CONSTANTS
    Reader,  \* threads that run queries
    MaxNode  \* bound: ids given to nodes

ASSUME MaxNodeOK == MaxNode \in Nat

\* The texts name variables, labels, the property and values in their places.
ASSUME TextsOK ==
    \A ask \in Understood :
        /\ ask.variable \in Variable /\ ask.returned \in Variable
        /\ ask.of \in Variable \cup {None} /\ ask.property \in {Property, None}
        /\ ask.label \in Label \cup {None} /\ ask.value \in Value \cup {None}

NodeId == 1 .. MaxNode

VARIABLES
    nodes,      \* ids in the store
    nodeSeq,
    place,      \* where a node is in the entries of the dictionary _nodes
    filled,     \* how many entries it has, those of deleted nodes included
    label,      \* of each node ever made
    name,
    pending,    \* nodes whose creator has not called on_node_created yet
    hasIndex,   \* whether the property is in _indices
    items,      \* _items of the index
    missed,     \* history: nodes that on_node_created was called for too early
                \* for the present index
    query       \* the query of each reader

store == <<nodes, nodeSeq, place, filled, label, name>>
index == <<pending, hasIndex, items, missed>>
vars  == <<store, index, query>>

NoItems == [v \in Value |-> {}]

\* at: the last entry that the scan has passed; size: the length of the dictionary
\* when the scan began; left: how many of them the scan has still to meet.  History:
\* due, the nodes that the answer should have; late, those of them that the index has
\* missed; skipped, those that were moved from before the scan to behind it; cut,
\* whether a node was deleted under the scan.
Blank(pc) ==
    [pc |-> pc, label |-> None, value |-> None,
     at |-> 0, size |-> 0, left |-> 0, candidates |-> {}, results |-> {},
     due |-> {}, late |-> {}, skipped |-> {}, cut |-> FALSE]

NoQuery == Blank("idle")

Init ==
    /\ nodes = {} /\ nodeSeq = 0
    /\ place = [n \in NodeId |-> 0] /\ filled = 0
    /\ label = [n \in NodeId |-> None] /\ name = [n \in NodeId |-> None]
    /\ pending = {} /\ missed = {}
    /\ hasIndex = FALSE /\ items = NoItems
    /\ query = [r \in Reader |-> NoQuery]

-----------------------------------------------------------------------------
(* The store and the index. *)

Running(r) == query[r].pc \in {"plan", "scan", "fetch"}

\* The nodes still to be scanned: an iterator goes through the entries.
Ahead(r) == {n \in nodes : place[n] > query[r].at}

\* The readers when the dictionary has been laid out as places says.
Moved(places) ==
    [r \in Reader |->
        IF query[r].pc = "scan"
        THEN [query[r] EXCEPT !.skipped =
                 @ \cup {n \in query[r].due \cap Ahead(r) : places[n] <= query[r].at}]
        ELSE query[r]]

\* The readers when node n has been deleted.
Without(n) ==
    [r \in Reader |->
        IF Running(r)
        THEN [query[r] EXCEPT !.due = @ \ {n}, !.late = @ \ {n}, !.skipped = @ \ {n},
                              !.cut = @ \/ query[r].pc = "scan"]
        ELSE query[r]]

\* A dictionary whose entries are used up is laid out anew, without the entries of
\* deleted nodes, when one is added.  How many it has room for is its own affair.
Packed == [n \in NodeId |-> IF n \in nodes THEN Cardinality({k \in nodes : k <= n}) ELSE 0]

AddNode(l, v) ==
    /\ nodeSeq < MaxNode
    /\ nodeSeq' = nodeSeq + 1
    /\ nodes' = nodes \cup {nodeSeq + 1}
    /\ \/ /\ filled' = filled + 1
          /\ place' = [place EXCEPT ![nodeSeq + 1] = filled + 1]
          /\ UNCHANGED query
       \/ /\ filled' = Cardinality(nodes) + 1
          /\ place' = [Packed EXCEPT ![nodeSeq + 1] = Cardinality(nodes) + 1]
          /\ query' = Moved(Packed)
    /\ label' = [label EXCEPT ![nodeSeq + 1] = l]
    /\ name' = [name EXCEPT ![nodeSeq + 1] = v]
    /\ pending' = pending \cup {nodeSeq + 1}
    /\ UNCHANGED <<hasIndex, items, missed>>

\* The store forgets the node, and leaves its entry empty; the index does not.
DeleteNode(n) ==
    /\ n \in nodes
    /\ nodes' = nodes \ {n}
    /\ place' = [place EXCEPT ![n] = 0]
    /\ query' = Without(n)
    /\ UNCHANGED <<nodeSeq, filled, label, name, index>>

\* (An operator that precedes another and is not used is a plausible bug of the
\* next one, put in its place to test the properties.)
FirstOnly(n) == [items EXCEPT ![name[n]] = IF @ = {} THEN {n} ELSE @]
Added(n) == [items EXCEPT ![name[n]] = @ \cup {n}]

\* on_node_created, called by the creator of the node.
OnNodeCreated(n) ==
    /\ n \in pending
    /\ pending' = pending \ {n}
    /\ IF hasIndex
       THEN items' = Added(n) /\ UNCHANGED missed
       ELSE missed' = missed \cup {n} /\ UNCHANGED items
    /\ UNCHANGED <<hasIndex, store, query>>

\* The new index is empty, whatever the store holds.
CreateIndex ==
    /\ ~hasIndex
    /\ hasIndex' = TRUE
    /\ items' = NoItems
    /\ UNCHANGED <<pending, missed, store, query>>

DropIndex ==
    /\ hasIndex
    /\ hasIndex' = FALSE
    /\ missed' = 1 .. nodeSeq \ pending
    /\ items' = NoItems
    /\ UNCHANGED <<pending, store, query>>

-----------------------------------------------------------------------------
(* execute. *)

LabelFits(q, n) == q.label \in {None, label[n]}

AnyValue(q, n) == LabelFits(q, n)
Fits(q, n) == LabelFits(q, n) /\ q.value \in {None, name[n]}

\* A text that is not understood ends the query before it begins.
Refuse(r) ==
    /\ query[r].pc = "idle"
    /\ SomeRefused
    /\ query' = [query EXCEPT ![r].pc = "SyntaxError"]
    /\ UNCHANGED <<store, index>>

\* The index is asked if the WHERE is about the variable of the pattern; else the
\* store is scanned, and the WHERE applies all the same.  No hits is no answer: the
\* store is scanned then too.
Search(r, ask) ==
    /\ query[r].pc = "idle"
    /\ LET hits == IF hasIndex /\ ask.value # None /\ ask.of = ask.variable
                   THEN items[ask.value] ELSE {}
           q    == [NoQuery EXCEPT !.label = ask.label, !.value = ask.value]
           due  == {n \in nodes \ pending : Fits(q, n)}
       IN  query' = [query EXCEPT ![r] =
               [q EXCEPT !.pc = IF hits = {} THEN "plan" ELSE "fetch",
                         !.candidates = hits,
                         !.due = due,
                         !.late = IF hasIndex THEN due \cap missed ELSE {}]]
    /\ UNCHANGED <<store, index>>

StartScan(r) ==
    /\ query[r].pc = "plan"
    /\ query' = [query EXCEPT ![r].pc = "scan", ![r].size = Cardinality(nodes),
                              ![r].left = Cardinality(nodes)]
    /\ UNCHANGED <<store, index>>

\* The iterator compares lengths, and no more; before it gives a node it also looks
\* whether it has given as many already as there were.
Unchanged(r) == Cardinality(nodes) = query[r].size

ScanNode(r) ==
    /\ query[r].pc = "scan"
    /\ Unchanged(r) /\ query[r].left > 0
    /\ \E n \in Ahead(r) :
          /\ \A k \in Ahead(r) : place[n] <= place[k]
          /\ query' = [query EXCEPT
                          ![r].at = place[n],
                          ![r].left = @ - 1,
                          ![r].candidates =
                              IF Fits(query[r], n) THEN @ \cup {n} ELSE @]
    /\ UNCHANGED <<store, index>>

EndScan(r) ==
    /\ query[r].pc = "scan"
    /\ Unchanged(r)
    /\ Ahead(r) = {}
    /\ query' = [query EXCEPT ![r].pc = "fetch",
                              ![r].at = 0, ![r].size = 0, ![r].left = 0]
    /\ UNCHANGED <<store, index>>

\* RuntimeError: the dictionary, or its keys, changed during iteration.
ScanRaises(r) ==
    /\ query[r].pc = "scan"
    /\ Unchanged(r) => query[r].left = 0 /\ Ahead(r) # {}
    /\ query' = [query EXCEPT ![r] = Blank("RuntimeError")]
    /\ UNCHANGED <<store, index>>

\* get_node of a candidate, in the order of a set.
Fetch(r) ==
    /\ query[r].pc = "fetch"
    /\ \E n \in query[r].candidates :
          query' = [query EXCEPT ![r] =
              IF n \in nodes
              THEN [query[r] EXCEPT !.candidates = @ \ {n}, !.results = @ \cup {n}]
              ELSE Blank("NodeNotFoundError")]
    /\ UNCHANGED <<store, index>>

Return(r) ==
    /\ query[r].pc = "fetch"
    /\ query[r].candidates = {}
    /\ query' = [query EXCEPT ![r].pc = "done"]
    /\ UNCHANGED <<store, index>>

\* The reader goes on to its next query.
Reset(r) ==
    /\ query[r].pc \in {"done", "SyntaxError", "RuntimeError", "NodeNotFoundError"}
    /\ query' = [query EXCEPT ![r] = NoQuery]
    /\ UNCHANGED <<store, index>>

Execute(r) ==
    \/ \E ask \in Understood : Search(r, ask)
    \/ Refuse(r)
    \/ StartScan(r) \/ ScanNode(r) \/ EndScan(r) \/ ScanRaises(r)
    \/ Fetch(r) \/ Return(r) \/ Reset(r)

Next ==
    \/ \E l \in Label, v \in Value : AddNode(l, v)
    \/ \E n \in NodeId : DeleteNode(n) \/ OnNodeCreated(n)
    \/ CreateIndex \/ DropIndex
    \/ \E r \in Reader : Execute(r)

Spec == Init /\ [][Next]_vars

-----------------------------------------------------------------------------

Done(r) == query[r].pc = "done"

\* A query that returns has found every node that fits it and was there, known to
\* the index, from its start to its end, with two exceptions: of the nodes
\* on_node_created was called for, those it was called for before create_index, while
\* that index is there; and those that the dictionary moved back past the scan, which
\* happens only if another node was deleted under it.
FindsWhatIndexKnows ==
    \A r \in Reader : Done(r) =>
        /\ query[r].due \ query[r].late \subseteq query[r].results \cup query[r].skipped
        /\ query[r].skipped # {} => query[r].cut

\* Every node of an answer has the value that was asked for, also when index
\* and store changed underneath.
AnswersFitValue ==
    \A r \in Reader : Done(r) =>
        \A n \in query[r].results : query[r].value \in {None, name[n]}

\* A text is accepted exactly when it begins with a sentence of the supported
\* syntax and has no illegal character, after the sentence included; its tree is
\* that of the sentence, whatever follows.  (The texts are constants: once, before
\* there are nodes, is enough.)
UnderstoodAsWritten == nodeSeq = 0 => \A s \in Texts : ReadAsWritten(s)

=============================================================================
