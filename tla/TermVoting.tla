----------------------------- MODULE TermVoting -----------------------------
(***************************************************************************)
(* What a leader election with numbered terms promises, without messages,  *)
(* timers, files or roles: voters cast at most one vote per term, in       *)
(* increasing terms, and a node leads a term only on a majority of the     *)
(* votes of that term.  HelixRaft implements it.                           *)
(***************************************************************************)
EXTENDS Naturals, FiniteSets

CONSTANTS
    Node,    \* the members of the cluster
    Term     \* the terms in which elections are held

VARIABLES
    votes,   \* every vote cast so far: [voter, term, cand]
    leaders  \* every <<node, term>> such that node has led term

vars == <<votes, leaders>>

Majority == (Cardinality(Node) \div 2) + 1

VotersFor(c, t) ==
    {v \in Node : [voter |-> v, term |-> t, cand |-> c] \in votes}

Init ==
    /\ votes = {}
    /\ leaders = {}

\* A voter casts a vote in a term above that of all its earlier votes.
Cast(v, t, c) ==
    /\ \A x \in votes : x.voter = v => x.term < t
    /\ votes' = votes \cup {[voter |-> v, term |-> t, cand |-> c]}
    /\ UNCHANGED leaders

\* A node starts to lead a term.
Lead(c, t) ==
    /\ Cardinality(VotersFor(c, t)) >= Majority
    /\ leaders' = leaders \cup {<<c, t>>}
    /\ UNCHANGED votes

Next == \E c \in Node, t \in Term : Lead(c, t) \/ \E v \in Node : Cast(v, t, c)

Spec == Init /\ [][Next]_vars

-----------------------------------------------------------------------------

\* Every variable has its type.
TypeOK ==
    /\ votes \in SUBSET [voter : Node, term : Term, cand : Node]
    /\ leaders \in SUBSET (Node \X Term)

\* No voter votes for two candidates in one term.
VotesUnique ==
    \A x, y \in votes : x.voter = y.voter /\ x.term = y.term => x.cand = y.cand

\* Every leader holds a majority of the votes of its term.
LeadersElected ==
    \A l \in leaders : Cardinality(VotersFor(l[1], l[2])) >= Majority

\* A term has at most one leader.
LeaderUnique ==
    \A k, l \in leaders : k[2] = l[2] => k[1] = l[1]

=============================================================================
