---------------------------- MODULE HelixRaftInv ----------------------------
(***************************************************************************)
(* The inductive invariants of HelixRaft.  Durable holds whatever the      *)
(* network does; Tally is why an election is won on a majority when no     *)
(* datagram is delivered twice.                                            *)
(***************************************************************************)
EXTENDS HelixRaft

\* The memory of a node is never behind its disk.
MemoryAhead ==
    \A n \in Node :
        /\ file[n].term <= currentTerm[n]
        /\ file[n].term = currentTerm[n] => file[n].votedFor \in {None, votedFor[n]}

\* A vote on the wire has been cast.
AnswersCast ==
    \A m \in net :
        m.type = "VOTE_RESP" => Vote(m.src, m.term, m.dst) \in votes

\* A leader, and whatever speaks in its name, has won its term.
LeadersWon ==
    /\ \A n \in Node : state[n] = "LEADER" => <<n, currentTerm[n]>> \in elected
    /\ \A n \in Node : hbTask[n] => state[n] = "LEADER"
    /\ \A m \in net : m.type = "APPEND_REQ" => <<m.src, m.term>> \in elected

\* No node votes for two candidates of one term.
VotesUnique ==
    \A x, y \in votes : x.voter = y.voter /\ x.term = y.term => x = y

Durable ==
    /\ TypeOK
    /\ MemoryAhead
    /\ VoteRemembered
    /\ VotesUnique
    /\ AnswersCast
    /\ LeadersWon
    /\ LeaderIsElected

\* A candidate's term was saved before it was used: no vote and no request is
\* ahead of the candidate's disk.
CandidatesSaved ==
    /\ \A v \in votes : v.term <= file[v.cand].term
    /\ \A m \in net : m.type = "VOTE_REQ" => m.term <= file[m.src].term
    /\ \A n \in Node : state[n] = "CANDIDATE" => votedFor[n] = n

\* A request in flight has not been answered.
RequestsOpen ==
    \A m \in net :
        m.type = "VOTE_REQ" => Vote(m.dst, m.term, m.src) \notin votes

\* The voters of n's present candidacy whose answers are no longer in flight.
Heard(n) ==
    {v \in VotersFor(n, currentTerm[n]) :
        [type |-> "VOTE_RESP", term |-> currentTerm[n], src |-> v, dst |-> n]
            \notin net}

\* A candidate never counts more votes than it has voters it heard from.
TallyHonest ==
    \A n \in Node :
        state[n] = "CANDIDATE" /\ file[n].term = currentTerm[n]
            => votesReceived[n] <= Cardinality(Heard(n))

Tally ==
    /\ CandidatesSaved
    /\ RequestsOpen
    /\ TallyHonest
    /\ LeaderHasMajority

=============================================================================
