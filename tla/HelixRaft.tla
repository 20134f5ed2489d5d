------------------------------ MODULE HelixRaft ------------------------------
(***************************************************************************)
(* Leader election of helix_consensus (helix/node.py), one action per      *)
(* asyncio callback of one node.  A node is a single event loop: run_loop, *)
(* the datagram handler and the task that sends the first heartbeat never  *)
(* preempt each other, so a callback is one step, cut only by a crash or   *)
(* by an exception of save_state.  Nodes interleave freely.  UDP delivers  *)
(* late, out of order, twice or never.  An election deadline may pass at   *)
(* any moment, so the timers are not state.                                *)
(***************************************************************************)
EXTENDS Naturals, FiniteSets

CONSTANTS
    Node,          \* the ids of the cluster
    None,          \* Python's None in voted_for and leader_id
    InitFiles,     \* the contents the state files may have at the start
    Campaigners,   \* the nodes whose election deadline may pass
    Lossy,         \* whether the network drops datagrams
    MaxTerm,       \* bound: nobody campaigns beyond this term
    MaxRestart,    \* bound: crashes, of all nodes together
    MaxDuplicate,  \* bound: datagrams delivered once more
    MaxSaveFail    \* bound: save_state calls that raise OSError

States == {"FOLLOWER", "CANDIDATE", "LEADER"}

Record == [term : Nat, votedFor : Node \cup {None}]

\* The terms in which elections are held.
Terms == 1 .. MaxTerm

Packet == [type : {"VOTE_REQ", "VOTE_RESP", "APPEND_REQ"},
           term : Terms, src : Node, dst : Node]

ASSUME ConstantsOK ==
    /\ IsFiniteSet(Node)
    /\ None \notin Node
    /\ InitFiles \subseteq [Node -> Record]
    /\ Campaigners \subseteq Node
    /\ Lossy \in BOOLEAN
    /\ {MaxTerm, MaxRestart, MaxDuplicate, MaxSaveFail} \subseteq Nat

VARIABLES
    state,          \* role of each node
    currentTerm,
    votedFor,
    votesReceived,  \* a count of datagrams, as in the code, not of voters
    leaderId,
    hbTask,         \* whether the first heartbeat of a leader waits in the loop
    loop,           \* whether the run_loop task is alive
    file,           \* [term, votedFor] on the disk of each node
    net,            \* datagrams in flight
    votes,          \* history: votes cast, each saved before it is used
    elected,        \* history: <<node, term>> of every election won
    restarts, dups, saveFails  \* the bounded counters

nodeVars == <<state, currentTerm, votedFor, votesReceived, leaderId, hbTask, loop>>
history  == <<votes, elected>>
vars     == <<nodeVars, file, net, history, restarts, dups, saveFails>>

-----------------------------------------------------------------------------
(* Packets and what a node reads from them. *)

Quorum == (Cardinality(Node) \div 2) + 1

\* broadcast: one datagram for each peer.
ToPeers(n, type, term) ==
    {[type |-> type, term |-> term, src |-> n, dst |-> p] : p \in Node \ {n}}

Vote(v, t, c) == [voter |-> v, term |-> t, cand |-> c]

VotersFor(c, t) == {v \in Node : Vote(v, t, c) \in votes}

\* The first half of handle_message: a newer term is adopted and saved, and
\* forgets role, vote and leader.  (An operator that precedes another and is
\* not used, such as ZeroVoteAfter, is a plausible bug of the next one: the
\* properties are tested by putting it in the place of the right one.)
Newer(n, m) == m.term > currentTerm[n]

TermAfter(n, m)   == IF Newer(n, m) THEN m.term ELSE currentTerm[n]
StateAfter(n, m)  == IF Newer(n, m) THEN "FOLLOWER" ELSE state[n]

ZeroVoteAfter(n, m) == IF Newer(n, m) THEN 0 ELSE votedFor[n]
VoteAfter(n, m)   == IF Newer(n, m) THEN None ELSE votedFor[n]

KeptLeaderAfter(n, m) == leaderId[n]
LeaderAfter(n, m) == IF Newer(n, m) THEN None ELSE leaderId[n]

FileAfter(n, m) ==
    IF Newer(n, m) THEN [term |-> m.term, votedFor |-> None] ELSE file[n]

\* _handle_vote_request: the vote is free or was already given to the sender.
GrantsTwice(n, m) == m.term >= TermAfter(n, m)
Grants(n, m) ==
    /\ m.term >= TermAfter(n, m)
    /\ VoteAfter(n, m) \in {None, m.src}

\* The record that a granted vote leaves on disk.
TermOnlySaved(n, m) == FileAfter(n, m)
VoteSaved(n, m) == [term |-> TermAfter(n, m), votedFor |-> m.src]

\* _handle_vote_response: the votes of this candidacy count.
CountsAnyTerm(n, m) == StateAfter(n, m) = "CANDIDATE"
Counts(n, m) == StateAfter(n, m) = "CANDIDATE" /\ m.term = TermAfter(n, m)

\* _handle_append_entries: a heartbeat that is not stale.
Follows(n, m) == m.term >= TermAfter(n, m)

\* A datagram leaves the network, or stays to arrive again; out is the answer.
Deliver(m, out) ==
    /\ m \in net
    /\ \/ net' = (net \ {m}) \cup out /\ UNCHANGED dups
       \/ /\ dups < MaxDuplicate
          /\ dups' = dups + 1
          /\ net' = net \cup out

Receive(n, m, type) == ~hbTask[n] /\ m.dst = n /\ m.type = type

-----------------------------------------------------------------------------

Init ==
    /\ file \in InitFiles
    /\ state = [n \in Node |-> "FOLLOWER"]
    /\ currentTerm = [n \in Node |-> file[n].term]
    /\ votedFor = [n \in Node |-> file[n].votedFor]
    /\ votesReceived = [n \in Node |-> 0]
    /\ leaderId = [n \in Node |-> None]
    /\ hbTask = [n \in Node |-> FALSE]
    /\ loop = [n \in Node |-> TRUE]
    /\ net = {}
    /\ votes = {} /\ elected = {}
    /\ restarts = 0 /\ dups = 0 /\ saveFails = 0

\* run_loop finds the deadline of a follower or candidate in the past.
TimesOut(n) ==
    /\ loop[n] /\ ~hbTask[n]
    /\ n \in Campaigners
    /\ state[n] # "LEADER"
    /\ currentTerm[n] < MaxTerm
    /\ state' = [state EXCEPT ![n] = "CANDIDATE"]
    /\ currentTerm' = [currentTerm EXCEPT ![n] = @ + 1]
    /\ votedFor' = [votedFor EXCEPT ![n] = n]
    /\ votesReceived' = [votesReceived EXCEPT ![n] = 1]
    /\ UNCHANGED <<leaderId, hbTask, elected, restarts, dups>>

BecomeCandidate(n) ==
    /\ TimesOut(n)
    /\ file' = [file EXCEPT ![n] = [term |-> currentTerm[n] + 1, votedFor |-> n]]
    /\ votes' = votes \cup {Vote(n, currentTerm[n] + 1, n)}
    /\ net' = net \cup ToPeers(n, "VOTE_REQ", currentTerm[n] + 1)
    /\ UNCHANGED <<loop, saveFails>>

\* The OSError leaves become_candidate and ends the run_loop task for good.
CandidateSaveFails(n) ==
    /\ saveFails < MaxSaveFail
    /\ TimesOut(n)
    /\ loop' = [loop EXCEPT ![n] = FALSE]
    /\ saveFails' = saveFails + 1
    /\ UNCHANGED <<file, votes, net>>

SilentLeader(n) == FALSE

\* run_loop of a leader.
Heartbeat(n) ==
    /\ loop[n] /\ ~hbTask[n]
    /\ state[n] = "LEADER"
    /\ net' = net \cup ToPeers(n, "APPEND_REQ", currentTerm[n])
    /\ UNCHANGED <<nodeVars, file, history, restarts, dups, saveFails>>

\* The task created on the election: it runs before any other callback of n,
\* the event loop being first in, first out.
FirstHeartbeat(n) ==
    /\ hbTask[n]
    /\ hbTask' = [hbTask EXCEPT ![n] = FALSE]
    /\ net' = net \cup ToPeers(n, "APPEND_REQ", currentTerm[n])
    /\ UNCHANGED <<state, currentTerm, votedFor, votesReceived, leaderId, loop,
                   file, history, restarts, dups, saveFails>>

-----------------------------------------------------------------------------
(* handle_message, for each type of datagram. *)

\* What the first half of handle_message does to the fields that the second
\* half leaves alone.
AdoptTerm(n, m) ==
    /\ currentTerm' = [currentTerm EXCEPT ![n] = TermAfter(n, m)]
    /\ UNCHANGED <<loop, restarts>>

GrantVote(n, m) ==
    /\ Receive(n, m, "VOTE_REQ")
    /\ Grants(n, m)
    /\ AdoptTerm(n, m)
    /\ state' = [state EXCEPT ![n] = StateAfter(n, m)]
    /\ leaderId' = [leaderId EXCEPT ![n] = LeaderAfter(n, m)]
    /\ votedFor' = [votedFor EXCEPT ![n] = m.src]
    /\ file' = [file EXCEPT ![n] = VoteSaved(n, m)]
    /\ votes' = votes \cup {Vote(n, TermAfter(n, m), m.src)}
    /\ Deliver(m, {[type |-> "VOTE_RESP", term |-> TermAfter(n, m),
                    src |-> n, dst |-> m.src]})
    /\ UNCHANGED <<votesReceived, hbTask, elected, saveFails>>

\* A refusal is silent: the candidate learns neither of it nor of the term.
RefuseVote(n, m) ==
    /\ Receive(n, m, "VOTE_REQ")
    /\ ~Grants(n, m)
    /\ AdoptTerm(n, m)
    /\ state' = [state EXCEPT ![n] = StateAfter(n, m)]
    /\ leaderId' = [leaderId EXCEPT ![n] = LeaderAfter(n, m)]
    /\ votedFor' = [votedFor EXCEPT ![n] = VoteAfter(n, m)]
    /\ file' = [file EXCEPT ![n] = FileAfter(n, m)]
    /\ Deliver(m, {})
    /\ UNCHANGED <<votesReceived, hbTask, history, saveFails>>

CountVote(n, m) ==
    /\ Receive(n, m, "VOTE_RESP")
    /\ Counts(n, m)
    /\ votesReceived' = [votesReceived EXCEPT ![n] = @ + 1]
    /\ IF votesReceived[n] + 1 >= Quorum
       THEN /\ state' = [state EXCEPT ![n] = "LEADER"]
            /\ leaderId' = [leaderId EXCEPT ![n] = n]
            /\ hbTask' = [hbTask EXCEPT ![n] = TRUE]
            /\ elected' = elected \cup {<<n, currentTerm[n]>>}
       ELSE UNCHANGED <<state, leaderId, hbTask, elected>>
    /\ Deliver(m, {})
    /\ UNCHANGED <<currentTerm, votedFor, loop, file, votes, restarts, saveFails>>

\* A vote that does not count; handle_message may still adopt its term.
IgnoreVote(n, m) ==
    /\ Receive(n, m, "VOTE_RESP")
    /\ ~Counts(n, m)
    /\ AdoptTerm(n, m)
    /\ state' = [state EXCEPT ![n] = StateAfter(n, m)]
    /\ leaderId' = [leaderId EXCEPT ![n] = LeaderAfter(n, m)]
    /\ votedFor' = [votedFor EXCEPT ![n] = VoteAfter(n, m)]
    /\ file' = [file EXCEPT ![n] = FileAfter(n, m)]
    /\ Deliver(m, {})
    /\ UNCHANGED <<votesReceived, hbTask, history, saveFails>>

AcceptHeartbeat(n, m) ==
    /\ Receive(n, m, "APPEND_REQ")
    /\ Follows(n, m)
    /\ AdoptTerm(n, m)
    /\ state' = [state EXCEPT ![n] = "FOLLOWER"]
    /\ leaderId' = [leaderId EXCEPT ![n] = m.src]
    /\ votedFor' = [votedFor EXCEPT ![n] = VoteAfter(n, m)]
    /\ file' = [file EXCEPT ![n] = FileAfter(n, m)]
    /\ Deliver(m, {})
    /\ UNCHANGED <<votesReceived, hbTask, history, saveFails>>

IgnoreHeartbeat(n, m) ==
    /\ Receive(n, m, "APPEND_REQ")
    /\ ~Follows(n, m)
    /\ Deliver(m, {})
    /\ UNCHANGED <<nodeVars, file, history, restarts, saveFails>>

-----------------------------------------------------------------------------
(* Failures. *)

\* save_state raises in the first half of handle_message: the new term is in
\* memory only, and the datagram is not handled.
StepDownSaveFails(n, m) ==
    /\ saveFails < MaxSaveFail
    /\ ~hbTask[n] /\ m.dst = n
    /\ Newer(n, m)
    /\ AdoptTerm(n, m)
    /\ state' = [state EXCEPT ![n] = "FOLLOWER"]
    /\ leaderId' = [leaderId EXCEPT ![n] = None]
    /\ votedFor' = [votedFor EXCEPT ![n] = None]
    /\ Deliver(m, {})
    /\ saveFails' = saveFails + 1
    /\ UNCHANGED <<votesReceived, hbTask, file, history>>

\* save_state raises in _handle_vote_request: the vote is in memory only, and
\* no answer is sent.
GrantSaveFails(n, m) ==
    /\ saveFails < MaxSaveFail
    /\ Receive(n, m, "VOTE_REQ")
    /\ Grants(n, m)
    /\ AdoptTerm(n, m)
    /\ state' = [state EXCEPT ![n] = StateAfter(n, m)]
    /\ leaderId' = [leaderId EXCEPT ![n] = LeaderAfter(n, m)]
    /\ votedFor' = [votedFor EXCEPT ![n] = m.src]
    /\ file' = [file EXCEPT ![n] = FileAfter(n, m)]
    /\ Deliver(m, {})
    /\ saveFails' = saveFails + 1
    /\ UNCHANGED <<votesReceived, hbTask, history>>

\* A process starts: everything but the state file is forgotten.
Boot(n, saved) ==
    /\ state' = [state EXCEPT ![n] = "FOLLOWER"]
    /\ currentTerm' = [currentTerm EXCEPT ![n] = saved.term]
    /\ votedFor' = [votedFor EXCEPT ![n] = saved.votedFor]
    /\ votesReceived' = [votesReceived EXCEPT ![n] = 0]
    /\ leaderId' = [leaderId EXCEPT ![n] = None]
    /\ hbTask' = [hbTask EXCEPT ![n] = FALSE]
    /\ loop' = [loop EXCEPT ![n] = TRUE]
    /\ restarts < MaxRestart
    /\ restarts' = restarts + 1
    /\ UNCHANGED <<history, saveFails>>

\* The process of n dies between two callbacks and is started again.
Restart(n) ==
    /\ Boot(n, file[n])
    /\ UNCHANGED <<file, net, dups>>

\* The process dies between the two saves of a vote in a newer term.
CrashInHandler(n, m) ==
    /\ Receive(n, m, "VOTE_REQ")
    /\ Newer(n, m)
    /\ file' = [file EXCEPT ![n] = FileAfter(n, m)]
    /\ Boot(n, FileAfter(n, m))
    /\ Deliver(m, {})

\* The network drops a datagram.
Lose(m) ==
    /\ Lossy
    /\ net' = net \ {m}
    /\ UNCHANGED <<nodeVars, file, history, restarts, dups, saveFails>>

-----------------------------------------------------------------------------

RunLoop(n) == BecomeCandidate(n) \/ CandidateSaveFails(n) \/ Heartbeat(n)

HandleMessage(n, m) ==
    \/ GrantVote(n, m) \/ RefuseVote(n, m)
    \/ CountVote(n, m) \/ IgnoreVote(n, m)
    \/ AcceptHeartbeat(n, m) \/ IgnoreHeartbeat(n, m)

Next ==
    \/ \E n \in Node : RunLoop(n) \/ FirstHeartbeat(n) \/ Restart(n)
    \/ \E m \in net :
          \/ Lose(m)
          \/ \E n \in Node :
                \/ HandleMessage(n, m)
                \/ StepDownSaveFails(n, m) \/ GrantSaveFails(n, m)
                \/ CrashInHandler(n, m)

Spec == Init /\ [][Next]_vars

\* A node that is up keeps running its loop, and no link between two nodes is
\* dead: of the datagrams that keep coming some are delivered and handled.
Fairness ==
    /\ \A n \in Node : WF_vars(RunLoop(n)) /\ WF_vars(FirstHeartbeat(n))
    /\ \A n \in Node : \A s \in Node \ {n} :
          SF_vars(\E m \in net : m.src = s /\ HandleMessage(n, m))

FairSpec == Spec /\ Fairness

-----------------------------------------------------------------------------
(* Safety. *)

\* Every variable has its type; the datagrams in flight are well formed.
TypeOK ==
    /\ state \in [Node -> States]
    /\ currentTerm \in [Node -> Nat]
    /\ votedFor \in [Node -> Node \cup {None}]
    /\ votesReceived \in [Node -> Nat]
    /\ leaderId \in [Node -> Node \cup {None}]
    /\ hbTask \in [Node -> BOOLEAN]
    /\ loop \in [Node -> BOOLEAN]
    /\ file \in [Node -> Record]
    /\ net \in SUBSET Packet
    /\ votes \in SUBSET [voter : Node, term : Terms, cand : Node]
    /\ elected \in SUBSET (Node \X Terms)
    /\ {restarts, dups, saveFails} \subseteq Nat

\* An election is won only on the votes of a majority of the cluster, each cast
\* in the term of the election, whatever late answers reached the candidate.
LeaderHasMajority ==
    \A l \in elected : Cardinality(VotersFor(l[1], l[2])) >= Quorum

\* Two nodes never win the election of one term (no split brain within a term),
\* over crashes, failed saves and stale datagrams.
OneLeaderPerTerm ==
    \A k, l \in elected : k[2] = l[2] => k[1] = l[1]

\* The disk remembers every vote until a later term replaces it: a node that
\* crashes at any point comes back unable to vote twice in a term.
VoteRemembered ==
    \A v \in votes :
        \/ v.term < file[v.voter].term
        \/ file[v.voter] = [term |-> v.term, votedFor |-> v.cand]

\* A follower that names a leader names the winner of its own term, also after
\* stepping down and after heartbeats of older leaders.
LeaderIsElected ==
    \A n \in Node :
        state[n] = "FOLLOWER" /\ leaderId[n] # None
            => <<leaderId[n], currentTerm[n]>> \in elected

\* The state file only moves forward: no save lowers its term, and in one term
\* none replaces or withdraws a vote, even after a save that failed in between.
FileForward ==
    [][\A n \in Node :
          \/ file'[n] = file[n]
          \/ file'[n].term > file[n].term
          \/ file'[n].term = file[n].term /\ file[n].votedFor = None]_file

\* Votes and elections are those of the abstract election.
Election == INSTANCE TermVoting WITH Term <- Terms, leaders <- elected

\* Every step of the cluster casts one vote in increasing terms, or starts to
\* lead on a majority, or changes neither (TermVoting).
ElectionImplemented == Election!Spec

-----------------------------------------------------------------------------
(* Liveness, under FairSpec. *)

\* Several leaders, of different terms, do not last: the heartbeats of the newer one
\* make the older one step down, through any losses short of a dead link.
SplitBrainHeals ==
    []<>(\A a, b \in Node : state[a] = "LEADER" /\ state[b] = "LEADER" => a = b)

=============================================================================
