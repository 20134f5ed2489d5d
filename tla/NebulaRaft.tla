------------------------------ MODULE NebulaRaft ------------------------------
(***************************************************************************)
(* A cluster node of nebula_graph (cluster/raft.py).  Its main loop        *)
(* sleeps, in the middle of a candidacy too, and on_message is called      *)
(* whenever it does.  The class sends nothing: the messages are those that *)
(* other software may send, of any term and in any order.                  *)
(***************************************************************************)
EXTENDS Naturals, FiniteSets

CONSTANTS
    Self,        \* node_id
    Other,       \* ids that messages may come from, and peers may have
    None,        \* no node
    MaxTerm,     \* bound: terms in messages
    MaxMessages  \* bound: messages received; they end some day

ASSUME ConstantsOK ==
    /\ Self # None /\ Self \notin Other /\ None \notin Other
    /\ IsFiniteSet(Other)
    /\ MaxTerm \in Nat /\ MaxMessages \in Nat

MsgType == {"VOTE_REQ", "VOTE_RESP", "APPEND_REQ", "APPEND_RESP"}

VARIABLES
    peers,
    state, currentTerm, votedFor, leaderId,
    expired,    \* whether election_deadline has passed
    pc,         \* where _main_loop sleeps: between two turns, or for votes
    received,   \* messages received
    campaigned, \* history: the terms this node has been a candidate of
    led         \* history: the terms it has been leader of

node    == <<state, currentTerm, votedFor, leaderId>>
history == <<campaigned, led>>
vars    == <<peers, node, expired, pc, received, history>>

Init ==
    /\ peers \in SUBSET Other
    /\ state = "FOLLOWER" /\ currentTerm = 0
    /\ votedFor = None /\ leaderId = None
    /\ expired = FALSE
    /\ pc = "loop"
    /\ received = 0
    /\ campaigned = {} /\ led = {}

\* Time passes until the deadline.
Expire ==
    /\ ~expired
    /\ expired' = TRUE
    /\ UNCHANGED <<peers, node, pc, received, history>>

Due == state = "FOLLOWER" /\ expired

\* _become_candidate, up to the sleep that stands for the request for votes.  (The
\* other turns of _main_loop change nothing: heartbeats are not sent.)
BecomeCandidate ==
    /\ pc = "loop"
    /\ Due
    /\ state' = "CANDIDATE"
    /\ currentTerm' = currentTerm + 1
    /\ votedFor' = Self
    /\ expired' = FALSE
    /\ pc' = "votes"
    /\ campaigned' = campaigned \cup {currentTerm + 1}
    /\ UNCHANGED <<peers, leaderId, received, led>>

\* (An operator that precedes another and is not used is a plausible bug of the
\* next one, put in its place to test the properties.)
Promoted == peers = {}
MayLead == peers = {} /\ state = "CANDIDATE"

StillCandidate == IF expired THEN "CANDIDATE" ELSE "LEADER"
Elected == "LEADER"

\* The sleep is over: only a node without peers goes on to _become_leader, and what
\* on_message has done meanwhile counts.
VotesOver ==
    /\ pc = "votes"
    /\ pc' = "loop"
    /\ IF MayLead
       THEN /\ state' = Elected
            /\ leaderId' = Self
            /\ led' = led \cup {currentTerm}
       ELSE UNCHANGED <<state, leaderId, led>>
    /\ UNCHANGED <<peers, currentTerm, votedFor, expired, received, campaigned>>

Newer(term) == term > currentTerm

\* on_message.  An APPEND_REQ puts the deadline off and names the leader, whatever
\* its term and the role of this node.
OnMessage(term, type, src) ==
    /\ received < MaxMessages
    /\ received' = received + 1
    /\ IF Newer(term)
       THEN currentTerm' = term /\ state' = "FOLLOWER" /\ votedFor' = None
       ELSE UNCHANGED <<currentTerm, state, votedFor>>
    /\ leaderId' = IF type = "APPEND_REQ" THEN src
                   ELSE IF Newer(term) THEN None ELSE leaderId
    /\ expired' = (expired /\ type # "APPEND_REQ")
    /\ UNCHANGED <<peers, pc, history>>

Next ==
    \/ Expire \/ BecomeCandidate \/ VotesOver
    \/ \E term \in 0 .. MaxTerm, type \in MsgType, src \in Other :
          OnMessage(term, type, src)

Spec == Init /\ [][Next]_vars

\* Time passes, and the event loop wakes the main loop.
FairSpec ==
    Spec /\ WF_vars(Expire) /\ WF_vars(BecomeCandidate) /\ WF_vars(VotesOver)

-----------------------------------------------------------------------------

\* Every variable has its type: the term of a node is at most one above those it
\* has heard of.
TypeOK ==
    /\ peers \in SUBSET Other
    /\ state \in {"FOLLOWER", "CANDIDATE", "LEADER"}
    /\ currentTerm \in 0 .. MaxTerm + 1
    /\ votedFor \in {None, Self} /\ leaderId \in Other \cup {None, Self}
    /\ expired \in BOOLEAN /\ pc \in {"loop", "votes"}
    /\ received \in 0 .. MaxMessages
    /\ campaigned \subseteq 1 .. MaxTerm + 1 /\ led \subseteq 1 .. MaxTerm + 1

\* A leader leads a term that it was a candidate of and still has its own vote in:
\* a message that comes while the node waits for votes cannot make it leader of a
\* term that it only heard of.  A node with peers leads none.
LeadsOwnTerm ==
    /\ state # "FOLLOWER" => currentTerm \in campaigned /\ votedFor = Self
    /\ peers # {} => led = {}

\* The term never falls, and the vote of a term is not taken back in it, whatever
\* old messages come.
TermForward ==
    [][/\ currentTerm' >= currentTerm
       /\ currentTerm' = currentTerm /\ votedFor # None => votedFor' = votedFor]_vars

\* The votes and leaders of this node are those of an election with numbered terms
\* in a cluster of one (TermVoting); with peers the node never leads at all.
Election == INSTANCE TermVoting WITH
    Node    <- {Self},
    Term    <- 0 .. MaxTerm + 1,
    votes   <- {[voter |-> Self, term |-> t, cand |-> Self] : t \in campaigned},
    leaders <- {<<Self, t>> : t \in led}

ElectionImplemented == Election!Spec

\* A node without peers leads in the end and for good, once messages stop coming:
\* neither a deadline put off nor a candidacy broken off leaves it waiting.
LoneNodeLeads == peers = {} => <>[](state = "LEADER")

=============================================================================
