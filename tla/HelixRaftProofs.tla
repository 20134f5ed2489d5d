--------------------------- MODULE HelixRaftProofs ---------------------------
(***************************************************************************)
(* The election of helix_consensus is safe for any cluster, any files at   *)
(* the start and any bounds: Durable is inductive whatever the network     *)
(* does, Tally beside it when no datagram is delivered twice.              *)
(* Then the abstract election by itself, and the state file that no crash  *)
(* damages.                                                                *)
(***************************************************************************)
EXTENDS HelixRaftInv, HelixStorage, FiniteSetTheorems, TLAPS

\* What the first half of handle_message leaves behind has the right types.
LEMMA AfterTypes ==
    ASSUME TypeOK, NEW n \in Node, NEW m \in net
    PROVE  /\ m \in Packet
           /\ TermAfter(n, m) \in Nat
           /\ VoteAfter(n, m) \in Node \cup {None}
           /\ StateAfter(n, m) \in States
           /\ LeaderAfter(n, m) \in Node \cup {None}
           /\ FileAfter(n, m) \in Record
           /\ Grants(n, m) =>
                 VoteSaved(n, m) \in Record /\ TermAfter(n, m) = m.term
<1>1. m \in Packet /\ m.term \in Nat /\ m.src \in Node
    BY ConstantsOK DEF TypeOK, Packet, Terms
<1>2. TermAfter(n, m) \in Nat /\ m.term <= TermAfter(n, m)
    BY <1>1 DEF TypeOK, TermAfter, Newer
<1>3. FileAfter(n, m) \in Record
    BY <1>1 DEF TypeOK, FileAfter, Record
<1>4. Grants(n, m) =>
          VoteSaved(n, m) \in Record /\ TermAfter(n, m) = m.term
    BY <1>1, <1>2 DEF Grants, VoteSaved, Record
<1>. QED
    BY <1>1, <1>2, <1>3, <1>4
    DEF TypeOK, States, VoteAfter, StateAfter, LeaderAfter

-----------------------------------------------------------------------------
(* Types. *)

\* A cluster starts with well-typed variables.
LEMMA TypeInit == Init => TypeOK
    BY ConstantsOK DEF Init, TypeOK, States, Record

\* Every callback, crash and loss keeps the types; heartbeats stay in the terms
\* in which elections are held because leaders have won theirs.
LEMMA TypeNext == TypeOK /\ LeadersWon /\ [Next]_vars => TypeOK'
<1>. SUFFICES ASSUME TypeOK, LeadersWon, [Next]_vars PROVE TypeOK'
    OBVIOUS
<1>. USE ConstantsOK DEF TypeOK
<1>1. ASSUME NEW n \in Node, BecomeCandidate(n) PROVE TypeOK'
    BY <1>1 DEF BecomeCandidate, TimesOut, ToPeers, Vote, Terms, Packet,
        Record, States
<1>2. ASSUME NEW n \in Node, CandidateSaveFails(n) PROVE TypeOK'
    BY <1>2 DEF CandidateSaveFails, TimesOut, States
<1>3. ASSUME NEW n \in Node, Heartbeat(n) \/ FirstHeartbeat(n) PROVE TypeOK'
    <2>1. currentTerm[n] \in Terms
        BY <1>3 DEF Heartbeat, FirstHeartbeat, LeadersWon
    <2>2. ToPeers(n, "APPEND_REQ", currentTerm[n]) \subseteq Packet
        BY <2>1 DEF ToPeers, Packet
    <2>3. net' \in SUBSET Packet
        BY <1>3, <2>2 DEF Heartbeat, FirstHeartbeat
    <2>4. hbTask' \in [Node -> BOOLEAN]
        BY <1>3 DEF Heartbeat, FirstHeartbeat, nodeVars
    <2>5. UNCHANGED <<state, currentTerm, votedFor, votesReceived, leaderId, loop,
                      file, votes, elected, restarts, dups, saveFails>>
        BY <1>3 DEF Heartbeat, FirstHeartbeat, nodeVars, history
    <2>. QED
        BY <2>3, <2>4, <2>5
<1>4. ASSUME NEW n \in Node, Restart(n) PROVE TypeOK'
    BY <1>4 DEF Restart, Boot, history, States, Record
<1>5. ASSUME NEW n \in Node, NEW m \in net, GrantVote(n, m) PROVE TypeOK'
    <2>. DEFINE resp == [type |-> "VOTE_RESP", term |-> TermAfter(n, m),
                         src |-> n, dst |-> m.src]
    <2>1. /\ resp \in Packet
          /\ Vote(n, TermAfter(n, m), m.src)
                \in [voter : Node, term : Terms, cand : Node]
        BY <1>5, AfterTypes DEF GrantVote, Packet, Vote
    <2>2. net' \in SUBSET Packet /\ dups' \in Nat
        BY <1>5, <2>1 DEF GrantVote, Deliver
    <2>. QED
        BY <1>5, <2>1, <2>2, AfterTypes DEF GrantVote, AdoptTerm, Packet
<1>6. ASSUME NEW n \in Node, NEW m \in net,
             \/ RefuseVote(n, m) \/ IgnoreVote(n, m) \/ AcceptHeartbeat(n, m)
             \/ StepDownSaveFails(n, m) \/ GrantSaveFails(n, m)
      PROVE  TypeOK'
    <2>1. net' \in SUBSET Packet /\ dups' \in Nat
        BY <1>6 DEF RefuseVote, IgnoreVote, AcceptHeartbeat, StepDownSaveFails,
            GrantSaveFails, Deliver
    <2>2. m.src \in Node
        BY AfterTypes DEF Packet
    <2>3. CASE RefuseVote(n, m) \/ IgnoreVote(n, m)
        BY <2>3, <2>1, AfterTypes DEF RefuseVote, IgnoreVote, AdoptTerm, history
    <2>4. CASE AcceptHeartbeat(n, m)
        BY <2>4, <2>1, <2>2, AfterTypes
        DEF AcceptHeartbeat, AdoptTerm, history, States
    <2>5. CASE StepDownSaveFails(n, m)
        BY <2>5, <2>1, AfterTypes
        DEF StepDownSaveFails, AdoptTerm, history, States
    <2>6. CASE GrantSaveFails(n, m)
        BY <2>6, <2>1, <2>2, AfterTypes DEF GrantSaveFails, AdoptTerm, history
    <2>. QED
        BY <1>6, <2>3, <2>4, <2>5, <2>6
<1>7. ASSUME NEW n \in Node, NEW m \in net, CountVote(n, m) PROVE TypeOK'
    <2>1. currentTerm[n] \in Terms
        BY <1>7, ConstantsOK
        DEF CountVote, Counts, StateAfter, TermAfter, Newer, Packet, Terms
    <2>2. elected' \in SUBSET (Node \X Terms)
        BY <1>7, <2>1 DEF CountVote
    <2>3. votesReceived' \in [Node -> Nat]
        BY <1>7 DEF CountVote
    <2>4. /\ state' \in [Node -> States]
          /\ leaderId' \in [Node -> Node \cup {None}]
          /\ hbTask' \in [Node -> BOOLEAN]
        <3>1. CASE votesReceived[n] + 1 >= Quorum
            <4>1. /\ state' = [state EXCEPT ![n] = "LEADER"]
                  /\ leaderId' = [leaderId EXCEPT ![n] = n]
                  /\ hbTask' = [hbTask EXCEPT ![n] = TRUE]
                BY <1>7, <3>1 DEF CountVote
            <4>. QED
                BY <4>1 DEF States
        <3>2. CASE ~(votesReceived[n] + 1 >= Quorum)
            BY <1>7, <3>2 DEF CountVote
        <3>. QED
            BY <3>1, <3>2
    <2>5. net' \in SUBSET Packet /\ dups' \in Nat
        BY <1>7 DEF CountVote, Deliver
    <2>. QED
        BY <1>7, <2>2, <2>3, <2>4, <2>5 DEF CountVote
<1>8. ASSUME NEW n \in Node, NEW m \in net, IgnoreHeartbeat(n, m) PROVE TypeOK'
    BY <1>8 DEF IgnoreHeartbeat, Deliver, nodeVars, history
<1>9. ASSUME NEW n \in Node, NEW m \in net, CrashInHandler(n, m) PROVE TypeOK'
    BY <1>9, AfterTypes DEF CrashInHandler, Boot, Deliver, history, States, Record
<1>10. ASSUME NEW m \in net, Lose(m) PROVE TypeOK'
    BY <1>10 DEF Lose, nodeVars, history
<1>11. CASE UNCHANGED vars
    BY <1>11 DEF vars, nodeVars, history
<1>. QED
    BY <1>1, <1>2, <1>3, <1>4, <1>5, <1>6, <1>7, <1>8, <1>9, <1>10, <1>11
    DEF Next, RunLoop, HandleMessage

-----------------------------------------------------------------------------
(* What is on disk. *)

\* No callback, crash or failed save leaves a node behind its own disk.
LEMMA MemoryAheadNext == TypeOK /\ MemoryAhead /\ [Next]_vars => MemoryAhead'
<1>. SUFFICES ASSUME TypeOK, MemoryAhead, [Next]_vars PROVE MemoryAhead'
    OBVIOUS
<1>. USE DEF MemoryAhead
<1>1. ASSUME NEW n \in Node, BecomeCandidate(n) PROVE MemoryAhead'
    BY <1>1 DEF TypeOK, Record, BecomeCandidate, TimesOut
<1>2. ASSUME NEW n \in Node, CandidateSaveFails(n) PROVE MemoryAhead'
    BY <1>2 DEF TypeOK, Record, CandidateSaveFails, TimesOut
<1>3. ASSUME NEW n \in Node, Restart(n) PROVE MemoryAhead'
    BY <1>3 DEF TypeOK, Record, Restart, Boot
<1>4. ASSUME NEW n \in Node, NEW m \in net, GrantVote(n, m) PROVE MemoryAhead'
    BY <1>4, AfterTypes DEF TypeOK, GrantVote, AdoptTerm, VoteSaved
<1>5. ASSUME NEW n \in Node, NEW m \in net,
             RefuseVote(n, m) \/ IgnoreVote(n, m) \/ AcceptHeartbeat(n, m)
      PROVE  MemoryAhead'
    <2>1. /\ currentTerm' = [currentTerm EXCEPT ![n] = TermAfter(n, m)]
          /\ votedFor' = [votedFor EXCEPT ![n] = VoteAfter(n, m)]
          /\ file' = [file EXCEPT ![n] = FileAfter(n, m)]
        BY <1>5 DEF RefuseVote, IgnoreVote, AcceptHeartbeat, AdoptTerm
    <2>. QED
        BY <2>1, AfterTypes
        DEF TypeOK, TermAfter, VoteAfter, FileAfter, Newer, Record, Packet, Terms
<1>6. ASSUME NEW n \in Node, NEW m \in net, StepDownSaveFails(n, m)
      PROVE  MemoryAhead'
    BY <1>6, AfterTypes
    DEF TypeOK, StepDownSaveFails, AdoptTerm, Newer, TermAfter, Record
<1>7. ASSUME NEW n \in Node, NEW m \in net, GrantSaveFails(n, m)
      PROVE  MemoryAhead'
    BY <1>7, AfterTypes
    DEF TypeOK, GrantSaveFails, AdoptTerm, Grants, FileAfter, TermAfter,
        VoteAfter, Newer, Record
<1>8. ASSUME NEW n \in Node, NEW m \in net, CrashInHandler(n, m)
      PROVE  MemoryAhead'
    BY <1>8, AfterTypes DEF TypeOK, CrashInHandler, Boot, FileAfter, Record
<1>9. CASE UNCHANGED <<currentTerm, votedFor, file>>
    BY <1>9
<1>. QED
    BY <1>1, <1>2, <1>3, <1>4, <1>5, <1>6, <1>7, <1>8, <1>9
    DEF Next, RunLoop, HandleMessage, Heartbeat, FirstHeartbeat, CountVote,
        IgnoreHeartbeat, Lose, vars, nodeVars

\* A save moves a file forward only: what FileForward says of one step.
FilesAdvance ==
    \A n \in Node :
        \/ file'[n] = file[n]
        \/ file'[n].term > file[n].term
        \/ file'[n].term = file[n].term /\ file[n].votedFor = None

\* The files and the votes of one step: a file takes the new term, or the vote
\* cast in this step, or stays.
LEMMA SaveCases ==
    ASSUME TypeOK, MemoryAhead, [Next]_vars
    PROVE  \/ UNCHANGED <<file, votes>>
           \/ \E n \in Node :
                 /\ file' = [file EXCEPT ![n] = [term |-> currentTerm[n] + 1,
                                                 votedFor |-> n]]
                 /\ votes' = votes \cup {Vote(n, currentTerm[n] + 1, n)}
           \/ \E n \in Node, m \in net :
                 /\ Grants(n, m)
                 /\ file' = [file EXCEPT ![n] = VoteSaved(n, m)]
                 /\ votes' = votes \cup {Vote(n, TermAfter(n, m), m.src)}
           \/ \E n \in Node, m \in net :
                 /\ file' = [file EXCEPT ![n] = FileAfter(n, m)]
                 /\ UNCHANGED votes
<1>1. ASSUME NEW n \in Node, BecomeCandidate(n)
      PROVE  /\ file' = [file EXCEPT ![n] = [term |-> currentTerm[n] + 1,
                                             votedFor |-> n]]
             /\ votes' = votes \cup {Vote(n, currentTerm[n] + 1, n)}
    BY <1>1 DEF BecomeCandidate
<1>2. ASSUME NEW n \in Node, NEW m \in net, GrantVote(n, m)
      PROVE  /\ Grants(n, m)
             /\ file' = [file EXCEPT ![n] = VoteSaved(n, m)]
             /\ votes' = votes \cup {Vote(n, TermAfter(n, m), m.src)}
    BY <1>2 DEF GrantVote
<1>3. ASSUME NEW n \in Node, NEW m \in net,
             \/ RefuseVote(n, m) \/ IgnoreVote(n, m) \/ AcceptHeartbeat(n, m)
             \/ GrantSaveFails(n, m) \/ CrashInHandler(n, m)
      PROVE  /\ file' = [file EXCEPT ![n] = FileAfter(n, m)]
             /\ UNCHANGED votes
    BY <1>3 DEF RefuseVote, IgnoreVote, AcceptHeartbeat, GrantSaveFails,
        CrashInHandler, Boot, history
<1>4. ASSUME NEW n \in Node, \/ CandidateSaveFails(n) \/ Heartbeat(n)
                             \/ FirstHeartbeat(n) \/ Restart(n)
      PROVE  UNCHANGED <<file, votes>>
    BY <1>4 DEF CandidateSaveFails, Heartbeat, FirstHeartbeat, Restart, Boot, history
<1>5. ASSUME NEW n \in Node, NEW m \in net,
             CountVote(n, m) \/ IgnoreHeartbeat(n, m) \/ StepDownSaveFails(n, m)
      PROVE  UNCHANGED <<file, votes>>
    BY <1>5 DEF CountVote, IgnoreHeartbeat, StepDownSaveFails, history
<1>6. ASSUME NEW m \in net, Lose(m) \/ UNCHANGED vars
      PROVE  UNCHANGED <<file, votes>>
    BY <1>6 DEF Lose, vars, history
<1>7. UNCHANGED vars => UNCHANGED <<file, votes>>
    BY DEF vars, history
<1>. QED
    BY <1>1, <1>2, <1>3, <1>4, <1>5, <1>6, <1>7 DEF Next, RunLoop, HandleMessage

\* Every save of a node in any handler moves its file forward.
LEMMA FilesAdvanceNext == TypeOK /\ MemoryAhead /\ [Next]_vars => FilesAdvance
<1>. SUFFICES ASSUME TypeOK, MemoryAhead, [Next]_vars PROVE FilesAdvance
    OBVIOUS
<1>1. ASSUME NEW n \in Node, NEW m \in net
      PROVE  FileAfter(n, m).term > file[n].term \/ FileAfter(n, m) = file[n]
    BY AfterTypes DEF TypeOK, MemoryAhead, FileAfter, Newer, Record, Packet, Terms
<1>2. ASSUME NEW n \in Node, NEW m \in net, Grants(n, m)
      PROVE  \/ VoteSaved(n, m).term > file[n].term
             \/ VoteSaved(n, m) = file[n]
             \/ VoteSaved(n, m).term = file[n].term /\ file[n].votedFor = None
    <2>1. file[n] = [term |-> file[n].term, votedFor |-> file[n].votedFor]
        BY DEF TypeOK, Record
    <2>2. /\ file[n].term \in Nat /\ currentTerm[n] \in Nat /\ m.term \in Nat
          /\ TermAfter(n, m) = m.term
        BY <1>2, AfterTypes DEF TypeOK, Record
    <2>. QED
        BY <1>2, <2>1, <2>2
        DEF MemoryAhead, VoteSaved, Grants, TermAfter, VoteAfter, Newer
<1>3. ASSUME NEW n \in Node PROVE currentTerm[n] + 1 > file[n].term
    BY DEF TypeOK, MemoryAhead, Record
<1>. QED
    BY SaveCases, <1>1, <1>2, <1>3 DEF FilesAdvance, TypeOK

\* A saved vote stays on disk until a save of a later term.
LEMMA VoteRememberedNext ==
    TypeOK /\ TypeOK' /\ MemoryAhead /\ VoteRemembered /\ [Next]_vars
        => VoteRemembered'
<1>. SUFFICES ASSUME TypeOK, TypeOK', MemoryAhead, VoteRemembered, [Next]_vars,
                     NEW v \in votes'
              PROVE  \/ v.term < file'[v.voter].term
                     \/ file'[v.voter] = [term |-> v.term, votedFor |-> v.cand]
    BY DEF VoteRemembered
<1>1. CASE v \in votes
    <2>1. /\ v.voter \in Node /\ v.term \in Nat /\ v.cand # None
          /\ file[v.voter].term \in Nat
        BY <1>1, ConstantsOK DEF TypeOK, Terms, Record
    <2>2. \/ file'[v.voter] = file[v.voter]
          \/ file'[v.voter].term > file[v.voter].term
          \/ file'[v.voter].term = file[v.voter].term /\ file[v.voter].votedFor = None
        BY <2>1, FilesAdvanceNext DEF FilesAdvance
    <2>3. \/ v.term < file[v.voter].term
          \/ file[v.voter] = [term |-> v.term, votedFor |-> v.cand]
        BY <1>1 DEF VoteRemembered
    <2>4. file'[v.voter].term \in Nat
        BY <2>1 DEF TypeOK, Record
    <2>. QED
        BY <2>1, <2>2, <2>3, <2>4
<1>2. CASE v \notin votes
    BY <1>2, SaveCases DEF Vote, VoteSaved, TypeOK
<1>. QED
    BY <1>1, <1>2

\* A vote is cast in a term above the voter's earlier ones.
CastsAbove(v, t, c) ==
    /\ votes' = votes \cup {Vote(v, t, c)}
    /\ \A x \in votes : x.voter = v => x.term < t

\* A step casts no vote, or one by CastsAbove.
LEMMA VotesAreCast ==
    ASSUME TypeOK, TypeOK', MemoryAhead, VoteRemembered, [Next]_vars
    PROVE  \/ UNCHANGED votes
           \/ \E v \in Node, t \in Terms, c \in Node : CastsAbove(v, t, c)
<1>. USE DEF CastsAbove
<1>0. /\ \A n \in Node : /\ file[n].term \in Nat /\ currentTerm[n] \in Nat
                         /\ file[n].term <= currentTerm[n]
      /\ \A v \in votes : v.term \in Nat
    BY ConstantsOK DEF TypeOK, Record, Terms, MemoryAhead
<1>1. ASSUME NEW v \in votes
      PROVE  /\ v.voter \in Node /\ v.term <= file[v.voter].term
             /\ v.term = file[v.voter].term => file[v.voter].votedFor = v.cand
    <2>1. v.voter \in Node /\ v.term \in Nat /\ file[v.voter].term \in Nat
        BY <1>0 DEF TypeOK
    <2>2. CASE v.term < file[v.voter].term
        BY <2>1, <2>2
    <2>3. CASE file[v.voter] = [term |-> v.term, votedFor |-> v.cand]
        BY <2>1, <2>3
    <2>. QED
        BY <2>2, <2>3 DEF VoteRemembered
<1>2. ASSUME NEW n \in Node,
             votes' = votes \cup {Vote(n, currentTerm[n] + 1, n)}
      PROVE  CastsAbove(n, currentTerm[n] + 1, n) /\ currentTerm[n] + 1 \in Terms
    <2>1. \A x \in votes : x.voter = n => x.term < currentTerm[n] + 1
        BY <1>0, <1>1
    <2>2. currentTerm[n] + 1 \in Terms
        BY <1>2 DEF TypeOK, Vote
    <2>. QED
        BY <1>2, <2>1, <2>2
<1>3. ASSUME NEW n \in Node, NEW m \in net, Grants(n, m),
             votes' = votes \cup {Vote(n, TermAfter(n, m), m.src)}
      PROVE  \/ UNCHANGED votes
             \/ \E v \in Node, t \in Terms, c \in Node : CastsAbove(v, t, c)
    <2>1. /\ TermAfter(n, m) = m.term /\ m.term \in Terms /\ m.src \in Node
          /\ m.term \in Nat /\ currentTerm[n] <= m.term
        BY <1>0, <1>3, AfterTypes, ConstantsOK DEF Packet, TermAfter, Newer, Terms
    <2>2. CASE Vote(n, m.term, m.src) \in votes
        BY <1>3, <2>1, <2>2
    <2>3. CASE Vote(n, m.term, m.src) \notin votes
        <3>1. ASSUME NEW x \in votes, x.voter = n PROVE x.term < m.term
            <4>1. SUFFICES ASSUME x.term = m.term PROVE FALSE
                BY <1>0, <1>1, <2>1, <3>1
            <4>2. x.cand # m.src
                <5>1. x = [voter |-> x.voter, term |-> x.term, cand |-> x.cand]
                    BY DEF TypeOK
                <5>. QED
                    BY <2>3, <3>1, <4>1, <5>1 DEF Vote
            <4>3. file[n].term = m.term /\ currentTerm[n] = m.term
                BY <1>0, <1>1, <2>1, <3>1, <4>1
            <4>4. file[n].votedFor = x.cand
                BY <1>1, <3>1, <4>1, <4>3
            <4>5. votedFor[n] = x.cand /\ x.cand # None
                BY <4>3, <4>4, ConstantsOK DEF MemoryAhead, TypeOK
            <4>6. votedFor[n] \in {None, m.src}
                BY <1>0, <1>3, <4>3 DEF Grants, VoteAfter, Newer
            <4>. QED
                BY <4>2, <4>5, <4>6
        <3>. QED
            BY <1>3, <2>1, <3>1
    <2>. QED
        BY <2>2, <2>3
<1>. QED
    BY SaveCases, <1>2, <1>3

\* No step gives a voter a second vote in a term.
LEMMA VotesUniqueNext ==
    /\ TypeOK /\ TypeOK' /\ MemoryAhead /\ VoteRemembered /\ VotesUnique
    /\ [Next]_vars
    => VotesUnique'
<1>. SUFFICES ASSUME TypeOK, TypeOK', MemoryAhead, VoteRemembered, VotesUnique,
                     [Next]_vars
              PROVE  VotesUnique'
    OBVIOUS
<1>1. CASE UNCHANGED votes
    BY <1>1 DEF VotesUnique
<1>2. ASSUME NEW v \in Node, NEW t \in Terms, NEW c \in Node, CastsAbove(v, t, c)
      PROVE  VotesUnique'
    <2>1. \A x \in votes : x.voter = v => x.term # t
        BY <1>2, ConstantsOK DEF CastsAbove, TypeOK, Terms
    <2>. QED
        BY <1>2, <2>1 DEF CastsAbove, VotesUnique, Vote
<1>. QED
    BY <1>1, <1>2, VotesAreCast

-----------------------------------------------------------------------------
(* What is on the wire, and who has won. *)

\* Every VOTE_RESP that a handler sends carries a vote cast and saved.
LEMMA AnswersCastNext == TypeOK /\ AnswersCast /\ [Next]_vars => AnswersCast'
<1>. SUFFICES ASSUME TypeOK, AnswersCast, [Next]_vars PROVE AnswersCast'
    OBVIOUS
<1>. USE DEF AnswersCast
<1>1. ASSUME NEW n \in Node, BecomeCandidate(n) PROVE AnswersCast'
    BY <1>1 DEF BecomeCandidate, ToPeers, Vote
<1>2. ASSUME NEW n \in Node, Heartbeat(n) \/ FirstHeartbeat(n)
      PROVE  AnswersCast'
    BY <1>2 DEF Heartbeat, FirstHeartbeat, ToPeers, Vote, history
<1>3. ASSUME NEW n \in Node, NEW m \in net, GrantVote(n, m) PROVE AnswersCast'
    BY <1>3 DEF GrantVote, Deliver, Vote
<1>4. CASE net' \subseteq net /\ UNCHANGED votes
    BY <1>4 DEF Vote
<1>5. ASSUME NEW n \in Node, NEW m \in net,
             \/ RefuseVote(n, m) \/ CountVote(n, m) \/ IgnoreVote(n, m)
             \/ AcceptHeartbeat(n, m) \/ IgnoreHeartbeat(n, m)
             \/ StepDownSaveFails(n, m) \/ GrantSaveFails(n, m)
             \/ CrashInHandler(n, m)
      PROVE  net' \subseteq net /\ UNCHANGED votes
    BY <1>5 DEF RefuseVote, CountVote, IgnoreVote, AcceptHeartbeat,
        IgnoreHeartbeat, StepDownSaveFails, GrantSaveFails, CrashInHandler, Boot,
        Deliver, history
<1>6. ASSUME NEW n \in Node, CandidateSaveFails(n) \/ Restart(n)
      PROVE  net' \subseteq net /\ UNCHANGED votes
    BY <1>6 DEF CandidateSaveFails, Restart, Boot, history
<1>7. ASSUME NEW m \in net, Lose(m) PROVE net' \subseteq net /\ UNCHANGED votes
    BY <1>7 DEF Lose, history
<1>8. UNCHANGED vars => net' \subseteq net /\ UNCHANGED votes
    BY DEF vars, history
<1>. QED
    BY <1>1, <1>2, <1>3, <1>4, <1>5, <1>6, <1>7, <1>8
    DEF Next, RunLoop, HandleMessage

\* Leaders, their pending task and their heartbeats come from elections won.
LEMMA LeadersWonNext == TypeOK /\ LeadersWon /\ [Next]_vars => LeadersWon'
<1>. SUFFICES ASSUME TypeOK, LeadersWon, [Next]_vars PROVE LeadersWon'
    OBVIOUS
<1>. USE DEF LeadersWon
<1>1. ASSUME NEW n \in Node, BecomeCandidate(n) PROVE LeadersWon'
    BY <1>1 DEF TypeOK, BecomeCandidate, TimesOut, ToPeers
<1>2. ASSUME NEW n \in Node, CandidateSaveFails(n) PROVE LeadersWon'
    BY <1>2 DEF TypeOK, CandidateSaveFails, TimesOut
<1>3. ASSUME NEW n \in Node, Heartbeat(n) PROVE LeadersWon'
    BY <1>3 DEF Heartbeat, ToPeers, nodeVars, history
<1>4. ASSUME NEW n \in Node, FirstHeartbeat(n) PROVE LeadersWon'
    BY <1>4 DEF TypeOK, FirstHeartbeat, ToPeers, history
<1>5. ASSUME NEW n \in Node, Restart(n) PROVE LeadersWon'
    BY <1>5 DEF TypeOK, Restart, Boot, history
<1>6. ASSUME NEW n \in Node, NEW m \in net,
             RefuseVote(n, m) \/ IgnoreVote(n, m) \/ GrantVote(n, m)
                \/ GrantSaveFails(n, m)
      PROVE  LeadersWon'
    <2>1. /\ state' = [state EXCEPT ![n] = StateAfter(n, m)]
          /\ currentTerm' = [currentTerm EXCEPT ![n] = TermAfter(n, m)]
          /\ ~hbTask[n] /\ UNCHANGED <<hbTask, elected>>
        BY <1>6 DEF RefuseVote, IgnoreVote, GrantVote, GrantSaveFails, AdoptTerm,
            Receive, history
    <2>2. \A p \in net' : p.type = "APPEND_REQ" => p \in net
        BY <1>6 DEF RefuseVote, IgnoreVote, GrantVote, GrantSaveFails, Deliver
    <2>. QED
        BY <2>1, <2>2 DEF TypeOK, StateAfter, TermAfter
<1>7. ASSUME NEW n \in Node, NEW m \in net, CountVote(n, m) PROVE LeadersWon'
    BY <1>7 DEF TypeOK, CountVote, Receive, Deliver
<1>8. ASSUME NEW n \in Node, NEW m \in net,
             AcceptHeartbeat(n, m) \/ StepDownSaveFails(n, m)
      PROVE  LeadersWon'
    <2>1. /\ state' = [state EXCEPT ![n] = "FOLLOWER"]
          /\ currentTerm' = [currentTerm EXCEPT ![n] = TermAfter(n, m)]
          /\ ~hbTask[n] /\ UNCHANGED <<hbTask, elected>> /\ net' \subseteq net
        BY <1>8 DEF AcceptHeartbeat, StepDownSaveFails, AdoptTerm, Receive,
            Deliver, history
    <2>. QED
        BY <2>1 DEF TypeOK
<1>9. ASSUME NEW n \in Node, NEW m \in net, IgnoreHeartbeat(n, m)
      PROVE  LeadersWon'
    BY <1>9 DEF IgnoreHeartbeat, Deliver, nodeVars, history
<1>10. ASSUME NEW n \in Node, NEW m \in net, CrashInHandler(n, m)
       PROVE  LeadersWon'
    BY <1>10 DEF TypeOK, CrashInHandler, Boot, Deliver, history
<1>11. ASSUME NEW m \in net, Lose(m) PROVE LeadersWon'
    BY <1>11 DEF Lose, nodeVars, history
<1>12. CASE UNCHANGED vars
    BY <1>12 DEF vars, nodeVars, history
<1>. QED
    BY <1>1, <1>2, <1>3, <1>4, <1>5, <1>6, <1>7, <1>8, <1>9, <1>10, <1>11, <1>12
    DEF Next, RunLoop, HandleMessage

\* A handler names a leader to a follower only from a heartbeat of its term.
LEMMA LeaderIsElectedNext ==
    TypeOK /\ LeadersWon /\ LeaderIsElected /\ [Next]_vars => LeaderIsElected'
<1>. SUFFICES ASSUME TypeOK, LeadersWon, LeaderIsElected, [Next]_vars
              PROVE  LeaderIsElected'
    OBVIOUS
<1>. USE DEF LeaderIsElected
<1>1. ASSUME NEW n \in Node, BecomeCandidate(n) \/ CandidateSaveFails(n)
      PROVE  LeaderIsElected'
    <2>1. TimesOut(n)
        BY <1>1 DEF BecomeCandidate, CandidateSaveFails
    <2>. QED
        BY <2>1 DEF TypeOK, TimesOut
<1>2. ASSUME NEW n \in Node, Restart(n) PROVE LeaderIsElected'
    BY <1>2 DEF TypeOK, Restart, Boot, history
<1>3. ASSUME NEW n \in Node, NEW m \in net,
             RefuseVote(n, m) \/ IgnoreVote(n, m) \/ GrantVote(n, m)
                \/ GrantSaveFails(n, m)
      PROVE  LeaderIsElected'
    <2>1. /\ state' = [state EXCEPT ![n] = StateAfter(n, m)]
          /\ currentTerm' = [currentTerm EXCEPT ![n] = TermAfter(n, m)]
          /\ leaderId' = [leaderId EXCEPT ![n] = LeaderAfter(n, m)]
          /\ UNCHANGED elected
        BY <1>3 DEF RefuseVote, IgnoreVote, GrantVote, GrantSaveFails, AdoptTerm,
            history
    <2>. QED
        BY <2>1 DEF TypeOK, StateAfter, TermAfter, LeaderAfter
<1>4. ASSUME NEW n \in Node, NEW m \in net, CountVote(n, m)
      PROVE  LeaderIsElected'
    BY <1>4 DEF TypeOK, CountVote
<1>5. ASSUME NEW n \in Node, NEW m \in net, AcceptHeartbeat(n, m)
      PROVE  LeaderIsElected'
    <2>1. m.term = TermAfter(n, m) /\ <<m.src, m.term>> \in elected
        BY <1>5, AfterTypes, SMTT(30) DEF AcceptHeartbeat, Follows, Receive, LeadersWon,
            TermAfter, Newer, TypeOK, Packet, Terms
    <2>. QED
        BY <1>5, <2>1 DEF TypeOK, AcceptHeartbeat, AdoptTerm, history
<1>6. ASSUME NEW n \in Node, NEW m \in net, StepDownSaveFails(n, m)
      PROVE  LeaderIsElected'
    BY <1>6 DEF TypeOK, StepDownSaveFails, AdoptTerm, history
<1>7. ASSUME NEW n \in Node, NEW m \in net, CrashInHandler(n, m)
      PROVE  LeaderIsElected'
    BY <1>7 DEF TypeOK, CrashInHandler, Boot, history
<1>8. CASE UNCHANGED <<state, leaderId, currentTerm, elected>>
    BY <1>8
<1>. QED
    BY <1>1, <1>2, <1>3, <1>4, <1>5, <1>6, <1>7, <1>8
    DEF Next, RunLoop, HandleMessage, Heartbeat, FirstHeartbeat,
        IgnoreHeartbeat, Lose, vars, nodeVars, history

-----------------------------------------------------------------------------
(* Whatever the network does. *)

\* Durable holds when the cluster starts, whatever the files say.
LEMMA DurableInit == Init => Durable
<1>. SUFFICES ASSUME Init PROVE Durable
    OBVIOUS
<1>1. TypeOK
    BY TypeInit
<1>2. /\ MemoryAhead /\ VoteRemembered /\ VotesUnique /\ AnswersCast
      /\ LeadersWon /\ LeaderIsElected
    BY <1>1 DEF TypeOK, Record, Init, MemoryAhead, VoteRemembered, VotesUnique,
        AnswersCast, LeadersWon, LeaderIsElected
<1>. QED
    BY <1>1, <1>2 DEF Durable

\* Every step keeps Durable, duplicated datagrams included.
LEMMA DurableNext == Durable /\ [Next]_vars => Durable'
    BY TypeNext, MemoryAheadNext, VoteRememberedNext, VotesUniqueNext,
       AnswersCastNext,       LeadersWonNext, LeaderIsElectedNext DEF Durable

\* The invariant on which everything rests that the network cannot break.
THEOREM DurableHolds == Spec => []Durable
    BY DurableInit, DurableNext, PTL DEF Spec

\* Every variable keeps its type.
THEOREM TypeCorrect == Spec => []TypeOK
<1>1. Durable => TypeOK
    BY DEF Durable
<1>. QED
    BY <1>1, DurableHolds, PTL

\* A vote is on the disk of its voter until a later term replaces it.
THEOREM VotesAreRemembered == Spec => []VoteRemembered
<1>1. Durable => VoteRemembered
    BY DEF Durable
<1>. QED
    BY <1>1, DurableHolds, PTL

\* The leader a follower names has won the follower's term.
THEOREM LeadersAreElected == Spec => []LeaderIsElected
<1>1. Durable => LeaderIsElected
    BY DEF Durable
<1>. QED
    BY <1>1, DurableHolds, PTL

\* No save takes a state file back.
THEOREM FilesMoveForward == Spec => FileForward
<1>1. Durable /\ [Next]_vars => [FilesAdvance]_file
    BY FilesAdvanceNext DEF Durable
<1>. QED
    BY <1>1, DurableHolds, PTL DEF Spec, FileForward, FilesAdvance

-----------------------------------------------------------------------------
(* When no datagram is delivered twice. *)

\* The term on disk never falls.
LEMMA FileTermGrows ==
    ASSUME Durable, [Next]_vars, NEW n \in Node
    PROVE  /\ file[n].term \in Nat /\ file'[n].term \in Nat
           /\ file[n].term <= file'[n].term
<1>1. TypeOK /\ TypeOK' /\ FilesAdvance
    BY DurableNext, FilesAdvanceNext DEF Durable
<1>. QED
    BY <1>1 DEF TypeOK, Record, FilesAdvance

\* Without duplicates a delivered datagram is gone.
LEMMA DeliverOnce ==
    ASSUME TypeOK, MaxDuplicate = 0, NEW m, NEW out, Deliver(m, out)
    PROVE  net' = (net \ {m}) \cup out
    BY DEF Deliver, TypeOK

\* The steps that neither campaign, vote nor count a vote.
Quiet ==
    /\ \A n \in Node :
          state'[n] = "CANDIDATE" =>
              /\ state[n] = "CANDIDATE"
              /\ currentTerm'[n] = currentTerm[n]
              /\ votedFor'[n] = votedFor[n] \/ votedFor'[n] = n
              /\ votesReceived'[n] = votesReceived[n]
              /\ file'[n] = file[n] \/ file'[n].term < currentTerm[n]
    /\ UNCHANGED <<votes, elected>>
    /\ \A m \in net' : m.type \in {"VOTE_REQ", "VOTE_RESP"} => m \in net

\* Every step is quiet or one of the four that touch the election.
LEMMA StepKinds ==
    ASSUME Durable, CandidatesSaved, [Next]_vars
    PROVE  \/ Quiet
           \/ \E n \in Node : BecomeCandidate(n) \/ CandidateSaveFails(n)
           \/ \E n \in Node, m \in net : GrantVote(n, m) \/ CountVote(n, m)
<1>. USE DEF Quiet
<1>0. TypeOK
    BY DEF Durable
<1>1. ASSUME NEW n \in Node, Heartbeat(n) \/ FirstHeartbeat(n) PROVE Quiet
    BY <1>1 DEF Heartbeat, FirstHeartbeat, ToPeers, nodeVars, history
<1>2. ASSUME NEW n \in Node, Restart(n) PROVE Quiet
    BY <1>0, <1>2 DEF TypeOK, Restart, Boot, history
<1>3. ASSUME NEW n \in Node, NEW m \in net, RefuseVote(n, m) \/ IgnoreVote(n, m)
      PROVE  Quiet
    BY <1>0, <1>3 DEF TypeOK, RefuseVote, IgnoreVote, AdoptTerm, Deliver, history,
        StateAfter, TermAfter, VoteAfter, FileAfter
<1>4. ASSUME NEW n \in Node, NEW m \in net, GrantSaveFails(n, m) PROVE Quiet
    BY <1>0, <1>4, ConstantsOK DEF TypeOK, GrantSaveFails, AdoptTerm, Deliver, history, Grants,
        StateAfter, TermAfter, VoteAfter, FileAfter, CandidatesSaved
<1>5. ASSUME NEW n \in Node, NEW m \in net,
             AcceptHeartbeat(n, m) \/ StepDownSaveFails(n, m)
      PROVE  Quiet
    BY <1>0, <1>5 DEF TypeOK, AcceptHeartbeat, StepDownSaveFails, AdoptTerm,
        Deliver, history
<1>6. ASSUME NEW n \in Node, NEW m \in net, CrashInHandler(n, m) PROVE Quiet
    BY <1>0, <1>6 DEF TypeOK, CrashInHandler, Boot, Deliver, history
<1>7. ASSUME NEW n \in Node, NEW m \in net, IgnoreHeartbeat(n, m) PROVE Quiet
    BY <1>7 DEF IgnoreHeartbeat, Deliver, nodeVars, history
<1>8. ASSUME NEW m \in net, Lose(m) PROVE Quiet
    BY <1>8 DEF Lose, nodeVars, history
<1>9. CASE UNCHANGED vars
    BY <1>9 DEF vars, nodeVars, history
<1>. QED
    BY <1>1, <1>2, <1>3, <1>4, <1>5, <1>6, <1>7, <1>8, <1>9
    DEF Next, RunLoop, HandleMessage

\* Votes and requests stay within the terms their candidates have saved.
LEMMA CandidatesSavedNext ==
    Durable /\ CandidatesSaved /\ [Next]_vars => CandidatesSaved'
<1>. SUFFICES ASSUME Durable, CandidatesSaved, [Next]_vars PROVE CandidatesSaved'
    OBVIOUS
<1>. USE DEF CandidatesSaved
<1>0. /\ TypeOK /\ TypeOK'
      /\ \A n \in Node : /\ file[n].term \in Nat /\ file'[n].term \in Nat
                         /\ file[n].term <= file'[n].term
      /\ \A m \in net : m.term \in Nat /\ m.src \in Node
      /\ \A v \in votes : v.term \in Nat /\ v.cand \in Node
    BY DurableNext, FileTermGrows, ConstantsOK DEF Durable, TypeOK, Packet, Terms
<1>1. CASE Quiet
    BY <1>0, <1>1 DEF Quiet
<1>2. ASSUME NEW n \in Node, BecomeCandidate(n) PROVE CandidatesSaved'
    <2>1. /\ file'[n].term = currentTerm[n] + 1
          /\ votes' = votes \cup {Vote(n, currentTerm[n] + 1, n)}
          /\ net' = net \cup ToPeers(n, "VOTE_REQ", currentTerm[n] + 1)
          /\ \A p \in Node : state'[p] = "CANDIDATE" => votedFor'[p] = p
        BY <1>0, <1>2 DEF TypeOK, BecomeCandidate, TimesOut
    <2>. QED
        BY <1>0, <2>1 DEF Vote, ToPeers
<1>3. ASSUME NEW n \in Node, CandidateSaveFails(n) PROVE CandidatesSaved'
    BY <1>0, <1>3 DEF TypeOK, CandidateSaveFails, TimesOut
<1>4. ASSUME NEW n \in Node, NEW m \in net, GrantVote(n, m)
      PROVE  CandidatesSaved'
    <2>1. m.type = "VOTE_REQ" /\ TermAfter(n, m) = m.term
        BY <1>0, <1>4, AfterTypes DEF GrantVote, Receive
    <2>2. \A p \in net' : p.type = "VOTE_REQ" => p \in net
        BY <1>4 DEF GrantVote, Deliver
    <2>3. \A p \in Node : state'[p] = "CANDIDATE" => votedFor'[p] = p
        BY <1>0, <1>4, ConstantsOK
        DEF TypeOK, GrantVote, Grants, StateAfter, VoteAfter
    <2>4. votes' = votes \cup {Vote(n, m.term, m.src)}
        BY <1>4, <2>1 DEF GrantVote
    <2>. QED
        BY <1>0, <2>1, <2>2, <2>3, <2>4 DEF Vote
<1>5. ASSUME NEW n \in Node, NEW m \in net, CountVote(n, m)
      PROVE  CandidatesSaved'
    BY <1>0, <1>5 DEF TypeOK, CountVote, Deliver
<1>. QED
    BY <1>1, <1>2, <1>3, <1>4, <1>5, StepKinds

\* A request in flight stays unanswered: its only answer removes it.
LEMMA RequestsOpenNext ==
    ASSUME MaxDuplicate = 0
    PROVE  Durable /\ CandidatesSaved /\ RequestsOpen /\ [Next]_vars
               => RequestsOpen'
<1>. SUFFICES ASSUME Durable, CandidatesSaved, RequestsOpen, [Next]_vars
              PROVE  RequestsOpen'
    OBVIOUS
<1>. USE DEF RequestsOpen
<1>0. TypeOK
    BY DEF Durable
<1>1. CASE Quiet
    BY <1>1 DEF Quiet, Vote
<1>2. ASSUME NEW n \in Node, BecomeCandidate(n) PROVE RequestsOpen'
    <2>1. /\ votes' = votes \cup {Vote(n, currentTerm[n] + 1, n)}
          /\ net' = net \cup ToPeers(n, "VOTE_REQ", currentTerm[n] + 1)
        BY <1>2 DEF BecomeCandidate
    <2>2. file[n].term < currentTerm[n] + 1
          /\ file[n].term \in Nat /\ currentTerm[n] + 1 \in Nat
        BY <1>0 DEF TypeOK, Durable, MemoryAhead, Record
    <2>3. \A p \in Node : Vote(p, currentTerm[n] + 1, n) \notin votes
        BY <2>2 DEF CandidatesSaved, Vote
    <2>4. \A p \in net : p.type = "VOTE_REQ" /\ p.src = n
                            => p.term # currentTerm[n] + 1
        BY <2>2 DEF CandidatesSaved
    <2>. QED
        BY <2>1, <2>3, <2>4 DEF Vote, ToPeers
<1>3. ASSUME NEW n \in Node, CandidateSaveFails(n) PROVE RequestsOpen'
    BY <1>3 DEF CandidateSaveFails, Vote
<1>4. ASSUME NEW n \in Node, NEW m \in net, GrantVote(n, m)
      PROVE  RequestsOpen'
    <2>1. /\ m.type = "VOTE_REQ" /\ m.dst = n /\ TermAfter(n, m) = m.term
          /\ votes' = votes \cup {Vote(m.dst, m.term, m.src)}
        BY <1>0, <1>4, AfterTypes DEF GrantVote, Receive
    <2>2. \A p \in net' : p.type = "VOTE_REQ" => p \in net /\ p # m
        BY <1>0, <1>4, DeliverOnce DEF GrantVote
    <2>3. \A p \in net : p.type = "VOTE_REQ" /\ p # m =>
              Vote(p.dst, p.term, p.src) # Vote(m.dst, m.term, m.src)
        BY <1>0, <2>1 DEF TypeOK, Packet, Vote
    <2>. QED
        BY <2>1, <2>2, <2>3
<1>5. ASSUME NEW n \in Node, NEW m \in net, CountVote(n, m)
      PROVE  RequestsOpen'
    BY <1>5 DEF CountVote, Deliver, Vote
<1>. QED
    BY <1>1, <1>2, <1>3, <1>4, <1>5, StepKinds

\* The voters of a candidate are a finite set of nodes.
LEMMA VotersAreNodes ==
    ASSUME NEW c, NEW t
    PROVE  /\ VotersFor(c, t) \subseteq Node /\ IsFiniteSet(VotersFor(c, t))
           /\ Cardinality(VotersFor(c, t)) \in Nat
<1>1. VotersFor(c, t) \subseteq Node
    BY DEF VotersFor
<1>. QED
    BY <1>1, ConstantsOK, FS_Subset, FS_CardinalityType

\* More votes never make the set of voters of a candidate smaller.
LEMMA VotersGrow ==
    ASSUME votes \subseteq votes', NEW c, NEW t
    PROVE  /\ Cardinality(VotersFor(c, t)) \in Nat
           /\ Cardinality(VotersFor(c, t)') \in Nat
           /\ Cardinality(VotersFor(c, t)) <= Cardinality(VotersFor(c, t)')
<1>1. VotersFor(c, t) \subseteq VotersFor(c, t)' /\ VotersFor(c, t)' \subseteq Node
    BY DEF VotersFor
<1>2. IsFiniteSet(VotersFor(c, t)')
    BY <1>1, ConstantsOK, FS_Subset
<1>. QED
    BY <1>1, <1>2, VotersAreNodes, FS_Subset, FS_CardinalityType

\* Those a candidate heard from are some of its voters.
LEMMA HeardFinite ==
    ASSUME NEW n
    PROVE  /\ Heard(n) \subseteq VotersFor(n, currentTerm[n])
           /\ IsFiniteSet(Heard(n)) /\ Cardinality(Heard(n)) \in Nat
           /\ Cardinality(Heard(n)) <= Cardinality(VotersFor(n, currentTerm[n]))
<1>1. Heard(n) \subseteq VotersFor(n, currentTerm[n])
    BY DEF Heard
<1>. QED
    BY <1>1, VotersAreNodes, FS_Subset, FS_CardinalityType

\* A candidate that stays in its term loses nobody it heard from.
LEMMA HeardGrows ==
    ASSUME NEW n \in Node, currentTerm'[n] = currentTerm[n], votes \subseteq votes',
           \A m \in net' : m.type = "VOTE_RESP" /\ m.dst = n /\ m.src \in Heard(n)
                              /\ m.term = currentTerm[n] => m \in net
    PROVE  Cardinality(Heard(n)) <= Cardinality(Heard(n)')
<1>1. Heard(n) \subseteq Heard(n)'
    BY DEF Heard, VotersFor
<1>2. IsFiniteSet(Heard(n)')
    <2>1. Heard(n)' \subseteq Node
        BY DEF Heard, VotersFor
    <2>. QED
        BY <2>1, ConstantsOK, FS_Subset
<1>. QED
    BY <1>1, <1>2, FS_Subset

\* Counting a vote hears its sender, a voter not heard before.
LEMMA CountHears ==
    ASSUME MaxDuplicate = 0, Durable, CandidatesSaved,
           NEW n \in Node, NEW m \in net, CountVote(n, m)
    PROVE  /\ file[n].term = currentTerm[n]
           /\ currentTerm'[n] = currentTerm[n]
           /\ state[n] = "CANDIDATE"
           /\ Cardinality(Heard(n)') = Cardinality(Heard(n)) + 1
<1>0. TypeOK
    BY DEF Durable
<1>1. /\ m.type = "VOTE_RESP" /\ m.dst = n /\ m.term = currentTerm[n]
      /\ state[n] = "CANDIDATE" /\ m.src \in Node
    BY <1>0 DEF CountVote, Receive, Counts, StateAfter, TermAfter, Newer, TypeOK,
        Packet
<1>2. net' = net \ {m} /\ UNCHANGED <<votes, currentTerm>>
    BY <1>0, DeliverOnce DEF CountVote
<1>3. Vote(m.src, currentTerm[n], n) \in votes
    BY <1>1 DEF Durable, AnswersCast
<1>4. file[n].term = currentTerm[n]
    <2>1. currentTerm[n] <= file[n].term
        BY <1>3 DEF CandidatesSaved, Vote
    <2>2. file[n].term <= currentTerm[n]
        BY DEF Durable, MemoryAhead
    <2>3. file[n].term \in Nat /\ currentTerm[n] \in Nat
        BY <1>0 DEF TypeOK, Record
    <2>. QED
        BY <2>1, <2>2, <2>3
<1>5. m = [type |-> "VOTE_RESP", term |-> currentTerm[n], src |-> m.src, dst |-> n]
    BY <1>0, <1>1 DEF TypeOK, Packet
<1>6. Heard(n)' = Heard(n) \cup {m.src} /\ m.src \notin Heard(n)
    BY <1>1, <1>2, <1>3, <1>5 DEF Heard, VotersFor
<1>7. Cardinality(Heard(n) \cup {m.src}) = Cardinality(Heard(n)) + 1
    BY <1>6, HeardFinite, FS_AddElement
<1>. QED
    BY <1>1, <1>2, <1>4, <1>6, <1>7

\* No step makes a candidate count a vote it was not given.
LEMMA TallyHonestNext ==
    ASSUME MaxDuplicate = 0
    PROVE  /\ Durable /\ CandidatesSaved /\ RequestsOpen /\ TallyHonest
           /\ [Next]_vars
           => TallyHonest'
<1>. SUFFICES ASSUME Durable, CandidatesSaved, RequestsOpen, TallyHonest,
                     [Next]_vars, NEW p \in Node, state'[p] = "CANDIDATE",
                     file'[p].term = currentTerm'[p]
              PROVE  votesReceived'[p] <= Cardinality(Heard(p)')
    BY DEF TallyHonest
<1>0. /\ TypeOK /\ TypeOK'
      /\ Cardinality(Heard(p)) \in Nat /\ Cardinality(Heard(p)') \in Nat
      /\ \A n \in Node : votesReceived[n] \in Nat /\ currentTerm[n] \in Nat
    <2>1. Cardinality(Heard(p)') \in Nat
        <3>1. Heard(p)' \subseteq Node
            BY DEF Heard, VotersFor
        <3>. QED
            BY <3>1, ConstantsOK, FS_Subset, FS_CardinalityType
    <2>. QED
        BY <2>1, DurableNext, HeardFinite DEF Durable, TypeOK
<1>1. ASSUME state[p] = "CANDIDATE", file[p].term = currentTerm[p],
             votesReceived'[p] = votesReceived[p],
             Cardinality(Heard(p)) <= Cardinality(Heard(p)')
      PROVE  votesReceived'[p] <= Cardinality(Heard(p)')
    BY <1>0, <1>1 DEF TallyHonest
<1>2. CASE Quiet
    <2>1. /\ state[p] = "CANDIDATE" /\ file[p].term = currentTerm[p]
          /\ currentTerm'[p] = currentTerm[p]
          /\ votesReceived'[p] = votesReceived[p]
        BY <1>2, <1>0, SMTT(30) DEF Quiet, TypeOK, Record
    <2>2. Cardinality(Heard(p)) <= Cardinality(Heard(p)')
        BY <1>2, <2>1, HeardGrows DEF Quiet
    <2>. QED
        BY <1>1, <2>1, <2>2
<1>3. ASSUME NEW n \in Node, BecomeCandidate(n)
      PROVE  votesReceived'[p] <= Cardinality(Heard(p)')
    <2>0. /\ votes' = votes \cup {Vote(n, currentTerm[n] + 1, n)}
          /\ net' = net \cup ToPeers(n, "VOTE_REQ", currentTerm[n] + 1)
          /\ currentTerm' = [currentTerm EXCEPT ![n] = @ + 1]
          /\ votesReceived' = [votesReceived EXCEPT ![n] = 1]
          /\ state' = [state EXCEPT ![n] = "CANDIDATE"]
          /\ file' = [file EXCEPT ![n] = [term |-> currentTerm[n] + 1, votedFor |-> n]]
        BY <1>3 DEF BecomeCandidate, TimesOut
    <2>1. CASE p # n
        <3>1. Cardinality(Heard(p)) <= Cardinality(Heard(p)')
            BY <1>0, <2>0, <2>1, HeardGrows DEF TypeOK, ToPeers
        <3>. QED
            BY <1>0, <1>1, <2>0, <2>1, <3>1 DEF TypeOK
    <2>2. CASE p = n
        <3>1. /\ currentTerm'[n] = currentTerm[n] + 1 /\ votesReceived'[n] = 1
              /\ file[n].term \in Nat /\ file[n].term < currentTerm[n] + 1
            BY <1>0, <2>0 DEF TypeOK, Durable, MemoryAhead, Record
        <3>2. Vote(n, currentTerm[n] + 1, n) \notin votes
            BY <1>0, <3>1 DEF CandidatesSaved, Vote
        <3>3. [type |-> "VOTE_RESP", term |-> currentTerm[n] + 1,
               src |-> n, dst |-> n] \notin net'
            BY <2>0, <3>2 DEF Durable, AnswersCast, ToPeers, Vote
        <3>4. {n} \subseteq Heard(n)' /\ IsFiniteSet(Heard(n)')
            <4>1. n \in Heard(n)'
                BY <2>0, <3>1, <3>3 DEF Heard, VotersFor
            <4>2. Heard(n)' \subseteq Node
                BY DEF Heard, VotersFor
            <4>. QED
                BY <4>1, <4>2, ConstantsOK, FS_Subset
        <3>5. Cardinality({n}) = 1 /\ Cardinality({n}) <= Cardinality(Heard(n)')
            BY <3>4, FS_Subset, FS_Singleton
        <3>. QED
            BY <2>2, <3>1, <3>5
    <2>. QED
        BY <2>1, <2>2
<1>4. ASSUME NEW n \in Node, CandidateSaveFails(n)
      PROVE  votesReceived'[p] <= Cardinality(Heard(p)')
    <2>1. p # n
        BY <1>0, <1>4 DEF CandidateSaveFails, TimesOut, TypeOK, Durable, MemoryAhead,
            Record
    <2>2. Cardinality(Heard(p)) <= Cardinality(Heard(p)')
        BY <1>0, <1>4, <2>1, HeardGrows DEF CandidateSaveFails, TimesOut, TypeOK
    <2>. QED
        BY <1>0, <1>1, <1>4, <2>1, <2>2 DEF CandidateSaveFails, TimesOut, TypeOK
<1>5. ASSUME NEW n \in Node, NEW m \in net, GrantVote(n, m)
      PROVE  votesReceived'[p] <= Cardinality(Heard(p)')
    <2>. DEFINE resp == [type |-> "VOTE_RESP", term |-> m.term,
                         src |-> n, dst |-> m.src]
    <2>1. /\ m.type = "VOTE_REQ" /\ m.dst = n /\ TermAfter(n, m) = m.term
          /\ votes' = votes \cup {Vote(n, m.term, m.src)}
          /\ net' = (net \ {m}) \cup {resp}
          /\ Vote(n, m.term, m.src) \notin votes
        BY <1>0, <1>5, AfterTypes, DeliverOnce DEF GrantVote, Receive, RequestsOpen
    <2>2. /\ state[p] = "CANDIDATE" /\ file[p].term = currentTerm[p]
          /\ currentTerm'[p] = currentTerm[p]
          /\ votesReceived'[p] = votesReceived[p]
        <3>1. CASE p # n
            BY <1>0, <1>5, <3>1 DEF GrantVote, AdoptTerm, TypeOK
        <3>2. CASE p = n
            <4>1. state[n] = "CANDIDATE" /\ ~Newer(n, m)
                BY <1>0, <1>5, <3>2 DEF GrantVote, TypeOK, StateAfter
            <4>2. m.src = n /\ m.term = currentTerm[n]
                BY <1>0, <1>5, <2>1, <4>1, ConstantsOK
                DEF GrantVote, Grants, VoteAfter, TermAfter, CandidatesSaved
            <4>3. file[n].term = currentTerm[n]
                <5>1. currentTerm[n] <= file[n].term
                    BY <2>1, <4>2 DEF CandidatesSaved
                <5>2. file[n].term <= currentTerm[n]
                    BY DEF Durable, MemoryAhead
                <5>3. file[n].term \in Nat /\ currentTerm[n] \in Nat
                    BY <1>0 DEF TypeOK, Record
                <5>. QED
                    BY <5>1, <5>2, <5>3
            <4>. QED
                BY <1>0, <1>5, <2>1, <3>2, <4>1, <4>2, <4>3
                DEF GrantVote, AdoptTerm, TypeOK
        <3>. QED
            BY <3>1, <3>2
    <2>3. \A q \in net' :
              q.type = "VOTE_RESP" /\ q.dst = p /\ q.src \in Heard(p)
                 /\ q.term = currentTerm[p] => q \in net
        <3>1. resp.dst = p /\ resp.term = currentTerm[p] => resp.src \notin Heard(p)
            BY <2>1 DEF Heard, VotersFor
        <3>. QED
            BY <2>1, <3>1
    <2>4. Cardinality(Heard(p)) <= Cardinality(Heard(p)')
        BY <2>1, <2>2, <2>3, HeardGrows
    <2>. QED
        BY <1>1, <2>2, <2>4
<1>6. ASSUME NEW n \in Node, NEW m \in net, CountVote(n, m)
      PROVE  votesReceived'[p] <= Cardinality(Heard(p)')
    <2>1. CASE p # n
        <3>1. Cardinality(Heard(p)) <= Cardinality(Heard(p)')
            BY <1>0, <1>6, HeardGrows DEF CountVote, Deliver
        <3>. QED
            BY <1>0, <1>1, <1>6, <2>1, <3>1 DEF CountVote, TypeOK
    <2>2. CASE p = n
        <3>1. votesReceived[n] <= Cardinality(Heard(n))
            BY <1>6, CountHears DEF TallyHonest
        <3>2. votesReceived'[n] = votesReceived[n] + 1
            BY <1>0, <1>6 DEF CountVote, TypeOK
        <3>. QED
            BY <1>0, <1>6, <2>2, <3>1, <3>2, CountHears
    <2>. QED
        BY <2>1, <2>2
<1>. QED
    BY <1>2, <1>3, <1>4, <1>5, <1>6, StepKinds

\* A node becomes leader only on a majority, and majorities are not lost.
LEMMA LeaderHasMajorityNext ==
    ASSUME MaxDuplicate = 0
    PROVE  /\ Durable /\ CandidatesSaved /\ TallyHonest /\ LeaderHasMajority
           /\ [Next]_vars
           => LeaderHasMajority'
<1>. SUFFICES ASSUME Durable, CandidatesSaved, TallyHonest, LeaderHasMajority,
                     [Next]_vars, NEW l \in elected'
              PROVE  Cardinality(VotersFor(l[1], l[2])') >= Quorum
    BY DEF LeaderHasMajority, Quorum
<1>. DEFINE before == Cardinality(VotersFor(l[1], l[2]))
            after  == Cardinality(VotersFor(l[1], l[2])')
<1>1. Quorum \in Nat
    BY ConstantsOK, FS_CardinalityType DEF Quorum
<1>2. before \in Nat /\ after \in Nat /\ before <= after
    BY SaveCases, VotersGrow DEF Durable
<1>3. CASE l \in elected
    BY <1>1, <1>2, <1>3 DEF LeaderHasMajority
<1>4. CASE l \notin elected
    <2>1. PICK n \in Node, m \in net : CountVote(n, m)
        BY <1>4, StepKinds DEF Quiet, BecomeCandidate, CandidateSaveFails, TimesOut,
            GrantVote
    <2>2. /\ l = <<n, currentTerm[n]>> /\ votesReceived[n] + 1 >= Quorum
          /\ UNCHANGED votes
        BY <1>4, <2>1 DEF CountVote
    <2>3. /\ Cardinality(Heard(n)') = Cardinality(Heard(n)) + 1
          /\ votesReceived[n] <= Cardinality(Heard(n))
          /\ currentTerm'[n] = currentTerm[n]
        BY <2>1, CountHears DEF TallyHonest
    <2>4. Cardinality(Heard(n)') <= after
        <3>1. Heard(n)' \subseteq VotersFor(l[1], l[2])'
              /\ VotersFor(l[1], l[2])' \subseteq Node
            BY <2>2, <2>3 DEF Heard, VotersFor
        <3>. QED
            BY <3>1, ConstantsOK, FS_Subset
    <2>5. votesReceived[n] \in Nat /\ Cardinality(Heard(n)) \in Nat
        BY HeardFinite DEF Durable, TypeOK
    <2>. QED
        BY <1>1, <1>2, <2>2, <2>3, <2>4, <2>5
<1>. QED
    BY <1>3, <1>4

\* Nothing is voted, sent or won at the start.
LEMMA TallyInit == Init => Tally
    BY DEF Init, Tally, CandidatesSaved, RequestsOpen, TallyHonest,
        LeaderHasMajority

\* Every step keeps Tally when datagrams are delivered once.
LEMMA TallyNext ==
    ASSUME MaxDuplicate = 0
    PROVE  Durable /\ Tally /\ [Next]_vars => Tally'
    BY CandidatesSavedNext, RequestsOpenNext, TallyHonestNext,
       LeaderHasMajorityNext DEF Tally

\* Without duplicates, no candidate counts more votes than were cast for it.
THEOREM TallyHolds ==
    ASSUME MaxDuplicate = 0
    PROVE  Spec => [](Durable /\ Tally)
    BY DurableInit, DurableNext, TallyInit, TallyNext, PTL DEF Spec

\* Every election is won on the votes of a majority, unless datagrams are
\* duplicated.
THEOREM LeadersHaveMajorities ==
    ASSUME MaxDuplicate = 0
    PROVE  Spec => []LeaderHasMajority
<1>1. Tally => LeaderHasMajority
    BY DEF Tally
<1>. QED
    BY <1>1, TallyHolds, PTL

\* Two winners share a voter.
LEMMA MajoritiesMeet ==
    ASSUME LeaderHasMajority, NEW k \in elected, NEW l \in elected
    PROVE  \E v \in Node : Vote(v, k[2], k[1]) \in votes /\ Vote(v, l[2], l[1]) \in votes
<1>. DEFINE A == VotersFor(k[1], k[2])
            B == VotersFor(l[1], l[2])
<1>1. Cardinality(A) >= Quorum /\ Cardinality(B) >= Quorum
    BY DEF LeaderHasMajority
<1>2. A \cap B # {}
    <2>1. Cardinality(A) \in Nat /\ Cardinality(B) \in Nat /\ Cardinality(Node) \in Nat
        BY VotersAreNodes, ConstantsOK, FS_CardinalityType
    <2>2. Cardinality(A) + Cardinality(B) > Cardinality(Node)
        <3>. HIDE DEF A, B
        <3>. QED
            BY <1>1, <2>1 DEF Quorum
    <2>. QED
        BY <2>2, VotersAreNodes, ConstantsOK, FS_MajoritiesIntersect
<1>. QED
    BY <1>2 DEF VotersFor

\* Two winners of a term share a voter, who voted once in it.
LEMMA TallyUnique == Durable /\ Tally => OneLeaderPerTerm
<1>. SUFFICES ASSUME Durable, Tally, NEW k \in elected, NEW l \in elected,
                     k[2] = l[2]
              PROVE  k[1] = l[1]
    BY DEF OneLeaderPerTerm
<1>1. PICK v \in Node : Vote(v, k[2], k[1]) \in votes /\ Vote(v, l[2], l[1]) \in votes
    BY MajoritiesMeet DEF Tally
<1>. QED
    BY <1>1 DEF Durable, VotesUnique, Vote

\* No term has two leaders, for any cluster, files, crashes and failed saves,
\* unless datagrams are duplicated.
THEOREM ElectionSafety ==
    ASSUME MaxDuplicate = 0
    PROVE  Spec => []OneLeaderPerTerm
    BY TallyHolds, TallyUnique, PTL

-----------------------------------------------------------------------------
(* Refinement of the abstract election. *)

\* Every step is one of the abstract election, or stutters.
LEMMA ElectionNext ==
    ASSUME MaxDuplicate = 0
    PROVE  Durable /\ Tally /\ Tally' /\ [Next]_vars
               => [Election!Next]_(Election!vars)
<1>. SUFFICES ASSUME Durable, Tally, Tally', [Next]_vars
              PROVE  Election!Next \/ UNCHANGED Election!vars
    OBVIOUS
<1>1. CASE UNCHANGED elected
    <2>1. \/ UNCHANGED votes
          \/ \E v \in Node, t \in Terms, c \in Node : CastsAbove(v, t, c)
        BY VotesAreCast, DurableNext DEF Durable
    <2>2. ASSUME NEW v \in Node, NEW t \in Terms, NEW c \in Node, CastsAbove(v, t, c)
          PROVE  Election!Next
        <3>1. Election!Cast(v, t, c)
            BY <1>1, <2>2 DEF CastsAbove, Election!Cast, Vote
        <3>. QED
            BY <3>1 DEF Election!Next
    <2>. QED
        BY <1>1, <2>1, <2>2 DEF Election!vars
<1>2. ASSUME NEW n \in Node, NEW m \in net, CountVote(n, m), elected' # elected
      PROVE  Election!Next
    <2>1. elected' = elected \cup {<<n, currentTerm[n]>>} /\ UNCHANGED votes
        BY <1>2 DEF CountVote
    <2>2. currentTerm[n] \in Terms
        BY <1>2, <2>1, DurableNext DEF Durable, TypeOK
    <2>3. Cardinality({v \in Node : Vote(v, currentTerm[n], n) \in votes'}) >= Quorum
        <3>1. <<n, currentTerm[n]>> \in elected'
            BY <2>1
        <3>2. LeaderHasMajority'
            BY DEF Tally
        <3>. QED
            BY <3>1, <3>2 DEF LeaderHasMajority, VotersFor, Quorum
    <2>4. Election!VotersFor(n, currentTerm[n]) =
              {v \in Node : Vote(v, currentTerm[n], n) \in votes'}
        BY <2>1 DEF Election!VotersFor, Vote
    <2>5. Election!Lead(n, currentTerm[n])
        <3>1. \A S : Election!Cardinality(S) = Cardinality(S)
            BY Zenon DEF Election!Cardinality, Cardinality
        <3>. QED
            BY <2>1, <2>3, <2>4, <3>1 DEF Election!Lead, Election!Majority, Quorum
    <2>. QED
        BY <2>2, <2>5 DEF Election!Next
<1>3. UNCHANGED elected \/ \E n \in Node, m \in net : CountVote(n, m)
    <2>1. \A n \in Node : BecomeCandidate(n) \/ CandidateSaveFails(n)
                             => UNCHANGED elected
        BY DEF BecomeCandidate, CandidateSaveFails, TimesOut
    <2>2. \A n \in Node, m \in net : GrantVote(n, m) => UNCHANGED elected
        BY DEF GrantVote
    <2>. QED
        BY <2>1, <2>2, StepKinds DEF Quiet, Tally
<1>. QED
    BY <1>1, <1>2, <1>3

\* The cluster implements the abstract election: each of its steps casts one
\* vote, starts to lead on a majority, or changes neither.
THEOREM ImplementsElection ==
    ASSUME MaxDuplicate = 0
    PROVE  Spec => ElectionImplemented
<1>1. Init => Election!Init
    BY DEF Init, Election!Init
<1>. QED
    BY <1>1, ElectionNext, TallyHolds, PTL
    DEF Spec, ElectionImplemented, Election!Spec

-----------------------------------------------------------------------------
(* The abstract election by itself, in a finite cluster and any terms. *)

CONSTANT AnyTerm  \* the terms in which elections are held, beyond those of HelixRaft

Voting == INSTANCE TermVoting WITH Term <- AnyTerm, leaders <- elected

\* Voters, majorities and leaders are those of HelixRaft.
LEMMA VotingSets ==
    /\ \A c, t : Voting!VotersFor(c, t) = VotersFor(c, t)
    /\ \A S : Voting!Cardinality(S) = Cardinality(S)
    /\ Voting!Majority = Quorum
<1>1. \A S : Voting!Cardinality(S) = Cardinality(S)
    BY Zenon DEF Voting!Cardinality, Cardinality
<1>2. \A c, t : Voting!VotersFor(c, t) = VotersFor(c, t)
    BY DEF Voting!VotersFor, VotersFor, Vote
<1>. QED
    BY <1>1, <1>2 DEF Voting!Majority, Quorum

\* The inductive invariant: uniqueness of votes and the majority of a leader
\* are what makes leaders unique, and every step keeps them.
VotingInv == Voting!TypeOK /\ Voting!VotesUnique /\ LeaderHasMajority

\* Nobody has voted and nobody leads at the start.
LEMMA VotingInit == Voting!Init => VotingInv
    BY DEF Voting!Init, VotingInv, Voting!TypeOK, Voting!VotesUnique, LeaderHasMajority

\* Casting keeps votes unique and majorities; leading needs a majority.
LEMMA VotingNext ==
    ASSUME AnyTerm \subseteq Nat
    PROVE  VotingInv /\ [Voting!Next]_(Voting!vars) => VotingInv'
<1>. SUFFICES ASSUME VotingInv, [Voting!Next]_(Voting!vars) PROVE VotingInv'
    OBVIOUS
<1>. USE DEF VotingInv
<1>0. Quorum \in Nat
    BY ConstantsOK, FS_CardinalityType DEF Quorum
<1>1. ASSUME NEW v \in Node, NEW t \in AnyTerm, NEW c \in Node, Voting!Cast(v, t, c)
      PROVE  VotingInv'
    <2>1. Voting!TypeOK'
        BY <1>1 DEF Voting!TypeOK, Voting!Cast
    <2>2. Voting!VotesUnique'
        BY <1>1 DEF Voting!TypeOK, Voting!VotesUnique, Voting!Cast
    <2>3. ASSUME NEW l \in elected
          PROVE  Cardinality(VotersFor(l[1], l[2])') >= Quorum
        <3>1. Cardinality(VotersFor(l[1], l[2])) >= Quorum
            BY DEF LeaderHasMajority
        <3>. QED
            BY <1>0, <1>1, <3>1, VotersGrow DEF Voting!Cast
    <2>4. LeaderHasMajority'
        BY <1>1, <2>3 DEF LeaderHasMajority, Voting!Cast, Quorum
    <2>. QED
        BY <2>1, <2>2, <2>4
<1>2. ASSUME NEW t \in AnyTerm, NEW c \in Node, Voting!Lead(c, t)
      PROVE  VotingInv'
    <2>1. Voting!TypeOK'
        BY <1>2 DEF Voting!TypeOK, Voting!Lead
    <2>2. Voting!VotesUnique'
        BY <1>2 DEF Voting!VotesUnique, Voting!Lead
    <2>3. /\ \A d, u : VotersFor(d, u)' = VotersFor(d, u)
          /\ elected' = elected \cup {<<c, t>>}
          /\ Cardinality(VotersFor(c, t)) >= Quorum
        BY <1>2, VotingSets DEF Voting!Lead, VotersFor
    <2>4. LeaderHasMajority'
        BY <2>3 DEF LeaderHasMajority, Quorum
    <2>. QED
        BY <2>1, <2>2, <2>4
<1>3. CASE UNCHANGED Voting!vars
    BY <1>3 DEF Voting!TypeOK, Voting!VotesUnique, LeaderHasMajority, VotersFor, Voting!vars,
       Quorum
<1>. QED
    BY <1>1, <1>2, <1>3 DEF Voting!Next

\* Votes and leaders keep their types, no voter votes twice in a term, and every
\* leader holds a majority of its term.
THEOREM VotingInvHolds ==
    ASSUME AnyTerm \subseteq Nat
    PROVE  Voting!Spec => []VotingInv
    BY VotingInit, VotingNext, PTL DEF Voting!Spec

\* A term never has two leaders, for any number of nodes and any terms.
THEOREM OneLeader ==
    ASSUME AnyTerm \subseteq Nat
    PROVE  Voting!Spec => []Voting!LeaderUnique
<1>1. ASSUME VotingInv, NEW k \in elected, NEW l \in elected, k[2] = l[2]
      PROVE  k[1] = l[1]
    <2>1. PICK v \in Node : Vote(v, k[2], k[1]) \in votes /\ Vote(v, l[2], l[1]) \in votes
        BY <1>1, MajoritiesMeet DEF VotingInv
    <2>. QED
        BY <1>1, <2>1 DEF VotingInv, Voting!VotesUnique, Vote
<1>2. VotingInv => Voting!LeaderUnique
    BY <1>1 DEF Voting!LeaderUnique
<1>. QED
    BY <1>2, VotingInvHolds, PTL

-----------------------------------------------------------------------------
(* The state file of one node by itself, system call by system call. *)

\* A file is renamed only when its bytes are on the disk.
Written ==
    /\ pc \in {"written", "synced"} => record \in whole
    /\ pc \in {"synced", "replaced"} => record \in synced
    /\ synced \subseteq whole
    /\ name # 0 => name \in synced
    /\ nameDisk # 0 => nameDisk \in synced

\* Written and the types hold at the start.
LEMMA WrittenInit == StorageInit => StorageTypeOK /\ Written
    BY DEF StorageInit, StorageTypeOK, Written

\* Every system call and crash keeps them.
LEMMA WrittenNext ==
    StorageTypeOK /\ Written /\ [StorageNext]_storageVars
        => StorageTypeOK' /\ Written'
<1>. SUFFICES ASSUME StorageTypeOK, Written, [StorageNext]_storageVars
              PROVE  StorageTypeOK' /\ Written'
    OBVIOUS
<1>. USE DEF StorageTypeOK, Written
<1>1. CASE Open
    BY <1>1 DEF Open, files
<1>2. CASE Write
    BY <1>2 DEF Write
<1>3. CASE Fsync
    BY <1>3 DEF Fsync
<1>4. CASE Replace
    BY <1>4 DEF Replace
<1>5. CASE Return \/ Raise
    BY <1>5 DEF Return, Raise, files
<1>6. CASE FlushDirectory
    BY <1>6 DEF FlushDirectory
<1>7. CASE Kill
    BY <1>7 DEF Kill, Die, files
<1>8. CASE PowerFailure
    BY <1>8 DEF PowerFailure, Die
<1>9. CASE Start
    BY <1>9 DEF Start, Loaded, files
<1>10. CASE UNCHANGED storageVars
    BY <1>10 DEF storageVars
<1>. QED
    BY <1>1, <1>2, <1>3, <1>4, <1>5, <1>6, <1>7, <1>8, <1>9, <1>10 DEF StorageNext

\* The variables keep their types, and bytes reach the disk before names.
THEOREM WrittenHolds == StorageSpec => [](StorageTypeOK /\ Written)
    BY WrittenInit, WrittenNext, PTL DEF StorageSpec

\* No crash leaves a damaged state file.
THEOREM FileNeverTorn == StorageSpec => []NeverTorn
<1>1. Written => NeverTorn
    BY DEF Written, NeverTorn
<1>. QED
    BY <1>1, WrittenHolds, PTL

\* The name is never behind what the node has acted on.
NameAhead ==
    /\ acked <= name /\ name <= record /\ nameDisk <= record
    /\ pc = "replaced" => name = record

\* No system call and no kill takes the name back behind the node, and a power
\* failure takes it back only together with the node.
LEMMA NameAheadNext ==
    StorageTypeOK /\ Written /\ NameAhead /\ [StorageNext]_storageVars
        => NameAhead'
<1>. SUFFICES ASSUME StorageTypeOK, Written, NameAhead, [StorageNext]_storageVars
              PROVE  NameAhead'
    OBVIOUS
<1>. USE DEF StorageTypeOK, NameAhead
<1>1. CASE Open
    BY <1>1 DEF Open, files
<1>2. CASE Write \/ Fsync \/ FlushDirectory
    BY <1>2 DEF Write, Fsync, FlushDirectory
<1>3. CASE Replace
    BY <1>3 DEF Replace
<1>4. CASE Return \/ Raise
    BY <1>4 DEF Return, Raise, files
<1>5. CASE Kill
    BY <1>5 DEF Kill, Die, files
<1>6. CASE PowerFailure
    BY <1>6 DEF PowerFailure, Die
<1>7. CASE Start
    BY <1>7 DEF Start, Loaded, files
<1>8. CASE UNCHANGED storageVars
    BY <1>8 DEF storageVars
<1>. QED
    BY <1>1, <1>2, <1>3, <1>4, <1>5, <1>6, <1>7, <1>8 DEF StorageNext

\* A restarted node loads a record at least as new as any it has acted on since
\* the machine started.
THEOREM KillsForgetNothing == StorageSpec => []SavedVoteSurvives
<1>1. StorageInit => NameAhead
    BY DEF StorageInit, NameAhead
<1>2. StorageTypeOK /\ Written /\ NameAhead => SavedVoteSurvives
    BY DEF StorageTypeOK, Written, NameAhead, SavedVoteSurvives, Loaded
<1>. QED
    BY <1>1, <1>2, NameAheadNext, WrittenHolds, PTL DEF StorageSpec

=============================================================================
