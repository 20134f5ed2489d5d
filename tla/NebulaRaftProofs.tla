--------------------------- MODULE NebulaRaftProofs ---------------------------
(***************************************************************************)
(* Proofs about a cluster node (NebulaRaft), for any bounds and any peers. *)
(* A term above those heard of is reached by a candidacy only, so a node   *)
(* that is no follower has its own vote in its term, and the terms of its  *)
(* candidacies increase.                                                   *)
(***************************************************************************)
EXTENDS NebulaRaft, FiniteSetTheorems, TLAPS

\* The inductive invariant.
Inv ==
    /\ TypeOK
    /\ LeadsOwnTerm
    /\ state = "FOLLOWER" => currentTerm <= MaxTerm
    /\ \A t \in campaigned : t <= currentTerm
    /\ state = "LEADER" => peers = {}

\* A new node is a follower of term 0.
LEMMA InvInit == Init => Inv
<1>. SUFFICES ASSUME Init PROVE Inv
    OBVIOUS
<1>1. MaxTerm \in Nat /\ MaxMessages \in Nat
    BY ConstantsOK DEF ConstantsOK
<1>2. TypeOK
  <2>1. peers \in SUBSET Other
      BY DEF Init
  <2>2. state \in {"FOLLOWER", "CANDIDATE", "LEADER"} /\ pc \in {"loop", "votes"}
      BY DEF Init
  <2>3. currentTerm \in 0 .. MaxTerm + 1 /\ received \in 0 .. MaxMessages
      BY <1>1 DEF Init
  <2>4. campaigned \subseteq 1 .. MaxTerm + 1 /\ led \subseteq 1 .. MaxTerm + 1
      BY DEF Init
  <2>5. expired \in BOOLEAN
      BY DEF Init
  <2>6. votedFor \in {None, Self} /\ leaderId \in Other \cup {None, Self}
      BY DEF Init
  <2>. QED
      BY <2>1, <2>2, <2>3, <2>4, <2>5, <2>6 DEF TypeOK
<1>. QED
    BY <1>1, <1>2 DEF Init, Inv, LeadsOwnTerm

\* The deadline passes.
LEMMA InvExpire == Inv /\ Expire => Inv'
    BY DEF Inv, TypeOK, LeadsOwnTerm, Expire, node, history

\* A candidacy raises the term of a follower by one.
LEMMA InvBecomeCandidate == Inv /\ BecomeCandidate => Inv'
<1>. SUFFICES ASSUME Inv, BecomeCandidate PROVE Inv'
    OBVIOUS
<1>1. /\ currentTerm \in Nat /\ currentTerm <= MaxTerm /\ MaxTerm \in Nat
      /\ currentTerm + 1 \in 1 .. MaxTerm + 1
    BY ConstantsOK DEF ConstantsOK, Inv, TypeOK, BecomeCandidate, Due
<1>2. TypeOK'
  <2>1. expired' \in BOOLEAN /\ pc' \in {"loop", "votes"}
      BY DEF BecomeCandidate
  <2>2. campaigned' \subseteq 1 .. MaxTerm + 1 /\ currentTerm' \in 0 .. MaxTerm + 1
      BY <1>1 DEF Inv, TypeOK, BecomeCandidate
  <2>. QED
      BY <2>1, <2>2 DEF Inv, TypeOK, BecomeCandidate
<1>3. LeadsOwnTerm'
    BY DEF Inv, LeadsOwnTerm, BecomeCandidate
<1>4. \A t \in campaigned' : t <= currentTerm'
    BY <1>1 DEF Inv, TypeOK, BecomeCandidate
<1>. QED
    BY <1>2, <1>3, <1>4 DEF Inv, BecomeCandidate

\* Only a candidate without peers is promoted.
LEMMA InvVotesOver == Inv /\ VotesOver => Inv'
    BY ConstantsOK DEF ConstantsOK, Inv, TypeOK, LeadsOwnTerm, VotesOver, MayLead, Elected

\* A newer term makes a follower; an older one changes neither term nor role.
LEMMA InvOnMessage ==
    ASSUME NEW term \in 0 .. MaxTerm, NEW type \in MsgType, NEW src \in Other
    PROVE  Inv /\ OnMessage(term, type, src) => Inv'
    BY ConstantsOK DEF ConstantsOK, Inv, TypeOK, LeadsOwnTerm, OnMessage, Newer, history

\* Every step keeps the invariant.
LEMMA InvNext == Inv /\ [Next]_vars => Inv'
<1>. SUFFICES ASSUME Inv, [Next]_vars PROVE Inv'
    OBVIOUS
<1>1. CASE Expire
    BY <1>1, InvExpire
<1>2. CASE BecomeCandidate
    BY <1>2, InvBecomeCandidate
<1>3. CASE VotesOver
    BY <1>3, InvVotesOver
<1>4. ASSUME NEW term \in 0 .. MaxTerm, NEW type \in MsgType, NEW src \in Other,
             OnMessage(term, type, src)
      PROVE  Inv'
    BY <1>4, InvOnMessage
<1>5. CASE UNCHANGED vars
    BY <1>5 DEF Inv, TypeOK, LeadsOwnTerm, vars, node, history
<1>. QED
    BY <1>1, <1>2, <1>3, <1>4, <1>5 DEF Next

\* The invariant holds in every reachable state.
LEMMA InvHolds == Spec => []Inv
    BY InvInit, InvNext, PTL DEF Spec

\* The variables keep their types, and the term stays within one of the terms the
\* node has heard of.
THEOREM TypeCorrect == Spec => []TypeOK
<1>1. Inv => TypeOK
    BY DEF Inv
<1>. QED
    BY <1>1, InvHolds, PTL

\* A candidate or leader has a candidacy and its own vote in its term, whatever
\* message came while it waited; with peers it never leads.
THEOREM LeadersLeadOwnTerm == Spec => []LeadsOwnTerm
<1>1. Inv => LeadsOwnTerm
    BY DEF Inv
<1>. QED
    BY <1>1, InvHolds, PTL

\* Terms never fall, and a vote stays for its term.
THEOREM TermsGoForward == Spec => TermForward
<1>1. Inv /\ [Next]_vars =>
        [/\ currentTerm' >= currentTerm
         /\ currentTerm' = currentTerm /\ votedFor # None => votedFor' = votedFor]_vars
  <2>. SUFFICES ASSUME Inv, Next
                PROVE  /\ currentTerm' >= currentTerm
                       /\ currentTerm' = currentTerm /\ votedFor # None
                            => votedFor' = votedFor
      OBVIOUS
  <2>. currentTerm \in Int
      BY ConstantsOK DEF ConstantsOK, Inv, TypeOK
  <2>1. CASE Expire
      BY <2>1 DEF Expire, node
  <2>2. CASE BecomeCandidate
      BY <2>2 DEF BecomeCandidate
  <2>3. CASE VotesOver
      BY <2>3 DEF VotesOver
  <2>4. ASSUME NEW term \in 0 .. MaxTerm, NEW type \in MsgType, NEW src \in Other,
               OnMessage(term, type, src)
        PROVE  /\ currentTerm' >= currentTerm
               /\ currentTerm' = currentTerm /\ votedFor # None
                    => votedFor' = votedFor
      BY <2>4, ConstantsOK DEF ConstantsOK, OnMessage, Newer
  <2>. QED
      BY <2>1, <2>2, <2>3, <2>4 DEF Next
<1>. QED
    BY <1>1, InvHolds, PTL DEF Spec, TermForward

\* In a cluster of one, the vote of the node alone is a majority.
LEMMA OwnVoteSuffices ==
    ASSUME NEW t \in campaigned
    PROVE  Cardinality(Election!VotersFor(Self, t)) >= Election!Majority
<1>1. Election!VotersFor(Self, t) = {Self}
    BY Zenon DEF Election!VotersFor
<1>2. Cardinality({Self}) = 1
    BY FS_Singleton
<1>3. \A S : Election!Cardinality(S) = Cardinality(S)
    BY Zenon DEF Election!Cardinality, Cardinality
<1>4. Election!Majority = 1
    BY <1>2, <1>3 DEF Election!Majority
<1>. QED
    BY <1>1, <1>2, <1>4

\* The candidacies of the node are votes cast in increasing terms, and it leads on
\* them: the node implements an election with numbered terms.
THEOREM ImplementsElection == Spec => ElectionImplemented
<1>1. Init => Election!Init
    BY DEF Init, Election!Init
<1>2. Inv /\ [Next]_vars => [Election!Next]_(Election!vars)
  <2>. SUFFICES ASSUME Inv, [Next]_vars PROVE [Election!Next]_(Election!vars)
      OBVIOUS
  <2>1. CASE BecomeCandidate
    <3>1. currentTerm + 1 \in 0 .. MaxTerm + 1
        BY <2>1, ConstantsOK DEF ConstantsOK, Inv, TypeOK, BecomeCandidate, Due
    <3>2. Election!Cast(Self, currentTerm + 1, Self)
        BY <2>1, ConstantsOK DEF ConstantsOK, Inv, TypeOK, BecomeCandidate, Election!Cast
    <3>. QED
        BY <3>1, <3>2 DEF Election!Next
  <2>2. CASE VotesOver /\ MayLead
    <3>1. PICK t \in 0 .. MaxTerm + 1 : t = currentTerm
        BY <2>2 DEF Inv, TypeOK
    <3>2. /\ led' = led \cup {t} /\ campaigned' = campaigned
          /\ t \in campaigned
        BY <2>2, <3>1 DEF Inv, LeadsOwnTerm, VotesOver, MayLead
    <3>3. {<<Self, u>> : u \in led'} = {<<Self, u>> : u \in led} \cup {<<Self, t>>}
        BY <3>2
    <3>4. Cardinality(Election!VotersFor(Self, t)) >= Election!Majority
        BY <3>2, OwnVoteSuffices
    <3>5. \A S : Election!Cardinality(S) = Cardinality(S)
        BY Zenon DEF Election!Cardinality, Cardinality
    <3>6. Election!Lead(Self, t)
        BY <3>2, <3>3, <3>4, <3>5 DEF Election!Lead
    <3>. QED
        BY <3>6 DEF Election!Next
  <2>3. CASE UNCHANGED history
      BY <2>3 DEF history, Election!vars
  <2>. QED
      BY <2>1, <2>2, <2>3 DEF Next, Expire, VotesOver, OnMessage, history, vars
<1>. QED
    BY <1>1, <1>2, InvHolds, PTL DEF Spec, ElectionImplemented, Election!Spec

=============================================================================
