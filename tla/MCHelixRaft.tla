----------------------------- MODULE MCHelixRaft -----------------------------
(***************************************************************************)
(* Instances of HelixRaft for TLC.                                         *)
(***************************************************************************)
EXTENDS HelixRaftInv, TLC

CONSTANTS n1, n2, n3, n4

SameFile(t, v) == [n \in Node |-> [term |-> t, votedFor |-> v]]

\* No state file: load_state returns (0, None).
NoFiles == {SameFile(0, None)}

\* No file, or the files that the repository ships in data/: every node has
\* voted for node 1 in term 1.
FreshOrShipped == {SameFile(0, None), SameFile(1, n1)}

\* The same for either campaigner, so that the two can be exchanged.
FreshOrEither == {SameFile(0, None), SameFile(1, n1), SameFile(1, n2)}

Exchange == Permutations({n1, n2})

=============================================================================
