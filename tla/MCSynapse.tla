------------------------------ MODULE MCSynapse ------------------------------
(***************************************************************************)
(* An instance of Synapse for TLC: a row and a column of two.              *)
(***************************************************************************)
EXTENDS Synapse

TwoVectors == << <<<<2, -1>>>>, <<<<1>>, <<3>>>> >>

=============================================================================
