----------------------------- MODULE MCNebulaRaft -----------------------------
(***************************************************************************)
(* An instance of NebulaRaft for TLC: the bounds are in the .cfg file.     *)
(***************************************************************************)
EXTENDS NebulaRaft

=============================================================================
