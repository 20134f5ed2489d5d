---------------------------- MODULE MCHyperionLog ----------------------------
(***************************************************************************)
(* Instances of HyperionLog for TLC: the bounds are in the .cfg files.     *)
(***************************************************************************)
EXTENDS HyperionLog

=============================================================================
