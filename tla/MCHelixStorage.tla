--------------------------- MODULE MCHelixStorage ---------------------------
(***************************************************************************)
(* Instances of HelixStorage for TLC: the bounds are in the .cfg files.    *)
(***************************************************************************)
EXTENDS HelixStorage

=============================================================================
