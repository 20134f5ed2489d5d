---------------------------- MODULE MCNebulaGraph ----------------------------
(***************************************************************************)
(* Instances of NebulaScan and NebulaPaths for TLC, over one store.        *)
(***************************************************************************)
EXTENDS NebulaPaths

Weights == <<2, 0, 1>>

=============================================================================
