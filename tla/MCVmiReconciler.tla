--------------------------- MODULE MCVmiReconciler ---------------------------
(***************************************************************************)
(* Small instances of VmiReconciler for TLC.                               *)
(***************************************************************************)
EXTENDS VmiReconciler

=============================================================================
