---------------------------- MODULE MCSemTransfer ----------------------------
(* Instances of SemTransfer for TLC. *)
EXTENDS SemTransfer
=============================================================================
