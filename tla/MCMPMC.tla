------------------------------- MODULE MCMPMC -------------------------------
(* Instances of MPMC for TLC. *)
EXTENDS MPMC
=============================================================================
