---------------------------- MODULE MC_Executors ----------------------------
(* An instance of PrivateExecutors for TLC. *)
EXTENDS PrivateExecutors, TLC
=============================================================================
