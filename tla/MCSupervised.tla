------------------------------ MODULE MCSupervised ------------------------------
(* Instances of Supervised for TLC. *)
EXTENDS Supervised, TLC
=================================================================================
