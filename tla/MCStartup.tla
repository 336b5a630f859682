------------------------------- MODULE MCStartup -------------------------------
(* Instances of Startup for TLC: daemons are alike. *)
EXTENDS Startup, TLC

DaemonSymmetry == Permutations(Daemons)
===============================================================================
