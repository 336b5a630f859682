-------------------------------- MODULE MCOctane --------------------------------
(* Instances of Octane for TLC: sites, runtimes and groups are alike. *)
EXTENDS Octane, TLC

OctaneSymmetry == Permutations(Sites) \cup Permutations(Runtimes) \cup Permutations(Groups)
===============================================================================
