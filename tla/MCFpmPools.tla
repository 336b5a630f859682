------------------------------ MODULE MCFpmPools ------------------------------
(* Instances of FpmPools for TLC. The ports are alike, and so are the sites: *)
(* neither is named by the specification. Keys are not permuted: apply_stats *)
(* takes the first pool with a port, in the order of the keys.               *)
EXTENDS FpmPools, TLC

PortSiteSymmetry == Permutations(Ports) \cup Permutations(Sites)
===============================================================================
