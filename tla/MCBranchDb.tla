------------------------------ MODULE MCBranchDb ------------------------------
(***************************************************************************)
(* Small instances of BranchDb, and what it promises.                      *)
(***************************************************************************)
EXTENDS BranchDb, TLC

(* Every site is attached, to the same base when there is only one. *)
MCAttached == [s \in Sites |-> CHOOSE db \in Bases : TRUE]

(* Connections are interchangeable: no property names one. *)
ClientSymmetry == Permutations(Clients)
==============================================================================
