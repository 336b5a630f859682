-------------------------------- MODULE MCSites --------------------------------
(* Instances of Sites for TLC. *)
EXTENDS Sites

MCSpecs == {[pool |-> CHOOSE p \in Pools : p # DefaultPool, secure |-> TRUE, octane |-> TRUE]}

NameSymmetry == Permutations(Names)

(* The directories of one root are spelled with capitals: the root that is *)
(* scanned last until it is parked again.                                  *)
MCCapital == {Last(SetToSeq(Roots))} \X Names
================================================================================
