----------------------------- MODULE BranchStore -----------------------------
(***************************************************************************)
(* What branch-aware databases promise, stated without Postgres, renames   *)
(* or locks: every git branch of an attached site has a data set of its    *)
(* own; one branch is live; the application writes into the live branch's  *)
(* data; moving to a branch keeps the data of every branch, and a branch   *)
(* visited for the first time starts from the data of the branch left.     *)
(*   crates/dpl-core/src/branchdb.rs, module comment                       *)
(***************************************************************************)
CONSTANTS Sites, Branches, Writes,
          None        \* "this branch has no data of its own yet"

VARIABLES live,       \* [Sites -> Branches]: whose data the application sees
          data        \* [Sites -> [Branches -> SUBSET Writes or None]]

storeVars == <<live, data>>

Init == /\ live \in [Sites -> Branches]
        /\ data = [s \in Sites |-> [b \in Branches |->
                                      IF b = live[s] THEN {} ELSE None]]

(* The application commits a write to the live branch. *)
Write(s, w) ==
  /\ w \notin data[s][live[s]]
  /\ data' = [data EXCEPT ![s][live[s]] = @ \cup {w}]
  /\ UNCHANGED live

(* Another branch becomes live; the others keep what they hold. *)
Switch(s, to) ==
  /\ to # live[s]
  /\ live' = [live EXCEPT ![s] = to]
  /\ data' = [data EXCEPT ![s][to] = IF @ = None THEN data[s][live[s]] ELSE @]

Next == \E s \in Sites : \/ \E w \in Writes : Write(s, w)
                         \/ \E to \in Branches : Switch(s, to)

Spec == Init /\ [][Next]_storeVars
==============================================================================
