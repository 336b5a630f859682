--------------------------------- MODULE Ladder ---------------------------------
(***************************************************************************)
(* What a supervisor promises of each process that it keeps running: it    *)
(* comes back when it ends, after a pause, and not for ever. Dev servers   *)
(* and tunnels (crates/dpld/src/devserver.rs, jetty.rs) make this promise  *)
(* in the same words: `start, restart when it dies, back off when it dies  *)
(* repeatedly`. One step may move several things.                          *)
(***************************************************************************)
EXTENDS Naturals

CONSTANTS
  Things,
  MaxFailures \* MAX_FAILURES

VARIABLES
  phase,    \* "unwanted", "running", "pausing", "due" or "given up"
  failures, \* ends and failed starts in a row
  long      \* it has been running for HEALTHY_AFTER

vars == <<phase, failures, long>>

Becomes(t, p, n, l) == phase'[t] = p /\ failures'[t] = n /\ long'[t] = l

(* It failed for the n-th time in a row. *)
Falls(t, n) == Becomes(t, IF n < MaxFailures THEN "pausing" ELSE "given up", n, FALSE)

(* It is started after n failures, and may fail once more right away. *)
Rises(t, n) == Becomes(t, "running", n, FALSE) \/ Falls(t, n + 1)

Unwanted(t) == Becomes(t, "unwanted", 0, FALSE)

(* Somebody wants it now, or wants it started afresh. *)
Begin(t) == Rises(t, 0)

End(t) == phase[t] = "running" /\ Falls(t, IF long[t] THEN 1 ELSE failures[t] + 1)
Rest(t) == phase[t] = "pausing" /\ Becomes(t, "due", failures[t], FALSE)
Retry(t) == phase[t] = "due" /\ Rises(t, failures[t])
Settle(t) == phase[t] = "running" /\ Becomes(t, "running", failures[t], TRUE)
Absolve(t) == phase[t] = "running" /\ long[t] /\ Becomes(t, "running", 0, TRUE)
Stay(t) == Becomes(t, phase[t], failures[t], long[t])

(* What happens to it by itself, and what somebody makes of it. *)
Climb(t) == End(t) \/ Rest(t) \/ Retry(t) \/ Settle(t) \/ Absolve(t) \/ Stay(t)

Step(t) == Climb(t) \/ Unwanted(t) \/ Begin(t)

Init == \A t \in Things : phase[t] = "unwanted" /\ failures[t] = 0 /\ ~long[t]

Spec == Init /\ [][\A t \in Things : Step(t)]_vars
=================================================================================
