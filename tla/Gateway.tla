--------------------------------- MODULE Gateway ---------------------------------
(***************************************************************************)
(* One request to a site served by php-fpm, from its URL to its answer:    *)
(* proxy.rs decides what the URL means in the document root, and fastcgi.rs*)
(* hands it to a pool with a limited number of workers and a listen queue. *)
(* The proxy waits 60 s, the pool ends a script after 90 s: time passes in *)
(* steps of 30 s.                                                          *)
(***************************************************************************)
EXTENDS Naturals, Sequences, FiniteSets, Functions

CONSTANTS
  Requests,
  Urls,      \* what a URL is in the document root: see resolve_target
  Roots,     \* the index files a document root may have, sets of "php", "html"
  Workers,   \* pm.max_children
  Backlog,   \* listen.backlog
  MaxChunks, \* bound on the records of one answer
  Faults,    \* subset of {"die", "restart"}
  None

ProxyWaits == 2    \* 60 s
ScriptRuns == 3    \* request_terminate_timeout = 90s

VARIABLES
  root,    \* the index files of the document root
  pc,      \* per request: "idle", "connect", "waiting", "done"
  age,     \* how long it has waited
  answer,  \* what the client got
  up,      \* is the pool running?
  queue,   \* connections no worker has accepted
  working, \* requests a worker runs
  ran,     \* for how long
  sent,    \* records the worker has written
  got,     \* records the proxy has read
  flow,    \* per connection: "open", "end" (END_REQUEST), "eof"
  stats    \* what the last scrape of the pool found

pool == <<up, queue, working, ran, sent, flow>>
vars == <<root, pc, age, answer, pool, got, stats>>

Answers == {None, "static", "404", "200", "no free workers", "did not respond", "504"}

TypeOK ==
  /\ pc \in [Requests -> {"idle", "connect", "waiting", "done"}]
  /\ age \in [Requests -> 0 .. ProxyWaits] /\ ran \in [Requests -> 0 .. ScriptRuns]
  /\ answer \in [Requests -> Answers]
  /\ queue \in Seq(Requests) /\ Len(queue) <= Backlog
  /\ Cardinality(working) <= Workers
  /\ \A r \in Requests : got[r] <= sent[r] /\ sent[r] <= MaxChunks

-----------------------------------------------------------------------------
(* try_files. A URL is [is, index, slash, static]: the file or directory it  *)
(* names ("php", "file", "dir" or "none"), the index files of the directory, *)
(* whether it ends in a slash, and whether it is under /build/ or /storage/. *)

resolve_target(u) ==
  LET index == IF u.is = "dir" THEN u.index ELSE root
      front == IF u.static \/ "php" \notin root THEN "404" ELSE "php"
  IN IF u.slash \/ u.is = "dir"
     THEN IF "php" \in index THEN "php" ELSE IF "html" \in index THEN "static" ELSE front
     ELSE CASE u.is = "php" -> "php"
            [] u.is = "file" -> "static"
            [] OTHER -> front

-----------------------------------------------------------------------------
(* The proxy.                                                              *)

(* What is said of a pool that failed: out of workers, if the last scrape   *)
(* says so.                                                                 *)
saturated == stats.queue > 0 /\ stats.idle = 0
describe_fpm_failure == IF stats # None /\ saturated THEN "no free workers" ELSE "did not respond"

Reply(r, what) == pc' = [pc EXCEPT ![r] = "done"] /\ answer' = [answer EXCEPT ![r] = what]

Arrive(r, u) ==
  /\ pc[r] = "idle"
  /\ IF resolve_target(u) = "php"
     THEN pc' = [pc EXCEPT ![r] = "connect"] /\ UNCHANGED answer
     ELSE Reply(r, resolve_target(u))
  /\ UNCHANGED <<root, age, pool, got, stats>>

(* A connection that is refused, or that nobody accepts for five seconds;   *)
(* one in the listen queue is established.                                  *)
Connect(r) ==
  /\ pc[r] = "connect"
  /\ IF up /\ Len(queue) < Backlog
     THEN /\ pc' = [pc EXCEPT ![r] = "waiting"] /\ age' = [age EXCEPT ![r] = 0]
          /\ queue' = Append(queue, r)
          /\ sent' = [sent EXCEPT ![r] = 0] /\ got' = [got EXCEPT ![r] = 0]
          /\ flow' = [flow EXCEPT ![r] = "open"]
          /\ UNCHANGED answer
     ELSE Reply(r, describe_fpm_failure) /\ UNCHANGED <<age, queue, sent, got, flow>>
  /\ UNCHANGED <<root, up, working, ran, stats>>

ReadRecord(r) ==
  /\ pc[r] = "waiting" /\ got[r] < sent[r]
  /\ got' = [got EXCEPT ![r] = @ + 1]
  /\ UNCHANGED <<root, pc, age, answer, pool, stats>>

(* Mutant of ReadEnd: the end of the connection is the end of the answer. *)
ReadEnd_Eof(r) ==
  /\ pc[r] = "waiting" /\ got[r] = sent[r] /\ flow[r] # "open"
  /\ Reply(r, IF got[r] > 0 \/ flow[r] = "end" THEN "200" ELSE describe_fpm_failure)
  /\ UNCHANGED <<root, age, pool, got, stats>>

(* END_REQUEST, or a read that fails. *)
ReadEnd(r) ==
  /\ pc[r] = "waiting" /\ got[r] = sent[r] /\ flow[r] # "open"
  /\ Reply(r, IF flow[r] = "end" THEN "200" ELSE describe_fpm_failure)
  /\ UNCHANGED <<root, age, pool, got, stats>>

(* The connection is dropped; whoever runs the script, or will, is not told. *)
TimeOut(r) ==
  /\ pc[r] = "waiting" /\ age[r] = ProxyWaits
  /\ Reply(r, "504")
  /\ UNCHANGED <<root, age, pool, got, stats>>

(* A later request, once this one has left the pool. *)
Again(r) ==
  /\ pc[r] = "done" /\ r \notin working \cup Range(queue)
  /\ pc' = [pc EXCEPT ![r] = "idle"] /\ answer' = [answer EXCEPT ![r] = None]
  /\ age' = [age EXCEPT ![r] = 0]
  /\ sent' = [sent EXCEPT ![r] = 0] /\ got' = [got EXCEPT ![r] = 0]
  /\ UNCHANGED <<root, up, queue, working, ran, flow, stats>>

-----------------------------------------------------------------------------
(* The pool.                                                               *)

Accept ==
  /\ up /\ queue # <<>> /\ Cardinality(working) < Workers
  /\ working' = working \cup {Head(queue)} /\ queue' = Tail(queue)
  /\ ran' = [ran EXCEPT ![Head(queue)] = 0]
  /\ UNCHANGED <<root, pc, age, answer, up, sent, got, flow, stats>>

Leaves(r, how) ==
  /\ working' = working \ {r}
  /\ flow' = [flow EXCEPT ![r] = how]
  /\ ran' = [ran EXCEPT ![r] = 0]

(* A script that writes to a client that is gone is ended. *)
Write(r) ==
  /\ r \in working /\ sent[r] < MaxChunks
  /\ IF pc[r] = "waiting"
     THEN sent' = [sent EXCEPT ![r] = @ + 1] /\ UNCHANGED <<working, ran, flow>>
     ELSE Leaves(r, "eof") /\ UNCHANGED sent
  /\ UNCHANGED <<root, pc, age, answer, up, queue, got, stats>>

Finish(r) ==
  /\ r \in working
  /\ Leaves(r, "end")
  /\ UNCHANGED <<root, pc, age, answer, up, queue, sent, got, stats>>

Die(r) ==
  /\ "die" \in Faults
  /\ r \in working
  /\ Leaves(r, "eof")
  /\ UNCHANGED <<root, pc, age, answer, up, queue, sent, got, stats>>

(* Mutant of Terminate: scripts have no limit of their own. *)
Terminate_Waiting(r) ==
  /\ r \in working /\ ran[r] = ScriptRuns /\ pc[r] = "waiting"
  /\ Leaves(r, "eof")
  /\ UNCHANGED <<root, pc, age, answer, up, queue, sent, got, stats>>

Terminate(r) ==
  /\ r \in working /\ ran[r] = ScriptRuns
  /\ Leaves(r, "eof")
  /\ UNCHANGED <<root, pc, age, answer, up, queue, sent, got, stats>>

(* The master is replaced: SIGTERM ends its workers, and the socket closes. *)
Stop ==
  /\ "restart" \in Faults
  /\ up /\ up' = FALSE
  /\ flow' = [r \in Requests |-> IF r \in working \cup Range(queue) THEN "eof" ELSE flow[r]]
  /\ working' = {} /\ queue' = <<>> /\ ran' = [r \in Requests |-> 0]
  /\ UNCHANGED <<root, pc, age, answer, sent, got, stats>>

Restart ==
  /\ ~up /\ up' = TRUE
  /\ stats' = None
  /\ UNCHANGED <<root, pc, age, answer, queue, working, ran, sent, got, flow>>

(* The status page takes a worker; a scrape that fails leaves the old numbers. *)
Scrape ==
  /\ up /\ Cardinality(working) < Workers
  /\ stats' = [queue |-> Len(queue), idle |-> Workers - Cardinality(working) - 1]
  /\ UNCHANGED <<root, pc, age, answer, pool, got>>

(* Thirty seconds, unless something is due before. *)
Tick ==
  /\ \A r \in Requests : pc[r] = "waiting" => age[r] < ProxyWaits
  /\ \A r \in working : ran[r] < ScriptRuns
  /\ \E r \in Requests : pc[r] = "waiting" \/ r \in working
  /\ age' = [r \in Requests |-> IF pc[r] = "waiting" THEN age[r] + 1 ELSE age[r]]
  /\ ran' = [r \in Requests |-> IF r \in working THEN ran[r] + 1 ELSE ran[r]]
  /\ UNCHANGED <<root, pc, answer, up, queue, working, sent, got, flow, stats>>

Init ==
  /\ root \in Roots
  /\ pc = [r \in Requests |-> "idle"] /\ age = [r \in Requests |-> 0]
  /\ answer = [r \in Requests |-> None]
  /\ up = TRUE /\ queue = <<>> /\ working = {}
  /\ ran = [r \in Requests |-> 0] /\ sent = [r \in Requests |-> 0]
  /\ got = [r \in Requests |-> 0] /\ flow = [r \in Requests |-> "open"]
  /\ stats = None

Proxied(r) == Connect(r) \/ ReadRecord(r) \/ ReadEnd(r) \/ TimeOut(r)

Next ==
  \/ \E r \in Requests, u \in Urls : Arrive(r, u)
  \/ \E r \in Requests : Proxied(r) \/ Again(r) \/ Write(r) \/ Finish(r) \/ Die(r) \/ Terminate(r)
  \/ Accept \/ Stop \/ Restart \/ Scrape \/ Tick

Spec == Init /\ [][Next]_vars

(* The proxy and the pool's own timers go on; a script need not. *)
Fairness ==
  /\ \A r \in Requests : WF_vars(Proxied(r)) /\ WF_vars(Terminate(r))
  /\ WF_vars(Tick) /\ WF_vars(Accept)

-----------------------------------------------------------------------------
(* Properties.                                                             *)

(* What php-fpm did not finish is never passed on as an answer: a worker    *)
(* that dies, a script that is ended or a pool that is replaced in the      *)
(* middle of an answer gives an error, and an answer has every record.      *)
AnswerWhole ==
  \A r \in Requests : answer[r] = "200" => flow[r] = "end" /\ got[r] = sent[r]

(* "A request whose PHP app hangs must not hold a worker forever, which     *)
(* would starve the pool": every worker is given back, whether the proxy    *)
(* still waits for it or not.                                               *)
WorkersFreed == \A r \in Requests : r \in working ~> r \notin working

-----------------------------------------------------------------------------
(* Refuted; see the README.                                                *)

(* A request that waits for a worker while every worker is busy, and fails,  *)
(* is reported as a pool without workers ("the overwhelmingly common cause   *)
(* is that every worker is busy and the connection sat in the listen queue   *)
(* until it timed out").                                                     *)
SaturationNamed ==
  [][\A r \in Requests :
       r \in Range(queue) /\ Cardinality(working) = Workers /\ pc[r] = "waiting" /\ pc'[r] = "done" =>
         answer'[r] = "no free workers"]_vars

(* "A miss under a build-output directory is final". *)
MissIsFinal == \A u \in Urls : u.static /\ u.is = "none" => resolve_target(u) = "404"

(* A script runs only for a client that waits. *)
NoStaleWork == [][\A r \in Requests : r \in working' \ working => pc[r] = "waiting"]_vars
================================================================================
