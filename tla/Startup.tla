------------------------------- MODULE Startup -------------------------------
(***************************************************************************)
(* How a dpld starts, finds out that another one runs, and stops.          *)
(*   crates/dpld/src/main.rs, server.rs                                    *)
(*                                                                         *)
(* Daemons are processes of one user, started by hand or by launchd (which *)
(* may have a LaunchAgent and a LaunchDaemon installed), so every system   *)
(* call of theirs is a step. Of the backends only the php-fpm pools, which *)
(* kill_orphans finds by their command line, are kept.                     *)
(***************************************************************************)
EXTENDS Naturals, FiniteSets

CONSTANTS
  Daemons,
  None,
  MaxCrashes, \* how many times a daemon is killed outright
  Stops,      \* subset of {"shutdown", "sigterm"}
  Overlap     \* may a daemon be started while another one is starting?

Gone == "gone" \* who a probe is connected to when nobody listens, or no more

ASSUME StartupAssumption ==
  MaxCrashes \in Nat /\ None \notin Daemons /\ Gone \notin Daemons \cup {None}

HttpPorts == 2  \* bind_preferred tries two ports

VARIABLES
  pc,      \* per daemon, its next step
  sock,    \* whose listener the socket file is, or was; None when no file
  target,  \* per daemon, who the probe in flight has connected to
  pools,   \* daemons whose php-fpm masters are alive
  crashes  \* how many there have been: bounded by MaxCrashes

vars == <<pc, sock, target, pools, crashes>>

StartSteps == {"probe", "probing", "http", "kill", "start", "check", "checking", "unlink", "bind"}

(* Every variable has its type, and a daemon has a connection to another    *)
(* exactly while it waits for the answer to its probe.                      *)
TypeOK ==
  /\ pc \in [Daemons -> {"off", "serving", "closing", "ending"} \cup StartSteps]
  /\ sock \in Daemons \cup {None}
  /\ target \in [Daemons -> Daemons \cup {None, Gone}]
  /\ pools \subseteq Daemons
  /\ crashes \in 0..MaxCrashes
  /\ \A d \in Daemons : target[d] # None <=> pc[d] \in {"probing", "checking"}

Serving(d) == pc[d] = "serving"
Listening(d) == pc[d] \in {"serving", "closing"}
Goto(d, step) == pc' = [pc EXCEPT ![d] = step]

Init ==
  /\ pc = [d \in Daemons |-> "off"]
  /\ sock = None
  /\ target = [d \in Daemons |-> None]
  /\ pools = {}
  /\ crashes = 0

(* The process ends; whoever waits for its answer gets an error instead. *)
Ends(d) ==
  /\ Goto(d, "off")
  /\ target' = [e \in Daemons |-> IF e = d THEN None ELSE IF target[e] = d THEN Gone ELSE target[e]]

(* An error on the way up: the masters die with their handles. *)
Bail(d) == Ends(d) /\ pools' = pools \ {d} /\ UNCHANGED <<sock, crashes>>

Start(d) ==
  /\ pc[d] = "off"
  /\ Overlap \/ \A e \in Daemons : pc[e] \notin StartSteps
  /\ Goto(d, "probe")
  /\ UNCHANGED <<sock, target, pools, crashes>>

(* exists() and connect(): refused when nobody listens on the file. *)
Connect(d, waiting, absent) ==
  /\ IF sock = None
     THEN Goto(d, absent) /\ UNCHANGED target
     ELSE /\ Goto(d, waiting)
          /\ target' = [target EXCEPT ![d] = IF Listening(sock) THEN sock ELSE Gone]
  /\ UNCHANGED <<sock, pools, crashes>>

(* The answer to the ping. A daemon on its way out may still answer on a    *)
(* connection it has accepted; one it has not hangs until the listener is   *)
(* dropped, which follows the removal of the file.                          *)
Answered(d) == target[d] \in {e \in Daemons : pc[e] \in {"serving", "closing", "ending"}}
Refused(d) == target[d] \in {Gone} \cup {e \in Daemons : pc[e] = "ending"}

(* Mutant: the answer to the probe is thrown away. *)
ProceedAnyway(d, step, next) ==
  /\ pc[d] = step
  /\ Goto(d, next) /\ target' = [target EXCEPT ![d] = None]
  /\ UNCHANGED <<sock, pools, crashes>>

(* Mutant: a socket file is taken for a live daemon. *)
ProceedIfAbsent(d, step, next) ==
  /\ pc[d] = step
  /\ Answered(d) \/ Refused(d)
  /\ Bail(d)

Proceed(d, step, next) ==
  /\ pc[d] = step
  /\ \/ Answered(d) /\ Bail(d)
     \/ Refused(d) /\ Goto(d, next) /\ target' = [target EXCEPT ![d] = None]
                   /\ UNCHANGED <<sock, pools, crashes>>

(* instance_already_running *)
Probe(d) == (pc[d] = "probe" /\ Connect(d, "probing", "http")) \/ Proceed(d, "probing", "http")

(* bind_preferred: :80 or :8080, or give up. *)
BindHttp(d) ==
  LET bound == {e \in Daemons : pc[e] \notin {"off", "probe", "probing", "http"}} IN
  /\ pc[d] = "http"
  /\ \/ Cardinality(bound) < HttpPorts /\ Goto(d, "kill") /\ UNCHANGED <<sock, target, pools, crashes>>
     \/ Cardinality(bound) >= HttpPorts /\ Bail(d)

(* kill_orphans: every master of this user's pools, whoever runs it. *)
KillOrphans(d) ==
  /\ pc[d] = "kill"
  /\ pools' = {}
  /\ Goto(d, "start")
  /\ UNCHANGED <<sock, target, crashes>>

(* The first reconcile. *)
StartBackends(d) ==
  /\ pc[d] = "start"
  /\ pools' = pools \cup {d}
  /\ Goto(d, "check")
  /\ UNCHANGED <<sock, target, crashes>>

(* server::run: probe again, remove a stale file, bind. *)
Check(d) == (pc[d] = "check" /\ Connect(d, "checking", "bind")) \/ Proceed(d, "checking", "unlink")

Unlink(d) ==
  /\ pc[d] = "unlink"
  /\ sock' = None
  /\ Goto(d, "bind")
  /\ UNCHANGED <<target, pools, crashes>>

(* Mutant: bind takes an existing path over. *)
BindOver(d) ==
  /\ pc[d] = "bind"
  /\ sock' = d /\ Goto(d, "serving") /\ UNCHANGED <<target, pools, crashes>>

Bind(d) ==
  /\ pc[d] = "bind"
  /\ \/ sock = None /\ sock' = d /\ Goto(d, "serving") /\ UNCHANGED <<target, pools, crashes>>
     \/ sock # None /\ Bail(d)

(* The supervision tasks bring killed pools back; they run from before the  *)
(* socket is probed.                                                        *)
Respawn(d) ==
  /\ pc[d] \in {"check", "checking", "unlink", "bind", "serving"}
  /\ d \notin pools
  /\ pools' = pools \cup {d}
  /\ UNCHANGED <<pc, sock, target, crashes>>

(* Mutant: the request's handler removes the socket file itself. *)
ShutdownInHandler(d) ==
  /\ "shutdown" \in Stops
  /\ Serving(d) /\ sock' = None
  /\ UNCHANGED <<pc, target, pools, crashes>>

(* A Shutdown request, which needs the socket, or ctrl-c: leave the loop,   *)
Shutdown(d) ==
  /\ "shutdown" \in Stops
  /\ Serving(d)
  /\ Goto(d, "closing")
  /\ UNCHANGED <<sock, target, pools, crashes>>

(* remove the socket file, whoever's it is,                                 *)
RemoveSocket(d) ==
  /\ pc[d] = "closing"
  /\ sock' = None
  /\ Goto(d, "ending")
  /\ UNCHANGED <<target, pools, crashes>>

(* and end.                                                                 *)
Exit(d) == pc[d] = "ending" /\ Bail(d)

(* Nothing handles SIGTERM: the process ends where it is, and so it does    *)
(* when it is killed. Its masters and its socket file stay.                 *)
Terminate(d) ==
  /\ "sigterm" \in Stops
  /\ Serving(d)
  /\ Ends(d) /\ UNCHANGED <<sock, pools, crashes>>

Crash(d) ==
  /\ crashes < MaxCrashes /\ crashes' = crashes + 1
  /\ pc[d] # "off"
  /\ Ends(d) /\ UNCHANGED <<sock, pools>>

Run(d) == \/ Probe(d) \/ BindHttp(d) \/ KillOrphans(d) \/ StartBackends(d) \/ Check(d)
          \/ Unlink(d) \/ Bind(d) \/ RemoveSocket(d) \/ Exit(d)

Next == \E d \in Daemons : \/ Start(d) \/ Run(d) \/ Respawn(d)
                           \/ Shutdown(d) \/ Terminate(d) \/ Crash(d)

Spec == Init /\ [][Next]_vars

(* Daemons run, and launchd keeps them alive. *)
FairSpec == Spec /\ \A d \in Daemons : WF_vars(Run(d)) /\ WF_vars(Start(d))

-------------------------------------------------------------------------------
(* One daemon at a time serves, and it is the one the socket file leads to  *)
(* (`if another dpld owns the control socket, this process must not run`).  *)
OneOwner ==
  /\ \A d, e \in Daemons : Serving(d) /\ Serving(e) => d = e
  /\ \A d \in Daemons : Serving(d) => sock = d

(* A second instance finds out that it is one before it kills pools (`must  *)
(* therefore find this out and bail before it touches anything`): the pools *)
(* it kills belong to daemons that ended or are on their way out.           *)
BailsBeforeKilling ==
  [][\A d, e \in Daemons :
       KillOrphans(d) /\ d # e /\ e \in pools => pc[e] \in {"off", "closing", "ending"}]_vars

(* Whatever crashes and stops leave behind, a socket file above all, never  *)
(* keeps the next daemon from serving behind that file.                     *)
ComesBack == []<>(\E d \in Daemons : Serving(d) /\ sock = d)

(* A daemon that is asked to stop by SIGTERM cleans its socket up (`serve   *)
(* until a Shutdown request (or SIGINT/SIGTERM) arrives`).                  *)
SigtermCleans == [][\A d \in Daemons : Terminate(d) => sock' # d]_vars
===============================================================================
