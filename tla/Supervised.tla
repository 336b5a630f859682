------------------------------- MODULE Supervised -------------------------------
(***************************************************************************)
(* The processes next to a site: its dev server and its tunnel.            *)
(*   crates/dpld/src/devserver.rs, jetty.rs, registry.rs                   *)
(*                                                                         *)
(* The two supervisors are alike; a thing is a site's dev server or its    *)
(* tunnel. Requests and the two supervision tasks run under the registry   *)
(* lock, one step each.                                                    *)
(***************************************************************************)
EXTENDS Naturals

CONSTANTS
  Sites,
  Scripts,     \* script, package manager and project: what a dev server is started for
  Labels,      \* what a tunnel is started for: its label
  None,
  MaxFailures, \* MAX_FAILURES
  Requests,    \* subset of {"dev", "share", "link", "unlink", "spec", "restart", "pass", "reload", "repair"}
  Faults       \* subset of {"exit", "spawn", "save", "daemon"}

Kinds == {"dev", "tunnel"}
Things == Kinds \X Sites

Link == [dev : Scripts \cup {None}, tunnel : Labels \cup {None}]
NewLink == [dev |-> None, tunnel |-> None]

(* `waiting` is a retry_at still ahead, `long` a `started` HEALTHY_AFTER    *)
(* ago. The port or url that a process announces is left out.               *)
Entry == [setting : Scripts \cup Labels, child : {"none", "running", "exited"},
          failures : 0..MaxFailures, waiting : BOOLEAN, long : BOOLEAN]

ASSUME SupervisedAssumption ==
  /\ MaxFailures \in Nat \ {0}
  /\ None \notin Scripts \cup Labels \cup Link \cup Entry

VARIABLES
  config,  \* Registry.config: the link of each site, or None
  disk,    \* the same, as last saved
  entries, \* DevServers.servers and Tunnels.tunnels
  unsaved  \* not in the code: things whose last change no pass has carried out

vars == <<config, disk, entries, unsaved>>
settings == <<config, disk, unsaved>>

(* Every variable has its type: no failure is counted beyond MAX_FAILURES.  *)
TypeOK ==
  /\ config \in [Sites -> Link \cup {None}] /\ disk \in [Sites -> Link \cup {None}]
  /\ entries \in [Things -> Entry \cup {None}]
  /\ unsaved \subseteq Things

(* What the config wants of a thing. *)
Wanted(conf, t) == IF conf[t[2]] = None THEN None ELSE conf[t[2]][t[1]]

-------------------------------------------------------------------------------
(* One thing.                                                              *)

New(setting) ==
  [setting |-> setting, child |-> "none", failures |-> 0, waiting |-> FALSE, long |-> FALSE]

(* `start`: the process is there, or it could not be started. *)
Started(e, refused) ==
  IF refused THEN [e EXCEPT !.failures = @ + 1, !.waiting = TRUE]
  ELSE [e EXCEPT !.child = "running", !.long = FALSE]

(* Mutant: it is tried again at once. *)
ReapedAtOnce(e) ==
  IF e.child # "exited" THEN e
  ELSE [e EXCEPT !.child = "none", !.long = FALSE,
                 !.failures = IF e.long THEN 1 ELSE @ + 1]

(* is_alive, of one that is not. *)
Reaped(e) ==
  IF e.child # "exited" THEN e
  ELSE [e EXCEPT !.child = "none", !.long = FALSE,
                 !.waiting = TRUE, !.failures = IF e.long THEN 1 ELSE @ + 1]

(* Mutant: it gives up one too early. *)
MayStartLess(e) == e.child = "none" /\ ~e.waiting /\ e.failures < MaxFailures - 1

MayStart(e) == e.child = "none" /\ ~e.waiting /\ e.failures < MaxFailures

(* One that should run: noticed when it ended, started when it is due. *)
Kept(e, refused) ==
  LET seen == Reaped(e) IN IF MayStart(seen) THEN Started(seen, refused) ELSE seen

(* Mutant: a running process is left as it is. *)
EnsuredAsItWas(e, setting, refused) ==
  CASE setting = None -> None
    [] setting # None /\ e # None -> Kept(e, refused)
    [] OTHER -> Started(New(setting), refused)

(* `ensure` for one that is wanted, `retain` for one that is not; one that  *)
(* is wanted otherwise is stopped and begun anew.                           *)
Ensured(e, setting, refused) ==
  CASE setting = None -> None
    [] setting # None /\ e # None /\ e.setting = setting -> Kept(e, refused)
    [] OTHER -> Started(New(setting), refused)

(* One pass over a live one. *)
Watched(e) == [e EXCEPT !.failures = IF e.long THEN 0 ELSE @]

-------------------------------------------------------------------------------
(* Requests.                                                               *)

(* Which starts fail. *)
Refusals == IF "spawn" \in Faults THEN SUBSET Things ELSE {{}}

(* reconcile: every dev server and every tunnel. *)
Reconcile(conf, olds) ==
  \E refused \in Refusals :
    entries' = [t \in Things |-> Ensured(olds[t], Wanted(conf, t), t \in refused)]

(* reconcile_site: the dev server of that site. *)
ReconcileSite(conf, s) ==
  \E refused \in Refusals :
    entries' = [entries EXCEPT ![<<"dev", s>>] =
                  Ensured(@, Wanted(conf, <<"dev", s>>), <<"dev", s>> \in refused)]

(* A save that fails leaves the change in memory and nothing reconciled. *)
SaveFails(s) ==
  /\ "save" \in Faults
  /\ unsaved' = unsaved \cup (Kinds \X {s})
  /\ UNCHANGED <<disk, entries>>

(* A change to one link, saved, and carried out for its site or for all. *)
SetSite(s, link) ==
  /\ config' = [config EXCEPT ![s] = link]
  /\ \/ SaveFails(s)
     \/ disk' = config' /\ unsaved' = unsaved \ {<<"dev", s>>} /\ ReconcileSite(config', s)

SetAll(s, link) ==
  /\ config' = [config EXCEPT ![s] = link]
  /\ SaveFails(s) \/ (disk' = config' /\ unsaved' = {} /\ Reconcile(config', entries))

SetDev(s, script) ==
  /\ "dev" \in Requests
  /\ config[s] # None
  /\ SetSite(s, [config[s] EXCEPT !.dev = script])

SetShare(s, label) ==
  /\ "share" \in Requests
  /\ config[s] # None
  /\ SetAll(s, [config[s] EXCEPT !.tunnel = label])

(* A link is written afresh, over one that is there too; an import of one   *)
(* site does the same and passes over all.                                  *)
LinkSite(s) == "link" \in Requests /\ SetSite(s, NewLink)
ImportSite(s) == "link" \in Requests /\ SetAll(s, NewLink)

(* A spec brings a dev server and never a label. *)
ApplySpec(s, script) == "spec" \in Requests /\ SetSite(s, [NewLink EXCEPT !.dev = script])

Unlink(s) == "unlink" \in Requests /\ config[s] # None /\ SetSite(s, None)

(* Any other request that ends with a full pass; reload and repair take the *)
(* config as saved, and repair stops every dev server first.                *)
Pass ==
  /\ "pass" \in Requests
  /\ unsaved' = {}
  /\ Reconcile(config, entries)
  /\ UNCHANGED <<config, disk>>

Reload ==
  /\ "reload" \in Requests
  /\ config' = disk /\ unsaved' = {}
  /\ Reconcile(disk, entries)
  /\ UNCHANGED disk

RepairBackends ==
  /\ "repair" \in Requests
  /\ config' = disk /\ unsaved' = {}
  /\ Reconcile(disk, [t \in Things |-> IF t[1] = "dev" THEN None ELSE entries[t]])
  /\ UNCHANGED disk

(* `dpl dev restart`, `dpl share restart`: begun anew, whatever it had come *)
(* to.                                                                      *)
Restart(t) ==
  /\ "restart" \in Requests
  /\ entries[t] # None
  /\ \E refused \in Refusals :
       entries' = [entries EXCEPT ![t] = Started(New(@.setting), t \in refused)]
  /\ UNCHANGED settings

-------------------------------------------------------------------------------
(* Supervision, time and processes.                                        *)

Supervise(kind) ==
  /\ \E refused \in Refusals :
       entries' = [t \in Things |->
         CASE t[1] # kind \/ entries[t] = None -> entries[t]
           [] t[1] = kind /\ entries[t] # None /\ entries[t].child = "running" -> Watched(entries[t])
           [] OTHER -> Kept(entries[t], t \in refused)]
  /\ UNCHANGED settings

Elapse(t) ==
  /\ entries[t] # None /\ entries[t].waiting
  /\ entries' = [entries EXCEPT ![t].waiting = FALSE]
  /\ UNCHANGED settings

(* A long run matters once something has failed. *)
Season(t) ==
  /\ entries[t] # None /\ entries[t].child # "none" /\ ~entries[t].long
  /\ entries[t].failures > 0
  /\ entries' = [entries EXCEPT ![t].long = TRUE]
  /\ UNCHANGED settings

Exit(t) ==
  /\ "exit" \in Faults
  /\ entries[t] # None /\ entries[t].child = "running"
  /\ entries' = [entries EXCEPT ![t].child = "exited"]
  /\ UNCHANGED settings

(* The daemon ends, and the next one starts what the saved config wants. *)
DaemonRestarts ==
  /\ "daemon" \in Faults
  /\ config' = disk /\ unsaved' = {}
  /\ Reconcile(disk, [t \in Things |-> None])
  /\ UNCHANGED disk

Init ==
  /\ config = [s \in Sites |-> None] /\ disk = config
  /\ entries = [t \in Things |-> None]
  /\ unsaved = {}

Request ==
  \/ \E s \in Sites : \/ \E script \in Scripts \cup {None} : SetDev(s, script) \/ ApplySpec(s, script)
                      \/ \E label \in Labels \cup {None} : SetShare(s, label)
                      \/ LinkSite(s) \/ ImportSite(s) \/ Unlink(s)
  \/ Pass \/ Reload \/ RepairBackends
  \/ \E t \in Things : Restart(t)

Next ==
  \/ Request
  \/ \E kind \in Kinds : Supervise(kind)
  \/ \E t \in Things : Elapse(t) \/ Season(t) \/ Exit(t)
  \/ DaemonRestarts

Spec == Init /\ [][Next]_vars

(* Both tasks go round, and time passes. *)
FairSpec == Spec /\ (\A kind \in Kinds : WF_vars(Supervise(kind)))
                 /\ (\A t \in Things : WF_vars(Elapse(t)))

-------------------------------------------------------------------------------
(* Each thing climbs the ladder its supervisor promises: a pause after each *)
(* end, none started before its time or after it was given up, none counted *)
(* too often or not at all.                                                 *)
Phase(e) ==
  CASE e = None -> "unwanted"
    [] e # None /\ e.child # "none" -> "running"
    [] e # None /\ e.child = "none" /\ e.failures >= MaxFailures -> "given up"
    [] OTHER -> IF e.waiting THEN "pausing" ELSE "due"

Climbers == INSTANCE Ladder WITH
  phase <- [t \in Things |-> Phase(entries[t])],
  failures <- [t \in Things |-> IF entries[t] = None THEN 0 ELSE entries[t].failures],
  long <- [t \in Things |-> IF entries[t] = None THEN FALSE ELSE entries[t].long]

Climbs == Climbers!Spec

(* Nothing starts over unless it is asked for by name, wanted otherwise, or *)
(* everything is: no request about another site and no pass takes a thing   *)
(* off its ladder (`must be cheap and must not restart a healthy server`).  *)
Over(t) == Restart(t) \/ RepairBackends \/ DaemonRestarts

SameWish(t) == entries[t] # None /\ entries'[t] # None /\ entries'[t].setting = entries[t].setting

KeepsClimbing == [][\A t \in Things : SameWish(t) => Climbers!Climb(t) \/ Over(t)]_vars

(* What runs is what the config asks for, and for what it asks now: the     *)
(* pass over one site and the pass over all agree, unless a save failed. Of *)
(* tunnels only that those that are wanted are there: see TunnelsWanted.    *)
FollowsConfig ==
  \A t \in Things \ unsaved :
    LET wanted == Wanted(config, t)
    IN  /\ wanted # None => entries[t] # None /\ entries[t].setting = wanted
        /\ t[1] = "dev" /\ wanted = None => entries[t] = None

(* `Stop tunnels for sites that no longer want one` (retain). *)
TunnelsWanted ==
  \A t \in Things \ unsaved : entries[t] # None => Wanted(config, t) # None

(* Nothing that ended goes unnoticed and nothing that is due stays down: the *)
(* timer alone sees to both, and by Climbs it goes on until the thing runs   *)
(* or is given up.                                                           *)
Neglected(t) == entries[t] # None /\ (entries[t].child = "exited" \/ Phase(entries[t]) = "due")

Recovers == \A t \in Things : Neglected(t) ~> ~Neglected(t)
===============================================================================
