-------------------------------- MODULE Octane --------------------------------
(***************************************************************************)
(* The Octane servers the daemon runs: their restart ladder, the reloads   *)
(* that follow a change of the sources, and the process groups they leave. *)
(*   crates/dpld/src/appserver.rs, registry.rs                             *)
(*                                                                         *)
(* Requests and the supervision pass run under the registry lock, one step *)
(* each; the sources are scanned between the locks. A start is a process   *)
(* group: the artisan launcher the daemon holds, and the real server it    *)
(* boots. Sources, and the code a server has loaded, are numbered by edit. *)
(***************************************************************************)
EXTENDS Naturals

CONSTANTS
  Sites,
  Runtimes,    \* runtime, PHP binary and project: what a server is started for
  Groups,      \* process group ids, reused when free
  None,
  MaxFailures, \* MAX_FAILURES
  MaxEdits,    \* bound: how often the sources of a site change
  Requests,    \* subset of {"runtime", "watch", "reload", "restart", "repair", "reconcile"}
  Faults,      \* subset of {"exit", "launcher", "reload", "spawn", "save", "daemon"}
  EarlyEdits,  \* may sources change between a start and the first scan after it?
  LateCrash    \* may the daemon end while stopped groups are still about?

Setting == [runtime : Runtimes \cup {None}, watch : BOOLEAN]

Edits == 0..MaxEdits

(* child and pgid are set and cleared together: `group`. `waiting` is a     *)
(* retry_at still ahead, `healthy` a run of HEALTHY_AFTER.                  *)
Server == [runtime : Runtimes, group : Groups \cup {None}, failures : 0..MaxFailures,
           waiting : BOOLEAN, healthy : BOOLEAN, watch : BOOLEAN,
           fingerprint : Edits \cup {None}, dirty : BOOLEAN,
           reloading : {"no", "running", "cycled", "ok", "failed"}]

(* "alone" is a server whose launcher is gone. *)
Group == [site : Sites, state : {"booting", "up", "alone"}, code : Edits]

ASSUME OctaneAssumption ==
  /\ MaxFailures \in Nat \ {0} /\ MaxEdits \in Nat
  /\ None \notin Runtimes \cup Groups \cup Edits \cup Server \cup Group

VARIABLES
  config,   \* Registry.config: the links' runtime and watch
  disk,     \* the same, as last saved
  src,      \* per site, its sources
  servers,  \* AppServers.servers
  groups,   \* process groups with a live process
  dying,    \* AppServers.dying
  recorded, \* AppServers.recorded, and the file
  pc,       \* the supervision task: "sleep" or "scan"
  due,      \* sites this pass has still to scan
  scans,    \* the fingerprints it has
  crashes   \* per site, its ends in a row: see LadderExact

settings == <<config, disk>>
pass == <<pc, due, scans>>
vars == <<config, disk, src, servers, groups, dying, recorded, pc, due, scans, crashes>>

(* Every variable has its type. A failure count beyond MAX_FAILURES would   *)
(* mean a start after the daemon gave up.                                   *)
TypeOK ==
  /\ config \in [Sites -> Setting] /\ disk \in [Sites -> Setting]
  /\ src \in [Sites -> Edits]
  /\ servers \in [Sites -> Server \cup {None}]
  /\ groups \in [Groups -> Group \cup {None}]
  /\ dying \subseteq Groups /\ recorded \subseteq Groups
  /\ pc \in {"sleep", "scan"}
  /\ due \subseteq Sites /\ scans \in [Sites -> Edits \cup {None}]
  /\ crashes \in [Sites -> 0..(MaxFailures + 1)]

Owned(vs) == {vs[s].group : s \in {t \in Sites : vs[t] # None}} \ {None}
Alive(v) == v.group # None /\ groups[v.group] # None /\ groups[v.group].state # "alone"
Up(v) == v.group # None /\ groups[v.group] # None /\ groups[v.group].state = "up"

Injections(S, T) == {f \in [S -> T] : \A a, b \in S : f[a] = f[b] => a = b}
NoServers == [s \in Sites |-> None]
NoScans == [s \in Sites |-> None]

-------------------------------------------------------------------------------
(* One server.                                                             *)

(* A new entry, with its process started. *)
New(conf, g) ==
  [runtime |-> conf.runtime, group |-> g, failures |-> 0, waiting |-> FALSE, healthy |-> FALSE,
   watch |-> conf.watch, fingerprint |-> None, dirty |-> FALSE, reloading |-> "no"]

(* Mutant: a dead server is not kept, but replaced. *)
ReusableAlive(v, conf) == v # None /\ v.runtime = conf.runtime /\ Alive(v)

(* A server for the same runtime is kept, dead or alive. *)
Reusable(v, conf) == v # None /\ v.runtime = conf.runtime

(* Watching turned on again takes a new baseline. *)
Reused(v, conf) ==
  IF conf.watch /\ ~v.watch
  THEN [v EXCEPT !.watch = TRUE, !.fingerprint = None, !.dirty = FALSE]
  ELSE [v EXCEPT !.watch = conf.watch]

(* begin_restart: stopped, its history forgotten, to be started after a     *)
(* pause.                                                                   *)
Bounced(v) ==
  [v EXCEPT !.group = None, !.failures = 0, !.waiting = TRUE, !.healthy = FALSE,
            !.fingerprint = None, !.dirty = FALSE, !.reloading = "no"]

(* is_alive finds the child exited. *)
Reaped(v) ==
  IF v.group = None THEN v
  ELSE [v EXCEPT !.group = None, !.waiting = TRUE, !.healthy = FALSE,
                 !.failures = IF v.healthy THEN 1 ELSE @ + 1]

(* Mutant: only watched servers come back. *)
MayStartWatched(v) == v.group = None /\ ~v.waiting /\ v.failures < MaxFailures /\ v.watch

(* It is down, and may be started. *)
MayStart(v) == v.group = None /\ ~v.waiting /\ v.failures < MaxFailures

(* The debounce: reload on the first scan that finds the tree quiet again. *)
Classify(fingerprint, now, dirty, reloading) ==
  CASE fingerprint = None -> "baseline"
    [] fingerprint # None /\ fingerprint # now -> "changed"
    [] fingerprint = now /\ dirty /\ ~reloading -> "settled"
    [] OTHER -> "idle"

(* settle_reload, when the reload did not fail. *)
Collected(v) == [v EXCEPT !.reloading = IF @ = "ok" THEN "no" ELSE @]

(* A live server whose scan is `now`. *)
Watched(v, now) ==
  LET w == IF v.healthy THEN [v EXCEPT !.failures = 0] ELSE v
      tick == Classify(w.fingerprint, now, w.dirty, w.reloading # "no")
  IN  CASE now = None -> w
        [] now # None /\ tick = "baseline" -> [w EXCEPT !.fingerprint = now]
        [] now # None /\ tick = "changed" -> [w EXCEPT !.fingerprint = now, !.dirty = TRUE]
        [] now # None /\ tick = "settled" -> [w EXCEPT !.dirty = FALSE, !.reloading = "running"]
        [] OTHER -> w

-------------------------------------------------------------------------------
(* Process groups.                                                         *)

(* `stop`: TERM for the group, KILL for the launcher. The real server may   *)
(* survive the first.                                                       *)
Stopped(gs, stopped) ==
  [g \in Groups |-> IF g \notin stopped \/ gs[g] = None THEN gs[g]
                    ELSE IF gs[g].state = "booting" THEN None
                    ELSE [gs[g] EXCEPT !.state = "alone"]]

Killed(gs, killed) == [g \in Groups |-> IF g \in killed THEN None ELSE gs[g]]

Launched(gs, at) ==
  [g \in Groups |-> IF \E s \in DOMAIN at : at[s] = g
                    THEN [site |-> CHOOSE s \in DOMAIN at : at[s] = g, state |-> "booting", code |-> 0]
                    ELSE gs[g]]

(* Ids for new groups: nothing runs in them, nobody waits for them. *)
Free(gs, pending, held) == {g \in Groups : gs[g] = None} \ (pending \cup held)

MaySpawn(wanted) == IF "spawn" \in Faults THEN SUBSET wanted ELSE {wanted}

(* Mutant: the file is written by the supervision pass only. *)
RecordLater(vs) == recorded

(* record_groups: the groups of servers, not those that are dying. *)
Record(vs) == Owned(vs)

-------------------------------------------------------------------------------
(* Requests.                                                               *)

(* `ensure` for the sites named, `retain` for all: `vs` are the servers     *)
(* that have not been stopped before. A server that cannot be started       *)
(* leaves its site to php-fpm.                                              *)
Ensure(conf, named, vs) ==
  LET fresh == {s \in named : conf[s].runtime # None /\ ~Reusable(vs[s], conf[s])} IN
  \E spawned \in MaySpawn(fresh) : \E at \in Injections(spawned, Free(groups, dying, Owned(servers))) :
    /\ servers' = [s \in Sites |->
         CASE s \notin named -> vs[s]
           [] s \in spawned -> New(conf[s], at[s])
           [] s \in named \ fresh /\ conf[s].runtime # None -> Reused(vs[s], conf[s])
           [] OTHER -> None]
    /\ LET stopped == Owned(servers) \ Owned(servers') IN
         /\ groups' = Launched(Stopped(groups, stopped), at)
         /\ dying' = dying \cup stopped
    /\ recorded' = Record(servers')
    /\ crashes' = [s \in Sites |->
         IF vs[s] # None /\ servers'[s] # None /\ servers'[s].runtime = vs[s].runtime
         THEN crashes[s] ELSE 0]

(* A failed save leaves the change in memory, and nothing reconciled. *)
SaveFails == "save" \in Faults /\ UNCHANGED <<disk, servers, groups, dying, recorded, crashes>>

(* Link, unlink, or set the runtime; turn watching on or off. *)
Set(s, conf) ==
  /\ config' = [config EXCEPT ![s] = conf]
  /\ SaveFails \/ (disk' = config' /\ Ensure(config', {s}, servers))
  /\ UNCHANGED <<src, pass>>

SetRuntime(s, r) ==
  "runtime" \in Requests /\ r # config[s].runtime /\ Set(s, [config[s] EXCEPT !.runtime = r])

SetWatch(s, on) ==
  "watch" \in Requests /\ on # config[s].watch /\ Set(s, [config[s] EXCEPT !.watch = on])

(* Any request that ends with a full pass. *)
Reconcile ==
  /\ "reconcile" \in Requests
  /\ Ensure(config, Sites, servers)
  /\ UNCHANGED <<settings, src, pass>>

(* repair_backends: the config as saved, every server stopped first. *)
Repair ==
  /\ "repair" \in Requests
  /\ config' = disk
  /\ Ensure(disk, Sites, NoServers)
  /\ UNCHANGED <<disk, src, pass>>

(* begin_restart, with the group it was left to clean up. *)
Restart(s, group) ==
  /\ servers' = [servers EXCEPT ![s] = Bounced(@)]
  /\ groups' = Stopped(groups, {group} \ {None})
  /\ dying' = dying \cup ({group} \ {None})
  /\ crashes' = [crashes EXCEPT ![s] = 0]

(* `dpl octane restart` *)
RestartOctane(s) ==
  /\ "restart" \in Requests
  /\ servers[s] # None
  /\ Restart(s, servers[s].group)
  /\ UNCHANGED <<settings, src, recorded, pass>>

(* `dpl octane reload`: a dead server is restarted, and so is one whose     *)
(* reload cannot be run. A reload on its way is forgotten.                  *)
ReloadOctane(s) ==
  /\ "reload" \in Requests
  /\ servers[s] # None
  /\ \/ /\ Alive(servers[s])
        /\ servers' = [servers EXCEPT ![s].reloading = "running"]
        /\ UNCHANGED <<groups, dying, crashes>>
     \/ Alive(servers[s]) /\ "spawn" \in Faults /\ Restart(s, servers[s].group)
     \/ ~Alive(servers[s]) /\ Restart(s, None)
  /\ UNCHANGED <<settings, src, recorded, pass>>

-------------------------------------------------------------------------------
(* The supervision pass.                                                   *)

Look ==
  /\ pc = "sleep"
  /\ pc' = "scan"
  /\ due' = {s \in Sites : servers[s] # None /\ servers[s].watch}
  /\ scans' = NoScans
  /\ UNCHANGED <<settings, src, servers, groups, dying, recorded, crashes>>

(* `fingerprint` of one project. *)
Scan(s) ==
  /\ s \in due
  /\ due' = due \ {s}
  /\ scans' = [scans EXCEPT ![s] = src[s]]
  /\ UNCHANGED <<settings, src, servers, groups, dying, recorded, pc, crashes>>

KillDying(gs) == Killed(gs, dying)

(* supervise: kill what had its grace, then look at every server.           *)
Supervise ==
  LET present == {s \in Sites : servers[s] # None}
      failed == {s \in present : servers[s].reloading = "failed"}
      down == {s \in present \ failed : MayStart(servers[s])}
      alive == {s \in present \ failed : Alive(servers[s])}
      seen == [s \in alive |-> Watched(Collected(servers[s]), scans[s])]
      reloads == {s \in alive : Collected(servers[s]).reloading = "no" /\ seen[s].reloading = "running"}
      left == KillDying(groups)
  IN
  /\ pc = "scan" /\ due = {}
  /\ \E spawned \in MaySpawn(down), reloaded \in MaySpawn(reloads) :
     \E at \in Injections(spawned, Free(left, {}, Owned(servers))) :
       LET restarted == failed \cup (reloads \ reloaded)
           stopped == {servers[s].group : s \in restarted} \ {None}
       IN  /\ servers' = [s \in Sites |->
                CASE s \notin present -> None
                  [] s \in restarted -> Bounced(servers[s])
                  [] s \in spawned -> [Collected(servers[s]) EXCEPT !.group = at[s]]
                  [] s \in down \ spawned ->
                       [Collected(servers[s]) EXCEPT !.failures = @ + 1, !.waiting = TRUE]
                  [] s \in alive \ restarted -> seen[s]
                  [] OTHER -> Reaped(Collected(servers[s]))]
           /\ groups' = Launched(Stopped(left, stopped), at)
           /\ dying' = stopped
           /\ crashes' = [s \in Sites |->
                CASE s \in restarted -> 0 [] s \in down \ spawned -> crashes[s] + 1 [] OTHER -> crashes[s]]
  /\ recorded' = Owned(servers')
  /\ pc' = "sleep" /\ scans' = NoScans
  /\ UNCHANGED <<settings, src, due>>

-------------------------------------------------------------------------------
(* Time, processes and files.                                              *)

Elapse(s) ==
  /\ servers[s] # None /\ servers[s].waiting
  /\ servers' = [servers EXCEPT ![s].waiting = FALSE]
  /\ UNCHANGED <<settings, src, groups, dying, recorded, pass, crashes>>

(* HEALTHY_AFTER has passed since it was started. *)
Season(s) ==
  /\ servers[s] # None /\ Alive(servers[s]) /\ ~servers[s].healthy
  /\ servers' = [servers EXCEPT ![s].healthy = TRUE]
  /\ crashes' = [crashes EXCEPT ![s] = 0]
  /\ UNCHANGED <<settings, src, groups, dying, recorded, pass>>

Others(g) == {h \in Groups \ {g} : groups[h] # None /\ groups[h].site = groups[g].site
                                    /\ groups[h].state # "booting"}

(* The launcher has the server up, with the sources as they are. Octane     *)
(* starts no second server for a project.                                   *)
Boot(g) ==
  /\ groups[g] # None /\ groups[g].state = "booting"
  /\ Others(g) = {}
  /\ groups' = [groups EXCEPT ![g].state = "up", ![g].code = src[groups[g].site]]
  /\ UNCHANGED <<settings, src, servers, dying, recorded, pass, crashes>>

(* What its launcher's end counts for. *)
Counts(g) ==
  crashes' = [s \in Sites |->
    IF servers[s] # None /\ servers[s].group = g /\ Alive(servers[s])
    THEN IF servers[s].healthy THEN 1 ELSE crashes[s] + 1
    ELSE crashes[s]]

Refused(g) == groups[g].state = "booting" /\ Others(g) # {}

(* All of a group ends: on its own, refused a port, or after a TERM. *)
Exit(g) ==
  /\ groups[g] # None
  /\ "exit" \in Faults \/ Refused(g) \/ groups[g].state = "alone"
  /\ Counts(g)
  /\ groups' = [groups EXCEPT ![g] = None]
  /\ UNCHANGED <<settings, src, servers, dying, recorded, pass>>

(* The launcher ends and its server does not. *)
LauncherExits(g) ==
  /\ "launcher" \in Faults
  /\ groups[g] # None /\ groups[g].state = "up"
  /\ Counts(g)
  /\ groups' = [groups EXCEPT ![g].state = "alone"]
  /\ UNCHANGED <<settings, src, servers, dying, recorded, pass>>

(* octane:reload has the workers load the sources, and ends. *)
Cycle(s) ==
  /\ servers[s] # None /\ servers[s].reloading = "running" /\ Up(servers[s])
  /\ servers' = [servers EXCEPT ![s].reloading = "cycled"]
  /\ groups' = [groups EXCEPT ![servers[s].group].code = src[s]]
  /\ UNCHANGED <<settings, src, dying, recorded, pass, crashes>>

ReloadEnds(s) ==
  /\ servers[s] # None /\ servers[s].reloading = "cycled"
  /\ servers' = [servers EXCEPT ![s].reloading = "ok"]
  /\ UNCHANGED <<settings, src, groups, dying, recorded, pass, crashes>>

(* Mutant: its exit status is not looked at. *)
ReloadFailsUnseen(s) ==
  /\ servers[s] # None /\ servers[s].reloading = "running"
  /\ "reload" \in Faults \/ ~Up(servers[s])
  /\ servers' = [servers EXCEPT ![s].reloading = "ok"]
  /\ UNCHANGED <<settings, src, groups, dying, recorded, pass, crashes>>

(* It fails, for one when no server of the site is up. *)
ReloadFails(s) ==
  /\ servers[s] # None /\ servers[s].reloading = "running"
  /\ "reload" \in Faults \/ ~Up(servers[s])
  /\ servers' = [servers EXCEPT ![s].reloading = "failed"]
  /\ UNCHANGED <<settings, src, groups, dying, recorded, pass, crashes>>

(* A watched file is saved. *)
Edit(s) ==
  /\ src[s] < MaxEdits
  /\ \/ EarlyEdits
     \/ servers[s] = None
     \/ servers[s] # None /\ (servers[s].group = None \/ servers[s].fingerprint # None)
  /\ src' = [src EXCEPT ![s] = @ + 1]
  /\ UNCHANGED <<settings, servers, groups, dying, recorded, pass, crashes>>

(* A daemon's first reconcile. *)
Booted(conf, left) ==
  LET wanted == {s \in Sites : conf[s].runtime # None} IN
  \E spawned \in MaySpawn(wanted) : \E at \in Injections(spawned, {g \in Groups : left[g] = None}) :
    /\ servers' = [s \in Sites |-> IF s \in spawned THEN New(conf[s], at[s]) ELSE None]
    /\ groups' = Launched(left, at)
    /\ recorded' = Owned(servers')

(* The daemon ends, without stopping a thing, and the next one kills what   *)
(* was recorded before it starts its own.                                   *)
DaemonRestarts ==
  /\ "daemon" \in Faults
  /\ LateCrash \/ dying = {}
  /\ config' = disk
  /\ Booted(disk, Killed(Stopped(groups, Owned(servers)), recorded))
  /\ dying' = {}
  /\ pc' = "sleep" /\ due' = {} /\ scans' = NoScans
  /\ crashes' = [s \in Sites |-> 0]
  /\ UNCHANGED <<disk, src>>

Init ==
  /\ config \in [Sites -> Setting]
  /\ disk = config
  /\ src = [s \in Sites |-> 0]
  /\ \E at \in Injections({s \in Sites : config[s].runtime # None}, Groups) :
       /\ servers = [s \in Sites |-> IF s \in DOMAIN at THEN New(config[s], at[s]) ELSE None]
       /\ groups = Launched([g \in Groups |-> None], at)
       /\ recorded = Owned(servers)
  /\ dying = {}
  /\ pc = "sleep" /\ due = {} /\ scans = NoScans
  /\ crashes = [s \in Sites |-> 0]

Request ==
  \/ \E s \in Sites : \/ \E r \in Runtimes \cup {None} : SetRuntime(s, r)
                      \/ \E on \in BOOLEAN : SetWatch(s, on)
                      \/ RestartOctane(s) \/ ReloadOctane(s)
  \/ Reconcile \/ Repair

Watch == Look \/ Supervise \/ \E s \in Sites : Scan(s)

Next ==
  \/ Request
  \/ Watch
  \/ DaemonRestarts
  \/ \E s \in Sites : Elapse(s) \/ Season(s) \/ Cycle(s) \/ ReloadEnds(s) \/ ReloadFails(s) \/ Edit(s)
  \/ \E g \in Groups : Boot(g) \/ Exit(g) \/ LauncherExits(g)

Spec == Init /\ [][Next]_vars

(* The task's loop goes round, time passes, and processes get where they    *)
(* are going: a launcher boots its server or gives up, a reload ends.       *)
FairSpec == Spec /\ WF_vars(Look) /\ WF_vars(Supervise)
                 /\ \A s \in Sites : /\ WF_vars(Scan(s)) /\ WF_vars(Elapse(s))
                                     /\ WF_vars(Cycle(s) \/ ReloadFails(s)) /\ WF_vars(ReloadEnds(s))
                 /\ \A g \in Groups : WF_vars(Boot(g)) /\ WF_vars(Exit(g) /\ Refused(g))

-------------------------------------------------------------------------------
(* The ladder neither forgets nor invents: a server that is down has as     *)
(* many failures to its name as it has ended in a row since it was last     *)
(* asked for, restarted on purpose or up for HEALTHY_AFTER, whatever        *)
(* reconciles came in between (`letting them restart a crashing server      *)
(* would undo the backoff`). With TypeOK: it is never started more than     *)
(* MAX_FAILURES times.                                                      *)
LadderExact ==
  \A s \in Sites : servers[s] # None /\ servers[s].group = None => servers[s].failures = crashes[s]

(* No server outlives the daemon's interest in it: what runs belongs to a   *)
(* server of the map or is about to be killed (`killing only what we hold   *)
(* would strand the real server on the port`).                              *)
NoStray == \A g \in Groups : groups[g] # None => g \in Owned(servers) \cup dying

(* A watched server ends up with the sources as they are, or ends: through  *)
(* edits at any moment of a reload, failed reloads, and crashes (`an edit   *)
(* made during one is picked up by the next tick`).                         *)
Stale(s) == /\ servers[s] # None /\ servers[s].watch /\ Up(servers[s])
            /\ groups[servers[s].group].code # src[s]

Fresh == \A s \in Sites : Stale(s) ~> ~Stale(s)

(* A server that is down is started again or given up, by the timer alone. *)
Down(s) == servers[s] # None /\ ~Alive(servers[s])

Recovers == \A s \in Sites : Down(s) ~> (~Down(s) \/ servers[s].failures >= MaxFailures)
===============================================================================
