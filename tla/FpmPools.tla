------------------------------- MODULE FpmPools -------------------------------
(***************************************************************************)
(* The php-fpm masters the daemon runs, their supervision on a timer, and  *)
(* the registry operations that start and stop them.                       *)
(*   crates/dpld/src/fpm.rs, registry.rs                                   *)
(*                                                                         *)
(* A pool is named by its MasterKey (PHP binary, Xdebug mode, profiler,    *)
(* preload script). Every operation runs under the registry lock and is    *)
(* one step; the status scrape of the supervision tick runs without it, so *)
(* anything may happen between its steps. The files a master is started    *)
(* with and the page a pool answers are left out.                          *)
(***************************************************************************)
EXTENDS Naturals

CONSTANTS
  Keys,        \* master keys
  Sites,       \* linked sites
  Ports,       \* ports the system hands out
  Ides,        \* values of the shared Xdebug settings (port, IDE key)
  None,
  MaxFailures, \* MAX_FAILURES
  Requests,    \* subset of {"site", "sites", "ide", "restart", "reload"}
  Faults,      \* subset of {"spawn", "save", "daemon"}
  Recycle      \* may the system hand out a port of a pool that just stopped?

(* `seen` stands for the pair stats/detail; `answered` is not in the code:  *)
(* it says whether this very process has answered a scrape.                 *)
Master == [port : Ports, alive : BOOLEAN, answered : BOOLEAN,
           seen : {"never", "fresh", "stale"},
           failures : 0..(MaxFailures - 1), ide : Ides]

Failure == [n : 1..MaxFailures, due : BOOLEAN]

ASSUME FpmAssumption ==
  /\ MaxFailures \in Nat \ {0}
  /\ None \notin Keys \cup Master \cup Failure

VARIABLES
  config,   \* Registry.config: the pool each site asks for, the IDE settings
  disk,     \* the same, as last saved
  routes,   \* Registry.routes: the pool the proxy sends a site's requests to
  ide,      \* FpmManager.xdebug_settings
  masters,  \* FpmManager.masters
  failed,   \* FpmManager.failed: deaths in a row, and is the backoff over?
  cache,    \* POOL_STATS: the ports it has numbers for
  pc,       \* the supervision task: "sleep" or "scrape"
  scraped,  \* per port, how far this tick's scrape got
  crashes,  \* per pool, its deaths since it last answered or was stopped
  resting   \* ports given up since the cache was last pruned

registry == <<config, disk, routes>>
tick == <<pc, scraped>>
vars == <<config, disk, routes, ide, masters, failed, cache, pc, scraped, crashes, resting>>

Config == [sites : [Sites -> Keys \cup {None}], ide : Ides]

TypeOK ==
  /\ config \in Config /\ disk \in Config
  /\ routes \in [Sites -> Keys \cup {None}]
  /\ ide \in Ides
  /\ masters \in [Keys -> Master \cup {None}]
  /\ failed \in [Keys -> Failure \cup {None}]
  /\ cache \subseteq Ports
  /\ pc \in {"sleep", "scrape"}
  /\ scraped \in [Ports -> {"no", "asked", "answered", "silent"}]
  /\ crashes \in [Keys -> 0..(MaxFailures + 1)]
  /\ resting \subseteq Ports

Alive(ms, k) == ms[k] # None /\ ms[k].alive
Dead(ms, k) == ms[k] # None /\ ~ms[k].alive
PortsOf(ms) == {ms[k].port : k \in {j \in Keys : ms[j] # None}}
GaveUp(k) == failed[k] # None /\ failed[k].n >= MaxFailures
NoFailures == [k \in Keys |-> None]
NoMasters == [k \in Keys |-> None]
Asked(sites) == {sites[s] : s \in Sites} \ {None}

Injections(S, T) == {f \in [S -> T] : \A a, b \in S : f[a] = f[b] => a = b}

-------------------------------------------------------------------------------
(* Starting masters.                                                       *)

MayStart(fs, k) == fs[k] = None \/ (fs[k].n < MaxFailures /\ fs[k].due)

Started(fs, k, port, settings) ==
  [port |-> port, alive |-> TRUE, answered |-> FALSE, seen |-> "never",
   failures |-> IF fs[k] = None THEN 0 ELSE fs[k].n, ide |-> settings]

(* A started pool takes its failure history with it. *)
Forget(fs, started) == [k \in Keys |-> IF k \in started THEN None ELSE fs[k]]

(* Which of the pools asked for get a new process: those that are down and  *)
(* may be started, unless the spawn fails.                                  *)
Starts(ms, fs, asked) ==
  LET down == {k \in asked : ~Alive(ms, k) /\ MayStart(fs, k)}
  IN  IF "spawn" \in Faults THEN SUBSET down ELSE {down}

(* The ports free_port may return for them. *)
FreePorts(ms, started, recent) ==
  LET taken == IF Recycle THEN {ms[k].port : k \in {j \in Keys : Alive(ms, j)}}
                          ELSE PortsOf(masters) \cup recent
  IN  Injections(started, Ports \ taken)

(* `ensure` for every pool asked for: a dead master is reaped (its failure  *)
(* is not counted here), a live one reused.                                 *)
Ensure(ms, fs, asked, started, at, settings) ==
  [k \in Keys |-> CASE k \in started -> Started(fs, k, at[k], settings)
                    [] k \notin started /\ k \in asked /\ Dead(ms, k) -> None
                    [] OTHER -> ms[k]]

Keep(ms, wanted) == [k \in Keys |-> IF k \in wanted THEN ms[k] ELSE None]

(* What the first reconcile of a daemon makes of a config. *)
Booted(conf, at) == Ensure(NoMasters, NoFailures, Asked(conf.sites), DOMAIN at, at, conf.ide)

(* After startup: the config loaded, and reconciled once. *)
Init ==
  /\ config \in Config
  /\ disk = config
  /\ routes = config.sites
  /\ ide = config.ide
  /\ \E at \in Injections(Asked(config.sites), Ports) : masters = Booted(config, at)
  /\ failed = NoFailures
  /\ cache = {}
  /\ pc = "sleep"
  /\ scraped = [p \in Ports |-> "no"]
  /\ crashes = [k \in Keys |-> 0]
  /\ resting = {}

-------------------------------------------------------------------------------
(* Registry operations.                                                    *)

(* What stopping and starting masters does besides: a pool stopped on       *)
(* purpose has no deaths to its name, and its port is free.                 *)
Replace(ms, stopped) ==
  /\ masters' = ms
  /\ crashes' = [k \in Keys |-> IF k \in stopped /\ masters[k] # None THEN 0 ELSE crashes[k]]
  /\ resting' = (resting \cup PortsOf(masters)) \ PortsOf(ms)

(* Mutant: changed IDE settings do not drop the running masters. *)
ReconcileKeepingMasters(conf, ms) ==
  LET asked == Asked(conf.sites) IN
  \E started \in Starts(ms, failed, asked) : \E at \in FreePorts(ms, started, resting) :
    /\ Replace(Keep(Ensure(ms, failed, asked, started, at, conf.ide), asked),
               {k \in Keys : ms[k] = None \/ k \notin asked})
    /\ failed' = Forget(failed, started)
    /\ ide' = conf.ide
    /\ routes' = conf.sites

(* The full pass: push the settings down, ensure every site's pool, stop    *)
(* the others, rebuild the routes.                                          *)
Reconcile(conf, ms) ==
  LET asked == Asked(conf.sites)
      kept == IF conf.ide # ide THEN NoMasters ELSE ms
  IN  \E started \in Starts(kept, failed, asked) : \E at \in FreePorts(kept, started, resting) :
        /\ Replace(Keep(Ensure(kept, failed, asked, started, at, conf.ide), asked),
                   {k \in Keys : kept[k] = None \/ k \notin asked})
        /\ failed' = Forget(failed, started)
        /\ ide' = conf.ide
        /\ routes' = conf.sites

(* One site only, with the settings the manager already has; masters are    *)
(* kept for the routes of every site.                                       *)
ReconcileSite(conf, s) ==
  LET asked == {conf.sites[s]} \ {None}
      now == [routes EXCEPT ![s] = conf.sites[s]]
  IN  \E started \in Starts(masters, failed, asked) : \E at \in FreePorts(masters, started, resting) :
        /\ Replace(Keep(Ensure(masters, failed, asked, started, at, ide), Asked(now)),
                   Keys \ Asked(now))
        /\ failed' = Forget(failed, started)
        /\ routes' = now
        /\ UNCHANGED ide

Save(conf) == config' = conf /\ disk' = conf

(* A save that fails leaves the change in memory, and nothing reconciled. *)
SaveFails(conf) ==
  /\ "save" \in Faults
  /\ config' = conf
  /\ UNCHANGED <<disk, routes, ide, masters, failed, crashes, resting>>

(* Link, unlink, or move a site to another pool (PHP, mode, profiler,       *)
(* preload).                                                                *)
SetSite(s, k) ==
  LET conf == [config EXCEPT !.sites[s] = k] IN
  /\ "site" \in Requests
  /\ k # config.sites[s]
  /\ SaveFails(conf) \/ (Save(conf) /\ ReconcileSite(conf, s))
  /\ UNCHANGED <<cache, pc, scraped>>

(* Park, import, remove, or a new default PHP: many sites move at once. *)
SetSites(sites) ==
  LET conf == [config EXCEPT !.sites = sites] IN
  /\ "sites" \in Requests
  /\ SaveFails(conf) \/ (Save(conf) /\ Reconcile(conf, masters))
  /\ UNCHANGED <<cache, pc, scraped>>

(* set_xdebug with a port or IDE key. It is set before the mode and site    *)
(* given along with it are checked.                                         *)
SetIde(i, valid) ==
  LET conf == [config EXCEPT !.ide = i] IN
  /\ "ide" \in Requests
  /\ i # config.ide
  /\ \/ ~valid /\ config' = conf /\ UNCHANGED <<disk, routes, ide, masters, failed, crashes, resting>>
     \/ valid /\ SaveFails(conf)
     \/ valid /\ Save(conf) /\ Reconcile(conf, masters)
  /\ UNCHANGED <<cache, pc, scraped>>

(* `dpl fpm restart`: stop every master, then reconcile. *)
RestartFpm ==
  /\ "restart" \in Requests
  /\ Reconcile(config, NoMasters)
  /\ UNCHANGED <<config, disk, cache, pc, scraped>>

(* `dpl reload`: the config as saved, every master stopped, then reconcile. *)
Reload ==
  /\ "reload" \in Requests
  /\ config' = disk
  /\ Reconcile(disk, NoMasters)
  /\ UNCHANGED <<disk, cache, pc, scraped>>

-------------------------------------------------------------------------------
(* The system, and the supervision task.                                   *)

(* A master's process ends: a boot error, a crash, a signal. *)
Die(k) ==
  /\ Alive(masters, k)
  /\ masters' = [masters EXCEPT ![k].alive = FALSE]
  /\ crashes' = [crashes EXCEPT ![k] = IF @ <= MaxFailures THEN @ + 1 ELSE @]
  /\ UNCHANGED <<registry, ide, failed, cache, tick, resting>>

(* Time passes: the backoff of a failed pool is over. *)
Elapse(k) ==
  /\ failed[k] # None /\ ~failed[k].due
  /\ failed' = [failed EXCEPT ![k].due = TRUE]
  /\ UNCHANGED <<registry, ide, masters, cache, tick, crashes, resting>>

Look ==
  /\ pc = "sleep"
  /\ pc' = "scrape"
  /\ scraped' = [p \in Ports |-> IF p \in PortsOf(masters) THEN "asked" ELSE "no"]
  /\ UNCHANGED <<registry, ide, masters, failed, cache, crashes, resting>>

(* A busy pool does not answer; the orphaned workers of a dead one may. *)
Silent(p) ==
  /\ pc = "scrape" /\ scraped[p] = "asked"
  /\ scraped' = [scraped EXCEPT ![p] = "silent"]
  /\ UNCHANGED <<registry, ide, masters, failed, cache, pc, crashes, resting>>

Answer(p, k) ==
  /\ pc = "scrape" /\ scraped[p] = "asked"
  /\ masters[k] # None /\ masters[k].port = p
  /\ scraped' = [scraped EXCEPT ![p] = "answered"]
  /\ masters' = [masters EXCEPT ![k].answered = TRUE]
  /\ crashes' = [crashes EXCEPT ![k] = IF masters[k].alive THEN 0 ELSE 1]
  /\ UNCHANGED <<registry, ide, failed, cache, pc, resting>>

(* apply_stats finds a pool by its port: the first one, when two have it. *)
Scraped(k) ==
  LET p == masters[k].port IN
  IF masters[k] # None /\ k = CHOOSE j \in Keys : masters[j] # None /\ masters[j].port = p
  THEN scraped[p] ELSE "no"

ApplyStats ==
  [k \in Keys |->
    CASE Scraped(k) = "answered" -> [masters[k] EXCEPT !.seen = "fresh", !.failures = 0]
      [] Scraped(k) = "silent" /\ masters[k].seen # "never" -> [masters[k] EXCEPT !.seen = "stale"]
      [] OTHER -> masters[k]]

(* Mutant: numbers of pools that are gone stay in the cache. *)
PublishUnpruned == cache \cup {p \in Ports : scraped[p] = "answered"}

(* The cache keeps numbers of pools that exist only. *)
Publish == (cache \cup {p \in Ports : scraped[p] = "answered"}) \cap PortsOf(masters)

(* supervise: the dead leave the map for the list of failures. *)
Supervised(ms) == [k \in Keys |-> IF Dead(ms, k) THEN None ELSE ms[k]]
Blame(ms) ==
  [k \in Keys |-> IF Dead(ms, k) THEN [n |-> ms[k].failures + 1, due |-> FALSE] ELSE failed[k]]

(* Mutant: supervise runs before the scrape is applied. *)
FoldLate ==
  LET ms == Supervised(masters)
      fs == Blame(masters)
      asked == {k \in Keys : fs[k] # None /\ MayStart(fs, k)}
  IN
  /\ pc = "scrape" /\ \A p \in Ports : scraped[p] # "asked"
  /\ \E started \in Starts(ms, fs, asked) : \E at \in FreePorts(ms, started, {}) :
       /\ masters' = Ensure([k \in Keys |-> IF ms[k] # None THEN ApplyStats[k] ELSE None],
                            fs, asked, started, at, ide)
       /\ failed' = Forget(fs, started)
  /\ cache' = Publish
  /\ resting' = PortsOf(masters) \ PortsOf(ms)
  /\ pc' = "sleep" /\ scraped' = [p \in Ports |-> "no"]
  /\ UNCHANGED <<registry, ide, crashes>>

(* Mutant: pools are respawned only in a tick that saw one die. *)
FoldOnDeath ==
  LET applied == ApplyStats
      ms == Supervised(applied)
      fs == Blame(applied)
      asked == IF ms = applied THEN {} ELSE {k \in Keys : fs[k] # None /\ MayStart(fs, k)}
  IN
  /\ pc = "scrape" /\ \A p \in Ports : scraped[p] # "asked"
  /\ \E started \in Starts(ms, fs, asked) : \E at \in FreePorts(ms, started, {}) :
       /\ masters' = Ensure(ms, fs, asked, started, at, ide)
       /\ failed' = Forget(fs, started)
  /\ cache' = Publish
  /\ resting' = PortsOf(masters) \ PortsOf(ms)
  /\ pc' = "sleep" /\ scraped' = [p \in Ports |-> "no"]
  /\ UNCHANGED <<registry, ide, crashes>>

(* With the lock taken again: apply the scrape, notice the dead, bring back *)
(* every failed pool whose backoff is over.                                 *)
Fold ==
  LET applied == ApplyStats
      ms == Supervised(applied)
      fs == Blame(applied)
      asked == {k \in Keys : fs[k] # None /\ MayStart(fs, k)}
  IN
  /\ pc = "scrape" /\ \A p \in Ports : scraped[p] # "asked"
  /\ \E started \in Starts(ms, fs, asked) : \E at \in FreePorts(ms, started, {}) :
       /\ masters' = Ensure(ms, fs, asked, started, at, ide)
       /\ failed' = Forget(fs, started)
  /\ cache' = Publish
  /\ resting' = PortsOf(masters) \ PortsOf(ms)
  /\ pc' = "sleep" /\ scraped' = [p \in Ports |-> "no"]
  /\ UNCHANGED <<registry, ide, crashes>>

(* The daemon ends and is started again: orphans killed, config loaded,     *)
(* everything reconciled.                                                   *)
DaemonRestarts ==
  /\ "daemon" \in Faults
  /\ config' = disk /\ UNCHANGED disk
  /\ ide' = disk.ide /\ routes' = disk.sites
  /\ \E started \in Starts(NoMasters, NoFailures, Asked(disk.sites)) :
       \E at \in Injections(started, Ports) : masters' = Booted(disk, at)
  /\ failed' = NoFailures
  /\ cache' = {} /\ resting' = {}
  /\ crashes' = [k \in Keys |-> 0]
  /\ pc' = "sleep" /\ scraped' = [p \in Ports |-> "no"]

Request ==
  \/ \E s \in Sites, k \in Keys \cup {None} : SetSite(s, k)
  \/ \E sites \in [Sites -> Keys \cup {None}] : SetSites(sites)
  \/ \E i \in Ides, valid \in BOOLEAN : SetIde(i, valid)
  \/ RestartFpm
  \/ Reload

Watch == Look \/ Fold \/ \E p \in Ports : Silent(p) \/ \E k \in Keys : Answer(p, k)

Next ==
  \/ Request
  \/ Watch
  \/ \E k \in Keys : Die(k) \/ Elapse(k)
  \/ DaemonRestarts

Spec == Init /\ [][Next]_vars

(* The task's timer fires, its scrapes end, and time passes. *)
FairSpec == Spec /\ WF_vars(Look) /\ WF_vars(Fold)
                 /\ \A p \in Ports : WF_vars(Silent(p) \/ \E k \in Keys : Answer(p, k))
                 /\ \A k \in Keys : WF_vars(Elapse(k))

-------------------------------------------------------------------------------
(* A pool is either running or on the list of failures, never both: the     *)
(* status listing, built from the two maps, shows it once, and no history   *)
(* survives next to the process that inherited it.                          *)
OnePlace == \A k \in Keys : masters[k] = None \/ failed[k] = None

(* The ladder never overcounts: a pool the daemon gave up on died           *)
(* MAX_FAILURES times without answering in between, however the scrape's    *)
(* answer, the death and the requests interleave.                           *)
GaveUpEarned == \A k \in Keys : GaveUp(k) => crashes[k] >= MaxFailures

(* The ladder never undercounts (`A master that keeps dying gets the        *)
(* backoff ladder rather than a fresh spawn on every request that asks for  *)
(* it`): no more than MAX_FAILURES processes in a row die without one       *)
(* answering or being stopped on purpose.                                   *)
GivesUp == \A k \in Keys : crashes[k] <= MaxFailures

(* Every master runs with the Xdebug settings the manager has: a change     *)
(* never leaves one behind with a stale loader ini, whichever path          *)
(* (reconcile, a single site, a respawn) started it.                        *)
SettingsCurrent == \A k \in Keys : masters[k] # None => masters[k].ide = ide

(* Numbers published for a port come from the process that listens there    *)
(* now (`so a recycled port can't inherit a dead pool's numbers and         *)
(* mislabel a future failure`).                                             *)
CachedIsOwn == \A k \in Keys :
  masters[k] # None /\ masters[k].port \in cache => masters[k].answered

(* Masters no site routes to are stopped (`Stop masters no longer wanted by *)
(* any site`).                                                              *)
WantedOnly == \A k \in Keys : masters[k] # None => k \in Asked(routes)

(* `dpl fpm restart` tries again every pool a site wants that was given up (`gave up after    *)
(* {failures} failed starts - dpl fpm restart to retry`).                   *)
RestartRetries == [][RestartFpm => \A k \in Asked(config.sites) :
                                     GaveUp(k) => failed'[k] = None]_vars

(* A set_xdebug that is refused changes nothing (`Parse before touching     *)
(* config so an invalid mode changes nothing`).                             *)
InvalidChangesNothing == [][\A i \in Ides : SetIde(i, FALSE) => config' = config]_vars

(* A pool a site routes to that is down comes back, is given up, or is no   *)
(* longer routed to, without any request to ask for it.                     *)
Recovers ==
  \A s \in Sites : \A k \in Keys :
    routes[s] = k ~> (Alive(masters, k) \/ GaveUp(k) \/ routes[s] # k)
===============================================================================
