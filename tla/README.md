# A specification of dply-local

TLA+ models of `dpld`, the per-user daemon of dply-local, model-checked with
TLC on small instances and, where it pays, proved with TLAPS for every size.
Definitions keep the names of the code; `PROJECT.json` maps each of them to the
lines it stands for.

## The system

`dpl` (a command line) and a macOS application send requests over a unix socket
to `dpld`. One daemon per user owns the socket and runs everything else:

| component | state | operations | what is hard about it |
|---|---|---|---|
| branch databases (`branchdb.rs`, `services.rs`) | link fields `db`, `db_branch`, `db_port`; Postgres databases `<db>` and `<db>@<branch>`; the mutex `OPS` | attach, detach, switch, drop-branch; the watcher that follows `.git/HEAD` | each statement is a psql process of its own; only `switch` takes `OPS`; outages, crashes and failing saves between two statements |
| php-fpm pools (`fpm.rs`) | `masters`, `failed`, the shared Xdebug settings, the stats cache | ensure, retain, the supervision tick, restart, reload | the status scrape runs without the registry lock; failure counts move between two maps |
| Octane servers (`appserver.rs`) | one entry per site, groups being stopped, the file of process groups | ensure, retain, reload, restart, the supervision pass | a source scan without the lock; reloads that end later; processes that outlive their launcher and their daemon |
| startup and control socket (`main.rs`, `server.rs`) | the socket file | probe, kill orphans, bind, serve, shut down | several daemons at once, each system call a step |
| registry (`registry.rs`, `sites.rs`) | the config in memory and on disk, routes, the hosts file | every mutation: change, save, reconcile | saves that fail; a full pass and a one-site pass that must agree; requests that hold a route |
| dev servers, tunnels (`devserver.rs`, `jetty.rs`) | one restart ladder per site | ensure, supervise | backoff, give-up, label and port changes |
| services (`services.rs`) | instances in memory and on disk, running children, data directories | create, start, stop, restart, delete | a child is never reaped; the order of spawn and save; what a killed daemon leaves behind |
| dumps (`dumps.rs`) | breakpoints by token, a ring, a broadcast channel | pause, resume, push, stream, clear | timeouts racing answers; a viewer between ring and channel |
| mail (`mail.rs`) | an SMTP transaction per connection, a directory of messages | commands, DATA; `dpl mail clear` | connections that end in the middle; names by the millisecond |
| proxy, FastCGI (`proxy.rs`, `fastcgi.rs`) | none that outlives a request | route, resolve the target, ask php-fpm | a route used after the lock is released; two timeouts on one script |
| machine setup (`local.rs`, `doctor.rs`, `daemon.rs`, `dpl-helper`) | launchd jobs, resolver files, the hosts block, sudoers, CA trust | setup, takeover, unsetup, resolution, start, stop; `dpl doctor` | a dozen sudos in a row, each of which may be refused; upgrades and reboots |
| PHP lines (`php.rs`, `xdebug.rs`, `spx.rs`, `local.rs`) | Homebrew kegs, conf.d, loader files | install, upgrade, repair, fix, ext-install | Homebrew moves libraries while dpl edits the files that load them |
| Node tools (`node.rs`) | pins and lockfiles of the projects | pin, detect, fan-out over sites | a plan made before git switches a project |
| accounts (`dpl-dply`, `dpl-keel`) | two credential files | login, logout, use | processes that load, change and save one file |
| TLS, DNS, access log, CA, launchd, CLI, GUI | none | one answer per request | |

The registry is behind one `tokio::sync::Mutex`. A request handler holds it for
its whole mutation, and that is one step of a model; a handler or task that
releases it and takes it again (`branchdb`, the two supervision tasks) is
several. What the components do to each other goes through the registry: its
`reconcile` passes call `ensure` and `retain` of the pools and servers. Mail,
dumps, services and the commands that act by themselves (setup, PHP, Node,
accounts) share no state with it.

`PROJECT.json` lists every component with its status, and under `hazards` the
places where this code is hard to test.

## Modules

| module | models | checked by |
|---|---|---|
| `BranchStore` | what branch databases promise, without Postgres or locks | `KeepsEveryBranch` of `BranchSwitching` |
| `BranchDb` | `branchdb.rs`, the `pg_*` functions of `services.rs`, `set_branch_db` and the other requests that write a link | `Branch*.cfg` through `MCBranchDb` |
| `BranchDbProofs` | the theorems about `BranchDb`, that it implements `BranchStore` among them | TLAPS |
| `FpmPools` | `fpm.rs`, and the registry operations on pools | `Fpm*.cfg` through `MCFpmPools` |
| `FpmPoolsProofs` | the theorems about `FpmPools` | TLAPS |
| `Octane` | `appserver.rs`, and the registry operations on servers | `Octane*.cfg` through `MCOctane` |
| `OctaneProofs` | the theorems about `Octane` | TLAPS |
| `Ladder` | what a supervisor promises of each process it keeps running | `Climbs` of `SidecarLadder` |
| `Supervised` | `devserver.rs`, `jetty.rs`, and the registry operations on dev servers and tunnels | `SidecarLadder.cfg` through `MCSupervised` |
| `SupervisedProofs` | the theorems about `Supervised`, that it implements `Ladder` among them | TLAPS |
| `Startup` | `main.rs`, `server::run`, the probes, `bind_preferred` and the orphan kill | `StartupKills.cfg` through `MCStartup`, `Machine.cfg` |
| `StartupProofs` | the theorems about `Startup` | TLAPS |
| `MachineProofs` | what they say of the daemons and of the race of `MCMachine` | TLAPS |
| `Sites` | the mutations of `registry.rs`, `sites::resolve` and `resolve_one`, the hosts file, and the route a request of `proxy.rs` holds | `SiteRoutes.cfg` through `MCSites` |
| `SitesProofs` | the theorems about `Sites` | TLAPS |
| `Services` | the instances of `services.rs` | `Parts.cfg` |
| `Mail` | `mail.rs`, `dpl mail clear` | `Parts.cfg` |
| `Dumps` | `dumps.rs` | `Parts.cfg`, `Machine.cfg` |
| `Setup` | `setup`, `takeover`, `unsetup`, `resolution`, `start`, `stop` of the command line, the helper's commands, and `doctor.rs` | `Parts.cfg`, `Machine.cfg` |
| `Gateway` | `serve_site` and `fastcgi.rs` against a pool of php-fpm | `Parts.cfg`, `Machine.cfg` |
| `Account` | `config_store.rs`, `device_flow.rs`, the Keel configuration, and the commands on them | `Parts.cfg` |
| `NodeTools` | `dpl-core/node.rs`, `dpl node` | `Parts.cfg` |
| `PhpTools` | `php.rs`, `xdebug.rs`, `spx.rs`, `dpl php` | `Parts.cfg`, `Machine.cfg` |
| `Parts` | nothing of its own: the parts that share no state side by side, one of them moving in a behaviour, with the constants of all of them and what they have to be | `Parts.cfg` through `MCParts` |
| `PartsProofs` | the theorems about `Services`, `Mail`, `Dumps`, `Setup`, `Gateway`, `Account`, `NodeTools` and `PhpTools`, a section each, and about `Parts` | TLAPS |
| `MCMachine` | nothing of its own: parts side by side for what has to happen, with values of their own | `Machine.cfg` |

Definitions commented "Mutant" are not used by a specification: each is a
plausible mistake in the definition that follows it, and the property it is
paired with in `PROJECT.json` fails when it takes that definition's place.

### BranchDb and BranchStore

A process is a client's connection or the watcher; `pc` names its next await or
psql statement and `job` the locals it carries over. `dbs` is the Postgres
catalog: for each server, base and branch the set of writes the database holds,
or `None`. Every statement may find Postgres gone, or refuse (a session on the
database to be renamed, a target that exists); `?` then ends the handler where
it is, which is `StatementFails`. `Restart` is the end of the daemon at any
step: handlers are gone, the config is what was last saved.

`BranchStore` has a data set per branch and a live branch. `BranchDb`
implements it under the mapping `StoreLive`, `StoreData`: a branch goes live at
the statement that gives its data the base's name, not when the link records
it. `BranchSwitching` checks that as the property `KeepsEveryBranch`.

Left out: the size and list queries (they change nothing), the text of
messages, the identifier rules (`Unusable` is the set of branches they refuse;
two branches that map to one database name are not modelled).

### FpmPools

A pool is its `MasterKey`; `config`, `disk` and `routes` are what the registry
wants, has saved, and sends requests to. `Reconcile` and `ReconcileSite` are
the two passes, with the loops over sites folded into one function. The tick is
three kinds of steps: `Look` takes the ports under the lock, `Silent` and
`Answer` are scrapes without it, and `Fold` applies them, reaps the dead and
starts what is due under the lock again.

Three variables are not in the code: `answered` (this very process has answered
a scrape), `crashes` (deaths since a pool last answered or was stopped on
purpose) and `resting` (ports given up since the cache was last pruned). They
let the properties speak of what really happened. `ide` stands for all the
shared settings that are read when a master starts (`set_xdebug_settings`,
`set_max_children`). A graceful reload (USR2) changes no state here. With
`Recycle = FALSE` the system does not give a port out again within one tick.

### Octane

A start is a process group: the artisan launcher, which the daemon holds as a
child, and the server it boots. `groups` is what really runs, `servers`,
`dying` and `recorded` what the daemon knows. Sources are numbered by edit; a
group's `code` is the number it has loaded. `Look`, `Scan` and `Supervise` are
the pass of the watch task, with the scan between the locks. `Stopped` is TERM
for the group and KILL for the launcher: the server itself may survive until
`KillDying`. `octane:reload` runs on its own (`Cycle`, `ReloadEnds`,
`ReloadFails`) and is collected by a later pass. A scan of one project is one
step: a scan that mixes two saves yields a fingerprint equal to neither, which
the next scan finds changed.

`crashes` is not in the code: it counts the ends in a row that `failures` should
count. A run of `HEALTHY_AFTER` is measured to its end, where the code measures
to the pass that notices it, five seconds later at most.

### Supervised and Ladder

`devserver.rs` and `jetty.rs` are the same supervisor twice, so a thing is a
pair of kind and site. `setting` is what it was started for: script, package
manager and project of a dev server, the label of a tunnel (whose host and port
do not change while a daemon runs). `Reconcile` covers both kinds,
`ReconcileSite` one dev server, as in the code. `unsaved` is not in the code: it
holds the things of a site whose change could not be saved, since the handler
then ends with the config changed in memory and nothing carried out.

`Ladder` knows nothing of requests, saves or passes: a thing runs, pauses, is
due, or is given up. `Supervised` implements it for all things at once under
the mapping of `Climbers`. `Ladder` lets anybody begin a thing anew at any
time, so `KeepsClimbing` adds who may: a restart by name, a repair, a new
daemon, or a changed setting.

Left out: the port or URL that is read from the log, the routing of public host
names, `try_wait` failing, and processes that outlive a killed daemon.

### Startup

Every system call of a starting daemon is a step, because another one may run
between any two. `target` is who a probe has connected to, `pools` whose
php-fpm masters are alive; `KillOrphans` ends them all, as `pkill -f` does.
`Overlap = FALSE` starts daemons one after the other. `bind_preferred` has two
ports, so of three daemons that get that far one gives up. A daemon on its way out still
answers the connections it has accepted (`Answered`) and refuses new ones only
once its listener is gone. A daemon that was
handed its listener by launchd does not compete for them and is not modelled.

### Sites

A mutation is one step from its first check to the end of its pass: the handler
holds the registry's lock. `ChangeAll` and `ChangeSite` are the two shapes they
have, ending in `Reconcile` or `ReconcileSite`, or in `SaveFails`, which leaves
the change in memory and nothing carried out. A project is a directory of a
root, and a site's PHP version, Xdebug mode, profiler and preload script are
its pool. `Arrive` takes a route under the lock and `Answer` uses it later;
`cut` and `moved` record what a pass did to the request meanwhile.

A site is named by its directory in lower case (`name_for`), and the disk may
spell the directory with capitals (`Capital`). A path is therefore a text: its
last component in lower case or as on disk. `resolve` and a link keep the path
as on disk (`Spelled`); `resolve_one` joins the lower-cased name to the root
(`Lowered`), which is a directory when the volume is blind to case
(`CaseBlind`, as macOS volumes are by default) or the disk spells it so.
`Mirrored` says of which names the two resolutions agree, and `RoutesCurrent`
is about those: not the names with a leading dot, which `resolve_one` refuses,
and not the unlinked ones that the first parked directory with the name spells
with capitals. In the run the two directories of the last root are spelled so.

`unvisited` is not in the code: it holds the names whose last change no pass
has seen (a directory that came or went, a save that failed). The properties
are about the others. `Unlistable` is set aside in `HostsCover` only by its
constant being empty: see the disagreements.

### Services, Mail, Dumps

`Services` holds what the daemon knows (`config`, `running`), what is on disk
(`disk`, `data`) and what really runs (`servers`, each held by this daemon,
ending, or an orphan of an earlier one). A request holds the services' lock, so
it is one step. `made` and `gone` are not in the code: the names whose creation
or deletion was answered with success, which `Durable` is about.

`Mail` has a record per connection; a body is whole or cut off, and may carry a
mailbox header of its own. The file of a message is named by its millisecond
and a number that all connections share. `dpl mail clear` is another process:
it lists first and removes file by file.

`Dumps` takes the lock of the ring, the channel and the map of breakpoints
separately, as the code does: `Stamp`, `Buffer` and `Broadcast` are the three
steps of a push, `Open` and `Show` the two of a viewer. A pause that times out
(`GivesUp`) removes its entry in a step of its own (`GoesOn`).

### Setup

`mac` is the machine: the launchd jobs, who has port 80, resolver files, the
hosts block, the rule in sudoers and the CA. A command is a sequence of steps,
each `Must` (the command ends when it fails) or `May` (a warning), most of them
a sudo that may be refused. `Problems` is the doctor's list, each with the
command it names. A job that launchd keeps alive comes back by `Respawn`. The
sites matter to the machine by what the helper makes of their names
(`SiteNames`): it clears the block when there are none, and refuses them all
when one is no host name, which leaves the block as it was.

### Gateway

A request is waiting for php-fpm, being answered, or done; the pool has
`Workers` and a listen queue. Time passes in steps of 30 s: the proxy waits two
of them, the pool ends a script after three. `sent` and `got` are the records
written and read, `flow` how the stream ended. `resolve_target` is what a URL
means in the document root.

### Account

A command is a process: each read of a file, `Open`, `Write` and `Rename` of a
save, and each request to a server, is a step. All saves of
`config.json` go through one temporary name; Keel writes `cloud.json` itself. A host issues the token named after it, so a token that goes elsewhere is
seen. `MaxPolls` stands for the deadline of the device flow, which the code
takes from the server's answer.

### NodeTools and PhpTools

`NodeTools`: a project is the files that decide on its Node and its package
manager. A fan-out takes its plan in one step (`FanOut`) and works through it in
others (`RunIn`); in between `Switch`, git moving a project, and other fan-outs.

`PhpTools`: for each line `keg` is Homebrew's state, `libs` the extensions whose
library is there, `moved` those of them that do not load because a library they
link against has moved, `conf` what conf.d asks for. A Homebrew command is two steps, `Brew` and
`Linked`, with the libraries gone in between. `Repair`, `php_fix` and `FixFile`
work on one file at a time; `aside` remembers what they moved away.

## Runs

Nine parts share no state with each other, so `Parts` and `Machine` check them
in one run (`Machine` those in which something has to happen): the initial state chooses a part, and every step is one of that
part. A part sees no more of the others than it does in the program.

Passing runs:

| run | question | instance |
|---|---|---|
| `BranchSwitching` | Do switches implement the branch store and lose no write, under sessions and outages at any statement? Is a checkout that stays followed, or remembered as failed? | 1 site, 2 branches, 1 client and the watcher, 2 writes; fair |
| `BranchRequests` | Do switches exclude each other, and do bases survive, under every request? | 2 clients, every request, restarts, failing saves |
| `FpmLadder` | Is a pool never given up too early, and brought back by the timer alone? | 2 pools, 3 ports, `MaxFailures` 2; fair |
| `FpmSettings` | Do all masters agree on the settings? Are published numbers the process's own? | 2 settings, failing saves and spawns, daemon restarts |
| `OctaneLadder` | Is the failure count exact? | every request, all faults, `MaxFailures` 3 |
| `OctaneServes` | Does a process outlive the daemon's knowledge of it? Are the last sources served? Does a server come back by the timer alone? | 2 runtimes, 4 groups, 2 edits, failing reloads and spawns, daemon restarts; fair |
| `SidecarLadder` | Do dev servers and tunnels climb the promised ladder, follow the config, and come back? | 1 site, 2 scripts, 1 label, `MaxFailures` 3, every request, all faults; fair |
| `SiteRoutes` | Do both passes build the same routes, keep exactly the backends they name and list every name? Does a request lose its backend only to a change of its own site? | 2 names, 2 roots, the directories of one with capitals, 2 domains, 2 pools, 1 client, every mutation, 3 changes, all faults |
| `Parts` | `LiveDataFindable`: can the live data be found after any fault? `Durable`: does what was answered last? `QueuedKept`: does an accepted message stay? `HeldUntilResumed`, `NoLeak`, `SeesAll`: do breakpoints and viewers get what is theirs? `CleanIsReachable`, `BlockGone`: is a clean report of the doctor true, and no hosts entry left? `AnswerWhole`: is an answer whole or an error? `TokensHome`: is a token kept only for who issued it, and sent by `dply` to no other host? `ToolsMatch`: does a pin keep the Node and an install the lockfile? | two actors of every kind: connections, pauses, posts, commands, requests, processes; one of each resource they fight for; every fault of each part except those of the table below |
| `Machine` | `OneOwner`, `BailsBeforeKilling`, `DaemonComesBack`: daemons one at a time; `RaceOneOwner`: started together; `FixesConverge`: does following the doctor end? `WorkersFreed`, `PauseEnds`, `RepairsConverge` | 3 daemons, 3 crashes, SIGTERM, shutdown; 2 commands and events; 2 requests, 1 worker; 2 pauses; 2 PHP commands, 2 Homebrew commands; fair |

Every one of them is explored completely. The bounds: two branches are enough
for a switch to find `to` parked or not, and `from` parked or not. Two writes
tell a copy from a move. Two clients let two handlers meet a third process, the
watcher. One site is enough where sites share nothing but the registry lock.
`MaxFailures` of 2 or 3 has a first, a middle and a last rung. Two edits put
one edit before and one after any step of a reload. Four process groups let two
old ones linger next to a server and its replacement; three ports let a pool
move while another keeps its own. `MaxCrashes` and `MaxEdits` are the only
bounds on what the world may do; `crashes` stops counting one above
`MaxFailures`, which is where its properties have failed. In `SiteRoutes` two
names and two roots let a link hide a parked project and a parked project hide
another, and three changes are one to set up a conflict, one to change it, and
one by somebody else. In `Parts` `RingCap = 1` makes every second dump push one
out, `MaxMail = 2` and one millisecond make two messages meet, `MaxPort = 2`
makes three instances run out of ports, and `MaxChunks = 2` has an answer end
before, between and after its records.

Runs that show a disagreement (`expect` is `violation`):

| run | what happens | what the code or its comments say |
|---|---|---|
| `BranchCrash` | a restart between a switch and its record makes the next switch drop the only copy of a branch | a parked copy of the live branch is stale |
| `StartupKills` | a second daemon kills the pools of one that is still starting | it bails before it touches anything |

### Other disagreements

These have no run of their own. Each is a property of the module that TLC
refutes when the config of the named run is given the property alone and the
constants of the third column (and `Spec` for `FairSpec`, except for `Fresh`).
For `Parts` a property of an instanced module needs a definition like those at
the end of the module, and the constants go by the names `Parts` gives them; for
`Machine` the constants are those of the INSTANCE.

| property | config | constants | what happens |
|---|---|---|---|
| `DroppedCopyIsStale` | `BranchSwitching` | `Requests = {"attach", "detach"}`, `Faults = {}` | detach, checkout, attach relabels the base; the next switch drops a parked branch that detach promised to keep |
| `DroppedCopyIsStale` | `BranchSwitching` | `Sites = {s1, s2}`, `Requests = {}`, `Faults = {}` | two links on one database drop each other's parked data |
| `OpsSerializes` | `BranchRequests` | `Requests = {"switch", "drop-branch"}`, `Faults = {}` | a drop-branch changes databases in the middle of a switch, though `OPS` "serializes every branch-db mutation" |
| `DetachStays` | `BranchRequests` | `Requests = {"switch", "detach"}`, `Faults = {}` | a switch that was running undoes a detach |
| `GivesUp` | `FpmLadder` | none | requests that reconcile restart a crashing pool with a clean record; with `Requests = {"restart"}` it holds, for the real `MaxFailures = 5` too |
| `RestartRetries` | `FpmLadder` | none | `dpl fpm restart` does not retry a pool that was given up: it forgets the masters and keeps the failures, though `pools` tells the user to run it |
| `TunnelsWanted` | `SidecarLadder` | none | unlinking or relinking a shared site, or `dpl up` on it, leaves its tunnel running until the next full pass |
| `CachedIsOwn` | `FpmSettings` | `Recycle = TRUE` | a port reused within a tick inherits a dead pool's numbers |
| `WantedOnly` | `FpmLadder` | none | the timer starts a dead pool whose site was unlinked |
| `InvalidChangesNothing` | `FpmSettings` | none | a refused `set_xdebug` has changed the port |
| `Fresh` | `OctaneServes` | `EarlyEdits = TRUE` | a save between a start and the first scan is never loaded |
| `NoStray` | `OctaneLadder` | none | a server whose launcher ended is forgotten while it runs |
| `NoStray` | `OctaneServes` | `LateCrash = TRUE` | a daemon killed right after stopping a server leaves it behind |
| `LiveDataFindable` | `BranchRequests` | `SYMMETRY` off, `Requests = {"switch", "attach"}`, `Faults = {}` | an attach in the middle of a switch records the new branch while the base is parked under the old one; a link or `dpl up` there forgets the database |
| `OneOwner` | `StartupKills` | `MaxCrashes = 1` | two daemons starting over a stale file both serve |
| `SigtermCleans` | `Machine` | none | SIGTERM leaves the socket file, though `server.rs` says it ends the serving loop |
| `HostsExact` | `SiteRoutes` | none | removing a proxy leaves its name in the hosts file |
| `HostsCleared` | `SiteRoutes` | none | a change to resolver mode whose save fails leaves the block, and the passes after it do not clear it |
| `RoutesExact` | `SiteRoutes` | `SYMMETRY` off, `Dotted = {b}`, `Capital = {}` | a link whose name begins with a dot is routed by the full pass and dropped by the one-site pass, though `resolve_one` is said to mirror `resolve` |
| `RoutesExact` | `SiteRoutes` | none | a parked project `Blog` is served from `.../Blog` by the full pass and from `.../blog` by the one-site pass |
| `RoutesExact` | `SiteRoutes` | `CaseBlind = FALSE` | on a volume that tells cases apart the one-site pass drops it |
| `HostsCover` | `SiteRoutes` | `SYMMETRY` off, `Unlistable = {b}` | one name the helper refuses freezes the whole block |
| `ListedRuns` | `Parts` | none | a server that ended is listed as running, and start says so |
| `UnlistedStopped` | `Parts` | none | a killed daemon leaves servers that the next one takes for somebody else's |
| `OwnData` | `Parts` | `Engines = {v1, v2}`, `ServicesFaults = {}` | a name used again gives a new version the data directory of the old one |
| `Durable` | `Parts` | `ServicesFaults` with `"unreadable"` | a `services.toml` that cannot be read is taken for an empty one and overwritten |
| `Whole` | `Parts` | none | a client that hangs up inside DATA has its partial message stored |
| `Captured` | `Parts` | none | a line that is not UTF-8 ends the connection and the message is lost, though the sink is to capture whatever is sent |
| `EnvelopeOwn` | `Parts` | `MailFaults` with `"again"` | a second DATA without a MAIL FROM of its own is filed with the envelope of the message before |
| `FiledUnderSender` | `Parts` | `MailFaults` with `"header"` | a mailbox header in the body overrules the authenticated one |
| `ShownOnce`, `InOrder` | `Parts` | `RingCap = 2`, `DumpsFaults = {}` | a dump pushed between subscribe and snapshot is shown twice; two pushes enter the ring in the other order of their ids |
| `HeldUntilResumed` | `Parts` | `DumpsFaults` with `"reuse"` | a second pause with the same token releases the first |
| `NoLeak` | `Parts` | `DumpsFaults` with `"disconnect"` | a site that hangs up while it is held leaves its token in the map |
| `SeesAll` | `Parts` | `DumpsFaults` with `"slow"`, `ChannelCap = 1` | a viewer that lags misses payloads the ring still holds |
| `FixResolves` | `Parts` | none | `dpl start` without a job reports that it started dpld; `dpl restart` and `reload` send Reload to the running daemon, which changes neither port nor job |
| `OneJob` | `Parts` | none | after a setup the doctor asks for `daemon install`, and then two jobs run dpld |
| `KeepsAJob` | `Parts` | `SetupCommands = {"setup"}`, `JobStates = {"loaded"}` | a setup that is refused its last step has removed the old job |
| `FixesConverge` | `Machine` | `Agents <- {"none"}`, or `Servers` with `"other"`, or `Faults <- {"deny"}` | the doctor names a command that cannot help, or two that undo each other |
| `FixesConverge` | `Machine` | `SiteNames <- {"none", "fine"}` | in hosts mode with no site or proxy there is no block, and the doctor asks for `dpl reload` for ever |
| `CleanIsReachable` | `Parts` | `SiteNames = {"fine", "bad"}`, `MaxCommands = 3` | the helper refuses a list with a name that is no host name; a domain added then is in no entry, and the doctor is content with the old block |
| `MissIsFinal` | `Parts` | `Pages` with `U("none", {}, TRUE, TRUE)` | a miss under `/build/` that ends in a slash wakes PHP for the index of the document root |
| `SaturationNamed`, `NoStaleWork` | `Parts` | none | a full pool is reported as a slow script; a script runs for a client that has gone |
| `WholeFile` | `Parts` | none | two saves share one temporary file, and a reader may see half of one |
| `LoginHonoured` | `Parts` | none | the later of two logins drops the other's host |
| `KeelTokenHome` | `Parts` | none | URL and token are read in two steps: a login in between sends one instance's token to another |
| `ReloginStays` | `Parts` | none | a Keel login without a URL goes to the default instance, though the URL of another one is stored |
| `LogoutForgets` | `Parts` | `WithToken = {c2}` | a logout with `$DPLY_TOKEN` set leaves the user logged in |
| `AllOrNothing` | `Parts` | `MaxKeys = 2` | a command of several requests that fails half way leaves the first ones done |
| `NoSecondLockEver` | `Parts` | none | a project switched after the plan is given a second lockfile |
| `ForcedFlavour` | `Parts` | none | a forced yarn is called with the flags of the flavour that was detected for another manager |
| `PinHonoured` | `Parts` | none | nvm is asked for a pin that `.node-version` holds, which it does not read |
| `RepairMends` | `Parts` | none, or `Linking = {}` and `PathPhp = {"8.4"}` | a repair leaves an extension whose library is there and does not load; a keg without a binary is hidden by another `php` of its version on the path |
| `StartsCleanly` | `Parts` | none | a fix leaves an extension whose own libraries have moved, the case the doctor's hint calls the usual one: it only looks whether the file exists |
| `MissingCleaned` | `Parts` | none | a fix that runs while an extension is uninstalled, or a line upgraded, ends with a directive to a missing library; `extension = x` is not read at all |
| `FixSpares` | `Parts` | none | a fix that runs during an upgrade disables an extension that works |
| `ProfiledLoads` | `Parts` | none | the SPX loader is written for a site whose SPX is not installed |
| `RepairResolves` | `Machine` | none | an extension that links against a moved library keeps failing to load, and the doctor keeps asking for the repair that leaves it alone; with `Linking <- {}` it holds |
| `RepairsConverge` | `Machine` | `Lines <- {"spaced"}` | a fix does not read `extension = x`, so the doctor asks for it again |

`WatcherFollows` (a checkout that stays is followed) fails as it should when
Postgres is away, and holds for `BranchSwitching` with `Faults = {}`.

Where such a case would hide others, the passing runs exclude it by a constant:
`Faults`, `Requests`, `Recycle`, `EarlyEdits`, `LateCrash`, `Overlap`,
`Unlistable`, the constants `Parts` names after a part
(`ServicesFaults`, `MailFaults`, `DumpsFaults`, ...) and those of the instances
in `MCMachine`.

The modules state a few more properties that hold and belong to no run, being
weaker than those that do. `OnePlace` (`FpmPools`), `KeepsClimbing`
(`Supervised`), `SecureRedirects` (`Sites`), `LoaderLoads` (`PhpTools`), `Distinct` and `HeldIsNamed`
(`Services`) and most of the `TypeOK`s are proved; `CountAgrees` (`Sites`),
`LoginEnds` (`Account`) and the other `TypeOK`s TLC
has checked with the config of their module.

## Fairness

Only the `Fair` specifications have it, and only for what the code schedules.

- `BranchDb`: tokio polls every task it holds, and its mutex grants in order,
  so a handler and the watcher go on. Git, the application and outages are
  under no obligation.
- `FpmPools`: the interval fires, a scrape ends (it has a timeout), time passes.
  `FpmLadder` has no failing spawns: the code does not retry them.
- `Octane`: the watch loop goes round, time passes, a launcher boots its server
  or is refused, `octane:reload` ends. `OctaneServes` has no reloads by hand: a
  user who starts a new one each time before a failed one is collected keeps
  the old code for as long.
- `Supervised`: both watch loops go round and time passes. A start that fails is
  counted and retried, so failing starts stay in.
- `Startup`: a daemon runs, and launchd starts it again (`KeepAlive`).
  `DaemonComesBack` says that one serves again and again, since stops never cease.

- `Setup`: launchd starts a job it keeps alive, a command goes on, and the user
  goes on following the doctor; `takeover` in particular is tried again when its
  problem keeps coming back, since the other web server returns by itself.
- `Gateway`: the proxy and php-fpm go on, and time passes.
- `Dumps`: a pause is answered or times out. Nobody has to resume it.
- `PhpTools`: a command goes on to its end, and whoever the doctor asks to
  repair a line does so if it is asked for again and again. Homebrew is under no
  obligation to start anything.

## Proofs

Eight modules of theorems. Six belong to one component each and extend its
module. `PartsProofs` has the parts that share no state, as `Parts` has: it
extends `Parts`, whose instances, variables and constants its theorems are
about, so that none of the values `Parts.cfg` gives them matters. `MachineProofs`
takes the theorems of `StartupProofs` to the daemons of `MCMachine`.

What the theorems state holds for every value of the constants that the
hypotheses admit: any sites, names, clients, ports, daemons, and any bound. A
hypothesis is the `ASSUME` of the component's module or, for the parts, one of
the definitions that `PartsAssumption` puts together, which TLC evaluates on the
constants of the run; they say that `None` is no value of its own kind, that bounds are
numbers, and in `Sites` that the parked directories are finitely many. A theorem
that needs more says so in its statement; what it then excludes is one of the
disagreements above, so the theorem and the counterexample together say where
the property holds.

The theorems about a part are proved of its own specification
(`Sink!Spec => []Sink!QueuedKept`). The run checks the definition of `Parts`
(`QueuedKept == part = "mail" => Sink!QueuedKept`) in the states of `PartsSpec`, and
the theorems that end in `InParts` state just that. They follow from one fact
per part, such as `MailAlone`: a behaviour of `PartsSpec` is one of `Sink!Spec`,
or the part that moves is never the mail sink. A step of `PartsNext` is a step
of the part that moves or leaves its slots alone (`MailMoves`), and which part
moves never changes (`PartFixed`). The switch of branches has variables of its
own, so every behaviour of `PartsSpec` is one of `BranchDb`'s `Spec`
(`SwitchAlone`). `MachineProofs` does the same for `MCMachine`: the daemons have
`Startup`'s own variables (`StartupAlone`); the race has slots (`RaceAlone`), and
its theorem is `OneOwnerOfRace` of `StartupProofs`, instantiated as `MCMachine`
instantiates `Startup` (`SameRace`).

| theorem | states | under |
|---|---|---|
| `BranchDbProofs!Typing` | `Spec => []TypeOK` | |
| `SwitchesExclusive` | `Spec => []OpsExact` | |
| `BasesSurvive` | `Spec => BaseParkedNotDropped` | |
| `SwitchingLosesNothing` | `Spec => []NoWriteLost` | `SwitchingAlone` |
| `OneCopy` | `Spec => []OneCopyOfLive` | `SwitchingAlone` |
| `SwitchingKeepsBranches` | `Spec => KeepsEveryBranch`, the implementation of `BranchStore` | `SwitchingAlone`, `EverySiteAttached` |
| `LiveDataFound` | `Spec => []LiveDataFindable` | `SwitchingOnly` |
| `StartupProofs!Typing` | `Spec => []TypeOK` | |
| `SingleOwner` | `Spec => []OneOwner` | `~Overlap` |
| `KillsOrphansOnly` | `Spec => BailsBeforeKilling` | `~Overlap` |
| `OneOwnerOfRace` | `Spec => []OneOwner` | `NoneStops` |
| `FpmPoolsProofs!Typing`, `OneListing`, `SettingsReach` | `[]TypeOK`, `[]OnePlace`, `[]SettingsCurrent` | |
| `GivenUpEarned`, `NumbersOwn` | `[]GaveUpEarned`, `[]CachedIsOwn` | `~Recycle` |
| `OctaneProofs!Typing`, `LadderCounts` | `[]TypeOK`, `[]LadderExact` | |
| `NoneStray` | `[]NoStray` | `~LateCrash`, no fault `"launcher"` |
| `SupervisedProofs!Typing`, `ConfigFollowed` | `[]TypeOK`, `[]FollowsConfig` | |
| `SupervisionClimbs` | `Spec => Climbs`, the implementation of `Ladder` | |
| `LadderKept` | `Spec => KeepsClimbing` | |
| `SitesProofs!Typing`, `NoneUnrouted`, `FailuresExplained` | `[]TypeOK`, `[]BackendsRouted`, `[]FailsOnlyIfMoved` | |
| `TableCurrent` | `[]RoutesCurrent` | |
| `ClearIsRedirected` | `[]SecureRedirects` | `Dotted = {}` |
| `NamesListed` | `[]HostsCover` | `Unlistable = {}` |
| `PartsProofs!ServersTyping`, `NoneShared`, `HeldAreNamed` | `[]TypeOK`, `[]Distinct`, `[]HeldIsNamed` of `Services` | |
| `PromisesKept` | `[]Durable` | no fault `"unreadable"` |
| `StoppedIsStopped` | `[]UnlistedStopped` | no fault `"kill"` |
| `HeldByOwn` | `[]HeldUntilResumed` of `Dumps` | `Named`, no fault `"reuse"` |
| `NothingLeaks` | `[]NoLeak` | `Named`, neither `"reuse"` nor `"disconnect"` |
| `NoneFallsBetween` | `[]SeesAll` | `RingCap > 0`, no fault `"slow"` |
| `QueuedStays` | `[]QueuedKept`, `[]FiledUnderSender` of `Mail` | no fault `"header"` |
| `EnvelopesOwn` | `[]EnvelopeOwn` | no fault `"again"` |
| `BodiesFiled` | `Captured` | no fault `"binary"` |
| `AnswersWhole` | `[]AnswerWhole` of `Gateway` | `AnswersNamed` |
| `TokensStayHome` | `[]TokensHome` of `Account` | `AccountsNamed` |
| `NoEntryOutlives`, `CleanReportIsTrue` | `[]BlockGone`, `[]CleanIsReachable` of `Setup` | `SetupNamed`; for `CleanIsReachable` `Listable` too |
| `ToolsFollowProject` | `ToolsMatch` of `NodeTools` | `ToolsNamed` |
| `PhpTyping`, `LoadersLoad` | `[]TypeOK`, `LoaderLoads` of `PhpTools` | `PhpNamed` |
| `FixesClean` | `MissingCleaned` | `PhpNamed`, `BrewRests`, `Lines \subseteq {"live"}` |
| `FixesStart` | `StartsCleanly` | the same and `Linking = {}` |
| `FixesSpare` | `FixSpares` | `PhpNamed`, `BrewRests` |
| `LiveDataInParts` | `PartsSpec => []LiveDataFindable` | `SwitchingOnly` |
| `DurableInParts` | `PartsSpec => []Durable` | no fault `"unreadable"` |
| `QueuedInParts` | `PartsSpec => []QueuedKept` | no fault `"header"` |
| `HeldInParts`, `NoLeakInParts` | `PartsSpec => []HeldUntilResumed`, `[]NoLeak` | no fault `"reuse"`; for `NoLeak` nor `"disconnect"` |
| `AllSeenInParts` | `PartsSpec => []SeesAll` | `RingCap > 0`, no fault `"slow"` |
| `CleanInParts`, `BlockGoneInParts` | `PartsSpec => []CleanIsReachable`, `[]BlockGone` | for `CleanIsReachable` `Listable` |
| `WholeInParts`, `TokensInParts`, `ToolsInParts` | `PartsSpec => []AnswerWhole`, `[]TokensHome`, `ToolsMatch` | |
| `MachineProofs!OwnerInMachine`, `OrphansInMachine` | `MachineSpec => []OneOwner`, `BailsBeforeKilling` | `~Overlap` |
| `RaceInMachine` | `MachineSpec => []RaceOneOwner` | |

The hypotheses are those under which the runs check the same properties or,
where the table of disagreements refutes one, those that leave out the reason it
gives:

- `SwitchingAlone`: clients switch and do nothing else, each link has a database
  of its own, sessions and outages may stop a switch anywhere.
- `SwitchingOnly`: the same, and saves may fail and the daemon may end too.
- `EverySiteAttached`: every site has a branch database. The mapping speaks of
  the databases of every site, and a site without one has none.
- `NoneStops`: no shutdown, SIGTERM or crash. Daemons start at any moment.
- `Named`, `AnswersNamed`, `AccountsNamed`, `SetupNamed`, `ToolsNamed` and `PhpNamed` of
  `Parts`, which stand where another module has an `ASSUME` and together with
  `ServicesAssumption` make up `PartsAssumption`: `None` is no value of the kinds
  it is compared with; the built-in host and URL are hosts and URLs; the commands
  of `Setup` and what names its sites may have are those there are, its domains
  are finitely many, and one of them needs a resolver; locks are of known package managers, the
  number a range begins with is a version; `None` is no source of a PHP and an
  extension is asked for in one of the two ways.
- `Listable`: every name that is served is a host name, so the helper takes it.
- `BrewRests`: the user installs extensions, fixes and repairs, and starts no
  other brew. A repair may still reinstall a line that has no binary.

### The inductive invariants

Few of these are inductive as they stand. What each needs beside itself:

- `BranchDb`. `IInv` adds to `TypeOK` and `OpsExact` what a process knows at each
  of its steps (`LocalsKnown`): a site, a branch to leave, another to go to.
  There is a lemma per way a process moves on (`ReturnKeeps`, `ContinueKeeps`,
  `RecordKeeps`, `CheckKeeps`, `RewriteKeeps`). `SwitchInv` adds that a link
  stays what it was when the switch read it, that nothing is stored outside the
  server of the links, and which of the three databases of a switch exist at
  which of its steps (`SwitchKnows`). `OneCopyOfLive` is why `droppark` is not
  reached, and that is why `NoWriteLost` lasts. `FindInv` does without
  `OneCopyOfLive`, which a crash breaks; it says where the saved config and the
  one in memory differ that what the saved one calls live is parked, or has just
  taken the base's name (`SavedFound`): what a restart then reads is findable.
- `BranchStore`. `LiveExact` and `DataExact` unfold the mapping, `CHOOSE`
  included, for the one process that `OpsExact` leaves in a switch. Each step is
  then a step of the store (the swap, the clone, a write) or changes nothing of
  it (`ParkingRests`, `RecordingRests`, `StoreRests`).
- `Startup`. For daemons one at a time, `OneStarter`, `FileLeadsToListener` and
  `StarterKnows`: a starting daemon past its probes knows that nobody listens,
  and one that is probing is connected to whoever does. For daemons that race,
  `RaceInv`: the file is there exactly when its owner serves, so that no probe
  is ever refused and no file removed.
- `FpmPools`. `Base` is `TypeOK`, `OnePlace` and `SettingsCurrent`; the saves
  that fail are what makes the last need the settings of the manager rather than
  the config's. `PortInv` says that two masters have two ports, that what a
  scrape or the cache knows of a port is of a master or of a port that rests,
  that a scraped answer is of the process that runs, and that every failure on
  record was a death (`Earned`). Every reconcile, tick and new daemon is one
  shape of step, `Turn`.
- `Octane`. `LadderInv` says that groups belong to one server each, and gives
  the number of ends of a server from its entry (`EndsCounted`), which
  `LadderExact` reads for those that are down. `StrayInv` adds that what a
  server holds has its launcher and is in the file the next daemon reads.
- `Supervised`. An entry that waits is not running, a child that ran long is
  there, no failure is counted past the last rung (`Good`). `FollowsConfig` is
  kept by itself. The implementation of `Ladder` goes thing by thing: the lemmas
  say what a pass, a request or a tick does to one thing, and that this is one
  step of its ladder.
- `Sites`. Every request that changes something is one of five kinds of step
  (`Mutates`). `BackendsRouted` is inductive, since every pass ends with the two
  retains. `Following` says that a request that was not moved has the route the
  table has now. `RoutesFit` is `RoutesCurrent` with what serves
  a name said at once; it needs the two resolutions to agree where `Mirrored` says so: `resolve` is a
  fold over the parked directories, so its value for a name is put in closed
  form, the link or the first directory that has the name. That is induction
  over the list, which is done by the least directory of a counterexample
  (`WFMin`). `HostsFit` needs the cached domains to be the config's (`TldsFit`),
  because the pass over one site writes the file with the cache.
- `Services`. A server the table holds is its instance's, version and port
  included (`HeldOfInstance`), so that taking it away takes the only one. Unless
  a daemon is killed, every other server is ending (`NoneLeft`).
- `Dumps`. `BreakInv`: a token in the map was put there by the pause that has
  it. `StreamInv`: what was put into the ring is there or was cleared, and what
  was sent while a viewer streams is in front of it.
- `Mail`. `NamesPast`: the counter is past every name there is, so that a new
  message never takes the name of a kept one, whatever the clock says; that is
  also why each body makes a file of its own (`BodiesFiled`). The
  connection files under its client's name (`SenderKnown`) and, while a
  transaction is open, has the client's envelope (`TransactionHeld`).
- `Gateway`. A request is in the pool once, queued or with a worker
  (`OnceInPool`), and one that is in it has no end yet (`PoolKnows`): only then
  does an end on the connection say something of this request.
- `Account`. `CommandKnows` has what each step of a command has in hand: what it
  will save is a set of accounts in which each token is its host's (`KeptConfig`),
  because it was loaded so and changed for one host. A half-written file is no
  such set, and `load` takes it for none at all.
- `Setup`. `TodoKnows` speaks of the steps a command has left. Leaving hosts
  mode, the block is cleared by a step that comes before the one that takes the
  rule away, and a refusal of the first ends the command (`Leaving`); entering
  it, the rule comes first (`Entering`); every other command leaves both alone
  (`Calm`). So hosts mode has its rule, and its block is that of the domains, or
  empty when there is no site; `BlockIs` says nothing of it once a name is refused.
- `NodeTools`. `PlanKnown`: what is planned for a project is what the detection
  says of the project as it was.
- `PhpTools`. `BrewKnows`: while Homebrew rests, brew works on lines that have no
  binary and a fix on lines that have one, so they do not meet. `FixKnows`: what
  a fix has still to read has every extension without a library. That repairs
  converge is liveness; `FixesClean` is what each of them does towards it.

Where a definition was out of the provers' reach it was rewritten, with the same
value: `Without` of `Sites` is a recursive function, since the provers have no
facts about `SelectSeq`; `FromLock` of `NodeTools` and `AfterFailure` of `Setup`
do without it for the same reason; and `resolve` is a fold by a named operator.

Model-checked only:

- all liveness: `WatcherSettles`, `Recovers`, `Fresh`, `DaemonComesBack`,
  `FixesConverge`, `WorkersFreed`, `PauseEnds`, `RepairsConverge`.
  Fairness and `ENABLED` are out of the prover's reach;
- the `TypeOK`s that no row of the table above names.

Every safety property that a passing run checks is stated by a theorem, of the
run's own definition and specification without its fairness.

## Not modelled

Left out of a component that is modelled:

- `Supervised`: the announced port or URL, which is text read from a log that
  earlier runs wrote to as well; dev servers that outlive a killed daemon; the
  routing of public host names to tunnels.
- `BranchDb`: a `--port` other than the link's; two branches that map to one
  database name.
- `Sites`: tags, which no route or backend depends on. A tag stays with the
  name of a site that is unlinked, and is found again by the next site of that
  name. Two directories of one root whose names differ in case only, of which
  the first that is read wins; link names with capitals, which only an edit of
  the config file by hand can make.
- `Services`: creating, dropping, dumping and restoring one database, which are
  single commands of the engine's own tools.
- `Gateway`: header translation, WebSockets, TLS.
- `Startup`: a listener handed over by launchd.
- `Setup`: checks of the doctor that only report.

Not modelled at all: DNS answers, the access log, certificates, the detection of
frameworks and document roots, config file parsing, the API clients' request
builders, argument parsing and output, and the macOS application, which polls
the daemon and keeps only a copy of what it reports.
