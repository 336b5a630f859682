--------------------------------- MODULE Sites ---------------------------------
(***************************************************************************)
(* The registry as the router of requests: the configuration in memory and *)
(* on disk, the routing table its two passes build, the hosts file, and    *)
(* the requests of the HTTP and HTTPS servers that use a route after the   *)
(* registry's lock is released.                                            *)
(*                                                                         *)
(* A mutation holds the lock from its first check to the end of its pass,  *)
(* so it is one step.  A request takes its route in one step (Arrive) and  *)
(* uses it in a later one (Answer).  PHP version, Xdebug mode, profiler    *)
(* and preload script of a site are its pool; a project is a directory of  *)
(* a root, known by the name it gives a site, which is in lower case; the  *)
(* disk may spell it with capitals.                                        *)
(***************************************************************************)
EXTENDS Naturals, FiniteSets, SequencesExt, TLC

CONSTANTS
  Names,       \* names of sites and proxies
  Dotted,      \* those of them that begin with a dot
  Unlistable,  \* those that the helper takes for no host name
  Roots,       \* directories that can be parked
  Capital,     \* project directories whose name has capitals on disk
  CaseBlind,   \* the volume finds a directory under any case of its name
  Tlds,        \* top-level domains
  DefaultTld,  \* SITE_TLD
  Pools,       \* php-fpm pools: PHP binary, Xdebug mode, profiler, preload
  DefaultPool, \* the pool of a site without settings of its own
  Clients,     \* connections to the HTTP and HTTPS servers
  None,        \* no link, no route, no request; among names: all of them
  MaxChanges,  \* bound on mutations and directory changes
  Specs,       \* what a dpl.toml may ask for: pool, secure, octane
  Requests,    \* the kinds of mutation that are sent
  Faults       \* "save", "spawn", "dirs", "daemon"

Dirs == Roots \X Names

(* A path as text: the last component is in lower case, or as on disk. *)
Paths == Roots \X Names \X BOOLEAN
Spelled(dir) == <<dir[1], dir[2], dir \notin Capital>>
Lowered(dir) == <<dir[1], dir[2], TRUE>>

LinkOf(path, pool, secure, octane) ==
  [path |-> path, pool |-> pool, secure |-> secure, octane |-> octane]
Link == [path: Paths, pool: Pools \cup {None}, secure: BOOLEAN, octane: BOOLEAN]
Route == [path: Paths, pool: Pools, secure: BOOLEAN, upstream: BOOLEAN]

ASSUME SitesAssumption ==
  /\ Dotted \subseteq Names /\ Unlistable \subseteq Names
  /\ Capital \subseteq Dirs /\ CaseBlind \in BOOLEAN
  /\ None \notin Names \cup Pools \cup Link \cup Route
  /\ Names \cap Pools = {} /\ IsFiniteSet(Roots)
  /\ Specs \subseteq [pool: Pools \cup {None}, secure: BOOLEAN, octane: BOOLEAN]
  /\ DefaultTld \in Tlds /\ DefaultPool \in Pools
  /\ MaxChanges \in Nat

VARIABLES
  dirs,      \* the project directories there are
  config,    \* Registry.config
  disk,      \* the config file
  routes,    \* Registry.routes
  tlds,      \* Registry.tlds, the cache that host names are matched with
  pools,     \* pools that run
  servers,   \* sites whose Octane server runs
  hosts,     \* the managed block of the hosts file
  inflight,  \* the request of each client
  unvisited, \* not in the code: names whose change no pass has seen
  changes    \* not in the code: counts mutations, for the bound

vars == <<dirs, config, disk, routes, tlds, pools, servers, hosts, inflight,
          unvisited, changes>>
backends == <<routes, tlds, pools, servers, hosts, inflight>>

Config == [tlds: Seq(Tlds), parked: Seq(Roots), links: [Names -> Link \cup {None}],
           proxies: SUBSET Names, pool: Pools, hosts: BOOLEAN]

(* retain: the list without what is removed, in its order.                 *)
Without(list, removed) ==
  LET kept[i \in 0 .. Len(list)] ==
        IF i = 0 THEN <<>>
        ELSE IF list[i] \in removed THEN kept[i - 1] ELSE Append(kept[i - 1], list[i])
  IN  kept[Len(list)]

ConfiguredTlds(c) == IF c.tlds = <<>> THEN <<DefaultTld>> ELSE c.tlds

-----------------------------------------------------------------------------
(* What a configuration serves.                                            *)

ParkedAt(path) == LinkOf(path, None, FALSE, FALSE)

(* The names that the directories of a root give, in lower case.           *)
Entries(root) == {n \in Names \ Dotted : <<root, n>> \in dirs}

LinkedIn(c) == [n \in {m \in Names : c.links[m] # None} |-> c.links[n]]

(* A parked directory adds the names not seen yet, each with the path it   *)
(* was read with.                                                          *)
Adding(seen, root) ==
  [n \in DOMAIN seen \cup Entries(root) |-> IF n \in DOMAIN seen THEN seen[n] ELSE ParkedAt(Spelled(<<root, n>>))]

(* resolve: the links, then what each parked directory adds to them. *)
resolve(c) == FoldLeft(Adding, LinkedIn(c), c.parked)

(* is_dir of a name in lower case under a root. *)
IsDir(root, n) == <<root, n>> \in dirs /\ (CaseBlind \/ <<root, n>> \notin Capital)

(* Mutant of resolve_one: the last parked directory wins. *)
resolve_one_LastParked(c, n) ==
  LET found == {i \in DOMAIN c.parked : IsDir(c.parked[i], n)} IN
  IF n \in Dotted THEN None
  ELSE IF c.links[n] # None THEN c.links[n]
  ELSE IF found # {} THEN ParkedAt(Lowered(<<c.parked[Max(found)], n>>)) ELSE None

(* resolve_one: the link, else the name in lower case under the first      *)
(* parked directory where that is a directory.                             *)
resolve_one(c, n) ==
  LET found == {i \in DOMAIN c.parked : IsDir(c.parked[i], n)} IN
  IF n \in Dotted THEN None
  ELSE IF c.links[n] # None THEN c.links[n]
  ELSE IF found # {} THEN ParkedAt(Lowered(<<c.parked[Min(found)], n>>)) ELSE None

PoolOf(c, site) == IF site.pool = None THEN c.pool ELSE site.pool

(* The route of a site; refused are the pools and servers that do not start. *)
RouteTo(c, n, site, refused) ==
  [path |-> site.path, pool |-> PoolOf(c, site), secure |-> site.secure,
   upstream |-> site.octane /\ n \notin refused]

RoutesOf(c, refused) ==
  LET sites == resolve(c) IN
  [n \in Names |-> IF n \in DOMAIN sites THEN RouteTo(c, n, sites[n], refused) ELSE None]

(* Mutant of HostsOf: proxies are left out. *)
HostsOf_NoProxies(c, ts) == (DOMAIN resolve(c)) \X ToSet(ts)

(* What the hosts file must list: each name on each domain of the cache. *)
HostsOf(c, ts) == (DOMAIN resolve(c) \cup c.proxies) \X ToSet(ts)

(* sync_hosts: one name that is no host name, and the file stays as it is. *)
SyncHosts(c, ts) ==
  LET listed == HostsOf(c, ts)
  IN IF \E entry \in listed : entry[1] \in Unlistable THEN hosts ELSE listed

-----------------------------------------------------------------------------
(* Requests in flight.                                                     *)

(* What a pass does to a request: its backend may be stopped, and its site *)
(* may have been given another route. *)
Disturb(stopped, new, reset) ==
  inflight' = [k \in Clients |->
    LET r == inflight[k]
    IN IF r = None \/ r.kind # "site" THEN r
       ELSE LET backend == IF r.route.upstream THEN r.name ELSE r.route.pool IN
            [r EXCEPT !.cut = @ \/ backend \in stopped,
                      !.moved = @ \/ backend \in reset \/ new[r.name] # r.route]]

-----------------------------------------------------------------------------
(* The two passes.                                                         *)

PoolsOf(rs) == {rs[n].pool : n \in {m \in Names : rs[m] # None}}
Upstreams(rs) == {n \in Names : rs[n] # None /\ rs[n].upstream}

(* The backends that go away when the routes become new: those no route   *)
(* names, and the servers whose project is another one.                    *)
Stopped(new) ==
  (pools \ PoolsOf(new)) \cup
  {n \in servers : n \notin Upstreams(new) \/ new[n].path # routes[n].path}

Refusals == IF "spawn" \in Faults
            THEN {{}} \cup {{x} : x \in Names \cup Pools} ELSE {{}}

(* Registry::reconcile, after the backends in reset have been stopped and  *)
(* with block as the content of the hosts file.                            *)
Reconcile(c, reset, block) ==
  \E fails \in Refusals :
    LET refused == fails \ ((pools \cup servers) \ reset)
        new == RoutesOf(c, refused)
    IN /\ tlds' = ConfiguredTlds(c)
       /\ routes' = new
       /\ pools' = PoolsOf(new) \ refused
       /\ servers' = Upstreams(new)
       /\ hosts' = IF c.hosts THEN SyncHosts(c, tlds') ELSE block
       /\ unvisited' = {}
       /\ Disturb(Stopped(new) \cup reset, new, reset)

(* Mutant of Needed: what runs is what this site needs. *)
Needed_OwnPool(rs, n) == IF rs[n] = None THEN {} ELSE {rs[n].pool}

(* Mutant of Needed: nothing is stopped. *)
Needed_Anything(rs, n) == Pools

(* The pools that stay after a pass over site n. *)
Needed(rs, n) == PoolsOf(rs)

(* Registry::reconcile_site: the others are kept as the routes have them. *)
ReconcileSite(c, n) ==
  \E fails \in Refusals :
    LET site == resolve_one(c, n)
        refused == fails \ (pools \cup servers)
        new == [routes EXCEPT ![n] = IF site = None THEN None
                                     ELSE RouteTo(c, n, site, refused)]
        started == IF site = None THEN {} ELSE {PoolOf(c, site)} \ refused
    IN /\ routes' = new
       /\ pools' = (pools \cup started) \cap Needed(new, n)
       /\ servers' = Upstreams(new)
       /\ hosts' = IF c.hosts THEN SyncHosts(c, tlds) ELSE hosts
       /\ unvisited' = unvisited \ {n}
       /\ Disturb((pools \ pools') \cup Stopped(new), new, {})
       /\ UNCHANGED tlds

-----------------------------------------------------------------------------
(* Mutations: change the config, save it, run a pass.                      *)

Count == changes < MaxChanges /\ changes' = changes + 1

(* A save that fails ends the handler: the config is changed in memory,    *)
(* and the names it concerns are left to a later pass.                     *)
SaveFails(names) ==
  /\ "save" \in Faults
  /\ unvisited' = unvisited \cup names
  /\ UNCHANGED <<disk, backends>>

Everything == Names \cup {None}

Change(kind, c) == /\ kind \in Requests /\ Count /\ config' = c /\ UNCHANGED dirs

ChangeAll(kind, c) ==
  /\ Change(kind, c)
  /\ \/ SaveFails(Everything)
     \/ disk' = c /\ Reconcile(c, {}, hosts)

ChangeSite(kind, n, c) ==
  /\ Change(kind, c)
  /\ \/ SaveFails({n})
     \/ disk' = c /\ ReconcileSite(c, n)

Linked(n) == config.links[n] # None
SetLink(n, link) == [config EXCEPT !.links[n] = link]

(* park, unpark: a path that is (not) there already changes nothing. *)
Park(root) ==
  /\ root \notin ToSet(config.parked)
  /\ ChangeAll("park", [config EXCEPT !.parked = Append(@, root)])

Unpark(root) ==
  /\ root \in ToSet(config.parked)
  /\ ChangeAll("park", [config EXCEPT !.parked = Without(@, {root})])

(* link: every setting is at its default again. The path is canonical: as  *)
(* the disk spells it.                                                     *)
LinkSite(n, dir) ==
  /\ dir \in dirs
  /\ ChangeSite("link", n, SetLink(n, LinkOf(Spelled(dir), None, FALSE, FALSE)))

Relink(n, dir) ==
  /\ Linked(n) /\ dir \in dirs /\ Spelled(dir) # config.links[n].path
  /\ ChangeSite("link", n, SetLink(n, [config.links[n] EXCEPT !.path = Spelled(dir)]))

Unlink(n) ==
  /\ Linked(n)
  /\ ChangeSite("link", n, SetLink(n, None))

(* apply_spec: the link becomes what the file says. *)
ApplySpec(n, dir, spec) ==
  /\ dir \in dirs
  /\ ChangeSite("spec", n, SetLink(n, LinkOf(Spelled(dir), spec.pool, spec.secure, spec.octane)))

(* import_sites, remove_sites: many at once, one save, one pass; a path    *)
(* that does not exist is skipped.                                         *)
ImportSites(new, names, root) ==
  ChangeAll("import", [config EXCEPT
    !.parked = @ \o SetToSeq(new \ ToSet(@)),
    !.links = [n \in Names |-> IF n \in names /\ <<root, n>> \in dirs
                               THEN LinkOf(Spelled(<<root, n>>), None, FALSE, FALSE) ELSE @[n]]])

RemoveSites(old, names) ==
  ChangeAll("import", [config EXCEPT
    !.parked = Without(@, old),
    !.links = [n \in Names |-> IF n \in names THEN None ELSE @[n]]])

(* use_php, set_xdebug, set_profile and set_preload of a site... *)
SetPool(n, pool) ==
  /\ Linked(n)
  /\ ChangeSite("pool", n, SetLink(n, [config.links[n] EXCEPT !.pool = pool]))

(* ... and use_php and set_xdebug without one: the default. *)
SetDefaultPool(pool) == ChangeAll("pool", [config EXCEPT !.pool = pool])

SetSecure(n, secure) ==
  /\ Linked(n)
  /\ ChangeSite("secure", n, SetLink(n, [config.links[n] EXCEPT !.secure = secure]))

SetRuntime(n, octane) ==
  /\ Linked(n)
  /\ ChangeSite("runtime", n, SetLink(n, [config.links[n] EXCEPT !.octane = octane]))

(* tld_add, tld_primary, tld_remove; the last one stays. *)
TldAdd(tld) ==
  LET ts == ConfiguredTlds(config) IN
  /\ tld \notin ToSet(ts)
  /\ ChangeAll("tld", [config EXCEPT !.tlds = Append(ts, tld)])

TldPrimary(tld) ==
  LET ts == ConfiguredTlds(config) IN
  /\ tld \in ToSet(ts)
  /\ ChangeAll("tld", [config EXCEPT !.tlds = <<tld>> \o Without(ts, {tld})])

TldRemove(tld) ==
  LET ts == ConfiguredTlds(config) IN
  /\ tld \in ToSet(ts) /\ Len(ts) > 1
  /\ ChangeAll("tld", [config EXCEPT !.tlds = Without(ts, {tld})])

ProxySet(n) == ChangeAll("proxy", [config EXCEPT !.proxies = @ \cup {n}])

(* proxy_remove saves, and runs no pass. *)
ProxyRemove(n) ==
  LET c == [config EXCEPT !.proxies = @ \ {n}] IN
  /\ n \in config.proxies
  /\ Change("proxy", c)
  /\ \/ "save" \in Faults /\ UNCHANGED disk
     \/ disk' = c
  /\ UNCHANGED <<unvisited, backends>>

(* set_resolution: leaving the hosts file clears the managed block first. *)
SetResolution(useHosts) ==
  LET c == [config EXCEPT !.hosts = useHosts] IN
  /\ Change("hosts", c)
  /\ \/ SaveFails(Everything)
     \/ useHosts /\ disk' = c /\ Reconcile(c, {}, hosts)
     \/ ~useHosts /\ disk' = c /\ Reconcile(c, {}, {})

(* reload and repair_backends read the file again; restart_fpm does not.   *)
Reload ==
  /\ Change("reload", disk)
  /\ Reconcile(disk, pools, hosts)
  /\ UNCHANGED disk

RepairBackends ==
  /\ Change("reload", disk)
  /\ Reconcile(disk, pools \cup servers, hosts)
  /\ UNCHANGED disk

RestartFpm ==
  /\ Change("reload", config)
  /\ Reconcile(config, pools, hosts)
  /\ UNCHANGED disk

Mutate ==
  \/ \E root \in Roots : Park(root) \/ Unpark(root)
  \/ \E n \in Names : Unlink(n) \/ ProxySet(n) \/ ProxyRemove(n)
  \/ \E n \in Names, root \in Roots : LinkSite(n, <<root, n>>) \/ Relink(n, <<root, n>>)
  \/ \E n \in Names, root \in Roots, spec \in Specs : ApplySpec(n, <<root, n>>, spec)
  \/ \E rs \in {{}, Roots}, ns \in {{}, Names} :
       RemoveSites(rs, ns) \/ \E root \in Roots : ImportSites(rs, ns, root)
  \/ \E n \in Names, pool \in Pools \cup {None} : SetPool(n, pool)
  \/ \E pool \in Pools : SetDefaultPool(pool)
  \/ \E n \in Names, on \in BOOLEAN : SetSecure(n, on) \/ SetRuntime(n, on)
  \/ \E tld \in Tlds : TldAdd(tld) \/ TldPrimary(tld) \/ TldRemove(tld)
  \/ \E on \in BOOLEAN : SetResolution(on)
  \/ Reload \/ RepairBackends \/ RestartFpm

-----------------------------------------------------------------------------
(* The HTTP and HTTPS servers.                                             *)

site_for_host(n, tld) == tld \in ToSet(tlds)

(* resolve_request: a site whose pool does not run has no route. *)
Servable(n) ==
  routes[n] # None /\ (routes[n].upstream \/ routes[n].pool \in pools)

(* What handle takes under the lock. A proxy hides a site of its name. *)
Arrive(k, n, tld, https) ==
  LET kind == IF ~site_for_host(n, tld) THEN "index"
              ELSE IF n \in config.proxies THEN "proxy"
              ELSE IF Servable(n) THEN "site" ELSE "index"
  IN /\ inflight[k] = None
     /\ inflight' = [inflight EXCEPT ![k] =
          IF kind = "site"
          THEN [kind |-> kind, name |-> n, https |-> https, route |-> routes[n],
                cut |-> FALSE, moved |-> FALSE]
          ELSE [kind |-> kind]]
     /\ UNCHANGED <<dirs, config, disk, routes, tlds, pools, servers, hosts,
                    unvisited, changes>>

(* serve_site: the redirect to https comes before any backend. *)
Outcome(r) ==
  CASE r.kind # "site" -> r.kind
    [] r.kind = "site" /\ r.route.secure /\ ~r.https -> "redirect"
    [] OTHER -> IF r.cut THEN "bad gateway"
                ELSE IF r.route.upstream THEN "octane" ELSE "php"

Answer(k) ==
  /\ inflight[k] # None
  /\ inflight' = [inflight EXCEPT ![k] = None]
  /\ UNCHANGED <<dirs, config, disk, routes, tlds, pools, servers, hosts,
                 unvisited, changes>>

-----------------------------------------------------------------------------
(* What the registry tells: site_infos and serving_count.                  *)

(* The entries marked as serving: sites of the config, then proxies. *)
ServingInfos == {<<n, "site">> : n \in {m \in DOMAIN resolve(config) : Servable(m)}}
                \cup {<<n, "proxy">> : n \in config.proxies}

serving_count == Cardinality({n \in Names : Servable(n)}) + Cardinality(config.proxies)

-----------------------------------------------------------------------------

(* A project directory is made or removed; the daemon does not notice.     *)
ChangeDir(dir) ==
  /\ "dirs" \in Faults /\ Count
  /\ dirs' = IF dir \in dirs THEN dirs \ {dir} ELSE dirs \cup {dir}
  /\ unvisited' = unvisited \cup {dir[2]}
  /\ UNCHANGED <<config, disk, backends>>

(* The daemon ends, and another one loads the file and runs a first pass.  *)
RestartDaemon ==
  /\ "daemon" \in Faults /\ Count
  /\ config' = disk
  /\ \E fails \in Refusals :
       /\ routes' = RoutesOf(disk, fails)
       /\ pools' = PoolsOf(routes') \ fails
  /\ servers' = Upstreams(routes')
  /\ tlds' = ConfiguredTlds(disk)
  /\ hosts' = IF disk.hosts THEN SyncHosts(disk, tlds') ELSE hosts
  /\ inflight' = [k \in Clients |-> None]
  /\ unvisited' = {}
  /\ UNCHANGED <<dirs, disk>>

Fresh == [tlds |-> <<>>, parked |-> <<>>, links |-> [n \in Names |-> None],
          proxies |-> {}, pool |-> DefaultPool, hosts |-> FALSE]

(* A daemon that has just started, with some roots parked. *)
Init ==
  /\ dirs = Dirs
  /\ \E rs \in {{}, Roots} : config = [Fresh EXCEPT !.parked = SetToSeq(rs)]
  /\ disk = config
  /\ routes = RoutesOf(config, {})
  /\ tlds = ConfiguredTlds(config)
  /\ pools = PoolsOf(routes)
  /\ servers = {}
  /\ hosts = {}
  /\ inflight = [k \in Clients |-> None]
  /\ unvisited = {}
  /\ changes = 0

Next ==
  \/ Mutate
  \/ \E k \in Clients, n \in Names, tld \in Tlds, https \in BOOLEAN : Arrive(k, n, tld, https)
  \/ \E k \in Clients : Answer(k)
  \/ \E dir \in Dirs : ChangeDir(dir)
  \/ RestartDaemon

Spec == Init /\ [][Next]_vars

-----------------------------------------------------------------------------
(* Properties.                                                             *)

Visited(n) == unvisited \cap {n, None} = {}

(* Every variable holds values of its kind. *)
TypeOK ==
  /\ dirs \subseteq Dirs
  /\ config \in Config /\ disk \in Config
  /\ routes \in [Names -> Route \cup {None}]
  /\ tlds \in Seq(Tlds) /\ tlds # <<>>
  /\ pools \subseteq Pools /\ servers \subseteq Names
  /\ hosts \subseteq Names \X Tlds
  /\ unvisited \subseteq Everything

(* resolve_one is to say of a name what resolve says. It does, unless the  *)
(* name begins with a dot, or the first parked directory that has it spells *)
(* it with capitals: the path is then joined from the lower-cased name.    *)
Mirrored(c, n) ==
  /\ n \notin Dotted
  /\ c.links[n] = None =>
       \A i \in DOMAIN c.parked :
         <<c.parked[i], n>> \in dirs \cap Capital => \E j \in 1..(i - 1) : <<c.parked[j], n>> \in dirs \ Capital

RouteIsCurrent(n) ==
  LET wanted == RoutesOf(config, Names)[n] IN
  /\ (routes[n] = None) = (wanted = None)
  /\ routes[n] # None => [routes[n] EXCEPT !.upstream = FALSE] = wanted

(* The routing table is what the configuration and the disk say, whichever *)
(* pass built it: reconcile_site mirrors what reconcile would do, for the  *)
(* site it is called for and for all others, where resolve_one mirrors     *)
(* resolve. Only names changed behind the registry's back, or by a request *)
(* whose save failed, may differ.                                          *)
RoutesCurrent == \A n \in Names : Visited(n) /\ Mirrored(config, n) => RouteIsCurrent(n)

(* No pool and no Octane server runs that no route leads to. *)
BackendsRouted ==
  /\ pools \subseteq PoolsOf(routes)
  /\ \A n \in servers : routes[n] # None /\ routes[n].upstream

(* In hosts mode every name the daemon answers to is in the hosts file, on *)
(* every domain. *)
HostsCover ==
  config.hosts => \A n \in Names : \A tld \in ToSet(ConfiguredTlds(config)) :
    Visited(n) /\ n \in DOMAIN resolve(config) \cup config.proxies => <<n, tld>> \in hosts

(* serving_count is the cheap equivalent of counting what site_infos marks *)
(* as serving. *)
CountAgrees == unvisited = {} => serving_count = Cardinality(ServingInfos)

(* A request fails with 502 only when its own site was given another       *)
(* backend, or all were stopped on purpose, while it was on its way: the   *)
(* changes of other sites never take its backend away.                     *)
FailsOnlyIfMoved ==
  \A k \in Clients : inflight[k] # None /\ Outcome(inflight[k]) = "bad gateway"
                     => inflight[k].moved

(* A request in the clear to a secure site is redirected, unless the site  *)
(* was changed after the request came. *)
SecureRedirects ==
  \A k \in Clients : LET r == inflight[k] IN
    r # None /\ r.kind = "site" /\ ~r.https /\ ~r.moved /\ Visited(r.name)
      /\ Linked(r.name) /\ config.links[r.name].secure
    => Outcome(r) = "redirect"

-----------------------------------------------------------------------------
(* Refuted; see the README.                                                *)

(* resolve_one mirrors resolve: the table is current for every name.       *)
RoutesExact == \A n \in Names : Visited(n) => RouteIsCurrent(n)

(* In hosts mode the hosts file lists nothing else. *)
HostsExact == config.hosts /\ unvisited = {} => hosts = HostsOf(config, tlds)

(* Outside hosts mode the managed block is empty. *)
HostsCleared == ~config.hosts /\ unvisited = {} => hosts = {}
================================================================================
