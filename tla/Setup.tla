---------------------------------- MODULE Setup ----------------------------------
(***************************************************************************)
(* What the command line and the privileged helper change on the machine:  *)
(* the launchd jobs that run dpld, who listens on port 80, the resolver    *)
(* files, the managed block of /etc/hosts and the sudoers rule behind it,  *)
(* and the trust of the CA.  A command is a sequence of steps, most of     *)
(* them a sudo of their own; `dpl doctor` reads the machine and names a    *)
(* command for each problem.                                               *)
(***************************************************************************)
EXTENDS Naturals, Sequences, FiniteSets, Functions

CONSTANTS
  Tlds,        \* top-level domains that may be configured
  Native,      \* those that resolve to loopback by themselves
  Servers,     \* other servers that may hold port 80: "known", "other"
  Commands,    \* commands that are run without being told to
  Agents,      \* the state of the agent at the beginning: "none", "loaded"
  SiteNames,   \* what sites may be served: "none", "fine", or a name that is no host name: "bad"
  Events,      \* "hand", "upgrade", "reboot", "tld", "sites", "quit"
  Faults,      \* "deny": a sudo is refused
  MaxCommands, \* bound on Commands, Events and refusals
  None         \* no check

VARIABLES
  mac,    \* the machine
  todo,   \* the steps left of the running command
  fixing, \* the check whose fix is running
  fixed,  \* not in the code: the check whose fix has just succeeded
  count   \* not in the code: commands, events and refusals so far

vars == <<mac, todo, fixing, fixed, count>>

Up(k) == k.owner # "none"
PortFree(k) == k.foreign = "none" /\ k.owner # "hand80"

(* launchd hands its sockets to its own job alone. *)
http_port(k) == IF k.owner = "hand80" \/ (k.owner = "system" /\ k.bound) THEN 80 ELSE 8080

Without(k, owners) == IF k.owner \in owners THEN [k EXCEPT !.owner = "none"] ELSE k

-----------------------------------------------------------------------------
(* The daemon's side.                                                      *)

(* What becomes of the block: the helper clears it if there is no name to    *)
(* list, and leaves it alone if one of the names is no host name.            *)
sync_hosts(k) ==
  CASE k.names = "none" -> {}
    [] k.names = "fine" -> k.tlds
    [] k.names = "bad" -> k.block

(* reconcile has the block written in hosts mode, if it may. *)
Synced(k) == IF k.mode = "hosts" /\ k.sudoers THEN [k EXCEPT !.block = sync_hosts(k)] ELSE k

(* A daemon that starts makes the CA, and reconciles. *)
Started(k, owner) == Synced([k EXCEPT !.owner = owner, !.ca = TRUE, !.stale = FALSE])

set_resolution(k, mode) ==
  IF mode = "hosts" THEN Synced([k EXCEPT !.mode = mode])
  ELSE [k EXCEPT !.mode = mode, !.block = IF k.sudoers THEN {} ELSE @]

-----------------------------------------------------------------------------
(* The helper's side, and launchctl.                                       *)

install_resolver(k, tld) == [k EXCEPT !.resolvers = @ \cup {tld}]
remove_resolver(k, tld) == [k EXCEPT !.resolvers = @ \ {tld}]

(* The job is replaced; launchd binds port 80 if nobody else has it. *)
install_socketd(k) ==
  LET j == Without(k, {"system"})
  IN [j EXCEPT !.system = "loaded", !.bound = PortFree(j), !.anchor = FALSE]

remove_socketd(k) == [Without(k, {"system"}) EXCEPT !.system = "none", !.bound = FALSE]
remove_portmap(k) == [remove_socketd(k) EXCEPT !.anchor = FALSE]

(* The agent is unloaded and deleted; who still answers is shut down. *)
stop_launch_agent(k) == [k EXCEPT !.agent = "none", !.owner = "none"]

install_agent(k) == [Without(k, {"agent"}) EXCEPT !.agent = "loaded"]
uninstall_agent(k) == [Without(k, {"agent"}) EXCEPT !.agent = "none"]

(* dpl start: the job of the system, else the agent, else nothing. A job     *)
(* that is loaded already is kicked: its sockets stay what they are.         *)
start(k) ==
  IF k.system # "none"
  THEN [k EXCEPT !.system = "loaded", !.bound = IF k.system = "plist" THEN PortFree(k) ELSE @]
  ELSE IF k.agent # "none" THEN [k EXCEPT !.agent = "loaded"] ELSE k

stop(k) ==
  IF k.system # "none" THEN [Without(k, {"system"}) EXCEPT !.system = "plist", !.bound = FALSE]
  ELSE IF k.agent # "none" THEN [Without(k, {"agent"}) EXCEPT !.agent = "plist"] ELSE k

(* nginx and httpd go, by name; another server stays. *)
stop_others(k) == IF k.foreign = "known" THEN [k EXCEPT !.foreign = "none"] ELSE k
start_others(k) == IF PortFree(k) /\ ~k.bound THEN [k EXCEPT !.foreign = "known"] ELSE k

Effect(s, k) ==
  CASE s.do = "install-resolver" -> install_resolver(k, s.arg)
    [] s.do = "remove-resolver" -> remove_resolver(k, s.arg)
    [] s.do = "trust-ca" -> [k EXCEPT !.trusted = TRUE]
    [] s.do = "untrust-ca" -> [k EXCEPT !.trusted = FALSE]
    [] s.do = "install-sudoers" -> [k EXCEPT !.sudoers = TRUE]
    [] s.do = "remove-sudoers" -> [k EXCEPT !.sudoers = FALSE]
    [] s.do = "install-socketd" -> install_socketd(k)
    [] s.do = "remove-socketd" -> remove_socketd(k)
    [] s.do = "remove-portmap" -> remove_portmap(k)
    [] s.do = "stop-agent" -> stop_launch_agent(k)
    [] s.do = "install" -> install_agent(k)
    [] s.do = "uninstall" -> uninstall_agent(k)
    [] s.do = "start" -> start(k)
    [] s.do = "stop" -> stop(k)
    [] s.do = "stop-others" -> stop_others(k)
    [] s.do = "start-others" -> start_others(k)
    [] s.do = "resolution" -> set_resolution(k, s.arg)
    [] s.do = "reload" -> Synced(k)

NeedsDaemon(s) == s.do \in {"resolution", "reload"}
NeedsSudo(s, k) ==
  \/ s.do \in {"install-resolver", "remove-resolver", "trust-ca", "untrust-ca", "install-sudoers",
               "remove-sudoers", "install-socketd", "remove-socketd", "remove-portmap", "stop-others"}
  \/ s.do \in {"start", "stop"} /\ k.system # "none"

-----------------------------------------------------------------------------
(* Commands.                                                               *)

Must(do, arg) == [do |-> do, arg |-> arg, must |-> TRUE]
May(do, arg) == [do |-> do, arg |-> arg, must |-> FALSE]

(* One step for each domain, in some fixed order. *)
Order(tlds) == CHOOSE order \in [1 .. Cardinality(tlds) -> tlds] : IsInjective(order)
ForEach(tlds, step(_)) == [i \in 1 .. Cardinality(tlds) |-> step(Order(tlds)[i])]

InstallResolvers(k) == ForEach(k.tlds \ Native, LAMBDA t : Must("install-resolver", t))

(* Mutant of install_privileged_ports: the agent is left alone. *)
install_privileged_ports_KeepAgent == <<May("remove-socketd", None), Must("install-socketd", None)>>

install_privileged_ports ==
  <<May("remove-socketd", None), May("stop-agent", None), Must("install-socketd", None)>>

(* Nothing is done without a CA. *)
setup(k, ports) ==
  IF ~k.ca THEN <<Must("bail", None)>>
  ELSE InstallResolvers(k) \o <<Must("trust-ca", None)>>
       \o (IF ports THEN install_privileged_ports ELSE <<>>)

unsetup(k) ==
  <<Must("remove-portmap", None)>> \o ForEach(k.tlds, LAMBDA t : Must("remove-resolver", t))
  \o (IF k.ca THEN <<Must("untrust-ca", None)>> ELSE <<>>)

(* Mutant of to_resolver: the rule goes before the block. *)
to_resolver_RuleFirst(k) ==
  <<May("remove-sudoers", None), Must("resolution", "resolver")>> \o InstallResolvers(k)

(* The block is cleared while the rule still permits it. *)
to_resolver(k) ==
  <<Must("resolution", "resolver"), May("remove-sudoers", None)>> \o InstallResolvers(k)

to_hosts(k) ==
  <<Must("install-sudoers", None)>> \o ForEach(k.tlds, LAMBDA t : May("remove-resolver", t))
  \o <<Must("resolution", "hosts")>>

Program(c, k) ==
  CASE c = "setup" -> setup(k, TRUE)
    [] c = "setup --no-ports" -> setup(k, FALSE)
    [] c = "takeover" -> <<May("stop-others", None)>> \o setup(k, TRUE)
                         \o <<May("stop", None), May("start", None)>>
    [] c = "unsetup" -> unsetup(k)
    [] c = "untakeover" -> unsetup(k) \o <<May("start-others", None)>>
    [] c = "resolution hosts" -> to_hosts(k)
    [] c = "resolution resolver" -> to_resolver(k)
    [] c = "untrust" -> IF k.ca THEN <<Must("untrust-ca", None)>> ELSE <<Must("bail", None)>>
    [] c = "trust" -> IF k.ca THEN <<Must("trust-ca", None)>> ELSE <<Must("bail", None)>>
    [] c = "daemon install" -> <<Must("install", None)>>
    [] c = "daemon uninstall" -> <<Must("uninstall", None)>>
    [] c = "start" -> <<Must("start", None)>>
    [] c = "stop" -> <<Must("stop", None)>>
    [] c \in {"reload", "restart"} -> <<Must("reload", None)>>

-----------------------------------------------------------------------------
(* dpl doctor: the checks that warn or fail, and the command for each.     *)

Check(id, fix) == [id |-> id, fix |-> fix]

check_daemon(k) ==
  IF ~Up(k) THEN {Check("running", "start")}
  ELSE {c \in {Check("version", "restart")} : k.stale}
       \cup {c \in {Check("autostart", "daemon install")} : k.agent = "none"}

(* What answers on port 80: launchd's own socket is a server nobody knows. *)
port_server(k) ==
  IF k.foreign # "none" THEN k.foreign ELSE IF k.bound \/ k.owner = "hand80" THEN "other" ELSE "none"

check_ports(k) ==
  {c \in {Check("port_80", "takeover")} : http_port(k) # 80 /\ port_server(k) = "known"}
  \cup {c \in {Check("privports", "setup")} : http_port(k) # 80}
  \cup {c \in {Check("pf_legacy", "setup")} : k.anchor}

(* Mutant of Unresolved: the first domain answers for the others. *)
Unresolved_First(k) ==
  {t \in k.tlds \ Native : k.resolvers \cap k.tlds = {}}

Unresolved(k) == (k.tlds \ Native) \ k.resolvers

check_resolution(k) ==
  IF k.mode = "hosts"
  THEN {c \in {Check("hosts", "reload")} : k.block = {}}
       \cup {c \in {Check("sudoers", "resolution hosts")} : ~k.sudoers}
  ELSE {c \in {Check("resolver", "setup")} : Unresolved(k) # {}}

check_networking(k) ==
  IF ~Up(k) THEN {Check("proxy", "start")} ELSE check_ports(k) \cup check_resolution(k)

check_tls(k) ==
  IF ~k.ca THEN {Check("ca", "start")} ELSE {c \in {Check("trust", "trust")} : ~k.trusted}

Problems(k) == check_daemon(k) \cup check_networking(k) \cup check_tls(k)

-----------------------------------------------------------------------------
(* Steps.                                                                  *)

Idle == todo = <<>>

Begin(c) ==
  /\ Idle /\ count < MaxCommands
  /\ todo' = Program(c, mac)
  /\ fixing' = None /\ fixed' = None
  /\ count' = count + 1
  /\ UNCHANGED mac

(* The command the doctor names for a problem is run. *)
Fix(c) ==
  /\ Idle
  /\ todo' = Program(c.fix, mac)
  /\ fixing' = c.id /\ fixed' = None
  /\ UNCHANGED <<mac, count>>

Able(s) == s.do # "bail" /\ (NeedsDaemon(s) => Up(mac))
Denied(s) == "deny" \in Faults /\ NeedsSudo(s, mac) /\ count < MaxCommands

Done ==
  /\ ~Idle /\ Able(Head(todo))
  /\ mac' = Effect(Head(todo), mac)
  /\ todo' = Tail(todo)
  /\ fixed' = IF Len(todo) = 1 THEN fixing ELSE None
  /\ UNCHANGED <<fixing, count>>

(* What still runs: untakeover does not ask how its unsetup ended. *)
AfterFailure(s, rest) ==
  CASE ~s.must -> rest
    [] s.must /\ rest # <<>> /\ rest[Len(rest)].do = "start-others" -> <<rest[Len(rest)]>>
    [] OTHER -> <<>>

(* A step that fails ends its command, unless its result is ignored. *)
Failed ==
  /\ ~Idle /\ (~Able(Head(todo)) \/ Denied(Head(todo)))
  /\ todo' = AfterFailure(Head(todo), Tail(todo))
  /\ fixing' = IF Head(todo).must THEN None ELSE fixing
  /\ fixed' = None
  /\ count' = IF Able(Head(todo)) THEN count + 1 ELSE count
  /\ UNCHANGED mac

(* launchd starts what is loaded; a second daemon bails. *)
Respawn(job) ==
  /\ ~Up(mac) /\ mac[job] = "loaded"
  /\ mac' = Started(mac, job)
  /\ UNCHANGED <<todo, fixing, fixed, count>>

Happens(event, k) ==
  /\ event \in Events /\ count < MaxCommands
  /\ mac' = k
  /\ count' = count + 1 /\ fixed' = None

(* Somebody runs dpld; port 80 may be within its reach. *)
RunByHand ==
  /\ ~Up(mac)
  /\ \E owner \in {"hand"} \cup (IF PortFree(mac) /\ ~mac.bound THEN {"hand80"} ELSE {}) :
       Happens("hand", Started(mac, owner))
  /\ UNCHANGED <<todo, fixing>>

(* The binaries are replaced under a running daemon. *)
Upgrade == Happens("upgrade", [mac EXCEPT !.stale = Up(mac)]) /\ UNCHANGED <<todo, fixing>>

Quit ==
  Up(mac) /\ Happens("quit", [mac EXCEPT !.owner = "none"]) /\ UNCHANGED <<todo, fixing>>

Loaded(state) == IF state = "none" THEN "none" ELSE "loaded"

(* What is installed is loaded again, and the running command is gone. *)
Reboot ==
  /\ Happens("reboot", [mac EXCEPT !.owner = "none", !.stale = FALSE,
                                   !.agent = Loaded(@), !.system = Loaded(@),
                                   !.bound = mac.system # "none" /\ mac.foreign = "none"])
  /\ todo' = <<>> /\ fixing' = None

(* tld_add and tld_remove. *)
Configure(tlds) ==
  /\ Up(mac) /\ tlds # {}
  /\ Happens("tld", Synced([mac EXCEPT !.tlds = tlds]))
  /\ UNCHANGED <<todo, fixing>>

(* A site or a proxy is added, renamed or removed. *)
Serve(names) ==
  /\ Up(mac) /\ names # mac.names
  /\ Happens("sites", Synced([mac EXCEPT !.names = names]))
  /\ UNCHANGED <<todo, fixing>>

Init ==
  /\ \E server \in Servers \cup {"none"}, agent \in Agents, names \in SiteNames,
        anchor \in BOOLEAN :
       mac = [tlds |-> {CHOOSE t \in Tlds : t \notin Native}, names |-> names, mode |-> "resolver", ca |-> FALSE,
              trusted |-> FALSE, resolvers |-> {}, sudoers |-> FALSE, block |-> {}, anchor |-> anchor,
              agent |-> agent, system |-> "none", bound |-> FALSE, owner |-> "none",
              foreign |-> server, stale |-> FALSE]
  /\ todo = <<>> /\ fixing = None /\ fixed = None /\ count = 0

Next ==
  \/ \E c \in Commands : Begin(c)
  \/ \E c \in Problems(mac) : Fix(c)
  \/ Done \/ Failed
  \/ \E job \in {"agent", "system"} : Respawn(job)
  \/ RunByHand \/ Upgrade \/ Quit \/ Reboot
  \/ \E tlds \in SUBSET Tlds : Configure(tlds)
  \/ \E names \in SiteNames : Serve(names)

Spec == Init /\ [][Next]_vars

(* launchd starts its jobs, a command goes on, and the user runs one after  *)
(* another of the commands that the doctor names, in any order, as long as  *)
(* `takeover` is not passed over for ever: `setup` would go round in        *)
(* circles while another server has the port.                               *)
Fairness ==
  /\ \A job \in {"agent", "system"} : WF_vars(Respawn(job))
  /\ WF_vars(Done \/ Failed)
  /\ WF_vars(\E c \in Problems(mac) : Fix(c))
  /\ SF_vars(\E c \in Problems(mac) : c.fix = "takeover" /\ Fix(c))

-----------------------------------------------------------------------------
(* Properties.                                                             *)

Settled == Idle /\ \A job \in {"agent", "system"} : mac[job] = "loaded" => Up(mac)

Resolves(t) == t \in Native \cup mac.block \/ (t \in mac.resolvers /\ Up(mac))

(* A report of doctor with no problem is true: every configured domain      *)
(* resolves to this machine, and port 80 leads to dpl, whatever commands,   *)
(* refusals, restarts and reboots led here.                                 *)
CleanIsReachable ==
  Settled /\ {c \in Problems(mac) : c.id # "autostart"} = {} =>
    http_port(mac) = 80 /\ \A t \in mac.tlds : Resolves(t)

(* "Clear /etc/hosts first (while the sudoers rule still permits it)": no   *)
(* entry outlives hosts mode.                                               *)
BlockGone == mac.mode = "resolver" => mac.block = {}

(* Whoever keeps following the doctor gets a clean report.                  *)
FixesConverge == []<>(Problems(mac) = {})

-----------------------------------------------------------------------------
(* Refuted; see the README.                                                *)

(* "A command that resolves the check" (checks.rs), once it has succeeded.  *)
FixResolves == Settled /\ fixed # None => fixed \notin {c.id : c \in Problems(mac)}

(* dpld is run by one job at a time. *)
OneJob == ~(mac.agent = "loaded" /\ mac.system = "loaded")

(* A setup that is refused its last step leaves a job that runs dpld. *)
KeepsAJob == [][Failed /\ Head(todo).do = "install-socketd" =>
                  mac.agent # "none" \/ mac.system # "none"]_vars
================================================================================
