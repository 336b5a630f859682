-------------------------------- MODULE Services --------------------------------
(***************************************************************************)
(* Managed database servers: named instances of one engine, each with a    *)
(* version, a port and a data directory, in memory and in services.toml,   *)
(* and the server processes the daemon holds, is ending, or has left       *)
(* behind.  Every request holds the services lock from its first check to  *)
(* its answer, so it is one step.                                          *)
(***************************************************************************)
EXTENDS Naturals, FiniteSets

CONSTANTS
  Names,    \* instance names
  Versions, \* installed versions of the engine
  MaxPort,  \* bound on ports; port 0 stands for the default port
  None,     \* a data directory that is empty
  Partial,  \* a data directory whose initialisation failed half way
  Faults    \* "save", "spawn", "exit", "kill", "unreadable", "foreign"

(* What the proofs need of the constants. *)
ServicesAssumption ==
  MaxPort \in Nat /\ None \notin Versions /\ Partial \notin Versions /\ None # Partial

TcpPorts == 0 .. MaxPort
Instance == [name: Names, version: Versions, port: TcpPorts]

VARIABLES
  config,  \* Services.config
  disk,    \* services.toml
  running, \* the keys of Services.running
  servers, \* live server processes
  data,    \* what each data directory was initialised for
  foreign, \* ports other programs listen on
  made,    \* not in the code: created with success, and no request to delete since
  gone     \* not in the code: deleted with success, and no request to create since

vars == <<config, disk, running, servers, data, foreign, made, gone>>

NamesOf(instances) == {i.name : i \in instances}
Server(i, state) == [name |-> i.name, version |-> i.version, port |-> i.port, state |-> state]

port_open(p) == p \in foreign \/ \E s \in servers : s.port = p

(* The first port after the default one that nothing uses or is to use. *)
free_port(p) ==
  LET free == {q \in 1 .. MaxPort : ~port_open(q) /\ \A i \in config : i.port # q}
  IN p \in free /\ \A q \in free : p <= q

Free(p) == ~port_open(p) /\ \A i \in config : i.port # p

-----------------------------------------------------------------------------
(* Processes.                                                              *)

Ended(names) ==
  {IF s.name \in names /\ s.state = "held" THEN [s EXCEPT !.state = "dying"] ELSE s : s \in servers}

(* A server stays up if its port is free and the directory is its own. *)
Serves(i) == ~port_open(i.port) /\ data[i.name] \in {None, i.version}

(* init_instance leaves a directory alone that is not empty. *)
Initialised(instances) ==
  [n \in Names |-> IF data[n] = None /\ n \in NamesOf(instances)
                   THEN (CHOOSE i \in instances : i.name = n).version ELSE data[n]]

Spawn(instances) ==
  /\ running' = running \cup NamesOf(instances)
  /\ servers' = servers \cup {Server(i, "held") : i \in {j \in instances : Serves(j)}}
  /\ data' = Initialised(instances)

(* spawn_instance ends with an error; the directory may be half made. *)
SpawnFails(i) ==
  /\ "spawn" \in Faults
  /\ data' \in {data, [data EXCEPT ![i.name] = IF @ = None THEN Partial ELSE @]}
  /\ UNCHANGED <<running, servers>>

Save(c) ==
  \/ disk' = c
  \/ "save" \in Faults /\ disk' = disk

-----------------------------------------------------------------------------
(* Requests.                                                               *)

(* Mutant of Stored: saved before it is put into the configuration. *)
Stored_SavedFirst(i) == config' = config \cup {i} /\ Save(config)

(* The end of create. *)
Stored(i) == config' = config \cup {i} /\ Save(config')

Create(i) ==
  /\ i.name \notin NamesOf(config)
  /\ \/ SpawnFails(i) /\ UNCHANGED <<config, disk, made>>
     \/ /\ Spawn({i})
        /\ Stored(i)
        /\ made' = IF disk' # disk THEN made \cup {i.name} ELSE made
  /\ gone' = gone \ {i.name}
  /\ UNCHANGED foreign

CreateOn(i) == Free(i.port) /\ Create(i)
CreateAnywhere(i) == free_port(i.port) /\ Create(i)

Start(i) ==
  /\ i \in config /\ i.name \notin running
  /\ Spawn({i}) \/ SpawnFails(i)
  /\ UNCHANGED <<config, disk, foreign, made, gone>>

Stop(n) ==
  /\ n \in running
  /\ running' = running \ {n}
  /\ servers' = Ended({n})
  /\ UNCHANGED <<config, disk, data, foreign, made, gone>>

(* restart: stop, wait for 400 ms, start; the old server may still be there. *)
Restart(i) ==
  /\ i \in config /\ i.name \in running
  /\ \E others \in {Ended({i.name}), servers \ {Server(i, "held")}} :
       LET clash == \E s \in others : s.port = i.port
           starts == ~clash /\ i.port \notin foreign /\ data[i.name] \in {None, i.version}
       IN \/ /\ running' = running
             /\ servers' = others \cup (IF starts THEN {Server(i, "held")} ELSE {})
             /\ data' = Initialised({i})
          \/ /\ "spawn" \in Faults
             /\ running' = running \ {i.name} /\ servers' = others /\ data' = data
  /\ UNCHANGED <<config, disk, foreign, made, gone>>

(* The beginning of delete: the server is ended, whoever it belongs to. *)
Forgotten(n) == running' = running \ {n} /\ servers' = Ended({n})

Delete(n) ==
  /\ n \in NamesOf(config)
  /\ Forgotten(n)
  /\ config' = {i \in config : i.name # n}
  /\ Save(config')
  /\ made' = made \ {n}
  /\ gone' = IF n \notin NamesOf(disk') THEN gone \cup {n} ELSE gone
  /\ UNCHANGED <<data, foreign>>

-----------------------------------------------------------------------------
(* The world.                                                              *)

(* A killed server is gone, or one ends by itself; the table keeps it. *)
Exit(s) ==
  /\ s \in servers /\ (s.state = "dying" \/ "exit" \in Faults)
  /\ servers' = servers \ {s}
  /\ UNCHANGED <<config, disk, running, data, foreign, made, gone>>

Foreign(p) ==
  /\ "foreign" \in Faults
  /\ \/ p \in foreign /\ foreign' = foreign \ {p}
     \/ ~port_open(p) /\ foreign' = foreign \cup {p}
  /\ UNCHANGED <<config, disk, running, servers, data, made, gone>>

(* Services::new and reconcile, with some servers left by the last daemon. *)
Boot(left, loaded) ==
  LET due == {i \in loaded : i.port \notin foreign /\ \A s \in left : s.port # i.port} IN
  \E fails \in {{}} \cup (IF "spawn" \in Faults THEN {{i} : i \in due} ELSE {}) :
    LET started == due \ fails IN
    /\ config' = loaded
    /\ running' = NamesOf(started)
    /\ servers' = left \cup {Server(i, "held") :
                               i \in {j \in started : data[j.name] \in {None, j.version}}}
    /\ data' = Initialised(started)
    /\ UNCHANGED <<disk, foreign, made, gone>>

(* A daemon that is told to end takes its servers with it. *)
Reboot == Boot({}, disk)

(* A daemon that is killed leaves them. *)
Killed ==
  /\ "kill" \in Faults
  /\ Boot({[s EXCEPT !.state = "orphan"] : s \in {t \in servers : t.state # "dying"}}, disk)

(* A file that cannot be read is taken for an empty one. *)
Unreadable == "unreadable" \in Faults /\ Boot({}, {})

Init ==
  /\ config = {} /\ disk = {}
  /\ running = {} /\ servers = {}
  /\ data = [n \in Names |-> None]
  /\ foreign \in {{}, {0}}
  /\ made = {} /\ gone = {}

Next ==
  \/ \E i \in Instance : CreateOn(i) \/ CreateAnywhere(i)
  \/ \E i \in config : Start(i) \/ Restart(i)
  \/ \E n \in Names : Stop(n) \/ Delete(n)
  \/ \E s \in servers : Exit(s)
  \/ \E p \in TcpPorts : Foreign(p)
  \/ Reboot \/ Killed \/ Unreadable

Spec == Init /\ [][Next]_vars

(* The instances, and whoever else has the default port of the engine. *)
list ==
  {[name |-> i.name, port |-> i.port, running |-> i.name \in running, external |-> FALSE] : i \in config}
  \cup {[name |-> None, port |-> p, running |-> TRUE, external |-> TRUE] :
         p \in {q \in {0} : port_open(q) /\ \A i \in config : i.port # q}}

-----------------------------------------------------------------------------
(* Properties.                                                             *)

(* Every variable holds values of its kind. *)
TypeOK ==
  /\ config \subseteq Instance /\ disk \subseteq Instance
  /\ running \subseteq Names
  /\ servers \subseteq [name: Names, version: Versions, port: TcpPorts,
                        state: {"held", "dying", "orphan"}]
  /\ data \in [Names -> Versions \cup {None, Partial}]
  /\ foreign \subseteq TcpPorts /\ made \subseteq Names /\ gone \subseteq Names

(* No two instances share a name or a port, also when the one that has the *)
(* port is stopped, or is known only to memory because its save failed.    *)
Distinct ==
  \A c \in {config, disk} : \A i, j \in c : i # j => i.name # j.name /\ i.port # j.port

(* A server in the table belongs to an instance, which owns its port: after *)
(* failed creations, deletions and saves nothing is held that no request    *)
(* can name.                                                                *)
HeldIsNamed ==
  /\ running \subseteq NamesOf(config)
  /\ \A s \in servers : s.state = "held" =>
       s.name \in running /\ \E i \in config : i.name = s.name /\ i.port = s.port

(* What was answered with success lasts: an instance that was created is in *)
(* the file until it is asked to be deleted, and one that was deleted never *)
(* comes back, whatever saves fail in between and however the daemon ends.  *)
Durable ==
  \A c \in {config, disk} : made \subseteq NamesOf(c) /\ gone \cap NamesOf(c) = {}

-----------------------------------------------------------------------------
(* Refuted; see the README.                                                *)

(* What the list calls running runs. *)
ListedRuns ==
  \A l \in list : l.running /\ ~l.external => \E s \in servers : s.name = l.name /\ s.port = l.port

(* What the list calls stopped does not run. *)
UnlistedStopped ==
  \A l \in list : ~l.running => ~\E s \in servers : s.name = l.name /\ s.state # "dying"

(* A directory is only ever used by the version that made it. *)
OwnData == \A i \in config : data[i.name] \in {None, i.version}
================================================================================
