------------------------------- MODULE BranchDb -------------------------------
(***************************************************************************)
(* Branch-aware databases (`dpl db attach|detach|switch|drop-branch`), the *)
(* watcher that follows `.git/HEAD`, and the Postgres statements they run. *)
(*   crates/dpld/src/branchdb.rs, services.rs, registry.rs                 *)
(*                                                                         *)
(* Every await of a handler, and every psql process it spawns, is a step   *)
(* of its own: in between, other handlers, git, the application, an outage *)
(* of Postgres or the end of the daemon may step in.                       *)
(***************************************************************************)
EXTENDS Naturals

CONSTANTS
  Sites,       \* names of linked sites
  Bases,       \* base database names (`DB_DATABASE`)
  Branches,    \* git branch names
  Unusable,    \* branches whose parked name `safe_identifier` refuses
  Ports,       \* ports a Postgres may listen on
  DefaultPort, \* 5432
  Clients,     \* control-socket connections, one request each
  Watcher,     \* the auto-switch task
  Writes,      \* what the application may commit: bounds its activity
  None,
  Attached,    \* [Sites -> Bases or None]: what config says at start
  Trunk,       \* the branch that is live, and checked out, at start
  Requests,    \* the kinds of requests the clients send
  Faults       \* subset of {"session", "outage", "crash", "savefail"}

Procs == Clients \cup {Watcher}

(* The link fields this component reads and writes. *)
Link == [db : Bases \cup {None}, branch : Branches \cup {None}, port : Ports]

ASSUME ConstantsAssumption ==
  /\ Watcher \notin Clients
  /\ DefaultPort \in Ports
  /\ Trunk \in Branches
  /\ Unusable \subseteq Branches
  /\ Attached \in [Sites -> Bases \cup {None}]
  /\ None \notin Sites \cup Bases \cup Branches \cup Ports \cup Procs
  /\ None \notin Link
  /\ \A ws \in SUBSET Writes : ws # None

(* A database is named by its server, its base and the branch parked in it: *)
(* <<port, base, None>> is the base itself, what the application opens.     *)
Keys == Ports \X Bases \X (Branches \cup {None})
Base(port, db) == <<port, db, None>>
Parked(port, db, br) == <<port, db, br>>

(* What a database holds: the writes committed to it; None when there is no *)
(* database of that name.                                                   *)
Contents == (SUBSET Writes) \cup {None}

VARIABLES
  links,     \* Registry.config.links, in memory
  disk,      \* the same, as last saved
  head,      \* per site, the branch in .git/HEAD; None when detached
  dbs,       \* Postgres: the contents of each database
  sessions,  \* base databases an application connection is open on
  up,        \* ports something listens on
  ops,       \* who holds the OPS mutex, or None
  pc, job,   \* per process: the next step and the locals it needs
  todo,      \* the watcher's snapshot of the sites it has yet to visit
  failed,    \* the watcher's memory of the head a switch failed for
  written    \* writes committed so far (kept to make each one distinct)

vars == <<links, disk, head, dbs, sessions, up, ops, pc, job, todo, failed, written>>
pg == <<dbs, sessions, up, written>>
watch == <<todo, failed>>

SwitchSteps == {"plan", "base?", "kick", "parked?", "droppark", "park",
                "back?", "swap", "clone", "record"}
AttachSteps == {"attach", "ensure?", "create", "setattach"}
DetachSteps == {"detach", "setdetach"}
DropSteps   == {"drop", "drop?", "dropdb"}
Steps == {"idle", "lock", "sleep", "visit", "ok", "err"}
           \cup SwitchSteps \cup AttachSteps \cup DetachSteps \cup DropSteps

(* The steps that run a psql statement. *)
PsqlSteps == {"base?", "kick", "parked?", "droppark", "park", "back?", "swap",
              "clone", "ensure?", "create", "drop?", "dropdb"}

Job == [site : Sites \cup {None}, db : Bases \cup {None},
        from : Branches \cup {None}, to : Branches \cup {None},
        override : Ports \cup {None},  \* --port of the request
        kept : Ports,                  \* the link's port, written back by a switch
        port : Ports]                  \* the port the statements go to

NoJob == [site |-> None, db |-> None, from |-> None, to |-> None,
          override |-> None, kept |-> DefaultPort, port |-> DefaultPort]

Visited == "visited"

TypeOK ==
  /\ links \in [Sites -> Link \cup {None}]
  /\ disk \in [Sites -> Link \cup {None}]
  /\ head \in [Sites -> Branches \cup {None}]
  /\ dbs \in [Keys -> Contents]
  /\ sessions \subseteq Keys
  /\ up \subseteq Ports
  /\ ops \in Procs \cup {None}
  /\ pc \in [Procs -> Steps]
  /\ job \in [Procs -> Job]
  /\ todo \in [Sites -> Branches \cup {None, Visited}]
  /\ failed \in [Sites -> Branches \cup {None}]
  /\ written \subseteq Writes

Exists(k) == dbs[k] # None

Init ==
  /\ links = [s \in Sites |-> [db |-> Attached[s], port |-> DefaultPort,
                               branch |-> IF Attached[s] = None THEN None ELSE Trunk]]
  /\ disk = links
  /\ head = [s \in Sites |-> Trunk]
  /\ dbs = [k \in Keys |-> IF \E s \in Sites : /\ Attached[s] # None
                                               /\ k = Base(DefaultPort, Attached[s])
                           THEN {} ELSE None]
  /\ sessions = {}
  /\ up = Ports
  /\ ops = None
  /\ pc = [p \in Procs |-> IF p = Watcher THEN "sleep" ELSE "idle"]
  /\ job = [p \in Procs |-> NoJob]
  /\ todo = [s \in Sites |-> Visited]
  /\ failed = [s \in Sites |-> None]
  /\ written = {}

-------------------------------------------------------------------------------
(* Moving a process on. *)

Goto(p, step) == pc' = [pc EXCEPT ![p] = step]

(* Mutant: the watcher does not remember the head a switch failed for. *)
ReturnForgettingFailure(p, ok) ==
  /\ Goto(p, IF p = Watcher THEN "visit" ELSE IF ok THEN "ok" ELSE "err")
  /\ ops' = IF ops = p THEN None ELSE ops
  /\ job' = [job EXCEPT ![p] = NoJob]
  /\ UNCHANGED watch

(* A handler answers its client; a switch the watcher ran returns to its   *)
(* loop, which remembers the head it failed for. OPS is released either    *)
(* way: its guard is dropped on every return of `switch`.                  *)
Return(p, ok) ==
  /\ Goto(p, IF p = Watcher THEN "visit" ELSE IF ok THEN "ok" ELSE "err")
  /\ failed' = IF p = Watcher
               THEN [failed EXCEPT ![job[p].site] = IF ok THEN None ELSE job[p].to]
               ELSE failed
  /\ ops' = IF ops = p THEN None ELSE ops
  /\ job' = [job EXCEPT ![p] = NoJob]
  /\ UNCHANGED todo

ContinueWith(p, step, locals) ==
  /\ Goto(p, step)
  /\ job' = [job EXCEPT ![p] = locals]
  /\ UNCHANGED <<ops, watch>>
Continue(p, step) == Goto(p, step) /\ UNCHANGED <<job, ops, watch>>

(* set_branch_db: the link changes in memory, then the config is saved. *)
Edited(s, link) == [links EXCEPT ![s] = link]
SetLink(s, link) ==
  /\ links' = Edited(s, link)
  /\ disk' = Edited(s, link)
SaveFails(s, link) ==
  /\ "savefail" \in Faults
  /\ links' = Edited(s, link)
  /\ UNCHANGED disk

(* set_branch_db at the end of a handler; the site may be gone by then. *)
Record(p, link) ==
  LET s == job[p].site IN
  IF links[s] = None
  THEN Return(p, FALSE) /\ UNCHANGED <<links, disk>>
  ELSE \/ SetLink(s, link) /\ Return(p, TRUE)
       \/ SaveFails(s, link) /\ Return(p, FALSE)

(* The databases a step works on. *)
BaseOf(p) == Base(job[p].port, job[p].db)
ParkFrom(p) == Parked(job[p].port, job[p].db, job[p].from)
ParkTo(p) == Parked(job[p].port, job[p].db, job[p].to)

(* What Postgres accepts: the source of a rename, a copy or a drop exists,  *)
(* its target does not, and nobody is connected to the database renamed.    *)
Accepted(p) ==
  CASE pc[p] = "base?"    -> Exists(BaseOf(p))
    [] pc[p] = "droppark" -> Exists(ParkFrom(p))
    [] pc[p] = "park"     -> /\ Exists(BaseOf(p))
                             /\ ~Exists(ParkFrom(p))
                             /\ BaseOf(p) \notin sessions
    [] pc[p] = "swap"     -> Exists(ParkTo(p)) /\ ~Exists(BaseOf(p))
    [] pc[p] = "clone"    -> Exists(ParkFrom(p)) /\ ~Exists(BaseOf(p))
    [] pc[p] = "create"   -> ~Exists(BaseOf(p))
    [] pc[p] = "dropdb"   -> Exists(ParkTo(p))
    [] OTHER              -> TRUE

Runs(p, step) == pc[p] = step /\ job[p].port \in up /\ Accepted(p)

(* A statement fails: the server is gone, or refuses. `?` ends the handler. *)
StatementFails(p) ==
  /\ pc[p] \in PsqlSteps
  /\ job[p].port \notin up \/ ~Accepted(p)
  /\ Return(p, FALSE)
  /\ UNCHANGED <<links, disk, head, pg>>

(* A statement that changes no database only chooses the next step. *)
Check(p, step, next) ==
  /\ Runs(p, step)
  /\ Continue(p, next)
  /\ UNCHANGED <<links, disk, head, pg>>

(* A statement that changes databases. *)
Rewrite(p, step, databases, next) ==
  /\ Runs(p, step)
  /\ dbs' = databases
  /\ Continue(p, next)
  /\ UNCHANGED <<links, disk, head, sessions, up, written>>

Renamed(old, new) == [dbs EXCEPT ![old] = None, ![new] = dbs[old]]
Dropped(k) == [dbs EXCEPT ![k] = None]

IsAttached(s) == links[s] # None /\ links[s].db # None

-------------------------------------------------------------------------------
(* switch *)

RequestSwitch(p) ==
  /\ "switch" \in Requests
  /\ pc[p] = "idle"
  /\ \E s \in Sites, to \in Branches \cup {None}, port \in Ports \cup {None} :
       ContinueWith(p, "lock", [NoJob EXCEPT !.site = s, !.to = to, !.override = port])
  /\ UNCHANGED <<links, disk, head, pg>>

(* Mutant: `switch` does not wait for the mutex. *)
SwitchLockWithoutOps(p) ==
  LET s == job[p].site IN
  /\ pc[p] = "lock"
  /\ IF IsAttached(s)
     THEN /\ ops' = p
          /\ Goto(p, "plan")
          /\ job' = [job EXCEPT ![p] = [@ EXCEPT !.db = links[s].db, !.from = links[s].branch,
                                                 !.kept = links[s].port]]
          /\ UNCHANGED watch
     ELSE Return(p, FALSE)
  /\ UNCHANGED <<links, disk, head, pg>>

(* OPS is taken, then the link is read under the registry lock. *)
SwitchLock(p) ==
  LET s == job[p].site IN
  /\ pc[p] = "lock"
  /\ ops = None
  /\ IF IsAttached(s)
     THEN /\ ops' = p
          /\ Goto(p, "plan")
          /\ job' = [job EXCEPT ![p] = [@ EXCEPT !.db = links[s].db, !.from = links[s].branch,
                                                 !.kept = links[s].port]]
          /\ UNCHANGED watch
     ELSE Return(p, FALSE)
  /\ UNCHANGED <<links, disk, head, pg>>

(* The branch is the one asked for, else the one checked out; the port the  *)
(* one asked for, else the link's. Unusable names are refused before any    *)
(* statement runs.                                                          *)
SwitchPlan(p) ==
  LET j == job[p]
      to == IF j.to # None THEN j.to ELSE head[j.site]
      port == IF j.override # None THEN j.override ELSE j.kept IN
  /\ pc[p] = "plan"
  /\ IF to = None \/ j.from = None THEN Return(p, FALSE)
     ELSE IF j.from = to THEN Return(p, TRUE)
     ELSE IF port \notin up \/ {j.from, to} \cap Unusable # {} THEN Return(p, FALSE)
     ELSE ContinueWith(p, "base?", [j EXCEPT !.to = to, !.port = port])
  /\ UNCHANGED <<links, disk, head, pg>>

SwitchChecksBase(p) == Check(p, "base?", "kick")

(* pg_terminate: every session on the base is closed. *)
SwitchKicks(p) ==
  /\ Runs(p, "kick")
  /\ sessions' = sessions \ {BaseOf(p)}
  /\ Continue(p, "parked?")
  /\ UNCHANGED <<links, disk, head, dbs, up, written>>

SwitchLooksForStale(p) ==
  Check(p, "parked?", IF Exists(ParkFrom(p)) THEN "droppark" ELSE "park")
(* Mutant: the base is dropped where it should be renamed. *)
SwitchParksByDropping(p) == Rewrite(p, "park", Dropped(BaseOf(p)), "back?")
(* Mutant: `to`'s parked database is copied where it should be renamed. *)
SwitchSwapsByCopy(p) ==
  Rewrite(p, "swap", [dbs EXCEPT ![BaseOf(p)] = dbs[ParkTo(p)]], "record")
(* Mutant: a new branch starts from an empty database. *)
SwitchClonesNothing(p) == Rewrite(p, "clone", [dbs EXCEPT ![BaseOf(p)] = {}], "record")

SwitchDropsStale(p) == Rewrite(p, "droppark", Dropped(ParkFrom(p)), "park")
SwitchParks(p) == Rewrite(p, "park", Renamed(BaseOf(p), ParkFrom(p)), "back?")
SwitchLooksForParked(p) ==
  Check(p, "back?", IF Exists(ParkTo(p)) THEN "swap" ELSE "clone")
SwitchSwaps(p) == Rewrite(p, "swap", Renamed(ParkTo(p), BaseOf(p)), "record")
SwitchClones(p) ==
  Rewrite(p, "clone", [dbs EXCEPT ![BaseOf(p)] = dbs[ParkFrom(p)]], "record")

(* The link takes the database and the port read at the start of the switch. *)
SwitchRecords(p) ==
  /\ pc[p] = "record"
  /\ Record(p, [db |-> job[p].db, branch |-> job[p].to, port |-> job[p].kept])
  /\ UNCHANGED <<head, pg>>

Switch(p) ==
  \/ SwitchLock(p) \/ SwitchPlan(p) \/ SwitchChecksBase(p) \/ SwitchKicks(p)
  \/ SwitchLooksForStale(p) \/ SwitchDropsStale(p) \/ SwitchParks(p)
  \/ SwitchLooksForParked(p) \/ SwitchSwaps(p) \/ SwitchClones(p)
  \/ SwitchRecords(p)

-------------------------------------------------------------------------------
(* attach, detach and drop-branch: none of them takes OPS *)

RequestAttach(p) ==
  /\ "attach" \in Requests
  /\ pc[p] = "idle"
  /\ \E s \in Sites, db \in Bases, port \in Ports :
       ContinueWith(p, "attach", [NoJob EXCEPT !.site = s, !.db = db, !.port = port])
  /\ UNCHANGED <<links, disk, head, pg>>

AttachPlans(p) ==
  LET s == job[p].site IN
  /\ pc[p] = "attach"
  /\ IF links[s] = None \/ head[s] = None \/ job[p].port \notin up
     THEN Return(p, FALSE)
     ELSE ContinueWith(p, "ensure?", [job[p] EXCEPT !.to = head[s]])
  /\ UNCHANGED <<links, disk, head, pg>>

AttachLooksForBase(p) ==
  Check(p, "ensure?", IF Exists(BaseOf(p)) THEN "setattach" ELSE "create")
AttachCreates(p) == Rewrite(p, "create", [dbs EXCEPT ![BaseOf(p)] = {}], "setattach")

AttachRecords(p) ==
  /\ pc[p] = "setattach"
  /\ Record(p, [db |-> job[p].db, branch |-> job[p].to, port |-> job[p].port])
  /\ UNCHANGED <<head, pg>>

Attach(p) == \/ AttachPlans(p) \/ AttachLooksForBase(p)
             \/ AttachCreates(p) \/ AttachRecords(p)

RequestDetach(p) ==
  /\ "detach" \in Requests
  /\ pc[p] = "idle"
  /\ \E s \in Sites : ContinueWith(p, "detach", [NoJob EXCEPT !.site = s])
  /\ UNCHANGED <<links, disk, head, pg>>

DetachReads(p) ==
  /\ pc[p] = "detach"
  /\ IF IsAttached(job[p].site) THEN Continue(p, "setdetach") ELSE Return(p, FALSE)
  /\ UNCHANGED <<links, disk, head, pg>>

DetachRecords(p) ==
  /\ pc[p] = "setdetach"
  /\ Record(p, [db |-> None, branch |-> None, port |-> DefaultPort])
  /\ UNCHANGED <<head, pg>>

RequestDropBranch(p) ==
  /\ "drop-branch" \in Requests
  /\ pc[p] = "idle"
  /\ \E s \in Sites, br \in Branches, port \in Ports \cup {None} :
       ContinueWith(p, "drop", [NoJob EXCEPT !.site = s, !.to = br, !.override = port])
  /\ UNCHANGED <<links, disk, head, pg>>

(* The live branch is refused by what the link says at this moment. *)
DropReads(p) ==
  LET j == job[p]
      link == links[j.site] IN
  /\ pc[p] = "drop"
  /\ IF ~IsAttached(j.site) \/ link.branch = j.to \/ j.to \in Unusable
     THEN Return(p, FALSE)
     ELSE ContinueWith(p, "drop?",
            [j EXCEPT !.db = link.db,
                      !.port = IF j.override # None THEN j.override ELSE link.port])
  /\ UNCHANGED <<links, disk, head, pg>>

DropLooks(p) ==
  /\ Runs(p, "drop?")
  /\ IF Exists(ParkTo(p)) THEN Continue(p, "dropdb") ELSE Return(p, TRUE)
  /\ UNCHANGED <<links, disk, head, pg>>

(* Mutant: drop-branch drops the base. *)
DropDropsBase(p) ==
  /\ Runs(p, "dropdb")
  /\ dbs' = Dropped(BaseOf(p))
  /\ Return(p, TRUE)
  /\ UNCHANGED <<links, disk, head, sessions, up, written>>

DropDrops(p) ==
  /\ Runs(p, "dropdb")
  /\ dbs' = Dropped(ParkTo(p))
  /\ Return(p, TRUE)
  /\ UNCHANGED <<links, disk, head, sessions, up, written>>

Detach(p) == DetachReads(p) \/ DetachRecords(p)
DropBranch(p) == DropReads(p) \/ DropLooks(p) \/ DropDrops(p)

-------------------------------------------------------------------------------
(* The other requests that write a link, each under one registry lock *)

(* link: a fresh link, every setting at its default. *)
LinkSite(p, s) ==
  /\ "link" \in Requests
  /\ pc[p] = "idle"
  /\ LET fresh == [db |-> None, branch |-> None, port |-> DefaultPort] IN
       \/ SetLink(s, fresh) /\ Return(p, TRUE)
       \/ SaveFails(s, fresh) /\ Return(p, FALSE)
  /\ UNCHANGED <<head, pg>>

UnlinkSite(p, s) ==
  /\ "unlink" \in Requests
  /\ pc[p] = "idle"
  /\ links[s] # None
  /\ \/ SetLink(s, None) /\ Return(p, TRUE)
     \/ SaveFails(s, None) /\ Return(p, FALSE)
  /\ UNCHANGED <<head, pg>>

(* apply_spec: the marker of the live branch stays when the same database   *)
(* stays attached; a new attachment tracks the branch checked out.          *)
ApplySpec(p, s, db, port) ==
  /\ "spec" \in Requests
  /\ pc[p] = "idle"
  /\ LET kept == links[s] # None /\ links[s].db = db /\ links[s].branch # None
         link == [db |-> db, port |-> port,
                  branch |-> IF db = None THEN None
                             ELSE IF kept THEN links[s].branch ELSE head[s]] IN
       \/ SetLink(s, link) /\ Return(p, TRUE)
       \/ SaveFails(s, link) /\ Return(p, FALSE)
  /\ UNCHANGED <<head, pg>>

Edit(p) == \E s \in Sites :
  \/ LinkSite(p, s)
  \/ UnlinkSite(p, s)
  \/ \E db \in Bases \cup {None}, port \in Ports : ApplySpec(p, s, db, port)

Request(p) == \/ RequestSwitch(p) \/ RequestAttach(p)
              \/ RequestDetach(p) \/ RequestDropBranch(p)

-------------------------------------------------------------------------------
(* The watcher *)

WatchPolls ==
  /\ pc[Watcher] = "sleep"
  /\ todo' = [s \in Sites |-> IF IsAttached(s) THEN links[s].branch ELSE Visited]
  /\ Goto(Watcher, "visit")
  /\ UNCHANGED <<links, disk, head, pg, ops, job, failed>>

(* The head is read now, the recorded branch was read when polling. *)
WatchVisits(s) ==
  /\ pc[Watcher] = "visit"
  /\ todo[s] # Visited
  /\ todo' = [todo EXCEPT ![s] = Visited]
  /\ failed' = IF head[s] # None /\ todo[s] = head[s]
               THEN [failed EXCEPT ![s] = None] ELSE failed
  /\ IF head[s] \in {None, todo[s], failed[s]}
     THEN UNCHANGED <<pc, job>>
     ELSE /\ Goto(Watcher, "lock")
          /\ job' = [job EXCEPT ![Watcher] = [NoJob EXCEPT !.site = s, !.to = head[s]]]
  /\ UNCHANGED <<links, disk, head, pg, ops>>

WatchSleeps ==
  /\ pc[Watcher] = "visit"
  /\ \A s \in Sites : todo[s] = Visited
  /\ Goto(Watcher, "sleep")
  /\ UNCHANGED <<links, disk, head, pg, ops, job, watch>>

-------------------------------------------------------------------------------
(* The world around the daemon *)

(* git checkout; None is a detached head. *)
Checkout(s, br) ==
  /\ head[s] # br
  /\ head' = [head EXCEPT ![s] = br]
  /\ UNCHANGED <<links, disk, pg, ops, pc, job, watch>>

IsBase(k) == k[3] = None

AppWrites(k, w) ==
  /\ IsBase(k) /\ Exists(k) /\ k[1] \in up
  /\ w \notin written
  /\ written' = written \cup {w}
  /\ dbs' = [dbs EXCEPT ![k] = @ \cup {w}]
  /\ UNCHANGED <<links, disk, head, sessions, up, ops, pc, job, watch>>

AppConnects(k) ==
  /\ "session" \in Faults
  /\ IsBase(k) /\ Exists(k) /\ k[1] \in up /\ k \notin sessions
  /\ sessions' = sessions \cup {k}
  /\ UNCHANGED <<links, disk, head, dbs, up, written, ops, pc, job, watch>>

AppLeaves(k) ==
  /\ k \in sessions
  /\ sessions' = sessions \ {k}
  /\ UNCHANGED <<links, disk, head, dbs, up, written, ops, pc, job, watch>>

PostgresStops(port) ==
  /\ "outage" \in Faults
  /\ port \in up
  /\ up' = up \ {port}
  /\ sessions' = {k \in sessions : k[1] # port}
  /\ UNCHANGED <<links, disk, head, dbs, written, ops, pc, job, watch>>

PostgresStarts(port) ==
  /\ port \notin up
  /\ up' = up \cup {port}
  /\ UNCHANGED <<links, disk, head, dbs, sessions, written, ops, pc, job, watch>>

(* The daemon ends and starts again: handlers are gone wherever they were,  *)
(* the config is read back, OPS and the watcher's memory start afresh.      *)
Restart ==
  /\ "crash" \in Faults
  /\ links' = disk
  /\ ops' = None
  /\ pc' = [p \in Procs |-> IF p = Watcher THEN "sleep"
                            ELSE IF pc[p] \in {"idle", "ok"} THEN pc[p] ELSE "err"]
  /\ job' = [p \in Procs |-> NoJob]
  /\ todo' = [s \in Sites |-> Visited]
  /\ failed' = [s \in Sites |-> None]
  /\ UNCHANGED <<disk, head, pg>>

World ==
  \/ \E s \in Sites, br \in Branches \cup {None} : Checkout(s, br)
  \/ \E k \in Keys : AppConnects(k) \/ AppLeaves(k) \/ \E w \in Writes : AppWrites(k, w)
  \/ \E port \in Ports : PostgresStops(port) \/ PostgresStarts(port)
  \/ Restart

Handle(p) == Switch(p) \/ Attach(p) \/ Detach(p) \/ DropBranch(p) \/ StatementFails(p)
Watch == WatchPolls \/ (\E s \in Sites : WatchVisits(s)) \/ WatchSleeps

Next == \/ \E p \in Clients : Request(p) \/ Edit(p)
        \/ \E p \in Procs : Handle(p)
        \/ Watch
        \/ World

Spec == Init /\ [][Next]_vars

(* tokio keeps polling every task it holds, and OPS is granted in order. *)
Fairness == WF_vars(Watch) /\ \A p \in Procs : WF_vars(Handle(p))
FairSpec == Spec /\ Fairness

-------------------------------------------------------------------------------
(* What must hold *)

(* OPS is held by exactly the process that is between taking it in `switch` *)
(* and answering: two switches never interleave their statements, and no    *)
(* return of `switch`, failed or not, leaves the mutex locked.              *)
OpsExact == \A p \in Procs : ops = p <=> pc[p] \in SwitchSteps

(* The data the application sees is never destroyed: a base database only   *)
(* disappears when the switch that holds OPS parks it, whole, under the     *)
(* branch that was recorded as live (pg_branch_drop: "Refuses the live base *)
(* by construction").                                                       *)
BasesParked ==
  \A k \in Keys : IsBase(k) /\ Exists(k) /\ dbs'[k] = None =>
    \E p \in Procs : /\ ops = p /\ pc[p] = "park" /\ BaseOf(p) = k
                     /\ dbs'[ParkFrom(p)] = dbs[k]
BaseParkedNotDropped == [][BasesParked]_vars

(* A committed write is in some database, parked or live, until the user    *)
(* drops the branch: switching, failing halfway included, loses nothing.    *)
NoWriteLost == \A w \in written : \E k \in Keys : Exists(k) /\ w \in dbs[k]

(* An attached site's live data can be found wherever a switch stopped: in  *)
(* the base, or parked under the branch the config says is live. A Postgres *)
(* that goes away, a daemon that ends and a save that fails included.       *)
LiveDataFindable == \A s \in Sites : IsAttached(s) =>
  \/ Exists(Base(links[s].port, links[s].db))
  \/ Exists(Parked(links[s].port, links[s].db, links[s].branch))

(* Between switches the live branch has no parked copy beside the base: its *)
(* data is in one place, so that parking it destroys nothing.               *)
OneCopyOfLive ==
  \A s \in Sites : IsAttached(s) /\ (\A p \in Procs : pc[p] = "record" => job[p].site # s) =>
    ~ /\ Exists(Base(links[s].port, links[s].db))
      /\ Exists(Parked(links[s].port, links[s].db, links[s].branch))

(* "Maintained by the daemon on every switch" (config.rs, db_branch): what  *)
(* the switches do to the databases is what BranchStore promises, with the  *)
(* moment `to`'s data takes the base's name as the moment it goes live.     *)
StoreLive == [s \in Sites |->
  IF \E p \in Procs : pc[p] = "record" /\ job[p].site = s
  THEN job[CHOOSE p \in Procs : pc[p] = "record" /\ job[p].site = s].to
  ELSE links[s].branch]
StoreData == [s \in Sites |-> [b \in Branches |->
  LET base == Base(links[s].port, links[s].db) IN
  IF b = StoreLive[s] /\ Exists(base) THEN dbs[base]
  ELSE dbs[Parked(links[s].port, links[s].db, b)]]]

Store == INSTANCE BranchStore WITH live <- StoreLive, data <- StoreData
KeepsEveryBranch == Store!Spec

(* "A parked copy of `from` can already exist after an interrupted switch;  *)
(* the live base is the fresher truth" (services.rs): the copy a switch     *)
(* drops holds nothing the base does not hold.                              *)
DroppedCopyIsStale ==
  \A p \in Procs : /\ pc[p] = "droppark"
                   /\ Exists(BaseOf(p)) /\ Exists(ParkFrom(p))
                   => dbs[ParkFrom(p)] \subseteq dbs[BaseOf(p)]

(* "Serializes every branch-db mutation (manual and automatic)" (OPS): while *)
(* it is held, databases appear and disappear by its holder's steps alone.   *)
OpsSerializes ==
  [][\A k \in Keys : ops # None /\ (dbs[k] = None) # (dbs'[k] = None) =>
       pc[ops] \in {"droppark", "park", "swap", "clone"} /\ pc'[ops] # pc[ops]]_vars

(* "Branch databases off for {site}" (detach): a switch records the branch  *)
(* it moved to, it never turns the feature back on.                         *)
DetachStays ==
  [][\A p \in Procs : pc[p] = "record" /\ pc'[p] # "record" =>
       LET s == job[p].site IN
       links[s] # None /\ links'[s] # None => links'[s].db = links[s].db]_vars

(* A checkout that stays is followed: the database tracks it in the end.    *)
WatcherFollows == \A s \in Sites, b \in Branches \ Unusable :
  head[s] = b ~> \/ head[s] # b
                 \/ ~IsAttached(s)
                 \/ IsAttached(s) /\ links[s].branch = b

(* Whatever happens around it, the watcher deals with a checkout that stays: *)
(* it ends up followed, or remembered as one whose switch failed.            *)
WatcherSettles == \A s \in Sites, b \in Branches :
  head[s] = b ~> \/ head[s] # b \/ failed[s] = b
                 \/ ~IsAttached(s)
                 \/ IsAttached(s) /\ links[s].branch = b
==============================================================================
