-------------------------------- MODULE NodeTools --------------------------------
(***************************************************************************)
(* `dpl node`: which Node version and which package manager a project gets,*)
(* and the fan-out of one job over every site.                             *)
(*   crates/dpl-core/src/node.rs, crates/dpl/src/commands/node.rs          *)
(*                                                                         *)
(* A fan-out decides on the package managers first and then works through  *)
(* the sites; meanwhile git may switch a project, and another fan-out run. *)
(***************************************************************************)
EXTENDS Naturals, Sequences

CONSTANTS
  Sites,
  Projects,  \* what a project directory may hold: a set of Project
  Clis,      \* fan-outs
  Versions,  \* of Node
  Ranges,    \* what `engines.node` may say
  FirstOf,   \* the first number in a range, if any: [Ranges -> Versions \cup {None}]
  Managers,  \* subset of {"fnm", "nvm", None}
  Forced,    \* subset of Agents \cup {None}: `--agent`
  PathNode,  \* the Node on PATH
  None

Agents == {"npm", "pnpm", "yarn", "bun"}
Jobs == {"install", "frozen", "script"}

(* `declared` is the packageManager field, with "classic" or "berry" where it *)
(* names a major version of yarn; `locks` the managers with a lockfile here.  *)
Project == [json : BOOLEAN, declared : Agents \cup {None}, flavour : {"classic", "berry", None},
            locks : SUBSET Agents, yarnrc : BOOLEAN, metadata : BOOLEAN,
            nvmrc : Versions \cup {None}, nodeVersion : Versions \cup {None}, engines : Ranges \cup {None}]

VARIABLES
  manager, \* the Node manager of this machine
  files,   \* per site, its project
  pc,      \* per fan-out: "idle", "running"
  job, fast, plan, failed,
  seen     \* not in the code: the projects when the plan was made

fan == <<pc, job, fast, plan, failed, seen>>
vars == <<manager, files, fan>>

-----------------------------------------------------------------------------
(* Node versions.                                                          *)

Pin(version, source) == [version |-> version, source |-> source]

read_pin(f) ==
  CASE f.nvmrc # None -> Pin(f.nvmrc, ".nvmrc")
    [] f.nvmrc = None /\ f.nodeVersion # None -> Pin(f.nodeVersion, ".node-version")
    [] f.nvmrc = None /\ f.nodeVersion = None /\ f.engines # None -> Pin(f.engines, "package.json")
    [] OTHER -> None

(* The version a job asks the manager for, "file" to have it read its own.  *)
pinned_invocation(pin) ==
  CASE manager = None \/ pin = None -> PathNode
    [] manager # None /\ pin # None /\ pin.source = "package.json" ->
         IF FirstOf[pin.version] = None THEN PathNode ELSE FirstOf[pin.version]
    [] OTHER -> "file"

(* What the managers read: nvm only the one. *)
OwnFile(f) ==
  CASE f.nvmrc # None -> f.nvmrc
    [] f.nvmrc = None /\ manager = "fnm" -> f.nodeVersion
    [] OTHER -> None

NodeOf(f) == IF pinned_invocation(read_pin(f)) = "file" THEN OwnFile(f) ELSE pinned_invocation(read_pin(f))

-----------------------------------------------------------------------------
(* Package managers.                                                       *)

(* Mutant: one of the two lockfiles of bun is not known. *)
LOCKFILES_NoBun == <<"pnpm", "yarn", "npm">>

LOCKFILES == <<"pnpm", "bun", "yarn", "npm">>

FromLock(f) ==
  LET found == {i \in DOMAIN LOCKFILES : LOCKFILES[i] \in f.locks}
  IN IF found = {} THEN "npm" ELSE LOCKFILES[CHOOSE i \in found : \A j \in found : i <= j]

yarn_is_berry(f) == IF f.flavour # None THEN f.flavour = "berry" ELSE f.yarnrc \/ f.metadata

detect_agent(f) ==
  LET agent == IF f.declared # None THEN f.declared ELSE FromLock(f)
  IN [agent |-> agent, berry |-> agent = "yarn" /\ yarn_is_berry(f)]

(* The yarn flavour is asked of the detection, forced or not. *)
Choice(f, agent) == IF agent = None THEN detect_agent(f) ELSE [agent |-> agent, berry |-> detect_agent(f).berry]

install_args(choice, what) ==
  CASE what # "frozen" -> what
    [] what = "frozen" /\ choice.agent = "npm" -> "ci"
    [] what = "frozen" /\ choice.agent = "yarn" /\ choice.berry -> "--immutable"
    [] OTHER -> "--frozen-lockfile"

(* The managers themselves: a flag of the other yarn is refused, a frozen    *)
(* install needs the lockfile, a plain one writes it.                        *)
Understood(f, agent, args) ==
  /\ agent = "yarn" => (yarn_is_berry(f) /\ args # "--frozen-lockfile") \/ (~yarn_is_berry(f) /\ args # "--immutable")
  /\ args \in {"ci", "--frozen-lockfile", "--immutable"} => agent \in f.locks
Left(f, agent, args) == IF args = "install" THEN [f EXCEPT !.locks = @ \cup {agent}] ELSE f

-----------------------------------------------------------------------------
(* Commands.                                                               *)

npm_targets == {s \in Sites : files[s].json}

(* fan_out: the sites with a package.json that the filter lets through, each *)
(* with its package manager.                                                 *)
FanOut(c, what, agent, failFast) ==
  /\ pc[c] = "idle"
  /\ \E targets \in SUBSET npm_targets \ {{}} :
       plan' = [plan EXCEPT ![c] = [s \in targets |-> Choice(files[s], agent)]]
  /\ pc' = [pc EXCEPT ![c] = "running"] /\ job' = [job EXCEPT ![c] = [what |-> what, agent |-> agent]]
  /\ fast' = [fast EXCEPT ![c] = failFast] /\ failed' = [failed EXCEPT ![c] = {}]
  /\ seen' = [seen EXCEPT ![c] = files]
  /\ UNCHANGED <<manager, files>>

Without(c, s) == [t \in DOMAIN plan[c] \ {s} |-> plan[c][t]]

(* One site of the plan, in the order of the list: any here. *)
RunIn(c, s) ==
  LET agent == plan[c][s].agent
      args == install_args(plan[c][s], job[c].what)
      works == Understood(files[s], agent, args)
  IN /\ pc[c] = "running" /\ s \in DOMAIN plan[c]
     /\ \E ok \in {works, FALSE} :
          /\ files' = [files EXCEPT ![s] = IF ok THEN Left(@, agent, args) ELSE @]
          /\ failed' = [failed EXCEPT ![c] = IF ok THEN @ ELSE @ \cup {s}]
          /\ plan' = [plan EXCEPT ![c] = IF ~ok /\ fast[c] THEN <<>> ELSE Without(c, s)]
     /\ UNCHANGED <<manager, pc, job, fast, seen>>

End(c) ==
  /\ pc[c] = "running" /\ DOMAIN plan[c] = {}
  /\ pc' = [pc EXCEPT ![c] = "idle"] /\ plan' = [plan EXCEPT ![c] = <<>>]
  /\ job' = [job EXCEPT ![c] = None] /\ fast' = [fast EXCEPT ![c] = FALSE]
  /\ failed' = [failed EXCEPT ![c] = {}] /\ seen' = [seen EXCEPT ![c] = None]
  /\ UNCHANGED <<manager, files>>

write_nvmrc(s, v) == files' = [files EXCEPT ![s].nvmrc = v]

Use(s, v) == write_nvmrc(s, v) /\ UNCHANGED <<manager, fan>>

Detect(s) ==
  /\ read_pin(files[s]) # None /\ read_pin(files[s]).source = "package.json"
  /\ FirstOf[files[s].engines] # None
  /\ write_nvmrc(s, FirstOf[files[s].engines])
  /\ UNCHANGED <<manager, fan>>

(* git switches the project, or the user edits it. *)
Switch(s) ==
  /\ \E f \in Projects : files' = [files EXCEPT ![s] = f]
  /\ UNCHANGED <<manager, fan>>

Init ==
  /\ manager \in Managers /\ files \in [Sites -> Projects]
  /\ pc = [c \in Clis |-> "idle"] /\ job = [c \in Clis |-> None] /\ fast = [c \in Clis |-> FALSE]
  /\ plan = [c \in Clis |-> <<>>] /\ failed = [c \in Clis |-> {}] /\ seen = [c \in Clis |-> None]

Next ==
  \/ \E c \in Clis : \/ \E what \in Jobs, agent \in Forced, failFast \in BOOLEAN : FanOut(c, what, agent, failFast)
                     \/ \E s \in Sites : RunIn(c, s)
                     \/ End(c)
  \/ \E s \in Sites : Detect(s) \/ Switch(s) \/ \E v \in Versions : Use(s, v)

Spec == Init /\ [][Next]_vars

-----------------------------------------------------------------------------
(* Properties.                                                             *)

(* Pinning what package.json asks for changes no job: it ran under that      *)
(* version before.                                                           *)
SameNode(s) == Detect(s) => NodeOf(files'[s]) = NodeOf(files[s])

(* `npm install in a pnpm repo is a mess to undo`: an install whose manager   *)
(* nobody forced or declared brings no second lockfile to a project that is   *)
(* as it was when the plan was made.                                          *)
NoSecondLock(c, s) ==
  RunIn(c, s) /\ job[c].agent = None /\ files[s] = seen[c][s] /\ files[s].declared = None /\ files[s].locks # {} =>
    files'[s].locks = files[s].locks

Matching == \A s \in Sites : SameNode(s) /\ \A c \in Clis : NoSecondLock(c, s)
ToolsMatch == [][Matching]_vars

-----------------------------------------------------------------------------
(* Refuted; see the README.                                                *)

(* The same, whatever happens to the project between plan and run. *)
NoSecondLockEver ==
  [][\A c \in Clis, s \in Sites :
       RunIn(c, s) /\ job[c].agent = None /\ files[s].declared = None /\ files[s].locks # {} =>
         files'[s].locks = files[s].locks]_vars

(* "A forced agent still needs the repo's yarn flavour". *)
ForcedFlavour ==
  [][\A c \in Clis, s \in Sites :
       FanOut(c, "frozen", "yarn", FALSE) /\ s \in DOMAIN plan'[c] /\ "yarn" \in files[s].locks =>
         Understood(files[s], "yarn", install_args(plan'[c][s], "frozen"))]_vars

(* ".nvmrc and .node-version win (they're the manager's own pins)". *)
PinHonoured == \A s \in Sites : manager # None /\ read_pin(files[s]) # None => NodeOf(files[s]) # None
================================================================================
