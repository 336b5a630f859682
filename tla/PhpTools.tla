-------------------------------- MODULE PhpTools --------------------------------
(***************************************************************************)
(* `dpl php`: the PHP lines of a machine, the extensions their conf.d asks *)
(* for, what `repair` and `fix` do about those that do not load, and the   *)
(* ini files dpl adds for its own php-fpm masters.                         *)
(*   crates/dpl-core/src/{php,xdebug,spx}.rs,                              *)
(*   crates/dpl/src/commands/{local,doctor}.rs, crates/dpld/src/fpm.rs     *)
(*                                                                         *)
(* Homebrew works behind dpl's back: its upgrades move libraries, and a    *)
(* PHP has no binary while one is under way.                               *)
(***************************************************************************)
EXTENDS Naturals, FiniteSets

CONSTANTS
  Versions, \* PHP lines
  PathPhp,  \* those a `php` on PATH, not Homebrew's, belongs to
  Exts,     \* extensions; "xdebug" and "spx" are the ones dpl loads itself
  Zend,     \* those loaded by `zend_extension`
  Linking,  \* those that link against libraries of other formulae
  Lines,    \* how a conf.d may ask for one: subset of {"live", "spaced"}
  Clis,
  Commands, \* subset of {"install", "upgrade", "uninstall", "ext-install", "ext-uninstall", "fix"}
  MaxBrews,
  None

VARIABLES
  keg,    \* per line, what Homebrew has: "none", "partial" (no binary), "ok"
  libs,   \* per line, the extensions whose library exists
  moved,  \* per line, those whose library links against one that has moved
  conf,   \* per line and extension, its ini: "none", "live", "spaced", "off" (commented
          \* out), "dead" (commented out by dpl)
  legacy, \* the lines with a zz-dpl-xdebug.ini of the old GUI in their conf.d
  loader, \* per line, the extensions dpl's own scan directories speak of
  pc,     \* per command: "idle", "brew", "fix"
  task,   \* [what, version, ext] of a command under way
  todo,   \* the ini files `fix` has still to read
  aside,  \* libraries brew will put back, or not
  brews   \* bound: brew runs the user started

cli == <<pc, task, todo>>
machine == <<keg, libs, moved, conf, aside>>
vars == <<machine, legacy, loader, cli, brews>>

-----------------------------------------------------------------------------
(* Detection.                                                              *)

(* Homebrew wins over a bare PATH entry. *)
resolve(v) ==
  CASE keg[v] = "ok" -> "homebrew"
    [] keg[v] # "ok" /\ v \in PathPhp -> "path"
    [] OTHER -> None

(* PHP reads either spelling. *)
Asked(v) == {e \in Exts : conf[v][e] \in {"live", "spaced"}}

(* A library that is not there, or one that does not find another. *)
startup_load_errors(v) == IF keg[v] = "ok" THEN Asked(v) \ (libs[v] \ moved[v]) ELSE {}

(* catalog: a keg without a binary, or one whose extensions do not load. *)
Broken(v) == keg[v] # "none" /\ (keg[v] # "ok" \/ startup_load_errors(v) # {})

(* A PHP of another source has a conf.d of its own, with nothing in it. *)
legacy_system_loader_path(v) == resolve(v) = "homebrew" /\ v \in legacy

(* check_php: the lines whose fix is `dpl php repair`. *)
check_php ==
  {v \in Versions : resolve(v) # None /\ (startup_load_errors(v) # {} \/ legacy_system_loader_path(v))}

-----------------------------------------------------------------------------
(* Commands.                                                               *)

Task(what, v, e) == [what |-> what, version |-> v, ext |-> e]
Busy(v) == \E c \in Clis : pc[c] = "brew" /\ task[c].version = v

Become(c, p, t, files) ==
  /\ pc' = [pc EXCEPT ![c] = p] /\ task' = [task EXCEPT ![c] = t] /\ todo' = [todo EXCEPT ![c] = files]

(* php_fix_extensions: a line's conf.d, as `php --ini` names it. *)
Files(v) == IF resolve(v) = "homebrew" THEN {e \in Exts : conf[v][e] # "none"} ELSE {}

(* brew takes the line apart: the binary is gone, and libraries with it. *)
Unlinked(v) ==
  /\ keg' = [keg EXCEPT ![v] = IF @ = "none" THEN @ ELSE "partial"]
  /\ \E back \in SUBSET libs[v] : libs' = [libs EXCEPT ![v] = @ \ back] /\ aside' = [aside EXCEPT ![v] = back]
  /\ UNCHANGED <<conf, moved>>

(* php_install, php_upgrade, php_uninstall. *)
Brew(c, what, v) ==
  /\ pc[c] = "idle" /\ brews < MaxBrews /\ what \in Commands \cap {"install", "upgrade", "uninstall"} /\ ~Busy(v)
  /\ (what = "install") = (keg[v] = "none")
  /\ brews' = brews + 1
  /\ Become(c, "brew", Task(what, v, None), {})
  /\ Unlinked(v)
  /\ UNCHANGED <<legacy, loader>>

(* php_repair: a line without a runnable binary is reinstalled first. *)
Repair(c, v) ==
  /\ pc[c] = "idle"
  /\ IF resolve(v) = None
     THEN ~Busy(v) /\ Unlinked(v) /\ Become(c, "brew", Task("repair", v, None), {})
     ELSE Become(c, "fix", Task("repair", v, None), Files(v)) /\ UNCHANGED machine
  /\ UNCHANGED <<legacy, loader, brews>>

php_fix(c, v) ==
  /\ pc[c] = "idle" /\ "fix" \in Commands /\ resolve(v) # None
  /\ Become(c, "fix", Task("fix", v, None), Files(v))
  /\ UNCHANGED <<machine, legacy, loader, brews>>

(* brew ends: it may have failed, or moved libraries for good. *)
Linked(c) ==
  LET v == task[c].version
  IN /\ pc[c] = "brew"
     /\ \E back \in SUBSET aside[v] : /\ libs' = [libs EXCEPT ![v] = @ \cup back]
                                     /\ moved' = [moved EXCEPT ![v] = @ \ back]
     /\ aside' = [aside EXCEPT ![v] = {}]
     /\ \/ /\ keg' = [keg EXCEPT ![v] = IF task[c].what = "uninstall" THEN "none" ELSE "ok"]
           /\ IF task[c].what = "repair"
              THEN Become(c, "fix", task[c], {e \in Exts : conf[v][e] # "none"})
              ELSE Become(c, "idle", None, {})
        \/ Become(c, "idle", None, {}) /\ UNCHANGED keg
     /\ UNCHANGED <<conf, legacy, loader, brews>>

(* Mutant of FixFile: only `extension=` lines are read. *)
FixFile_Plain(c, e) ==
  LET v == task[c].version
  IN /\ pc[c] = "fix" /\ e \in todo[c]
     /\ todo' = [todo EXCEPT ![c] = @ \ {e}]
     /\ conf' = [conf EXCEPT ![v][e] = IF @ = "live" /\ e \notin libs[v] \cup Zend THEN "dead" ELSE @]
     /\ UNCHANGED <<keg, libs, moved, aside, legacy, loader, pc, task, brews>>

(* php_fix_extensions, one file: a directive whose library is missing is     *)
(* commented out; one that is there is not tried. Only `extension=` with      *)
(* nothing before the sign is read.                                          *)
FixFile(c, e) ==
  LET v == task[c].version
  IN /\ pc[c] = "fix" /\ e \in todo[c]
     /\ todo' = [todo EXCEPT ![c] = @ \ {e}]
     /\ conf' = [conf EXCEPT ![v][e] = IF @ = "live" /\ e \notin libs[v] THEN "dead" ELSE @]
     /\ UNCHANGED <<keg, libs, moved, aside, legacy, loader, pc, task, brews>>

(* The repair also removes what the old GUI left. *)
FixEnd(c) ==
  LET v == task[c].version
  IN /\ pc[c] = "fix" /\ todo[c] = {}
     /\ legacy' = IF task[c].what = "repair" /\ legacy_system_loader_path(v) THEN legacy \ {v} ELSE legacy
     /\ Become(c, "idle", None, {})
     /\ UNCHANGED <<machine, loader, brews>>

(* php_ext_install; an ini that is there already may stay as it is. *)
ExtInstall(v, e) ==
  /\ "ext-install" \in Commands /\ brews < MaxBrews /\ keg[v] = "ok" /\ ~Busy(v)
  /\ brews' = brews + 1
  /\ libs' = [libs EXCEPT ![v] = @ \cup {e}] /\ moved' = [moved EXCEPT ![v] = @ \ {e}]
  /\ \E line \in (IF conf[v][e] = "none" THEN {} ELSE {conf[v][e]}) \cup Lines : conf' = [conf EXCEPT ![v][e] = line]
  /\ UNCHANGED <<keg, aside, legacy, loader, cli>>

(* php_ext_uninstall; the ini may survive its library. *)
ExtUninstall(v, e) ==
  /\ "ext-uninstall" \in Commands /\ brews < MaxBrews /\ e \in libs[v] /\ ~Busy(v)
  /\ brews' = brews + 1
  /\ libs' = [libs EXCEPT ![v] = @ \ {e}] /\ moved' = [moved EXCEPT ![v] = @ \ {e}]
  /\ \E line \in {conf[v][e], "none"} : conf' = [conf EXCEPT ![v][e] = line]
  /\ UNCHANGED <<keg, aside, legacy, loader, cli>>

(* An upgrade of another formula moves what an extension links against. *)
LibraryMoves(v, e) ==
  /\ brews < MaxBrews /\ e \in (Linking \cap libs[v]) \ moved[v]
  /\ brews' = brews + 1
  /\ moved' = [moved EXCEPT ![v] = @ \cup {e}]
  /\ UNCHANGED <<keg, libs, conf, aside, legacy, loader, cli>>

-----------------------------------------------------------------------------
(* The daemon's php-fpm masters.                                           *)

Own == Exts \cap {"xdebug", "spx"}

(* xdebug::so_path: named by an ini, live or not, or in its Homebrew keg;    *)
(* either way the file has to exist. spx::so_path takes an ini at its word.  *)
SoPath(v, e) ==
  CASE e = "xdebug" -> e \in libs[v]
    [] OTHER -> e \in libs[v] \/ conf[v][e] \notin {"none", "dead"}

write_loader(v, es) == loader' = [loader EXCEPT ![v] = (@ \ es) \cup {e \in es : SoPath(v, e)}]

(* A master for a site that debugs, profiles, or both. *)
StartMaster(v, es) ==
  /\ resolve(v) = "homebrew" /\ es # {}
  /\ write_loader(v, es)
  /\ legacy' = legacy \ {v}
  /\ UNCHANGED <<machine, cli, brews>>

(* The libraries it does not find: it reads the system conf.d, then dpl's    *)
(* own. SPX is only configured there.                                        *)
Dangling(v, es) == (Asked(v) \cup (es \cap {"xdebug"} \cap loader[v])) \ libs[v]

-----------------------------------------------------------------------------
Init ==
  /\ keg \in [Versions -> {"none", "ok"}]
  /\ conf \in [Versions -> [Exts -> {"none", "off"} \cup Lines]]
  /\ libs \in {l \in [Versions -> SUBSET Exts] :
                 \A v \in Versions, e \in Exts : e \in l[v] <=> keg[v] = "ok" /\ conf[v][e] # "none"}
  /\ legacy \in SUBSET Versions
  /\ loader = [v \in Versions |-> {}] /\ aside = [v \in Versions |-> {}] /\ brews = 0
  /\ moved = [v \in Versions |-> {}]
  /\ pc = [c \in Clis |-> "idle"] /\ task = [c \in Clis |-> None] /\ todo = [c \in Clis |-> {}]

Next ==
  \/ \E c \in Clis, v \in Versions : \/ \E what \in Commands : Brew(c, what, v)
                                     \/ Repair(c, v) \/ php_fix(c, v)
  \/ \E c \in Clis : Linked(c) \/ FixEnd(c) \/ \E e \in Exts : FixFile(c, e)
  \/ \E v \in Versions : \/ \E e \in Exts : ExtInstall(v, e) \/ ExtUninstall(v, e) \/ LibraryMoves(v, e)
                         \/ \E es \in SUBSET Own : StartMaster(v, es)

Spec == Init /\ [][Next]_vars

GoesOn(c) == Linked(c) \/ FixEnd(c) \/ \E e \in Exts : FixFile(c, e)
RepairAsked(v) == v \in check_php /\ \E c \in Clis : Repair(c, v)

(* Commands end, and the user runs the repair the doctor asks for. *)
Fairness ==
  /\ \A c \in Clis : WF_vars(GoesOn(c))
  /\ \A v \in Versions : SF_vars(RepairAsked(v))

-----------------------------------------------------------------------------
(* Properties.                                                             *)

Job == [what : Commands \cup {"repair", "fix"}, version : Versions, ext : {None}]

(* Every variable has its type, and a command under way has its task.         *)
TypeOK ==
  /\ keg \in [Versions -> {"none", "partial", "ok"}] /\ legacy \subseteq Versions
  /\ libs \in [Versions -> SUBSET Exts] /\ aside \in [Versions -> SUBSET Exts]
  /\ moved \in [Versions -> SUBSET Linking]
  /\ conf \in [Versions -> [Exts -> {"none", "live", "spaced", "off", "dead"}]]
  /\ loader \in [Versions -> SUBSET Own] /\ brews \in 0..MaxBrews
  /\ pc \in [Clis -> {"idle", "brew", "fix"}] /\ todo \in [Clis -> SUBSET Exts]
  /\ task \in [Clis -> {None} \cup Job] /\ \A c \in Clis : pc[c] # "idle" => task[c] \in Job

(* What a repair can do for a line: nothing is left of the old GUI's, and     *)
(* each extension that does not load has its library.                         *)
Repaired(v) == ~legacy_system_loader_path(v) /\ startup_load_errors(v) \subseteq libs[v]

(* A user who runs the repair that the doctor asks for, whatever Homebrew     *)
(* and the other commands do meanwhile, comes to a report without one, except *)
(* for extensions whose library is there and does not load.                   *)
RepairsConverge == <>[](\A v \in check_php : Repaired(v))

(* "An uninstalled Xdebug can't keep a dangling zend_extension line alive":    *)
(* a master that starts to debug adds no directive without a library.         *)
Loading ==
  \A v \in Versions, es \in SUBSET Own : StartMaster(v, es) => Dangling(v, es)' \subseteq Asked(v)
LoaderLoads == [][Loading]_vars

(* "Any conf.d extension that points at a missing `.so` is commented out": when *)
(* a fix ends, what still does not load has its library. It holds while        *)
(* Homebrew leaves the line alone and the directive is one the fix reads.      *)
Cleaning ==
  \A c \in Clis, v \in Versions :
    FixEnd(c) /\ task[c].version = v => (startup_load_errors(v) \subseteq libs[v])'
MissingCleaned == [][Cleaning]_vars

-----------------------------------------------------------------------------
(* Refuted; see the README.                                                *)

(* "A structurally-missing keg (no binary) is reinstalled". *)
RepairMends == [][\A c \in Clis, v \in Versions : FixEnd(c) /\ task[c] = Task("repair", v, None) => ~Broken(v)']_vars

(* "... so the version starts cleanly".                                        *)
Starting ==
  \A c \in Clis, v \in Versions : FixEnd(c) /\ task[c].version = v => startup_load_errors(v)' = {}
StartsCleanly == [][Starting]_vars

(* "A command that resolves the check" (checks.rs): following the doctor ends. *)
RepairResolves == <>[](check_php = {})

(* "Comment out any directive whose target `.so` is missing": no other. Holds   *)
(* likewise.                                                                   *)
Sparing == \A v \in Versions, e \in Exts : conf[v][e] = "live" /\ conf'[v][e] = "dead" => ~Busy(v)
FixSpares == [][Sparing]_vars

(* "No SPX for this PHP means nothing to configure". *)
ProfiledLoads == \A v \in Versions : "spx" \in loader[v] => "spx" \in Asked(v)
================================================================================
