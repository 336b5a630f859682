----------------------------- MODULE FpmPoolsProofs -----------------------------
(***************************************************************************)
(* What holds of the php-fpm pools for every set of keys, sites and ports  *)
(* and every length of the ladder, whatever fails: no pool is in both      *)
(* maps and every master has the current settings; and, if no port is      *)
(* handed out again before the cache was pruned, the numbers of a port are *)
(* its own and a pool that was given up has died often enough.             *)
(***************************************************************************)
EXTENDS FpmPools, TLAPS

(* What needs nothing of the ports. *)
Base == TypeOK /\ OnePlace /\ SettingsCurrent

(* Two masters never have one port. *)
PortsDistinct ==
  \A j, k \in Keys : masters[j] # None /\ masters[k] # None /\ masters[j].port = masters[k].port => j = k

(* A port the tick or the cache knows is in use, or still resting. *)
PortsKnown ==
  /\ cache \subseteq PortsOf(masters) \cup resting
  /\ \A p \in Ports : scraped[p] # "no" => p \in PortsOf(masters) \cup resting

QuietAsleep == pc = "sleep" => \A p \in Ports : scraped[p] = "no"

(* What answered on the port of a master is that master. *)
AnsweredOwn ==
  \A k \in Keys : masters[k] # None /\ scraped[masters[k].port] = "answered" => masters[k].answered

(* The failures of a master once this tick's scrape is applied. *)
Settling(m) == IF scraped[m.port] = "answered" THEN 0 ELSE m.failures

(* Every failure counted is a death since the pool last answered. *)
Earned ==
  /\ \A k \in Keys : failed[k] # None => crashes[k] >= failed[k].n
  /\ \A k \in Keys : masters[k] # None =>
       crashes[k] >= IF masters[k].alive THEN Settling(masters[k]) ELSE Settling(masters[k]) + 1

PortInv == /\ Base /\ PortsDistinct /\ PortsKnown
           /\ QuietAsleep /\ AnsweredOwn /\ CachedIsOwn /\ Earned

(* What a reconcile, a tick or a new daemon does to the masters: some are    *)
(* started, after the failures they had, and the others stay or go.          *)
Turn(started, at) ==
  /\ started \subseteq Keys /\ at \in [started -> Ports]
  /\ masters' = [k \in Keys |-> masters'[k]]
  /\ \A k \in started : MayStart(failed, k) /\ masters'[k] = Started(failed, k, at[k], ide')
  /\ \A k \in Keys \ started : \/ masters'[k] = None
                               \/ masters'[k] = masters[k] /\ crashes'[k] = crashes[k] /\ ide' = ide
  /\ failed' = Forget(failed, started)
  /\ ide' \in Ides

(* What it does besides. *)
Deaths ==
  /\ crashes' \in [Keys -> 0 .. (MaxFailures + 1)]
  /\ \A k \in Keys : crashes'[k] = crashes[k] \/ (masters[k] # None /\ crashes'[k] = 0)
  /\ resting' = (resting \cup PortsOf(masters)) \ PortsOf(masters')

(* A port that is handed out is nobody's, and nobody's two times. *)
Fresh(started, at) ==
  /\ \A j, k \in started : at[j] = at[k] => j = k
  /\ ~Recycle => \A k \in started : at[k] \notin PortsOf(masters) \cup resting

-------------------------------------------------------------------------------
(* Operators *)

(* A master that is started is one, with the failures of its pool. *)
LEMMA StartedIs ==
  ASSUME TypeOK, NEW k \in Keys, MayStart(failed, k), NEW port \in Ports, NEW settings \in Ides
  PROVE  LET m == Started(failed, k, port, settings) IN
         /\ m \in Master /\ m # None /\ m.port = port /\ m.ide = settings
         /\ m.alive /\ ~m.answered
         /\ m.failures = IF failed[k] = None THEN 0 ELSE failed[k].n
<1> DEFINE n == IF failed[k] = None THEN 0 ELSE failed[k].n
<1>1. MaxFailures \in Nat \ {0} /\ None \notin Master BY FpmAssumption
<1>2. n \in 0 .. (MaxFailures - 1) BY <1>1 DEF TypeOK, MayStart, Failure
<1> HIDE DEF n
<1>3. Started(failed, k, port, settings) =
        [port |-> port, alive |-> TRUE, answered |-> FALSE, seen |-> "never",
         failures |-> n, ide |-> settings]
  BY DEF Started, n
<1>4. Started(failed, k, port, settings) \in Master BY <1>2, <1>3 DEF Master
<1>5. /\ Started(failed, k, port, settings).port = port
      /\ Started(failed, k, port, settings).ide = settings
      /\ Started(failed, k, port, settings).alive = TRUE
      /\ Started(failed, k, port, settings).answered = FALSE
      /\ Started(failed, k, port, settings).failures = n
  BY <1>3
<1> QED BY <1>1, <1>4, <1>5 DEF n

(* The pools that start were down and allowed to; failing spawns start fewer. *)
LEMMA StartsAre ==
  ASSUME NEW ms, NEW fs, NEW asked, NEW started \in Starts(ms, fs, asked)
  PROVE  \A k \in started : k \in asked /\ ~Alive(ms, k) /\ MayStart(fs, k)
BY DEF Starts

LEMMA FreeAre ==
  ASSUME NEW ms, NEW started, NEW recent, NEW at \in FreePorts(ms, started, recent)
  PROVE  /\ at \in [started -> Ports]
         /\ \A j, k \in started : at[j] = at[k] => j = k
         /\ ~Recycle => \A k \in started : at[k] \notin PortsOf(masters) \cup recent
BY DEF FreePorts, Injections

(* Whatever the reconcile is for, it turns the masters. *)
LEMMA EnsureTurns ==
  ASSUME TypeOK, NEW ms \in {masters, NoMasters}, NEW asked, NEW wanted, NEW settings \in Ides,
         asked \subseteq Keys, asked \subseteq wanted,
         NEW started \in Starts(ms, failed, asked), NEW at \in FreePorts(ms, started, resting),
         NEW stopped, \A k \in stopped : k \in Keys /\ (ms[k] = None \/ k \notin wanted),
         settings # ide => ms = NoMasters, ide' = settings,
         \A k \in Keys : ms[k] = None => k \in stopped \/ masters[k] = None,
         Replace(Keep(Ensure(ms, failed, asked, started, at, settings), wanted), stopped),
         failed' = Forget(failed, started)
  PROVE  Turn(started, at) /\ Deaths /\ Fresh(started, at)
<1>1. \A k \in started : k \in asked /\ MayStart(failed, k) BY StartsAre
<1>2. /\ at \in [started -> Ports] /\ \A j, k \in started : at[j] = at[k] => j = k
      /\ ~Recycle => \A k \in started : at[k] \notin PortsOf(masters) \cup resting
  BY FreeAre
<1> DEFINE next == Keep(Ensure(ms, failed, asked, started, at, settings), wanted)
<1>3. /\ masters' = next
      /\ crashes' = [k \in Keys |-> IF k \in stopped /\ masters[k] # None THEN 0 ELSE crashes[k]]
      /\ resting' = (resting \cup PortsOf(masters)) \ PortsOf(next)
  BY DEF Replace
<1>4. /\ next = [k \in Keys |-> next[k]]
      /\ \A k \in started : next[k] = Started(failed, k, at[k], settings)
      /\ \A k \in Keys \ started : next[k] = None \/ (next[k] = ms[k] /\ k \in wanted)
  BY <1>1 DEF Keep, Ensure
<1> HIDE DEF next
<1>5. ASSUME NEW k \in Keys \ started, masters'[k] # None
      PROVE  masters'[k] = masters[k] /\ crashes'[k] = crashes[k] /\ ide' = ide
  <2>1. next[k] # None /\ next[k] = ms[k] /\ k \in wanted BY <1>3, <1>4, <1>5
  <2>2. ms[k] # None BY <2>1
  <2>3. ms = masters BY <2>2 DEF NoMasters
  <2>4. k \notin stopped BY <2>1, <2>2
  <2>5. settings = ide
    <3>1. CASE settings # ide
      <4>1. ms = NoMasters BY <3>1
      <4> QED BY <2>2, <4>1 DEF NoMasters
    <3> QED BY <3>1
  <2>6. crashes'[k] = crashes[k] BY <1>3, <2>4
  <2> QED BY <1>3, <2>1, <2>3, <2>5, <2>6
<1>6. started \subseteq Keys BY <1>1
<1>7. Turn(started, at) BY <1>1, <1>2, <1>3, <1>4, <1>5, <1>6 DEF Turn
<1>8. MaxFailures \in Nat BY FpmAssumption
<1>9. crashes \in [Keys -> 0 .. (MaxFailures + 1)] BY DEF TypeOK
<1>10. crashes' \in [Keys -> 0 .. (MaxFailures + 1)] BY <1>3, <1>8, <1>9
<1>11. \A k \in Keys : crashes'[k] = crashes[k] \/ (masters[k] # None /\ crashes'[k] = 0) BY <1>3
<1>12. Deaths BY <1>3, <1>10, <1>11 DEF Deaths
<1> QED BY <1>2, <1>7, <1>12 DEF Fresh

LEMMA AskedAre ==
  ASSUME NEW sites \in [Sites -> Keys \cup {None}] PROVE Asked(sites) \subseteq Keys
BY DEF Asked

(* Some masters turn, with fresh ports. *)
Turns == \E started, at : Turn(started, at) /\ Deaths /\ Fresh(started, at)

LEMMA ReconcileTurns ==
  ASSUME TypeOK, NEW conf \in Config, NEW ms \in {masters, NoMasters}, Reconcile(conf, ms)
  PROVE  Turns /\ routes' \in [Sites -> Keys \cup {None}] /\ ide' = conf.ide
<1> DEFINE asked == Asked(conf.sites)
           kept == IF conf.ide # ide THEN NoMasters ELSE ms
           stopped == {k \in Keys : kept[k] = None \/ k \notin asked}
<1>1. PICK started \in Starts(kept, failed, asked) : \E at \in FreePorts(kept, started, resting) :
        /\ Replace(Keep(Ensure(kept, failed, asked, started, at, conf.ide), asked), stopped)
        /\ failed' = Forget(failed, started)
        /\ ide' = conf.ide
        /\ routes' = conf.sites
  BY DEF Reconcile
<1>2. PICK at \in FreePorts(kept, started, resting) :
        /\ Replace(Keep(Ensure(kept, failed, asked, started, at, conf.ide), asked), stopped)
        /\ failed' = Forget(failed, started)
        /\ ide' = conf.ide
        /\ routes' = conf.sites
  BY <1>1
<1>3. conf.sites \in [Sites -> Keys \cup {None}] /\ conf.ide \in Ides BY DEF Config
<1>4. asked \subseteq Keys BY <1>3, AskedAre
<1>5. kept \in {masters, NoMasters} /\ (conf.ide # ide => kept = NoMasters) OBVIOUS
<1>6. /\ \A k \in stopped : k \in Keys /\ (kept[k] = None \/ k \notin asked)
      /\ \A k \in Keys : kept[k] = None => k \in stopped \/ masters[k] = None
  OBVIOUS
<1> HIDE DEF asked, kept, stopped
<1>7. Turn(started, at) /\ Deaths /\ Fresh(started, at)
  BY <1>2, <1>3, <1>4, <1>5, <1>6, EnsureTurns
<1> QED BY <1>2, <1>3, <1>7 DEF Turns

LEMMA ReconcileSiteTurns ==
  ASSUME TypeOK, NEW conf \in Config, NEW s \in Sites, ReconcileSite(conf, s)
  PROVE  Turns /\ routes' \in [Sites -> Keys \cup {None}] /\ ide' = ide
<1> DEFINE asked == {conf.sites[s]} \ {None}
           now == [routes EXCEPT ![s] = conf.sites[s]]
<1>1. PICK started \in Starts(masters, failed, asked) : \E at \in FreePorts(masters, started, resting) :
        /\ Replace(Keep(Ensure(masters, failed, asked, started, at, ide), Asked(now)), Keys \ Asked(now))
        /\ failed' = Forget(failed, started)
        /\ routes' = now /\ ide' = ide
  BY DEF ReconcileSite
<1>2. PICK at \in FreePorts(masters, started, resting) :
        /\ Replace(Keep(Ensure(masters, failed, asked, started, at, ide), Asked(now)), Keys \ Asked(now))
        /\ failed' = Forget(failed, started)
        /\ routes' = now /\ ide' = ide
  BY <1>1
<1>3. conf.sites \in [Sites -> Keys \cup {None}] /\ ide \in Ides /\ routes \in [Sites -> Keys \cup {None}]
  BY DEF Config, TypeOK
<1>4. now \in [Sites -> Keys \cup {None}] /\ now[s] = conf.sites[s] BY <1>3
<1>5. asked \subseteq Keys /\ asked \subseteq Asked(now) BY <1>3, <1>4 DEF Asked
<1>6. \A k \in Keys \ Asked(now) : k \in Keys /\ (masters[k] = None \/ k \notin Asked(now)) OBVIOUS
<1>7. masters \in {masters, NoMasters} OBVIOUS
<1> HIDE DEF asked, now
<1>8. Turn(started, at) /\ Deaths /\ Fresh(started, at)
  BY <1>2, <1>3, <1>5, <1>6, <1>7, EnsureTurns
<1> QED BY <1>2, <1>4, <1>8 DEF Turns

-------------------------------------------------------------------------------
(* The maps: no pool is in both, and every master has the settings. *)

LEMMA FunctionOf ==
  ASSUME NEW f, NEW S, NEW T, f = [k \in S |-> f[k]], \A k \in S : f[k] \in T
  PROVE  f \in [S -> T]
OBVIOUS

LEMMA PortsOfIs ==
  ASSUME NEW ms \in [Keys -> Master \cup {None}] PROVE PortsOf(ms) \subseteq Ports
BY DEF PortsOf, Master

LEMMA ForgetIs ==
  ASSUME TypeOK, NEW started
  PROVE  /\ Forget(failed, started) \in [Keys -> Failure \cup {None}]
         /\ \A k \in Keys : Forget(failed, started)[k] = IF k \in started THEN None ELSE failed[k]
BY DEF Forget, TypeOK

LEMMA TurnMasters ==
  ASSUME Base, NEW started, NEW at, Turn(started, at)
  PROVE  /\ masters' \in [Keys -> Master \cup {None}]
         /\ failed' \in [Keys -> Failure \cup {None}]
         /\ OnePlace' /\ SettingsCurrent'
         /\ \A k \in started : /\ masters'[k] # None /\ masters'[k].port = at[k] /\ masters'[k].alive
                               /\ ~masters'[k].answered
                               /\ masters'[k].failures = IF failed[k] = None THEN 0 ELSE failed[k].n
<1>1. TypeOK BY DEF Base
<1>2. \A k \in started : /\ masters'[k] \in Master /\ masters'[k] # None
                         /\ masters'[k].port = at[k] /\ masters'[k].ide = ide'
                         /\ masters'[k].alive /\ ~masters'[k].answered
                         /\ masters'[k].failures = IF failed[k] = None THEN 0 ELSE failed[k].n
  <2> SUFFICES ASSUME NEW k \in started
               PROVE  /\ masters'[k] \in Master /\ masters'[k] # None
                      /\ masters'[k].port = at[k] /\ masters'[k].ide = ide'
                      /\ masters'[k].alive /\ ~masters'[k].answered
                      /\ masters'[k].failures = IF failed[k] = None THEN 0 ELSE failed[k].n
    OBVIOUS
  <2>1. /\ k \in Keys /\ at[k] \in Ports /\ MayStart(failed, k) /\ ide' \in Ides
        /\ masters'[k] = Started(failed, k, at[k], ide')
    BY DEF Turn
  <2> QED BY <1>1, <2>1, StartedIs
<1>3. \A k \in Keys : masters'[k] \in Master \cup {None}
  BY <1>1, <1>2 DEF Turn, TypeOK
<1>4. masters' = [k \in Keys |-> masters'[k]] BY DEF Turn
<1>5. masters' \in [Keys -> Master \cup {None}]
  <2> DEFINE ms == masters'
  <2>1. ms = [k \in Keys |-> ms[k]] /\ \A k \in Keys : ms[k] \in Master \cup {None} BY <1>3, <1>4
  <2> HIDE DEF ms
  <2>2. ms \in [Keys -> Master \cup {None}] BY <2>1, FunctionOf
  <2> QED BY <2>2 DEF ms
<1>6. /\ failed' \in [Keys -> Failure \cup {None}]
      /\ \A k \in Keys : failed'[k] = IF k \in started THEN None ELSE failed[k]
  BY <1>1, ForgetIs DEF Turn
<1>7. OnePlace' BY <1>6 DEF Turn, Base, OnePlace
<1>8. SettingsCurrent' BY <1>2 DEF Turn, Base, SettingsCurrent
<1> QED BY <1>2, <1>5, <1>6, <1>7, <1>8

(* The registry's side of a reconcile. *)
LEMMA TurnsKeepBase ==
  ASSUME Base, Turns, config' \in Config, disk' \in Config, routes' \in [Sites -> Keys \cup {None}],
         UNCHANGED <<cache, pc, scraped>>
  PROVE  Base'
<1>1. PICK started, at : Turn(started, at) /\ Deaths BY DEF Turns
<1>2. /\ masters' \in [Keys -> Master \cup {None}] /\ failed' \in [Keys -> Failure \cup {None}]
      /\ OnePlace' /\ SettingsCurrent'
  BY <1>1, TurnMasters
<1>3. PortsOf(masters) \subseteq Ports BY PortsOfIs DEF Base, TypeOK
<1>4. TypeOK' BY <1>1, <1>2, <1>3 DEF Base, TypeOK, Turn, Deaths
<1> QED BY <1>2, <1>4 DEF Base

(* A save that fails, or settings that are refused. *)
LEMMA RefusedKeepsBase ==
  ASSUME Base, config' \in Config,
         UNCHANGED <<disk, routes, ide, masters, failed, crashes, resting, cache, pc, scraped>>
  PROVE  Base'
BY DEF Base, TypeOK, OnePlace, SettingsCurrent

(* A request turns the masters, or changes nothing but the configuration. *)
LEMMA RequestIs ==
  ASSUME TypeOK, Request
  PROVE  /\ UNCHANGED <<cache, pc, scraped>> /\ config' \in Config /\ disk' \in Config
         /\ \/ Turns /\ routes' \in [Sites -> Keys \cup {None}]
            \/ UNCHANGED <<disk, routes, ide, masters, failed, crashes, resting>>
<1> DEFINE Goal == /\ UNCHANGED <<cache, pc, scraped>> /\ config' \in Config /\ disk' \in Config
                   /\ \/ Turns /\ routes' \in [Sites -> Keys \cup {None}]
                      \/ UNCHANGED <<disk, routes, ide, masters, failed, crashes, resting>>
<1>0. /\ config \in Config /\ disk \in Config
      /\ config.sites \in [Sites -> Keys \cup {None}] /\ config.ide \in Ides
      /\ \A sites \in [Sites -> Keys \cup {None}] : [config EXCEPT !.sites = sites] \in Config
      /\ \A i \in Ides : [config EXCEPT !.ide = i] \in Config
      /\ masters \in {masters, NoMasters} /\ NoMasters \in {masters, NoMasters}
  BY DEF TypeOK, Config
<1>1. ASSUME NEW s \in Sites, NEW k \in Keys \cup {None}, SetSite(s, k) PROVE Goal
  <2> DEFINE conf == [config EXCEPT !.sites[s] = k]
  <2>1. conf \in Config BY <1>0 DEF Config
  <2>2. /\ SaveFails(conf) \/ (Save(conf) /\ ReconcileSite(conf, s))
        /\ UNCHANGED <<cache, pc, scraped>>
    BY <1>1 DEF SetSite
  <2> HIDE DEF conf
  <2> QED BY <1>0, <2>1, <2>2, ReconcileSiteTurns DEF SaveFails, Save
<1>2. ASSUME NEW sites \in [Sites -> Keys \cup {None}], SetSites(sites) PROVE Goal
  <2> DEFINE conf == [config EXCEPT !.sites = sites]
  <2>1. conf \in Config BY <1>0
  <2>2. /\ SaveFails(conf) \/ (Save(conf) /\ Reconcile(conf, masters))
        /\ UNCHANGED <<cache, pc, scraped>>
    BY <1>2 DEF SetSites
  <2> HIDE DEF conf
  <2> QED BY <1>0, <2>1, <2>2, ReconcileTurns DEF SaveFails, Save
<1>3. ASSUME NEW i \in Ides, NEW valid \in BOOLEAN, SetIde(i, valid) PROVE Goal
  <2> DEFINE conf == [config EXCEPT !.ide = i]
  <2>1. conf \in Config BY <1>0
  <2>2. /\ \/ config' = conf /\ UNCHANGED <<disk, routes, ide, masters, failed, crashes, resting>>
           \/ SaveFails(conf)
           \/ Save(conf) /\ Reconcile(conf, masters)
        /\ UNCHANGED <<cache, pc, scraped>>
    BY <1>3 DEF SetIde
  <2> HIDE DEF conf
  <2> QED BY <1>0, <2>1, <2>2, ReconcileTurns DEF SaveFails, Save
<1>4. ASSUME RestartFpm PROVE Goal
  BY <1>0, <1>4, ReconcileTurns DEF RestartFpm
<1>5. ASSUME Reload PROVE Goal
  BY <1>0, <1>5, ReconcileTurns DEF Reload
<1> QED BY <1>1, <1>2, <1>3, <1>4, <1>5 DEF Request

-------------------------------------------------------------------------------
(* The supervision tick *)

(* Applying a scrape only touches what is known of a master. *)
LEMMA AppliedIs ==
  ASSUME TypeOK
  PROVE  /\ ApplyStats \in [Keys -> Master \cup {None}]
         /\ \A k \in Keys : masters[k] = None => ApplyStats[k] = None
         /\ \A k \in Keys : masters[k] # None =>
              /\ ApplyStats[k] # None
              /\ ApplyStats[k].port = masters[k].port /\ ApplyStats[k].alive = masters[k].alive
              /\ ApplyStats[k].answered = masters[k].answered /\ ApplyStats[k].ide = masters[k].ide
              /\ ApplyStats[k].failures = IF Scraped(k) = "answered" THEN 0 ELSE masters[k].failures
<1>1. MaxFailures \in Nat \ {0} /\ None \notin Master BY FpmAssumption
<1>2. ASSUME NEW k \in Keys, masters[k] = None PROVE ApplyStats[k] = None
  <2>1. Scraped(k) = "no" BY <1>2 DEF Scraped
  <2> QED BY <1>2, <2>1 DEF ApplyStats
<1>3. ASSUME NEW k \in Keys, masters[k] # None
      PROVE  /\ ApplyStats[k] \in Master
             /\ ApplyStats[k].port = masters[k].port /\ ApplyStats[k].alive = masters[k].alive
             /\ ApplyStats[k].answered = masters[k].answered /\ ApplyStats[k].ide = masters[k].ide
             /\ ApplyStats[k].failures = IF Scraped(k) = "answered" THEN 0 ELSE masters[k].failures
  <2>1. masters[k] \in Master BY <1>3 DEF TypeOK
  <2>2. 0 \in 0 .. (MaxFailures - 1) BY <1>1
  <2>3. CASE Scraped(k) = "answered"
    <3>1. ApplyStats[k] = [masters[k] EXCEPT !.seen = "fresh", !.failures = 0] BY <2>3 DEF ApplyStats
    <3> QED BY <2>1, <2>2, <2>3, <3>1 DEF Master
  <2>4. CASE Scraped(k) # "answered"
    <3>1. ApplyStats[k] \in {[masters[k] EXCEPT !.seen = "stale"], masters[k]} BY <2>4 DEF ApplyStats
    <3> QED BY <2>1, <2>4, <3>1 DEF Master
  <2> QED BY <2>3, <2>4
<1>4. ApplyStats = [k \in Keys |-> ApplyStats[k]] BY DEF ApplyStats
<1>5. \A k \in Keys : ApplyStats[k] \in Master \cup {None} BY <1>2, <1>3
<1>6. ApplyStats \in [Keys -> Master \cup {None}] BY <1>4, <1>5
<1> QED BY <1>1, <1>2, <1>3, <1>6

(* The dead move to the failures, once more than they had; nobody else does. *)
LEMMA SupervisedIs ==
  ASSUME TypeOK
  PROVE  /\ Supervised(ApplyStats) \in [Keys -> Master \cup {None}]
         /\ Blame(ApplyStats) \in [Keys -> Failure \cup {None}]
         /\ \A k \in Keys : Dead(masters, k) =>
              /\ Supervised(ApplyStats)[k] = None /\ Blame(ApplyStats)[k] # None
              /\ Blame(ApplyStats)[k].n = ApplyStats[k].failures + 1
         /\ \A k \in Keys : ~Dead(masters, k) =>
              /\ Supervised(ApplyStats)[k] = ApplyStats[k] /\ Blame(ApplyStats)[k] = failed[k]
         /\ \A k \in Keys : ~Dead(Supervised(ApplyStats), k)
<1>1. MaxFailures \in Nat \ {0} /\ None \notin Failure BY FpmAssumption
<1> DEFINE applied == ApplyStats
<1>2. /\ applied \in [Keys -> Master \cup {None}]
      /\ \A k \in Keys : Dead(applied, k) <=> Dead(masters, k)
  BY AppliedIs DEF Dead
<1> HIDE DEF applied
<1>3. ASSUME NEW k \in Keys, Dead(applied, k)
      PROVE  [n |-> applied[k].failures + 1, due |-> FALSE] \in Failure
  <2>1. applied[k] \in Master BY <1>2, <1>3 DEF Dead
  <2>2. applied[k].failures \in 0 .. (MaxFailures - 1) BY <2>1 DEF Master
  <2>3. applied[k].failures + 1 \in 1 .. MaxFailures BY <1>1, <2>2
  <2> QED BY <2>3 DEF Failure
<1>4. Blame(applied) \in [Keys -> Failure \cup {None}] BY <1>3 DEF Blame, TypeOK
<1>5. Supervised(applied) \in [Keys -> Master \cup {None}] BY <1>2 DEF Supervised
<1>6. \A k \in Keys : Dead(applied, k) =>
        /\ Supervised(applied)[k] = None /\ Blame(applied)[k] # None
        /\ Blame(applied)[k].n = applied[k].failures + 1
  BY <1>1, <1>3 DEF Supervised, Blame
<1>7. \A k \in Keys : ~Dead(applied, k) => Supervised(applied)[k] = applied[k] /\ Blame(applied)[k] = failed[k]
  BY DEF Supervised, Blame
<1>8. \A k \in Keys : ~Dead(Supervised(applied), k) BY <1>6, <1>7 DEF Dead
<1> QED BY <1>2, <1>4, <1>5, <1>6, <1>7, <1>8 DEF applied

(* What a tick makes of the masters: the living stay, the dead are counted,  *)
(* and some pools whose pause is over are started again.                     *)
Folded(started, at) ==
  /\ started \subseteq Keys /\ at \in [started -> Ports]
  /\ masters' \in [Keys -> Master \cup {None}] /\ failed' \in [Keys -> Failure \cup {None}]
  /\ \A k \in started :
       /\ ~Alive(masters, k) /\ failed'[k] = None
       /\ masters'[k] # None /\ masters'[k].port = at[k] /\ masters'[k].ide = ide
       /\ masters'[k].alive /\ ~masters'[k].answered
       /\ Blame(ApplyStats)[k] # None /\ masters'[k].failures = Blame(ApplyStats)[k].n
  /\ \A k \in Keys \ started :
       /\ failed'[k] = Blame(ApplyStats)[k]
       /\ masters'[k] = IF Dead(masters, k) THEN None ELSE ApplyStats[k]

LEMMA FoldIs ==
  ASSUME TypeOK, Fold
  PROVE  \E started, at :
           /\ Folded(started, at)
           /\ \A j, k \in started : at[j] = at[k] => j = k
           /\ ~Recycle => \A k \in started : at[k] \notin PortsOf(masters)
<1> DEFINE ms == Supervised(ApplyStats)
           fs == Blame(ApplyStats)
           asked == {k \in Keys : fs[k] # None /\ MayStart(fs, k)}
<1>1. PICK started \in Starts(ms, fs, asked) : \E at \in FreePorts(ms, started, {}) :
        /\ masters' = Ensure(ms, fs, asked, started, at, ide)
        /\ failed' = Forget(fs, started)
  BY DEF Fold
<1>2. PICK at \in FreePorts(ms, started, {}) :
        /\ masters' = Ensure(ms, fs, asked, started, at, ide)
        /\ failed' = Forget(fs, started)
  BY <1>1
<1>3. \A k \in started : k \in Keys /\ fs[k] # None /\ MayStart(fs, k) /\ ~Alive(ms, k)
  BY StartsAre
<1>4. /\ at \in [started -> Ports] /\ \A j, k \in started : at[j] = at[k] => j = k
      /\ ~Recycle => \A k \in started : at[k] \notin PortsOf(masters)
  BY FreeAre
<1>5. /\ ms \in [Keys -> Master \cup {None}] /\ fs \in [Keys -> Failure \cup {None}]
      /\ \A k \in Keys : ms[k] = IF Dead(masters, k) THEN None ELSE ApplyStats[k]
      /\ \A k \in Keys : ~Dead(ms, k)
  BY SupervisedIs
<1>6. \A k \in Keys : Alive(ms, k) <=> Alive(masters, k)
  BY <1>5, AppliedIs DEF Alive, Dead
<1>7. MaxFailures \in Nat \ {0} /\ None \notin Master /\ ide \in Ides BY FpmAssumption DEF TypeOK
<1> HIDE DEF ms, fs, asked
<1>8. /\ masters' = [k \in Keys |-> masters'[k]]
      /\ \A k \in started : masters'[k] = Started(fs, k, at[k], ide)
      /\ \A k \in Keys \ started : masters'[k] = ms[k]
  BY <1>2, <1>3, <1>5 DEF Ensure
<1>9. ASSUME NEW k \in started
      PROVE  /\ masters'[k] \in Master /\ masters'[k] # None /\ masters'[k].port = at[k]
             /\ masters'[k].ide = ide /\ masters'[k].alive /\ ~masters'[k].answered
             /\ masters'[k].failures = fs[k].n
  <2>1. fs[k] \in Failure /\ fs[k].n < MaxFailures BY <1>3, <1>5 DEF MayStart
  <2>2. fs[k].n \in 0 .. (MaxFailures - 1) BY <1>7, <2>1 DEF Failure
  <2>3. at[k] \in Ports BY <1>4
  <2>4. masters'[k] = [port |-> at[k], alive |-> TRUE, answered |-> FALSE, seen |-> "never",
                       failures |-> fs[k].n, ide |-> ide]
    BY <1>3, <1>8 DEF Started
  <2>5. /\ masters'[k].alive = TRUE /\ masters'[k].answered = FALSE
        /\ masters'[k].port = at[k] /\ masters'[k].ide = ide /\ masters'[k].failures = fs[k].n
    BY <2>4
  <2>6. masters'[k] \in Master BY <1>7, <2>2, <2>3, <2>4 DEF Master
  <2> QED BY <1>7, <2>5, <2>6
<1>10. masters' \in [Keys -> Master \cup {None}]
  <2> DEFINE next == masters'
  <2>1. next = [k \in Keys |-> next[k]] /\ \A k \in Keys : next[k] \in Master \cup {None}
    BY <1>5, <1>8, <1>9
  <2> HIDE DEF next
  <2>2. next \in [Keys -> Master \cup {None}] BY <2>1, FunctionOf
  <2> QED BY <2>2 DEF next
<1>11. /\ failed' \in [Keys -> Failure \cup {None}]
       /\ \A k \in Keys : failed'[k] = IF k \in started THEN None ELSE fs[k]
  BY <1>2, <1>5 DEF Forget
<1>12. Folded(started, at)
  BY <1>3, <1>4, <1>5, <1>6, <1>8, <1>9, <1>10, <1>11 DEF Folded, fs
<1> QED BY <1>4, <1>12

LEMMA FoldKeepsBase ==
  ASSUME Base, Fold PROVE Base'
<1>1. TypeOK BY DEF Base
<1>2. PICK started, at : Folded(started, at) BY <1>1, FoldIs
<1>3. \A k \in Keys : /\ masters'[k] = None \/ failed'[k] = None
                      /\ masters'[k] # None => masters'[k].ide = ide
  <2> SUFFICES ASSUME NEW k \in Keys
               PROVE  /\ masters'[k] = None \/ failed'[k] = None
                      /\ masters'[k] # None => masters'[k].ide = ide
    OBVIOUS
  <2>1. CASE k \in started BY <1>2, <2>1 DEF Folded
  <2>2. CASE k \notin started /\ Dead(masters, k) BY <1>2, <2>2 DEF Folded
  <2>3. CASE k \notin started /\ ~Dead(masters, k)
    <3>1. masters'[k] = ApplyStats[k] /\ failed'[k] = failed[k]
      BY <1>1, <1>2, <2>3, SupervisedIs DEF Folded
    <3> QED BY <1>1, <3>1, AppliedIs DEF Base, OnePlace, SettingsCurrent
  <2> QED BY <2>1, <2>2, <2>3
<1>4. /\ cache' = Publish /\ resting' \subseteq PortsOf(masters) /\ pc' = "sleep"
      /\ scraped' = [p \in Ports |-> "no"] /\ UNCHANGED <<config, disk, routes, ide, crashes>>
  BY DEF Fold, registry
<1>5. PortsOf(masters) \subseteq Ports BY <1>1, PortsOfIs DEF TypeOK
<1>6. TypeOK' BY <1>1, <1>2, <1>4, <1>5 DEF TypeOK, Publish, Folded
<1> QED BY <1>3, <1>4, <1>6 DEF Base, OnePlace, SettingsCurrent

-------------------------------------------------------------------------------
(* The system *)

(* The first reconcile of a daemon: only new masters, with its settings. *)
LEMMA BootIs ==
  ASSUME NEW conf \in Config, NEW at, NEW started, started \subseteq Keys, at \in [started -> Ports],
         NEW ms, ms = Booted(conf, at)
  PROVE  /\ ms \in [Keys -> Master \cup {None}]
         /\ \A k \in Keys : ms[k] # None =>
              /\ k \in started /\ ms[k].port = at[k] /\ ms[k].ide = conf.ide
              /\ ms[k].alive /\ ms[k].failures = 0
<1>1. MaxFailures \in Nat \ {0} /\ None \notin Master BY FpmAssumption
<1>2. DOMAIN at = started OBVIOUS
<1>3. /\ ms = [k \in Keys |-> ms[k]]
      /\ \A k \in started : ms[k] = Started(NoFailures, k, at[k], conf.ide)
      /\ \A k \in Keys \ started : ms[k] = None
  BY <1>2 DEF Booted, Ensure, NoMasters, Dead
<1>4. ASSUME NEW k \in started
      PROVE  /\ ms[k] \in Master /\ ms[k].port = at[k] /\ ms[k].ide = conf.ide
             /\ ms[k].alive = TRUE /\ ms[k].failures = 0
  <2>1. ms[k] = [port |-> at[k], alive |-> TRUE, answered |-> FALSE, seen |-> "never",
                       failures |-> 0, ide |-> conf.ide]
    BY <1>3 DEF Started, NoFailures
  <2>2. at[k] \in Ports /\ conf.ide \in Ides /\ 0 \in 0 .. (MaxFailures - 1) BY <1>1 DEF Config
  <2> QED BY <2>1, <2>2 DEF Master
<1>5. ms \in [Keys -> Master \cup {None}] BY <1>3, <1>4
<1> QED BY <1>3, <1>4, <1>5

LEMMA DaemonIs ==
  ASSUME TypeOK, DaemonRestarts
  PROVE  \E started, at :
           /\ started \subseteq Keys /\ at \in [started -> Ports]
           /\ \A j, k \in started : at[j] = at[k] => j = k
           /\ masters' = Booted(disk, at)
<1>1. PICK started \in Starts(NoMasters, NoFailures, Asked(disk.sites)) :
        \E at \in Injections(started, Ports) : masters' = Booted(disk, at)
  BY DEF DaemonRestarts
<1>2. Asked(disk.sites) \subseteq Keys BY AskedAre DEF TypeOK, Config
<1>3. started \subseteq Keys BY <1>2, StartsAre
<1>4. PICK at \in Injections(started, Ports) : masters' = Booted(disk, at) BY <1>1
<1>5. at \in [started -> Ports] /\ \A j, k \in started : at[j] = at[k] => j = k BY <1>4 DEF Injections
<1> QED BY <1>3, <1>4, <1>5

LEMMA DaemonKeepsBase ==
  ASSUME Base, DaemonRestarts PROVE Base'
<1>1. TypeOK BY DEF Base
<1>2. PICK started, at : /\ started \subseteq Keys /\ at \in [started -> Ports]
                         /\ masters' = Booted(disk, at)
  BY <1>1, DaemonIs
<1>3. /\ disk \in Config /\ config' = disk /\ disk' = disk /\ ide' = disk.ide /\ routes' = disk.sites
      /\ failed' = NoFailures /\ cache' = {} /\ resting' = {} /\ crashes' = [k \in Keys |-> 0]
      /\ pc' = "sleep" /\ scraped' = [p \in Ports |-> "no"]
  BY <1>1 DEF DaemonRestarts, TypeOK
<1>4. masters' \in [Keys -> Master \cup {None}] /\ \A k \in Keys : masters'[k] # None => masters'[k].ide = disk.ide
  BY <1>2, <1>3, BootIs
<1>5. 0 \in 0 .. (MaxFailures + 1) BY FpmAssumption
<1>6. disk.ide \in Ides /\ disk.sites \in [Sites -> Keys \cup {None}] BY <1>3 DEF Config
<1>7. TypeOK' BY <1>3, <1>4, <1>5, <1>6 DEF TypeOK, NoFailures
<1> QED BY <1>3, <1>4, <1>7 DEF Base, OnePlace, SettingsCurrent, NoFailures

(* A death, an answer: only the process changes, never its port. *)
LEMMA TouchKeepsBase ==
  ASSUME Base, NEW k \in Keys, NEW m \in Master, masters[k] # None, m.ide = masters[k].ide,
         masters' = [masters EXCEPT ![k] = m], crashes' \in [Keys -> 0 .. (MaxFailures + 1)],
         scraped' \in [Ports -> {"no", "asked", "answered", "silent"}],
         UNCHANGED <<config, disk, routes, ide, failed, cache, pc, resting>>
  PROVE  Base'
<1>1. None \notin Master BY FpmAssumption
<1>2. TypeOK' BY DEF Base, TypeOK
<1>3. \A j \in Keys : masters'[j] = IF j = k THEN m ELSE masters[j] BY DEF Base, TypeOK
<1> QED BY <1>2, <1>3 DEF Base, OnePlace, SettingsCurrent

LEMMA DieIs ==
  ASSUME TypeOK, NEW k \in Keys, Die(k)
  PROVE  /\ masters[k] # None /\ masters[k].alive
         /\ \E m \in Master : /\ masters' = [masters EXCEPT ![k] = m]
                              /\ m.port = masters[k].port /\ m.failures = masters[k].failures
                              /\ m.ide = masters[k].ide /\ m.answered = masters[k].answered /\ ~m.alive
         /\ crashes' \in [Keys -> 0 .. (MaxFailures + 1)]
         /\ crashes'[k] >= IF crashes[k] <= MaxFailures THEN crashes[k] + 1 ELSE MaxFailures + 1
         /\ \A j \in Keys \ {k} : crashes'[j] = crashes[j]
         /\ UNCHANGED <<config, disk, routes, ide, failed, cache, pc, scraped, resting>>
<1>1. masters[k] \in Master /\ masters[k] # None /\ masters[k].alive BY DEF Die, Alive, TypeOK
<1> DEFINE m == [masters[k] EXCEPT !.alive = FALSE]
<1>2. /\ m \in Master /\ m.port = masters[k].port /\ m.failures = masters[k].failures
      /\ m.ide = masters[k].ide /\ m.answered = masters[k].answered /\ m.alive = FALSE
  BY <1>1 DEF Master
<1>3. masters' = [masters EXCEPT ![k] = m]
      /\ UNCHANGED <<config, disk, routes, ide, failed, cache, pc, scraped, resting>>
  BY DEF Die, registry, tick
<1> HIDE DEF m
<1>4. crashes \in [Keys -> 0 .. (MaxFailures + 1)] /\ MaxFailures \in Nat BY FpmAssumption DEF TypeOK
<1>5. crashes[k] \in 0 .. (MaxFailures + 1) BY <1>4
<1>6. crashes' = [crashes EXCEPT ![k] = IF crashes[k] <= MaxFailures THEN crashes[k] + 1 ELSE crashes[k]]
  BY DEF Die
<1>7. /\ crashes' \in [Keys -> 0 .. (MaxFailures + 1)]
      /\ crashes'[k] >= IF crashes[k] <= MaxFailures THEN crashes[k] + 1 ELSE MaxFailures + 1
      /\ \A j \in Keys \ {k} : crashes'[j] = crashes[j]
  BY <1>4, <1>5, <1>6
<1> QED BY <1>1, <1>2, <1>3, <1>7

LEMMA AnswerIs ==
  ASSUME TypeOK, NEW p \in Ports, NEW k \in Keys, Answer(p, k)
  PROVE  /\ masters[k] # None /\ masters[k].port = p /\ scraped[p] = "asked" /\ pc = "scrape"
         /\ \E m \in Master : /\ masters' = [masters EXCEPT ![k] = m]
                              /\ m.port = p /\ m.ide = masters[k].ide
                              /\ m.answered /\ m.alive = masters[k].alive
         /\ crashes' \in [Keys -> 0 .. (MaxFailures + 1)]
         /\ crashes'[k] >= IF masters[k].alive THEN 0 ELSE 1
         /\ \A j \in Keys \ {k} : crashes'[j] = crashes[j]
         /\ scraped' = [scraped EXCEPT ![p] = "answered"]
         /\ UNCHANGED <<config, disk, routes, ide, failed, cache, pc, resting>>
<1>1. masters[k] \in Master /\ masters[k] # None /\ masters[k].port = p /\ scraped[p] = "asked"
      /\ pc = "scrape"
  BY DEF Answer, TypeOK
<1> DEFINE m == [masters[k] EXCEPT !.answered = TRUE]
<1>2. /\ m \in Master /\ m.port = p /\ m.ide = masters[k].ide
      /\ m.alive = masters[k].alive /\ m.answered = TRUE
  BY <1>1 DEF Master
<1>3. /\ masters' = [masters EXCEPT ![k] = m]
      /\ scraped' = [scraped EXCEPT ![p] = "answered"]
      /\ UNCHANGED <<config, disk, routes, ide, failed, cache, pc, resting>>
  BY DEF Answer, registry
<1> HIDE DEF m
<1>4. crashes \in [Keys -> 0 .. (MaxFailures + 1)] /\ MaxFailures \in Nat BY FpmAssumption DEF TypeOK
<1>5. crashes' = [crashes EXCEPT ![k] = IF masters[k].alive THEN 0 ELSE 1] BY DEF Answer
<1>6. /\ crashes' \in [Keys -> 0 .. (MaxFailures + 1)]
      /\ crashes'[k] >= IF masters[k].alive THEN 0 ELSE 1
      /\ \A j \in Keys \ {k} : crashes'[j] = crashes[j]
  BY <1>4, <1>5
<1> QED BY <1>1, <1>2, <1>3, <1>6

(* A backoff ends; a scrape begins, and is not answered. *)
LEMMA QuietIs ==
  ASSUME TypeOK, \/ \E k \in Keys : Elapse(k)
                 \/ Look
                 \/ \E p \in Ports : Silent(p)
  PROVE  /\ UNCHANGED <<config, disk, routes, ide, masters, cache, crashes, resting>>
         /\ failed' \in [Keys -> Failure \cup {None}]
         /\ \A k \in Keys : IF failed[k] = None THEN failed'[k] = None
                            ELSE failed'[k] # None /\ failed'[k].n = failed[k].n
         /\ pc' \in {"sleep", "scrape"}
         /\ scraped' \in [Ports -> {"no", "asked", "answered", "silent"}]
<1>0. None \notin Failure BY FpmAssumption
<1>1. ASSUME NEW k \in Keys, Elapse(k)
      PROVE  /\ UNCHANGED <<config, disk, routes, ide, masters, cache, crashes, resting, pc, scraped>>
             /\ failed' \in [Keys -> Failure \cup {None}]
             /\ \A j \in Keys : IF failed[j] = None THEN failed'[j] = None
                                ELSE failed'[j] # None /\ failed'[j].n = failed[j].n
  <2>1. failed[k] \in Failure BY <1>1 DEF Elapse, TypeOK
  <2> DEFINE f == [failed[k] EXCEPT !.due = TRUE]
  <2>2. f \in Failure /\ f.n = failed[k].n BY <2>1 DEF Failure
  <2>3. /\ failed' = [failed EXCEPT ![k] = f] /\ failed[k] # None
        /\ UNCHANGED <<config, disk, routes, ide, masters, cache, crashes, resting, pc, scraped>>
    BY <1>1 DEF Elapse, registry, tick
  <2> HIDE DEF f
  <2> QED BY <1>0, <2>2, <2>3 DEF TypeOK
<1>2. CASE Look BY <1>0, <1>2 DEF Look, TypeOK, registry
<1>3. CASE \E p \in Ports : Silent(p) BY <1>0, <1>3 DEF Silent, TypeOK, registry
<1> QED BY <1>1, <1>2, <1>3 DEF TypeOK

LEMMA BaseNext == Base /\ [Next]_vars => Base'
<1> SUFFICES ASSUME Base, [Next]_vars PROVE Base' OBVIOUS
<1>1. TypeOK BY DEF Base
<1>2. CASE UNCHANGED vars BY <1>2 DEF vars, Base, TypeOK, OnePlace, SettingsCurrent
<1>3. CASE Request
  <2>1. /\ UNCHANGED <<cache, pc, scraped>> /\ config' \in Config /\ disk' \in Config
        /\ \/ Turns /\ routes' \in [Sites -> Keys \cup {None}]
           \/ UNCHANGED <<disk, routes, ide, masters, failed, crashes, resting>>
    BY <1>1, <1>3, RequestIs
  <2> QED BY <2>1, TurnsKeepBase, RefusedKeepsBase
<1>4. ASSUME NEW k \in Keys, Die(k) PROVE Base'
  <2>1. PICK m \in Master : masters' = [masters EXCEPT ![k] = m] /\ m.ide = masters[k].ide
    BY <1>1, <1>4, DieIs
  <2>2. /\ masters[k] # None /\ crashes' \in [Keys -> 0 .. (MaxFailures + 1)]
        /\ UNCHANGED <<config, disk, routes, ide, failed, cache, pc, scraped, resting>>
    BY <1>1, <1>4, DieIs
  <2>3. scraped' \in [Ports -> {"no", "asked", "answered", "silent"}] BY <1>1, <2>2 DEF TypeOK
  <2> QED BY <2>1, <2>2, <2>3, TouchKeepsBase
<1>5. ASSUME NEW p \in Ports, NEW k \in Keys, Answer(p, k) PROVE Base'
  <2>1. PICK m \in Master : masters' = [masters EXCEPT ![k] = m] /\ m.ide = masters[k].ide
    BY <1>1, <1>5, AnswerIs
  <2>2. /\ masters[k] # None /\ crashes' \in [Keys -> 0 .. (MaxFailures + 1)]
        /\ scraped' = [scraped EXCEPT ![p] = "answered"]
        /\ UNCHANGED <<config, disk, routes, ide, failed, cache, pc, resting>>
    BY <1>1, <1>5, AnswerIs
  <2>3. scraped' \in [Ports -> {"no", "asked", "answered", "silent"}] BY <1>1, <2>2 DEF TypeOK
  <2> QED BY <2>1, <2>2, <2>3, TouchKeepsBase
<1>6. ASSUME \/ \E k \in Keys : Elapse(k)
             \/ Look
             \/ \E p \in Ports : Silent(p)
      PROVE  Base'
  BY <1>1, <1>6, QuietIs DEF Base, TypeOK, OnePlace, SettingsCurrent
<1>7. CASE Fold BY <1>7, FoldKeepsBase
<1>8. CASE DaemonRestarts BY <1>8, DaemonKeepsBase
<1> QED BY <1>2, <1>3, <1>4, <1>5, <1>6, <1>7, <1>8 DEF Next, Watch

(* The first state has only masters that were just started. *)
LEMMA InitIs ==
  ASSUME Init
  PROVE  \E started, at :
           /\ started \subseteq Keys /\ at \in [started -> Ports]
           /\ \A j, k \in started : at[j] = at[k] => j = k
           /\ masters = Booted(config, at)
<1>1. config.sites \in [Sites -> Keys \cup {None}] BY DEF Init, Config
<1>2. Asked(config.sites) \subseteq Keys BY <1>1, AskedAre
<1>3. PICK at \in Injections(Asked(config.sites), Ports) : masters = Booted(config, at) BY DEF Init
<1> QED BY <1>2, <1>3 DEF Injections

LEMMA BaseInit == Init => Base
<1> SUFFICES ASSUME Init PROVE Base OBVIOUS
<1>1. PICK started, at : /\ started \subseteq Keys /\ at \in [started -> Ports]
                         /\ masters = Booted(config, at)
  BY InitIs
<1>2. /\ config \in Config /\ disk = config /\ ide = config.ide /\ routes = config.sites
      /\ failed = NoFailures /\ cache = {} /\ resting = {} /\ crashes = [k \in Keys |-> 0]
      /\ pc = "sleep" /\ scraped = [p \in Ports |-> "no"]
  BY DEF Init
<1>3. masters \in [Keys -> Master \cup {None}] /\ \A k \in Keys : masters[k] # None => masters[k].ide = config.ide
  BY <1>1, <1>2, BootIs
<1>4. 0 \in 0 .. (MaxFailures + 1) BY FpmAssumption
<1>5. config.ide \in Ides /\ config.sites \in [Sites -> Keys \cup {None}] BY <1>2 DEF Config
<1>6. TypeOK BY <1>2, <1>3, <1>4, <1>5 DEF TypeOK, NoFailures
<1> QED BY <1>2, <1>3, <1>6 DEF Base, OnePlace, SettingsCurrent, NoFailures

(* Every variable holds values of its kind.                                  *)
THEOREM Typing == Spec => []TypeOK
<1>1. Base => TypeOK BY DEF Base
<1> QED BY <1>1, BaseInit, BaseNext, PTL DEF Spec

(* A pool is running or on the list of failures, never both, whatever        *)
(* requests, deaths and ticks come between a scrape and its use.             *)
THEOREM OneListing == Spec => []OnePlace
<1>1. Base => OnePlace BY DEF Base
<1> QED BY <1>1, BaseInit, BaseNext, PTL DEF Spec

(* Every master runs with the Xdebug settings the manager has, whichever     *)
(* path started it and whatever save failed before.                          *)
THEOREM SettingsReach == Spec => []SettingsCurrent
<1>1. Base => SettingsCurrent BY DEF Base
<1> QED BY <1>1, BaseInit, BaseNext, PTL DEF Spec

-------------------------------------------------------------------------------
(* Ports and failures, when no port is handed out again too soon. *)

(* In a request, nobody gets a port that the tick or the cache knows. *)
LEMMA TurnsKeepPorts ==
  ASSUME ~Recycle, PortInv, Turns, Base', UNCHANGED <<cache, pc, scraped>> PROVE PortInv'
<1> USE DEF PortInv
<1>1. PICK started, at : Turn(started, at) /\ Deaths /\ Fresh(started, at) BY DEF Turns
<1>2. TypeOK /\ Base BY DEF Base
<1>3. \A k \in started : /\ masters'[k] # None /\ masters'[k].port = at[k] /\ masters'[k].alive
                         /\ ~masters'[k].answered
                         /\ masters'[k].failures = IF failed[k] = None THEN 0 ELSE failed[k].n
  BY <1>1, <1>2, TurnMasters
<1>4. \A k \in started : at[k] \in Ports /\ at[k] \notin PortsOf(masters) \cup resting
  BY <1>1 DEF Fresh, Turn
<1>5. \A k \in Keys \ started : masters'[k] # None => masters'[k] = masters[k] /\ crashes'[k] = crashes[k]
  BY <1>1 DEF Turn
<1>6. \A k \in Keys : masters[k] # None => masters[k].port \in PortsOf(masters) BY DEF PortsOf
<1>7. PortsDistinct'
  <2> SUFFICES ASSUME NEW j \in Keys, NEW k \in Keys, masters'[j] # None, masters'[k] # None,
                      masters'[j].port = masters'[k].port
               PROVE  j = k
    BY DEF PortsDistinct
  <2>1. CASE j \in started /\ k \in started BY <1>1, <1>3, <2>1 DEF Fresh
  <2>2. CASE j \in started /\ k \notin started BY <1>3, <1>4, <1>5, <1>6, <2>2
  <2>3. CASE j \notin started /\ k \in started BY <1>3, <1>4, <1>5, <1>6, <2>3
  <2>4. CASE j \notin started /\ k \notin started BY <1>5, <2>4 DEF PortsDistinct
  <2> QED BY <2>1, <2>2, <2>3, <2>4
<1>8. PortsKnown'
  <2>1. PortsOf(masters) \cup resting \subseteq PortsOf(masters') \cup resting'
    BY <1>1 DEF Deaths
  <2> QED BY <2>1 DEF PortsKnown
<1>9. QuietAsleep' BY DEF QuietAsleep
<1>10. \A k \in started : scraped[at[k]] = "no" /\ at[k] \notin cache BY <1>4 DEF PortsKnown
<1>11. AnsweredOwn'
  <2> SUFFICES ASSUME NEW k \in Keys, masters'[k] # None, scraped'[masters'[k].port] = "answered"
               PROVE  masters'[k].answered
    BY DEF AnsweredOwn
  <2>1. k \notin started BY <1>3, <1>10
  <2> QED BY <1>5, <2>1 DEF AnsweredOwn
<1>12. CachedIsOwn'
  <2> SUFFICES ASSUME NEW k \in Keys, masters'[k] # None, masters'[k].port \in cache'
               PROVE  masters'[k].answered
    BY DEF CachedIsOwn
  <2>1. k \notin started BY <1>3, <1>10
  <2> QED BY <1>5, <2>1 DEF CachedIsOwn
<1>13. Earned'
  <2>1. crashes \in [Keys -> 0 .. (MaxFailures + 1)] /\ MaxFailures \in Nat BY <1>2, FpmAssumption DEF TypeOK
  <2>2. ASSUME NEW k \in Keys, failed'[k] # None PROVE crashes'[k] >= failed'[k].n
    <3>1. k \notin started /\ failed'[k] = failed[k] BY <1>1, <1>2, <2>2, ForgetIs DEF Turn
    <3>2. masters[k] = None BY <1>2, <2>2, <3>1 DEF Base, OnePlace
    <3>3. crashes'[k] = crashes[k] BY <1>1, <3>2 DEF Deaths
    <3> QED BY <2>2, <3>1, <3>3 DEF Earned
  <2>3. ASSUME NEW k \in Keys, masters'[k] # None
        PROVE  crashes'[k] >= IF masters'[k].alive THEN Settling(masters[k])' ELSE Settling(masters[k])' + 1
    <3>1. CASE k \in started
      <4>1. Settling(masters[k])' = IF failed[k] = None THEN 0 ELSE failed[k].n
        BY <1>3, <1>10, <3>1 DEF Settling
      <4>2. CASE failed[k] = None
        <5>1. crashes'[k] \in 0 .. (MaxFailures + 1) BY <1>1 DEF Deaths
        <5> QED BY <1>3, <3>1, <4>1, <4>2, <5>1
      <4>3. CASE failed[k] # None
        <5>1. masters[k] = None BY <1>2, <4>3 DEF Base, OnePlace
        <5>2. crashes'[k] = crashes[k] BY <1>1, <5>1 DEF Deaths
        <5> QED BY <1>3, <3>1, <4>1, <4>3, <5>2 DEF Earned
      <4> QED BY <4>2, <4>3
    <3>2. CASE k \notin started
      <4>1. masters'[k] = masters[k] /\ crashes'[k] = crashes[k] BY <1>5, <2>3, <3>2
      <4>2. Settling(masters[k])' = Settling(masters[k]) BY <4>1 DEF Settling
      <4> QED BY <2>3, <4>1, <4>2 DEF Earned
    <3> QED BY <3>1, <3>2
  <2> QED BY <2>2, <2>3 DEF Earned
<1> QED BY <1>7, <1>8, <1>9, <1>11, <1>12, <1>13

(* A death or an answer leaves every port where it is. *)
LEMMA TouchKeepsPorts ==
  ASSUME PortInv, NEW k \in Keys, NEW m \in Master, masters[k] # None, m.port = masters[k].port,
         masters' = [masters EXCEPT ![k] = m], UNCHANGED resting
  PROVE  /\ PortsOf(masters') = PortsOf(masters) /\ PortsDistinct'
         /\ masters'[k] = m /\ m # None /\ \A j \in Keys \ {k} : masters'[j] = masters[j]
<1>1. masters \in [Keys -> Master \cup {None}] /\ None \notin Master
  BY FpmAssumption DEF PortInv, Base, TypeOK
<1>2. masters'[k] = m /\ m # None /\ \A j \in Keys \ {k} : masters'[j] = masters[j] BY <1>1
<1>3. \A j \in Keys : /\ masters'[j] # None <=> masters[j] # None
                      /\ masters'[j] # None => masters'[j].port = masters[j].port
  BY <1>2
<1>4. PortsDistinct' BY <1>3 DEF PortInv, PortsDistinct
<1>5. PortsOf(masters') = PortsOf(masters) BY <1>3 DEF PortsOf
<1> QED BY <1>2, <1>4, <1>5

LEMMA DieKeepsPorts ==
  ASSUME PortInv, NEW k \in Keys, Die(k), Base' PROVE PortInv'
<1> USE DEF PortInv
<1>1. TypeOK BY DEF Base
<1>2. PICK m \in Master : /\ masters' = [masters EXCEPT ![k] = m]
                          /\ m.port = masters[k].port /\ m.failures = masters[k].failures
                          /\ m.answered = masters[k].answered /\ ~m.alive
  BY <1>1, DieIs
<1>3. /\ masters[k] # None /\ masters[k].alive /\ crashes' \in [Keys -> 0 .. (MaxFailures + 1)]
      /\ crashes'[k] >= IF crashes[k] <= MaxFailures THEN crashes[k] + 1 ELSE MaxFailures + 1
      /\ \A j \in Keys \ {k} : crashes'[j] = crashes[j]
      /\ UNCHANGED <<failed, cache, pc, scraped, resting>>
  BY <1>1, DieIs
<1>4. /\ PortsOf(masters') = PortsOf(masters) /\ PortsDistinct'
      /\ masters'[k] = m /\ m # None /\ \A j \in Keys \ {k} : masters'[j] = masters[j]
  BY <1>2, <1>3, TouchKeepsPorts
<1>5. PortsKnown' /\ QuietAsleep' BY <1>3, <1>4 DEF PortsKnown, QuietAsleep
<1>6. AnsweredOwn' BY <1>2, <1>3, <1>4 DEF AnsweredOwn
<1>7. CachedIsOwn' BY <1>2, <1>3, <1>4 DEF CachedIsOwn
<1>8. Earned'
  <2>1. failed[k] = None BY <1>3 DEF Base, OnePlace
  <2>2. \A j \in Keys : failed'[j] # None => crashes'[j] >= failed'[j].n
    BY <1>3, <2>1 DEF Earned
  <2>3. crashes'[k] >= Settling(masters[k])' + 1
    <3>1. MaxFailures \in Nat /\ crashes[k] \in 0 .. (MaxFailures + 1) BY <1>1, FpmAssumption DEF TypeOK
    <3>2. masters[k] \in Master BY <1>1, <1>3 DEF TypeOK
    <3>3. Settling(masters[k])' = Settling(masters[k]) BY <1>2, <1>3, <1>4 DEF Settling
    <3>4. Settling(masters[k]) \in 0 .. (MaxFailures - 1)
      BY <3>1, <3>2, FpmAssumption DEF Settling, Master
    <3>5. crashes[k] >= Settling(masters[k]) BY <1>3 DEF Earned
    <3>6. crashes'[k] \in 0 .. (MaxFailures + 1) BY <1>3
    <3> QED BY <1>3, <3>1, <3>3, <3>4, <3>5, <3>6
  <2>4. ASSUME NEW j \in Keys \ {k}, masters'[j] # None
        PROVE  crashes'[j] >= IF masters'[j].alive THEN Settling(masters[j])' ELSE Settling(masters[j])' + 1
    <3>1. masters'[j] = masters[j] /\ crashes'[j] = crashes[j] BY <1>3, <1>4
    <3>2. Settling(masters[j])' = Settling(masters[j]) BY <1>3, <3>1 DEF Settling
    <3> QED BY <2>4, <3>1, <3>2 DEF Earned
  <2>5. ~masters'[k].alive BY <1>2, <1>4
  <2> QED BY <2>2, <2>3, <2>4, <2>5 DEF Earned
<1> QED BY <1>4, <1>5, <1>6, <1>7, <1>8

LEMMA AnswerKeepsPorts ==
  ASSUME PortInv, NEW p \in Ports, NEW k \in Keys, Answer(p, k), Base' PROVE PortInv'
<1> USE DEF PortInv
<1>1. TypeOK BY DEF Base
<1>2. PICK m \in Master : /\ masters' = [masters EXCEPT ![k] = m] /\ m.port = p
                          /\ m.answered /\ m.alive = masters[k].alive
  BY <1>1, AnswerIs
<1>3. /\ masters[k] # None /\ masters[k].port = p /\ scraped[p] = "asked" /\ pc = "scrape"
      /\ crashes'[k] >= IF masters[k].alive THEN 0 ELSE 1
      /\ \A j \in Keys \ {k} : crashes'[j] = crashes[j]
      /\ scraped' = [scraped EXCEPT ![p] = "answered"]
      /\ UNCHANGED <<failed, cache, pc, resting>>
  BY <1>1, AnswerIs
<1>4. /\ PortsOf(masters') = PortsOf(masters) /\ PortsDistinct'
      /\ masters'[k] = m /\ m # None /\ \A j \in Keys \ {k} : masters'[j] = masters[j]
  BY <1>2, <1>3, TouchKeepsPorts
<1>5. scraped'[p] = "answered" /\ \A q \in Ports \ {p} : scraped'[q] = scraped[q]
  BY <1>1, <1>3 DEF TypeOK
<1>6. \A j \in Keys \ {k} : masters[j] # None => masters[j].port \in Ports \ {p}
  BY <1>1, <1>3 DEF TypeOK, Master, PortsDistinct
<1>7. PortsKnown' BY <1>3, <1>4, <1>5 DEF PortsKnown
<1>8. QuietAsleep' BY <1>3 DEF QuietAsleep
<1>9. AnsweredOwn' BY <1>2, <1>4, <1>5, <1>6 DEF AnsweredOwn
<1>10. CachedIsOwn' BY <1>2, <1>3, <1>4 DEF CachedIsOwn
<1>11. Earned'
  <2>1. failed[k] = None BY <1>3 DEF Base, OnePlace
  <2>2. \A j \in Keys : failed'[j] # None => crashes'[j] >= failed'[j].n
    BY <1>3, <2>1 DEF Earned
  <2>3. Settling(masters[k])' = 0 BY <1>2, <1>4, <1>5 DEF Settling
  <2>4. ASSUME NEW j \in Keys \ {k}, masters'[j] # None
        PROVE  crashes'[j] >= IF masters'[j].alive THEN Settling(masters[j])' ELSE Settling(masters[j])' + 1
    <3>1. masters'[j] = masters[j] /\ crashes'[j] = crashes[j] BY <1>3, <1>4
    <3>2. Settling(masters[j])' = Settling(masters[j]) BY <1>5, <1>6, <2>4, <3>1 DEF Settling
    <3> QED BY <2>4, <3>1, <3>2 DEF Earned
  <2>5. masters'[k].alive = masters[k].alive BY <1>2, <1>4
  <2>6. crashes'[k] >= IF masters'[k].alive THEN Settling(masters[k])' ELSE Settling(masters[k])' + 1
    BY <1>3, <2>3, <2>5
  <2> QED BY <2>2, <2>4, <2>6 DEF Earned
<1> QED BY <1>4, <1>7, <1>8, <1>9, <1>10, <1>11

LEMMA QuietKeepsPorts ==
  ASSUME PortInv, Base', \/ \E k \in Keys : Elapse(k)
                         \/ Look
                         \/ \E p \in Ports : Silent(p)
  PROVE  PortInv'
<1> USE DEF PortInv
<1>1. TypeOK BY DEF Base
<1>2. /\ UNCHANGED <<masters, cache, crashes, resting>>
      /\ \A k \in Keys : IF failed[k] = None THEN failed'[k] = None
                         ELSE failed'[k] # None /\ failed'[k].n = failed[k].n
  BY <1>1, QuietIs
<1>3. /\ \A p \in Ports : scraped'[p] = "no" \/ p \in PortsOf(masters) \cup resting
      /\ \A p \in Ports : scraped'[p] = "answered" <=> scraped[p] = "answered"
      /\ QuietAsleep'
  <2>1. CASE \E k \in Keys : Elapse(k)
    BY <2>1 DEF Elapse, tick, PortsKnown, QuietAsleep
  <2>2. CASE Look
    BY <2>2 DEF Look, QuietAsleep
  <2>3. CASE \E p \in Ports : Silent(p)
    <3>1. PICK p \in Ports : Silent(p) BY <2>3
    <3>2. /\ pc = "scrape" /\ pc' = pc /\ scraped[p] = "asked" /\ scraped'[p] = "silent"
          /\ \A q \in Ports \ {p} : scraped'[q] = scraped[q]
      BY <1>1, <3>1 DEF Silent, TypeOK
    <3> QED BY <3>2 DEF PortsKnown, QuietAsleep
  <2> QED BY <2>1, <2>2, <2>3
<1>4. PortsDistinct' /\ PortsKnown' /\ CachedIsOwn' BY <1>2, <1>3 DEF PortsDistinct, PortsKnown, CachedIsOwn
<1>5. \A k \in Keys : masters[k] # None => masters[k].port \in Ports BY <1>1 DEF TypeOK, Master
<1>6. AnsweredOwn' BY <1>2, <1>3, <1>5 DEF AnsweredOwn
<1>7. \A k \in Keys : masters[k] # None => Settling(masters[k])' = Settling(masters[k])
  BY <1>2, <1>3, <1>5 DEF Settling
<1>8. Earned'
  <2>1. \A k \in Keys : failed'[k] # None => crashes'[k] >= failed'[k].n BY <1>2 DEF Earned
  <2>2. \A k \in Keys : masters'[k] # None =>
          crashes'[k] >= IF masters'[k].alive THEN Settling(masters[k])' ELSE Settling(masters[k])' + 1
    BY <1>2, <1>7 DEF Earned
  <2> QED BY <2>1, <2>2 DEF Earned
<1> QED BY <1>3, <1>4, <1>6, <1>8

(* A tick blames a master for what it did since it last answered, and gives  *)
(* no new master a port whose numbers it publishes.                          *)
LEMMA FoldKeepsPorts ==
  ASSUME ~Recycle, PortInv, Fold, Base' PROVE PortInv'
<1> USE DEF PortInv
<1>1. TypeOK BY DEF Base
<1>2. PICK started, at :
        /\ Folded(started, at)
        /\ \A j, k \in started : at[j] = at[k] => j = k
        /\ \A k \in started : at[k] \notin PortsOf(masters)
  BY <1>1, FoldIs
<1>3. /\ cache' = Publish /\ pc' = "sleep" /\ scraped' = [p \in Ports |-> "no"] /\ crashes' = crashes
      /\ resting' = PortsOf(masters) \ PortsOf(Supervised(ApplyStats))
  BY DEF Fold
<1>4. \A k \in Keys : masters[k] # None => masters[k].port \in PortsOf(masters) /\ masters[k].port \in Ports
  BY <1>1 DEF PortsOf, TypeOK, Master
<1>5. ASSUME NEW k \in Keys, masters[k] # None
      PROVE  /\ Scraped(k) = scraped[masters[k].port]
             /\ ApplyStats[k] # None
             /\ ApplyStats[k].port = masters[k].port /\ ApplyStats[k].alive = masters[k].alive
             /\ ApplyStats[k].answered = masters[k].answered
             /\ ApplyStats[k].failures = Settling(masters[k])
  <2>1. k = CHOOSE j \in Keys : masters[j] # None /\ masters[j].port = masters[k].port
    BY <1>5 DEF PortsDistinct
  <2>2. Scraped(k) = scraped[masters[k].port] BY <1>5, <2>1 DEF Scraped
  <2> QED BY <1>1, <1>5, <2>2, AppliedIs DEF Settling
<1>6. \A k \in started : /\ k \in Keys /\ ~Alive(masters, k) /\ failed'[k] = None
                         /\ masters'[k] # None /\ masters'[k].port = at[k]
                         /\ masters'[k].alive /\ ~masters'[k].answered
                         /\ masters'[k].failures = Blame(ApplyStats)[k].n
                         /\ at[k] \in Ports
  BY <1>2 DEF Folded
<1>7. ASSUME NEW k \in Keys \ started, masters'[k] # None
      PROVE  masters[k] # None /\ masters[k].alive /\ masters'[k] = ApplyStats[k]
  <2>1. masters'[k] = ApplyStats[k] /\ ~Dead(masters, k) BY <1>2, <1>7 DEF Folded
  <2>2. masters[k] # None BY <1>1, <1>7, <2>1, AppliedIs
  <2> QED BY <2>1, <2>2 DEF Dead
<1>8. PortsDistinct'
  <2> SUFFICES ASSUME NEW j \in Keys, NEW k \in Keys, masters'[j] # None, masters'[k] # None,
                      masters'[j].port = masters'[k].port
               PROVE  j = k
    BY DEF PortsDistinct
  <2>1. CASE j \in started /\ k \in started BY <1>2, <1>6, <2>1
  <2>2. CASE j \in started /\ k \notin started BY <1>2, <1>4, <1>5, <1>6, <1>7, <2>2
  <2>3. CASE j \notin started /\ k \in started BY <1>2, <1>4, <1>5, <1>6, <1>7, <2>3
  <2>4. CASE j \notin started /\ k \notin started BY <1>5, <1>7, <2>4 DEF PortsDistinct
  <2> QED BY <2>1, <2>2, <2>3, <2>4
<1>9. PortsOf(masters) \subseteq PortsOf(masters') \cup resting'
  <2> SUFFICES ASSUME NEW p \in PortsOf(Supervised(ApplyStats)) PROVE p \in PortsOf(masters')
    BY <1>3
  <2>1. PICK k \in Keys : Supervised(ApplyStats)[k] # None /\ p = Supervised(ApplyStats)[k].port
    BY DEF PortsOf
  <2>2. ~Dead(masters, k) /\ p = ApplyStats[k].port /\ ApplyStats[k] # None BY <1>1, <2>1, SupervisedIs
  <2>3. masters[k] # None BY <1>1, <2>2, AppliedIs
  <2>4. Alive(masters, k) BY <2>2, <2>3 DEF Dead, Alive
  <2>5. k \notin started BY <1>6, <2>4
  <2>6. masters'[k] = ApplyStats[k] BY <1>2, <2>2, <2>5 DEF Folded
  <2> QED BY <2>2, <2>6 DEF PortsOf
<1>10. cache' \subseteq PortsOf(masters) BY <1>3 DEF Publish
<1>11. PortsKnown' BY <1>3, <1>9, <1>10 DEF PortsKnown
<1>12. QuietAsleep' BY <1>3 DEF QuietAsleep
<1>13. \A k \in Keys : masters'[k] # None => masters'[k].port \in Ports
  BY <1>4, <1>5, <1>6, <1>7
<1>14. AnsweredOwn' BY <1>3, <1>13 DEF AnsweredOwn
<1>15. CachedIsOwn'
  <2> SUFFICES ASSUME NEW k \in Keys, masters'[k] # None, masters'[k].port \in cache'
               PROVE  masters'[k].answered
    BY DEF CachedIsOwn
  <2>1. k \notin started BY <1>2, <1>6, <1>10
  <2>2. masters[k] # None /\ masters'[k] = ApplyStats[k] BY <1>7, <2>1
  <2>3. masters[k].port \in cache \/ scraped[masters[k].port] = "answered"
    BY <1>3, <1>5, <2>2 DEF Publish
  <2>4. masters[k].answered BY <2>2, <2>3 DEF AnsweredOwn, CachedIsOwn
  <2> QED BY <1>5, <2>2, <2>4
<1>16. \A k \in Keys : Blame(ApplyStats)[k] # None => crashes[k] >= Blame(ApplyStats)[k].n
  <2> SUFFICES ASSUME NEW k \in Keys, Blame(ApplyStats)[k] # None
               PROVE  crashes[k] >= Blame(ApplyStats)[k].n
    OBVIOUS
  <2>1. CASE Dead(masters, k)
    <3>1. masters[k] # None /\ ~masters[k].alive BY <2>1 DEF Dead
    <3>2. Blame(ApplyStats)[k].n = Settling(masters[k]) + 1 BY <1>1, <1>5, <2>1, <3>1, SupervisedIs
    <3> QED BY <3>1, <3>2 DEF Earned
  <2>2. CASE ~Dead(masters, k)
    <3>1. Blame(ApplyStats)[k] = failed[k] BY <1>1, <2>2, SupervisedIs
    <3> QED BY <3>1 DEF Earned
  <2> QED BY <2>1, <2>2
<1>17. Earned'
  <2>1. ASSUME NEW k \in Keys, failed'[k] # None PROVE crashes'[k] >= failed'[k].n
    <3>1. k \notin started BY <1>6, <2>1
    <3>2. failed'[k] = Blame(ApplyStats)[k] BY <1>2, <3>1 DEF Folded
    <3> QED BY <1>3, <1>16, <2>1, <3>2
  <2>2. ASSUME NEW k \in Keys, masters'[k] # None
        PROVE  masters'[k].alive /\ crashes'[k] >= Settling(masters[k])'
    <3>1. Settling(masters[k])' = masters'[k].failures BY <1>3, <1>13, <2>2 DEF Settling
    <3>2. CASE k \in started
      <4>1. Blame(ApplyStats)[k] # None BY <1>2, <3>2 DEF Folded
      <4> QED BY <1>3, <1>6, <1>16, <3>1, <3>2, <4>1
    <3>3. CASE k \notin started
      <4>1. masters[k] # None /\ masters[k].alive /\ masters'[k] = ApplyStats[k] BY <1>7, <2>2, <3>3
      <4>2. crashes[k] >= Settling(masters[k]) BY <4>1 DEF Earned
      <4> QED BY <1>3, <1>5, <3>1, <4>1, <4>2
    <3> QED BY <3>2, <3>3
  <2> QED BY <2>1, <2>2 DEF Earned
<1> QED BY <1>8, <1>11, <1>12, <1>14, <1>15, <1>17

(* Masters that were just started, with nothing known of their ports. *)
JustBooted ==
  /\ \E conf \in Config, started \in SUBSET Keys : \E at \in [started -> Ports] :
       masters = Booted(conf, at) /\ \A j, k \in started : at[j] = at[k] => j = k
  /\ failed = NoFailures /\ cache = {} /\ resting = {}
  /\ crashes = [k \in Keys |-> 0] /\ scraped = [p \in Ports |-> "no"]

LEMMA BootKeepsPorts == Base /\ JustBooted => PortInv
<1> SUFFICES ASSUME Base, JustBooted PROVE PortInv OBVIOUS
<1>1. PICK conf \in Config, started \in SUBSET Keys : \E at \in [started -> Ports] :
        masters = Booted(conf, at) /\ \A j, k \in started : at[j] = at[k] => j = k
  BY DEF JustBooted
<1>2. PICK at \in [started -> Ports] :
        masters = Booted(conf, at) /\ \A j, k \in started : at[j] = at[k] => j = k
  BY <1>1
<1>3. \A k \in Keys : masters[k] # None =>
        k \in started /\ masters[k].port = at[k] /\ masters[k].alive /\ masters[k].failures = 0
  BY <1>2, BootIs
<1>4. PortsDistinct BY <1>2, <1>3 DEF PortsDistinct
<1>5. PortsKnown /\ QuietAsleep /\ CachedIsOwn
  BY DEF JustBooted, PortsKnown, QuietAsleep, CachedIsOwn
<1>6. \A k \in Keys : masters[k] # None => scraped[masters[k].port] = "no" BY <1>3 DEF JustBooted
<1>7. AnsweredOwn BY <1>6 DEF AnsweredOwn
<1>8. Earned BY <1>3, <1>6 DEF JustBooted, Earned, Settling, NoFailures
<1> QED BY <1>4, <1>5, <1>7, <1>8 DEF PortInv

LEMMA PortInit == Init => PortInv
<1> SUFFICES ASSUME Init PROVE PortInv OBVIOUS
<1>1. Base BY BaseInit
<1>2. PICK started, at : /\ started \subseteq Keys /\ at \in [started -> Ports]
                         /\ \A j, k \in started : at[j] = at[k] => j = k
                         /\ masters = Booted(config, at)
  BY InitIs
<1>3. JustBooted BY <1>2 DEF JustBooted, Init
<1> QED BY <1>1, <1>3, BootKeepsPorts

LEMMA PortNext == ~Recycle => (PortInv /\ [Next]_vars => PortInv')
<1> SUFFICES ASSUME ~Recycle, PortInv, [Next]_vars PROVE PortInv' OBVIOUS
<1>1. TypeOK /\ Base BY DEF PortInv, Base
<1>2. Base' BY <1>1, BaseNext
<1>3. CASE UNCHANGED <<masters, failed, cache, pc, scraped, crashes, resting>>
  BY <1>2, <1>3 DEF PortInv, PortsDistinct, PortsKnown, QuietAsleep, AnsweredOwn, CachedIsOwn, Earned,
                    Settling
<1>4. CASE Request
  <2>1. /\ UNCHANGED <<cache, pc, scraped>>
        /\ Turns \/ UNCHANGED <<disk, routes, ide, masters, failed, crashes, resting>>
    BY <1>1, <1>4, RequestIs
  <2> QED BY <1>2, <1>3, <2>1, TurnsKeepPorts
<1>5. CASE Watch
  BY <1>2, <1>5, FoldKeepsPorts, AnswerKeepsPorts, QuietKeepsPorts DEF Watch
<1>6. CASE \E k \in Keys : Die(k) \/ Elapse(k) BY <1>2, <1>6, DieKeepsPorts, QuietKeepsPorts
<1>7. CASE DaemonRestarts
  <2>1. PICK started, at : /\ started \subseteq Keys /\ at \in [started -> Ports]
                           /\ \A j, k \in started : at[j] = at[k] => j = k
                           /\ masters' = Booted(disk, at)
    BY <1>1, <1>7, DaemonIs
  <2>2. disk \in Config BY <1>1 DEF TypeOK
  <2>3. JustBooted' BY <1>7, <2>1, <2>2 DEF JustBooted, DaemonRestarts
  <2>4. Base' /\ JustBooted' => PortInv' BY BootKeepsPorts, PTL
  <2> QED BY <1>2, <2>3, <2>4
<1>8. UNCHANGED vars => UNCHANGED <<masters, failed, cache, pc, scraped, crashes, resting>> BY DEF vars
<1> QED BY <1>3, <1>4, <1>5, <1>6, <1>7, <1>8 DEF Next

(* If no port is handed out again before the cache was pruned, a pool that   *)
(* was given up died MaxFailures times and did not answer in between,        *)
(* however scrapes, deaths, requests and ticks interleave.                   *)
THEOREM GivenUpEarned ==
  ASSUME ~Recycle PROVE Spec => []GaveUpEarned
<1>1. PortInv => GaveUpEarned
  <2> SUFFICES ASSUME PortInv, NEW k \in Keys, GaveUp(k) PROVE crashes[k] >= MaxFailures
    BY DEF GaveUpEarned
  <2>1. failed[k] \in Failure /\ crashes[k] \in 0 .. (MaxFailures + 1)
    BY DEF PortInv, Base, TypeOK, GaveUp
  <2>2. failed[k].n \in 1 .. MaxFailures /\ MaxFailures \in Nat BY <2>1, FpmAssumption DEF Failure
  <2>3. crashes[k] >= failed[k].n /\ failed[k].n >= MaxFailures BY DEF PortInv, Earned, GaveUp
  <2> QED BY <2>1, <2>2, <2>3
<1>2. Init => PortInv BY PortInit
<1>3. PortInv /\ [Next]_vars => PortInv' BY PortNext
<1> QED BY <1>1, <1>2, <1>3, PTL DEF Spec

(* Under the same condition, the numbers published for a port come from the  *)
(* process that listens there now.                                           *)
THEOREM NumbersOwn ==
  ASSUME ~Recycle PROVE Spec => []CachedIsOwn
<1>1. PortInv => CachedIsOwn BY DEF PortInv
<1>2. Init => PortInv BY PortInit
<1>3. PortInv /\ [Next]_vars => PortInv' BY PortNext
<1> QED BY <1>1, <1>2, <1>3, PTL DEF Spec
=================================================================================
