------------------------------ MODULE OctaneProofs ------------------------------
(***************************************************************************)
(* What holds of the Octane servers for every set of sites and process     *)
(* groups and every length of the ladder: whatever ends, and whatever is   *)
(* asked for meanwhile, a server that is down has exactly the failures it  *)
(* earned; and, as long as no launcher leaves its server behind and no     *)
(* daemon dies in the grace of a stop, every live group is held or about   *)
(* to be killed.                                                           *)
(***************************************************************************)
EXTENDS Octane, TLAPS

(* No two servers have one group, and none of them is about to be killed. *)
Owning ==
  /\ \A s, t \in Sites :
       servers[s] # None /\ servers[t] # None /\ servers[s].group # None
         /\ servers[s].group = servers[t].group => s = t
  /\ \A s \in Sites : servers[s] # None => servers[s].group \notin dying

(* Only what was started has a run to its name, and it was not given up. *)
RunsOK ==
  \A s \in Sites : servers[s] # None =>
    IF servers[s].group = None THEN ~servers[s].healthy ELSE servers[s].failures < MaxFailures

(* The ends a server will have to its name when the next pass has seen it. *)
Ends(v) ==
  IF v.group = None \/ (Alive(v) /\ ~v.healthy) THEN v.failures
  ELSE IF Alive(v) THEN 0 ELSE IF v.healthy THEN 1 ELSE v.failures + 1

EndsCounted == \A s \in Sites : servers[s] # None => crashes[s] = Ends(servers[s])

LadderInv == TypeOK /\ Owning /\ RunsOK /\ EndsCounted

(* What a server holds has its launcher, and is on record. *)
HeldRecorded ==
  \A s \in Sites : servers[s] # None /\ servers[s].group # None =>
    /\ servers[s].group \in recorded
    /\ groups[servers[s].group] # None => groups[servers[s].group].state # "alone"

StrayInv == LadderInv /\ HeldRecorded /\ NoStray

-------------------------------------------------------------------------------
(* One server *)

LEMMA Limits == MaxFailures \in Nat \ {0} /\ MaxEdits \in Nat /\ 0 \in Edits
BY OctaneAssumption DEF Edits

LEMMA NewIs ==
  ASSUME NEW conf \in Setting, conf.runtime # None, NEW g \in Groups
  PROVE  LET v == New(conf, g) IN
         /\ v \in Server /\ v # None /\ v.runtime = conf.runtime /\ v.group = g
         /\ v.failures = 0 /\ ~v.healthy
<1>1. New(conf, g) =
        [runtime |-> conf.runtime, group |-> g, failures |-> 0, waiting |-> FALSE, healthy |-> FALSE,
         watch |-> conf.watch, fingerprint |-> None, dirty |-> FALSE, reloading |-> "no"]
  BY DEF New
<1>2. conf.runtime \in Runtimes /\ conf.watch \in BOOLEAN BY DEF Setting
<1>3. 0 \in 0 .. MaxFailures BY Limits
<1>4. New(conf, g) \in Server BY <1>1, <1>2, <1>3 DEF Server
<1>5. /\ New(conf, g).runtime = conf.runtime /\ New(conf, g).group = g
      /\ New(conf, g).failures = 0 /\ New(conf, g).healthy = FALSE
  BY <1>1
<1> QED BY <1>4, <1>5, OctaneAssumption

LEMMA ReusedIs ==
  ASSUME NEW v \in Server, NEW conf \in Setting
  PROVE  LET w == Reused(v, conf) IN
         /\ w \in Server /\ w # None /\ w.runtime = v.runtime /\ w.group = v.group
         /\ w.failures = v.failures /\ w.healthy = v.healthy
<1>1. conf.watch \in BOOLEAN BY DEF Setting
<1>2. CASE conf.watch /\ ~v.watch
  <2>1. Reused(v, conf) = [v EXCEPT !.watch = TRUE, !.fingerprint = None, !.dirty = FALSE]
    BY <1>2 DEF Reused
  <2>2. Reused(v, conf) \in Server BY <2>1 DEF Server
  <2> QED BY <2>1, <2>2, OctaneAssumption DEF Server
<1>3. CASE ~(conf.watch /\ ~v.watch)
  <2>1. Reused(v, conf) = [v EXCEPT !.watch = conf.watch] BY <1>3 DEF Reused
  <2>2. Reused(v, conf) \in Server BY <1>1, <2>1 DEF Server
  <2> QED BY <2>1, <2>2, OctaneAssumption DEF Server
<1> QED BY <1>2, <1>3

LEMMA BouncedIs ==
  ASSUME NEW v \in Server
  PROVE  /\ Bounced(v) \in Server /\ Bounced(v) # None /\ Bounced(v).group = None
         /\ Bounced(v).failures = 0 /\ ~Bounced(v).healthy
<1>1. 0 \in 0 .. MaxFailures BY Limits
<1>2. Bounced(v) \in Server BY <1>1 DEF Bounced, Server
<1>3. /\ Bounced(v).group = None /\ Bounced(v).failures = 0 /\ Bounced(v).healthy = FALSE
  BY DEF Bounced, Server
<1> QED BY <1>2, <1>3, OctaneAssumption

(* An exited child leaves one failure more, or the first after a long run. *)
LEMMA ReapedIs ==
  ASSUME NEW v \in Server, v.group # None => v.failures < MaxFailures
  PROVE  /\ Reaped(v) \in Server /\ Reaped(v) # None /\ Reaped(v).group = None
         /\ v.group = None => Reaped(v) = v
         /\ v.group # None => /\ Reaped(v).failures = IF v.healthy THEN 1 ELSE v.failures + 1
                              /\ ~Reaped(v).healthy
<1>1. CASE v.group = None BY <1>1, OctaneAssumption DEF Reaped
<1>2. CASE v.group # None
  <2> DEFINE n == IF v.healthy THEN 1 ELSE v.failures + 1
  <2>1. MaxFailures \in Nat \ {0} /\ v.failures \in 0 .. MaxFailures BY Limits DEF Server
  <2>2. n \in 0 .. MaxFailures BY <1>2, <2>1
  <2>3. Reaped(v) = [v EXCEPT !.group = None, !.waiting = TRUE, !.healthy = FALSE, !.failures = n]
    BY <1>2 DEF Reaped, Server
  <2> HIDE DEF n
  <2>4. Reaped(v) \in Server BY <2>2, <2>3 DEF Server
  <2>5. Reaped(v).group = None /\ Reaped(v).failures = n /\ Reaped(v).healthy = FALSE BY <2>3 DEF Server
  <2> QED BY <1>2, <2>4, <2>5, OctaneAssumption DEF n
<1> QED BY <1>1, <1>2

LEMMA CollectedIs ==
  ASSUME NEW v \in Server
  PROVE  LET w == Collected(v) IN
         /\ w \in Server /\ w # None /\ w.group = v.group /\ w.runtime = v.runtime
         /\ w.failures = v.failures /\ w.healthy = v.healthy
<1>1. Collected(v) \in Server BY DEF Collected, Server
<1> QED BY <1>1, OctaneAssumption DEF Collected, Server

(* What a scan tells, it tells of the sources: the ladder only loses what a  *)
(* long run has settled.                                                     *)
LEMMA WatchedIs ==
  ASSUME NEW v \in Server, NEW now \in Edits \cup {None}
  PROVE  LET w == Watched(v, now) IN
         /\ w \in Server /\ w # None /\ w.group = v.group /\ w.runtime = v.runtime
         /\ w.healthy = v.healthy /\ w.failures = IF v.healthy THEN 0 ELSE v.failures
<1> DEFINE w == IF v.healthy THEN [v EXCEPT !.failures = 0] ELSE v
<1>1. 0 \in 0 .. MaxFailures BY Limits
<1>2. /\ w \in Server /\ w.group = v.group /\ w.runtime = v.runtime /\ w.healthy = v.healthy
      /\ w.failures = IF v.healthy THEN 0 ELSE v.failures
  BY <1>1 DEF Server
<1>3. \/ Watched(v, now) = w
      \/ now # None /\ Watched(v, now) = [w EXCEPT !.fingerprint = now]
      \/ now # None /\ Watched(v, now) = [w EXCEPT !.fingerprint = now, !.dirty = TRUE]
      \/ Watched(v, now) = [w EXCEPT !.dirty = FALSE, !.reloading = "running"]
  BY DEF Watched
<1> HIDE DEF w
<1>4. Watched(v, now) \in Server BY <1>2, <1>3 DEF Server
<1>5. /\ Watched(v, now).group = w.group /\ Watched(v, now).runtime = w.runtime
      /\ Watched(v, now).healthy = w.healthy /\ Watched(v, now).failures = w.failures
  BY <1>2, <1>3 DEF Server
<1> QED BY <1>2, <1>4, <1>5, OctaneAssumption

-------------------------------------------------------------------------------
(* Process groups *)

LEMMA StoppedIs ==
  ASSUME NEW gs \in [Groups -> Group \cup {None}], NEW stopped
  PROVE  /\ Stopped(gs, stopped) \in [Groups -> Group \cup {None}]
         /\ \A g \in Groups : g \notin stopped => Stopped(gs, stopped)[g] = gs[g]
         /\ \A g \in Groups : gs[g] = None => Stopped(gs, stopped)[g] = None
<1>1. \A g \in Groups : gs[g] # None => [gs[g] EXCEPT !.state = "alone"] \in Group BY DEF Group
<1> QED BY <1>1 DEF Stopped

LEMMA KilledIs ==
  ASSUME NEW gs \in [Groups -> Group \cup {None}], NEW killed
  PROVE  /\ Killed(gs, killed) \in [Groups -> Group \cup {None}]
         /\ \A g \in Groups : Killed(gs, killed)[g] = IF g \in killed THEN None ELSE gs[g]
BY DEF Killed

LEMMA LaunchedIs ==
  ASSUME NEW gs \in [Groups -> Group \cup {None}], NEW spawned \in SUBSET Sites, NEW at \in [spawned -> Groups]
  PROVE  /\ Launched(gs, at) \in [Groups -> Group \cup {None}]
         /\ \A s \in spawned : /\ Launched(gs, at)[at[s]] # None
                               /\ Launched(gs, at)[at[s]].state = "booting"
         /\ \A g \in Groups : (\A s \in spawned : at[s] # g) => Launched(gs, at)[g] = gs[g]
<1>0. DOMAIN at = spawned /\ None \notin Group BY OctaneAssumption
<1>1. ASSUME NEW g \in Groups, \E s \in spawned : at[s] = g
      PROVE  /\ Launched(gs, at)[g] \in Group /\ Launched(gs, at)[g].state = "booting"
  <2> DEFINE s == CHOOSE s \in DOMAIN at : at[s] = g
  <2>1. s \in Sites BY <1>0, <1>1
  <2>2. Launched(gs, at)[g] = [site |-> s, state |-> "booting", code |-> 0] BY <1>0, <1>1 DEF Launched
  <2> HIDE DEF s
  <2> QED BY <2>1, <2>2, Limits DEF Group
<1>2. ASSUME NEW g \in Groups, ~\E s \in spawned : at[s] = g
      PROVE  Launched(gs, at)[g] = gs[g]
  BY <1>0, <1>2 DEF Launched
<1>3. \A g \in Groups : Launched(gs, at)[g] \in Group \cup {None} BY <1>1, <1>2
<1>4. Launched(gs, at) = [g \in Groups |-> Launched(gs, at)[g]] BY DEF Launched
<1>5. Launched(gs, at) \in [Groups -> Group \cup {None}] BY <1>3, <1>4
<1> QED BY <1>0, <1>1, <1>2, <1>5

(* Ids for new groups are free, and each is given once. *)
LEMMA SpawnedAre ==
  ASSUME NEW wanted, NEW spawned \in MaySpawn(wanted), NEW S, NEW at \in Injections(spawned, S)
  PROVE  /\ spawned \subseteq wanted /\ at \in [spawned -> S]
         /\ \A s, t \in spawned : at[s] = at[t] => s = t
BY DEF MaySpawn, Injections

LEMMA OwnedIs ==
  ASSUME NEW vs \in [Sites -> Server \cup {None}]
  PROVE  /\ Owned(vs) \subseteq Groups
         /\ \A g : g \in Owned(vs) <=> g # None /\ \E s \in Sites : vs[s] # None /\ vs[s].group = g
BY DEF Owned, Server

-------------------------------------------------------------------------------
(* What a step may do with a server, as the ladder sees it *)

(* It is down, and what it has earned is what it is charged with. *)
Idle(s) ==
  /\ servers'[s].group = None /\ servers'[s].healthy = FALSE
  /\ crashes'[s] = servers'[s].failures

(* It runs in a new group. *)
Started(s) ==
  /\ servers'[s].group \in Groups /\ servers'[s].healthy = FALSE
  /\ servers'[s].failures < MaxFailures /\ crashes'[s] = servers'[s].failures
  /\ groups'[servers'[s].group] # None /\ groups'[servers'[s].group].state # "alone"

(* It stays in its group, and a long run may have settled its account. *)
Kept(s) ==
  /\ servers[s] # None /\ servers[s].group # None
  /\ servers'[s].group = servers[s].group /\ servers'[s].healthy = servers[s].healthy
  /\ groups'[servers[s].group] = groups[servers[s].group]
  /\ \/ servers'[s].failures = servers[s].failures
     \/ Alive(servers[s]) /\ servers[s].healthy /\ servers'[s].failures = 0
  /\ crashes'[s] = crashes[s]

ServersTyped ==
  /\ servers \in [Sites -> Server \cup {None}] /\ groups \in [Groups -> Group \cup {None}]
  /\ dying \subseteq Groups /\ recorded \subseteq Groups
  /\ crashes \in [Sites -> 0 .. (MaxFailures + 1)]

SettingsTyped == config \in [Sites -> Setting] /\ disk \in [Sites -> Setting]

PassTyped == pc \in {"sleep", "scan"} /\ due \subseteq Sites /\ scans \in [Sites -> Edits \cup {None}]

LEMMA TypeSplit == TypeOK <=> SettingsTyped /\ src \in [Sites -> Edits] /\ ServersTyped /\ PassTyped
BY DEF TypeOK, SettingsTyped, ServersTyped, PassTyped

LEMMA TypeSplitNext ==
  TypeOK' <=> SettingsTyped' /\ (src \in [Sites -> Edits])' /\ ServersTyped' /\ PassTyped'
BY TypeSplit, PTL

LEMMA Counted ==
  ASSUME ServersTyped, RunsOK, EndsCounted, ServersTyped',
         \A s \in Sites : servers'[s] # None => Idle(s) \/ Started(s) \/ Kept(s)
  PROVE  RunsOK' /\ EndsCounted'
<1> SUFFICES ASSUME NEW s \in Sites, servers'[s] # None
             PROVE  /\ IF servers'[s].group = None THEN ~servers'[s].healthy
                                                   ELSE servers'[s].failures < MaxFailures
                    /\ crashes'[s] = Ends(servers[s])'
  BY DEF RunsOK, EndsCounted
<1>1. None \notin Groups BY OctaneAssumption
<1>2. CASE Idle(s) BY <1>2 DEF Idle, Ends, Alive
<1>3. CASE Started(s) BY <1>1, <1>3 DEF Started, Ends, Alive
<1>4. CASE Kept(s)
  <2>1. servers[s].failures < MaxFailures /\ crashes[s] = Ends(servers[s])
    BY <1>4 DEF Kept, RunsOK, EndsCounted
  <2>2. 0 < MaxFailures BY Limits
  <2>3. servers'[s].failures < MaxFailures BY <1>4, <2>1, <2>2 DEF Kept
  <2>4. Alive(servers[s])' <=> Alive(servers[s]) BY <1>4 DEF Kept, Alive
  <2>5. Ends(servers[s])' = Ends(servers[s]) BY <1>4, <2>4 DEF Kept, Ends
  <2> QED BY <1>4, <2>1, <2>3, <2>5 DEF Kept
<1> QED BY <1>2, <1>3, <1>4

-------------------------------------------------------------------------------
(* Requests *)

(* A full pass starts servers in free groups, keeps those for the same       *)
(* runtime as they are, and stops the others; all that is live is theirs,    *)
(* or dying, if it was before.                                               *)
LEMMA EnsureDoes ==
  ASSUME LadderInv, NEW conf \in [Sites -> Setting], NEW named \in SUBSET Sites,
         NEW vs, vs = servers \/ vs = NoServers, Ensure(conf, named, vs)
  PROVE  /\ ServersTyped' /\ Owning' /\ recorded' = Owned(servers')
         /\ \A s \in Sites : servers'[s] # None => Idle(s) \/ Started(s) \/ Kept(s)
         /\ NoStray => NoStray'
<1> DEFINE fresh == {s \in named : conf[s].runtime # None /\ ~Reusable(vs[s], conf[s])}
           stopped == Owned(servers) \ Owned(servers')
           count == crashes'
           next == servers'
           after == groups'
<1>0. /\ ServersTyped /\ Owning /\ RunsOK /\ EndsCounted /\ None \notin Groups /\ None \notin Server
  BY TypeSplit, OctaneAssumption DEF LadderInv
<1>1. PICK spawned \in MaySpawn(fresh) : \E at \in Injections(spawned, Free(groups, dying, Owned(servers))) :
        /\ servers' = [s \in Sites |->
             CASE s \notin named -> vs[s]
               [] s \in spawned -> New(conf[s], at[s])
               [] s \in named \ fresh /\ conf[s].runtime # None -> Reused(vs[s], conf[s])
               [] OTHER -> None]
        /\ groups' = Launched(Stopped(groups, stopped), at)
        /\ dying' = dying \cup stopped
        /\ recorded' = Owned(servers')
        /\ crashes' = [s \in Sites |->
             IF vs[s] # None /\ servers'[s] # None /\ servers'[s].runtime = vs[s].runtime
             THEN crashes[s] ELSE 0]
  BY DEF Ensure, Record
<1>a. \A s : s \in fresh <=> s \in named /\ conf[s].runtime # None /\ ~Reusable(vs[s], conf[s])
  OBVIOUS
<1> HIDE DEF fresh
<1>2. PICK at \in Injections(spawned, Free(groups, dying, Owned(servers))) :
        /\ servers' = [s \in Sites |->
             CASE s \notin named -> vs[s]
               [] s \in spawned -> New(conf[s], at[s])
               [] s \in named \ fresh /\ conf[s].runtime # None -> Reused(vs[s], conf[s])
               [] OTHER -> None]
        /\ groups' = Launched(Stopped(groups, stopped), at)
        /\ dying' = dying \cup stopped
        /\ recorded' = Owned(servers')
        /\ crashes' = [s \in Sites |->
             IF vs[s] # None /\ servers'[s] # None /\ servers'[s].runtime = vs[s].runtime
             THEN crashes[s] ELSE 0]
  BY <1>1 DEF fresh
<1>3. /\ spawned \subseteq fresh /\ at \in [spawned -> Free(groups, dying, Owned(servers))]
      /\ \A s, t \in spawned : at[s] = at[t] => s = t
  BY SpawnedAre DEF fresh
<1>4. /\ spawned \subseteq Sites /\ at \in [spawned -> Groups]
      /\ \A s \in spawned : /\ at[s] \in Groups /\ groups[at[s]] = None /\ at[s] \notin dying
                            /\ at[s] \notin Owned(servers)
  BY <1>3, <1>a DEF Free
<1>5. \A s \in Sites : vs[s] # None => vs[s] = servers[s] /\ vs[s] \in Server
  BY <1>0 DEF NoServers, ServersTyped
<1>b. /\ \A s \in Sites : s \notin named => next[s] = vs[s]
      /\ \A s \in spawned : next[s] = New(conf[s], at[s])
      /\ \A s \in named : s \notin spawned =>
           IF s \notin fresh /\ conf[s].runtime # None THEN next[s] = Reused(vs[s], conf[s]) ELSE next[s] = None
  <2>1. servers' = [s \in Sites |->
             CASE s \notin named -> vs[s]
               [] s \in spawned -> New(conf[s], at[s])
               [] s \in named \ fresh /\ conf[s].runtime # None -> Reused(vs[s], conf[s])
               [] OTHER -> None]
    BY <1>2
  <2>2. \A s \in Sites : next[s] =
             CASE s \notin named -> vs[s]
               [] s \in spawned -> New(conf[s], at[s])
               [] s \in named \ fresh /\ conf[s].runtime # None -> Reused(vs[s], conf[s])
               [] OTHER -> None
    BY <2>1
  <2>3. \A s \in spawned : s \in named /\ s \in fresh BY <1>3, <1>a
  <2> HIDE DEF next
  <2> QED BY <1>4, <2>2, <2>3
<1>6. ASSUME NEW s \in spawned
      PROVE  /\ next[s] \in Server /\ next[s] # None /\ next[s].group = at[s]
             /\ next[s].failures = 0 /\ next[s].healthy = FALSE /\ count[s] = 0
  <2>1. /\ s \in Sites /\ s \in named /\ conf[s] \in Setting /\ conf[s].runtime # None
        /\ vs[s] # None => vs[s].runtime # conf[s].runtime
    BY <1>3, <1>a DEF Reusable
  <2>2. next[s] = New(conf[s], at[s]) BY <1>b, <1>6
  <2>3. /\ next[s] \in Server /\ next[s] # None /\ next[s].group = at[s]
        /\ next[s].failures = 0 /\ next[s].healthy = FALSE /\ next[s].runtime = conf[s].runtime
    BY <1>4, <2>1, <2>2, NewIs
  <2>4. count[s] = 0 BY <1>2, <2>1, <2>3
  <2> QED BY <2>3, <2>4
<1>7. ASSUME NEW s \in Sites, s \notin spawned, next[s] # None
      PROVE  /\ servers[s] \in Server /\ servers[s] # None /\ next[s] \in Server
             /\ next[s].group = servers[s].group /\ next[s].healthy = servers[s].healthy
             /\ next[s].failures = servers[s].failures /\ count[s] = crashes[s]
  <2>1. CASE s \notin named
    <3>1. next[s] = vs[s] BY <1>b, <2>1
    <3>2. servers[s] \in Server /\ vs[s] = servers[s] /\ vs[s] # None BY <1>5, <1>7, <3>1
    <3>3. count[s] = crashes[s] BY <1>2, <1>7, <3>1, <3>2
    <3> QED BY <1>0, <3>1, <3>2, <3>3
  <2>2. CASE s \in named
    <3>1. s \in named \ fresh /\ conf[s].runtime # None /\ next[s] = Reused(vs[s], conf[s])
      BY <1>b, <1>7, <2>2
    <3>2. vs[s] # None /\ conf[s] \in Setting BY <1>a, <3>1 DEF Reusable
    <3>3. servers[s] \in Server /\ vs[s] = servers[s] BY <1>5, <3>2
    <3>4. /\ next[s] \in Server /\ next[s].runtime = servers[s].runtime
          /\ next[s].group = servers[s].group /\ next[s].healthy = servers[s].healthy
          /\ next[s].failures = servers[s].failures
      BY <3>1, <3>2, <3>3, ReusedIs
    <3>5. count[s] = crashes[s] BY <1>2, <1>7, <3>2, <3>3, <3>4
    <3> QED BY <1>0, <3>3, <3>4, <3>5
  <2> QED BY <2>1, <2>2
<1>8. next = [s \in Sites |-> next[s]] BY <1>2
<1>9. next \in [Sites -> Server \cup {None}]
  <2>1. \A s \in Sites : next[s] \in Server \cup {None} BY <1>6, <1>7
  <2> HIDE DEF next
  <2> QED BY <1>8, <2>1
<1>10. /\ Owned(next) \subseteq Groups
       /\ \A g : g \in Owned(next) <=> g # None /\ \E s \in Sites : next[s] # None /\ next[s].group = g
  <2> HIDE DEF next
  <2> QED BY <1>9, OwnedIs
<1>11. /\ Owned(servers) \subseteq Groups
       /\ \A g : g \in Owned(servers) <=> g # None /\ \E s \in Sites : servers[s] # None /\ servers[s].group = g
  BY <1>0, OwnedIs DEF ServersTyped
<1>12. dying' = dying \cup (Owned(servers) \ Owned(next)) /\ recorded' = Owned(next) BY <1>2
<1>13. PICK gs : gs = Stopped(groups, stopped) OBVIOUS
<1>14. /\ gs \in [Groups -> Group \cup {None}]
       /\ \A g \in Groups : g \notin stopped => gs[g] = groups[g]
       /\ \A g \in Groups : groups[g] = None => gs[g] = None
  <2> HIDE DEF stopped
  <2> QED BY <1>0, <1>13, StoppedIs DEF ServersTyped
<1>15. after = Launched(gs, at) BY <1>2, <1>13
<1>16. /\ after \in [Groups -> Group \cup {None}]
       /\ \A s \in spawned : after[at[s]] # None /\ after[at[s]].state = "booting"
       /\ \A g \in Groups : (\A s \in spawned : at[s] # g) => after[g] = gs[g]
  <2> HIDE DEF after
  <2> QED BY <1>4, <1>14, <1>15, LaunchedIs
<1>17. count \in [Sites -> 0 .. (MaxFailures + 1)]
  <2>1. \A s \in Sites : count[s] \in {crashes[s], 0} BY <1>2
  <2>2. count = [s \in Sites |-> count[s]] BY <1>2
  <2>3. 0 \in 0 .. (MaxFailures + 1) BY Limits
  <2>4. \A s \in Sites : crashes[s] \in 0 .. (MaxFailures + 1) BY <1>0 DEF ServersTyped
  <2>5. \A s \in Sites : count[s] \in 0 .. (MaxFailures + 1) BY <2>1, <2>3, <2>4
  <2> HIDE DEF count
  <2> QED BY <2>2, <2>5
<1>18. ServersTyped'
  BY <1>0, <1>9, <1>10, <1>11, <1>12, <1>16, <1>17 DEF ServersTyped
<1>19. ASSUME NEW s \in Sites, next[s] # None, next[s].group # None, s \notin spawned
       PROVE  /\ next[s].group \in Owned(servers) /\ next[s].group \in Owned(next) /\ next[s].group \in Groups
              /\ next[s].group \notin stopped /\ next[s].group \notin dying
              /\ after[next[s].group] = groups[next[s].group]
  <2>1. servers[s] # None /\ next[s].group = servers[s].group BY <1>7, <1>19
  <2>2. next[s].group \in Owned(servers) /\ next[s].group \in Owned(next) BY <1>10, <1>11, <1>19, <2>1
  <2>3. next[s].group \in Groups /\ next[s].group \notin stopped BY <1>11, <2>2
  <2>4. next[s].group \notin dying BY <1>0, <2>1 DEF Owning
  <2>5. after[next[s].group] = gs[next[s].group] BY <1>4, <1>16, <2>2, <2>3
  <2>6. gs[next[s].group] = groups[next[s].group] BY <1>14, <2>3
  <2> HIDE DEF next, after, stopped
  <2> QED BY <2>2, <2>3, <2>4, <2>5, <2>6
<1>20. Owning'
  <2> HIDE DEF next, after
  <2>1. ASSUME NEW s \in Sites, NEW t \in Sites, next[s] # None, next[t] # None, next[s].group # None,
               next[s].group = next[t].group
        PROVE  s = t
    <3>1. CASE s \in spawned /\ t \in spawned BY <1>3, <1>6, <2>1, <3>1
    <3>2. CASE s \in spawned /\ t \notin spawned BY <1>4, <1>6, <1>19, <2>1, <3>2
    <3>3. CASE s \notin spawned /\ t \in spawned BY <1>4, <1>6, <1>19, <2>1, <3>3
    <3>4. CASE s \notin spawned /\ t \notin spawned BY <1>0, <1>7, <2>1, <3>4 DEF Owning
    <3> QED BY <3>1, <3>2, <3>3, <3>4
  <2>2. ASSUME NEW s \in Sites, next[s] # None
        PROVE  next[s].group \notin dying'
    <3>1. CASE s \in spawned BY <1>4, <1>6, <1>12, <3>1
    <3>2. CASE s \notin spawned /\ next[s].group # None BY <1>12, <1>19, <2>2, <3>2
    <3>3. CASE s \notin spawned /\ next[s].group = None
      BY <1>0, <1>11, <1>12, <3>3 DEF ServersTyped
    <3> QED BY <3>1, <3>2, <3>3
  <2>3. next = servers' BY DEF next
  <2> QED BY <2>1, <2>2, <2>3 DEF Owning
<1>21. ASSUME NEW s \in Sites, next[s] # None
       PROVE  Idle(s) \/ Started(s) \/ Kept(s)
  <2>1. CASE s \in spawned
    <3>1. /\ next[s].group \in Groups /\ next[s].healthy = FALSE /\ next[s].failures = 0 /\ count[s] = 0
          /\ after[next[s].group] # None /\ after[next[s].group].state = "booting"
      <4>1. /\ next[s].group = at[s] /\ next[s].healthy = FALSE /\ next[s].failures = 0 /\ count[s] = 0
        BY <1>6, <2>1
      <4>2. at[s] \in Groups /\ after[at[s]] # None /\ after[at[s]].state = "booting"
        BY <1>4, <1>16, <2>1
      <4> HIDE DEF next, after, count
      <4> QED BY <4>1, <4>2
    <3>2. 0 < MaxFailures BY Limits
    <3>3. Started(s) BY <3>1, <3>2 DEF Started
    <3> QED BY <3>3
  <2>2. CASE s \notin spawned /\ next[s].group # None
    <3>1. Kept(s) BY <1>7, <1>19, <1>21, <2>2 DEF Kept
    <3> QED BY <3>1
  <2>3. CASE s \notin spawned /\ next[s].group = None
    <3>1. crashes[s] = servers[s].failures /\ ~servers[s].healthy
      BY <1>0, <1>7, <1>21, <2>3 DEF EndsCounted, RunsOK, Ends
    <3>2. Idle(s) BY <1>7, <1>21, <2>3, <3>1 DEF Idle, Server
    <3> QED BY <3>2
  <2> QED BY <2>1, <2>2, <2>3
<1>22. ASSUME NoStray, NEW g \in Groups, after[g] # None
       PROVE  g \in Owned(next) \cup dying'
  <2>1. CASE \E s \in spawned : at[s] = g
    <3>1. PICK s \in spawned : at[s] = g BY <2>1
    <3>2. s \in Sites /\ next[s] # None /\ next[s].group = g BY <1>4, <1>6, <3>1
    <3> QED BY <1>0, <1>10, <3>2
  <2>2. CASE \A s \in spawned : at[s] # g
    <3>1. groups[g] # None BY <1>14, <1>16, <1>22, <2>2
    <3>2. g \in Owned(servers) \cup dying BY <1>22, <3>1 DEF NoStray
    <3> QED BY <1>12, <3>2
  <2> QED BY <2>1, <2>2
<1> QED BY <1>12, <1>18, <1>20, <1>21, <1>22 DEF NoStray

(* A restart on purpose gives up the group a server is in, and settles its   *)
(* account: `Parted` says which group is left to clean up.                   *)
Parted(s, group) == group = servers[s].group \/ (group = None /\ ~Alive(servers[s]))

LEMMA RestartDoes ==
  ASSUME LadderInv, NEW s \in Sites, servers[s] # None,
         NEW group, Parted(s, group), Restart(s, group), recorded' = recorded
  PROVE  /\ ServersTyped' /\ Owning'
         /\ \A t \in Sites : servers'[t] # None => Idle(t) \/ Kept(t)
         /\ NoStray /\ (group = servers[s].group \/ groups[servers[s].group] = None) => NoStray'
<1> DEFINE stopped == {group} \ {None}
           next == servers'
           after == groups'
           count == crashes'
<1>0. /\ ServersTyped /\ Owning /\ RunsOK /\ EndsCounted /\ None \notin Groups /\ None \notin Server
      /\ 0 \in 0 .. (MaxFailures + 1)
  BY TypeSplit, Limits, OctaneAssumption DEF LadderInv
<1>1. /\ servers' = [servers EXCEPT ![s] = Bounced(servers[s])] /\ groups' = Stopped(groups, stopped)
      /\ dying' = dying \cup stopped /\ crashes' = [crashes EXCEPT ![s] = 0]
  BY DEF Restart
<1>2. servers[s] \in Server /\ servers[s].group \in Groups \cup {None}
  <2>1. servers[s] \in Server BY <1>0 DEF ServersTyped
  <2> QED BY <2>1 DEF Server
<1>3. /\ Bounced(servers[s]) \in Server /\ Bounced(servers[s]).group = None
      /\ Bounced(servers[s]).failures = 0 /\ Bounced(servers[s]).healthy = FALSE
  BY <1>2, BouncedIs
<1>4. /\ next \in [Sites -> Server \cup {None}] /\ next[s] = Bounced(servers[s])
      /\ \A t \in Sites : t # s => next[t] = servers[t] /\ count[t] = crashes[t]
      /\ count \in [Sites -> 0 .. (MaxFailures + 1)] /\ count[s] = 0
  BY <1>0, <1>1, <1>3 DEF ServersTyped
<1>5. stopped \subseteq Groups /\ stopped \subseteq {servers[s].group} BY <1>2 DEF Parted
<1>6. /\ after \in [Groups -> Group \cup {None}]
      /\ \A g \in Groups : g \notin stopped => after[g] = groups[g]
      /\ \A g \in Groups : groups[g] = None => after[g] = None
  <2> HIDE DEF stopped
  <2> QED BY <1>0, <1>1, StoppedIs DEF ServersTyped
<1>7. ServersTyped' BY <1>0, <1>1, <1>4, <1>5, <1>6 DEF ServersTyped
<1>8. ASSUME NEW t \in Sites, t # s, next[t] # None
      PROVE  /\ next[t] = servers[t] /\ servers[t] \in Server
             /\ servers[t].group # None =>
                  /\ servers[t].group \in Groups /\ servers[t].group \notin stopped
                  /\ servers[t].group # servers[s].group /\ after[servers[t].group] = groups[servers[t].group]
             /\ servers[t].group \notin dying
  <2>1. next[t] = servers[t] /\ servers[t] \in Server BY <1>0, <1>4, <1>8 DEF ServersTyped
  <2>2. servers[t].group \in Groups \cup {None} BY <2>1 DEF Server
  <2>3. servers[t].group # None => servers[t].group # servers[s].group BY <1>8, <1>0, <2>1 DEF Owning
  <2>4. servers[t].group \notin dying BY <1>0, <1>8, <2>1 DEF Owning
  <2> HIDE DEF next, after, stopped
  <2> QED BY <1>5, <1>6, <2>1, <2>2, <2>3, <2>4
<1>9. Owning'
  <2>1. ASSUME NEW a \in Sites, NEW b \in Sites, next[a] # None, next[b] # None, next[a].group # None,
               next[a].group = next[b].group
        PROVE  a = b
    <3>1. a # s /\ b # s BY <1>3, <1>4, <2>1
    <3>2. next[a] = servers[a] /\ next[b] = servers[b] BY <1>4, <3>1
    <3> QED BY <1>0, <2>1, <3>2 DEF Owning
  <2>2. ASSUME NEW a \in Sites, next[a] # None PROVE next[a].group \notin dying'
    <3>1. None \notin dying /\ None \notin stopped BY <1>0 DEF ServersTyped
    <3>2. CASE a = s BY <1>1, <1>3, <1>4, <3>1, <3>2
    <3>3. CASE a # s
      <4>1. CASE servers[a].group = None BY <1>1, <1>8, <2>2, <3>1, <3>3, <4>1
      <4>2. CASE servers[a].group # None BY <1>1, <1>8, <2>2, <3>3, <4>2
      <4> QED BY <4>1, <4>2
    <3> QED BY <3>2, <3>3
  <2> QED BY <2>1, <2>2 DEF Owning
<1>10. ASSUME NEW t \in Sites, next[t] # None PROVE Idle(t) \/ Kept(t)
  <2>1. CASE t = s
    <3>1. Idle(s) BY <1>3, <1>4 DEF Idle
    <3> QED BY <2>1, <3>1
  <2>2. CASE t # s /\ servers[t].group # None
    <3>1. Kept(t) BY <1>0, <1>4, <1>8, <1>10, <2>2 DEF Kept
    <3> QED BY <3>1
  <2>3. CASE t # s /\ servers[t].group = None
    <3>1. next[t] = servers[t] /\ servers[t] \in Server /\ count[t] = crashes[t]
      BY <1>4, <1>8, <1>10, <2>3
    <3>2. crashes[t] = servers[t].failures /\ ~servers[t].healthy
      BY <1>0, <1>10, <2>3, <3>1 DEF EndsCounted, RunsOK, Ends
    <3>3. Idle(t) BY <2>3, <3>1, <3>2 DEF Idle, Server
    <3> QED BY <3>3
  <2> QED BY <2>1, <2>2, <2>3
<1>11. ASSUME NoStray, group = servers[s].group \/ groups[servers[s].group] = None,
              NEW g \in Groups, after[g] # None
       PROVE  g \in Owned(next) \cup dying'
  <2>1. groups[g] # None BY <1>6, <1>11
  <2>2. g \in Owned(servers) \cup dying BY <1>11, <2>1 DEF NoStray
  <2>3. CASE g \in dying BY <1>1, <2>3
  <2>4. CASE g \in Owned(servers)
    <3>1. PICK t \in Sites : servers[t] # None /\ servers[t].group = g BY <1>0, <2>4, OwnedIs DEF ServersTyped
    <3>2. CASE t = s
      <4>1. group = g /\ g # None BY <1>0, <1>11, <2>1, <3>1, <3>2
      <4> QED BY <1>1, <4>1
    <3>3. CASE t # s
      <4>1. next[t] # None /\ next[t].group = g BY <1>4, <3>1, <3>3
      <4>2. g \in Owned(next) BY <1>0, <1>4, <4>1, OwnedIs
      <4> QED BY <4>2
    <3> QED BY <3>2, <3>3
  <2> QED BY <2>2, <2>3, <2>4
<1> QED BY <1>7, <1>9, <1>10, <1>11 DEF NoStray

-------------------------------------------------------------------------------
(* The supervision pass *)

(* The pass kills what had its grace, charges what it finds ended, starts    *)
(* what may be, and stops what it bounces.                                   *)
LEMMA SuperviseDoes ==
  ASSUME LadderInv, Supervise
  PROVE  /\ ServersTyped' /\ Owning' /\ recorded' = Owned(servers')
         /\ \A s \in Sites : servers'[s] # None => Idle(s) \/ Started(s) \/ Kept(s)
         /\ NoStray /\ HeldRecorded => NoStray'
<1> DEFINE present == {s \in Sites : servers[s] # None}
           failed == {s \in present : servers[s].reloading = "failed"}
           down == {s \in present \ failed : MayStart(servers[s])}
           alive == {s \in present \ failed : Alive(servers[s])}
           seen == [s \in alive |-> Watched(Collected(servers[s]), scans[s])]
           reloads == {s \in alive : Collected(servers[s]).reloading = "no" /\ seen[s].reloading = "running"}
           left == KillDying(groups)
           next == servers'
           after == groups'
           count == crashes'
<1>0. /\ ServersTyped /\ PassTyped /\ Owning /\ RunsOK /\ EndsCounted /\ None \notin Groups /\ None \notin Server
      /\ 0 \in 0 .. (MaxFailures + 1)
  BY TypeSplit, Limits, OctaneAssumption DEF LadderInv
<1>1. PICK spawned \in MaySpawn(down), reloaded \in MaySpawn(reloads) :
        \E at \in Injections(spawned, Free(left, {}, Owned(servers))) :
          LET restarted == failed \cup (reloads \ reloaded)
              stopped == {servers[s].group : s \in restarted} \ {None}
          IN  /\ servers' = [s \in Sites |->
                   CASE s \notin present -> None
                     [] s \in restarted -> Bounced(servers[s])
                     [] s \in spawned -> [Collected(servers[s]) EXCEPT !.group = at[s]]
                     [] s \in down \ spawned ->
                          [Collected(servers[s]) EXCEPT !.failures = @ + 1, !.waiting = TRUE]
                     [] s \in alive \ restarted -> seen[s]
                     [] OTHER -> Reaped(Collected(servers[s]))]
              /\ groups' = Launched(Stopped(left, stopped), at)
              /\ dying' = stopped
              /\ crashes' = [s \in Sites |->
                   CASE s \in restarted -> 0 [] s \in down \ spawned -> crashes[s] + 1 [] OTHER -> crashes[s]]
  BY DEF Supervise
<1> DEFINE restarted == failed \cup (reloads \ reloaded)
           stopped == {servers[s].group : s \in restarted} \ {None}
<1>2. PICK at \in Injections(spawned, Free(left, {}, Owned(servers))) :
        /\ servers' = [s \in Sites |->
             CASE s \notin present -> None
               [] s \in restarted -> Bounced(servers[s])
               [] s \in spawned -> [Collected(servers[s]) EXCEPT !.group = at[s]]
               [] s \in down \ spawned ->
                    [Collected(servers[s]) EXCEPT !.failures = @ + 1, !.waiting = TRUE]
               [] s \in alive \ restarted -> seen[s]
               [] OTHER -> Reaped(Collected(servers[s]))]
        /\ groups' = Launched(Stopped(left, stopped), at)
        /\ dying' = stopped
        /\ crashes' = [s \in Sites |->
             CASE s \in restarted -> 0 [] s \in down \ spawned -> crashes[s] + 1 [] OTHER -> crashes[s]]
  BY <1>1
<1>4. /\ \A s \in Sites : s \in present <=> servers[s] # None
      /\ \A s \in restarted : s \in present
      /\ \A s \in down : s \in present /\ s \notin restarted /\ MayStart(servers[s])
      /\ \A s \in Sites : s \in alive <=> s \in present /\ s \notin failed /\ Alive(servers[s])
      /\ \A s \in Sites : s \in failed => s \in restarted
      /\ \A s \in Sites : s \in down => s \notin alive
      /\ present \subseteq Sites /\ restarted \subseteq Sites /\ alive \subseteq Sites
  <2>1. \A s \in down : s \notin alive BY DEF MayStart, Alive
  <2> QED BY <2>1
<1>5. \A s \in alive : seen[s] = Watched(Collected(servers[s]), scans[s]) OBVIOUS
<1>6. /\ stopped \subseteq {servers[s].group : s \in restarted} /\ None \notin stopped
      /\ \A s \in restarted : servers[s].group # None => servers[s].group \in stopped
      /\ \A g \in stopped : \E s \in restarted : servers[s].group = g
  OBVIOUS
<1>7. recorded' = Owned(next) BY DEF Supervise
<1>8. /\ left \in [Groups -> Group \cup {None}]
      /\ \A g \in Groups : left[g] = IF g \in dying THEN None ELSE groups[g]
  BY <1>0, KilledIs DEF ServersTyped, KillDying
<1>9. /\ servers' = [s \in Sites |->
             CASE s \notin present -> None
               [] s \in restarted -> Bounced(servers[s])
               [] s \in spawned -> [Collected(servers[s]) EXCEPT !.group = at[s]]
               [] s \in down \ spawned ->
                    [Collected(servers[s]) EXCEPT !.failures = @ + 1, !.waiting = TRUE]
               [] s \in alive \ restarted -> seen[s]
               [] OTHER -> Reaped(Collected(servers[s]))]
      /\ crashes' = [s \in Sites |->
             CASE s \in restarted -> 0 [] s \in down \ spawned -> crashes[s] + 1 [] OTHER -> crashes[s]]
      /\ groups' = Launched(Stopped(left, stopped), at) /\ dying' = stopped
  BY <1>2
<1> HIDE DEF present, failed, down, alive, seen, reloads, left, restarted, stopped
<1>3. /\ spawned \subseteq down /\ at \in [spawned -> Free(left, {}, Owned(servers))]
      /\ \A s, t \in spawned : at[s] = at[t] => s = t
  BY SpawnedAre
<1>10. ASSUME NEW s \in Sites
       PROVE  /\ next[s] =
                   CASE s \notin present -> None
                     [] s \in restarted -> Bounced(servers[s])
                     [] s \in spawned -> [Collected(servers[s]) EXCEPT !.group = at[s]]
                     [] s \in down \ spawned ->
                          [Collected(servers[s]) EXCEPT !.failures = @ + 1, !.waiting = TRUE]
                     [] s \in alive \ restarted -> seen[s]
                     [] OTHER -> Reaped(Collected(servers[s]))
              /\ count[s] =
                   CASE s \in restarted -> 0 [] s \in down \ spawned -> crashes[s] + 1 [] OTHER -> crashes[s]
  BY <1>9
<1>11. next = [s \in Sites |-> next[s]] /\ count = [s \in Sites |-> count[s]]
  <2> DEFINE server(s) ==
               CASE s \notin present -> None
                 [] s \in restarted -> Bounced(servers[s])
                 [] s \in spawned -> [Collected(servers[s]) EXCEPT !.group = at[s]]
                 [] s \in down \ spawned ->
                      [Collected(servers[s]) EXCEPT !.failures = @ + 1, !.waiting = TRUE]
                 [] s \in alive \ restarted -> seen[s]
                 [] OTHER -> Reaped(Collected(servers[s]))
             crash(s) ==
               CASE s \in restarted -> 0 [] s \in down \ spawned -> crashes[s] + 1 [] OTHER -> crashes[s]
  <2>1. next = [s \in Sites |-> server(s)] /\ count = [s \in Sites |-> crash(s)] BY <1>9
  <2> HIDE DEF server, crash
  <2> QED BY <2>1
<1> HIDE DEF next, count, after
<1>12. ASSUME NEW s \in Sites
       PROVE  /\ s \notin present => next[s] = None
              /\ s \in restarted => next[s] = Bounced(servers[s]) /\ count[s] = 0
              /\ s \in spawned =>
                   next[s] = [Collected(servers[s]) EXCEPT !.group = at[s]] /\ count[s] = crashes[s]
              /\ s \in down /\ s \notin spawned =>
                   /\ next[s] = [Collected(servers[s]) EXCEPT !.failures = @ + 1, !.waiting = TRUE]
                   /\ count[s] = crashes[s] + 1
              /\ s \in alive /\ s \notin restarted => next[s] = seen[s] /\ count[s] = crashes[s]
              /\ s \in present /\ s \notin restarted /\ s \notin down /\ s \notin alive =>
                   next[s] = Reaped(Collected(servers[s])) /\ count[s] = crashes[s]
              /\ s \notin present => count[s] = crashes[s]
  <2>1. /\ s \in restarted => s \in present
        /\ s \in spawned => s \in down /\ s \in present /\ s \notin restarted
        /\ s \in down => s \in present /\ s \notin restarted /\ s \notin alive
    BY <1>3, <1>4
  <2>9. s \in alive => s \in present BY <1>4
  <2>2. s \notin present => next[s] = None BY <1>10, <2>1, <2>9
  <2>3. s \notin present => count[s] = crashes[s] BY <1>10, <2>1
  <2>4. s \in restarted => next[s] = Bounced(servers[s]) /\ count[s] = 0 BY <1>10, <2>1
  <2>5. s \in spawned =>
          next[s] = [Collected(servers[s]) EXCEPT !.group = at[s]] /\ count[s] = crashes[s]
    BY <1>10, <2>1
  <2>6. s \in down /\ s \notin spawned =>
          /\ next[s] = [Collected(servers[s]) EXCEPT !.failures = @ + 1, !.waiting = TRUE]
          /\ count[s] = crashes[s] + 1
    BY <1>10, <2>1
  <2>7. s \in alive /\ s \in present /\ s \notin restarted => next[s] = seen[s] /\ count[s] = crashes[s]
    BY <1>10, <2>1
  <2>8. s \in present /\ s \notin restarted /\ s \notin down /\ s \notin alive =>
          next[s] = Reaped(Collected(servers[s])) /\ count[s] = crashes[s]
    BY <1>10, <2>1
  <2> QED BY <2>2, <2>3, <2>4, <2>5, <2>6, <2>7, <2>8, <2>9
<1> DEFINE grown(v) == [v EXCEPT !.failures = @ + 1, !.waiting = TRUE]
<1>13. ASSUME NEW s \in Sites, s \in present
       PROVE  LET v == Collected(servers[s]) IN
              /\ servers[s] \in Server /\ v \in Server /\ v.group = servers[s].group
              /\ v.failures = servers[s].failures /\ v.healthy = servers[s].healthy
              /\ servers[s].failures \in 0 .. MaxFailures
  <2>1. servers[s] \in Server BY <1>0, <1>4, <1>13 DEF ServersTyped
  <2> QED BY <2>1, CollectedIs DEF Server
<1>14. ASSUME NEW s \in spawned
       PROVE  /\ s \in Sites /\ at[s] \in Groups /\ left[at[s]] = None /\ at[s] \notin Owned(servers)
              /\ next[s] \in Server /\ next[s] # None /\ next[s].group = at[s] /\ next[s].healthy = FALSE
              /\ next[s].failures < MaxFailures /\ count[s] = next[s].failures /\ count[s] = crashes[s]
  <2>1. /\ s \in down /\ s \in Sites /\ s \in present /\ at[s] \in Groups
        /\ left[at[s]] = None /\ at[s] \notin Owned(servers)
    BY <1>3, <1>4 DEF Free
  <2>2. /\ servers[s] # None /\ servers[s].group = None /\ servers[s].failures < MaxFailures
        /\ ~servers[s].healthy /\ crashes[s] = servers[s].failures
    BY <1>0, <1>4, <2>1 DEF MayStart, RunsOK, EndsCounted, Ends
  <2>3. PICK v \in Server : /\ v = Collected(servers[s]) /\ v.failures = servers[s].failures
                            /\ v.healthy = servers[s].healthy
    BY <1>13, <2>1
  <2>4. next[s] = [v EXCEPT !.group = at[s]] /\ count[s] = crashes[s] BY <1>12, <2>1, <2>3
  <2>5. v.healthy = FALSE BY <2>2, <2>3 DEF Server
  <2>6. /\ next[s] \in Server /\ next[s].group = at[s] /\ next[s].failures = v.failures
        /\ next[s].healthy = v.healthy
    BY <2>1, <2>4 DEF Server
  <2> QED BY <1>0, <2>1, <2>2, <2>3, <2>4, <2>5, <2>6
<1>15. ASSUME NEW s \in Sites, s \in present, s \notin spawned
       PROVE  /\ next[s] \in Server
              /\ \/ next[s].group = None /\ next[s].healthy = FALSE /\ count[s] = next[s].failures
                                       /\ (s \in restarted \/ ~Alive(servers[s]))
                 \/ /\ s \notin restarted /\ servers[s].group # None /\ next[s].group = servers[s].group
                    /\ next[s].healthy = servers[s].healthy /\ count[s] = crashes[s]
                    /\ \/ next[s].failures = servers[s].failures
                       \/ Alive(servers[s]) /\ servers[s].healthy /\ next[s].failures = 0
  <2>1. PICK v \in Server : /\ v = Collected(servers[s]) /\ v.failures = servers[s].failures
                            /\ v.healthy = servers[s].healthy /\ v.group = servers[s].group
    BY <1>13, <1>15
  <2>2. servers[s] \in Server /\ servers[s] # None /\ servers[s].failures \in 0 .. MaxFailures
    BY <1>4, <1>13, <1>15
  <2>3. /\ crashes[s] = Ends(servers[s])
        /\ servers[s].group = None => servers[s].healthy = FALSE
        /\ servers[s].group # None => servers[s].failures < MaxFailures
    BY <1>0, <2>2 DEF EndsCounted, RunsOK, Server
  <2>4. CASE s \in restarted BY <1>12, <2>2, <2>4, BouncedIs DEF Server
  <2>5. CASE s \in down /\ s \notin restarted
    <3>1. next[s] = grown(v) /\ count[s] = crashes[s] + 1 BY <1>12, <1>15, <2>1, <2>5
    <3>2. servers[s].group = None /\ servers[s].failures < MaxFailures BY <1>4, <2>5 DEF MayStart
    <3>3. MaxFailures \in Nat BY Limits
    <3>4. v.failures + 1 \in 0 .. MaxFailures BY <2>1, <2>2, <3>2, <3>3
    <3>5. /\ grown(v) \in Server /\ grown(v).group = v.group /\ grown(v).healthy = v.healthy
          /\ grown(v).failures = v.failures + 1
      BY <3>4 DEF Server
    <3>6. crashes[s] = servers[s].failures BY <2>3, <3>2 DEF Ends
    <3> HIDE DEF grown
    <3>7. ~Alive(servers[s]) BY <3>2 DEF Alive
    <3> QED BY <2>1, <2>3, <3>1, <3>2, <3>5, <3>6, <3>7
  <2>6. CASE s \in alive /\ s \notin restarted
    <3>1. next[s] = Watched(v, scans[s]) /\ count[s] = crashes[s] BY <1>5, <1>12, <2>1, <2>6
    <3>2. Alive(servers[s]) /\ servers[s].group # None BY <1>4, <2>6 DEF Alive
    <3>3. scans[s] \in Edits \cup {None} BY <1>0 DEF PassTyped
    <3>4. /\ next[s] \in Server /\ next[s].group = v.group /\ next[s].healthy = v.healthy
          /\ next[s].failures = IF v.healthy THEN 0 ELSE v.failures
      BY <3>1, <3>3, WatchedIs
    <3> QED BY <2>1, <2>6, <3>1, <3>2, <3>4
  <2>7. CASE s \notin restarted /\ s \notin down /\ s \notin alive
    <3>1. next[s] = Reaped(v) /\ count[s] = crashes[s] BY <1>12, <1>15, <2>1, <2>7
    <3>2. ~Alive(servers[s]) BY <1>4, <1>15, <2>7
    <3>3. /\ next[s] \in Server /\ next[s].group = None
          /\ v.group = None => next[s] = v
          /\ v.group # None => /\ next[s].failures = IF v.healthy THEN 1 ELSE v.failures + 1
                               /\ ~next[s].healthy
      BY <2>1, <2>3, <3>1, ReapedIs
    <3>4. CASE v.group = None
      <4>1. crashes[s] = servers[s].failures BY <2>1, <2>3, <3>4 DEF Ends
      <4> QED BY <2>1, <2>3, <3>1, <3>2, <3>3, <3>4, <4>1
    <3>5. CASE v.group # None
      <4>1. crashes[s] = next[s].failures BY <2>1, <2>3, <3>2, <3>3, <3>5 DEF Ends
      <4>2. next[s].healthy = FALSE BY <3>3, <3>5 DEF Server
      <4> QED BY <3>1, <3>2, <3>3, <4>1, <4>2
    <3> QED BY <3>4, <3>5
  <2> QED BY <2>4, <2>5, <2>6, <2>7
<1>16. /\ next \in [Sites -> Server \cup {None}]
       /\ \A s \in Sites : next[s] # None => next[s] \in Server
  <2>1. \A s \in Sites : next[s] \in Server \cup {None} BY <1>12, <1>14, <1>15
  <2> QED BY <1>11, <2>1
<1>17. count \in [Sites -> 0 .. (MaxFailures + 1)]
  <2>1. ASSUME NEW s \in Sites PROVE count[s] \in 0 .. (MaxFailures + 1)
    <3>0. MaxFailures \in Nat /\ crashes[s] \in 0 .. (MaxFailures + 1) BY <1>0, Limits DEF ServersTyped
    <3>1. CASE s \notin present BY <1>12, <3>0, <3>1
    <3>2. CASE s \in spawned BY <1>14, <3>0, <3>2
    <3>3. CASE s \in present /\ s \notin spawned
      <4>1. next[s].failures \in 0 .. MaxFailures BY <1>15, <3>3 DEF Server
      <4>2. count[s] = next[s].failures \/ count[s] = crashes[s] BY <1>15, <3>3
      <4> QED BY <3>0, <4>1, <4>2
    <3> QED BY <3>1, <3>2, <3>3
  <2> QED BY <1>11, <2>1
<1>18. /\ Owned(next) \subseteq Groups
       /\ \A g : g \in Owned(next) <=> g # None /\ \E s \in Sites : next[s] # None /\ next[s].group = g
  BY <1>16, OwnedIs
<1>19. /\ Owned(servers) \subseteq Groups
       /\ \A g : g \in Owned(servers) <=> g # None /\ \E s \in Sites : servers[s] # None /\ servers[s].group = g
  BY <1>0, OwnedIs DEF ServersTyped
<1>20. stopped \subseteq Owned(servers) BY <1>4, <1>6, <1>19
<1>21. PICK gs : gs = Stopped(left, stopped) OBVIOUS
<1>22. /\ gs \in [Groups -> Group \cup {None}]
       /\ \A g \in Groups : g \notin stopped => gs[g] = left[g]
       /\ \A g \in Groups : left[g] = None => gs[g] = None
  BY <1>8, <1>21, StoppedIs
<1>23. after = Launched(gs, at) BY <1>9, <1>21 DEF after
<1>24. spawned \in SUBSET Sites /\ at \in [spawned -> Groups] BY <1>3, <1>4 DEF Free
<1>25. /\ after \in [Groups -> Group \cup {None}]
       /\ \A s \in spawned : after[at[s]] # None /\ after[at[s]].state = "booting"
       /\ \A g \in Groups : (\A s \in spawned : at[s] # g) => after[g] = gs[g]
  BY <1>22, <1>23, <1>24, LaunchedIs
<1>26. next = servers' /\ count = crashes' /\ after = groups' BY DEF next, count, after
<1>27. ServersTyped'
  BY <1>7, <1>9, <1>16, <1>17, <1>18, <1>19, <1>20, <1>25, <1>26 DEF ServersTyped
(* One that stays in its group is not stopped, and its group is not touched. *)
<1>28. ASSUME NEW s \in Sites, s \in present, s \notin restarted, servers[s].group # None
       PROVE  /\ servers[s].group \in Groups /\ servers[s].group \in Owned(servers)
              /\ servers[s].group \notin stopped /\ servers[s].group \notin dying
              /\ after[servers[s].group] = groups[servers[s].group]
  <2>1. servers[s] # None BY <1>4, <1>28
  <2>2. servers[s].group \in Owned(servers) /\ servers[s].group \in Groups BY <1>19, <1>28, <2>1
  <2>3. servers[s].group \notin stopped
    <3>1. SUFFICES ASSUME servers[s].group \in stopped PROVE FALSE OBVIOUS
    <3>2. PICK t \in restarted : servers[t].group = servers[s].group BY <1>6, <3>1
    <3>3. t \in Sites /\ servers[t] # None BY <1>4, <3>2
    <3>4. t = s BY <1>0, <1>28, <2>1, <3>2, <3>3 DEF Owning
    <3> QED BY <1>28, <3>4
  <2>4. servers[s].group \notin dying BY <1>0, <2>1 DEF Owning
  <2>5. after[servers[s].group] = gs[servers[s].group] BY <1>14, <1>25, <2>2
  <2>6. gs[servers[s].group] = left[servers[s].group] BY <1>22, <2>2, <2>3
  <2>7. left[servers[s].group] = groups[servers[s].group] BY <1>8, <2>2, <2>4
  <2> QED BY <2>2, <2>3, <2>4, <2>5, <2>6, <2>7
<1>29. ASSUME NEW s \in Sites, next[s] # None, s \notin spawned, next[s].group # None
       PROVE  /\ s \in present /\ s \notin restarted /\ servers[s] # None /\ servers[s].group # None
              /\ next[s].group = servers[s].group /\ next[s].healthy = servers[s].healthy
              /\ count[s] = crashes[s]
              /\ \/ next[s].failures = servers[s].failures
                 \/ Alive(servers[s]) /\ servers[s].healthy /\ next[s].failures = 0
  <2>1. s \in present /\ servers[s] # None BY <1>4, <1>12, <1>29
  <2> QED BY <1>15, <1>29, <2>1
<1>30. Owning'
  <2>1. ASSUME NEW s \in Sites, NEW t \in Sites, next[s] # None, next[t] # None, next[s].group # None,
               next[s].group = next[t].group
        PROVE  s = t
    <3>a. \A x \in spawned : next[x].group = at[x] /\ at[x] \notin Owned(servers) BY <1>14
    <3>b. \A x \in Sites : next[x] # None /\ next[x].group # None /\ x \notin spawned
                            => next[x].group \in Owned(servers)
      BY <1>28, <1>29
    <3>1. CASE s \in spawned /\ t \in spawned
      <4>1. at[s] = at[t] BY <2>1, <3>1, <3>a
      <4> QED BY <1>3, <3>1, <4>1
    <3>2. CASE s \in spawned /\ t \notin spawned BY <2>1, <3>2, <3>a, <3>b
    <3>3. CASE s \notin spawned /\ t \in spawned BY <2>1, <3>3, <3>a, <3>b
    <3>4. CASE s \notin spawned /\ t \notin spawned BY <1>0, <1>29, <2>1, <3>4 DEF Owning
    <3> QED BY <3>1, <3>2, <3>3, <3>4
  <2>2. ASSUME NEW s \in Sites, next[s] # None
        PROVE  next[s].group \notin stopped
    <3>1. CASE s \in spawned BY <1>14, <1>20, <3>1
    <3>2. CASE s \notin spawned /\ next[s].group # None BY <1>28, <1>29, <2>2, <3>2
    <3>3. CASE next[s].group = None BY <1>6, <3>3
    <3> QED BY <3>1, <3>2, <3>3
  <2> QED BY <1>9, <1>26, <2>1, <2>2 DEF Owning
<1>31. ASSUME NEW s \in Sites, next[s] # None
       PROVE  Idle(s) \/ Started(s) \/ Kept(s)
  <2>1. CASE s \in spawned
    <3>1. at[s] \in Groups /\ after[at[s]] # None /\ after[at[s]].state = "booting" /\ next[s].group = at[s]
      BY <1>14, <1>25, <2>1
    <3>2. after[next[s].group] # None /\ after[next[s].group].state # "alone" /\ next[s].group \in Groups
      BY <3>1
    <3>3. Started(s) BY <1>14, <1>26, <2>1, <3>2 DEF Started
    <3> QED BY <3>3
  <2>2. CASE s \notin spawned /\ next[s].group # None
    <3>1. Kept(s) BY <1>26, <1>28, <1>29, <1>31, <2>2 DEF Kept
    <3> QED BY <3>1
  <2>3. CASE s \notin spawned /\ next[s].group = None
    <3>1. s \in present BY <1>12, <1>31
    <3>2. next[s].healthy = FALSE /\ count[s] = next[s].failures BY <1>15, <2>3, <3>1
    <3>3. Idle(s) BY <1>26, <2>3, <3>2 DEF Idle
    <3> QED BY <3>3
  <2> QED BY <2>1, <2>2, <2>3
<1>32. ASSUME NoStray, HeldRecorded, NEW g \in Groups, after[g] # None
       PROVE  g \in Owned(next) \cup stopped
  <2>1. CASE \E s \in spawned : at[s] = g
    <3>1. PICK s \in spawned : at[s] = g BY <2>1
    <3>2. s \in Sites /\ next[s] # None /\ next[s].group = g BY <1>14, <3>1
    <3> QED BY <1>0, <1>18, <3>2
  <2>2. CASE \A s \in spawned : at[s] # g
    <3>1. left[g] # None BY <1>22, <1>25, <1>32, <2>2
    <3>2. g \notin dying /\ groups[g] # None BY <1>8, <3>1
    <3>3. g \in Owned(servers) BY <1>32, <3>2 DEF NoStray
    <3>4. PICK s \in Sites : servers[s] # None /\ servers[s].group = g /\ g # None BY <1>19, <3>3
    <3>5. CASE s \in restarted BY <1>6, <3>4, <3>5
    <3>6. CASE s \notin restarted
      <4>1. Alive(servers[s]) BY <1>32, <3>2, <3>4 DEF HeldRecorded, Alive
      <4>2. s \in present /\ s \notin spawned BY <1>4, <1>3, <3>4, <4>1 DEF MayStart
      <4>3. next[s] # None /\ next[s].group = g BY <1>0, <1>15, <3>4, <3>6, <4>1, <4>2
      <4> QED BY <1>18, <3>4, <4>3
    <3> QED BY <3>5, <3>6
  <2> QED BY <2>1, <2>2
<1> QED BY <1>7, <1>9, <1>26, <1>27, <1>30, <1>31, <1>32 DEF NoStray

-------------------------------------------------------------------------------
(* Time, processes and files *)

(* A step that leaves every server in its group with its account as it was,  *)
(* and no launcher ended, changes nothing here.                              *)
LEMMA LadderUntouched ==
  ASSUME ServersTyped, Owning, RunsOK, EndsCounted,
         servers' \in [Sites -> Server \cup {None}], groups' \in [Groups -> Group \cup {None}],
         \A s \in Sites : servers'[s] # None =>
           /\ servers[s] # None /\ servers'[s].group = servers[s].group
           /\ servers'[s].failures = servers[s].failures /\ servers'[s].healthy = servers[s].healthy,
         \A s \in Sites : servers[s] # None => servers'[s] # None,
         \A g \in Groups : /\ groups'[g] = None <=> groups[g] = None
                           /\ groups[g] # None => (groups'[g].state = "alone" <=> groups[g].state = "alone"),
         dying' = dying, recorded' = recorded, crashes' = crashes
  PROVE  /\ ServersTyped' /\ Owning' /\ RunsOK' /\ EndsCounted'
         /\ HeldRecorded => HeldRecorded'
         /\ NoStray => NoStray'
<1>1. ServersTyped' BY DEF ServersTyped
<1>2. \A s \in Sites : servers'[s] # None => servers[s].group \in Groups \cup {None}
  BY DEF ServersTyped, Server
<1>3. Owning' BY DEF Owning
<1>4. RunsOK' BY DEF RunsOK
<1>5. ASSUME NEW s \in Sites, servers'[s] # None PROVE crashes'[s] = Ends(servers[s])'
  <2>1. crashes[s] = Ends(servers[s]) BY <1>5 DEF EndsCounted
  <2>2. Alive(servers[s])' <=> Alive(servers[s]) BY <1>2, <1>5 DEF Alive
  <2> QED BY <1>5, <2>1, <2>2 DEF Ends
<1>6. EndsCounted' BY <1>5 DEF EndsCounted
<1>7. ASSUME HeldRecorded PROVE HeldRecorded'
  <2> SUFFICES ASSUME NEW s \in Sites, servers'[s] # None, servers'[s].group # None
               PROVE  /\ servers'[s].group \in recorded'
                      /\ groups'[servers'[s].group] # None => groups'[servers'[s].group].state # "alone"
    BY DEF HeldRecorded
  <2>1. servers[s] # None /\ servers'[s].group = servers[s].group /\ servers[s].group \in Groups BY <1>2
  <2> QED BY <1>7, <2>1 DEF HeldRecorded
<1>8. ASSUME NoStray PROVE NoStray'
  <2> SUFFICES ASSUME NEW g \in Groups, groups'[g] # None PROVE g \in Owned(servers') \cup dying'
    BY DEF NoStray
  <2>1. g \in Owned(servers) \cup dying BY <1>8 DEF NoStray
  <2>2. CASE g \in Owned(servers)
    <3>1. PICK s \in Sites : servers[s] # None /\ servers[s].group = g /\ g # None
      BY <2>2, OwnedIs DEF ServersTyped
    <3>2. servers'[s] # None /\ servers'[s].group = g BY <3>1
    <3> QED BY <3>1, <3>2, OwnedIs
  <2> QED BY <2>1, <2>2
<1> QED BY <1>1, <1>3, <1>4, <1>6, <1>7, <1>8

LEMMA SeasonDoes ==
  ASSUME LadderInv, NEW s \in Sites, Season(s)
  PROVE  /\ ServersTyped' /\ Owning' /\ RunsOK' /\ EndsCounted'
         /\ HeldRecorded => HeldRecorded'
         /\ NoStray => NoStray'
<1>0. ServersTyped /\ Owning /\ RunsOK /\ EndsCounted BY TypeSplit DEF LadderInv
<1>1. /\ servers[s] # None /\ Alive(servers[s])
      /\ servers' = [servers EXCEPT ![s].healthy = TRUE] /\ crashes' = [crashes EXCEPT ![s] = 0]
      /\ groups' = groups /\ dying' = dying /\ recorded' = recorded
  BY DEF Season
<1>2. servers[s] \in Server /\ 0 \in 0 .. (MaxFailures + 1) BY <1>0, <1>1, Limits DEF ServersTyped
<1>3. [servers[s] EXCEPT !.healthy = TRUE] \in Server BY <1>2 DEF Server
<1>4. /\ servers' \in [Sites -> Server \cup {None}] /\ crashes' \in [Sites -> 0 .. (MaxFailures + 1)]
      /\ servers'[s] = [servers[s] EXCEPT !.healthy = TRUE] /\ crashes'[s] = 0
      /\ \A t \in Sites : t # s => servers'[t] = servers[t] /\ crashes'[t] = crashes[t]
  BY <1>0, <1>1, <1>2, <1>3 DEF ServersTyped
<1>5. ServersTyped' BY <1>0, <1>1, <1>4 DEF ServersTyped
<1>6. /\ servers'[s] # None /\ servers'[s].group = servers[s].group
      /\ servers'[s].failures = servers[s].failures /\ servers'[s].healthy = TRUE
  BY <1>2, <1>3, <1>4, OctaneAssumption DEF Server
<1>7. \A t \in Sites : /\ servers'[t] # None <=> servers[t] # None
                       /\ servers'[t] # None => servers'[t].group = servers[t].group
  BY <1>1, <1>4, <1>6
<1>8. Owning' BY <1>0, <1>1, <1>7 DEF Owning
<1>9. RunsOK' /\ EndsCounted'
  <2>1. servers[s].group # None BY <1>1 DEF Alive
  <2>2. ASSUME NEW t \in Sites, servers'[t] # None
        PROVE  /\ IF servers'[t].group = None THEN ~servers'[t].healthy
                                              ELSE servers'[t].failures < MaxFailures
               /\ crashes'[t] = Ends(servers[t])'
    <3>1. CASE t = s
      <4>1. Alive(servers[s])' BY <1>1, <1>6 DEF Alive
      <4>2. servers[s].failures < MaxFailures BY <1>0, <1>1, <2>1 DEF RunsOK
      <4> QED BY <1>4, <1>6, <2>1, <3>1, <4>1, <4>2 DEF Ends
    <3>2. CASE t # s
      <4>1. servers'[t] = servers[t] /\ crashes'[t] = crashes[t] BY <1>4, <3>2
      <4>2. Alive(servers[t])' <=> Alive(servers[t])
        <5>1. groups' = groups BY <1>1
        <5> QED BY <4>1, <5>1 DEF Alive
      <4>3. Ends(servers[t])' = Ends(servers[t]) BY <4>1, <4>2 DEF Ends
      <4> QED BY <1>0, <2>2, <4>1, <4>3 DEF RunsOK, EndsCounted
    <3> QED BY <3>1, <3>2
  <2> QED BY <2>2 DEF RunsOK, EndsCounted
<1>10. HeldRecorded => HeldRecorded' BY <1>1, <1>7 DEF HeldRecorded
<1>11. Owned(servers') = Owned(servers) BY <1>7 DEF Owned
<1>12. NoStray => NoStray' BY <1>1, <1>11 DEF NoStray
<1> QED BY <1>5, <1>8, <1>9, <1>10, <1>12

(* The end of a launcher is charged to the server that holds its group.      *)
LEMMA CountsDoes ==
  ASSUME LadderInv, NEW g \in Groups, groups[g] # None, Counts(g),
         NEW end, end = None \/ (end \in Group /\ end.state = "alone"),
         groups' = [groups EXCEPT ![g] = end],
         servers' = servers, dying' = dying, recorded' = recorded
  PROVE  /\ ServersTyped' /\ Owning' /\ RunsOK' /\ EndsCounted'
         /\ end = None /\ HeldRecorded => HeldRecorded'
         /\ NoStray => NoStray'
<1>0. /\ ServersTyped /\ Owning /\ RunsOK /\ EndsCounted /\ None \notin Groups /\ MaxFailures \in Nat
  BY TypeSplit, Limits, OctaneAssumption DEF LadderInv
<1>1. /\ groups' \in [Groups -> Group \cup {None}] /\ groups'[g] = end
      /\ \A h \in Groups : h # g => groups'[h] = groups[h]
  BY <1>0 DEF ServersTyped
<1> DEFINE count == crashes'
<1>2. \A s \in Sites : count[s] =
        IF servers[s] # None /\ servers[s].group = g /\ Alive(servers[s])
        THEN IF servers[s].healthy THEN 1 ELSE crashes[s] + 1
        ELSE crashes[s]
  BY DEF Counts
<1>3. count = [s \in Sites |-> count[s]] BY DEF Counts
<1> HIDE DEF count
<1>4. ASSUME NEW s \in Sites, servers[s] # None, servers[s].group = g, Alive(servers[s])
      PROVE  /\ servers[s].failures < MaxFailures /\ servers[s].failures \in 0 .. MaxFailures
             /\ crashes[s] = IF servers[s].healthy THEN 0 ELSE servers[s].failures
             /\ count[s] = IF servers[s].healthy THEN 1 ELSE crashes[s] + 1
  <2>1. servers[s].failures \in 0 .. MaxFailures BY <1>0, <1>4 DEF ServersTyped, Server
  <2>2. servers[s].failures < MaxFailures BY <1>0, <1>4 DEF RunsOK
  <2>3. crashes[s] = IF servers[s].healthy THEN 0 ELSE servers[s].failures
    BY <1>0, <1>4 DEF EndsCounted, Ends
  <2> QED BY <1>2, <1>4, <2>1, <2>2, <2>3
<1>5. ASSUME NEW s \in Sites PROVE count[s] \in 0 .. (MaxFailures + 1)
  <2>1. crashes[s] \in 0 .. (MaxFailures + 1) BY <1>0 DEF ServersTyped
  <2>2. CASE servers[s] # None /\ servers[s].group = g /\ Alive(servers[s])
    <3>1. crashes[s] + 1 \in 0 .. (MaxFailures + 1) /\ 1 \in 0 .. (MaxFailures + 1)
      BY <1>0, <1>4, <2>1, <2>2
    <3> QED BY <1>4, <2>2, <3>1
  <2>3. CASE ~(servers[s] # None /\ servers[s].group = g /\ Alive(servers[s])) BY <1>2, <2>1, <2>3
  <2> QED BY <2>2, <2>3
<1>6. count \in [Sites -> 0 .. (MaxFailures + 1)] BY <1>3, <1>5
<1>7. ServersTyped' /\ Owning' /\ RunsOK'
  <2>1. count = crashes' BY DEF count
  <2> QED BY <1>0, <1>1, <1>6, <2>1 DEF ServersTyped, Owning, RunsOK
<1>8. ASSUME NEW s \in Sites, servers[s] # None PROVE count[s] = Ends(servers[s])'
  <2>1. servers[s].group \in Groups \cup {None} /\ crashes[s] = Ends(servers[s])
    BY <1>0, <1>8 DEF ServersTyped, Server, EndsCounted
  <2>2. CASE servers[s].group = g /\ Alive(servers[s])
    <3>1. ~Alive(servers[s])' BY <1>1, <2>2 DEF Alive
    <3>2. Ends(servers[s])' = IF servers[s].healthy THEN 1 ELSE servers[s].failures + 1
      BY <1>0, <2>2, <3>1 DEF Ends
    <3> QED BY <1>4, <1>8, <2>2, <3>2
  <2>3. CASE ~(servers[s].group = g /\ Alive(servers[s]))
    <3>1. Alive(servers[s])' <=> Alive(servers[s]) BY <1>0, <1>1, <2>1, <2>3 DEF Alive
    <3>2. Ends(servers[s])' = Ends(servers[s]) BY <3>1 DEF Ends
    <3> QED BY <1>2, <1>8, <2>1, <2>3, <3>2
  <2> QED BY <2>2, <2>3
<1>9. EndsCounted' BY <1>8 DEF EndsCounted, count
<1>10. end = None /\ HeldRecorded => HeldRecorded'
  <2> SUFFICES ASSUME end = None, HeldRecorded, NEW s \in Sites, servers[s] # None, servers[s].group # None
               PROVE  /\ servers[s].group \in recorded
                      /\ groups'[servers[s].group] # None => groups'[servers[s].group].state # "alone"
    BY DEF HeldRecorded
  <2>1. servers[s].group \in Groups BY <1>0 DEF ServersTyped, Server
  <2> QED BY <1>1, <2>1 DEF HeldRecorded
<1>11. NoStray => NoStray' BY <1>1 DEF NoStray
<1> QED BY <1>7, <1>9, <1>10, <1>11

(* A daemon's first reconcile holds what it starts, and has it on record.    *)
LEMMA BootedDoes ==
  ASSUME NEW conf \in [Sites -> Setting], NEW left \in [Groups -> Group \cup {None}],
         Booted(conf, left), dying' = {}, crashes' = [s \in Sites |-> 0]
  PROVE  /\ ServersTyped' /\ Owning' /\ recorded' = Owned(servers')
         /\ \A s \in Sites : servers'[s] # None => Idle(s) \/ Started(s) \/ Kept(s)
         /\ (\A g \in Groups : left[g] = None) => NoStray'
<1> DEFINE wanted == {s \in Sites : conf[s].runtime # None}
           next == servers'
           after == groups'
<1>0. None \notin Groups /\ None \notin Server /\ 0 \in 0 .. (MaxFailures + 1) /\ 0 < MaxFailures
  BY Limits, OctaneAssumption
<1>1. PICK spawned \in MaySpawn(wanted) : \E at \in Injections(spawned, {g \in Groups : left[g] = None}) :
        /\ servers' = [s \in Sites |-> IF s \in spawned THEN New(conf[s], at[s]) ELSE None]
        /\ groups' = Launched(left, at)
        /\ recorded' = Owned(servers')
  BY DEF Booted
<1>2. PICK at \in Injections(spawned, {g \in Groups : left[g] = None}) :
        /\ servers' = [s \in Sites |-> IF s \in spawned THEN New(conf[s], at[s]) ELSE None]
        /\ groups' = Launched(left, at)
        /\ recorded' = Owned(servers')
  BY <1>1
<1>3. /\ spawned \subseteq wanted /\ at \in [spawned -> {g \in Groups : left[g] = None}]
      /\ \A s, t \in spawned : at[s] = at[t] => s = t
  <2> HIDE DEF wanted
  <2> QED BY SpawnedAre
<1>4. spawned \in SUBSET Sites /\ at \in [spawned -> Groups] BY <1>3
<1>5. ASSUME NEW s \in spawned
      PROVE  /\ next[s] \in Server /\ next[s] # None /\ next[s].group = at[s] /\ at[s] \in Groups
             /\ next[s].failures = 0 /\ next[s].healthy = FALSE
  <2>1. s \in Sites /\ conf[s] \in Setting /\ conf[s].runtime # None /\ at[s] \in Groups BY <1>3, <1>4
  <2>2. next[s] = New(conf[s], at[s]) BY <1>2, <2>1
  <2> QED BY <2>1, <2>2, NewIs DEF Server
<1>6. \A s \in Sites : s \notin spawned => next[s] = None BY <1>2
<1>7. next \in [Sites -> Server \cup {None}]
  <2>1. next = [s \in Sites |-> next[s]] BY <1>2
  <2>2. \A s \in Sites : next[s] \in Server \cup {None} BY <1>5, <1>6
  <2> HIDE DEF next
  <2> QED BY <2>1, <2>2
<1>8. /\ Owned(next) \subseteq Groups
      /\ \A g : g \in Owned(next) <=> g # None /\ \E s \in Sites : next[s] # None /\ next[s].group = g
  <2> HIDE DEF next
  <2> QED BY <1>7, OwnedIs
<1>9. /\ after \in [Groups -> Group \cup {None}]
      /\ \A s \in spawned : after[at[s]] # None /\ after[at[s]].state = "booting"
      /\ \A g \in Groups : (\A s \in spawned : at[s] # g) => after[g] = left[g]
  BY <1>2, <1>4, LaunchedIs
<1>10. ServersTyped' BY <1>0, <1>2, <1>7, <1>8, <1>9 DEF ServersTyped
<1>11. Owning'
  <2>1. ASSUME NEW s \in Sites, NEW t \in Sites, next[s] # None, next[t] # None, next[s].group = next[t].group
        PROVE  s = t
    <3>1. s \in spawned /\ t \in spawned BY <1>6, <2>1
    <3>2. at[s] = at[t] BY <1>5, <2>1, <3>1
    <3> QED BY <1>3, <3>1, <3>2
  <2> QED BY <2>1 DEF Owning
<1>12. ASSUME NEW s \in Sites, next[s] # None PROVE Started(s)
  <2>1. s \in spawned BY <1>6, <1>12
  <2>2. next[s].group = at[s] /\ at[s] \in Groups /\ next[s].failures = 0 /\ next[s].healthy = FALSE BY <1>5, <2>1
  <2>3. after[at[s]] # None /\ after[at[s]].state # "alone" BY <1>9, <2>1
  <2>4. crashes'[s] = 0 OBVIOUS
  <2> QED BY <1>0, <2>2, <2>3, <2>4 DEF Started
<1>13. ASSUME \A g \in Groups : left[g] = None, NEW g \in Groups, after[g] # None
       PROVE  g \in Owned(next)
  <2>1. PICK s \in spawned : at[s] = g BY <1>9, <1>13
  <2>2. s \in Sites /\ next[s] # None /\ next[s].group = g BY <1>4, <1>5, <2>1
  <2> QED BY <1>0, <1>8, <2>2
<1> QED BY <1>2, <1>10, <1>11, <1>12, <1>13 DEF NoStray

-------------------------------------------------------------------------------
(* The steps of Spec *)

(* Requests change a site's settings, or take them back to the saved ones.   *)
LEMMA SettingsStay ==
  ASSUME SettingsTyped, src \in [Sites -> Edits], PassTyped, [Next]_vars
  PROVE  SettingsTyped' /\ (src \in [Sites -> Edits])' /\ PassTyped'
<1> USE DEF settings, pass
<1>1. ASSUME NEW s \in Sites, NEW conf \in Setting, Set(s, conf)
      PROVE  SettingsTyped' /\ (src \in [Sites -> Edits])' /\ PassTyped'
  <2>1. config' = [config EXCEPT ![s] = conf] /\ UNCHANGED <<src, pc, due, scans>> BY <1>1 DEF Set
  <2>2. disk' = disk \/ disk' = config' BY <1>1 DEF Set, SaveFails
  <2>3. config' \in [Sites -> Setting] BY <2>1 DEF SettingsTyped
  <2> QED BY <2>1, <2>2, <2>3 DEF SettingsTyped, PassTyped
<1>2. ASSUME NEW s \in Sites PROVE config[s] \in Setting BY DEF SettingsTyped
<1>3. ASSUME NEW s \in Sites, NEW r \in Runtimes \cup {None}, SetRuntime(s, r)
      PROVE  SettingsTyped' /\ (src \in [Sites -> Edits])' /\ PassTyped'
  <2>1. [config[s] EXCEPT !.runtime = r] \in Setting BY <1>2 DEF Setting
  <2> QED BY <1>1, <1>3, <2>1 DEF SetRuntime
<1>4. ASSUME NEW s \in Sites, NEW on \in BOOLEAN, SetWatch(s, on)
      PROVE  SettingsTyped' /\ (src \in [Sites -> Edits])' /\ PassTyped'
  <2>1. [config[s] EXCEPT !.watch = on] \in Setting BY <1>2 DEF Setting
  <2> QED BY <1>1, <1>4, <2>1 DEF SetWatch
<1>5. CASE Repair BY <1>5 DEF Repair, SettingsTyped, PassTyped
<1>6. CASE Look \/ Supervise BY <1>6 DEF Look, Supervise, NoScans, SettingsTyped, PassTyped
<1>7. ASSUME NEW s \in Sites, Scan(s)
      PROVE  SettingsTyped' /\ (src \in [Sites -> Edits])' /\ PassTyped'
  BY <1>7 DEF Scan, SettingsTyped, PassTyped
<1>8. CASE DaemonRestarts BY <1>8 DEF DaemonRestarts, NoScans, SettingsTyped, PassTyped
<1>9. ASSUME NEW s \in Sites, Edit(s)
      PROVE  SettingsTyped' /\ (src \in [Sites -> Edits])' /\ PassTyped'
  <2>1. src[s] < MaxEdits /\ src' = [src EXCEPT ![s] = src[s] + 1] /\ UNCHANGED <<config, disk, pc, due, scans>>
    BY <1>9 DEF Edit
  <2>2. src[s] + 1 \in Edits
    <3>1. src[s] \in 0 .. MaxEdits BY DEF Edits
    <3> QED BY <2>1, <3>1, Limits DEF Edits
  <2> QED BY <2>1, <2>2 DEF SettingsTyped, PassTyped
<1>10. CASE UNCHANGED <<config, disk, src, pc, due, scans>> BY <1>10 DEF SettingsTyped, PassTyped
<1>11. CASE Reconcile BY <1>11, <1>10 DEF Reconcile
<1>12. ASSUME NEW s \in Sites,
              RestartOctane(s) \/ ReloadOctane(s) \/ Elapse(s) \/ Season(s) \/ Cycle(s) \/ ReloadEnds(s)
                \/ ReloadFails(s)
       PROVE  UNCHANGED <<config, disk, src, pc, due, scans>>
  BY <1>12 DEF RestartOctane, ReloadOctane, Elapse, Season, Cycle, ReloadEnds, ReloadFails
<1>13. ASSUME NEW g \in Groups, Boot(g) \/ Exit(g) \/ LauncherExits(g)
       PROVE  UNCHANGED <<config, disk, src, pc, due, scans>>
  BY <1>13 DEF Boot, Exit, LauncherExits
<1>14. CASE UNCHANGED vars BY <1>10, <1>14 DEF vars
<1> QED BY <1>3, <1>4, <1>5, <1>6, <1>7, <1>8, <1>9, <1>10, <1>11, <1>12, <1>13, <1>14
        DEF Next, Request, Watch

(* Steps that have nothing to do with the ladder or with who holds what.     *)
Unheld ==
  \/ UNCHANGED vars \/ Look
  \/ \E s \in Sites : Scan(s) \/ Edit(s) \/ Elapse(s) \/ Cycle(s) \/ ReloadEnds(s) \/ ReloadFails(s)
                      \/ (ReloadOctane(s) /\ UNCHANGED <<groups, dying, crashes>>
                          /\ servers' = [servers EXCEPT ![s].reloading = "running"])
  \/ \E g \in Groups : Boot(g)
  \/ SaveFails

LEMMA UnheldDoes ==
  ASSUME LadderInv, Unheld
  PROVE  /\ ServersTyped' /\ Owning' /\ RunsOK' /\ EndsCounted'
         /\ HeldRecorded => HeldRecorded'
         /\ NoStray => NoStray'
<1> DEFINE Done == /\ ServersTyped' /\ Owning' /\ RunsOK' /\ EndsCounted'
                   /\ HeldRecorded => HeldRecorded'
                   /\ NoStray => NoStray'
<1>0. /\ ServersTyped /\ Owning /\ RunsOK /\ EndsCounted /\ None \notin Server /\ None \notin Group
      /\ src \in [Sites -> Edits]
      /\ servers \in [Sites -> Server \cup {None}] /\ groups \in [Groups -> Group \cup {None}]
  BY TypeSplit, OctaneAssumption DEF LadderInv, ServersTyped
<1>1. CASE UNCHANGED <<servers, groups, dying, recorded, crashes>>
  BY <1>0, <1>1, LadderUntouched
(* The fields of one server that the ladder does not read. *)
<1>2. ASSUME NEW s \in Sites, NEW w \in Server, servers[s] # None,
             w.group = servers[s].group, w.failures = servers[s].failures, w.healthy = servers[s].healthy,
             servers' = [servers EXCEPT ![s] = w],
             UNCHANGED <<dying, recorded, crashes>>,
             groups' \in [Groups -> Group \cup {None}],
             \A g \in Groups : /\ groups'[g] = None <=> groups[g] = None
                               /\ groups[g] # None => groups'[g].state = groups[g].state
      PROVE  Done
  <2>1. servers' \in [Sites -> Server \cup {None}] BY <1>0, <1>2
  <2>2. \A t \in Sites : servers'[t] # None =>
           /\ servers[t] # None /\ servers'[t].group = servers[t].group
           /\ servers'[t].failures = servers[t].failures /\ servers'[t].healthy = servers[t].healthy
    BY <1>0, <1>2
  <2>3. \A t \in Sites : servers[t] # None => servers'[t] # None BY <1>0, <1>2
  <2>4. \A g \in Groups : /\ groups'[g] = None <=> groups[g] = None
                          /\ groups[g] # None => (groups'[g].state = "alone" <=> groups[g].state = "alone")
    BY <1>2
  <2> QED BY <1>0, <1>2, <2>1, <2>2, <2>3, <2>4, LadderUntouched
<1>3. ASSUME NEW s \in Sites, NEW r \in {"no", "running", "cycled", "ok", "failed"}, servers[s] # None,
             servers' = [servers EXCEPT ![s].reloading = r],
             UNCHANGED <<dying, recorded, crashes>>,
             groups' \in [Groups -> Group \cup {None}],
             \A g \in Groups : /\ groups'[g] = None <=> groups[g] = None
                               /\ groups[g] # None => groups'[g].state = groups[g].state
      PROVE  Done
  <2> DEFINE w == [servers[s] EXCEPT !.reloading = r]
  <2>1. servers[s] \in Server BY <1>0, <1>3
  <2>2. /\ w \in Server /\ w.group = servers[s].group /\ w.failures = servers[s].failures
        /\ w.healthy = servers[s].healthy
    BY <2>1 DEF Server
  <2>3. servers' = [servers EXCEPT ![s] = w] BY <1>3
  <2> HIDE DEF w, Done
  <2> QED BY <1>2, <1>3, <2>2, <2>3
<1>4. ASSUME groups' = groups
      PROVE  \A g \in Groups : /\ groups'[g] = None <=> groups[g] = None
                               /\ groups[g] # None => groups'[g].state = groups[g].state
  BY <1>4
<1>5. ASSUME NEW s \in Sites, Elapse(s) PROVE Done
  <2> DEFINE w == [servers[s] EXCEPT !.waiting = FALSE]
  <2>1. servers[s] # None /\ servers' = [servers EXCEPT ![s] = w] /\ UNCHANGED <<groups, dying, recorded, crashes>>
    BY <1>5 DEF Elapse
  <2>2. servers[s] \in Server BY <1>0, <2>1
  <2>3. /\ w \in Server /\ w.group = servers[s].group /\ w.failures = servers[s].failures
        /\ w.healthy = servers[s].healthy
    BY <2>2 DEF Server
  <2>4. groups' \in [Groups -> Group \cup {None}] BY <1>0, <2>1
  <2> HIDE DEF w, Done
  <2> QED BY <1>2, <1>4, <2>1, <2>3, <2>4
<1>6. ASSUME NEW s \in Sites, Cycle(s) PROVE Done
  <2>1. /\ servers[s] # None /\ Up(servers[s]) /\ servers' = [servers EXCEPT ![s].reloading = "cycled"]
        /\ UNCHANGED <<dying, recorded, crashes>>
        /\ groups' = [groups EXCEPT ![servers[s].group].code = src[s]]
    BY <1>6 DEF Cycle
  <2>2. PICK g : g = servers[s].group OBVIOUS
  <2>3. g \in Groups /\ groups[g] # None /\ groups[g] \in Group /\ src[s] \in Edits
    <3>1. servers[s] \in Server BY <1>0, <2>1
    <3>2. g \in Groups /\ groups[g] # None BY <2>1, <2>2, <3>1 DEF Up, Server
    <3> QED BY <1>0, <3>2
  <2>4. [groups[g] EXCEPT !.code = src[s]] \in Group /\ [groups[g] EXCEPT !.code = src[s]].state = groups[g].state
    BY <2>3 DEF Group
  <2>5. groups' = [groups EXCEPT ![g] = [groups[g] EXCEPT !.code = src[s]]] BY <2>1, <2>2
  <2>6. /\ groups' \in [Groups -> Group \cup {None}]
        /\ \A h \in Groups : /\ groups'[h] = None <=> groups[h] = None
                             /\ groups[h] # None => groups'[h].state = groups[h].state
    BY <1>0, <2>3, <2>4, <2>5
  <2> HIDE DEF Done
  <2> QED BY <1>3, <2>1, <2>6
<1>7. ASSUME NEW s \in Sites, ReloadEnds(s) \/ ReloadFails(s)
             \/ (ReloadOctane(s) /\ UNCHANGED <<groups, dying, crashes>>
                 /\ servers' = [servers EXCEPT ![s].reloading = "running"])
      PROVE  Done
  <2>1. /\ servers[s] # None /\ UNCHANGED <<groups, dying, recorded, crashes>>
        /\ \/ servers' = [servers EXCEPT ![s].reloading = "ok"]
           \/ servers' = [servers EXCEPT ![s].reloading = "failed"]
           \/ servers' = [servers EXCEPT ![s].reloading = "running"]
    BY <1>7 DEF ReloadEnds, ReloadFails, ReloadOctane
  <2>2. groups' \in [Groups -> Group \cup {None}] BY <1>0, <2>1
  <2> HIDE DEF Done
  <2> QED BY <1>3, <1>4, <2>1, <2>2
<1>8. ASSUME NEW g \in Groups, Boot(g) PROVE Done
  <2> DEFINE up == [groups[g] EXCEPT !.state = "up", !.code = src[groups[g].site]]
  <2>1. /\ groups[g] # None /\ groups[g].state = "booting" /\ groups' = [groups EXCEPT ![g] = up]
        /\ UNCHANGED <<servers, dying, recorded, crashes>>
    BY <1>8 DEF Boot
  <2>2. groups[g] \in Group /\ src[groups[g].site] \in Edits BY <1>0, <2>1 DEF Group
  <2>3. up \in Group /\ up.state = "up" BY <2>2 DEF Group
  <2> HIDE DEF up
  <2>4. groups' \in [Groups -> Group \cup {None}] BY <1>0, <2>1, <2>3
  <2>5. \A h \in Groups : /\ groups'[h] = None <=> groups[h] = None
                          /\ groups[h] # None => (groups'[h].state = "alone" <=> groups[h].state = "alone")
    BY <1>0, <2>1, <2>3
  <2> QED BY <1>0, <2>1, <2>4, <2>5, LadderUntouched
<1>9. CASE UNCHANGED vars \/ Look \/ SaveFails \/ \E s \in Sites : Scan(s) \/ Edit(s)
  <2>1. UNCHANGED <<servers, groups, dying, recorded, crashes>> BY <1>9 DEF vars, Look, SaveFails, Scan, Edit
  <2> QED BY <1>1, <2>1
<1> HIDE DEF Done
<1>10. Done BY <1>5, <1>6, <1>7, <1>8, <1>9 DEF Unheld, Done
<1> QED BY <1>10 DEF Done

(* What is held after a step is on record, with its launcher.                *)
LEMMA HeldOn ==
  ASSUME ServersTyped', HeldRecorded,
         \/ /\ recorded' = Owned(servers')
            /\ \A s \in Sites : servers'[s] # None => Idle(s) \/ Started(s) \/ Kept(s)
         \/ /\ recorded' = recorded
            /\ \A s \in Sites : servers'[s] # None => Idle(s) \/ Kept(s)
  PROVE  HeldRecorded'
<1> SUFFICES ASSUME NEW s \in Sites, servers'[s] # None, servers'[s].group # None
             PROVE  /\ servers'[s].group \in recorded'
                    /\ groups'[servers'[s].group] # None => groups'[servers'[s].group].state # "alone"
  BY DEF HeldRecorded
<1>1. servers'[s].group \in Owned(servers') BY OwnedIs DEF ServersTyped
<1>2. Started(s) \/ Kept(s) BY DEF Idle
<1>3. CASE Started(s) /\ recorded' = Owned(servers') BY <1>1, <1>3 DEF Started
<1>4. CASE Kept(s)
  <2>1. /\ servers[s].group \in recorded
        /\ groups[servers[s].group] # None => groups[servers[s].group].state # "alone"
    BY <1>4 DEF Kept, HeldRecorded
  <2> QED BY <1>1, <1>4, <2>1 DEF Kept
<1>5. Started(s) => recorded' = Owned(servers') \/ Kept(s) BY DEF Idle
<1> QED BY <1>2, <1>3, <1>4, <1>5

(* A restart asked for: of a live server, one that cannot be reloaded, or a  *)
(* dead one.                                                                 *)
Restarted(s) ==
  /\ servers[s] # None /\ recorded' = recorded
  /\ \/ Restart(s, servers[s].group)
     \/ ~Alive(servers[s]) /\ Restart(s, None)

Ensured ==
  \/ \E named \in SUBSET Sites : Ensure(config', named, servers) /\ config' \in [Sites -> Setting]
  \/ Ensure(disk, Sites, NoServers)

LEMMA StepCases ==
  ASSUME LadderInv, [Next]_vars
  PROVE  \/ Unheld \/ Ensured \/ Supervise \/ DaemonRestarts
         \/ \E s \in Sites : Restarted(s) \/ Season(s)
         \/ \E g \in Groups : Exit(g) \/ LauncherExits(g)
<1>1. SettingsTyped' /\ SettingsTyped BY SettingsStay, TypeSplit DEF LadderInv
<1>2. ASSUME NEW s \in Sites, NEW conf, Set(s, conf) PROVE Unheld \/ Ensured
  <2>1. CASE SaveFails BY <2>1 DEF Unheld
  <2>2. CASE Ensure(config', {s}, servers) BY <1>1, <2>2 DEF Ensured, SettingsTyped
  <2> QED BY <1>2, <2>1, <2>2 DEF Set
<1>3. ASSUME NEW s \in Sites, (\E r \in Runtimes \cup {None} : SetRuntime(s, r)) \/ (\E on \in BOOLEAN : SetWatch(s, on))
      PROVE  Unheld \/ Ensured
  BY <1>2, <1>3 DEF SetRuntime, SetWatch
<1>4. CASE Reconcile
  <2>1. Ensure(config, Sites, servers) /\ config' = config BY <1>4 DEF Reconcile, settings
  <2>2. Ensure(config', Sites, servers) BY <2>1
  <2> QED BY <1>1, <2>2 DEF Ensured, SettingsTyped
<1>5. CASE Repair BY <1>5 DEF Repair, Ensured
<1>6. ASSUME NEW s \in Sites, RestartOctane(s) PROVE Restarted(s)
  BY <1>6 DEF RestartOctane, Restarted
<1>7. ASSUME NEW s \in Sites, ReloadOctane(s) PROVE Unheld \/ Restarted(s)
  <2>1. servers[s] # None /\ recorded' = recorded BY <1>7 DEF ReloadOctane
  <2>2. \/ servers' = [servers EXCEPT ![s].reloading = "running"] /\ UNCHANGED <<groups, dying, crashes>>
        \/ Restart(s, servers[s].group)
        \/ ~Alive(servers[s]) /\ Restart(s, None)
    BY <1>7 DEF ReloadOctane
  <2> QED BY <1>7, <2>1, <2>2 DEF Unheld, Restarted
<1>8. ASSUME NEW s \in Sites, Scan(s) \/ Edit(s) \/ Elapse(s) \/ Cycle(s) \/ ReloadEnds(s) \/ ReloadFails(s)
      PROVE  Unheld
  BY <1>8 DEF Unheld
<1>9. ASSUME NEW g \in Groups, Boot(g) PROVE Unheld BY <1>9 DEF Unheld
<1>10. CASE UNCHANGED vars \/ Look BY <1>10 DEF Unheld
<1> QED BY <1>3, <1>4, <1>5, <1>6, <1>7, <1>8, <1>9, <1>10 DEF Next, Request, Watch

(* What every step does to the servers, and to the records of who holds what.*)
LEMMA StepDoes ==
  ASSUME LadderInv, [Next]_vars
  PROVE  /\ ServersTyped' /\ Owning' /\ RunsOK' /\ EndsCounted'
         /\ StrayInv /\ ~LateCrash /\ "launcher" \notin Faults => HeldRecorded' /\ NoStray'
<1> DEFINE Counting == ServersTyped' /\ Owning' /\ RunsOK' /\ EndsCounted'
           Holding == StrayInv /\ ~LateCrash /\ "launcher" \notin Faults => HeldRecorded' /\ NoStray'
<1>0. /\ ServersTyped /\ RunsOK /\ EndsCounted /\ SettingsTyped
      /\ groups \in [Groups -> Group \cup {None}] /\ None \notin Groups
  BY TypeSplit, OctaneAssumption DEF LadderInv, ServersTyped
<1>1. StrayInv => HeldRecorded /\ NoStray BY DEF StrayInv
<1>2. CASE Unheld BY <1>1, <1>2, UnheldDoes
<1>3. CASE Ensured
  <2>1. /\ ServersTyped' /\ Owning' /\ recorded' = Owned(servers')
        /\ \A s \in Sites : servers'[s] # None => Idle(s) \/ Started(s) \/ Kept(s)
        /\ NoStray => NoStray'
    <3>1. ASSUME NEW named \in SUBSET Sites, Ensure(config', named, servers), config' \in [Sites -> Setting]
          PROVE  /\ ServersTyped' /\ Owning' /\ recorded' = Owned(servers')
                 /\ \A s \in Sites : servers'[s] # None => Idle(s) \/ Started(s) \/ Kept(s)
                 /\ NoStray => NoStray'
      BY <3>1, EnsureDoes
    <3>2. ASSUME Ensure(disk, Sites, NoServers)
          PROVE  /\ ServersTyped' /\ Owning' /\ recorded' = Owned(servers')
                 /\ \A s \in Sites : servers'[s] # None => Idle(s) \/ Started(s) \/ Kept(s)
                 /\ NoStray => NoStray'
      <4>1. disk \in [Sites -> Setting] BY <1>0 DEF SettingsTyped
      <4> QED BY <3>2, <4>1, EnsureDoes
    <3> QED BY <1>3, <3>1, <3>2 DEF Ensured
  <2>2. RunsOK' /\ EndsCounted' BY <1>0, <2>1, Counted
  <2>3. HeldRecorded => HeldRecorded' BY <2>1, HeldOn
  <2> QED BY <1>1, <2>1, <2>2, <2>3
<1>4. CASE Supervise
  <2>1. /\ ServersTyped' /\ Owning' /\ recorded' = Owned(servers')
        /\ \A s \in Sites : servers'[s] # None => Idle(s) \/ Started(s) \/ Kept(s)
        /\ NoStray /\ HeldRecorded => NoStray'
    BY <1>4, SuperviseDoes
  <2>2. RunsOK' /\ EndsCounted' BY <1>0, <2>1, Counted
  <2>3. HeldRecorded => HeldRecorded' BY <2>1, HeldOn
  <2> QED BY <1>1, <2>1, <2>2, <2>3
<1>5. CASE DaemonRestarts
  <2> DEFINE left == Killed(Stopped(groups, Owned(servers)), recorded)
  <2>1. /\ LateCrash \/ dying = {}
        /\ Booted(disk, left) /\ dying' = {} /\ crashes' = [s \in Sites |-> 0]
    BY <1>5 DEF DaemonRestarts
  <2>2. PICK gs : gs = Stopped(groups, Owned(servers)) OBVIOUS
  <2>3. /\ gs \in [Groups -> Group \cup {None}]
        /\ \A g \in Groups : groups[g] = None => gs[g] = None
    BY <1>0, <2>2, StoppedIs
  <2>4. /\ left \in [Groups -> Group \cup {None}]
        /\ \A g \in Groups : left[g] = IF g \in recorded THEN None ELSE gs[g]
    BY <2>2, <2>3, KilledIs
  <2>5. disk \in [Sites -> Setting] BY <1>0 DEF SettingsTyped
  <2> HIDE DEF left
  <2>6. /\ ServersTyped' /\ Owning' /\ recorded' = Owned(servers')
        /\ \A s \in Sites : servers'[s] # None => Idle(s) \/ Started(s) \/ Kept(s)
        /\ (\A g \in Groups : left[g] = None) => NoStray'
    BY <2>1, <2>4, <2>5, BootedDoes
  <2>7. RunsOK' /\ EndsCounted' BY <1>0, <2>6, Counted
  <2>8. HeldRecorded => HeldRecorded' BY <2>6, HeldOn
  <2>9. ASSUME StrayInv, ~LateCrash PROVE \A g \in Groups : left[g] = None
    <3> SUFFICES ASSUME NEW g \in Groups, g \notin recorded PROVE gs[g] = None BY <2>4
    <3>1. SUFFICES ASSUME groups[g] # None PROVE FALSE BY <2>3
    <3>2. g \in Owned(servers) BY <1>1, <2>1, <2>9, <3>1 DEF NoStray
    <3>3. PICK s \in Sites : servers[s] # None /\ servers[s].group = g /\ g # None
      BY <1>0, <3>2, OwnedIs DEF ServersTyped
    <3> QED BY <1>1, <2>9, <3>3 DEF HeldRecorded
  <2> QED BY <1>1, <2>6, <2>7, <2>8, <2>9
<1>6. ASSUME NEW s \in Sites, Restarted(s) PROVE Counting /\ Holding
  <2>1. PICK group : /\ Restart(s, group)
                     /\ group = servers[s].group \/ (group = None /\ ~Alive(servers[s]))
    BY <1>6 DEF Restarted
  <2>2. servers[s] # None /\ recorded' = recorded /\ Parted(s, group) BY <1>6, <2>1 DEF Restarted, Parted
  <2>3. /\ ServersTyped' /\ Owning'
        /\ \A t \in Sites : servers'[t] # None => Idle(t) \/ Kept(t)
        /\ NoStray /\ (group = servers[s].group \/ groups[servers[s].group] = None) => NoStray'
    BY <2>1, <2>2, RestartDoes
  <2>4. RunsOK' /\ EndsCounted' BY <1>0, <2>3, Counted
  <2>5. HeldRecorded => HeldRecorded' BY <2>2, <2>3, HeldOn
  <2>6. HeldRecorded => group = servers[s].group \/ groups[servers[s].group] = None
    BY <2>1, <2>2 DEF HeldRecorded, Alive
  <2> QED BY <1>1, <2>3, <2>4, <2>5, <2>6
<1>7. ASSUME NEW s \in Sites, Season(s) PROVE Counting /\ Holding
  BY <1>1, <1>7, SeasonDoes
<1>8. ASSUME NEW g \in Groups, Exit(g) PROVE Counting /\ Holding
  <2>1. /\ groups[g] # None /\ Counts(g) /\ groups' = [groups EXCEPT ![g] = None]
        /\ servers' = servers /\ dying' = dying /\ recorded' = recorded
    BY <1>8 DEF Exit
  <2>2. PICK end : end = None OBVIOUS
  <2>3. groups' = [groups EXCEPT ![g] = end] BY <2>1, <2>2
  <2>4. /\ ServersTyped' /\ Owning' /\ RunsOK' /\ EndsCounted'
        /\ end = None /\ HeldRecorded => HeldRecorded'
        /\ NoStray => NoStray'
    BY <2>1, <2>2, <2>3, CountsDoes
  <2> QED BY <1>1, <2>2, <2>4
<1>9. ASSUME NEW g \in Groups, LauncherExits(g) PROVE Counting /\ Holding
  <2>1. /\ "launcher" \in Faults
        /\ groups[g] # None /\ Counts(g) /\ groups' = [groups EXCEPT ![g].state = "alone"]
        /\ servers' = servers /\ dying' = dying /\ recorded' = recorded
    BY <1>9 DEF LauncherExits
  <2>2. PICK end : end = [groups[g] EXCEPT !.state = "alone"] OBVIOUS
  <2>3. groups[g] \in Group BY <1>0, <2>1
  <2>4. end \in Group /\ end.state = "alone" BY <2>2, <2>3 DEF Group
  <2>5. groups' = [groups EXCEPT ![g] = end] BY <2>1, <2>2
  <2>6. ServersTyped' /\ Owning' /\ RunsOK' /\ EndsCounted'
    BY <2>1, <2>4, <2>5, CountsDoes
  <2> QED BY <2>1, <2>6
<1> QED BY <1>2, <1>3, <1>4, <1>5, <1>6, <1>7, <1>8, <1>9, StepCases

LEMMA Start == Init => StrayInv
<1> SUFFICES ASSUME Init PROVE StrayInv OBVIOUS
<1> DEFINE wanted == {s \in Sites : config[s].runtime # None}
<1>0. None \notin Groups /\ None \notin Server /\ None \notin Group /\ 0 \in 0 .. (MaxFailures + 1)
      /\ 0 < MaxFailures /\ 0 \in Edits
  BY Limits, OctaneAssumption
<1>1. /\ config \in [Sites -> Setting] /\ disk = config /\ src = [s \in Sites |-> 0]
      /\ dying = {} /\ pc = "sleep" /\ due = {} /\ scans = NoScans /\ crashes = [s \in Sites |-> 0]
  BY DEF Init
<1>2. PICK at \in Injections(wanted, Groups) :
        /\ servers = [s \in Sites |-> IF s \in DOMAIN at THEN New(config[s], at[s]) ELSE None]
        /\ groups = Launched([g \in Groups |-> None], at)
        /\ recorded = Owned(servers)
  BY DEF Init
<1>3. /\ at \in [wanted -> Groups] /\ DOMAIN at = wanted /\ wanted \in SUBSET Sites
      /\ \A s, t \in wanted : at[s] = at[t] => s = t
  BY DEF Injections
<1>4. ASSUME NEW s \in wanted
      PROVE  /\ s \in Sites /\ servers[s] \in Server /\ servers[s] # None /\ servers[s].group = at[s]
             /\ at[s] \in Groups /\ servers[s].failures = 0 /\ servers[s].healthy = FALSE
  <2>1. s \in Sites /\ config[s] \in Setting /\ config[s].runtime # None /\ at[s] \in Groups BY <1>1, <1>3
  <2>2. servers[s] = New(config[s], at[s]) BY <1>2, <1>3, <2>1
  <2> QED BY <2>1, <2>2, NewIs DEF Server
<1>5. \A s \in Sites : s \notin wanted => servers[s] = None BY <1>2, <1>3
<1> HIDE DEF wanted
<1>6. servers \in [Sites -> Server \cup {None}]
  <2>1. servers = [s \in Sites |-> servers[s]] BY <1>2
  <2>2. \A s \in Sites : servers[s] \in Server \cup {None} BY <1>4, <1>5
  <2> QED BY <2>1, <2>2
<1>7. /\ Owned(servers) \subseteq Groups
      /\ \A g : g \in Owned(servers) <=> g # None /\ \E s \in Sites : servers[s] # None /\ servers[s].group = g
  BY <1>6, OwnedIs
<1>8. PICK none : none = [g \in Groups |-> None] OBVIOUS
<1>9. none \in [Groups -> Group \cup {None}] /\ \A g \in Groups : none[g] = None BY <1>8
<1>10. /\ groups \in [Groups -> Group \cup {None}]
       /\ \A s \in wanted : groups[at[s]] # None /\ groups[at[s]].state = "booting"
       /\ \A g \in Groups : (\A s \in wanted : at[s] # g) => groups[g] = None
  <2>1. groups = Launched(none, at) BY <1>2, <1>8
  <2> QED BY <1>3, <1>9, <2>1, LaunchedIs
<1>11. TypeOK
  BY <1>0, <1>1, <1>2, <1>6, <1>7, <1>10 DEF TypeOK, NoScans
<1>12. Owning
  <2>1. ASSUME NEW s \in Sites, NEW t \in Sites, servers[s] # None, servers[t] # None,
               servers[s].group = servers[t].group
        PROVE  s = t
    <3>1. s \in wanted /\ t \in wanted BY <1>5, <2>1
    <3>2. at[s] = at[t] BY <1>4, <2>1, <3>1
    <3> QED BY <1>3, <3>1, <3>2
  <2> QED BY <1>1, <2>1 DEF Owning
<1>13. ASSUME NEW s \in Sites, servers[s] # None
       PROVE  /\ servers[s].group \in Groups /\ servers[s].failures = 0 /\ servers[s].healthy = FALSE
              /\ crashes[s] = 0 /\ servers[s].group \in recorded
              /\ groups[servers[s].group] # None /\ groups[servers[s].group].state # "alone"
  <2>1. s \in wanted BY <1>5, <1>13
  <2>2. /\ servers[s].group = at[s] /\ at[s] \in Groups /\ servers[s].failures = 0 /\ servers[s].healthy = FALSE
    BY <1>4, <2>1
  <2>3. groups[at[s]] # None /\ groups[at[s]].state # "alone" BY <1>10, <2>1
  <2>4. servers[s].group \in recorded BY <1>0, <1>2, <1>7, <1>13, <2>2
  <2>5. crashes[s] = 0 BY <1>1
  <2> QED BY <2>2, <2>3, <2>4, <2>5
<1>14. RunsOK /\ EndsCounted /\ HeldRecorded
  BY <1>0, <1>13 DEF RunsOK, EndsCounted, HeldRecorded, Ends, Alive
<1>15. ASSUME NEW g \in Groups, groups[g] # None PROVE g \in Owned(servers)
  <2>1. PICK s \in wanted : at[s] = g BY <1>10, <1>15
  <2>2. s \in Sites /\ servers[s] # None /\ servers[s].group = g BY <1>4, <2>1
  <2> QED BY <1>0, <1>7, <2>2
<1>16. NoStray BY <1>15 DEF NoStray
<1> QED BY <1>11, <1>12, <1>14, <1>16 DEF StrayInv, LadderInv

LEMMA LadderStep == LadderInv /\ [Next]_vars => LadderInv'
<1> SUFFICES ASSUME LadderInv, [Next]_vars PROVE LadderInv' OBVIOUS
<1>1. SettingsTyped /\ src \in [Sites -> Edits] /\ PassTyped BY TypeSplit DEF LadderInv
<1>2. SettingsTyped' /\ (src \in [Sites -> Edits])' /\ PassTyped' BY <1>1, SettingsStay
<1>3. ServersTyped' /\ Owning' /\ RunsOK' /\ EndsCounted' BY StepDoes
<1> QED BY <1>2, <1>3, TypeSplitNext DEF LadderInv

LEMMA LadderAlways == Spec => []LadderInv
<1>1. Init => LadderInv BY Start DEF StrayInv
<1> QED BY <1>1, LadderStep, PTL DEF Spec

(* No step, of whichever requests and faults, takes a variable out of its    *)
(* type: the failure count, for one, stays within MAX_FAILURES.              *)
THEOREM Typing == Spec => []TypeOK
<1>1. LadderInv => TypeOK BY DEF LadderInv
<1> QED BY <1>1, LadderAlways, PTL

(* `reconcile` and `ensure_locked` keep a crashing server's ladder, whatever *)
(* ends when, and whatever is asked for in between; every other path starts  *)
(* it anew. Every fault the model has may happen.                            *)
THEOREM LadderCounts == Spec => []LadderExact
<1>1. LadderInv => LadderExact BY DEF LadderInv, EndsCounted, Ends, LadderExact
<1> QED BY <1>1, LadderAlways, PTL

(* Unless a launcher ends and leaves its server behind, or the daemon dies   *)
(* in the grace of a stop, every live process group is one a server of the   *)
(* map holds or one about to be killed: over restarts of the daemon too,     *)
(* whose record is all it has left.                                          *)
THEOREM NoneStray ==
  ASSUME ~LateCrash, "launcher" \notin Faults
  PROVE  Spec => []NoStray
<1>1. StrayInv /\ [Next]_vars => StrayInv'
  <2> SUFFICES ASSUME StrayInv, [Next]_vars PROVE StrayInv' OBVIOUS
  <2>1. LadderInv' BY LadderStep DEF StrayInv
  <2>2. HeldRecorded' /\ NoStray' BY StepDoes DEF StrayInv
  <2> QED BY <2>1, <2>2 DEF StrayInv
<1>2. StrayInv => NoStray BY DEF StrayInv
<1> QED BY Start, <1>1, <1>2, PTL DEF Spec
=================================================================================
